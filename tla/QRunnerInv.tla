----------------------------- MODULE QRunnerInv -----------------------------
(***************************************************************************)
(* The inductive invariant behind PublishedInOrder, PublishedWhole,        *)
(* PartialBlockStaysInTmp and FilteredOnce.                                *)
(*                                                                         *)
(* It follows a key from hand to hand: the save in progress, the .t file,  *)
(* the .q file, the task of the script.  At most one of them has the key   *)
(* at a time (a save shares it with the .t file of its own name), and      *)
(* whoever has it knows a count that bounds the blocks stored under it.    *)
(***************************************************************************)
EXTENDS QRunner

\* c is block i of some product named n.
IsPart(c, i, n) == c.blk = i /\ i <= NumBlocks[c.prod] /\ NameOf[c.prod] = n

StoredFor(k, n) == \A i \in Stored(k) : IsPart(data[k][i], i, n)

\* Block i of product p is the last one that was stored under k, and with it
\* at most r different blocks were.
CountedWith(k, p, i, r) ==
  /\ Cardinality(Stored(k) \cup {i}) <= r
  /\ data[k][i] # NoFile => data[k][i].prod = p

\* The last block of some product was stored under k.
ReleasedWith(k, r) == \E p \in Product : CountedWith(k, p, NumBlocks[p], r)

\* Who has key k.
SaveHas(k) == pc # "idle" /\ efq.key = k
THas(k, n) == tfile[n] \in QInfo /\ tfile[n].key = k
QHas(k, n) == qfile[n] \in QInfo /\ qfile[n].key = k
TaskHas(k) == cur # NoFile /\ cur.key = k

\* The save has stored its block.
Counting == pc \in {"qinfo", "unlink", "writeq", "renameq"}

SaveInv(k) ==
  SaveHas(k) =>
    /\ StoredFor(k, name) /\ asm[k] = <<>>
    /\ IF Counting THEN CountedWith(k, pkt.prod, pkt.blk, efq.rcv)
                   ELSE Cardinality(Stored(k)) <= efq.rcv
    /\ ~TaskHas(k)
    /\ \A n \in Name :
         /\ ~QHas(k, n)
         /\ THas(k, n) => n = name /\ pc \notin {"writeq", "renameq"}

TInv(k) ==
  \A n \in Name : THas(k, n) =>
    /\ StoredFor(k, n) /\ asm[k] = <<>>
    /\ (SaveHas(k) /\ pc = "qinfo") \/ Cardinality(Stored(k)) <= tfile[n].rcv
    /\ ~TaskHas(k)
    /\ \A m \in Name : ~QHas(k, m) /\ (THas(k, m) => m = n)

QInv(k) ==
  \A n \in Name : QHas(k, n) =>
    /\ StoredFor(k, n) /\ asm[k] = <<>>
    /\ ReleasedWith(k, qfile[n].rcv)
    /\ TaskHas(k) => rpc = "rm" /\ n = cur.name
    /\ \A m \in Name : QHas(k, m) => m = n

\* While the parts are put together, those before idx are in the assembly
\* and the others are still in the data directory.
CatInv(k) ==
  /\ idx \in 1 .. cur.numparts + 1
  /\ Stored(k) = idx .. cur.numparts
  /\ Len(asm[k]) = idx - 1
  /\ \A i \in 1 .. idx - 1 : IsPart(asm[k][i], i, cur.name)
  /\ \E p \in Product :
       /\ NumBlocks[p] <= cur.numparts
       /\ NumBlocks[p] < idx => asm[k][NumBlocks[p]].prod = p
       /\ NumBlocks[p] >= idx => data[k][NumBlocks[p]].prod = p

TaskInv(k) ==
  TaskHas(k) =>
    /\ StoredFor(k, cur.name)
    /\ rpc \in {"rm", "check"} => asm[k] = <<>> /\ ReleasedWith(k, cur.numparts)
    /\ rpc = "cat" => CatInv(k)

KeyInv(k) == SaveInv(k) /\ TInv(k) /\ QInv(k) /\ TaskInv(k)

\* The control state of the two processes.
ControlInv ==
  /\ pc # "idle" => pkt.blk <= NumBlocks[pkt.prod]
  /\ pc = "rename" => tmp[name] = NoFile \/ \E form \in {"exact", "tail"} :
                        tmp[name] = [prod |-> pkt.prod, blk |-> pkt.blk, form |-> form]
  /\ pc \in {"unlink", "writeq", "renameq"} => pkt.blk = NumBlocks[pkt.prod]
  /\ pc = "renameq" => tmp[name] \in {NoFile, Empty, efq}
  /\ (cur # NoFile) <=> rpc \in {"rm", "check", "cat"}
  /\ rpc \in {"check", "cat"} => cur.key # Empty

\* Until a cat fails, the assembly holds no part of a block.
CatWhole ==
  rpc = "cat" /\ rc = 0 /\ cur.key \notin tainted =>
    \A i \in DOMAIN asm[cur.key] : asm[cur.key][i].form # "part"

\* What is queued for the postfilter is in the public directory, where the
\* next file of that name and md5 will find it.
QueuedIsPublic ==
  /\ \A i \in DOMAIN postq : postq[i] \in out
  /\ \A i \in DOMAIN filtered : filtered[i] \in out

\* The invariant that every step preserves.
IInv ==
  /\ TypeOK
  /\ ControlInv
  /\ \A k \in Key \ tainted : KeyInv(k)
  /\ PublishedInOrder
  /\ PublishedWhole
  /\ CatWhole /\ PartialBlockStaysInTmp
  /\ QueuedIsPublic /\ FilteredOnce
=============================================================================
