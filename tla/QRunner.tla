------------------------------ MODULE QRunner ------------------------------
(***************************************************************************)
(* The qrunner script, running beside the writer of the spool.             *)
(*                                                                         *)
(* The main thread of the daemon starts scripts/qrunner.sh.in every        *)
(* qrunperiod seconds unless the last one is still running (per.c,         *)
(* npemwin.c).  The script takes the lock file, purges what is too old,    *)
(* and for each released .q file checks that the blocks are there, puts    *)
(* them together, moves the result to the public directory and queues it   *)
(* for the postfilter.  Each action ends with one command that changes the *)
(* disk, so that the script interleaves with save_emwin_packet as two      *)
(* processes do.                                                           *)
(***************************************************************************)
EXTENDS Spool

CONSTANT
  Headerless  \* text products that do not begin with a WMO heading

ASSUME HeaderAssumption == Headerless \subseteq Product

VARIABLES
  lock,      \* lock/qrunner.lock, which is empty
  rpc,       \* where the script is; "off" when it is not running
  todo,      \* the .q files of the loop's glob that are still to be read
  cur,       \* filename, seqnumkey, rcvparts and numparts
  idx,       \* i
  rc,        \* rc = 1: some cat failed
  out,       \* the public directory
  postq,     \* lock/postfilter.q.$$
  filtered   \* history: what was passed to the postfilter, in order

runnerVars == <<lock, rpc, todo, cur, idx, rc, out, postq, filtered>>
vars == <<spoolVars, runnerVars>>

\* What `read` makes of a .q file.
Task == [name : Name, key : Key \cup {Empty}, rcvparts : Nat, numparts : Nat]

ASSUME TaskAssumption == NoFile \notin Task

\* A file of the public directory.  `clean` is history: the key's bookkeeping
\* was sound when the file was transferred.
File == [name : Name, parts : Seq(Content), clean : BOOLEAN]

RunnerTypeOK ==
  /\ lock \in {NoFile, Empty}
  /\ rpc \in {"off", "purge", "next", "rm", "check", "cat", "post"}
  /\ todo \subseteq Name
  /\ cur \in Task \cup {NoFile}
  /\ idx \in Nat
  /\ rc \in {0, 1}
  /\ out \subseteq File
  /\ postq \in Seq(File) /\ filtered \in Seq(File)

\* Every variable has its type.
TypeOK == SpoolTypeOK /\ RunnerTypeOK

Init ==
  /\ SpoolInit
  /\ lock = NoFile /\ rpc = "off"
  /\ todo = {} /\ cur = NoFile /\ idx = 0
  /\ rc = 0
  /\ out = {} /\ postq = <<>> /\ filtered = <<>>

-----------------------------------------------------------------------------
\* The shell variables die with the script.
Exit ==
  /\ rpc' = "off" /\ todo' = {} /\ cur' = NoFile /\ idx' = 0
  /\ rc' = 0

(* periodic() and runq() start the script; one that finds the lock exits.  *)
Start ==
  /\ rpc = "off" /\ lock = NoFile
  /\ lock' = Empty
  /\ rpc' = "purge"
  /\ UNCHANGED <<spoolVars, todo, cur, idx, rc, out, postq, filtered>>

(* find -cmin | rm: any file of the spool may have become old enough. *)
Purge ==
  /\ rpc = "purge" /\ "purge" \in Faults
  /\ \/ \E n \in Name :
          \/ /\ tfile[n] # NoFile /\ tfile' = [tfile EXCEPT ![n] = NoFile]
             /\ UNCHANGED <<qfile, tmp, data, asm>>
          \/ /\ qfile[n] # NoFile /\ qfile' = [qfile EXCEPT ![n] = NoFile]
             /\ UNCHANGED <<tfile, tmp, data, asm>>
          \/ /\ tmp[n] # NoFile /\ tmp' = [tmp EXCEPT ![n] = NoFile]
             /\ UNCHANGED <<tfile, qfile, data, asm>>
     \/ \E k \in Key :
          \/ \E b \in Stored(k) :
               /\ data' = [data EXCEPT ![k][b] = NoFile]
               /\ UNCHANGED <<tfile, qfile, tmp, asm>>
          \/ /\ asm[k] # <<>> /\ asm' = [asm EXCEPT ![k] = <<>>]
             /\ UNCHANGED <<tfile, qfile, tmp, data>>
  /\ UNCHANGED <<received, crashes, seqnum, pc, pkt, efq, tainted, runnerVars>>

\* for qfile in ${q_dirname}/*.q
Glob == {n \in Name : qfile[n] # NoFile}

\* Mutant: the script leaves without removing the lock.
NothingStaysLocked ==
  /\ rpc = "purge" /\ Glob = {}
  /\ Exit
  /\ UNCHANGED <<spoolVars, lock, out, postq, filtered>>

NothingToProcess ==
  /\ rpc = "purge" /\ Glob = {}
  /\ lock' = NoFile
  /\ Exit
  /\ UNCHANGED <<spoolVars, out, postq, filtered>>

Scan ==
  /\ rpc = "purge" /\ Glob # {}
  /\ todo' = Glob
  /\ rpc' = "next"
  /\ UNCHANGED <<spoolVars, lock, cur, idx, rc, out, postq, filtered>>

-----------------------------------------------------------------------------
(* read filename seqnumkey rcvparts numparts stamp < $qfile.               *)
(* save_emwin_packet prints numblocks before rcvblocks, so that rcvparts   *)
(* gets numblocks and numparts gets rcvblocks.                             *)
TaskOf(n) ==
  IF qfile[n] = Empty
    THEN [name |-> n, key |-> Empty, rcvparts |-> 0, numparts |-> 0]
    ELSE [name |-> n, key |-> qfile[n].key,
          rcvparts |-> qfile[n].num, numparts |-> qfile[n].rcv]

ReadQ(n) ==
  /\ rpc = "next" /\ n \in todo /\ qfile[n] # NoFile
  /\ todo' = todo \ {n}
  /\ cur' = TaskOf(n)
  /\ rpc' = "rm"
  /\ UNCHANGED <<spoolVars, lock, idx, rc, out, postq, filtered>>

(* rm $qfile: whatever is released under that name by now.  Nothing comes  *)
(* of a .q file that was empty.                                            *)
RmQ ==
  /\ rpc = "rm"
  /\ qfile' = [qfile EXCEPT ![cur.name] = NoFile]
  /\ IF cur.key = Empty THEN rpc' = "next" /\ cur' = NoFile
                        ELSE rpc' = "check" /\ cur' = cur
  /\ UNCHANGED <<received, crashes, seqnum, tfile, tmp, data, asm, pc, pkt, efq, tainted,
                 lock, todo, idx, rc, out, postq, filtered>>

\* [ -f ${in_dirname}/$seqnumkey.$i ]
HasPart(k, i) == i \in Block /\ data[k][i] # NoFile

\* Mutant: the loop goes one part too far.
CheckOneMore == \A i \in 1 .. cur.numparts + 1 : HasPart(cur.key, i)

(* The first loop over the parts; a mismatch of the two counts is only     *)
(* logged.                                                                 *)
CheckParts == \A i \in 1 .. cur.numparts : HasPart(cur.key, i)

NotReceived ==
  /\ rpc = "check" /\ ~CheckParts
  /\ rpc' = "next" /\ cur' = NoFile
  /\ UNCHANGED <<spoolVars, lock, todo, idx, rc, out, postq, filtered>>

Assemble ==
  /\ rpc = "check" /\ CheckParts
  /\ rpc' = "cat" /\ idx' = 1 /\ rc' = 0
  /\ UNCHANGED <<spoolVars, lock, todo, cur, out, postq, filtered>>

-----------------------------------------------------------------------------
\* cat $seqnumkey.$i >> $seqnumkey; rm $seqnumkey.$i
CatAppends(part) ==
  /\ asm' = [asm EXCEPT ![cur.key] = Append(@, part)]
  /\ data' = [data EXCEPT ![cur.key][idx] = NoFile]

CatPart ==
  /\ rpc = "cat" /\ idx <= cur.numparts /\ HasPart(cur.key, idx)
  /\ CatAppends(data[cur.key][idx])
  /\ idx' = idx + 1
  /\ UNCHANGED <<received, crashes, seqnum, tfile, qfile, tmp, pc, pkt, efq, tainted,
                 lock, rpc, todo, cur, rc, out, postq, filtered>>

(* A failing cat may have written a part of the block; the block goes too. *)
CatFails ==
  /\ rpc = "cat" /\ idx <= cur.numparts /\ HasPart(cur.key, idx) /\ "cat" \in Faults
  /\ LET c == data[cur.key][idx]
     IN  CatAppends([prod |-> c.prod, blk |-> c.blk, form |-> "part"])
  /\ idx' = idx + 1 /\ rc' = 1
  /\ UNCHANGED <<received, crashes, seqnum, tfile, qfile, tmp, pc, pkt, efq, tainted,
                 lock, rpc, todo, cur, out, postq, filtered>>

(* After a failure the assembly is removed and the loop is left. *)
Abandon ==
  /\ rpc = "cat" /\ idx > cur.numparts /\ rc = 1
  /\ asm' = [asm EXCEPT ![cur.key] = <<>>]
  /\ rpc' = "post" /\ todo' = {} /\ cur' = NoFile /\ idx' = 0 /\ rc' = 0
  /\ UNCHANGED <<received, crashes, seqnum, tfile, qfile, tmp, data, pc, pkt, efq, tainted,
                 lock, out, postq, filtered>>

Assembled == [name |-> cur.name, parts |-> asm[cur.key], clean |-> cur.key \notin tainted]

SameFile(f, g) == f.name = g.name /\ f.parts = g.parts

(* An empty subdir: the first block of a text product has no heading. *)
CorruptedHeader ==
  /\ rpc = "cat" /\ idx > cur.numparts /\ rc = 0
  /\ asm[cur.key][1].prod \in Headerless
  /\ asm' = [asm EXCEPT ![cur.key] = <<>>]
  /\ rpc' = "next" /\ cur' = NoFile /\ idx' = 0
  /\ UNCHANGED <<received, crashes, seqnum, tfile, qfile, tmp, data, pc, pkt, efq, tainted,
                 lock, todo, rc, out, postq, filtered>>

\* Mutant: no look at the files that are already there.
TransferAlways ==
  /\ rpc = "cat" /\ idx > cur.numparts /\ rc = 0
  /\ asm[cur.key][1].prod \notin Headerless
  /\ out' = out \cup {Assembled} /\ postq' = Append(postq, Assembled)
  /\ asm' = [asm EXCEPT ![cur.key] = <<>>]
  /\ rpc' = "next" /\ cur' = NoFile /\ idx' = 0
  /\ UNCHANGED <<received, crashes, seqnum, tfile, qfile, tmp, data, pc, pkt, efq, tainted,
                 lock, todo, rc, filtered>>

(* The file is moved to the public directory under its md5 and queued for  *)
(* the postfilter; when one with the same name and md5 is there already,   *)
(* the new one is removed.                                                 *)
Transfer ==
  /\ rpc = "cat" /\ idx > cur.numparts /\ rc = 0
  /\ asm[cur.key][1].prod \notin Headerless
  /\ IF \E f \in out : SameFile(f, Assembled)
       THEN UNCHANGED <<out, postq>>
       ELSE out' = out \cup {Assembled} /\ postq' = Append(postq, Assembled)
  /\ asm' = [asm EXCEPT ![cur.key] = <<>>]
  /\ rpc' = "next" /\ cur' = NoFile /\ idx' = 0
  /\ UNCHANGED <<received, crashes, seqnum, tfile, qfile, tmp, data, pc, pkt, efq, tainted,
                 lock, todo, rc, filtered>>

LoopEnds ==
  /\ rpc = "next" /\ todo = {}
  /\ rpc' = "post"
  /\ UNCHANGED <<spoolVars, lock, todo, cur, idx, rc, out, postq, filtered>>

(* The postfilter reads the queue; the exit trap removes the lock. *)
Postfilter ==
  /\ rpc = "post"
  /\ filtered' = filtered \o postq
  /\ postq' = <<>>
  /\ lock' = NoFile
  /\ Exit
  /\ UNCHANGED <<spoolVars, out>>

(* SIGKILL or the end of the machine: the trap does not run, the lock and  *)
(* the queue of the postfilter (named after the pid) stay behind.          *)
Kill ==
  /\ rpc # "off" /\ "kill" \in Faults
  /\ Exit
  /\ postq' = <<>>
  /\ UNCHANGED <<spoolVars, lock, out, filtered>>

(* Nothing in the code removes a stale lock; the operator may. *)
OperatorUnlocks ==
  /\ rpc = "off" /\ lock # NoFile
  /\ lock' = NoFile
  /\ UNCHANGED <<spoolVars, rpc, todo, cur, idx, rc, out, postq, filtered>>

-----------------------------------------------------------------------------
\* The key the script is working on.
HeldKeys == IF cur = NoFile THEN {} ELSE {cur.key}

Writer == (Receive(HeldKeys) \/ Save \/ Crash) /\ UNCHANGED runnerVars

Script ==
  \/ Start \/ NothingToProcess \/ Scan
  \/ (\E n \in Name : ReadQ(n)) \/ RmQ
  \/ NotReceived \/ Assemble
  \/ CatPart \/ CatFails \/ Abandon
  \/ CorruptedHeader \/ Transfer
  \/ LoopEnds \/ Postfilter

Next == Writer \/ Script \/ Purge \/ Kill \/ OperatorUnlocks

Spec == Init /\ [][Next]_vars

(* The npemwin thread finishes a save it has begun, and the script, which  *)
(* periodic() starts again and again, finishes its loop.                   *)
FairSpec == Spec /\ WF_vars(Save /\ UNCHANGED runnerVars) /\ WF_vars(Script)

-----------------------------------------------------------------------------
\* Key k is collecting the blocks of a product.
Open(k) ==
  \/ pc # "idle" /\ efq.key = k
  \/ \E n \in Name : tfile[n] \in QInfo /\ tfile[n].key = k

(* No block that was written only in part leaves tmp/<name>.t for the data *)
(* directory or, later, the public one: save_emwin_packet renames the tmp  *)
(* file only after a full write, also when writes fail or the daemon dies. *)
PartialBlockStaysInTmp ==
  /\ \A k \in Key : \A b \in Stored(k) : data[k][b].form # "part"
  /\ \A f \in out : f.clean => \A i \in DOMAIN f.parts : f.parts[i].form # "part"

(* A file of the public directory has block i at place i, and only blocks  *)
(* of products with its own name, as long as its key was not in use when   *)
(* get_seqnum_key gave it out and every block stored was counted.          *)
PublishedInOrder ==
  \A f \in out : f.clean =>
    \A i \in DOMAIN f.parts :
      f.parts[i].blk = i /\ NameOf[f.parts[i].prod] = f.name

(* A file put together from the blocks of one transmission is the whole of *)
(* it.  The script takes the number of blocks counted for the number of    *)
(* parts; that this never cuts a product short rests on the count being at *)
(* least the number of different blocks stored under the key.              *)
PublishedWhole ==
  \A f \in out : f.clean =>
    \A p \in Product :
      (\A i \in DOMAIN f.parts : f.parts[i].prod = p) => Len(f.parts) = NumBlocks[p]

(* The postfilter never gets the same product twice ("the retransmissions  *)
(* will be detected and will not be sent to the filters").                 *)
FilteredOnce ==
  LET queue == filtered \o postq
  IN  \A i, j \in DOMAIN queue : SameFile(queue[i], queue[j]) => i = j

(* Apart from the purge, the script takes no block of a product that       *)
(* save_emwin_packet is still collecting.                                  *)
ScriptSparesOpenProducts ==
  [][Script => \A k \in Key \ tainted : Open(k) => data'[k] = data[k]]_vars

(* "For those files for which all the blocks have been received, it        *)
(* assembles all the blocks" (qrunner.sh.in): a product all of whose       *)
(* blocks are in the data directory passes the check of the parts.         *)
AllReceivedIsAssembled ==
  (rpc = "check" /\ \A i \in 1 .. cur.rcvparts : HasPart(cur.key, i)) => CheckParts

(* "it assembles all the blocks and transfers the files" (qrunner.sh.in):  *)
(* a public file has no block of a product with another name, whatever     *)
(* happened before.                                                        *)
PublishedUnmixed ==
  \A f \in out : \A i \in DOMAIN f.parts : NameOf[f.parts[i].prod] = f.name

(* A released .q file does not stay in the queue. *)
ReleasedIsDrained ==
  \A n \in Name : qfile[n] # NoFile ~> qfile[n] = NoFile

\* All the blocks of p, and nothing else.
Whole(p) == [i \in 1 .. NumBlocks[p] |-> [prod |-> p, blk |-> i, form |-> "exact"]]

\* The script found every block of p under the key it works on.
Taken(p) ==
  /\ rpc = "check" /\ cur.numparts = NumBlocks[p]
  /\ asm[cur.key] = <<>>
  /\ \A i \in 1 .. NumBlocks[p] : data[cur.key][i] = Whole(p)[i]

(* A product that the script finds complete reaches the public directory,  *)
(* unless a cat fails.                                                     *)
TakenIsPublished ==
  \A p \in Product : Taken(p) ~> (rc = 1 \/ \E f \in out : f.parts = Whole(p))

=============================================================================
