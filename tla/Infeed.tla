------------------------------- MODULE Infeed -------------------------------
(***************************************************************************)
(* Files put into the daemon's queue by hand: several npemwininsert        *)
(* (tools/npemwininsert) write the packets of a file each to the fifo that *)
(* the npemwin thread reads (infeed.c, emwin.c).                           *)
(*                                                                         *)
(* After an error, and after a while without packets, the thread closes    *)
(* and removes the fifo; another one is made when its turn in the list of  *)
(* servers comes (ServerList).  An inserter that had opened the old one    *)
(* keeps it: the fifos are numbered.  The thread's descriptor is not closed *)
(* on exec, so that a script the daemon forks (qrunner, the scheduler)      *)
(* keeps the fifo open for reading until it ends.  A packet is Units        *)
(* pieces, the least that write() and read() move.                          *)
(***************************************************************************)
EXTENDS Integers, Sequences

CONSTANTS
  Inserts,    \* runs of npemwininsert
  Files,      \* files they insert, as [size : Nat, named : BOOLEAN]
  DataSize,   \* EMWIN_DATA_SIZE
  MaxNumber,  \* the largest number with the five digits of %-5d
  Units,      \* pieces of a packet
  PipeSize,   \* pieces that the fifo holds
  MaxOpens,   \* bound on the fifos that the thread makes
  None

ASSUME InfeedAssumption ==
  /\ \A f \in Files : f.size \in Nat /\ f.named \in BOOLEAN
  /\ DataSize \in Nat \ {0} /\ MaxNumber \in Nat
  /\ Units \in Nat \ {0} /\ PipeSize \in Nat \ {0} /\ MaxOpens \in Nat
  /\ None \notin Inserts

VARIABLES
  file,       \* the file of each: its size, and whether checkfilename accepts its name
  st,         \* where an inserter is
  fifo,       \* the fifo it opened, 0 before
  part,       \* ep->part_number
  left,       \* pieces of the packet that writef has not written
  lock,       \* fifo -> the inserter with the lock on it
  gen,        \* the last fifo made
  at,         \* where the npemwin thread is
  heir,       \* fifo -> a script inherited it
  pipe,       \* fifo -> what is in it
  buf,        \* what readn() has of a packet
  saved       \* history: the packets saved

vars == <<file, st, fifo, part, left, lock, gen, at, heir, pipe, buf, saved>>
inserters == <<file, st, fifo, part, left, lock>>

-----------------------------------------------------------------------------
\* Mutant: the part that is not full is forgotten.
get_parts_total_down(fsize) == fsize \div DataSize

get_parts_total(fsize) ==
  IF fsize % DataSize # 0 THEN (fsize \div DataSize) + 1 ELSE fsize \div DataSize

get_last_part_size(fsize) ==
  IF fsize % DataSize = 0 THEN DataSize ELSE fsize % DataSize

\* The bytes of the file in part p, as the first and the number of them.
PartData(fsize, p) ==
  [from |-> (p - 1) * DataSize,
   size |-> IF p = get_parts_total(fsize) THEN get_last_part_size(fsize) ELSE DataSize]

-----------------------------------------------------------------------------
InfeedTypeOK ==
  /\ file \in [Inserts -> Files]
  /\ st \in [Inserts -> {"start", "flock", "build", "write", "done", "failed", "killed"}]
  /\ fifo \in [Inserts -> 0 .. MaxOpens]
  /\ part \in [Inserts -> Nat] /\ left \in [Inserts -> 0 .. Units]
  /\ lock \in [1 .. MaxOpens -> Inserts \cup {None}]
  /\ gen \in 0 .. MaxOpens
  /\ at \in {"closed", "read", "save", "bad", "error", "unlink"}
  /\ heir \in [1 .. MaxOpens -> BOOLEAN]
  /\ \A g \in 1 .. MaxOpens : Len(pipe[g]) <= PipeSize
  /\ Len(buf) <= Units

Init ==
  /\ file \in [Inserts -> Files]
  /\ st = [i \in Inserts |-> "start"]
  /\ fifo = [i \in Inserts |-> 0]
  /\ part = [i \in Inserts |-> 0] /\ left = [i \in Inserts |-> 0]
  /\ lock = [g \in 1 .. MaxOpens |-> None]
  /\ gen = 0 /\ at = "closed" /\ buf = <<>> /\ saved = <<>>
  /\ heir = [g \in 1 .. MaxOpens |-> FALSE] /\ pipe = [g \in 1 .. MaxOpens |-> <<>>]

\* The thread has fifo g open.
IsOpen(g) == g = gen /\ at \notin {"closed", "unlink"}
HasReader(g) == IsOpen(g) \/ heir[g]

\* There is a fifo of that name, and it has a reader.
Openable == at # "closed" /\ HasReader(gen)

Holds(i) == fifo[i] # 0 /\ lock[fifo[i]] = i

Go(i, s) == st' = [st EXCEPT ![i] = s]

\* Mutant: the lock of an inserter that is killed stays.
EndLocked(i, s) ==
  /\ Go(i, s) /\ part' = [part EXCEPT ![i] = 0] /\ left' = [left EXCEPT ![i] = 0]
  /\ lock' = IF Holds(i) /\ s # "killed" THEN [lock EXCEPT ![fifo[i]] = None] ELSE lock

(* The inserter ends, and its variables with it.  Its lock goes with its    *)
(* descriptor, whether close_output_fifo() or the kernel closes it.         *)
End(i, s) ==
  /\ Go(i, s) /\ part' = [part EXCEPT ![i] = 0] /\ left' = [left EXCEPT ![i] = 0]
  /\ lock' = IF Holds(i) THEN [lock EXCEPT ![fifo[i]] = None] ELSE lock

(* open_output(): without a fifo, or with one that nobody reads, the open   *)
(* without O_NONBLOCK's wait fails.                                         *)
open_output(i) ==
  /\ st[i] = "start"
  /\ \/ /\ Openable
        /\ Go(i, "flock") /\ fifo' = [fifo EXCEPT ![i] = gen]
     \/ /\ ~Openable
        /\ Go(i, "failed") /\ UNCHANGED fifo
  /\ UNCHANGED <<file, part, left, lock, gen, at, heir, pipe, buf, saved>>

\* init_emwin_packet_st(): the file may not be there.
init_emwin_packet_st(i) ==
  \/ Go(i, "build") /\ lock' = [lock EXCEPT ![fifo[i]] = i] /\ UNCHANGED <<part, left>>
  \/ End(i, "failed")

\* Mutant: the lock is not waited for.
flock_nowait(i) ==
  /\ st[i] = "flock"
  /\ init_emwin_packet_st(i)
  /\ UNCHANGED <<file, fifo, gen, at, heir, pipe, buf, saved>>

\* flock(LOCK_EX), which waits for the inserter that has the lock.
flock(i) ==
  /\ st[i] = "flock"
  /\ lock[fifo[i]] = None
  /\ init_emwin_packet_st(i)
  /\ UNCHANGED <<file, fifo, gen, at, heir, pipe, buf, saved>>

(* build_emwin_packet(): the next part, if read() has all of it and the     *)
(* numbers fit in the header.                                               *)
build_emwin_packet(i) ==
  /\ st[i] = "build" /\ part[i] < get_parts_total(file[i].size)
  /\ \/ /\ get_parts_total(file[i].size) <= MaxNumber
        /\ Go(i, "write")
        /\ part' = [part EXCEPT ![i] = @ + 1] /\ left' = [left EXCEPT ![i] = Units]
        /\ UNCHANGED lock
     \/ End(i, "failed")
  /\ UNCHANGED <<file, fifo, gen, at, heir, pipe, buf, saved>>

\* process_file() has sent every part.
Sent(i) ==
  /\ st[i] = "build" /\ part[i] = get_parts_total(file[i].size)
  /\ End(i, "done")
  /\ UNCHANGED <<file, fifo, gen, at, heir, pipe, buf, saved>>

Pieces(i, n) ==
  [k \in 1 .. n |-> [insert |-> i, part |-> part[i], unit |-> Units - left[i] + k]]

\* write(), by send_emwin_packet(), of n pieces: it waits for room.
writef(i, n) ==
  /\ st[i] = "write" /\ HasReader(fifo[i])
  /\ n \in 1 .. left[i] /\ Len(pipe[fifo[i]]) + n <= PipeSize
  /\ pipe' = [pipe EXCEPT ![fifo[i]] = @ \o Pieces(i, n)]
  /\ left' = [left EXCEPT ![i] = @ - n]
  /\ IF left[i] = n THEN Go(i, "build") ELSE UNCHANGED st
  /\ UNCHANGED <<file, fifo, part, lock, gen, at, heir, buf, saved>>

\* SIGPIPE: nobody has this fifo open for reading.
SigPipe(i) ==
  /\ st[i] = "write" /\ ~HasReader(fifo[i])
  /\ End(i, "killed")
  /\ UNCHANGED <<file, fifo, gen, at, heir, pipe, buf, saved>>

\* Another signal, wherever the inserter is.
Kill(i) ==
  /\ st[i] \in {"flock", "build", "write"}
  /\ End(i, "killed")
  /\ UNCHANGED <<file, fifo, gen, at, heir, pipe, buf, saved>>

-----------------------------------------------------------------------------
(* infeed_open_fifo(): any fifo of that name is replaced.  Until its open() *)
(* the new one has no reader, and an inserter's open fails as without one;  *)
(* when mkfifo(), chmod() or open() fails that stays so until the next try. *)
infeed_open_fifo ==
  /\ at = "closed" /\ gen < MaxOpens
  /\ gen' = gen + 1 /\ at' = "read"
  /\ UNCHANGED <<inserters, heir, pipe, buf, saved>>

\* fill_packet_struct_serial() finds the header and the sum right.
Whole(b) == \A k \in 1 .. Units : b[k] = [b[1] EXCEPT !.unit = k]

\* get_emwin_packet_infeed(), as read1() returns n pieces.
get_emwin_packet_infeed(n) ==
  /\ at = "read"
  /\ n \in 1 .. Len(pipe[gen]) /\ Len(buf) + n <= Units
  /\ LET b == buf \o SubSeq(pipe[gen], 1, n) IN
       /\ buf' = b
       /\ pipe' = [pipe EXCEPT ![gen] = SubSeq(@, n + 1, Len(@))]
       /\ at' = IF Len(b) < Units THEN "read"
                ELSE IF Whole(b) /\ file[b[1].insert].named THEN "save"
                ELSE "bad"
  /\ UNCHANGED <<inserters, gen, heir, saved>>

(* readn() gives up: the fifo was empty for too long, or the thread is to   *)
(* quit.                                                                    *)
ReadEnds ==
  /\ at = "read"
  /\ at' = "error"
  /\ UNCHANGED <<inserters, gen, heir, pipe, buf, saved>>

\* process_packets() saves the packet.
save_emwin_packet ==
  /\ at = "save"
  /\ \/ /\ at' = "read" /\ buf' = <<>>
        /\ saved' = Append(saved, [insert |-> buf[1].insert, part |-> buf[1].part])
     \/ at' = "error" /\ UNCHANGED <<buf, saved>>
  /\ UNCHANGED <<inserters, gen, heir, pipe>>

\* Mutant: what was read of a packet is kept for the next fifo.
infeed_close_fifo_keep ==
  /\ at \in {"bad", "error"}
  /\ at' = "unlink"
  /\ pipe' = IF heir[gen] THEN pipe ELSE [pipe EXCEPT ![gen] = <<>>]
  /\ UNCHANGED <<inserters, gen, heir, buf, saved>>

\* infeed_close_fifo(), up to the unlink(): what is in the fifo is not read.
infeed_close_fifo ==
  /\ at \in {"bad", "error"}
  /\ at' = "unlink" /\ buf' = <<>>
  /\ pipe' = IF heir[gen] THEN pipe ELSE [pipe EXCEPT ![gen] = <<>>]
  /\ UNCHANGED <<inserters, gen, heir, saved>>

unlink ==
  /\ at = "unlink"
  /\ at' = "closed"
  /\ UNCHANGED <<inserters, gen, heir, pipe, buf, saved>>

\* The daemon forks a script; the last script that has a fifo ends.
Fork ==
  /\ IsOpen(gen) /\ heir' = [heir EXCEPT ![gen] = TRUE]
  /\ UNCHANGED <<inserters, gen, at, pipe, buf, saved>>

ScriptsEnd(g) ==
  /\ heir[g] /\ heir' = [heir EXCEPT ![g] = FALSE]
  /\ pipe' = IF IsOpen(g) THEN pipe ELSE [pipe EXCEPT ![g] = <<>>]
  /\ UNCHANGED <<inserters, gen, at, buf, saved>>

InserterStep(i) ==
  \/ open_output(i) \/ flock(i) \/ build_emwin_packet(i)
  \/ Sent(i) \/ (\E n \in 1 .. Units : writef(i, n)) \/ SigPipe(i)

Reads == (\E n \in 1 .. Units : get_emwin_packet_infeed(n)) \/ save_emwin_packet
         \/ infeed_close_fifo \/ unlink

Next ==
  \/ \E i \in Inserts : InserterStep(i) \/ Kill(i)
  \/ Reads \/ ReadEnds \/ infeed_open_fifo \/ Fork
  \/ \E g \in 1 .. MaxOpens : ScriptsEnd(g)

Spec == Init /\ [][Next]_vars

(* Every process runs on, and every script ends; flock() serves its         *)
(* waiters, of which there are only so many.                                *)
FairSpec ==
  /\ Spec /\ WF_vars(Reads)
  /\ \A i \in Inserts : WF_vars(InserterStep(i))
  /\ \A g \in 1 .. MaxOpens : WF_vars(ScriptsEnd(g))

-----------------------------------------------------------------------------
(* The packets of two files are not mixed, whichever inserters are killed   *)
(* and however often the fifo is replaced under them: the blocks saved of a *)
(* file follow one another from the first, each once.                       *)
InsertsApart ==
  /\ InfeedTypeOK
  /\ \A k \in DOMAIN saved :
       \/ saved[k].part = 1 /\ \A j \in 1 .. k - 1 : saved[j].insert # saved[k].insert
       \/ k > 1 /\ saved[k] = [saved[k - 1] EXCEPT !.part = @ + 1]

(* A packet the daemon refuses, for which it closes the fifo on everyone,   *)
(* is one of a file with a bad name or was left unfinished by an inserter   *)
(* that was killed: two inserters never spoil each other's packets, and     *)
(* nothing of an old fifo is taken for a part of a packet of the new one.   *)
RefusedIsTorn ==
  at = "bad" =>
    LET i == buf[1].insert
    IN ~file[i].named \/ (st[i] = "killed" /\ fifo[i] = gen)

SavedOf(i) == {saved[k].part : k \in {j \in DOMAIN saved : saved[j].insert = i}}
BytesOf(i, p) ==
  LET d == PartData(file[i].size, p) IN d.from .. d.from + d.size - 1

(* An inserter that reports success has had every byte of its file saved,   *)
(* or will have, unless the daemon gives up the fifo before it read them.   *)
DoneIsSaved ==
  \A i \in Inserts :
    st[i] = "done" ~>
      \/ UNION {BytesOf(i, p) : p \in SavedOf(i)} = 0 .. file[i].size - 1
      \/ fifo[i] # 0 /\ ~IsOpen(fifo[i])

(* An inserter ends: it is not left waiting for the lock, for room in a     *)
(* fifo that nobody reads, or for the reader of one that was replaced.      *)
InserterEnds ==
  \A i \in Inserts : st[i] = "start" ~> st[i] \in {"done", "failed", "killed"}
=============================================================================
