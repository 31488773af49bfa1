----------------------------- MODULE ClientQueue -----------------------------
(***************************************************************************)
(* The queue between the npemwin thread and the thread of one client:      *)
(* libqdb/qdb.c (nbspqt_snd, nbspqt_rcv, nbspqt_rcv_cleanup and the qdb_*  *)
(* operations under them) with the one-channel wrapper libconnth/cq.c.     *)
(*                                                                         *)
(* The npemwin thread is the only sender and the client thread the only    *)
(* receiver.  Every region of code that runs between two points where the  *)
(* other thread can interfere is one action, inside the critical sections  *)
(* too: cleanup() unlocks the mutex without knowing whether it owns it.    *)
(* The library's limits on the number of records are left out: the daemon  *)
(* opens every queue with both of them 0, which disables them.             *)
(***************************************************************************)
EXTENDS Integers, Sequences

CONSTANTS
    Timeouts,       \* the settings of timeout_ms that are considered
    DbFaults        \* the Berkeley DB calls that may fail

ASSUME QueueAssumption ==
    /\ Timeouts \subseteq {"none", "seconds", "fraction"}
    /\ DbFaults \subseteq {"put", "get", "truncate"}

VARIABLES
    db,         \* the records of the Berkeley DB queue, oldest first
    n,          \* nbspq->n
    flags,      \* nbspq->f_qdb_status
    owner,      \* the owner of nbspq->mutex
    snd,        \* the sender's place: "idle" when it is not in nbspqt_snd
    sndStatus,  \* "status" in nbspqt_snd
    rcv,        \* the client thread's place
    rcvStatus,  \* "status" in nbspqt_rcv
    hand,       \* the record nbspqt_rcv has read and loop() has not yet sent
    timeout     \* timeout_ms: negative, a multiple of 1000, or neither; it is
                \* a setting, and no action changes it

qvars == <<db, n, flags, owner, snd, sndStatus, rcv, rcvStatus, hand>>

NoOwner == "nobody"

QueueInit ==
    /\ db = <<>> /\ n = 0 /\ flags = {} /\ owner = NoOwner
    /\ snd = "idle" /\ sndStatus = 0
    /\ rcv = "while" /\ rcvStatus = "ok" /\ hand = <<>>
    /\ timeout \in Timeouts

(* The places at which each thread believes it holds the mutex. *)
SndCritical == {"put", "count", "signal", "unlock"}
RcvCritical == {"test", "get", "uncount", "ready", "nothing"}

-----------------------------------------------------------------------------
(* nbspqt_snd, run by the npemwin thread *)

SndLock ==
    /\ snd = "lock"
    /\ owner = NoOwner
    /\ owner' = "server"
    /\ snd' = "put"
    /\ UNCHANGED <<db, n, flags, sndStatus, rcv, rcvStatus, hand>>

(* dbp->put appends the record or fails. *)
SndPut(p) ==
    /\ snd = "put"
    /\ \/ /\ sndStatus' = 0
          /\ db' = Append(db, p)
       \/ /\ "put" \in DbFaults
          /\ sndStatus' = -1
          /\ UNCHANGED db
    /\ snd' = "count"
    /\ UNCHANGED <<n, flags, owner, rcv, rcvStatus, hand>>

\* Mutant: a record that could not be put is counted as well.
SndCountAlways ==
    /\ snd = "count"
    /\ n' = n + 1
    /\ flags' = IF sndStatus = 0 THEN flags \ {"dberror"} ELSE flags \cup {"dberror"}
    /\ snd' = "signal"
    /\ UNCHANGED <<db, owner, sndStatus, rcv, rcvStatus, hand>>

(* ++nbspq->n, and the status flag. *)
SndCount ==
    /\ snd = "count"
    /\ n' = IF sndStatus = 0 THEN n + 1 ELSE n
    /\ flags' = IF sndStatus = 0 THEN flags \ {"dberror"} ELSE flags \cup {"dberror"}
    /\ snd' = "signal"
    /\ UNCHANGED <<db, owner, sndStatus, rcv, rcvStatus, hand>>

SndNoSignal ==
    /\ snd = "signal"
    /\ snd' = "unlock"
    /\ UNCHANGED <<db, n, flags, owner, sndStatus, rcv, rcvStatus, hand>>

(* pthread_cond_signal: a waiting receiver goes to reacquire the mutex. *)
SndSignal ==
    /\ snd = "signal"
    /\ rcv' = IF rcv = "wait" THEN "wake" ELSE rcv
    /\ snd' = "unlock"
    /\ UNCHANGED <<db, n, flags, owner, sndStatus, rcvStatus, hand>>

SndUnlock ==
    /\ snd = "unlock"
    /\ owner' = NoOwner
    /\ snd' = "idle"
    /\ UNCHANGED <<db, n, flags, sndStatus, rcv, rcvStatus, hand>>

-----------------------------------------------------------------------------
(* nbspqt_rcv, run by the client thread *)

RcvLock ==
    /\ rcv = "lock"
    /\ owner = NoOwner
    /\ owner' = "client"
    /\ rcv' = "test"
    /\ rcvStatus' = "ok"
    /\ UNCHANGED <<db, n, flags, snd, sndStatus, hand>>

(* The loop's wait: the mutex is released as the thread goes to sleep.  A   *)
(* timeout with a fraction of a second may carry tv_nsec past one second,   *)
(* and pthread_cond_timedwait then returns EINVAL without waiting.          *)
RcvWait ==
    /\ rcv = "test"
    /\ n = 0 /\ rcvStatus = "ok"
    /\ \/ /\ owner' = NoOwner
          /\ rcv' = "wait"
          /\ UNCHANGED rcvStatus
       \/ /\ timeout = "fraction"
          /\ rcvStatus' = "einval"
          /\ UNCHANGED <<owner, rcv>>
    /\ UNCHANGED <<db, n, flags, snd, sndStatus, hand>>

(* The wait ends with the timeout, or without a cause. *)
RcvTimeout ==
    /\ rcv = "wait"
    /\ timeout # "none"
    /\ rcvStatus' = "timedout"
    /\ rcv' = "wake"
    /\ UNCHANGED <<db, n, flags, owner, snd, sndStatus, hand>>

RcvSpurious ==
    /\ rcv = "wait"
    /\ rcv' = "wake"
    /\ UNCHANGED <<db, n, flags, owner, snd, sndStatus, rcvStatus, hand>>

RcvWake ==
    /\ rcv = "wake"
    /\ owner = NoOwner
    /\ owner' = "client"
    /\ rcv' = "test"
    /\ UNCHANGED <<db, n, flags, snd, sndStatus, rcvStatus, hand>>

RcvTestReleases ==
    /\ rcv = "test"
    /\ ~(n = 0 /\ rcvStatus = "ok")
    /\ rcv' = IF n = 0 THEN "nothing" ELSE "get"
    /\ owner' = NoOwner
    /\ UNCHANGED <<db, n, flags, snd, sndStatus, rcvStatus, hand>>

(* The loop ends: with nothing to read, or on to qdb_rcv. *)
RcvTest ==
    /\ rcv = "test"
    /\ ~(n = 0 /\ rcvStatus = "ok")
    /\ rcv' = IF n = 0 THEN "nothing" ELSE "get"
    /\ UNCHANGED <<db, n, flags, owner, snd, sndStatus, rcvStatus, hand>>

RcvGetNewest ==
    /\ rcv = "get"
    /\ db # <<>>
    /\ hand' = <<db[Len(db)]>>
    /\ db' = SubSeq(db, 1, Len(db) - 1)
    /\ rcv' = "uncount"
    /\ UNCHANGED <<n, flags, owner, snd, sndStatus, rcvStatus>>

(* dbp->get with DB_CONSUME takes the head, or fails and takes nothing. *)
RcvGet ==
    /\ rcv = "get"
    /\ \/ /\ db # <<>>
          /\ hand' = <<Head(db)>>
          /\ db' = Tail(db)
          /\ rcv' = "uncount"
       \/ /\ db = <<>> \/ "get" \in DbFaults
          /\ rcv' = "nothing"
          /\ UNCHANGED <<db, hand>>
    /\ UNCHANGED <<n, flags, owner, snd, sndStatus, rcvStatus>>

(* --nbspq->n; an in-memory queue that is now empty is truncated.  When the *)
(* truncation fails its status is returned and the record read is dropped.  *)
RcvUncount ==
    /\ rcv = "uncount"
    /\ n' = n - 1
    /\ \/ /\ db' = IF n' = 0 THEN <<>> ELSE db
          /\ rcv' = "ready"
          /\ UNCHANGED hand
       \/ /\ n' = 0
          /\ "truncate" \in DbFaults
          /\ hand' = <<>>
          /\ rcv' = "nothing"
          /\ UNCHANGED db
    /\ UNCHANGED <<flags, owner, snd, sndStatus, rcvStatus>>

RcvUnlock ==
    /\ rcv \in {"ready", "nothing"}
    /\ owner' = NoOwner
    /\ rcv' = IF rcv = "ready" THEN "send" ELSE "log"
    /\ UNCHANGED <<db, n, flags, snd, sndStatus, rcvStatus, hand>>

-----------------------------------------------------------------------------
(* nbspqt_rcv_cleanup.  Unlocking the default mutex nbspqt_open creates,    *)
(* from a thread that does not own it, is undefined: it is refused (EPERM,  *)
(* which the function ignores) or it releases the mutex whoever owns it.    *)

rcv_cleanup ==
    \/ owner' = NoOwner
    \/ owner # "client" /\ UNCHANGED owner
=============================================================================
