---------------------------- MODULE ClientThread -----------------------------
(***************************************************************************)
(* One network client: the thread that sends it its queue (serverc.c), and *)
(* what the npemwin thread does to it: queue a packet                      *)
(* (server_send_client_queues), kill and release it when its connection is *)
(* deleted (conn_table_del_element_un, conn_element_release,               *)
(* client_thread_kill), or release it at shutdown (conn_table_destroy).    *)
(*                                                                         *)
(* A cancelled thread runs cleanup() from the cancellation point it is at  *)
(* or reaches next; in pthread_cond_wait it first reacquires the mutex.    *)
(***************************************************************************)
EXTENDS ClientQueue

CONSTANTS
    MaxPackets,     \* bound: packets the server receives for the client
    WriteFaults,    \* writen() may fail or time out
    Shutdown        \* the program may be told to quit

ASSUME ThreadAssumption ==
    /\ MaxPackets \in Nat
    /\ WriteFaults \in BOOLEAN /\ Shutdown \in BOOLEAN

Packet == 1..MaxPackets     \* the packets, in the order they are received

VARIABLES
    received,   \* number of packets received for the client; the last one is
                \* the packet server_send_client_queues is working on
    kill,       \* the npemwin thread's place in releasing the element
    cancel,     \* pthread_cancel has been called
    quit,       \* the quit flag
    f_exit,     \* the exit flag of the thread's private copy of the element
    finished,   \* threadinfo->f_thread_finished
    queueOpen,  \* the element's queue has not been closed
    fdOpen,     \* the client's socket has not been closed
    stream,     \* the packets written to the socket in full
    cut         \* a packet was written in part

tvars == <<received, kill, cancel, quit, f_exit, finished, queueOpen, fdOpen,
           stream, cut, timeout>>
vars == <<qvars, tvars>>

Init ==
    /\ QueueInit
    /\ received = 0 /\ kill = "no" /\ cancel = FALSE /\ quit = FALSE
    /\ f_exit = FALSE /\ finished = FALSE /\ queueOpen = TRUE /\ fdOpen = TRUE
    /\ stream = <<>> /\ cut = FALSE

-----------------------------------------------------------------------------
(* client_thread_main *)

RcvGoes(from, to) ==
    /\ rcv = from
    /\ rcv' = to
    /\ UNCHANGED <<db, n, flags, owner, snd, sndStatus, rcvStatus, hand>>

While ==
    /\ RcvGoes("while", IF quit \/ f_exit THEN "cleanup" ELSE "testcancel")
    /\ UNCHANGED tvars

TestCancel ==
    /\ RcvGoes("testcancel", IF cancel THEN "cleanup" ELSE "periodic")
    /\ UNCHANGED tvars

(* periodic(): the flag is read without the mutex; loop() runs all the same. *)
Periodic ==
    /\ RcvGoes("periodic", "lock")
    /\ f_exit' = (f_exit \/ "dberror" \in flags)
    /\ UNCHANGED <<received, kill, cancel, quit, finished, queueOpen, fdOpen,
                   stream, cut, timeout>>

(* Logging at the end of loop(), and back to the while condition. *)
Log ==
    /\ RcvGoes("log", "while")
    /\ UNCHANGED tvars

Sent(full) ==
    /\ hand' = <<>>
    /\ rcv' = "log"
    /\ IF full THEN stream' = stream \o hand /\ UNCHANGED cut
               ELSE cut' \in {cut, TRUE} /\ UNCHANGED stream
    /\ UNCHANGED <<db, n, flags, owner, snd, sndStatus, rcvStatus, received, kill,
                   cancel, quit, finished, queueOpen, fdOpen, timeout>>

(* write1(), called for the first or a later piece of the packet, does not   *)
(* write when the quit flag is set.                                          *)
write1 ==
    \/ RcvGoes("send", "write") /\ ~quit /\ UNCHANGED tvars
    \/ rcv = "send" /\ quit /\ Sent(FALSE) /\ f_exit' = TRUE

(* send_emwin_client: an error or a timeout, perhaps in mid packet, sets the *)
(* exit flag.                                                                *)
send_emwin_client ==
    /\ rcv = "write"
    /\ \/ Sent(TRUE) /\ fdOpen /\ UNCHANGED f_exit
       \/ Sent(FALSE) /\ (WriteFaults \/ ~fdOpen) /\ f_exit' = TRUE

(* A cancellation point other than the wait: pthread_testcancel, the files   *)
(* and the log that periodic() and loop() write, the socket (a packet may    *)
(* then be cut).                                                             *)
Cancelled ==
    /\ cancel
    /\ rcv \in {"periodic", "log", "send", "write"}
    /\ rcv' = "cleanup"
    /\ cut' \in IF rcv \in {"send", "write"} THEN {cut, TRUE} ELSE {cut}
    /\ hand' = <<>>
    /\ UNCHANGED <<db, n, flags, owner, snd, sndStatus, rcvStatus, received, kill,
                   cancel, quit, f_exit, finished, queueOpen, fdOpen, stream,
                   timeout>>

(* Cancellation in pthread_cond_(timed)wait: leave the wait, own the mutex. *)
CancelledInWait ==
    /\ cancel
    /\ rcv \in {"wait", "wake"}
    /\ owner = NoOwner
    /\ owner' = "client"
    /\ rcv' = "cleanup"
    /\ UNCHANGED <<db, n, flags, snd, sndStatus, rcvStatus, hand>>
    /\ UNCHANGED tvars

(* cleanup(), first half: connqueue_rcv_cleanup. *)
CleanupUnlock ==
    /\ rcv = "cleanup"
    /\ rcv_cleanup
    /\ rcv' = "finish"
    /\ UNCHANGED <<db, n, flags, snd, sndStatus, rcvStatus, hand>>
    /\ UNCHANGED tvars

CleanupForgets ==
    /\ RcvGoes("finish", "done")
    /\ UNCHANGED tvars

(* cleanup(), second half: conn_element_set_finished_flag and the end. *)
CleanupFinish ==
    /\ RcvGoes("finish", "done")
    /\ finished' = TRUE
    /\ UNCHANGED <<received, kill, cancel, quit, f_exit, queueOpen, fdOpen, stream, cut,
                   timeout>>

connqueue_rcv ==
    /\ RcvLock \/ RcvWait \/ RcvWake \/ RcvTest \/ RcvGet \/ RcvUncount \/ RcvUnlock
    /\ UNCHANGED tvars

Timeout == RcvTimeout /\ UNCHANGED tvars

SpuriousWakeup == RcvSpurious /\ UNCHANGED tvars

ClientStep ==
    \/ While \/ TestCancel \/ Periodic \/ connqueue_rcv \/ write1 \/ send_emwin_client
    \/ Log
    \/ Cancelled \/ CancelledInWait \/ CleanupUnlock \/ CleanupFinish

-----------------------------------------------------------------------------
(* The npemwin thread *)

KillIdle == UNCHANGED <<kill, cancel, quit, f_exit, finished, queueOpen, fdOpen,
                        stream, cut, timeout>>

(* A packet arrives while conn_element_isnetclient_running. *)
server_send_client_queues ==
    /\ snd = "idle" /\ kill = "no"
    /\ ~finished
    /\ received < MaxPackets
    /\ received' = received + 1
    /\ snd' = "lock"
    /\ UNCHANGED <<db, n, flags, owner, sndStatus, rcv, rcvStatus, hand>>
    /\ KillIdle

connqueue_snd ==
    /\ SndLock \/ SndPut(received) \/ SndCount \/ SndSignal \/ SndUnlock
    /\ UNCHANGED tvars

KillGoes(from, to) ==
    /\ kill = from
    /\ kill' = to
    /\ UNCHANGED qvars
    /\ UNCHANGED <<received, quit, f_exit, finished, stream, cut, timeout>>

(* process_finished_connections. *)
DeleteFinished ==
    /\ snd = "idle"
    /\ finished
    /\ KillGoes("no", "cancel")
    /\ UNCHANGED <<cancel, queueOpen, fdOpen>>

(* The client hung up, sent what the server cannot handle, or connected      *)
(* again (handle_client, handle_client_hup, poll_restore_connection).        *)
DeleteRunning ==
    /\ snd = "idle"
    /\ KillGoes("no", "cancel")
    /\ UNCHANGED <<cancel, queueOpen, fdOpen>>

(* conn_table_destroy closes the socket before it releases the element. *)
Destroy ==
    /\ snd = "idle"
    /\ quit
    /\ KillGoes("no", "cancel")
    /\ fdOpen' = FALSE
    /\ UNCHANGED <<cancel, queueOpen>>

KillNoCancel ==
    /\ KillGoes("cancel", "join")
    /\ UNCHANGED <<cancel, queueOpen, fdOpen>>

(* client_thread_kill: pthread_cancel, then pthread_join. *)
KillCancel ==
    /\ KillGoes("cancel", "join")
    /\ cancel' = TRUE
    /\ UNCHANGED <<queueOpen, fdOpen>>

KillJoin ==
    /\ rcv = "done"
    /\ KillGoes("join", "close")
    /\ UNCHANGED <<cancel, queueOpen, fdOpen>>

(* The rest of conn_element_release: the queue is closed. *)
ReleaseQueue ==
    /\ KillGoes("close", "closefd")
    /\ queueOpen' = FALSE
    /\ UNCHANGED <<cancel, fdOpen>>

CloseFd ==
    /\ KillGoes("closefd", "gone")
    /\ fdOpen' = FALSE
    /\ UNCHANGED <<cancel, queueOpen>>

ReleaseStep == KillCancel \/ KillJoin \/ ReleaseQueue \/ CloseFd

(* The signal thread sets the quit flag. *)
SetQuit ==
    /\ Shutdown /\ ~quit
    /\ quit' = TRUE
    /\ UNCHANGED qvars
    /\ UNCHANGED <<received, kill, cancel, f_exit, finished, queueOpen, fdOpen, stream, cut,
                   timeout>>

Terminated == kill = "gone" /\ rcv = "done" /\ UNCHANGED vars

Next ==
    \/ ClientStep \/ Timeout \/ SpuriousWakeup
    \/ server_send_client_queues \/ connqueue_snd
    \/ DeleteFinished \/ DeleteRunning \/ Destroy \/ ReleaseStep
    \/ SetQuit \/ Terminated

Spec == Init /\ [][Next]_vars

(* Both threads run: neither is starved of the processor, nor for ever of a  *)
(* mutex that is free again and again (the strong fairness of the two lock   *)
(* operations and of the return from a wait).  A timeout is an absolute      *)
(* time, so spurious wakeups do not postpone it.  The npemwin thread looks   *)
(* for finished threads in every process_connections(), and destroys the     *)
(* table when it has seen the quit flag.  Nothing is assumed of spurious     *)
(* wakeups, new packets, hangups or the quit signal.  The data base does not *)
(* fail for ever.                                                            *)
FairSpec ==
    /\ Spec
    /\ WF_vars(ClientStep) /\ WF_vars(connqueue_snd) /\ WF_vars(ReleaseStep)
    /\ WF_vars(DeleteFinished) /\ WF_vars(Destroy)
    /\ SF_vars(SndLock /\ UNCHANGED tvars)
    /\ SF_vars((RcvLock \/ RcvWake) /\ UNCHANGED tvars)
    /\ SF_vars(CancelledInWait)
    /\ SF_vars(Timeout)
    /\ SF_vars(RcvGet /\ hand' # <<>> /\ UNCHANGED tvars)

-----------------------------------------------------------------------------
ThreadTypeOK ==
    /\ db \in Seq(Packet)
    /\ n \in Nat
    /\ flags \subseteq {"dberror"}
    /\ owner \in {NoOwner, "server", "client"}
    /\ snd \in {"idle", "lock"} \cup SndCritical
    /\ sndStatus \in {-1, 0}
    /\ rcv \in {"while", "testcancel", "periodic", "lock", "wait", "wake", "send", "write", "log",
                "cleanup", "finish", "done"} \cup RcvCritical
    /\ rcvStatus \in {"ok", "timedout", "einval"}
    /\ hand \in Seq(Packet) /\ timeout \in Timeouts
    /\ received \in 0..MaxPackets
    /\ kill \in {"no", "cancel", "join", "close", "closefd", "gone"}
    /\ cancel \in BOOLEAN /\ quit \in BOOLEAN /\ f_exit \in BOOLEAN /\ cut \in BOOLEAN
    /\ finished \in BOOLEAN /\ queueOpen \in BOOLEAN /\ fdOpen \in BOOLEAN
    /\ stream \in Seq(Packet)

(* The sender and the receiver are never both inside the sections that the  *)
(* queue's mutex protects (nbspqt_snd, nbspqt_rcv), although cleanup() may  *)
(* release a mutex its thread does not own; and conn_element_release closes *)
(* the queue, and with it destroys the mutex, only when the client thread   *)
(* is gone and nobody holds it.                                             *)
QueueExclusion ==
    /\ ThreadTypeOK
    /\ ~(snd \in SndCritical /\ rcv \in RcvCritical)
    /\ ~queueOpen => rcv = "done" /\ owner = NoOwner /\ snd = "idle"

(* Outside the two places between a change of the data base and the change  *)
(* of the counter, nbspq->n is the number of records, on which the test for *)
(* an empty queue and the truncation of an empty one rest: whichever call   *)
(* of the data base fails, no record is left that the receiver will not     *)
(* look for, and none is truncated.                                         *)
QueueCount == snd # "count" /\ rcv # "uncount" => n = Len(db)

(* The stream is over when the thread leaves its loop, or is bound to. *)
Ended ==
    \/ cut
    \/ f_exit /\ rcv \in {"log", "while"}
    \/ rcv \in {"cleanup", "finish", "done"}

(* The queue and the thread together keep the promise of PacketStream: in   *)
(* order, once each, nothing skipped, nothing after a cut packet.  The only *)
(* way to drop a packet and go on is a failed truncation (qdb_rcv).         *)
Promise == INSTANCE PacketStream WITH
    lossy  <- rcv = "uncount" /\ n = 1,
    queue  <- IF Ended THEN <<>> ELSE hand \o db,
    open   <- ~Ended

StreamKept == Promise!Spec

(* No lost wakeup: a queued packet leaves the queue and the hands of the    *)
(* thread, unless the thread is ending.  No timeout is needed for it.       *)
QueuedIsTaken ==
    \A p \in Packet :
        (\E i \in DOMAIN db : db[i] = p)
            ~> (\/ \A i \in DOMAIN (hand \o db) : (hand \o db)[i] # p
                \/ f_exit \/ quit \/ cancel)

(* pthread_join always returns: wherever the thread is when it is           *)
(* cancelled (waiting for the mutex or on the condition variable, reading,  *)
(* writing), the npemwin thread gets past client_thread_kill.               *)
KilledIsJoined == kill = "cancel" ~> kill = "gone"

(* With a timeout, a thread that sets its exit flag (even in periodic(),    *)
(* which goes on to wait for one more packet) ends, is noticed, and its     *)
(* element is released.                                                     *)
ExitIsReaped == f_exit /\ timeout # "none" ~> kill = "gone"

-----------------------------------------------------------------------------
(* What comments in the code say of the program, and TLC finds not to hold. *)

(* conn_element_release: the socket is closed after the function is called, *)
(* so that the client thread never writes to a closed descriptor.           *)
WritesToOpenFd == rcv = "write" => fdOpen
=============================================================================
