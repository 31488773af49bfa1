---------------------------- MODULE ClientProofs -----------------------------
(***************************************************************************)
(* For any number of packets and every fault: the queue's sections exclude *)
(* each other, its counter counts, and the stream a client gets is the one *)
(* PacketStream promises.  ClientInv is inductive.                         *)
(***************************************************************************)
EXTENDS ClientThread, SequenceTheorems, TLAPS

Cleaned == {"finish", "done"}
Leaving == {"cleanup", "finish", "done"}

(* Who may own the mutex: a sender inside its section does, unless the      *)
(* thread's cleanup() has released it; and then the thread never comes back.*)
Ownership ==
    /\ snd \in SndCritical => owner = "server" \/ rcv \in Cleaned
    /\ owner = "server" => snd \in SndCritical
    /\ rcv \in RcvCritical => owner = "client"
    /\ owner = "client" => rcv \in RcvCritical \cup {"cleanup"}

(* The element is released when nothing is being sent to it, and its queue  *)
(* is closed when the thread has been joined.                               *)
Release ==
    /\ kill # "no" => snd = "idle"
    /\ kill \in {"close", "closefd", "gone"} => rcv = "done"
    /\ queueOpen <=> (kill \notin {"closefd", "gone"})

(* The counter, with the record each thread is between storing or taking    *)
(* and counting.                                                            *)
Counting ==
    /\ rcv = "uncount" => n = Len(db) + 1
    /\ snd = "count" /\ sndStatus = 0 => n = Len(db) - 1
    /\ rcv # "uncount" /\ ~(snd = "count" /\ sndStatus = 0) => n = Len(db)

(* The record in hand, and what follows a packet that was cut.              *)
InHand ==
    /\ rcv \in {"uncount", "ready", "send", "write"} => \E p \in Packet : hand = <<p>>
    /\ rcv \notin {"uncount", "ready", "send", "write"} => hand = <<>>
    /\ cut => rcv \in Leaving \/ (f_exit /\ rcv \in {"log", "while"})
    /\ snd # "idle" => received \in Packet

ClientInv == ThreadTypeOK /\ Ownership /\ Release /\ Counting /\ InHand

-----------------------------------------------------------------------------
(* Sequences of packets: the empty one, those of one packet, one more, one  *)
(* less.                                                                    *)
LEMMA PacketSeqs ==
  /\ <<>> \in Seq(Packet) /\ Len(<<>>) = 0
  /\ \A p \in Packet : <<p>> \in Seq(Packet) /\ Len(<<p>>) = 1
  /\ \A s \in Seq(Packet) :
       /\ Len(s) \in Nat
       /\ Len(s) = 0 => s = <<>>
       /\ \A p \in Packet : Append(s, p) \in Seq(Packet) /\ Len(Append(s, p)) = Len(s) + 1
       /\ s # <<>> => /\ Head(s) \in Packet
                      /\ Tail(s) \in Seq(Packet) /\ Len(Tail(s)) = Len(s) - 1
       /\ \A t \in Seq(Packet) : s \o t \in Seq(Packet)
<1>1. <<>> \in Seq(Packet) /\ Len(<<>>) = 0
  BY EmptySeq
<1>2. \A p \in Packet : <<p>> \in Seq(Packet) /\ Len(<<p>>) = 1
  OBVIOUS
<1>3. ASSUME NEW s \in Seq(Packet)
      PROVE  /\ Len(s) \in Nat
             /\ Len(s) = 0 => s = <<>>
  BY EmptySeq, LenProperties
<1>4. ASSUME NEW s \in Seq(Packet), NEW p \in Packet
      PROVE  Append(s, p) \in Seq(Packet) /\ Len(Append(s, p)) = Len(s) + 1
  BY AppendProperties
<1>5. ASSUME NEW s \in Seq(Packet), s # <<>>
      PROVE  /\ Head(s) \in Packet
             /\ Tail(s) \in Seq(Packet) /\ Len(Tail(s)) = Len(s) - 1
  BY <1>5, HeadTailProperties
<1>6. ASSUME NEW s \in Seq(Packet), NEW t \in Seq(Packet)
      PROVE  s \o t \in Seq(Packet)
  BY ConcatProperties
<1> QED
  BY <1>1, <1>2, <1>3, <1>4, <1>5, <1>6

LEMMA InitInv == Init => ClientInv
<1> SUFFICES ASSUME Init PROVE ClientInv
  OBVIOUS
<1>1. db \in Seq(Packet) /\ hand \in Seq(Packet) /\ stream \in Seq(Packet) /\ Len(db) = 0
  BY PacketSeqs DEF Init, QueueInit
<1>2. n = 0 /\ flags = {} /\ owner = NoOwner /\ snd = "idle" /\ sndStatus = 0 /\ hand = <<>>
  BY DEF Init, QueueInit
<1>3. rcv = "while" /\ rcvStatus = "ok" /\ timeout \in Timeouts /\ received = 0 /\ kill = "no"
  BY DEF Init, QueueInit
<1>4. /\ cancel = FALSE /\ quit = FALSE /\ f_exit = FALSE /\ finished = FALSE
      /\ queueOpen = TRUE /\ fdOpen = TRUE /\ cut = FALSE
  BY DEF Init
<1>5. /\ cancel \in BOOLEAN /\ quit \in BOOLEAN /\ f_exit \in BOOLEAN /\ cut \in BOOLEAN
      /\ finished \in BOOLEAN /\ queueOpen \in BOOLEAN /\ fdOpen \in BOOLEAN
  BY <1>4
<1>6. /\ n \in Nat /\ flags \subseteq {"dberror"}
      /\ sndStatus \in {-1, 0} /\ received \in 0..MaxPackets
  BY <1>2, <1>3, ThreadAssumption
<1>7. ThreadTypeOK
  BY <1>1, <1>2, <1>3, <1>5, <1>6 DEF ThreadTypeOK, SndCritical, RcvCritical, NoOwner
<1>8. Ownership /\ Release /\ Counting /\ InHand
  BY <1>1, <1>2, <1>3, <1>4, QueueAssumption
  DEF Ownership, Release, Counting, InHand, SndCritical, RcvCritical, Cleaned,
      Leaving, NoOwner
<1> QED
  BY <1>7, <1>8 DEF ClientInv

(* The sender's steps in nbspqt_snd.                                        *)
LEMMA SndStep ==
  ASSUME ClientInv, connqueue_snd
  PROVE  ClientInv'
<1> USE QueueAssumption, ThreadAssumption
    DEF ClientInv, ThreadTypeOK, Ownership, Release, Counting, InHand,
        SndCritical, RcvCritical, Cleaned, Leaving, NoOwner, tvars
<1>1. CASE SndLock /\ UNCHANGED tvars
  BY <1>1 DEF SndLock
<1>2. CASE SndPut(received) /\ UNCHANGED tvars
  <2>0. /\ db \in Seq(Packet) /\ Len(db) \in Nat
        /\ Append(db, received) \in Seq(Packet) /\ Len(Append(db, received)) = Len(db) + 1
    <3>1. db \in Seq(Packet) /\ received \in Packet
      BY <1>2 DEF SndPut
    <3> QED
      BY ONLY <3>1, PacketSeqs
  <2>1. db' \in Seq(Packet) /\ Len(db') \in Nat
    <3>1. db' = db \/ db' = Append(db, received)
      BY <1>2 DEF SndPut
    <3> QED
      BY ONLY <2>0, <3>1
  <2>2. /\ snd = "put" /\ snd' = "count"
        /\ UNCHANGED <<n, flags, owner, rcv, rcvStatus, hand, tvars>>
        /\ \/ db' = db /\ sndStatus' = -1
           \/ Len(db') = Len(db) + 1 /\ sndStatus' = 0
    BY <1>2, <2>0 DEF SndPut
  <2>3. n = Len(db) /\ Len(db) \in Nat /\ rcv # "uncount" /\ received \in Packet
    BY <2>2, PacketSeqs
  <2>4. Counting' /\ InHand'
    BY <2>1, <2>2, <2>3
  <2> QED
    BY <2>1, <2>2, <2>4
<1>3. CASE SndCount /\ UNCHANGED tvars
  <2>1. /\ snd = "count" /\ snd' = "signal"
        /\ UNCHANGED <<db, owner, rcv, rcvStatus, hand, tvars>>
        /\ n' = IF sndStatus = 0 THEN n + 1 ELSE n
    BY <1>3 DEF SndCount
  <2>2. sndStatus' \in {-1, 0}
    BY <1>3 DEF SndCount
  <2>3. flags' \subseteq {"dberror"}
    BY <1>3 DEF SndCount
  <2>4. Len(db) \in Nat /\ rcv # "uncount"
    BY <2>1, PacketSeqs
  <2>5. n' \in Nat /\ Counting'
    BY <2>1, <2>4
  <2> QED
    BY <2>1, <2>2, <2>3, <2>5
<1>4. CASE SndSignal /\ UNCHANGED tvars
  BY <1>4 DEF SndSignal
<1>5. CASE SndUnlock /\ UNCHANGED tvars
  BY <1>5 DEF SndUnlock
<1> QED
  BY <1>1, <1>2, <1>3, <1>4, <1>5 DEF connqueue_snd

(* The client thread's steps in nbspqt_rcv.                                 *)
LEMMA RcvStep ==
  ASSUME ClientInv, connqueue_rcv \/ Timeout \/ SpuriousWakeup
  PROVE  ClientInv'
<1> USE QueueAssumption, ThreadAssumption
    DEF ClientInv, ThreadTypeOK, Ownership, Release, Counting, InHand,
        SndCritical, RcvCritical, Cleaned, Leaving, NoOwner, tvars
<1>1. CASE RcvLock /\ UNCHANGED tvars
  BY <1>1 DEF RcvLock
<1>2. CASE RcvWait /\ UNCHANGED tvars
  BY <1>2 DEF RcvWait
<1>3. CASE RcvWake /\ UNCHANGED tvars
  BY <1>3 DEF RcvWake
<1>4. CASE RcvTest /\ UNCHANGED tvars
  BY <1>4 DEF RcvTest
<1>5. CASE RcvGet /\ UNCHANGED tvars
  <2>1. db \in Seq(Packet) /\ rcv = "get" /\ n = Len(db) /\ snd # "count" /\ hand = <<>>
    BY <1>5 DEF RcvGet
  <2>2. CASE /\ db # <<>> /\ hand' = <<Head(db)>> /\ db' = Tail(db) /\ rcv' = "uncount"
             /\ UNCHANGED <<n, flags, owner, snd, sndStatus, rcvStatus, tvars>>
    <3>1. /\ Head(db) \in Packet /\ Len(db) \in Nat
          /\ db' \in Seq(Packet) /\ Len(db') \in Nat /\ Len(db') = Len(db) - 1
      BY ONLY <2>1, <2>2, PacketSeqs
    <3>2. hand' \in Seq(Packet) /\ \E p \in Packet : hand' = <<p>>
      BY ONLY <2>2, <3>1, PacketSeqs
    <3>3. Counting'
      BY <2>1, <2>2, <3>1
    <3>4. InHand'
      BY <2>1, <2>2, <3>2
    <3>5. ThreadTypeOK' /\ Ownership' /\ Release'
      BY <2>1, <2>2, <3>1, <3>2
    <3> QED
      BY ONLY <3>3, <3>4, <3>5 DEF ClientInv
  <2>3. CASE /\ rcv' = "nothing"
             /\ UNCHANGED <<db, hand, n, flags, owner, snd, sndStatus, rcvStatus, tvars>>
    BY <2>1, <2>3
  <2> QED
    BY <1>5, <2>2, <2>3 DEF RcvGet
<1>6. CASE RcvUncount /\ UNCHANGED tvars
  BY <1>6 DEF RcvUncount
<1>7. CASE RcvUnlock /\ UNCHANGED tvars
  BY <1>7 DEF RcvUnlock
<1>8. CASE Timeout
  BY <1>8 DEF Timeout, RcvTimeout
<1>9. CASE SpuriousWakeup
  BY <1>9 DEF SpuriousWakeup, RcvSpurious
<1> QED
  BY <1>1, <1>2, <1>3, <1>4, <1>5, <1>6, <1>7, <1>8, <1>9 DEF connqueue_rcv

(* The rest of the client thread.                                           *)
LEMMA ThreadStep ==
  ASSUME ClientInv, ClientStep, ~connqueue_rcv
  PROVE  ClientInv'
<1> USE QueueAssumption, ThreadAssumption
    DEF ClientInv, ThreadTypeOK, Ownership, Release, Counting, InHand,
        SndCritical, RcvCritical, Cleaned, Leaving, NoOwner, tvars, RcvGoes
<1>1. CASE While
  BY <1>1 DEF While
<1>2. CASE TestCancel
  BY <1>2 DEF TestCancel
<1>3. CASE Periodic
  BY <1>3 DEF Periodic
<1>4. CASE Log
  BY <1>4 DEF Log
<1>5. CASE send_emwin_client
  <2>1. /\ rcv = "write" /\ rcv' = "log" /\ hand' = <<>>
        /\ UNCHANGED <<db, n, flags, owner, snd, sndStatus, rcvStatus, received, kill,
                       cancel, quit, finished, queueOpen, fdOpen, timeout>>
    BY <1>5 DEF send_emwin_client, Sent
  <2>2. stream' \in Seq(Packet) /\ hand' \in Seq(Packet)
    <3>1. stream \in Seq(Packet) /\ hand \in Seq(Packet)
      OBVIOUS
    <3>2. hand' = <<>> /\ stream' \in {stream, stream \o hand}
      BY <1>5 DEF send_emwin_client, Sent
    <3> QED
      BY ONLY <3>1, <3>2, PacketSeqs
  <2>3. f_exit' \in BOOLEAN /\ cut' \in BOOLEAN /\ (cut' => f_exit')
    BY <1>5 DEF send_emwin_client, Sent
  <2> QED
    BY <2>1, <2>2, <2>3
<1>6. CASE Cancelled
  <2>1. /\ rcv \in {"periodic", "log", "send", "write"} /\ rcv' = "cleanup" /\ hand' = <<>>
        /\ UNCHANGED <<db, n, flags, owner, snd, sndStatus, rcvStatus, received, kill,
                       cancel, quit, f_exit, finished, queueOpen, fdOpen, stream, timeout>>
    BY <1>6 DEF Cancelled
  <2>2. hand' \in Seq(Packet) /\ cut' \in BOOLEAN
    BY <1>6, PacketSeqs DEF Cancelled
  <2> QED
    BY <2>1, <2>2
<1>7. CASE CancelledInWait
  BY <1>7 DEF CancelledInWait
<1>8. CASE CleanupUnlock
  BY <1>8 DEF CleanupUnlock, rcv_cleanup
<1>9. CASE CleanupFinish
  BY <1>9 DEF CleanupFinish
<1>10. CASE RcvGoes("send", "write") /\ ~quit /\ UNCHANGED tvars
  BY <1>10
<1>11. CASE rcv = "send" /\ quit /\ Sent(FALSE) /\ f_exit' = TRUE
  <2>1. /\ rcv = "send" /\ rcv' = "log" /\ hand' = <<>> /\ stream' = stream
        /\ UNCHANGED <<db, n, flags, owner, snd, sndStatus, rcvStatus, received, kill,
                       cancel, quit, finished, queueOpen, fdOpen, timeout>>
    BY <1>11 DEF Sent
  <2>2. f_exit' \in BOOLEAN /\ cut' \in BOOLEAN /\ (cut' => f_exit')
    BY <1>11 DEF Sent
  <2> QED
    BY <2>1, <2>2, PacketSeqs
<1> QED
  BY <1>1, <1>2, <1>3, <1>4, <1>5, <1>6, <1>7, <1>8, <1>9, <1>10, <1>11
  DEF ClientStep, write1

(* What the npemwin thread does besides sending, and the quit flag.         *)
LEMMA ServerStep ==
  ASSUME ClientInv,
         \/ server_send_client_queues \/ DeleteFinished \/ DeleteRunning \/ Destroy
         \/ ReleaseStep \/ SetQuit
  PROVE  ClientInv'
<1> USE QueueAssumption, ThreadAssumption
    DEF ClientInv, ThreadTypeOK, Ownership, Release, Counting, InHand,
        SndCritical, RcvCritical, Cleaned, Leaving, NoOwner, qvars
<1>1. CASE server_send_client_queues
  BY <1>1 DEF server_send_client_queues, KillIdle, Packet
<1>2. CASE DeleteFinished
  BY <1>2 DEF DeleteFinished, KillGoes
<1>3. CASE DeleteRunning
  BY <1>3 DEF DeleteRunning, KillGoes
<1>5. CASE Destroy
  <2>1. fdOpen' \in BOOLEAN
    BY <1>5 DEF Destroy
  <2>2. /\ kill = "no" /\ kill' = "cancel" /\ snd = "idle" /\ UNCHANGED <<cancel, queueOpen>>
        /\ UNCHANGED <<qvars, received, quit, f_exit, finished, stream, cut, timeout>>
    BY <1>5 DEF Destroy, KillGoes
  <2> QED
    BY <2>1, <2>2
<1>6. CASE KillCancel
  BY <1>6 DEF KillCancel, KillGoes
<1>7. CASE KillJoin
  BY <1>7 DEF KillJoin, KillGoes
<1>8. CASE ReleaseQueue
  <2>1. queueOpen' \in BOOLEAN /\ ~queueOpen'
    BY <1>8 DEF ReleaseQueue
  <2>2. /\ kill = "close" /\ kill' = "closefd" /\ UNCHANGED <<cancel, fdOpen>>
        /\ UNCHANGED <<qvars, received, quit, f_exit, finished, stream, cut, timeout>>
    BY <1>8 DEF ReleaseQueue, KillGoes
  <2> QED
    BY <2>1, <2>2
<1>9. CASE CloseFd
  <2>1. fdOpen' \in BOOLEAN
    BY <1>9 DEF CloseFd
  <2>2. /\ kill = "closefd" /\ kill' = "gone" /\ UNCHANGED <<cancel, queueOpen>>
        /\ UNCHANGED <<qvars, received, quit, f_exit, finished, stream, cut, timeout>>
    BY <1>9 DEF CloseFd, KillGoes
  <2> QED
    BY <2>1, <2>2
<1>4. CASE SetQuit
  BY <1>4 DEF SetQuit
<1> QED
  BY <1>1, <1>2, <1>3, <1>4, <1>5, <1>6, <1>7, <1>8, <1>9 DEF ReleaseStep

LEMMA StepInv == ClientInv /\ [Next]_vars => ClientInv'
<1> SUFFICES ASSUME ClientInv, [Next]_vars PROVE ClientInv'
  OBVIOUS
<1>1. CASE UNCHANGED vars
  BY <1>1 DEF vars, qvars, tvars, ClientInv, ThreadTypeOK, Ownership, Release, Counting,
              InHand
<1>2. CASE Next /\ ~UNCHANGED vars
  BY <1>2, SndStep, RcvStep, ThreadStep, ServerStep DEF Next, Terminated
<1> QED
  BY <1>1, <1>2

THEOREM Invariance == Spec => []ClientInv
BY InitInv, StepInv, PTL DEF Spec

(* The sections of nbspqt_snd and nbspqt_rcv exclude each other, and the    *)
(* queue is closed when nobody uses it, although nbspqt_rcv_cleanup may     *)
(* release a mutex that the npemwin thread holds.                           *)
THEOREM QueueExclusionHolds == Spec => []QueueExclusion
<1>1. ClientInv => QueueExclusion
  BY DEF ClientInv, QueueExclusion, Ownership, Release, RcvCritical, SndCritical, Cleaned,
         ThreadTypeOK, NoOwner
<1> QED
  BY <1>1, Invariance, PTL

(* nbspq->n counts the records of the queue, whichever of put, get and      *)
(* truncate fails.                                                          *)
THEOREM QueueCountHolds == Spec => []QueueCount
<1>1. ClientInv => QueueCount
  BY DEF ClientInv, QueueCount, Counting
<1> QED
  BY <1>1, Invariance, PTL

-----------------------------------------------------------------------------
(* The refinement.  What the thread has in hand and what is queued, as one  *)
(* sequence.                                                                *)
LEMMA HandFirst ==
  ASSUME NEW p \in Packet, NEW s \in Seq(Packet)
  PROVE  /\ <<p>> \o s \in Seq(Packet)
         /\ <<p>> \o s # <<>>
         /\ Head(<<p>> \o s) = p
         /\ Tail(<<p>> \o s) = s
         /\ <<>> \o s = s
         /\ s # <<>> => <<Head(s)>> \o Tail(s) = s
         /\ s \o <<p>> = Append(s, p)
OBVIOUS

LEMMA AppendLast ==
  ASSUME NEW s \in Seq(Packet), NEW t \in Seq(Packet), NEW p \in Packet
  PROVE  s \o Append(t, p) = Append(s \o t, p)
OBVIOUS

Pending == hand \o db

(* The five kinds of steps of PacketStream, in terms of the thread's state. *)
LEMMA QuietStep ==
  ASSUME Ended' <=> Ended, stream' = stream, Ended \/ Pending' = Pending
  PROVE  Promise!Next
BY DEF Promise!Next, Pending

LEMMA EndStep ==
  ASSUME Ended', stream' = stream
  PROVE  Promise!Next
BY DEF Promise!Next, Promise!End

LEMMA AcceptStep ==
  ASSUME ~Ended, ~Ended', stream' = stream,
         NEW p \in Packet, Pending' = Append(Pending, p)
  PROVE  Promise!Next
BY DEF Promise!Next, Promise!Accept, Pending

LEMMA TransmitStep ==
  ASSUME ~Ended, Pending # <<>>, stream' = Append(stream, Head(Pending)),
         Ended' \/ Pending' = Tail(Pending)
  PROVE  Promise!Next
BY DEF Promise!Next, Promise!Transmit, Pending

LEMMA DropStep ==
  ASSUME ~Ended, ~Ended', rcv = "uncount", n = 1, stream' = stream,
         Pending # <<>>, Pending' = Tail(Pending)
  PROVE  Promise!Next
BY DEF Promise!Next, Promise!Drop, Pending

LEMMA RefInit == Init => Promise!Init
BY DEF Init, QueueInit, Promise!Init, Ended

(* A packet that was cut adds nothing: the thread is on its way out.        *)
LEMMA EndedAt ==
  ASSUME ClientInv
  PROVE  Ended <=> (f_exit /\ rcv \in {"log", "while"}) \/ rcv \in Leaving
BY DEF ClientInv, ThreadTypeOK, InHand, Ended, Leaving

LEMMA RefSnd ==
  ASSUME ClientInv, ClientInv', connqueue_snd
  PROVE  Promise!Next
<1>1. Ended' <=> Ended
  BY EndedAt
  DEF connqueue_snd, SndLock, SndPut, SndCount, SndSignal, SndUnlock, tvars, Ended
<1>2. stream' = stream /\ hand' = hand
  BY DEF connqueue_snd, SndLock, SndPut, SndCount, SndSignal, SndUnlock, tvars
<1>3. CASE db' = db
  BY <1>1, <1>2, <1>3, QuietStep DEF Pending
<1>4. CASE db' = Append(db, received) /\ snd = "put"
  <2>1. received \in Packet /\ hand \in Seq(Packet) /\ db \in Seq(Packet)
    BY <1>4 DEF ClientInv, InHand, ThreadTypeOK
  <2>2. Pending' = Append(Pending, received)
    BY <1>2, <1>4, <2>1, AppendLast DEF Pending
  <2>3. CASE Ended
    BY <1>1, <1>2, <2>3, QuietStep
  <2>4. CASE ~Ended
    BY <1>1, <1>2, <2>1, <2>2, <2>4, AcceptStep
  <2> QED
    BY <2>3, <2>4
<1> QED
  BY <1>3, <1>4 DEF connqueue_snd, SndLock, SndPut, SndCount, SndSignal, SndUnlock

LEMMA RefRcv ==
  ASSUME ClientInv, ClientInv', connqueue_rcv \/ Timeout \/ SpuriousWakeup
  PROVE  Promise!Next
<1>1. ~Ended /\ stream' = stream /\ f_exit' = f_exit
  BY EndedAt
  DEF connqueue_rcv, RcvLock, RcvWait, RcvWake, RcvTest, RcvGet, RcvUncount, RcvUnlock,
      Timeout, RcvTimeout, SpuriousWakeup, RcvSpurious, Leaving, tvars
<1>2. CASE Ended'
  BY <1>1, <1>2, EndStep
<1>3. CASE ~Ended' /\ UNCHANGED <<hand, db>>
  BY <1>1, <1>3, QuietStep DEF Pending
<1>4. CASE ~Ended' /\ RcvGet /\ hand' = <<Head(db)>> /\ db' = Tail(db) /\ db # <<>>
  <2>1. hand = <<>> /\ db \in Seq(Packet)
    BY <1>4 DEF ClientInv, InHand, ThreadTypeOK, RcvGet
  <2>2. Head(db) \in Packet
    BY <1>4, <2>1, PacketSeqs
  <2>3. Pending' = Pending
    BY <1>4, <2>1, <2>2, HandFirst DEF Pending
  <2> QED
    BY <1>1, <1>4, <2>3, QuietStep
<1>5. CASE ~Ended' /\ RcvUncount
  <2>1. db \in Seq(Packet) /\ n = Len(db) + 1 /\ rcv = "uncount"
    BY <1>5 DEF ClientInv, Counting, ThreadTypeOK, RcvUncount
  <2>2. PICK p \in Packet : hand = <<p>>
    BY <1>5 DEF ClientInv, InHand, RcvUncount
  <2>3. db' = db
    BY <1>5, <2>1, PacketSeqs DEF RcvUncount
  <2>4. CASE hand' = hand
    BY <1>1, <1>5, <2>3, <2>4, QuietStep DEF Pending
  <2>5. CASE hand' = <<>> /\ n' = 0
    <3>1. n = 1
      BY <1>5, <2>1, <2>5, PacketSeqs DEF RcvUncount
    <3>2. Pending # <<>> /\ Pending' = Tail(Pending)
      BY <2>1, <2>2, <2>3, <2>5, HandFirst DEF Pending
    <3> QED
      BY <1>1, <1>5, <2>1, <3>1, <3>2, DropStep
  <2> QED
    BY <1>5, <2>4, <2>5 DEF RcvUncount
<1> QED
  BY <1>2, <1>3, <1>4, <1>5
  DEF connqueue_rcv, RcvLock, RcvWait, RcvWake, RcvTest, RcvGet, RcvUnlock,
      Timeout, RcvTimeout, SpuriousWakeup, RcvSpurious

LEMMA RefThread ==
  ASSUME ClientInv, ClientInv', ClientStep, ~connqueue_rcv
  PROVE  Promise!Next
<1>1. CASE Ended' /\ stream' = stream
  BY <1>1, EndStep
<1> DEFINE Writes == RcvGoes("send", "write") /\ UNCHANGED tvars
<1>2. CASE ~Ended' /\ (While \/ TestCancel \/ Periodic \/ Log \/ Writes)
  <2>1. ~Ended
    BY <1>2, EndedAt
    DEF While, TestCancel, Periodic, Log, RcvGoes, Ended, Leaving, tvars
  <2>2. UNCHANGED <<hand, db, stream>>
    BY <1>2 DEF While, TestCancel, Periodic, Log, RcvGoes, tvars
  <2> QED
    BY <1>2, <2>1, <2>2, QuietStep DEF Pending
<1>3. CASE rcv = "write" /\ Sent(TRUE) /\ UNCHANGED f_exit
  <2>1. ~Ended /\ db \in Seq(Packet) /\ db' = db /\ stream \in Seq(Packet) /\ hand' = <<>>
    BY <1>3, EndedAt DEF Sent, Leaving, ClientInv, ThreadTypeOK
  <2>2. PICK p \in Packet : hand = <<p>>
    BY <1>3 DEF ClientInv, InHand, Sent
  <2>3. stream' = stream \o hand
    BY <1>3 DEF Sent
  <2>4. Pending # <<>> /\ Pending' = Tail(Pending) /\ stream' = Append(stream, Head(Pending))
    BY <2>1, <2>2, <2>3, HandFirst DEF Pending
  <2> QED
    BY <2>1, <2>4, TransmitStep
<1>4. CASE /\ stream' = stream
           /\ \/ Sent(FALSE) /\ f_exit' = TRUE
              \/ Cancelled \/ CancelledInWait \/ CleanupUnlock \/ CleanupFinish
  <2>1. Ended'
    BY <1>4 DEF Sent, Cancelled, CancelledInWait, CleanupUnlock, CleanupFinish, RcvGoes,
                Ended
  <2> QED
    BY <1>4, <2>1, EndStep
<1> QED
  BY <1>1, <1>2, <1>3, <1>4
  DEF ClientStep, While, TestCancel, Periodic, Log, write1, send_emwin_client, Sent, Cancelled,
      CancelledInWait, CleanupUnlock, CleanupFinish, tvars

LEMMA RefServer ==
  ASSUME \/ server_send_client_queues \/ DeleteFinished \/ DeleteRunning \/ Destroy
         \/ ReleaseStep \/ SetQuit
  PROVE  Promise!Next
<1>1. UNCHANGED <<hand, db, stream, cut, f_exit, rcv>>
  BY DEF server_send_client_queues, KillIdle, DeleteFinished, DeleteRunning, Destroy,
         ReleaseStep, KillCancel, KillJoin, ReleaseQueue, CloseFd, KillGoes, SetQuit, qvars
<1>2. Ended' <=> Ended
  BY <1>1 DEF Ended
<1> QED
  BY <1>1, <1>2, QuietStep DEF Pending

LEMMA RefStep == ClientInv /\ ClientInv' /\ [Next]_vars => [Promise!Next]_(Promise!svars)
<1> SUFFICES ASSUME ClientInv, ClientInv', [Next]_vars PROVE [Promise!Next]_(Promise!svars)
  OBVIOUS
<1>1. CASE UNCHANGED vars
  BY <1>1 DEF vars, qvars, tvars, Promise!svars, Ended
<1>2. CASE Next /\ ~UNCHANGED vars
  BY <1>2, RefSnd, RefRcv, RefThread, RefServer DEF Next, Terminated
<1> QED
  BY <1>1, <1>2

(* Packets reach the client in order, once each and none skipped, until the *)
(* stream ends, whatever the threads' order and the faults: the queue and   *)
(* the thread implement PacketStream.                                       *)
THEOREM StreamIsKept == Spec => StreamKept
BY InitInv, StepInv, RefInit, RefStep, PTL DEF Spec, StreamKept, Promise!Spec
=============================================================================
