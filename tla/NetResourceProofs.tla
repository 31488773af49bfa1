-------------------------- MODULE NetResourceProofs --------------------------
(***************************************************************************)
(* For any number of clients: every descriptor, thread and queue of the    *)
(* network server belongs to one entry of the table.                       *)
(*                                                                         *)
(* ResInv is inductive relative to NetInv: the entries after the first own *)
(* what is open, each its own, and the connection that is being added owns *)
(* its descriptor.                                                         *)
(***************************************************************************)
EXTENDS NetProofs

(* The open descriptors are those of the clients and of the connection that *)
(* is being added.                                                          *)
FdRes ==
  /\ ce[1].fd = 0 /\ 0 \notin fds /\ fds \subseteq 1 .. MaxEntries
  /\ \A k \in 2 .. Len(ce) : ce[k].fd \in fds /\ ce[k].fd # accepted.fd
  /\ \A f \in fds : f = accepted.fd \/ \E k \in 2 .. Len(ce) : ce[k].fd = f
  /\ accepted.fd # 0 => accepted.fd \in fds
  /\ \A j, k \in 2 .. Len(ce) : ce[j].fd = ce[k].fd => j = k

(* The threads not yet joined are those of the clients that have one.       *)
ThreadRes ==
  /\ \A k \in 2 .. Len(ce) : ce[k].fd \in threads <=> ce[k].thread # "none"
  /\ \A f \in threads : \E k \in 2 .. Len(ce) : ce[k].fd = f

(* The open queues are those of the clients that have a thread.             *)
QueueRes ==
  /\ 0 \notin queues
  /\ \A k \in 2 .. Len(ce) : /\ ce[k].thread = "none" => ce[k].cq = 0
                             /\ ce[k].thread # "none" => ce[k].cq \in queues
  /\ \A q \in queues : \E k \in 2 .. Len(ce) : ce[k].cq = q
  /\ \A j, k \in 2 .. Len(ce) : ce[j].cq = ce[k].cq /\ ce[j].cq # 0 => j = k

(* A connection is being added between accept() and its entry.              *)
AcceptedRes == IF at \in {"restore", "admit", "refuse"} THEN accepted.fd # 0 ELSE accepted = Nothing

Res == FdRes /\ ThreadRes /\ QueueRes

(* After terminate_network_server.                                          *)
AllReleased ==
  fds = {} /\ threads = {} /\ queues = {}

ResInv ==
  /\ AcceptedRes
  /\ at = "terminated" => AllReleased
  /\ at # "terminated" => Res

-----------------------------------------------------------------------------
(* Where the entries come from, and go, when the k-th is taken out.         *)
Old(k, j) == IF j < k THEN j ELSE j + 1
New(k, m) == IF m < k THEN m ELSE m - 1

(* The entries that are left are the others.                                *)
LEMMA RemovalMap ==
  ASSUME Table, NEW k \in 2 .. Len(ce), ce' = Shifted(ce, k)
  PROVE  /\ ce'[1] = ce[1]
         /\ \A j \in 2 .. Len(ce') :
              Old(k, j) \in 2 .. Len(ce) /\ Old(k, j) # k /\ ce'[j] = ce[Old(k, j)]
         /\ \A m \in 2 .. Len(ce) :
              m # k => New(k, m) \in 2 .. Len(ce') /\ ce'[New(k, m)] = ce[m]
         /\ \A j, h \in 2 .. Len(ce') : Old(k, j) = Old(k, h) => j = h
<1> DEFINE n == Len(ce)
<1>0. ce \in Seq(Entry) /\ n \in Nat /\ k \in 1 .. n /\ k \in Nat /\ 2 <= k /\ k <= n
  BY DEF Table, TableTypes
<1>1. /\ Len(ce') = n - 1
      /\ \A j \in 1 .. n - 1 : ce'[j] = IF j < k THEN ce[j] ELSE ce[j + 1]
  BY <1>0, ShiftedFacts
<1> HIDE DEF n
<1>2. ce'[1] = ce[1]
  BY ONLY <1>0, <1>1
<1>3. \A j \in 2 .. n - 1 : Old(k, j) \in 2 .. n /\ Old(k, j) # k /\ ce'[j] = ce[Old(k, j)]
  BY ONLY <1>0, <1>1 DEF Old
<1>4. \A m \in 2 .. n : m # k => New(k, m) \in 2 .. n - 1 /\ ce'[New(k, m)] = ce[m]
  BY ONLY <1>0, <1>1 DEF New
<1>5. \A j, h \in 2 .. n - 1 : Old(k, j) = Old(k, h) => j = h
  BY ONLY <1>0 DEF Old
<1>6. Len(ce') = n - 1 /\ Len(ce) = n
  BY <1>1 DEF n
<1> QED
  BY ONLY <1>2, <1>3, <1>4, <1>5, <1>6

(* An entry is taken out, and what it owns with it.                         *)
LEMMA RemovalRes ==
  ASSUME Table, Res, NEW k \in 2 .. Len(ce), ce' = Shifted(ce, k),
         fds' = fds \ {ce[k].fd}, threads' = threads \ {ce[k].fd},
         queues' = queues \ {ce[k].cq}, UNCHANGED accepted
  PROVE  Res'
<1> DEFINE c == ce[k]
<1>1. /\ ce' = Shifted(ce, k) /\ fds' = fds \ {c.fd} /\ threads' = threads \ {c.fd}
      /\ queues' = queues \ {c.cq}
  OBVIOUS
<1> HIDE DEF c
<1>2. /\ ce'[1] = ce[1]
      /\ \A j \in 2 .. Len(ce') :
           Old(k, j) \in 2 .. Len(ce) /\ Old(k, j) # k /\ ce'[j] = ce[Old(k, j)]
      /\ \A m \in 2 .. Len(ce) :
           m # k => New(k, m) \in 2 .. Len(ce') /\ ce'[New(k, m)] = ce[m]
      /\ \A j, h \in 2 .. Len(ce') : Old(k, j) = Old(k, h) => j = h
  BY <1>1, RemovalMap
<1>3. FdRes'
  <2>1. /\ ce[1].fd = 0 /\ 0 \notin fds /\ fds \subseteq 1 .. MaxEntries
        /\ \A m \in 2 .. Len(ce) : ce[m].fd \in fds /\ ce[m].fd # accepted.fd
        /\ \A f \in fds : f = accepted.fd \/ \E m \in 2 .. Len(ce) : ce[m].fd = f
        /\ accepted.fd # 0 => accepted.fd \in fds
        /\ \A j, m \in 2 .. Len(ce) : ce[j].fd = ce[m].fd => j = m
    BY DEF Res, FdRes
  <2>2. ASSUME NEW j \in 2 .. Len(ce')
        PROVE  ce'[j].fd \in fds' /\ ce'[j].fd # accepted.fd
    <3>1. PICK m \in 2 .. Len(ce) : m # k /\ ce'[j] = ce[m]
      BY ONLY <1>2, j \in 2 .. Len(ce')
    <3>2. ce[m].fd # c.fd /\ ce[m].fd \in fds /\ ce[m].fd # accepted.fd
      BY <2>1, <3>1, Zenon DEF c
    <3> QED
      BY <1>1, <3>1, <3>2, Zenon
  <2>3. ASSUME NEW f \in fds', f # accepted.fd
        PROVE  \E j \in 2 .. Len(ce') : ce'[j].fd = f
    <3>1. PICK m \in 2 .. Len(ce) : ce[m].fd = f
      BY <1>1, <2>1, <2>3
    <3>2. m # k
      BY <1>1, <3>1 DEF c
    <3> QED
      BY <1>2, <3>1, <3>2
  <2>4. ASSUME NEW j \in 2 .. Len(ce'), NEW h \in 2 .. Len(ce'), ce'[j].fd = ce'[h].fd
        PROVE  j = h
    <3>1. /\ Old(k, j) \in 2 .. Len(ce) /\ ce'[j] = ce[Old(k, j)]
          /\ Old(k, h) \in 2 .. Len(ce) /\ ce'[h] = ce[Old(k, h)]
      BY <1>2, Zenon
    <3>2. Old(k, j) = Old(k, h)
      BY <2>1, <2>4, <3>1, Zenon
    <3> QED
      BY <1>2, <3>2, Zenon
  <2>5. accepted.fd # 0 => accepted.fd \in fds'
    BY <1>1, <2>1, Zenon DEF c
  <2> QED
    BY <1>1, <1>2, <2>1, <2>2, <2>3, <2>4, <2>5, Zenon DEF FdRes
<1>4. ThreadRes'
  <2>1. /\ \A m \in 2 .. Len(ce) : ce[m].fd \in threads <=> ce[m].thread # "none"
        /\ \A f \in threads : \E m \in 2 .. Len(ce) : ce[m].fd = f
        /\ \A j, m \in 2 .. Len(ce) : ce[j].fd = ce[m].fd => j = m
    BY DEF Res, FdRes, ThreadRes
  <2>2. ASSUME NEW j \in 2 .. Len(ce')
        PROVE  ce'[j].fd \in threads' <=> ce'[j].thread # "none"
    <3>1. PICK m \in 2 .. Len(ce) : m # k /\ ce'[j] = ce[m]
      BY <1>2
    <3>2. ce[m].fd # c.fd /\ (ce[m].fd \in threads <=> ce[m].thread # "none")
      BY <2>1, <3>1 DEF c
    <3> QED
      BY <1>1, <3>1, <3>2
  <2>3. ASSUME NEW f \in threads'
        PROVE  \E j \in 2 .. Len(ce') : ce'[j].fd = f
    <3>1. PICK m \in 2 .. Len(ce) : ce[m].fd = f
      BY <1>1, <2>1
    <3>2. m # k
      BY <1>1, <3>1 DEF c
    <3> QED
      BY <1>2, <3>1, <3>2
  <2> QED
    BY <2>2, <2>3, Zenon DEF ThreadRes
<1>5. QueueRes'
  <2>1. /\ 0 \notin queues
        /\ \A m \in 2 .. Len(ce) : /\ ce[m].thread = "none" => ce[m].cq = 0
                                   /\ ce[m].thread # "none" => ce[m].cq \in queues
        /\ \A q \in queues : \E m \in 2 .. Len(ce) : ce[m].cq = q
        /\ \A j, m \in 2 .. Len(ce) : ce[j].cq = ce[m].cq /\ ce[j].cq # 0 => j = m
    BY DEF Res, QueueRes
  <2>4. ASSUME NEW j \in 2 .. Len(ce')
        PROVE  /\ ce'[j].thread = "none" => ce'[j].cq = 0
               /\ ce'[j].thread # "none" => ce'[j].cq \in queues'
    <3>1. PICK m \in 2 .. Len(ce) : m # k /\ ce'[j] = ce[m]
      BY <1>2
    <3>2. /\ ce[m].thread = "none" => ce[m].cq = 0
          /\ ce[m].thread # "none" => ce[m].cq \in queues /\ ce[m].cq # c.cq
      BY <2>1, <3>1, Zenon DEF c
    <3> QED
      BY <1>1, <3>1, <3>2
  <2>5. ASSUME NEW q \in queues'
        PROVE  \E j \in 2 .. Len(ce') : ce'[j].cq = q
    <3>1. PICK m \in 2 .. Len(ce) : ce[m].cq = q
      BY <1>1, <2>1
    <3>2. m # k
      BY <1>1, <3>1 DEF c
    <3> QED
      BY <1>2, <3>1, <3>2
  <2>6. ASSUME NEW j \in 2 .. Len(ce'), NEW h \in 2 .. Len(ce'),
               ce'[j].cq = ce'[h].cq, ce'[j].cq # 0
        PROVE  j = h
    <3>a. ce'[j] = ce[Old(k, j)] /\ ce'[h] = ce[Old(k, h)]
          /\ Old(k, j) \in 2 .. Len(ce) /\ Old(k, h) \in 2 .. Len(ce)
      BY <1>2
    <3>1. Old(k, j) = Old(k, h)
      BY ONLY <2>1, <2>6, <3>a
    <3> QED
      BY <1>2, <3>1
  <2> QED
    BY <1>1, <2>1, <2>4, <2>5, <2>6, Zenon DEF QueueRes
<1> QED
  BY <1>3, <1>4, <1>5 DEF Res

(* conn_table_del_element.                                                  *)
LEMMA DeletionRes ==
  ASSUME Table, Res, NEW k \in 2 .. Len(ce), conn_table_del_element(k), UNCHANGED accepted
  PROVE  Res'
<1>1. /\ ce' = Shifted(ce, k) /\ fds' = fds \ {ce[k].fd} /\ threads' = threads \ {ce[k].fd}
      /\ queues' = queues \ {ce[k].cq}
  BY DEF conn_table_del_element, Table
<1> QED
  BY <1>1, RemovalRes

(* The client whose thread could not be created has neither a thread nor a  *)
(* queue that is open.                                                      *)
LEMMA FailureRes ==
  ASSUME Table, Res, NEW k \in 2 .. Len(ce), ce[k].thread = "none", InitFailsAfterQueue(k),
         UNCHANGED accepted
  PROVE  Res'
<1>1. ce' = Shifted(ce, k) /\ fds' = fds \ {ce[k].fd} /\ UNCHANGED <<threads, queues>>
  BY DEF InitFailsAfterQueue, Table
<1>3. ce[k].fd \notin threads /\ ce[k].cq \notin queues
  BY DEF Res, ThreadRes, QueueRes
<1>4. threads' = threads \ {ce[k].fd} /\ queues' = queues \ {ce[k].cq}
  BY <1>1, <1>3
<1> QED
  BY <1>1, <1>4, RemovalRes

(* A change of the protocol, the time or the state of the thread.           *)
LEMMA EditRes ==
  ASSUME Table, Res, Len(ce') = Len(ce),
         \A k \in 1 .. Len(ce) : /\ ce'[k].fd = ce[k].fd /\ ce'[k].cq = ce[k].cq
                                 /\ ce'[k].thread = "none" <=> ce[k].thread = "none",
         UNCHANGED <<fds, threads, queues, accepted>>
  PROVE  Res'
<1>0. Len(ce) \in Nat /\ Len(ce) >= 1
  BY DEF Table, TableTypes
<1>a. 1 \in 1 .. Len(ce) /\ \A k \in 2 .. Len(ce) : k \in 1 .. Len(ce)
  BY <1>0
<1>1. FdRes'
  BY <1>a DEF Res, FdRes
<1>2. ThreadRes'
  BY <1>a DEF Res, ThreadRes
<1>3. QueueRes'
  BY <1>a DEF Res, QueueRes
<1> QED
  BY <1>1, <1>2, <1>3 DEF Res

LEMMA StutterRes ==
  ASSUME Table, Res, UNCHANGED <<ce, fds, threads, queues, accepted>>
  PROVE  Res'
  BY Zenon DEF Res, FdRes, ThreadRes, QueueRes

LEMMA SetProtocolRes ==
  ASSUME Table, Res, NEW k \in 1 .. Len(ce), NEW p, SetProtocol(k, p), UNCHANGED accepted
  PROVE  Res'
<1>0. ce \in Seq(Entry)
  BY DEF Table, TableTypes
<1>1. ce' = [ce EXCEPT ![k].protocol = p] /\ UNCHANGED <<fds, threads, queues>>
  BY DEF SetProtocol
<1>2. Len(ce') = Len(ce)
  BY <1>0, <1>1
<1>3. ASSUME NEW j \in 1 .. Len(ce)
      PROVE  ce'[j].fd = ce[j].fd /\ ce'[j].cq = ce[j].cq /\ ce'[j].thread = ce[j].thread
  <2>1. ce[j] \in Entry /\ ce'[j] = IF j = k THEN [ce[j] EXCEPT !.protocol = p] ELSE ce[j]
    BY <1>0, <1>1
  <2> QED
    BY ONLY <2>1 DEF Entry
<1> QED
  BY <1>1, <1>2, <1>3, EditRes

(* conn_element_init4: the thread and the queue are new.                    *)
LEMMA Init4Res ==
  ASSUME Table, Res, NEW k \in 2 .. Len(ce), ce[k].thread = "none", conn_element_init4(k),
         UNCHANGED accepted
  PROVE  Res'
<1> DEFINE q == Lowest(queues)
<1>0. ce \in Seq(Entry) /\ IsFiniteSet(queues) /\ Len(ce) \in Nat /\ Len(ce) >= 1
  BY DEF Table, TableTypes
<1>1. q \notin queues /\ q # 0
  BY <1>0, LowestIsFree, FS_CardinalityType
<1>2. /\ queues' = queues \cup {q} /\ threads' = threads \cup {ce[k].fd}
      /\ ce' = [ce EXCEPT ![k].cq = q, ![k].thread = "running"]
      /\ UNCHANGED fds
  BY DEF conn_element_init4
<1> HIDE DEF q
<1>3. Len(ce') = Len(ce)
  BY <1>0, <1>2
<1>4. ASSUME NEW j \in 1 .. Len(ce)
      PROVE  /\ ce'[j].fd = ce[j].fd
             /\ j = k => ce'[j].cq = q /\ ce'[j].thread = "running"
             /\ j # k => ce'[j] = ce[j]
  <2>1. k \in 1 .. Len(ce) /\ ce[j] \in Entry
    BY <1>0
  <2> DEFINE e == [ce[k] EXCEPT !.cq = q, !.thread = "running"]
  <2>2. ce' = [ce EXCEPT ![k] = e]
    BY <1>2
  <2>a. ce[k] \in Entry
    BY <1>0, <2>1
  <2>3. e.fd = ce[k].fd /\ e.cq = q /\ e.thread = "running"
    BY ONLY <2>a DEF Entry
  <2> HIDE DEF e
  <2>4. ce'[j] = IF j = k THEN e ELSE ce[j]
    BY <1>0, <2>1, <2>2
  <2> QED
    BY <2>3, <2>4
<1>a. 1 \in 1 .. Len(ce) /\ \A j \in 2 .. Len(ce) : j \in 1 .. Len(ce)
  BY <1>0
<1>5. FdRes'
  BY <1>2, <1>3, <1>4, <1>a DEF Res, FdRes
<1>6. ThreadRes'
  <2>1. /\ \A m \in 2 .. Len(ce) : ce[m].fd \in threads <=> ce[m].thread # "none"
        /\ \A f \in threads : \E m \in 2 .. Len(ce) : ce[m].fd = f
        /\ \A j, m \in 2 .. Len(ce) : ce[j].fd = ce[m].fd => j = m
    BY DEF Res, FdRes, ThreadRes
  <2>2. ASSUME NEW j \in 2 .. Len(ce)
        PROVE  ce'[j].fd \in threads' <=> ce'[j].thread # "none"
    <3>1. CASE j = k
      BY <1>2, <1>4, <1>a, <3>1
    <3>2. CASE j # k
      <4>1. ce'[j] = ce[j] /\ ce[j].fd # ce[k].fd
        BY <1>4, <1>a, <2>1, <3>2
      <4> QED
        BY <1>2, <2>1, <4>1
    <3> QED
      BY <3>1, <3>2
  <2>3. ASSUME NEW f \in threads'
        PROVE  \E j \in 2 .. Len(ce) : ce'[j].fd = f
    <3>1. PICK m \in 2 .. Len(ce) : ce[m].fd = f
      BY <1>2, <2>1
    <3> QED
      BY <1>4, <1>a, <3>1
  <2> QED
    BY <1>3, <2>2, <2>3 DEF ThreadRes
<1>7. QueueRes'
  <2>1. /\ 0 \notin queues
        /\ \A m \in 2 .. Len(ce) : /\ ce[m].thread = "none" => ce[m].cq = 0
                                   /\ ce[m].thread # "none" => ce[m].cq \in queues
        /\ \A r \in queues : \E m \in 2 .. Len(ce) : ce[m].cq = r
        /\ \A j, m \in 2 .. Len(ce) : ce[j].cq = ce[m].cq /\ ce[j].cq # 0 => j = m
    BY DEF Res, QueueRes
  <2>2. ASSUME NEW j \in 2 .. Len(ce)
        PROVE  /\ ce'[j].thread = "none" => ce'[j].cq = 0
               /\ ce'[j].thread # "none" => ce'[j].cq \in queues'
    BY <1>2, <1>4, <1>a, <2>1
  <2>3. ASSUME NEW r \in queues'
        PROVE  \E j \in 2 .. Len(ce) : ce'[j].cq = r
    <3>1. CASE r = q
      BY <1>4, <1>a, <3>1
    <3>2. CASE r # q
      <4>1. PICK m \in 2 .. Len(ce) : ce[m].cq = r
        BY <1>2, <2>1, <3>2
      <4>2. m # k
        BY <1>2, <2>1, <3>2, <4>1
      <4> QED
        BY <1>4, <1>a, <4>1, <4>2
    <3> QED
      BY <3>1, <3>2
  <2>4. \A m \in 2 .. Len(ce) : m # k => ce'[m] = ce[m] /\ ce[m].cq # q
    BY <1>1, <1>4, <1>a, <2>1
  <2>5. ce'[k].cq = q
    BY <1>4, <1>a
  <2>6. ASSUME NEW j \in 2 .. Len(ce), NEW m \in 2 .. Len(ce), ce'[j].cq = ce'[m].cq, ce'[j].cq # 0
        PROVE  j = m
    BY <2>1, <2>4, <2>5, <2>6
  <2>7. 0 \notin queues'
    BY <1>1, <1>2, <2>1 DEF Res, QueueRes
  <2> QED
    BY <1>3, <2>2, <2>3, <2>6, <2>7 DEF QueueRes
<1> QED
  BY <1>5, <1>6, <1>7 DEF Res

(* There are as many descriptors as clients when none is being added, so    *)
(* that the next one is within the bound.                                   *)
LEMMA NextFd ==
  ASSUME Table, FdRes, accepted.fd = 0, Len(ce) < MaxEntries
  PROVE  Lowest(fds) \in 1 .. MaxEntries /\ Lowest(fds) \notin fds
<1> DEFINE T == 2 .. Len(ce)
           of == [f \in fds |-> CHOOSE k \in T : ce[k].fd = f]
<1>0. Len(ce) \in Nat /\ Len(ce) >= 1 /\ IsFiniteSet(fds) /\ MaxEntries \in Nat
  BY ServerAssumption DEF Table, TableTypes
<1>1. \A f \in fds : \E k \in T : ce[k].fd = f
  BY DEF FdRes
<1>2. \A f \in fds : of[f] \in T /\ ce[of[f]].fd = f
  BY <1>1
<1>3. of \in [fds -> T]
  BY <1>2
<1>4. \A f, h \in fds : of[f] = of[h] => f = h
  BY <1>2
<1> HIDE DEF of
<1>a. 2 \in Int /\ Len(ce) \in Int
  BY <1>0
<1>5. IsFiniteSet(T) /\ Cardinality(T) = IF 2 > Len(ce) THEN 0 ELSE Len(ce) - 2 + 1
  BY ONLY <1>a, FS_Interval
<1>6. Cardinality(T) = Len(ce) - 1
  BY <1>0, <1>5
<1>7. Cardinality(fds) \in Nat
  BY <1>0, FS_CardinalityType
<1> HIDE DEF T
<1>8. ~(Cardinality(T) < Cardinality(fds))
  <2> SUFFICES ASSUME Cardinality(T) < Cardinality(fds) PROVE FALSE
    OBVIOUS
  <2>1. \E x, y \in fds : x # y /\ of[x] = of[y]
    BY <1>0, <1>3, <1>5, FS_PigeonHole
  <2> QED
    BY <1>4, <2>1
<1>9. Lowest(fds) \in 1 .. Cardinality(fds) + 1 /\ Lowest(fds) \notin fds
  BY <1>0, LowestIsFree
<1> QED
  BY <1>0, <1>6, <1>7, <1>8, <1>9

-----------------------------------------------------------------------------
LEMMA InitRes == Init => ResInv
<1> SUFFICES ASSUME Init PROVE ResInv
  OBVIOUS
<1> USE DEF Init, TableInit
<1> DEFINE e == Element("server", ServerFd, NoIp)
<1>1. e.fd = 0
  BY DEF Element, ServerFd
<1>2. ce = <<e>>
  OBVIOUS
<1> HIDE DEF e
<1>3. Len(ce) = 1 /\ ce[1] = e
  BY <1>2
<1>4. accepted = Nothing /\ accepted.fd = 0
  BY DEF Nothing, ServerFd
<1>5. FdRes
  BY <1>1, <1>3, <1>4 DEF FdRes
<1>6. ThreadRes /\ QueueRes
  BY <1>3 DEF ThreadRes, QueueRes
<1> QED
  BY <1>4, <1>5, <1>6 DEF ResInv, AcceptedRes, Res

(* A step outside poll_add_connection_net: nothing is being added before    *)
(* it or after it.                                                          *)
LEMMA QuietStep ==
  ASSUME ResInv, at \notin {"restore", "admit", "refuse", "terminated"},
         at' \notin {"restore", "admit", "refuse", "terminated"},
         accepted' \in {accepted, Nothing}, UNCHANGED accepted => Res'
  PROVE  ResInv'
  BY DEF ResInv, AcceptedRes

(* The loops of process_connections.                                        *)
LEMMA LoopRes ==
  ASSUME NetInv, ResInv,
         \/ process_connections \/ process_finished_connections
         \/ process_unidentified_connections \/ spawn_client_threads,
         ~End
  PROVE  ResInv'
<1>0. /\ at \notin {"restore", "admit", "refuse", "terminated"} /\ at' \notin {"restore", "admit", "refuse", "terminated"}
      /\ UNCHANGED accepted
  BY DEF process_connections, process_finished_connections, process_unidentified_connections,
         spawn_client_threads, NextTurn, Enter
<1>1. Table /\ Res /\ i \in Nat /\ numentries \in Nat
  BY <1>0 DEF NetInv, LoopTypes, ResInv
<1>2. at \in {"finished", "unidentified", "spawn"} => numentries = Len(ce)
  BY <1>0 DEF NetInv, Loops
<1>3. i <= Len(ce) => /\ i \in 1 .. Len(ce)
                      /\ conn_element_isnetclient(ce[i]) => i \in 2 .. Len(ce)
  BY <1>0, TurnEntry
<1> SUFFICES Res'
  BY <1>0, QuietStep
<1>4. CASE UNCHANGED <<ce, fds, threads, queues>>
  BY <1>0, <1>1, <1>4, StutterRes
<1>5. CASE process_connections
  BY <1>4, <1>5 DEF process_connections
<1>6. CASE process_finished_connections
  <2>1. \/ UNCHANGED tablevars
        \/ i <= Len(ce) /\ conn_element_isnetclient(ce[i]) /\ conn_table_del_element(i)
    BY <1>2, <1>6 DEF process_finished_connections, conn_element_isnetclient_stoped
  <2> QED
    BY <1>0, <1>1, <1>3, <1>4, <2>1, DeletionRes DEF tablevars
<1>7. CASE process_unidentified_connections
  <2>1. \/ UNCHANGED tablevars
        \/ /\ i <= Len(ce) /\ conn_element_isnetclient(ce[i])
           /\ SetProtocol(i, "V1") \/ conn_table_del_element(i)
    BY <1>2, <1>7 DEF process_unidentified_connections
  <2> QED
    BY <1>0, <1>1, <1>3, <1>4, <2>1, DeletionRes, SetProtocolRes DEF tablevars
<1>8. CASE spawn_client_threads
  <2>1. \/ UNCHANGED tablevars
        \/ /\ i <= Len(ce) /\ conn_element_isnetclient(ce[i]) /\ ce[i].thread = "none"
           /\ conn_element_init4(i) \/ conn_table_del_element(i) \/ InitFailsAfterQueue(i)
    BY <1>2, <1>8 DEF spawn_client_threads
  <2> QED
    BY <1>0, <1>1, <1>3, <1>4, <2>1, DeletionRes, Init4Res, FailureRes DEF tablevars
<1> QED
  BY <1>5, <1>6, <1>7, <1>8

(* poll(), and what the clients say.                                        *)
LEMMA PollRes ==
  ASSUME NetInv, ResInv, Poll \/ poll_clients, ~End
  PROVE  ResInv'
<1>0. /\ at \notin {"restore", "admit", "refuse", "terminated"} /\ at' \notin {"restore", "admit", "refuse", "terminated"}
      /\ accepted' \in {accepted, Nothing}
  <2>1. CASE poll_clients
    BY <2>1 DEF poll_clients, NextTurn, Leave
  <2>2. CASE Poll
    <3>1. Leave \/ Enter("accept") \/ Enter("clients")
      <4>1. PICK ready \in [DOMAIN pfd -> {"none", "in", "hup"}] :
               Leave \/ Enter(IF ready[1] = "in" THEN "accept" ELSE "clients")
        BY <2>2, Zenon DEF Poll
      <4> QED
        BY <4>1
    <3> QED
      BY <2>2, <3>1 DEF Poll, Leave, Enter
  <2> QED
    BY <2>1, <2>2
<1>1. Table /\ Res
  BY <1>0 DEF NetInv, ResInv
<1>2. i <= Len(ce) => /\ i \in 1 .. Len(ce)
                      /\ conn_element_isnetclient(ce[i]) => i \in 2 .. Len(ce)
  BY <1>0, TurnEntry
<1> SUFFICES ASSUME UNCHANGED accepted PROVE Res'
  BY <1>0, QuietStep
<1>3. CASE UNCHANGED <<ce, fds, threads, queues>>
  BY <1>1, <1>3, StutterRes
<1>4. CASE Poll
  BY <1>3, <1>4 DEF Poll
<1>5. CASE poll_clients
  <2>1. \/ UNCHANGED tablevars
        \/ /\ i <= Len(ce) /\ conn_element_isnetclient(ce[i])
           /\ conn_table_del_element(i) \/ \E p : SetProtocol(i, p)
    BY <1>5 DEF poll_clients, handle_client
  <2> QED
    BY <1>1, <1>2, <1>3, <2>1, DeletionRes, SetProtocolRes DEF tablevars
<1> QED
  BY <1>4, <1>5

(* accept() returns a descriptor that was free.                             *)
LEMMA AcceptRes ==
  ASSUME NetInv, ResInv, Accept
  PROVE  ResInv'
<1>0. at = "accept" /\ Table /\ Res /\ accepted = Nothing /\ accepted.fd = 0
  BY DEF Accept, NetInv, ResInv, AcceptedRes, Nothing, ServerFd
<1>1. UNCHANGED <<ce, threads, queues>>
  BY DEF Accept
<1>2. CASE /\ Len(ce) < MaxEntries
           /\ \E ip \in Ip : accepted' = [fd |-> Lowest(fds), ip |-> ip]
           /\ fds' = fds \cup {accepted'.fd}
           /\ at' = "restore"
  <2> DEFINE f == Lowest(fds)
  <2>1. accepted'.fd = f
    BY <1>2
  <2>2. f \in 1 .. MaxEntries /\ f \notin fds
    BY <1>0, <1>2, NextFd DEF Res
  <2> HIDE DEF f
  <2>3. f # 0 /\ fds' = fds \cup {f}
    BY <1>2, <2>1, <2>2
  <2>4. FdRes'
    BY <1>0, <1>1, <2>1, <2>2, <2>3 DEF Res, FdRes
  <2>5. ThreadRes'
    BY <1>0, <1>1, ZenonT(30) DEF Res, ThreadRes
  <2>6. QueueRes'
    BY <1>0, <1>1, ZenonT(30) DEF Res, QueueRes
  <2> QED
    BY <1>2, <2>1, <2>3, <2>4, <2>5, <2>6 DEF ResInv, AcceptedRes, Res
<1>3. CASE Leave /\ UNCHANGED fds
  <2>1. UNCHANGED accepted /\ at' = "packets"
    BY <1>0, <1>3 DEF Leave
  <2> QED
    BY <1>0, <1>1, <1>3, <2>1, StutterRes, QuietStep
<1> QED
  BY <1>2, <1>3 DEF Accept

(* poll_restore_connection deletes an entry, or none.                       *)
LEMMA RestoreRes ==
  ASSUME NetInv, ResInv, poll_restore_connection
  PROVE  ResInv'
<1> DEFINE old == conn_table_find_element_byip(accepted.ip)
           k == CHOOSE k \in old : \A j \in old : k <= j
<1>0. at = "restore" /\ Table /\ Res /\ accepted.ip \in Ip /\ ce \in Seq(Entry) /\ Len(ce) \in Nat
  BY DEF poll_restore_connection, NetInv, LoopTypes, Table, TableTypes, ResInv
<1>1. at' \in {"admit", "refuse"} /\ UNCHANGED accepted
  BY DEF poll_restore_connection
<1>2. Res'
  <2>1. CASE old = {}
    BY <1>0, <1>1, <2>1, StutterRes DEF poll_restore_connection, tablevars
  <2>2. CASE old # {}
    <3>1. conn_table_del_element(k)
      BY <2>2 DEF poll_restore_connection
    <3>2. k \in 2 .. Len(ce)
      BY <1>0, <2>2, OldEntry
    <3> QED
      BY <1>0, <1>1, <3>1, <3>2, DeletionRes
  <2> QED
    BY <2>1, <2>2
<1> QED
  BY <1>0, <1>1, <1>2 DEF ResInv, AcceptedRes

(* The descriptor of a connection that is refused is closed; the one of a   *)
(* connection that is admitted becomes its entry's.                         *)
LEMMA AdmitRes ==
  ASSUME NetInv, ResInv, poll_add_connection_net
  PROVE  ResInv'
<1>0. /\ at \in {"admit", "refuse"} /\ Table /\ Res /\ accepted.fd # 0
      /\ ce \in Seq(Entry) /\ Len(ce) \in Nat /\ Len(ce) >= 1
  BY DEF poll_add_connection_net, NetInv, ResInv, AcceptedRes, Table, TableTypes
<1>1. UNCHANGED <<threads, queues>>
  BY DEF poll_add_connection_net
<1>2. CASE Refuse
  <2>1. /\ fds' = fds \ {accepted.fd} /\ at' = "packets" /\ accepted' = Nothing /\ accepted'.fd = 0
        /\ ce' = ce
    BY <1>2 DEF Refuse, Leave, Nothing, ServerFd
  <2>2. FdRes'
    BY <1>0, <2>1 DEF Res, FdRes
  <2>3. ThreadRes'
    BY <1>0, <1>1, <2>1, ZenonT(30) DEF Res, ThreadRes
  <2>4. QueueRes'
    BY <1>0, <1>1, <2>1, ZenonT(30) DEF Res, QueueRes
  <2> QED
    BY <2>1, <2>2, <2>3, <2>4 DEF ResInv, AcceptedRes, Res
<1>3. CASE /\ conn_table_add_element(accepted.fd, accepted.ip)
           /\ at' = "clients" /\ accepted' = Nothing /\ UNCHANGED fds
  <2> DEFINE e == Element("client", accepted.fd, accepted.ip)
             n == Len(ce)
  <2>1. e.fd = accepted.fd /\ e.thread = "none" /\ e.cq = 0
    BY DEF Element, NoQueue
  <2>2. ce' = Append(ce, e)
    BY <1>3 DEF conn_table_add_element
  <2> HIDE DEF e
  <2>3. Len(ce') = n + 1 /\ ce'[n + 1] = e /\ \A k \in 1 .. n : ce'[k] = ce[k]
    BY <1>0, <2>2
  <2>a. n \in Nat /\ n >= 1 /\ accepted'.fd = 0
    BY <1>0, <1>3 DEF Nothing, ServerFd
  <2> HIDE DEF n
  <2>4. /\ ce'[1] = ce[1] /\ n + 1 \in 2 .. n + 1
        /\ \A k \in 2 .. n + 1 : k = n + 1 \/ k \in 2 .. n
        /\ \A k \in 2 .. n : k \in 2 .. n + 1 /\ ce'[k] = ce[k] /\ k # n + 1
    BY ONLY <2>3, <2>a
  <2>5. FdRes'
    <3>1. /\ ce[1].fd = 0 /\ 0 \notin fds /\ fds \subseteq 1 .. MaxEntries
          /\ \A k \in 2 .. n : ce[k].fd \in fds /\ ce[k].fd # accepted.fd
          /\ \A f \in fds : f = accepted.fd \/ \E k \in 2 .. n : ce[k].fd = f
          /\ accepted.fd \in fds
          /\ \A j, k \in 2 .. n : ce[j].fd = ce[k].fd => j = k
      BY <1>0 DEF Res, FdRes, n
    <3>2. ASSUME NEW k \in 2 .. n + 1 PROVE ce'[k].fd \in fds /\ ce'[k].fd # 0
      <4>1. CASE k = n + 1
        BY <2>1, <2>3, <3>1, <4>1
      <4>2. CASE k \in 2 .. n
        BY <2>4, <3>1, <4>2
      <4> QED
        BY <2>4, <4>1, <4>2
    <3>3. ASSUME NEW f \in fds PROVE \E k \in 2 .. n + 1 : ce'[k].fd = f
      <4>1. CASE f = accepted.fd
        BY <2>1, <2>3, <2>4, <4>1
      <4>2. CASE f # accepted.fd
        <5>1. PICK k \in 2 .. n : ce[k].fd = f
          BY <3>1, <4>2
        <5> QED
          BY <2>4, <5>1
      <4> QED
        BY <4>1, <4>2
    <3>4. \A j, k \in 2 .. n + 1 : ce'[j].fd = ce'[k].fd => j = k
      BY <2>1, <2>3, <2>4, <3>1
    <3> QED
      BY <1>3, <2>3, <2>4, <2>a, <3>1, <3>2, <3>3, <3>4 DEF FdRes
  <2>6. ThreadRes'
    <3>1. /\ \A k \in 2 .. n : ce[k].fd \in threads <=> ce[k].thread # "none"
          /\ \A f \in threads : \E k \in 2 .. n : ce[k].fd = f
          /\ \A k \in 2 .. n : ce[k].fd # accepted.fd
      BY <1>0 DEF Res, FdRes, ThreadRes, n
    <3>2. accepted.fd \notin threads
      BY <3>1
    <3>3. ASSUME NEW k \in 2 .. n + 1 PROVE ce'[k].fd \in threads <=> ce'[k].thread # "none"
      BY <2>1, <2>3, <2>4, <3>1, <3>2
    <3>4. ASSUME NEW f \in threads PROVE \E k \in 2 .. n + 1 : ce'[k].fd = f
      BY <2>4, <3>1
    <3> QED
      BY <1>1, <2>3, <3>3, <3>4 DEF ThreadRes
  <2>7. QueueRes'
    <3>1. /\ 0 \notin queues
          /\ \A k \in 2 .. n : /\ ce[k].thread = "none" => ce[k].cq = 0
                               /\ ce[k].thread # "none" => ce[k].cq \in queues
          /\ \A q \in queues : \E k \in 2 .. n : ce[k].cq = q
          /\ \A j, k \in 2 .. n : ce[j].cq = ce[k].cq /\ ce[j].cq # 0 => j = k
      BY <1>0 DEF Res, QueueRes, n
    <3>2. ASSUME NEW k \in 2 .. n + 1
          PROVE  /\ ce'[k].thread = "none" => ce'[k].cq = 0
                 /\ ce'[k].thread # "none" => ce'[k].cq \in queues
      <4>1. CASE k = n + 1
        <5>1. ce'[k].thread = "none" /\ ce'[k].cq = 0
          BY ONLY <2>1, <2>3, <4>1
        <5> QED
          BY ONLY <5>1
      <4>2. CASE k \in 2 .. n
        <5>1. ce'[k] = ce[k]
          BY <2>4, <4>2
        <5>2. /\ ce[k].thread = "none" => ce[k].cq = 0
              /\ ce[k].thread # "none" => ce[k].cq \in queues
          BY <3>1, <4>2, Zenon
        <5> QED
          BY ONLY <5>1, <5>2, Zenon
      <4> QED
        BY <2>4, <4>1, <4>2
    <3>3. ASSUME NEW q \in queues PROVE \E k \in 2 .. n + 1 : ce'[k].cq = q
      BY <2>4, <3>1
    <3>4. ASSUME NEW j \in 2 .. n + 1, NEW k \in 2 .. n + 1, ce'[j].cq = ce'[k].cq, ce'[j].cq # 0
          PROVE  j = k
      BY <2>1, <2>3, <2>4, <3>1, <3>4
    <3> QED
      BY <1>1, <2>3, <3>1, <3>2, <3>3, <3>4 DEF QueueRes
  <2> QED
    BY <1>3, <2>5, <2>6, <2>7 DEF ResInv, AcceptedRes, Res
<1> QED
  BY <1>2, <1>3 DEF poll_add_connection_net

(* A thread that finishes keeps its queue until its entry is deleted.       *)
LEMMA AroundRes ==
  ASSUME NetInv, ResInv, ThreadFinishes \/ \E f \in fds : WaitExpires(f)
  PROVE  ResInv'
<1>1. UNCHANGED <<fds, threads, queues, accepted, at>>
  BY DEF ThreadFinishes, WaitExpires, loopvars
<1>2. PICK k \in DOMAIN ce :
         \/ ce[k].thread = "running" /\ ce' = [ce EXCEPT ![k].thread = "finished"]
         \/ ce' = [ce EXCEPT ![k].overdue = TRUE]
  BY DEF ThreadFinishes, WaitExpires, conn_element_isnetclient_running
<1>3. at # "terminated"
  BY <1>2 DEF NetInv, Ended
<1>4. Table /\ Res /\ ce \in Seq(Entry) /\ k \in 1 .. Len(ce)
  BY <1>2, <1>3 DEF NetInv, Table, TableTypes, ResInv
<1>5. Len(ce') = Len(ce)
  BY <1>2, <1>4
<1>6. ASSUME NEW j \in 1 .. Len(ce)
      PROVE  /\ ce'[j].fd = ce[j].fd /\ ce'[j].cq = ce[j].cq
             /\ ce'[j].thread = "none" <=> ce[j].thread = "none"
  <2>1. ce[j] \in Entry
    BY <1>4
  <2>2. \/ ce'[j] = ce[j]
        \/ ce[j].thread = "running" /\ ce'[j] = [ce[j] EXCEPT !.thread = "finished"]
        \/ ce'[j] = [ce[j] EXCEPT !.overdue = TRUE]
    <3>1. CASE ce[k].thread = "running" /\ ce' = [ce EXCEPT ![k].thread = "finished"]
      <4>1. k = j \/ ce'[j] = ce[j]
        BY ONLY <1>4, <3>1
      <4>2. k = j => ce'[j] = [ce[j] EXCEPT !.thread = "finished"]
        BY <1>4, <3>1, Zenon
      <4> QED
        BY <3>1, <4>1, <4>2
    <3>2. CASE ce' = [ce EXCEPT ![k].overdue = TRUE]
      <4>1. k = j \/ ce'[j] = ce[j]
        BY ONLY <1>4, <3>2
      <4>2. k = j => ce'[j] = [ce[j] EXCEPT !.overdue = TRUE]
        BY <1>4, <3>2, Zenon
      <4> QED
        BY <4>1, <4>2
    <3> QED
      BY <1>2, <3>1, <3>2
  <2> QED
    BY ONLY <2>1, <2>2 DEF Entry
<1>7. Res'
  BY <1>1, <1>4, <1>5, <1>6, EditRes
<1> QED
  BY <1>1, <1>3, <1>7 DEF ResInv, AcceptedRes

(* conn_table_destroy, or the end of the process, leaves nothing.           *)
LEMMA EndRes ==
  ASSUME NetInv, ResInv, at # "terminated", End
  PROVE  ResInv'
<1>0. Table /\ Res /\ ce \in Seq(Entry)
  BY DEF NetInv, Table, TableTypes, ResInv
<1>1. /\ fds' = {} /\ threads' = threads \ {ce[k].fd : k \in DOMAIN ce}
      /\ queues' = queues \ {ce[k].cq : k \in DOMAIN ce}
      /\ accepted' = Nothing /\ at' = "terminated"
  BY DEF End, conn_table_destroy
<1>2. \A k \in 2 .. Len(ce) : k \in DOMAIN ce
  BY <1>0
<1>3. threads' = {}
  <2>1. \A f \in threads : \E k \in DOMAIN ce : ce[k].fd = f
    BY <1>0, <1>2, Zenon DEF Res, ThreadRes
  <2> QED
    BY <1>1, <2>1, Zenon
<1>4. queues' = {}
  <2>1. \A q \in queues : \E k \in DOMAIN ce : ce[k].cq = q
    BY <1>0, <1>2, Zenon DEF Res, QueueRes
  <2> QED
    BY <1>1, <2>1, Zenon
<1> QED
  BY <1>0, <1>1, <1>3, <1>4 DEF ResInv, AcceptedRes, AllReleased

(* Together with NetInv, an invariant.                                      *)
LEMMA ResInvariance == Spec => []ResInv
<1>1. NetInv /\ ResInv /\ [Next]_vars => ResInv'
  <2> SUFFICES ASSUME NetInv, ResInv, [Next]_vars PROVE ResInv'
    OBVIOUS
  <2>0. CASE End /\ at # "terminated"
    BY <2>0, EndRes
  <2>1. CASE ServerStep /\ ~End
    BY <2>1, LoopRes, PollRes, AcceptRes, RestoreRes, AdmitRes DEF ServerStep
  <2>2. CASE UNCHANGED vars
    <3>1. UNCHANGED <<ce, fds, threads, queues, accepted, at>>
      BY <2>2 DEF vars, tablevars, loopvars
    <3> QED
      BY <3>1, Zenon DEF ResInv, AcceptedRes, AllReleased, Res, FdRes, ThreadRes, QueueRes
  <2>3. CASE ServerStep /\ End
    <3>1. at # "terminated"
      BY <2>3 DEF ServerStep, process_connections, process_finished_connections,
         process_unidentified_connections, spawn_client_threads, Poll, Accept,
         poll_restore_connection, poll_add_connection_net, poll_clients
    <3> QED
      BY <2>0, <2>3, <3>1
  <2>4. CASE Terminate
    BY <2>0, <2>4 DEF Terminate
  <2> QED
    BY <2>1, <2>2, <2>3, <2>4, AroundRes DEF Next, Terminated
<1> QED
  BY <1>1, Invariance, InitRes, PTL DEF Spec

(* Every open descriptor, thread and queue belongs to one entry of the      *)
(* table, whatever the order in which clients connect, connect again, are   *)
(* refused, finish and are removed: nothing leaks, and nothing is shared.   *)
THEOREM ResourcesAccountedHolds == Spec => []ResourcesAccounted
<1>1. NetInv /\ ResInv => ResourcesAccounted
  <2> SUFFICES ASSUME NetInv, ResInv PROVE ResourcesAccounted
    OBVIOUS
  <2>1. CASE at = "terminated"
    <3>1. Clients = {} /\ ce = <<>> /\ fds = {} /\ threads = {} /\ queues = {} /\ accepted = Nothing
      BY <2>1, ClientsAfterFirst DEF NetInv, Ended, ResInv, AllReleased, AcceptedRes
    <3> QED
      BY <3>1 DEF ResourcesAccounted
  <2>2. CASE at # "terminated"
    <3>1. Clients = 2 .. Len(ce) /\ Res /\ AcceptedRes
      BY <2>2, ClientsAfterFirst DEF ResInv
    <3>2. ce \in Seq(Entry) /\ Len(ce) \in Nat
      BY <2>2 DEF NetInv, Table, TableTypes
    <3>3. DOMAIN ce = 1 .. Len(ce) /\ \A k \in DOMAIN ce : k = 1 \/ k \in 2 .. Len(ce)
      BY <3>2
    <3>4. accepted = Nothing <=> accepted.fd = 0
      BY <3>1 DEF AcceptedRes, Nothing, ServerFd
    <3>5. fds = {ce[k].fd : k \in Clients} \cup (IF accepted = Nothing THEN {} ELSE {accepted.fd})
      <4>1. /\ \A k \in Clients : ce[k].fd \in fds
            /\ \A f \in fds : f = accepted.fd \/ \E k \in Clients : ce[k].fd = f
            /\ accepted.fd # 0 => accepted.fd \in fds
            /\ 0 \notin fds
        BY <3>1 DEF Res, FdRes
      <4>2. CASE accepted = Nothing
        <5>1. \A f \in fds : \E k \in Clients : ce[k].fd = f
          BY <3>4, <4>1, <4>2
        <5>2. fds = {ce[k].fd : k \in Clients}
          BY <4>1, <5>1, Zenon
        <5> QED
          BY <4>2, <5>2, Zenon
      <4>3. CASE accepted # Nothing
        <5>1. accepted.fd \in fds
          BY <3>4, <4>1, <4>3
        <5>2. fds = {ce[k].fd : k \in Clients} \cup {accepted.fd}
          BY <4>1, <5>1, Zenon
        <5> QED
          BY <4>3, <5>2, Zenon
      <4> QED
        BY <4>2, <4>3
    <3>6. \A j, k \in DOMAIN ce : ce[j].fd = ce[k].fd => j = k
      <4>1. /\ ce[1].fd = 0 /\ \A k \in 2 .. Len(ce) : ce[k].fd # 0
            /\ \A j, k \in 2 .. Len(ce) : ce[j].fd = ce[k].fd => j = k
        BY <3>1 DEF Res, FdRes
      <4> QED
        BY ONLY <3>3, <4>1
    <3>7. threads = {ce[k].fd : k \in {j \in Clients : ce[j].thread # "none"}}
      BY <3>1 DEF Res, ThreadRes
    <3>8. queues = {ce[k].cq : k \in {j \in Clients : ce[j].thread # "none"}}
      BY <3>1 DEF Res, QueueRes
    <3> QED
      BY <3>1, <3>5, <3>6, <3>7, <3>8 DEF ResourcesAccounted, Res, FdRes, QueueRes, NoQueue
  <2> QED
    BY <2>1, <2>2
<1> QED
  BY <1>1, Invariance, ResInvariance, PTL
=============================================================================
