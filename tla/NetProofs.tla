------------------------------ MODULE NetProofs ------------------------------
(***************************************************************************)
(* For any number of clients: the two arrays of the table stay parallel,   *)
(* no loop reads past their end, the limit on clients holds, and a client  *)
(* has one connection.  NetInv is inductive.                               *)
(***************************************************************************)
EXTENDS NetServer, SequenceTheorems, FiniteSetTheorems, WellFoundedInduction, TLAPS

PollFd == [fd : Nat, revents : {"none", "in", "hup"}]

TableTypes ==
  /\ ce \in Seq(Entry)
  /\ pfd \in Seq(PollFd)
  /\ nmax \in Nat
  /\ IsFiniteSet(fds)
  /\ IsFiniteSet(queues)

(* The arrays are parallel, the listening socket is first, and all the      *)
(* others are counted clients with an address of their own.                 *)
Table ==
  /\ TableTypes
  /\ Len(pfd) = Len(ce) /\ Len(ce) <= nmax
  /\ \A k \in 1 .. Len(ce) : pfd[k].fd = ce[k].fd
  /\ Len(ce) >= 1 /\ ce[1].type = "server" /\ ce[1].ip = NoIp
  /\ \A k \in 2 .. Len(ce) : ce[k].type = "client" /\ ce[k].ip \in Ip
  /\ \A j, k \in 2 .. Len(ce) : ce[j].ip = ce[k].ip => j = k
  /\ nclients = Len(ce) - 1

(* After terminate_network_server.                                          *)
Ended == ce = <<>> /\ pfd = <<>> /\ nclients = 0 /\ TableTypes

(* The loops that delete keep their bound, and a connection being added has *)
(* an address that is not in the table.                                     *)
LoopTypes ==
  /\ accepted \in [fd : Nat, ip : Ip \cup {NoIp}]
  /\ g \in Settings
  /\ at \in {"packets", "finished", "unidentified", "spawn", "poll", "accept", "restore",
             "admit", "refuse", "clients", "terminated"}
  /\ i \in Nat /\ i >= 1
  /\ numentries \in Nat
  /\ at \in {"restore", "admit"} => accepted.ip \in Ip

Loops ==
  /\ at \in {"finished", "unidentified", "spawn"} => numentries = Len(ce)
  /\ at = "admit" => \A k \in 2 .. Len(ce) : ce[k].ip # accepted.ip
  /\ g.maxnetclients >= 0 => nclients <= g.maxnetclients

NetInv ==
  /\ LoopTypes
  /\ at = "terminated" => Ended
  /\ at # "terminated" => Table /\ Loops

(* What a step that deletes or edits an entry leaves: the table, with no    *)
(* client more and no address that was not there.                           *)
Shrinks ==
  /\ Table'
  /\ Len(ce') <= Len(ce)
  /\ \A k \in 2 .. Len(ce') : \E j \in 2 .. Len(ce) : ce'[k].ip = ce[j].ip

-----------------------------------------------------------------------------
(* The array without its k-th element.                                      *)
LEMMA ShiftedFacts ==
  ASSUME NEW S, NEW s \in Seq(S), NEW k \in 1 .. Len(s)
  PROVE  /\ Shifted(s, k) \in Seq(S)
         /\ Len(Shifted(s, k)) = Len(s) - 1
         /\ \A j \in 1 .. Len(s) - 1 : Shifted(s, k)[j] = IF j < k THEN s[j] ELSE s[j + 1]
<1>1. \A j \in 1 .. Len(s) - 1 : s[j] \in S /\ s[j + 1] \in S
  OBVIOUS
<1>2. Shifted(s, k) \in [1 .. Len(s) - 1 -> S] /\ Len(s) - 1 \in Nat
  BY <1>1 DEF Shifted
<1>3. Shifted(s, k) \in Seq(S) /\ Len(Shifted(s, k)) = Len(s) - 1
  BY <1>2
<1> QED
  BY <1>3 DEF Shifted

(* There is a lowest free number, and it is not past the number of those in *)
(* use by more than one.                                                    *)
LEMMA LowestIsFree ==
  ASSUME NEW used, IsFiniteSet(used)
  PROVE  Lowest(used) \in 1 .. Cardinality(used) + 1 /\ Lowest(used) \notin used
<1> DEFINE n == Cardinality(used)
           Free == (1 .. n + 1) \ used
<1>1. n \in Nat
  BY FS_CardinalityType
<1>2. IsFiniteSet(1 .. n + 1) /\ Cardinality(1 .. n + 1) = n + 1
  BY <1>1, FS_Interval
<1>3. Free # {}
  <2>1. SUFFICES ASSUME Free = {} PROVE FALSE
    OBVIOUS
  <2>2. (1 .. n + 1) \in SUBSET used
    BY <2>1
  <2>3. Cardinality(1 .. n + 1) <= n
    BY <2>2, FS_Subset
  <2> HIDE DEF n
  <2> QED
    BY <2>3, <1>2, <1>1
<1>4. Free \subseteq Nat
  BY <1>1
<1>5. PICK k \in Free : \A j \in Free : ~(<<j, k>> \in OpToRel(<, Nat))
  BY <1>3, <1>4, NatLessThanWellFounded, WFMin
<1>6. \A j \in Free : ~(j < k)
  BY <1>5, <1>4 DEF OpToRel
<1>7. k \in 1 .. n + 1 /\ k \notin used /\ \A j \in 1 .. (k - 1) : j \in used
  <2> HIDE DEF n
  <2> QED
    BY <1>6, <1>1
<1> QED
  BY <1>7 DEF Lowest

LEMMA LowestIsANumber ==
  ASSUME NEW used, IsFiniteSet(used)
  PROVE  Lowest(used) \in Nat
  BY LowestIsFree, FS_CardinalityType

-----------------------------------------------------------------------------
(* Taking the entry of a client out of both arrays.                         *)
LEMMA RemovalShrinks ==
  ASSUME Table, NEW k \in 2 .. Len(ce),
         ce' = Shifted(ce, k), pfd' = Shifted(pfd, k),
         nclients' = nclients - 1, nmax' = nmax,
         IsFiniteSet(fds'), IsFiniteSet(queues')
  PROVE  /\ Shrinks
         /\ Len(ce') = Len(ce) - 1
         /\ \A j \in 2 .. Len(ce') : ce'[j].ip # ce[k].ip
<1> DEFINE n == Len(ce)
<1>0. /\ ce \in Seq(Entry) /\ pfd \in Seq(PollFd) /\ nmax \in Nat
      /\ Len(pfd) = n /\ n \in Nat /\ n <= nmax /\ k \in 1 .. n /\ nclients = n - 1
  BY DEF Table, TableTypes
<1>1. /\ ce' \in Seq(Entry) /\ Len(ce') = n - 1
      /\ \A j \in 1 .. n - 1 : ce'[j] = IF j < k THEN ce[j] ELSE ce[j + 1]
  BY <1>0, ShiftedFacts
<1>2. /\ pfd' \in Seq(PollFd) /\ Len(pfd') = n - 1
      /\ \A j \in 1 .. n - 1 : pfd'[j] = IF j < k THEN pfd[j] ELSE pfd[j + 1]
  BY <1>0, ShiftedFacts
<1>a. /\ \A j \in 1 .. n : pfd[j].fd = ce[j].fd
      /\ ce[1].type = "server" /\ ce[1].ip = NoIp
      /\ \A j \in 2 .. n : ce[j].type = "client" /\ ce[j].ip \in Ip
      /\ \A j, m \in 2 .. n : ce[j].ip = ce[m].ip => j = m
  BY DEF Table
<1> HIDE DEF n
<1>b. k \in Nat /\ 2 <= k /\ k <= n
  BY <1>0 DEF n
<1>3. TableTypes'
  BY <1>0, <1>1, <1>2 DEF TableTypes
<1>4. \A j \in 1 .. n - 1 : pfd'[j].fd = ce'[j].fd
  <2> SUFFICES ASSUME NEW j \in 1 .. n - 1
               PROVE  pfd'[j].fd = ce'[j].fd
    OBVIOUS
  <2>1. j \in 1 .. n /\ j + 1 \in 1 .. n
    BY <1>0
  <2>2. pfd[j].fd = ce[j].fd /\ pfd[j + 1].fd = ce[j + 1].fd
    BY <2>1, <1>a
  <2>3. CASE j < k
    BY ONLY <2>2, <2>3, <1>1, <1>2, j \in 1 .. n - 1
  <2>4. CASE ~(j < k)
    BY ONLY <2>2, <2>4, <1>1, <1>2, j \in 1 .. n - 1
  <2> QED
    BY <2>3, <2>4
<1>5. ce'[1] = ce[1]
  BY ONLY <1>0, <1>1, <1>b
<1>6. \A j \in 2 .. n - 1 : \E m \in 2 .. n : ce'[j] = ce[m] /\ m # k /\ m = IF j < k THEN j ELSE j + 1
  <2> SUFFICES ASSUME NEW j \in 2 .. n - 1
               PROVE  \E m \in 2 .. n : ce'[j] = ce[m] /\ m # k /\ m = IF j < k THEN j ELSE j + 1
    OBVIOUS
  <2> DEFINE m == IF j < k THEN j ELSE j + 1
  <2>1. m \in 2 .. n /\ m # k /\ ce'[j] = ce[m]
    BY <1>0, <1>1, <1>b
  <2> QED
    BY <2>1
<1>7. \A j \in 2 .. n - 1 : ce'[j].type = "client" /\ ce'[j].ip \in Ip /\ ce'[j].ip # ce[k].ip
  BY <1>6, <1>a, <1>b
<1>8. \A j, h \in 2 .. n - 1 : ce'[j].ip = ce'[h].ip => j = h
  <2> SUFFICES ASSUME NEW j \in 2 .. n - 1, NEW h \in 2 .. n - 1, ce'[j].ip = ce'[h].ip
               PROVE  j = h
    OBVIOUS
  <2>1. PICK m \in 2 .. n : ce'[j] = ce[m] /\ m # k /\ m = IF j < k THEN j ELSE j + 1
    BY <1>6
  <2>2. PICK o \in 2 .. n : ce'[h] = ce[o] /\ o # k /\ o = IF h < k THEN h ELSE h + 1
    BY <1>6
  <2>3. m = o
    BY <2>1, <2>2, <1>a
  <2> QED
    BY ONLY <2>1, <2>2, <2>3, <1>b, <1>0, j \in 2 .. n - 1, h \in 2 .. n - 1
<1>9. Table'
  BY <1>0, <1>1, <1>2, <1>3, <1>4, <1>5, <1>7, <1>8, <1>a, <1>b DEF Table
<1>c. Len(ce) = n
  BY DEF n
<1>d. \A j \in 2 .. Len(ce') : \E m \in 2 .. Len(ce) : ce'[j].ip = ce[m].ip
  BY ONLY <1>1, <1>6, <1>c
<1>e. \A j \in 2 .. Len(ce') : ce'[j].ip # ce[k].ip
  BY ONLY <1>1, <1>7
<1>f. Len(ce') = Len(ce) - 1 /\ Len(ce') <= Len(ce)
  BY ONLY <1>1, <1>c, <1>0
<1> QED
  BY <1>9, <1>d, <1>e, <1>f DEF Shrinks

(* conn_table_del_element of a client.                                      *)
LEMMA DeletionShrinks ==
  ASSUME Table, NEW k \in 2 .. Len(ce), conn_table_del_element(k)
  PROVE  /\ Shrinks
         /\ Len(ce') = Len(ce) - 1
         /\ \A j \in 2 .. Len(ce') : ce'[j].ip # ce[k].ip
<1>1. ce[k].type = "client"
  BY DEF Table
<1>2. IsFiniteSet(fds') /\ IsFiniteSet(queues')
  BY FS_RemoveElement DEF conn_table_del_element, Table, TableTypes
<1>4. /\ ce' = Shifted(ce, k) /\ pfd' = Shifted(pfd, k)
      /\ nclients' = nclients - 1 /\ nmax' = nmax
  BY <1>1 DEF conn_table_del_element, conn_element_isnetclient
<1> QED
  BY <1>2, <1>4, RemovalShrinks

(* The same, when the thread of the client could not be created.            *)
LEMMA FailureShrinks ==
  ASSUME Table, NEW k \in 2 .. Len(ce), InitFailsAfterQueue(k)
  PROVE  Shrinks /\ Len(ce') = Len(ce) - 1
<1>2. IsFiniteSet(fds') /\ IsFiniteSet(queues')
  BY FS_RemoveElement DEF InitFailsAfterQueue, Table, TableTypes
<1>4. /\ ce' = Shifted(ce, k) /\ pfd' = Shifted(pfd, k)
      /\ nclients' = nclients - 1 /\ nmax' = nmax
  BY DEF InitFailsAfterQueue
<1> QED
  BY <1>2, <1>4, RemovalShrinks

(* A change of the protocol, the thread, the queue or the time of an entry. *)
LEMMA EditShrinks ==
  ASSUME Table, NEW k \in 1 .. Len(ce), NEW e \in Entry,
         e.type = ce[k].type, e.fd = ce[k].fd, e.ip = ce[k].ip,
         ce' = [ce EXCEPT ![k] = e],
         UNCHANGED <<pfd, nmax, nclients, fds>>, IsFiniteSet(queues')
  PROVE  Shrinks /\ Len(ce') = Len(ce)
<1>0. ce \in Seq(Entry)
  BY DEF Table, TableTypes
<1>1. /\ ce' \in Seq(Entry) /\ Len(ce') = Len(ce)
      /\ \A j \in 1 .. Len(ce) : ce'[j] = IF j = k THEN e ELSE ce[j]
  BY <1>0
<1>2. \A j \in 1 .. Len(ce) :
         ce'[j].type = ce[j].type /\ ce'[j].fd = ce[j].fd /\ ce'[j].ip = ce[j].ip
  BY <1>1
<1>3. TableTypes'
  BY <1>1 DEF Table, TableTypes
<1>4. Table'
  BY <1>1, <1>2, <1>3 DEF Table
<1> QED
  BY <1>0, <1>1, <1>2, <1>4 DEF Shrinks

LEMMA StutterShrinks ==
  ASSUME Table, UNCHANGED tablevars
  PROVE  Shrinks /\ Len(ce') = Len(ce)
<1>1. Table'
  BY DEF Table, TableTypes, tablevars
<1> QED
  BY <1>1 DEF Shrinks, tablevars, Table, TableTypes

LEMMA SetProtocolShrinks ==
  ASSUME Table, NEW k \in 1 .. Len(ce), NEW p \in {"unknown", "V1", "V2"}, SetProtocol(k, p)
  PROVE  Shrinks /\ Len(ce') = Len(ce)
<1> DEFINE e == [ce[k] EXCEPT !.protocol = p]
<1>0. ce[k] \in Entry
  BY DEF Table, TableTypes
<1>1. e \in Entry /\ e.type = ce[k].type /\ e.fd = ce[k].fd /\ e.ip = ce[k].ip
  BY <1>0 DEF Entry
<1>2. ce' = [ce EXCEPT ![k] = e]
  BY DEF SetProtocol
<1>3. UNCHANGED <<pfd, nmax, nclients, fds>> /\ IsFiniteSet(queues')
  BY DEF SetProtocol, Table, TableTypes
<1> HIDE DEF e
<1> QED
  BY <1>1, <1>2, <1>3, EditShrinks

LEMMA Init4Shrinks ==
  ASSUME Table, NEW k \in 1 .. Len(ce), conn_element_init4(k)
  PROVE  Shrinks /\ Len(ce') = Len(ce)
<1> DEFINE q == Lowest(queues)
           e == [ce[k] EXCEPT !.cq = q, !.thread = "running"]
<1>0. ce[k] \in Entry /\ q \in Nat
  BY LowestIsANumber DEF Table, TableTypes
<1>3. UNCHANGED <<pfd, nmax, nclients, fds>> /\ IsFiniteSet(queues')
  BY FS_AddElement DEF conn_element_init4, Table, TableTypes
<1>2. ce' = [ce EXCEPT ![k].cq = q, ![k].thread = "running"]
  BY DEF conn_element_init4
<1> HIDE DEF q
<1>1. e \in Entry /\ e.type = ce[k].type /\ e.fd = ce[k].fd /\ e.ip = ce[k].ip
  BY <1>0 DEF Entry
<1>4. ce' = [ce EXCEPT ![k] = e]
  BY <1>2
<1> HIDE DEF e
<1> QED
  BY <1>1, <1>3, <1>4, EditShrinks

(* poll() writes revents only.                                              *)
LEMMA PollShrinks ==
  ASSUME Table, NEW ready \in [DOMAIN pfd -> {"none", "in", "hup"}],
         pfd' = [k \in DOMAIN pfd |-> [pfd[k] EXCEPT !.revents = ready[k]]],
         UNCHANGED <<ce, nmax, nclients, fds, queues>>
  PROVE  Shrinks /\ Len(ce') = Len(ce)
<1>0. pfd \in Seq(PollFd) /\ DOMAIN pfd = 1 .. Len(pfd) /\ Len(pfd) \in Nat
  BY DEF Table, TableTypes
<1>1. \A k \in 1 .. Len(pfd) : [pfd[k] EXCEPT !.revents = ready[k]] \in PollFd
                              /\ [pfd[k] EXCEPT !.revents = ready[k]].fd = pfd[k].fd
  <2> SUFFICES ASSUME NEW k \in 1 .. Len(pfd)
               PROVE  /\ [pfd[k] EXCEPT !.revents = ready[k]] \in PollFd
                      /\ [pfd[k] EXCEPT !.revents = ready[k]].fd = pfd[k].fd
    OBVIOUS
  <2>1. pfd[k] \in PollFd /\ ready[k] \in {"none", "in", "hup"}
    BY <1>0
  <2> QED
    BY ONLY <2>1 DEF PollFd
<1>2. pfd' \in [1 .. Len(pfd) -> PollFd]
  BY <1>0, <1>1
<1>3. pfd' \in Seq(PollFd) /\ Len(pfd') = Len(pfd)
  BY <1>0, <1>2
<1>4. \A k \in 1 .. Len(pfd) : pfd'[k].fd = pfd[k].fd
  BY <1>0, <1>1
<1>5. TableTypes'
  BY <1>3 DEF Table, TableTypes
<1>6. Table'
  BY <1>3, <1>4, <1>5 DEF Table
<1> QED
  BY <1>6 DEF Shrinks, Table, TableTypes

-----------------------------------------------------------------------------
(* The ways a loop goes on, with a table that has lost entries or none.     *)
LEMMA LimitStays ==
  ASSUME NetInv, at # "terminated", Shrinks, UNCHANGED g
  PROVE  (g.maxnetclients >= 0 => nclients <= g.maxnetclients)'
<1>1. nclients = Len(ce) - 1 /\ nclients' = Len(ce') - 1 /\ Len(ce) \in Nat /\ Len(ce') \in Nat
  BY DEF NetInv, Table, TableTypes, Shrinks
<1>2. g.maxnetclients \in Int
  BY ServerAssumption DEF NetInv, LoopTypes
<1> QED
  BY <1>1, <1>2 DEF NetInv, Loops, Shrinks

LEMMA TurnStep ==
  ASSUME NetInv, at # "terminated", at \notin {"restore", "admit"}, Shrinks,
         NEW bound \in Nat, NextTurn(bound),
         at \in {"finished", "unidentified", "spawn"} => bound = Len(ce')
  PROVE  NetInv'
<1>1. LoopTypes'
  BY DEF NetInv, LoopTypes, NextTurn
<1>2. Loops'
  BY LimitStays DEF Loops, NextTurn
<1> QED
  BY <1>1, <1>2 DEF NetInv, NextTurn, Shrinks

LEMMA EnterStep ==
  ASSUME NetInv, at # "terminated", Shrinks, Len(ce') = Len(ce),
         NEW loop \in {"unidentified", "spawn", "poll", "accept", "clients"}, Enter(loop)
  PROVE  NetInv'
<1>0. Len(ce) \in Nat
  BY DEF NetInv, Table, TableTypes
<1>1. LoopTypes'
  BY <1>0 DEF NetInv, LoopTypes, Enter
<1>2. Loops'
  BY LimitStays DEF Loops, Enter
<1> QED
  BY <1>1, <1>2 DEF NetInv, Enter, Shrinks

LEMMA LeaveStep ==
  ASSUME NetInv, at # "terminated", Shrinks, Leave
  PROVE  NetInv'
<1>1. LoopTypes'
  BY DEF NetInv, LoopTypes, Leave, Nothing, ServerFd
<1>2. Loops'
  BY LimitStays DEF Loops, Leave
<1> QED
  BY <1>1, <1>2 DEF NetInv, Leave, Shrinks

LEMMA StayStep ==
  ASSUME NetInv, at # "terminated", Shrinks, Len(ce') = Len(ce), UNCHANGED loopvars
  PROVE  NetInv'
<1>1. LoopTypes'
  BY DEF NetInv, LoopTypes, loopvars
<1>2. Loops'
  BY LimitStays DEF NetInv, Loops, loopvars, Shrinks
<1> QED
  BY <1>1, <1>2 DEF NetInv, loopvars, Shrinks

-----------------------------------------------------------------------------
LEMMA InitInv == Init => NetInv
<1> SUFFICES ASSUME Init PROVE NetInv
  OBVIOUS
<1> USE DEF Init, TableInit
<1> DEFINE e == Element("server", ServerFd, NoIp)
           p == [fd |-> ServerFd, revents |-> "none"]
<1>1. e \in Entry /\ p \in PollFd /\ e.type = "server" /\ e.ip = NoIp /\ e.fd = p.fd
  BY DEF Element, Entry, PollFd, ServerFd, NoQueue
<1>2. ce = <<e>> /\ pfd = <<p>>
  OBVIOUS
<1> HIDE DEF e, p
<1>3. ce \in Seq(Entry) /\ pfd \in Seq(PollFd) /\ Len(ce) = 1 /\ Len(pfd) = 1
      /\ ce[1] = e /\ pfd[1] = p
  BY <1>1, <1>2
<1>4. TableTypes
  BY <1>3, FS_EmptySet DEF TableTypes
<1>5. Table
  BY <1>1, <1>3, <1>4 DEF Table
<1>6. LoopTypes
  BY DEF LoopTypes, Nothing, ServerFd
<1>7. Loops
  BY <1>3 DEF Loops
<1> QED
  BY <1>5, <1>6, <1>7 DEF NetInv

(* In the loops over the table, the entry of the turn is in it, and a       *)
(* client is never the first.                                               *)
LEMMA TurnEntry ==
  ASSUME NetInv, at # "terminated", i <= Len(ce)
  PROVE  /\ i \in 1 .. Len(ce) /\ ce[i] \in Entry
         /\ conn_element_isnetclient(ce[i]) => i \in 2 .. Len(ce)
<1>1. /\ ce \in Seq(Entry) /\ Len(ce) \in Nat /\ i \in Nat /\ i >= 1
      /\ ce[1].type # "client"
  BY DEF NetInv, LoopTypes, Table, TableTypes
<1> QED
  BY <1>1 DEF conn_element_isnetclient

LEMMA NewRound ==
  ASSUME NetInv, process_connections
  PROVE  NetInv'
<1> DEFINE ready == [k \in DOMAIN pfd |-> "none"]
<1>0. at # "terminated" /\ Table
  BY DEF process_connections, NetInv
<1>1. pfd' = [k \in DOMAIN pfd |-> [pfd[k] EXCEPT !.revents = ready[k]]]
  BY DEF process_connections
<1>2. ready \in [DOMAIN pfd -> {"none", "in", "hup"}]
  OBVIOUS
<1>3. UNCHANGED <<ce, nmax, nclients, fds, queues>>
  BY DEF process_connections
<1> HIDE DEF ready
<1>4. Shrinks /\ Len(ce') = Len(ce)
  BY <1>0, <1>1, <1>2, <1>3, PollShrinks
<1>a. Len(ce) \in Nat
  BY <1>0 DEF Table, TableTypes
<1>5. LoopTypes'
  BY <1>a DEF NetInv, LoopTypes, process_connections
<1>6. UNCHANGED g /\ at' = "finished" /\ numentries' = Len(ce)
  BY DEF process_connections
<1>7. Loops'
  BY <1>0, <1>4, <1>6, LimitStays DEF Loops
<1> QED
  BY <1>4, <1>5, <1>6, <1>7 DEF NetInv, Shrinks

LEMMA FinishedStep ==
  ASSUME NetInv, process_finished_connections
  PROVE  NetInv'
<1>0. at = "finished" /\ Table /\ numentries = Len(ce) /\ Len(ce) \in Nat
  BY DEF process_finished_connections, NetInv, Loops, Table, TableTypes
<1>1. CASE i <= numentries
  <2>1. CASE conn_element_isnetclient_stoped(ce[i])
    <3>1. conn_table_del_element(i) /\ NextTurn(Len(ce'))
      BY <1>0, <1>1, <2>1 DEF process_finished_connections, NetInv, LoopTypes
    <3>2. i \in 2 .. Len(ce)
      BY <1>0, <1>1, <2>1, TurnEntry DEF conn_element_isnetclient_stoped
    <3>3. Shrinks /\ Len(ce') \in Nat
      BY <1>0, <3>1, <3>2, DeletionShrinks
    <3> QED
      BY <1>0, <3>1, <3>3, TurnStep
  <2>2. CASE ~conn_element_isnetclient_stoped(ce[i])
    <3>1. UNCHANGED tablevars /\ NextTurn(Len(ce))
      BY <1>0, <1>1, <2>2 DEF process_finished_connections, NetInv, LoopTypes
    <3> QED
      BY <1>0, <3>1, StutterShrinks, TurnStep
  <2> QED
    BY <2>1, <2>2
<1>2. CASE ~(i <= numentries)
  <2>1. UNCHANGED tablevars /\ Enter("unidentified")
    BY <1>2 DEF process_finished_connections
  <2> QED
    BY <1>0, <2>1, StutterShrinks, EnterStep
<1> QED
  BY <1>1, <1>2

LEMMA UnidentifiedStep ==
  ASSUME NetInv, process_unidentified_connections
  PROVE  NetInv'
<1> DEFINE Late == conn_element_isnetclient(ce[i]) /\ ce[i].protocol = "unknown" /\ ce[i].overdue
<1>0. at = "unidentified" /\ Table /\ numentries = Len(ce) /\ Len(ce) \in Nat
      /\ i \in Nat
  BY DEF process_unidentified_connections, NetInv, Loops, LoopTypes, Table, TableTypes
<1>1. CASE i <= numentries /\ Late
  <2>1. i \in 2 .. Len(ce) /\ i \in 1 .. Len(ce)
    BY <1>0, <1>1, TurnEntry
  <2>2. \/ SetProtocol(i, "V1") /\ NextTurn(numentries)
        \/ conn_table_del_element(i) /\ NextTurn(Len(ce'))
    BY <1>0, <1>1 DEF process_unidentified_connections
  <2>3. CASE SetProtocol(i, "V1") /\ NextTurn(numentries)
    BY <1>0, <2>1, <2>3, SetProtocolShrinks, TurnStep
  <2>4. CASE conn_table_del_element(i) /\ NextTurn(Len(ce'))
    <3>1. Shrinks /\ Len(ce') \in Nat
      BY <1>0, <2>1, <2>4, DeletionShrinks
    <3> QED
      BY <1>0, <2>4, <3>1, TurnStep
  <2> QED
    BY <2>2, <2>3, <2>4
<1>2. CASE i <= numentries /\ ~Late
  <2>1. UNCHANGED tablevars /\ NextTurn(Len(ce))
    BY <1>0, <1>2 DEF process_unidentified_connections
  <2> QED
    BY <1>0, <2>1, StutterShrinks, TurnStep
<1>3. CASE ~(i <= numentries)
  <2>1. UNCHANGED tablevars /\ Enter("spawn")
    BY <1>3 DEF process_unidentified_connections
  <2> QED
    BY <1>0, <2>1, StutterShrinks, EnterStep
<1> QED
  BY <1>1, <1>2, <1>3

(* The end of the process, wherever the npemwin thread is.                  *)
LEMMA EndStep ==
  ASSUME NetInv, at # "terminated", End
  PROVE  NetInv'
<1>0. TableTypes
  BY DEF End, NetInv, Table
<1>1. IsFiniteSet(fds')
  BY FS_EmptySet DEF End, conn_table_destroy
<1>2. IsFiniteSet(queues')
  <2>1. queues' \in SUBSET queues
    BY DEF End, conn_table_destroy
  <2> QED
    BY <1>0, <2>1, FS_Subset DEF TableTypes
<1>3. ce' = <<>> /\ pfd' = <<>> /\ nclients' = 0 /\ UNCHANGED nmax
  BY DEF End, conn_table_destroy
<1>4. ce' \in Seq(Entry) /\ pfd' \in Seq(PollFd)
  BY <1>3
<1>5. Ended'
  BY <1>0, <1>1, <1>2, <1>3, <1>4 DEF Ended, TableTypes
<1>6. LoopTypes'
  BY ServerAssumption DEF NetInv, LoopTypes, End, Nothing, ServerFd
<1> QED
  BY <1>5, <1>6 DEF NetInv, End

LEMMA SpawnStep ==
  ASSUME NetInv, spawn_client_threads
  PROVE  NetInv'
<1> DEFINE Ready == /\ ce[i].thread = "none"
                    /\ conn_element_isnetclient(ce[i])
                    /\ ce[i].protocol # "unknown"
<1>0. at = "spawn" /\ Table /\ numentries = Len(ce) /\ Len(ce) \in Nat
      /\ i \in Nat
  BY DEF spawn_client_threads, NetInv, Loops, LoopTypes, Table, TableTypes
<1>1. CASE i <= numentries /\ Ready
  <2>1. i \in 2 .. Len(ce) /\ i \in 1 .. Len(ce)
    BY <1>0, <1>1, TurnEntry
  <2>2. \/ conn_element_init4(i) /\ NextTurn(numentries)
        \/ conn_table_del_element(i) /\ NextTurn(Len(ce'))
        \/ InitFailsAfterQueue(i) /\ NextTurn(Len(ce'))
        \/ End
    BY <1>0, <1>1 DEF spawn_client_threads
  <2>3. CASE conn_element_init4(i) /\ NextTurn(numentries)
    BY <1>0, <2>1, <2>3, Init4Shrinks, TurnStep
  <2>4. CASE conn_table_del_element(i) /\ NextTurn(Len(ce'))
    <3>1. Shrinks /\ Len(ce') \in Nat
      BY <1>0, <2>1, <2>4, DeletionShrinks
    <3> QED
      BY <1>0, <2>4, <3>1, TurnStep
  <2>5. CASE InitFailsAfterQueue(i) /\ NextTurn(Len(ce'))
    <3>1. Shrinks /\ Len(ce') \in Nat
      BY <1>0, <2>1, <2>5, FailureShrinks
    <3> QED
      BY <1>0, <2>5, <3>1, TurnStep
  <2>6. CASE End
    BY <1>0, <2>6, EndStep
  <2> QED
    BY <2>2, <2>3, <2>4, <2>5, <2>6
<1>2. CASE i <= numentries /\ ~Ready
  <2>1. UNCHANGED tablevars /\ NextTurn(Len(ce))
    BY <1>0, <1>2 DEF spawn_client_threads
  <2> QED
    BY <1>0, <2>1, StutterShrinks, TurnStep
<1>3. CASE ~(i <= numentries)
  <2>1. UNCHANGED tablevars /\ Enter("poll")
    BY <1>3 DEF spawn_client_threads
  <2> QED
    BY <1>0, <2>1, StutterShrinks, EnterStep
<1> QED
  BY <1>1, <1>2, <1>3

LEMMA PollStep ==
  ASSUME NetInv, Poll
  PROVE  NetInv'
<1>0. at # "terminated" /\ Table
  BY DEF Poll, NetInv
<1>1. PICK ready \in [DOMAIN pfd -> {"none", "in", "hup"}] :
         /\ pfd' = [k \in DOMAIN pfd |-> [pfd[k] EXCEPT !.revents = ready[k]]]
         /\ Leave \/ Enter(IF ready[1] = "in" THEN "accept" ELSE "clients")
  BY Zenon DEF Poll
<1>2. UNCHANGED <<ce, nmax, nclients, fds, queues>>
  BY DEF Poll
<1>3. Shrinks /\ Len(ce') = Len(ce)
  BY <1>0, <1>1, <1>2, PollShrinks
<1>4. CASE Leave
  BY <1>0, <1>3, <1>4, LeaveStep
<1>5. CASE Enter("accept")
  BY <1>0, <1>3, <1>5, EnterStep
<1>6. CASE Enter("clients")
  BY <1>0, <1>3, <1>6, EnterStep
<1> QED
  BY <1>1, <1>4, <1>5, <1>6

(* A change of the open descriptors alone.                                  *)
LEMMA DescriptorsShrink ==
  ASSUME Table, UNCHANGED <<ce, pfd, nmax, nclients, queues>>, IsFiniteSet(fds')
  PROVE  Shrinks /\ Len(ce') = Len(ce)
<1>1. Table'
  BY DEF Table, TableTypes
<1> QED
  BY <1>1 DEF Shrinks, Table, TableTypes

LEMMA AcceptStep ==
  ASSUME NetInv, Accept
  PROVE  NetInv'
<1>0. at = "accept" /\ Table /\ IsFiniteSet(fds)
  BY DEF Accept, NetInv, Table, TableTypes
<1>1. UNCHANGED <<ce, pfd, nmax, nclients, queues>>
  BY DEF Accept
<1>2. CASE /\ \E ip \in Ip : accepted' = [fd |-> Lowest(fds), ip |-> ip]
           /\ fds' = fds \cup {accepted'.fd}
           /\ at' = "restore"
           /\ UNCHANGED <<i, numentries, g>>
  <2>1. Lowest(fds) \in Nat
    BY <1>0, LowestIsANumber
  <2>2. accepted' \in [fd : Nat, ip : Ip \cup {NoIp}] /\ accepted'.ip \in Ip
    BY <1>2, <2>1
  <2>3. IsFiniteSet(fds')
    BY <1>0, <1>2, FS_AddElement
  <2>4. Shrinks
    BY <1>0, <1>1, <2>3, DescriptorsShrink
  <2>5. LoopTypes'
    BY <1>2, <2>2 DEF NetInv, LoopTypes
  <2>6. Loops'
    BY <1>0, <1>2, <2>4, LimitStays DEF Loops
  <2> QED
    BY <1>2, <2>4, <2>5, <2>6 DEF NetInv, Shrinks
<1>3. CASE Leave /\ UNCHANGED fds
  BY <1>0, <1>1, <1>3, DescriptorsShrink, LeaveStep
<1> QED
  BY <1>2, <1>3 DEF Accept

(* The old connection of the client that connects again is the only one     *)
(* with its address.                                                        *)
LEMMA OldEntry ==
  ASSUME Table, accepted.ip \in Ip, conn_table_find_element_byip(accepted.ip) # {}
  PROVE  LET old == conn_table_find_element_byip(accepted.ip)
             k == CHOOSE k \in old : \A j \in old : k <= j
         IN  k \in 2 .. Len(ce) /\ ce[k].ip = accepted.ip
<1> DEFINE old == conn_table_find_element_byip(accepted.ip)
           k == CHOOSE k \in old : \A j \in old : k <= j
<1>0. ce \in Seq(Entry) /\ Len(ce) \in Nat
  BY DEF Table, TableTypes
<1>1. \A h \in old : h \in 2 .. Len(ce) /\ ce[h].ip = accepted.ip
  BY <1>0, ServerAssumption DEF conn_table_find_element_byip, Table
<1>2. PICK h \in old : TRUE
  OBVIOUS
<1>3. h \in 2 .. Len(ce)
  BY <1>1, <1>2
<1>4. \A j, m \in 2 .. Len(ce) : ce[j].ip = ce[m].ip => j = m
  BY DEF Table
<1>5. \A j \in old : j = h
  BY <1>1, <1>2, <1>4
<1> HIDE DEF old
<1>6. old = {h}
  BY <1>2, <1>5
<1>7. h <= h
  BY <1>3
<1>8. k = h
  BY <1>6, <1>7
<1> QED
  BY <1>1, <1>2, <1>3, <1>8 DEF old

LEMMA RestoreStep ==
  ASSUME NetInv, poll_restore_connection
  PROVE  NetInv'
<1> DEFINE old == conn_table_find_element_byip(accepted.ip)
           k == CHOOSE k \in old : \A j \in old : k <= j
<1>0. at = "restore" /\ Table /\ accepted.ip \in Ip /\ ce \in Seq(Entry) /\ Len(ce) \in Nat
  BY DEF poll_restore_connection, NetInv, LoopTypes, Table, TableTypes
<1>2. Shrinks /\ \A h \in 2 .. Len(ce') : ce'[h].ip # accepted.ip
  <2>1. CASE old = {}
    <3>1. UNCHANGED tablevars
      BY <2>1 DEF poll_restore_connection
    <3>2. \A h \in 2 .. Len(ce) : ce[h].ip # accepted.ip
      BY <1>0, <2>1 DEF conn_table_find_element_byip
    <3> QED
      BY <1>0, <3>1, <3>2, StutterShrinks DEF tablevars
  <2>2. CASE old # {}
    <3>1. conn_table_del_element(k)
      BY <2>2 DEF poll_restore_connection
    <3>2. k \in 2 .. Len(ce) /\ ce[k].ip = accepted.ip
      BY <1>0, <2>2, OldEntry
    <3> HIDE DEF k
    <3> QED
      BY <1>0, <3>1, <3>2, DeletionShrinks
  <2> QED
    BY <2>1, <2>2
<1>3. at' \in {"admit", "refuse"} /\ UNCHANGED <<i, numentries, accepted, g>>
  BY DEF poll_restore_connection
<1>4. LoopTypes'
  BY <1>0, <1>3 DEF NetInv, LoopTypes
<1>5. Loops'
  BY <1>0, <1>2, <1>3, LimitStays DEF Loops
<1> QED
  BY <1>2, <1>3, <1>4, <1>5 DEF NetInv, Shrinks

(* The limit is compared for equality before a client is added.             *)
LEMMA AdmitStep ==
  ASSUME NetInv, poll_add_connection_net
  PROVE  NetInv'
<1>0. /\ at \in {"admit", "refuse"} /\ Table
      /\ at = "admit" => accepted.ip \in Ip
      /\ accepted.fd \in Nat
  BY DEF poll_add_connection_net, NetInv, LoopTypes
<1>1. UNCHANGED queues
  BY DEF poll_add_connection_net
<1>2. CASE Refuse
  <2>1. IsFiniteSet(fds')
    BY <1>0, <1>2, FS_RemoveElement DEF Refuse, Table, TableTypes
  <2>2. UNCHANGED <<ce, pfd, nmax, nclients>> /\ Leave
    BY <1>2 DEF Refuse
  <2>3. Shrinks
    BY <1>0, <1>1, <2>1, <2>2, DescriptorsShrink
  <2> QED
    BY <1>0, <2>2, <2>3, LeaveStep
<1>3. CASE /\ at = "admit" /\ ~full
           /\ conn_table_add_element(accepted.fd, accepted.ip)
           /\ at' = "clients" /\ accepted' = Nothing
           /\ UNCHANGED <<fds, i, numentries, g>>
  <2> DEFINE e == Element("client", accepted.fd, accepted.ip)
             p == [fd |-> accepted.fd, revents |-> "none"]
  <2>1. e \in Entry /\ p \in PollFd /\ e.type = "client" /\ e.ip = accepted.ip /\ e.fd = p.fd
    BY <1>0, <1>3 DEF Element, Entry, PollFd, NoQueue
  <2>2. ce' = Append(ce, e) /\ pfd' = Append(pfd, p) /\ nclients' = nclients + 1
    BY <1>3 DEF conn_table_add_element
  <2>3. nmax' = IF Len(ce) = nmax THEN 2 * nmax ELSE nmax
    BY <1>3 DEF conn_table_add_element, conn_table_grow
  <2> HIDE DEF e, p
  <2>4. /\ ce \in Seq(Entry) /\ pfd \in Seq(PollFd) /\ Len(pfd) = Len(ce) /\ Len(ce) \in Nat
        /\ Len(ce) >= 1 /\ nmax \in Nat /\ Len(ce) <= nmax /\ nclients = Len(ce) - 1
    BY <1>0 DEF Table, TableTypes
  <2>5. /\ ce' \in Seq(Entry) /\ Len(ce') = Len(ce) + 1 /\ ce'[Len(ce) + 1] = e
        /\ \A k \in 1 .. Len(ce) : ce'[k] = ce[k]
    BY <2>1, <2>2, <2>4
  <2>6. /\ pfd' \in Seq(PollFd) /\ Len(pfd') = Len(ce) + 1 /\ pfd'[Len(ce) + 1] = p
        /\ \A k \in 1 .. Len(ce) : pfd'[k] = pfd[k]
    BY <2>1, <2>2, <2>4
  <2>7. nmax' \in Nat /\ Len(ce') <= nmax' /\ nclients' = Len(ce') - 1 /\ Len(pfd') = Len(ce')
    BY ONLY <2>2, <2>3, <2>4, <2>5, <2>6
  <2>8. TableTypes'
    BY <1>0, <1>1, <1>3, <2>5, <2>6, <2>7 DEF Table, TableTypes
  <2>a. \A k \in 1 .. Len(ce') : k \in 1 .. Len(ce) \/ k = Len(ce) + 1
    BY <2>4, <2>5
  <2>b. \A k \in 2 .. Len(ce') : k \in 2 .. Len(ce) \/ k = Len(ce) + 1
    BY <2>4, <2>5
  <2>9. \A k \in 1 .. Len(ce') : pfd'[k].fd = ce'[k].fd
    BY <1>0, <2>a, <2>1, <2>5, <2>6 DEF Table
  <2>10. \A k \in 2 .. Len(ce) : ce'[k] = ce[k] /\ ce[k].type = "client" /\ ce[k].ip \in Ip
                               /\ ce[k].ip # accepted.ip
    BY <1>0, <1>3, <2>4, <2>5 DEF Table, NetInv, Loops
  <2>11. \A k \in 2 .. Len(ce') : ce'[k].type = "client" /\ ce'[k].ip \in Ip
    BY <1>0, <1>3, <2>b, <2>1, <2>5, <2>10
  <2>12. \A j, k \in 2 .. Len(ce') : ce'[j].ip = ce'[k].ip => j = k
    BY <1>0, <2>b, <2>1, <2>5, <2>10 DEF Table
  <2>13. ce'[1] = ce[1] /\ Len(ce') >= 1
    BY <2>4, <2>5
  <2>14. Table'
    BY <1>0, <2>7, <2>8, <2>9, <2>11, <2>12, <2>13 DEF Table
  <2>15. LoopTypes'
    BY <1>3 DEF NetInv, LoopTypes, Nothing, ServerFd
  <2>16. g.maxnetclients \in Int
    BY ServerAssumption DEF NetInv, LoopTypes
  <2>17. (g.maxnetclients >= 0 => nclients <= g.maxnetclients)'
    BY <1>0, <1>3, <2>2, <2>4, <2>16 DEF full, NetInv, Loops
  <2>18. Loops'
    BY <1>3, <2>17 DEF Loops
  <2> QED
    BY <1>3, <2>14, <2>15, <2>18 DEF NetInv
<1> QED
  BY <1>2, <1>3 DEF poll_add_connection_net

(* handle_client, for the client of the turn.                               *)
LEMMA HandleShrinks ==
  ASSUME Table, i \in 2 .. Len(ce), handle_client
  PROVE  Shrinks
<1>a. i \in 1 .. Len(ce) /\ ce \in Seq(Entry)
  BY DEF Table, TableTypes
<1>b. ce[i] \in Entry
  BY <1>a
<1>0. ce[i].protocol \in {"unknown", "V1", "V2"} /\ i \in 1 .. Len(ce)
  BY <1>a, <1>b DEF Entry
<1>1. CASE conn_table_del_element(i)
  BY <1>1, DeletionShrinks
<1>2. CASE \E p \in {ident_client_protocol(ce[i].protocol, msg) : msg \in {"V1", "V2", "other"}}
                    \cup IF "ident" \in Faults THEN {ce[i].protocol} ELSE {} : SetProtocol(i, p)
  <2>1. PICK p \in {"unknown", "V1", "V2"} : SetProtocol(i, p)
    BY <1>0, <1>2 DEF ident_client_protocol
  <2> QED
    BY <1>0, <2>1, SetProtocolShrinks
<1> QED
  BY <1>1, <1>2 DEF handle_client

LEMMA ClientsStep ==
  ASSUME NetInv, poll_clients
  PROVE  NetInv'
<1>0. at = "clients" /\ Table /\ Len(ce) \in Nat /\ i \in Nat /\ numentries \in Nat
  BY DEF poll_clients, NetInv, LoopTypes, Table, TableTypes
<1>1. CASE i <= Len(ce) /\ ~End
  <2>1. NextTurn(numentries)
    BY <1>0, <1>1 DEF poll_clients
  <2>2. CASE ~conn_element_isnetclient(ce[i]) \/ pfd[i].revents = "none"
    <3>1. UNCHANGED tablevars
      BY <1>0, <1>1, <2>2 DEF poll_clients
    <3> QED
      BY <1>0, <2>1, <3>1, StutterShrinks, TurnStep
  <2>3. CASE conn_element_isnetclient(ce[i]) /\ pfd[i].revents # "none"
    <3>1. i \in 2 .. Len(ce)
      BY <1>0, <1>1, <2>3, TurnEntry
    <3>2. pfd[i].revents \in {"none", "in", "hup"}
      <4>1. pfd \in Seq(PollFd) /\ i \in 1 .. Len(pfd)
        BY <1>0, <3>1 DEF Table, TableTypes
      <4>2. pfd[i] \in PollFd
        BY <4>1
      <4> QED
        BY <4>2 DEF PollFd
    <3>3. conn_table_del_element(i) \/ handle_client
      BY <1>0, <1>1, <2>3, <3>2 DEF poll_clients
    <3>4. Shrinks
      BY <1>0, <3>1, <3>3, DeletionShrinks, HandleShrinks
    <3> QED
      BY <1>0, <2>1, <3>4, TurnStep
  <2> QED
    BY <2>2, <2>3
<1>2. CASE ~(i <= Len(ce)) /\ ~End
  <2>1. Leave /\ UNCHANGED tablevars
    BY <1>2 DEF poll_clients
  <2> QED
    BY <1>0, <2>1, StutterShrinks, LeaveStep
<1>3. CASE End
  BY <1>0, <1>3, EndStep
<1> QED
  BY <1>1, <1>2, <1>3

LEMMA ThreadStep ==
  ASSUME NetInv, ThreadFinishes
  PROVE  NetInv'
<1>1. PICK k \in DOMAIN ce :
         /\ conn_element_isnetclient_running(ce[k])
         /\ ce' = [ce EXCEPT ![k].thread = "finished"]
  BY DEF ThreadFinishes
<1>2. UNCHANGED <<pfd, nmax, nclients, fds, queues, loopvars>>
  BY DEF ThreadFinishes
<1>3. at # "terminated"
  BY <1>1 DEF NetInv, Ended
<1>4. Table /\ ce \in Seq(Entry) /\ k \in 1 .. Len(ce) /\ IsFiniteSet(queues')
  BY <1>1, <1>2, <1>3 DEF NetInv, Table, TableTypes
<1> DEFINE e == [ce[k] EXCEPT !.thread = "finished"]
<1>5. ce[k] \in Entry
  BY <1>4
<1>6. e \in Entry /\ e.type = ce[k].type /\ e.fd = ce[k].fd /\ e.ip = ce[k].ip
  BY <1>5 DEF Entry
<1>7. ce' = [ce EXCEPT ![k] = e]
  BY <1>1
<1> HIDE DEF e
<1>8. Shrinks /\ Len(ce') = Len(ce)
  BY <1>2, <1>4, <1>6, <1>7, EditShrinks
<1> QED
  BY <1>2, <1>3, <1>8, StayStep

LEMMA WaitStep ==
  ASSUME NetInv, NEW f, WaitExpires(f)
  PROVE  NetInv'
<1>1. PICK k \in DOMAIN ce : ce' = [ce EXCEPT ![k].overdue = TRUE]
  BY DEF WaitExpires
<1>2. UNCHANGED <<pfd, nmax, nclients, fds, queues, loopvars>>
  BY DEF WaitExpires
<1>3. at # "terminated"
  BY DEF WaitExpires
<1>4. Table /\ ce \in Seq(Entry) /\ k \in 1 .. Len(ce) /\ IsFiniteSet(queues')
  BY <1>1, <1>2, <1>3 DEF NetInv, Table, TableTypes
<1> DEFINE e == [ce[k] EXCEPT !.overdue = TRUE]
<1>5. ce[k] \in Entry
  BY <1>4
<1>6. e \in Entry /\ e.type = ce[k].type /\ e.fd = ce[k].fd /\ e.ip = ce[k].ip
  BY <1>5 DEF Entry
<1>7. ce' = [ce EXCEPT ![k] = e]
  BY <1>1
<1> HIDE DEF e
<1>8. Shrinks /\ Len(ce') = Len(ce)
  BY <1>2, <1>4, <1>6, <1>7, EditShrinks
<1> QED
  BY <1>2, <1>3, <1>8, StayStep

(* The invariant holds in every state, whatever the addresses, the          *)
(* settings and the calls that fail.                                        *)
THEOREM Invariance == Spec => []NetInv
<1>1. NetInv /\ [Next]_vars => NetInv'
  <2> SUFFICES ASSUME NetInv, [Next]_vars PROVE NetInv'
    OBVIOUS
  <2>1. CASE ServerStep
    BY <2>1, NewRound, FinishedStep, UnidentifiedStep, SpawnStep, PollStep, AcceptStep,
       RestoreStep, AdmitStep, ClientsStep DEF ServerStep
  <2>2. CASE ThreadFinishes
    BY <2>2, ThreadStep
  <2>3. CASE \E f \in fds : WaitExpires(f)
    BY <2>3, WaitStep
  <2>4. CASE Terminate
    BY <2>4, EndStep DEF Terminate
  <2>5. CASE UNCHANGED vars
    <3>1. LoopTypes'
      BY <2>5 DEF vars, loopvars, NetInv, LoopTypes
    <3>2. at = "terminated" => Ended'
      BY <2>5 DEF vars, tablevars, NetInv, Ended, TableTypes
    <3>3. at # "terminated" => Table' /\ Loops'
      BY <2>5 DEF vars, tablevars, loopvars, NetInv, Table, Loops, TableTypes
    <3> QED
      BY <2>5, <3>1, <3>2, <3>3 DEF vars, loopvars, NetInv
  <2> QED
    BY <2>1, <2>2, <2>3, <2>4, <2>5 DEF Next, Terminated
<1> QED
  BY <1>1, InitInv, PTL DEF Spec

(* The clients are the entries after the first.                             *)
LEMMA ClientsAfterFirst ==
  ASSUME NetInv
  PROVE  /\ at = "terminated" => Clients = {}
         /\ at # "terminated" => Clients = 2 .. Len(ce)
<1>1. CASE at = "terminated"
  BY <1>1 DEF NetInv, Ended, Clients
<1>2. CASE at # "terminated"
  <2>1. /\ ce \in Seq(Entry) /\ Len(ce) \in Nat /\ ce[1].type # "client"
        /\ \A k \in 2 .. Len(ce) : ce[k].type = "client"
    BY <1>2 DEF NetInv, Table, TableTypes
  <2>2. DOMAIN ce = 1 .. Len(ce)
    BY <2>1
  <2> QED
    BY <1>2, <2>1, <2>2 DEF Clients, conn_element_isnetclient
<1> QED
  BY <1>1, <1>2

(* ce[] and pfd[] stay parallel and within their capacity through every     *)
(* deletion that a loop of serverm.c or poll.c makes, and no loop of        *)
(* serverm.c reads past the end, for tables of any length.                  *)
THEOREM TablesParallelHolds == Spec => []TablesParallel
<1>1. NetInv => TablesParallel
  <2> SUFFICES ASSUME NetInv PROVE TablesParallel
    OBVIOUS
  <2>1. ServerTypeOK
    <3>1. TableTypes /\ nclients \in Nat
      BY DEF NetInv, Ended, Table, TableTypes
    <3> QED
      BY <3>1 DEF ServerTypeOK, NetInv, LoopTypes, TableTypes, PollFd
  <2>2. CASE at = "terminated"
    <3>1. ce = <<>> /\ pfd = <<>> /\ nmax \in Nat
      BY <2>2 DEF NetInv, Ended, TableTypes
    <3> QED
      BY <2>1, <2>2, <3>1 DEF TablesParallel
  <2>3. CASE at # "terminated"
    <3>1. Table /\ Loops /\ LoopTypes
      BY <2>3 DEF NetInv
    <3>2. DOMAIN ce = 1 .. Len(ce) /\ Len(ce) \in Nat
      BY <3>1 DEF Table, TableTypes
    <3>3. {k \in DOMAIN ce : ce[k].type = "server"} = {1}
      BY <3>1, <3>2 DEF Table
    <3>4. (at \in {"finished", "unidentified", "spawn"} /\ i <= numentries) => i \in DOMAIN ce
      <4>1. i \in Nat /\ i >= 1 /\ numentries \in Nat
        BY <3>1 DEF LoopTypes
      <4>2. at \in {"finished", "unidentified", "spawn"} => numentries = Len(ce)
        BY <3>1 DEF Loops
      <4>3. (i <= numentries /\ numentries = Len(ce)) => i \in 1 .. Len(ce)
        BY <4>1
      <4> QED
        BY <4>2, <4>3, <3>2
    <3> QED
      BY <2>1, <3>1, <3>2, <3>3, <3>4 DEF TablesParallel, Table
  <2> QED
    BY <2>2, <2>3
<1> QED
  BY <1>1, Invariance, PTL

(* nclients is the number of clients in the table and never passes          *)
(* g.maxnetclients, although poll_add_connection_net compares the two for   *)
(* equality only.                                                           *)
THEOREM ClientLimitHolds == Spec => []ClientLimit
<1>1. NetInv => ClientLimit
  <2> SUFFICES ASSUME NetInv PROVE ClientLimit
    OBVIOUS
  <2>2. CASE at = "terminated"
    <3>1. nclients = 0 /\ Clients = {} /\ g.maxnetclients \in Int
      BY <2>2, ClientsAfterFirst, ServerAssumption DEF NetInv, Ended, LoopTypes
    <3> QED
      BY <3>1, FS_EmptySet DEF ClientLimit
  <2>3. CASE at # "terminated"
    <3>1. /\ nclients = Len(ce) - 1 /\ Len(ce) \in Nat /\ Len(ce) >= 1
          /\ g.maxnetclients >= 0 => nclients <= g.maxnetclients
      BY <2>3 DEF NetInv, Table, TableTypes, Loops
    <3>2. Clients = 2 .. Len(ce)
      BY <2>3, ClientsAfterFirst
    <3>a. 2 \in Int /\ Len(ce) \in Int
      BY <3>1
    <3>3. Cardinality(2 .. Len(ce)) = IF 2 > Len(ce) THEN 0 ELSE Len(ce) - 2 + 1
      BY ONLY <3>a, FS_Interval
    <3>4. Cardinality(Clients) = Len(ce) - 1
      BY <3>1, <3>2, <3>3
    <3> QED
      BY <3>1, <3>4 DEF ClientLimit
  <2> QED
    BY <2>2, <2>3
<1> QED
  BY <1>1, Invariance, PTL

(* No two clients of the table have the same address: what                  *)
(* poll_restore_connection removes is the one connection the client had,    *)
(* and nothing is added to the table in between.                            *)
THEOREM OneConnectionPerIpHolds == Spec => []OneConnectionPerIp
<1>1. NetInv => OneConnectionPerIp
  BY ClientsAfterFirst DEF OneConnectionPerIp, NetInv, Table
<1> QED
  BY <1>1, Invariance, PTL
=============================================================================
