---------------------------- MODULE DaemonProofs -----------------------------
(***************************************************************************)
(* For lists of any length: at most the current source is open, and the    *)
(* daemon only sleeps when every server refused.  DaemonInv is inductive.  *)
(***************************************************************************)
EXTENDS Daemon, FiniteSetTheorems, TLAPS

\* The server k places after server i, for k up to the number of servers.
After(i, k) == IF i + k > max THEN i + k - max - 1 ELSE i + k

(* An open server is the current one and was connected, so that             *)
(* get_next_server() closes it.                                             *)
Alone == \A i \in DOMAIN server : server[i].open => i = current /\ server[i].connect

Gone == np \in {"done", "exit"}

(* The servers that refused follow one another in the list, around its end, *)
(* up to the current one, and there are refused_connections of them.        *)
Cycle ==
  /\ Len(refusals) = refused
  /\ \A k \in 1 .. refused : refusals[k] = After(refusals[1], k - 1)
  /\ refused > 0 => /\ refusals[1] \in 0 .. max
                    /\ current = refusals[refused]
                    /\ ~Gone => server[current].connect

(* The types of everything but the list; main() makes the npemwin thread.   *)
ThreadsTypeOK ==
  /\ quit \in BOOLEAN /\ hup \in BOOLEAN /\ reload \in BOOLEAN /\ seen \in BOOLEAN
  /\ stale \in BOOLEAN /\ qpid \in BOOLEAN /\ running \in BOOLEAN
  /\ np \in {"none", "init", "next", "sleep", "loop", "clear", "reload",
             "packets", "exit", "done"}
  /\ mn \in {"spawn", "loop", "queue", "cleanup"}
  /\ sg \in {"wait", "exit", "done"}
  /\ sent \in 0..MaxSignals /\ unsaved \in 0..MaxUnsaved
  /\ child \in {"none", "running", "zombie"}
  /\ mn = "spawn" => np = "none"

DaemonInv ==
  /\ DaemonTypeOK /\ ThreadsTypeOK
  /\ IF Gone THEN server = NoList ELSE server \in [0 .. Last(max) -> Server]
  /\ nopen = OpenServers(server)
  /\ Alone /\ Cycle

-----------------------------------------------------------------------------
LEMMA NoneOpen ==
  ASSUME NEW es, \A i \in DOMAIN es : ~es[i].open
  PROVE  OpenServers(es) = 0
<1>1. {i \in DOMAIN es : es[i].open} = {}
  OBVIOUS
<1> QED
  BY <1>1, FS_EmptySet DEF OpenServers

LEMMA OneOpen ==
  ASSUME NEW es, NEW c \in DOMAIN es, es[c].open,
         \A i \in DOMAIN es : es[i].open => i = c
  PROVE  OpenServers(es) = 1
<1>1. {i \in DOMAIN es : es[i].open} = {c}
  OBVIOUS
<1> QED
  BY <1>1, FS_Singleton DEF OpenServers

LEMMA EmptyList == DOMAIN NoList = {} /\ OpenServers(NoList) = 0
<1>1. DOMAIN NoList = {}
  BY DEF NoList
<1> QED
  BY <1>1, NoneOpen

(* What a server is after each of the changes to it.                        *)
LEMMA ServerTypes ==
  /\ init_server \in Server /\ ~init_server.open
  /\ \A es \in Server : es.open \in BOOLEAN /\ es.connect \in BOOLEAN
  /\ \A es \in Server, ok \in BOOLEAN :
       /\ update_emwin_server_stats(es, ok) \in Server
       /\ update_emwin_server_stats(es, ok).open = es.open
       /\ update_emwin_server_stats(es, ok).connect = es.connect
<1> USE LimitsAssumption
<1>1. init_server \in Server /\ ~init_server.open
  BY DEF init_server, Server
<1>2. \A es \in Server : es.open \in BOOLEAN /\ es.connect \in BOOLEAN
  BY DEF Server
<1>3. ASSUME NEW es \in Server, NEW ok \in BOOLEAN
      PROVE  /\ update_emwin_server_stats(es, ok) \in Server
             /\ update_emwin_server_stats(es, ok).open = es.open
             /\ update_emwin_server_stats(es, ok).connect = es.connect
  <2>1. es.consec \in 0 .. MinConsecutive /\ es.bad \in 0 .. MaxBad + 1
    BY DEF Server
  <2>2. PICK c \in 0 .. MinConsecutive, b \in 0 .. MaxBad + 1 :
          update_emwin_server_stats(es, ok) \in
            {[es EXCEPT !.consec = c, !.bad = b], [es EXCEPT !.bad = b]}
    <3>1. /\ Cap(es.consec + 1, MinConsecutive) \in 0 .. MinConsecutive
          /\ Cap(es.bad + 1, MaxBad + 1) \in 0 .. MaxBad + 1
      BY <2>1 DEF Cap
    <3>2. CASE ok
      <4> DEFINE n1 == Cap(es.consec + 1, MinConsecutive)
                 b1 == IF n1 >= MinConsecutive THEN 0 ELSE es.bad
      <4>1. update_emwin_server_stats(es, ok) = [es EXCEPT !.consec = n1, !.bad = b1]
        BY <3>2 DEF update_emwin_server_stats, Server
      <4>2. n1 \in 0 .. MinConsecutive /\ b1 \in 0 .. MaxBad + 1
        BY <2>1, <3>1
      <4> HIDE DEF n1, b1
      <4> QED
        BY <4>1, <4>2
    <3>3. CASE ~ok
      <4>1. update_emwin_server_stats(es, ok) =
              [es EXCEPT !.bad = IF es.consec < MinConsecutive
                                 THEN Cap(es.bad + 1, MaxBad + 1) ELSE es.bad]
        BY <3>3 DEF update_emwin_server_stats, Server
      <4> QED
        BY <2>1, <3>1, <4>1
    <3> QED
      BY <3>2, <3>3
  <2> QED
    BY <2>2 DEF Server
<1> QED
  BY <1>1, <1>2, <1>3

LEMMA InitInv == Init => DaemonInv
<1> SUFFICES ASSUME Init PROVE DaemonInv
  OBVIOUS
<1> USE ServersAssumption, BoundAssumption
<1>1. /\ max \in 0 .. MaxServers - 1 /\ server = [i \in 0 .. max |-> init_server]
      /\ current = 0 /\ refused = 0 /\ nopen = 0 /\ refusals = <<>>
  BY DEF Init, ListInit
<1>2. server \in [0 .. Last(max) -> Server]
  BY <1>1, ServerTypes DEF Last
<1>3. ListTypeOK
  BY <1>1, <1>2 DEF ListTypeOK, Last
<1>4. DaemonTypeOK
  <2>1. server # NoList
    BY <1>1 DEF NoList
  <2>2. /\ np = "none" /\ mn = "spawn" /\ sg = "wait" /\ sent = 0 /\ unsaved = 0
        /\ child = "none"
    BY DEF Init
  <2>3. /\ quit \in BOOLEAN /\ hup \in BOOLEAN /\ reload \in BOOLEAN /\ seen \in BOOLEAN
        /\ stale \in BOOLEAN /\ qpid \in BOOLEAN /\ running \in BOOLEAN
    BY DEF Init
  <2> QED
    BY <1>3, <2>1, <2>2, <2>3 DEF DaemonTypeOK
<1>5. \A i \in DOMAIN server : ~server[i].open
  BY <1>1, ServerTypes
<1>6. nopen = OpenServers(server)
  BY <1>1, <1>5, NoneOpen
<1>7. ~Gone
  BY DEF Init, Gone
<1>8. Alone /\ Cycle
  BY <1>1, <1>5 DEF Alone, Cycle
<1> QED
  BY <1>2, <1>4, <1>6, <1>7, <1>8 DEF DaemonInv, DaemonTypeOK, ThreadsTypeOK, Init

-----------------------------------------------------------------------------
(* get_next_server(): the table it leaves.                                  *)
LEMMA NextTable ==
  ASSUME DaemonInv, ~Gone, NEW up \in BOOLEAN, get_next_server(up)
  PROVE  /\ Chosen \in 0 .. Last(max) /\ current' = Chosen /\ max' = max
         /\ server' \in [0 .. Last(max) -> Server]
         /\ \A i \in 0 .. Last(max) : server'[i].open <=> up /\ i = Chosen
         /\ server'[Chosen].connect
         /\ nopen' = IF up THEN 1 ELSE 0
<1>1. /\ server \in [0 .. Last(max) -> Server] /\ current \in 0 .. Last(max)
      /\ max \in -1 .. MaxServers - 1 /\ nopen = OpenServers(server) /\ nopen \in Nat /\ Alone
  BY DEF DaemonInv, DaemonTypeOK, ListTypeOK
<1>2. /\ Closed \in [0 .. Last(max) -> Server]
      /\ \A i \in 0 .. Last(max) : ~Closed[i].open
  <2>1. \A i \in 0 .. Last(max) : server[i].open => i = current /\ server[i].connect
    BY <1>1 DEF Alone
  <2>2. CASE server[current].connect
    BY <1>1, <2>1, <2>2 DEF Closed, Server
  <2>3. CASE ~server[current].connect
    BY <1>1, <2>1, <2>3 DEF Closed
  <2> QED
    BY <2>2, <2>3
<1>3. Chosen \in 0 .. Last(max)
  BY <1>1 DEF Chosen, Last
<1>4. Fresh \in Server
  <2>1. Closed[current] \in Server
    BY <1>1, <1>2
  <2>2. CASE server[current].connect /\ switch_server
    BY <2>2, ServerTypes DEF Fresh
  <2>3. CASE ~(server[current].connect /\ switch_server)
    <3>1. Fresh = [Closed[current] EXCEPT !.consec =
                     IF server[current].connect THEN 0 ELSE Closed[current].consec]
      BY <2>1, <2>3 DEF Fresh, Server
    <3> QED
      BY <2>1, <3>1, LimitsAssumption DEF Server
  <2> QED
    BY <2>2, <2>3
<1> DEFINE b == IF up THEN Fresh.bad ELSE Cap(Fresh.bad + 1, MaxBad + 1)
           es == [Fresh EXCEPT !.connect = TRUE, !.open = up, !.bad = b]
<1>5. es \in Server /\ (es.open <=> up) /\ es.connect
  <2>1. b \in 0 .. MaxBad + 1
    BY <1>4, LimitsAssumption DEF Server, Cap
  <2> HIDE DEF b
  <2> QED
    BY <1>4, <2>1 DEF Server
<1>6. server' = [Closed EXCEPT ![Chosen] = es] /\ current' = Chosen /\ max' = max
  BY <1>4 DEF get_next_server, Server
<1> HIDE DEF es
<1>7. /\ server' \in [0 .. Last(max) -> Server]
      /\ \A i \in 0 .. Last(max) : server'[i].open <=> up /\ i = Chosen
      /\ server'[Chosen].connect
  BY <1>2, <1>3, <1>5, <1>6
<1>8. OpenServers(Closed) = 0
  BY <1>2, NoneOpen
<1>9. nopen' = IF up THEN 1 ELSE 0
  BY <1>1, <1>8 DEF get_next_server
<1> QED
  BY <1>3, <1>6, <1>7, <1>9

(* ... and the refusals it leaves.                                          *)
LEMMA NextCycle ==
  ASSUME DaemonInv, ~Gone, ~Gone', NEW up \in BOOLEAN, get_next_server(up)
  PROVE  /\ Cycle'
         /\ refused' \in 0 .. max + 1
         /\ refusals' \in Seq(0 .. MaxServers - 1)
<1>1. /\ max \in -1 .. MaxServers - 1 /\ refused \in 0 .. max + 1
      /\ refusals \in Seq(0 .. MaxServers - 1) /\ Cycle /\ current \in 0 .. Last(max)
  BY DEF DaemonInv, DaemonTypeOK, ListTypeOK
<1>2. Chosen \in 0 .. Last(max) /\ current' = Chosen /\ max' = max /\ server'[Chosen].connect
  BY NextTable
<1>3. CASE up \/ AllDown(refused + 1)
  <2>1. refused' = 0 /\ refusals' = <<>>
    BY <1>1, <1>3 DEF get_next_server, AllDown
  <2> QED
    BY <1>1, <2>1 DEF Cycle
<1>4. CASE ~up /\ ~AllDown(refused + 1)
  <2>1. refused' = refused + 1 /\ refusals' = Append(refusals, Chosen)
    BY <1>4 DEF get_next_server
  <2>2. refused <= max /\ Chosen \in 0 .. max /\ Chosen \in 0 .. MaxServers - 1
    BY <1>1, <1>2, <1>4, ServersAssumption DEF AllDown, Last
  <2>3. /\ refusals' \in Seq(0 .. MaxServers - 1) /\ Len(refusals') = refused + 1
        /\ refusals'[refused + 1] = Chosen
        /\ \A k \in 1 .. refused : refusals'[k] = refusals[k]
    <3>1. Len(refusals) = refused
      BY <1>1 DEF Cycle
    <3> QED
      BY ONLY <1>1, <2>1, <2>2, <3>1
  <2>4. CASE refused = 0
    BY <1>1, <1>2, <2>1, <2>2, <2>3, <2>4 DEF Cycle, After
  <2>5. CASE refused > 0
    <3>1. /\ refusals[1] \in 0 .. max /\ server[current].connect
          /\ current = After(refusals[1], refused - 1)
      BY <1>1, <2>5 DEF Cycle
    <3>2. Chosen = IF current + 1 > max THEN 0 ELSE current + 1
      BY <2>5, <3>1 DEF Chosen, switch_server
    <3>3. Chosen = After(refusals[1], refused)
      <4> DEFINE first == refusals[1]
      <4>1. first \in 0 .. max /\ current = After(first, refused - 1)
        BY <3>1
      <4> HIDE DEF first
      <4>2. Chosen = After(first, refused)
        BY ONLY <1>1, <2>2, <2>5, <3>2, <4>1 DEF After
      <4> QED
        BY <4>2 DEF first
    <3>4. refusals'[1] = refusals[1]
      BY <1>1, <2>3, <2>5
    <3>5. \A k \in 1 .. refused + 1 : refusals'[k] = After(refusals[1], k - 1)
      BY <1>1, <2>3, <3>3 DEF Cycle
    <3>6. \A k \in 1 .. refused' : refusals'[k] = After(refusals[1], k - 1)'
      BY <1>2, <2>1, <3>4, <3>5 DEF After
    <3>7. Len(refusals') = refused' /\ refusals'[1] \in 0 .. max' /\ current' = refusals'[refused']
      BY <1>2, <2>1, <2>3, <3>1, <3>4
    <3>8. server'[current'].connect
      BY <1>2
    <3>9. Cycle'
      BY <3>6, <3>7, <3>8 DEF Cycle
    <3> QED
      BY <1>1, <2>1, <2>2, <2>3, <3>9
  <2> QED
    BY <1>1, <2>4, <2>5
<1> QED
  BY <1>3, <1>4

-----------------------------------------------------------------------------
(* A list that is there is not NoList.                                      *)
LEMMA HasList ==
  ASSUME NEW m \in Int, NEW es \in [0 .. Last(m) -> Server]
  PROVE  es # NoList /\ DOMAIN es = 0 .. Last(m)
<1>1. 0 \in DOMAIN es
  BY DEF Last
<1> QED
  BY <1>1, EmptyList

(* A step that does not touch the list, by a thread that does not end.      *)
LEMMA KeepList ==
  ASSUME DaemonInv, UNCHANGED listVars, Gone' <=> Gone, ThreadsTypeOK'
  PROVE  DaemonInv'
<1>1. ListTypeOK' /\ nopen' = OpenServers(server') /\ Alone'
  BY DEF DaemonInv, DaemonTypeOK, ListTypeOK, listVars, Alone
<1>2. Cycle'
  BY DEF DaemonInv, Cycle, After, listVars
<1>3. IF Gone' THEN server' = NoList ELSE server' \in [0 .. Last(max') -> Server]
  BY DEF DaemonInv, listVars
<1>4. ~Gone' => server' # NoList
  BY <1>1, <1>3, HasList DEF ListTypeOK
<1>5. DaemonTypeOK'
  BY <1>1, <1>4 DEF DaemonTypeOK, ThreadsTypeOK, Gone
<1> QED
  BY <1>1, <1>2, <1>3, <1>5 DEF DaemonInv

(* The main thread, the signal thread and the script.                       *)
LEMMA OtherThreads ==
  ASSUME DaemonInv, MainStep \/ ChildEnds \/ \E sig \in Signals : signal_handler(sig)
  PROVE  UNCHANGED listVars /\ ThreadsTypeOK' /\ (Gone' <=> Gone)
<1>0. ThreadsTypeOK
  BY DEF DaemonInv
<1> USE BoundAssumption DEF ThreadsTypeOK, Gone, flags, threads, qrun
<1>1. CASE Spawn
  <2>1. quit' \in BOOLEAN
    BY <1>0, <1>1 DEF Spawn
  <2>2. /\ mn = "spawn" /\ mn' = "loop" /\ np' \in {np, "init"} /\ (np' # np => np' = "init")
        /\ UNCHANGED <<listVars, hup, reload, seen, stale, sg, sent, unsaved, running, qrun>>
    BY <1>1 DEF Spawn
  <2> QED
    BY <1>0, <2>1, <2>2
<1>2. CASE PeriodicHup
  BY <1>0, <1>2 DEF PeriodicHup
<1>3. CASE PeriodicWait
  BY <1>0, <1>3 DEF PeriodicWait, wait_qrunner
<1>4. CASE PeriodicRunq
  BY <1>0, <1>4 DEF PeriodicRunq, runq
<1>5. CASE PeriodicIdle
  BY <1>0, <1>5 DEF PeriodicIdle
<1>6. CASE MainReturns
  BY <1>0, <1>6 DEF MainReturns
<1>7. CASE Cleanup
  <2>1. running' \in BOOLEAN
    BY <1>7 DEF Cleanup
  <2>2. UNCHANGED <<listVars, flags, np, mn, sg, sent, unsaved, qrun>>
    BY <1>7 DEF Cleanup
  <2> QED
    BY <1>0, <2>1, <2>2
<1>8. CASE ChildEnds
  BY <1>0, <1>8 DEF ChildEnds
<1>9. ASSUME NEW sig \in Signals, signal_handler(sig)
      PROVE  UNCHANGED listVars /\ ThreadsTypeOK' /\ (Gone' <=> Gone)
  BY <1>0, <1>9 DEF signal_handler
<1> QED
  BY <1>1, <1>2, <1>3, <1>4, <1>5, <1>6, <1>7, <1>8, <1>9 DEF MainStep

(* The npemwin thread where it only looks at flags.                         *)
LEMMA QuietNp ==
  ASSUME DaemonInv, init_npemwin \/ Sleep \/ ReadFlag \/ ClearFlag
  PROVE  UNCHANGED listVars /\ ThreadsTypeOK' /\ (Gone' <=> Gone)
<1>0. ThreadsTypeOK
  BY DEF DaemonInv
<1> USE DEF ThreadsTypeOK, Gone, flags, threads, qrun
<1>1. CASE init_npemwin
  BY <1>0, <1>1 DEF init_npemwin
<1>2. CASE Sleep
  BY <1>0, <1>2 DEF Sleep
<1>3. CASE ReadFlag
  BY <1>0, <1>3 DEF ReadFlag, LoopTest
<1>4. CASE ClearFlag
  BY <1>0, <1>4 DEF ClearFlag
<1> QED
  BY <1>1, <1>2, <1>3, <1>4

(* The npemwin thread where it changes the list.                            *)
LEMMA OpenStep ==
  ASSUME DaemonInv, OpenServer
  PROVE  DaemonInv'
<1>1. PICK up \in BOOLEAN :
        /\ get_next_server(up)
        /\ np' \in {"loop", "sleep", "next"}
  BY DEF OpenServer
<1>2. ~Gone /\ ~Gone' /\ max \in -1 .. MaxServers - 1
  BY <1>1 DEF OpenServer, Gone, DaemonInv, DaemonTypeOK, ListTypeOK
<1>3. /\ Chosen \in 0 .. Last(max) /\ current' = Chosen /\ max' = max
      /\ server' \in [0 .. Last(max) -> Server]
      /\ \A i \in 0 .. Last(max) : server'[i].open <=> up /\ i = Chosen
      /\ server'[Chosen].connect
      /\ nopen' = IF up THEN 1 ELSE 0
  BY <1>1, <1>2, NextTable
<1>4. Cycle' /\ refused' \in 0 .. max + 1 /\ refusals' \in Seq(0 .. MaxServers - 1)
  BY <1>1, <1>2, NextCycle
<1>5. DOMAIN server' = 0 .. Last(max) /\ server' # NoList
  BY <1>2, <1>3, HasList
<1>6. nopen' = OpenServers(server')
  <2>1. CASE up
    <3>1. /\ Chosen \in DOMAIN server' /\ server'[Chosen].open
          /\ \A i \in DOMAIN server' : server'[i].open => i = Chosen
      BY <1>3, <1>5, <2>1
    <3>2. OpenServers(server') = 1
      BY <3>1, OneOpen
    <3> QED
      BY <1>3, <2>1, <3>2
  <2>2. CASE ~up
    BY <1>3, <1>5, <2>2, NoneOpen
  <2> QED
    BY <2>1, <2>2
<1>7. Alone'
  BY <1>3, <1>5 DEF Alone
<1>8. ListTypeOK'
  BY <1>2, <1>3, <1>4 DEF ListTypeOK
<1>9. ThreadsTypeOK'
  BY <1>1 DEF DaemonInv, DaemonTypeOK, ThreadsTypeOK, OpenServer, qrun
<1> QED
  BY <1>2, <1>3, <1>4, <1>5, <1>6, <1>7, <1>8, <1>9
  DEF DaemonInv, DaemonTypeOK, ThreadsTypeOK

LEMMA ReleaseAll == DaemonInv /\ release_server_list => nopen' = 0
BY DEF DaemonInv, DaemonTypeOK, ListTypeOK, release_server_list

LEMMA ReloadStep ==
  ASSUME DaemonInv, Reload
  PROVE  DaemonInv'
<1>1. PICK k \in 0 .. MaxServers : get_server_list(k)
  BY FilesAssumption DEF Reload
<1>2. max' \in -1 .. MaxServers - 1 /\ nopen' = 0 /\ ~Gone'
  BY <1>1, ServersAssumption, ReleaseAll DEF Reload, Gone, get_server_list
<1>3. /\ server' = [i \in 0 .. Last(max') |-> init_server] /\ current' = 0 /\ refused' = 0
      /\ refusals' = <<>>
  BY <1>1 DEF get_server_list
<1>4. server' \in [0 .. Last(max') -> Server]
  BY <1>3, ServerTypes
<1>5. \A i \in DOMAIN server' : ~server'[i].open
  BY <1>3, ServerTypes
<1>6. nopen' = OpenServers(server') /\ Alone'
  BY <1>2, <1>5, NoneOpen DEF Alone
<1>7. Cycle'
  BY <1>3 DEF Cycle
<1>8. ListTypeOK' /\ server' # NoList
  <2>1. current' \in 0 .. Last(max') /\ refused' \in 0 .. max' + 1 /\ nopen' \in Nat
    BY <1>2, <1>3 DEF Last
  <2>2. refusals' \in Seq(0 .. MaxServers - 1)
    BY <1>3
  <2>3. server' # NoList
    BY <1>2, <1>4, HasList
  <2> QED
    BY <1>2, <1>4, <2>1, <2>2, <2>3 DEF ListTypeOK
<1>9. ThreadsTypeOK'
  <2>1. stale' \in BOOLEAN
    BY DEF Reload
  <2>2. /\ np = "reload" /\ np' = "packets"
        /\ UNCHANGED <<quit, hup, reload, seen, mn, sg, sent, unsaved, running, qrun>>
    BY DEF Reload
  <2> QED
    BY <2>1, <2>2 DEF DaemonInv, DaemonTypeOK, ThreadsTypeOK, qrun
<1> QED
  BY <1>2, <1>4, <1>6, <1>7, <1>8, <1>9 DEF DaemonInv, DaemonTypeOK, ThreadsTypeOK

(* The thread ends, or calls exit(): there is no list any more.             *)
LEMMA EndStep ==
  ASSUME DaemonInv, ReloadFails \/ Terminate
  PROVE  DaemonInv'
<1>1. server' = NoList /\ nopen' = 0 /\ Gone' /\ np' \in {"exit", "done"}
  BY ReleaseAll DEF ReloadFails, Terminate, Gone
<1>2. nopen' = OpenServers(server') /\ Alone'
  BY <1>1, EmptyList DEF Alone
<1>3. Cycle' /\ ListTypeOK'
  <2>1. CASE ReloadFails
    <3>1. max' = -1 /\ current' = 0 /\ refused' = 0 /\ refusals' = <<>>
      BY <2>1 DEF ReloadFails
    <3> QED
      BY <1>1, <3>1, ServersAssumption DEF Cycle, ListTypeOK, Last
  <2>2. CASE Terminate
    <3>1. UNCHANGED <<max, current, refused, refusals>>
      BY <2>2 DEF Terminate
    <3>2. Cycle'
      BY <1>1, <3>1 DEF DaemonInv, Cycle, After
    <3>3. ListTypeOK'
      BY <1>1, <3>1 DEF DaemonInv, DaemonTypeOK, ListTypeOK
    <3> QED
      BY <3>2, <3>3
  <2> QED
    BY <2>1, <2>2
<1>4. ThreadsTypeOK'
  <2>1. running' \in BOOLEAN
    BY DEF DaemonInv, DaemonTypeOK, ReloadFails, Terminate
  <2>2. np # "none" /\ UNCHANGED <<flags, mn, sg, sent, unsaved, qrun>>
    BY DEF ReloadFails, Terminate
  <2> QED
    BY <1>1, <2>1, <2>2 DEF DaemonInv, DaemonTypeOK, ThreadsTypeOK, flags, qrun
<1> QED
  BY <1>1, <1>2, <1>3, <1>4 DEF DaemonInv, DaemonTypeOK, ThreadsTypeOK

LEMMA PacketsStep ==
  ASSUME DaemonInv, process_packets
  PROVE  DaemonInv'
<1>1. /\ server \in [0 .. Last(max) -> Server] /\ max \in -1 .. MaxServers - 1
      /\ current \in 0 .. Last(max) /\ ~Gone
  BY DEF DaemonInv, DaemonTypeOK, ListTypeOK, process_packets, Gone
<1>2. PICK ok \in BOOLEAN :
        server' = [server EXCEPT ![current] = update_emwin_server_stats(server[current], ok)]
  BY DEF process_packets
<1>3. /\ UNCHANGED <<max, current, refused, nopen, refusals, flags, mn, sg, sent, running, qrun>>
      /\ np = "packets" /\ np' \in {"loop", "next"} /\ ~Gone' /\ unsaved' \in 0 .. MaxUnsaved
  BY BoundAssumption DEF process_packets, Gone, DaemonInv, DaemonTypeOK
<1>4. /\ server' \in [0 .. Last(max) -> Server]
      /\ \A i \in 0 .. Last(max) : /\ server'[i].open = server[i].open
                                   /\ server'[i].connect = server[i].connect
  BY <1>1, <1>2, ServerTypes
<1>5. /\ DOMAIN server = 0 .. Last(max) /\ DOMAIN server' = 0 .. Last(max)
      /\ server' # NoList
  BY <1>1, <1>4, HasList
<1>6. {i \in DOMAIN server' : server'[i].open} = {i \in DOMAIN server : server[i].open}
  BY <1>4, <1>5
<1>7. nopen' = OpenServers(server')
  BY <1>3, <1>6 DEF OpenServers, DaemonInv
<1>8. Alone'
  BY <1>3, <1>4, <1>5 DEF Alone, DaemonInv
<1>9. Cycle'
  BY <1>1, <1>3, <1>4 DEF Cycle, After, DaemonInv
<1>10. ListTypeOK'
  BY <1>3, <1>4 DEF ListTypeOK, DaemonInv, DaemonTypeOK
<1>11. ThreadsTypeOK'
  BY <1>3 DEF DaemonInv, DaemonTypeOK, ThreadsTypeOK, flags, qrun
<1> QED
  BY <1>3, <1>4, <1>5, <1>7, <1>8, <1>9, <1>10, <1>11
  DEF DaemonInv, DaemonTypeOK, ThreadsTypeOK

LEMMA StepInv == DaemonInv /\ [Next]_vars => DaemonInv'
<1> SUFFICES ASSUME DaemonInv, [Next]_vars PROVE DaemonInv'
  OBVIOUS
<1>1. CASE UNCHANGED vars
  <2>1. UNCHANGED listVars /\ (Gone' <=> Gone) /\ ThreadsTypeOK'
    BY <1>1 DEF vars, flags, threads, qrun, Gone, DaemonInv, DaemonTypeOK, ThreadsTypeOK
  <2> QED
    BY <2>1, KeepList
<1>2. CASE MainStep \/ ChildEnds \/ \E sig \in Signals : signal_handler(sig)
  BY <1>2, OtherThreads, KeepList
<1>3. CASE NpStep
  BY <1>3, QuietNp, KeepList, OpenStep, ReloadStep, EndStep, PacketsStep DEF NpStep
<1> QED
  BY <1>1, <1>2, <1>3 DEF Next

THEOREM Invariance == Spec => []DaemonInv
BY InitInv, StepInv, PTL DEF Spec

(* At most the current server is open and no source descriptor is lost, for *)
(* lists of any length, whatever fails and however often they are reloaded. *)
THEOREM OneSourceOpenHolds == Spec => []OneSourceOpen
<1>1. DaemonInv => OneSourceOpen
  BY EmptyList DEF DaemonInv, OneSourceOpen, Alone, Gone
<1> QED
  BY <1>1, Invariance, PTL

(* The npemwin thread sleeps for retrysleep seconds only when every server  *)
(* of a list of any length has refused, and the first of them twice.        *)
THEOREM SleepsWhenAllRefusedHolds == Spec => SleepsWhenAllRefused
<1>1. ASSUME DaemonInv, Next, np' = "sleep", np # "sleep", max >= 0
      PROVE  LET tried == Append(refusals, current')
             IN  {tried[i] : i \in DOMAIN tried} = 0..max /\ tried[1] = current'
  <2>1. OpenServer
    BY <1>1 DEF Next, MainStep, Spawn, PeriodicHup, PeriodicWait, PeriodicRunq, PeriodicIdle,
      MainReturns, Cleanup, ChildEnds, signal_handler, NpStep, init_npemwin, Sleep, ReadFlag,
      ClearFlag, Reload, ReloadFails, process_packets, Terminate, threads
  <2>2. ~Gone /\ get_next_server(FALSE) /\ AllDown(refused + 1)
    BY <1>1, <2>1 DEF OpenServer, Gone
  <2>3. /\ max \in Nat /\ refused \in 0 .. max + 1
        /\ refusals \in Seq(0 .. MaxServers - 1) /\ Cycle
    BY <1>1 DEF DaemonInv, DaemonTypeOK, ListTypeOK
  <2>4. refused = max + 1 /\ Len(refusals) = max + 1 /\ refusals[1] \in 0 .. max
    BY <2>2, <2>3 DEF AllDown, Cycle
  <2>5. current' = IF current + 1 > max THEN 0 ELSE current + 1
    BY <2>2, <2>3, <2>4 DEF get_next_server, Chosen, switch_server, Cycle
  <2> DEFINE first == refusals[1]
             tried == Append(refusals, current')
  <2>6. \A k \in 1 .. max + 1 : refusals[k] = After(first, k - 1)
    BY <2>3, <2>4 DEF Cycle
  <2>7. current = After(first, max)
    BY <2>3, <2>4, <2>6 DEF Cycle
  <2>8. current' = first
    <3> HIDE DEF first
    <3>1. first \in 0 .. max
      BY <2>4 DEF first
    <3> QED
      BY ONLY <2>3, <2>5, <2>7, <3>1 DEF After
  <2>9. /\ DOMAIN tried = 1 .. max + 2 /\ tried[max + 2] = first
        /\ \A k \in 1 .. max + 1 : tried[k] = After(first, k - 1)
    BY <2>3, <2>4, <2>6, <2>8
  <2>10. tried[1] = current'
    BY <2>3, <2>4, <2>8
  <2> HIDE DEF tried, first
  <2>11. first \in 0 .. max
    BY <2>4 DEF first
  <2>12. \A k \in DOMAIN tried : tried[k] \in 0 .. max
    BY ONLY <2>3, <2>9, <2>11 DEF After
  <2>13. ASSUME NEW j \in 0 .. max
         PROVE  \E k \in DOMAIN tried : tried[k] = j
    <3>1. CASE j >= first
      <4> DEFINE k == j - first + 1
      <4>1. k \in 1 .. max + 1 /\ k \in 1 .. max + 2 /\ After(first, k - 1) = j
        BY <2>3, <2>11, <3>1 DEF After
      <4> HIDE DEF k
      <4> QED
        BY <2>9, <4>1
    <3>2. CASE j < first
      <4> DEFINE k == j - first + max + 2
      <4>1. k \in 1 .. max + 1 /\ k \in 1 .. max + 2 /\ After(first, k - 1) = j
        BY <2>3, <2>11, <3>2 DEF After
      <4> HIDE DEF k
      <4> QED
        BY <2>9, <4>1
    <3> QED
      BY <2>3, <2>11, <3>1, <3>2
  <2>14. {tried[i] : i \in DOMAIN tried} = 0 .. max
    BY <2>12, <2>13
  <2> QED
    BY <2>10, <2>14 DEF tried
<1>2. DaemonInv /\ [Next]_vars
        => [np' = "sleep" /\ np # "sleep" /\ max >= 0
             => LET tried == Append(refusals, current')
                IN  {tried[i] : i \in DOMAIN tried} = 0..max /\ tried[1] = current']_vars
  BY <1>1
<1> QED
  BY <1>2, Invariance, PTL DEF Spec, SleepsWhenAllRefused
=============================================================================
