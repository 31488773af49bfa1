------------------------------- MODULE Daemon -------------------------------
(***************************************************************************)
(* The threads of the daemon around its list of sources (main.c, per.c,    *)
(* signal.c, npemwin.c).                                                   *)
(*                                                                         *)
(* The signal thread turns signals into flags.  The main thread sleeps and *)
(* runs periodic(), which passes a hangup on as the reload flag and runs   *)
(* the qrunner; when the daemon is to quit it leaves main(), and cleanup() *)
(* joins the npemwin thread.  The npemwin thread opens a source, reads     *)
(* packets from it until one fails, and looks at the flags in between.     *)
(* What it does with a packet is the subject of Spool and NetServer.       *)
(***************************************************************************)
EXTENDS ServerList

CONSTANTS
  Signals,    \* the signals that are sent: a subset of {"hup", "term", "abort"}
  MaxSignals, \* bound: how many are sent
  MaxUnsaved, \* bound: packets that cannot be saved
  Files,      \* the servers.conf the daemon may find: a number of servers, or
              \* -1 for one it cannot read
  Failures    \* what may fail: a subset of {"spawn", "init"}

ASSUME SignalsAssumption == Signals \subseteq {"hup", "term", "abort"}
ASSUME BoundAssumption == MaxSignals \in Nat /\ MaxUnsaved \in Nat
ASSUME FilesAssumption == Files \subseteq -1..MaxServers
ASSUME FailuresAssumption == Failures \subseteq {"spawn", "init"}

VARIABLES
  quit, hup, reload,  \* f_quit, f_hup, greload_servers_list_flag
  seen,      \* r of get_reload_servers_list_flag
  stale,     \* es of npemwin_loop points into a list that was freed
  np,        \* where the npemwin thread is
  mn,        \* where the main thread is
  sg,        \* where the signal thread is
  sent,      \* how many signals were sent
  unsaved,   \* how many packets could not be saved
  qpid,      \* g.qrunner_pid is a process
  child,     \* the qrunner process
  running    \* the process has not ended

flags == <<quit, hup, reload, seen, stale>>
threads == <<np, mn, sg, sent, unsaved, running>>
qrun == <<qpid, child>>
vars == <<listVars, flags, threads, qrun>>

\* The list is there while it is used.
DaemonTypeOK ==
  /\ ListTypeOK
  /\ quit \in BOOLEAN /\ hup \in BOOLEAN /\ reload \in BOOLEAN /\ seen \in BOOLEAN
  /\ stale \in BOOLEAN /\ qpid \in BOOLEAN /\ running \in BOOLEAN
  /\ np \in {"none", "init", "next", "sleep", "loop", "clear", "reload",
             "packets", "exit", "done"}
  /\ mn \in {"spawn", "loop", "queue", "cleanup"}
  /\ sg \in {"wait", "exit", "done"}
  /\ sent \in 0..MaxSignals /\ unsaved \in 0..MaxUnsaved
  /\ child \in {"none", "running", "zombie"}
  /\ np \in {"next", "loop", "packets"} => server # NoList

Init ==
  /\ ListInit
  /\ quit = FALSE /\ hup = FALSE /\ reload = FALSE
  /\ seen = FALSE /\ stale = FALSE
  /\ np = "none" /\ mn = "spawn" /\ sg = "wait" /\ sent = 0 /\ unsaved = 0
  /\ qpid = FALSE /\ child = "none"
  /\ running = TRUE

-----------------------------------------------------------------------------
(* main() spawns the npemwin thread; an error while it initializes makes it *)
(* quit.                                                                    *)
Spawn ==
  /\ running /\ mn = "spawn"
  /\ mn' = "loop"
  /\ \/ np' = "init" /\ UNCHANGED quit
     \/ "spawn" \in Failures /\ quit' = TRUE /\ UNCHANGED np
  /\ UNCHANGED <<listVars, hup, reload, seen, stale, sg, sent, unsaved, running, qrun>>

(* periodic(): a hangup is passed on to the npemwin thread. *)
PeriodicHup ==
  /\ running /\ mn = "loop" /\ ~quit
  /\ hup' = FALSE
  /\ reload' = (reload \/ hup)
  /\ mn' = "queue"
  /\ UNCHANGED <<listVars, quit, seen, stale, np, sg, sent, unsaved, running, qrun>>

\* A mutation: the process is reaped and its pid is kept.
wait_qrunner_keeps == child' = "none" /\ UNCHANGED qpid

\* waitpid() returned the qrunner.
wait_qrunner == child' = "none" /\ qpid' = FALSE

(* periodic() waits for the qrunner, and does nothing more if there is one. *)
PeriodicWait ==
  /\ running /\ mn = "queue" /\ qpid /\ child # "none"
  /\ mn' = "loop"
  /\ IF child = "zombie" THEN wait_qrunner ELSE UNCHANGED qrun
  /\ UNCHANGED <<listVars, flags, np, sg, sent, unsaved, running>>

(* runq() and exec_qrunner(), when the period is over. *)
runq ==
  IF qpid THEN UNCHANGED qrun
          ELSE qpid' = TRUE /\ child' = "running"

PeriodicRunq ==
  /\ running /\ mn = "queue" /\ ~(qpid /\ child # "none")
  /\ mn' = "loop"
  /\ runq
  /\ UNCHANGED <<listVars, flags, np, sg, sent, unsaved, running>>

\* The period is not over, or fork() fails.
PeriodicIdle ==
  /\ running /\ mn = "queue" /\ ~(qpid /\ child # "none")
  /\ mn' = "loop"
  /\ UNCHANGED <<listVars, flags, np, sg, sent, unsaved, running, qrun>>

(* main() returns, and exit() calls cleanup(). *)
MainReturns ==
  /\ running /\ mn = "loop" /\ quit
  /\ mn' = "cleanup"
  /\ UNCHANGED <<listVars, flags, np, sg, sent, unsaved, running, qrun>>

(* cleanup() joins the npemwin thread, if it was created, and the process   *)
(* ends.                                                                    *)
Cleanup ==
  /\ running /\ (mn = "cleanup" \/ sg = "exit")
  /\ np \in {"none", "done"}
  /\ running' = FALSE
  /\ UNCHANGED <<listVars, flags, np, mn, sg, sent, unsaved, qrun>>

MainStep ==
  \/ Spawn \/ PeriodicHup \/ PeriodicWait \/ PeriodicRunq \/ PeriodicIdle
  \/ MainReturns \/ Cleanup

(* signal_thread() and signal_handler().  Without f_debug an abort signal   *)
(* makes the signal thread call exit().                                     *)
signal_handler(sig) ==
  /\ running /\ sg = "wait" /\ sent < MaxSignals
  /\ sent' = sent + 1
  /\ hup' = (hup \/ sig = "hup")
  /\ quit' = (quit \/ sig = "term")
  /\ sg' = IF sig = "abort" THEN "exit" ELSE IF quit' THEN "done" ELSE "wait"
  /\ UNCHANGED <<listVars, reload, seen, stale, np, mn, unsaved, running, qrun>>

\* The script ends, by itself or by a signal.
ChildEnds ==
  /\ running /\ child = "running"
  /\ child' = "zombie"
  /\ UNCHANGED <<listVars, flags, threads, qpid>>

-----------------------------------------------------------------------------
(* npemwin_main() initializes the network server. *)
init_npemwin ==
  /\ running /\ np = "init"
  /\ np' = "next"
  /\ \/ UNCHANGED quit
     \/ "init" \in Failures /\ quit' = TRUE
  /\ UNCHANGED <<listVars, hup, reload, seen, stale, mn, sg, sent, unsaved, running, qrun>>

(* npemwin_loop() opens the next server.  Of an empty list element 0, whose *)
(* name and type were never set, is opened: that fails, or ends the process.*)
OpenServer ==
  /\ running /\ np = "next" /\ ~quit
  /\ \E up \in IF max < 0 THEN {FALSE} ELSE BOOLEAN :
       /\ get_next_server(up)
       /\ np' = IF up THEN "loop"
                ELSE IF AllDown(refused + 1) THEN "sleep" ELSE "next"
  /\ stale' = FALSE
  /\ running' \in IF max < 0 THEN BOOLEAN ELSE {TRUE}
  /\ UNCHANGED <<quit, hup, reload, seen, mn, sg, sent, unsaved, qrun>>

\* retrysleep is over, or the daemon quits.
Sleep ==
  /\ running /\ np = "sleep"
  /\ np' = "next"
  /\ UNCHANGED <<listVars, flags, mn, sg, sent, unsaved, running, qrun>>

\* A mutation: the loop goes on until the source fails.
LoopTest_status == TRUE

LoopTest == ~quit

\* A mutation: the flag is cleared before it is read.
ReadFlag_cleared ==
  /\ running /\ np = "loop"
  /\ IF LoopTest THEN np' = "clear" /\ seen' = FALSE /\ reload' = FALSE
                 ELSE np' = "next" /\ UNCHANGED <<seen, reload>>
  /\ UNCHANGED <<listVars, quit, hup, stale, mn, sg, sent, unsaved, running, qrun>>

(* The test of the loop, and the first half of get_reload_servers_list_flag. *)
ReadFlag ==
  /\ running /\ np = "loop"
  /\ IF LoopTest THEN np' = "clear" /\ seen' = reload
                 ELSE np' = "next" /\ UNCHANGED seen
  /\ UNCHANGED <<listVars, quit, hup, reload, stale, mn, sg, sent, unsaved, running, qrun>>

\* Its other half.
ClearFlag ==
  /\ running /\ np = "clear"
  /\ reload' = FALSE
  /\ np' = IF seen THEN "reload" ELSE "packets"
  /\ UNCHANGED <<listVars, quit, hup, seen, stale, mn, sg, sent, unsaved, running, qrun>>

(* reload_servers_list().  The loop keeps its pointer into the old list.    *)
Reload ==
  /\ running /\ np = "reload"
  /\ \E n \in Files \ {-1} : get_server_list(n)
  /\ release_server_list
  /\ stale' = TRUE
  /\ np' = "packets"
  /\ UNCHANGED <<quit, hup, reload, seen, mn, sg, sent, unsaved, running, qrun>>

(* It calls exit() when the file cannot be read; cleanup() cannot join the  *)
(* thread it runs in, goes on, and the process ends.  If another thread is  *)
(* in exit() already, this one may also be left waiting for it.             *)
ReloadFails ==
  /\ running /\ np = "reload" /\ -1 \in Files
  /\ release_server_list
  /\ server' = NoList /\ max' = -1 /\ current' = 0 /\ refused' = 0
  /\ refusals' = <<>>
  /\ np' = "exit"
  /\ running' \in IF mn = "cleanup" \/ sg = "exit" THEN BOOLEAN ELSE {FALSE}
  /\ UNCHANGED <<flags, mn, sg, sent, unsaved, qrun>>

(* process_packets().  Through a pointer to a freed list it reads from the  *)
(* descriptor -1 that release_server_list() left there, and the error is    *)
(* counted against the first server of the new list.                        *)
process_packets ==
  /\ running /\ np = "packets"
  /\ \E ok \in IF stale THEN {FALSE} ELSE BOOLEAN :
       /\ server' = [server EXCEPT ![current] = update_emwin_server_stats(@, ok)]
       /\ \/ np' = (IF ok THEN "loop" ELSE "next") /\ UNCHANGED unsaved
          \/ ok /\ unsaved < MaxUnsaved /\ np' = "next" /\ unsaved' = unsaved + 1
  /\ UNCHANGED <<max, current, refused, nopen, refusals, flags, mn, sg, sent, running, qrun>>

(* npemwin_main() ends: terminate_npemwin(). *)
Terminate ==
  /\ running /\ np = "next" /\ quit
  /\ release_server_list
  /\ server' = NoList
  /\ np' = "done"
  /\ UNCHANGED <<max, current, refused, refusals, flags, mn, sg, sent, unsaved, running, qrun>>

NpStep ==
  \/ init_npemwin \/ OpenServer \/ Sleep \/ ReadFlag \/ ClearFlag \/ Reload
  \/ ReloadFails \/ process_packets \/ Terminate

Next == MainStep \/ NpStep \/ ChildEnds \/ \E sig \in Signals : signal_handler(sig)

Spec == Init /\ [][Next]_vars

(* Each thread is scheduled; reads, opens and sleeps end, all of them by a  *)
(* timeout of their own if not before.  The script ends, and in the long    *)
(* run periodic() finds that the period is over and can fork.               *)
FairSpec ==
  /\ Spec
  /\ WF_vars(MainStep) /\ WF_vars(NpStep) /\ WF_vars(ChildEnds)
  /\ SF_vars(PeriodicRunq)

-----------------------------------------------------------------------------
(* Of the sources at most the current one is open, and the process holds no *)
(* other source descriptor: get_next_server() and release_server_list()     *)
(* close what they leave, whatever failed and however the list was replaced.*)
OneSourceOpen ==
  /\ DaemonTypeOK
  /\ nopen = OpenServers(server)
  /\ \A i \in DOMAIN server : server[i].open => i = current
  /\ np = "done" => nopen = 0

(* The daemon only gives up for retrysleep seconds when every server of the *)
(* list has refused a connection since the last that was accepted, and the  *)
(* one it began with twice (get_next_server, servers.c:140).                *)
SleepsWhenAllRefused ==
  [][np' = "sleep" /\ np # "sleep" /\ max >= 0
       => LET tried == Append(refusals, current')
          IN  {tried[i] : i \in DOMAIN tried} = 0..max /\ tried[1] = current']_vars

(* Once the daemon is to quit the process ends: the npemwin thread sees the *)
(* flag in each of its loops, and cleanup() can join it.  Not if the thread *)
(* calls exit() itself while main is in exit().                             *)
ShutdownCompletes == quit ~> (~running \/ np = "exit")

(* A server that never delivers min_consecutive_packets in a row is left    *)
(* for the next one (switch_server), whether it refuses connections, drops  *)
(* them, or was put into the list by a reload.                              *)
PoorServerIsLeft ==
  \A i \in 0..(MaxServers - 1) :
    (np = "next" /\ current = i /\ max > 0)
      ~> \/ current # i \/ max <= 0 \/ quit \/ ~running
         \/ server[i].consec >= MinConsecutive

(* A script that has ended is waited for and another one is started.        *)
QRunnerRunsAgain == child = "zombie" ~> (child = "running" \/ quit \/ ~running)

(* A reload that periodic() asked for is carried out, or fails, if time and *)
(* again a source is connected: a packet or a failure of the source between *)
(* the request and the test loses nothing.  While no source can be opened   *)
(* the flag is not looked at, and a request made between the two halves of  *)
(* get_reload_servers_list_flag() is cleared by the second.                 *)
ReloadIsServed ==
  []<>(np = "loop")
    => (reload /\ np # "clear" ~> np = "reload" \/ quit \/ ~running)
=============================================================================
