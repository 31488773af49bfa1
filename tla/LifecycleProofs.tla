-------------------------- MODULE LifecycleProofs --------------------------
(***************************************************************************)
(* For any number of processes: at most one daemon, and a pid file that    *)
(* names it.  LifecycleInv is inductive; the lemmas take the steps of      *)
(* main(), of cleanup() and of everything else.                            *)
(***************************************************************************)
EXTENDS Lifecycle, TLAPS

LEMMA InitInv == Init => LifecycleInv
BY LifecycleAssumption
DEF Init, LifecycleInv, LifecycleTypeOK, LockPlaces, LockFile, ThreadPlaces, HelperPlaces,
    Keeps, At, Serving, Ending, Starting, Helpers

(* A step of main() that fails leaves everything to cleanup().              *)
LEMMA FailStep ==
  ASSUME NEW p \in Procs, LifecycleInv, pc[p] \in Starting \ {"write"}, Fail(p),
         UNCHANGED <<forked, aborted, f_lock, thread, pidfile, port, fps, helpers, scripts>>
  PROVE  LifecycleInv'
BY DEF LifecycleInv, LifecycleTypeOK, LockPlaces, LockFile, ThreadPlaces, HelperPlaces,
       Keeps, Serving, Ending, Starting, At, Go, Fail, Pid

(* The steps that change a Boolean or the pid file keep the types.          *)
LEMMA TypeStep ==
  ASSUME NEW p \in Procs, LifecycleTypeOK,
         init_daemon(p) \/ create_pidfile(p) \/ init_npemwin(p) \/ signal_handler(p) \/ Abort(p)
  PROVE  LifecycleTypeOK'
<1> USE DEF LifecycleTypeOK, Go, Fail, Starting, Ending
<1>1. CASE init_daemon(p)
  BY <1>1 DEF init_daemon
<1>2. CASE create_pidfile(p)
  <2>1. Pid(p) \in Procs \X BOOLEAN
    BY DEF Pid
  <2> QED
    BY <1>2, <2>1 DEF create_pidfile
<1>3. CASE init_npemwin(p)
  BY <1>3 DEF init_npemwin
<1>4. CASE signal_handler(p)
  BY <1>4 DEF signal_handler
<1>5. CASE Abort(p)
  BY <1>5 DEF Abort
<1> QED
  BY <1>1, <1>2, <1>3, <1>4, <1>5

(* main(), as far as its loop: a process that has not made the pid file has *)
(* nothing, and one that makes it is the only one.                          *)
LEMMA MainStep ==
  ASSUME NEW p \in Procs, LifecycleInv,
         \/ main(p) \/ configure(p) \/ drop_privs(p) \/ init_server_list(p)
         \/ init_directories(p) \/ exec_startscript(p) \/ init_daemon(p)
         \/ init_signals_thread(p) \/ init_lock(p) \/ create_pidfile(p)
         \/ init_emwin_qfiles(p) \/ spawn(p, "bbreg", "httpd")
         \/ spawn(p, "httpd", "npemwin") \/ spawn_npemwin(p) \/ Returns(p)
  PROVE  LifecycleInv'
<1>f. CASE Fail(p) /\ ~create_pidfile(p) /\ ~Returns(p)
  BY <1>f, FailStep
  DEF main, configure, drop_privs, init_server_list, init_directories, exec_startscript,
      init_daemon, init_signals_thread, init_lock, init_emwin_qfiles, Passes, spawn,
      spawn_npemwin, Starting, At, Go, Fail, LifecycleInv, LifecycleTypeOK
<1> USE LifecycleAssumption
    DEF LifecycleInv, LifecycleTypeOK, LockPlaces, LockFile, ThreadPlaces, HelperPlaces,
        Keeps, Serving, Ending, Starting, At, Go, Pid
<1>1. CASE main(p) /\ ~Fail(p)
  BY <1>1 DEF main
<1>2. CASE configure(p) /\ ~Fail(p)
  BY <1>2 DEF configure
<1>3. CASE /\ drop_privs(p) \/ init_server_list(p) \/ init_directories(p) \/ exec_startscript(p)
           /\ ~Fail(p)
  BY <1>3 DEF drop_privs, init_server_list, init_directories, exec_startscript, Passes
<1>4. CASE init_daemon(p) /\ ~Fail(p)
  <2>1. LifecycleTypeOK'
    BY <1>4, TypeStep
  <2>2. LockPlaces'
    BY <1>4 DEF init_daemon
  <2>3. LockFile'
    BY <1>4 DEF init_daemon
  <2>4. ThreadPlaces'
    BY <1>4 DEF init_daemon
  <2>5. HelperPlaces'
    BY <1>4 DEF init_daemon
  <2> QED
    BY <2>1, <2>2, <2>3, <2>4, <2>5
<1>5. CASE init_signals_thread(p) /\ ~Fail(p)
  BY <1>5 DEF init_signals_thread, Passes
<1>6. CASE init_lock(p) /\ ~Fail(p)
  BY <1>6 DEF init_lock
<1>7. CASE create_pidfile(p) /\ ~Fail(p)
  <2>1. LifecycleTypeOK'
    BY <1>7, TypeStep
  <2>2. LockPlaces'
    BY <1>7 DEF create_pidfile
  <2>3. LockFile'
    BY <1>7 DEF create_pidfile
  <2>4. ThreadPlaces'
    BY <1>7 DEF create_pidfile
  <2>5. HelperPlaces'
    BY <1>7 DEF create_pidfile
  <2> QED
    BY <2>1, <2>2, <2>3, <2>4, <2>5
<1>8. CASE init_emwin_qfiles(p) /\ ~Fail(p)
  BY <1>8 DEF init_emwin_qfiles, Passes
<1>9. CASE spawn(p, "bbreg", "httpd") /\ ~Fail(p)
  BY <1>9 DEF spawn, Helpers
<1>10. CASE spawn(p, "httpd", "npemwin") /\ ~Fail(p)
  BY <1>10 DEF spawn, Helpers
<1>11. CASE spawn_npemwin(p) /\ ~Fail(p)
  BY <1>11 DEF spawn_npemwin
<1>12. CASE Returns(p)
  BY <1>12 DEF Returns
<1>13. CASE create_pidfile(p) /\ Fail(p)
  BY <1>13 DEF create_pidfile, Fail
<1> HIDE DEF LifecycleInv
<1> QED
  BY <1>f, <1>1, <1>2, <1>3, <1>4, <1>5, <1>6, <1>7, <1>8, <1>9, <1>10, <1>11, <1>12, <1>13

(* cleanup(): the file is removed when there is nothing left, and only by   *)
(* the process that made it.                                                *)
LEMMA CleanupStep ==
  ASSUME NEW p \in Procs, LifecycleInv,
         \/ kill_npemwin_thread(p)
         \/ close(p, "httpd", "close_httpd", "wait_httpd", "close_bbreg")
         \/ waited(p, "httpd", "wait_httpd", "close_bbreg")
         \/ close(p, "bbreg", "close_bbreg", "wait_bbreg", "unlock")
         \/ waited(p, "bbreg", "wait_bbreg", "unlock")
         \/ remove_pidfile(p) \/ exec_stopscript(p)
  PROVE  LifecycleInv'
<1> USE LifecycleAssumption
    DEF LifecycleInv, LifecycleTypeOK, LockPlaces, LockFile, ThreadPlaces, HelperPlaces,
        Keeps, Serving, Ending, Starting, Helpers, At, Go, Pid
<1>1. CASE kill_npemwin_thread(p)
  BY <1>1 DEF kill_npemwin_thread
<1>2. CASE close(p, "httpd", "close_httpd", "wait_httpd", "close_bbreg")
  <2>1. LifecycleTypeOK'
    BY <1>2 DEF close
  <2>2. LockPlaces'
    BY <1>2 DEF close
  <2>3. LockFile'
    BY <1>2 DEF close
  <2>4. ThreadPlaces'
    BY <1>2 DEF close
  <2>5. HelperPlaces'
    BY <1>2 DEF close
  <2> QED
    BY <2>1, <2>2, <2>3, <2>4, <2>5
<1>3. CASE waited(p, "httpd", "wait_httpd", "close_bbreg")
  <2>1. LifecycleTypeOK'
    BY <1>3 DEF waited
  <2>2. LockPlaces'
    BY <1>3 DEF waited
  <2>3. LockFile'
    BY <1>3 DEF waited
  <2>4. ThreadPlaces'
    BY <1>3 DEF waited
  <2>5. HelperPlaces'
    BY <1>3 DEF waited
  <2> QED
    BY <2>1, <2>2, <2>3, <2>4, <2>5
<1>4. CASE close(p, "bbreg", "close_bbreg", "wait_bbreg", "unlock")
  <2>1. LifecycleTypeOK'
    BY <1>4 DEF close
  <2>2. LockPlaces'
    BY <1>4 DEF close
  <2>3. LockFile'
    BY <1>4 DEF close
  <2>4. ThreadPlaces'
    BY <1>4 DEF close
  <2>5. HelperPlaces'
    BY <1>4 DEF close
  <2> QED
    BY <2>1, <2>2, <2>3, <2>4, <2>5
<1>5. CASE waited(p, "bbreg", "wait_bbreg", "unlock")
  <2>1. LifecycleTypeOK'
    BY <1>5 DEF waited
  <2>2. LockPlaces'
    BY <1>5 DEF waited
  <2>3. LockFile'
    BY <1>5 DEF waited
  <2>4. ThreadPlaces'
    BY <1>5 DEF waited
  <2>5. HelperPlaces'
    BY <1>5 DEF waited
  <2> QED
    BY <2>1, <2>2, <2>3, <2>4, <2>5
<1>6. CASE remove_pidfile(p)
  BY <1>6 DEF remove_pidfile
<1>7. CASE exec_stopscript(p)
  BY <1>7 DEF exec_stopscript, Exit
<1> HIDE DEF LifecycleInv
<1> QED
  BY <1>1, <1>2, <1>3, <1>4, <1>5, <1>6, <1>7

(* The npemwin thread, signals, helpers and scripts, and what comes from    *)
(* outside.                                                                 *)
LEMMA OtherStep ==
  ASSUME LifecycleInv,
         \/ RemoveStale
         \/ \E p \in Procs :
              \/ periodic(p) \/ NpemwinThread(p) \/ reload_servers_list(p)
              \/ signal_handler(p) \/ Abort(p)
              \/ ScriptEnds(p) \/ Kill(p) \/ \E h \in Helpers : HelperEnds(p, h)
  PROVE  LifecycleInv'
<1> USE LifecycleAssumption
    DEF LifecycleInv, LifecycleTypeOK, LockPlaces, LockFile, ThreadPlaces, HelperPlaces,
        Keeps, Serving, Ending, Starting, Helpers, At, Go, Pid
<1>1. CASE RemoveStale
  BY <1>1 DEF RemoveStale
<1>2. ASSUME NEW p \in Procs, periodic(p) \/ ScriptEnds(p) PROVE LifecycleInv'
  BY <1>2 DEF periodic, ScriptEnds
<1>3. ASSUME NEW p \in Procs, init_npemwin(p) PROVE LifecycleInv'
  <2>1. LifecycleTypeOK'
    BY <1>3, TypeStep
  <2>2. LockPlaces'
    BY <1>3 DEF init_npemwin
  <2>3. LockFile'
    BY <1>3 DEF init_npemwin
  <2>4. ThreadPlaces'
    BY <1>3 DEF init_npemwin
  <2>5. HelperPlaces'
    BY <1>3 DEF init_npemwin
  <2> QED
    BY <2>1, <2>2, <2>3, <2>4, <2>5
<1>4. ASSUME NEW p \in Procs, npemwin_main(p) \/ terminate_npemwin(p) PROVE LifecycleInv'
  <2>1. LifecycleTypeOK'
    BY <1>4 DEF npemwin_main, terminate_npemwin
  <2>2. LockPlaces'
    BY <1>4 DEF npemwin_main, terminate_npemwin
  <2>3. LockFile'
    BY <1>4 DEF npemwin_main, terminate_npemwin
  <2>4. ThreadPlaces'
    BY <1>4 DEF npemwin_main, terminate_npemwin
  <2>5. HelperPlaces'
    BY <1>4 DEF npemwin_main, terminate_npemwin
  <2> QED
    BY <2>1, <2>2, <2>3, <2>4, <2>5
<1>5. ASSUME NEW p \in Procs, signal_handler(p) \/ Abort(p) PROVE LifecycleInv'
  <2>1. LifecycleTypeOK'
    BY <1>5, TypeStep
  <2>2. LockPlaces'
    BY <1>5 DEF signal_handler, Abort
  <2>3. LockFile'
    BY <1>5 DEF signal_handler, Abort
  <2>4. ThreadPlaces'
    BY <1>5 DEF signal_handler, Abort
  <2>5. HelperPlaces'
    BY <1>5 DEF signal_handler, Abort
  <2> QED
    BY <2>1, <2>2, <2>3, <2>4, <2>5
<1>6. ASSUME NEW p \in Procs, Kill(p) PROVE LifecycleInv'
  <2>1. LifecycleTypeOK'
    BY <1>6 DEF Kill, Exit, Alive
  <2>2. LockPlaces'
    BY <1>6 DEF Kill, Exit, Alive
  <2>3. LockFile'
    BY <1>6 DEF Kill, Exit, Alive
  <2>4. ThreadPlaces'
    BY <1>6 DEF Kill, Exit, Alive
  <2>5. HelperPlaces'
    BY <1>6 DEF Kill, Exit, Alive
  <2> QED
    BY <2>1, <2>2, <2>3, <2>4, <2>5
<1>7. ASSUME NEW p \in Procs, NEW h \in Helpers, HelperEnds(p, h) PROVE LifecycleInv'
  BY <1>7 DEF HelperEnds
<1>8. ASSUME NEW p \in Procs, reload_servers_list(p) PROVE LifecycleInv'
  <2>1. LifecycleTypeOK'
    BY <1>8 DEF reload_servers_list
  <2>2. LockPlaces'
    BY <1>8 DEF reload_servers_list
  <2>3. LockFile'
    BY <1>8 DEF reload_servers_list
  <2>4. ThreadPlaces'
    BY <1>8 DEF reload_servers_list
  <2>5. HelperPlaces'
    BY <1>8 DEF reload_servers_list
  <2> QED
    BY <2>1, <2>2, <2>3, <2>4, <2>5
<1> HIDE DEF LifecycleInv
<1> QED
  BY <1>1, <1>2, <1>3, <1>4, <1>5, <1>6, <1>7, <1>8 DEF NpemwinThread

LEMMA NextInv == LifecycleInv /\ [Next]_vars => LifecycleInv'
<1> SUFFICES ASSUME LifecycleInv, [Next]_vars PROVE LifecycleInv'
  OBVIOUS
<1>1. CASE UNCHANGED vars
  BY <1>1 DEF vars, LifecycleInv, LifecycleTypeOK, LockPlaces, LockFile, ThreadPlaces,
              HelperPlaces, Keeps, At, Pid
<1>2. CASE Next
  <2>1. ASSUME NEW p \in Procs, main(p) \/ MainThread(p) PROVE LifecycleInv'
    BY <2>1, MainStep, CleanupStep DEF MainThread
  <2> QED
    BY <1>2, <2>1, OtherStep DEF Next
<1> QED
  BY <1>1, <1>2

(* What every process has, at every place of main() and cleanup(): the pid  *)
(* file from create_pidfile() to remove_pidfile(), the helpers only inside  *)
(* that stretch, and the npemwin thread as well, unless it is the thread    *)
(* that called exit() and runs cleanup().                                   *)
THEOREM Invariance == Spec => []LifecycleInv
  BY InitInv, NextInv, PTL DEF Spec

(* Only one npemwind is a daemon at a time, and it keeps its pid file until *)
(* its helpers are gone, and its thread and its port too but for the stop   *)
(* script after an exit() of the thread (init_lock(), cleanup()).           *)
THEOREM OneDaemonHolds == Spec => []OneDaemon
<1>1. LifecycleInv => OneDaemon
  BY LifecycleAssumption
  DEF LifecycleInv, LifecycleTypeOK, OneDaemon, LockFile, ThreadPlaces, HelperPlaces, Listens, Leaves,
      HasHelper, Helpers, Keeps, At, Pid
<1> QED
  BY Invariance, <1>1, PTL

(* The pid file of a daemon has its pid, or nothing when it could not be    *)
(* written (create_pidfile() after daemon()).                               *)
THEOREM PidFileHolds == Spec => []PidFileNamesDaemon
<1>1. LifecycleInv => PidFileNamesDaemon
  BY DEF LifecycleInv, LockFile, PidFileNamesDaemon
<1> QED
  BY Invariance, <1>1, PTL
=============================================================================
