----------------------------- MODULE Lifecycle -----------------------------
(***************************************************************************)
(* npemwind from its start to its end (main.c, init.c, pid.c, signal.c),   *)
(* several of them on a machine: the pid file that keeps a second one out, *)
(* the helpers at the end of a pipe (httpd.c, bbreg.c), the npemwin thread *)
(* and the port it listens on (npemwin.c, serverm.c), the scripts forked   *)
(* by the main loop (exec.c, npemwin.c), cleanup() after every exit, also  *)
(* after one the npemwin thread makes itself, and processes that are       *)
(* killed.                                                                 *)
(*                                                                         *)
(* What the daemon does while it runs is in Daemon and NetServer.          *)
(***************************************************************************)
EXTENDS FiniteSets

CONSTANTS
  Procs,      \* processes that run npemwind
  None,
  Empty       \* a pid file with nothing in it

ASSUME LifecycleAssumption ==
  /\ None \notin Procs /\ None # Empty
  /\ {None, Empty} \cap (Procs \X BOOLEAN) = {}

Helpers == {"bbreg", "httpd"}

VARIABLES
  pc,         \* where the main thread of each process is, or the thread that runs
              \* cleanup() for it
  forked,     \* daemon() has left this process to a child, with a new pid
  quit,       \* f_quit
  aborted,    \* the signal thread is in exit(), for SIGABRT
  f_lock,     \* g.f_lock
  thread,     \* the npemwin thread; "exit": it has called exit()
  pidfile,    \* None, Empty, or the pid in the file
  port,       \* the process that listens
  fps,        \* <<p, h>>: p has the pipe to its helper h open
  helpers,    \* <<p, h>>: p's helper h is running
  scripts     \* <<p, h>>: a script that p forked has the pipe to h open

vars == <<pc, forked, quit, aborted, f_lock, thread, pidfile, port, fps, helpers, scripts>>

\* The pid of p, which changes when it becomes a daemon.
Pid(p) == <<p, forked[p]>>

Starting == {"conf", "privs", "servers", "dirs", "start", "daemon", "signals", "lock", "write", "qfiles", "bbreg",
             "httpd", "npemwin"}
Ending == {"join", "close_httpd", "wait_httpd", "close_bbreg", "wait_bbreg", "unlock", "stop"}
Alive(p) == pc[p] \in Starting \cup Ending \cup {"loop"}

LifecycleTypeOK ==
  /\ pc \in [Procs -> Starting \cup Ending \cup {"off", "loop", "gone", "killed"}]
  /\ forked \in [Procs -> BOOLEAN] /\ quit \in [Procs -> BOOLEAN]
  /\ aborted \in [Procs -> BOOLEAN] /\ f_lock \in [Procs -> BOOLEAN]
  /\ thread \in [Procs -> {"none", "init", "run", "term", "ended", "exit"}]
  /\ pidfile \in {None, Empty} \cup (Procs \X BOOLEAN)
  /\ port \in Procs \cup {None}
  /\ fps \subseteq Procs \X Helpers /\ helpers \subseteq Procs \X Helpers
  /\ scripts \subseteq Procs \X Helpers

Init ==
  /\ pc = [p \in Procs |-> "off"]
  /\ forked = [p \in Procs |-> FALSE] /\ quit = [p \in Procs |-> FALSE]
  /\ aborted = [p \in Procs |-> FALSE] /\ f_lock = [p \in Procs |-> FALSE]
  /\ thread = [p \in Procs |-> "none"]
  /\ pidfile = None /\ port = None /\ fps = {} /\ helpers = {} /\ scripts = {}

-----------------------------------------------------------------------------
(* main().  A step that fails sets the quit flag; main() returns, or exit() *)
(* is called, and cleanup() runs.                                           *)
At(p, s) == pc[p] = s
Go(p, s) == pc' = [pc EXCEPT ![p] = s]
Fail(p) == Go(p, "join") /\ quit' = [quit EXCEPT ![p] = TRUE]

main(p) ==
  /\ At(p, "off") /\ Go(p, "conf")
  /\ UNCHANGED <<forked, quit, aborted, f_lock, thread, pidfile, port, fps, helpers, scripts>>

\* A step that has no effect here but to succeed or to fail.
Passes(p, here, next) ==
  /\ At(p, here)
  /\ (Go(p, next) /\ UNCHANGED quit) \/ Fail(p)
  /\ UNCHANGED <<forked, aborted, f_lock, thread, pidfile, port, fps, helpers, scripts>>

(* init_signals_block(), configure(), the arguments.  With -C the           *)
(* configuration is printed and main() returns.                             *)
configure(p) ==
  /\ At(p, "conf")
  /\ ((Go(p, "privs") \/ Go(p, "join")) /\ UNCHANGED quit) \/ Fail(p)
  /\ UNCHANGED <<forked, aborted, f_lock, thread, pidfile, port, fps, helpers, scripts>>

drop_privs(p) == Passes(p, "privs", "servers")
init_server_list(p) == Passes(p, "servers", "dirs")
init_directories(p) == Passes(p, "dirs", "start")
exec_startscript(p) == Passes(p, "start", "daemon")

(* init_daemon(): the child of daemon() goes on, and its parent ends with   *)
(* _exit(); with -F or -D there is no child.                                *)
init_daemon(p) ==
  /\ At(p, "daemon")
  /\ \/ Go(p, "signals") /\ UNCHANGED quit /\ forked' \in {forked, [forked EXCEPT ![p] = TRUE]}
     \/ Fail(p) /\ UNCHANGED forked
  /\ UNCHANGED <<aborted, f_lock, thread, pidfile, port, fps, helpers, scripts>>

init_signals_thread(p) == Passes(p, "signals", "lock")

\* Mutant: the file is made without O_EXCL.
init_lock_shared(p) ==
  /\ At(p, "lock")
  /\ Go(p, "write") /\ UNCHANGED quit /\ pidfile' = Empty
  /\ UNCHANGED <<forked, aborted, f_lock, thread, port, fps, helpers, scripts>>

\* init_lock(), as far as the open() of create_pidfile().
init_lock(p) ==
  /\ At(p, "lock")
  /\ \/ pidfile = None /\ Go(p, "write") /\ UNCHANGED quit /\ pidfile' = Empty
     \/ Fail(p) /\ UNCHANGED pidfile
  /\ UNCHANGED <<forked, aborted, f_lock, thread, port, fps, helpers, scripts>>

\* Mutant: the pid is that of the process that was started.
create_pidfile_parent(p) ==
  /\ At(p, "write")
  /\ Go(p, "qfiles") /\ UNCHANGED quit
  /\ f_lock' = [f_lock EXCEPT ![p] = TRUE] /\ pidfile' = <<p, FALSE>>
  /\ UNCHANGED <<forked, aborted, thread, port, fps, helpers, scripts>>

(* The rest of create_pidfile(): the pid is written, or lost by fclose()    *)
(* when the disk is full; fprintf() fails, and the file is removed; fopen() *)
(* fails, and it stays.                                                     *)
create_pidfile(p) ==
  /\ At(p, "write")
  /\ \/ /\ Go(p, "qfiles") /\ UNCHANGED quit
        /\ f_lock' = [f_lock EXCEPT ![p] = TRUE] /\ pidfile' \in {Pid(p), Empty}
     \/ Fail(p) /\ UNCHANGED f_lock /\ pidfile' \in {None, Empty}
  /\ UNCHANGED <<forked, aborted, thread, port, fps, helpers, scripts>>

init_emwin_qfiles(p) == Passes(p, "qfiles", "bbreg")

(* spawn_bbregistrar(), spawn_httpd_server(): popen(), if it is enabled.    *)
spawn(p, h, next) ==
  /\ At(p, h)
  /\ \/ /\ Go(p, next) /\ UNCHANGED quit
        /\ fps' = fps \cup {<<p, h>>} /\ helpers' = helpers \cup {<<p, h>>}
     \/ Go(p, next) /\ UNCHANGED <<quit, fps, helpers>>
     \/ Fail(p) /\ UNCHANGED <<fps, helpers>>
  /\ UNCHANGED <<forked, aborted, f_lock, thread, pidfile, port, scripts>>

spawn_npemwin(p) ==
  /\ At(p, "npemwin")
  /\ \/ Go(p, "loop") /\ UNCHANGED quit /\ thread' = [thread EXCEPT ![p] = "init"]
     \/ Fail(p) /\ UNCHANGED thread
  /\ UNCHANGED <<forked, aborted, f_lock, pidfile, port, fps, helpers, scripts>>

(* periodic() forks qrunner or the scheduler, which inherit the pipes.  It  *)
(* may run once more when the flag is set, and goes on while the npemwin    *)
(* thread is in cleanup().                                                  *)
periodic(p) ==
  /\ At(p, "loop") \/ (thread[p] = "exit" /\ ~At(p, "join"))
  /\ scripts' = scripts \cup {x \in fps : x[1] = p}
  /\ UNCHANGED <<pc, forked, quit, aborted, f_lock, thread, pidfile, port, fps, helpers>>

Returns(p) ==
  /\ At(p, "loop") /\ quit[p] /\ Go(p, "join")
  /\ UNCHANGED <<forked, quit, aborted, f_lock, thread, pidfile, port, fps, helpers, scripts>>

-----------------------------------------------------------------------------
(* cleanup()                                                                *)
\* Mutant: the threads are told to quit and not waited for.
kill_npemwin_thread_nojoin(p) ==
  /\ At(p, "join") /\ Go(p, "close_httpd")
  /\ UNCHANGED <<forked, quit, aborted, f_lock, thread, pidfile, port, fps, helpers, scripts>>

kill_npemwin_thread(p) ==
  /\ At(p, "join") /\ thread[p] \in {"none", "ended"} /\ Go(p, "close_httpd")
  /\ UNCHANGED <<forked, quit, aborted, f_lock, thread, pidfile, port, fps, helpers, scripts>>

\* Mutant: the helper is waited for with the pipe to it open.
close_open(p, h, here, wait, next) ==
  /\ At(p, here)
  /\ Go(p, IF <<p, h>> \in fps THEN wait ELSE next)
  /\ UNCHANGED <<forked, quit, aborted, f_lock, thread, pidfile, port, fps, helpers, scripts>>

(* kill_httpd_server(), kill_bbregistrar(): pclose() closes the pipe and    *)
(* waits for the helper.                                                    *)
close(p, h, here, wait, next) ==
  /\ At(p, here)
  /\ Go(p, IF <<p, h>> \in fps THEN wait ELSE next)
  /\ fps' = fps \ {<<p, h>>}
  /\ UNCHANGED <<forked, quit, aborted, f_lock, thread, pidfile, port, helpers, scripts>>

waited(p, h, here, next) ==
  /\ At(p, here) /\ <<p, h>> \notin helpers /\ Go(p, next)
  /\ UNCHANGED <<forked, quit, aborted, f_lock, thread, pidfile, port, fps, helpers, scripts>>

(* remove_pidfile(), of the file with our pid; that it cannot be removed is *)
(* only logged.                                                             *)
remove_pidfile(p) ==
  /\ At(p, "unlock") /\ Go(p, "stop")
  /\ \/ f_lock[p] /\ pidfile = Pid(p) /\ pidfile' = None
     \/ UNCHANGED pidfile
  /\ f_lock' = [f_lock EXCEPT ![p] = FALSE]
  /\ UNCHANGED <<forked, quit, aborted, thread, port, fps, helpers, scripts>>

\* The process ends, its variables with it, and the port is closed.
Exit(p, how) ==
  /\ Go(p, how)
  /\ forked' = [forked EXCEPT ![p] = FALSE] /\ quit' = [quit EXCEPT ![p] = FALSE]
  /\ aborted' = [aborted EXCEPT ![p] = FALSE] /\ f_lock' = [f_lock EXCEPT ![p] = FALSE]
  /\ thread' = [thread EXCEPT ![p] = "none"]
  /\ port' = IF port = p THEN None ELSE port

exec_stopscript(p) ==
  /\ At(p, "stop") /\ Exit(p, "gone")
  /\ UNCHANGED <<pidfile, fps, helpers, scripts>>

-----------------------------------------------------------------------------
(* The npemwin thread.                                                      *)
init_npemwin(p) ==
  /\ thread[p] = "init"
  /\ \/ port = None /\ port' = p /\ thread' = [thread EXCEPT ![p] = "run"] /\ UNCHANGED quit
     \/ /\ thread' = [thread EXCEPT ![p] = "term"] /\ quit' = [quit EXCEPT ![p] = TRUE]
        /\ UNCHANGED port
  /\ UNCHANGED <<pc, forked, aborted, f_lock, pidfile, fps, helpers, scripts>>

npemwin_main(p) ==
  /\ thread[p] = "run" /\ quit[p]
  /\ thread' = [thread EXCEPT ![p] = "term"]
  /\ UNCHANGED <<pc, forked, quit, aborted, f_lock, pidfile, port, fps, helpers, scripts>>

terminate_npemwin(p) ==
  /\ thread[p] = "term"
  /\ thread' = [thread EXCEPT ![p] = "ended"] /\ port' = IF port = p THEN None ELSE port
  /\ UNCHANGED <<pc, forked, quit, aborted, f_lock, pidfile, fps, helpers, scripts>>

(* When the list of servers cannot be read again, the thread calls exit()   *)
(* itself.  cleanup() runs in the thread; it cannot join itself, which is   *)
(* ignored, and terminate_npemwin() does not run.  While another thread is  *)
(* in exit() a second exit() is undefined: it waits for ever, or ends the   *)
(* process at once, as Kill does.                                           *)
reload_servers_list(p) ==
  /\ thread[p] = "run"
  /\ thread' = [thread EXCEPT ![p] = "exit"]
  /\ IF At(p, "loop") /\ ~aborted[p] THEN Go(p, "close_httpd") ELSE UNCHANGED pc
  /\ UNCHANGED <<forked, quit, aborted, f_lock, pidfile, port, fps, helpers, scripts>>

(* The signal thread takes a signal, once there is such a thread: SIGTERM,  *)
(* SIGINT or SIGQUIT; or SIGABRT, for which it calls exit() itself, without *)
(* a quit flag, and waits for the npemwin thread in cleanup().              *)
signal_handler(p) ==
  /\ \/ pc[p] \in Starting \ {"conf", "privs", "servers", "dirs", "start", "daemon", "signals"}
     \/ At(p, "loop") \/ thread[p] = "exit"
  /\ ~quit[p] /\ ~aborted[p]
  /\ quit' = [quit EXCEPT ![p] = TRUE]
  /\ UNCHANGED <<pc, forked, aborted, f_lock, thread, pidfile, port, fps, helpers, scripts>>

Abort(p) ==
  /\ At(p, "loop") /\ thread[p] = "run" /\ ~quit[p] /\ ~aborted[p]
  /\ aborted' = [aborted EXCEPT ![p] = TRUE]
  /\ UNCHANGED <<pc, forked, quit, f_lock, thread, pidfile, port, fps, helpers, scripts>>

-----------------------------------------------------------------------------
\* Mutant: the helper ends when it is told to, and not at the end of its input.
HelperEnds_told(p, h) ==
  /\ <<p, h>> \in helpers /\ pc[p] \in {"wait_httpd", "wait_bbreg"}
  /\ helpers' = helpers \ {<<p, h>>}
  /\ UNCHANGED <<pc, forked, quit, aborted, f_lock, thread, pidfile, port, fps, scripts>>

(* A helper ends when it reads the end of its pipe: neither the daemon nor  *)
(* a script has the other end.                                              *)
HelperEnds(p, h) ==
  /\ <<p, h>> \in helpers /\ <<p, h>> \notin fps \cup scripts
  /\ helpers' = helpers \ {<<p, h>>}
  /\ UNCHANGED <<pc, forked, quit, aborted, f_lock, thread, pidfile, port, fps, scripts>>

\* The scripts of p have ended.
ScriptEnds(p) ==
  /\ \E x \in scripts : x[1] = p
  /\ scripts' = {x \in scripts : x[1] # p}
  /\ UNCHANGED <<pc, forked, quit, aborted, f_lock, thread, pidfile, port, fps, helpers>>

(* The process ends before cleanup() has: it is killed, or a second thread  *)
(* calls exit().  The kernel closes what it had open.                       *)
Kill(p) ==
  /\ Alive(p) /\ Exit(p, "killed")
  /\ fps' = {x \in fps : x[1] # p}
  /\ UNCHANGED <<pidfile, helpers, scripts>>

(* The operator removes a pid file that no process keeps.                   *)
Keeps(p) == f_lock[p] \/ At(p, "write")
RemoveStale ==
  /\ pidfile # None /\ \A p \in Procs : ~Keeps(p)
  /\ pidfile' = None
  /\ UNCHANGED <<pc, forked, quit, aborted, f_lock, thread, port, fps, helpers, scripts>>

MainThread(p) ==
  \/ configure(p) \/ drop_privs(p) \/ init_server_list(p) \/ init_directories(p)
  \/ exec_startscript(p) \/ init_daemon(p) \/ init_signals_thread(p)
  \/ init_lock(p) \/ create_pidfile(p) \/ init_emwin_qfiles(p)
  \/ spawn(p, "bbreg", "httpd") \/ spawn(p, "httpd", "npemwin") \/ spawn_npemwin(p)
  \/ Returns(p) \/ kill_npemwin_thread(p)
  \/ close(p, "httpd", "close_httpd", "wait_httpd", "close_bbreg")
  \/ waited(p, "httpd", "wait_httpd", "close_bbreg")
  \/ close(p, "bbreg", "close_bbreg", "wait_bbreg", "unlock")
  \/ waited(p, "bbreg", "wait_bbreg", "unlock")
  \/ remove_pidfile(p) \/ exec_stopscript(p)

NpemwinThread(p) == init_npemwin(p) \/ npemwin_main(p) \/ terminate_npemwin(p)

Next ==
  \/ \E p \in Procs :
       \/ main(p) \/ MainThread(p) \/ periodic(p) \/ NpemwinThread(p) \/ reload_servers_list(p)
       \/ signal_handler(p) \/ Abort(p) \/ ScriptEnds(p) \/ Kill(p)
       \/ \E h \in Helpers : HelperEnds(p, h)
  \/ RemoveStale

Spec == Init /\ [][Next]_vars

(* Threads run on, scripts end, and a helper ends at the end of its input.  *)
FairSpec ==
  /\ Spec
  /\ \A p \in Procs :
       /\ WF_vars(MainThread(p)) /\ WF_vars(NpemwinThread(p)) /\ WF_vars(ScriptEnds(p))
       /\ \A h \in Helpers : WF_vars(HelperEnds(p, h))

-----------------------------------------------------------------------------
Listens(p) == port = p \/ thread[p] \in {"init", "run", "term", "exit"}
HasHelper(p) == \E h \in Helpers : <<p, h>> \in helpers

\* A process whose thread called exit() runs its stop script, with no pid file.
Leaves(p) == thread[p] = "exit" /\ At(p, "stop")

(* At most one process has the pid file, and whatever a daemon has, it has  *)
(* only while the file is its own: its thread, the port, its helpers.  The  *)
(* one exception is the port, and the thread, of a daemon whose npemwin     *)
(* thread called exit(): cleanup() cannot join that thread and removes the  *)
(* file before the port is closed, by the end of the process.               *)
OneDaemon ==
  /\ \A p, q \in Procs : Keeps(p) /\ Keeps(q) => p = q
  /\ \A p \in Procs :
       (Listens(p) /\ ~Leaves(p)) \/ (pc[p] # "killed" /\ HasHelper(p))
         => f_lock[p] /\ pidfile # None

(* While it runs, the pid file has the pid of the process that runs, and    *)
(* not of the one that was started, or has nothing (the disk was full).     *)
PidFileNamesDaemon ==
  \A p \in Procs : f_lock[p] => pidfile \in {Pid(p), Empty}

-----------------------------------------------------------------------------
Serving == {"qfiles", "bbreg", "httpd", "npemwin", "loop"}

\* A process has f_lock from the end of create_pidfile() to remove_pidfile().
LockPlaces ==
  \A p \in Procs :
    /\ f_lock[p] => pc[p] \in Serving \cup (Ending \ {"stop"})
    /\ pc[p] \in Serving => f_lock[p]

\* The process that has it has the file, and it is the only one.
LockFile ==
  /\ \A p, q \in Procs : Keeps(p) /\ Keeps(q) => p = q
  /\ \A p \in Procs : (f_lock[p] => pidfile \in {Pid(p), Empty})
                   /\ (At(p, "write") => pidfile = Empty)

(* The thread ends before cleanup() goes on, or it is in exit() itself:     *)
(* then it runs cleanup(), or another thread is in exit() and will wait for *)
(* ever to join it.                                                         *)
ThreadPlaces ==
  \A p \in Procs :
    /\ thread[p] \in {"init", "run", "term"} => f_lock[p] /\ pc[p] \in {"loop", "join"}
    /\ thread[p] = "exit" =>
         /\ f_lock[p] \/ At(p, "stop")
         /\ pc[p] \in Ending \/ (At(p, "loop") /\ aborted[p])
    /\ port = p => thread[p] \in {"run", "term", "exit"}

\* A helper is running between its popen() and the end of its pclose().
HelperPlaces ==
  \A p \in Procs : pc[p] # "killed" =>
    /\ <<p, "bbreg">> \in helpers =>
         /\ f_lock[p]
         /\ \/ pc[p] = "wait_bbreg"
            \/ /\ <<p, "bbreg">> \in fps
               /\ pc[p] \in {"httpd", "npemwin", "loop", "join", "close_httpd",
                             "wait_httpd", "close_bbreg"}
    /\ <<p, "httpd">> \in helpers =>
         /\ f_lock[p]
         /\ \/ pc[p] = "wait_httpd"
            \/ /\ <<p, "httpd">> \in fps
               /\ pc[p] \in {"npemwin", "loop", "join", "close_httpd"}

(* The inductive invariant behind OneDaemon: in every place of main() and   *)
(* of cleanup(), what a process has, and that the pid file is its own while *)
(* it has anything.                                                         *)
LifecycleInv ==
  LifecycleTypeOK /\ LockPlaces /\ LockFile /\ ThreadPlaces /\ HelperPlaces

(* A process that was told to end, or whose npemwin thread called exit(),   *)
(* ends, wherever it is: it does not wait for ever for its thread, nor for  *)
(* helpers whose pipe a script keeps open.  Not when the thread calls       *)
(* exit() after main() has, which then waits to join it; and not after      *)
(* SIGABRT (see SignalEnds).                                                *)
TerminatedEnds ==
  \A p \in Procs :
    (quit[p] \/ thread[p] = "exit") /\ ~aborted[p]
      ~> pc[p] \in {"gone", "killed"} \/ (thread[p] = "exit" /\ At(p, "join"))

(* No helper outlives its daemon for ever, not even one that was killed.    *)
HelpersEnd ==
  \A p \in Procs : pc[p] \in {"gone", "killed"} ~> ~HasHelper(p)

(* Every signal that is to end the daemon ends it, SIGABRT as well, unless  *)
(* the npemwin thread calls exit() meanwhile.                               *)
SignalEnds ==
  \A p \in Procs :
    quit[p] \/ aborted[p] ~> pc[p] \in {"gone", "killed"} \/ thread[p] = "exit"
=============================================================================
