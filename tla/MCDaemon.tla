------------------------------ MODULE MCDaemon ------------------------------
(* Instances of Daemon for TLC.  A cfg cannot write a negative number. *)
EXTENDS Daemon

AnyFile == -1..MaxServers
=============================================================================
