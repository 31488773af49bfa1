---------------------------- MODULE MCLifecycle ----------------------------
(* Two processes.                                                           *)
EXTENDS Lifecycle
CONSTANTS p1, p2

MCProcs == {p1, p2}
=============================================================================
