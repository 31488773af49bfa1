----------------------------- MODULE MCNetServer -----------------------------
(***************************************************************************)
(* NetServer for TLC.                                                      *)
(***************************************************************************)
EXTENDS NetServer

CONSTANTS a, b

(* No limit, a limit of one client, and no client but those that speak V2. *)
MCSettings == {[maxnetclients |-> -1, v2 |-> FALSE], [maxnetclients |-> 1, v2 |-> FALSE],
               [maxnetclients |-> -1, v2 |-> TRUE]}
=============================================================================
