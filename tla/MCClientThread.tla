--------------------------- MODULE MCClientThread ----------------------------
(***************************************************************************)
(* ClientThread for TLC.                                                   *)
(***************************************************************************)
EXTENDS ClientThread
=============================================================================
