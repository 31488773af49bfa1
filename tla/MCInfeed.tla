------------------------------ MODULE MCInfeed ------------------------------
(***************************************************************************)
(* Two inserters, each with a file of two parts of which the last is not   *)
(* full, a file with a name that is refused, or one too large for the      *)
(* header; a fifo that holds one packet of two pieces, made twice.         *)
(***************************************************************************)
EXTENDS Infeed
CONSTANTS i1, i2

MCInserts == {i1, i2}
MCFiles ==
  {[size |-> 3, named |-> TRUE], [size |-> 2, named |-> FALSE], [size |-> 5, named |-> TRUE]}
=============================================================================
