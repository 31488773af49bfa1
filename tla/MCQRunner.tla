----------------------------- MODULE MCQRunner -----------------------------
(* Small instances of QRunner: a three block product, a two block one with  *)
(* the same name, and a one block product with another name.                *)
EXTENDS QRunnerInv, TLC

CONSTANTS a, b, A1, A2, B1

MCName == {a, b}
MCProduct == {A1, A2, B1}
MCNameOf == A1 :> a @@ A2 :> a @@ B1 :> b
MCNumBlocks == A1 :> 3 @@ A2 :> 2 @@ B1 :> 1

\* The last two of them.
SmallProduct == {A2, B1}
SmallNameOf == A2 :> a @@ B1 :> b
SmallNumBlocks == A2 :> 2 @@ B1 :> 1
=============================================================================
