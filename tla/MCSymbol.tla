--------------------------- MODULE MCSymbol --------------------------------
(* Symbol with two independent inputs.                               *)
EXTENDS Symbol, TLC

CONSTANTS h1, h2, h3

(* Three variables may all be emitted; a fourth one leaves no slot.         *)
MCMaxEmitted == [n \in 0 .. 4 |-> IF n <= 3 THEN n ELSE 0]
MCAssignment == 1 .. 4
MCFreshTruth == {{1, 2}, {1, 3}}
Symmetric    == Permutations(Handle)
=============================================================================
