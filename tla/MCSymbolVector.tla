--------------------------- MODULE MCSymbolVector ---------------------------
(* SymbolVector with a port of three bits, one of two, and a net that has   *)
(* wires of both, and one whose second wire has no value yet.               *)
EXTENDS SymbolVector

CONSTANTS w1, w2, w3, w4, w5, w6

MCName == {"in", "key", "net", "out"}
MCNameBits == [n \in MCName |-> CASE n = "in"  -> <<w1, w2, w3>>
                                  [] n = "key" -> <<w4, w5>>
                                  [] n = "net" -> <<w3, w4>>
                                  [] n = "out" -> <<w5, w6>>]
=============================================================================
