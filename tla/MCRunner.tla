------------------------------ MODULE MCRunner ------------------------------
(* Runner on a circuit with one input, two gates and a register.            *)
EXTENDS Runner

MCAssignment == 0 .. 2^MaxInputs - 1

MCCircuit ==
  {[in |-> {"a"},
    reg |-> <<[d |-> "x", q |-> "q", enable |-> FALSE, e |-> "S_X", eTrigger |-> TRUE,
               reset |-> FALSE, r |-> "S_X", rTrigger |-> TRUE, rValue |-> FALSE]>>,
    gate |-> <<[kind |-> "binary", op |-> "and", neg |-> FALSE, neg2 |-> TRUE,
                in |-> <<"a", "q">>, out |-> "x"]>>]}

OneIndex == {<<0, 0>>}
TwoIndices == {<<0, 1>>}
=============================================================================
