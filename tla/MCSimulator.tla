---------------------------- MODULE MCSimulator -----------------------------
(* Simulator with two small circuits and three inputs.                      *)
EXTENDS Simulator, TLC

MCAssignment == 0 .. 2^MaxInputs - 1

(* Cells with their types as in a netlist, and what Cell::eval asks of them. *)
Types == INSTANCE CellTypes
Gate(name, in, out) ==
  [in |-> in, out |-> out] @@ Types!GateFields(Types!cell_type_from_string(<<name>>))
Register(type, d, q, e, r) ==
  [d |-> d, q |-> q, e |-> e, r |-> r] @@ Types!RegisterFields(Types!cell_type_from_string(type))

(* A buffered input, gates of every kind, and a register with enable.       *)
Enabled ==
  [in  |-> {"a"},
   reg |-> <<Register(<<"DFFE", "P", "N">>, "x", "q", "a", "S_X")>>,
   gate |-> <<Gate("BUF", <<"a">>, "b"),
              Gate("NOR", <<"b", "q">>, "x")>>]

(* A register with a reset to one, and a multiplexer.                       *)
Reset ==
  [in  |-> {"a"},
   reg |-> <<Register(<<"SDFF", "P", "N", "1">>, "y", "q", "S_X", "a")>>,
   gate |-> <<Gate("ANDNOT", <<"q", "a">>, "x"),
              Gate("NMUX", <<"x", "q", "a">>, "y")>>]

MCCircuit == {Enabled, Reset}
MCIndices == {<<0, 0>>, <<1, 1>>, <<0, 1>>}
=============================================================================
