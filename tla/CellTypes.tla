------------------------------ MODULE CellTypes -----------------------------
(***************************************************************************)
(* Cell types (src/cell_types.h, src/Cell.cpp): an integer whose bits say   *)
(* what the cell is and which ports it has.  A name of the netlist is the   *)
(* tuple of its parts: $_AND_ is <<"AND">>, $_DFF_PN0_ <<"DFF","P","N","0">>.*)
(***************************************************************************)
EXTENDS SequencesExt

CELL_NONE == 0

GateCode ==
  [AND |-> 256, OR |-> 257, XOR |-> 258, NAND |-> 384, NOR |-> 385, XNOR |-> 386,
   ANDNOT |-> 320, ORNOT |-> 321, BUF |-> 512, NOT |-> 640, MUX |-> 2048, NMUX |-> 2176]

GateName     == {<<g>> : g \in DOMAIN GateCode}
Polarity     == {"N", "P"}
RegisterName ==
  ({"DFF"} \X Polarity)
  \cup ({"DFF"} \X Polarity \X Polarity \X {"0", "1"})
  \cup ({"DFFE"} \X Polarity \X Polarity)
  \cup ({"DFFE"} \X Polarity \X Polarity \X {"0", "1"} \X Polarity)

Weight(part, w) == IF part \in {"P", "1"} THEN w ELSE 0

(* The flags of a register: reset 32, enable 16, clock edge 8, reset        *)
(* trigger 4, reset value 2, enable trigger 1.                              *)
RegisterCode(x) ==
  LET n == Len(x)
  IN  1024 + Weight(x[2], 8)
      + (IF n >= 4 THEN 32 + Weight(x[3], 4) + Weight(x[4], 2) ELSE 0)
      + (IF x[1] = "DFFE" THEN 16 + Weight(x[n], 1) ELSE 0)

(* Yosys calls the registers with a synchronous reset SDFF and SDFFE.       *)
Plain(x) == CASE x[1] = "SDFF"  -> [x EXCEPT ![1] = "DFF"]
              [] x[1] = "SDFFE" -> [x EXCEPT ![1] = "DFFE"]
              [] OTHER          -> x

cell_type_from_string(x) ==
  CASE Plain(x) \in GateName     -> GateCode[x[1]]
    [] Plain(x) \in RegisterName -> RegisterCode(Plain(x))
    [] OTHER                     -> CELL_NONE

-----------------------------------------------------------------------------
HasBit(t, b) == (t \div b) % 2 = 1

is_multiplexer(t)     == HasBit(t, 2048)
is_register(t)        == HasBit(t, 1024)
is_unary(t)           == HasBit(t, 512)
is_binary(t)          == HasBit(t, 256)
is_out_negated(t)     == HasBit(t, 128)
is_second_negated(t)  == HasBit(t, 64)
dff_has_reset(t)      == HasBit(t, 32)
dff_has_enable(t)     == HasBit(t, 16)
dff_clock_trigger(t)  == HasBit(t, 8)
dff_reset_trigger(t)  == HasBit(t, 4)
dff_reset_value(t)    == HasBit(t, 2)
dff_enable_trigger(t) == HasBit(t, 1)
gate_is_like_and(t)   == t % 4 = 0
gate_is_like_or(t)    == t % 4 = 1
gate_is_like_xor(t)   == t % 4 = 2

Letter == {"A", "B", "S", "C", "D", "R", "E", "Y", "Q"}

(* The ports a constructor of Cell takes besides the output.  All but D     *)
(* must differ from the output.                                             *)
InputLetters(t) ==
  CASE is_unary(t)       -> {"A"}
    [] is_binary(t)      -> {"A", "B"}
    [] is_multiplexer(t) -> {"A", "B", "S"}
    [] is_register(t)    -> {"C", "D"} \cup (IF dff_has_reset(t) THEN {"R"} ELSE {})
                                       \cup (IF dff_has_enable(t) THEN {"E"} ELSE {})
OutputLetter(t) == IF is_register(t) THEN "Q" ELSE "Y"

(* What Cell::eval asks a type: the fields of the cells of Cell.            *)
GateFields(t) ==
  [kind |-> CASE is_unary(t) -> "unary" [] is_binary(t) -> "binary" [] is_multiplexer(t) -> "mux",
   op   |-> CASE gate_is_like_and(t) -> "and" [] gate_is_like_xor(t) -> "xor" [] OTHER -> "or",
   neg  |-> is_out_negated(t),
   neg2 |-> is_second_negated(t)]
RegisterFields(t) ==
  [enable |-> dff_has_enable(t), eTrigger |-> dff_enable_trigger(t),
   reset  |-> dff_has_reset(t),  rTrigger |-> dff_reset_trigger(t), rValue |-> dff_reset_value(t)]

-----------------------------------------------------------------------------
(* The static tests of cell_types.h: a code has one kind, no bit its kind   *)
(* has no use for, and the bits its name says.                              *)

is_well_formed(t) ==
  LET without(bits) == \A b \in bits : ~HasBit(t, b)
  IN  /\ Cardinality({k \in {2048, 1024, 512, 256} : HasBit(t, k)}) = 1
      /\ is_register(t) => without({128, 64})
      /\ is_binary(t)   => without({32, 16, 8, 4})
      /\ is_unary(t) \/ is_multiplexer(t) => t % 128 = 0

test_is_binary_normal_gate(t) ==
  is_well_formed(t) /\ is_binary(t) /\ ~is_out_negated(t) /\ ~is_second_negated(t)
test_is_binary_output_negated_gate(t) ==
  is_well_formed(t) /\ is_binary(t) /\ is_out_negated(t) /\ ~is_second_negated(t)
test_is_binary_second_negated_gate(t) ==
  is_well_formed(t) /\ is_binary(t) /\ ~is_out_negated(t) /\ is_second_negated(t)
test_is_unary(t)       == is_well_formed(t) /\ is_unary(t)
test_is_multiplexer(t) == is_well_formed(t) /\ is_multiplexer(t)
test_is_reg(t, enable, reset) ==
  is_well_formed(t) /\ is_register(t) /\ dff_has_enable(t) = enable /\ dff_has_reset(t) = reset

BinaryTests ==
  /\ \A g \in {"AND", "OR", "XOR"}    : test_is_binary_normal_gate(GateCode[g])
  /\ \A g \in {"NAND", "NOR", "XNOR"} : test_is_binary_output_negated_gate(GateCode[g])
  /\ \A g \in {"ANDNOT", "ORNOT"}     : test_is_binary_second_negated_gate(GateCode[g])
  /\ \A g \in {"AND", "NAND", "ANDNOT"} : gate_is_like_and(GateCode[g])
  /\ \A g \in {"OR", "NOR", "ORNOT"}    : gate_is_like_or(GateCode[g])
  /\ \A g \in {"XOR", "XNOR"}           : gate_is_like_xor(GateCode[g])

OtherGateTests ==
  /\ \A g \in {"BUF", "NOT"}  : test_is_unary(GateCode[g]) /\ (is_out_negated(GateCode[g]) <=> g = "NOT")
  /\ \A g \in {"MUX", "NMUX"} : test_is_multiplexer(GateCode[g]) /\ (is_out_negated(GateCode[g]) <=> g = "NMUX")

EdgeTest(x)   == dff_clock_trigger(RegisterCode(x)) <=> x[2] = "P"
EnableTest(x) == dff_enable_trigger(RegisterCode(x)) <=> x[Len(x)] = "P"
ResetTest(x)  == /\ dff_reset_trigger(RegisterCode(x)) <=> x[3] = "P"
                 /\ dff_reset_value(RegisterCode(x)) <=> x[4] = "1"

Register(name, n) == {x \in RegisterName : x[1] = name /\ Len(x) = n}
NormalTests == \A x \in Register("DFF", 2) : test_is_reg(RegisterCode(x), FALSE, FALSE) /\ EdgeTest(x)
WithEnableTests ==
  \A x \in Register("DFFE", 3) : test_is_reg(RegisterCode(x), TRUE, FALSE) /\ EdgeTest(x) /\ EnableTest(x)
WithResetTests ==
  \A x \in Register("DFF", 4) : test_is_reg(RegisterCode(x), FALSE, TRUE) /\ EdgeTest(x) /\ ResetTest(x)
WithBothTests ==
  \A x \in Register("DFFE", 5) :
    test_is_reg(RegisterCode(x), TRUE, TRUE) /\ EdgeTest(x) /\ ResetTest(x) /\ EnableTest(x)

ASSUME StaticTests ==
  BinaryTests /\ OtherGateTests /\ NormalTests /\ WithEnableTests /\ WithResetTests /\ WithBothTests
=============================================================================
