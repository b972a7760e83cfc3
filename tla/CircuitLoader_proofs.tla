------------------------ MODULE CircuitLoader_proofs ------------------------
(***************************************************************************)
(* Proofs about CircuitLoader: the cells of a circuit are in an order in    *)
(* which they can be evaluated, for every netlist.                          *)
(***************************************************************************)
EXTENDS CircuitLoader, FiniteSetTheorems, WellFoundedInduction, TLAPS

LEMMA NetShape ==
  ASSUME IsNetlist(net)
  PROVE  /\ DOMAIN net.cells = 1 .. Len(net.cells)
         /\ \A i \in DOMAIN net.cells : IsCell(net.cells[i])
  BY DEF IsNetlist

(* A cell with its ports drives and reads signals.                          *)
LEMMA PortsAreSignals ==
  ASSUME IsNetlist(net), NEW i \in DOMAIN net.cells, HasPorts(i)
  PROVE  /\ Output(i) \in Signal
         /\ Inputs(i) \subseteq Signal
<1>1. IsCell(net.cells[i])
  BY NetShape
<1> QED BY <1>1 DEF IsCell, HasPorts, Output, Inputs

(* The bits of the code of a register.                                      *)
LEMMA RegisterBits ==
  ASSUME NEW a \in 0 .. 1, NEW b \in 0 .. 1, NEW c \in 0 .. 1, NEW d \in 0 .. 1, NEW e \in 0 .. 1, NEW f \in 0 .. 1,
         NEW t, t = 1024 + (32 * a + 4 * d + 2 * e) + (16 * b + f) + 8 * c
  PROVE  /\ ~is_unary(t) /\ ~is_binary(t) /\ ~is_multiplexer(t) /\ is_register(t) /\ t # CELL_NONE
         /\ dff_has_reset(t) <=> a = 1
         /\ dff_has_enable(t) <=> b = 1
         /\ dff_clock_trigger(t) <=> c = 1
<1> USE DEF HasBit
<1>1. t \in 1024 .. 1087
  OBVIOUS
<1>2. t \div 2048 = 0 /\ t \div 1024 = 1 /\ t \div 512 = 2 /\ t \div 256 = 4
  BY ONLY <1>1
<1>3. t \div 32 = 32 + a
  OBVIOUS
<1>4. t \div 16 = 64 + 2 * a + b
  OBVIOUS
<1>5. t \div 8 = 128 + 4 * a + 2 * b + c
  OBVIOUS
<1>6. ~is_unary(t) /\ ~is_binary(t) /\ ~is_multiplexer(t) /\ is_register(t)
  BY <1>2 DEF is_unary, is_binary, is_multiplexer, is_register
<1>7. t # CELL_NONE
  BY <1>1 DEF CELL_NONE
<1>8. dff_has_reset(t) <=> a = 1
  BY <1>3 DEF dff_has_reset
<1>9. dff_has_enable(t) <=> b = 1
  BY <1>4 DEF dff_has_enable
<1>10. dff_clock_trigger(t) <=> c = 1
  BY <1>5 DEF dff_clock_trigger
<1> QED BY <1>6, <1>7, <1>8, <1>9, <1>10

(* The ports of a register.                                                 *)
LEMMA RegisterPorts ==
  ASSUME NEW x \in RegisterName
  PROVE  /\ InputLetters(RegisterCode(x)) =
              {"C", "D"} \cup (IF Len(x) >= 4 THEN {"R"} ELSE {}) \cup (IF x[1] = "DFFE" THEN {"E"} ELSE {})
         /\ is_register(RegisterCode(x)) /\ RegisterCode(x) # CELL_NONE
         /\ dff_clock_trigger(RegisterCode(x)) <=> x[2] = "P"
         /\ x[1] \in {"DFF", "DFFE"}
<1> DEFINE n == Len(x)
           a == IF n >= 4 THEN 1 ELSE 0
           d == IF n >= 4 THEN Weight(x[3], 1) ELSE 0
           e == IF n >= 4 THEN Weight(x[4], 1) ELSE 0
           b == IF x[1] = "DFFE" THEN 1 ELSE 0
           f == IF x[1] = "DFFE" THEN Weight(x[n], 1) ELSE 0
           c == Weight(x[2], 1)
           t == RegisterCode(x)
<1>1. a \in 0 .. 1 /\ b \in 0 .. 1 /\ c \in 0 .. 1 /\ d \in 0 .. 1 /\ e \in 0 .. 1 /\ f \in 0 .. 1
  BY DEF Weight
<1>2. t = 1024 + (32 * a + 4 * d + 2 * e) + (16 * b + f) + 8 * c
  BY DEF RegisterCode, Weight
<1>3. x[1] \in {"DFF", "DFFE"} /\ (c = 1 <=> x[2] = "P")
  BY DEF RegisterName, Polarity, Weight
<1>4. (a = 1 <=> Len(x) >= 4) /\ (b = 1 <=> x[1] = "DFFE")
  OBVIOUS
<1> HIDE DEF a, b, c, d, e, f, t
<1>5. /\ ~is_unary(t) /\ ~is_binary(t) /\ ~is_multiplexer(t) /\ is_register(t) /\ t # CELL_NONE
      /\ dff_has_reset(t) <=> a = 1
      /\ dff_has_enable(t) <=> b = 1
      /\ dff_clock_trigger(t) <=> c = 1
  BY ONLY <1>1, <1>2, RegisterBits
<1>6. InputLetters(t) = {"C", "D"} \cup (IF Len(x) >= 4 THEN {"R"} ELSE {}) \cup (IF x[1] = "DFFE" THEN {"E"} ELSE {})
  BY <1>4, <1>5 DEF InputLetters
<1> QED BY <1>3, <1>5, <1>6 DEF t

(* The ports of a gate.                                                     *)
LEMMA GatePorts ==
  ASSUME NEW g \in DOMAIN GateCode
  PROVE  /\ InputLetters(GateCode[g]) =
              (CASE g \in {"BUF", "NOT"} -> {"A"} [] g \in {"MUX", "NMUX"} -> {"A", "B", "S"}
                 [] OTHER -> {"A", "B"})
         /\ ~is_register(GateCode[g]) /\ GateCode[g] # CELL_NONE
<1> USE DEF GateCode, HasBit, is_unary, is_binary, is_multiplexer, is_register, InputLetters, CELL_NONE
<1>1. CASE g \in {"AND", "OR", "XOR"}
  BY <1>1
<1>2. CASE g \in {"NAND", "NOR", "XNOR"}
  BY <1>2
<1>3. CASE g \in {"ANDNOT", "ORNOT"}
  BY <1>3
<1>4. CASE g \in {"BUF", "NOT"}
  BY <1>4
<1>5. CASE g \in {"MUX", "NMUX"}
  BY <1>5
<1> QED BY <1>1, <1>2, <1>3, <1>4, <1>5

(* A sequence with another first element.                                   *)
WithHead(x, n) == [x EXCEPT ![1] = n]

LEMMA HeadReplaced ==
  ASSUME NEW S, NEW x \in Seq(S), NEW n, NEW y, y = WithHead(x, n)
  PROVE  Len(y) = Len(x) /\ \A k \in 2 .. Len(x) : y[k] = x[k]
<1>1. PICK L \in Nat : L = Len(x) /\ DOMAIN x = 1 .. L
  OBVIOUS
<1>2. DOMAIN y = 1 .. L /\ y = [k \in 1 .. L |-> y[k]]
  BY <1>1 DEF WithHead
<1>3. y \in [1 .. L -> Range(y)]
  BY <1>2 DEF Range
<1>4. Len(y) = L
  BY ONLY <1>3
<1>5. \A k \in 2 .. L : k \in 1 .. L /\ k # 1
  OBVIOUS
<1>6. \A k \in 2 .. L : y[k] = x[k]
  BY <1>1, <1>5 DEF WithHead
<1> QED BY <1>1, <1>4, <1>6

(* What the names SDFF and SDFFE stand for.                                 *)
LEMMA PlainFacts ==
  ASSUME NEW x \in Seq(STRING)
  PROVE  /\ Plain(x) \in GateName => x \in GateName /\ x[1] \in DOMAIN GateCode
         /\ Plain(x) \in RegisterName =>
              /\ x \notin GateName /\ Plain(x) \notin GateName
              /\ Len(Plain(x)) = Len(x) /\ Plain(x)[2] = x[2] /\ x[2] \in Polarity
         /\ x \in GateName => Plain(x) = x
         /\ x = <<"$assert">> => x \notin GateName /\ Plain(x) \notin RegisterName
<1>1. Len(x) \in Nat /\ DOMAIN x = 1 .. Len(x)
  OBVIOUS
<1>2. Len(Plain(x)) = Len(x) /\ \A k \in 2 .. Len(x) : Plain(x)[k] = x[k]
  <2>1. \/ Plain(x) = x
        \/ x[1] = "SDFF" /\ Plain(x) = WithHead(x, "DFF")
        \/ x[1] = "SDFFE" /\ Plain(x) = WithHead(x, "DFFE")
    <3>1. CASE x[1] = "SDFF"
      BY <3>1 DEF Plain, WithHead
    <3>2. CASE x[1] = "SDFFE"
      BY <3>2 DEF Plain, WithHead
    <3>3. CASE x[1] \notin {"SDFF", "SDFFE"}
      BY <3>3 DEF Plain
    <3> QED BY <3>1, <3>2, <3>3
  <2>2. ASSUME NEW n, Plain(x) = WithHead(x, n)
        PROVE  Len(Plain(x)) = Len(x) /\ \A k \in 2 .. Len(x) : Plain(x)[k] = x[k]
    BY ONLY x \in Seq(STRING), <2>2, HeadReplaced
  <2>3. CASE Plain(x) = x
    BY <2>3
  <2> QED BY <2>1, <2>2, <2>3
<1>3. \A y \in GateName : Len(y) = 1 /\ y[1] \in DOMAIN GateCode /\ y[1] \notin {"SDFF", "SDFFE", "$assert"}
  BY DEF GateName, GateCode
<1>4. \A y \in RegisterName : Len(y) >= 2 /\ y[2] \in Polarity
  BY DEF RegisterName, Polarity
<1>5. Plain(x) \in GateName => x \in GateName /\ x[1] \in DOMAIN GateCode
  <2>1. CASE x[1] \notin {"SDFF", "SDFFE"}
    BY <1>3, <2>1 DEF Plain
  <2>2. CASE x[1] \in {"SDFF", "SDFFE"}
    <3>1. \A g \in DOMAIN GateCode : Plain(x) # <<g>>
      BY <2>2 DEF Plain, GateCode
    <3> QED BY <3>1 DEF GateName
  <2> QED BY <2>1, <2>2
<1>6. x \in GateName => Plain(x) = x
  BY <1>3 DEF Plain
<1>7. ASSUME Plain(x) \in RegisterName
      PROVE  /\ x \notin GateName /\ Plain(x) \notin GateName
             /\ Plain(x)[2] = x[2] /\ x[2] \in Polarity
  <2>1. Len(x) >= 2 /\ Plain(x)[2] \in Polarity
    BY <1>2, <1>4, <1>7
  <2>2. Plain(x)[2] = x[2]
    BY <1>1, <1>2, <2>1
  <2> QED BY <1>2, <1>3, <2>1, <2>2
<1>8. x = <<"$assert">> => x \notin GateName /\ Plain(x) \notin RegisterName
  <2>1. x = <<"$assert">> => x[1] = "$assert" /\ Len(x) = 1
    OBVIOUS
  <2> QED BY <1>2, <1>3, <1>4, <2>1
<1> QED BY <1>2, <1>5, <1>6, <1>7, <1>8

(* The types that are recognised are the names of gates and registers, and  *)
(* a cell has the ports its name asks for.                                  *)
LEMMA CellPorts ==
  ASSUME IsNetlist(net), NEW i \in DOMAIN net.cells
  PROVE  /\ Type(i) # CELL_NONE <=> i \in Cells(net)
         /\ i \in Cells(net) => ~Skipped(i)
         /\ i \in Cells(net) => InputLetters(Type(i)) = Needed(net.cells[i].type)
         /\ i \in Cells(net) => (IsRegister(i) <=> i \in Registers(net))
         /\ i \in Cells(net) => (i \in Gates(net) <=> i \notin Registers(net))
         /\ i \in Cells(net) => OutputLetter(Type(i)) = OutLetter(net, i)
         /\ i \in Registers(net) => net.cells[i].type[2] \in Polarity /\ (EdgeOf(i) <=> net.cells[i].type[2] = "P")
<1> DEFINE x == net.cells[i].type
<1>1. x \in Seq(STRING)
  BY NetShape DEF IsCell
<1>2. (i \in Gates(net) <=> x \in GateName) /\ (i \in Registers(net) <=> Plain(x) \in RegisterName)
  BY DEF Gates, Registers
<1>3. Type(i) = cell_type_from_string(x) /\ (IsRegister(i) <=> is_register(Type(i)))
      /\ (Skipped(i) <=> x = <<"$assert">>) /\ (EdgeOf(i) <=> dff_clock_trigger(Type(i)))
  BY DEF Type, IsRegister, Skipped, EdgeOf
<1> HIDE DEF x
<1>4. CASE x \in GateName
  <2>1. PICK g \in DOMAIN GateCode : x = <<g>>
    BY <1>4 DEF GateName
  <2>2. Plain(x) = x /\ Plain(x) \notin RegisterName
    BY <1>1, <1>4, PlainFacts
  <2>3. Type(i) = GateCode[g]
    BY <1>3, <1>4, <2>1, <2>2 DEF cell_type_from_string
  <2>4. Needed(x) = (CASE g \in {"BUF", "NOT"} -> {"A"} [] g \in {"MUX", "NMUX"} -> {"A", "B", "S"}
                       [] OTHER -> {"A", "B"})
    <3>1. CASE g \in {"BUF", "NOT"}
      BY <2>1, <3>1 DEF Needed
    <3>2. CASE g \in {"MUX", "NMUX"}
      BY <2>1, <3>2 DEF Needed
    <3>3. CASE g \notin {"BUF", "NOT", "MUX", "NMUX"}
      <4>1. x \in GateName \ {<<"BUF">>, <<"NOT">>, <<"MUX">>, <<"NMUX">>}
        BY <1>4, <2>1, <3>3
      <4> QED BY <3>3, <4>1 DEF Needed
    <3> QED BY <3>1, <3>2, <3>3
  <2>5. ~is_register(Type(i)) /\ Type(i) # CELL_NONE /\ InputLetters(Type(i)) = Needed(x)
    BY <2>3, <2>4, GatePorts
  <2>6. x # <<"$assert">>
    BY <1>1, <1>4, PlainFacts
  <2>7. i \in Gates(net) /\ i \notin Registers(net) /\ i \in Cells(net)
    BY <1>2, <1>4, <2>2 DEF Cells
  <2>8. OutputLetter(Type(i)) = OutLetter(net, i)
    BY <2>5, <2>7 DEF OutputLetter, OutLetter
  <2> QED BY <1>3, <2>5, <2>6, <2>7, <2>8 DEF x
<1>5. CASE Plain(x) \in RegisterName
  <2>1. x \notin GateName /\ Plain(x) \notin GateName /\ Len(Plain(x)) = Len(x) /\ Plain(x)[2] = x[2]
        /\ x # <<"$assert">> /\ x[2] \in Polarity
    BY <1>1, <1>5, PlainFacts
  <2>2. Type(i) = RegisterCode(Plain(x))
    BY <1>3, <1>5, <2>1 DEF cell_type_from_string
  <2>3. x \notin {<<"BUF">>, <<"NOT">>, <<"MUX">>, <<"NMUX">>}
    BY <2>1 DEF GateName, GateCode
  <2>4. Needed(x) = {"C", "D"} \cup (IF Len(x) >= 4 THEN {"R"} ELSE {})
                              \cup (IF Plain(x)[1] = "DFFE" THEN {"E"} ELSE {})
    BY <2>1, <2>3 DEF Needed
  <2>5. /\ is_register(Type(i)) /\ Type(i) # CELL_NONE /\ InputLetters(Type(i)) = Needed(x)
        /\ dff_clock_trigger(Type(i)) <=> x[2] = "P"
    BY <1>5, <2>1, <2>2, <2>4, RegisterPorts
  <2>6. i \notin Gates(net) /\ i \in Registers(net) /\ i \in Cells(net)
    BY <1>2, <1>5, <2>1 DEF Cells
  <2>7. OutputLetter(Type(i)) = OutLetter(net, i)
    BY <2>5, <2>6 DEF OutputLetter, OutLetter
  <2> QED BY <1>3, <2>1, <2>5, <2>6, <2>7 DEF x
<1>6. CASE x \notin GateName /\ Plain(x) \notin RegisterName
  <2>1. i \notin Cells(net)
    BY <1>2, <1>6 DEF Cells
  <2>2. Plain(x) \notin GateName
    BY <1>1, <1>6, PlainFacts
  <2>3. Type(i) = CELL_NONE
    BY <1>3, <1>6, <2>2 DEF cell_type_from_string
  <2> QED BY <1>2, <1>6, <2>1, <2>3
<1> QED BY <1>4, <1>5, <1>6

LEMMA CellMeans ==
  ASSUME IsNetlist(net), NEW i \in Cells(net)
  PROVE  /\ i \in DOMAIN net.cells
         /\ HasPorts(i) <=> Needed(net.cells[i].type) \cup {OutLetter(net, i)} \subseteq DOMAIN net.cells[i].conn
         /\ Output(i) = Drives(net, i) /\ Inputs(i) = Reads(net, i, {}) /\ CycleInputs(i) = Reads(net, i, {"D"})
         /\ i \in Gates(net) => ~IsRegister(i)
<1>1. i \in DOMAIN net.cells
  BY DEF Cells, Gates, Registers
<1>2. InputLetters(Type(i)) = Needed(net.cells[i].type) /\ OutputLetter(Type(i)) = OutLetter(net, i)
      /\ (i \in Gates(net) => ~IsRegister(i))
  BY <1>1, CellPorts
<1>3. InputLetters(Type(i)) = InputLetters(Type(i)) \ {}
  OBVIOUS
<1> QED BY <1>1, <1>2, <1>3 DEF HasPorts, Output, Drives, Inputs, Reads, CycleInputs

(* What Append does to a sequence and to what it holds.                     *)
LEMMA AppendFacts ==
  ASSUME NEW S, NEW s \in Seq(S), NEW e \in S
  PROVE  /\ Append(s, e) \in Seq(S)
         /\ Len(Append(s, e)) = Len(s) + 1 /\ Len(s) \in Nat
         /\ DOMAIN s = 1 .. Len(s) /\ DOMAIN Append(s, e) = 1 .. Len(s) + 1
         /\ \A k \in DOMAIN s : Append(s, e)[k] = s[k]
         /\ Append(s, e)[Len(s) + 1] = e
         /\ Range(Append(s, e)) = Range(s) \cup {e}
<1>1. /\ Append(s, e) \in Seq(S)
      /\ Len(Append(s, e)) = Len(s) + 1 /\ Len(s) \in Nat
      /\ DOMAIN s = 1 .. Len(s) /\ DOMAIN Append(s, e) = 1 .. Len(s) + 1
      /\ \A k \in DOMAIN s : Append(s, e)[k] = s[k]
      /\ Append(s, e)[Len(s) + 1] = e
  OBVIOUS
<1>2. Range(Append(s, e)) = Range(s) \cup {e}
  BY <1>1 DEF Range
<1> QED BY <1>1, <1>2

(* What a type says of the elements and lengths of the sequences.           *)
LEMMA SequenceTypes ==
  ASSUME TypeOK
  PROVE  /\ Len(cells) \in Nat /\ DOMAIN cells = 1 .. Len(cells)
         /\ Len(order) \in Nat /\ DOMAIN order = 1 .. Len(order)
         /\ \A k \in DOMAIN cells : cells[k] \in DOMAIN net.cells
         /\ \A k \in DOMAIN order : order[k] \in DOMAIN net.cells
         /\ Range(cells) \subseteq DOMAIN net.cells
         /\ Range(order) \subseteq DOMAIN net.cells
  BY DEF TypeOK, Range

LEMMA InitIInv == Init => IInv
<1> SUFFICES ASSUME Init PROVE IInv
  OBVIOUS
<1>1. IsNetlist(net)
  BY LoaderAssumption DEF Init
<1>2. TypeOK
  BY <1>1, LoaderAssumption DEF Init, TypeOK, Empty, ConstSignal
<1>3. NotYet /\ CellsRead /\ VisitedBacked /\ MissingExact
  BY DEF Init, NotYet, CellsRead, VisitedBacked, MissingExact, Range
<1>4. OrderTopological /\ CellsComplete
  BY DEF Init, OrderTopological, CellsComplete
<1>5. VerdictRight /\ NamesRight
  BY DEF Init, VerdictRight, NamesRight, Empty
<1>6. InputsKnown
  <2> USE DEF Init
  <2>1. PortsRead = {} /\ NetsRead = {} /\ Range(cells) = {} /\ DOMAIN nameBits = {}
    BY DEF PortsRead, NetsRead, Range, Empty
  <2>2. PortsKnown /\ NetsKnown /\ BitsKnown
    BY <2>1 DEF PortsKnown, NetsKnown, BitsKnown
  <2>3. DriversKnown
    BY <2>1 DEF DriversKnown
  <2>4. Clocked = {}
    BY <2>1 DEF Clocked
  <2>5. ClockKnown
    BY <2>4 DEF ClockKnown
  <2> QED BY <2>2, <2>3, <2>5 DEF InputsKnown
<1> QED BY <1>2, <1>3, <1>4, <1>5, <1>6 DEF IInv

LEMMA Elements ==
  ASSUME NEW S, NEW s \in Seq(S)
  PROVE  Len(s) \in Nat /\ \A k \in 1 .. Len(s) : s[k] \in S
  OBVIOUS

(* The bits of ports and names are signals.                                 *)
LEMMA VectorTypes ==
  ASSUME IsNetlist(net)
  PROVE  /\ \A k \in 1 .. Len(net.ports) : net.ports[k].name \in Name
                                          /\ Range(net.ports[k].bits) \subseteq Signal
         /\ \A k \in 1 .. Len(net.nets) : net.nets[k].name \in Name
                                         /\ Range(net.nets[k].bits) \subseteq Signal
         /\ Len(net.ports) \in Nat /\ Len(net.nets) \in Nat
<1>1. /\ net.ports \in Seq([name : Name, direction : STRING, bits : Seq(Signal)])
      /\ net.nets \in Seq([name : Name, bits : Seq(Signal)])
  BY DEF IsNetlist
<1>2. \A b \in Seq(Signal) : Range(b) \subseteq Signal
  BY DEF Range
<1>3. \A k \in 1 .. Len(net.ports) : net.ports[k].name \in Name /\ net.ports[k].bits \in Seq(Signal)
  <2>1. \A k \in 1 .. Len(net.ports) : net.ports[k] \in [name : Name, direction : STRING, bits : Seq(Signal)]
    BY <1>1, Elements
  <2> QED BY <2>1
<1>4. \A k \in 1 .. Len(net.nets) : net.nets[k].name \in Name /\ net.nets[k].bits \in Seq(Signal)
  <2>1. \A k \in 1 .. Len(net.nets) : net.nets[k] \in [name : Name, bits : Seq(Signal)]
    BY <1>1, Elements
  <2> QED BY <2>1
<1>5. Len(net.ports) \in Nat /\ Len(net.nets) \in Nat
  BY <1>1, Elements
<1> QED BY <1>2, <1>3, <1>4, <1>5

LEMMA AddNameTypes ==
  ASSUME TypeOK, NEW n \in Name, NEW b, Range(b) \subseteq Signal, AddName(n, b)
  PROVE  DOMAIN nameBits' \subseteq Name /\ DOMAIN bitName' \subseteq Signal
  BY DEF TypeOK, AddName, AddBitNames

LEMMA TypeInvariant ==
  ASSUME TypeOK, NotYet, CellsRead, [Next]_vars
  PROVE  TypeOK'
<1> USE DEF TypeOK
<1>a. /\ Len(cells) \in Nat /\ \A k \in 1 .. Len(cells) : cells[k] \in DOMAIN net.cells /\ HasPorts(cells[k])
  BY SequenceTypes DEF CellsRead, Range
<1>b. \A k \in 1 .. Len(cells) : Output(cells[k]) \in Signal
  BY <1>a, PortsAreSignals
<1>1. CASE ReadPort
  <2> USE <1>1 DEF ReadPort
  <2>1. net.ports[pos].name \in Name /\ Range(net.ports[pos].bits) \subseteq Signal
    BY VectorTypes
  <2>2. CASE net.ports[pos].direction \notin {"input", "output"} \/ net.ports[pos].name \in DOMAIN nameBits
    BY <2>2 DEF Throw, Goto, netVars, clockVars, orderVars, nameVars
  <2>3. CASE ~(net.ports[pos].direction \notin {"input", "output"} \/ net.ports[pos].name \in DOMAIN nameBits)
    <3>1. AddName(net.ports[pos].name, net.ports[pos].bits)
      BY <2>3
    <3>2. DOMAIN nameBits' \subseteq Name /\ DOMAIN bitName' \subseteq Signal
      BY <2>1, <3>1, AddNameTypes
    <3>3. ports' \in [{"input", "output"} -> SUBSET Signal] /\ signals' \subseteq Signal
      BY <2>1, <2>3
    <3> QED BY <2>3, <3>2, <3>3 DEF Stay, clockVars, orderVars
  <2> QED BY <2>2, <2>3
<1>2. CASE ReadCell
  <2> USE <1>2 DEF ReadCell
  <2>1. pos \in DOMAIN net.cells
    BY NetShape
  <2>2. CASE Skipped(pos) \/ ~Accepted(pos)
    BY <2>2 DEF Throw, Goto, Stay, netVars, clockVars, orderVars, nameVars
  <2>3. CASE ~Skipped(pos) /\ Accepted(pos)
    <3>1. Output(pos) \in Signal /\ Inputs(pos) \subseteq Signal
      BY <2>1, <2>3, PortsAreSignals DEF Accepted
    <3>2. cells' \in Seq(DOMAIN net.cells)
      <4>1. cells' = Append(cells, pos) /\ cells \in Seq(DOMAIN net.cells)
        BY <2>3
      <4> QED BY <2>1, <4>1, AppendFacts
    <3>3. signals' \subseteq Signal /\ missing' \subseteq Signal
      BY <2>3, <3>1 DEF NowMissing
    <3> QED BY <2>3, <3>2, <3>3 DEF Stay, clockVars, orderVars, nameVars
  <2> QED BY <2>2, <2>3
<1>3. CASE EndPorts \/ CheckMissing \/ EndRegisters
  BY <1>3 DEF EndPorts, CheckMissing, EndRegisters, Throw, Goto, netVars, clockVars, orderVars, nameVars
<1>4. CASE CheckClock
  <2> USE <1>4 DEF CheckClock
  <2>1. CASE ~IsRegister(cells[pos]) \/ BadClock(ClockOf(cells[pos]))
    BY <2>1 DEF Throw, Goto, Stay, netVars, clockVars, orderVars, nameVars
  <2>2. CASE IsRegister(cells[pos]) /\ ~BadClock(ClockOf(cells[pos]))
    <3>1. ClockOf(cells[pos]) \in Signal
      <4>1. IsCell(net.cells[cells[pos]]) /\ HasPorts(cells[pos])
        BY <1>a, NetShape
      <4>2. "C" \in InputLetters(Type(cells[pos]))
        BY <2>2 DEF IsRegister, InputLetters
      <4> QED BY <4>1, <4>2 DEF IsCell, HasPorts, ClockOf
    <3>2. EdgeOf(cells[pos]) \in BOOLEAN
      BY DEF EdgeOf, dff_clock_trigger, HasBit
    <3> QED BY <2>2, <3>1, <3>2 DEF Stay, netVars, orderVars, nameVars
  <2> QED BY <2>1, <2>2
<1>5. CASE EndClock
  BY <1>5, LoaderAssumption
     DEF EndClock, Available, Throw, Goto, netVars, clockVars, orderVars, nameVars
<1>6. CASE PlaceRegister \/ VisitCell
  <2>1. /\ pos \in 1 .. Len(cells)
        /\ Place(cells[pos]) \/ UNCHANGED orderVars
        /\ Stay /\ UNCHANGED <<net, netVars, clockVars, nameVars>>
    BY <1>6 DEF PlaceRegister, VisitCell
  <2>2. order' \in Seq(DOMAIN net.cells) /\ visited' \subseteq Signal
    <3>1. CASE Place(cells[pos])
      <4>1. cells[pos] \in DOMAIN net.cells /\ Output(cells[pos]) \in Signal
        BY <1>a, <1>b, <2>1
      <4>2. order' = Append(order, cells[pos]) /\ visited' = visited \cup {Output(cells[pos])}
        BY <3>1 DEF Place
      <4>3. order' \in Seq(DOMAIN net.cells)
        BY <4>1, <4>2, AppendFacts
      <4> QED BY <4>1, <4>2, <4>3
    <3> QED BY <2>1, <3>1 DEF orderVars
  <2> QED BY <1>6, <2>1, <2>2 DEF Stay, netVars, clockVars, nameVars, PlaceRegister, VisitCell
<1>7. CASE TestOrder
  BY <1>7 DEF TestOrder, Goto, clockVars, orderVars, nameVars
<1>8. CASE ReadNet
  <2> USE <1>8 DEF ReadNet
  <2>1. net.nets[pos].name \in Name /\ Range(net.nets[pos].bits) \subseteq Signal
    BY VectorTypes
  <2>2. CASE net.nets[pos].name \notin DOMAIN nameBits
    <3>1. AddName(net.nets[pos].name, net.nets[pos].bits)
      BY <2>2
    <3>2. DOMAIN nameBits' \subseteq Name /\ DOMAIN bitName' \subseteq Signal
      BY <2>1, <3>1, AddNameTypes
    <3> QED BY <2>2, <3>2 DEF Stay, netVars, clockVars, orderVars
  <2>3. CASE net.nets[pos].name \in DOMAIN nameBits
    BY <2>3 DEF Throw, Goto, Stay, netVars, clockVars, orderVars, nameVars
  <2> QED BY <2>2, <2>3
<1>9. CASE Finish
  BY <1>9 DEF Finish, Goto, Restrict, netVars, clockVars, orderVars
<1>10. CASE UNCHANGED vars
  BY <1>10 DEF vars, netVars, clockVars, orderVars, nameVars
<1> QED BY <1>1, <1>2, <1>3, <1>4, <1>5, <1>6, <1>7, <1>8, <1>9, <1>10 DEF Next

LEMMA NotYetInvariant ==
  ASSUME IInv, [Next]_vars
  PROVE  NotYet'
<1> USE DEF IInv, NotYet, netVars, clockVars, orderVars, nameVars, Throw, Goto, Stay
<1>1. CASE ReadPort \/ EndPorts \/ ReadCell \/ CheckMissing
  BY <1>1 DEF ReadPort, EndPorts, ReadCell, CheckMissing
<1>2. CASE CheckClock \/ EndClock \/ PlaceRegister \/ EndRegisters
  BY <1>2 DEF CheckClock, EndClock, PlaceRegister, EndRegisters
<1>3. CASE VisitCell \/ TestOrder \/ ReadNet \/ Finish
  BY <1>3 DEF VisitCell, TestOrder, ReadNet, Finish
<1>4. CASE UNCHANGED vars
  BY <1>4 DEF vars
<1> QED BY <1>1, <1>2, <1>3, <1>4 DEF Next

(* The netlist is what it was, and a cell means what it meant.              *)
LEMMA NetKept ==
  ASSUME [Next]_vars
  PROVE  net' = net
  BY DEF Next, vars, ReadPort, EndPorts, ReadCell, CheckMissing, CheckClock, EndClock,
         PlaceRegister, EndRegisters, VisitCell, TestOrder, ReadNet, Finish

LEMMA CellsKept ==
  ASSUME net' = net
  PROVE  /\ \A i : /\ Type(i)' = Type(i) /\ IsRegister(i)' = IsRegister(i)
                  /\ Output(i)' = Output(i) /\ Inputs(i)' = Inputs(i)
                  /\ Skipped(i)' = Skipped(i) /\ HasPorts(i)' = HasPorts(i)
         /\ Cells(net)' = Cells(net)
  BY DEF Type, IsRegister, Output, Inputs, Skipped, HasPorts, Cells, Gates, Registers

(* As many cells placed as there are, each once: all of them are placed.    *)
LEMMA SamePlaces ==
  ASSUME IInv, Len(order) = Len(cells)
  PROVE  Range(order) = Range(cells)
<1>1. /\ Len(cells) \in Nat /\ DOMAIN cells = 1 .. Len(cells)
      /\ DOMAIN order = 1 .. Len(cells)
      /\ cells = [k \in 1 .. Len(cells) |-> cells[k]] /\ order = [k \in 1 .. Len(cells) |-> order[k]]
  BY SequenceTypes DEF IInv, TypeOK
<1> DEFINE I == 1 .. Len(cells)
<1>2. IsFiniteSet(I)
  <2>1. 1 \in Int /\ Len(cells) \in Int
    BY <1>1
  <2> QED BY <2>1, FS_Interval
<1>3. cells \in Surjection(I, Range(cells)) /\ cells \in Injection(I, Range(cells))
  BY <1>1 DEF Range, Surjection, Injection, IsInjective, IInv, CellsRead
<1>4. order \in Surjection(I, Range(order)) /\ order \in Injection(I, Range(order))
  BY <1>1 DEF Range, Surjection, Injection, IsInjective, IInv, CellsComplete
<1>5. IsFiniteSet(Range(cells)) /\ Cardinality(Range(cells)) = Cardinality(I)
  BY <1>2, <1>3, FS_Surjection
<1>6. IsFiniteSet(Range(order)) /\ Cardinality(Range(order)) = Cardinality(I)
  BY <1>2, <1>4, FS_Surjection
<1>7. Range(order) \in SUBSET Range(cells)
  BY DEF IInv, VisitedBacked
<1> QED BY <1>5, <1>6, <1>7, FS_Subset

LEMMA CellsReadInvariant ==
  ASSUME IInv, [Next]_vars
  PROVE  CellsRead'
<1> USE DEF IInv, CellsRead, Throw, Goto, Stay, netVars, clockVars, orderVars, nameVars
<1>a. /\ net' = net /\ \A i : Type(i)' = Type(i) /\ Skipped(i)' = Skipped(i) /\ HasPorts(i)' = HasPorts(i)
  BY NetKept, CellsKept
<1>b. /\ DOMAIN net.cells = 1 .. Len(net.cells) /\ Len(net.cells) \in Nat
      /\ pos \in Nat /\ pos >= 1
  BY DEF TypeOK, IsNetlist
<1>1. CASE ReadPort \/ EndPorts
  BY <1>1, <1>a, <1>b DEF ReadPort, EndPorts, Read, NotYet, Range
<1>2. CASE ReadCell
  <2>1. stage = "cells" /\ pos \in DOMAIN net.cells /\ Range(cells) = Read
    BY <1>2, <1>b DEF ReadCell
  <2>2. CASE Skipped(pos)
    BY <1>2, <1>a, <2>1, <2>2 DEF ReadCell, Read
  <2>3. CASE ~Skipped(pos) /\ ~Accepted(pos)
    BY <1>2, <1>a, <2>1, <2>3 DEF ReadCell
  <2>4. CASE ~Skipped(pos) /\ Accepted(pos)
    <3>1. cells' = Append(cells, pos) /\ stage' = stage /\ pos' = pos + 1
      BY <1>2, <2>4 DEF ReadCell
    <3>2. /\ Range(cells') = Range(cells) \cup {pos} /\ Len(cells) \in Nat
          /\ DOMAIN cells = 1 .. Len(cells) /\ DOMAIN cells' = 1 .. Len(cells) + 1
          /\ \A k \in DOMAIN cells : cells'[k] = cells[k]
          /\ cells'[Len(cells) + 1] = pos
      <4>1. cells \in Seq(DOMAIN net.cells)
        BY DEF TypeOK
      <4> QED BY <2>1, <3>1, <4>1, AppendFacts
    <3>3. Range(cells') = Read'
      BY <1>a, <1>b, <2>1, <2>4, <3>1, <3>2 DEF Read
    <3>4. \A i \in Range(cells') : HasPorts(i)' /\ Type(i)' # CELL_NONE
      BY <1>a, <2>4, <3>2 DEF Accepted
    <3>5. pos \notin Range(cells)
      BY <1>b, <2>1 DEF Read
    <3>6. \A k, m \in DOMAIN cells' : cells'[k] = cells'[m] => k = m
      BY <3>2, <3>5 DEF Range
    <3> QED BY <3>3, <3>4, <3>6
  <2> QED BY <2>2, <2>3, <2>4
<1>3. CASE CheckMissing
  BY <1>3, <1>a, <1>b DEF CheckMissing, Read
<1>4. CASE CheckClock \/ EndClock \/ PlaceRegister \/ EndRegisters \/ VisitCell \/ ReadNet \/ Finish
  BY <1>4, <1>a DEF CheckClock, EndClock, PlaceRegister, EndRegisters, VisitCell, ReadNet, Finish, Read
<1>5. CASE TestOrder
  <2>1. CASE Len(order) # Len(cells)
    BY <1>5, <1>a, <2>1 DEF TestOrder, Read
  <2>2. CASE Len(order) = Len(cells)
    <3>1. cells' = order /\ stage' = "nets" /\ stage = "order"
      BY <1>5, <2>2 DEF TestOrder
    <3>2. Range(order) = Range(cells)
      BY <2>2, SamePlaces
    <3>3. \A k, m \in DOMAIN order : order[k] = order[m] => k = m
      BY DEF CellsComplete
    <3> QED BY <1>a, <3>1, <3>2, <3>3 DEF Read
  <2> QED BY <2>1, <2>2
<1>6. CASE UNCHANGED vars
  BY <1>6, <1>a DEF vars, Read
<1> QED BY <1>1, <1>2, <1>3, <1>4, <1>5, <1>6 DEF Next

(* What placing a cell does to the order.                                   *)
LEMMA PlaceFacts ==
  ASSUME TypeOK, NEW i \in DOMAIN net.cells, Place(i)
  PROVE  /\ Range(order') = Range(order) \cup {i}
         /\ visited' = visited \cup {Output(i)}
         /\ Len(order) \in Nat /\ DOMAIN order = 1 .. Len(order)
         /\ DOMAIN order' = 1 .. Len(order) + 1
         /\ \A k \in DOMAIN order : order'[k] = order[k]
         /\ order'[Len(order) + 1] = i
<1>1. order \in Seq(DOMAIN net.cells) /\ order' = Append(order, i)
  BY DEF TypeOK, Place
<1> QED BY <1>1, AppendFacts DEF Place

(* Only two steps change the order; both place a cell that is not placed    *)
(* and is a register or has its inputs.                                     *)
LEMMA PlaceStep ==
  ASSUME IInv, PlaceRegister \/ VisitCell, ~UNCHANGED orderVars
  PROVE  /\ pos \in DOMAIN cells /\ cells[pos] \in Range(cells) /\ Place(cells[pos])
         /\ cells[pos] \in DOMAIN net.cells
         /\ IsRegister(cells[pos]) \/ Inputs(cells[pos]) \subseteq visited
         /\ cells[pos] \notin Range(order)
         /\ pos' = pos + 1 /\ stage' = stage /\ UNCHANGED <<net, ports, cells>>
<1>1. pos \in Nat \ {0} /\ DOMAIN cells = 1 .. Len(cells) /\ Range(cells) \subseteq DOMAIN net.cells
  BY SequenceTypes DEF IInv, TypeOK
<1>2. /\ pos \in DOMAIN cells /\ Place(cells[pos])
      /\ pos' = pos + 1 /\ stage' = stage /\ UNCHANGED <<net, ports, cells>>
  BY <1>1, SequenceTypes DEF PlaceRegister, VisitCell, Stay, IInv, netVars
<1>3. cells[pos] \in Range(cells)
  BY <1>2 DEF Range
<1>4. CASE PlaceRegister
  <2>1. Range(order) \subseteq {cells[k] : k \in 1 .. pos - 1}
    BY <1>4 DEF IInv, VisitedBacked, PlaceRegister
  <2>2. \A k \in 1 .. pos - 1 : cells[k] # cells[pos]
    BY <1>1, <1>2, SequenceTypes DEF IInv, CellsRead
  <2>3. IsRegister(cells[pos])
    BY <1>4 DEF PlaceRegister
  <2> QED BY <1>1, <1>2, <1>3, <2>1, <2>2, <2>3
<1>5. CASE VisitCell
  <2>1. ~Placed(cells[pos]) /\ Ready(cells[pos])
    BY <1>5 DEF VisitCell
  <2> QED BY <1>1, <1>2, <1>3, <2>1 DEF Placed, Ready
<1> QED BY <1>4, <1>5

LEMMA VisitedInvariant ==
  ASSUME IInv, [Next]_vars
  PROVE  VisitedBacked'
<1> USE DEF IInv, VisitedBacked, NotYet, Throw, Goto, Stay, netVars, clockVars, orderVars, nameVars
<1>a. net' = net /\ \A i : Output(i)' = Output(i)
  BY NetKept, CellsKept
<1>1. CASE ReadPort \/ EndPorts \/ ReadCell \/ CheckMissing \/ CheckClock
  <2>1. order = << >> /\ visited = {} /\ UNCHANGED <<order, visited>> /\ stage' # "registers"
    BY <1>1 DEF ReadPort, EndPorts, ReadCell, CheckMissing, CheckClock
  <2> QED BY <2>1 DEF Range
<1>2. CASE EndClock
  <2>1. order = << >> /\ order' = order /\ (visited' = Available \/ visited' = {}) /\ ports' = ports
    BY <1>2 DEF EndClock
  <2> QED BY <2>1 DEF Range, Available
<1>3. CASE PlaceRegister \/ VisitCell
  <2>1. CASE UNCHANGED orderVars
    <3>1. UNCHANGED <<cells, ports, stage, order, visited>> /\ pos' = pos + 1 /\ pos \in Nat \ {0}
      BY <1>3, <2>1 DEF PlaceRegister, VisitCell, TypeOK
    <3> QED BY <1>a, <3>1
  <2>2. CASE ~UNCHANGED orderVars
    <3>1. /\ cells[pos] \in Range(cells) /\ Place(cells[pos]) /\ cells[pos] \in DOMAIN net.cells
          /\ UNCHANGED <<cells, ports, stage>> /\ pos' = pos + 1 /\ pos \in Nat \ {0}
      BY <1>3, <2>2, PlaceStep DEF TypeOK
    <3>2. Range(order') = Range(order) \cup {cells[pos]} /\ visited' = visited \cup {Output(cells[pos])}
      BY <3>1, PlaceFacts
    <3> QED BY <1>a, <3>1, <3>2
  <2> QED BY <2>1, <2>2
<1>4. CASE EndRegisters \/ ReadNet \/ Finish
  BY <1>4, <1>a DEF EndRegisters, ReadNet, Finish
<1>5. CASE TestOrder
  BY <1>5, <1>a DEF TestOrder
<1>6. CASE UNCHANGED vars
  BY <1>6, <1>a DEF vars
<1> QED BY <1>1, <1>2, <1>3, <1>4, <1>5, <1>6 DEF Next

LEMMA TopologicalInvariant ==
  ASSUME IInv, [Next]_vars
  PROVE  OrderTopological'
<1> USE DEF OrderTopological
<1>a. net' = net /\ \A i : /\ IsRegister(i)' = IsRegister(i)
                          /\ Output(i)' = Output(i) /\ Inputs(i)' = Inputs(i)
  BY NetKept, CellsKept
<1>1. CASE ReadPort
  BY <1>1 DEF ReadPort, IInv, NotYet, Throw, orderVars
<1>2. CASE ~ReadPort /\ UNCHANGED order
  <2>1. ports' = ports
    BY <1>2 DEF Next, vars, EndPorts, ReadCell, CheckMissing, CheckClock, EndClock, PlaceRegister,
                EndRegisters, VisitCell, TestOrder, ReadNet, Finish, Throw, netVars
  <2> QED BY <1>2, <1>a, <2>1 DEF IInv
<1>3. CASE ~UNCHANGED order /\ (PlaceRegister \/ VisitCell)
  <2>1. /\ Place(cells[pos]) /\ cells[pos] \in DOMAIN net.cells /\ ports' = ports
        /\ IsRegister(cells[pos]) \/ Inputs(cells[pos]) \subseteq visited
    BY <1>3, PlaceStep DEF orderVars
  <2>2. /\ Len(order) \in Nat /\ DOMAIN order = 1 .. Len(order)
        /\ DOMAIN order' = 1 .. Len(order) + 1
        /\ \A k \in DOMAIN order : order'[k] = order[k]
        /\ order'[Len(order) + 1] = cells[pos]
    BY <2>1, PlaceFacts DEF IInv
  <2>3. visited \subseteq ports["input"] \cup ConstSignal \cup {Output(order[m]) : m \in 1 .. Len(order)}
    BY <2>2 DEF IInv, VisitedBacked, Range
  <2> DEFINE Before(k) == ports["input"] \cup ConstSignal \cup {Output(order[m]) : m \in 1 .. k - 1}
  <2>4. ASSUME NEW k \in DOMAIN order'
        PROVE  IsRegister(order'[k]) \/ Inputs(order'[k]) \subseteq Before(k)
    <3>1. CASE k \in DOMAIN order
      BY <2>2, <3>1 DEF IInv
    <3>2. CASE k = Len(order) + 1
      BY <2>1, <2>2, <2>3, <3>2
    <3> QED BY <2>2, <2>4, <3>1, <3>2
  <2>5. \A k \in DOMAIN order' : \A m \in 1 .. k - 1 : order'[m] = order[m]
    BY <2>2
  <2> QED BY <1>a, <2>1, <2>4, <2>5
<1>4. ~UNCHANGED order => PlaceRegister \/ VisitCell
  BY DEF Next, vars, ReadPort, EndPorts, ReadCell, CheckMissing, CheckClock, EndClock,
         EndRegisters, TestOrder, ReadNet, Finish, Throw, orderVars
<1> QED BY <1>1, <1>2, <1>3, <1>4

LEMMA CompleteInvariant ==
  ASSUME IInv, [Next]_vars
  PROVE  CellsComplete'
<1> USE DEF IInv, CellsComplete, Throw, Goto, Stay, netVars, clockVars, orderVars, nameVars
<1>a. net' = net /\ Cells(net)' = Cells(net)
  BY NetKept, CellsKept
<1>1. CASE ReadPort \/ EndPorts \/ ReadCell \/ CheckMissing \/ CheckClock \/ EndClock \/ EndRegisters
  BY <1>1 DEF ReadPort, EndPorts, ReadCell, CheckMissing, CheckClock, EndClock, EndRegisters
<1>2. CASE PlaceRegister \/ VisitCell
  <2>1. stage' \notin {"nets", "loaded"}
    BY <1>2 DEF PlaceRegister, VisitCell
  <2>2. CASE UNCHANGED orderVars
    BY <2>1, <2>2
  <2>3. CASE ~UNCHANGED orderVars
    <3>1. Place(cells[pos]) /\ cells[pos] \in DOMAIN net.cells /\ cells[pos] \notin Range(order)
      BY <1>2, <2>3, PlaceStep
    <3>2. /\ Len(order) \in Nat /\ DOMAIN order = 1 .. Len(order)
          /\ DOMAIN order' = 1 .. Len(order) + 1
          /\ \A k \in DOMAIN order : order'[k] = order[k]
          /\ order'[Len(order) + 1] = cells[pos]
      BY <3>1, PlaceFacts
    <3>3. \A k \in DOMAIN order : order[k] # cells[pos]
      BY <3>1 DEF Range
    <3>4. \A k, m \in DOMAIN order' : order'[k] = order'[m] => k = m
      BY <3>2, <3>3
    <3> QED BY <2>1, <3>4
  <2> QED BY <2>2, <2>3
<1>3. CASE TestOrder
  <2>1. CASE Len(order) # Len(cells)
    BY <1>3, <2>1 DEF TestOrder
  <2>2. CASE Len(order) = Len(cells)
    <3>1. cells' = order /\ order' = order /\ stage = "order"
      BY <1>3, <2>2 DEF TestOrder
    <3>2. Range(order) = Read
      BY <2>2, <3>1, SamePlaces DEF CellsRead
    <3>3. \A i \in Range(order) : Type(i) # CELL_NONE
      BY <2>2, SamePlaces DEF CellsRead
    <3>4. Cells(net) \subseteq DOMAIN net.cells
      BY DEF Cells, Gates, Registers
    <3>5. Range(order) = Cells(net)
      BY <3>1, <3>2, <3>3, <3>4, CellPorts DEF Read, TypeOK
    <3> QED BY <1>a, <3>1, <3>5
  <2> QED BY <2>1, <2>2
<1>4. CASE ReadNet \/ Finish
  BY <1>4, <1>a DEF ReadNet, Finish
<1>5. CASE UNCHANGED vars
  BY <1>5, <1>a DEF vars
<1> QED BY <1>1, <1>2, <1>3, <1>4, <1>5 DEF Next

LEMMA MissingInvariant ==
  ASSUME IInv, [Next]_vars
  PROVE  MissingExact'
<1> USE DEF MissingExact, Throw, Goto, Stay, netVars, clockVars, orderVars, nameVars
<1>a. net' = net /\ \A i : Output(i)' = Output(i) /\ Inputs(i)' = Inputs(i)
  BY NetKept, CellsKept
<1>1. CASE EndPorts
  <2>1. missing' = {} /\ cells' = << >>
    BY <1>1 DEF EndPorts, IInv, NotYet
  <2> QED BY <2>1 DEF Range
<1>2. CASE ReadCell
  <2>1. CASE Skipped(pos) \/ ~Accepted(pos)
    BY <1>2, <1>a, <2>1 DEF ReadCell, IInv
  <2>2. CASE ~Skipped(pos) /\ Accepted(pos)
    <3>1. /\ stage = "cells" /\ missing' = NowMissing(pos)
          /\ signals' = signals \cup {Output(pos)} /\ cells' = Append(cells, pos)
      BY <1>2, <2>2 DEF ReadCell
    <3>2. pos \in DOMAIN net.cells /\ cells \in Seq(DOMAIN net.cells)
      BY <1>2, NetShape DEF ReadCell, IInv, TypeOK
    <3>3. Range(cells') = Range(cells) \cup {pos}
      BY <3>1, <3>2, AppendFacts
    <3>4. missing = (UNION {Inputs(i) : i \in Range(cells)}) \ signals
      BY <3>1 DEF IInv
    <3>5. missing' = (UNION {Inputs(i) : i \in Range(cells')}) \ signals'
      BY <3>1, <3>3, <3>4 DEF NowMissing
    <3> QED BY <1>a, <3>5
  <2> QED BY <2>1, <2>2
<1>3. CASE ReadPort \/ CheckMissing \/ CheckClock \/ EndClock \/ PlaceRegister \/ EndRegisters
  BY <1>3 DEF ReadPort, CheckMissing, CheckClock, EndClock, PlaceRegister, EndRegisters
<1>4. CASE VisitCell \/ TestOrder \/ ReadNet \/ Finish
  BY <1>4 DEF VisitCell, TestOrder, ReadNet, Finish
<1>5. CASE UNCHANGED vars
  BY <1>5, <1>a DEF vars, IInv
<1> QED BY <1>1, <1>2, <1>3, <1>4, <1>5 DEF Next

-----------------------------------------------------------------------------
(* What is known of the netlist while the constructor runs.                 *)

LEMMA Alive ==
  ASSUME IInv, [Next]_vars, stage' # "failed"
  PROVE  stage # "failed" /\ PortsKnown /\ NetsKnown /\ DriversKnown /\ ClockKnown /\ BitsKnown
<1>1. stage # "failed"
  <2>1. CASE UNCHANGED vars
    BY <2>1 DEF vars
  <2>2. CASE Next
    BY <2>2 DEF Next, ReadPort, EndPorts, ReadCell, CheckMissing, CheckClock, EndClock,
                PlaceRegister, EndRegisters, VisitCell, TestOrder, ReadNet, Finish
  <2> QED BY <2>1, <2>2
<1> QED BY <1>1 DEF IInv, InputsKnown

(* A new name takes nothing from those that are there.                      *)
LEMMA NameAdded ==
  ASSUME NEW n, NEW b, n \notin DOMAIN nameBits, AddName(n, b)
  PROVE  /\ DOMAIN nameBits' = DOMAIN nameBits \cup {n} /\ nameBits'[n] = b
         /\ \A m \in DOMAIN nameBits : nameBits'[m] = nameBits[m]
         /\ DOMAIN bitName' = DOMAIN bitName \cup Range(b)
         /\ \A s \in DOMAIN bitName : bitName'[s] = bitName[s]
         /\ \A s \in Range(b) \ DOMAIN bitName : bitName'[s] = BitOf(n, b, s)
  BY DEF AddName, AddBitNames

(* The steps that add a name, and all others.                               *)
LEMMA PortNamed ==
  ASSUME ReadPort, stage' # "failed"
  PROVE  /\ stage = "ports" /\ pos <= Len(net.ports) /\ stage' = stage /\ pos' = pos + 1
         /\ net.ports[pos].direction \in {"input", "output"}
         /\ net.ports[pos].name \notin DOMAIN nameBits
         /\ AddName(net.ports[pos].name, net.ports[pos].bits)
         /\ ports' = [ports EXCEPT ![net.ports[pos].direction] = @ \cup Range(net.ports[pos].bits)]
         /\ signals' = signals \cup (IF net.ports[pos].direction = "input" THEN Range(net.ports[pos].bits) ELSE {})
         /\ UNCHANGED <<net, missing, cells, clock, edges>>
  BY DEF ReadPort, Throw, Goto, Stay, clockVars

LEMMA NetNamed ==
  ASSUME ReadNet, stage' # "failed"
  PROVE  /\ stage = "nets" /\ pos <= Len(net.nets) /\ stage' = stage /\ pos' = pos + 1
         /\ UNCHANGED <<net, netVars, clockVars, orderVars>>
         /\ \/ /\ net.nets[pos].name \notin DOMAIN nameBits
               /\ AddName(net.nets[pos].name, net.nets[pos].bits)
            \/ /\ net.nets[pos].name \in DOMAIN nameBits /\ nameBits[net.nets[pos].name] = net.nets[pos].bits
               /\ UNCHANGED nameVars
<1>1. CASE net.nets[pos].name \notin DOMAIN nameBits
  BY <1>1 DEF ReadNet, Throw, Goto, Stay, netVars, clockVars, orderVars
<1>2. CASE net.nets[pos].name \in DOMAIN nameBits /\ nameBits[net.nets[pos].name] = net.nets[pos].bits
  BY <1>2 DEF ReadNet, Throw, Goto, Stay, netVars, clockVars, orderVars
<1>3. CASE net.nets[pos].name \in DOMAIN nameBits /\ nameBits[net.nets[pos].name] # net.nets[pos].bits
  BY <1>3 DEF ReadNet, Throw, Goto
<1> QED BY <1>1, <1>2, <1>3

(* What they do to the names.                                               *)
Adds(n, b) ==
  /\ DOMAIN nameBits' = DOMAIN nameBits \cup {n} /\ nameBits'[n] = b
  /\ \A m \in DOMAIN nameBits : nameBits'[m] = nameBits[m]
  /\ DOMAIN bitName' = DOMAIN bitName \cup Range(b)
  /\ \A s \in DOMAIN bitName : bitName'[s] = bitName[s]
  /\ \A s \in Range(b) \ DOMAIN bitName : bitName'[s] = BitOf(n, b, s)

LEMMA PortAdded ==
  ASSUME ReadPort, stage' # "failed"
  PROVE  Adds(net.ports[pos].name, net.ports[pos].bits)
<1>1. PICK n, b : n = net.ports[pos].name /\ b = net.ports[pos].bits
  OBVIOUS
<1>2. n \notin DOMAIN nameBits /\ AddName(n, b)
  BY <1>1, PortNamed
<1>3. Adds(n, b)
  BY ONLY <1>2, NameAdded DEF Adds
<1> QED BY <1>1, <1>3

LEMMA NetAdded ==
  ASSUME ReadNet, stage' # "failed", net.nets[pos].name \notin DOMAIN nameBits
  PROVE  Adds(net.nets[pos].name, net.nets[pos].bits)
<1>1. PICK n, b : n = net.nets[pos].name /\ b = net.nets[pos].bits
  OBVIOUS
<1>2. n \notin DOMAIN nameBits /\ AddName(n, b)
  BY <1>1, NetNamed
<1>3. Adds(n, b)
  BY ONLY <1>2, NameAdded DEF Adds
<1> QED BY <1>1, <1>3

LEMMA NamesElsewhere ==
  ASSUME [Next]_vars, ~ReadPort, ~ReadNet
  PROVE  nameBits' = nameBits /\ (~Finish => bitName' = bitName)
<1> USE DEF Throw, nameVars
<1>1. CASE EndPorts \/ ReadCell \/ CheckMissing \/ CheckClock \/ EndClock
  BY <1>1 DEF EndPorts, ReadCell, CheckMissing, CheckClock, EndClock
<1>2. CASE PlaceRegister \/ EndRegisters \/ VisitCell \/ TestOrder \/ Finish
  BY <1>2 DEF PlaceRegister, EndRegisters, VisitCell, TestOrder, Finish
<1>3. CASE UNCHANGED vars
  BY <1>3 DEF vars
<1> QED BY <1>1, <1>2, <1>3 DEF Next

LEMMA NamedKept ==
  ASSUME IInv, [Next]_vars, stage' # "failed", NEW n, NEW b, Named(n, b)
  PROVE  Named(n, b)'
<1>1. CASE ReadPort
  BY <1>1, PortNamed, PortAdded DEF Adds, Named
<1>2. CASE ReadNet
  BY <1>2, NetNamed, NetAdded DEF Adds, Named, nameVars
<1>3. CASE ~ReadPort /\ ~ReadNet
  BY <1>3, NamesElsewhere DEF Named
<1> QED BY <1>1, <1>2, <1>3

LEMMA PortsElsewhere ==
  ASSUME IInv, [Next]_vars, ~ReadPort, stage' # "failed"
  PROVE  ports' = ports /\ PortsRead' = PortsRead
<1>a. net' = net
  BY NetKept
<1> USE DEF netVars, Stay, Goto, Throw, PortsRead
<1>1. CASE EndPorts
  <2>1. pos \in Nat /\ Len(net.ports) \in Nat
    BY VectorTypes DEF IInv, TypeOK
  <2> QED BY <1>1, <1>a, <2>1 DEF EndPorts
<1>2. CASE ReadCell \/ CheckMissing \/ CheckClock \/ EndClock
  BY <1>2, <1>a DEF ReadCell, CheckMissing, CheckClock, EndClock
<1>3. CASE PlaceRegister \/ EndRegisters \/ VisitCell \/ TestOrder
  BY <1>3, <1>a DEF PlaceRegister, EndRegisters, VisitCell, TestOrder
<1>4. CASE ReadNet \/ Finish
  BY <1>4, <1>a DEF ReadNet, Finish
<1>5. CASE UNCHANGED vars
  BY <1>5 DEF vars
<1> QED BY <1>1, <1>2, <1>3, <1>4, <1>5 DEF Next

LEMMA PortsKnownInvariant ==
  ASSUME IInv, [Next]_vars, stage' # "failed"
  PROVE  PortsKnown'
<1>a. PortsKnown /\ net' = net
  BY Alive, NetKept
<1>1. CASE ReadPort
  <2>1. pos \in Nat \ {0} /\ Len(net.ports) \in Nat /\ ports \in [{"input", "output"} -> SUBSET Signal]
    BY VectorTypes DEF IInv, TypeOK
  <2>2. PortsRead' = PortsRead \cup {pos}
    BY <1>1, <1>a, <2>1, PortNamed DEF PortsRead
  <2>3. \A k : k = pos => Named(net.ports[k].name, net.ports[k].bits)'
    BY <1>1, <1>a, PortNamed, PortAdded DEF Adds, Named
  <2>4. \A k \in PortsRead : Named(net.ports[k].name, net.ports[k].bits)'
    BY <1>a, NamedKept DEF PortsKnown
  <2>5. ASSUME NEW d \in {"input", "output"}
        PROVE  ports'[d] = UNION {Range(net.ports[k].bits) : k \in {k \in PortsRead' : net.ports[k].direction = d}}
    <3>1. CASE net.ports[pos].direction = d
      <4>1. ports'[d] = ports[d] \cup Range(net.ports[pos].bits)
        BY <1>1, <2>1, <3>1, PortNamed
      <4> QED BY <1>a, <2>2, <3>1, <4>1 DEF PortsKnown
    <3>2. CASE net.ports[pos].direction # d
      <4>1. ports'[d] = ports[d]
        BY <1>1, <2>1, <3>2, PortNamed
      <4> QED BY <1>a, <2>2, <3>2, <4>1 DEF PortsKnown
    <3> QED BY <3>1, <3>2
  <2>6. \A k \in PortsRead' : net.ports[k].direction \in {"input", "output"}
    BY <1>1, <1>a, <2>2, PortNamed DEF PortsKnown
  <2> QED BY <1>a, <2>2, <2>3, <2>4, <2>5, <2>6 DEF PortsKnown
<1>2. CASE ~ReadPort
  <2>1. ports' = ports /\ PortsRead' = PortsRead
    BY <1>2, PortsElsewhere
  <2>2. \A k \in PortsRead : Named(net.ports[k].name, net.ports[k].bits)'
    BY <1>a, NamedKept DEF PortsKnown
  <2> QED BY <1>a, <2>1, <2>2 DEF PortsKnown
<1> QED BY <1>1, <1>2

LEMMA NetsKnownInvariant ==
  ASSUME IInv, [Next]_vars, stage' # "failed"
  PROVE  NetsKnown'
<1>a. NetsKnown /\ net' = net
  BY Alive, NetKept
<1>b. pos \in Nat \ {0} /\ Len(net.ports) \in Nat /\ Len(net.nets) \in Nat
  BY VectorTypes DEF IInv, TypeOK
<1>c. \A k \in NetsRead : Named(net.nets[k].name, net.nets[k].bits)'
  BY <1>a, NamedKept DEF NetsKnown
<1>1. CASE ReadPort
  <2>1. PortsRead' = PortsRead \cup {pos} /\ NetsRead' = {} /\ NetsRead = {}
    BY <1>1, <1>a, <1>b, PortNamed DEF PortsRead, NetsRead
  <2>2. DOMAIN nameBits' = DOMAIN nameBits \cup {net.ports[pos].name}
    BY <1>1, PortNamed, PortAdded DEF Adds
  <2> QED BY <1>a, <2>1, <2>2 DEF NetsKnown
<1>2. CASE ReadNet
  <2>1. PortsRead' = PortsRead
    BY <1>2, <1>a, NetNamed DEF PortsRead
  <2>2. NetsRead' = NetsRead \cup {pos}
    BY <1>2, <1>a, <1>b, NetNamed DEF NetsRead
  <2>3. /\ DOMAIN nameBits' = DOMAIN nameBits \cup {net.nets[pos].name}
        /\ \A k : k = pos => Named(net.nets[k].name, net.nets[k].bits)'
    <3>1. CASE net.nets[pos].name \notin DOMAIN nameBits
      BY <1>2, <1>a, <3>1, NetNamed, NetAdded DEF Adds, Named
    <3>2. CASE net.nets[pos].name \in DOMAIN nameBits
      BY <1>2, <1>a, <3>2, NetNamed DEF Named, nameVars
    <3> QED BY <3>1, <3>2
  <2> QED BY <1>a, <1>c, <2>1, <2>2, <2>3 DEF NetsKnown
<1>3. CASE ~ReadPort /\ ~ReadNet
  <2>1. PortsRead' = PortsRead /\ nameBits' = nameBits
    BY <1>3, PortsElsewhere, NamesElsewhere
  <2>2. NetsRead' = NetsRead
    <3> USE DEF NetsRead, Stay, Goto, Throw
    <3>1. CASE EndPorts \/ ReadCell \/ CheckMissing \/ CheckClock \/ EndClock
      BY <1>a, <3>1 DEF EndPorts, ReadCell, CheckMissing, CheckClock, EndClock
    <3>2. CASE PlaceRegister \/ EndRegisters \/ VisitCell
      BY <1>a, <3>2 DEF PlaceRegister, EndRegisters, VisitCell
    <3>3. CASE TestOrder
      BY <1>a, <1>b, <3>3 DEF TestOrder
    <3>4. CASE Finish
      BY <1>a, <1>b, <3>4 DEF Finish
    <3>5. CASE UNCHANGED vars
      BY <3>5 DEF vars
    <3> QED BY <1>3, <3>1, <3>2, <3>3, <3>4, <3>5 DEF Next
  <2> QED BY <1>a, <1>c, <2>1, <2>2 DEF NetsKnown
<1> QED BY <1>1, <1>2, <1>3

LEMMA BitsKnownInvariant ==
  ASSUME IInv, [Next]_vars, stage' # "failed"
  PROVE  BitsKnown'
<1>a. BitsKnown
  BY Alive
<1>1. CASE ReadPort
  BY <1>1, <1>a, PortNamed, PortAdded DEF Adds, BitsKnown
<1>2. CASE ReadNet
  <2>1. CASE net.nets[pos].name \notin DOMAIN nameBits
    BY <1>2, <1>a, <2>1, NetNamed, NetAdded DEF Adds, BitsKnown
  <2>2. CASE net.nets[pos].name \in DOMAIN nameBits
    BY <1>2, <1>a, <2>2, NetNamed DEF BitsKnown, nameVars
  <2> QED BY <2>1, <2>2
<1>3. CASE Finish
  <2>1. nameBits' = nameBits /\ DOMAIN bitName' = DOMAIN bitName \ ConstSignal
    BY <1>3 DEF Finish, Restrict
  <2>2. stage' = "loaded" /\ stage # "loaded"
    BY <1>3 DEF Finish, Goto
  <2> QED BY <1>a, <2>1, <2>2 DEF BitsKnown
<1>4. CASE ~ReadPort /\ ~ReadNet /\ ~Finish
  <2>1. nameBits' = nameBits /\ bitName' = bitName
    BY <1>4, NamesElsewhere
  <2>2. stage' = "loaded" <=> stage = "loaded"
    <3> USE DEF Stay, Goto, Throw
    <3>1. CASE EndPorts \/ ReadCell \/ CheckMissing \/ CheckClock \/ EndClock
      BY <3>1 DEF EndPorts, ReadCell, CheckMissing, CheckClock, EndClock
    <3>2. CASE PlaceRegister \/ EndRegisters \/ VisitCell \/ TestOrder
      BY <3>2 DEF PlaceRegister, EndRegisters, VisitCell, TestOrder
    <3>3. CASE UNCHANGED vars
      BY <3>3 DEF vars
    <3> QED BY <1>4, <3>1, <3>2, <3>3 DEF Next
  <2> QED BY <1>a, <2>1, <2>2 DEF BitsKnown
<1> QED BY <1>1, <1>2, <1>3, <1>4

(* Meanings of cells, kept.                                                 *)
LEMMA MeansKept ==
  ASSUME [Next]_vars
  PROVE  \A i : /\ Output(i)' = Output(i) /\ Inputs(i)' = Inputs(i) /\ CycleInputs(i)' = CycleInputs(i)
                /\ IsRegister(i)' = IsRegister(i) /\ ClockOf(i)' = ClockOf(i) /\ EdgeOf(i)' = EdgeOf(i)
<1>1. net' = net
  BY NetKept
<1> QED BY <1>1 DEF Output, Inputs, CycleInputs, IsRegister, ClockOf, EdgeOf, Type

LEMMA CellRead ==
  ASSUME IInv, ReadCell, stage' # "failed"
  PROVE  /\ stage = "cells" /\ stage' = "cells" /\ UNCHANGED <<ports, clock, edges>>
         /\ \/ UNCHANGED <<signals, cells>>
            \/ /\ Accepted(pos) /\ signals' = signals \cup {Output(pos)}
               /\ Range(cells') = Range(cells) \cup {pos}
<1>1. stage = "cells" /\ pos \in DOMAIN net.cells /\ cells \in Seq(DOMAIN net.cells)
  BY NetShape DEF ReadCell, IInv, TypeOK
<1>2. CASE Skipped(pos)
  BY <1>1, <1>2 DEF ReadCell, Stay, netVars, clockVars
<1>3. CASE ~Skipped(pos) /\ ~Accepted(pos)
  BY <1>3 DEF ReadCell, Throw, Goto
<1>4. CASE ~Skipped(pos) /\ Accepted(pos)
  <2>1. /\ cells' = Append(cells, pos) /\ signals' = signals \cup {Output(pos)}
        /\ stage' = stage /\ UNCHANGED <<ports, clock, edges>>
    BY <1>4 DEF ReadCell, Stay, clockVars
  <2>2. Range(cells') = Range(cells) \cup {pos}
    BY <1>1, <2>1, AppendFacts
  <2> QED BY <1>1, <1>4, <2>1, <2>2
<1> QED BY <1>2, <1>3, <1>4

(* The cells are read in one step, and ordered in another.                  *)
LEMMA CellsElsewhere ==
  ASSUME IInv, [Next]_vars, ~ReadCell, ~ReadPort, stage' # "failed"
  PROVE  UNCHANGED <<signals, ports>> /\ Range(cells') = Range(cells)
<1> USE DEF netVars, Throw, Goto
<1>1. CASE EndPorts \/ CheckMissing \/ CheckClock \/ EndClock \/ PlaceRegister \/ EndRegisters
  BY <1>1 DEF EndPorts, CheckMissing, CheckClock, EndClock, PlaceRegister, EndRegisters
<1>2. CASE VisitCell \/ ReadNet \/ Finish
  BY <1>2 DEF VisitCell, ReadNet, Finish
<1>3. CASE TestOrder
  BY <1>3, SamePlaces DEF TestOrder
<1>4. CASE UNCHANGED vars
  BY <1>4 DEF vars
<1> QED BY <1>1, <1>2, <1>3, <1>4 DEF Next

LEMMA DriversKnownInvariant ==
  ASSUME IInv, [Next]_vars, stage' # "failed"
  PROVE  DriversKnown'
<1>a. DriversKnown
  BY Alive
<1>b. \A i : Output(i)' = Output(i) /\ Inputs(i)' = Inputs(i) /\ CycleInputs(i)' = CycleInputs(i)
  BY MeansKept
<1>1. CASE ReadPort
  <2>1. stage = "ports" /\ stage' = "ports" /\ cells' = cells /\ cells = << >> /\ ports \in [{"input", "output"} -> SUBSET Signal]
    BY <1>1, PortNamed DEF IInv, NotYet, TypeOK
  <2>2. Range(cells) = {}
    BY <2>1 DEF Range
  <2>3. net.ports[pos].direction \in {"input", "output"}
    BY <1>1, PortNamed
  <2>4. signals = ConstSignal \cup ports["input"]
    BY <1>a, <2>2 DEF DriversKnown
  <2>5. signals' = ConstSignal \cup ports'["input"]
    <3>1. CASE net.ports[pos].direction = "input"
      BY <1>1, <2>1, <2>4, <3>1, PortNamed
    <3>2. CASE net.ports[pos].direction = "output"
      BY <1>1, <2>1, <2>4, <3>2, PortNamed
    <3> QED BY <2>3, <3>1, <3>2
  <2> QED BY <2>1, <2>2, <2>5 DEF DriversKnown
<1>2. CASE ReadCell
  <2>1. CASE UNCHANGED <<signals, cells>>
    BY <1>a, <1>b, <1>2, <2>1, CellRead DEF DriversKnown
  <2>2. CASE ~UNCHANGED <<signals, cells>>
    <3>1. /\ Output(pos) \notin CycleInputs(pos) /\ Output(pos) \notin signals
          /\ signals' = signals \cup {Output(pos)} /\ Range(cells') = Range(cells) \cup {pos}
          /\ ports' = ports /\ stage' = "cells"
      BY <1>2, <2>2, CellRead DEF Accepted
    <3>2. PICK i : i = pos
      OBVIOUS
    <3>3. /\ Output(i) \notin CycleInputs(i) /\ Output(i) \notin signals
          /\ signals' = signals \cup {Output(i)} /\ Range(cells') = Range(cells) \cup {i}
      BY <3>1, <3>2
    <3>4. \A j \in Range(cells) : Output(j) \in signals
      BY <1>a DEF DriversKnown
    <3>5. \A j \in Range(cells') : Output(j) \notin ConstSignal \cup ports["input"] \cup CycleInputs(j)
      BY <1>a, <3>3 DEF DriversKnown
    <3>6. \A j, k \in Range(cells') : Output(j) = Output(k) => j = k
      BY <1>a, <3>3, <3>4 DEF DriversKnown
    <3>7. signals' = ConstSignal \cup ports["input"] \cup {Output(j) : j \in Range(cells')}
      BY <1>a, <3>3 DEF DriversKnown
    <3> QED BY <1>b, <3>1, <3>5, <3>6, <3>7 DEF DriversKnown
  <2> QED BY <2>1, <2>2
<1>3. CASE ~ReadPort /\ ~ReadCell
  <2>1. UNCHANGED <<signals, ports>> /\ Range(cells') = Range(cells)
    BY <1>3, CellsElsewhere
  <2>2. stage' \notin {"ports", "cells"} =>
          (UNION {Inputs(i) : i \in Range(cells)}) \cup ports["output"] \subseteq signals
    <3>1. CASE CheckMissing
      <4>1. missing = {} /\ ports["output"] \subseteq signals /\ stage = "cells"
        BY <3>1 DEF CheckMissing, Throw, Goto
      <4> QED BY <4>1 DEF IInv, MissingExact
    <3>2. CASE ~CheckMissing
      <4>1. stage' \notin {"ports", "cells"} => stage \notin {"ports", "cells"}
        BY <1>3, <3>2 DEF Next, vars, EndPorts, CheckClock, EndClock, PlaceRegister, EndRegisters,
                          VisitCell, TestOrder, ReadNet, Finish, Goto
      <4> QED BY <1>a, <4>1 DEF DriversKnown
    <3> QED BY <3>1, <3>2
  <2> QED BY <1>a, <1>b, <2>1, <2>2 DEF DriversKnown
<1> QED BY <1>1, <1>2, <1>3

LEMMA ClockKnownInvariant ==
  ASSUME IInv, [Next]_vars, stage' # "failed"
  PROVE  ClockKnown'
<1>a. ClockKnown
  BY Alive
<1>b. \A i : IsRegister(i)' = IsRegister(i) /\ ClockOf(i)' = ClockOf(i) /\ EdgeOf(i)' = EdgeOf(i)
  BY MeansKept
<1>c. pos \in Nat \ {0} /\ Len(cells) \in Nat /\ DOMAIN cells = 1 .. Len(cells)
  BY SequenceTypes DEF IInv, TypeOK
<1>1. CASE CheckClock
  <2> DEFINE i == cells[pos]
  <2>1. stage = "clock" /\ stage' = "clock" /\ pos' = pos + 1 /\ pos \in DOMAIN cells /\ UNCHANGED cells
    <3>1. stage = "clock" /\ pos \in DOMAIN cells
      BY <1>1, <1>c DEF CheckClock
    <3>2. stage' = "clock" /\ pos' = pos + 1 /\ UNCHANGED cells
      BY <1>1 DEF CheckClock, Throw, Goto, Stay, netVars
    <3> QED BY <3>1, <3>2
  <2>2. {cells[k] : k \in 1 .. pos' - 1} = {cells[k] : k \in 1 .. pos - 1} \cup {i}
    BY <1>c, <2>1
  <2>3. i \in Range(cells)
    BY <2>1 DEF Range
  <2>4. CASE ~IsRegister(i)
    <3>1. UNCHANGED clockVars
      BY <1>1, <2>4 DEF CheckClock
    <3>2. Clocked' = Clocked
      BY <1>b, <2>1, <2>2, <2>4 DEF Clocked
    <3> QED BY <1>a, <1>b, <2>1, <3>1, <3>2 DEF ClockKnown, clockVars
  <2>5. CASE IsRegister(i)
    <3>1. ~BadClock(ClockOf(i)) /\ clock' = ClockOf(i) /\ edges' = edges \cup {EdgeOf(i)}
      BY <1>1, <2>5 DEF CheckClock, Throw, Goto
    <3>2. Clocked' = Clocked \cup {i}
      BY <1>b, <2>1, <2>2, <2>3, <2>5 DEF Clocked
    <3>3. ClockOf(i) \notin ConstSignal
      <4>1. CASE clock = "S_0"
        BY <3>1, <4>1 DEF BadClock
      <4>2. CASE clock # "S_0"
        BY <1>a, <3>1, <4>2 DEF BadClock, ClockKnown
      <4> QED BY <4>1, <4>2
    <3>4. \A j \in Clocked : ClockOf(j) = ClockOf(i)
      <4>1. CASE clock = "S_0"
        BY <1>a, <4>1 DEF ClockKnown, ConstSignal
      <4>2. CASE clock # "S_0"
        BY <1>a, <3>1, <4>2 DEF BadClock, ClockKnown
      <4> QED BY <4>1, <4>2
    <3> HIDE DEF i
    <3> QED BY <1>a, <1>b, <2>1, <3>1, <3>2, <3>3, <3>4 DEF ClockKnown
  <2> QED BY <2>4, <2>5
<1>2. CASE ~CheckClock
  <2>1. UNCHANGED <<clock, edges>>
    BY <1>2 DEF Next, vars, ReadPort, EndPorts, ReadCell, CheckMissing, EndClock, PlaceRegister,
                EndRegisters, VisitCell, TestOrder, ReadNet, Finish, clockVars, Throw
  <2>2. Clocked' = Clocked /\ (stage' \notin {"ports", "cells", "clock"} => edges # BOOLEAN)
    <3>1. CASE ReadPort
      BY <3>1, PortNamed DEF Clocked
    <3>2. CASE EndPorts \/ ReadCell \/ CheckMissing
      <4>1. stage \in {"ports", "cells"} /\ (stage' = "clock" => pos' = 1) /\ stage' \in {"ports", "cells", "clock"}
        BY <3>2 DEF EndPorts, ReadCell, CheckMissing, Goto, Throw, Stay
      <4>2. stage' = "clock" => {cells'[k] : k \in 1 .. pos' - 1} = {}
        BY <4>1
      <4> QED BY <4>1, <4>2 DEF Clocked
    <3>3. CASE EndClock
      <4>1. stage = "clock" /\ pos > Len(cells) /\ stage' = "registers" /\ UNCHANGED cells /\ edges # BOOLEAN
        BY <3>3 DEF EndClock, Goto, Throw, netVars
      <4>2. \A i \in Range(cells) : i \in {cells[k] : k \in 1 .. pos - 1}
        BY <1>c, <4>1 DEF Range
      <4> QED BY <1>b, <4>1, <4>2 DEF Clocked
    <3>4. CASE PlaceRegister \/ EndRegisters \/ VisitCell \/ TestOrder \/ ReadNet \/ Finish
      <4>1. stage \notin {"ports", "cells", "clock"} /\ stage' \notin {"ports", "cells", "clock"}
        BY <3>4 DEF PlaceRegister, EndRegisters, VisitCell, TestOrder, ReadNet, Finish, Goto, Stay, Throw
      <4>2. Range(cells') = Range(cells)
        BY <4>1, CellsElsewhere DEF ReadPort, ReadCell
      <4> QED BY <1>a, <1>b, <4>1, <4>2 DEF Clocked, ClockKnown
    <3>5. CASE UNCHANGED vars
      BY <1>a, <1>b, <3>5 DEF vars, Clocked, ClockKnown, netVars, clockVars
    <3> QED BY <1>2, <3>1, <3>2, <3>3, <3>4, <3>5 DEF Next
  <2> QED BY <1>a, <1>b, <2>1, <2>2 DEF ClockKnown
<1> QED BY <1>1, <1>2

-----------------------------------------------------------------------------
(* Names.                                                                   *)

LEMMA FirstBitFacts ==
  ASSUME NEW S, NEW bits \in Seq(S), NEW s \in Range(bits)
  PROVE  FirstBit(bits, s) \in DOMAIN bits /\ bits[FirstBit(bits, s)] = s
<1>1. DOMAIN bits = 1 .. Len(bits) /\ Len(bits) \in Nat
  OBVIOUS
<1> DEFINE I == {i \in DOMAIN bits : bits[i] = s}
<1>2. I \subseteq Nat /\ I # {}
  BY <1>1 DEF Range
<1>3. PICK i \in I : \A j \in I : ~ (<<j, i>> \in OpToRel(<, Nat))
  <2>1. PICK i \in I : \A j \in I : ~ (<<j, i>> \in OpToRel(<, Nat))
    BY <1>2, NatLessThanWellFounded, WFMin
  <2> QED BY <2>1
<1>4. \A j \in I : ~(j < i)
  BY <1>2, <1>3 DEF OpToRel
<1>5. \A j \in 1 .. i - 1 : bits[j] # s
  <2>1. SUFFICES ASSUME NEW j \in 1 .. i - 1, bits[j] = s PROVE FALSE
    OBVIOUS
  <2>2. i \in 1 .. Len(bits)
    BY <1>1
  <2>3. j \in 1 .. Len(bits) /\ j < i
    BY <1>1, <2>2
  <2> QED BY <1>1, <1>4, <2>1, <2>3
<1>6. \E k \in DOMAIN bits : bits[k] = s /\ \A j \in 1 .. k - 1 : bits[j] # s
  BY <1>5
<1> QED BY <1>6 DEF FirstBit

(* The name of a bit says where the bit is.                                 *)
IsBitAt(s, b) == b.name \in DOMAIN nameBits /\ b.pos \in DOMAIN nameBits[b.name] /\ nameBits[b.name][b.pos] = s

LEMMA NameOfNew ==
  ASSUME NEW n, NEW b \in Seq(Signal), Adds(n, b), n \notin DOMAIN nameBits,
         \A s \in DOMAIN bitName : IsBitAt(s, bitName[s])
  PROVE  \A s \in DOMAIN bitName' : IsBitAt(s, bitName[s])'
<1>1. SUFFICES ASSUME NEW s \in DOMAIN bitName' PROVE IsBitAt(s, bitName[s])'
  OBVIOUS
<1>2. CASE s \in DOMAIN bitName
  <2>1. IsBitAt(s, bitName[s]) /\ bitName'[s] = bitName[s]
    BY <1>2 DEF Adds
  <2> QED BY <2>1 DEF Adds, IsBitAt
<1>3. CASE s \notin DOMAIN bitName
  <2>1. s \in Range(b) /\ bitName'[s] = BitOf(n, b, s)
    BY <1>1, <1>3 DEF Adds
  <2>2. FirstBit(b, s) \in DOMAIN b /\ b[FirstBit(b, s)] = s
    BY <2>1, FirstBitFacts
  <2>3. nameBits'[n] = b /\ n \in DOMAIN nameBits'
    BY DEF Adds
  <2> QED BY <2>1, <2>2, <2>3 DEF IsBitAt, BitOf
<1> QED BY <1>2, <1>3

LEMMA VectorBits ==
  ASSUME IsNetlist(net)
  PROVE  /\ \A k \in 1 .. Len(net.ports) : net.ports[k].bits \in Seq(Signal)
         /\ \A k \in 1 .. Len(net.nets) : net.nets[k].bits \in Seq(Signal)
<1>1. /\ net.ports \in Seq([name : Name, direction : STRING, bits : Seq(Signal)])
      /\ net.nets \in Seq([name : Name, bits : Seq(Signal)])
  BY DEF IsNetlist
<1>2. \A k \in 1 .. Len(net.ports) : net.ports[k] \in [name : Name, direction : STRING, bits : Seq(Signal)]
  BY <1>1, Elements
<1>3. \A k \in 1 .. Len(net.nets) : net.nets[k] \in [name : Name, bits : Seq(Signal)]
  BY <1>1, Elements
<1> QED BY <1>2, <1>3

LEMMA NamesRightInvariant ==
  ASSUME IInv, [Next]_vars
  PROVE  NamesRight'
<1>a. net' = net
  BY NetKept
<1>b. \A s \in DOMAIN bitName : IsBitAt(s, bitName[s])
  BY DEF IInv, NamesRight, IsBitAt
<1>c. pos \in Nat \ {0} /\ IsNetlist(net)
  BY DEF IInv, TypeOK
<1>1. CASE stage' = "failed"
  <2>1. UNCHANGED nameVars
    <3> USE <1>1 DEF Throw, Stay, Goto
    <3>1. CASE ReadPort
      BY <3>1 DEF ReadPort
    <3>2. CASE EndPorts \/ ReadCell \/ CheckMissing \/ CheckClock \/ EndClock
      BY <3>2 DEF EndPorts, ReadCell, CheckMissing, CheckClock, EndClock
    <3>3. CASE PlaceRegister \/ EndRegisters \/ VisitCell \/ TestOrder \/ Finish
      BY <3>3 DEF PlaceRegister, EndRegisters, VisitCell, TestOrder, Finish
    <3>4. CASE ReadNet
      BY <3>4 DEF ReadNet
    <3>5. CASE UNCHANGED vars
      BY <3>5 DEF vars
    <3> QED BY <3>1, <3>2, <3>3, <3>4, <3>5 DEF Next
  <2> QED BY <1>1, <1>a, <2>1 DEF IInv, NamesRight, nameVars
<1>2. CASE stage' # "failed"
  <2>1. \A s \in DOMAIN bitName' : IsBitAt(s, bitName[s])'
    <3>1. CASE ReadPort
      <4>1. PICK n, b : n = net.ports[pos].name /\ b = net.ports[pos].bits
        OBVIOUS
      <4>2. pos \in 1 .. Len(net.ports)
        BY <1>2, <1>c, <3>1, PortNamed, VectorTypes
      <4>3. b \in Seq(Signal) /\ Adds(n, b) /\ n \notin DOMAIN nameBits
        BY <1>2, <1>c, <3>1, <4>1, <4>2, PortNamed, PortAdded, VectorBits
      <4> QED BY ONLY <1>b, <4>3, NameOfNew
    <3>2. CASE ReadNet /\ net.nets[pos].name \notin DOMAIN nameBits
      <4>1. PICK n, b : n = net.nets[pos].name /\ b = net.nets[pos].bits
        OBVIOUS
      <4>2. pos \in 1 .. Len(net.nets)
        BY <1>2, <1>c, <3>2, NetNamed, VectorTypes
      <4>3. b \in Seq(Signal) /\ Adds(n, b) /\ n \notin DOMAIN nameBits
        BY <1>2, <1>c, <3>2, <4>1, <4>2, NetAdded, VectorBits
      <4> QED BY ONLY <1>b, <4>3, NameOfNew
    <3>3. CASE ReadNet /\ net.nets[pos].name \in DOMAIN nameBits
      <4>1. UNCHANGED nameVars
        BY <1>2, <3>3, NetNamed
      <4> QED BY <1>b, <4>1 DEF IsBitAt, nameVars
    <3>4. CASE Finish
      <4>1. /\ nameBits' = nameBits /\ DOMAIN bitName' \subseteq DOMAIN bitName
            /\ \A s \in DOMAIN bitName' : bitName'[s] = bitName[s]
        BY <3>4 DEF Finish, Restrict
      <4> QED BY <1>b, <4>1 DEF IsBitAt
    <3>5. CASE ~ReadPort /\ ~ReadNet /\ ~Finish
      <4>1. nameBits' = nameBits /\ bitName' = bitName
        BY <3>5, NamesElsewhere
      <4> QED BY <1>b, <4>1 DEF IsBitAt
    <3> QED BY <3>1, <3>2, <3>3, <3>4, <3>5
  <2>2. ASSUME stage' = "loaded", NEW v \in Range(net.ports) \cup Range(net.nets)
        PROVE  Range(v.bits) \ ConstSignal \subseteq DOMAIN bitName'
    <3>1. PortsKnown' /\ NetsKnown' /\ BitsKnown'
      BY <1>2, PortsKnownInvariant, NetsKnownInvariant, BitsKnownInvariant
    <3>2. PortsRead' = 1 .. Len(net.ports) /\ NetsRead' = 1 .. Len(net.nets)
      BY <1>a, <2>2 DEF PortsRead, NetsRead
    <3>3. DOMAIN net.ports = 1 .. Len(net.ports) /\ DOMAIN net.nets = 1 .. Len(net.nets)
      BY <1>c DEF IsNetlist
    <3>4. v.name \in DOMAIN nameBits' /\ nameBits'[v.name] = v.bits
      <4>1. CASE v \in Range(net.ports)
        <5>1. PICK k \in DOMAIN net.ports : v = net.ports[k]
          BY <4>1 DEF Range
        <5> QED BY <1>a, <3>1, <3>2, <3>3, <5>1 DEF PortsKnown, Named
      <4>2. CASE v \in Range(net.nets)
        <5>1. PICK k \in DOMAIN net.nets : v = net.nets[k]
          BY <4>2 DEF Range
        <5> QED BY <1>a, <3>1, <3>2, <3>3, <5>1 DEF NetsKnown, Named
      <4> QED BY <4>1, <4>2
    <3>5. Range(nameBits'[v.name]) \ ConstSignal \subseteq DOMAIN bitName'
      BY <2>2, <3>1, <3>4 DEF BitsKnown
    <3> QED BY <3>4, <3>5
  <2> QED BY <1>a, <2>1, <2>2 DEF NamesRight, IsBitAt
<1> QED BY <1>1, <1>2

-----------------------------------------------------------------------------
(* The verdict.  First what the fields of a constructor that runs have to   *)
(* do with what its netlist must be.                                        *)

LEMMA CellsOfNetlist ==
  ASSUME IInv
  PROVE  /\ \A i \in Range(cells) : i \in Cells(net) /\ HasPorts(i) /\ ~Skipped(i) /\ i \in DOMAIN net.cells
         /\ stage \notin {"ports", "cells", "failed"} =>
              /\ Range(cells) = Cells(net)
              /\ \A i \in DOMAIN net.cells : i \in Cells(net) \/ Skipped(i)
<1>1. IsNetlist(net) /\ Range(cells) \subseteq DOMAIN net.cells
  BY SequenceTypes DEF IInv, TypeOK
<1>2. \A i \in Range(cells) : HasPorts(i) /\ Type(i) # CELL_NONE
  BY DEF IInv, CellsRead
<1>3. \A i \in Range(cells) : i \in Cells(net) /\ ~Skipped(i)
  BY <1>1, <1>2, CellPorts
<1>4. ASSUME stage \notin {"ports", "cells", "failed"}
      PROVE  \A i \in DOMAIN net.cells : i \in Range(cells) <=> ~Skipped(i)
  BY <1>4 DEF IInv, CellsRead, Read
<1>5. Cells(net) \subseteq DOMAIN net.cells
  BY DEF Cells, Gates, Registers
<1>6. \A i \in Cells(net) : ~Skipped(i)
  BY <1>1, <1>5, CellPorts
<1> QED BY <1>1, <1>2, <1>3, <1>4, <1>5, <1>6

LEMMA PortsOfNetlist ==
  ASSUME IInv, stage \notin {"ports", "failed"}
  PROVE  /\ ports["input"] = Bits(net, "input") /\ ports["output"] = Bits(net, "output")
         /\ Sources(net) = ConstSignal \cup ports["input"]
<1>1. PortsKnown
  BY DEF IInv, InputsKnown
<1>2. PortsRead = DOMAIN net.ports
  BY DEF PortsRead, IInv, TypeOK, IsNetlist
<1>3. ASSUME NEW d \in {"input", "output"} PROVE ports[d] = Bits(net, d)
  <2>1. ports[d] = UNION {Range(net.ports[k].bits) : k \in {k \in DOMAIN net.ports : net.ports[k].direction = d}}
    BY <1>1, <1>2 DEF PortsKnown
  <2> QED BY <2>1 DEF Bits, Range
<1> QED BY <1>3 DEF Sources

(* Connected of the cells that were read.                                   *)
LEMMA ConnectedWhenRead ==
  ASSUME IInv, stage \notin {"ports", "cells", "failed"}
  PROVE  Connected(net)
<1>1. DriversKnown /\ IsNetlist(net)
  BY DEF IInv, InputsKnown, TypeOK
<1>2. Range(cells) = Cells(net) /\ \A i \in Cells(net) : HasPorts(i)
  BY CellsOfNetlist
<1>3. Sources(net) = ConstSignal \cup ports["input"] /\ ports["output"] = Bits(net, "output")
  BY PortsOfNetlist
<1>4. \A i \in Cells(net) : Needed(net.cells[i].type) \cup {OutLetter(net, i)} \subseteq DOMAIN net.cells[i].conn
  BY <1>1, <1>2, CellMeans
<1>5. \A i \in Cells(net) : Output(i) = Drives(net, i) /\ Inputs(i) = Reads(net, i, {}) /\ CycleInputs(i) = Reads(net, i, {"D"})
  BY <1>1, CellMeans
<1>6. \A i \in Cells(net) : /\ Drives(net, i) \notin Sources(net) \cup Reads(net, i, {"D"})
                            /\ \A j \in Cells(net) \ {i} : Drives(net, i) # Drives(net, j)
  BY <1>1, <1>2, <1>3, <1>5 DEF DriversKnown
<1>7. (UNION {Reads(net, i, {}) : i \in Cells(net)}) \cup Bits(net, "output")
        \subseteq Sources(net) \cup {Drives(net, i) : i \in Cells(net)}
  <2>1. (UNION {Inputs(i) : i \in Cells(net)}) \cup Bits(net, "output")
          \subseteq Sources(net) \cup {Output(i) : i \in Cells(net)}
    BY <1>1, <1>2, <1>3 DEF DriversKnown
  <2> QED BY <1>5, <2>1
<1> QED BY <1>4, <1>6, <1>7 DEF Connected

LEMMA RegisterFacts ==
  ASSUME IsNetlist(net), NEW i \in Registers(net)
  PROVE  /\ i \in Cells(net) /\ IsRegister(i)
         /\ ClockOf(i) = net.cells[i].conn["C"]
         /\ net.cells[i].type[2] \in {"N", "P"} /\ (EdgeOf(i) <=> net.cells[i].type[2] = "P")
         /\ EdgeOf(i) \in BOOLEAN
<1>1. i \in DOMAIN net.cells /\ i \in Cells(net)
  BY DEF Registers, Cells
<1>2. EdgeOf(i) \in BOOLEAN
  BY DEF EdgeOf, dff_clock_trigger, HasBit
<1> QED BY <1>1, <1>2, CellPorts DEF ClockOf, Polarity

LEMMA OneClockWhenRead ==
  ASSUME IInv, stage \notin {"ports", "cells", "clock", "failed"}
  PROVE  OneClock(net)
<1>1. ClockKnown /\ IsNetlist(net)
  BY DEF IInv, InputsKnown, TypeOK
<1>2. Range(cells) = Cells(net)
  BY CellsOfNetlist
<1>3. SUFFICES ASSUME NEW i \in Registers(net), NEW j \in Registers(net)
               PROVE  /\ net.cells[i].conn["C"] = net.cells[j].conn["C"]
                      /\ net.cells[i].conn["C"] \notin ConstSignal
                      /\ net.cells[i].type[2] = net.cells[j].type[2]
  BY DEF OneClock
<1>4. i \in Clocked /\ j \in Clocked
  BY <1>1, <1>2, RegisterFacts DEF Clocked
<1>5. ClockOf(i) = ClockOf(j) /\ ClockOf(i) \notin ConstSignal
  BY <1>1, <1>4 DEF ClockKnown
<1>6. EdgeOf(i) \in edges /\ EdgeOf(j) \in edges /\ edges # BOOLEAN /\ edges \subseteq BOOLEAN
  BY <1>1, <1>4 DEF ClockKnown, IInv, TypeOK
<1>7. EdgeOf(i) \in BOOLEAN /\ EdgeOf(j) \in BOOLEAN
  BY <1>1, RegisterFacts
<1>8. EdgeOf(i) <=> EdgeOf(j)
  <2>1. CASE EdgeOf(i) /\ ~EdgeOf(j)
    <3>1. TRUE \in edges /\ FALSE \in edges
      BY <1>6, <1>7, <2>1
    <3> QED BY <1>6, <3>1
  <2>2. CASE ~EdgeOf(i) /\ EdgeOf(j)
    <3>1. TRUE \in edges /\ FALSE \in edges
      BY <1>6, <1>7, <2>2
    <3> QED BY <1>6, <3>1
  <2> QED BY <1>7, <2>1, <2>2
<1> QED BY <1>1, <1>5, <1>8, RegisterFacts

LEMMA LegalWhenRead ==
  ASSUME IInv, stage = "nets", pos > Len(net.nets)
  PROVE  Legal(net)
<1>1. PortsKnown /\ NetsKnown /\ IsNetlist(net) /\ pos \in Nat /\ Len(net.nets) \in Nat
  BY VectorTypes DEF IInv, InputsKnown, TypeOK
<1>2. PortsRead = DOMAIN net.ports /\ NetsRead = DOMAIN net.nets
  BY <1>1 DEF PortsRead, NetsRead, IsNetlist
<1>3. \A i \in DOMAIN net.cells : i \in Cells(net) \/ net.cells[i].type = <<"$assert">>
  BY CellsOfNetlist DEF Skipped
<1>4. \A i \in DOMAIN net.ports : net.ports[i].direction \in {"input", "output"}
  BY <1>1, <1>2 DEF PortsKnown
<1>5. ASSUME NEW p \in Range(net.ports), NEW q \in Range(net.nets), p.name = q.name
      PROVE  p.bits = q.bits
  <2>1. PICK k \in DOMAIN net.ports : p = net.ports[k]
    BY DEF Range
  <2>2. PICK m \in DOMAIN net.nets : q = net.nets[m]
    BY DEF Range
  <2>3. nameBits[p.name] = p.bits /\ nameBits[q.name] = q.bits
    BY <1>1, <1>2, <2>1, <2>2 DEF PortsKnown, NetsKnown, Named
  <2> QED BY <1>5, <2>3
<1> QED BY <1>3, <1>4, <1>5, ConnectedWhenRead, OneClockWhenRead DEF Legal

(* Of any set of gates the one that was placed first reads none of them.    *)
LEMMA AcyclicWhenPlaced ==
  ASSUME IInv, stage = "nets"
  PROVE  Acyclic(net)
<1>1. /\ Range(order) = Cells(net) /\ OrderTopological /\ IsNetlist(net)
      /\ Len(order) \in Nat /\ DOMAIN order = 1 .. Len(order)
  BY SequenceTypes DEF IInv, CellsComplete, TypeOK
<1>2. SUFFICES ASSUME NEW G \in SUBSET Gates(net), G # {}
               PROVE  \E g \in G : Reads(net, g, {}) \cap {Drives(net, h) : h \in G} = {}
  BY DEF Acyclic
<1>3. G \subseteq Cells(net)
  BY DEF Cells
<1> DEFINE I == {k \in DOMAIN order : order[k] \in G}
<1>4. I \subseteq Nat /\ I # {}
  BY <1>1, <1>2, <1>3 DEF Range
<1>5. PICK k \in I : \A j \in I : ~ (<<j, k>> \in OpToRel(<, Nat))
  BY <1>4, NatLessThanWellFounded, WFMin
<1>6. \A j \in I : ~(j < k)
  BY <1>4, <1>5 DEF OpToRel
<1>7. \A m \in 1 .. k - 1 : order[m] \in Cells(net) /\ order[m] \notin G
  <2>1. SUFFICES ASSUME NEW m \in 1 .. k - 1 PROVE order[m] \in Cells(net) /\ order[m] \notin G
    OBVIOUS
  <2>2. m \in DOMAIN order /\ m < k
    BY <1>1
  <2> QED BY <1>1, <1>6, <2>2 DEF Range
<1> DEFINE g == order[k]
<1>8. g \in G /\ k \in DOMAIN order
  OBVIOUS
<1>9. Inputs(g) \subseteq Sources(net) \cup {Output(order[m]) : m \in 1 .. k - 1}
  <2>1. ~IsRegister(g)
    BY <1>1, <1>3, <1>8, CellMeans
  <2>2. Inputs(g) \subseteq ports["input"] \cup ConstSignal \cup {Output(order[m]) : m \in 1 .. k - 1}
    BY <1>1, <1>8, <2>1 DEF OrderTopological
  <2> QED BY <2>2, PortsOfNetlist
<1>10. \A i \in Cells(net) : Output(i) = Drives(net, i) /\ Inputs(i) = Reads(net, i, {})
  BY <1>1, CellMeans
<1>11. \A i \in Cells(net) : Output(i) \notin Sources(net) /\ \A j \in Cells(net) \ {i} : Output(i) # Output(j)
  <2>1. Connected(net)
    BY ConnectedWhenRead
  <2> QED BY <1>10, <2>1 DEF Connected
<1> HIDE DEF g, I
<1>12. ASSUME NEW h \in G PROVE Output(h) \notin Inputs(g)
  <2>1. Output(h) \notin Sources(net)
    BY <1>3, <1>11
  <2>2. \A m \in 1 .. k - 1 : Output(order[m]) # Output(h)
    BY <1>3, <1>7, <1>11
  <2> QED BY <1>9, <2>1, <2>2
<1>13. Reads(net, g, {}) \cap {Drives(net, h) : h \in G} = {}
  BY <1>3, <1>8, <1>10, <1>12
<1> QED BY <1>8, <1>13

(* A cell that is refused, in the words of the netlist.                     *)
LEMMA RefusedCell ==
  ASSUME IInv, stage = "cells", pos \in DOMAIN net.cells, ~Skipped(pos), ~Accepted(pos)
  PROVE  ~Legal(net)
<1>1. SUFFICES ASSUME Legal(net) PROVE FALSE
  OBVIOUS
<1>2. IsNetlist(net) /\ Connected(net) /\ DriversKnown
  BY <1>1 DEF IInv, TypeOK, InputsKnown, Legal
<1>3. PICK i \in DOMAIN net.cells : i = pos
  OBVIOUS
<1>4. i \in Cells(net)
  BY <1>1, <1>3 DEF Legal, Skipped
<1>5. Type(i) # CELL_NONE
  BY <1>2, <1>4, CellPorts
<1>6. HasPorts(i)
  BY <1>2, <1>4, CellMeans DEF Connected
<1>7. Output(i) \notin CycleInputs(i) /\ Output(i) \notin Sources(net)
  BY <1>2, <1>4, CellMeans DEF Connected
<1>8. i \notin Range(cells)
  BY <1>3 DEF IInv, CellsRead, Read, TypeOK
<1>9. \A j \in Range(cells) : Output(i) # Output(j)
  BY <1>2, <1>4, <1>8, CellsOfNetlist, CellMeans DEF Connected
<1>10. Output(i) \notin signals
  BY <1>2, <1>7, <1>9, PortsOfNetlist DEF DriversKnown
<1>11. Accepted(i)
  BY <1>5, <1>6, <1>7, <1>10 DEF Accepted
<1> QED BY <1>3, <1>11

LEMMA RefusedMissing ==
  ASSUME IInv, stage = "cells", pos > Len(net.cells), missing # {} \/ ~(ports["output"] \subseteq signals)
  PROVE  ~Legal(net)
<1>1. SUFFICES ASSUME Legal(net) PROVE FALSE
  OBVIOUS
<1>2. IsNetlist(net) /\ Connected(net) /\ DriversKnown
  BY <1>1 DEF IInv, TypeOK, InputsKnown, Legal
<1>3. Range(cells) = Cells(net)
  <2>1. \A i \in DOMAIN net.cells : i < pos
    BY <1>2 DEF IsNetlist, IInv, TypeOK
  <2>2. \A i \in DOMAIN net.cells : ~Skipped(i) => i \in Range(cells)
    BY <2>1 DEF IInv, CellsRead, Read
  <2>3. Cells(net) \subseteq DOMAIN net.cells
    BY DEF Cells, Gates, Registers
  <2>4. \A i \in Cells(net) : ~Skipped(i)
    BY <1>2, <2>3, CellPorts
  <2> QED BY <2>2, <2>3, <2>4, CellsOfNetlist
<1>4. \A i \in Cells(net) : Output(i) = Drives(net, i) /\ Inputs(i) = Reads(net, i, {})
  BY <1>2, CellMeans
<1>5. signals = Sources(net) \cup {Drives(net, i) : i \in Cells(net)}
  BY <1>2, <1>3, <1>4, PortsOfNetlist DEF DriversKnown
<1>6. ports["output"] \subseteq signals
  BY <1>2, <1>5, PortsOfNetlist DEF Connected
<1>7. (UNION {Reads(net, i, {}) : i \in Cells(net)}) \subseteq signals
  BY <1>2, <1>5 DEF Connected
<1>8. missing = (UNION {Inputs(i) : i \in Range(cells)}) \ signals
  BY DEF IInv, MissingExact
<1>9. \A i \in Range(cells) : Inputs(i) \subseteq signals
  BY <1>3, <1>4, <1>7
<1>10. missing = {}
  BY <1>8, <1>9
<1> QED BY <1>6, <1>10

LEMMA RefusedClock ==
  ASSUME IInv, stage = "clock", pos \in DOMAIN cells, IsRegister(cells[pos]), BadClock(ClockOf(cells[pos]))
  PROVE  ~Legal(net)
<1>1. SUFFICES ASSUME Legal(net) PROVE FALSE
  OBVIOUS
<1>2. IsNetlist(net) /\ OneClock(net) /\ ClockKnown
  BY <1>1 DEF IInv, TypeOK, InputsKnown, Legal
<1>3. PICK i \in Range(cells) : i = cells[pos]
  BY DEF Range
<1>4. \A j \in Range(cells) : IsRegister(j) => j \in Registers(net)
  <2>1. \A j \in Range(cells) : j \in Cells(net) /\ j \in DOMAIN net.cells
    BY CellsOfNetlist
  <2> QED BY <1>2, <2>1, CellPorts
<1>5. i \in Registers(net)
  BY <1>3, <1>4
<1>6. ClockOf(i) \notin ConstSignal
  BY <1>2, <1>5, RegisterFacts DEF OneClock
<1>7. CASE clock = "S_0"
  BY <1>3, <1>6, <1>7 DEF BadClock
<1>8. CASE clock # "S_0"
  <2>1. PICK j \in Clocked : TRUE
    BY <1>2, <1>8 DEF ClockKnown
  <2>2. ClockOf(j) = clock /\ j \in Registers(net)
    BY <1>2, <1>4, <2>1 DEF ClockKnown, Clocked
  <2>3. ClockOf(i) = ClockOf(j)
    BY <1>2, <1>5, <2>2, RegisterFacts DEF OneClock
  <2> QED BY <1>3, <1>8, <2>2, <2>3 DEF BadClock
<1> QED BY <1>7, <1>8

LEMMA RefusedEdges ==
  ASSUME IInv, stage = "clock", edges = BOOLEAN
  PROVE  ~Legal(net)
<1>1. SUFFICES ASSUME Legal(net) PROVE FALSE
  OBVIOUS
<1>2. IsNetlist(net) /\ OneClock(net) /\ ClockKnown
  BY <1>1 DEF IInv, TypeOK, InputsKnown, Legal
<1>3. TRUE \in edges /\ FALSE \in edges
  OBVIOUS
<1>4. PICK i \in Clocked : EdgeOf(i) = TRUE
  BY <1>2, <1>3 DEF ClockKnown
<1>5. PICK j \in Clocked : EdgeOf(j) = FALSE
  BY <1>2, <1>3 DEF ClockKnown
<1>6. i \in Registers(net) /\ j \in Registers(net)
  <2>1. \A k \in Range(cells) : k \in Cells(net) /\ k \in DOMAIN net.cells
    BY CellsOfNetlist
  <2> QED BY <1>2, <1>4, <1>5, <2>1, CellPorts DEF Clocked
<1>7. net.cells[i].type[2] = net.cells[j].type[2]
  BY <1>2, <1>6 DEF OneClock
<1>8. EdgeOf(i) <=> EdgeOf(j)
  BY <1>2, <1>6, <1>7, RegisterFacts
<1> QED BY <1>4, <1>5, <1>8

LEMMA RefusedPort ==
  ASSUME IInv, stage = "ports", pos <= Len(net.ports),
         net.ports[pos].direction \notin {"input", "output"} \/ net.ports[pos].name \in DOMAIN nameBits
  PROVE  ~Legal(net)
<1>1. IsNetlist(net) /\ PortsKnown /\ NetsKnown /\ pos \in Nat \ {0} /\ Len(net.ports) \in Nat
  BY VectorTypes DEF IInv, TypeOK, InputsKnown
<1>2. pos \in 1 .. Len(net.ports) /\ pos \in DOMAIN net.ports
  BY <1>1 DEF IsNetlist
<1>3. net.ports[pos].name \notin DOMAIN nameBits
  <2>1. NetsRead = {} /\ \A k \in PortsRead : k \in 1 .. Len(net.ports) /\ k # pos
    BY <1>1 DEF NetsRead, PortsRead
  <2>2. \A k \in PortsRead : net.ports[k].name # net.ports[pos].name
    BY <1>1, <1>2, <2>1 DEF IsNetlist
  <2> QED BY <1>1, <2>1, <2>2 DEF NetsKnown
<1> QED BY <1>2, <1>3 DEF Legal

LEMMA RefusedName ==
  ASSUME IInv, stage = "nets", pos <= Len(net.nets), net.nets[pos].name \in DOMAIN nameBits,
         nameBits[net.nets[pos].name] # net.nets[pos].bits
  PROVE  ~Legal(net)
<1>1. IsNetlist(net) /\ PortsKnown /\ NetsKnown /\ pos \in Nat \ {0} /\ Len(net.nets) \in Nat
  BY VectorTypes DEF IInv, TypeOK, InputsKnown
<1>2. pos \in 1 .. Len(net.nets) /\ pos \in DOMAIN net.nets /\ net.nets[pos] \in Range(net.nets)
  BY <1>1 DEF IsNetlist, Range
<1>3. \A k \in NetsRead : net.nets[k].name # net.nets[pos].name
  <2>1. \A k \in NetsRead : k \in 1 .. Len(net.nets) /\ k # pos
    BY <1>1 DEF NetsRead
  <2> QED BY <1>1, <1>2, <2>1 DEF IsNetlist
<1>4. PICK k \in PortsRead : net.ports[k].name = net.nets[pos].name
  BY <1>1, <1>3 DEF NetsKnown
<1>5. nameBits[net.ports[k].name] = net.ports[k].bits
  BY <1>1, <1>4 DEF PortsKnown, Named
<1>6. net.ports[k] \in Range(net.ports)
  BY <1>1, <1>4 DEF PortsRead, IsNetlist, Range
<1> QED BY <1>2, <1>4, <1>5, <1>6 DEF Legal

LEMMA VerdictRightInvariant ==
  ASSUME IInv, [Next]_vars
  PROVE  VerdictRight'
<1>a. net' = net /\ pos \in Nat \ {0} /\ Len(net.cells) \in Nat /\ DOMAIN net.cells = 1 .. Len(net.cells)
      /\ DOMAIN cells = 1 .. Len(cells) /\ Len(cells) \in Nat
  BY NetKept, SequenceTypes DEF IInv, TypeOK, IsNetlist
<1>b. Legal(net)' = Legal(net) /\ Acyclic(net)' = Acyclic(net)
  BY <1>a
<1> USE DEF Stay, Goto
<1>1. CASE UNCHANGED vars
  BY <1>1, <1>b DEF vars, IInv, VerdictRight
<1>2. CASE Finish
  <2>1. stage = "nets" /\ pos > Len(net.nets) /\ stage' = "loaded"
    BY <1>2 DEF Finish
  <2> QED BY <1>b, <2>1, LegalWhenRead, AcyclicWhenPlaced DEF VerdictRight
<1>3. CASE Next /\ ~Finish
  <2>1. stage' # "loaded"
    BY <1>3 DEF Next, ReadPort, EndPorts, ReadCell, CheckMissing, CheckClock, EndClock, PlaceRegister,
                EndRegisters, VisitCell, TestOrder, ReadNet, Throw
  <2>2. ASSUME stage' = "failed" PROVE ~Legal(net)
    <3>1. CASE ReadPort
      <4>1. net.ports[pos].direction \notin {"input", "output"} \/ net.ports[pos].name \in DOMAIN nameBits
        BY <2>2, <3>1 DEF ReadPort
      <4> QED BY <3>1, <4>1, RefusedPort DEF ReadPort
    <3>2. CASE ReadCell
      <4>1. ~Skipped(pos) /\ ~Accepted(pos) /\ stage = "cells" /\ pos \in DOMAIN net.cells
        BY <1>a, <2>2, <3>2 DEF ReadCell
      <4> QED BY <4>1, RefusedCell
    <3>3. CASE CheckMissing
      <4>1. missing # {} \/ ~(ports["output"] \subseteq signals)
        BY <2>2, <3>3 DEF CheckMissing
      <4> QED BY <3>3, <4>1, RefusedMissing DEF CheckMissing
    <3>4. CASE CheckClock
      <4>1. /\ IsRegister(cells[pos]) /\ BadClock(ClockOf(cells[pos]))
            /\ stage = "clock" /\ pos \in DOMAIN cells
        BY <1>a, <2>2, <3>4 DEF CheckClock
      <4> QED BY <4>1, RefusedClock
    <3>5. CASE EndClock
      <4>1. stage = "clock" /\ edges = BOOLEAN
        BY <2>2, <3>5 DEF EndClock
      <4> QED BY <4>1, RefusedEdges
    <3>6. CASE ReadNet
      <4>1. net.nets[pos].name \in DOMAIN nameBits /\ nameBits[net.nets[pos].name] # net.nets[pos].bits
        <5>1. CASE net.nets[pos].name \notin DOMAIN nameBits
          BY <2>2, <3>6, <5>1 DEF ReadNet
        <5>2. CASE net.nets[pos].name \in DOMAIN nameBits /\ nameBits[net.nets[pos].name] = net.nets[pos].bits
          BY <2>2, <3>6, <5>2 DEF ReadNet
        <5> QED BY <5>1, <5>2
      <4> QED BY <3>6, <4>1, RefusedName DEF ReadNet
    <3>7. CASE EndPorts \/ PlaceRegister \/ EndRegisters \/ VisitCell \/ TestOrder
      BY <2>2, <3>7 DEF EndPorts, PlaceRegister, EndRegisters, VisitCell, TestOrder
    <3> QED BY <1>3, <3>1, <3>2, <3>3, <3>4, <3>5, <3>6, <3>7 DEF Next
  <2> QED BY <1>b, <2>1, <2>2 DEF VerdictRight
<1> QED BY <1>1, <1>2, <1>3

LEMMA StepIInv ==
  ASSUME IInv, [Next]_vars
  PROVE  IInv'
<1>1. TypeOK'
  BY TypeInvariant DEF IInv
<1>2. stage' # "failed" => InputsKnown'
  BY PortsKnownInvariant, NetsKnownInvariant, DriversKnownInvariant, ClockKnownInvariant, BitsKnownInvariant
     DEF InputsKnown
<1> QED BY <1>1, <1>2, NotYetInvariant, CellsReadInvariant, VisitedInvariant, TopologicalInvariant,
           CompleteInvariant, MissingInvariant, VerdictRightInvariant, NamesRightInvariant DEF IInv

LEMMA InductiveInvariant == Spec => []IInv
<1>1. IInv /\ [Next]_vars => IInv'
  BY StepIInv
<1> QED BY InitIInv, <1>1, PTL DEF Spec

-----------------------------------------------------------------------------
(* The constructor of a circuit keeps its fields what they are declared as. *)
THEOREM LoaderTypes == Spec => []TypeOK
<1>1. IInv => TypeOK
  BY DEF IInv
<1> QED BY InductiveInvariant, <1>1, PTL

(* For every netlist, the ordering loop of Circuit.cpp places a gate only   *)
(* after the cells it reads.                                                *)
THEOREM OrderIsTopological == Spec => []OrderTopological
<1>1. IInv => OrderTopological
  BY DEF IInv
<1> QED BY InductiveInvariant, <1>1, PTL

(* For every netlist, no cell is placed twice, and when the ordering loop   *)
(* of Circuit.cpp ends m_cells has exactly the gates and registers.         *)
THEOREM NoCellIsLost == Spec => []CellsComplete
<1>1. IInv => CellsComplete
  BY DEF IInv
<1> QED BY InductiveInvariant, <1>1, PTL

(* For every netlist, the set of missing signals has what the cells read    *)
(* and nothing drives, so that its emptiness says what Circuit.cpp asks.    *)
THEOREM MissingIsExact == Spec => []MissingExact
<1>1. IInv => MissingExact
  BY DEF IInv
<1> QED BY InductiveInvariant, <1>1, PTL

(* For every netlist on which the constructor of Circuit ends, it accepts   *)
(* what is legal and refuses what is not, and what it accepts has no        *)
(* combinational loop.                                                      *)
THEOREM VerdictIsRight == Spec => []VerdictRight
<1>1. IInv => VerdictRight
  BY DEF IInv
<1> QED BY InductiveInvariant, <1>1, PTL

(* For every netlist, every bit of every port and net has a name in         *)
(* m_bit_name, and where this name says that the bit is, it is.             *)
THEOREM NamesAreRight == Spec => []NamesRight
<1>1. IInv => NamesRight
  BY DEF IInv
<1> QED BY InductiveInvariant, <1>1, PTL
=============================================================================
