---------------------------- MODULE CircuitLoader ---------------------------
(***************************************************************************)
(* The constructor of a circuit (src/Circuit.cpp): it registers ports,      *)
(* turns the cells of a netlist into cells of the circuit, checks that      *)
(* every signal is driven and that there is one clock, puts the cells in an *)
(* order in which they can be evaluated, and names the signals.             *)
(*                                                                          *)
(* A netlist is what the JSON library delivers: ports, cells and names in   *)
(* the order of their keys, which are distinct.  A port or a name is a      *)
(* vector of signals.                                                       *)
(***************************************************************************)
EXTENDS CellTypes

CONSTANTS
  Signal,  (* the signals, with the four constants                            *)
  Name,    (* the names of ports and nets                                    *)
  Netlist  (* the netlists that may be loaded                                *)

ConstSignal == {"S_0", "S_1", "S_X", "S_Z"}

IsCell(c) == /\ DOMAIN c = {"type", "conn"}
             /\ c.type \in Seq(STRING)
             /\ DOMAIN c.conn \subseteq Letter
             /\ \A l \in DOMAIN c.conn : c.conn[l] \in Signal

IsNetlist(n) ==
  /\ DOMAIN n = {"ports", "cells", "nets"}
  /\ n.ports \in Seq([name : Name, direction : STRING, bits : Seq(Signal)])
  /\ DOMAIN n.cells = 1 .. Len(n.cells) /\ Len(n.cells) \in Nat
  /\ \A i \in DOMAIN n.cells : IsCell(n.cells[i])
  /\ n.nets \in Seq([name : Name, bits : Seq(Signal)])
  /\ \A k, m \in 1 .. Len(n.ports) : n.ports[k].name = n.ports[m].name => k = m
  /\ \A k, m \in 1 .. Len(n.nets) : n.nets[k].name = n.nets[m].name => k = m

ASSUME LoaderAssumption ==
  /\ ConstSignal \subseteq Signal
  /\ \A n \in Netlist : IsNetlist(n)

VARIABLES
  net,      (* the netlist                                                   *)
  stage,    (* where the constructor is; loaded and failed are its ends      *)
  pos,      (* index of the next port, cell or name                          *)
  signals,  (* m_signals: the driven signals                                 *)
  missing,  (* signals read so far and not driven                            *)
  ports,    (* m_in_ports and m_out_ports                                    *)
  cells,    (* m_cells: indices of the cells of the netlist                  *)
  clock,    (* m_sig_clock                                                   *)
  edges,    (* found_pos_edge and found_neg_edge: the edges found            *)
  visited,  (* the keys of visited_sig                                       *)
  order,    (* cell_order                                                    *)
  nameBits, (* m_name_bits                                                   *)
  bitName   (* m_bit_name: a name and a position for a signal                *)

netVars   == <<signals, missing, ports, cells>>
clockVars == <<clock, edges>>
orderVars == <<visited, order>>
nameVars  == <<nameBits, bitName>>
vars == <<net, stage, pos, netVars, clockVars, orderVars, nameVars>>

Empty == [x \in {} |-> 0]

Init ==
  /\ net \in Netlist
  /\ stage = "ports" /\ pos = 1
  /\ signals = ConstSignal /\ missing = {} /\ cells = << >>
  /\ ports = [input |-> {}, output |-> {}]
  /\ clock = "S_0" /\ edges = {}
  /\ visited = {} /\ order = << >>
  /\ nameBits = Empty /\ bitName = Empty

Stay == stage' = stage /\ pos' = pos + 1

(* Mutant: a loop starts before its first element.                          *)
GotoBefore(s) == stage' = s /\ pos' = 0
Goto(s) == stage' = s /\ pos' = 1

Throw == /\ Goto("failed")
         /\ UNCHANGED <<netVars, clockVars, orderVars, nameVars>>

-----------------------------------------------------------------------------
(* Names of signals.                                                        *)

FirstBit(bits, s) ==
  CHOOSE i \in DOMAIN bits : bits[i] = s /\ \A j \in 1 .. i - 1 : bits[j] # s

(* Mutant: the position is lost, as if a vector were one signal.            *)
BitOfOne(name, bits, s) == [name |-> name, pos |-> 1]
BitOf(name, bits, s)    == [name |-> name, pos |-> FirstBit(bits, s)]

(* The first name a signal gets stays: a smaller one is looked for, but     *)
(* emplace_hint does not replace an entry.                                  *)
AddBitNames(name, bits) ==
  bitName' = [s \in DOMAIN bitName \cup Range(bits) |->
                IF s \in DOMAIN bitName THEN bitName[s] ELSE BitOf(name, bits, s)]

AddName(name, bits) ==
  /\ nameBits' = [n \in DOMAIN nameBits \cup {name} |->
                     IF n = name THEN bits ELSE nameBits[n]]
  /\ AddBitNames(name, bits)

-----------------------------------------------------------------------------
(* Ports.                                                                   *)

ReadPort ==
  /\ stage = "ports" /\ pos <= Len(net.ports)
  /\ LET p == net.ports[pos]
     IN  IF p.direction \notin {"input", "output"} \/ p.name \in DOMAIN nameBits THEN Throw
         ELSE /\ AddName(p.name, p.bits)
              /\ ports' = [ports EXCEPT ![p.direction] = @ \cup Range(p.bits)]
              /\ signals' = signals \cup (IF p.direction = "input" THEN Range(p.bits) ELSE {})
              /\ Stay
              /\ UNCHANGED <<missing, cells, clockVars, orderVars>>
  /\ UNCHANGED net

EndPorts ==
  /\ stage = "ports" /\ pos > Len(net.ports)
  /\ Goto("cells")
  /\ UNCHANGED <<net, netVars, clockVars, orderVars, nameVars>>

-----------------------------------------------------------------------------
(* Cells.                                                                   *)

Type(i)      == cell_type_from_string(net.cells[i].type)
IsRegister(i) == is_register(Type(i))
Output(i)    == net.cells[i].conn[OutputLetter(Type(i))]
Inputs(i)    == {net.cells[i].conn[l] : l \in InputLetters(Type(i))}
CycleInputs(i) == {net.cells[i].conn[l] : l \in InputLetters(Type(i)) \ {"D"}}
Skipped(i)   == net.cells[i].type = <<"$assert">>
HasPorts(i)  == InputLetters(Type(i)) \cup {OutputLetter(Type(i))} \subseteq DOMAIN net.cells[i].conn

(* A cell with a type and all its ports, that drives what is not driven     *)
(* yet and reads its own output at most through D.                          *)
Accepted(i) ==
  /\ Type(i) # CELL_NONE
  /\ HasPorts(i)
  /\ Output(i) \notin CycleInputs(i)
  /\ Output(i) \notin signals

(* Mutant: what is driven later stays missing.                             *)
NowMissingForever(i) == missing \cup (Inputs(i) \ signals)
NowMissing(i) == (missing \cup (Inputs(i) \ signals)) \ {Output(i)}

ReadCell ==
  /\ stage = "cells" /\ pos <= Len(net.cells)
  /\ IF Skipped(pos) THEN Stay /\ UNCHANGED <<netVars, clockVars, orderVars, nameVars>>
     ELSE IF ~Accepted(pos) THEN Throw
     ELSE /\ missing' = NowMissing(pos)
          /\ signals' = signals \cup {Output(pos)}
          /\ cells' = Append(cells, pos)
          /\ Stay
          /\ UNCHANGED <<ports, clockVars, orderVars, nameVars>>
  /\ UNCHANGED net

CheckMissing ==
  /\ stage = "cells" /\ pos > Len(net.cells)
  /\ IF missing # {} \/ ~(ports["output"] \subseteq signals) THEN Throw
     ELSE Goto("clock") /\ UNCHANGED <<netVars, clockVars, orderVars, nameVars>>
  /\ UNCHANGED net

-----------------------------------------------------------------------------
(* The clock.  S_0 stands for a clock that is not known yet.                *)

ClockOf(i) == net.cells[i].conn["C"]
EdgeOf(i)  == dff_clock_trigger(Type(i))

(* Mutant: a register whose clock differs is noticed only while no clock is *)
(* known.                                                                   *)
BadClockFirst(c) == clock = "S_0" /\ c \in ConstSignal
BadClock(c) == IF clock = "S_0" THEN c \in ConstSignal ELSE c # clock

CheckClock ==
  /\ stage = "clock" /\ pos <= Len(cells)
  /\ LET i == cells[pos]
     IN  IF ~IsRegister(i) THEN Stay /\ UNCHANGED <<netVars, clockVars, orderVars, nameVars>>
         ELSE IF BadClock(ClockOf(i)) THEN Throw
         ELSE /\ clock' = ClockOf(i)
              /\ edges' = edges \cup {EdgeOf(i)}
              /\ Stay
              /\ UNCHANGED <<netVars, orderVars, nameVars>>
  /\ UNCHANGED net

(* Mutant: the constants are forgotten.                                     *)
AvailableInputs == ports["input"]
Available == ports["input"] \cup ConstSignal

EndClock ==
  /\ stage = "clock" /\ pos > Len(cells)
  /\ IF edges = BOOLEAN THEN Throw
     ELSE /\ Goto("registers")
          /\ visited' = Available
          /\ UNCHANGED <<netVars, clockVars, order, nameVars>>
  /\ UNCHANGED net

-----------------------------------------------------------------------------
(* The order: registers first, as what they hold is there from the start.   *)

Place(i) == /\ order' = Append(order, i)
            /\ visited' = visited \cup {Output(i)}

PlaceRegister ==
  /\ stage = "registers" /\ pos <= Len(cells)
  /\ IF IsRegister(cells[pos]) THEN Place(cells[pos]) ELSE UNCHANGED orderVars
  /\ Stay
  /\ UNCHANGED <<net, netVars, clockVars, nameVars>>

(* The test of the ordering loop is the first thing after it.               *)
EndRegisters ==
  /\ stage = "registers" /\ pos > Len(cells)
  /\ stage' = "order" /\ pos' = pos
  /\ UNCHANGED <<net, netVars, clockVars, orderVars, nameVars>>

(* The loop: passes over the cells until all are placed.                    *)

(* Mutant: what was placed is not remembered.                               *)
PlacedNever(i) == FALSE
Placed(i) == i \in Range(order)
(* Mutant: one visited input is enough.                                     *)
ReadyAny(i) == Inputs(i) \cap visited # {}
Ready(i)  == Inputs(i) \subseteq visited

VisitCell ==
  /\ stage = "order" /\ pos <= Len(cells)
  /\ LET i == cells[pos]
     IN  IF ~Placed(i) /\ Ready(i) THEN Place(i) ELSE UNCHANGED orderVars
  /\ Stay
  /\ UNCHANGED <<net, netVars, clockVars, nameVars>>

TestOrder ==
  /\ stage = "order" /\ pos > Len(cells)
  /\ IF Len(order) = Len(cells)
     THEN Goto("nets") /\ cells' = order
     ELSE Goto("order") /\ UNCHANGED cells
  /\ UNCHANGED <<net, signals, missing, ports, clockVars, orderVars, nameVars>>

-----------------------------------------------------------------------------
(* The other names.                                                         *)

ReadNet ==
  /\ stage = "nets" /\ pos <= Len(net.nets)
  /\ LET n == net.nets[pos]
     IN  CASE n.name \notin DOMAIN nameBits ->
                AddName(n.name, n.bits) /\ Stay /\ UNCHANGED <<netVars, clockVars, orderVars>>
           [] n.name \in DOMAIN nameBits /\ nameBits[n.name] = n.bits ->
                Stay /\ UNCHANGED <<netVars, clockVars, orderVars, nameVars>>
           [] OTHER -> Throw
  /\ UNCHANGED net

Finish ==
  /\ stage = "nets" /\ pos > Len(net.nets)
  /\ bitName' = Restrict(bitName, DOMAIN bitName \ ConstSignal)
  /\ Goto("loaded")
  /\ UNCHANGED <<net, netVars, clockVars, orderVars, nameBits>>

Next == \/ ReadPort \/ EndPorts \/ ReadCell \/ CheckMissing \/ CheckClock
        \/ EndClock \/ PlaceRegister \/ EndRegisters \/ VisitCell \/ TestOrder \/ ReadNet \/ Finish

(* The constructor is one thread that runs as long as it can.               *)
Spec     == Init /\ [][Next]_vars
FairSpec == Spec /\ WF_vars(Next)
-----------------------------------------------------------------------------
(* What a netlist must be, from the names of its types.                     *)

Gates(n)     == {i \in DOMAIN n.cells : n.cells[i].type \in GateName}
Registers(n) == {i \in DOMAIN n.cells : Plain(n.cells[i].type) \in RegisterName}
Cells(n)     == Gates(n) \cup Registers(n)

Needed(x) ==
  CASE x \in {<<"BUF">>, <<"NOT">>}  -> {"A"}
    [] x \in {<<"MUX">>, <<"NMUX">>} -> {"A", "B", "S"}
    [] x \in GateName \ {<<"BUF">>, <<"NOT">>, <<"MUX">>, <<"NMUX">>} -> {"A", "B"}
    [] OTHER -> {"C", "D"} \cup (IF Len(x) >= 4 THEN {"R"} ELSE {})
                          \cup (IF Plain(x)[1] = "DFFE" THEN {"E"} ELSE {})

OutLetter(n, i)   == IF i \in Gates(n) THEN "Y" ELSE "Q"
Drives(n, i)      == n.cells[i].conn[OutLetter(n, i)]
Reads(n, i, data) == {n.cells[i].conn[l] : l \in Needed(n.cells[i].type) \ data}

Bits(n, direction) ==
  UNION {Range(p.bits) : p \in {q \in Range(n.ports) : q.direction = direction}}
Sources(n) == ConstSignal \cup Bits(n, "input")

Connected(n) ==
  /\ \A i \in Cells(n) : Needed(n.cells[i].type) \cup {OutLetter(n, i)} \subseteq DOMAIN n.cells[i].conn
  /\ \A i \in Cells(n) : /\ Drives(n, i) \notin Sources(n) \cup Reads(n, i, {"D"})
                         /\ \A j \in Cells(n) \ {i} : Drives(n, i) # Drives(n, j)
  /\ (UNION {Reads(n, i, {}) : i \in Cells(n)}) \cup Bits(n, "output")
       \subseteq Sources(n) \cup {Drives(n, i) : i \in Cells(n)}

OneClock(n) ==
  \A i, j \in Registers(n) :
    /\ n.cells[i].conn["C"] = n.cells[j].conn["C"]
    /\ n.cells[i].conn["C"] \notin ConstSignal
    /\ n.cells[i].type[2] = n.cells[j].type[2]

Legal(n) ==
  /\ \A i \in DOMAIN n.cells : i \in Cells(n) \/ n.cells[i].type = <<"$assert">>
  /\ \A i \in DOMAIN n.ports : n.ports[i].direction \in {"input", "output"}
  /\ Connected(n)
  /\ OneClock(n)
  /\ \A p \in Range(n.ports), q \in Range(n.nets) : p.name = q.name => p.bits = q.bits

(* In every set of gates there is one that reads none of the others.        *)
Acyclic(n) ==
  \A G \in (SUBSET Gates(n)) \ {{}} :
    \E g \in G : Reads(n, g, {}) \cap {Drives(n, h) : h \in G} = {}

-----------------------------------------------------------------------------
(* Properties.                                                              *)

TypeOK ==
  /\ IsNetlist(net)
  /\ stage \in {"ports", "cells", "clock", "registers", "order", "nets", "loaded", "failed"}
  /\ pos \in Nat \ {0}
  /\ signals \subseteq Signal /\ missing \subseteq Signal
  /\ ports \in [{"input", "output"} -> SUBSET Signal]
  /\ cells \in Seq(DOMAIN net.cells) /\ order \in Seq(DOMAIN net.cells)
  /\ clock \in Signal /\ edges \subseteq BOOLEAN
  /\ visited \subseteq Signal
  /\ DOMAIN nameBits \subseteq Name /\ DOMAIN bitName \subseteq Signal

(* A circuit is built exactly of a legal netlist without combinational      *)
(* loop, whatever order the cells come in; only an illegal one is refused.  *)
VerdictRight ==
  /\ stage = "loaded" => Legal(net) /\ Acyclic(net)
  /\ stage = "failed" => ~Legal(net)

(* A gate is placed after the cells whose outputs it reads, so that one     *)
(* pass of step_cycle over the cells finds every input evaluated.           *)
OrderTopological ==
  \A k \in DOMAIN order :
    \/ IsRegister(order[k])
    \/ Inputs(order[k]) \subseteq
         ports["input"] \cup ConstSignal \cup {Output(order[m]) : m \in 1 .. k - 1}

(* The cells that are evaluated are the cells of the netlist, each once,    *)
(* however many passes the ordering took.                                   *)
CellsComplete ==
  /\ \A k, m \in DOMAIN order : order[k] = order[m] => k = m
  /\ stage \in {"nets", "loaded"} => Range(cells) = Cells(net) /\ cells = order

(* A signal that is read before it is driven counts as missing exactly      *)
(* until a cell drives it.                                                  *)
MissingExact ==
  stage = "cells" => missing = (UNION {Inputs(i) : i \in Range(cells)}) \ signals

(* Every bit of a vector has a name, and where that name says the bit is,   *)
(* it is.  step_cycle takes the labels of all gate outputs from here.       *)
NamesRight ==
  /\ \A s \in DOMAIN bitName :
       LET b == bitName[s]
       IN  /\ b.name \in DOMAIN nameBits
           /\ b.pos \in DOMAIN nameBits[b.name]
           /\ nameBits[b.name][b.pos] = s
  /\ stage = "loaded" =>
       \A v \in Range(net.ports) \cup Range(net.nets) :
         Range(v.bits) \ ConstSignal \subseteq DOMAIN bitName

(* The ordering loop ends when there is no combinational loop.              *)
AcyclicEnds == Acyclic(net) ~> stage \in {"loaded", "failed"}
-----------------------------------------------------------------------------
(* The inductive invariant: besides the properties, what the parts of the   *)
(* constructor know of what the parts before them did.                      *)

(* Nothing is done before its stage.                                        *)
NotYet ==
  /\ stage = "ports" => cells = << >> /\ missing = {}
  /\ stage \in {"ports", "cells", "clock"} => order = << >> /\ visited = {}

(* The cells read are those of the netlist up to the current one, in order. *)
Read == {i \in DOMAIN net.cells : ~Skipped(i) /\ (stage \in {"ports", "cells"} => i < pos)}
CellsRead ==
  /\ \A i \in Range(cells) : HasPorts(i) /\ Type(i) # CELL_NONE
  /\ stage \notin {"ports", "failed"} => Range(cells) = Read
  /\ \A k, m \in DOMAIN cells : cells[k] = cells[m] => k = m

(* A signal is visited because it was there or its cell was placed.         *)
VisitedBacked ==
  /\ Range(order) \subseteq Range(cells)
  /\ visited \subseteq ports["input"] \cup ConstSignal \cup {Output(i) : i \in Range(order)}
  /\ stage = "registers" => Range(order) \subseteq {cells[k] : k \in 1 .. pos - 1}

(* What is known of the ports and the names read so far.                    *)
PortsRead == {k \in 1 .. Len(net.ports) : stage = "ports" => k < pos}
NetsRead  == {k \in 1 .. Len(net.nets) : /\ stage \in {"nets", "loaded"}
                                         /\ stage = "nets" => k < pos}
Named(name, bits) == name \in DOMAIN nameBits /\ nameBits[name] = bits

PortsKnown ==
  /\ \A k \in PortsRead : /\ net.ports[k].direction \in {"input", "output"}
                          /\ Named(net.ports[k].name, net.ports[k].bits)
  /\ \A d \in {"input", "output"} :
       ports[d] = UNION {Range(net.ports[k].bits) : k \in {k \in PortsRead : net.ports[k].direction = d}}

NetsKnown ==
  /\ \A k \in NetsRead : Named(net.nets[k].name, net.nets[k].bits)
  /\ DOMAIN nameBits = {net.ports[k].name : k \in PortsRead} \cup {net.nets[k].name : k \in NetsRead}

(* Every signal has one driver.                                             *)
DriversKnown ==
  /\ signals = ConstSignal \cup ports["input"] \cup {Output(i) : i \in Range(cells)}
  /\ \A i \in Range(cells) : /\ Output(i) \notin ConstSignal \cup ports["input"] \cup CycleInputs(i)
                             /\ \A j \in Range(cells) : Output(i) = Output(j) => i = j
  /\ stage \notin {"ports", "cells"} =>
       (UNION {Inputs(i) : i \in Range(cells)}) \cup ports["output"] \subseteq signals

(* There is one clock for the registers that were looked at.                *)
Clocked == {i \in Range(cells) : /\ IsRegister(i)
                                 /\ stage \notin {"ports", "cells"}
                                 /\ stage = "clock" => i \in {cells[k] : k \in 1 .. pos - 1}}
ClockKnown ==
  /\ edges = {EdgeOf(i) : i \in Clocked}
  /\ Clocked = {} => clock = "S_0"
  /\ \A i \in Clocked : ClockOf(i) = clock /\ clock \notin ConstSignal
  /\ stage \notin {"ports", "cells", "clock"} => edges # BOOLEAN

(* Every name has names for its bits.                                       *)
BitsKnown ==
  \A n \in DOMAIN nameBits : Range(nameBits[n]) \ (IF stage = "loaded" THEN ConstSignal ELSE {}) \subseteq DOMAIN bitName

InputsKnown == PortsKnown /\ NetsKnown /\ DriversKnown /\ ClockKnown /\ BitsKnown

IInv == /\ TypeOK /\ NotYet /\ CellsRead /\ VisitedBacked
        /\ OrderTopological /\ CellsComplete /\ MissingExact
        /\ VerdictRight /\ NamesRight
        /\ stage # "failed" => InputsKnown
=============================================================================
