----------------------------- MODULE Simulator ------------------------------
(***************************************************************************)
(* Symbolic simulation (src/Simulator.h, .cpp): a testbench drives the      *)
(* simulator cycle by cycle, allocates secrets, data and masks, and assigns *)
(* them to the inputs of a circuit; the simulator evaluates the cells and   *)
(* generates the function of the cycle, which stores every new wire in a    *)
(* slot of its own.                                                         *)
(*                                                                          *)
(* gen is what is being generated: the manager m, the slots reads[v] that   *)
(* the code of variable v reads, the label of every slot (m_debug_info),    *)
(* the number of inputs so far, and code, the statements of every           *)
(* run_circuit_cycle_k, each [slot, reads].                                 *)
(***************************************************************************)
EXTENDS Cell, SequencesExt

CONSTANTS
  Circuit,      (* circuits [in, reg, gate] with the gates in order          *)
  Indices,      (* the index ranges <<low, high>> a testbench allocates: the *)
                (* code puts the smaller index first                         *)
  ShareCounts,  (* the numbers of shares it asks for                         *)
  LateMasks,    (* whether it allocates masks after a cycle was stepped      *)
  Retries,      (* whether it catches the error of a mask redefinition       *)
  MaxInputs,    (* bound: inputs of the simulation                           *)
  MaxCycles     (* bound: cycles simulated                                   *)

SpecialSignals == {"S_0", "S_1", "S_X", "S_Z"}
RegisterOuts(c) == {c.reg[i].q : i \in DOMAIN c.reg}

(* The signals that have a value before gate k is evaluated, and all.       *)
Before(c, k) == SpecialSignals \cup c.in \cup RegisterOuts(c) \cup {c.gate[j].out : j \in 1 .. k - 1}
Signals(c)   == Before(c, Len(c.gate) + 1)

(* A gate drives a signal of its own, from signals that have a value; ...   *)
GateWired(c, k) ==
  LET g == c.gate[k]
  IN  /\ g.kind \in {"unary", "binary", "mux"} /\ {g.neg, g.neg2} \subseteq BOOLEAN
      /\ g.kind = "binary" => g.op \in {"and", "or", "xor"}
      /\ DOMAIN g.in = 1 .. (CASE g.kind = "unary" -> 1 [] g.kind = "binary" -> 2 [] g.kind = "mux" -> 3)
      /\ \A i \in DOMAIN g.in : g.in[i] \in Before(c, k)
      /\ g.out \notin Before(c, k)

(* ... a register drives one, too.                                          *)
RegisterWired(c, i) ==
  LET r == c.reg[i]
  IN  /\ {r.d, r.q, r.e, r.r} \subseteq Signals(c)
      /\ {r.enable, r.eTrigger, r.reset, r.rTrigger, r.rValue} \subseteq BOOLEAN
      /\ r.q \notin SpecialSignals \cup c.in
      /\ \A j \in DOMAIN c.reg \ {i} : c.reg[j].q # r.q

(* What the constructor of Circuit delivers.                                *)
IsCircuit(c) ==
  /\ DOMAIN c.reg = 1 .. Len(c.reg) /\ DOMAIN c.gate = 1 .. Len(c.gate)
  /\ Len(c.reg) \in Nat /\ Len(c.gate) \in Nat
  /\ \A k \in DOMAIN c.gate : GateWired(c, k)
  /\ \A i \in DOMAIN c.reg : RegisterWired(c, i)

ASSUME SimulatorAssumption ==
  /\ MaxInputs \in Nat /\ MaxCycles \in Nat
  /\ Assignment = 0 .. 2^MaxInputs - 1
  /\ \A c \in Circuit : IsCircuit(c)
  /\ \A r \in Indices : r[1] \in Nat /\ r[2] \in Nat /\ r[1] <= r[2]
  /\ ShareCounts \subseteq Nat
  /\ LateMasks \in BOOLEAN /\ Retries \in BOOLEAN

Kind == {"secret", "data"}

VARIABLES
  circuit,    (* the loaded circuit                                          *)
  gen,        (* the generated code, with the static manager                 *)
  trace,      (* m_trace: the symbols of every cycle, the pre-cycle first    *)
  prepared,   (* m_prepared                                                  *)
  shares,     (* m_secrets, m_data: the shares of every allocated index      *)
  masks,      (* m_masks                                                     *)
  ranges,     (* m_secret_ranges, m_data_ranges, m_mask_ranges               *)
  cycleEmits, (* m_cycle_emits: the end of every cycle's slots, and its tag  *)
  phase,      (* "simulate", then "generated"                                *)
  ideal       (* history: the functions of the signals in every cycle, and   *)
              (* of the symbols the testbench holds                          *)

simVars == <<circuit, gen, trace, prepared, shares, masks, ranges, cycleEmits,
             phase, ideal>>

-----------------------------------------------------------------------------
(* Generated code.                                                          *)

Operands(m, v) ==
  {a \in DOMAIN m.nots : m.nots[a] = v /\ a < v} \cup
  UNION {{k[i] : i \in DOMAIN k} :
         k \in {k \in DOMAIN m.ands : m.ands[k] = v} \cup
               {k \in DOMAIN m.ors  : m.ors[k] = v} \cup
               {k \in DOMAIN m.xors : m.xors[k] = v} \cup
               {k \in DOMAIN m.muxes : m.muxes[k] = v}}

(* The macros written between manager g.m and manager n: idx names the slot *)
(* of an operand that has one, and otherwise the macro of the operand.      *)
Grow(g, n) ==
  LET r[v \in Var(n)] ==
        IF v \in DOMAIN g.reads THEN g.reads[v]
        ELSE UNION {IF a \in DOMAIN n.slots THEN {n.slots[a]} ELSE r[a] : a \in Operands(n, v)}
  IN  [g EXCEPT !.m = n, !.reads = r]

NoLabel == <<"none">>

(* Mutant: the table grows by one entry too many.                           *)
LabelOneMore(g, pos, info) ==
  LET size == IF pos < Cardinality(DOMAIN g.label) THEN Cardinality(DOMAIN g.label) ELSE pos + 2
  IN  [g EXCEPT !.label = [p \in 0 .. size - 1 |->
         IF p = pos THEN info ELSE IF p \in DOMAIN @ THEN @[p] ELSE NoLabel]]

(* add_debug_info                                                           *)
Label(g, pos, info) ==
  LET size == IF pos < Cardinality(DOMAIN g.label) THEN Cardinality(DOMAIN g.label) ELSE pos + 1
  IN  [g EXCEPT !.label = [p \in 0 .. size - 1 |->
         IF p = pos THEN info ELSE IF p \in DOMAIN @ THEN @[p] ELSE NoLabel]]

(* Mutant: a variable that has a slot already gets a second statement.      *)
EmitTwice(g, v) ==
  IF v \in Constant THEN g
  ELSE [g EXCEPT !.m = NewEmission(@, v),
                 !.code[Len(g.code)] = Append(@, [slot |-> EmissionSlot(NewEmission(g.m, v), v),
                                                  reads |-> g.reads[v]])]

(* Symbol::emit of a variable that is computed: unless it has a slot, the   *)
(* function of the current cycle stores it.                                 *)
EmitWritten(g, v) ==
  IF v \in DOMAIN g.m.slots \/ v \in Constant THEN g
  ELSE [g EXCEPT !.m = NewEmission(@, v),
                 !.code[Len(g.code)] = Append(@, [slot |-> g.m.numEmitted, reads |-> g.reads[v]])]

(* An assignment is a number, and input k its bit k.                         *)
InputFunction(k) == {a \in Assignment : (a \div 2^k) % 2 = 1}

(* create_symbol and emit(false): a new input, in the slot after the last.  *)
NewInput(g, info) ==
  LET v == g.m.numVars
      n == NewEmission(NewVar(g.m, InputFunction(g.inputs)), v)
      h == [g EXCEPT !.m = n, !.reads = Emplace(@, v, {n.slots[v]}), !.inputs = @ + 1]
  IN  Label(h, n.slots[v], info)

(* The symbols of the inputs made from g with one label after the other.    *)
NewInputs(g, infos) == FoldLeft(NewInput, g, infos)
InputSymbol(g, k)   == [var |-> g.m.numVars + k - 1, pos |-> g.m.numEmitted + k - 1]

-----------------------------------------------------------------------------
(* The simulator.                                                           *)

InsertConsts   == [s \in SpecialSignals |-> ConstSymbol(s = "S_1")]
ConstFunctions == [s \in SpecialSignals |-> IF s = "S_1" THEN Assignment ELSE {}]

Extend(map, s, val) == [k \in DOMAIN map \cup {s} |-> IF k = s THEN val ELSE map[k]]
Joined(f, g) == [k \in DOMAIN f \cup DOMAIN g |-> IF k \in DOMAIN f THEN f[k] ELSE g[k]]

(* One gate of the constructor, without emission.                           *)
PreGate(curr, g) == Extend(curr, g.out, EvalGate(NewManager, curr, curr, g).sym)
IdealGate(val, g) == Extend(val, g.out, GateFunction(g, val))

(* The pre-cycle: inputs and registers are zero.                            *)
PreCycle(c) ==
  FoldLeft(PreGate, Joined(InsertConsts, [s \in c.in \cup RegisterOuts(c) |-> ConstSymbol(FALSE)]), c.gate)
IdealPreCycle(c) ==
  FoldLeft(IdealGate, Joined(ConstFunctions, [s \in c.in \cup RegisterOuts(c) |-> {}]), c.gate)

Init ==
  /\ circuit \in Circuit
  /\ gen = [m |-> NewManager, reads |-> [v \in {} |-> {}], label |-> [p \in {} |-> NoLabel],
            inputs |-> 0, code |-> <<>>]
  /\ trace = <<PreCycle(circuit)>>
  /\ prepared = FALSE
  /\ shares = [kind \in Kind |-> [i \in {} |-> <<>>]]
  /\ masks = [i \in {} |-> ConstSymbol(FALSE)]
  /\ ranges = [kind \in Kind \cup {"mask"} |-> <<>>]
  /\ cycleEmits = <<>>
  /\ phase = "simulate"
  /\ ideal = [trace |-> <<IdealPreCycle(circuit)>>,
              shares |-> [kind \in Kind |-> [i \in {} |-> <<>>]],
              masks |-> [i \in {} |-> {}]]

-----------------------------------------------------------------------------
(* prepare_cycle.  A second call before step_cycle would put one generated  *)
(* function into another.                                                   *)

Latch(st, c) == LET y == EvalRegister(st.g.m, Last(trace), c)
                IN  [g |-> Grow(st.g, y.m), curr |-> Extend(st.curr, c.q, y.sym)]
Latched == FoldLeft(Latch, [g    |-> gen,
                            curr |-> Joined(InsertConsts, [s \in circuit.in |-> Last(trace)[s]])],
                    circuit.reg)

IdealPrepare(val) ==
  LET new == [i \in DOMAIN circuit.reg |-> RegisterFunction(circuit.reg[i], val)]
      reg == [q \in RegisterOuts(circuit) |->
                new[CHOOSE i \in DOMAIN circuit.reg : circuit.reg[i].q = q]]
  IN  Joined(ConstFunctions, Joined([s \in circuit.in |-> val[s]], reg))

PrepareCycle ==
  /\ phase = "simulate" /\ ~prepared /\ Len(trace) <= MaxCycles
  /\ LET done == Latched
     IN  /\ gen' = [done.g EXCEPT !.code = Append(@, <<>>)]
         /\ trace' = Append(trace, done.curr)
  /\ ideal' = [ideal EXCEPT !.trace = Append(@, IdealPrepare(Last(@)))]
  /\ prepared' = TRUE
  /\ UNCHANGED <<circuit, shares, masks, ranges, cycleEmits, phase>>

(* Assignment through operator[], to the input ports of the prepared cycle. *)
Assign(port, x, f) ==
  /\ phase = "simulate" /\ prepared
  /\ trace' = [trace EXCEPT ![Len(trace)][port] = x]
  /\ ideal' = [ideal EXCEPT !.trace[Len(trace)][port] = f]
  /\ UNCHANGED <<circuit, prepared, shares, masks, ranges, cycleEmits, phase>>

AssignConst(port, bit) ==
  /\ Assign(port, ConstSymbol(bit), IF bit THEN Assignment ELSE {})
  /\ UNCHANGED gen

(* The symbols of a testbench: where they are kept, and their functions.    *)
HeldShares == {"secret", "data"} \X (0 .. MaxInputs) \X (1 .. MaxInputs)
Held == {h \in HeldShares : h[2] \in DOMAIN shares[h[1]] /\ h[3] \in DOMAIN shares[h[1]][h[2]]}
        \cup ({"mask"} \X DOMAIN masks)
SymbolAt(h) == IF h[1] = "mask" THEN masks[h[2]] ELSE shares[h[1]][h[2]][h[3]]
IdealAt(h)  == IF h[1] = "mask" THEN ideal.masks[h[2]] ELSE ideal.shares[h[1]][h[2]][h[3]]

AssignHeld(port, h) == Assign(port, SymbolAt(h), IdealAt(h)) /\ UNCHANGED gen

(* sim[port] = x ^ y: the symbol assigned has no slot.                      *)
AssignXor(port, h, i) ==
  LET y == Made(MakeXor(gen.m, SymbolAt(h).var, SymbolAt(i).var))
  IN  /\ Assign(port, y.sym, Xor(IdealAt(h), IdealAt(i)))
      /\ gen' = Grow(gen, y.m)

-----------------------------------------------------------------------------
(* step_cycle.                                                              *)

(* Mutants: the condition is inverted; a wire that has a slot is named too. *)
OutputReused(v, pos) == v \notin Constant /\ pos # INVALID_POS
OutputAlways(v, pos) == v \notin Constant

(* Whether the wire gets the label of its slot.                             *)
Output(v, pos) == v \notin Constant /\ pos = INVALID_POS

StepGate(st, g) ==
  LET y == EvalGate(st.g.m, trace[Len(trace) - 1], st.curr, g)
      v == y.sym.var
      h == EmitWritten(Grow(st.g, y.m), v)
  IN  [g    |-> IF Output(v, y.sym.pos) THEN Label(h, EmissionSlot(h.m, v), <<"wire", g.out>>) ELSE h,
       curr |-> Extend(st.curr, g.out, SymbolOf(h.m, v))]
Stepped == FoldLeft(StepGate, [g |-> gen, curr |-> Last(trace)], circuit.gate)

StepCycle ==
  /\ phase = "simulate" /\ prepared
  /\ LET done == Stepped
     IN  /\ gen' = done.g
         /\ trace' = [trace EXCEPT ![Len(trace)] = done.curr]
         /\ cycleEmits' = Append(cycleEmits, [end |-> done.g.m.numEmitted, tag |-> Len(trace) - 1])
  /\ ideal' = [ideal EXCEPT !.trace[Len(trace)] = FoldLeft(IdealGate, @, circuit.gate)]
  /\ prepared' = FALSE
  /\ UNCHANGED <<circuit, shares, masks, ranges, phase>>

-----------------------------------------------------------------------------
(* allocate_shared.  An index that is there already, or an unprepared       *)
(* cycle, is an error that ends the testbench.                              *)

(* Mutant: the end of the range is taken to be exclusive.                   *)
TaggedExclusive(lo, hi) == [lo |-> lo, hi |-> hi - 1, tag |-> Len(trace) - 1]

(* add_range                                                                *)
Tagged(lo, hi) == [lo |-> lo, hi |-> hi, tag |-> Len(trace) - 1]

(* Mutant: the range of the masks begins with the unmasked value.           *)
FirstMaskTooLow(new, lo, n) == {new[lo][1].pos}

(* The position of dest_map[low][1], where the range of the masks begins.   *)
(* In a vector with one element it is what follows on the heap: any slot,   *)
(* or none.                                                                 *)
FirstMask(new, lo, n) ==
  IF n = 1 THEN 0 .. gen.m.numEmitted + 1 ELSE {new[lo][2].pos}

(* Mutant: the last share is left out.                                      *)
SharesButLast(kind, i, n) == [k \in 1 .. n - 2 |-> <<kind, i, k + 1>>]

(* The shares after the first, each with its index.                         *)
OtherShares(kind, i, n) == [k \in 1 .. n - 1 |-> <<kind, i, k + 1>>]

(* secret[0] becomes the exclusive or of secret[0] and the share x[3] ...   *)
MaskShare(st, x) ==
  LET y == Made(MakeXor(st.g.m, st.sh[x[2]][1].var, st.sh[x[2]][x[3]].var))
      h == EmitWritten(Grow(st.g, y.m), y.sym.var)
      z == SymbolOf(h.m, y.sym.var)
  IN  [g  |-> Label(h, z.pos, <<IF x[3] = Len(st.sh[x[2]]) THEN x[1] ELSE "intern", x[2], "share">>),
       sh |-> [st.sh EXCEPT ![x[2]][1] = z]]

(* ... and, one after the other, of all shares of index x[2].               *)
MaskFirst(st, x) == FoldLeft(MaskShare, st, OtherShares(x[1], x[2], Len(st.sh[x[2]])))

(* The labels of the new inputs: first the values, then share by share.     *)
ShareLabels(kind, lo, hi, n) ==
  [k \in 1 .. n * (hi - lo + 1) |->
     <<kind, lo + ((k - 1) % (hi - lo + 1)), IF k <= hi - lo + 1 THEN "unmasked" ELSE "share">>]
ShareIndex(lo, hi, i, sh) == ((sh - 1) * (hi - lo + 1)) + i - lo
ShareInputs(lo, hi, n) ==
  [i \in lo .. hi |-> [sh \in 1 .. n |-> InputSymbol(gen, ShareIndex(lo, hi, i, sh) + 1)]]

Shared(kind, lo, hi, n) ==
  FoldLeft(MaskFirst, [g |-> NewInputs(gen, ShareLabels(kind, lo, hi, n)), sh |-> ShareInputs(lo, hi, n)],
           [k \in 1 .. hi - lo + 1 |-> <<kind, lo + k - 1>>])

(* The shares that are inputs are their own functions, the first is the     *)
(* value masked with the others.                                            *)
IdealShares(lo, hi, n) ==
  LET input(i) == [sh \in 1 .. n |-> InputFunction(gen.inputs + ShareIndex(lo, hi, i, sh))]
  IN  [i \in lo .. hi |-> [input(i) EXCEPT ![1] = FoldLeft(Xor, {}, input(i))]]

AllocateShared(kind, lo, hi, n) ==
  /\ phase = "simulate" /\ prepared /\ n # 0
  /\ lo .. hi \cap DOMAIN shares[kind] = {}
  /\ LET new  == ShareInputs(lo, hi, n)
         done == Shared(kind, lo, hi, n)
     IN  /\ gen.inputs + n * (hi - lo + 1) <= MaxInputs
         /\ gen' = done.g
         /\ shares' = [shares EXCEPT ![kind] = Joined(done.sh, @)]
         /\ \E start \in FirstMask(new, lo, n) :
              ranges' = [ranges EXCEPT ![kind] = Append(@, Tagged(new[lo][1].pos, new[hi][1].pos)),
                                       !["mask"] = Append(@, Tagged(start, new[hi][n].pos))]
         /\ ideal' = [ideal EXCEPT !.shares[kind] = Joined(IdealShares(lo, hi, n), @)]
  /\ UNCHANGED <<circuit, trace, prepared, masks, cycleEmits, phase>>

-----------------------------------------------------------------------------
(* allocate_masks.  It does not ask whether the cycle is prepared, before   *)
(* the first one and after the last included, and an error leaves the masks *)
(* made so far.                                                             *)
MasksMayCome == prepared \/ Len(trace) = 1 \/ LateMasks

CreateMasks(lo, hi) ==
  /\ gen.inputs + hi - lo + 1 <= MaxInputs
  /\ gen' = NewInputs(gen, [k \in 1 .. hi - lo + 1 |-> <<"mask", lo + k - 1, "mask">>])
  /\ masks' = Joined([i \in lo .. hi |-> InputSymbol(gen, i - lo + 1)], masks)
  /\ ideal' = [ideal EXCEPT !.masks =
                 Joined([i \in lo .. hi |-> InputFunction(gen.inputs + i - lo)], @)]

AllocateMasks(lo, hi) ==
  /\ phase = "simulate" /\ MasksMayCome
  /\ lo .. hi \cap DOMAIN masks = {}
  /\ CreateMasks(lo, hi)
  /\ ranges' = [ranges EXCEPT !["mask"] = Append(@, Tagged(masks'[lo].pos, masks'[hi].pos))]
  /\ UNCHANGED <<circuit, trace, prepared, shares, cycleEmits, phase>>

(* The testbench catches the error, as fresh_masks_unsafe does.             *)
RedefineMasks(lo, hi) ==
  /\ phase = "simulate" /\ MasksMayCome /\ Retries
  /\ \E i \in lo + 1 .. hi : /\ i \in DOMAIN masks
                             /\ lo .. i - 1 \cap DOMAIN masks = {}
                             /\ CreateMasks(lo, i - 1)
  /\ UNCHANGED <<circuit, trace, prepared, shares, ranges, cycleEmits, phase>>

-----------------------------------------------------------------------------
(* emit_epilogue, at the end of a testbench that stepped some cycle.        *)
EmitEpilogue ==
  /\ phase = "simulate" /\ ~prepared /\ cycleEmits # <<>>
  /\ phase' = "generated"
  /\ UNCHANGED <<circuit, gen, trace, prepared, shares, masks, ranges, cycleEmits, ideal>>

Simulate ==
  \/ PrepareCycle \/ StepCycle \/ EmitEpilogue
  \/ \E port \in circuit.in :
       \/ \E bit \in BOOLEAN : AssignConst(port, bit)
       \/ \E h \in Held : AssignHeld(port, h)
       \/ \E h, i \in Held : AssignXor(port, h, i)
  \/ \E r \in Indices :
       \/ \E kind \in Kind, n \in ShareCounts : AllocateShared(kind, r[1], r[2], n)
       \/ AllocateMasks(r[1], r[2]) \/ RedefineMasks(r[1], r[2])

SimSpec == Init /\ [][Simulate]_simVars

-----------------------------------------------------------------------------
(* Properties.                                                              *)

RunLength == Last(cycleEmits).end
RangeSlots(name) == UNION {ranges[name][k].lo .. ranges[name][k].hi : k \in DOMAIN ranges[name]}

(* The generated code is well formed, and the trace has the signals.        *)
TypeOK ==
  /\ IsManager(gen.m) /\ CachesSound(gen.m)
  /\ DOMAIN gen.reads = Var(gen.m)
  /\ \A v \in Var(gen.m) : gen.reads[v] \subseteq 0 .. gen.m.numEmitted - 1
  /\ DOMAIN gen.label = 0 .. gen.m.numEmitted - 1
  /\ \A c \in DOMAIN trace : \A s \in DOMAIN trace[c] : trace[c][s].var \in Known(gen.m)
  /\ Len(cycleEmits) = Len(trace) - (IF prepared THEN 2 ELSE 1)

(* Every signal of every cycle computes what the circuit computes there     *)
(* from the values the testbench assigned, whatever was reused from the     *)
(* cycle before, simplified or shared.                                      *)
SimulationSound ==
  /\ DOMAIN trace = DOMAIN ideal.trace
  /\ \A c \in DOMAIN trace :
       /\ DOMAIN trace[c] = DOMAIN ideal.trace[c]
       /\ \A s \in DOMAIN trace[c] : Truth(gen.m, trace[c][s].var) = ideal.trace[c][s]

(* The shares of a secret or data bit add up to it.                         *)
HeldSound == \A h \in Held : Truth(gen.m, SymbolAt(h).var) = IdealAt(h)

(* Every slot has exactly one source: a statement of generated code, or one *)
(* of the ranges that are filled with randomness (without retries: masks of *)
(* a failed allocation are in no range).                                    *)
Writes(p) == UNION {{<<c, n>> : n \in {n \in DOMAIN gen.code[c] : gen.code[c][n].slot = p}} :
                    c \in DOMAIN gen.code}
Fills(p)  == UNION {{<<name, k>> : k \in {k \in DOMAIN ranges[name] :
                                         p \in ranges[name][k].lo .. ranges[name][k].hi}} :
                    name \in DOMAIN ranges}
OneSource ==
  \A p \in 0 .. gen.m.numEmitted - 1 : Cardinality(Writes(p)) + Cardinality(Fills(p)) = 1

(* In generated code, the functions of the cycles one after the other, no   *)
(* statement reads a slot that a later one writes, and none is repeated.    *)
InOrder(code) ==
  \A c \in DOMAIN code : \A n \in DOMAIN code[c] :
    /\ \A p \in code[c][n].reads : p < code[c][n].slot
    /\ \A b \in 1 .. c : \A k \in DOMAIN code[b] :
         b < c \/ k < n => code[b][k].slot < code[c][n].slot
ReadsEarlier == InOrder(gen.code)

(* A slot called unmasked is the input it is called after, for ever: these  *)
(* are the slots the verifier does not report.                              *)
UnmaskedSlots(g, kind) == {p \in DOMAIN g.label : g.label[p][1] = kind /\ g.label[p][3] = "unmasked"}
UnmaskedLabels == \A kind \in Kind : UnmaskedSlots(gen, kind) = RangeSlots(kind)

(* What the epilogue asserts (Simulator.cpp:496), of testbenches without    *)
(* late masks: every slot up to RUN_LENGTH has a label and no other has.    *)
LabelsComplete ==
  phase = "generated" => /\ RunLength = Cardinality(DOMAIN gen.label)
                         /\ \A p \in DOMAIN gen.label : gen.label[p] # NoLabel
-----------------------------------------------------------------------------
(* The inductive invariant.                                                 *)

Statement == [slot : Nat, reads : SUBSET Nat]
Written(code) == UNION {{code[c][n].slot : n \in DOMAIN code[c]} : c \in DOMAIN code}

(* Generated code is what the manager has emitted, in the order in which it *)
(* was; every slot that was given out has a label.                          *)
IsGen(g) ==
  /\ DOMAIN g = {"m", "reads", "label", "inputs", "code"}
  /\ Sound(g.m) /\ Disciplined(g.m)
  /\ g.reads \in [Var(g.m) -> SUBSET (0 .. g.m.numEmitted - 1)]
  /\ DOMAIN g.label = 0 .. g.m.numEmitted - 1
  /\ \A p \in DOMAIN g.label : g.label[p] # NoLabel
  /\ g.inputs \in Nat
  /\ g.code \in Seq(Seq(Statement)) /\ InOrder(g.code)
  /\ Written(g.code) \subseteq 0 .. g.m.numEmitted - 1

(* A symbol that computes f.  If its variable is an unmasked input it knows *)
(* the slot of the variable, and so is never given another label.           *)
Right(g, x, f) ==
  /\ GoodSymbol(g.m, x, f)
  /\ \A kind \in Kind : x.var \in DOMAIN g.m.slots /\ g.m.slots[x.var] \in UnmaskedSlots(g, kind)
                          => x.pos # INVALID_POS

RightCycle(g, tr, val) ==
  /\ DOMAIN tr = DOMAIN val
  /\ \A s \in DOMAIN tr : Right(g, tr[s], val[s])

(* In the cycles that are over, the gates have their functions.  This is    *)
(* why a gate may take its output from the cycle before.                    *)
Evaluated(c, val) ==
  /\ DOMAIN val = Signals(c)
  /\ \A k \in DOMAIN c.gate : val[c.gate[k].out] = GateFunction(c.gate[k], val)

TraceRight ==
  /\ trace \in Seq(Range(trace)) /\ ideal.trace \in Seq(Range(ideal.trace))
  /\ Len(trace) = Len(ideal.trace)
  /\ Len(trace) >= (IF prepared THEN 2 ELSE 1)
  /\ \A c \in DOMAIN trace : RightCycle(gen, trace[c], ideal.trace[c])
  /\ \A c \in 1 .. Len(trace) - (IF prepared THEN 1 ELSE 0) : Evaluated(circuit, ideal.trace[c])
  /\ prepared => DOMAIN trace[Len(trace)] = Before(circuit, 1)

HeldRight ==
  /\ DOMAIN ideal = {"trace", "shares", "masks"}
  /\ DOMAIN shares = Kind /\ DOMAIN ideal.shares = Kind
  /\ \A kind \in Kind : DOMAIN shares[kind] = DOMAIN ideal.shares[kind]
  /\ DOMAIN masks = DOMAIN ideal.masks
  /\ \A kind \in Kind : \A i \in DOMAIN shares[kind] : \A k \in DOMAIN shares[kind][i] :
       Right(gen, shares[kind][i][k], ideal.shares[kind][i][k])
  /\ \A i \in DOMAIN masks : Right(gen, masks[i], ideal.masks[i])

(* Ranges are disjoint, and disjoint from what is computed.                 *)
SourcesRight ==
  /\ \A n1, n2 \in DOMAIN ranges : \A k1 \in DOMAIN ranges[n1], k2 \in DOMAIN ranges[n2] :
       <<n1, k1>> # <<n2, k2>> =>
         \A p \in ranges[n1][k1].lo .. ranges[n1][k1].hi : p \notin ranges[n2][k2].lo .. ranges[n2][k2].hi
  /\ \A name \in DOMAIN ranges : RangeSlots(name) \cap Written(gen.code) = {}
  /\ 0 .. gen.m.numEmitted - 1 =
       Written(gen.code) \cup UNION {RangeSlots(name) : name \in DOMAIN ranges}

(* The order of the calls.                                                  *)
CallsRight ==
  /\ circuit \in Circuit /\ prepared \in BOOLEAN
  /\ Len(gen.code) = Len(trace) - 1
  /\ cycleEmits \in Seq([end : Nat, tag : Nat])
  /\ Len(cycleEmits) = Len(trace) - (IF prepared THEN 2 ELSE 1)
  /\ ranges \in [Kind \cup {"mask"} -> Seq([lo : Nat, hi : Nat, tag : Nat])]
  /\ ~LateMasks /\ ~prepared /\ cycleEmits # <<>> => RunLength = gen.m.numEmitted
  /\ phase = "generated" => ~prepared /\ cycleEmits # <<>>

IInv ==
  /\ IsGen(gen) /\ TraceRight /\ HeldRight /\ CallsRight /\ UnmaskedLabels
  /\ ~Retries /\ 1 \notin ShareCounts => SourcesRight
=============================================================================
