-------------------------- MODULE Simulator_proofs --------------------------
(***************************************************************************)
(* IInv of module Simulator is an inductive invariant: what the simulator   *)
(* generates computes the functions of the circuit, in the order of the     *)
(* slots, and every slot keeps its source and its label.                    *)
(*                                                                          *)
(* RunIInv of module Runner is one, too: run_once counts each slot once a   *)
(* sample, and only what it computed from that sample.                      *)
(***************************************************************************)
EXTENDS Runner, SymbolManager_proofs, FiniteSetTheorems

-----------------------------------------------------------------------------
(* The folds of the model.                                                  *)
Creating  == INSTANCE Folding WITH op <- NewInput
Masking   == INSTANCE Folding WITH op <- MaskShare
Sharing   == INSTANCE Folding WITH op <- MaskFirst
Adding    == INSTANCE Folding WITH op <- Xor
Idealing  == INSTANCE Folding WITH op <- IdealGate
Stepping  == INSTANCE Folding WITH op <- StepGate
Latching  == INSTANCE Folding WITH op <- Latch
Preceding == INSTANCE Folding WITH op <- PreGate
Executing == INSTANCE Folding WITH op <- Execute
Running   == INSTANCE Folding WITH op <- RunCycle

-----------------------------------------------------------------------------
(* The slots that the code of a variable reads.                             *)

Reading(g, n, r, v) ==
  IF v \in DOMAIN g.reads THEN g.reads[v]
  ELSE UNION {IF a \in DOMAIN n.slots THEN {n.slots[a]} ELSE r[a] : a \in Operands(n, v)}
Reads(r, g, n, V) == r = [v \in V |-> Reading(g, n, r, v)]

(* The operands of a variable are older than it.                            *)
LEMMA OperandsEarlier ==
  ASSUME NEW n, Sound(n), Ordered(n), NEW v \in Var(n)
  PROVE  Operands(n, v) \subseteq 0 .. v - 1
<1>0. v \in Nat
  BY DEF Var
<1>1. \A key \in Var(n) \X Var(n) : {key[i] : i \in DOMAIN key} = {key[1], key[2]} /\ key[1] \in Nat /\ key[2] \in Nat
  BY DEF Var
<1>2. ASSUME NEW cache, PairCache(n, cache), PairsOrdered(cache)
      PROVE  \A key \in {key \in DOMAIN cache : cache[key] = v} : {key[i] : i \in DOMAIN key} \subseteq 0 .. v - 1
  <2>1. SUFFICES ASSUME NEW key \in DOMAIN cache, cache[key] = v
                 PROVE  {key[i] : i \in DOMAIN key} \subseteq 0 .. v - 1
    OBVIOUS
  <2>2. key \in Var(n) \X Var(n) /\ key[1] < v /\ key[2] < v
    BY <1>2, <2>1 DEF PairCache, PairsOrdered
  <2>3. {key[i] : i \in DOMAIN key} = {key[1], key[2]} /\ key[1] \in Nat /\ key[2] \in Nat
    BY <1>1, <2>2
  <2> QED BY ONLY <1>0, <2>2, <2>3
<1>3. \A key \in {key \in DOMAIN n.muxes : n.muxes[key] = v} : {key[i] : i \in DOMAIN key} \subseteq 0 .. v - 1
  <2>1. SUFFICES ASSUME NEW key \in DOMAIN n.muxes, n.muxes[key] = v
                 PROVE  {key[i] : i \in DOMAIN key} \subseteq 0 .. v - 1
    OBVIOUS
  <2>2. key \in Var(n) \X Var(n) \X Var(n)
    BY <2>1 DEF Sound, IsManager
  <2>3. key[1] < v /\ key[2] < v /\ key[3] < v
    BY <2>1 DEF Ordered, PairsOrdered
  <2>4. {key[i] : i \in DOMAIN key} = {key[1], key[2], key[3]} /\ key[1] \in Nat /\ key[2] \in Nat /\ key[3] \in Nat
    BY <2>2 DEF Var
  <2> QED BY ONLY <1>0, <2>3, <2>4
<1>4. {a \in DOMAIN n.nots : n.nots[a] = v /\ a < v} \subseteq 0 .. v - 1
  BY DEF Var, Sound, IsManager
<1>5. /\ PairCache(n, n.ands) /\ PairCache(n, n.ors) /\ PairCache(n, n.xors)
      /\ PairsOrdered(n.ands) /\ PairsOrdered(n.ors) /\ PairsOrdered(n.xors)
  BY DEF Sound, IsManager, Ordered
<1>6. \A key \in {key \in DOMAIN n.ands : n.ands[key] = v} \cup {key \in DOMAIN n.ors : n.ors[key] = v}
                 \cup {key \in DOMAIN n.xors : n.xors[key] = v} \cup {key \in DOMAIN n.muxes : n.muxes[key] = v} :
        {key[i] : i \in DOMAIN key} \subseteq 0 .. v - 1
  BY <1>2, <1>3, <1>5
<1> QED BY ONLY <1>4, <1>6 DEF Operands

(* The function in Grow exists, ...                                         *)
LEMMA ReadsExist ==
  ASSUME NEW g, NEW n, Sound(n), Ordered(n)
  PROVE  \E r : Reads(r, g, n, Var(n))
<1> DEFINE S == {k \in Nat : k <= n.numVars => \E r : Reads(r, g, n, 0 .. k - 1)}
<1>1. 0 \in S
  <2>1. Reads([v \in {} |-> {}], g, n, 0 .. 0 - 1)
    BY DEF Reads
  <2> QED BY <2>1
<1>2. ASSUME NEW k \in Nat, k \in S PROVE k + 1 \in S
  <2>1. SUFFICES ASSUME k + 1 <= n.numVars PROVE \E r : Reads(r, g, n, 0 .. (k + 1) - 1)
    OBVIOUS
  <2>2. n.numVars \in Nat
    BY DEF Sound, IsManager
  <2>3. PICK r : Reads(r, g, n, 0 .. k - 1)
    BY <1>2, <2>1, <2>2
  <2> DEFINE V == 0 .. (k + 1) - 1
             s == [v \in V |-> Reading(g, n, r, v)]
  <2>4. ASSUME NEW v \in V PROVE Reading(g, n, s, v) = Reading(g, n, r, v)
    <3>1. v \in Var(n) /\ \A a \in 0 .. v - 1 : a \in V /\ a \in 0 .. k - 1
      BY <2>1, <2>2 DEF Var
    <3>2. Operands(n, v) \subseteq 0 .. v - 1
      BY <3>1, OperandsEarlier
    <3>3. \A a \in 0 .. k - 1 : r[a] = Reading(g, n, r, a)
      BY <2>3 DEF Reads
    <3>4. \A a \in Operands(n, v) : s[a] = r[a]
      BY <3>1, <3>2, <3>3
    <3> HIDE DEF s
    <3> QED BY <3>4 DEF Reading
  <2>5. s = [v \in V |-> Reading(g, n, s, v)]
    <3>1. \A v \in V : s[v] = Reading(g, n, s, v)
      BY <2>4
    <3>2. s = [v \in V |-> s[v]]
      OBVIOUS
    <3> QED BY <3>1, <3>2
  <2> HIDE DEF s
  <2> QED BY <2>5 DEF Reads
<1>3. n.numVars \in Nat
  BY DEF Sound, IsManager
<1> HIDE DEF S
<1>4. n.numVars \in S
  BY <1>1, <1>2, <1>3, Creating!SetInduction
<1> QED BY <1>3, <1>4 DEF S, Var

(* ... and gives slots that were emitted.                                   *)
LEMMA GrowReads ==
  ASSUME NEW g, NEW n, Sound(n), Ordered(n), n.slots = g.m.slots, n.numEmitted = g.m.numEmitted,
         g.reads \in [Var(g.m) -> SUBSET (0 .. g.m.numEmitted - 1)],
         Var(g.m) \subseteq Var(n), DOMAIN g = {"m", "reads", "label", "inputs", "code"}
  PROVE  LET h == Grow(g, n)
         IN  /\ DOMAIN h = DOMAIN g
             /\ h.m = n /\ h.label = g.label /\ h.inputs = g.inputs /\ h.code = g.code
             /\ h.reads \in [Var(n) -> SUBSET (0 .. n.numEmitted - 1)]
<1> DEFINE r == CHOOSE r : Reads(r, g, n, Var(n))
           P == SUBSET (0 .. n.numEmitted - 1)
           S == {k \in Nat : k <= n.numVars => \A v \in 0 .. k - 1 : r[v] \in P}
<1>1. Reads(r, g, n, Var(n))
  BY ReadsExist
<1>2. Grow(g, n) = [g EXCEPT !.m = n, !.reads = r]
  BY DEF Grow, Reads, Reading
<1> HIDE DEF r
<1>3. n.numVars \in Nat /\ Var(n) = 0 .. n.numVars - 1
  BY DEF Sound, IsManager, Var
<1>4. 0 \in S
  OBVIOUS
<1>5. ASSUME NEW k \in Nat, k \in S PROVE k + 1 \in S
  <2>1. SUFFICES ASSUME k + 1 <= n.numVars, NEW v \in 0 .. (k + 1) - 1 PROVE r[v] \in P
    OBVIOUS
  <2>2. v \in Var(n) /\ \A a \in 0 .. v - 1 : a \in 0 .. k - 1
    BY <1>3, <2>1
  <2>3. r[v] = Reading(g, n, r, v)
    BY <1>1, <2>2 DEF Reads
  <2>4. \A a \in Operands(n, v) : r[a] \in P
    BY <1>3, <1>5, <2>1, <2>2, OperandsEarlier
  <2>5. \A a \in DOMAIN n.slots : {n.slots[a]} \in P
    BY DEF Sound, IsManager
  <2>6. UNION {IF a \in DOMAIN n.slots THEN {n.slots[a]} ELSE r[a] : a \in Operands(n, v)} \in P
    BY <2>4, <2>5
  <2>7. v \in DOMAIN g.reads => g.reads[v] \in P
    OBVIOUS
  <2> QED BY <2>3, <2>6, <2>7 DEF Reading
<1> HIDE DEF S
<1>6. n.numVars \in S
  BY <1>3, <1>4, <1>5, Creating!SetInduction
<1>7. \A v \in Var(n) : r[v] \in P
  BY <1>3, <1>6 DEF S
<1>8. r \in [Var(n) -> P]
  BY <1>1, <1>7 DEF Reads
<1> QED BY <1>2, <1>8

-----------------------------------------------------------------------------
(* Growing code.                                                            *)

Unmasked(g, v) == v \in DOMAIN g.m.slots /\ \E kind \in Kind : g.m.slots[v] \in UnmaskedSlots(g, kind)

(* h is g, and more: symbols of g are right in h.                           *)
Keeps(g, h) ==
  /\ IsGen(h) /\ Later(g.m, h.m) /\ g.inputs <= h.inputs
  /\ \A v \in Var(g.m) : Unmasked(h, v) => Unmasked(g, v)

(* New statements are of the last cycle, for slots from e on.               *)
CodeSlots(code, c) == {code[c][n].slot : n \in DOMAIN code[c]}
LastGrown(old, new, e) ==
  \A c \in DOMAIN old :
    CodeSlots(new, c) \subseteq CodeSlots(old, c) \cup (IF c = Len(old) THEN {p \in Nat : e <= p} ELSE {})

(* What is new in h was written into the function of the last cycle.        *)
Continues(g, h) ==
  /\ Keeps(g, h) /\ h.inputs = g.inputs /\ Len(h.code) = Len(g.code)
  /\ LastGrown(g.code, h.code, g.m.numEmitted)
  /\ Written(h.code) = Written(g.code) \cup (g.m.numEmitted .. h.m.numEmitted - 1)
  /\ \A kind \in Kind : UnmaskedSlots(h, kind) = UnmaskedSlots(g, kind)

(* A label that does not say that its slot is unmasked.                     *)
Plain(info) == info # NoLabel /\ (info[1] \notin Kind \/ info[3] # "unmasked")

LEMMA GenManager ==
  ASSUME NEW g, IsGen(g)
  PROVE  /\ Sound(g.m) /\ Disciplined(g.m) /\ Ordered(g.m)
         /\ g.m.numVars \in Nat /\ g.m.numEmitted \in Nat /\ g.inputs \in Nat
         /\ Var(g.m) = 0 .. g.m.numVars - 1
         /\ DOMAIN g.m.slots \subseteq Var(g.m)
         /\ \A v \in DOMAIN g.m.slots : g.m.slots[v] \in 0 .. g.m.numEmitted - 1
         /\ Constant \cap Var(g.m) = {}
  BY DEF IsGen, Sound, IsManager, Disciplined, Constant, Var, ZERO, ONE

LEMMA KeepsTwice ==
  ASSUME NEW g, NEW h, NEW k, IsGen(g), Keeps(g, h), Keeps(h, k)
  PROVE  Keeps(g, k)
<1>1. Later(g.m, k.m)
  BY GenManager, LaterTwice DEF Keeps
<1>2. g.inputs <= k.inputs
  BY DEF Keeps, IsGen
<1>3. Var(g.m) \subseteq Var(h.m)
  BY DEF Keeps, Later, IsGen, Sound, IsManager, Var
<1> QED BY <1>1, <1>2, <1>3 DEF Keeps

LEMMA LastGrownSame ==
  ASSUME NEW code, NEW e PROVE LastGrown(code, code, e)
BY DEF LastGrown

LEMMA LastGrownTwice ==
  ASSUME NEW a, NEW b, NEW c, NEW e \in Nat, NEW f \in Nat, e <= f,
         DOMAIN a = DOMAIN b, Len(a) = Len(b), LastGrown(a, b, e), LastGrown(b, c, f)
  PROVE  LastGrown(a, c, e)
<1>1. {p \in Nat : f <= p} \subseteq {p \in Nat : e <= p}
  OBVIOUS
<1> QED BY <1>1 DEF LastGrown

LEMMA ContinuesTwice ==
  ASSUME NEW g, NEW h, NEW k, IsGen(g), Continues(g, h), Continues(h, k)
  PROVE  Continues(g, k)
<1>1. Keeps(g, k) /\ IsGen(h) /\ IsGen(k)
  BY KeepsTwice DEF Continues, Keeps
<1>2. /\ g.m.numEmitted \in Nat /\ h.m.numEmitted \in Nat /\ k.m.numEmitted \in Nat
      /\ g.m.numEmitted <= h.m.numEmitted /\ h.m.numEmitted <= k.m.numEmitted
  BY <1>1, GenManager DEF Continues, Keeps, Later
<1>3. (g.m.numEmitted .. h.m.numEmitted - 1) \cup (h.m.numEmitted .. k.m.numEmitted - 1)
        = g.m.numEmitted .. k.m.numEmitted - 1
  BY <1>2
<1>4. LastGrown(g.code, k.code, g.m.numEmitted)
  <2>1. Len(g.code) = Len(h.code) /\ DOMAIN g.code = DOMAIN h.code
    BY <1>1 DEF Continues, IsGen
  <2> QED BY <1>2, <2>1, LastGrownTwice DEF Continues
<1> QED BY <1>1, <1>3, <1>4 DEF Continues

LEMMA ContinuesSame ==
  ASSUME NEW g, IsGen(g) PROVE Continues(g, g)
<1>1. Later(g.m, g.m) /\ g.m.numEmitted .. g.m.numEmitted - 1 = {} /\ g.inputs <= g.inputs
  BY GenManager, LaterSame
<1> QED BY <1>1, LastGrownSame DEF Continues, Keeps

LEMMA KeepsRight ==
  ASSUME NEW g, NEW h, IsGen(g), Keeps(g, h), NEW x, NEW f, Right(g, x, f)
  PROVE  Right(h, x, f)
<1>1. GoodSymbol(h.m, x, f) /\ x.var \in Known(g.m)
  BY GenManager, LaterSymbol DEF Keeps, Right, GoodSymbol
<1>2. ASSUME NEW kind \in Kind, x.var \in DOMAIN h.m.slots, h.m.slots[x.var] \in UnmaskedSlots(h, kind)
      PROVE  x.pos # INVALID_POS
  <2>1. x.var \in Var(h.m) /\ Constant \cap Var(h.m) = {}
    BY <1>2, GenManager DEF Keeps
  <2>2. x.var \in Var(g.m)
    BY <1>1, <2>1 DEF Known
  <2>3. Unmasked(g, x.var)
    BY <1>2, <2>2 DEF Keeps, Unmasked
  <2> QED BY <2>3 DEF Unmasked, Right
<1> QED BY <1>1, <1>2 DEF Right

(* A symbol just made is right, ...                                         *)
LEMMA FreshRight ==
  ASSUME NEW g, IsGen(g), NEW v \in Known(g.m), NEW f, Truth(g.m, v) = f
  PROVE  Right(g, SymbolOf(g.m, v), f)
<1>1. GoodSymbol(g.m, SymbolOf(g.m, v), f)
  BY GenManager, NewSymbol
<1>2. v \in DOMAIN g.m.slots => SymbolOf(g.m, v).pos # INVALID_POS /\ SymbolOf(g.m, v).var = v
  BY GenManager DEF SymbolOf, EmissionSlot, INVALID_POS
<1> QED BY <1>1, <1>2 DEF Right, SymbolOf

(* ... a constant too.                                                      *)
LEMMA ConstRight ==
  ASSUME NEW g, IsGen(g), NEW bit \in BOOLEAN
  PROVE  Right(g, ConstSymbol(bit), IF bit THEN Assignment ELSE {})
<1>1. ConstSymbol(bit).var \in Constant /\ ConstSymbol(bit).var \in Known(g.m)
  BY DEF ConstSymbol, Constant, Known
<1>2. Truth(g.m, ConstSymbol(bit).var) = IF bit THEN Assignment ELSE {}
  BY DEF ConstSymbol, Truth, ZERO, ONE
<1>3. ConstSymbol(bit).var \notin DOMAIN g.m.slots
  BY <1>1, GenManager
<1>4. ConstSymbol(bit) = [var |-> ConstSymbol(bit).var, pos |-> INVALID_POS]
  BY DEF ConstSymbol
<1> QED BY <1>1, <1>2, <1>3, <1>4 DEF Right, GoodSymbol

(* Operations of the manager write no statement.                            *)
LEMMA GrowContinues ==
  ASSUME NEW g, NEW n, IsGen(g), Grown(g.m, n), Disciplined(n)
  PROVE  LET h == Grow(g, n)
         IN  /\ Continues(g, h) /\ h.m = n /\ h.code = g.code
<1> DEFINE h == Grow(g, n)
<1>1. Sound(n) /\ Ordered(n) /\ n.slots = g.m.slots /\ n.numEmitted = g.m.numEmitted
  BY DEF Grown, Disciplined
<1>2. Var(g.m) \subseteq Var(n) /\ g.m.numEmitted \in Nat
  BY GenManager, <1>1 DEF Grown, Var, Sound, IsManager
<1>3. /\ DOMAIN h = {"m", "reads", "label", "inputs", "code"}
      /\ h.m = n /\ h.label = g.label /\ h.inputs = g.inputs /\ h.code = g.code
      /\ h.reads \in [Var(n) -> SUBSET (0 .. n.numEmitted - 1)]
  BY <1>1, <1>2, GrowReads DEF IsGen
<1> HIDE DEF h
<1>4. IsGen(h)
  BY <1>1, <1>3 DEF IsGen
<1>5. Later(g.m, h.m)
  BY <1>3, GenManager, GrownLater
<1>6. \A kind \in Kind : UnmaskedSlots(h, kind) = UnmaskedSlots(g, kind)
  BY <1>3 DEF UnmaskedSlots
<1>7. \A v \in Var(g.m) : Unmasked(h, v) => Unmasked(g, v)
  BY <1>1, <1>3, <1>6 DEF Unmasked
<1>8. g.m.numEmitted .. n.numEmitted - 1 = {} /\ g.inputs <= h.inputs
  BY <1>1, <1>2, <1>3, GenManager
<1>9. Keeps(g, h)
  BY <1>4, <1>5, <1>7, <1>8 DEF Keeps
<1> QED BY <1>3, <1>6, <1>8, <1>9, LastGrownSame DEF Continues, h

-----------------------------------------------------------------------------
(* Labels and statements.                                                   *)

(* Labelling an old slot, or the next one.                                  *)
LEMMA LabelFacts ==
  ASSUME NEW g, DOMAIN g = {"m", "reads", "label", "inputs", "code"}, NEW n \in Nat,
         DOMAIN g.label = 0 .. n - 1, NEW pos \in 0 .. n, NEW info
  PROVE  LET k == Label(g, pos, info)
         IN  /\ DOMAIN k = DOMAIN g
             /\ k.m = g.m /\ k.reads = g.reads /\ k.inputs = g.inputs /\ k.code = g.code
             /\ DOMAIN k.label = IF pos = n THEN 0 .. n ELSE 0 .. n - 1
             /\ k.label[pos] = info
             /\ \A p \in 0 .. n - 1 : p # pos => k.label[p] = g.label[p]
<1>1. Cardinality(0 .. n - 1) = n
  BY FS_Interval
<1> DEFINE size == IF pos < n THEN n ELSE pos + 1
           lab  == [p \in 0 .. size - 1 |-> IF p = pos THEN info ELSE IF p \in DOMAIN g.label THEN g.label[p] ELSE NoLabel]
<1>2. Label(g, pos, info) = [g EXCEPT !.label = lab]
  BY <1>1 DEF Label
<1>3. 0 .. size - 1 = IF pos = n THEN 0 .. n ELSE 0 .. n - 1
  OBVIOUS
<1>4. DOMAIN lab = (IF pos = n THEN 0 .. n ELSE 0 .. n - 1) /\ lab[pos] = info
  BY <1>3
<1>5. \A p \in 0 .. n - 1 : p # pos => lab[p] = g.label[p]
  OBVIOUS
<1> HIDE DEF lab
<1> QED BY <1>2, <1>4, <1>5

(* A slot that is not unmasked may get another plain label.                 *)
LEMMA Relabelled ==
  ASSUME NEW g, IsGen(g), NEW v \in DOMAIN g.m.slots, ~ Unmasked(g, v), NEW info, Plain(info)
  PROVE  LET k == Label(g, g.m.slots[v], info)
         IN  Continues(g, k) /\ k.m = g.m /\ k.code = g.code
<1> DEFINE pos == g.m.slots[v]
           k   == Label(g, pos, info)
<1>1. /\ g.m.numEmitted \in Nat /\ pos \in 0 .. g.m.numEmitted - 1
      /\ DOMAIN g = {"m", "reads", "label", "inputs", "code"}
      /\ DOMAIN g.label = 0 .. g.m.numEmitted - 1
  BY GenManager DEF IsGen
<1> HIDE DEF pos
<1>2. /\ DOMAIN k = DOMAIN g
      /\ k.m = g.m /\ k.reads = g.reads /\ k.inputs = g.inputs /\ k.code = g.code
      /\ DOMAIN k.label = DOMAIN g.label /\ k.label[pos] = info
      /\ \A p \in DOMAIN g.label : p # pos => k.label[p] = g.label[p]
  BY <1>1, LabelFacts
<1> HIDE DEF k
<1>3. IsGen(k)
  BY <1>2 DEF IsGen, Plain
<1>4. ASSUME NEW kind \in Kind PROVE UnmaskedSlots(k, kind) = UnmaskedSlots(g, kind)
  <2>1. pos \notin UnmaskedSlots(g, kind)
    BY DEF Unmasked, pos
  <2>2. pos \notin UnmaskedSlots(k, kind)
    BY <1>2 DEF Plain, UnmaskedSlots
  <2> QED BY <1>2, <2>1, <2>2 DEF UnmaskedSlots
<1>5. \A u \in Var(g.m) : Unmasked(k, u) => Unmasked(g, u)
  BY <1>2, <1>4 DEF Unmasked
<1>6. Later(g.m, k.m) /\ g.m.numEmitted .. k.m.numEmitted - 1 = {} /\ g.inputs <= k.inputs
  BY <1>1, <1>2, GenManager, LaterSame
<1> QED BY <1>2, <1>3, <1>4, <1>5, <1>6, LastGrownSame DEF Keeps, Continues, k, pos

(* A statement at the end of the last function, for the next slot.          *)
LEMMA StatementAdded ==
  ASSUME NEW code, code \in Seq(Seq(Statement)), code # <<>>, InOrder(code), NEW slot \in Nat,
         Written(code) \subseteq 0 .. slot - 1, NEW reads \in SUBSET (0 .. slot - 1),
         NEW new, new = [code EXCEPT ![Len(code)] = Append(@, [slot |-> slot, reads |-> reads])]
  PROVE  /\ new \in Seq(Seq(Statement)) /\ Len(new) = Len(code)
         /\ InOrder(new) /\ Written(new) = Written(code) \cup {slot}
         /\ LastGrown(code, new, slot)
<1> DEFINE L == Len(code)
           N == Len(code[L])
<1>1. L \in Nat /\ L # 0 /\ DOMAIN code = 1 .. L /\ DOMAIN new = 1 .. L /\ L \in DOMAIN code
  OBVIOUS
<1>2. code[L] \in Seq(Statement) /\ N \in Nat /\ DOMAIN code[L] = 1 .. N
  BY <1>1
<1>3. [slot |-> slot, reads |-> reads] \in Statement
  BY DEF Statement
<1>4. /\ new[L] = Append(code[L], [slot |-> slot, reads |-> reads])
      /\ \A c \in DOMAIN code : c # L => new[c] = code[c]
  BY <1>1
<1>5. new[L] \in Seq(Statement) /\ DOMAIN new[L] = 1 .. N + 1
      /\ new[L][N + 1] = [slot |-> slot, reads |-> reads]
      /\ \A n \in 1 .. N : new[L][n] = code[L][n]
  BY <1>2, <1>3, <1>4
<1>6. \A c \in DOMAIN code : new[c] \in Seq(Statement)
  BY <1>1, <1>4, <1>5
<1>7. new \in Seq(Seq(Statement)) /\ Len(new) = L
  <2>1. \A c \in 1 .. L : new[c] \in Seq(Statement)
    BY <1>1, <1>6
  <2>2. new = [c \in 1 .. L |-> new[c]]
    BY <1>1
  <2>3. new \in [1 .. L -> Seq(Statement)]
    BY ONLY <2>1, <2>2
  <2> QED BY ONLY <1>1, <2>3
<1> HIDE DEF L, N
<1>8. \A c \in DOMAIN code : \A n \in DOMAIN code[c] : n \in DOMAIN new[c] /\ new[c][n] = code[c][n] /\ n \in Nat
  <2>1. \A c \in DOMAIN code : \A n \in DOMAIN code[c] : n \in Nat
    BY <1>1 DEF L
  <2> QED BY <1>2, <1>4, <1>5, <2>1
<1>9. \A c \in DOMAIN new : c \in DOMAIN code /\ \A n \in DOMAIN new[c] :
        \/ n \in DOMAIN code[c]
        \/ c = L /\ n = N + 1 /\ new[c][n].slot = slot /\ new[c][n].reads = reads
  BY <1>1, <1>2, <1>4, <1>5
<1>10. \A c \in DOMAIN code : \A n \in DOMAIN code[c] : code[c][n].slot \in 0 .. slot - 1
  BY DEF Written
<1>11. Written(new) = Written(code) \cup {slot}
  <2>1. \A p \in Written(new) : p \in Written(code) \cup {slot}
    BY <1>8, <1>9 DEF Written
  <2>2. \A p \in Written(code) : p \in Written(new)
    <3> SUFFICES ASSUME NEW p \in Written(code) PROVE p \in Written(new)
      OBVIOUS
    <3>1. PICK c \in DOMAIN code : \E n \in DOMAIN code[c] : code[c][n].slot = p
      BY DEF Written
    <3> PICK n \in DOMAIN code[c] : code[c][n].slot = p
      BY <3>1
    <3>2. c \in DOMAIN new /\ n \in DOMAIN new[c] /\ new[c][n].slot = p
      BY <1>1, <1>8
    <3>3. p \in {new[c][j].slot : j \in DOMAIN new[c]}
      BY ONLY <3>2
    <3> QED BY ONLY <3>2, <3>3 DEF Written
  <2>3. slot \in Written(new)
    BY <1>1, <1>2, <1>5 DEF Written
  <2> QED BY <2>1, <2>2, <2>3
<1>12. ASSUME NEW c \in DOMAIN new, NEW n \in DOMAIN new[c]
       PROVE  /\ \A p \in new[c][n].reads : p < new[c][n].slot
              /\ \A b \in 1 .. c : \A k \in DOMAIN new[b] :
                   b < c \/ k < n => new[b][k].slot < new[c][n].slot
  <2>1. CASE n \in DOMAIN code[c]
    <3>1. /\ c \in DOMAIN code /\ new[c][n] = code[c][n]
          /\ \A p \in code[c][n].reads : p < code[c][n].slot
          /\ \A b \in 1 .. c : \A k \in DOMAIN code[b] :
               b < c \/ k < n => code[b][k].slot < code[c][n].slot
      BY <1>1, <1>8, <2>1 DEF InOrder
    <3>2. ASSUME NEW b \in 1 .. c, NEW k \in DOMAIN new[b], b < c \/ k < n
          PROVE  k \in DOMAIN code[b] /\ b \in DOMAIN code
      <4>1. b \in DOMAIN code /\ c \in 1 .. L
        BY <1>1
      <4>2. b = L /\ k = N + 1 => c = L /\ n \in 1 .. N
        BY <1>1, <1>2, <2>1, <4>1
      <4> QED BY <1>2, <1>9, <3>2, <4>1, <4>2, <1>1
    <3> QED BY <1>8, <3>1, <3>2
  <2>2. CASE n \notin DOMAIN code[c]
    <3>1. c = L /\ n = N + 1 /\ new[c][n].slot = slot /\ new[c][n].reads = reads
      BY <1>9, <2>2
    <3>2. \A p \in reads : p < slot
      OBVIOUS
    <3>3. ASSUME NEW b \in 1 .. c, NEW k \in DOMAIN new[b], b < c \/ k < n
          PROVE  new[b][k].slot < slot
      <4>1. b \in DOMAIN code /\ k \in DOMAIN code[b]
        BY <1>1, <1>2, <1>9, <3>1, <3>3
      <4> QED BY <1>8, <1>10, <4>1
    <3> QED BY <3>1, <3>2, <3>3
  <2> QED BY <2>1, <2>2
<1>13. InOrder(new)
  BY <1>12 DEF InOrder
<1>14. LastGrown(code, new, slot)
  <2>1. SUFFICES ASSUME NEW c \in DOMAIN code, NEW p \in CodeSlots(new, c)
                 PROVE  p \in CodeSlots(code, c) \/ (c = L /\ p \in Nat /\ slot <= p)
    BY DEF LastGrown, L
  <2>2. PICK n \in DOMAIN new[c] : p = new[c][n].slot
    BY DEF CodeSlots
  <2>3. CASE n \in DOMAIN code[c]
    <3>1. p = code[c][n].slot
      BY <1>8, <2>2, <2>3
    <3> QED BY <2>3, <3>1 DEF CodeSlots
  <2>4. CASE n \notin DOMAIN code[c]
    <3>1. c = L /\ p = slot
      BY <1>1, <1>9, <2>2, <2>4
    <3>2. slot <= slot
      OBVIOUS
    <3> QED BY <3>1, <3>2
  <2> QED BY <2>3, <2>4
<1> QED BY <1>7, <1>11, <1>13, <1>14 DEF L

(* The slots called unmasked after slot n was labelled.                     *)
Unmasks(info, kind) == info[1] = kind /\ info[3] = "unmasked"
LabelledNext(g, k, n) == /\ DOMAIN g.label = 0 .. n - 1 /\ DOMAIN k.label = 0 .. n
                         /\ \A p \in 0 .. n - 1 : k.label[p] = g.label[p]

LEMMA UnmaskedAdded ==
  ASSUME NEW g, NEW k, NEW n, n \in Nat, LabelledNext(g, k, n), NEW kind
  PROVE  /\ Unmasks(k.label[n], kind) => UnmaskedSlots(k, kind) = UnmaskedSlots(g, kind) \cup {n}
         /\ ~ Unmasks(k.label[n], kind) => UnmaskedSlots(k, kind) = UnmaskedSlots(g, kind)
<1>1. 0 .. n = (0 .. n - 1) \cup {n} /\ n \notin 0 .. n - 1
  OBVIOUS
<1> QED BY <1>1 DEF UnmaskedSlots, Unmasks, LabelledNext

(* emit and add_debug_info of a variable that is computed and has no slot.  *)
LEMMA WriteLabelled ==
  ASSUME NEW g, IsGen(g), g.code # <<>>, NEW v \in Var(g.m), v \notin DOMAIN g.m.slots,
         NEW info, Plain(info)
  PROVE  LET h == EmitWritten(g, v)
             k == Label(h, EmissionSlot(h.m, v), info)
         IN  /\ h.m = NewEmission(g.m, v) /\ EmissionSlot(h.m, v) = g.m.numEmitted
             /\ Continues(g, k) /\ k.m = h.m
<1> DEFINE h == EmitWritten(g, v)
           e == g.m.numEmitted
           n == NewEmission(g.m, v)
           k == Label(h, e, info)
<1>1. /\ e \in Nat /\ v \notin Constant /\ g.reads[v] \in SUBSET (0 .. e - 1)
      /\ DOMAIN g = {"m", "reads", "label", "inputs", "code"}
      /\ DOMAIN g.label = 0 .. e - 1
      /\ g.code \in Seq(Seq(Statement)) /\ InOrder(g.code) /\ Written(g.code) \subseteq 0 .. e - 1
      /\ Sound(g.m) /\ Disciplined(g.m)
  BY GenManager DEF IsGen
<1>2. /\ Later(g.m, n) /\ n.numVars = g.m.numVars /\ Sound(n) /\ Disciplined(n)
      /\ n.numEmitted = e + 1 /\ n.slots[v] = e /\ DOMAIN n.slots = DOMAIN g.m.slots \cup {v}
      /\ Var(n) = Var(g.m)
  <2>1. n = NewEmission(g.m, v)
    OBVIOUS
  <2> HIDE DEF n
  <2>2. /\ Later(g.m, n) /\ n.numVars = g.m.numVars
        /\ n.nots = g.m.nots /\ n.ands = g.m.ands /\ n.ors = g.m.ors
        /\ n.xors = g.m.xors /\ n.muxes = g.m.muxes
        /\ n.numEmitted = e + 1 /\ n.slots[v] = e /\ DOMAIN n.slots = DOMAIN g.m.slots \cup {v}
    BY <1>1, <2>1, EmissionFacts
  <2>3. Disciplined(n)
    BY <1>1, <2>2, SameCaches
  <2> QED BY <2>2, <2>3 DEF Later, Var
<1> DEFINE code == [g.code EXCEPT ![Len(g.code)] = Append(@, [slot |-> e, reads |-> g.reads[v]])]
<1>3. h = [g EXCEPT !.m = n, !.code = code]
  BY <1>1 DEF EmitWritten
<1>4. /\ code \in Seq(Seq(Statement)) /\ Len(code) = Len(g.code)
      /\ InOrder(code) /\ Written(code) = Written(g.code) \cup {e}
      /\ LastGrown(g.code, code, e)
  BY <1>1, StatementAdded
<1> HIDE DEF h, n, e, code
<1>5. /\ DOMAIN h = DOMAIN g /\ h.m = n /\ h.code = code /\ h.reads = g.reads
      /\ h.label = g.label /\ h.inputs = g.inputs
  BY <1>1, <1>3
<1>6. EmissionSlot(h.m, v) = e
  BY <1>2, <1>5 DEF EmissionSlot
<1>7. /\ DOMAIN k = DOMAIN g
      /\ k.m = n /\ k.reads = g.reads /\ k.inputs = g.inputs /\ k.code = code
      /\ DOMAIN k.label = 0 .. e /\ k.label[e] = info
      /\ \A p \in 0 .. e - 1 : k.label[p] = g.label[p]
  <2>1. e \in 0 .. e
    BY <1>1
  <2>2. \A p \in 0 .. e - 1 : p # e
    BY <1>1
  <2> QED BY <1>1, <1>5, <2>1, <2>2, LabelFacts
<1> HIDE DEF k
<1>8. 0 .. e - 1 \subseteq 0 .. e /\ 0 .. (e + 1) - 1 = 0 .. e /\ 0 .. e = (0 .. e - 1) \cup {e}
      /\ e .. (e + 1) - 1 = {e}
  BY <1>1
<1>9. IsGen(k)
  <2>1. k.reads \in [Var(k.m) -> SUBSET (0 .. k.m.numEmitted - 1)]
    <3>1. g.reads \in [Var(g.m) -> SUBSET (0 .. e - 1)]
      BY DEF IsGen, e
    <3> QED BY <3>1, <1>2, <1>7, <1>8
  <2>2. DOMAIN k.label = 0 .. k.m.numEmitted - 1
    BY <1>2, <1>7, <1>8
  <2>3. \A p \in DOMAIN k.label : k.label[p] # NoLabel
    BY <1>1, <1>7, <1>8 DEF IsGen, Plain
  <2>4. Written(k.code) \subseteq 0 .. k.m.numEmitted - 1
    BY <1>1, <1>2, <1>4, <1>7, <1>8
  <2>5. k.inputs \in Nat
    BY <1>7 DEF IsGen
  <2> QED BY <1>1, <1>2, <1>4, <1>7, <2>1, <2>2, <2>3, <2>4, <2>5 DEF IsGen
<1>10. \A kind \in Kind : UnmaskedSlots(k, kind) = UnmaskedSlots(g, kind)
  <2>1. SUFFICES ASSUME NEW kind \in Kind PROVE UnmaskedSlots(k, kind) = UnmaskedSlots(g, kind)
    OBVIOUS
  <2>2. ~ Unmasks(k.label[e], kind)
    BY <1>7 DEF Plain, Unmasks
  <2>3. e \in Nat /\ LabelledNext(g, k, e)
    BY <1>1, <1>7 DEF LabelledNext
  <2> QED BY ONLY <2>2, <2>3, UnmaskedAdded
<1>11. \A u \in Var(g.m) : Unmasked(k, u) => Unmasked(g, u)
  <2>1. SUFFICES ASSUME NEW u \in Var(g.m), Unmasked(k, u) PROVE Unmasked(g, u)
    OBVIOUS
  <2>2. k.m.slots[u] # e
    BY <1>1, <1>10, <2>1 DEF UnmaskedSlots, Unmasked
  <2>3. u \in DOMAIN g.m.slots /\ k.m.slots[u] = g.m.slots[u]
    BY <1>2, <1>7, <2>1, <2>2 DEF Unmasked, Later
  <2> QED BY <1>10, <2>1, <2>3 DEF Unmasked
<1>12. Keeps(g, k)
  BY <1>2, <1>7, <1>9, <1>11, GenManager DEF Keeps
<1>13. Continues(g, k)
  BY <1>2, <1>4, <1>7, <1>8, <1>10, <1>12 DEF Continues, e
<1> QED BY <1>5, <1>6, <1>7, <1>13 DEF h, k, e, n

(* create_symbol and emit of an input: a new variable that no expression    *)
(* uses, in the next slot.                                                  *)
LEMMA NewInputFacts ==
  ASSUME NEW g, IsGen(g), NEW info, info # NoLabel
  PROVE  LET k == NewInput(g, info)
         IN  /\ Keeps(g, k)
             /\ k.m.numVars = g.m.numVars + 1 /\ k.m.numEmitted = g.m.numEmitted + 1
             /\ k.inputs = g.inputs + 1 /\ k.code = g.code
             /\ GoodSymbol(k.m, [var |-> g.m.numVars, pos |-> g.m.numEmitted], InputFunction(g.inputs))
             /\ k.m.nots = g.m.nots /\ k.m.xors = g.m.xors
             /\ \A kind \in Kind :
                  IF info[1] = kind /\ info[3] = "unmasked"
                  THEN UnmaskedSlots(k, kind) = UnmaskedSlots(g, kind) \cup {g.m.numEmitted}
                  ELSE UnmaskedSlots(k, kind) = UnmaskedSlots(g, kind)
<1> DEFINE v == g.m.numVars
           e == g.m.numEmitted
           f == InputFunction(g.inputs)
           w == NewVar(g.m, f)
           n == NewEmission(w, v)
           h == [g EXCEPT !.m = n, !.reads = Emplace(@, v, {n.slots[v]}), !.inputs = @ + 1]
           k == Label(h, n.slots[v], info)
<1>1. /\ e \in Nat /\ v \in Nat /\ g.inputs \in Nat
      /\ DOMAIN g = {"m", "reads", "label", "inputs", "code"}
      /\ DOMAIN g.label = 0 .. e - 1
      /\ g.reads \in [Var(g.m) -> SUBSET (0 .. e - 1)]
      /\ Sound(g.m) /\ Disciplined(g.m) /\ IsManager(g.m)
      /\ Var(g.m) = 0 .. v - 1 /\ DOMAIN g.m.slots \subseteq Var(g.m)
  BY GenManager DEF IsGen, Sound
<1>2. f \in SUBSET Assignment
  BY DEF InputFunction
<1>3. /\ w.numVars = v + 1 /\ w.nots = g.m.nots /\ w.xors = g.m.xors
      /\ w.slots = g.m.slots /\ w.numEmitted = e
      /\ Computes(g.m, Result(w, v), f) /\ Disciplined(w)
  BY <1>1, <1>2, NewVarFields, InputFacts
<1>4. /\ Sound(w) /\ Later(g.m, w) /\ Truth(w, v) = f /\ Var(w) = 0 .. v /\ v \notin DOMAIN w.slots
      /\ w.truth[v] = f
  <2>1. Sound(w) /\ Later(g.m, w) /\ Truth(w, v) = f
    BY <1>1, <1>3, GrownLater DEF Computes, Grown, Result
  <2>2. Var(w) = 0 .. v /\ v \notin DOMAIN w.slots
    BY <1>1, <1>3 DEF Var
  <2>3. v \in Var(w)
    BY <1>1, <2>2
  <2> QED BY <2>1, <2>2, <2>3, TruthOf DEF Sound, Known
<1>5. /\ Later(w, n) /\ Later(g.m, n) /\ n.numVars = v + 1 /\ Sound(n) /\ Disciplined(n)
      /\ n.nots = g.m.nots /\ n.xors = g.m.xors /\ n.truth[v] = f
      /\ n.numEmitted = e + 1 /\ n.slots[v] = e /\ DOMAIN n.slots = DOMAIN g.m.slots \cup {v}
  <2>1. v \in Var(w) /\ n = NewEmission(w, v)
    BY <1>1, <1>4
  <2> HIDE DEF n, w
  <2>2. /\ Later(w, n) /\ n.numVars = w.numVars /\ n.truth = w.truth
        /\ n.nots = w.nots /\ n.ands = w.ands /\ n.ors = w.ors
        /\ n.xors = w.xors /\ n.muxes = w.muxes
        /\ n.numEmitted = w.numEmitted + 1 /\ n.slots[v] = w.numEmitted
        /\ DOMAIN n.slots = DOMAIN w.slots \cup {v}
    BY <1>4, <2>1, EmissionFacts
  <2>3. Disciplined(n)
    BY <1>3, <2>2, SameCaches
  <2>4. Later(g.m, n)
    BY <1>1, <1>4, <2>2, LaterTwice
  <2> QED BY <1>3, <1>4, <2>2, <2>3, <2>4 DEF Later
<1> HIDE DEF n, w, f
<1>6. /\ DOMAIN h = DOMAIN g /\ h.m = n /\ h.code = g.code /\ h.label = g.label
      /\ h.reads = Emplace(g.reads, v, {e}) /\ h.inputs = g.inputs + 1
  BY <1>1, <1>5
<1>7. NewInput(g, info) = k
  BY DEF NewInput, n, w, f
<1> HIDE DEF h
<1>8. /\ DOMAIN k = DOMAIN g
      /\ k.m = n /\ k.reads = h.reads /\ k.inputs = g.inputs + 1 /\ k.code = g.code
      /\ DOMAIN k.label = 0 .. e /\ k.label[e] = info
      /\ \A p \in 0 .. e - 1 : k.label[p] = g.label[p]
  <2>1. e \in 0 .. e /\ \A p \in 0 .. e - 1 : p # e
    BY <1>1
  <2> HIDE DEF k, e
  <2>2. k = Label(h, e, info)
    BY <1>5 DEF k
  <2> QED BY <1>1, <1>6, <2>1, <2>2, LabelFacts
<1> HIDE DEF k
<1>9. /\ 0 .. (e + 1) - 1 = 0 .. e /\ 0 .. e = (0 .. e - 1) \cup {e}
      /\ Var(n) = (0 .. v - 1) \cup {v} /\ v \notin 0 .. v - 1
  BY <1>1, <1>5 DEF Var
<1>10. IsGen(k)
  <2>1. k.reads \in [Var(k.m) -> SUBSET (0 .. k.m.numEmitted - 1)]
    <3>1. h.reads = [u \in (0 .. v - 1) \cup {v} |-> IF u \in 0 .. v - 1 THEN g.reads[u] ELSE {e}]
      BY <1>1, <1>6 DEF Emplace
    <3>2. \A u \in 0 .. v - 1 : g.reads[u] \in SUBSET (0 .. e)
      BY <1>1, <1>9
    <3>3. {e} \in SUBSET (0 .. e)
      BY <1>1
    <3>4. h.reads \in [Var(n) -> SUBSET (0 .. e)]
      BY ONLY <1>9, <3>1, <3>2, <3>3
    <3> QED BY <1>5, <1>8, <1>9, <3>4
  <2>2. DOMAIN k.label = 0 .. k.m.numEmitted - 1
    BY <1>5, <1>8, <1>9
  <2>3. \A p \in DOMAIN k.label : k.label[p] # NoLabel
    BY <1>1, <1>8, <1>9 DEF IsGen
  <2>4. Written(k.code) \subseteq 0 .. k.m.numEmitted - 1 /\ k.code \in Seq(Seq(Statement)) /\ InOrder(k.code)
    BY <1>5, <1>8, <1>9 DEF IsGen
  <2>5. k.inputs \in Nat
    BY <1>1, <1>8
  <2> QED BY <1>1, <1>5, <1>8, <2>1, <2>2, <2>3, <2>4, <2>5 DEF IsGen
<1>11. \A u \in Var(g.m) : Unmasked(k, u) => Unmasked(g, u)
  <2>1. SUFFICES ASSUME NEW u \in Var(g.m), Unmasked(k, u) PROVE Unmasked(g, u)
    OBVIOUS
  <2>2. u # v
    BY <1>1, <1>9
  <2>3. u \in DOMAIN g.m.slots /\ k.m.slots[u] = g.m.slots[u] /\ g.m.slots[u] \in 0 .. e - 1
    BY <1>1, <1>5, <1>8, <2>1, <2>2, GenManager DEF Unmasked, Later
  <2>4. \A kind \in Kind : g.m.slots[u] \in UnmaskedSlots(k, kind) => g.m.slots[u] \in UnmaskedSlots(g, kind)
    BY <1>1, <1>8, <2>3 DEF UnmaskedSlots
  <2> QED BY <2>1, <2>3, <2>4 DEF Unmasked
<1>12. Keeps(g, k)
  BY <1>1, <1>5, <1>8, <1>10, <1>11 DEF Keeps
<1>13. GoodSymbol(k.m, [var |-> v, pos |-> e], f)
  <2>1. v \in Var(n) /\ e \in 0 .. n.numEmitted - 1 /\ e # INVALID_POS
    BY <1>1, <1>5, <1>9 DEF INVALID_POS
  <2>2. Truth(n, v) = f
    BY <1>5, <2>1, TruthOf DEF Sound, Known
  <2> QED BY <1>5, <1>8, <2>1, <2>2 DEF GoodSymbol, Known
<1>14. \A kind \in Kind :
         IF info[1] = kind /\ info[3] = "unmasked"
         THEN UnmaskedSlots(k, kind) = UnmaskedSlots(g, kind) \cup {e}
         ELSE UnmaskedSlots(k, kind) = UnmaskedSlots(g, kind)
  <2>1. SUFFICES ASSUME NEW kind \in Kind
                 PROVE  IF Unmasks(info, kind)
                        THEN UnmaskedSlots(k, kind) = UnmaskedSlots(g, kind) \cup {e}
                        ELSE UnmaskedSlots(k, kind) = UnmaskedSlots(g, kind)
    BY DEF Unmasks
  <2>2. e \in Nat /\ LabelledNext(g, k, e) /\ k.label[e] = info
    BY <1>1, <1>8 DEF LabelledNext
  <2> QED BY <2>2, UnmaskedAdded
<1> QED BY <1>5, <1>7, <1>8, <1>12, <1>13, <1>14 DEF f

-----------------------------------------------------------------------------
(* The cells.                                                               *)

(* An evaluation in m that yields a symbol of f: a new one, or one of olds. *)
Yields(m, y, f, olds) ==
  /\ Grown(m, y.m) /\ Disciplined(y.m) /\ GoodSymbol(y.m, y.sym, f)
  /\ y.sym = SymbolOf(y.m, y.sym.var) \/ y.sym \in olds

LEMMA GrownSame == ASSUME NEW m, Sound(m) PROVE Grown(m, m)
  BY DEF Grown, Sound, IsManager

LEMMA SymbolKnown ==
  ASSUME NEW m, NEW x, NEW f, GoodSymbol(m, x, f) PROVE x.var \in Known(m) /\ Truth(m, x.var) = f
  BY DEF GoodSymbol

LEMMA MadeYields ==
  ASSUME NEW m, NEW res, NEW f, Computes(m, res, f), Disciplined(res.m), NEW olds
  PROVE  Yields(m, Made(res), f, olds)
<1>1. Grown(m, res.m) /\ Sound(res.m) /\ res.v \in Known(res.m) /\ Truth(res.m, res.v) = f
  BY DEF Computes, Grown
<1>2. Made(res).m = res.m /\ Made(res).sym = SymbolOf(res.m, res.v)
  BY DEF Made
<1>3. SymbolOf(res.m, res.v).var = res.v
  BY DEF SymbolOf
<1> QED BY <1>1, <1>2, <1>3, NewSymbol DEF Yields

LEMMA KeptYields ==
  ASSUME NEW m, Sound(m), Disciplined(m), NEW x, NEW f, GoodSymbol(m, x, f), NEW olds, x \in olds
  PROVE  Yields(m, Kept(m, x), f, olds)
  BY GrownSame DEF Yields, Kept

LEMMA NotIfYields ==
  ASSUME NEW m, Sound(m), NEW y, NEW f, NEW olds, Yields(m, y, f, olds), NEW flag \in BOOLEAN
  PROVE  Yields(m, NotIf(flag, y), NotF(flag, f), olds)
<1>1. CASE flag
  <2> DEFINE res == MakeNot(y.m, y.sym.var)
  <2>1. Sound(y.m) /\ Disciplined(y.m) /\ y.sym.var \in Known(y.m) /\ Truth(y.m, y.sym.var) = f
    BY SymbolKnown DEF Yields, Grown
  <2>2. Computes(y.m, res, Not(f)) /\ Disciplined(res.m)
    BY <2>1, NotComputes, NotDisciplined
  <2>3. Computes(m, res, Not(f))
    BY <2>2, Then DEF Yields
  <2>4. Yields(m, Made(res), Not(f), olds)
    BY <2>2, <2>3, MadeYields
  <2> QED BY <1>1, <2>4 DEF NotIf, NotF
<1>2. CASE ~ flag
  BY <1>2 DEF NotIf, NotF
<1> QED BY <1>1, <1>2

(* The function of the operation of a gate with two inputs.                 *)
Binary(g, fa, fb) == CASE g.op = "and" -> fa \cap fb
                       [] g.op = "or"  -> fa \cup fb
                       [] g.op = "xor" -> Xor(fa, fb)

LEMMA BinaryYields ==
  ASSUME NEW m, Sound(m), Disciplined(m), NEW g, g.op \in {"and", "or", "xor"}, g.neg2 \in BOOLEAN,
         NEW a, NEW fa, GoodSymbol(m, a, fa), NEW b0, NEW f0, GoodSymbol(m, b0, f0), NEW olds,
         NEW fb, fb = NotF(g.neg2, f0)
  PROVE  Yields(m, EvalBinary(m, g, a, b0), Binary(g, fa, fb), olds)
<1> DEFINE b  == NotIf(g.neg2, Kept(m, b0))
<1>1. Yields(m, b, fb, {b0})
  BY KeptYields, NotIfYields
<1> HIDE DEF b
<1>2. /\ Sound(b.m) /\ Disciplined(b.m) /\ Grown(m, b.m)
      /\ b.sym.var \in Known(b.m) /\ Truth(b.m, b.sym.var) = fb
      /\ a.var \in Known(b.m) /\ Truth(b.m, a.var) = fa
  BY <1>1, SymbolKnown, GrownKnown DEF Yields, Grown
<1>3. CASE g.op = "and"
  <2> DEFINE res == MakeAnd(b.m, a.var, b.sym.var)
  <2>1. Computes(b.m, res, fa \cap fb) /\ Disciplined(res.m)
    BY <1>2, AndComputes, AndDisciplined
  <2>2. Yields(m, Made(res), fa \cap fb, olds)
    BY <1>2, <2>1, Then, MadeYields
  <2> QED BY <1>3, <2>2 DEF EvalBinary, b, Binary
<1>4. CASE g.op = "or"
  <2> DEFINE res == MakeOr(b.m, a.var, b.sym.var)
  <2>1. Computes(b.m, res, fa \cup fb) /\ Disciplined(res.m)
    BY <1>2, OrComputes, OrDisciplined
  <2>2. Yields(m, Made(res), fa \cup fb, olds)
    BY <1>2, <2>1, Then, MadeYields
  <2> QED BY <1>4, <2>2 DEF EvalBinary, b, Binary
<1>5. CASE g.op = "xor"
  <2> DEFINE res == MakeXor(b.m, a.var, b.sym.var)
  <2>1. Computes(b.m, res, Xor(fa, fb)) /\ Disciplined(res.m)
    BY <1>2, XorComputes, XorDisciplined
  <2>2. Yields(m, Made(res), Xor(fa, fb), olds)
    BY <1>2, <2>1, Then, MadeYields
  <2> QED BY <1>5, <2>2 DEF EvalBinary, b, Binary
<1> QED BY <1>3, <1>4, <1>5

(* A gate as IsCircuit asks for.                                            *)
IsGate(g) ==
  /\ g.kind \in {"unary", "binary", "mux"} /\ {g.neg, g.neg2} \subseteq BOOLEAN
  /\ g.kind = "binary" => g.op \in {"and", "or", "xor"}
  /\ DOMAIN g.in = 1 .. (CASE g.kind = "unary" -> 1 [] g.kind = "binary" -> 2 [] g.kind = "mux" -> 3)

LEMMA SameInputs ==
  ASSUME NEW g, IsGate(g), NEW val, NEW pval, \A i \in DOMAIN g.in : val[g.in[i]] = pval[g.in[i]]
  PROVE  GateFunction(g, val) = GateFunction(g, pval)
<1>1. CASE g.kind = "unary"
  <2>1. 1 \in DOMAIN g.in
    BY <1>1 DEF IsGate
  <2> QED BY <1>1, <2>1 DEF GateFunction
<1>2. CASE g.kind = "binary"
  <2>1. 1 \in DOMAIN g.in /\ 2 \in DOMAIN g.in
    BY <1>2 DEF IsGate
  <2>2. val[g.in[1]] = pval[g.in[1]] /\ NotF(g.neg2, val[g.in[2]]) = NotF(g.neg2, pval[g.in[2]])
    BY <2>1
  <2> QED BY <1>2, <2>2 DEF GateFunction, IsGate
<1>3. CASE g.kind = "mux"
  <2>1. 1 \in DOMAIN g.in /\ 2 \in DOMAIN g.in /\ 3 \in DOMAIN g.in
    BY <1>3 DEF IsGate
  <2> QED BY <1>3, <2>1 DEF GateFunction
<1> QED BY <1>1, <1>2, <1>3 DEF IsGate

(* Cell::eval of a gate, whose output in the cycle before was right.        *)
LEMMA GateYields ==
  ASSUME NEW m, Sound(m), Disciplined(m), NEW g, IsGate(g), NEW curr, NEW val,
         \A i \in DOMAIN g.in : GoodSymbol(m, curr[g.in[i]], val[g.in[i]]),
         NEW prev, NEW pval,
         \A i \in DOMAIN g.in : g.in[i] \in DOMAIN prev => GoodSymbol(m, prev[g.in[i]], pval[g.in[i]]),
         g.out \in DOMAIN prev => GoodSymbol(m, prev[g.out], GateFunction(g, pval))
  PROVE  Yields(m, EvalGate(m, prev, curr, g), GateFunction(g, val),
                {curr[g.in[i]] : i \in DOMAIN g.in}
                  \cup (IF g.out \in DOMAIN prev THEN {prev[g.out]} ELSE {}))
<1> DEFINE olds == {curr[g.in[i]] : i \in DOMAIN g.in}
                     \cup (IF g.out \in DOMAIN prev THEN {prev[g.out]} ELSE {})
<1>1. CASE UnchangedInputs(prev, curr, g)
  <2>1. g.out \in DOMAIN prev /\ \A i \in DOMAIN g.in : val[g.in[i]] = pval[g.in[i]]
    BY <1>1, SymbolKnown DEF UnchangedInputs
  <2>2. GateFunction(g, val) = GateFunction(g, pval)
    BY <2>1, SameInputs
  <2>3. EvalGate(m, prev, curr, g) = Kept(m, prev[g.out])
    BY <1>1 DEF EvalGate
  <2> QED BY <2>1, <2>2, <2>3, KeptYields
<1>2. CASE ~ UnchangedInputs(prev, curr, g)
  <2> HIDE DEF olds
  <2>1. CASE g.kind = "unary"
    <3>1. 1 \in DOMAIN g.in
      BY <2>1 DEF IsGate
    <3>2. Yields(m, Kept(m, curr[g.in[1]]), val[g.in[1]], olds)
      BY <3>1, KeptYields DEF olds
    <3>3. Yields(m, NotIf(g.neg, Kept(m, curr[g.in[1]])), NotF(g.neg, val[g.in[1]]), olds)
      BY <3>2, NotIfYields DEF IsGate
    <3> QED BY <1>2, <2>1, <3>3 DEF EvalGate, GateFunction, olds
  <2>2. CASE g.kind = "binary"
    <3>1. 1 \in DOMAIN g.in /\ 2 \in DOMAIN g.in
      BY <2>2 DEF IsGate
    <3> DEFINE y == EvalBinary(m, g, curr[g.in[1]], curr[g.in[2]])
               fb == NotF(g.neg2, val[g.in[2]])
               f == Binary(g, val[g.in[1]], fb)
    <3>2. Yields(m, y, f, olds)
      <4> DEFINE a == curr[g.in[1]]
                 b == curr[g.in[2]]
                 fa == val[g.in[1]]
                 f0 == val[g.in[2]]
      <4>1. /\ fb = NotF(g.neg2, f0) /\ Sound(m) /\ Disciplined(m) /\ g.op \in {"and", "or", "xor"} /\ g.neg2 \in BOOLEAN
            /\ GoodSymbol(m, a, fa) /\ GoodSymbol(m, b, f0)
        BY <2>2, <3>1 DEF IsGate
      <4> HIDE DEF a, b, fa, f0, fb
      <4>2. Yields(m, EvalBinary(m, g, a, b), Binary(g, fa, fb), olds)
        BY ONLY <4>1, BinaryYields
      <4> USE DEF a, b, fa, fb
      <4> QED BY ONLY <4>2
    <3> HIDE DEF y, f
    <3>3. Yields(m, NotIf(g.neg, y), NotF(g.neg, f), olds)
      BY <3>2, NotIfYields DEF IsGate
    <3>4. EvalGate(m, prev, curr, g) = NotIf(g.neg, y)
      BY <1>2, <2>2 DEF EvalGate, y
    <3>5. GateFunction(g, val) = NotF(g.neg, f)
      BY <2>2 DEF GateFunction, f, IsGate, Binary
    <3> QED BY <3>3, <3>4, <3>5 DEF olds
  <2>3. CASE g.kind = "mux"
    <3>1. 1 \in DOMAIN g.in /\ 2 \in DOMAIN g.in /\ 3 \in DOMAIN g.in
      BY <2>3 DEF IsGate
    <3> DEFINE in(i) == curr[g.in[i]]
               res == MakeMux(m, in(3).var, in(2).var, in(1).var)
               f == Mux(val[g.in[3]], val[g.in[2]], val[g.in[1]])
    <3>2. Computes(m, res, f) /\ Disciplined(res.m)
      BY <3>1, SymbolKnown, MuxComputes, MuxDisciplined
    <3> HIDE DEF res, f
    <3>3. Yields(m, NotIf(g.neg, Made(res)), NotF(g.neg, f), olds)
      BY <3>2, MadeYields, NotIfYields DEF IsGate
    <3>4. EvalGate(m, prev, curr, g) = NotIf(g.neg, Made(res))
      BY <1>2, <2>3 DEF EvalGate, res
    <3>5. GateFunction(g, val) = NotF(g.neg, f)
      BY <2>3 DEF GateFunction, f
    <3> QED BY <3>3, <3>4, <3>5 DEF olds
  <2> QED BY <2>1, <2>2, <2>3 DEF IsGate
<1> QED BY <1>1, <1>2

(* Cell::eval of a register.                                                *)
LEMMA RegisterYields ==
  ASSUME NEW m, Sound(m), Disciplined(m), NEW c,
         {c.enable, c.eTrigger, c.reset, c.rTrigger, c.rValue} \subseteq BOOLEAN,
         NEW prev, NEW val, \A s \in {c.d, c.q, c.e, c.r} : GoodSymbol(m, prev[s], val[s])
  PROVE  Yields(m, EvalRegister(m, prev, c), RegisterFunction(c, val), {prev[c.d]})
<1> DEFINE d == prev[c.d]
           q == prev[c.q]
           fd == val[c.d]
           fq == val[c.q]
           fe == NotF(~ c.eTrigger, val[c.e])
           fr == NotF(~ c.rTrigger, val[c.r])
           e == NotIf(~ c.eTrigger, Kept(m, prev[c.e]))
           w == IF c.enable THEN Made(MakeMux(e.m, e.sym.var, d.var, q.var)) ELSE Kept(m, d)
           fw == IF c.enable THEN Mux(fe, fd, fq) ELSE fd
           r == NotIf(~ c.rTrigger, Kept(w.m, prev[c.r]))
<1>1. Yields(m, e, fe, {prev[c.e]})
  <2>1. Yields(m, Kept(m, prev[c.e]), val[c.e], {prev[c.e]})
    BY KeptYields
  <2>2. (~ c.eTrigger) \in BOOLEAN
    OBVIOUS
  <2> QED BY ONLY <2>1, <2>2, Sound(m), NotIfYields
<1>2. /\ GoodSymbol(m, d, fd) /\ GoodSymbol(m, q, fq) /\ GoodSymbol(m, prev[c.r], val[c.r])
      /\ c.enable \in BOOLEAN /\ c.reset \in BOOLEAN /\ c.rValue \in BOOLEAN
  OBVIOUS
<1>3. EvalRegister(m, prev, c) =
        IF c.reset THEN Made(MakeMux(r.m, r.sym.var, ConstSymbol(c.rValue).var, w.sym.var)) ELSE w
  BY DEF EvalRegister
<1>4. RegisterFunction(c, val) = IF c.reset THEN Mux(fr, IF c.rValue THEN Assignment ELSE {}, fw) ELSE fw
  BY DEF RegisterFunction
<1>5. Yields(m, w, fw, {d})
  <2> HIDE DEF e, fe, d, fd, q, fq
  <2>1. CASE c.enable
    <3> DEFINE res == MakeMux(e.m, e.sym.var, d.var, q.var)
    <3>1. /\ Sound(e.m) /\ Disciplined(e.m) /\ Grown(m, e.m)
          /\ e.sym.var \in Known(e.m) /\ Truth(e.m, e.sym.var) = fe
          /\ d.var \in Known(e.m) /\ Truth(e.m, d.var) = fd
          /\ q.var \in Known(e.m) /\ Truth(e.m, q.var) = fq
      BY <1>1, <1>2, SymbolKnown, GrownKnown DEF Yields, Grown
    <3>2. Computes(e.m, res, Mux(fe, fd, fq)) /\ Disciplined(res.m)
      BY <3>1, MuxComputes, MuxDisciplined
    <3> HIDE DEF res
    <3>3. Yields(m, Made(res), Mux(fe, fd, fq), {d})
      BY <3>1, <3>2, Then, MadeYields
    <3> QED BY <2>1, <3>3 DEF res
  <2>2. CASE ~ c.enable
    BY <1>2, <2>2, KeptYields
  <2> QED BY <2>1, <2>2
<1> HIDE DEF w, fw
<1>6. /\ Sound(w.m) /\ Disciplined(w.m) /\ Grown(m, w.m)
      /\ w.sym.var \in Known(w.m) /\ Truth(w.m, w.sym.var) = fw
  BY <1>5, SymbolKnown DEF Yields, Grown
<1>7. Yields(w.m, r, fr, {prev[c.r]})
  <2>1. GoodSymbol(w.m, prev[c.r], val[c.r])
    BY <1>2, <1>6, GrownSymbol
  <2>2. Yields(w.m, Kept(w.m, prev[c.r]), val[c.r], {prev[c.r]})
    BY <1>6, <2>1, KeptYields
  <2>3. (~ c.rTrigger) \in BOOLEAN
    OBVIOUS
  <2> QED BY ONLY <1>6, <2>2, <2>3, NotIfYields
<1> HIDE DEF r, fr, d, fd
<1>8. CASE c.reset
  <2> DEFINE k == ConstSymbol(c.rValue).var
             res == MakeMux(r.m, r.sym.var, k, w.sym.var)
             fk == IF c.rValue THEN Assignment ELSE {}
  <2>1. /\ Sound(r.m) /\ Disciplined(r.m) /\ Grown(w.m, r.m)
        /\ r.sym.var \in Known(r.m) /\ Truth(r.m, r.sym.var) = fr
        /\ w.sym.var \in Known(r.m) /\ Truth(r.m, w.sym.var) = fw
    BY <1>6, <1>7, SymbolKnown, GrownKnown DEF Yields, Grown
  <2>2. k \in Known(r.m) /\ Truth(r.m, k) = fk
    BY DEF ConstSymbol, Known, Constant, Truth, ZERO, ONE
  <2> HIDE DEF k, fk
  <2>3. Computes(r.m, res, Mux(fr, fk, fw)) /\ Disciplined(res.m)
    BY <2>1, <2>2, MuxComputes, MuxDisciplined
  <2> HIDE DEF res
  <2>4. Grown(m, r.m)
    BY <1>6, <2>1, GrownTwice
  <2>5. Yields(m, Made(res), Mux(fr, fk, fw), {d})
    BY <2>3, <2>4, Then, MadeYields
  <2> QED BY <1>3, <1>4, <1>8, <2>5 DEF res, k, fk, d
<1>9. CASE ~ c.reset
  BY <1>3, <1>4, <1>5, <1>9 DEF d
<1> QED BY <1>2, <1>8, <1>9

-----------------------------------------------------------------------------
(* What a cell does to the generated code and to the cycle.                 *)

(* What was yielded in the manager of g is right in the code that grew.     *)
LEMMA YieldsRight ==
  ASSUME NEW g, IsGen(g), NEW y, NEW f, NEW olds, Yields(g.m, y, f, olds),
         \A x \in olds : \E e : Right(g, x, e)
  PROVE  LET h == Grow(g, y.m)
         IN  Continues(g, h) /\ h.m = y.m /\ h.code = g.code /\ Right(h, y.sym, f)
<1> DEFINE h == Grow(g, y.m)
<1>1. Continues(g, h) /\ h.m = y.m /\ h.code = g.code
  BY GrowContinues DEF Yields
<1> HIDE DEF h
<1>2. CASE y.sym = SymbolOf(y.m, y.sym.var)
  <2>1. IsGen(h) /\ y.sym.var \in Known(h.m) /\ Truth(h.m, y.sym.var) = f
    BY <1>1, SymbolKnown DEF Continues, Keeps, Yields
  <2> QED BY <1>1, <1>2, <2>1, FreshRight DEF h
<1>3. CASE y.sym \in olds
  <2>1. PICK e : Right(g, y.sym, e)
    BY <1>3
  <2>2. Right(h, y.sym, e)
    BY <1>1, <2>1, KeepsRight DEF Continues
  <2>3. GoodSymbol(h.m, y.sym, f)
    BY <1>1 DEF Yields
  <2> QED BY <1>1, <2>2, <2>3 DEF Right, h
<1> QED BY <1>2, <1>3 DEF Yields

LEMMA CycleKept ==
  ASSUME NEW g, NEW h, IsGen(g), Keeps(g, h), NEW tr, NEW val, RightCycle(g, tr, val)
  PROVE  RightCycle(h, tr, val)
  BY KeepsRight DEF RightCycle

LEMMA CycleExtended ==
  ASSUME NEW g, NEW tr, NEW val, RightCycle(g, tr, val), NEW s, NEW x, NEW f, Right(g, x, f)
  PROVE  RightCycle(g, Extend(tr, s, x), Extend(val, s, f))
  BY DEF RightCycle, Extend

LEMMA PlainLabels ==
  ASSUME NEW s, NEW t, NEW i
  PROVE  /\ Plain(<<"wire", s>>) /\ Plain(<<t, i, "share">>) /\ Plain(<<"mask", i, "mask">>)
         /\ \A u : <<t, i, u>> # NoLabel
  BY DEF Plain, NoLabel, Kind

(* One gate of step_cycle.                                                  *)
LEMMA StepGateFacts ==
  ASSUME NEW st, IsGen(st.g), st.g.code # <<>>, NEW g, IsGate(g),
         NEW pval, RightCycle(st.g, trace[Len(trace) - 1], pval), pval[g.out] = GateFunction(g, pval),
         NEW val, RightCycle(st.g, st.curr, val), \A i \in DOMAIN g.in : g.in[i] \in DOMAIN st.curr
  PROVE  LET z == StepGate(st, g)
         IN  Continues(st.g, z.g) /\ RightCycle(z.g, z.curr, IdealGate(val, g))
<1> DEFINE prev == trace[Len(trace) - 1]
           y == EvalGate(st.g.m, prev, st.curr, g)
           f == GateFunction(g, val)
           v == y.sym.var
           h0 == Grow(st.g, y.m)
           h == EmitWritten(h0, v)
           k == IF Output(v, y.sym.pos) THEN Label(h, EmissionSlot(h.m, v), <<"wire", g.out>>) ELSE h
           olds == {st.curr[g.in[i]] : i \in DOMAIN g.in}
                     \cup (IF g.out \in DOMAIN prev THEN {prev[g.out]} ELSE {})
<1>1. Yields(st.g.m, y, f, olds)
  <2>1. Sound(st.g.m) /\ Disciplined(st.g.m)
    BY GenManager
  <2>2. \A i \in DOMAIN g.in : GoodSymbol(st.g.m, st.curr[g.in[i]], val[g.in[i]])
    BY DEF RightCycle, Right
  <2>3. /\ \A i \in DOMAIN g.in : g.in[i] \in DOMAIN prev => GoodSymbol(st.g.m, prev[g.in[i]], pval[g.in[i]])
        /\ g.out \in DOMAIN prev => GoodSymbol(st.g.m, prev[g.out], GateFunction(g, pval))
    BY DEF RightCycle, Right
  <2> HIDE DEF prev
  <2> QED BY <2>1, <2>2, <2>3, GateYields
<1>2. \A x \in olds : \E e : Right(st.g, x, e)
  BY DEF RightCycle
<1> HIDE DEF y, olds, f
<1>3. Continues(st.g, h0) /\ h0.m = y.m /\ h0.code = st.g.code /\ Right(h0, y.sym, f)
  BY <1>1, <1>2, YieldsRight
<1> HIDE DEF h0
<1>4. /\ IsGen(h0) /\ h0.code # <<>> /\ v \in Known(h0.m) /\ Constant \cap Var(h0.m) = {}
      /\ DOMAIN h0.m.slots \subseteq Var(h0.m)
      /\ y.sym.pos # INVALID_POS => v \in DOMAIN h0.m.slots
  BY <1>3, GenManager DEF Continues, Keeps, Right, GoodSymbol
<1>5. Plain(<<"wire", g.out>>)
  BY PlainLabels
<1>6. Continues(h0, k) /\ k.m = h.m
  <2>1. CASE v \in Constant
    <3>1. k = h0 /\ h = h0
      BY <2>1 DEF EmitWritten, Output
    <3> QED BY <3>1, <1>4, ContinuesSame
  <2>2. CASE v \notin Constant /\ v \in DOMAIN h0.m.slots
    <3>1. h = h0 /\ EmissionSlot(h.m, v) = h0.m.slots[v]
      BY <2>2 DEF EmitWritten, EmissionSlot
    <3>2. CASE Output(v, y.sym.pos)
      <4>1. ~ Unmasked(h0, v)
        BY <1>3, <2>2, <3>2 DEF Right, Unmasked, Output
      <4>2. k = Label(h0, h0.m.slots[v], <<"wire", g.out>>)
        BY <3>1, <3>2
      <4> HIDE DEF k
      <4> QED BY <1>4, <1>5, <2>2, <3>1, <4>1, <4>2, Relabelled
    <3>3. CASE ~ Output(v, y.sym.pos)
      <4>1. k = h0 /\ h = h0
        BY <3>1, <3>3
      <4> QED BY <4>1, <1>4, ContinuesSame
    <3> QED BY <3>2, <3>3
  <2>3. CASE v \notin Constant /\ v \notin DOMAIN h0.m.slots
    <3>1. v \in Var(h0.m) /\ Output(v, y.sym.pos)
      BY <1>4, <2>3 DEF Known, Output
    <3>2. k = Label(h, EmissionSlot(h.m, v), <<"wire", g.out>>)
      BY <3>1
    <3> HIDE DEF k
    <3> QED BY <1>4, <1>5, <2>3, <3>1, <3>2, WriteLabelled
  <2> QED BY <2>1, <2>2, <2>3
<1>7. StepGate(st, g) = [g |-> k, curr |-> Extend(st.curr, g.out, SymbolOf(h.m, v))]
  BY DEF StepGate, y, h0
<1> HIDE DEF h, k
<1>8. Continues(st.g, k) /\ IsGen(k)
  BY <1>3, <1>6, ContinuesTwice DEF Continues, Keeps
<1>9. Right(k, SymbolOf(k.m, v), f)
  <2>1. Right(k, y.sym, f)
    BY <1>3, <1>4, <1>6, KeepsRight DEF Continues
  <2>2. v \in Known(k.m) /\ Truth(k.m, v) = f
    BY <2>1, SymbolKnown DEF Right
  <2> QED BY <1>8, <2>2, FreshRight
<1>10. RightCycle(k, st.curr, val)
  BY <1>8, CycleKept DEF Continues
<1>11. RightCycle(k, Extend(st.curr, g.out, SymbolOf(k.m, v)), Extend(val, g.out, f))
  BY <1>9, <1>10, CycleExtended
<1> QED BY <1>6, <1>7, <1>8, <1>11 DEF IdealGate, f

(* One register of prepare_cycle.                                           *)
LEMMA LatchFacts ==
  ASSUME NEW st, IsGen(st.g), NEW c,
         {c.enable, c.eTrigger, c.reset, c.rTrigger, c.rValue} \subseteq BOOLEAN,
         NEW pval, RightCycle(st.g, Last(trace), pval), {c.d, c.q, c.e, c.r} \subseteq DOMAIN Last(trace),
         NEW val, RightCycle(st.g, st.curr, val)
  PROVE  LET z == Latch(st, c)
         IN  /\ Continues(st.g, z.g) /\ z.g.code = st.g.code
             /\ RightCycle(z.g, z.curr, Extend(val, c.q, RegisterFunction(c, pval)))
<1> DEFINE prev == Last(trace)
           y == EvalRegister(st.g.m, prev, c)
           f == RegisterFunction(c, pval)
           h == Grow(st.g, y.m)
           olds == {prev[c.d]}
<1>1. Yields(st.g.m, y, f, olds)
  <2>1. Sound(st.g.m) /\ Disciplined(st.g.m)
    BY GenManager
  <2>2. \A s \in {c.d, c.q, c.e, c.r} : GoodSymbol(st.g.m, prev[s], pval[s])
    BY DEF RightCycle, Right
  <2> HIDE DEF prev
  <2> QED BY <2>1, <2>2, RegisterYields
<1>2. \A x \in olds : \E e : Right(st.g, x, e)
  BY DEF RightCycle
<1>3. Latch(st, c) = [g |-> h, curr |-> Extend(st.curr, c.q, y.sym)]
  BY DEF Latch
<1> HIDE DEF y, f, prev, olds
<1>4. Continues(st.g, h) /\ h.code = st.g.code /\ Right(h, y.sym, f)
  BY <1>1, <1>2, YieldsRight
<1> HIDE DEF h
<1>5. RightCycle(h, st.curr, val)
  BY <1>4, CycleKept DEF Continues
<1>6. RightCycle(h, Extend(st.curr, c.q, y.sym), Extend(val, c.q, f))
  BY <1>4, <1>5, CycleExtended
<1> QED BY <1>3, <1>4, <1>6 DEF f

-----------------------------------------------------------------------------
(* The gates, one after the other.                                          *)

LEMMA IdealFold ==
  ASSUME NEW base, NEW seq PROVE FoldLeft(IdealGate, base, seq) = Idealing!Fold(base, seq)
  BY DEF FoldLeft, MapThenFoldSet, Max, Idealing!Fold, Idealing!IsIter, Idealing!Step, Idealing!Greatest

LEMMA StepFold ==
  ASSUME NEW base, NEW seq PROVE FoldLeft(StepGate, base, seq) = Stepping!Fold(base, seq)
  BY DEF FoldLeft, MapThenFoldSet, Max, Stepping!Fold, Stepping!IsIter, Stepping!Step, Stepping!Greatest

LEMMA LatchFold ==
  ASSUME NEW base, NEW seq PROVE FoldLeft(Latch, base, seq) = Latching!Fold(base, seq)
  BY DEF FoldLeft, MapThenFoldSet, Max, Latching!Fold, Latching!IsIter, Latching!Step, Latching!Greatest

LEMMA PreFold ==
  ASSUME NEW base, NEW seq PROVE FoldLeft(PreGate, base, seq) = Preceding!Fold(base, seq)
  BY DEF FoldLeft, MapThenFoldSet, Max, Preceding!Fold, Preceding!IsIter, Preceding!Step, Preceding!Greatest

(* Gate k of a circuit.                                                     *)
LEMMA GateFacts ==
  ASSUME NEW c, IsCircuit(c), NEW k \in 1 .. Len(c.gate)
  PROVE  /\ IsGate(c.gate[k])
         /\ \A i \in DOMAIN c.gate[k].in : c.gate[k].in[i] \in Before(c, k)
         /\ c.gate[k].out \notin Before(c, k)
         /\ Before(c, k + 1) = Before(c, k) \cup {c.gate[k].out}
         /\ \A j \in 1 .. k : Before(c, j) \subseteq Before(c, k) /\ c.gate[j].out \in Before(c, k + 1)
<1>1. GateWired(c, k) /\ Len(c.gate) \in Nat
  BY DEF IsCircuit
<1>2. 1 .. (k + 1) - 1 = (1 .. k - 1) \cup {k}
  BY <1>1
<1>3. Before(c, k + 1) = Before(c, k) \cup {c.gate[k].out}
  BY <1>2 DEF Before
<1>4. ASSUME NEW j \in 1 .. k PROVE Before(c, j) \subseteq Before(c, k) /\ c.gate[j].out \in Before(c, k + 1)
  <2>1. 1 .. j - 1 \subseteq 1 .. k - 1 /\ j \in 1 .. (k + 1) - 1
    BY <1>1
  <2> QED BY <2>1 DEF Before
<1> QED BY <1>1, <1>3, <1>4 DEF GateWired, IsGate

(* The functions of the gates, gate by gate.                                *)
LEMMA IdealRun ==
  ASSUME NEW c, IsCircuit(c), NEW val, DOMAIN val = Before(c, 1)
  PROVE  \E e : /\ Idealing!Values(e, val, c.gate, Len(c.gate))
                /\ FoldLeft(IdealGate, val, c.gate) = e[Len(c.gate)]
                /\ \A n \in 0 .. Len(c.gate) : DOMAIN e[n] = Before(c, n + 1)
                /\ Evaluated(c, e[Len(c.gate)])
<1> DEFINE N == Len(c.gate)
<1>1. N \in Nat /\ DOMAIN c.gate = 1 .. N
  BY DEF IsCircuit
<1>2. PICK e : Idealing!Values(e, val, c.gate, N) /\ Idealing!Fold(val, c.gate) = e[N]
  BY <1>1, Idealing!FoldValues
<1>3. e[0] = val /\ \A n \in 0 .. N - 1 : e[n + 1] = IdealGate(e[n], c.gate[n + 1])
  BY <1>2 DEF Idealing!Values
<1> DEFINE Right2(n) == /\ DOMAIN e[n] = Before(c, n + 1)
                        /\ \A k \in 1 .. n : e[n][c.gate[k].out] = GateFunction(c.gate[k], e[n])
           S == {n \in Nat : n <= N => Right2(n)}
<1>4. 0 \in S
  BY <1>3
<1>5. ASSUME NEW n \in Nat, n \in S PROVE n + 1 \in S
  <2>1. SUFFICES ASSUME n + 1 <= N PROVE Right2(n + 1)
    OBVIOUS
  <2> DEFINE g == c.gate[n + 1]
  <2>2. n + 1 \in 1 .. N /\ n \in 0 .. N - 1 /\ Right2(n)
    BY <1>1, <1>5, <2>1
  <2>3. /\ IsGate(g) /\ \A i \in DOMAIN g.in : g.in[i] \in Before(c, n + 1)
        /\ g.out \notin Before(c, n + 1)
        /\ Before(c, (n + 1) + 1) = Before(c, n + 1) \cup {g.out}
    BY <2>2, GateFacts
  <2>4. e[n + 1] = Extend(e[n], g.out, GateFunction(g, e[n]))
    BY <1>3, <2>2 DEF IdealGate
  <2> HIDE DEF g
  <2>5. /\ DOMAIN e[n + 1] = Before(c, (n + 1) + 1)
        /\ e[n + 1][g.out] = GateFunction(g, e[n])
        /\ \A s \in Before(c, n + 1) : e[n + 1][s] = e[n][s]
    BY <2>2, <2>3, <2>4 DEF Extend
  <2>6. GateFunction(g, e[n + 1]) = GateFunction(g, e[n])
    BY <2>3, <2>5, SameInputs
  <2>7. ASSUME NEW k \in 1 .. n PROVE e[n + 1][c.gate[k].out] = GateFunction(c.gate[k], e[n + 1])
    <3>1. k \in 1 .. N /\ k \in 1 .. n + 1
      BY <2>2
    <3>2. /\ IsGate(c.gate[k]) /\ \A i \in DOMAIN c.gate[k].in : c.gate[k].in[i] \in Before(c, k)
          /\ Before(c, k + 1) = Before(c, k) \cup {c.gate[k].out}
      BY <3>1, GateFacts
    <3>3. Before(c, k) \subseteq Before(c, n + 1)
      BY <2>2, <3>1, GateFacts
    <3>4. c.gate[k].out \in Before(c, n + 1)
      <4>1. k \in 1 .. n /\ n \in 1 .. N
        BY <2>2
      <4> QED BY <4>1, GateFacts
    <3>5. GateFunction(c.gate[k], e[n + 1]) = GateFunction(c.gate[k], e[n])
      BY <2>5, <3>2, <3>3, SameInputs
    <3> QED BY <2>2, <2>5, <3>4, <3>5
  <2>8. \A k \in 1 .. n + 1 : k \in 1 .. n \/ k = n + 1
    OBVIOUS
  <2>9. \A k \in 1 .. n + 1 : e[n + 1][c.gate[k].out] = GateFunction(c.gate[k], e[n + 1])
    BY <2>5, <2>6, <2>7, <2>8 DEF g
  <2> QED BY <2>5, <2>9
<1> HIDE DEF S
<1>6. \A n \in 0 .. N : Right2(n)
  <2>1. Nat \subseteq S
    BY <1>4, <1>5, Idealing!SetInduction
  <2> QED BY <1>1, <2>1 DEF S
<1>7. Evaluated(c, e[N])
  BY <1>1, <1>6 DEF Evaluated, Signals
<1>8. FoldLeft(IdealGate, val, c.gate) = e[N]
  BY <1>2, IdealFold
<1> QED BY <1>2, <1>6, <1>7, <1>8

(* step_cycle, from a prepared cycle, after a cycle that is evaluated.      *)
LEMMA SteppedFacts ==
  ASSUME IsGen(gen), gen.code # <<>>, IsCircuit(circuit),
         NEW pval, RightCycle(gen, trace[Len(trace) - 1], pval), Evaluated(circuit, pval),
         NEW val, RightCycle(gen, Last(trace), val), DOMAIN val = Before(circuit, 1)
  PROVE  LET end == FoldLeft(IdealGate, val, circuit.gate)
         IN  /\ Continues(gen, Stepped.g) /\ RightCycle(Stepped.g, Stepped.curr, end)
             /\ Evaluated(circuit, end)
<1> DEFINE N == Len(circuit.gate)
           base == [g |-> gen, curr |-> Last(trace)]
           prev == trace[Len(trace) - 1]
<1>1. N \in Nat /\ DOMAIN circuit.gate = 1 .. N
  BY DEF IsCircuit
<1>2. PICK e : /\ Idealing!Values(e, val, circuit.gate, N)
               /\ FoldLeft(IdealGate, val, circuit.gate) = e[N]
               /\ \A n \in 0 .. N : DOMAIN e[n] = Before(circuit, n + 1)
               /\ Evaluated(circuit, e[N])
  BY IdealRun
<1>3. PICK f : Stepping!Values(f, base, circuit.gate, N) /\ Stepping!Fold(base, circuit.gate) = f[N]
  <2> HIDE DEF base
  <2> QED BY <1>1, Stepping!FoldValues
<1>4. /\ e[0] = val /\ \A n \in 0 .. N - 1 : e[n + 1] = IdealGate(e[n], circuit.gate[n + 1])
      /\ f[0] = base /\ \A n \in 0 .. N - 1 : f[n + 1] = StepGate(f[n], circuit.gate[n + 1])
  BY <1>2, <1>3 DEF Idealing!Values, Stepping!Values
<1> DEFINE Done(n) == Continues(gen, f[n].g) /\ RightCycle(f[n].g, f[n].curr, e[n])
           S == {n \in Nat : n <= N => Done(n)}
<1>5. 0 \in S
  BY <1>4, ContinuesSame
<1>6. ASSUME NEW n \in Nat, n \in S PROVE n + 1 \in S
  <2>1. SUFFICES ASSUME n + 1 <= N PROVE Done(n + 1)
    OBVIOUS
  <2> DEFINE g == circuit.gate[n + 1]
             st == f[n]
             z == StepGate(st, g)
  <2>2. n + 1 \in 1 .. N /\ n \in 0 .. N - 1 /\ n \in 0 .. N /\ n + 1 \in DOMAIN circuit.gate
    BY <1>1, <2>1
  <2>3. Continues(gen, st.g) /\ RightCycle(st.g, st.curr, e[n]) /\ DOMAIN e[n] = Before(circuit, n + 1)
    BY <1>2, <1>6, <2>1, <2>2
  <2>4. IsGate(g) /\ (\A i \in DOMAIN g.in : g.in[i] \in Before(circuit, n + 1))
    BY <2>2, GateFacts
  <2>5. pval[g.out] = GateFunction(g, pval)
    BY <2>2 DEF Evaluated
  <2>6. f[n + 1] = z /\ e[n + 1] = IdealGate(e[n], g)
    BY <1>4, <2>2
  <2> HIDE DEF g, st, prev
  <2>7. IsGen(st.g) /\ st.g.code # <<>> /\ RightCycle(st.g, prev, pval)
    <3>1. IsGen(st.g) /\ Len(st.g.code) = Len(gen.code) /\ Keeps(gen, st.g)
      BY <2>3 DEF Continues, Keeps
    <3>2. Len(gen.code) # 0
      BY DEF IsGen
    <3>3. RightCycle(st.g, prev, pval)
      BY <3>1, CycleKept DEF prev
    <3> QED BY <3>1, <3>2, <3>3
  <2>8. \A i \in DOMAIN g.in : g.in[i] \in DOMAIN st.curr
    BY <2>3, <2>4 DEF RightCycle
  <2>9. Continues(st.g, z.g) /\ RightCycle(z.g, z.curr, IdealGate(e[n], g))
    BY <2>3, <2>4, <2>5, <2>7, <2>8, StepGateFacts DEF prev
  <2> HIDE DEF z
  <2>10. Continues(gen, z.g)
    BY <2>3, <2>9, ContinuesTwice
  <2> QED BY <2>6, <2>9, <2>10
<1> HIDE DEF S
<1>7. Done(N)
  <2>1. Nat \subseteq S
    BY <1>5, <1>6, Idealing!SetInduction
  <2> QED BY <1>1, <2>1 DEF S
<1>8. Stepped = f[N]
  BY <1>3, StepFold DEF Stepped
<1> QED BY <1>2, <1>7, <1>8

-----------------------------------------------------------------------------
(* The registers, one after the other.                                      *)

(* The functions of the registers read the cycle before, and so may be      *)
(* computed at once.                                                        *)
LEMMA LatchedFacts ==
  ASSUME IsGen(gen), IsCircuit(circuit),
         NEW pval, RightCycle(gen, Last(trace), pval), Evaluated(circuit, pval)
  PROVE  /\ Continues(gen, Latched.g) /\ Latched.g.code = gen.code
         /\ RightCycle(Latched.g, Latched.curr, IdealPrepare(pval))
         /\ DOMAIN Latched.curr = Before(circuit, 1)
<1> DEFINE N == Len(circuit.reg)
           in0 == Joined(InsertConsts, [s \in circuit.in |-> Last(trace)[s]])
           val0 == Joined(ConstFunctions, [s \in circuit.in |-> pval[s]])
           base == [g |-> gen, curr |-> in0]
           qs(n) == {circuit.reg[i].q : i \in 1 .. n}
<1>1. N \in Nat /\ DOMAIN circuit.reg = 1 .. N
  BY DEF IsCircuit
<1>2. PICK f : Latching!Values(f, base, circuit.reg, N) /\ Latching!Fold(base, circuit.reg) = f[N]
  <2> HIDE DEF base
  <2> QED BY <1>1, Latching!FoldValues
<1>3. f[0] = base /\ \A n \in 0 .. N - 1 : f[n + 1] = Latch(f[n], circuit.reg[n + 1])
  BY <1>2 DEF Latching!Values
<1> DEFINE val(n) == [s \in SpecialSignals \cup circuit.in \cup qs(n) |->
                        IF s \in qs(n)
                        THEN RegisterFunction(circuit.reg[CHOOSE i \in 1 .. N : circuit.reg[i].q = s], pval)
                        ELSE val0[s]]
           Done(n) == /\ Continues(gen, f[n].g) /\ f[n].g.code = gen.code
                      /\ RightCycle(f[n].g, f[n].curr, val(n))
           S == {n \in Nat : n <= N => Done(n)}
<1>4. DOMAIN Last(trace) = Signals(circuit) /\ DOMAIN pval = Signals(circuit)
  BY DEF RightCycle, Evaluated
<1>5. circuit.in \subseteq Signals(circuit)
  BY DEF Signals, Before
<1>6. 0 \in S
  <2>1. qs(0) = {}
    OBVIOUS
  <2>2. RightCycle(gen, in0, val0)
    <3>1. DOMAIN in0 = DOMAIN val0
      BY DEF Joined, InsertConsts, ConstFunctions
    <3>2. ASSUME NEW s \in DOMAIN in0 PROVE Right(gen, in0[s], val0[s])
      <4>1. CASE s \in SpecialSignals
        <5>1. in0[s] = ConstSymbol(s = "S_1") /\ val0[s] = IF s = "S_1" THEN Assignment ELSE {}
          BY <4>1 DEF Joined, InsertConsts, ConstFunctions
        <5>2. (s = "S_1") \in BOOLEAN
          OBVIOUS
        <5> QED BY <5>1, <5>2, ConstRight
      <4>2. CASE s \notin SpecialSignals
        <5>1. s \in circuit.in /\ in0[s] = Last(trace)[s] /\ val0[s] = pval[s]
          BY <3>2, <4>2 DEF Joined, InsertConsts, ConstFunctions
        <5> QED BY <1>4, <1>5, <5>1 DEF RightCycle
      <4> QED BY <4>1, <4>2
    <3> QED BY <3>1, <3>2 DEF RightCycle
  <2>3. val(0) = val0
    <3>1. DOMAIN val0 = SpecialSignals \cup circuit.in /\ val0 = [s \in DOMAIN val0 |-> val0[s]]
      BY DEF Joined, ConstFunctions
    <3> HIDE DEF val0
    <3> QED BY <2>1, <3>1
  <2> HIDE DEF in0, val, qs, val0
  <2> QED BY <1>3, <2>2, <2>3, ContinuesSame
<1> HIDE DEF in0, base
<1>7. ASSUME NEW n \in Nat, n \in S PROVE n + 1 \in S
  <2>1. SUFFICES ASSUME n + 1 <= N PROVE Done(n + 1)
    OBVIOUS
  <2> DEFINE r == circuit.reg[n + 1]
             st == f[n]
             z == Latch(st, r)
  <2>2. n + 1 \in 1 .. N /\ n \in 0 .. N - 1 /\ n <= N
    BY <1>1, <2>1
  <2>3. Continues(gen, st.g) /\ st.g.code = gen.code /\ RightCycle(st.g, st.curr, val(n))
    <3> HIDE DEF val
    <3> QED BY <1>7, <2>2
  <2>4. /\ {r.d, r.q, r.e, r.r} \subseteq Signals(circuit)
        /\ {r.enable, r.eTrigger, r.reset, r.rTrigger, r.rValue} \subseteq BOOLEAN
        /\ r.q \notin SpecialSignals \cup circuit.in
        /\ \A j \in 1 .. N : circuit.reg[j].q = r.q => j = n + 1
    BY <1>1, <2>2 DEF IsCircuit, RegisterWired
  <2>5. f[n + 1] = z
    BY <1>3, <2>2
  <2>6. val(n + 1) = Extend(val(n), r.q, RegisterFunction(r, pval))
    <3>1. qs(n + 1) = qs(n) \cup {r.q}
      <4>1. 1 .. n + 1 = (1 .. n) \cup {n + 1}
        OBVIOUS
      <4> QED BY <4>1
    <3>2. (CHOOSE i \in 1 .. N : circuit.reg[i].q = r.q) = n + 1
      BY <2>2, <2>4
    <3>3. r.q \notin qs(n)
      BY <1>1, <2>2, <2>4
    <3> HIDE DEF qs, val0
    <3>4. \A s \in SpecialSignals \cup circuit.in \cup qs(n + 1) :
            val(n + 1)[s] = IF s = r.q THEN RegisterFunction(r, pval) ELSE val(n)[s]
      <4>1. val(n + 1)[r.q] = RegisterFunction(r, pval)
        BY <3>1, <3>2
      <4>2. \A s \in SpecialSignals \cup circuit.in \cup qs(n) : s # r.q => val(n + 1)[s] = val(n)[s]
        BY <3>1
      <4> HIDE DEF val, r
      <4> QED BY ONLY <3>1, <4>1, <4>2
    <3>5. DOMAIN val(n + 1) = DOMAIN val(n) \cup {r.q}
      BY <3>1
    <3>6. val(n + 1) = [s \in DOMAIN val(n + 1) |-> val(n + 1)[s]]
      OBVIOUS
    <3>7. DOMAIN val(n + 1) = SpecialSignals \cup circuit.in \cup qs(n + 1)
      OBVIOUS
    <3> HIDE DEF val
    <3> QED BY <3>4, <3>5, <3>6, <3>7 DEF Extend
  <2> HIDE DEF r, st, val
  <2>7. IsGen(st.g) /\ RightCycle(st.g, Last(trace), pval)
    <3>1. IsGen(st.g) /\ Keeps(gen, st.g)
      BY <2>3 DEF Continues, Keeps
    <3> QED BY <3>1, CycleKept
  <2>8. Continues(st.g, z.g) /\ z.g.code = st.g.code /\ RightCycle(z.g, z.curr, val(n + 1))
    BY <1>4, <2>3, <2>4, <2>6, <2>7, LatchFacts
  <2> HIDE DEF z
  <2>9. Continues(gen, z.g)
    BY <2>3, <2>8, ContinuesTwice
  <2> QED BY <2>3, <2>5, <2>8, <2>9
<1> HIDE DEF S, val, val0, qs
<1>8. Done(N)
  <2>1. Nat \subseteq S
    BY <1>6, <1>7, Latching!SetInduction
  <2> QED BY <1>1, <2>1 DEF S
<1>9. Latched = f[N]
  BY <1>2, LatchFold DEF Latched, base, in0
<1>10. val(N) = IdealPrepare(pval)
  <2> DEFINE outs == RegisterOuts(circuit)
             reg(s) == RegisterFunction(circuit.reg[CHOOSE i \in 1 .. N : circuit.reg[i].q = s], pval)
             rest == [q \in outs |-> reg(q)]
             old == [s \in circuit.in |-> pval[s]]
  <2>1. qs(N) = outs
    BY <1>1 DEF qs, RegisterOuts
  <2>2. ASSUME NEW q \in outs
        PROVE  /\ (CHOOSE i \in 1 .. N : circuit.reg[i].q = q) \in 1 .. N
               /\ q \notin SpecialSignals /\ q \notin circuit.in
    <3>1. PICK i \in 1 .. N : circuit.reg[i].q = q
      BY <1>1 DEF RegisterOuts
    <3>2. RegisterWired(circuit, i)
      BY <1>1, <3>1 DEF IsCircuit
    <3> QED BY <3>1, <3>2 DEF RegisterWired
  <2>3. IdealPrepare(pval) = Joined(ConstFunctions, Joined(old, rest))
    <3>1. [q \in outs |-> [i \in DOMAIN circuit.reg |-> RegisterFunction(circuit.reg[i], pval)]
                            [CHOOSE i \in DOMAIN circuit.reg : circuit.reg[i].q = q]] = rest
      BY <1>1, <2>2
    <3> QED BY <3>1 DEF IdealPrepare
  <2>4. /\ DOMAIN Joined(ConstFunctions, Joined(old, rest)) = SpecialSignals \cup circuit.in \cup outs
        /\ DOMAIN val0 = SpecialSignals \cup circuit.in
    BY DEF Joined, ConstFunctions, val0
  <2>5. ASSUME NEW s \in SpecialSignals \cup circuit.in \cup outs
        PROVE  Joined(ConstFunctions, Joined(old, rest))[s] = IF s \in outs THEN reg(s) ELSE val0[s]
    <3> HIDE DEF reg, outs
    <3>1. CASE s \in outs
      BY <2>2, <3>1 DEF Joined, ConstFunctions
    <3>2. CASE s \notin outs
      BY <2>2, <3>2 DEF Joined, ConstFunctions, val0
    <3> QED BY <3>1, <3>2
  <2>6. Joined(ConstFunctions, Joined(old, rest)) =
          [s \in SpecialSignals \cup circuit.in \cup outs |-> IF s \in outs THEN reg(s) ELSE val0[s]]
    <3> DEFINE j == Joined(ConstFunctions, Joined(old, rest))
    <3>1. j = [s \in DOMAIN j |-> j[s]]
      BY DEF Joined
    <3> HIDE DEF j, reg, outs, old, rest
    <3>2. \A s \in DOMAIN j : j[s] = IF s \in outs THEN reg(s) ELSE val0[s]
      BY <2>4, <2>5 DEF j
    <3>3. DOMAIN j = SpecialSignals \cup circuit.in \cup outs
      BY <2>4 DEF j
    <3> QED BY <3>1, <3>2, <3>3 DEF j
  <2> HIDE DEF outs
  <2> QED BY <2>1, <2>3, <2>6 DEF val
<1>11. DOMAIN Latched.curr = Before(circuit, 1)
  <2>1. DOMAIN val(N) = SpecialSignals \cup circuit.in \cup RegisterOuts(circuit)
    BY <1>1 DEF val, qs, RegisterOuts
  <2>2. Before(circuit, 1) = SpecialSignals \cup circuit.in \cup RegisterOuts(circuit)
    BY DEF Before
  <2> QED BY <1>8, <1>9, <2>1, <2>2 DEF RightCycle
<1> QED BY <1>8, <1>9, <1>10, <1>11

-----------------------------------------------------------------------------
(* The pre-cycle: all inputs are constants, and so is everything else.      *)

LEMMA NewManagerFacts ==
  /\ Sound(NewManager) /\ Disciplined(NewManager)
  /\ Known(NewManager) = Constant /\ NewManager.slots = Empty /\ NewManager.numEmitted = 0
  /\ Var(NewManager) = {}
<1>1. Var(NewManager) = {}
  BY DEF NewManager, Var
<1>2. Sound(NewManager)
  BY DEF NewManager, Empty, Sound, IsManager, CachesSound, PairCache, Var
<1>3. Disciplined(NewManager)
  BY DEF NewManager, Empty, Disciplined, Ordered, PairsOrdered, OneEach, Mutual,
         Definition, Complements, Entries
<1> QED BY <1>1, <1>2, <1>3 DEF Known, NewManager

(* Operations on constants leave the manager alone.                         *)
Folds(m, res) == res.m = m /\ res.v \in Constant

LEMMA ConstantFolds ==
  ASSUME NEW m, NEW a \in Constant, NEW b \in Constant, NEW s \in Constant
  PROVE  /\ Folds(m, MakeNot(m, a)) /\ Folds(m, MakeAnd(m, a, b)) /\ Folds(m, MakeOr(m, a, b))
         /\ Folds(m, MakeXor(m, a, b)) /\ Folds(m, MakeMux(m, s, a, b))
<1> USE Constants DEF Constant
<1>1. \A v \in Constant : Folds(m, MakeNot(m, v))
  BY DEF Folds, MakeNot, Result
<1>2. Folds(m, MakeAnd(m, a, b))
  BY DEF Folds, MakeAnd, Result
<1>3. Folds(m, MakeOr(m, a, b))
  BY DEF Folds, MakeOr, Result
<1>4. Folds(m, MakeXor(m, a, b))
  BY <1>1 DEF Folds, MakeXor, Result
<1>5. Folds(m, MakeMux(m, s, a, b))
  BY DEF Folds, MakeMux, Result
<1> QED BY <1>1, <1>2, <1>3, <1>4, <1>5

Stays(m, y) == y.m = m /\ y.sym.var \in Constant

LEMMA StaysMade ==
  ASSUME NEW m, NEW res, Folds(m, res) PROVE Stays(m, Made(res))
  BY DEF Folds, Stays, Made, SymbolOf

LEMMA StaysNot ==
  ASSUME NEW m, NEW y, Stays(m, y), NEW flag PROVE Stays(m, NotIf(flag, y))
  BY ConstantFolds, StaysMade DEF Stays, NotIf

LEMMA PreGateFacts ==
  ASSUME NEW curr, NEW val, NEW g, IsGate(g), g.out \notin DOMAIN curr, DOMAIN val = DOMAIN curr,
         \A s \in DOMAIN curr : GoodSymbol(NewManager, curr[s], val[s]),
         \A i \in DOMAIN g.in : g.in[i] \in DOMAIN curr
  PROVE  LET y == PreGate(curr, g)
             f == IdealGate(val, g)
         IN  DOMAIN y = DOMAIN f /\ \A s \in DOMAIN y : GoodSymbol(NewManager, y[s], f[s])
<1> DEFINE m == NewManager
           y == EvalGate(m, curr, curr, g)
           f == GateFunction(g, val)
           olds == {curr[g.in[i]] : i \in DOMAIN g.in}
                     \cup (IF g.out \in DOMAIN curr THEN {curr[g.out]} ELSE {})
<1>1. \A s \in DOMAIN curr : curr[s].var \in Constant
  BY NewManagerFacts, SymbolKnown
<1>2. Yields(m, y, f, olds)
  <2>1. Sound(m) /\ Disciplined(m)
    BY NewManagerFacts
  <2> HIDE DEF m
  <2> QED BY <2>1, GateYields DEF m
<1>3. ~ UnchangedInputs(curr, curr, g)
  BY DEF UnchangedInputs
<1>4. Stays(m, y)
  <2>1. CASE g.kind = "unary"
    <3>1. 1 \in DOMAIN g.in
      BY <2>1 DEF IsGate
    <3>2. Stays(m, Kept(m, curr[g.in[1]]))
      BY <1>1, <3>1 DEF Stays, Kept
    <3>3. y = NotIf(g.neg, Kept(m, curr[g.in[1]]))
      BY <1>3, <2>1 DEF EvalGate
    <3> HIDE DEF y
    <3> QED BY <3>2, <3>3, StaysNot
  <2>2. CASE g.kind = "binary"
    <3>1. 1 \in DOMAIN g.in /\ 2 \in DOMAIN g.in
      BY <2>2 DEF IsGate
    <3> DEFINE a == curr[g.in[1]]
               b0 == curr[g.in[2]]
               b == NotIf(g.neg2, Kept(m, b0))
    <3>2. a.var \in Constant /\ Stays(m, Kept(m, b0))
      BY <1>1, <3>1 DEF Stays, Kept
    <3>3. Stays(m, b)
      BY <3>2, StaysNot
    <3>4. y = NotIf(g.neg, EvalBinary(m, g, a, b0))
      BY <1>3, <2>2 DEF EvalGate
    <3> HIDE DEF a, b0, y, m
    <3>5. Stays(m, EvalBinary(m, g, a, b0))
      <4> HIDE DEF b
      <4>1. b.m = m /\ b.sym.var \in Constant
        BY <3>3 DEF Stays
      <4>2. CASE g.op = "and"
        <5>1. EvalBinary(m, g, a, b0) = Made(MakeAnd(m, a.var, b.sym.var))
          BY <4>1, <4>2 DEF EvalBinary, b
        <5> QED BY <3>2, <4>1, <5>1, ConstantFolds, StaysMade
      <4>3. CASE g.op = "or"
        <5>1. EvalBinary(m, g, a, b0) = Made(MakeOr(m, a.var, b.sym.var))
          BY <4>1, <4>3 DEF EvalBinary, b
        <5> QED BY <3>2, <4>1, <5>1, ConstantFolds, StaysMade
      <4>4. CASE g.op = "xor"
        <5>1. EvalBinary(m, g, a, b0) = Made(MakeXor(m, a.var, b.sym.var))
          BY <4>1, <4>4 DEF EvalBinary, b
        <5> QED BY <3>2, <4>1, <5>1, ConstantFolds, StaysMade
      <4> QED BY <2>2, <4>2, <4>3, <4>4 DEF IsGate
    <3> QED BY <3>4, <3>5, StaysNot
  <2>3. CASE g.kind = "mux"
    <3>1. 1 \in DOMAIN g.in /\ 2 \in DOMAIN g.in /\ 3 \in DOMAIN g.in
      BY <2>3 DEF IsGate
    <3> DEFINE in(i) == curr[g.in[i]]
               res == MakeMux(m, in(3).var, in(2).var, in(1).var)
    <3>2. Folds(m, res)
      BY <1>1, <3>1, ConstantFolds
    <3>3. y = NotIf(g.neg, Made(res))
      BY <1>3, <2>3 DEF EvalGate
    <3> HIDE DEF res, y
    <3> QED BY <3>2, <3>3, StaysMade, StaysNot
  <2> QED BY <2>1, <2>2, <2>3 DEF IsGate
<1> HIDE DEF y, f, olds
<1>5. GoodSymbol(m, y.sym, f)
  BY <1>2, <1>4 DEF Yields, Stays
<1>6. PreGate(curr, g) = Extend(curr, g.out, y.sym) /\ IdealGate(val, g) = Extend(val, g.out, f)
  BY DEF PreGate, IdealGate, y, f
<1> QED BY <1>5, <1>6 DEF Extend

LEMMA PreCycleFacts ==
  ASSUME NEW c, IsCircuit(c)
  PROVE  /\ DOMAIN PreCycle(c) = DOMAIN IdealPreCycle(c)
         /\ \A s \in DOMAIN PreCycle(c) : GoodSymbol(NewManager, PreCycle(c)[s], IdealPreCycle(c)[s])
         /\ Evaluated(c, IdealPreCycle(c))
<1> DEFINE N == Len(c.gate)
           zeros == c.in \cup RegisterOuts(c)
           in0 == Joined(InsertConsts, [s \in zeros |-> ConstSymbol(FALSE)])
           val0 == Joined(ConstFunctions, [s \in zeros |-> {}])
           Good(curr, val) == /\ DOMAIN curr = DOMAIN val
                              /\ \A s \in DOMAIN curr : GoodSymbol(NewManager, curr[s], val[s])
<1>1. N \in Nat /\ DOMAIN c.gate = 1 .. N
  BY DEF IsCircuit
<1>2. DOMAIN in0 = Before(c, 1) /\ DOMAIN val0 = Before(c, 1)
  BY DEF Joined, InsertConsts, ConstFunctions, Before
<1>3. \A bit \in BOOLEAN : GoodSymbol(NewManager, ConstSymbol(bit), IF bit THEN Assignment ELSE {})
  <2>1. SUFFICES ASSUME NEW bit \in BOOLEAN
                 PROVE  GoodSymbol(NewManager, ConstSymbol(bit), IF bit THEN Assignment ELSE {})
    OBVIOUS
  <2>2. ConstSymbol(bit) = [var |-> ConstSymbol(bit).var, pos |-> INVALID_POS]
    BY DEF ConstSymbol
  <2>3. ConstSymbol(bit).var \in Known(NewManager)
    BY DEF ConstSymbol, Known, Constant
  <2>4. Truth(NewManager, ConstSymbol(bit).var) = IF bit THEN Assignment ELSE {}
    BY DEF ConstSymbol, Truth, ZERO, ONE
  <2> QED BY <2>2, <2>3, <2>4 DEF GoodSymbol
<1>4. Good(in0, val0)
  <2>1. ASSUME NEW s \in DOMAIN in0 PROVE GoodSymbol(NewManager, in0[s], val0[s])
    <3>1. CASE s \in SpecialSignals
      <4>1. in0[s] = ConstSymbol(s = "S_1") /\ val0[s] = IF s = "S_1" THEN Assignment ELSE {}
        BY <3>1 DEF Joined, InsertConsts, ConstFunctions
      <4>2. (s = "S_1") \in BOOLEAN
        OBVIOUS
      <4> QED BY <1>3, <4>1, <4>2
    <3>2. CASE s \notin SpecialSignals
      <4>1. in0[s] = ConstSymbol(FALSE) /\ val0[s] = {}
        BY <1>2, <2>1, <3>2 DEF Joined, InsertConsts, ConstFunctions
      <4> QED BY <1>3, <4>1
    <3> QED BY <3>1, <3>2
  <2> QED BY <1>2, <2>1
<1> HIDE DEF in0, val0
<1>5. PICK e : /\ Idealing!Values(e, val0, c.gate, N)
               /\ FoldLeft(IdealGate, val0, c.gate) = e[N]
               /\ \A n \in 0 .. N : DOMAIN e[n] = Before(c, n + 1)
               /\ Evaluated(c, e[N])
  BY <1>2, IdealRun
<1>6. PICK f : Preceding!Values(f, in0, c.gate, N) /\ Preceding!Fold(in0, c.gate) = f[N]
  BY <1>1, Preceding!FoldValues
<1>7. /\ e[0] = val0 /\ \A n \in 0 .. N - 1 : e[n + 1] = IdealGate(e[n], c.gate[n + 1])
      /\ f[0] = in0 /\ \A n \in 0 .. N - 1 : f[n + 1] = PreGate(f[n], c.gate[n + 1])
  BY <1>5, <1>6 DEF Idealing!Values, Preceding!Values
<1> DEFINE S == {n \in Nat : n <= N => Good(f[n], e[n])}
<1>8. 0 \in S
  BY <1>4, <1>7
<1>9. ASSUME NEW n \in Nat, n \in S PROVE n + 1 \in S
  <2>1. SUFFICES ASSUME n + 1 <= N PROVE Good(f[n + 1], e[n + 1])
    OBVIOUS
  <2> DEFINE g == c.gate[n + 1]
             curr == f[n]
             val == e[n]
  <2>2. n + 1 \in 1 .. N /\ n \in 0 .. N - 1 /\ n \in 0 .. N /\ n <= N
    BY <1>1, <2>1
  <2>3. Good(curr, val) /\ DOMAIN val = Before(c, n + 1)
    BY <1>5, <1>9, <2>2
  <2>4. /\ IsGate(g) /\ g.out \notin Before(c, n + 1)
        /\ \A i \in DOMAIN g.in : g.in[i] \in Before(c, n + 1)
    BY <2>2, GateFacts
  <2>5. f[n + 1] = PreGate(curr, g) /\ e[n + 1] = IdealGate(val, g)
    BY <1>7, <2>2
  <2> HIDE DEF g, curr, val
  <2> QED BY <2>3, <2>4, <2>5, PreGateFacts
<1> HIDE DEF S
<1>10. Good(f[N], e[N])
  <2>1. Nat \subseteq S
    BY <1>8, <1>9, Idealing!SetInduction
  <2> QED BY <1>1, <2>1 DEF S
<1>11. PreCycle(c) = f[N] /\ IdealPreCycle(c) = e[N]
  BY <1>5, <1>6, PreFold DEF PreCycle, IdealPreCycle, in0, val0
<1> QED BY <1>5, <1>10, <1>11

-----------------------------------------------------------------------------
(* New inputs.                                                              *)

LEMMA InputFold ==
  ASSUME NEW base, NEW seq PROVE FoldLeft(NewInput, base, seq) = Creating!Fold(base, seq)
  BY DEF FoldLeft, MapThenFoldSet, Max, Creating!Fold, Creating!IsIter, Creating!Step, Creating!Greatest

(* The slots of the first n inputs whose label says that they are unmasked. *)
NewUnmasked(g, infos, n, kind) ==
  {g.m.numEmitted + k - 1 : k \in {k \in 1 .. n : infos[k][1] = kind /\ infos[k][3] = "unmasked"}}

(* h is g with the first n inputs.                                          *)
WithInputs(g, infos, n, h) ==
  /\ Keeps(g, h)
  /\ h.m.numVars = g.m.numVars + n /\ h.m.numEmitted = g.m.numEmitted + n
  /\ h.inputs = g.inputs + n /\ h.code = g.code
  /\ h.m.nots = g.m.nots /\ h.m.xors = g.m.xors
  /\ \A k \in 1 .. n : Right(h, InputSymbol(g, k), InputFunction(g.inputs + k - 1))
  /\ \A kind \in Kind :
       UnmaskedSlots(h, kind) = UnmaskedSlots(g, kind) \cup NewUnmasked(g, infos, n, kind)

LEMMA NewInputsFacts ==
  ASSUME NEW g, IsGen(g), NEW N \in Nat, NEW infos, DOMAIN infos = 1 .. N,
         \A k \in 1 .. N : infos[k] # NoLabel
  PROVE  WithInputs(g, infos, N, NewInputs(g, infos))
<1>1. PICK f : Creating!Values(f, g, infos, N) /\ Creating!Fold(g, infos) = f[N]
  BY Creating!FoldValues
<1>2. f[0] = g /\ \A n \in 0 .. N - 1 : f[n + 1] = NewInput(f[n], infos[n + 1])
  BY <1>1 DEF Creating!Values
<1>3. NewInputs(g, infos) = f[N]
  BY <1>1, InputFold DEF NewInputs
<1>4. g.m.numVars \in Nat /\ g.m.numEmitted \in Nat /\ g.inputs \in Nat
  BY GenManager
<1> DEFINE S == {n \in Nat : n <= N => WithInputs(g, infos, n, f[n])}
<1>5. 0 \in S
  <2>1. Keeps(g, g)
    BY ContinuesSame DEF Continues
  <2>2. 1 .. 0 = {} /\ \A kind \in Kind : NewUnmasked(g, infos, 0, kind) = {}
    BY DEF NewUnmasked
  <2> QED BY <1>2, <1>4, <2>1, <2>2 DEF WithInputs
<1>6. ASSUME NEW n \in Nat, n \in S PROVE n + 1 \in S
  <2>1. SUFFICES ASSUME n + 1 <= N PROVE WithInputs(g, infos, n + 1, f[n + 1])
    OBVIOUS
  <2> DEFINE h == f[n]
             info == infos[n + 1]
             k == NewInput(h, info)
  <2>2. n + 1 \in 1 .. N /\ n \in 0 .. N - 1 /\ n <= N
    BY <2>1
  <2>3. WithInputs(g, infos, n, h) /\ info # NoLabel /\ f[n + 1] = k
    BY <1>2, <1>6, <2>2
  <2>4. IsGen(h)
    BY <2>3 DEF WithInputs, Keeps
  <2> HIDE DEF h, info
  <2>5. /\ Keeps(h, k)
        /\ k.m.numVars = h.m.numVars + 1 /\ k.m.numEmitted = h.m.numEmitted + 1
        /\ k.inputs = h.inputs + 1 /\ k.code = h.code
        /\ GoodSymbol(k.m, [var |-> h.m.numVars, pos |-> h.m.numEmitted], InputFunction(h.inputs))
        /\ k.m.nots = h.m.nots /\ k.m.xors = h.m.xors
        /\ \A kind \in Kind :
             IF info[1] = kind /\ info[3] = "unmasked"
             THEN UnmaskedSlots(k, kind) = UnmaskedSlots(h, kind) \cup {h.m.numEmitted}
             ELSE UnmaskedSlots(k, kind) = UnmaskedSlots(h, kind)
    BY <2>3, <2>4, NewInputFacts
  <2> HIDE DEF k
  <2>6. h.m.numVars = g.m.numVars + n /\ h.m.numEmitted = g.m.numEmitted + n /\ h.inputs = g.inputs + n
    BY <2>3 DEF WithInputs
  <2>7. Keeps(g, k)
    BY <2>3, <2>5, KeepsTwice DEF WithInputs
  <2>8. 1 .. n + 1 = (1 .. n) \cup {n + 1}
    OBVIOUS
  <2>9. ASSUME NEW j \in 1 .. n + 1 PROVE Right(k, InputSymbol(g, j), InputFunction(g.inputs + j - 1))
    <3>1. CASE j \in 1 .. n
      BY <2>3, <2>4, <2>5, <3>1, KeepsRight DEF WithInputs
    <3>2. CASE j = n + 1
      <4>1. /\ g.m.numVars + j - 1 = h.m.numVars /\ g.m.numEmitted + j - 1 = h.m.numEmitted
            /\ g.inputs + j - 1 = h.inputs /\ h.m.numEmitted \in Nat
        BY ONLY <1>4, <2>6, <3>2, n \in Nat
      <4>2. InputSymbol(g, j) = [var |-> h.m.numVars, pos |-> h.m.numEmitted]
        BY <4>1 DEF InputSymbol
      <4>3. InputSymbol(g, j).pos # INVALID_POS
        BY <4>1, <4>2 DEF INVALID_POS
      <4> QED BY <2>5, <4>1, <4>2, <4>3 DEF Right
    <3> QED BY <2>8, <3>1, <3>2
  <2>10. ASSUME NEW kind \in Kind
         PROVE  UnmaskedSlots(k, kind) = UnmaskedSlots(g, kind) \cup NewUnmasked(g, infos, n + 1, kind)
    <3>1. UnmaskedSlots(h, kind) = UnmaskedSlots(g, kind) \cup NewUnmasked(g, infos, n, kind)
      BY <2>3 DEF WithInputs
    <3>2. g.m.numEmitted + (n + 1) - 1 = h.m.numEmitted
      BY <1>4, <2>6
    <3>3. CASE info[1] = kind /\ info[3] = "unmasked"
      <4>1. {j \in 1 .. n + 1 : infos[j][1] = kind /\ infos[j][3] = "unmasked"}
              = {j \in 1 .. n : infos[j][1] = kind /\ infos[j][3] = "unmasked"} \cup {n + 1}
        BY <2>8, <3>3 DEF info
      <4>2. NewUnmasked(g, infos, n + 1, kind) = NewUnmasked(g, infos, n, kind) \cup {h.m.numEmitted}
        BY <3>2, <4>1 DEF NewUnmasked
      <4> QED BY <2>5, <3>1, <3>3, <4>2
    <3>4. CASE ~ (info[1] = kind /\ info[3] = "unmasked")
      <4>1. {j \in 1 .. n + 1 : infos[j][1] = kind /\ infos[j][3] = "unmasked"}
              = {j \in 1 .. n : infos[j][1] = kind /\ infos[j][3] = "unmasked"}
        BY <2>8, <3>4 DEF info
      <4>2. NewUnmasked(g, infos, n + 1, kind) = NewUnmasked(g, infos, n, kind)
        BY <4>1 DEF NewUnmasked
      <4> QED BY <2>5, <3>1, <3>4, <4>2
    <3> QED BY <3>3, <3>4
  <2>11. /\ k.m.numVars = g.m.numVars + (n + 1) /\ k.m.numEmitted = g.m.numEmitted + (n + 1)
         /\ k.inputs = g.inputs + (n + 1)
    <3>1. /\ k.m.numVars = h.m.numVars + 1 /\ k.m.numEmitted = h.m.numEmitted + 1
          /\ k.inputs = h.inputs + 1
      BY <2>5
    <3> QED BY ONLY <1>4, <2>6, <3>1, n \in Nat
  <2>12. k.code = g.code /\ k.m.nots = g.m.nots /\ k.m.xors = g.m.xors
    BY <2>3, <2>5 DEF WithInputs
  <2> QED BY <2>3, <2>7, <2>9, <2>10, <2>11, <2>12 DEF WithInputs
<1> HIDE DEF S
<1>7. WithInputs(g, infos, N, f[N])
  <2>1. Nat \subseteq S
    BY <1>5, <1>6, Creating!SetInduction
  <2> QED BY <2>1 DEF S
<1> QED BY <1>3, <1>7

-----------------------------------------------------------------------------
(* Masking a value with the other shares.                                   *)

(* No complement and no exclusive or uses v.                                *)
Fresh(m, v) ==
  /\ v \in Var(m) /\ v \notin DOMAIN m.nots
  /\ \A w \in DOMAIN m.nots : m.nots[w] # v
  /\ \A key \in DOMAIN m.xors : key[1] # v /\ key[2] # v

(* The exclusive or with a fresh variable is a new variable.                *)
LEMMA FreshXor ==
  ASSUME NEW m, Sound(m), NEW a \in Var(m), NEW b, Fresh(m, b), a # b
  PROVE  LET res == MakeXor(m, a, b)
         IN  /\ res.v = m.numVars /\ res.m.nots = m.nots
             /\ \A c : Fresh(m, c) /\ c # a /\ c # b => Fresh(res.m, c) /\ c # res.v
<1> DEFINE f == Xor(Truth(m, a), Truth(m, b))
           key == BinaryKey(a, b)
           w == NewVar(m, f)
           n == [w EXCEPT !.xors = Emplace(@, key, m.numVars)]
<1>1. /\ b \in Var(m) /\ a \notin Constant /\ b \notin Constant
      /\ Truth(m, a) \in SUBSET Assignment /\ Truth(m, b) \in SUBSET Assignment
  <2>1. b \in Var(m)
    BY DEF Fresh
  <2>2. \A v \in Var(m) : v \notin Constant /\ v \in Known(m)
    BY DEF Var, Constant, Known, ZERO, ONE
  <2> QED BY <2>1, <2>2, TruthOf DEF Sound
<1>2. f \in SUBSET Assignment
  BY <1>1 DEF Xor
<1>3. key = <<a, b>> \/ key = <<b, a>>
  BY DEF BinaryKey
<1>4. key \notin DOMAIN m.xors /\ ~ Complementary(m, a, b)
  BY <1>3 DEF Fresh, Complementary
<1>5. MakeXor(m, a, b) = Result(n, m.numVars)
  BY <1>1, <1>4 DEF MakeXor, Constant
<1>6. /\ DOMAIN w = DOMAIN m /\ w.numVars = m.numVars + 1 /\ w.nots = m.nots /\ w.xors = m.xors
  BY <1>2, NewVarFields DEF Sound
<1> HIDE DEF f, w
<1>7. n.nots = m.nots /\ n.numVars = m.numVars + 1 /\ n.xors = Emplace(m.xors, key, m.numVars)
  BY <1>6 DEF Sound, IsManager
<1> HIDE DEF n, key
<1>8. ASSUME NEW c, Fresh(m, c), c # a, c # b PROVE Fresh(n, c) /\ c # m.numVars
  <2>1. c \in Var(n) /\ c # m.numVars
    BY <1>7, <1>8 DEF Fresh, Var, Sound, IsManager
  <2>2. \A k \in DOMAIN n.xors : k \in DOMAIN m.xors \/ k = key
    BY <1>7 DEF Emplace
  <2>3. key[1] # c /\ key[2] # c
    BY <1>3, <1>8
  <2> QED BY <1>7, <1>8, <2>1, <2>2, <2>3 DEF Fresh
<1> QED BY <1>5, <1>7, <1>8 DEF Result

LEMMA MaskFold ==
  ASSUME NEW base, NEW seq PROVE FoldLeft(MaskShare, base, seq) = Masking!Fold(base, seq)
  BY DEF FoldLeft, MapThenFoldSet, Max, Masking!Fold, Masking!IsIter, Masking!Step, Masking!Greatest

LEMMA ShareFold ==
  ASSUME NEW base, NEW seq PROVE FoldLeft(MaskFirst, base, seq) = Sharing!Fold(base, seq)
  BY DEF FoldLeft, MapThenFoldSet, Max, Sharing!Fold, Sharing!IsIter, Sharing!Step, Sharing!Greatest

LEMMA XorFold ==
  ASSUME NEW base, NEW seq PROVE FoldLeft(Xor, base, seq) = Adding!Fold(base, seq)
  BY DEF FoldLeft, MapThenFoldSet, Max, Adding!Fold, Adding!IsIter, Adding!Step, Adding!Greatest

(* z is st with s, which computes f, for the first share of index i; fresh  *)
(* variables but those in used stay fresh.                                  *)
ShareMasked(st, z, i, s, f, used) ==
  /\ z.sh = [st.sh EXCEPT ![i][1] = s]
  /\ Continues(st.g, z.g) /\ Right(z.g, s, f) /\ s.var \in Var(z.g.m)
  /\ \A c : Fresh(st.g.m, c) /\ c \notin used => Fresh(z.g.m, c) /\ c # s.var

(* One share.                                                               *)
LEMMA MaskShareFacts ==
  ASSUME NEW st, IsGen(st.g), st.g.code # <<>>, NEW kind, NEW i, NEW k,
         NEW a, a = st.sh[i][1], NEW b, b = st.sh[i][k],
         NEW fa, Right(st.g, a, fa), NEW fb, Right(st.g, b, fb),
         a.var \in Var(st.g.m), Fresh(st.g.m, b.var), a.var # b.var
  PROVE  \E s : ShareMasked(st, MaskShare(st, <<kind, i, k>>), i, s, Xor(fa, fb), {a.var, b.var})
<1> DEFINE m == st.g.m
           res == MakeXor(m, a.var, b.var)
           y == Made(res)
           v == y.sym.var
           h0 == Grow(st.g, y.m)
           h == EmitWritten(h0, v)
           s == SymbolOf(h.m, v)
           info == <<IF k = Len(st.sh[i]) THEN kind ELSE "intern", i, "share">>
           n == Label(h, s.pos, info)
<1>1. /\ Sound(m) /\ Disciplined(m) /\ a.var \in Known(m) /\ b.var \in Known(m)
      /\ Truth(m, a.var) = fa /\ Truth(m, b.var) = fb
  BY GenManager, SymbolKnown DEF Right
<1>2. Computes(m, res, Xor(fa, fb)) /\ Disciplined(res.m)
  BY <1>1, XorComputes, XorDisciplined
<1>3. /\ res.v = m.numVars /\ res.m.nots = m.nots
      /\ \A c : Fresh(m, c) /\ c # a.var /\ c # b.var => Fresh(res.m, c) /\ c # res.v
  BY <1>1, FreshXor
<1>4. y.m = res.m /\ v = res.v
  BY DEF Made, SymbolOf
<1>5. MaskShare(st, <<kind, i, k>>) = [g |-> n, sh |-> [st.sh EXCEPT ![i][1] = s]]
  BY DEF MaskShare
<1> HIDE DEF m, res, y
<1>6. Continues(st.g, h0) /\ h0.m = res.m /\ h0.code = st.g.code
  BY <1>2, <1>4, GrowContinues DEF Computes, m
<1>7. /\ IsGen(h0) /\ h0.code # <<>> /\ v \in Var(h0.m) /\ v \notin DOMAIN h0.m.slots
      /\ v \in Known(h0.m) /\ Truth(h0.m, v) = Xor(fa, fb)
  <2>1. IsGen(h0) /\ h0.code # <<>>
    BY <1>6 DEF Continues, Keeps
  <2>2. v = m.numVars /\ v \in Known(h0.m) /\ Truth(h0.m, v) = Xor(fa, fb)
    BY <1>2, <1>3, <1>4, <1>6 DEF Computes
  <2>3. v \notin Constant /\ v \notin Var(m) /\ DOMAIN m.slots \subseteq Var(m)
    BY <2>2, GenManager DEF m, Var, Constant, ZERO, ONE
  <2>4. h0.m.slots = m.slots
    BY <1>2, <1>6 DEF Computes, Grown
  <2> QED BY <2>1, <2>2, <2>3, <2>4 DEF Known
<1>8. Plain(info)
  BY PlainLabels
<1> HIDE DEF info, h0
<1>9. /\ h.m = NewEmission(h0.m, v) /\ s.pos = EmissionSlot(h.m, v)
      /\ Continues(h0, n) /\ n.m = h.m
  <2>1. s.pos = EmissionSlot(h.m, v)
    BY DEF SymbolOf
  <2>2. n = Label(h, EmissionSlot(h.m, v), info)
    BY <2>1
  <2> HIDE DEF n
  <2> QED BY <1>7, <1>8, <2>1, <2>2, WriteLabelled
<1> HIDE DEF n, h
<1>10. Continues(st.g, n) /\ IsGen(n)
  BY <1>6, <1>9, ContinuesTwice DEF Continues, Keeps
<1>11. Right(n, s, Xor(fa, fb)) /\ s.var \in Var(n.m)
  <2>1. v \in Known(n.m) /\ Truth(n.m, v) = Xor(fa, fb) /\ n.m.numVars = h0.m.numVars
    <3>1. Sound(h0.m) /\ Later(h0.m, n.m)
      BY <1>7, <1>9, GenManager DEF Continues, Keeps
    <3>2. n.m.numVars = h0.m.numVars
      BY <1>7, <1>9, <3>1, EmissionFacts
    <3> QED BY <1>7, <3>1, <3>2, LaterKnown
  <2>2. s = SymbolOf(n.m, v) /\ s.var = v
    BY <1>9 DEF SymbolOf
  <2> QED BY <1>7, <1>10, <2>1, <2>2, FreshRight DEF Var
<1>12. \A c : Fresh(m, c) /\ c # a.var /\ c # b.var => Fresh(n.m, c) /\ c # s.var
  <2>1. n.m.nots = res.m.nots /\ n.m.xors = res.m.xors /\ Var(n.m) = Var(res.m)
    <3>1. Sound(h0.m)
      BY <1>7, GenManager
    <3> QED BY <1>6, <1>7, <1>9, <3>1, EmissionFacts DEF Var
  <2>2. s.var = res.v
    BY <1>4 DEF SymbolOf
  <2> QED BY <1>3, <2>1, <2>2 DEF Fresh
<1> HIDE DEF s
<1>13. MaskShare(st, <<kind, i, k>>).sh = [st.sh EXCEPT ![i][1] = s] /\ MaskShare(st, <<kind, i, k>>).g = n
  BY <1>5
<1>14. \A c : Fresh(st.g.m, c) /\ c \notin {a.var, b.var} => Fresh(n.m, c) /\ c # s.var
  BY <1>12 DEF m
<1>15. ShareMasked(st, MaskShare(st, <<kind, i, k>>), i, s, Xor(fa, fb), {a.var, b.var})
  BY <1>10, <1>11, <1>13, <1>14 DEF ShareMasked
<1> QED BY <1>15

(* A sequence given as a function.                                          *)
LEMMA LengthOf ==
  ASSUME NEW n \in Nat, NEW q, q = [k \in 1 .. n |-> q[k]]
  PROVE  Len(q) = n /\ q \in Seq(Range(q))
<1>1. q \in [1 .. n -> Range(q)]
  <2>1. DOMAIN q = 1 .. n
    OBVIOUS
  <2>2. \A k \in 1 .. n : q[k] \in Range(q)
    BY <2>1 DEF Range
  <2> QED BY <2>2
<1> QED BY ONLY <1>1

(* All shares of one index: the first share is the value, masked.           *)
(* The variables of the shares x[1], ..., x[n].                             *)
VarsOf(x, n) == {x[k].var : k \in 1 .. n}

LEMMA MaskFirstFacts ==
  ASSUME NEW st, IsGen(st.g), st.g.code # <<>>, NEW kind, NEW i, NEW n \in Nat \ {0},
         st.sh = [j \in DOMAIN st.sh |-> st.sh[j]], i \in DOMAIN st.sh,
         NEW old, old = st.sh[i], old = [k \in 1 .. n |-> old[k]],
         NEW fun, DOMAIN fun = 1 .. n, \A k \in 1 .. n : Right(st.g, old[k], fun[k]),
         \A k \in 1 .. n : Fresh(st.g.m, old[k].var),
         \A k, j \in 1 .. n : k # j => old[k].var # old[j].var
  PROVE  \E s : ShareMasked(st, MaskFirst(st, <<kind, i>>), i, s, FoldLeft(Xor, {}, fun), VarsOf(old, n))
<1> DEFINE N == n - 1
           todo == OtherShares(kind, i, n)
           used(k) == {old[j].var : j \in 1 .. k}
<1>1. N \in Nat /\ N + 1 = n /\ DOMAIN todo = 1 .. N /\ \A k \in 1 .. N : todo[k] = <<kind, i, k + 1>>
  BY DEF OtherShares
<1>2. MaskFirst(st, <<kind, i>>) = FoldLeft(MaskShare, st, todo)
  BY LengthOf DEF MaskFirst
<1> HIDE DEF todo, N
<1>3. PICK f : Masking!Values(f, st, todo, N) /\ Masking!Fold(st, todo) = f[N]
  BY <1>1, Masking!FoldValues
<1>4. PICK e : Adding!Values(e, {}, fun, n) /\ Adding!Fold({}, fun) = e[n]
  BY Adding!FoldValues
<1>5. /\ f[0] = st /\ \A k \in 0 .. N - 1 : f[k + 1] = MaskShare(f[k], todo[k + 1])
      /\ e[0] = {} /\ \A k \in 0 .. n - 1 : e[k + 1] = Xor(e[k], fun[k + 1])
  BY <1>3, <1>4 DEF Masking!Values, Adding!Values
<1> DEFINE Done(k, s) == ShareMasked(st, f[k], i, s, e[k + 1], used(k + 1))
           S == {k \in Nat : k <= N => \E s : Done(k, s)}
<1>6. 0 \in S
  <2>1. 0 \in 0 .. n - 1 /\ 0 + 1 \in 1 .. n /\ 0 + 1 = 1
    BY <1>1
  <2>2. e[1] = fun[1]
    <3>1. e[1] = Xor({}, fun[1])
      BY <1>5, <2>1
    <3> QED BY <3>1 DEF Xor
  <2>3. [st.sh EXCEPT ![i][1] = old[1]] = st.sh
    <3>1. [old EXCEPT ![1] = old[1]] = old
      BY <2>1
    <3> QED BY <3>1
  <2>4. Continues(st.g, st.g) /\ old[1].var \in Var(st.g.m) /\ Right(st.g, old[1], e[1])
    BY <2>1, <2>2, ContinuesSame DEF Fresh
  <2>5. \A c : c \notin used(0 + 1) => c # old[1].var
    BY <2>1
  <2> HIDE DEF used
  <2>6. Done(0, old[1])
    BY <1>5, <2>1, <2>3, <2>4, <2>5 DEF ShareMasked
  <2> QED BY <2>6
<1>7. ASSUME NEW k \in Nat, k \in S PROVE k + 1 \in S
  <2> HIDE DEF used
  <2>1. SUFFICES ASSUME k + 1 <= N PROVE \E s : Done(k + 1, s)
    OBVIOUS
  <2> DEFINE g == f[k].g
             p == k + 2
             b == old[p]
             z == MaskShare(f[k], <<kind, i, p>>)
  <2>2. /\ k \in 0 .. N - 1 /\ k + 1 \in 1 .. N /\ k + 1 \in 0 .. n - 1 /\ p \in 1 .. n /\ p # 1
        /\ (k + 1) + 1 = p /\ k <= N /\ 1 \in 1 .. n
    BY <1>1, <2>1
  <2>3. PICK a : Done(k, a)
    BY <1>7, <2>2
  <2>4. f[k + 1] = z /\ e[(k + 1) + 1] = Xor(e[k + 1], fun[p])
    <3>1. f[k + 1] = MaskShare(f[k], todo[k + 1]) /\ todo[k + 1] = <<kind, i, (k + 1) + 1>>
      BY <1>1, <1>5, <2>2
    <3>2. e[(k + 1) + 1] = Xor(e[k + 1], fun[(k + 1) + 1])
      BY <1>5, <2>2
    <3> HIDE DEF p
    <3> QED BY <2>2, <3>1, <3>2
  <2>5. a = f[k].sh[i][1] /\ b = f[k].sh[i][p]
    <3>1. f[k].sh[i] = [old EXCEPT ![1] = a]
      BY <2>3 DEF ShareMasked
    <3> QED BY <2>2, <3>1
  <2>6. IsGen(g) /\ g.code # <<>>
    <3>1. IsGen(g) /\ Len(g.code) = Len(st.g.code) /\ g.code \in Seq(Seq(Statement)) /\ Len(st.g.code) # 0
      BY <2>3 DEF ShareMasked, Continues, Keeps, IsGen
    <3> QED BY <3>1
  <2>7. Fresh(st.g.m, b.var) /\ b.var \notin used(k + 1)
    <3>1. \A j \in 1 .. k + 1 : j \in 1 .. n /\ p # j
      BY <2>2
    <3> QED BY <2>2, <3>1 DEF used
  <2>8. Right(g, b, fun[p])
    BY <2>2, <2>3, KeepsRight DEF Continues, ShareMasked
  <2>9. Fresh(g.m, b.var) /\ a.var # b.var /\ Right(g, a, e[k + 1]) /\ a.var \in Var(g.m)
    BY <2>3, <2>7 DEF ShareMasked
  <2> HIDE DEF z, b, p, g
  <2>10. PICK s : ShareMasked(f[k], z, i, s, Xor(e[k + 1], fun[p]), {a.var, b.var})
    <3> DEFINE fa == e[k + 1]
               fb == fun[p]
               st2 == f[k]
    <3>1. /\ a = st2.sh[i][1] /\ b = st2.sh[i][p] /\ IsGen(st2.g) /\ st2.g.code # <<>>
          /\ Right(st2.g, a, fa) /\ Right(st2.g, b, fb)
          /\ a.var \in Var(st2.g.m) /\ Fresh(st2.g.m, b.var) /\ a.var # b.var
      BY <2>5, <2>6, <2>8, <2>9 DEF g
    <3> HIDE DEF fa, fb, st2
    <3>2. \E s : ShareMasked(st2, MaskShare(st2, <<kind, i, p>>), i, s, Xor(fa, fb), {a.var, b.var})
      BY ONLY <3>1, MaskShareFacts
    <3> QED BY <3>2 DEF fa, fb, st2, z
  <2>11. z.sh = [st.sh EXCEPT ![i][1] = s]
    <3>1. f[k].sh = [st.sh EXCEPT ![i] = [old EXCEPT ![1] = a]]
      BY <2>3 DEF ShareMasked
    <3>2. f[k].sh[i] = [old EXCEPT ![1] = a] /\ DOMAIN f[k].sh = DOMAIN st.sh
          /\ \A j \in DOMAIN st.sh : j # i => f[k].sh[j] = st.sh[j]
      BY <3>1
    <3>3. z.sh = [f[k].sh EXCEPT ![i] = [f[k].sh[i] EXCEPT ![1] = s]]
      BY <2>10 DEF ShareMasked
    <3>4. [[old EXCEPT ![1] = a] EXCEPT ![1] = s] = [old EXCEPT ![1] = s]
      OBVIOUS
    <3>5. z.sh = [f[k].sh EXCEPT ![i] = [old EXCEPT ![1] = s]]
      BY <3>2, <3>3, <3>4
    <3>6. [f[k].sh EXCEPT ![i] = [old EXCEPT ![1] = s]] = [st.sh EXCEPT ![i] = [old EXCEPT ![1] = s]]
      BY <3>2
    <3> QED BY <3>5, <3>6
  <2>12. Continues(st.g, z.g)
    BY <2>3, <2>10, ContinuesTwice DEF ShareMasked, g
  <2>13. ASSUME NEW c, Fresh(st.g.m, c), c \notin used((k + 1) + 1)
         PROVE  Fresh(z.g.m, c) /\ c # s.var
    <3>1. p \in 1 .. (k + 1) + 1 /\ \A j \in 1 .. k + 1 : j \in 1 .. (k + 1) + 1
      BY <2>2
    <3>2. c # b.var /\ c \notin used(k + 1)
      BY <2>13, <3>1 DEF b, used
    <3>3. Fresh(g.m, c) /\ c # a.var
      BY <2>3, <2>13, <3>2 DEF ShareMasked, g
    <3> QED BY <2>10, <3>2, <3>3 DEF ShareMasked, g
  <2>14. Done(k + 1, s)
    BY <2>4, <2>10, <2>11, <2>12, <2>13 DEF ShareMasked
  <2> QED BY <2>14
<1> HIDE DEF S
<1>8. N \in S
  BY <1>1, <1>6, <1>7, Masking!SetInduction
<1>9. PICK s : Done(N, s)
  <2>1. N <= N
    BY <1>1
  <2> HIDE DEF Done
  <2> QED BY <1>8, <2>1 DEF S
<1>10. MaskFirst(st, <<kind, i>>) = f[N] /\ FoldLeft(Xor, {}, fun) = e[N + 1] /\ used(N + 1) = used(n)
  BY <1>1, <1>2, <1>3, <1>4, MaskFold, XorFold
<1> HIDE DEF used
<1>11. ShareMasked(st, MaskFirst(st, <<kind, i>>), i, s, FoldLeft(Xor, {}, fun), used(n))
  BY <1>9, <1>10
<1>12. used(n) = VarsOf(old, n)
  BY DEF used, VarsOf
<1> QED BY <1>11, <1>12

-----------------------------------------------------------------------------
(* allocate_shared: the inputs, share by share, then the masking.           *)

(* A number is divided in one way only.                                     *)
LEMMA DividedOnce ==
  ASSUME NEW d \in Nat, d >= 1, NEW a \in Nat, NEW b \in Nat, NEW p \in 0 .. d - 1, NEW q \in 0 .. d - 1,
         (a * d) + p = (b * d) + q
  PROVE  a = b /\ p = q
<1>1. ASSUME NEW x \in Nat, NEW y \in Nat, x < y PROVE (x * d) + d <= y * d
  <2> DEFINE c == y - x - 1
  <2>1. c \in Nat /\ y = x + 1 + c
    BY <1>1
  <2> HIDE DEF c
  <2>2. y * d = (x * d) + d + (c * d)
    BY <2>1
  <2>3. c * d \in Nat /\ x * d \in Nat
    BY <2>1
  <2> QED BY <2>2, <2>3
<1>2. a * d \in Nat /\ b * d \in Nat
  OBVIOUS
<1>3. ~ a < b /\ ~ b < a
  BY <1>1, <1>2
<1>4. a = b
  BY <1>3
<1> QED BY <1>2, <1>4

LEMMA ShareIndexDistinct ==
  ASSUME NEW lo \in Nat, NEW hi \in Nat, lo <= hi, NEW i \in lo .. hi, NEW j \in lo .. hi,
         NEW k \in Nat \ {0}, NEW l \in Nat \ {0}, ShareIndex(lo, hi, i, k) = ShareIndex(lo, hi, j, l)
  PROVE  i = j /\ k = l
<1> DEFINE d == hi - lo + 1
           a == k - 1
           b == l - 1
           p == i - lo
           q == j - lo
<1>1. /\ d \in Nat /\ d >= 1 /\ a \in Nat /\ b \in Nat
      /\ p \in 0 .. d - 1 /\ q \in 0 .. d - 1
  OBVIOUS
<1>2. a * d \in Nat /\ b * d \in Nat
  BY <1>1
<1>3. ((a * d) + i) - lo = ((b * d) + j) - lo
  BY DEF ShareIndex
<1>4. i = p + lo /\ j = q + lo /\ k = a + 1 /\ l = b + 1
  OBVIOUS
<1> HIDE DEF d, a, b, p, q
<1>5. (a * d) + p = (b * d) + q
  BY <1>1, <1>2, <1>3, <1>4
<1> QED BY ONLY <1>1, <1>4, <1>5, DividedOnce

(* Where the input of a share is among the new inputs.                      *)
LEMMA ShareIndexFacts ==
  ASSUME NEW lo \in Nat, NEW hi \in Nat, lo <= hi, NEW n \in Nat \ {0}
  PROVE  /\ n * (hi - lo + 1) \in Nat /\ hi - lo + 1 <= n * (hi - lo + 1)
         /\ \A i \in lo .. hi, k \in 1 .. n :
              ShareIndex(lo, hi, i, k) \in Nat /\ ShareIndex(lo, hi, i, k) + 1 \in 1 .. n * (hi - lo + 1)
         /\ \A i \in lo .. hi : ShareIndex(lo, hi, i, 1) = i - lo
         /\ n > 1 => ShareIndex(lo, hi, lo, 2) = hi - lo + 1
         /\ ShareIndex(lo, hi, hi, n) = n * (hi - lo + 1) - 1
<1> DEFINE d == hi - lo + 1
<1>1. d \in Nat /\ d >= 1 /\ \A i \in lo .. hi : i - lo \in 0 .. d - 1
  OBVIOUS
<1>2. \A i \in lo .. hi, k \in Int : ShareIndex(lo, hi, i, k) = (k - 1) * d + (i - lo)
  BY DEF ShareIndex
<1>3. hi - lo = d - 1
  OBVIOUS
<1> HIDE DEF d
<1>4. \A a, b \in Nat : a < b => (a * d) + d <= b * d
  <2>1. SUFFICES ASSUME NEW a \in Nat, NEW b \in Nat, a < b PROVE (a * d) + d <= b * d
    OBVIOUS
  <2> DEFINE c == b - a - 1
  <2>2. c \in Nat /\ b = a + 1 + c
    BY <2>1
  <2> HIDE DEF c
  <2>3. b * d = (a * d) + d + (c * d)
    BY <1>1, <2>2
  <2>4. c * d \in Nat /\ a * d \in Nat
    BY <1>1, <2>2
  <2> QED BY <1>1, <2>3, <2>4
<1>5. \A a \in Nat : a * d \in Nat
  BY <1>1
<1>6. n * d \in Nat /\ 0 * d = 0 /\ 1 * d = d /\ n * d = ((n - 1) * d) + d
  BY <1>1, <1>5
<1>7. d <= n * d
  BY <1>1, <1>4, <1>6
<1>8. ASSUME NEW i \in lo .. hi, NEW k \in 1 .. n
      PROVE  ShareIndex(lo, hi, i, k) \in Nat /\ ShareIndex(lo, hi, i, k) + 1 \in 1 .. n * d
  <2> DEFINE a == k - 1
             p == i - lo
  <2>1. a \in Nat /\ a < n /\ p \in 0 .. d - 1 /\ ShareIndex(lo, hi, i, k) = (a * d) + p
    <3>1. a \in Nat /\ a < n /\ p \in 0 .. d - 1 /\ k \in Int
      BY <1>1
    <3>2. ShareIndex(lo, hi, i, k) = (a * d) + p
      BY ONLY <1>2, <3>1, i \in lo .. hi
    <3> QED BY <3>1, <3>2
  <2>2. a * d \in Nat /\ (a * d) + d <= n * d
    BY <1>4, <1>5, <2>1
  <2> HIDE DEF a, p
  <2>3. ShareIndex(lo, hi, i, k) \in Nat /\ ShareIndex(lo, hi, i, k) + 1 \in 1 .. n * d
    BY <1>1, <1>6, <2>1, <2>2
  <2> QED BY <2>3
<1>9. \A i \in lo .. hi : ShareIndex(lo, hi, i, 1) = i - lo
  <2>1. (1 - 1) * d = 0
    BY <1>1
  <2> QED BY <1>2, <2>1
<1>10. ShareIndex(lo, hi, lo, 2) = d
  <2>1. (2 - 1) * d = d /\ lo \in lo .. hi
    BY <1>1
  <2>2. ShareIndex(lo, hi, lo, 2) = ((2 - 1) * d) + (lo - lo)
    BY <1>2, <2>1
  <2> QED BY <1>1, <2>1, <2>2
<1>11. ShareIndex(lo, hi, hi, n) = n * d - 1
  <2>1. ShareIndex(lo, hi, hi, n) = ((n - 1) * d) + (hi - lo)
    BY <1>2
  <2>2. (n - 1) * d \in Nat
    BY <1>5
  <2> QED BY <1>1, <1>3, <1>6, <2>1, <2>2
<1> QED BY <1>6, <1>7, <1>8, <1>9, <1>10, <1>11 DEF d

(* Share k of index i, among new, is an input of h of its own, and fresh.   *)
InputMade(h, new, lo, hi, n, i, k) ==
  /\ new[i][k] = [var |-> gen.m.numVars + ShareIndex(lo, hi, i, k),
                  pos |-> gen.m.numEmitted + ShareIndex(lo, hi, i, k)]
  /\ Right(h, new[i][k], InputFunction(gen.inputs + ShareIndex(lo, hi, i, k)))
  /\ Fresh(h.m, new[i][k].var)
  /\ \A j \in lo .. hi, l \in 1 .. n : new[i][k].var = new[j][l].var => i = j /\ k = l

(* The inputs of a range of indices are.                                    *)
LEMMA ShareInputsFacts ==
  ASSUME IsGen(gen), NEW lo \in Nat, NEW hi \in Nat, lo <= hi, NEW n \in Nat \ {0}, NEW infos, NEW h,
         WithInputs(gen, infos, n * (hi - lo + 1), h), NEW new, new = ShareInputs(lo, hi, n)
  PROVE  /\ new = [i \in lo .. hi |-> new[i]]
         /\ \A i \in lo .. hi : new[i] = [k \in 1 .. n |-> new[i][k]]
         /\ \A i \in lo .. hi, k \in 1 .. n : InputMade(h, new, lo, hi, n, i, k)
<1> DEFINE T == n * (hi - lo + 1)
           at(i, k) == ShareIndex(lo, hi, i, k)
<1>1. /\ new = [i \in lo .. hi |-> new[i]]
      /\ \A i \in lo .. hi : new[i] = [k \in 1 .. n |-> new[i][k]]
      /\ \A i \in lo .. hi, k \in 1 .. n : new[i][k] = InputSymbol(gen, at(i, k) + 1)
  BY DEF ShareInputs
<1>2. /\ gen.m.numVars \in Nat /\ gen.m.numEmitted \in Nat /\ gen.inputs \in Nat
      /\ Sound(gen.m) /\ Var(gen.m) = 0 .. gen.m.numVars - 1
  BY GenManager
<1>3. T \in Nat
  BY ShareIndexFacts
<1> HIDE DEF T
<1>4. ASSUME NEW i \in lo .. hi, NEW k \in 1 .. n
      PROVE  /\ new[i][k] = [var |-> gen.m.numVars + at(i, k), pos |-> gen.m.numEmitted + at(i, k)]
             /\ Right(h, new[i][k], InputFunction(gen.inputs + at(i, k)))
             /\ Fresh(h.m, new[i][k].var)
             /\ \A j \in lo .. hi, l \in 1 .. n : new[i][k].var = new[j][l].var => i = j /\ k = l
  <2> DEFINE p == at(i, k)
  <2>1. p \in Nat /\ p + 1 \in 1 .. T
    BY ShareIndexFacts DEF T
  <2>2. new[i][k] = InputSymbol(gen, p + 1)
    BY <1>1
  <2>3. ASSUME NEW j \in lo .. hi, NEW l \in 1 .. n
        PROVE  at(j, l) \in Nat /\ (p = at(j, l) => i = j /\ k = l)
    <3>1. at(j, l) \in Nat
      BY ShareIndexFacts
    <3>2. p = at(j, l) => i = j /\ k = l
      BY ShareIndexDistinct
    <3> QED BY <3>1, <3>2
  <2> HIDE DEF p
  <2>4. /\ gen.m.numVars + (p + 1) - 1 = gen.m.numVars + p /\ gen.inputs + (p + 1) - 1 = gen.inputs + p
        /\ gen.m.numEmitted + (p + 1) - 1 = gen.m.numEmitted + p
    BY <1>2, <2>1
  <2>5. new[i][k] = [var |-> gen.m.numVars + p, pos |-> gen.m.numEmitted + p]
    BY <2>2, <2>4 DEF InputSymbol
  <2>6. Right(h, new[i][k], InputFunction(gen.inputs + p))
    BY <2>1, <2>2, <2>4 DEF WithInputs, T
  <2>7. Fresh(h.m, new[i][k].var)
    <3>1. /\ h.m.nots = gen.m.nots /\ h.m.xors = gen.m.xors /\ h.m.numVars = gen.m.numVars + T
      BY DEF WithInputs, T
    <3>2. gen.m.numVars + p \in Var(h.m) /\ gen.m.numVars + p \notin Var(gen.m)
      BY <1>2, <1>3, <2>1, <3>1 DEF Var
    <3>3. /\ \A v \in DOMAIN gen.m.nots : v \in Var(gen.m) /\ gen.m.nots[v] \in Var(gen.m)
          /\ \A key \in DOMAIN gen.m.xors : key[1] \in Var(gen.m) /\ key[2] \in Var(gen.m)
      BY <1>2 DEF Sound, IsManager, PairCache
    <3> QED BY <2>5, <3>1, <3>2, <3>3 DEF Fresh
  <2>8. ASSUME NEW j \in lo .. hi, NEW l \in 1 .. n, new[i][k].var = new[j][l].var PROVE i = j /\ k = l
    <3> DEFINE q == at(j, l)
    <3>1. new[j][l] = InputSymbol(gen, q + 1)
      BY <1>1
    <3>2. q \in Nat /\ (p = q => i = j /\ k = l)
      BY <2>3
    <3> HIDE DEF q
    <3>3. new[j][l].var = gen.m.numVars + (q + 1) - 1
      BY <3>1 DEF InputSymbol
    <3>4. p = q
      <4>1. new[i][k].var = gen.m.numVars + p
        BY <2>5
      <4>2. gen.m.numVars + p = gen.m.numVars + (q + 1) - 1
        BY <2>8, <3>3, <4>1
      <4> QED BY ONLY <1>2, <2>1, <3>2, <4>2
    <3> QED BY <3>2, <3>4
  <2> QED BY <2>5, <2>6, <2>7, <2>8 DEF p
<1> QED BY <1>1, <1>4 DEF InputMade

(* done is what allocate_shared leaves of gen.                              *)
SharesRight(kind, lo, hi, n, done) ==
  LET T == n * (hi - lo + 1)
      e == gen.m.numEmitted
  IN  /\ Keeps(gen, done.g) /\ done.g.inputs = gen.inputs + T /\ Len(done.g.code) = Len(gen.code)
      /\ e + T <= done.g.m.numEmitted /\ LastGrown(gen.code, done.g.code, e)
      /\ Written(done.g.code) = Written(gen.code) \cup (e + T .. done.g.m.numEmitted - 1)
      /\ DOMAIN done.sh = lo .. hi
      /\ \A i \in lo .. hi : /\ DOMAIN done.sh[i] = 1 .. n
                             /\ \A k \in 1 .. n : Right(done.g, done.sh[i][k], IdealShares(lo, hi, n)[i][k])
      /\ \A kd \in Kind : UnmaskedSlots(done.g, kd) =
           UnmaskedSlots(gen, kd) \cup (IF kd = kind THEN e .. e + (hi - lo) ELSE {})

LEMMA SharedFacts ==
  ASSUME IsGen(gen), gen.code # <<>>, NEW kind \in Kind,
         NEW lo \in Nat, NEW hi \in Nat, lo <= hi, NEW n \in Nat \ {0}
  PROVE  SharesRight(kind, lo, hi, n, Shared(kind, lo, hi, n))
<1> DEFINE d == hi - lo + 1
           T == n * d
           e == gen.m.numEmitted
           infos == ShareLabels(kind, lo, hi, n)
           h == NewInputs(gen, infos)
           new == ShareInputs(lo, hi, n)
           base == [g |-> h, sh |-> new]
           todo == [k \in 1 .. d |-> <<kind, lo + k - 1>>]
           fun(i) == [k \in 1 .. n |-> InputFunction(gen.inputs + ShareIndex(lo, hi, i, k))]
<1>1. d \in Nat /\ d >= 1 /\ T \in Nat /\ d <= T /\ lo + d - 1 = hi /\ e \in Nat
  <2>1. T \in Nat /\ d <= T
    BY ShareIndexFacts
  <2>2. e \in Nat
    BY GenManager
  <2>3. d \in Nat /\ d >= 1 /\ lo + d - 1 = hi
    OBVIOUS
  <2> HIDE DEF d, T, e
  <2> QED BY <2>1, <2>2, <2>3
<1>2. /\ DOMAIN infos = 1 .. T
      /\ \A k \in 1 .. T : /\ infos[k][1] = kind /\ infos[k] # NoLabel
                           /\ infos[k][3] = IF k <= d THEN "unmasked" ELSE "share"
  BY PlainLabels DEF ShareLabels
<1> HIDE DEF infos
<1>3. WithInputs(gen, infos, T, h)
  BY <1>1, <1>2, NewInputsFacts
<1>4. /\ new = [i \in lo .. hi |-> new[i]]
      /\ \A i \in lo .. hi : new[i] = [k \in 1 .. n |-> new[i][k]]
      /\ \A i \in lo .. hi, k \in 1 .. n :
           /\ Right(h, new[i][k], fun(i)[k])
           /\ Fresh(h.m, new[i][k].var)
           /\ \A j \in lo .. hi, l \in 1 .. n : new[i][k].var = new[j][l].var => i = j /\ k = l
  <2>1. \A i \in lo .. hi, k \in 1 .. n : fun(i)[k] = InputFunction(gen.inputs + ShareIndex(lo, hi, i, k))
    OBVIOUS
  <2> HIDE DEF h, fun
  <2>2. WithInputs(gen, infos, n * (hi - lo + 1), h)
    BY <1>3
  <2>3. /\ new = [i \in lo .. hi |-> new[i]]
        /\ \A i \in lo .. hi : new[i] = [k \in 1 .. n |-> new[i][k]]
    BY DEF ShareInputs
  <2> HIDE DEF new
  <2>4. \A i \in lo .. hi, k \in 1 .. n :
           /\ Right(h, new[i][k], InputFunction(gen.inputs + ShareIndex(lo, hi, i, k)))
           /\ Fresh(h.m, new[i][k].var)
           /\ \A j \in lo .. hi, l \in 1 .. n : new[i][k].var = new[j][l].var => i = j /\ k = l
    <3>1. new = ShareInputs(lo, hi, n)
      BY DEF new
    <3>2. \A i \in lo .. hi, k \in 1 .. n : InputMade(h, new, lo, hi, n, i, k)
      BY <2>2, <3>1, ShareInputsFacts
    <3> QED BY <3>2 DEF InputMade
  <2> QED BY <2>1, <2>3, <2>4
<1>5. \A kd \in Kind : NewUnmasked(gen, infos, T, kd) = IF kd = kind THEN e .. e + (hi - lo) ELSE {}
  <2>1. {k \in 1 .. T : infos[k][1] = kind /\ infos[k][3] = "unmasked"} = 1 .. d
    BY <1>1, <1>2
  <2>2. {e + k - 1 : k \in 1 .. d} = e .. e + (hi - lo)
    <3>1. ASSUME NEW p \in e .. e + (hi - lo) PROVE p = e + (p - e + 1) - 1 /\ p - e + 1 \in 1 .. d
      <4> DEFINE b == hi - lo
      <4>1. b \in Nat /\ d = b + 1 /\ e \in Nat /\ p \in e .. e + b
        BY <1>1
      <4> HIDE DEF b, d, e
      <4> QED BY ONLY <4>1
    <3>2. \A k \in 1 .. d : e + k - 1 \in e .. e + (hi - lo)
      BY <1>1
    <3> HIDE DEF d, e
    <3> QED BY <3>1, <3>2
  <2>3. NewUnmasked(gen, infos, T, kind) = e .. e + (hi - lo)
    BY <2>1, <2>2 DEF NewUnmasked
  <2>4. \A kd \in Kind : kd # kind => NewUnmasked(gen, infos, T, kd) = {}
    BY <1>2 DEF NewUnmasked
  <2> QED BY <2>3, <2>4
<1>6. DOMAIN todo = 1 .. d /\ \A k \in 1 .. d : todo[k] = <<kind, lo + k - 1>>
  OBVIOUS
<1>7. Shared(kind, lo, hi, n) = FoldLeft(MaskFirst, base, todo)
  BY DEF Shared, infos
<1> HIDE DEF h, new, todo, d, T, e
<1>8. PICK f : Sharing!Values(f, base, todo, d) /\ Sharing!Fold(base, todo) = f[d]
  <2> HIDE DEF base
  <2> QED BY <1>1, <1>6, Sharing!FoldValues
<1>9. f[0] = base /\ \A k \in 0 .. d - 1 : f[k + 1] = MaskFirst(f[k], todo[k + 1])
  BY <1>8 DEF Sharing!Values
<1>10. IsGen(h) /\ h.code = gen.code
  BY <1>3 DEF WithInputs, Keeps
<1> DEFINE Masked(q, i) == /\ f[q].sh[i] = [k \in 1 .. n |-> f[q].sh[i][k]]
                           /\ \A k \in 2 .. n : f[q].sh[i][k] = new[i][k]
                           /\ Right(f[q].g, f[q].sh[i][1], FoldLeft(Xor, {}, fun(i)))
           Waiting(q, i) == f[q].sh[i] = new[i] /\ \A k \in 1 .. n : Fresh(f[q].g.m, new[i][k].var)
           Done(q) == /\ Continues(h, f[q].g) /\ f[q].sh = [i \in lo .. hi |-> f[q].sh[i]]
                      /\ \A i \in lo .. hi : IF i < lo + q THEN Masked(q, i) ELSE Waiting(q, i)
           S == {q \in Nat : q <= d => Done(q)}
<1>11. 0 \in S
  <2>1. f[0].g = h /\ f[0].sh = new
    BY <1>9
  <2>2. \A i \in lo .. hi : ~ i < lo + 0
    OBVIOUS
  <2> HIDE DEF base, Masked
  <2> QED BY <1>4, <1>10, <2>1, <2>2, ContinuesSame
<1> HIDE DEF base
<1>12. ASSUME NEW q \in Nat, q \in S PROVE q + 1 \in S
  <2> HIDE DEF Done
  <2>1. SUFFICES ASSUME q + 1 <= d PROVE Done(q + 1)
    OBVIOUS
  <2> USE DEF Done
  <2> DEFINE st == f[q]
             z == f[q + 1]
             i == lo + q
             old == new[i]
             used == VarsOf(old, n)
  <2>2. /\ q \in 0 .. d - 1 /\ q + 1 \in 1 .. d /\ i \in lo .. hi /\ lo + (q + 1) - 1 = i /\ q <= d
        /\ ~ i < lo + q /\ 1 \in 1 .. n
    BY <1>1, <2>1
  <2>3. Done(q)
    BY <1>12, <2>2
  <2>4. z = MaskFirst(st, <<kind, i>>)
    BY <1>6, <1>9, <2>2
  <2>5. /\ Continues(h, st.g) /\ st.sh = [j \in lo .. hi |-> st.sh[j]]
        /\ Waiting(q, i)
    BY <2>2, <2>3
  <2>6. IsGen(st.g) /\ st.g.code # <<>>
    <3>1. IsGen(st.g) /\ Len(st.g.code) = Len(gen.code) /\ Keeps(h, st.g)
      BY <1>10, <2>5 DEF Continues, Keeps
    <3>2. Len(gen.code) # 0
      BY DEF IsGen
    <3> QED BY <3>1, <3>2
  <2>7. \A k \in 1 .. n : Right(st.g, old[k], fun(i)[k])
    <3>1. Keeps(h, st.g)
      BY <2>5 DEF Continues
    <3> HIDE DEF st, old, fun, i
    <3> QED BY <1>4, <1>10, <2>2, <3>1, KeepsRight DEF old
  <2>8. PICK s : ShareMasked(st, z, i, s, FoldLeft(Xor, {}, fun(i)), used)
    <3> DEFINE func == fun(i)
    <3>1. /\ st.sh = [j \in DOMAIN st.sh |-> st.sh[j]] /\ i \in DOMAIN st.sh
          /\ old = st.sh[i] /\ old = [k \in 1 .. n |-> old[k]]
          /\ DOMAIN func = 1 .. n /\ (\A k \in 1 .. n : Right(st.g, old[k], func[k]))
          /\ (\A k \in 1 .. n : Fresh(st.g.m, old[k].var))
          /\ (\A k, j \in 1 .. n : k # j => old[k].var # old[j].var)
      <4>1. DOMAIN func = 1 .. n /\ i \in DOMAIN st.sh /\ old = st.sh[i]
        BY <2>2, <2>5
      <4> HIDE DEF func, fun, Waiting, st, i
      <4>2. st.sh = [j \in DOMAIN st.sh |-> st.sh[j]]
        BY <2>5
      <4>3. old = [k \in 1 .. n |-> old[k]]
        BY <1>4, <2>2
      <4>4. \A k \in 1 .. n : Right(st.g, old[k], func[k])
        BY <2>7 DEF func
      <4>5. \A k, j \in 1 .. n : k # j => old[k].var # old[j].var
        BY <1>4, <2>2
      <4>6. \A k \in 1 .. n : Fresh(st.g.m, old[k].var)
        BY <2>5 DEF Waiting, st, i
      <4> QED BY <4>1, <4>2, <4>3, <4>4, <4>5, <4>6
    <3>2. kind \in Kind /\ n \in Nat \ {0} /\ IsGen(st.g) /\ st.g.code # <<>>
      BY <2>6
    <3> HIDE DEF st, old, func, i
    <3>3. \E s : ShareMasked(st, MaskFirst(st, <<kind, i>>), i, s, FoldLeft(Xor, {}, func),
                             VarsOf(old, n))
      BY ONLY <3>1, <3>2, MaskFirstFacts
    <3> QED BY <2>4, <3>3 DEF func
  <2>9. Continues(h, z.g)
    BY <1>10, <2>5, <2>8, ContinuesTwice DEF ShareMasked
  <2>10. /\ z.sh = [j \in lo .. hi |-> z.sh[j]]
         /\ \A j \in lo .. hi : j # i => z.sh[j] = st.sh[j]
         /\ z.sh[i] = [old EXCEPT ![1] = s] /\ Right(z.g, s, FoldLeft(Xor, {}, fun(i)))
         /\ Keeps(st.g, z.g)
    <3> HIDE DEF st, z, i, fun, Waiting
    <3>1. z.sh = [st.sh EXCEPT ![i] = [st.sh[i] EXCEPT ![1] = s]]
      BY <2>8 DEF ShareMasked
    <3>2. st.sh[i] = old
      BY <2>5 DEF Waiting, st
    <3> QED BY <2>2, <2>5, <2>8, <3>1, <3>2 DEF ShareMasked, Continues
  <2> HIDE DEF Masked, Waiting
  <2>11. Masked(q + 1, i)
    <3>1. old = [k \in 1 .. n |-> old[k]]
      BY <1>4, <2>2
    <3>2. z.sh[i] = [k \in 1 .. n |-> z.sh[i][k]] /\ z.sh[i][1] = s /\ \A k \in 2 .. n : z.sh[i][k] = old[k]
      <4> DEFINE zi == z.sh[i]
      <4>1. zi = [old EXCEPT ![1] = s] /\ 1 \in 1 .. n
        BY <2>2, <2>10
      <4> HIDE DEF zi, old
      <4>2. DOMAIN old = 1 .. n
        BY <3>1
      <4>3. zi = [k \in DOMAIN old |-> IF k = 1 THEN s ELSE old[k]]
        BY ONLY <4>1
      <4>4. zi = [k \in 1 .. n |-> zi[k]]
        BY ONLY <4>2, <4>3
      <4>5. zi[1] = s /\ \A k \in 2 .. n : zi[k] = old[k]
        BY <4>1, <4>2, <4>3
      <4> QED BY <4>4, <4>5 DEF zi
    <3> HIDE DEF fun, i
    <3> QED BY <2>10, <3>2 DEF Masked
  <2>12. ASSUME NEW j \in lo .. hi, j < i PROVE Masked(q + 1, j)
    <3>1. Masked(q, j) /\ z.sh[j] = st.sh[j]
      BY <2>3, <2>10, <2>12
    <3>2. Right(st.g, st.sh[j][1], FoldLeft(Xor, {}, fun(j)))
      BY <3>1 DEF Masked
    <3>3. Right(z.g, st.sh[j][1], FoldLeft(Xor, {}, fun(j)))
      <4> HIDE DEF fun, st, z
      <4> QED BY <2>6, <2>10, <3>2, KeepsRight
    <3> HIDE DEF fun
    <3> QED BY <3>1, <3>3 DEF Masked
  <2>13. ASSUME NEW j \in lo .. hi, ~ j < lo + (q + 1) PROVE Waiting(q + 1, j)
    <3>1. ~ j < lo + q /\ j # i
      BY <2>13
    <3>2. Waiting(q, j) /\ z.sh[j] = st.sh[j]
      BY <2>3, <2>10, <3>1
    <3>3. \A k \in 1 .. n : new[j][k].var \notin used
      BY <1>4, <2>2, <3>1 DEF VarsOf
    <3>4. \A k \in 1 .. n : Fresh(z.g.m, new[j][k].var)
      BY <2>8, <3>2, <3>3 DEF ShareMasked, Waiting
    <3> QED BY <3>2, <3>4 DEF Waiting
  <2>14. \A j \in lo .. hi : j < lo + (q + 1) => j < i \/ j = i
    BY <2>2
  <2>15. \A j \in lo .. hi : IF j < lo + (q + 1) THEN Masked(q + 1, j) ELSE Waiting(q + 1, j)
    <3> HIDE DEF i
    <3> QED BY <2>11, <2>12, <2>13, <2>14
  <2> QED BY <2>9, <2>10, <2>15
<1> HIDE DEF S
<1>13. Done(d)
  <2>1. Nat \subseteq S
    BY <1>11, <1>12, Sharing!SetInduction
  <2>2. d <= d
    BY <1>1
  <2> HIDE DEF Done
  <2> QED BY <1>1, <2>1, <2>2 DEF S
<1>14. Shared(kind, lo, hi, n) = f[d]
  BY <1>7, <1>8, ShareFold
<1> DEFINE done == f[d]
<1>15. /\ Continues(h, done.g) /\ DOMAIN done.sh = lo .. hi
       /\ \A i \in lo .. hi : Masked(d, i)
  <2>1. \A i \in lo .. hi : i < lo + d
    BY <1>1
  <2> HIDE DEF Masked, Waiting
  <2> QED BY <1>13, <2>1
<1>16. ASSUME NEW i \in lo .. hi
       PROVE  /\ DOMAIN done.sh[i] = 1 .. n
              /\ \A k \in 1 .. n : Right(done.g, done.sh[i][k], IdealShares(lo, hi, n)[i][k])
  <2>1. IdealShares(lo, hi, n)[i] = [fun(i) EXCEPT ![1] = FoldLeft(Xor, {}, fun(i))]
    BY DEF IdealShares
  <2>2. Masked(d, i)
    BY <1>15
  <2>3. ASSUME NEW k \in 1 .. n PROVE Right(done.g, done.sh[i][k], IdealShares(lo, hi, n)[i][k])
    <3>1. CASE k = 1
      <4>1. IdealShares(lo, hi, n)[i][1] = FoldLeft(Xor, {}, fun(i))
        BY <2>1, <3>1
      <4> QED BY <2>2, <3>1, <4>1
    <3>2. CASE k # 1
      <4>1. IdealShares(lo, hi, n)[i][k] = fun(i)[k] /\ k \in 2 .. n
        BY <2>1, <3>2
      <4>2. done.sh[i][k] = new[i][k] /\ Right(h, new[i][k], fun(i)[k]) /\ Keeps(h, done.g)
        BY <1>4, <1>15, <2>2, <4>1 DEF Continues
      <4> HIDE DEF fun, done
      <4> QED BY <1>10, <4>1, <4>2, KeepsRight
    <3> QED BY <3>1, <3>2
  <2> HIDE DEF fun
  <2>4. DOMAIN done.sh[i] = 1 .. n
    BY <2>2
  <2> QED BY <2>3, <2>4
<1> HIDE DEF Done, done, Masked
<1>17. /\ Keeps(gen, h) /\ Keeps(h, done.g) /\ h.inputs = gen.inputs + T
       /\ h.m.numEmitted = e + T /\ h.m.numEmitted <= done.g.m.numEmitted
       /\ done.g.inputs = h.inputs /\ Len(done.g.code) = Len(gen.code)
       /\ Written(done.g.code) = Written(gen.code) \cup (e + T .. done.g.m.numEmitted - 1)
  BY <1>3, <1>10, <1>15 DEF WithInputs, Continues, Keeps, Later, e
<1>18. Keeps(gen, done.g)
  BY <1>17, KeepsTwice
<1>19. \A kd \in Kind : UnmaskedSlots(done.g, kd) =
         UnmaskedSlots(gen, kd) \cup (IF kd = kind THEN e .. e + (hi - lo) ELSE {})
  <2>1. \A kd \in Kind : UnmaskedSlots(done.g, kd) = UnmaskedSlots(h, kd)
    BY <1>15 DEF Continues
  <2>2. \A kd \in Kind : UnmaskedSlots(h, kd) = UnmaskedSlots(gen, kd) \cup NewUnmasked(gen, infos, T, kd)
    BY <1>3 DEF WithInputs
  <2> QED BY <1>5, <2>1, <2>2
<1>20. LastGrown(gen.code, done.g.code, e)
  <2>1. LastGrown(gen.code, done.g.code, e + T)
    BY <1>3, <1>10, <1>15, <1>17 DEF WithInputs, Continues
  <2> HIDE DEF T
  <2>2. e + T \in Nat /\ e <= e + T
    BY <1>1
  <2> QED BY <1>1, <2>1, <2>2, LastGrownSame, LastGrownTwice
<1>21. SharesRight(kind, lo, hi, n, done)
  BY <1>15, <1>16, <1>17, <1>18, <1>19, <1>20 DEF SharesRight, T, e, d
<1> QED BY <1>14, <1>21 DEF done

-----------------------------------------------------------------------------
(* Sequences: the next element, and another in the place of one.            *)

Appended(s, x, t)    == s \in Seq(Range(s)) /\ t = Append(s, x)
Replaced(s, i, x, t) == s \in Seq(Range(s)) /\ i \in 1 .. Len(s) /\ t = [s EXCEPT ![i] = x]

LEMMA AppendFacts ==
  ASSUME NEW s, NEW x, NEW t, Appended(s, x, t)
  PROVE  /\ Len(s) \in Nat /\ DOMAIN s = 1 .. Len(s)
         /\ t \in Seq(Range(t)) /\ Len(t) = Len(s) + 1 /\ DOMAIN t = 1 .. Len(s) + 1
         /\ \A i \in 1 .. Len(s) : t[i] = s[i]
         /\ t[Len(s) + 1] = x
<1> USE DEF Appended
<1>1. /\ Len(s) \in Nat /\ DOMAIN s = 1 .. Len(s)
      /\ t \in Seq(Range(s) \cup {x}) /\ Len(t) = Len(s) + 1 /\ DOMAIN t = 1 .. Len(s) + 1
      /\ \A i \in 1 .. Len(s) : t[i] = s[i]
      /\ t[Len(s) + 1] = x
  OBVIOUS
<1> DEFINE S == Range(s) \cup {x}
<1> HIDE DEF S
<1>2. t = [i \in 1 .. Len(t) |-> t[i]] /\ Len(t) \in Nat
  <2>1. t \in Seq(S)
    BY <1>1 DEF S
  <2> QED BY ONLY <2>1
<1>3. t \in Seq(Range(t))
  BY <1>2, LengthOf
<1> QED BY <1>1, <1>3

LEMMA ReplaceFacts ==
  ASSUME NEW s, NEW i, NEW x, NEW t, Replaced(s, i, x, t)
  PROVE  /\ Len(s) \in Nat /\ DOMAIN s = 1 .. Len(s)
         /\ t \in Seq(Range(t)) /\ Len(t) = Len(s) /\ DOMAIN t = 1 .. Len(s)
         /\ t[i] = x /\ \A j \in 1 .. Len(s) : j # i => t[j] = s[j]
<1> USE DEF Replaced
<1>1. Len(s) \in Nat /\ DOMAIN s = 1 .. Len(s)
  OBVIOUS
<1>2. /\ t = [j \in 1 .. Len(s) |-> t[j]] /\ t[i] = x
      /\ \A j \in 1 .. Len(s) : j # i => t[j] = s[j]
  BY <1>1
<1>3. t \in Seq(Range(t)) /\ Len(t) = Len(s)
  BY <1>1, <1>2, LengthOf
<1> QED BY <1>1, <1>2, <1>3

(* A new function without a statement.                                      *)
WithFunction(g) == [g EXCEPT !.code = Append(@, <<>>)]

LEMMA FunctionAdded ==
  ASSUME NEW g, IsGen(g), NEW h, h = WithFunction(g)
  PROVE  /\ Keeps(g, h) /\ h.m = g.m /\ h.inputs = g.inputs /\ Len(h.code) = Len(g.code) + 1
         /\ Written(h.code) = Written(g.code)
         /\ \A kind \in Kind : UnmaskedSlots(h, kind) = UnmaskedSlots(g, kind)
<1>1. /\ DOMAIN h = DOMAIN g /\ h.m = g.m /\ h.reads = g.reads /\ h.label = g.label
      /\ h.inputs = g.inputs /\ h.code = Append(g.code, <<>>)
  BY DEF IsGen, WithFunction
<1> DEFINE n == Len(g.code)
<1>2. g.code \in Seq(Seq(Statement)) /\ n \in Nat
  BY DEF IsGen
<1>3. /\ h.code \in Seq(Seq(Statement)) /\ Len(h.code) = n + 1
      /\ DOMAIN g.code = 1 .. n /\ DOMAIN h.code = 1 .. n + 1
      /\ (\A c \in 1 .. n : h.code[c] = g.code[c]) /\ h.code[n + 1] = <<>>
  BY <1>1, <1>2
<1>4. DOMAIN h.code[n + 1] = {}
  BY <1>3
<1> HIDE DEF n
<1>5. DOMAIN h.code = DOMAIN g.code \cup {n + 1} /\ \A c \in DOMAIN g.code : h.code[c] = g.code[c]
  <2>1. 1 .. n + 1 = 1 .. n \cup {n + 1}
    BY <1>2
  <2> QED BY <1>3, <2>1
<1>6. Written(h.code) = Written(g.code)
  <2> DEFINE slots(code, c) == {code[c][k].slot : k \in DOMAIN code[c]}
  <2>1. slots(h.code, n + 1) = {} /\ \A c \in DOMAIN g.code : slots(h.code, c) = slots(g.code, c)
    BY <1>4, <1>5
  <2>2. /\ Written(h.code) = UNION {slots(h.code, c) : c \in DOMAIN h.code}
        /\ Written(g.code) = UNION {slots(g.code, c) : c \in DOMAIN g.code}
    BY DEF Written
  <2> HIDE DEF slots
  <2> QED BY <1>5, <2>1, <2>2
<1>7. InOrder(h.code)
  <2>1. SUFFICES ASSUME NEW c \in DOMAIN h.code, NEW k \in DOMAIN h.code[c]
                 PROVE  /\ \A p \in h.code[c][k].reads : p < h.code[c][k].slot
                        /\ \A b \in 1 .. c : \A j \in DOMAIN h.code[b] :
                             b < c \/ j < k => h.code[b][j].slot < h.code[c][k].slot
    BY DEF InOrder
  <2>2. c \in 1 .. n /\ h.code[c] = g.code[c] /\ \A b \in 1 .. c : h.code[b] = g.code[b]
    <3>1. c \in DOMAIN g.code
      BY <1>4, <1>5, <2>1
    <3>2. c \in 1 .. n /\ \A b \in 1 .. c : b \in 1 .. n
      BY <1>2, <1>3, <3>1
    <3> QED BY <1>3, <3>2
  <2>3. InOrder(g.code)
    BY DEF IsGen
  <2> QED BY <1>3, <2>1, <2>2, <2>3 DEF InOrder
<1>8. \A kind : UnmaskedSlots(h, kind) = UnmaskedSlots(g, kind)
  BY <1>1 DEF UnmaskedSlots
<1>9. IsGen(h)
  BY <1>1, <1>3, <1>6, <1>7 DEF IsGen
<1>10. Later(g.m, h.m) /\ g.inputs <= h.inputs
  BY <1>1, GenManager, LaterSame
<1>11. \A v : Unmasked(h, v) => Unmasked(g, v)
  BY <1>1, <1>8 DEF Unmasked
<1> QED BY <1>1, <1>3, <1>6, <1>8, <1>9, <1>10, <1>11 DEF Keeps

-----------------------------------------------------------------------------
(* The steps.                                                               *)

(* What a step leaves alone stays right.                                    *)
LEMMA HeldKept ==
  ASSUME IsGen(gen), HeldRight, Keeps(gen, gen'), UNCHANGED <<shares, masks>>,
         DOMAIN ideal' = DOMAIN ideal, ideal'.shares = ideal.shares, ideal'.masks = ideal.masks
  PROVE  HeldRight'
<1>1. \A kind \in Kind : \A i \in DOMAIN shares[kind] : \A k \in DOMAIN shares[kind][i] :
        Right(gen', shares[kind][i][k], ideal.shares[kind][i][k])
  BY KeepsRight DEF HeldRight
<1>2. \A i \in DOMAIN masks : Right(gen', masks[i], ideal.masks[i])
  BY KeepsRight DEF HeldRight
<1> QED BY <1>1, <1>2 DEF HeldRight

(* The symbols a testbench holds are right.                                 *)
LEMMA HeldSymbol ==
  ASSUME HeldRight, NEW h \in Held
  PROVE  Right(gen, SymbolAt(h), IdealAt(h))
<1>1. CASE h \in HeldShares /\ h[2] \in DOMAIN shares[h[1]] /\ h[3] \in DOMAIN shares[h[1]][h[2]]
  <2>1. h[1] \in Kind /\ h[1] # "mask"
    BY <1>1 DEF HeldShares, Kind
  <2> QED BY <1>1, <2>1 DEF HeldRight, SymbolAt, IdealAt
<1>2. CASE h \in {"mask"} \X DOMAIN masks
  BY <1>2 DEF HeldRight, SymbolAt, IdealAt
<1> QED BY <1>1, <1>2 DEF Held

LEMMA KnownCircuit ==
  ASSUME circuit \in Circuit PROVE IsCircuit(circuit)
  BY SimulatorAssumption

(* A cycle more.                                                            *)
LEMMA TraceAppended ==
  ASSUME IsGen(gen), TraceRight, ~prepared, Keeps(gen, gen'), circuit' = circuit, prepared' = TRUE,
         NEW tr, trace' = Append(trace, tr), NEW val, ideal'.trace = Append(ideal.trace, val),
         RightCycle(gen', tr, val), DOMAIN tr = Before(circuit, 1)
  PROVE  TraceRight' /\ Len(trace') = Len(trace) + 1 /\ Len(trace) \in Nat
<1> DEFINE n == Len(trace)
<1>1. /\ n \in Nat /\ DOMAIN trace = 1 .. n
      /\ trace' \in Seq(Range(trace')) /\ Len(trace') = n + 1 /\ DOMAIN trace' = 1 .. n + 1
      /\ (\A i \in 1 .. n : trace'[i] = trace[i]) /\ trace'[n + 1] = tr
  <2>1. Appended(trace, tr, trace')
    BY DEF TraceRight, Appended
  <2> QED BY ONLY <2>1, AppendFacts
<1>2. /\ Len(ideal.trace) = n /\ n >= 1 /\ ideal'.trace \in Seq(Range(ideal'.trace)) /\ Len(ideal'.trace) = n + 1
      /\ (\A i \in 1 .. n : ideal'.trace[i] = ideal.trace[i]) /\ ideal'.trace[n + 1] = val
  <2>1. Appended(ideal.trace, val, ideal'.trace) /\ Len(ideal.trace) = n /\ n >= 1
    BY DEF TraceRight, Appended
  <2> QED BY ONLY <2>1, AppendFacts
<1>3. \A c \in 1 .. n : RightCycle(gen, trace[c], ideal.trace[c]) /\ Evaluated(circuit, ideal.trace[c])
  BY <1>1 DEF TraceRight
<1> HIDE DEF n
<1>4. \A c \in 1 .. n + 1 : c \in 1 .. n \/ c = n + 1
  BY <1>1
<1>5. \A c \in 1 .. n : RightCycle(gen', trace'[c], ideal'.trace[c]) /\ Evaluated(circuit', ideal'.trace[c])
  BY <1>1, <1>2, <1>3, CycleKept
<1>6. n + 1 >= 2 /\ (n + 1) - 1 = n
  BY <1>1, <1>2
<1> QED BY <1>1, <1>2, <1>4, <1>5, <1>6 DEF TraceRight, n

(* Another last cycle.                                                      *)
LEMMA TraceReplaced ==
  ASSUME IsGen(gen), TraceRight, prepared, Keeps(gen, gen'), circuit' = circuit, prepared' \in BOOLEAN,
         NEW tr, trace' = [trace EXCEPT ![Len(trace)] = tr],
         NEW val, ideal'.trace = [ideal.trace EXCEPT ![Len(trace)] = val],
         RightCycle(gen', tr, val),
         IF prepared' THEN DOMAIN tr = Before(circuit, 1) ELSE Evaluated(circuit, val)
  PROVE  TraceRight' /\ Len(trace') = Len(trace)
<1> DEFINE n == Len(trace)
<1>1. n \in Nat /\ n >= 2 /\ Len(ideal.trace) = n /\ n \in 1 .. n
  BY DEF TraceRight
<1>2. /\ DOMAIN trace = 1 .. n
      /\ trace' \in Seq(Range(trace')) /\ Len(trace') = n /\ DOMAIN trace' = 1 .. n
      /\ (\A i \in 1 .. n : i # n => trace'[i] = trace[i]) /\ trace'[n] = tr
  <2>1. Replaced(trace, n, tr, trace')
    BY <1>1 DEF TraceRight, Replaced
  <2> QED BY ONLY <2>1, ReplaceFacts
<1>3. /\ ideal'.trace \in Seq(Range(ideal'.trace)) /\ Len(ideal'.trace) = n
      /\ (\A i \in 1 .. n : i # n => ideal'.trace[i] = ideal.trace[i]) /\ ideal'.trace[n] = val
  <2>1. Replaced(ideal.trace, n, val, ideal'.trace) /\ Len(ideal.trace) = n
    BY <1>1 DEF TraceRight, Replaced
  <2> QED BY ONLY <2>1, ReplaceFacts
<1>4. /\ \A c \in 1 .. n : RightCycle(gen, trace[c], ideal.trace[c])
      /\ \A c \in 1 .. n - 1 : Evaluated(circuit, ideal.trace[c])
  BY <1>2 DEF TraceRight
<1> HIDE DEF n
<1>5. \A c \in 1 .. n : RightCycle(gen', trace'[c], ideal'.trace[c])
  BY <1>2, <1>3, <1>4, CycleKept
<1>6. \A c \in 1 .. n - 1 : Evaluated(circuit', ideal'.trace[c])
  BY <1>1, <1>3, <1>4
<1>7. ~prepared' => Evaluated(circuit', ideal'.trace[n])
  BY <1>3
<1>8. \A c \in 1 .. n - (IF prepared' THEN 1 ELSE 0) : Evaluated(circuit', ideal'.trace[c])
  <2>1. \A c \in 1 .. n - 0 : c \in 1 .. n - 1 \/ c = n
    BY <1>1
  <2> QED BY <1>6, <1>7, <2>1
<1>9. prepared' => DOMAIN trace'[n] = Before(circuit', 1)
  BY <1>2
<1>10. n >= (IF prepared' THEN 2 ELSE 1)
  BY <1>1
<1> QED BY <1>2, <1>3, <1>5, <1>8, <1>9, <1>10 DEF TraceRight, n

(* The same cycles.                                                         *)
LEMMA TraceKept ==
  ASSUME IsGen(gen), TraceRight, Keeps(gen, gen'), UNCHANGED <<circuit, trace, prepared>>,
         ideal'.trace = ideal.trace
  PROVE  TraceRight'
<1>1. \A c \in DOMAIN trace : RightCycle(gen', trace[c], ideal.trace[c])
  BY CycleKept DEF TraceRight
<1> QED BY <1>1 DEF TraceRight

(* The ranges in names get one more range each, r[name].                    *)
RangeNames == Kind \cup {"mask"}
TaggedRange == [lo : Nat, hi : Nat, tag : Nat]
Span(x)   == x.lo .. x.hi
Extended(names, r) ==
  /\ names \subseteq RangeNames /\ \A name \in names : r[name] \in TaggedRange
  /\ ranges' = [name \in RangeNames |-> IF name \in names THEN Append(ranges[name], r[name]) ELSE ranges[name]]

(* What a step does to the order of slots, cycles and ranges: it leaves it  *)
(* alone, it adds a cycle, it ends one, or it adds ranges.                  *)
Quiet ==
  /\ Len(trace') = Len(trace) /\ gen.m.numEmitted <= gen'.m.numEmitted
  /\ Len(gen'.code) = Len(gen.code) /\ LastGrown(gen.code, gen'.code, gen.m.numEmitted)
Prepares ==
  /\ Len(trace') = Len(trace) + 1 /\ gen.m.numEmitted <= gen'.m.numEmitted
  /\ gen'.code = Append(gen.code, <<>>) /\ UNCHANGED <<cycleEmits, ranges>>
Steps ==
  /\ Quiet /\ prepared /\ UNCHANGED ranges
  /\ cycleEmits' = Append(cycleEmits, [end |-> gen'.m.numEmitted, tag |-> Len(trace) - 1])
Keeping == Quiet /\ (prepared \/ gen'.code = gen.code) /\ UNCHANGED cycleEmits
Allocated(names, r) ==
  /\ Extended(names, r)
  /\ \A name \in names : /\ r[name].tag = Len(trace) - 1
                         /\ \A p \in Span(r[name]) : gen.m.numEmitted <= p
Moves ==
  \/ Prepares \/ Steps
  \/ Keeping /\ UNCHANGED ranges
  \/ Keeping /\ (1 \notin ShareCounts => \E names, r : Allocated(names, r))

LEMMA RangesMore ==
  ASSUME ranges \in [RangeNames -> Seq(TaggedRange)], NEW names, NEW r, Extended(names, r)
  PROVE  /\ ranges' \in [RangeNames -> Seq(TaggedRange)]
         /\ \A name \in RangeNames :
              RangeSlots(name)' = RangeSlots(name) \cup (IF name \in names THEN Span(r[name]) ELSE {})
         /\ \A name \in RangeNames : \A k \in DOMAIN ranges'[name] :
              \/ k \in DOMAIN ranges[name] /\ ranges'[name][k] = ranges[name][k]
              \/ /\ name \in names /\ k \notin DOMAIN ranges[name] /\ k = Len(ranges[name]) + 1
                 /\ ranges'[name][k] = r[name]
<1>1. ASSUME NEW name \in RangeNames
      PROVE  /\ ranges'[name] \in Seq(TaggedRange)
             /\ RangeSlots(name)' = RangeSlots(name) \cup (IF name \in names THEN Span(r[name]) ELSE {})
             /\ \A k \in DOMAIN ranges'[name] :
                  \/ k \in DOMAIN ranges[name] /\ ranges'[name][k] = ranges[name][k]
                  \/ /\ name \in names /\ k \notin DOMAIN ranges[name] /\ k = Len(ranges[name]) + 1
                     /\ ranges'[name][k] = r[name]
  <2>1. ranges[name] \in Seq(TaggedRange)
    OBVIOUS
  <2>2. CASE name \notin names
    <3>1. ranges'[name] = ranges[name]
      BY <2>2 DEF Extended
    <3>2. RangeSlots(name)' = RangeSlots(name)
      BY <3>1 DEF RangeSlots
    <3> QED BY <2>1, <2>2, <3>1, <3>2
  <2>3. CASE name \in names
    <3> DEFINE s == ranges[name]
               t == ranges'[name]
               n == Len(s)
    <3>1. t = Append(s, r[name]) /\ r[name] \in TaggedRange
      BY <2>3 DEF Extended
    <3>2. RangeSlots(name) = UNION {Span(s[k]) : k \in DOMAIN s}
      BY DEF RangeSlots, Span
    <3>3. RangeSlots(name)' = UNION {Span(t[k]) : k \in DOMAIN t}
      BY DEF RangeSlots, Span
    <3> HIDE DEF s, t, TaggedRange
    <3>4. /\ n \in Nat /\ DOMAIN s = 1 .. n /\ DOMAIN t = 1 .. n + 1 /\ t \in Seq(TaggedRange)
          /\ (\A k \in 1 .. n : t[k] = s[k]) /\ t[n + 1] = r[name]
      BY <2>1, <3>1 DEF s
    <3> HIDE DEF n
    <3>5. \A k \in 1 .. n + 1 : k \in 1 .. n \/ (k \notin 1 .. n /\ k = n + 1)
      BY <3>4
    <3>6. RangeSlots(name)' = RangeSlots(name) \cup Span(r[name])
      <4>1. n + 1 \in 1 .. n + 1 /\ 1 .. n \subseteq 1 .. n + 1
        BY <3>4
      <4> QED BY <3>2, <3>3, <3>4, <3>5, <4>1
    <3> QED BY <2>3, <3>4, <3>5, <3>6 DEF s, t, n
  <2> QED BY <2>2, <2>3
<1>2. ranges' \in [RangeNames -> Seq(TaggedRange)]
  BY <1>1 DEF Extended
<1> QED BY <1>1, <1>2

(* New ranges take the first T new slots, and statements write the others.  *)
LEMMA SourcesMore ==
  ASSUME ranges \in [RangeNames -> Seq(TaggedRange)], NEW names, NEW r, Extended(names, r),
         IsGen(gen), IsGen(gen'), SourcesRight, NEW T \in Nat,
         gen.m.numEmitted + T <= gen'.m.numEmitted,
         Written(gen'.code) = Written(gen.code) \cup (gen.m.numEmitted + T .. gen'.m.numEmitted - 1),
         UNION {Span(r[name]) : name \in names} = gen.m.numEmitted .. gen.m.numEmitted + T - 1,
         \A x, y \in names : x # y => Span(r[x]) \cap Span(r[y]) = {}
  PROVE  SourcesRight'
<1> DEFINE e == gen.m.numEmitted
           f == gen'.m.numEmitted
           old(name, k) == Span(ranges[name][k])
           new(name, k) == Span(ranges'[name][k])
<1>1. /\ DOMAIN ranges = RangeNames /\ DOMAIN ranges' = RangeNames
      /\ e \in Nat /\ f \in Nat /\ e + T <= f
  BY RangesMore, GenManager
<1>2. \A name \in RangeNames : RangeSlots(name) = UNION {old(name, k) : k \in DOMAIN ranges[name]}
  BY DEF RangeSlots, Span
<1>3. /\ \A n1, n2 \in RangeNames : \A k1 \in DOMAIN ranges[n1], k2 \in DOMAIN ranges[n2] :
           <<n1, k1>> # <<n2, k2>> => old(n1, k1) \cap old(n2, k2) = {}
      /\ \A name \in RangeNames : RangeSlots(name) \cap Written(gen.code) = {}
      /\ 0 .. e - 1 = Written(gen.code) \cup UNION {RangeSlots(name) : name \in RangeNames}
  BY <1>1 DEF SourcesRight, Span
<1>4. \A name \in RangeNames : \A k \in DOMAIN ranges[name] : old(name, k) \subseteq 0 .. e - 1
  BY <1>2, <1>3
<1>5. \A name \in names : name \in RangeNames /\ Span(r[name]) \subseteq e .. e + T - 1
  BY DEF Extended
<1>6. \A name \in RangeNames : \A k \in DOMAIN ranges'[name] :
        \/ k \in DOMAIN ranges[name] /\ new(name, k) = old(name, k)
        \/ name \in names /\ k = Len(ranges[name]) + 1 /\ new(name, k) = Span(r[name])
  BY RangesMore
<1>7. \A name \in RangeNames :
        RangeSlots(name)' = RangeSlots(name) \cup (IF name \in names THEN Span(r[name]) ELSE {})
  BY RangesMore
<1>8. (0 .. e - 1) \cap (e .. e + T - 1) = {} /\ (0 .. e + T - 1) \cap (e + T .. f - 1) = {}
      /\ 0 .. e + T - 1 = (0 .. e - 1) \cup (e .. e + T - 1)
      /\ 0 .. f - 1 = (0 .. e + T - 1) \cup (e + T .. f - 1)
  <2> HIDE DEF e, f
  <2> QED BY ONLY <1>1, T \in Nat
<1> DEFINE A == 0 .. e - 1
           B == e .. e + T - 1
           C == e + T .. f - 1
<1>9. A \cap B = {} /\ A \cap C = {} /\ B \cap C = {} /\ 0 .. f - 1 = A \cup B \cup C
  BY <1>8
<1>10. Written(gen'.code) = Written(gen.code) \cup C /\ UNION {Span(r[name]) : name \in names} = B
  OBVIOUS
<1> HIDE DEF old, new, A, B, C
<1>11. ASSUME NEW n1 \in RangeNames, NEW n2 \in RangeNames,
              NEW k1 \in DOMAIN ranges'[n1], NEW k2 \in DOMAIN ranges'[n2], <<n1, k1>> # <<n2, k2>>
       PROVE  new(n1, k1) \cap new(n2, k2) = {}
  <2>1. CASE k1 \in DOMAIN ranges[n1] /\ new(n1, k1) = old(n1, k1)
             /\ k2 \in DOMAIN ranges[n2] /\ new(n2, k2) = old(n2, k2)
    BY <1>3, <1>11, <2>1
  <2>2. CASE k1 \in DOMAIN ranges[n1] /\ new(n1, k1) = old(n1, k1)
             /\ n2 \in names /\ new(n2, k2) = Span(r[n2])
    BY <1>4, <1>5, <1>9, <2>2 DEF A, B
  <2>3. CASE k2 \in DOMAIN ranges[n2] /\ new(n2, k2) = old(n2, k2)
             /\ n1 \in names /\ new(n1, k1) = Span(r[n1])
    BY <1>4, <1>5, <1>9, <2>3 DEF A, B
  <2>4. CASE /\ n1 \in names /\ k1 = Len(ranges[n1]) + 1 /\ new(n1, k1) = Span(r[n1])
             /\ n2 \in names /\ k2 = Len(ranges[n2]) + 1 /\ new(n2, k2) = Span(r[n2])
    BY <1>11, <2>4
  <2> QED BY <1>6, <2>1, <2>2, <2>3, <2>4
<1>12. ASSUME NEW name \in RangeNames PROVE RangeSlots(name)' \cap Written(gen'.code) = {}
  <2>1. RangeSlots(name) \subseteq A /\ Written(gen.code) \subseteq A
    BY <1>3 DEF A
  <2>2. name \in names => Span(r[name]) \subseteq B
    BY <1>5 DEF B
  <2> QED BY <1>3, <1>7, <1>9, <1>10, <2>1, <2>2
<1>13. 0 .. f - 1 = Written(gen'.code) \cup UNION {RangeSlots(name)' : name \in RangeNames}
  <2>1. A = Written(gen.code) \cup UNION {RangeSlots(name) : name \in RangeNames}
    BY <1>3 DEF A
  <2>2. UNION {RangeSlots(name)' : name \in RangeNames}
          = (UNION {RangeSlots(name) : name \in RangeNames}) \cup (UNION {Span(r[name]) : name \in names})
    <3> HIDE DEF Span
    <3> QED BY <1>5, <1>7
  <2> QED BY <1>9, <1>10, <2>1, <2>2
<1>14. \A n1, n2 \in DOMAIN ranges' : \A k1 \in DOMAIN ranges'[n1], k2 \in DOMAIN ranges'[n2] :
         <<n1, k1>> # <<n2, k2>> =>
           \A p \in ranges'[n1][k1].lo .. ranges'[n1][k1].hi : p \notin ranges'[n2][k2].lo .. ranges'[n2][k2].hi
  BY <1>1, <1>11 DEF new, Span
<1> QED BY <1>1, <1>12, <1>13, <1>14 DEF SourcesRight

LEMMA InvFacts ==
  ASSUME IInv
  PROVE  /\ IsGen(gen) /\ TraceRight /\ HeldRight /\ CallsRight /\ UnmaskedLabels
         /\ IsCircuit(circuit) /\ ranges \in [RangeNames -> Seq(TaggedRange)]
         /\ gen.m.numEmitted \in Nat /\ Len(trace) \in Nat
<1>1. IsGen(gen) /\ TraceRight /\ HeldRight /\ CallsRight /\ UnmaskedLabels
  BY DEF IInv
<1>2. circuit \in Circuit /\ ranges \in [RangeNames -> Seq(TaggedRange)]
  BY <1>1 DEF CallsRight, RangeNames, TaggedRange
<1>3. gen.m.numEmitted \in Nat
  BY <1>1, GenManager
<1>4. Len(trace) \in Nat
  BY <1>1 DEF TraceRight
<1> QED BY <1>1, <1>2, <1>3, <1>4, KnownCircuit

(* What the ranges of a step without an allocation mean.                    *)
LEMMA RangesKept ==
  ASSUME IInv, UNCHANGED ranges, IsGen(gen'), gen.m.numEmitted <= gen'.m.numEmitted,
         Written(gen'.code) = Written(gen.code) \cup (gen.m.numEmitted .. gen'.m.numEmitted - 1),
         \A kind \in Kind : UnmaskedSlots(gen', kind) = UnmaskedSlots(gen, kind)
  PROVE  UnmaskedLabels' /\ (~Retries /\ 1 \notin ShareCounts => SourcesRight')
<1> DEFINE r == [name \in {} |-> 0]
<1>1. Extended({}, r)
  <2>1. ranges = [name \in RangeNames |-> ranges[name]]
    BY InvFacts
  <2> QED BY <2>1 DEF Extended
<1>2. UnmaskedLabels'
  BY InvFacts DEF UnmaskedLabels, RangeSlots
<1>3. ASSUME ~Retries, 1 \notin ShareCounts PROVE SourcesRight'
  <2>1. SourcesRight /\ IsGen(gen) /\ gen.m.numEmitted \in Nat
    BY <1>3, InvFacts DEF IInv
  <2>2. gen.m.numEmitted + 0 = gen.m.numEmitted /\ gen.m.numEmitted .. gen.m.numEmitted + 0 - 1 = {} /\ 0 \in Nat
    BY <2>1
  <2>3. UNION {Span(r[name]) : name \in {}} = {}
    OBVIOUS
  <2>4. ranges \in [RangeNames -> Seq(TaggedRange)]
    BY InvFacts
  <2> HIDE DEF r
  <2> QED BY <1>1, <2>1, <2>2, <2>3, <2>4, SourcesMore
<1> QED BY <1>2, <1>3

(* The calls that do not change what CallsRight says.                       *)
LEMMA CallsKept ==
  ASSUME CallsRight, prepared, UNCHANGED <<circuit, prepared, cycleEmits, ranges, phase>>,
         Len(trace') = Len(trace), Len(gen'.code) = Len(gen.code)
  PROVE  CallsRight'
  BY DEF CallsRight

LEMMA PrepareCycleRight ==
  ASSUME IInv, PrepareCycle PROVE IInv' /\ Moves
<1> DEFINE val == Last(ideal.trace)
           done == Latched
           n == Len(trace)
<1>1. /\ IsGen(gen) /\ TraceRight /\ HeldRight /\ CallsRight /\ IsCircuit(circuit) /\ n \in Nat
      /\ gen.m.numEmitted \in Nat
  BY InvFacts
<1>2. /\ phase = "simulate" /\ ~prepared /\ prepared' = TRUE
      /\ gen' = [done.g EXCEPT !.code = Append(@, <<>>)] /\ trace' = Append(trace, done.curr)
      /\ ideal' = [ideal EXCEPT !.trace = Append(ideal.trace, IdealPrepare(val))]
      /\ UNCHANGED <<circuit, shares, masks, ranges, cycleEmits, phase>>
  BY DEF PrepareCycle
<1>3. RightCycle(gen, Last(trace), val) /\ Evaluated(circuit, val)
  <2>1. n \in DOMAIN trace /\ n \in 1 .. n - 0 /\ Len(ideal.trace) = n
    BY <1>1, <1>2 DEF TraceRight
  <2> QED BY <1>1, <1>2, <2>1 DEF TraceRight, Last
<1> HIDE DEF val, done
<1>4. /\ Continues(gen, done.g) /\ done.g.code = gen.code
      /\ RightCycle(done.g, done.curr, IdealPrepare(val))
      /\ DOMAIN done.curr = Before(circuit, 1)
  BY <1>1, <1>3, LatchedFacts DEF done
<1>5. IsGen(done.g)
  BY <1>4 DEF Continues, Keeps
<1>6. /\ Keeps(done.g, gen') /\ gen'.m = done.g.m /\ Len(gen'.code) = Len(gen.code) + 1
      /\ Written(gen'.code) = Written(gen.code)
      /\ \A kind \in Kind : UnmaskedSlots(gen', kind) = UnmaskedSlots(done.g, kind)
  <2>1. gen' = WithFunction(done.g)
    BY <1>2 DEF WithFunction
  <2> QED BY <1>4, <1>5, <2>1, FunctionAdded
<1>7. Keeps(gen, gen') /\ IsGen(gen')
  BY <1>1, <1>4, <1>6, KeepsTwice DEF Continues, Keeps
<1>8. RightCycle(gen', done.curr, IdealPrepare(val))
  BY <1>4, <1>5, <1>6, CycleKept
<1>9. /\ DOMAIN ideal' = DOMAIN ideal /\ ideal'.shares = ideal.shares /\ ideal'.masks = ideal.masks
      /\ ideal'.trace = Append(ideal.trace, IdealPrepare(val))
  BY <1>1, <1>2 DEF HeldRight
<1>10. TraceRight' /\ Len(trace') = n + 1
  BY <1>1, <1>2, <1>4, <1>7, <1>8, <1>9, TraceAppended
<1>11. HeldRight'
  BY <1>1, <1>2, <1>7, <1>9, HeldKept
<1>12. /\ gen.m.numEmitted <= gen'.m.numEmitted
       /\ Written(gen'.code) = Written(gen.code) \cup (gen.m.numEmitted .. gen'.m.numEmitted - 1)
       /\ \A kind \in Kind : UnmaskedSlots(gen', kind) = UnmaskedSlots(gen, kind)
  BY <1>4, <1>6, <1>7 DEF Continues, Keeps, Later
<1>13. UnmaskedLabels' /\ (~Retries /\ 1 \notin ShareCounts => SourcesRight')
  BY <1>2, <1>7, <1>12, RangesKept
<1>14. CallsRight'
  <2>1. Len(gen'.code) = Len(trace') - 1 /\ Len(cycleEmits') = Len(trace') - 2
    BY <1>1, <1>2, <1>6, <1>10 DEF CallsRight
  <2> QED BY <1>1, <1>2, <2>1 DEF CallsRight
<1>15. Prepares
  BY <1>2, <1>4, <1>10, <1>12 DEF Prepares
<1> QED BY <1>7, <1>10, <1>11, <1>13, <1>14, <1>15 DEF IInv, Moves

(* An assignment in the prepared cycle.                                     *)
LEMMA AssignRight ==
  ASSUME IInv, NEW port \in circuit.in, NEW x, NEW f, Assign(port, x, f),
         Continues(gen, gen'), Right(gen', x, f)
  PROVE  IInv' /\ Moves
<1> DEFINE n == Len(trace)
           tr == [trace[n] EXCEPT ![port] = x]
           val == [ideal.trace[n] EXCEPT ![port] = f]
<1>1. /\ IsGen(gen) /\ TraceRight /\ HeldRight /\ CallsRight /\ n \in Nat /\ gen.m.numEmitted \in Nat
  BY InvFacts
<1>2. /\ prepared /\ trace' = [trace EXCEPT ![n] = tr]
      /\ ideal' = [ideal EXCEPT !.trace = [ideal.trace EXCEPT ![n] = val]]
      /\ UNCHANGED <<circuit, prepared, shares, masks, ranges, cycleEmits, phase>>
  BY DEF Assign
<1>3. Keeps(gen, gen') /\ IsGen(gen')
  BY DEF Continues, Keeps
<1>4. RightCycle(gen, trace[n], ideal.trace[n]) /\ DOMAIN trace[n] = Before(circuit, 1)
  BY <1>1, <1>2 DEF TraceRight
<1>5. port \in DOMAIN trace[n]
  BY <1>4 DEF Before
<1>6. RightCycle(gen', tr, val) /\ DOMAIN tr = Before(circuit, 1)
  <2>1. RightCycle(gen', trace[n], ideal.trace[n])
    BY <1>1, <1>3, <1>4, CycleKept
  <2> QED BY <1>4, <1>5, <2>1 DEF RightCycle
<1>7. /\ DOMAIN ideal' = DOMAIN ideal /\ ideal'.shares = ideal.shares /\ ideal'.masks = ideal.masks
      /\ ideal'.trace = [ideal.trace EXCEPT ![n] = val]
  BY <1>1, <1>2 DEF HeldRight
<1> HIDE DEF tr, val
<1>8. TraceRight' /\ Len(trace') = n
  BY <1>1, <1>2, <1>3, <1>6, <1>7, TraceReplaced
<1>9. HeldRight'
  BY <1>1, <1>2, <1>3, <1>7, HeldKept
<1>10. UnmaskedLabels' /\ (~Retries /\ 1 \notin ShareCounts => SourcesRight')
  BY <1>2, <1>3, RangesKept DEF Continues, Keeps, Later
<1>11. CallsRight'
  BY <1>1, <1>2, <1>8, CallsKept DEF Continues
<1>12. Keeping /\ UNCHANGED ranges
  BY <1>2, <1>3, <1>8 DEF Keeping, Quiet, Continues, Keeps, Later
<1> QED BY <1>3, <1>8, <1>9, <1>10, <1>11, <1>12 DEF IInv, Moves

LEMMA AssignConstRight ==
  ASSUME IInv, NEW port \in circuit.in, NEW bit \in BOOLEAN, AssignConst(port, bit)
  PROVE  IInv' /\ Moves
<1> DEFINE x == ConstSymbol(bit)
           f == IF bit THEN Assignment ELSE {}
<1>1. IsGen(gen) /\ gen' = gen /\ Assign(port, x, f)
  BY InvFacts DEF AssignConst
<1>2. Right(gen', x, f) /\ Continues(gen, gen')
  BY <1>1, ConstRight, ContinuesSame
<1> HIDE DEF x, f
<1> QED BY <1>1, <1>2, AssignRight

LEMMA AssignHeldRight ==
  ASSUME IInv, NEW port \in circuit.in, NEW h \in Held, AssignHeld(port, h)
  PROVE  IInv' /\ Moves
<1>1. IsGen(gen) /\ HeldRight /\ gen' = gen /\ Assign(port, SymbolAt(h), IdealAt(h))
  BY InvFacts DEF AssignHeld
<1>2. Right(gen', SymbolAt(h), IdealAt(h)) /\ Continues(gen, gen')
  BY <1>1, HeldSymbol, ContinuesSame
<1> QED BY <1>1, <1>2, AssignRight

LEMMA AssignXorRight ==
  ASSUME IInv, NEW port \in circuit.in, NEW h \in Held, NEW i \in Held, AssignXor(port, h, i)
  PROVE  IInv' /\ Moves
<1> DEFINE m == gen.m
           a == SymbolAt(h).var
           b == SymbolAt(i).var
           f == Xor(IdealAt(h), IdealAt(i))
           res == MakeXor(m, a, b)
           y == Made(res)
<1>1. IsGen(gen) /\ gen' = Grow(gen, y.m) /\ Assign(port, y.sym, f)
  BY InvFacts DEF AssignXor
<1>2. Right(gen, SymbolAt(h), IdealAt(h)) /\ Right(gen, SymbolAt(i), IdealAt(i))
  BY InvFacts, HeldSymbol
<1>3. /\ Sound(m) /\ Disciplined(m) /\ a \in Known(m) /\ b \in Known(m)
      /\ Truth(m, a) = IdealAt(h) /\ Truth(m, b) = IdealAt(i)
  BY <1>1, <1>2, GenManager, SymbolKnown DEF Right
<1>4. Computes(m, res, f) /\ Disciplined(res.m)
  BY <1>3, XorComputes, XorDisciplined
<1>5. y.m = res.m /\ y.sym = SymbolOf(res.m, res.v)
  BY DEF Made
<1> HIDE DEF m, a, b, f, res, y
<1>6. /\ Grown(m, y.m) /\ Disciplined(y.m) /\ res.v \in Known(y.m) /\ Truth(y.m, res.v) = f
  BY <1>4, <1>5 DEF Computes
<1>7. Continues(gen, gen') /\ gen'.m = y.m /\ IsGen(gen')
  BY <1>1, <1>6, GrowContinues DEF m, Continues, Keeps
<1>8. Right(gen', y.sym, f)
  BY <1>5, <1>6, <1>7, FreshRight
<1> QED BY <1>1, <1>7, <1>8, AssignRight

LEMMA StepCycleRight ==
  ASSUME IInv, StepCycle PROVE IInv' /\ Moves
<1> DEFINE n == Len(trace)
           val == ideal.trace[n]
           end == FoldLeft(IdealGate, val, circuit.gate)
           done == Stepped
<1>1. /\ IsGen(gen) /\ TraceRight /\ HeldRight /\ CallsRight /\ IsCircuit(circuit) /\ n \in Nat
      /\ gen.m.numEmitted \in Nat
  BY InvFacts
<1>2. /\ phase = "simulate" /\ prepared /\ prepared' = FALSE
      /\ gen' = done.g /\ trace' = [trace EXCEPT ![n] = done.curr]
      /\ ideal' = [ideal EXCEPT !.trace = [ideal.trace EXCEPT ![n] = end]]
      /\ cycleEmits' = Append(cycleEmits, [end |-> done.g.m.numEmitted, tag |-> n - 1])
      /\ UNCHANGED <<circuit, shares, masks, ranges, phase>>
  BY DEF StepCycle
<1>3. /\ n >= 2 /\ RightCycle(gen, Last(trace), val) /\ DOMAIN val = Before(circuit, 1)
      /\ RightCycle(gen, trace[n - 1], ideal.trace[n - 1]) /\ Evaluated(circuit, ideal.trace[n - 1])
  <2>1. n \in DOMAIN trace /\ n - 1 \in DOMAIN trace /\ n - 1 \in 1 .. n - 1 /\ n >= 2
    BY <1>1, <1>2 DEF TraceRight
  <2>2. RightCycle(gen, trace[n], val) /\ DOMAIN trace[n] = Before(circuit, 1)
    BY <1>1, <1>2, <2>1 DEF TraceRight
  <2> QED BY <1>1, <1>2, <2>1, <2>2 DEF TraceRight, RightCycle, Last
<1>4. gen.code # <<>>
  <2>1. Len(gen.code) = n - 1
    BY <1>1 DEF CallsRight
  <2>2. gen.code = <<>> => Len(gen.code) = 0
    OBVIOUS
  <2> QED BY <1>1, <1>3, <2>1, <2>2
<1> HIDE DEF val, end, done
<1>5. Continues(gen, gen') /\ RightCycle(gen', done.curr, end) /\ Evaluated(circuit, end)
  BY <1>1, <1>2, <1>3, <1>4, SteppedFacts DEF end, done
<1>6. Keeps(gen, gen') /\ IsGen(gen')
  BY <1>5 DEF Continues, Keeps
<1>7. /\ DOMAIN ideal' = DOMAIN ideal /\ ideal'.shares = ideal.shares /\ ideal'.masks = ideal.masks
      /\ ideal'.trace = [ideal.trace EXCEPT ![n] = end]
  BY <1>1, <1>2 DEF HeldRight
<1>8. TraceRight' /\ Len(trace') = n
  BY <1>1, <1>2, <1>5, <1>6, <1>7, TraceReplaced
<1>9. HeldRight'
  BY <1>1, <1>2, <1>6, <1>7, HeldKept
<1>10. UnmaskedLabels' /\ (~Retries /\ 1 \notin ShareCounts => SourcesRight')
  BY <1>2, <1>5, <1>6, RangesKept DEF Continues, Keeps, Later
<1>11. CallsRight'
  <2> DEFINE emit == [end |-> gen'.m.numEmitted, tag |-> n - 1]
             s == cycleEmits
             t == cycleEmits'
  <2>1. s \in Seq([end : Nat, tag : Nat]) /\ Len(s) = n - 2
    BY <1>1, <1>2 DEF CallsRight
  <2>2. gen'.m.numEmitted \in Nat /\ n - 1 \in Nat
    BY <1>3, <1>6, GenManager
  <2>3. emit \in [end : Nat, tag : Nat] /\ t = Append(s, emit)
    BY <1>2, <2>2
  <2>4. emit.end = gen'.m.numEmitted
    OBVIOUS
  <2> HIDE DEF emit, s, t
  <2>5. t \in Seq([end : Nat, tag : Nat]) /\ Len(t) = Len(s) + 1 /\ t[Len(s) + 1] = emit
    BY <2>1, <2>3
  <2>6. Len(t) = n - 1 /\ Last(t) = emit
    BY <1>1, <2>1, <2>5 DEF Last
  <2>7. RunLength' = gen'.m.numEmitted
    BY <2>4, <2>6 DEF RunLength, t
  <2>8. Len(gen'.code) = Len(trace') - 1
    BY <1>1, <1>5, <1>8 DEF CallsRight, Continues
  <2> QED BY <1>1, <1>2, <1>8, <2>5, <2>6, <2>7, <2>8 DEF CallsRight, t
<1>12. Steps
  BY <1>2, <1>5, <1>6, <1>8 DEF Steps, Quiet, Continues, Keeps, Later
<1> QED BY <1>6, <1>8, <1>9, <1>10, <1>11, <1>12 DEF IInv, Moves

LEMMA NothingMoves ==
  ASSUME IInv, UNCHANGED <<gen, trace, ranges, cycleEmits>> PROVE Moves
<1>1. gen.m.numEmitted <= gen.m.numEmitted
  BY InvFacts
<1> QED BY <1>1, LastGrownSame DEF Moves, Keeping, Quiet

LEMMA EmitEpilogueRight ==
  ASSUME IInv, EmitEpilogue PROVE IInv' /\ Moves
<1>1. /\ ~prepared /\ cycleEmits # <<>>
      /\ UNCHANGED <<circuit, gen, trace, prepared, shares, masks, ranges, cycleEmits, ideal>>
  BY DEF EmitEpilogue
<1>2. TraceRight' /\ HeldRight' /\ UnmaskedLabels'
  <2>1. TraceRight'
    BY <1>1, InvFacts DEF TraceRight
  <2>2. HeldRight'
    BY <1>1, InvFacts DEF HeldRight
  <2>3. UnmaskedLabels'
    BY <1>1, InvFacts DEF UnmaskedLabels, RangeSlots
  <2> QED BY <2>1, <2>2, <2>3
<1>3. CallsRight'
  BY <1>1, InvFacts DEF CallsRight, RunLength
<1>4. SourcesRight => SourcesRight'
  BY <1>1 DEF SourcesRight, RangeSlots
<1>5. Moves
  BY <1>1, NothingMoves
<1> QED BY <1>1, <1>2, <1>3, <1>4, <1>5 DEF IInv

LEMMA StutterRight ==
  ASSUME IInv, UNCHANGED simVars PROVE IInv' /\ Moves
<1>1. UNCHANGED <<circuit, gen, trace, prepared, shares, masks, ranges, cycleEmits, phase, ideal>>
  BY DEF simVars
<1>2. TraceRight' /\ HeldRight' /\ UnmaskedLabels'
  <2>1. TraceRight'
    BY <1>1, InvFacts DEF TraceRight
  <2>2. HeldRight'
    BY <1>1, InvFacts DEF HeldRight
  <2>3. UnmaskedLabels'
    BY <1>1, InvFacts DEF UnmaskedLabels, RangeSlots
  <2> QED BY <2>1, <2>2, <2>3
<1>3. CallsRight'
  BY <1>1, InvFacts DEF CallsRight, RunLength
<1>4. SourcesRight => SourcesRight'
  BY <1>1 DEF SourcesRight, RangeSlots
<1>5. Moves
  BY <1>1, NothingMoves
<1> QED BY <1>1, <1>2, <1>3, <1>4, <1>5 DEF IInv

-----------------------------------------------------------------------------
(* The allocations.                                                         *)

LEMMA CallsAllocated ==
  ASSUME CallsRight, phase = "simulate", MasksMayCome,
         UNCHANGED <<circuit, trace, prepared, cycleEmits, phase>>,
         Len(gen'.code) = Len(gen.code), ranges' \in [RangeNames -> Seq(TaggedRange)]
  PROVE  CallsRight'
<1>1. /\ circuit' \in Circuit /\ prepared' \in BOOLEAN /\ Len(gen'.code) = Len(trace') - 1
      /\ cycleEmits' \in Seq([end : Nat, tag : Nat])
      /\ Len(cycleEmits') = Len(trace') - (IF prepared' THEN 2 ELSE 1)
      /\ ranges' \in [Kind \cup {"mask"} -> Seq([lo : Nat, hi : Nat, tag : Nat])]
      /\ phase' # "generated"
  BY DEF CallsRight, RangeNames, TaggedRange
<1>2. ~LateMasks /\ ~prepared => cycleEmits' = <<>>
  <2>1. SUFFICES ASSUME ~LateMasks, ~prepared PROVE cycleEmits = <<>>
    OBVIOUS
  <2>2. cycleEmits \in Seq([end : Nat, tag : Nat]) /\ Len(cycleEmits) = 0
    BY <2>1 DEF CallsRight, MasksMayCome
  <2> QED BY <2>2
<1> QED BY <1>1, <1>2 DEF CallsRight

(* The range of masks lo .. hi.                                             *)
LEMMA MasksCreated ==
  ASSUME IInv, NEW lo \in Nat, NEW hi \in Nat, lo <= hi, CreateMasks(lo, hi),
         UNCHANGED <<circuit, trace, prepared, shares>>
  PROVE  /\ Keeps(gen, gen') /\ IsGen(gen') /\ gen'.code = gen.code
         /\ gen'.m.numEmitted = gen.m.numEmitted + (hi - lo + 1)
         /\ \A kind \in Kind : UnmaskedSlots(gen', kind) = UnmaskedSlots(gen, kind)
         /\ masks'[lo].pos = gen.m.numEmitted /\ masks'[hi].pos = gen.m.numEmitted + (hi - lo)
         /\ TraceRight' /\ HeldRight'
<1> DEFINE d == hi - lo + 1
           infos == [k \in 1 .. d |-> <<"mask", lo + k - 1, "mask">>]
           new == [i \in lo .. hi |-> InputSymbol(gen, i - lo + 1)]
           fun == [i \in lo .. hi |-> InputFunction(gen.inputs + i - lo)]
<1>1. /\ IsGen(gen) /\ TraceRight /\ HeldRight /\ gen.m.numEmitted \in Nat /\ gen.m.numVars \in Nat
      /\ gen.inputs \in Nat
  BY InvFacts, GenManager
<1>2. /\ gen' = NewInputs(gen, infos) /\ masks' = Joined(new, masks)
      /\ ideal' = [ideal EXCEPT !.masks = Joined(fun, ideal.masks)]
  BY DEF CreateMasks
<1>3. /\ DOMAIN infos = 1 .. d
      /\ \A k \in 1 .. d : infos[k] # NoLabel /\ infos[k][1] = "mask"
  BY PlainLabels
<1>4. d \in Nat /\ \A i \in lo .. hi : i - lo + 1 \in 1 .. d
  OBVIOUS
<1> HIDE DEF infos
<1>5. WithInputs(gen, infos, d, gen')
  BY <1>1, <1>2, <1>3, <1>4, NewInputsFacts
<1>6. \A kind \in Kind : NewUnmasked(gen, infos, d, kind) = {}
  BY <1>3 DEF NewUnmasked, Kind
<1> HIDE DEF d
<1>7. /\ Keeps(gen, gen') /\ IsGen(gen') /\ gen'.code = gen.code
      /\ gen'.m.numEmitted = gen.m.numEmitted + d
      /\ \A kind \in Kind : UnmaskedSlots(gen', kind) = UnmaskedSlots(gen, kind)
  BY <1>5, <1>6 DEF WithInputs, Keeps
<1>8. \A i \in lo .. hi : Right(gen', new[i], fun[i])
  <2>1. SUFFICES ASSUME NEW i \in lo .. hi PROVE Right(gen', new[i], fun[i])
    OBVIOUS
  <2> DEFINE k == i - lo + 1
  <2>2. k \in 1 .. d /\ gen.inputs + k - 1 = gen.inputs + i - lo
    BY <1>1, <1>4
  <2> HIDE DEF k
  <2>3. Right(gen', InputSymbol(gen, k), InputFunction(gen.inputs + k - 1))
    BY <1>5, <2>2 DEF WithInputs
  <2> QED BY <2>2, <2>3 DEF k
<1>9. masks'[lo].pos = gen.m.numEmitted /\ masks'[hi].pos = gen.m.numEmitted + (hi - lo)
  <2>1. lo \in lo .. hi /\ hi \in lo .. hi
    OBVIOUS
  <2>2. masks'[lo] = InputSymbol(gen, lo - lo + 1) /\ masks'[hi] = InputSymbol(gen, hi - lo + 1)
    BY <1>2, <2>1 DEF Joined
  <2> QED BY <1>1, <2>2 DEF InputSymbol
<1>10. /\ DOMAIN ideal' = DOMAIN ideal /\ ideal'.shares = ideal.shares /\ ideal'.trace = ideal.trace
       /\ ideal'.masks = Joined(fun, ideal.masks)
  BY <1>1, <1>2 DEF HeldRight
<1>11. TraceRight'
  BY <1>1, <1>7, <1>10, TraceKept
<1>12. DOMAIN masks' = DOMAIN ideal'.masks /\ \A i \in DOMAIN masks' : Right(gen', masks'[i], ideal'.masks[i])
  <2>1. DOMAIN new = lo .. hi /\ DOMAIN fun = lo .. hi /\ DOMAIN masks = DOMAIN ideal.masks
    BY <1>1 DEF HeldRight
  <2>2. \A i \in DOMAIN masks : Right(gen', masks[i], ideal.masks[i])
    BY <1>1, <1>7, KeepsRight DEF HeldRight
  <2> HIDE DEF new, fun
  <2> QED BY <1>2, <1>8, <1>10, <2>1, <2>2 DEF Joined
<1>13. \A kind \in Kind : \A i \in DOMAIN shares[kind] : \A k \in DOMAIN shares[kind][i] :
         Right(gen', shares[kind][i][k], ideal.shares[kind][i][k])
  BY <1>1, <1>7, KeepsRight DEF HeldRight
<1>14. HeldRight'
  BY <1>1, <1>10, <1>12, <1>13 DEF HeldRight
<1> QED BY <1>7, <1>9, <1>11, <1>14 DEF d

LEMMA AllocateMasksRight ==
  ASSUME IInv, NEW lo \in Nat, NEW hi \in Nat, lo <= hi, AllocateMasks(lo, hi)
  PROVE  IInv' /\ Moves
<1> DEFINE e == gen.m.numEmitted
           T == hi - lo + 1
           rec == Tagged(masks'[lo].pos, masks'[hi].pos)
           r == [name \in {"mask"} |-> rec]
<1>1. /\ CallsRight /\ UnmaskedLabels /\ IsGen(gen) /\ e \in Nat /\ Len(trace) \in Nat
      /\ ranges \in [RangeNames -> Seq(TaggedRange)]
  BY InvFacts
<1>2. /\ phase = "simulate" /\ MasksMayCome /\ CreateMasks(lo, hi)
      /\ ranges' = [ranges EXCEPT !["mask"] = Append(ranges["mask"], rec)]
      /\ UNCHANGED <<circuit, trace, prepared, shares, cycleEmits, phase>>
  BY DEF AllocateMasks
<1>3. /\ Keeps(gen, gen') /\ IsGen(gen') /\ gen'.code = gen.code /\ gen'.m.numEmitted = e + T
      /\ \A kind \in Kind : UnmaskedSlots(gen', kind) = UnmaskedSlots(gen, kind)
      /\ masks'[lo].pos = e /\ masks'[hi].pos = e + (hi - lo)
      /\ TraceRight' /\ HeldRight'
  BY <1>2, MasksCreated
<1>4. T \in Nat /\ hi - lo \in Nat /\ e + (hi - lo) = e + T - 1
  BY <1>1
<1>5. rec \in TaggedRange /\ Span(rec) = e .. e + T - 1
  <2>1. Len(trace) >= 1
    BY <1>1, InvFacts DEF TraceRight
  <2> QED BY <1>1, <1>2, <1>3, <1>4, <2>1 DEF Tagged, TaggedRange, Span
<1> HIDE DEF rec, T
<1>6. r["mask"] = rec /\ "mask" \in RangeNames /\ "mask" \notin Kind
  BY DEF RangeNames, Kind
<1> HIDE DEF r
<1>7. Extended({"mask"}, r)
  <2>1. ranges' = [name \in RangeNames |-> IF name \in {"mask"} THEN Append(ranges[name], r[name]) ELSE ranges[name]]
    BY <1>1, <1>2, <1>6
  <2> QED BY <1>5, <1>6, <2>1 DEF Extended
<1>8. /\ ranges' \in [RangeNames -> Seq(TaggedRange)]
      /\ \A kind \in Kind : RangeSlots(kind)' = RangeSlots(kind)
  <2>1. \A kind \in Kind : kind \in RangeNames /\ kind \notin {"mask"}
    BY <1>6 DEF RangeNames
  <2>2. /\ ranges' \in [RangeNames -> Seq(TaggedRange)]
        /\ \A name \in RangeNames :
             RangeSlots(name)' = RangeSlots(name) \cup (IF name \in {"mask"} THEN Span(r[name]) ELSE {})
    BY <1>1, <1>7, RangesMore
  <2> QED BY <2>1, <2>2
<1>9. UnmaskedLabels'
  BY <1>1, <1>3, <1>8 DEF UnmaskedLabels
<1>10. CallsRight'
  BY <1>1, <1>2, <1>3, <1>8, CallsAllocated
<1>11. ASSUME ~Retries, 1 \notin ShareCounts PROVE SourcesRight'
  <2>1. SourcesRight
    BY <1>11 DEF IInv
  <2>2. /\ e + T <= gen'.m.numEmitted /\ e + T .. gen'.m.numEmitted - 1 = {}
        /\ Written(gen'.code) = Written(gen.code) \cup (e + T .. gen'.m.numEmitted - 1)
    <3> DEFINE f == gen'.m.numEmitted
    <3>1. f = e + T /\ Written(gen'.code) = Written(gen.code)
      BY <1>3
    <3> HIDE DEF e, f
    <3>2. e + T <= f /\ e + T .. f - 1 = {}
      BY ONLY <1>1, <1>4, <3>1
    <3>3. Written(gen'.code) = Written(gen.code) \cup (e + T .. f - 1)
      BY ONLY <3>1, <3>2
    <3> QED BY <3>2, <3>3 DEF e, f
  <2>3. UNION {Span(r[name]) : name \in {"mask"}} = e .. e + T - 1
    BY <1>5, <1>6
  <2>4. \A x, y \in {"mask"} : x # y => Span(r[x]) \cap Span(r[y]) = {}
    OBVIOUS
  <2>5. IsGen(gen') /\ T \in Nat
    BY <1>3, <1>4
  <2> QED BY ONLY <1>1, <1>7, <2>1, <2>2, <2>3, <2>4, <2>5, SourcesMore
<1>12. Moves
  <2>1. Keeping
    <3>1. LastGrown(gen.code, gen'.code, gen.m.numEmitted)
      BY <1>3, LastGrownSame
    <3>2. gen.m.numEmitted <= gen'.m.numEmitted
      BY <1>3 DEF Keeps, Later
    <3> QED BY <1>2, <1>3, <3>1, <3>2 DEF Keeping, Quiet
  <2>2. rec.tag = Len(trace) - 1
    BY DEF rec, Tagged
  <2>3. \A p \in e .. e + T - 1 : e <= p
    BY <1>1, <1>4
  <2>4. Allocated({"mask"}, r)
    BY <1>5, <1>6, <1>7, <2>2, <2>3 DEF Allocated
  <2> QED BY <2>1, <2>4 DEF Moves
<1> QED BY <1>3, <1>9, <1>10, <1>11, <1>12 DEF IInv

LEMMA RedefineMasksRight ==
  ASSUME IInv, NEW lo \in Nat, NEW hi \in Nat, RedefineMasks(lo, hi)
  PROVE  IInv' /\ Moves
<1>1. PICK i \in lo + 1 .. hi : CreateMasks(lo, i - 1)
  BY DEF RedefineMasks
<1>2. /\ phase = "simulate" /\ MasksMayCome /\ Retries
      /\ UNCHANGED <<circuit, trace, prepared, shares, ranges, cycleEmits, phase>>
  BY DEF RedefineMasks
<1>3. i - 1 \in Nat /\ lo <= i - 1
  OBVIOUS
<1>4. /\ Keeps(gen, gen') /\ IsGen(gen') /\ gen'.code = gen.code
      /\ \A kind \in Kind : UnmaskedSlots(gen', kind) = UnmaskedSlots(gen, kind)
      /\ TraceRight' /\ HeldRight'
  BY <1>1, <1>2, <1>3, MasksCreated
<1>5. UnmaskedLabels'
  BY <1>2, <1>4, InvFacts DEF UnmaskedLabels, RangeSlots
<1>6. CallsRight'
  <2>1. CallsRight /\ ranges' \in [RangeNames -> Seq(TaggedRange)]
    BY <1>2, InvFacts
  <2> QED BY <1>2, <1>4, <2>1, CallsAllocated
<1>7. Keeping
  BY <1>2, <1>4, LastGrownSame DEF Keeping, Quiet, Keeps, Later
<1> QED BY <1>2, <1>4, <1>5, <1>6, <1>7 DEF IInv, Moves

LEMMA AllocateSharedRight ==
  ASSUME IInv, NEW kind \in Kind, NEW lo \in Nat, NEW hi \in Nat, lo <= hi, NEW n \in ShareCounts,
         AllocateShared(kind, lo, hi, n)
  PROVE  IInv' /\ Moves
<1> DEFINE e == gen.m.numEmitted
           d == hi - lo + 1
           T == n * (hi - lo + 1)
           new == ShareInputs(lo, hi, n)
           done == Shared(kind, lo, hi, n)
           fun == IdealShares(lo, hi, n)
           first == Tagged(new[lo][1].pos, new[hi][1].pos)
           rest(start) == Tagged(start, new[hi][n].pos)
           r(start) == [name \in {kind, "mask"} |-> IF name = "mask" THEN rest(start) ELSE first]
<1>1. /\ CallsRight /\ UnmaskedLabels /\ HeldRight /\ TraceRight /\ IsGen(gen) /\ e \in Nat /\ Len(trace) \in Nat
      /\ ranges \in [RangeNames -> Seq(TaggedRange)]
  BY InvFacts
<1>2. n \in Nat \ {0}
  BY SimulatorAssumption DEF AllocateShared
<1>3. /\ phase = "simulate" /\ prepared
      /\ gen' = done.g
      /\ shares' = [shares EXCEPT ![kind] = Joined(done.sh, shares[kind])]
      /\ ideal' = [ideal EXCEPT !.shares = [ideal.shares EXCEPT ![kind] = Joined(fun, ideal.shares[kind])]]
      /\ UNCHANGED <<circuit, trace, prepared, masks, cycleEmits, phase>>
  BY DEF AllocateShared
<1>4. PICK start \in FirstMask(new, lo, n) :
        ranges' = [ranges EXCEPT ![kind] = Append(ranges[kind], first), !["mask"] = Append(ranges["mask"], rest(start))]
  BY DEF AllocateShared
<1>5. kind \in RangeNames /\ "mask" \in RangeNames /\ kind # "mask" /\ \A kd \in Kind : kd # "mask"
  BY DEF RangeNames, Kind
<1>6. Len(trace) >= 2 /\ Len(trace) - 1 \in Nat
  BY <1>1, <1>3 DEF TraceRight
<1>7. T \in Nat /\ d \in Nat /\ hi - lo \in Nat /\ d >= 1 /\ d <= T /\ d = (hi - lo) + 1
  BY <1>2, ShareIndexFacts
(* The positions of the new inputs.                                         *)
<1>8. /\ new[lo][1].pos = e /\ new[hi][1].pos = e + (hi - lo) /\ new[hi][n].pos = e + T - 1
      /\ start \in Nat /\ (n # 1 => start = e + d)
  <2>1. \A i \in lo .. hi, k \in 1 .. n : new[i][k].pos = e + (ShareIndex(lo, hi, i, k) + 1) - 1
    BY DEF ShareInputs, InputSymbol
  <2>2. lo \in lo .. hi /\ hi \in lo .. hi /\ 1 \in 1 .. n /\ n \in 1 .. n
    BY <1>2
  <2>3. /\ ShareIndex(lo, hi, lo, 1) = lo - lo /\ ShareIndex(lo, hi, hi, 1) = hi - lo
        /\ ShareIndex(lo, hi, hi, n) = T - 1 /\ (n > 1 => ShareIndex(lo, hi, lo, 2) = d)
    BY <1>2, <2>2, ShareIndexFacts
  <2> HIDE DEF new, T, d, e
  <2>4. new[lo][1].pos = e /\ new[hi][1].pos = e + (hi - lo) /\ new[hi][n].pos = e + T - 1
    BY <1>1, <1>7, <2>1, <2>2, <2>3
  <2>5. ASSUME n = 1 PROVE start \in Nat
    BY <1>1, <1>4, <2>5 DEF FirstMask, e
  <2>6. ASSUME n # 1 PROVE start = e + d
    <3>1. start = new[lo][2].pos /\ n > 1 /\ 2 \in 1 .. n
      BY <1>2, <1>4, <2>6 DEF FirstMask
    <3>2. new[lo][2].pos = e + (ShareIndex(lo, hi, lo, 2) + 1) - 1
      BY <2>1, <2>2, <3>1
    <3>3. e + (d + 1) - 1 = e + d
      BY <1>1, <1>7
    <3> QED BY <2>3, <3>1, <3>2, <3>3
  <2>7. start \in Nat
    BY <1>1, <1>7, <2>5, <2>6
  <2> QED BY <2>4, <2>6, <2>7
<1>9. gen.code # <<>>
  <2>1. Len(gen.code) >= 1
    BY <1>1, <1>6 DEF CallsRight
  <2> QED BY <2>1
<1> HIDE DEF new, done
<1>10. SharesRight(kind, lo, hi, n, done)
  BY <1>1, <1>2, <1>9, SharedFacts DEF done
<1> HIDE DEF T, d, e, fun
<1>11. /\ Keeps(gen, gen') /\ IsGen(gen') /\ Len(gen'.code) = Len(gen.code)
       /\ e + T <= gen'.m.numEmitted
       /\ Written(gen'.code) = Written(gen.code) \cup (e + T .. gen'.m.numEmitted - 1)
       /\ DOMAIN done.sh = lo .. hi
       /\ \A i \in lo .. hi : \A k \in DOMAIN done.sh[i] : Right(gen', done.sh[i][k], fun[i][k])
       /\ \A kd \in Kind : UnmaskedSlots(gen', kd) =
            UnmaskedSlots(gen, kd) \cup (IF kd = kind THEN e .. e + (hi - lo) ELSE {})
  BY <1>3, <1>10 DEF SharesRight, Keeps, T, d, e, fun
<1>12. /\ first \in TaggedRange /\ rest(start) \in TaggedRange
       /\ Span(first) = e .. e + (hi - lo)
       /\ (n # 1 => Span(rest(start)) = e + d .. e + T - 1)
  BY <1>1, <1>6, <1>7, <1>8 DEF Tagged, TaggedRange, Span
<1> HIDE DEF first, rest
<1>13. r(start)[kind] = first /\ r(start)["mask"] = rest(start)
  BY <1>5
<1> HIDE DEF r
<1>14. Extended({kind, "mask"}, r(start))
  <2>1. ranges' = [name \in RangeNames |->
                     IF name \in {kind, "mask"} THEN Append(ranges[name], r(start)[name]) ELSE ranges[name]]
    BY <1>1, <1>4, <1>5, <1>13
  <2> QED BY <1>5, <1>12, <1>13, <2>1 DEF Extended
<1>15. /\ ranges' \in [RangeNames -> Seq(TaggedRange)]
       /\ \A kd \in Kind : RangeSlots(kd)' = RangeSlots(kd) \cup (IF kd = kind THEN Span(first) ELSE {})
  <2>1. \A kd \in Kind : kd \in RangeNames /\ (kd \in {kind, "mask"} <=> kd = kind)
    BY <1>5 DEF RangeNames
  <2>2. /\ ranges' \in [RangeNames -> Seq(TaggedRange)]
        /\ \A name \in RangeNames :
             RangeSlots(name)' = RangeSlots(name) \cup (IF name \in {kind, "mask"} THEN Span(r(start)[name]) ELSE {})
    BY <1>1, <1>14, RangesMore
  <2> QED BY <1>13, <2>1, <2>2
<1>16. UnmaskedLabels'
  BY <1>1, <1>11, <1>12, <1>15 DEF UnmaskedLabels
<1>17. CallsRight'
  <2>1. MasksMayCome
    BY <1>3 DEF MasksMayCome
  <2> QED BY <1>1, <1>3, <1>11, <1>15, <2>1, CallsAllocated
<1>18. /\ DOMAIN ideal' = DOMAIN ideal /\ ideal'.masks = ideal.masks /\ ideal'.trace = ideal.trace
       /\ ideal'.shares = [ideal.shares EXCEPT ![kind] = Joined(fun, ideal.shares[kind])]
  BY <1>1, <1>3 DEF HeldRight
<1>19. TraceRight'
  BY <1>1, <1>3, <1>11, <1>18, TraceKept
<1>20. HeldRight'
  <2>1. /\ DOMAIN shares = Kind /\ DOMAIN ideal.shares = Kind
        /\ DOMAIN shares[kind] = DOMAIN ideal.shares[kind] /\ DOMAIN fun = lo .. hi
    BY <1>1 DEF HeldRight, fun, IdealShares
  <2>2. /\ DOMAIN shares' = Kind /\ DOMAIN ideal'.shares = Kind
        /\ \A kd \in Kind \ {kind} : shares'[kd] = shares[kd] /\ ideal'.shares[kd] = ideal.shares[kd]
        /\ shares'[kind] = Joined(done.sh, shares[kind])
        /\ ideal'.shares[kind] = Joined(fun, ideal.shares[kind])
    BY <1>3, <1>18, <2>1
  <2>3. /\ DOMAIN shares'[kind] = (lo .. hi) \cup DOMAIN shares[kind]
        /\ DOMAIN ideal'.shares[kind] = (lo .. hi) \cup DOMAIN shares[kind]
        /\ \A i \in lo .. hi : shares'[kind][i] = done.sh[i] /\ ideal'.shares[kind][i] = fun[i]
        /\ \A i \in DOMAIN shares[kind] \ (lo .. hi) :
             shares'[kind][i] = shares[kind][i] /\ ideal'.shares[kind][i] = ideal.shares[kind][i]
    BY <1>11, <2>1, <2>2 DEF Joined
  <2>4. \A kd \in Kind : \A i \in DOMAIN shares[kd] : \A k \in DOMAIN shares[kd][i] :
          Right(gen', shares[kd][i][k], ideal.shares[kd][i][k])
    BY <1>1, <1>11, KeepsRight DEF HeldRight
  <2>5. \A i \in DOMAIN masks : Right(gen', masks[i], ideal.masks[i])
    BY <1>1, <1>11, KeepsRight DEF HeldRight
  <2>6. \A i \in DOMAIN shares'[kind] : \A k \in DOMAIN shares'[kind][i] :
          Right(gen', shares'[kind][i][k], ideal'.shares[kind][i][k])
    BY <1>11, <2>3, <2>4
  <2>7. \A kd \in Kind : DOMAIN shares'[kd] = DOMAIN ideal'.shares[kd]
    BY <1>1, <2>2, <2>3 DEF HeldRight
  <2>8. \A kd \in Kind : \A i \in DOMAIN shares'[kd] : \A k \in DOMAIN shares'[kd][i] :
          Right(gen', shares'[kd][i][k], ideal'.shares[kd][i][k])
    BY <2>2, <2>4, <2>6
  <2> QED BY <1>1, <1>3, <1>18, <2>2, <2>5, <2>7, <2>8 DEF HeldRight
<1>21. ASSUME ~Retries, 1 \notin ShareCounts PROVE SourcesRight'
  <2>1. SourcesRight /\ n # 1
    BY <1>21 DEF IInv
  <2>2. UNION {Span(r(start)[name]) : name \in {kind, "mask"}} = e .. e + T - 1
    <3>1. UNION {Span(r(start)[name]) : name \in {kind, "mask"}} = (e .. e + (hi - lo)) \cup (e + d .. e + T - 1)
      BY <1>12, <1>13, <2>1
    <3>2. (e .. e + (hi - lo)) \cup (e + d .. e + T - 1) = e .. e + T - 1
      <4> DEFINE b == hi - lo
      <4>1. b \in Nat /\ d = b + 1 /\ d <= T
        BY <1>7
      <4> HIDE DEF b
      <4>2. (e .. e + b) \cup (e + d .. e + T - 1) = e .. e + T - 1
        BY ONLY <1>1, <1>7, <4>1
      <4> QED BY <4>2 DEF b
    <3> QED BY <3>1, <3>2
  <2>3. \A x, y \in {kind, "mask"} : x # y => Span(r(start)[x]) \cap Span(r(start)[y]) = {}
    <3>1. (e .. e + (hi - lo)) \cap (e + d .. e + T - 1) = {}
      BY <1>1, <1>7
    <3> QED BY <1>12, <1>13, <2>1, <3>1
  <2>4. /\ IsGen(gen) /\ IsGen(gen') /\ ranges \in [RangeNames -> Seq(TaggedRange)]
        /\ Extended({kind, "mask"}, r(start)) /\ SourcesRight /\ T \in Nat
        /\ gen.m.numEmitted + T <= gen'.m.numEmitted
        /\ Written(gen'.code) = Written(gen.code) \cup (gen.m.numEmitted + T .. gen'.m.numEmitted - 1)
    BY <1>1, <1>7, <1>11, <1>14, <2>1 DEF e
  <2> DEFINE q == r(start)
             names == {kind, "mask"}
  <2>5. /\ UNION {Span(q[name]) : name \in names} = gen.m.numEmitted .. gen.m.numEmitted + T - 1
        /\ \A x, y \in names : x # y => Span(q[x]) \cap Span(q[y]) = {}
        /\ Extended(names, q)
    BY <1>14, <2>2, <2>3 DEF e
  <2> HIDE DEF q, names
  <2> QED BY ONLY <2>4, <2>5, SourcesMore
<1>22. Moves
  <2>1. Keeping
    <3>1. LastGrown(gen.code, gen'.code, gen.m.numEmitted)
      BY <1>3, <1>10 DEF SharesRight
    <3>2. gen.m.numEmitted <= gen'.m.numEmitted
      BY <1>11 DEF Keeps, Later
    <3> QED BY <1>3, <1>11, <3>1, <3>2 DEF Keeping, Quiet
  <2>2. first.tag = Len(trace) - 1 /\ rest(start).tag = Len(trace) - 1
    BY DEF first, rest, Tagged
  <2>3. ASSUME n # 1 PROVE Allocated({kind, "mask"}, r(start))
    <3>1. \A p \in (e .. e + (hi - lo)) \cup (e + d .. e + T - 1) : e <= p
      BY <1>1, <1>7
    <3> QED BY <1>12, <1>13, <1>14, <2>2, <2>3, <3>1 DEF Allocated, e
  <2> QED BY <2>1, <2>3 DEF Moves
<1> QED BY <1>11, <1>16, <1>17, <1>19, <1>20, <1>21, <1>22 DEF IInv

-----------------------------------------------------------------------------
(* The invariant.                                                           *)

LEMMA InitRight == ASSUME Init PROVE IInv
<1> USE DEF Init
<1>1. IsGen(gen)
  <2>1. /\ DOMAIN gen = {"m", "reads", "label", "inputs", "code"} /\ gen.m = NewManager
        /\ gen.code = <<>> /\ gen.inputs = 0 /\ DOMAIN gen.label = {}
        /\ gen.reads \in [{} -> SUBSET (0 .. gen.m.numEmitted - 1)]
    OBVIOUS
  <2>2. Sound(gen.m) /\ Disciplined(gen.m) /\ Var(gen.m) = {} /\ gen.m.numEmitted = 0
    BY <2>1, NewManagerFacts
  <2>3. gen.code \in Seq(Seq(Statement)) /\ InOrder(gen.code) /\ Written(gen.code) = {}
    BY <2>1 DEF InOrder, Written
  <2>4. 0 .. gen.m.numEmitted - 1 = {}
    BY <2>2
  <2> QED BY <2>1, <2>2, <2>3, <2>4 DEF IsGen
<1>2. gen.m = NewManager /\ gen.code = <<>> /\ gen.m.numEmitted = 0 /\ DOMAIN gen.label = {} /\ IsCircuit(circuit)
  BY NewManagerFacts, KnownCircuit
<1>3. TraceRight
  <2> DEFINE tr == PreCycle(circuit)
             val == IdealPreCycle(circuit)
  <2>1. /\ DOMAIN tr = DOMAIN val /\ Evaluated(circuit, val)
        /\ \A s \in DOMAIN tr : GoodSymbol(gen.m, tr[s], val[s])
    BY <1>2, PreCycleFacts
  <2> HIDE DEF tr, val
  <2>2. DOMAIN gen.m.slots = {}
    BY <1>2 DEF NewManager, Empty
  <2>3. RightCycle(gen, tr, val)
    BY <2>1, <2>2 DEF RightCycle, Right
  <2>4. trace = <<tr>> /\ ideal.trace = <<val>> /\ prepared = FALSE
    BY DEF tr, val
  <2>5. /\ trace \in Seq(Range(trace)) /\ ideal.trace \in Seq(Range(ideal.trace))
        /\ Len(trace) = 1 /\ Len(ideal.trace) = 1 /\ DOMAIN trace = {1} /\ 1 .. 1 - 0 = {1}
        /\ trace[1] = tr /\ ideal.trace[1] = val
    BY <2>4 DEF Range
  <2>6. (IF prepared THEN 1 ELSE 0) = 0 /\ (IF prepared THEN 2 ELSE 1) = 1 /\ 1 >= 1 /\ ~prepared
    BY <2>4
  <2>7. \A c \in DOMAIN trace : RightCycle(gen, trace[c], ideal.trace[c])
    BY <2>3, <2>5
  <2>8. \A c \in 1 .. Len(trace) - 0 : Evaluated(circuit, ideal.trace[c])
    BY <2>1, <2>5
  <2> QED BY ONLY <2>5, <2>6, <2>7, <2>8 DEF TraceRight
<1>4. HeldRight
  BY DEF HeldRight
<1>5. CallsRight
  <2>1. Len(trace) = 1 /\ cycleEmits = <<>> /\ prepared = FALSE /\ phase = "simulate"
    OBVIOUS
  <2>2. ranges \in [Kind \cup {"mask"} -> Seq([lo : Nat, hi : Nat, tag : Nat])]
    OBVIOUS
  <2>3. /\ Len(gen.code) = 0 /\ Len(cycleEmits) = 0 /\ cycleEmits \in Seq([end : Nat, tag : Nat])
        /\ circuit \in Circuit /\ 0 = 1 - 1
    BY <1>2, <2>1
  <2>4. (IF prepared THEN 2 ELSE 1) = 1 /\ prepared \in BOOLEAN /\ phase # "generated"
    BY <2>1
  <2> QED BY ONLY <2>1, <2>2, <2>3, <2>4 DEF CallsRight
<1>6. \A name \in Kind \cup {"mask"} : RangeSlots(name) = {}
  BY DEF RangeSlots
<1>7. \A kind \in Kind : UnmaskedSlots(gen, kind) = {}
  BY <1>2 DEF UnmaskedSlots
<1>8. UnmaskedLabels
  BY <1>6, <1>7 DEF UnmaskedLabels
<1>9. SourcesRight
  <2>1. DOMAIN ranges = Kind \cup {"mask"} /\ \A name \in DOMAIN ranges : DOMAIN ranges[name] = {}
    OBVIOUS
  <2>2. Written(gen.code) = {}
    BY <1>2 DEF Written
  <2>3. 0 .. gen.m.numEmitted - 1 = {} /\ UNION {RangeSlots(name) : name \in DOMAIN ranges} = {}
    BY <1>2, <1>6, <2>1
  <2> QED BY <2>1, <2>2, <2>3 DEF SourcesRight
<1> QED BY <1>1, <1>3, <1>4, <1>5, <1>8, <1>9 DEF IInv

LEMMA StepRight == ASSUME IInv, [Simulate]_simVars PROVE IInv' /\ Moves
<1>1. CASE PrepareCycle
  BY <1>1, PrepareCycleRight
<1>2. CASE StepCycle
  BY <1>2, StepCycleRight
<1>3. CASE EmitEpilogue
  BY <1>3, EmitEpilogueRight
<1>4. ASSUME NEW port \in circuit.in,
             \/ \E bit \in BOOLEAN : AssignConst(port, bit)
             \/ \E h \in Held : AssignHeld(port, h)
             \/ \E h, i \in Held : AssignXor(port, h, i)
      PROVE  IInv' /\ Moves
  BY <1>4, AssignConstRight, AssignHeldRight, AssignXorRight
<1>5. ASSUME NEW q \in Indices,
             \/ \E kind \in Kind, n \in ShareCounts : AllocateShared(kind, q[1], q[2], n)
             \/ AllocateMasks(q[1], q[2]) \/ RedefineMasks(q[1], q[2])
      PROVE  IInv' /\ Moves
  <2>1. q[1] \in Nat /\ q[2] \in Nat /\ q[1] <= q[2]
    BY SimulatorAssumption
  <2> QED BY <1>5, <2>1, AllocateSharedRight, AllocateMasksRight, RedefineMasksRight
<1>6. CASE UNCHANGED simVars
  BY <1>6, StutterRight
<1> QED BY <1>1, <1>2, <1>3, <1>4, <1>5, <1>6 DEF Simulate

(* Whatever a testbench does, the generated code stays well formed and in   *)
(* order, computes the circuit, and keeps one source for every slot.        *)
THEOREM SimulatorInvariant == SimSpec => []IInv
<1>1. Init => IInv
  BY InitRight
<1>2. IInv /\ [Simulate]_simVars => IInv'
  BY StepRight
<1> QED BY <1>1, <1>2, PTL DEF SimSpec

-----------------------------------------------------------------------------
(* The properties.                                                          *)

(* The symbols of every cycle are of variables the manager knows, and the   *)
(* tables of reads and labels cover all variables and all slots.            *)
THEOREM SimulatorTyped == SimSpec => []TypeOK
<1>1. IInv => TypeOK
  <2>1. SUFFICES ASSUME IInv PROVE TypeOK
    OBVIOUS
  <2>2. IsGen(gen) /\ TraceRight /\ CallsRight
    BY <2>1, InvFacts
  <2>3. IsManager(gen.m) /\ CachesSound(gen.m)
    BY <2>2 DEF IsGen, Sound
  <2>4. /\ DOMAIN gen.reads = Var(gen.m) /\ DOMAIN gen.label = 0 .. gen.m.numEmitted - 1
        /\ \A v \in Var(gen.m) : gen.reads[v] \subseteq 0 .. gen.m.numEmitted - 1
    BY <2>2 DEF IsGen
  <2>5. \A c \in DOMAIN trace : \A s \in DOMAIN trace[c] : trace[c][s].var \in Known(gen.m)
    BY <2>2, SymbolKnown DEF TraceRight, RightCycle, Right
  <2>6. Len(cycleEmits) = Len(trace) - (IF prepared THEN 2 ELSE 1)
    BY <2>2 DEF CallsRight
  <2> QED BY <2>3, <2>4, <2>5, <2>6 DEF TypeOK
<1> QED BY <1>1, SimulatorInvariant, PTL

(* The signals of every simulated cycle compute what the circuit computes   *)
(* from the values assigned.                                                *)
THEOREM SimulationIsSound == SimSpec => []SimulationSound
<1>1. IInv => SimulationSound
  <2>1. SUFFICES ASSUME IInv PROVE SimulationSound
    OBVIOUS
  <2>2. TraceRight
    BY <2>1, InvFacts
  <2>3. DOMAIN trace = DOMAIN ideal.trace
    BY <2>2 DEF TraceRight
  <2>4. \A c \in DOMAIN trace : RightCycle(gen, trace[c], ideal.trace[c])
    BY <2>2 DEF TraceRight
  <2>5. ASSUME NEW c \in DOMAIN trace, NEW s \in DOMAIN trace[c]
        PROVE  Truth(gen.m, trace[c][s].var) = ideal.trace[c][s]
    BY <2>4, SymbolKnown DEF RightCycle, Right
  <2>6. \A c \in DOMAIN trace : DOMAIN trace[c] = DOMAIN ideal.trace[c]
    BY <2>4 DEF RightCycle
  <2> QED BY <2>3, <2>5, <2>6 DEF SimulationSound
<1> QED BY <1>1, SimulatorInvariant, PTL

(* The shares that a testbench holds add up to the value they share.        *)
THEOREM HeldIsSound == SimSpec => []HeldSound
<1>1. IInv => HeldSound
  <2>1. ASSUME IInv, NEW h \in Held PROVE Truth(gen.m, SymbolAt(h).var) = IdealAt(h)
    BY <2>1, InvFacts, HeldSymbol, SymbolKnown DEF Right
  <2> QED BY <2>1 DEF HeldSound
<1> QED BY <1>1, SimulatorInvariant, PTL

(* No statement of the generated code reads a slot that is written later.   *)
THEOREM CodeReadsEarlier == SimSpec => []ReadsEarlier
<1>1. IInv => ReadsEarlier
  BY DEF IInv, IsGen, ReadsEarlier
<1> QED BY <1>1, SimulatorInvariant, PTL

(* The slots called unmasked are those of the unmasked values, for ever.    *)
THEOREM UnmaskedStay == SimSpec => []UnmaskedLabels
<1>1. IInv => UnmaskedLabels
  BY DEF IInv
<1> QED BY <1>1, SimulatorInvariant, PTL

(* The assertion of the epilogue holds of every testbench that allocates no *)
(* mask after its cycle was stepped.                                        *)
THEOREM EveryLabel == ASSUME ~LateMasks PROVE SimSpec => []LabelsComplete
<1>1. IInv => LabelsComplete
  <2>1. SUFFICES ASSUME IInv, phase = "generated"
                 PROVE  /\ RunLength = Cardinality(DOMAIN gen.label)
                        /\ \A p \in DOMAIN gen.label : gen.label[p] # NoLabel
    BY DEF LabelsComplete
  <2>2. IsGen(gen) /\ CallsRight /\ gen.m.numEmitted \in Nat
    BY <2>1, InvFacts
  <2>3. RunLength = gen.m.numEmitted
    BY <2>1, <2>2 DEF CallsRight
  <2>4. DOMAIN gen.label = 0 .. gen.m.numEmitted - 1 /\ \A p \in DOMAIN gen.label : gen.label[p] # NoLabel
    BY <2>2 DEF IsGen
  <2> DEFINE e == gen.m.numEmitted
  <2>5. Cardinality(0 .. e - 1) = e
    <3> HIDE DEF e
    <3>1. e \in Nat
      BY <2>2 DEF e
    <3>2. 0 \in Int /\ e - 1 \in Int /\ (IF 0 > e - 1 THEN 0 ELSE (e - 1) - 0 + 1) = e
      BY <3>1
    <3> QED BY <3>2, FS_Interval
  <2> QED BY <2>3, <2>4, <2>5
<1> QED BY <1>1, SimulatorInvariant, PTL

LEMMA PlaceNumbers ==
  ASSUME NEW code \in Seq(Seq(Statement)), NEW c \in DOMAIN code, NEW n \in DOMAIN code[c]
  PROVE  c \in Nat /\ c >= 1 /\ n \in Nat
<1>1. c \in Nat /\ c >= 1
  OBVIOUS
<1>2. PICK f : f = code[c]
  OBVIOUS
<1>3. f \in Seq(Statement)
  BY <1>2
<1>4. n \in DOMAIN f
  BY <1>2
<1>5. n \in Nat
  BY ONLY <1>3, <1>4
<1> QED BY <1>1, <1>5

(* In testbenches that never ask for a single share, nor retry, every slot  *)
(* is written by one statement or filled with randomness, never both.       *)
THEOREM EverySlotOneSource == ASSUME ~Retries, 1 \notin ShareCounts PROVE SimSpec => []OneSource
<1>1. IInv => OneSource
  <2>1. SUFFICES ASSUME IInv, NEW p \in 0 .. gen.m.numEmitted - 1
                 PROVE  Cardinality(Writes(p)) + Cardinality(Fills(p)) = 1
    BY DEF OneSource
  <2>2. IsGen(gen) /\ SourcesRight
    BY <2>1 DEF IInv
  <2> DEFINE code == gen.code
             at(x) == code[x[1]][x[2]]
             isAt(x) == x[1] \in DOMAIN code /\ x[2] \in DOMAIN code[x[1]]
             range(x) == ranges[x[1]][x[2]]
             isRange(x) == x[1] \in DOMAIN ranges /\ x[2] \in DOMAIN ranges[x[1]]
  <2>3. \A x \in Writes(p) : x = <<x[1], x[2]>> /\ isAt(x) /\ at(x).slot = p
    BY DEF Writes
  <2>4. \A x \in Fills(p) : x = <<x[1], x[2]>> /\ isRange(x) /\ p \in range(x).lo .. range(x).hi
    BY DEF Fills
  <2>5. \A x, y \in Writes(p) : x = y
    <3>1. SUFFICES ASSUME NEW x \in Writes(p), NEW y \in Writes(p) PROVE x = y
      OBVIOUS
    <3>2. /\ code \in Seq(Seq(Statement)) /\ InOrder(code)
      BY <2>2 DEF IsGen
    <3>3. isAt(x) /\ isAt(y) /\ at(x).slot = p /\ at(y).slot = p
      BY <2>3
    <3>4. x[1] \in Nat /\ y[1] \in Nat /\ x[2] \in Nat /\ y[2] \in Nat /\ x[1] >= 1 /\ y[1] >= 1
      BY <3>2, <3>3, PlaceNumbers
    <3>5. \A a, b \in Writes(p) : a[1] \in 1 .. b[1] => ~(a[1] < b[1] \/ a[2] < b[2])
      <4>1. \A a, b \in Writes(p) : a[1] \in 1 .. b[1] /\ (a[1] < b[1] \/ a[2] < b[2]) => at(a).slot < at(b).slot
        BY <2>3, <3>2 DEF InOrder
      <4>2. ~ p < p
        BY <2>1
      <4> QED BY <2>3, <4>1, <4>2
    <3> HIDE DEF code
    <3>6. x[1] = y[1]
      <4>1. x[1] < y[1] => x[1] \in 1 .. y[1]
        BY <3>4
      <4>2. y[1] < x[1] => y[1] \in 1 .. x[1]
        BY <3>4
      <4> QED BY <3>4, <3>5, <4>1, <4>2
    <3>7. x[1] \in 1 .. y[1] /\ y[1] \in 1 .. x[1]
      BY <3>4, <3>6
    <3>8. x[2] = y[2]
      BY <3>4, <3>5, <3>7
    <3> QED BY <2>3, <3>6, <3>8
  <2>6. \A x, y \in Fills(p) : x = y
    BY <2>2, <2>4 DEF SourcesRight
  <2>7. p \in Written(code) <=> Writes(p) # {}
    <3>1. ASSUME p \in Written(code) PROVE Writes(p) # {}
      <4>1. PICK c \in DOMAIN code : \E n \in DOMAIN code[c] : code[c][n].slot = p
        BY <3>1 DEF Written
      <4>2. PICK n \in DOMAIN code[c] : code[c][n].slot = p
        BY <4>1
      <4>3. <<c, n>> \in Writes(p)
        BY <4>2 DEF Writes
      <4> QED BY <4>3
    <3>2. ASSUME NEW x \in Writes(p) PROVE p \in Written(code)
      BY <2>3, <3>2 DEF Written
    <3> QED BY <3>1, <3>2
  <2>8. (\E name \in DOMAIN ranges : p \in RangeSlots(name)) <=> Fills(p) # {}
    <3>1. ASSUME NEW name \in DOMAIN ranges, p \in RangeSlots(name) PROVE Fills(p) # {}
      <4>1. PICK k \in DOMAIN ranges[name] : p \in ranges[name][k].lo .. ranges[name][k].hi
        BY <3>1 DEF RangeSlots
      <4>2. <<name, k>> \in Fills(p)
        BY <4>1 DEF Fills
      <4> QED BY <4>2
    <3>2. ASSUME NEW x \in Fills(p) PROVE \E name \in DOMAIN ranges : p \in RangeSlots(name)
      BY <2>4, <3>2 DEF RangeSlots
    <3> QED BY <3>1, <3>2
  <2>9. /\ p \in Written(code) \/ \E name \in DOMAIN ranges : p \in RangeSlots(name)
        /\ ~(p \in Written(code) /\ \E name \in DOMAIN ranges : p \in RangeSlots(name))
    BY <2>1, <2>2 DEF SourcesRight
  <2> HIDE DEF code
  <2>10. \A S : S # {} /\ (\A x, y \in S : x = y) => Cardinality(S) = 1
    <3>1. SUFFICES ASSUME NEW S, NEW s \in S, \A x, y \in S : x = y PROVE Cardinality(S) = 1
      OBVIOUS
    <3>2. S = {s}
      BY <3>1
    <3> QED BY <3>2, FS_Singleton
  <2>11. Cardinality({}) = 0
    BY FS_EmptySet
  <2>12. \/ Cardinality(Writes(p)) = 1 /\ Cardinality(Fills(p)) = 0
         \/ Cardinality(Writes(p)) = 0 /\ Cardinality(Fills(p)) = 1
    BY <2>5, <2>6, <2>7, <2>8, <2>9, <2>10, <2>11
  <2> QED BY <2>12
<1> QED BY <1>1, SimulatorInvariant, PTL

-----------------------------------------------------------------------------
(* The order of slots, cycles and ranges.                                   *)

EndOf(j) == cycleEmits[j].end
Tags(name, k) == ranges[name][k].tag

LEMMA OrderFacts ==
  ASSUME IInv
  PROVE  /\ Len(gen.code) \in Nat /\ DOMAIN gen.code = 1 .. Len(gen.code)
         /\ Len(cycleEmits) \in Nat /\ DOMAIN cycleEmits = 1 .. Len(cycleEmits)
         /\ \A j \in DOMAIN cycleEmits : EndOf(j) \in Nat /\ cycleEmits[j].tag \in Nat
         /\ Len(gen.code) = Len(trace) - 1
         /\ Len(cycleEmits) = Len(trace) - (IF prepared THEN 2 ELSE 1)
         /\ \A c \in DOMAIN gen.code : CodeSlots(gen.code, c) \subseteq 0 .. gen.m.numEmitted - 1
<1>1. CallsRight /\ IsGen(gen)
  BY InvFacts
<1>2. /\ gen.code \in Seq(Seq(Statement)) /\ cycleEmits \in Seq([end : Nat, tag : Nat])
      /\ Written(gen.code) \subseteq 0 .. gen.m.numEmitted - 1
      /\ Len(gen.code) = Len(trace) - 1 /\ Len(cycleEmits) = Len(trace) - (IF prepared THEN 2 ELSE 1)
  BY <1>1 DEF CallsRight, IsGen
<1>3. \A j \in DOMAIN cycleEmits : EndOf(j) \in Nat /\ cycleEmits[j].tag \in Nat
  <2> DEFINE R == [end : Nat, tag : Nat]
  <2>1. \A x \in R : x.end \in Nat /\ x.tag \in Nat
    OBVIOUS
  <2>2. cycleEmits \in Seq(R)
    BY <1>2
  <2> HIDE DEF R
  <2>3. \A j \in DOMAIN cycleEmits : cycleEmits[j] \in R
    BY <2>2
  <2> QED BY <2>1, <2>3 DEF EndOf
<1>4. Written(gen.code) = UNION {CodeSlots(gen.code, c) : c \in DOMAIN gen.code}
  BY DEF Written, CodeSlots
<1> QED BY <1>2, <1>3, <1>4

(* What CyclesOrdered says, of the slots of a function.                     *)
LEMMA CyclesOrderedOf ==
  CyclesOrdered <=>
    /\ \A j \in DOMAIN cycleEmits : cycleEmits[j].tag = j /\ EndOf(j) <= gen.m.numEmitted
    /\ \A i, j \in DOMAIN cycleEmits : i <= j => EndOf(i) <= EndOf(j)
    /\ \A c \in DOMAIN gen.code : \A p \in CodeSlots(gen.code, c) : \A j \in DOMAIN cycleEmits :
         p < EndOf(j) <=> c <= j
  BY DEF CyclesOrdered, EndOf, CodeSlots

(* Functions and cycles stay, new statements come after the cycles.         *)
LEMMA CyclesKept ==
  ASSUME IInv, IInv', CyclesOrdered, Quiet, prepared \/ gen'.code = gen.code, UNCHANGED cycleEmits
  PROVE  CyclesOrdered'
<1> DEFINE e == gen.m.numEmitted
           f == gen'.m.numEmitted
<1>1. /\ \A j \in DOMAIN cycleEmits : cycleEmits[j].tag = j /\ EndOf(j) <= e
      /\ \A i, j \in DOMAIN cycleEmits : i <= j => EndOf(i) <= EndOf(j)
      /\ \A c \in DOMAIN gen.code : \A p \in CodeSlots(gen.code, c) : \A j \in DOMAIN cycleEmits :
           p < EndOf(j) <=> c <= j
  BY CyclesOrderedOf
<1>2. /\ e \in Nat /\ f \in Nat /\ e <= f /\ \A j \in DOMAIN cycleEmits : EndOf(j) \in Nat
      /\ Len(gen'.code) = Len(gen.code) /\ DOMAIN gen'.code = DOMAIN gen.code
      /\ DOMAIN cycleEmits = 1 .. Len(cycleEmits) /\ Len(cycleEmits) \in Nat
      /\ DOMAIN gen.code = 1 .. Len(gen.code) /\ Len(gen.code) \in Nat
      /\ prepared => Len(cycleEmits) < Len(gen.code)
  <2>1. e \in Nat /\ Len(trace) \in Nat
    BY InvFacts
  <2>2. f \in Nat
    <3>1. IsGen(gen')
      BY DEF IInv
    <3> QED BY <3>1, GenManager
  <2>3. DOMAIN gen'.code = 1 .. Len(gen'.code)
    <3>1. IsGen(gen')
      BY DEF IInv
    <3> QED BY <3>1 DEF IsGen
  <2> QED BY <2>1, <2>2, <2>3, OrderFacts DEF Quiet
<1>3. \A j : EndOf(j)' = EndOf(j)
  BY DEF EndOf
<1>4. \A c \in DOMAIN gen.code : \A p \in CodeSlots(gen'.code, c) :
        \/ p \in CodeSlots(gen.code, c)
        \/ c = Len(gen.code) /\ p \in Nat /\ e <= p /\ Len(cycleEmits) < Len(gen.code)
  BY <1>2 DEF Quiet, LastGrown
<1> HIDE DEF e, f
<1>5. ASSUME NEW c \in DOMAIN gen.code, NEW p \in CodeSlots(gen'.code, c), NEW j \in DOMAIN cycleEmits
      PROVE  p < EndOf(j) <=> c <= j
  <2>1. CASE p \in CodeSlots(gen.code, c)
    BY <1>1, <2>1
  <2>2. CASE c = Len(gen.code) /\ p \in Nat /\ e <= p /\ Len(cycleEmits) < Len(gen.code)
    <3>1. EndOf(j) \in Nat /\ EndOf(j) <= e /\ j \in Nat /\ j <= Len(cycleEmits)
      BY <1>1, <1>2
    <3>2. ~ p < EndOf(j) /\ ~ c <= j
      BY <1>2, <2>2, <3>1
    <3> QED BY <3>2
  <2> QED BY <1>4, <2>1, <2>2
<1>6. \A j \in DOMAIN cycleEmits : EndOf(j) <= f
  <2>1. \A a, b, c \in Nat : a <= b /\ b <= c => a <= c
    OBVIOUS
  <2> QED BY <1>1, <1>2, <2>1
<1>7. /\ \A j \in DOMAIN cycleEmits' : cycleEmits'[j].tag = j /\ EndOf(j)' <= gen'.m.numEmitted
      /\ \A i, j \in DOMAIN cycleEmits' : i <= j => EndOf(i)' <= EndOf(j)'
      /\ \A c \in DOMAIN gen'.code : \A p \in CodeSlots(gen'.code, c) : \A j \in DOMAIN cycleEmits' :
           p < EndOf(j)' <=> c <= j
  BY <1>1, <1>2, <1>3, <1>5, <1>6 DEF f
<1>8. \A j : cycleEmits'[j].end = EndOf(j)'
  BY DEF EndOf
<1> QED BY <1>7, <1>8 DEF CyclesOrdered, CodeSlots

(* A function more, that is empty.                                          *)
LEMMA CyclesPrepared ==
  ASSUME IInv, IInv', CyclesOrdered, Prepares PROVE CyclesOrdered'
<1> DEFINE e == gen.m.numEmitted
           f == gen'.m.numEmitted
           n == Len(gen.code)
<1>1. /\ \A j \in DOMAIN cycleEmits : cycleEmits[j].tag = j /\ EndOf(j) <= e
      /\ \A i, j \in DOMAIN cycleEmits : i <= j => EndOf(i) <= EndOf(j)
      /\ \A c \in DOMAIN gen.code : \A p \in CodeSlots(gen.code, c) : \A j \in DOMAIN cycleEmits :
           p < EndOf(j) <=> c <= j
  BY CyclesOrderedOf
<1>2. /\ e \in Nat /\ f \in Nat /\ e <= f /\ \A j \in DOMAIN cycleEmits : EndOf(j) \in Nat
  <2>1. IsGen(gen')
    BY DEF IInv
  <2> QED BY <2>1, InvFacts, GenManager, OrderFacts DEF Prepares
<1>3. \A j : EndOf(j)' = EndOf(j) /\ cycleEmits'[j].end = EndOf(j)'
  BY DEF EndOf, Prepares
<1>4. \A c \in DOMAIN gen'.code :
        \/ c \in DOMAIN gen.code /\ CodeSlots(gen'.code, c) = CodeSlots(gen.code, c)
        \/ CodeSlots(gen'.code, c) = {}
  <2>1. /\ n \in Nat /\ DOMAIN gen'.code = 1 .. n + 1 /\ gen'.code[n + 1] = <<>>
        /\ DOMAIN gen.code = 1 .. n /\ \A c \in 1 .. n : gen'.code[c] = gen.code[c]
    <3> DEFINE S == Seq(Statement)
    <3>1. gen.code \in Seq(S) /\ <<>> \in S
      BY InvFacts DEF IsGen
    <3> HIDE DEF S
    <3> QED BY <3>1 DEF Prepares
  <2>2. \A c \in 1 .. n + 1 : c \in 1 .. n \/ c = n + 1
    BY <2>1
  <2> QED BY <2>1, <2>2 DEF CodeSlots
<1>5. \A j \in DOMAIN cycleEmits : EndOf(j) <= f
  <2> HIDE DEF e, f
  <2>1. \A a, b, c \in Nat : a <= b /\ b <= c => a <= c
    OBVIOUS
  <2> QED BY <1>1, <1>2, <2>1
<1>6. \A c \in DOMAIN gen'.code : \A p \in CodeSlots(gen'.code, c) : \A j \in DOMAIN cycleEmits :
        p < EndOf(j) <=> c <= j
  BY <1>1, <1>4
<1>7. cycleEmits' = cycleEmits
  BY DEF Prepares
<1> QED BY <1>1, <1>3, <1>5, <1>6, <1>7 DEF CyclesOrdered, CodeSlots

(* A cycle more.                                                            *)
LEMMA CyclesStepped ==
  ASSUME IInv, IInv', CyclesOrdered, Steps PROVE CyclesOrdered'
<1> DEFINE e == gen.m.numEmitted
           f == gen'.m.numEmitted
           n == Len(cycleEmits)
           code == gen'.code
           end(j) == cycleEmits'[j].end
<1>1. /\ \A j \in DOMAIN cycleEmits : cycleEmits[j].tag = j /\ EndOf(j) <= e
      /\ \A i, j \in DOMAIN cycleEmits : i <= j => EndOf(i) <= EndOf(j)
      /\ \A c \in DOMAIN gen.code : \A p \in CodeSlots(gen.code, c) : \A j \in DOMAIN cycleEmits :
           p < EndOf(j) <=> c <= j
  BY CyclesOrderedOf
<1>2. /\ e \in Nat /\ f \in Nat /\ e <= f /\ \A j \in DOMAIN cycleEmits : EndOf(j) \in Nat
      /\ n \in Nat /\ DOMAIN cycleEmits = 1 .. n
      /\ DOMAIN gen.code = 1 .. n + 1 /\ DOMAIN code = 1 .. n + 1 /\ Len(trace) - 1 = n + 1
      /\ Len(gen.code) = n + 1
  <2>1. IsGen(gen')
    BY DEF IInv
  <2>2. DOMAIN code = 1 .. Len(code) /\ f \in Nat /\ e \in Nat /\ Len(trace) \in Nat
    <3>1. DOMAIN code = 1 .. Len(code)
      BY <2>1 DEF IsGen
    <3>2. f \in Nat
      BY <2>1, GenManager
    <3> QED BY <3>1, <3>2, InvFacts
  <2> QED BY <2>2, OrderFacts DEF Steps, Quiet
<1>3. \A c \in 1 .. n + 1 : CodeSlots(code, c) \subseteq 0 .. f - 1
  <2>1. Written(code) \subseteq 0 .. f - 1
    BY DEF IInv, IsGen
  <2> QED BY <1>2, <2>1 DEF Written, CodeSlots
<1>4. \A c \in 1 .. n + 1 : \A p \in CodeSlots(code, c) :
        p \in CodeSlots(gen.code, c) \/ (c = n + 1 /\ p \in Nat /\ e <= p)
  BY <1>2 DEF Steps, Quiet, LastGrown
<1>5. /\ DOMAIN cycleEmits' = 1 .. n + 1 /\ \A j \in 1 .. n : cycleEmits'[j] = cycleEmits[j]
      /\ cycleEmits'[n + 1] = [end |-> f, tag |-> n + 1]
  <2> DEFINE emit == [end |-> f, tag |-> n + 1]
             R == [end : Nat, tag : Nat]
  <2>1. cycleEmits' = Append(cycleEmits, emit)
    BY <1>2 DEF Steps
  <2>2. cycleEmits \in Seq(R) /\ emit \in R
    BY <1>2, InvFacts DEF CallsRight
  <2> HIDE DEF emit, R
  <2>3. DOMAIN cycleEmits' = 1 .. n + 1 /\ cycleEmits'[n + 1] = emit
        /\ \A j \in 1 .. n : cycleEmits'[j] = cycleEmits[j]
    BY <2>1, <2>2
  <2> QED BY <2>3 DEF emit
<1>6. /\ end(n + 1) = f /\ cycleEmits'[n + 1].tag = n + 1
      /\ \A j \in 1 .. n : end(j) = EndOf(j) /\ cycleEmits'[j].tag = cycleEmits[j].tag
  BY <1>5 DEF EndOf
<1> HIDE DEF e, f, n, code, end
<1>7. \A j \in 1 .. n + 1 : j \in 1 .. n \/ j = n + 1
  BY <1>2
<1>8. \A j \in 1 .. n : EndOf(j) <= f /\ EndOf(j) <= e
  <2>1. \A a, b, c \in Nat : a <= b /\ b <= c => a <= c
    OBVIOUS
  <2> QED BY <1>1, <1>2, <2>1
<1>9. ASSUME NEW j \in 1 .. n + 1 PROVE cycleEmits'[j].tag = j /\ end(j) <= f /\ end(j) \in Nat
  <2>1. CASE j = n + 1
    BY <1>2, <1>6, <2>1
  <2>2. CASE j \in 1 .. n
    <3>1. j \in DOMAIN cycleEmits
      BY <1>2, <2>2
    <3>2. cycleEmits[j].tag = j /\ EndOf(j) \in Nat
      BY <1>1, <1>2, <3>1
    <3> QED BY <1>6, <1>8, <2>2, <3>2
  <2> QED BY <1>7, <2>1, <2>2
<1>10. ASSUME NEW i \in 1 .. n + 1, NEW j \in 1 .. n + 1, i <= j PROVE end(i) <= end(j)
  <2>1. CASE j = n + 1
    BY <1>6, <1>9, <2>1
  <2>2. CASE j \in 1 .. n
    <3>1. i \in 1 .. n
      BY <1>2, <1>10, <2>2
    <3>2. EndOf(i) <= EndOf(j)
      BY <1>1, <1>2, <1>10, <2>2, <3>1
    <3> QED BY <1>6, <2>2, <3>1, <3>2
  <2> QED BY <1>7, <2>1, <2>2
<1>11. ASSUME NEW c \in 1 .. n + 1, NEW p \in CodeSlots(code, c), NEW j \in 1 .. n + 1
       PROVE  p < end(j) <=> c <= j
  <2>1. CASE j = n + 1
    <3>1. p < f /\ c <= n + 1
      BY <1>2, <1>3
    <3> QED BY <1>6, <2>1, <3>1
  <2>2. CASE j \in 1 .. n /\ p \in CodeSlots(gen.code, c)
    BY <1>1, <1>2, <1>6, <2>2
  <2>3. CASE j \in 1 .. n /\ c = n + 1 /\ p \in Nat /\ e <= p
    <3>1. EndOf(j) \in Nat /\ EndOf(j) <= e /\ end(j) = EndOf(j)
      BY <1>2, <1>6, <1>8, <2>3
    <3>2. ~ p < EndOf(j) /\ ~ c <= j
      BY <1>2, <2>3, <3>1
    <3> QED BY <3>1, <3>2
  <2> QED BY <1>4, <1>7, <2>1, <2>2, <2>3
<1>12. DOMAIN cycleEmits' = 1 .. n + 1 /\ DOMAIN gen'.code = 1 .. n + 1
  BY <1>2, <1>5 DEF n, code
<1> QED BY <1>9, <1>10, <1>11, <1>12 DEF CyclesOrdered, CodeSlots, f, code, end

LEMMA CyclesRight ==
  ASSUME IInv, IInv', CyclesOrdered, Moves PROVE CyclesOrdered'
  BY CyclesKept, CyclesPrepared, CyclesStepped DEF Moves, Keeping

(* The same of the ranges.                                                  *)
RangeOrdered(name, k) ==
  /\ Tags(name, k) < Len(trace)
  /\ \A i \in 1 .. k : Tags(name, i) <= Tags(name, k)
  /\ \A p \in Span(ranges[name][k]) : \A j \in DOMAIN cycleEmits : p < EndOf(j) => Tags(name, k) <= j

LEMMA RangesOrderedOf ==
  RangesOrdered <=> \A name \in DOMAIN ranges : \A k \in DOMAIN ranges[name] : RangeOrdered(name, k)
  BY DEF RangesOrdered, RangeOrdered, EndOf, Tags, Span

LEMMA RangeFacts ==
  ASSUME IInv
  PROVE  /\ DOMAIN ranges = RangeNames
         /\ \A name \in RangeNames : /\ Len(ranges[name]) \in Nat /\ DOMAIN ranges[name] = 1 .. Len(ranges[name])
                                     /\ \A k \in DOMAIN ranges[name] : ranges[name][k] \in TaggedRange
         /\ \A name \in RangeNames : \A k \in DOMAIN ranges[name] :
              /\ Tags(name, k) \in Nat /\ ranges[name][k].lo \in Nat /\ ranges[name][k].hi \in Nat
              /\ Span(ranges[name][k]) \subseteq Nat
<1>1. ranges \in [RangeNames -> Seq(TaggedRange)]
  BY InvFacts
<1>2. \A x \in TaggedRange : x.tag \in Nat /\ x.lo \in Nat /\ x.hi \in Nat /\ Span(x) \subseteq Nat
  BY DEF TaggedRange, Span
<1> HIDE DEF TaggedRange
<1>3. \A s \in Seq(TaggedRange) : Len(s) \in Nat /\ DOMAIN s = 1 .. Len(s) /\ \A k \in DOMAIN s : s[k] \in TaggedRange
  OBVIOUS
<1>4. \A name \in RangeNames : ranges[name] \in Seq(TaggedRange)
  BY <1>1
<1> QED BY <1>1, <1>2, <1>3, <1>4 DEF Tags

(* Ranges stay, whether a cycle is added or ended.                          *)
LEMMA RangesStay ==
  ASSUME IInv, IInv', RangesOrdered, UNCHANGED ranges,
         (Prepares \/ Steps \/ Keeping)
  PROVE  RangesOrdered'
<1>1. Len(trace) \in Nat /\ Len(trace') \in Nat /\ Len(trace) <= Len(trace')
  BY InvFacts DEF Prepares, Steps, Keeping, Quiet
<1>2. \A j \in DOMAIN cycleEmits' : \/ j \in DOMAIN cycleEmits /\ EndOf(j)' = EndOf(j)
                                    \/ j = Len(trace) - 1
  <2>1. CASE Prepares \/ Keeping
    BY <2>1 DEF Prepares, Keeping, EndOf
  <2>2. CASE Steps
    <3> DEFINE n == Len(cycleEmits)
               emit == [end |-> gen'.m.numEmitted, tag |-> Len(trace) - 1]
               s == cycleEmits
               t == cycleEmits'
               R == [end : Nat, tag : Nat]
    <3>1. s \in Seq(R) /\ t \in Seq(R) /\ n + 1 = Len(trace) - 1 /\ Len(t) = Len(trace') - 1 /\ Len(trace') = Len(trace)
      BY <1>1, <2>2 DEF IInv, CallsRight, Steps, Quiet
    <3>2. t = Append(s, emit)
      BY <2>2 DEF Steps
    <3> HIDE DEF s, t, R, emit
    <3>3. n \in Nat /\ DOMAIN t = 1 .. n + 1 /\ DOMAIN s = 1 .. n /\ \A j \in 1 .. n : t[j] = s[j]
      BY <3>1, <3>2 DEF s
    <3>4. \A j \in 1 .. n + 1 : j \in 1 .. n \/ j = n + 1
      BY <3>3
    <3>5. \A j \in DOMAIN t : (j \in DOMAIN s /\ t[j] = s[j]) \/ j = Len(trace) - 1
      BY <3>1, <3>3, <3>4
    <3> QED BY <3>5 DEF s, t, EndOf
  <2> QED BY <2>1, <2>2
<1>3. \A name, k : Tags(name, k)' = Tags(name, k) /\ ranges'[name][k] = ranges[name][k]
  BY DEF Tags
<1>4. \A name \in RangeNames : DOMAIN ranges'[name] = DOMAIN ranges[name]
  OBVIOUS
<1>5. ASSUME NEW name \in RangeNames, NEW k \in DOMAIN ranges[name] PROVE RangeOrdered(name, k)'
  <2>1. RangeOrdered(name, k) /\ Tags(name, k) \in Nat
    BY RangeFacts, RangesOrderedOf
  <2>2. Tags(name, k)' < Len(trace')
    BY <1>1, <1>3, <2>1 DEF RangeOrdered
  <2>3. \A i \in 1 .. k : Tags(name, i)' <= Tags(name, k)'
    BY <1>3, <2>1 DEF RangeOrdered
  <2>4. \A p \in Span(ranges'[name][k]) : \A j \in DOMAIN cycleEmits' : p < EndOf(j)' => Tags(name, k)' <= j
    <3>1. Tags(name, k) <= Len(trace) - 1
      BY <1>1, <2>1 DEF RangeOrdered
    <3> QED BY <1>2, <1>3, <2>1, <3>1 DEF RangeOrdered
  <2> QED BY <2>2, <2>3, <2>4 DEF RangeOrdered
<1>6. DOMAIN ranges = RangeNames /\ DOMAIN ranges' = RangeNames
  BY RangeFacts
<1>7. \A name \in DOMAIN ranges' : \A k \in DOMAIN ranges'[name] : RangeOrdered(name, k)'
  BY <1>4, <1>5, <1>6
<1> QED BY <1>7 DEF RangesOrdered, RangeOrdered, EndOf, Tags, Span

(* Ranges more, tagged with the last cycle.                                 *)
LEMMA RangesAllocated ==
  ASSUME IInv, IInv', CyclesOrdered, RangesOrdered, Keeping, NEW names, NEW r, Allocated(names, r)
  PROVE  RangesOrdered'
<1> DEFINE n == Len(trace)
<1>1. n \in Nat /\ Len(trace') = n /\ cycleEmits' = cycleEmits /\ gen.m.numEmitted \in Nat
  BY InvFacts DEF Keeping, Quiet
<1>2. \A j \in DOMAIN cycleEmits : EndOf(j)' = EndOf(j) /\ EndOf(j) <= gen.m.numEmitted /\ EndOf(j) \in Nat
  BY <1>1, CyclesOrderedOf, OrderFacts DEF EndOf
<1>3. /\ ranges \in [RangeNames -> Seq(TaggedRange)] /\ Extended(names, r)
      /\ \A name \in names : /\ r[name] \in TaggedRange /\ r[name].tag = n - 1
                             /\ \A p \in Span(r[name]) : gen.m.numEmitted <= p
  BY InvFacts DEF Allocated, Extended
<1>4. \A name \in RangeNames : \A k \in DOMAIN ranges'[name] :
        \/ k \in DOMAIN ranges[name] /\ ranges'[name][k] = ranges[name][k]
        \/ name \in names /\ k = Len(ranges[name]) + 1 /\ ranges'[name][k] = r[name]
  BY <1>3, RangesMore
<1>5. \A name \in RangeNames : \A k \in DOMAIN ranges[name] : RangeOrdered(name, k)
  BY RangeFacts, RangesOrderedOf
<1> DEFINE tag(name, k) == ranges'[name][k].tag
<1>6. \A name \in RangeNames : \A k \in DOMAIN ranges'[name] : tag(name, k) \in Nat /\ tag(name, k) <= n - 1
  <2>1. SUFFICES ASSUME NEW name \in RangeNames, NEW k \in DOMAIN ranges'[name]
                 PROVE  tag(name, k) \in Nat /\ tag(name, k) <= n - 1
    OBVIOUS
  <2>2. CASE k \in DOMAIN ranges[name] /\ ranges'[name][k] = ranges[name][k]
    <3>1. Tags(name, k) \in Nat /\ Tags(name, k) < n
      BY <1>5, <2>2, RangeFacts DEF RangeOrdered
    <3> QED BY <1>1, <2>2, <3>1 DEF Tags
  <2>3. CASE name \in names /\ ranges'[name][k] = r[name]
    <3>1. \A x \in TaggedRange : x.tag \in Nat
      BY DEF TaggedRange
    <3> QED BY <1>1, <1>3, <2>3, <3>1
  <2> QED BY <1>4, <2>2, <2>3
<1>7. \A name \in RangeNames : Len(ranges[name]) \in Nat /\ DOMAIN ranges[name] = 1 .. Len(ranges[name])
  BY RangeFacts
<1>8. \A name \in RangeNames : \E K \in Nat : DOMAIN ranges'[name] = 1 .. K
  <2>1. ranges' \in [RangeNames -> Seq(TaggedRange)]
    BY <1>3, RangesMore
  <2> HIDE DEF TaggedRange
  <2>2. \A s \in Seq(TaggedRange) : Len(s) \in Nat /\ DOMAIN s = 1 .. Len(s)
    OBVIOUS
  <2> QED BY <2>1, <2>2
<1>9. DOMAIN ranges' = RangeNames /\ DOMAIN ranges = RangeNames
  BY <1>3, RangesMore
<1> HIDE DEF n, tag
<1>10. ASSUME NEW name \in RangeNames, NEW k \in DOMAIN ranges'[name]
       PROVE  /\ tag(name, k) < n
              /\ \A i \in 1 .. k : tag(name, i) <= tag(name, k)
              /\ \A p \in Span(ranges'[name][k]) : \A j \in DOMAIN cycleEmits :
                   p < EndOf(j) => tag(name, k) <= j
  <2>1. tag(name, k) < n
    BY <1>1, <1>6
  <2>2. CASE k \in DOMAIN ranges[name] /\ ranges'[name][k] = ranges[name][k]
    <3>1. RangeOrdered(name, k) /\ tag(name, k) = Tags(name, k)
      BY <1>5, <2>2 DEF tag, Tags
    <3>2. \A i \in 1 .. k : tag(name, i) = Tags(name, i)
      <4>1. \A i \in 1 .. k : i \in 1 .. Len(ranges[name])
        BY <1>7, <2>2
      <4>2. \A i \in 1 .. k : i \in DOMAIN ranges'[name] /\ i # Len(ranges[name]) + 1
        <5>1. PICK K \in Nat : DOMAIN ranges'[name] = 1 .. K
          BY <1>8
        <5>2. k \in 1 .. K
          BY <5>1
        <5>3. \A i \in 1 .. k : i \in 1 .. K
          BY <5>2
        <5> QED BY <1>7, <4>1, <5>1, <5>3
      <4> QED BY <1>4, <4>2 DEF tag, Tags
    <3> QED BY <2>1, <2>2, <3>1, <3>2 DEF RangeOrdered
  <2>3. CASE name \in names /\ k = Len(ranges[name]) + 1 /\ ranges'[name][k] = r[name]
    <3>1. tag(name, k) = n - 1
      BY <1>3, <2>3 DEF tag
    <3>2. \A i \in 1 .. k : i \in DOMAIN ranges'[name]
      <4>1. PICK K \in Nat : DOMAIN ranges'[name] = 1 .. K
        BY <1>8
      <4>2. k \in 1 .. K
        BY <4>1
      <4> QED BY <4>1, <4>2
    <3>3. \A p \in Span(ranges'[name][k]) : \A j \in DOMAIN cycleEmits : ~ p < EndOf(j)
      <4>1. \A p \in Span(r[name]) : p \in Nat /\ gen.m.numEmitted <= p
        <5>1. \A x \in TaggedRange : Span(x) \subseteq Nat
          BY DEF TaggedRange, Span
        <5> QED BY <1>3, <2>3, <5>1
      <4>2. \A a, b, c \in Nat : a <= b /\ b <= c => ~ c < a
        OBVIOUS
      <4> QED BY <1>1, <1>2, <2>3, <4>1, <4>2
    <3> QED BY <1>6, <2>1, <3>1, <3>2, <3>3
  <2> QED BY <1>4, <2>2, <2>3
<1>11. \A name \in DOMAIN ranges' : \A k \in DOMAIN ranges'[name] :
        /\ ranges'[name][k].tag < Len(trace')
        /\ \A i \in 1 .. k : ranges'[name][i].tag <= ranges'[name][k].tag
        /\ \A p \in ranges'[name][k].lo .. ranges'[name][k].hi : \A j \in DOMAIN cycleEmits' :
             p < cycleEmits'[j].end => ranges'[name][k].tag <= j
  BY <1>1, <1>9, <1>10 DEF tag, n, Span, EndOf
<1> QED BY <1>11 DEF RangesOrdered

LEMMA RangesRight ==
  ASSUME IInv, IInv', CyclesOrdered, RangesOrdered, Moves, 1 \notin ShareCounts PROVE RangesOrdered'
<1>1. CASE Keeping /\ \E names, r : Allocated(names, r)
  BY <1>1, RangesAllocated
<1>2. CASE UNCHANGED ranges /\ (Prepares \/ Steps \/ Keeping)
  BY <1>2, RangesStay
<1> QED BY <1>1, <1>2 DEF Moves, Prepares, Steps

LEMMA OrderedFirst ==
  ASSUME Init PROVE CyclesOrdered /\ RangesOrdered
<1>1. cycleEmits = <<>> /\ gen.code = <<>> /\ \A name \in DOMAIN ranges : ranges[name] = <<>>
  BY DEF Init
<1>2. DOMAIN cycleEmits = {} /\ DOMAIN gen.code = {} /\ \A name \in DOMAIN ranges : DOMAIN ranges[name] = {}
  BY <1>1
<1> QED BY <1>2 DEF CyclesOrdered, RangesOrdered

-----------------------------------------------------------------------------
(* Filling: what is affected is what is filled or computed.                 *)

Hit(h, S, p) == p \in S \/ (p \in Computed /\ \E q \in ReadFor(p) : q < p /\ h[q])
Hits(h, S, V) == h = [p \in V |-> Hit(h, S, p)]

LEMMA ReadForNat ==
  ASSUME IInv, NEW p PROVE ReadFor(p) \subseteq Nat
<1>1. gen.code \in Seq(Seq(Statement))
  BY InvFacts DEF IsGen
<1>2. \A c \in DOMAIN gen.code : gen.code[c] \in Seq(Statement)
  BY <1>1
<1>3. ASSUME NEW c \in DOMAIN gen.code, NEW st \in Range(gen.code[c]) PROVE st.reads \subseteq Nat
  <2>1. PICK f : f = gen.code[c]
    OBVIOUS
  <2>2. f \in Seq(Statement) /\ st \in Range(f)
    BY <1>2, <1>3, <2>1
  <2>3. st \in Statement
    BY ONLY <2>2 DEF Range
  <2> QED BY <2>3 DEF Statement
<1> QED BY <1>3 DEF ReadFor

LEMMA HitsExist ==
  ASSUME IInv, NEW S, NEW N \in Nat PROVE \E h : Hits(h, S, 0 .. N - 1)
<1> DEFINE I == {k \in Nat : \E h : Hits(h, S, 0 .. k - 1)}
<1>1. 0 \in I
  <2>1. Hits([p \in {} |-> FALSE], S, 0 .. 0 - 1)
    BY DEF Hits
  <2> QED BY <2>1
<1>2. ASSUME NEW k \in Nat, k \in I PROVE k + 1 \in I
  <2>1. PICK r : Hits(r, S, 0 .. k - 1)
    BY <1>2
  <2> DEFINE V == 0 .. (k + 1) - 1
             s == [p \in V |-> Hit(r, S, p)]
  <2>2. ASSUME NEW p \in V PROVE Hit(s, S, p) <=> Hit(r, S, p)
    <3>1. \A q \in ReadFor(p) : q < p => q \in V /\ q \in 0 .. k - 1
      BY ReadForNat
    <3>2. \A q \in 0 .. k - 1 : r[q] = Hit(r, S, q)
      BY <2>1 DEF Hits
    <3>3. \A q \in ReadFor(p) : q < p => s[q] = r[q]
      BY <3>1, <3>2
    <3> HIDE DEF s
    <3> QED BY <3>3 DEF Hit
  <2>3. s = [p \in V |-> Hit(s, S, p)]
    <3>1. \A p \in V : s[p] = Hit(s, S, p)
      <4>1. \A p \in V : Hit(s, S, p) = Hit(r, S, p)
        BY <2>2 DEF Hit
      <4> QED BY <4>1
    <3>2. s = [p \in V |-> s[p]]
      OBVIOUS
    <3> QED BY <3>1, <3>2
  <2> HIDE DEF s
  <2> QED BY <2>3 DEF Hits
<1> HIDE DEF I
<1>3. N \in I
  BY <1>1, <1>2, Creating!SetInduction
<1> QED BY <1>3 DEF I

LEMMA AffectedFacts ==
  ASSUME IInv, NEW S, RunLength \in Nat
  PROVE  Affected(S) \subseteq S \cup Computed
<1> DEFINE h == CHOOSE h : Hits(h, S, Slots)
<1>1. \E k : Hits(k, S, Slots)
  BY HitsExist DEF Slots
<1>2. Hits(h, S, Slots)
  BY <1>1
<1>3. Affected(S) = {p \in Slots : h[p]}
  BY DEF Affected, Hits, Hit
<1> HIDE DEF h
<1>4. \A p \in Slots : h[p] => Hit(h, S, p)
  BY <1>2 DEF Hits
<1> QED BY <1>3, <1>4 DEF Hit

-----------------------------------------------------------------------------
(* What is generated when the testbench is over.                            *)

LEMMA GeneratedFacts ==
  ASSUME IInv, CyclesOrdered, phase = "generated"
  PROVE  LET n == Len(cycleEmits)
         IN  /\ n \in Nat /\ n >= 1 /\ Len(trace) = n + 1
             /\ DOMAIN cycleEmits = 1 .. n /\ DOMAIN gen.code = 1 .. n
             /\ RunLength = EndOf(n) /\ RunLength \in Nat /\ RunLength <= gen.m.numEmitted
             /\ \A j \in 1 .. n : /\ cycleEmits[j].tag = j /\ EndOf(j) \in Nat
                                  /\ EndOf(j) <= RunLength /\ EndOf(j) <= gen.m.numEmitted
<1> DEFINE n == Len(cycleEmits)
<1>1. ~prepared /\ cycleEmits # <<>> /\ cycleEmits \in Seq([end : Nat, tag : Nat])
  BY InvFacts DEF CallsRight
<1>2. /\ n \in Nat /\ Len(trace) = n + 1 /\ DOMAIN cycleEmits = 1 .. n /\ DOMAIN gen.code = 1 .. n
      /\ \A j \in 1 .. n : EndOf(j) \in Nat
  <2>1. Len(trace) \in Nat
    BY InvFacts
  <2>2. /\ n \in Nat /\ DOMAIN cycleEmits = 1 .. n /\ \A j \in DOMAIN cycleEmits : EndOf(j) \in Nat
        /\ Len(gen.code) = Len(trace) - 1 /\ DOMAIN gen.code = 1 .. Len(gen.code)
    BY OrderFacts
  <2>3. n = Len(trace) - 1
    BY <1>1, OrderFacts
  <2> HIDE DEF n
  <2> QED BY <2>1, <2>2, <2>3
<1>3. n >= 1
  BY <1>1, <1>2
<1>4. /\ \A j \in 1 .. n : cycleEmits[j].tag = j /\ EndOf(j) <= gen.m.numEmitted
      /\ \A i, j \in 1 .. n : i <= j => EndOf(i) <= EndOf(j)
  BY <1>2, CyclesOrderedOf
<1>5. RunLength = EndOf(n)
  BY DEF RunLength, Last, EndOf
<1>6. n \in 1 .. n /\ \A j \in 1 .. n : j <= n
  BY <1>2, <1>3
<1> HIDE DEF n
<1>7. /\ RunLength \in Nat /\ RunLength <= gen.m.numEmitted
      /\ \A j \in 1 .. n : EndOf(j) <= RunLength
  BY <1>2, <1>4, <1>5, <1>6
<1> QED BY <1>2, <1>3, <1>4, <1>5, <1>7 DEF n

(* The cycles that are counted are the first ones, up to cycles.            *)
LEMMA VisitedFacts ==
  ASSUME IInv, CyclesOrdered, phase = "generated", cycles \in Nat
  PROVE  LET V == MinOf(cycles, Len(cycleEmits))
         IN  /\ V \in Nat /\ V <= Len(cycleEmits) /\ V <= cycles
             /\ VisitedCycles = 1 .. V /\ Cardinality(VisitedCycles) = V
             /\ (cycles < Len(cycleEmits) => Called = V /\ V = cycles)
             /\ Called \in Nat /\ Called <= Len(cycleEmits)
<1> DEFINE n == Len(cycleEmits)
           V == MinOf(cycles, n)
<1>1. /\ n \in Nat /\ n >= 1 /\ Len(trace) = n + 1 /\ DOMAIN cycleEmits = 1 .. n
      /\ \A j \in 1 .. n : cycleEmits[j].tag = j
  BY GeneratedFacts
<1>2. VisitedCycles = {k \in 1 .. n : \A j \in 1 .. k : cycles # cycleEmits[j].tag - 1}
  BY <1>1 DEF VisitedCycles
<1> HIDE DEF n
<1>3. V \in Nat /\ V <= n /\ V <= cycles /\ (V = n \/ V = cycles)
  BY <1>1 DEF MinOf
<1>4. ASSUME NEW k \in 1 .. n PROVE (\A j \in 1 .. k : cycles # cycleEmits[j].tag - 1) <=> k <= V
  <2>1. \A j \in 1 .. k : j \in 1 .. n /\ cycleEmits[j].tag = j
    BY <1>1
  <2>2. (\A j \in 1 .. k : cycles # j - 1) <=> k <= cycles
    <3>1. ASSUME ~ k <= cycles PROVE cycles + 1 \in 1 .. k /\ cycles = (cycles + 1) - 1
      BY <1>1, <3>1
    <3>2. ASSUME k <= cycles, NEW j \in 1 .. k PROVE cycles # j - 1
      BY <1>1, <3>2
    <3> QED BY <3>1, <3>2
  <2>3. k <= cycles <=> k <= V
    BY <1>1 DEF MinOf
  <2> QED BY <2>1, <2>2, <2>3
<1>5. VisitedCycles = 1 .. V
  <2>1. \A k \in 1 .. n : k <= V <=> k \in 1 .. V
    BY <1>1, <1>3
  <2>2. 1 .. V \subseteq 1 .. n
    BY <1>1, <1>3
  <2> QED BY <1>2, <1>4, <2>1, <2>2
<1>6. Called = MinOf(cycles, n - 1)
  BY <1>1 DEF Called
<1>7. Called \in Nat /\ Called <= n /\ (cycles < n => Called = V /\ V = cycles)
  BY <1>1, <1>6 DEF MinOf
<1> HIDE DEF V
<1>8. Cardinality(1 .. V) = V
  <2>1. 1 \in Int /\ V \in Int /\ (IF 1 > V THEN 0 ELSE V - 1 + 1) = V
    BY <1>3
  <2> QED BY <2>1, FS_Interval
<1> QED BY <1>3, <1>5, <1>7, <1>8 DEF n, V

(* Every slot that is counted is of one cycle.                              *)
LEMMA CountedFacts ==
  ASSUME IInv, CyclesOrdered, phase = "generated", cycles \in Nat
  PROVE  /\ CountedSlots \subseteq Slots
         /\ \A p \in CountedSlots : /\ MinOf(cycles, Len(cycleEmits)) >= 1
                                    /\ p \in Nat /\ p < EndOf(MinOf(cycles, Len(cycleEmits)))
         /\ \A p \in Slots : Cardinality({n \in VisitedCycles : p \in CycleSlots(n)})
                               = IF p \in CountedSlots THEN 1 ELSE 0
<1> DEFINE L == Len(cycleEmits)
           V == MinOf(cycles, L)
<1>1. /\ L \in Nat /\ V \in Nat /\ V <= L /\ VisitedCycles = 1 .. V
      /\ \A j \in 1 .. L : EndOf(j) \in Nat /\ EndOf(j) <= RunLength
      /\ RunLength \in Nat
  BY GeneratedFacts, VisitedFacts
<1>2. \A i, j \in 1 .. L : i <= j => EndOf(i) <= EndOf(j)
  BY GeneratedFacts, CyclesOrderedOf
<1>3. \A n : CycleSlots(n) = StartOf(n) .. EndOf(n) - 1 /\ StartOf(n) = (IF n = 1 THEN 0 ELSE EndOf(n - 1))
  BY DEF CycleSlots, StartOf, EndOf
<1>4. CountedSlots = UNION {CycleSlots(n) : n \in 1 .. V}
  BY <1>1 DEF CountedSlots
<1> HIDE DEF L, V
<1>5. \A n \in 1 .. V : n \in 1 .. L /\ V \in 1 .. L /\ V >= 1 /\ n <= V /\ (n # 1 => n - 1 \in 1 .. L)
  BY <1>1
<1>6. ASSUME NEW n \in 1 .. V, NEW p \in CycleSlots(n)
      PROVE  p \in Nat /\ StartOf(n) <= p /\ p < EndOf(n) /\ p < EndOf(V) /\ p \in Slots
  <2>1. EndOf(n) \in Nat /\ EndOf(n) <= EndOf(V) /\ EndOf(V) \in Nat /\ EndOf(n) <= RunLength
    BY <1>1, <1>2, <1>5
  <2>2. StartOf(n) \in Nat
    BY <1>1, <1>3, <1>5
  <2>3. p \in StartOf(n) .. EndOf(n) - 1
    BY <1>3, <1>6
  <2>4. \A a, b, c, d \in Nat : p \in a .. b - 1 /\ b <= c /\ b <= d =>
          p \in Nat /\ a <= p /\ p < b /\ p < c /\ p \in 0 .. d - 1
    OBVIOUS
  <2> QED BY <1>1, <2>1, <2>2, <2>3, <2>4 DEF Slots
<1>7. ASSUME NEW i \in 1 .. V, NEW j \in 1 .. V, NEW p, p \in CycleSlots(i), p \in CycleSlots(j), i < j PROVE FALSE
  <2>1. StartOf(j) = EndOf(j - 1) /\ j - 1 \in 1 .. L /\ i <= j - 1
    <3>1. j # 1 /\ i <= j - 1
      BY <1>1, <1>7
    <3> QED BY <1>3, <1>5, <3>1
  <2>2. EndOf(i) <= EndOf(j - 1) /\ EndOf(i) \in Nat /\ EndOf(j - 1) \in Nat
    BY <1>1, <1>2, <1>5, <2>1
  <2>3. p \in Nat /\ p < EndOf(i) /\ EndOf(j - 1) <= p
    BY <1>6, <1>7, <2>1
  <2> QED BY <2>2, <2>3
<1>8. ASSUME NEW p \in Slots
      PROVE  Cardinality({n \in 1 .. V : p \in CycleSlots(n)}) = IF p \in CountedSlots THEN 1 ELSE 0
  <2> DEFINE N == {n \in 1 .. V : p \in CycleSlots(n)}
  <2>1. CASE p \in CountedSlots
    <3>1. PICK n \in 1 .. V : p \in CycleSlots(n)
      BY <1>4, <2>1
    <3>2. \A j \in 1 .. V : p \in CycleSlots(j) => j = n
      <4>1. \A j \in 1 .. V : j < n \/ n < j \/ j = n
        BY <1>1
      <4> QED BY <1>7, <3>1, <4>1
    <3>3. N = {n}
      BY <3>1, <3>2
    <3>4. Cardinality({n}) = 1
      BY FS_Singleton
    <3> QED BY <2>1, <3>3, <3>4
  <2>2. CASE p \notin CountedSlots
    <3>1. N = {}
      BY <1>4, <2>2
    <3> QED BY <2>2, <3>1, FS_EmptySet
  <2> QED BY <2>1, <2>2
<1>9. \A p \in CountedSlots : V >= 1 /\ p \in Nat /\ p < EndOf(V) /\ p \in Slots
  BY <1>4, <1>5, <1>6
<1> QED BY <1>1, <1>8, <1>9 DEF V, L

(* The ranges that are filled are all that have slots of the cycles run.    *)
LEMMA FilledFacts ==
  ASSUME IInv, SourcesRight, NEW name \in RangeNames
  PROVE  /\ Filled(name) \subseteq RangeSlots(name)
         /\ Filled(name) \cap Computed = {}
         /\ \A other \in RangeNames : other # name => Filled(name) \cap Filled(other) = {}
<1>1. DOMAIN ranges = RangeNames
  BY RangeFacts
<1>2. \A nm : Visited(nm) \subseteq DOMAIN ranges[nm]
  BY DEF Visited
<1>3. \A nm : Filled(nm) \subseteq RangeSlots(nm)
  BY <1>2 DEF Filled, RangeSlots
<1>4. \A nm \in RangeNames : RangeSlots(nm) \cap Computed = {}
  BY <1>1 DEF SourcesRight, Computed
<1>5. ASSUME NEW other \in RangeNames, other # name, NEW p \in RangeSlots(name), p \in RangeSlots(other) PROVE FALSE
  <2>1. PICK k \in DOMAIN ranges[name] : p \in ranges[name][k].lo .. ranges[name][k].hi
    BY <1>5 DEF RangeSlots
  <2>2. PICK j \in DOMAIN ranges[other] : p \in ranges[other][j].lo .. ranges[other][j].hi
    BY <1>5 DEF RangeSlots
  <2>3. <<name, k>> # <<other, j>>
    BY <1>5
  <2> QED BY <1>1, <2>1, <2>2, <2>3 DEF SourcesRight
<1> QED BY <1>3, <1>4, <1>5

LEMMA FilledReach ==
  ASSUME IInv, RangesOrdered, cycles \in Nat, NEW name \in RangeNames, NEW j \in DOMAIN cycleEmits, j <= cycles,
         j \in Nat, NEW p \in RangeSlots(name), p < EndOf(j)
  PROVE  p \in Filled(name)
<1>1. PICK k \in DOMAIN ranges[name] : p \in Span(ranges[name][k])
  BY DEF RangeSlots, Span
<1>2. RangeOrdered(name, k)
  BY RangeFacts, RangesOrderedOf
<1>3. \A i \in 1 .. k : Tags(name, i) \in Nat /\ Tags(name, i) <= Tags(name, k)
  <2>1. \A i \in 1 .. k : i \in DOMAIN ranges[name]
    BY RangeFacts
  <2> QED BY <1>2, <2>1, RangeFacts DEF RangeOrdered
<1>4. Tags(name, k) \in Nat /\ Tags(name, k) <= j
  BY <1>1, <1>2, RangeFacts DEF RangeOrdered
<1>5. \A i \in 1 .. k : cycles >= Tags(name, i)
  <2>1. \A a, b, c, d \in Nat : a <= b /\ b <= c /\ c <= d => d >= a
    OBVIOUS
  <2> QED BY <1>3, <1>4, <2>1
<1>6. k \in Visited(name)
  BY <1>5 DEF Visited, Tags
<1> QED BY <1>1, <1>6 DEF Filled, Span

LEMMA FillFacts ==
  ASSUME IInv, SourcesRight, RunLength \in Nat, NEW name \in RangeNames, Fill(Filled(name))
  PROVE  /\ Inputs(name) \subseteq current'
         /\ \A other \in RangeNames : Inputs(other) \subseteq current => Inputs(other) \subseteq current'
<1>1. current' = (current \ Affected(Filled(name))) \cup (Filled(name) \cap (Slots \ Computed))
  BY DEF Fill
<1>2. Affected(Filled(name)) \subseteq Filled(name) \cup Computed
  BY AffectedFacts
<1>3. Inputs(name) \subseteq current'
  BY <1>1, FilledFacts DEF Inputs
<1>4. \A other \in RangeNames : other # name => Inputs(other) \cap Affected(Filled(name)) = {}
  BY <1>2, FilledFacts DEF Inputs
<1> QED BY <1>1, <1>3, <1>4

-----------------------------------------------------------------------------
(* Running the cycles.                                                      *)

LEMMA ExecuteFold ==
  ASSUME NEW base, NEW seq PROVE FoldLeft(Execute, base, seq) = Executing!Fold(base, seq)
  BY DEF FoldLeft, MapThenFoldSet, Max, Executing!Fold, Executing!IsIter, Executing!Step, Executing!Greatest

LEMMA RunFold ==
  ASSUME NEW base, NEW seq PROVE FoldLeft(RunCycle, base, seq) = Running!Fold(base, seq)
  BY DEF FoldLeft, MapThenFoldSet, Max, Running!Fold, Running!IsIter, Running!Step, Running!Greatest

(* The slots of the statements after the first k of function c, and what is *)
(* missing of the slots below n: only what comes later.                     *)
After(c, k) ==
  {p \in Nat : \E b \in DOMAIN gen.code : \E j \in DOMAIN gen.code[b] :
                 gen.code[b][j].slot = p /\ (c < b \/ (c = b /\ k < j))}
Lacks(now, n, c, k) == (0 .. n - 1) \ now \subseteq After(c, k)

(* A statement, when nothing before it is missing.                          *)
LEMMA ExecuteRight ==
  ASSUME IInv, NEW c \in DOMAIN gen.code, NEW k \in Nat, k + 1 \in DOMAIN gen.code[c],
         NEW n \in Nat, NEW now, Lacks(now, n, c, k), gen.code[c][k + 1].slot < n
  PROVE  /\ Lacks(Execute(now, gen.code[c][k + 1]), n, c, k + 1)
         /\ \A S : S \subseteq now /\ S \cap Computed = {} => S \subseteq Execute(now, gen.code[c][k + 1])
<1> DEFINE st == gen.code[c][k + 1]
           s == st.slot
<1>1. gen.code \in Seq(Seq(Statement)) /\ InOrder(gen.code)
  BY InvFacts DEF IsGen
<1>2. \A b \in DOMAIN gen.code : \A j \in DOMAIN gen.code[b] :
        b \in Nat /\ b >= 1 /\ j \in Nat /\ gen.code[b][j].slot \in Nat /\ gen.code[b][j].reads \subseteq Nat
  <2>1. SUFFICES ASSUME NEW b \in DOMAIN gen.code, NEW j \in DOMAIN gen.code[b]
                 PROVE  b \in Nat /\ b >= 1 /\ j \in Nat /\ gen.code[b][j].slot \in Nat /\ gen.code[b][j].reads \subseteq Nat
    OBVIOUS
  <2>2. b \in Nat /\ b >= 1 /\ j \in Nat
    BY <1>1, PlaceNumbers
  <2>3. PICK f : f = gen.code[b]
    OBVIOUS
  <2>4. f \in Seq(Statement) /\ j \in DOMAIN f
    BY <1>1, <2>3
  <2>5. f[j] \in Statement
    BY ONLY <2>4
  <2>6. f[j].slot \in Nat /\ f[j].reads \subseteq Nat
    BY ONLY <2>5 DEF Statement
  <2> QED BY <2>2, <2>3, <2>6
<1>3. s \in Nat /\ s < n /\ st.reads \subseteq 0 .. s - 1
  BY <1>1, <1>2 DEF InOrder
<1>4. ASSUME NEW p \in After(c, k) PROVE p = s \/ (p > s /\ p \in After(c, k + 1))
  <2>0. PICK b \in DOMAIN gen.code : \E j \in DOMAIN gen.code[b] :
          gen.code[b][j].slot = p /\ (c < b \/ (c = b /\ k < j))
    BY <1>4 DEF After
  <2>1. PICK j \in DOMAIN gen.code[b] : gen.code[b][j].slot = p /\ (c < b \/ (c = b /\ k < j))
    BY <2>0
  <2>2. b \in Nat /\ j \in Nat /\ c \in Nat /\ c >= 1 /\ p \in Nat
    BY <1>2, <2>1
  <2>3. (c = b /\ k + 1 = j) \/ c < b \/ (c = b /\ k + 1 < j)
    BY <2>1, <2>2
  <2>4. CASE c = b /\ k + 1 = j
    BY <2>1, <2>4
  <2>5. CASE c < b \/ (c = b /\ k + 1 < j)
    <3>1. c \in 1 .. b
      BY <2>2, <2>5
    <3>2. s < p
      BY <1>1, <2>1, <2>5, <3>1 DEF InOrder
    <3>3. p \in After(c, k + 1)
      BY <2>1, <2>2, <2>5 DEF After
    <3> QED BY <1>3, <2>2, <3>2, <3>3
  <2> QED BY <2>3, <2>4, <2>5
<1> HIDE DEF st, s
<1>5. st.reads \subseteq now
  <2>1. ASSUME NEW p \in st.reads, p \notin now PROVE FALSE
    <3>1. p \in 0 .. n - 1 /\ p \in Nat /\ p < s
      BY <1>3, <2>1
    <3>2. p \in After(c, k)
      BY <2>1, <3>1 DEF Lacks
    <3> QED BY <1>3, <1>4, <3>1, <3>2
  <2> QED BY <2>1
<1>6. Execute(now, st) = now \cup {s}
  BY <1>5 DEF Execute, s
<1>7. Lacks(now \cup {s}, n, c, k + 1)
  BY <1>4 DEF Lacks
<1> QED BY <1>6, <1>7 DEF st

(* The function of cycle c, when nothing of the cycles before is missing.   *)
LEMMA RunCycleRight ==
  ASSUME IInv, NEW c \in DOMAIN gen.code, NEW n \in Nat, NEW now, Lacks(now, n, c, 0),
         \A p \in CodeSlots(gen.code, c) : p < n
  PROVE  /\ Lacks(RunCycle(now, c - 1), n, c + 1, 0)
         /\ \A S : S \subseteq now /\ S \cap Computed = {} => S \subseteq RunCycle(now, c - 1)
<1> DEFINE seq == gen.code[c]
           N == Len(seq)
<1>1. gen.code \in Seq(Seq(Statement)) /\ c \in Nat /\ DOMAIN gen.code = 1 .. Len(gen.code)
  BY InvFacts DEF IsGen
<1>2. N \in Nat /\ DOMAIN seq = 1 .. N
  <2>1. seq \in Seq(Statement)
    BY <1>1
  <2> HIDE DEF seq
  <2> QED BY <2>1
<1>3. RunCycle(now, c - 1) = Executing!Fold(now, seq)
  <2>1. (c - 1) + 1 = c
    BY <1>1
  <2> QED BY <2>1, ExecuteFold DEF RunCycle
<1>4. PICK f : Executing!Values(f, now, seq, N) /\ Executing!Fold(now, seq) = f[N]
  BY <1>2, Executing!FoldValues
<1>5. f[0] = now /\ \A k \in 0 .. N - 1 : f[k + 1] = Execute(f[k], seq[k + 1])
  BY <1>4 DEF Executing!Values
<1> DEFINE Good(k) == /\ Lacks(f[k], n, c, k)
                      /\ \A S : S \subseteq now /\ S \cap Computed = {} => S \subseteq f[k]
           I == {k \in Nat : k <= N => Good(k)}
<1>6. 0 \in I
  BY <1>5
<1>7. ASSUME NEW k \in Nat, k \in I PROVE k + 1 \in I
  <2>1. SUFFICES ASSUME k + 1 <= N PROVE Good(k + 1)
    OBVIOUS
  <2>2. Good(k) /\ k \in 0 .. N - 1 /\ k + 1 \in DOMAIN gen.code[c]
    BY <1>2, <1>7, <2>1
  <2>3. gen.code[c][k + 1].slot < n
    BY <2>2 DEF CodeSlots
  <2> DEFINE was == f[k]
  <2>4. Lacks(was, n, c, k)
    BY <2>2
  <2>5. f[k + 1] = Execute(was, gen.code[c][k + 1])
    BY <1>5, <2>2
  <2>6. \A S : S \subseteq now /\ S \cap Computed = {} => S \subseteq was
    BY <2>2
  <2> HIDE DEF was
  <2>7. /\ Lacks(Execute(was, gen.code[c][k + 1]), n, c, k + 1)
        /\ \A S : S \subseteq was /\ S \cap Computed = {} => S \subseteq Execute(was, gen.code[c][k + 1])
    BY ONLY IInv, c \in DOMAIN gen.code, k \in Nat, n \in Nat, <2>2, <2>3, <2>4, ExecuteRight
  <2> QED BY <2>5, <2>6, <2>7
<1> HIDE DEF I
<1>8. N \in I
  BY <1>2, <1>6, <1>7, Creating!SetInduction
<1>9. Good(N)
  BY <1>2, <1>8 DEF I
<1>10. After(c, N) \subseteq After(c + 1, 0)
  <2>1. \A b \in DOMAIN gen.code : \A j \in DOMAIN gen.code[b] : b \in Nat /\ j \in Nat /\ j >= 1
    <3>1. SUFFICES ASSUME NEW b \in DOMAIN gen.code, NEW j \in DOMAIN gen.code[b] PROVE b \in Nat /\ j \in Nat /\ j >= 1
      OBVIOUS
    <3>2. PICK g : g = gen.code[b]
      OBVIOUS
    <3>3. g \in Seq(Statement) /\ j \in DOMAIN g
      BY <1>1, <3>2
    <3>4. j \in Nat /\ j >= 1
      BY ONLY <3>3
    <3> QED BY <1>1, <3>4
  <2>2. ~ \E j \in DOMAIN gen.code[c] : N < j
    BY <1>2
  <2>3. \A b \in DOMAIN gen.code : \A j \in DOMAIN gen.code[b] :
          c < b \/ (c = b /\ N < j) => c + 1 < b \/ (c + 1 = b /\ 0 < j)
    BY <1>1, <2>1, <2>2
  <2> HIDE DEF N
  <2> QED BY <2>3 DEF After
<1> QED BY <1>3, <1>4, <1>9, <1>10 DEF Lacks

(* All cycles up to n, when nothing but what they compute is missing.       *)
LEMMA RunRight ==
  ASSUME IInv, CyclesOrdered, phase = "generated", NEW n \in Nat, n >= 1, n <= Len(cycleEmits),
         NEW now, (0 .. EndOf(n) - 1) \ now \subseteq Computed
  PROVE  /\ 0 .. EndOf(n) - 1 \subseteq RunCycles(now, n)
         /\ \A S : S \subseteq now /\ S \cap Computed = {} => S \subseteq RunCycles(now, n)
<1> DEFINE seq == [k \in 1 .. n |-> k - 1]
           E == EndOf(n)
           L == Len(cycleEmits)
<1>1. /\ L \in Nat /\ DOMAIN gen.code = 1 .. L /\ DOMAIN cycleEmits = 1 .. L /\ n \in 1 .. L /\ E \in Nat
  <2>1. /\ L \in Nat /\ DOMAIN gen.code = 1 .. L /\ DOMAIN cycleEmits = 1 .. L
        /\ \A j \in 1 .. L : EndOf(j) \in Nat
    BY GeneratedFacts
  <2> QED BY <2>1
<1>2. \A c \in DOMAIN gen.code : \A p \in CodeSlots(gen.code, c) : p \in Nat /\ (p < E <=> c <= n)
  <2>1. \A c \in DOMAIN gen.code : CodeSlots(gen.code, c) \subseteq Nat
    <3>1. gen.m.numEmitted \in Nat
      BY InvFacts
    <3> QED BY <3>1, OrderFacts
  <2> QED BY <1>1, <2>1, CyclesOrderedOf
<1> HIDE DEF L
<1>3. RunCycles(now, n) = Running!Fold(now, seq)
  BY RunFold DEF RunCycles
<1>4. DOMAIN seq = 1 .. n /\ \A k \in 0 .. n - 1 : seq[k + 1] = (k + 1) - 1 /\ k + 1 \in 1 .. L /\ k + 1 <= n
  BY <1>1
<1> HIDE DEF seq, E
<1>5. PICK f : Running!Values(f, now, seq, n) /\ Running!Fold(now, seq) = f[n]
  BY <1>4, Running!FoldValues
<1>6. f[0] = now /\ \A k \in 0 .. n - 1 : f[k + 1] = RunCycle(f[k], (k + 1) - 1)
  BY <1>4, <1>5 DEF Running!Values
<1> DEFINE Good(k) == /\ Lacks(f[k], E, k + 1, 0)
                      /\ \A S : S \subseteq now /\ S \cap Computed = {} => S \subseteq f[k]
           I == {k \in Nat : k <= n => Good(k)}
<1>7. 0 \in I
  <2>1. \A p \in Computed : p \in After(0 + 1, 0)
    <3>1. SUFFICES ASSUME NEW p \in Computed PROVE p \in After(0 + 1, 0)
      OBVIOUS
    <3>2. PICK b \in DOMAIN gen.code : p \in CodeSlots(gen.code, b)
      BY DEF Computed, Written, CodeSlots
    <3>3. PICK j \in DOMAIN gen.code[b] : gen.code[b][j].slot = p
      BY <3>2 DEF CodeSlots
    <3>4. b \in Nat /\ b >= 1 /\ j \in Nat /\ j >= 1
      <4>1. gen.code \in Seq(Seq(Statement))
        BY InvFacts DEF IsGen
      <4>2. PICK g : g = gen.code[b]
        OBVIOUS
      <4>3. g \in Seq(Statement) /\ j \in DOMAIN g
        BY <4>1, <4>2
      <4>4. j \in Nat /\ j >= 1
        BY ONLY <4>3
      <4> QED BY <1>1, <4>4
    <3>5. 0 + 1 < b \/ (0 + 1 = b /\ 0 < j)
      BY <3>4
    <3>6. p \in Nat
      BY <1>2, <3>2
    <3> QED BY <3>3, <3>5, <3>6 DEF After
  <2>2. Lacks(now, E, 0 + 1, 0)
    BY <2>1 DEF Lacks, E
  <2> QED BY <1>6, <2>2
<1>8. ASSUME NEW k \in Nat, k \in I PROVE k + 1 \in I
  <2>1. SUFFICES ASSUME k + 1 <= n PROVE Good(k + 1)
    OBVIOUS
  <2>2. Good(k) /\ k \in 0 .. n - 1
    BY <1>8, <2>1
  <2> DEFINE was == f[k]
             c == k + 1
  <2>3. /\ Lacks(was, E, c, 0) /\ c \in DOMAIN gen.code /\ c <= n /\ f[k + 1] = RunCycle(was, c - 1)
        /\ \A S : S \subseteq now /\ S \cap Computed = {} => S \subseteq was
    BY <1>1, <1>4, <1>6, <2>2
  <2>4. \A p \in CodeSlots(gen.code, c) : p < E
    BY <1>2, <2>3
  <2> HIDE DEF was, c
  <2>5. /\ Lacks(RunCycle(was, c - 1), E, c + 1, 0)
        /\ \A S : S \subseteq was /\ S \cap Computed = {} => S \subseteq RunCycle(was, c - 1)
    BY ONLY IInv, <1>1, <2>3, <2>4, RunCycleRight
  <2>6. Lacks(f[k + 1], E, c + 1, 0)
    BY <2>3, <2>5
  <2> QED BY <2>3, <2>5, <2>6 DEF c
<1> HIDE DEF I
<1>9. n \in I
  BY <1>7, <1>8, Creating!SetInduction
<1>10. Good(n)
  BY <1>9 DEF I
<1>11. After(n + 1, 0) \cap (0 .. E - 1) = {}
  <2>1. ASSUME NEW p \in After(n + 1, 0), p \in 0 .. E - 1 PROVE FALSE
    <3>1. PICK b \in DOMAIN gen.code : \E j \in DOMAIN gen.code[b] :
            gen.code[b][j].slot = p /\ (n + 1 < b \/ (n + 1 = b /\ 0 < j))
      BY <2>1 DEF After
    <3>2. p \in CodeSlots(gen.code, b) /\ ~ b <= n
      BY <1>1, <3>1 DEF CodeSlots
    <3> QED BY <1>1, <1>2, <2>1, <3>2
  <2> QED BY <2>1
<1>12. 0 .. E - 1 \subseteq f[n]
  BY <1>10, <1>11 DEF Lacks
<1> QED BY <1>3, <1>5, <1>10, <1>12 DEF E

LEMMA RunNone ==
  ASSUME NEW now PROVE RunCycles(now, 0) = now
<1> DEFINE seq == [k \in 1 .. 0 |-> k - 1]
<1>1. RunCycles(now, 0) = Running!Fold(now, seq) /\ DOMAIN seq = 1 .. 0
  BY RunFold DEF RunCycles
<1> HIDE DEF seq
<1>2. PICK f : Running!Values(f, now, seq, 0) /\ Running!Fold(now, seq) = f[0]
  BY <1>1, Running!FoldValues
<1> QED BY <1>1, <1>2 DEF Running!Values

(* With the inputs of a sample, the cycles up to n compute all their slots. *)
LEMMA RunReaches ==
  ASSUME IInv, CyclesOrdered, RangesOrdered, SourcesRight, phase = "generated", cycles \in Nat,
         \A name \in RangeNames : Inputs(name) \subseteq current,
         NEW n \in Nat, n <= cycles, n <= Len(cycleEmits)
  PROVE  /\ n >= 1 => 0 .. EndOf(n) - 1 \subseteq RunCycles(current, n)
         /\ \A name \in RangeNames : Inputs(name) \subseteq RunCycles(current, n)
<1>1. CASE n = 0
  BY <1>1, RunNone
<1>2. CASE n >= 1
  <2> DEFINE L == Len(cycleEmits)
             e == gen.m.numEmitted
  <2>1. /\ L \in Nat /\ DOMAIN cycleEmits = 1 .. L /\ n \in 1 .. L
        /\ EndOf(n) \in Nat /\ EndOf(n) <= e /\ EndOf(n) <= RunLength /\ RunLength \in Nat /\ e \in Nat
    <3>1. /\ L \in Nat /\ DOMAIN cycleEmits = 1 .. L /\ RunLength \in Nat
          /\ \A j \in 1 .. L : EndOf(j) \in Nat /\ EndOf(j) <= RunLength /\ EndOf(j) <= e
      BY GeneratedFacts
    <3>2. n \in 1 .. L
      BY <1>2, <3>1
    <3> QED BY <3>1, <3>2, InvFacts
  <2>2. ASSUME NEW p \in 0 .. EndOf(n) - 1, p \notin current PROVE p \in Computed
    <3>1. p < EndOf(n) /\ p \in 0 .. e - 1 /\ p \in Slots
      BY <2>1 DEF Slots
    <3>2. DOMAIN ranges = RangeNames
      BY RangeFacts
    <3>3. p \in Computed \/ \E name \in RangeNames : p \in RangeSlots(name)
      BY <3>1, <3>2 DEF SourcesRight, Computed
    <3>4. ASSUME NEW name \in RangeNames, p \in RangeSlots(name) PROVE FALSE
      <4>1. p \in Filled(name)
        BY <2>1, <3>1, <3>4, FilledReach
      <4> QED BY <2>2, <3>1, <4>1 DEF Inputs
    <3> QED BY <3>3, <3>4
  <2>3. (0 .. EndOf(n) - 1) \ current \subseteq Computed
    BY <2>2
  <2>4. \A name \in RangeNames : Inputs(name) \subseteq current /\ Inputs(name) \cap Computed = {}
    BY FilledFacts DEF Inputs
  <2> HIDE DEF L, e
  <2>5. /\ 0 .. EndOf(n) - 1 \subseteq RunCycles(current, n)
        /\ \A S : S \subseteq current /\ S \cap Computed = {} => S \subseteq RunCycles(current, n)
    BY <1>2, <2>3, RunRight
  <2> QED BY <2>4, <2>5
<1> QED BY <1>1, <1>2

-----------------------------------------------------------------------------
(* The calls of run_once.                                                   *)

Sane == ~Retries /\ 1 \notin ShareCounts

(* A call leaves the generated code and what depends on it alone.           *)
LEMMA CodeStays ==
  ASSUME UNCHANGED <<simVars, cycles>>
  PROVE  /\ UNCHANGED <<gen, trace, ranges, cycleEmits, phase>>
         /\ Slots' = Slots /\ CountedSlots' = CountedSlots
         /\ \A name : Filled(name)' = Filled(name) /\ Inputs(name)' = Inputs(name)
         /\ CyclesOrdered => CyclesOrdered'
         /\ RangesOrdered => RangesOrdered'
<1>1. UNCHANGED <<gen, trace, ranges, cycleEmits, phase, cycles>>
  BY DEF simVars
<1>2. Slots' = Slots
  BY <1>1 DEF Slots, RunLength
<1>3. CountedSlots' = CountedSlots
  BY <1>1 DEF CountedSlots, VisitedCycles, CycleSlots, StartOf
<1>4. \A name : Visited(name)' = Visited(name)
  BY <1>1 DEF Visited
<1>5. \A name : Filled(name)' = Filled(name)
  BY <1>1, <1>4 DEF Filled
<1>6. \A name : Inputs(name)' = Inputs(name)
  BY <1>2, <1>5 DEF Inputs
<1>7. CyclesOrdered => CyclesOrdered'
  BY <1>1 DEF CyclesOrdered
<1>8. RangesOrdered => RangesOrdered'
  BY <1>1 DEF RangesOrdered
<1> QED BY <1>1, <1>2, <1>3, <1>5, <1>6, <1>7, <1>8

LEMMA CallFacts ==
  ASSUME RunIInv, NEW call, At(call)
  PROVE  /\ phase = "generated" /\ phase' = "generated" /\ pc = call /\ UNCHANGED <<simVars, cycles, cycleEmits>>
         /\ IInv /\ IInv' /\ CyclesOrdered /\ CyclesOrdered' /\ OrderRight
         /\ RunLength \in Nat /\ cycles \in Nat /\ Len(cycleEmits) \in Nat
         /\ (1 \notin ShareCounts => RangesOrdered /\ RangesOrdered')
         /\ (Sane => SourcesRight /\ RangesOrdered /\ InputsCurrent /\ FixedStays /\ CountedIsCurrent)
         /\ Slots' = Slots /\ CountedSlots' = CountedSlots
         /\ \A name : Filled(name)' = Filled(name) /\ Inputs(name)' = Inputs(name)
<1>1. phase = "generated" /\ pc = call /\ UNCHANGED <<simVars, cycles>>
  BY DEF At
<1>2. IInv /\ CyclesOrdered /\ OrderRight
  BY DEF RunIInv
<1>3. IInv'
  BY <1>1, <1>2, StepRight
<1>4. RunLength \in Nat /\ Len(cycleEmits) \in Nat
  BY <1>1, <1>2, GeneratedFacts
<1> QED BY <1>1, <1>2, <1>3, <1>4, CodeStays DEF RunIInv, IInv, Sane, OrderRight, simVars

(* The disjointness that keeps fixed values, and what a fill leaves.        *)
LEMMA CallFills ==
  ASSUME RunIInv, NEW call, At(call), Sane, NEW name \in RangeNames, Fill(Filled(name))
  PROVE  /\ Inputs(name)' \subseteq current'
         /\ \A other \in RangeNames : Inputs(other) \subseteq current => Inputs(other)' \subseteq current'
         /\ \A other \in RangeNames : other # name => Filled(name) \cap Filled(other) = {}
<1>1. IInv /\ SourcesRight /\ RunLength \in Nat
  BY CallFacts
<1> QED BY <1>1, CallFacts, FillFacts, FilledFacts

LEMMA FixRandomDataRight ==
  ASSUME RunIInv, FixRandomData PROVE RunIInv'
<1>1. /\ At("fix_random_data") /\ Fill(Filled("data")) /\ fixed' = Filled("data") /\ ZeroCount
      /\ pc' = "randomize_secrets" /\ UNCHANGED <<sample, secret, stale>>
  BY DEF FixRandomData
<1>2. OrderRight'
  BY <1>1, CallFacts DEF OrderRight, ZeroCount
<1>3. CountedOncePerSample'
  <2>1. \A p \in DOMAIN count' : count'[p] = 0
    BY <1>1 DEF ZeroCount
  <2>2. sample' = 0
    BY <1>1, CallFacts DEF OrderRight
  <2> QED BY <2>1, <2>2 DEF CountedOncePerSample
<1>4. ASSUME Sane PROVE InputsCurrent' /\ FixedStays' /\ CountedIsCurrent'
  <2>1. Inputs("data")' \subseteq current'
    BY <1>1, <1>4, CallFills DEF RangeNames, Kind
  <2>2. Filled("data")' \subseteq fixed'
    BY <1>1, CallFacts
  <2> QED BY <1>1, <1>4, <2>1, <2>2, CallFacts DEF InputsCurrent, FixedStays, CountedIsCurrent
<1> QED BY <1>1, <1>2, <1>3, <1>4, CallFacts DEF RunIInv, Sane

LEMMA RandomizeSecretsRight ==
  ASSUME RunIInv, RandomizeSecrets PROVE RunIInv'
<1>1. /\ At("randomize_secrets") /\ Fill(Filled("secret")) /\ fixed' = fixed \ Filled("secret")
      /\ pc' = "randomize_masks" /\ UNCHANGED <<sample, secret, count, drawn, stale>>
  BY DEF RandomizeSecrets
<1>2. OrderRight'
  BY <1>1, CallFacts DEF OrderRight
<1>3. CountedOncePerSample'
  BY <1>1, CallFacts DEF CountedOncePerSample, RunIInv
<1>4. ASSUME Sane PROVE InputsCurrent' /\ FixedStays' /\ CountedIsCurrent'
  <2>1. Inputs("data") \subseteq current /\ Filled("data") \subseteq fixed
    BY <1>1, <1>4, CallFacts DEF InputsCurrent, FixedStays
  <2>2. Inputs("secret")' \subseteq current' /\ Inputs("data")' \subseteq current'
    BY <1>1, <1>4, <2>1, CallFills DEF RangeNames, Kind
  <2>3. Filled("data")' \subseteq fixed'
    BY <1>1, <1>4, <2>1, CallFacts, CallFills DEF RangeNames, Kind
  <2> QED BY <1>1, <1>4, <2>2, <2>3, CallFacts DEF InputsCurrent, FixedStays, CountedIsCurrent
<1> QED BY <1>1, <1>2, <1>3, <1>4, CallFacts DEF RunIInv, Sane

LEMMA RandomizeMasksRight ==
  ASSUME RunIInv, RandomizeMasks PROVE RunIInv'
<1>1. /\ At("randomize_masks") /\ Fill(Filled("mask")) /\ fixed' = fixed \ Filled("mask")
      /\ pc' = "run_circuit" /\ UNCHANGED <<sample, secret, count, drawn, stale>>
  BY DEF RandomizeMasks
<1>2. OrderRight'
  BY <1>1, CallFacts DEF OrderRight
<1>3. CountedOncePerSample'
  BY <1>1, CallFacts DEF CountedOncePerSample, RunIInv
<1>4. ASSUME Sane PROVE InputsCurrent' /\ FixedStays' /\ CountedIsCurrent'
  <2>1. Inputs("data") \subseteq current /\ Inputs("secret") \subseteq current /\ Filled("data") \subseteq fixed
    BY <1>1, <1>4, CallFacts DEF InputsCurrent, FixedStays
  <2>2. \A name \in RangeNames : Inputs(name)' \subseteq current'
    BY <1>1, <1>4, <2>1, CallFills DEF RangeNames, Kind
  <2>3. Filled("data")' \subseteq fixed'
    BY <1>1, <1>4, <2>1, CallFacts, CallFills DEF RangeNames, Kind
  <2>4. Inputs("data")' \subseteq current' /\ Inputs("secret")' \subseteq current' /\ Inputs("mask")' \subseteq current'
    BY <2>2 DEF RangeNames, Kind
  <2> QED BY <1>1, <1>4, <2>3, <2>4, CallFacts DEF InputsCurrent, FixedStays, CountedIsCurrent
<1> QED BY <1>1, <1>2, <1>3, <1>4, CallFacts DEF RunIInv, Sane

LEMMA RandomizeMasksGivenSecretsRight ==
  ASSUME RunIInv, RandomizeMasksGivenSecrets PROVE RunIInv'
<1>1. /\ At("randomize_masks_given_s") /\ Fill(Filled("mask")) /\ fixed' = fixed \ Filled("mask")
      /\ pc' = "run_and_count_circuit" /\ UNCHANGED <<sample, secret, count, drawn, stale>>
  BY DEF RandomizeMasksGivenSecrets
<1>2. OrderRight'
  BY <1>1, CallFacts DEF OrderRight
<1>3. CountedOncePerSample'
  BY <1>1, CallFacts DEF CountedOncePerSample, RunIInv
<1>4. ASSUME Sane PROVE InputsCurrent' /\ FixedStays' /\ CountedIsCurrent'
  <2>1. /\ Inputs("data") \subseteq current /\ Inputs("secret") \subseteq current
        /\ Filled("data") \subseteq fixed /\ Filled("secret") \subseteq fixed
    BY <1>1, <1>4, CallFacts DEF InputsCurrent, FixedStays
  <2>2. \A name \in RangeNames : Inputs(name)' \subseteq current'
    BY <1>1, <1>4, <2>1, CallFills DEF RangeNames, Kind
  <2>3. Filled("data")' \subseteq fixed' /\ Filled("secret")' \subseteq fixed'
    BY <1>1, <1>4, <2>1, CallFacts, CallFills DEF RangeNames, Kind
  <2>4. Inputs("data")' \subseteq current' /\ Inputs("secret")' \subseteq current' /\ Inputs("mask")' \subseteq current'
    BY <2>2 DEF RangeNames, Kind
  <2> QED BY <1>1, <1>4, <2>3, <2>4, CallFacts DEF InputsCurrent, FixedStays, CountedIsCurrent
<1> QED BY <1>1, <1>2, <1>3, <1>4, CallFacts DEF RunIInv, Sane

LEMMA FixRandomSecretsRight ==
  ASSUME RunIInv, FixRandomSecrets PROVE RunIInv'
<1>1. /\ At("fix_random_secrets") /\ Fill(Filled("secret")) /\ fixed' = fixed \cup Filled("secret")
      /\ ZeroCount /\ sample' = 0
      /\ pc' = "randomize_masks_given_s" /\ UNCHANGED <<secret, stale>>
  BY DEF FixRandomSecrets
<1>2. OrderRight'
  BY <1>1, CallFacts DEF OrderRight, ZeroCount
<1>3. CountedOncePerSample'
  BY <1>1 DEF CountedOncePerSample, ZeroCount
<1>4. ASSUME Sane PROVE InputsCurrent' /\ FixedStays' /\ CountedIsCurrent'
  <2>1. Inputs("data") \subseteq current /\ Filled("data") \subseteq fixed
    BY <1>1, <1>4, CallFacts DEF InputsCurrent, FixedStays
  <2>2. Inputs("secret")' \subseteq current' /\ Inputs("data")' \subseteq current'
    BY <1>1, <1>4, <2>1, CallFills DEF RangeNames, Kind
  <2>3. Filled("data")' \subseteq fixed' /\ Filled("secret")' \subseteq fixed'
    BY <1>1, <2>1, CallFacts
  <2> QED BY <1>1, <1>4, <2>2, <2>3, CallFacts DEF InputsCurrent, FixedStays, CountedIsCurrent
<1> QED BY <1>1, <1>2, <1>3, <1>4, CallFacts DEF RunIInv, Sane

(* Running cycles leaves the inputs current, and the cycles that are        *)
(* counted too if it goes as far.                                           *)
LEMMA CallRuns ==
  ASSUME RunIInv, NEW call, At(call), Sane, \A name \in RangeNames : Inputs(name) \subseteq current,
         NEW n \in Nat, n <= cycles, n <= Len(cycleEmits), current' = RunCycles(current, n)
  PROVE  /\ \A name \in RangeNames : Inputs(name)' \subseteq current'
         /\ MinOf(cycles, Len(cycleEmits)) = n => CountedSlots \subseteq current'
<1>1. /\ IInv /\ CyclesOrdered /\ RangesOrdered /\ SourcesRight /\ phase = "generated" /\ cycles \in Nat
  BY CallFacts
<1>2. /\ n >= 1 => 0 .. EndOf(n) - 1 \subseteq current'
      /\ \A name \in RangeNames : Inputs(name) \subseteq current'
  BY <1>1, RunReaches
<1>3. ASSUME MinOf(cycles, Len(cycleEmits)) = n, NEW p \in CountedSlots PROVE p \in current'
  <2>1. n >= 1 /\ p \in Nat /\ p < EndOf(n)
    BY <1>1, <1>3, CountedFacts
  <2>2. EndOf(n) \in Nat
    <3>1. \A j \in 1 .. Len(cycleEmits) : EndOf(j) \in Nat
      BY <1>1, GeneratedFacts
    <3>2. n \in 1 .. Len(cycleEmits)
      BY <2>1, CallFacts
    <3> QED BY <3>1, <3>2
  <2>3. p \in 0 .. EndOf(n) - 1
    BY <2>1, <2>2
  <2> QED BY <1>2, <2>1, <2>3
<1> QED BY <1>2, <1>3, CallFacts

(* What counting adds.                                                      *)
LEMMA CallCounts ==
  ASSUME RunIInv, NEW call, At(call), call # "fix_random_data", count' = Counted, sample' = sample + 1
  PROVE  CountedOncePerSample' /\ DOMAIN count' = Slots
<1>1. IInv /\ CyclesOrdered /\ phase = "generated" /\ cycles \in Nat /\ pc = call /\ CountedSlots' = CountedSlots
  BY CallFacts
<1>2. /\ sample \in Nat /\ DOMAIN count = Slots
      /\ \A p \in Slots : count[p] = IF p \in CountedSlots THEN sample ELSE 0
  BY <1>1, CallFacts DEF OrderRight, CountedOncePerSample, RunIInv
<1>3. \A p \in Slots : Cardinality({n \in VisitedCycles : p \in CycleSlots(n)}) = IF p \in CountedSlots THEN 1 ELSE 0
  BY <1>1, CountedFacts
<1>4. /\ DOMAIN count' = Slots
      /\ \A p \in Slots : count'[p] = count[p] + Cardinality({n \in VisitedCycles : p \in CycleSlots(n)})
  BY DEF Counted
<1>5. ASSUME NEW p \in Slots PROVE count'[p] = IF p \in CountedSlots THEN sample + 1 ELSE 0
  <2>1. PICK k : k = Cardinality({n \in VisitedCycles : p \in CycleSlots(n)})
    OBVIOUS
  <2>2. count'[p] = count[p] + k /\ k = IF p \in CountedSlots THEN 1 ELSE 0
    BY <1>3, <1>4, <2>1
  <2>3. count[p] = IF p \in CountedSlots THEN sample ELSE 0
    BY <1>2
  <2>4. sample \in Nat
    BY <1>2
  <2> QED BY ONLY <2>2, <2>3, <2>4
<1> QED BY <1>1, <1>4, <1>5 DEF CountedOncePerSample

LEMMA RunCircuitRight ==
  ASSUME RunIInv, RunCircuit PROVE RunIInv'
<1>1. /\ At("run_circuit") /\ current' = RunCycles(current, Called)
      /\ pc' = "count_run" /\ UNCHANGED <<sample, secret, count, fixed, drawn, stale>>
  BY DEF RunCircuit
<1>2. OrderRight'
  BY <1>1, CallFacts DEF OrderRight
<1>3. CountedOncePerSample'
  BY <1>1, CallFacts DEF CountedOncePerSample, RunIInv
<1>4. ASSUME Sane PROVE InputsCurrent' /\ FixedStays' /\ CountedIsCurrent'
  <2>1. /\ Inputs("data") \subseteq current /\ Inputs("secret") \subseteq current /\ Inputs("mask") \subseteq current
        /\ Filled("data") \subseteq fixed
    BY <1>1, <1>4, CallFacts DEF InputsCurrent, FixedStays
  <2>2. \A name \in RangeNames : Inputs(name) \subseteq current
    BY <2>1 DEF RangeNames, Kind
  <2>3. /\ Called \in Nat /\ Called <= cycles /\ Called <= Len(cycleEmits)
        /\ (cycles < Len(cycleEmits) => MinOf(cycles, Len(cycleEmits)) = Called)
    <3>1. IInv /\ CyclesOrdered /\ phase = "generated" /\ cycles \in Nat /\ Len(cycleEmits) \in Nat
      BY <1>1, CallFacts
    <3>2. /\ Called \in Nat /\ Called <= Len(cycleEmits)
          /\ (cycles < Len(cycleEmits) => MinOf(cycles, Len(cycleEmits)) = Called)
      BY <3>1, VisitedFacts
    <3>3. Called <= cycles
      <4>1. Len(trace) - 2 \in Int
        BY <3>1, InvFacts
      <4> QED BY <3>1, <4>1 DEF Called, MinOf
    <3> QED BY <3>2, <3>3
  <2>4. /\ \A name \in RangeNames : Inputs(name)' \subseteq current'
        /\ MinOf(cycles, Len(cycleEmits)) = Called => CountedSlots \subseteq current'
    BY <1>1, <1>4, <2>2, <2>3, CallRuns
  <2>5. Inputs("data")' \subseteq current' /\ Inputs("secret")' \subseteq current' /\ Inputs("mask")' \subseteq current'
    BY <2>4 DEF RangeNames, Kind
  <2>6. cycles' < Len(cycleEmits') => CountedSlots' \subseteq current'
    BY <1>1, <2>3, <2>4, CallFacts
  <2> QED BY <1>1, <1>4, <2>1, <2>5, <2>6, CallFacts DEF InputsCurrent, FixedStays, CountedIsCurrent
<1> QED BY <1>1, <1>2, <1>3, <1>4, CallFacts DEF RunIInv, Sane

LEMMA CountRunRight ==
  ASSUME RunIInv, CountRun PROVE RunIInv'
<1>1. /\ At("count_run") /\ count' = Counted /\ sample' = sample + 1
      /\ stale' = [stale EXCEPT !["d"] = stale["d"] \cup (CountedSlots \ current)]
      /\ pc' \in {"fix_random_secrets", "randomize_secrets"} /\ UNCHANGED <<secret, current, fixed, drawn>>
  BY DEF CountRun
<1>2. CountedOncePerSample' /\ DOMAIN count' = Slots
  BY <1>1, CallCounts
<1>3. /\ DOMAIN stale' = {"d", "ds"} /\ stale'["ds"] = stale["ds"]
      /\ stale'["d"] = stale["d"] \cup (CountedSlots \ current)
  BY <1>1, CallFacts DEF OrderRight
<1>4. OrderRight'
  BY <1>1, <1>2, <1>3, CallFacts DEF OrderRight
<1>5. ASSUME Sane PROVE InputsCurrent' /\ FixedStays' /\ CountedIsCurrent'
  <2>1. /\ Inputs("data") \subseteq current /\ Inputs("secret") \subseteq current
        /\ cycles < Len(cycleEmits) => CountedSlots \subseteq current
        /\ Filled("data") \subseteq fixed
        /\ stale["ds"] = {} /\ (cycles < Len(cycleEmits) => stale["d"] = {})
    BY <1>1, <1>5, CallFacts DEF InputsCurrent, FixedStays, CountedIsCurrent
  <2>2. Inputs("data")' \subseteq current' /\ Inputs("secret")' \subseteq current' /\ Filled("data")' \subseteq fixed'
    BY <1>1, <2>1, CallFacts
  <2>3. CountedIsCurrent'
    BY <1>1, <1>3, <2>1, CallFacts DEF CountedIsCurrent
  <2> QED BY <1>1, <2>2, <2>3 DEF InputsCurrent, FixedStays
<1> QED BY <1>1, <1>2, <1>4, <1>5, CallFacts DEF RunIInv, Sane

LEMMA RunAndCountCircuitRight ==
  ASSUME RunIInv, RunAndCountCircuit PROVE RunIInv'
<1> DEFINE n == Cardinality(VisitedCycles)
<1>1. /\ At("run_and_count_circuit") /\ current' = RunCycles(current, n)
      /\ count' = Counted /\ sample' = sample + 1
      /\ stale' = [stale EXCEPT !["ds"] = stale["ds"] \cup (CountedSlots \ current')]
      /\ pc' \in {"randomize_masks_given_s", "done", "fix_random_secrets"} /\ UNCHANGED <<fixed, drawn>>
  BY DEF RunAndCountCircuit
<1>2. CountedOncePerSample' /\ DOMAIN count' = Slots
  BY <1>1, CallCounts
<1>3. /\ DOMAIN stale' = {"d", "ds"} /\ stale'["d"] = stale["d"]
      /\ stale'["ds"] = stale["ds"] \cup (CountedSlots \ current')
  BY <1>1, CallFacts DEF OrderRight
<1>4. OrderRight'
  BY <1>1, <1>2, <1>3, CallFacts DEF OrderRight
<1>5. n \in Nat /\ n <= cycles /\ n <= Len(cycleEmits) /\ MinOf(cycles, Len(cycleEmits)) = n
  <2>1. IInv /\ CyclesOrdered /\ phase = "generated" /\ cycles \in Nat /\ Len(cycleEmits) \in Nat
    BY <1>1, CallFacts
  <2> QED BY <2>1, VisitedFacts
<1> HIDE DEF n
<1>6. ASSUME Sane PROVE InputsCurrent' /\ FixedStays' /\ CountedIsCurrent'
  <2>1. /\ Inputs("data") \subseteq current /\ Inputs("secret") \subseteq current /\ Inputs("mask") \subseteq current
        /\ Filled("data") \subseteq fixed /\ Filled("secret") \subseteq fixed
        /\ stale["ds"] = {} /\ (cycles < Len(cycleEmits) => stale["d"] = {})
    BY <1>1, <1>6, CallFacts DEF InputsCurrent, FixedStays, CountedIsCurrent
  <2>2. \A name \in RangeNames : Inputs(name) \subseteq current
    BY <2>1 DEF RangeNames, Kind
  <2>3. /\ \A name \in RangeNames : Inputs(name)' \subseteq current'
        /\ CountedSlots \subseteq current'
    BY <1>1, <1>5, <1>6, <2>2, CallRuns
  <2>4. Inputs("data")' \subseteq current' /\ Inputs("secret")' \subseteq current' /\ Inputs("mask")' \subseteq current'
    BY <2>3 DEF RangeNames, Kind
  <2>5. Filled("data")' \subseteq fixed' /\ Filled("secret")' \subseteq fixed'
    BY <1>1, <2>1, CallFacts
  <2>6. stale'["ds"] = {} /\ (cycles' < Len(cycleEmits') => stale'["d"] = {})
    BY <1>1, <1>3, <2>1, <2>3, CallFacts
  <2> QED BY <1>1, <2>4, <2>5, <2>6 DEF InputsCurrent, FixedStays, CountedIsCurrent
<1> QED BY <1>1, <1>2, <1>4, <1>6, CallFacts DEF RunIInv, Sane

-----------------------------------------------------------------------------
(* The invariant of the concrete runs.                                      *)

LEMMA RunInitRight == ASSUME RunInit PROVE RunIInv
<1>1. IInv /\ CyclesOrdered /\ RangesOrdered
  BY InitRight, OrderedFirst DEF RunInit
<1>2. /\ pc = "fix_random_data" /\ sample = 0 /\ cycles \in Nat
      /\ stale = [loop \in {"d", "ds"} |-> {}]
  BY RunnerAssumption DEF RunInit
<1>3. OrderRight
  BY <1>2 DEF OrderRight
<1> QED BY <1>1, <1>2, <1>3 DEF RunIInv, CountedOncePerSample, InputsCurrent, FixedStays, CountedIsCurrent

(* As long as the testbench simulates, nothing is run.                      *)
LEMMA GenerateRight == ASSUME RunIInv, Generate PROVE RunIInv'
<1>1. Simulate /\ UNCHANGED <<cycles, pc, sample, secret, current, count, fixed, drawn, stale>>
  BY DEF Generate, runVars
<1>2. phase = "simulate"
  <2>1. /\ \A port, bit : AssignConst(port, bit) => phase = "simulate"
        /\ \A port, h : AssignHeld(port, h) => phase = "simulate"
        /\ \A port, h, i : AssignXor(port, h, i) => phase = "simulate"
    BY DEF AssignConst, AssignHeld, AssignXor, Assign
  <2>2. /\ \A kind, lo, hi, n : AllocateShared(kind, lo, hi, n) => phase = "simulate"
        /\ \A lo, hi : AllocateMasks(lo, hi) => phase = "simulate"
        /\ \A lo, hi : RedefineMasks(lo, hi) => phase = "simulate"
    BY DEF AllocateShared, AllocateMasks, RedefineMasks
  <2>3. PrepareCycle \/ StepCycle \/ EmitEpilogue => phase = "simulate"
    BY DEF PrepareCycle, StepCycle, EmitEpilogue
  <2> QED BY <1>1, <2>1, <2>2, <2>3 DEF Simulate
<1>3. pc = "fix_random_data" /\ pc' = "fix_random_data"
  BY <1>1, <1>2 DEF RunIInv, OrderRight
<1>4. IInv /\ CyclesOrdered /\ OrderRight
  BY DEF RunIInv
<1>5. IInv' /\ Moves
  BY <1>1, <1>4, StepRight
<1>6. CyclesOrdered'
  BY <1>4, <1>5, CyclesRight
<1>7. 1 \notin ShareCounts => RangesOrdered'
  BY <1>4, <1>5, RangesRight DEF RunIInv
<1>8. OrderRight'
  BY <1>1, <1>3, <1>4 DEF OrderRight
<1> QED BY <1>3, <1>5, <1>6, <1>7, <1>8
        DEF RunIInv, OrderRight, CountedOncePerSample, InputsCurrent, FixedStays, CountedIsCurrent

LEMMA RunStutterRight == ASSUME RunIInv, UNCHANGED <<simVars, runVars>> PROVE RunIInv'
<1>1. UNCHANGED <<simVars, cycles, pc, sample, secret, current, count, fixed, drawn, stale>>
  BY DEF runVars
<1>2. IInv'
  BY <1>1, StepRight DEF RunIInv
<1>3. /\ UNCHANGED <<cycleEmits, phase>>
      /\ Slots' = Slots /\ CountedSlots' = CountedSlots
      /\ \A name : Filled(name)' = Filled(name) /\ Inputs(name)' = Inputs(name)
      /\ CyclesOrdered => CyclesOrdered'
      /\ RangesOrdered => RangesOrdered'
  BY <1>1, CodeStays
<1>4. OrderRight => OrderRight'
  BY <1>1, <1>3 DEF OrderRight
<1>5. CountedOncePerSample => CountedOncePerSample'
  BY <1>1, <1>3 DEF CountedOncePerSample
<1>6. InputsCurrent => InputsCurrent'
  BY <1>1, <1>3 DEF InputsCurrent
<1>7. FixedStays => FixedStays'
  BY <1>1, <1>3 DEF FixedStays
<1>8. CountedIsCurrent => CountedIsCurrent'
  BY <1>1, <1>3 DEF CountedIsCurrent
<1> QED BY <1>2, <1>3, <1>4, <1>5, <1>6, <1>7, <1>8 DEF RunIInv

(* While run_once goes on, the inputs a sample needs are filled before the  *)
(* circuit is run, and what is counted was computed from them.              *)
THEOREM RunnerInvariant == RunSpec => []RunIInv
<1>1. RunInit => RunIInv
  BY RunInitRight
<1>2. RunIInv /\ [RunNext]_<<simVars, runVars>> => RunIInv'
  <2>1. SUFFICES ASSUME RunIInv, [RunNext]_<<simVars, runVars>> PROVE RunIInv'
    OBVIOUS
  <2>2. CASE Generate
    BY <2>1, <2>2, GenerateRight
  <2>3. CASE FixRandomData
    BY <2>1, <2>3, FixRandomDataRight
  <2>4. CASE RandomizeSecrets
    BY <2>1, <2>4, RandomizeSecretsRight
  <2>5. CASE RandomizeMasks
    BY <2>1, <2>5, RandomizeMasksRight
  <2>6. CASE RunCircuit
    BY <2>1, <2>6, RunCircuitRight
  <2>7. CASE CountRun
    BY <2>1, <2>7, CountRunRight
  <2>8. CASE FixRandomSecrets
    BY <2>1, <2>8, FixRandomSecretsRight
  <2>9. CASE RandomizeMasksGivenSecrets
    BY <2>1, <2>9, RandomizeMasksGivenSecretsRight
  <2>10. CASE RunAndCountCircuit
    BY <2>1, <2>10, RunAndCountCircuitRight
  <2>11. CASE UNCHANGED <<simVars, runVars>>
    BY <2>1, <2>11, RunStutterRight
  <2> QED BY <2>1, <2>2, <2>3, <2>4, <2>5, <2>6, <2>7, <2>8, <2>9, <2>10, <2>11 DEF RunNext, RunOnce
<1> QED BY <1>1, <1>2, PTL DEF RunSpec

(* Whatever the testbench simulated, and however many cycles are asked for, *)
(* every wire that is counted has been computed from the inputs of the      *)
(* sample, up to the known exception; retries and single shares leave slots *)
(* that nothing fills, or that a mask range covers by mistake.              *)
THEOREM CountedWiresAreCurrent ==
  ASSUME ~Retries, 1 \notin ShareCounts PROVE RunSpec => []CountedIsCurrent
<1>1. RunIInv => CountedIsCurrent
  BY DEF RunIInv
<1> QED BY <1>1, RunnerInvariant, PTL

(* Nothing overwrites the data, or the secret that is given, while masks    *)
(* are sampled.                                                             *)
THEOREM GivenStays ==
  ASSUME ~Retries, 1 \notin ShareCounts PROVE RunSpec => []FixedStays
<1>1. RunIInv => FixedStays
  BY DEF RunIInv
<1> QED BY <1>1, RunnerInvariant, PTL

(* The cycles partition the slots they count: value_count never runs past   *)
(* the table of entropies, whatever was allocated and how.                  *)
THEOREM CountsAreSamples == RunSpec => []CountedOncePerSample
<1>1. RunIInv => CountedOncePerSample
  BY DEF RunIInv
<1> QED BY <1>1, RunnerInvariant, PTL
=============================================================================
