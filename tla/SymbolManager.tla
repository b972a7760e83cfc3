--------------------------- MODULE SymbolManager ---------------------------
(***************************************************************************)
(* The manager of the symbolic bits (src/SymbolManager.h, .cpp): it hands   *)
(* out variables, shares equal expressions through its caches, simplifies,  *)
(* and gives emitted variables their slot of the storage.  Its operations   *)
(* are functions from a manager to the manager they leave and the variable  *)
(* they return; Symbol and Simulator make steps of them.                    *)
(*                                                                          *)
(* truth[v] is the set of input assignments for which the code generated    *)
(* for v computes 1: its value is what the written operation computes from  *)
(* its operands.  The text of the generated code is left out, and so is     *)
(* var_t's encoding of the constants (common.h:24), which no allocated      *)
(* variable reaches below INT32_MAX variables.                              *)
(***************************************************************************)
EXTENDS Integers

CONSTANT Assignment (* the assignments of the simulation inputs             *)

ZERO == -2
ONE  == -1
INVALID_POS == -1

Constant == {ZERO, ONE}
Var(m)   == 0 .. m.numVars - 1
Known(m) == Var(m) \cup Constant

Truth(m, v) == CASE v = ZERO -> {}
                 [] v = ONE  -> Assignment
                 [] OTHER    -> m.truth[v]

(* The functions of the operations of circuit_utils.h.                      *)
Not(f)       == Assignment \ f
Xor(f, g)    == (f \ g) \cup (g \ f)
Mux(s, t, e) == (s \cap t) \cup (e \ s)

Empty == [x \in {} |-> x]

(* emplace of an unordered_map: a key that is there keeps its value.        *)
Emplace(map, key, val) ==
  [k \in DOMAIN map \cup {key} |-> IF k \in DOMAIN map THEN map[k] ELSE val]

(* The manager before the first symbol.                                     *)
NewManager == [numVars |-> 0, truth |-> Empty,
               nots |-> Empty, ands |-> Empty, ors |-> Empty,
               xors |-> Empty, muxes |-> Empty,
               slots |-> Empty, numEmitted |-> 0]

-----------------------------------------------------------------------------
(* make_not ... make_mux: each gives the manager it leaves and the variable *)
(* it returns.                                                              *)

Result(m, v) == [m |-> m, v |-> v]

(* new_var, for a variable whose generated code computes f.                 *)
NewVar(m, f) == [m EXCEPT !.numVars = @ + 1, !.truth = Emplace(@, m.numVars, f)]

(* The complement of b is known to be a.                                    *)
Complementary(m, a, b) == b \in DOMAIN m.nots /\ a = m.nots[b]

BinaryKey(a, b) == IF a < b THEN <<a, b>> ELSE <<b, a>>

(* Mutant: the complement does not know its complement.                     *)
MakeNotOneWay(m, a) ==
  IF a = ZERO THEN Result(m, ONE)
  ELSE IF a = ONE THEN Result(m, ZERO)
  ELSE IF a \in DOMAIN m.nots THEN Result(m, m.nots[a])
  ELSE Result([NewVar(m, Not(Truth(m, a))) EXCEPT
                 !.nots = Emplace(@, a, m.numVars)], m.numVars)

MakeNot(m, a) ==
  IF a = ZERO THEN Result(m, ONE)
  ELSE IF a = ONE THEN Result(m, ZERO)
  ELSE IF a \in DOMAIN m.nots THEN Result(m, m.nots[a])
  ELSE LET c == m.numVars
       IN  Result([NewVar(m, Not(Truth(m, a))) EXCEPT
                     !.nots = Emplace(Emplace(@, a, c), c, a)], c)

(* Mutant: the new variable is cached under the number of the last one.     *)
MakeAndOffByOne(m, a, b) ==
  LET key == BinaryKey(a, b)
  IN  IF a = ZERO \/ b = ZERO THEN Result(m, ZERO)
      ELSE IF a = ONE THEN Result(m, b)
      ELSE IF b = ONE \/ a = b THEN Result(m, a)
      ELSE IF key \in DOMAIN m.ands THEN Result(m, m.ands[key])
      ELSE Result([NewVar(m, Truth(m, a) \cap Truth(m, b)) EXCEPT
                     !.ands = Emplace(@, key, m.numVars - 1)], m.numVars)

MakeAnd(m, a, b) ==
  LET key == BinaryKey(a, b)
  IN  IF a = ZERO \/ b = ZERO THEN Result(m, ZERO)
      ELSE IF a = ONE THEN Result(m, b)
      ELSE IF b = ONE \/ a = b THEN Result(m, a)
      ELSE IF Complementary(m, a, b) THEN Result(m, ZERO)
      ELSE IF key \in DOMAIN m.ands THEN Result(m, m.ands[key])
      ELSE Result([NewVar(m, Truth(m, a) \cap Truth(m, b)) EXCEPT
                     !.ands = Emplace(@, key, m.numVars)], m.numVars)

(* Mutant: only the first operand is compared with the constant ZERO.       *)
MakeOrOneSided(m, a, b) ==
  LET key == BinaryKey(a, b)
  IN  IF a = ONE \/ b = ONE THEN Result(m, ONE)
      ELSE IF a = ZERO THEN Result(m, b)
      ELSE IF a = b THEN Result(m, a)
      ELSE IF key \in DOMAIN m.ors THEN Result(m, m.ors[key])
      ELSE Result([NewVar(m, Truth(m, a) \cup Truth(m, b)) EXCEPT
                     !.ors = Emplace(@, key, m.numVars)], m.numVars)

MakeOr(m, a, b) ==
  LET key == BinaryKey(a, b)
  IN  IF a = ONE \/ b = ONE THEN Result(m, ONE)
      ELSE IF a = ZERO THEN Result(m, b)
      ELSE IF b = ZERO \/ a = b THEN Result(m, a)
      ELSE IF Complementary(m, a, b) THEN Result(m, ONE)
      ELSE IF key \in DOMAIN m.ors THEN Result(m, m.ors[key])
      ELSE Result([NewVar(m, Truth(m, a) \cup Truth(m, b)) EXCEPT
                     !.ors = Emplace(@, key, m.numVars)], m.numVars)

MakeXor(m, a, b) ==
  LET key == BinaryKey(a, b)
  IN  IF a = ZERO THEN Result(m, b)
      ELSE IF b = ZERO THEN Result(m, a)
      ELSE IF a = ONE THEN MakeNot(m, b)
      ELSE IF b = ONE THEN MakeNot(m, a)
      ELSE IF a = b THEN Result(m, ZERO)
      ELSE IF Complementary(m, a, b) THEN Result(m, ONE)
      ELSE IF key \in DOMAIN m.xors THEN Result(m, m.xors[key])
      ELSE Result([NewVar(m, Xor(Truth(m, a), Truth(m, b))) EXCEPT
                     !.xors = Emplace(@, key, m.numVars)], m.numVars)

(* make_and and make_or of the complement of s, as make_mux calls them.     *)
NotAndPlain(m, s, b) == MakeAnd(m, s, b) (* mutant: the not is forgotten    *)
NotAnd(m, s, b) == LET n == MakeNot(m, s) IN MakeAnd(n.m, n.v, b)
NotOr(m, s, b)  == LET n == MakeNot(m, s) IN MakeOr(n.m, n.v, b)

(* The last branch writes _mux(s, e, t), whose parameters are S, E, T.      *)
MakeMux(m, s, t, e) ==
  LET key == <<s, t, e>>
  IN  IF s = ONE THEN Result(m, t)
      ELSE IF s = ZERO \/ t = e THEN Result(m, e)
      ELSE IF t = ONE  THEN MakeOr(m, s, e)
      ELSE IF t = ZERO THEN NotAnd(m, s, e)
      ELSE IF e = ONE  THEN NotOr(m, s, t)
      ELSE IF e = ZERO THEN MakeAnd(m, s, t)
      ELSE IF Complementary(m, t, e) THEN MakeXor(m, s, e)
      ELSE IF t = s THEN MakeOr(m, s, e)
      ELSE IF Complementary(m, t, s) THEN MakeAnd(m, m.nots[s], e)
      ELSE IF e = s THEN MakeAnd(m, s, t)
      ELSE IF Complementary(m, e, s) THEN MakeOr(m, m.nots[s], t)
      ELSE IF key \in DOMAIN m.muxes THEN Result(m, m.muxes[key])
      ELSE Result([NewVar(m, Mux(Truth(m, s), Truth(m, t), Truth(m, e))) EXCEPT
                     !.muxes = Emplace(@, key, m.numVars)], m.numVars)

(* emission_slot and new_emission.                                          *)
EmissionSlot(m, v) == IF v \in DOMAIN m.slots THEN m.slots[v] ELSE INVALID_POS

(* Mutant: a variable is emitted again and gets a second slot.              *)
NewEmissionAlways(m, v) ==
  [m EXCEPT !.slots = [Emplace(@, v, 0) EXCEPT ![v] = m.numEmitted], !.numEmitted = @ + 1]

NewEmission(m, v) ==
  IF v \in DOMAIN m.slots THEN m
  ELSE [m EXCEPT !.slots = Emplace(@, v, m.numEmitted), !.numEmitted = @ + 1]

(* A symbol made from a variable (Symbol.h): the slot is looked up once,    *)
(* now.                                                                     *)
SymbolOf(m, v) == [var |-> v, pos |-> EmissionSlot(m, v)]

ConstSymbol(bit) == [var |-> IF bit THEN ONE ELSE ZERO, pos |-> INVALID_POS]

-----------------------------------------------------------------------------
(* What makes a manager well formed, and its caches right.                  *)

PairCache(m, cache)  == /\ DOMAIN cache \subseteq Var(m) \X Var(m)
                        /\ cache \in [DOMAIN cache -> Var(m)]

(* The shape of a manager: caches map allocated variables to allocated      *)
(* variables; no cache key, so no operand of generated code, is a constant. *)
IsManager(m) ==
  /\ DOMAIN m = {"numVars", "truth", "nots", "ands", "ors", "xors", "muxes",
                 "slots", "numEmitted"}
  /\ m.numVars \in Nat
  /\ m.truth \in [Var(m) -> SUBSET Assignment]
  /\ DOMAIN m.nots \subseteq Var(m)
  /\ m.nots \in [DOMAIN m.nots -> Var(m)]
  /\ PairCache(m, m.ands) /\ PairCache(m, m.ors) /\ PairCache(m, m.xors)
  /\ DOMAIN m.muxes \subseteq Var(m) \X Var(m) \X Var(m)
  /\ m.muxes \in [DOMAIN m.muxes -> Var(m)]
  /\ m.numEmitted \in Nat
  /\ DOMAIN m.slots \subseteq Var(m)
  /\ m.slots \in [DOMAIN m.slots -> 0 .. m.numEmitted - 1]

(* What every cache promises of its entries.                                *)
CachesSound(m) ==
  /\ \A v \in DOMAIN m.nots : m.truth[m.nots[v]] = Not(m.truth[v])
  /\ \A k \in DOMAIN m.ands : m.truth[m.ands[k]] = m.truth[k[1]] \cap m.truth[k[2]]
  /\ \A k \in DOMAIN m.ors  : m.truth[m.ors[k]] = m.truth[k[1]] \cup m.truth[k[2]]
  /\ \A k \in DOMAIN m.xors : m.truth[m.xors[k]] = Xor(m.truth[k[1]], m.truth[k[2]])
  /\ \A k \in DOMAIN m.muxes :
       m.truth[m.muxes[k]] = Mux(m.truth[k[1]], m.truth[k[2]], m.truth[k[3]])
(* What the caches define, each a macro of the generated code.              *)
Entries(operation, cache) == {<<operation, key, cache[key]>> : key \in DOMAIN cache}
Complements(nots) == {<<"not", <<v>>, nots[v]>> : v \in {w \in DOMAIN nots : w < nots[w]}}
Definition(m) == Complements(m.nots) \cup Entries("and", m.ands) \cup Entries("or", m.ors)
                 \cup Entries("xor", m.xors) \cup Entries("mux", m.muxes)

PairsOrdered(cache) == \A key \in DOMAIN cache : key[1] < cache[key] /\ key[2] < cache[key]

(* Operands exist before the variable that is defined with them, ...        *)
Ordered(m) ==
  /\ PairsOrdered(m.ands) /\ PairsOrdered(m.ors) /\ PairsOrdered(m.xors)
  /\ PairsOrdered(m.muxes) /\ \A key \in DOMAIN m.muxes : key[3] < m.muxes[key]
  /\ \A v \in DOMAIN m.nots : m.nots[v] # v

(* ... which is defined once.                                               *)
OneEach(m) == \A d, e \in Definition(m) : d[3] = e[3] => d = e
Mutual(m)  == \A v \in DOMAIN m.nots : m.nots[v] \in DOMAIN m.nots /\ m.nots[m.nots[v]] = v

(* A manager that an operation may be called on, and one that generated     *)
(* code can be written from.                                                *)
Sound(m)       == IsManager(m) /\ CachesSound(m)
Disciplined(m) == Ordered(m) /\ OneEach(m) /\ Mutual(m)

(* Every slot has one variable.                                             *)
DenseSlots(m) ==
  /\ \A v, w \in DOMAIN m.slots : m.slots[v] = m.slots[w] => v = w
  /\ {m.slots[v] : v \in DOMAIN m.slots} = 0 .. m.numEmitted - 1

(* A symbol x of manager m that computes f, and knows no wrong slot.        *)
GoodSymbol(m, x, f) ==
  /\ x \in [var : Known(m), pos : {INVALID_POS} \cup 0 .. m.numEmitted - 1]
  /\ Truth(m, x.var) = f
  /\ x.pos # INVALID_POS => x.var \in DOMAIN m.slots /\ m.slots[x.var] = x.pos
=============================================================================
