------------------------ MODULE SymbolManager_proofs -----------------------
(***************************************************************************)
(* Lemmas about the operations of SymbolManager: each keeps the manager     *)
(* well formed and its caches sound, leaves what was there alone, and       *)
(* returns a variable that computes what the operation should.              *)
(***************************************************************************)
EXTENDS SymbolManager, TLAPS

-----------------------------------------------------------------------------
(* The operations of the manager.                                           *)

(* n is m with variables added: what was there means what it meant.         *)
Grown(m, n) ==
  /\ Sound(n)
  /\ n.slots = m.slots /\ n.numEmitted = m.numEmitted
  /\ m.numVars <= n.numVars
  /\ \A v \in Var(m) : n.truth[v] = m.truth[v]

(* res is what an operation that computes f may return.                     *)
Computes(m, res, f) ==
  /\ Grown(m, res.m)
  /\ res.v \in Known(res.m)
  /\ Truth(res.m, res.v) = f

LEMMA Constants == ZERO \notin Nat /\ ONE \notin Nat /\ ZERO # ONE
  BY DEF ZERO, ONE

(* Known variables are constants or have a function in truth.               *)
LEMMA TruthOf ==
  ASSUME NEW m, IsManager(m), NEW v \in Known(m)
  PROVE  /\ Truth(m, v) \in SUBSET Assignment
         /\ Truth(m, ZERO) = {} /\ Truth(m, ONE) = Assignment
         /\ v \notin Constant => v \in Var(m) /\ Truth(m, v) = m.truth[v]
         /\ v \in Var(m) => Truth(m, v) = m.truth[v]
  BY DEF IsManager, Known, Truth, Constant, ZERO, ONE, Var

LEMMA SlotRange ==
  ASSUME NEW m, IsManager(m) PROVE m.numVars \in Nat /\ m.numVars \notin Var(m)
  BY DEF IsManager, Var

(* Reflexivity and transitivity of growth.                                  *)
LEMMA Unchanged ==
  ASSUME NEW m, Sound(m), NEW v \in Known(m)
  PROVE  Computes(m, Result(m, v), Truth(m, v))
  BY DEF Sound, Computes, Grown, Result, IsManager

LEMMA GrownKnown ==
  ASSUME NEW m, NEW n, Sound(m), Grown(m, n), NEW v \in Known(m)
  PROVE  v \in Known(n) /\ Truth(n, v) = Truth(m, v)
  BY DEF Sound, Grown, Known, Var, Truth, IsManager, Constant, ZERO, ONE

LEMMA GrownTwice ==
  ASSUME NEW m, NEW n, NEW k, Sound(m), Grown(m, n), Grown(n, k)
  PROVE  Grown(m, k)
<1>1. m.numVars \in Nat /\ n.numVars \in Nat /\ k.numVars \in Nat
  BY DEF Sound, Grown, IsManager
<1>2. \A v \in Var(m) : v \in Var(n)
  BY <1>1 DEF Grown, Var
<1> QED BY <1>1, <1>2 DEF Grown

(* The fields of the manager that new_var leaves.                           *)
LEMMA NewVarFields ==
  ASSUME NEW m, IsManager(m), NEW f \in SUBSET Assignment
  PROVE  LET n == NewVar(m, f)
         IN  /\ DOMAIN n = DOMAIN m
             /\ n.numVars = m.numVars + 1
             /\ n.nots = m.nots /\ n.ands = m.ands /\ n.ors = m.ors
             /\ n.xors = m.xors /\ n.muxes = m.muxes
             /\ n.slots = m.slots /\ n.numEmitted = m.numEmitted
             /\ n.truth \in [0 .. m.numVars -> SUBSET Assignment]
             /\ n.truth[m.numVars] = f
             /\ \A v \in Var(m) : n.truth[v] = m.truth[v]
<1> DEFINE n == NewVar(m, f)
<1>1. /\ DOMAIN n = DOMAIN m
      /\ n.numVars = m.numVars + 1 /\ n.truth = Emplace(m.truth, m.numVars, f)
      /\ n.nots = m.nots /\ n.ands = m.ands /\ n.ors = m.ors
      /\ n.xors = m.xors /\ n.muxes = m.muxes
      /\ n.slots = m.slots /\ n.numEmitted = m.numEmitted
  BY DEF NewVar, IsManager
<1>2. n.truth = [k \in DOMAIN m.truth \cup {m.numVars} |->
                   IF k \in DOMAIN m.truth THEN m.truth[k] ELSE f]
  BY <1>1 DEF Emplace
<1>3. /\ m.numVars \in Nat /\ DOMAIN m.truth = 0 .. m.numVars - 1
      /\ m.truth \in [Var(m) -> SUBSET Assignment]
  BY DEF IsManager, Var
<1>4. DOMAIN m.truth \cup {m.numVars} = 0 .. m.numVars /\ m.numVars \notin DOMAIN m.truth
  BY <1>3
<1>5. n.truth \in [0 .. m.numVars -> SUBSET Assignment]
  BY <1>2, <1>3, <1>4 DEF Var
<1>6. n.truth[m.numVars] = f /\ \A v \in Var(m) : n.truth[v] = m.truth[v]
  BY <1>2, <1>3, <1>4 DEF Var
<1> QED BY <1>1, <1>5, <1>6

-----------------------------------------------------------------------------
(* Sound, cache by cache.                                                   *)
BaseOK(m) == /\ DOMAIN m = DOMAIN NewManager
             /\ m.numVars \in Nat
             /\ m.truth \in [Var(m) -> SUBSET Assignment]
NotsOK(m) == /\ DOMAIN m.nots \subseteq Var(m)
             /\ m.nots \in [DOMAIN m.nots -> Var(m)]
             /\ \A v \in DOMAIN m.nots : m.truth[m.nots[v]] = Not(m.truth[v])
AndsOK(m) == /\ PairCache(m, m.ands)
             /\ \A k \in DOMAIN m.ands :
                  m.truth[m.ands[k]] = m.truth[k[1]] \cap m.truth[k[2]]
OrsOK(m)  == /\ PairCache(m, m.ors)
             /\ \A k \in DOMAIN m.ors :
                  m.truth[m.ors[k]] = m.truth[k[1]] \cup m.truth[k[2]]
XorsOK(m) == /\ PairCache(m, m.xors)
             /\ \A k \in DOMAIN m.xors :
                  m.truth[m.xors[k]] = Xor(m.truth[k[1]], m.truth[k[2]])
MuxesOK(m) == /\ DOMAIN m.muxes \subseteq Var(m) \X Var(m) \X Var(m)
              /\ m.muxes \in [DOMAIN m.muxes -> Var(m)]
              /\ \A k \in DOMAIN m.muxes :
                   m.truth[m.muxes[k]] =
                     Mux(m.truth[k[1]], m.truth[k[2]], m.truth[k[3]])
SlotsOK(m) == /\ m.numEmitted \in Nat
              /\ DOMAIN m.slots \subseteq Var(m)
              /\ m.slots \in [DOMAIN m.slots -> 0 .. m.numEmitted - 1]

LEMMA SoundParts ==
  ASSUME NEW m
  PROVE  Sound(m) <=> /\ BaseOK(m) /\ NotsOK(m) /\ AndsOK(m) /\ OrsOK(m)
                      /\ XorsOK(m) /\ MuxesOK(m) /\ SlotsOK(m)
<1>1. DOMAIN NewManager = {"numVars", "truth", "nots", "ands", "ors", "xors",
                           "muxes", "slots", "numEmitted"}
  BY DEF NewManager
<1> QED BY <1>1 DEF Sound, IsManager, CachesSound, BaseOK, NotsOK, AndsOK, OrsOK,
                    XorsOK, MuxesOK, SlotsOK

(* n has one variable more than m, which computes f.                        *)
OneMore(m, n, f) == /\ DOMAIN n = DOMAIN m
                    /\ n.numVars = m.numVars + 1
                    /\ n.truth \in [0 .. m.numVars -> SUBSET Assignment]
                    /\ n.truth[m.numVars] = f
                    /\ \A v \in Var(m) : n.truth[v] = m.truth[v]
                    /\ n.slots = m.slots /\ n.numEmitted = m.numEmitted

(* The caches that the new variable leaves alone stay sound.                *)
LEMMA OldCaches ==
  ASSUME NEW m, NEW n, NEW f, BaseOK(m), OneMore(m, n, f)
  PROVE  /\ BaseOK(n)
         /\ NotsOK(m) /\ n.nots = m.nots => NotsOK(n)
         /\ AndsOK(m) /\ n.ands = m.ands => AndsOK(n)
         /\ OrsOK(m) /\ n.ors = m.ors => OrsOK(n)
         /\ XorsOK(m) /\ n.xors = m.xors => XorsOK(n)
         /\ MuxesOK(m) /\ n.muxes = m.muxes => MuxesOK(n)
         /\ SlotsOK(m) => SlotsOK(n)
<1>1. /\ m.numVars \in Nat /\ n.numVars = m.numVars + 1
      /\ Var(n) = 0 .. m.numVars /\ Var(m) \subseteq Var(n)
      /\ \A v \in Var(m) : n.truth[v] = m.truth[v]
  BY DEF BaseOK, OneMore, Var
<1>2. BaseOK(n)
  BY <1>1 DEF BaseOK, OneMore
<1>3. ASSUME NotsOK(m), n.nots = m.nots PROVE NotsOK(n)
  BY ONLY <1>1, <1>3 DEF NotsOK
<1>4. ASSUME AndsOK(m), n.ands = m.ands PROVE AndsOK(n)
  <2>1. \A k \in DOMAIN m.ands : m.ands[k] \in Var(m) /\ k[1] \in Var(m) /\ k[2] \in Var(m)
    BY ONLY <1>4 DEF AndsOK, PairCache
  <2>2. PairCache(n, n.ands)
    BY ONLY <1>1, <1>4 DEF AndsOK, PairCache
  <2> QED BY ONLY <1>1, <1>4, <2>1, <2>2 DEF AndsOK
<1>5. ASSUME OrsOK(m), n.ors = m.ors PROVE OrsOK(n)
  <2>1. \A k \in DOMAIN m.ors : m.ors[k] \in Var(m) /\ k[1] \in Var(m) /\ k[2] \in Var(m)
    BY ONLY <1>5 DEF OrsOK, PairCache
  <2>2. PairCache(n, n.ors)
    BY ONLY <1>1, <1>5 DEF OrsOK, PairCache
  <2> QED BY ONLY <1>1, <1>5, <2>1, <2>2 DEF OrsOK
<1>6. ASSUME XorsOK(m), n.xors = m.xors PROVE XorsOK(n)
  <2>1. \A k \in DOMAIN m.xors : m.xors[k] \in Var(m) /\ k[1] \in Var(m) /\ k[2] \in Var(m)
    BY ONLY <1>6 DEF XorsOK, PairCache
  <2>2. PairCache(n, n.xors)
    BY ONLY <1>1, <1>6 DEF XorsOK, PairCache
  <2> QED BY ONLY <1>1, <1>6, <2>1, <2>2 DEF XorsOK
<1>7. ASSUME MuxesOK(m), n.muxes = m.muxes PROVE MuxesOK(n)
  BY ONLY <1>1, <1>7 DEF MuxesOK
<1>8. ASSUME SlotsOK(m) PROVE SlotsOK(n)
  BY ONLY <1>1, <1>8, OneMore(m, n, f) DEF SlotsOK, OneMore
<1> QED BY <1>2, <1>3, <1>4, <1>5, <1>6, <1>7, <1>8

(* What a new entry of a pair cache leaves.                                 *)
LEMMA NewEntry ==
  ASSUME NEW m, BaseOK(m), NEW cache, PairCache(m, cache), NEW n,
         n.numVars = m.numVars + 1, NEW a \in Var(m), NEW b \in Var(m),
         NEW key, key = BinaryKey(a, b), key \notin DOMAIN cache,
         NEW new, new = Emplace(cache, key, m.numVars)
  PROVE  /\ PairCache(n, new)
         /\ DOMAIN new = DOMAIN cache \cup {key}
         /\ new[key] = m.numVars
         /\ \A k \in DOMAIN cache : new[k] = cache[k] /\ k[1] \in Var(m) /\ k[2] \in Var(m)
         /\ key = <<a, b>> \/ key = <<b, a>>
<1>1. key = <<a, b>> \/ key = <<b, a>>
  BY DEF BinaryKey
<1>2. /\ DOMAIN new = DOMAIN cache \cup {key}
      /\ new[key] = m.numVars
      /\ \A k \in DOMAIN cache : new[k] = cache[k]
      /\ new = [k \in DOMAIN new |-> new[k]]
  BY DEF Emplace
<1>3. m.numVars \in Nat /\ m.numVars \in Var(n) /\ Var(m) \subseteq Var(n)
  BY DEF BaseOK, Var
<1>4. DOMAIN cache \subseteq Var(m) \X Var(m) /\ \A k \in DOMAIN cache : cache[k] \in Var(m)
  BY DEF PairCache
<1>5. DOMAIN new \subseteq Var(n) \X Var(n)
  BY <1>1, <1>2, <1>3, <1>4
<1>6. \A k \in DOMAIN new : new[k] \in Var(n)
  BY <1>2, <1>3, <1>4
<1>7. PairCache(n, new)
  BY <1>2, <1>5, <1>6 DEF PairCache
<1> QED BY <1>1, <1>2, <1>4, <1>7

-----------------------------------------------------------------------------
(* An early return: the variable is known and computes what it should.      *)
LEMMA Simplified ==
  ASSUME NEW m, Sound(m), NEW v \in Known(m), NEW f, Truth(m, v) = f
  PROVE  Computes(m, Result(m, v), f)
  BY Unchanged

(* The last branch: a new variable, and its cache entry.                    *)
LEMMA Added ==
  ASSUME NEW m, Sound(m), NEW n, NEW f, OneMore(m, n, f),
         NotsOK(n), AndsOK(n), OrsOK(n), XorsOK(n), MuxesOK(n)
  PROVE  Computes(m, Result(n, m.numVars), f)
<1>1. BaseOK(m) /\ SlotsOK(m)
  BY SoundParts
<1>2. Sound(n)
  BY <1>1, SoundParts, OldCaches
<1>3. m.numVars \in Nat /\ n.numVars = m.numVars + 1
  BY <1>1 DEF BaseOK, OneMore
<1>4. Grown(m, n)
  BY <1>2, <1>3 DEF Grown, OneMore
<1>5. m.numVars \in Var(n)
  BY <1>3 DEF Var
<1>6. Truth(n, m.numVars) = f
  BY <1>2, <1>5, TruthOf DEF Sound, OneMore, Known
<1> QED BY <1>4, <1>5, <1>6 DEF Computes, Result, Known

LEMMA NotComputes ==
  ASSUME NEW m, Sound(m), NEW a \in Known(m)
  PROVE  Computes(m, MakeNot(m, a), Not(Truth(m, a)))
<1> DEFINE f == Not(Truth(m, a))
<1>1. /\ IsManager(m) /\ BaseOK(m) /\ NotsOK(m) /\ AndsOK(m) /\ OrsOK(m)
      /\ XorsOK(m) /\ MuxesOK(m)
  BY SoundParts DEF Sound
<1>2. f \in SUBSET Assignment
  BY DEF Not
<1>3. CASE a = ZERO
  <2>1. MakeNot(m, a) = Result(m, ONE) /\ ONE \in Known(m)
    BY <1>3 DEF MakeNot, Known, Constant
  <2>2. Truth(m, ONE) = f
    BY <1>1, <1>3, TruthOf DEF Not
  <2> QED BY <2>1, <2>2, Simplified
<1>4. CASE a = ONE
  <2>1. MakeNot(m, a) = Result(m, ZERO) /\ ZERO \in Known(m)
    BY <1>4, Constants DEF MakeNot, Known, Constant
  <2>2. Truth(m, ZERO) = f
    BY <1>1, <1>4, TruthOf DEF Not
  <2> QED BY <2>1, <2>2, Simplified
<1>5. CASE a \notin Constant /\ a \in DOMAIN m.nots
  <2>1. MakeNot(m, a) = Result(m, m.nots[a])
    BY <1>5 DEF MakeNot, Constant
  <2>2. m.nots[a] \in Var(m) /\ m.truth[m.nots[a]] = Not(m.truth[a])
    BY <1>1, <1>5 DEF NotsOK
  <2>3. m.nots[a] \in Known(m)
    BY <2>2 DEF Known
  <2>4. Truth(m, m.nots[a]) = f
    BY <1>1, <1>5, <2>2, <2>3, TruthOf
  <2> QED BY <2>1, <2>3, <2>4, Simplified
<1>6. CASE a \notin Constant /\ a \notin DOMAIN m.nots
  <2> DEFINE c  == m.numVars
             n1 == NewVar(m, f)
             ns == Emplace(Emplace(m.nots, a, c), c, a)
             n  == [n1 EXCEPT !.nots = ns]
  <2>1. /\ a \in Var(m) /\ Truth(m, a) = m.truth[a] /\ c \notin Var(m) /\ c \in Nat
    BY <1>1, <1>6, TruthOf, SlotRange
  <2>2. MakeNot(m, a) = Result(n, c)
    <3>1. n1.nots = m.nots
      BY <1>1, <1>2, NewVarFields
    <3> QED BY <1>6, <3>1 DEF MakeNot, Constant
  <2>3. /\ OneMore(m, n, f) /\ n.nots = ns /\ n.ands = m.ands /\ n.ors = m.ors
        /\ n.xors = m.xors /\ n.muxes = m.muxes
    BY <1>1, <1>2, NewVarFields DEF OneMore, IsManager
  <2>4. /\ DOMAIN ns = DOMAIN m.nots \cup {a, c}
        /\ ns[a] = c /\ ns[c] = a
        /\ \A v \in DOMAIN m.nots : ns[v] = m.nots[v]
        /\ ns = [v \in DOMAIN ns |-> ns[v]]
    <3>1. DOMAIN m.nots \subseteq Var(m)
      BY <1>1 DEF NotsOK
    <3> QED BY <1>6, <2>1, <3>1 DEF Emplace
  <2>5. /\ Var(m) \subseteq Var(n) /\ c \in Var(n)
        /\ n.truth[c] = Not(m.truth[a])
        /\ \A v \in Var(m) : n.truth[v] = m.truth[v]
    BY <2>1, <2>3 DEF OneMore, Var
  <2>6. /\ DOMAIN m.nots \subseteq Var(m)
        /\ \A v \in DOMAIN m.nots : m.nots[v] \in Var(m) /\ m.truth[m.nots[v]] = Not(m.truth[v])
    BY <1>1 DEF NotsOK
  <2>7. n.truth[a] = Not(n.truth[c])
    BY <2>1, <2>5, <1>1 DEF Not, IsManager
  <2>8. NotsOK(n)
    <3>1. \A v \in DOMAIN ns : ns[v] \in Var(n) /\ v \in Var(n)
      BY <2>1, <2>4, <2>5, <2>6
    <3>2. \A v \in DOMAIN ns : n.truth[ns[v]] = Not(n.truth[v])
      BY <2>1, <2>4, <2>5, <2>6, <2>7
    <3> QED BY <2>3, <2>4, <3>1, <3>2 DEF NotsOK
  <2>9. AndsOK(n) /\ OrsOK(n) /\ XorsOK(n) /\ MuxesOK(n)
    BY <1>1, <2>3, OldCaches
  <2> QED BY <2>2, <2>3, <2>8, <2>9, Added
<1> QED BY <1>3, <1>4, <1>5, <1>6 DEF Constant

LEMMA ComplementKnown ==
  ASSUME NEW m, Sound(m), NEW a, NEW b, Complementary(m, a, b)
  PROVE  /\ a \in Var(m) /\ b \in Var(m)
         /\ m.truth[a] = Not(m.truth[b])
  BY SoundParts DEF NotsOK, Complementary

(* The operands of the last two branches are variables.                     *)
LEMMA VariableOperand ==
  ASSUME NEW m, Sound(m), NEW a \in Known(m), a \notin Constant
  PROVE  a \in Var(m) /\ Truth(m, a) = m.truth[a] /\ m.truth[a] \in SUBSET Assignment
  BY TruthOf DEF Sound, IsManager

LEMMA AndComputes ==
  ASSUME NEW m, Sound(m), NEW a \in Known(m), NEW b \in Known(m)
  PROVE  Computes(m, MakeAnd(m, a, b), Truth(m, a) \cap Truth(m, b))
<1> DEFINE f   == Truth(m, a) \cap Truth(m, b)
           key == BinaryKey(a, b)
<1>1. /\ IsManager(m) /\ BaseOK(m) /\ NotsOK(m) /\ AndsOK(m) /\ OrsOK(m)
      /\ XorsOK(m) /\ MuxesOK(m)
  BY SoundParts DEF Sound
<1>2. /\ Truth(m, a) \in SUBSET Assignment /\ Truth(m, b) \in SUBSET Assignment
      /\ Truth(m, ZERO) = {} /\ Truth(m, ONE) = Assignment
      /\ ZERO \in Known(m) /\ ONE \in Known(m)
  BY <1>1, TruthOf DEF Known, Constant
<1> HIDE DEF key
<1>3. CASE a \in Constant \/ b \in Constant
  BY <1>2, <1>3, Simplified, Constants DEF MakeAnd, Constant
<1>4. CASE a = b /\ a \notin Constant
  BY <1>2, <1>4, Simplified, Constants DEF MakeAnd, Constant
<1>5. CASE a # b /\ a \notin Constant /\ b \notin Constant /\ Complementary(m, a, b)
  <2>1. MakeAnd(m, a, b) = Result(m, ZERO)
    BY <1>5 DEF MakeAnd, Constant
  <2>2. f = Truth(m, ZERO)
    BY <1>2, <1>5, ComplementKnown, VariableOperand DEF Not
  <2> QED BY <1>2, <2>1, <2>2, Simplified
<1>6. CASE /\ a # b /\ a \notin Constant /\ b \notin Constant /\ ~Complementary(m, a, b)
           /\ key \in DOMAIN m.ands
  <2>1. MakeAnd(m, a, b) = Result(m, m.ands[key])
    BY <1>6 DEF MakeAnd, Constant, key
  <2>2. /\ m.ands[key] \in Var(m)
        /\ m.truth[m.ands[key]] = m.truth[key[1]] \cap m.truth[key[2]]
    BY <1>1, <1>6 DEF AndsOK, PairCache
  <2>3. m.truth[m.ands[key]] = m.truth[a] \cap m.truth[b]
    BY <2>2 DEF key, BinaryKey
  <2>4. m.ands[key] \in Known(m)
    BY <2>2 DEF Known
  <2>5. Truth(m, m.ands[key]) = f
    BY <1>1, <1>6, <2>2, <2>3, <2>4, TruthOf, VariableOperand
  <2> QED BY <2>1, <2>4, <2>5, Simplified
<1>7. CASE /\ a # b /\ a \notin Constant /\ b \notin Constant /\ ~Complementary(m, a, b)
           /\ key \notin DOMAIN m.ands
  <2> DEFINE c   == m.numVars
             n1  == NewVar(m, f)
             new == Emplace(m.ands, key, c)
             n   == [n1 EXCEPT !.ands = new]
  <2>1. a \in Var(m) /\ b \in Var(m) /\ Truth(m, a) = m.truth[a] /\ Truth(m, b) = m.truth[b]
    BY <1>7, VariableOperand
  <2>2. f \in SUBSET Assignment
    BY <1>2
  <2>3. n1.ands = m.ands
    BY <1>1, <2>2, NewVarFields
  <2>4. MakeAnd(m, a, b) = Result(n, c)
    BY <1>7, <2>3 DEF MakeAnd, Constant, key
  <2>5. /\ OneMore(m, n, f) /\ n.ands = new /\ n.nots = m.nots /\ n.ors = m.ors
        /\ n.xors = m.xors /\ n.muxes = m.muxes
    <3> HIDE DEF f
    <3>1. /\ DOMAIN n1 = DOMAIN m /\ "ands" \in DOMAIN n1
          /\ OneMore(m, n1, f) /\ n1.nots = m.nots /\ n1.ors = m.ors
        /\ n1.xors = m.xors /\ n1.muxes = m.muxes
      BY <1>1, <2>2, NewVarFields DEF OneMore, IsManager
    <3> HIDE DEF n1, new
    <3> QED BY <3>1 DEF OneMore
  <2>6. PairCache(m, m.ands)
    BY <1>1 DEF AndsOK
  <2>7. n.numVars = m.numVars + 1
    BY <2>5 DEF OneMore
  <2>14. key = BinaryKey(a, b) /\ new = Emplace(m.ands, key, m.numVars)
    BY DEF key
  <2> HIDE DEF new, n, c
  <2>8. /\ PairCache(n, new)
        /\ DOMAIN new = DOMAIN m.ands \cup {key}
        /\ new[key] = m.numVars
        /\ \A k \in DOMAIN m.ands :
             new[k] = m.ands[k] /\ k[1] \in Var(m) /\ k[2] \in Var(m)
        /\ key = <<a, b>> \/ key = <<b, a>>
    BY <1>1, <1>7, <2>1, <2>6, <2>7, <2>14, NewEntry
  <2>9. \A v \in Var(m) : n.truth[v] = m.truth[v]
    BY <2>5 DEF OneMore
  <2>10. n.truth[new[key]] = n.truth[key[1]] \cap n.truth[key[2]]
    <3>1. n.truth[m.numVars] = m.truth[a] \cap m.truth[b]
      BY <2>1, <2>5 DEF OneMore
    <3> QED BY ONLY <2>1, <2>8, <2>9, <3>1
  <2>11. \A k \in DOMAIN m.ands : n.truth[new[k]] = n.truth[k[1]] \cap n.truth[k[2]]
    <3>1. \A k \in DOMAIN m.ands :
            m.ands[k] \in Var(m) /\ m.truth[m.ands[k]] = m.truth[k[1]] \cap m.truth[k[2]]
      BY <1>1 DEF AndsOK, PairCache
    <3> QED BY ONLY <2>8, <2>9, <3>1
  <2>12. AndsOK(n)
    BY <2>5, <2>8, <2>10, <2>11 DEF AndsOK
  <2>13. NotsOK(n) /\ OrsOK(n) /\ XorsOK(n) /\ MuxesOK(n)
    BY <1>1, <2>5, OldCaches
  <2> QED BY <2>4, <2>5, <2>12, <2>13, Added DEF c
<1> QED BY <1>3, <1>4, <1>5, <1>6, <1>7

LEMMA OrComputes ==
  ASSUME NEW m, Sound(m), NEW a \in Known(m), NEW b \in Known(m)
  PROVE  Computes(m, MakeOr(m, a, b), Truth(m, a) \cup Truth(m, b))
<1> DEFINE f   == Truth(m, a) \cup Truth(m, b)
           key == BinaryKey(a, b)
<1>1. /\ IsManager(m) /\ BaseOK(m) /\ NotsOK(m) /\ AndsOK(m) /\ OrsOK(m)
      /\ XorsOK(m) /\ MuxesOK(m)
  BY SoundParts DEF Sound
<1>2. /\ Truth(m, a) \in SUBSET Assignment /\ Truth(m, b) \in SUBSET Assignment
      /\ Truth(m, ZERO) = {} /\ Truth(m, ONE) = Assignment
      /\ ZERO \in Known(m) /\ ONE \in Known(m)
  BY <1>1, TruthOf DEF Known, Constant
<1> HIDE DEF key
<1>3. CASE a \in Constant \/ b \in Constant
  BY <1>2, <1>3, Simplified, Constants DEF MakeOr, Constant
<1>4. CASE a = b /\ a \notin Constant
  BY <1>2, <1>4, Simplified, Constants DEF MakeOr, Constant
<1>5. CASE a # b /\ a \notin Constant /\ b \notin Constant /\ Complementary(m, a, b)
  <2>1. MakeOr(m, a, b) = Result(m, ONE)
    BY <1>5 DEF MakeOr, Constant
  <2>2. f = Truth(m, ONE)
    BY <1>2, <1>5, ComplementKnown, VariableOperand DEF Not
  <2> QED BY <1>2, <2>1, <2>2, Simplified
<1>6. CASE /\ a # b /\ a \notin Constant /\ b \notin Constant /\ ~Complementary(m, a, b)
           /\ key \in DOMAIN m.ors
  <2>1. MakeOr(m, a, b) = Result(m, m.ors[key])
    BY <1>6 DEF MakeOr, Constant, key
  <2>2. /\ m.ors[key] \in Var(m)
        /\ m.truth[m.ors[key]] = m.truth[key[1]] \cup m.truth[key[2]]
    BY <1>1, <1>6 DEF OrsOK, PairCache
  <2>3. m.truth[m.ors[key]] = m.truth[a] \cup m.truth[b]
    BY <2>2 DEF key, BinaryKey
  <2>4. m.ors[key] \in Known(m)
    BY <2>2 DEF Known
  <2>5. Truth(m, m.ors[key]) = f
    BY <1>1, <1>6, <2>2, <2>3, <2>4, TruthOf, VariableOperand
  <2> QED BY <2>1, <2>4, <2>5, Simplified
<1>7. CASE /\ a # b /\ a \notin Constant /\ b \notin Constant /\ ~Complementary(m, a, b)
           /\ key \notin DOMAIN m.ors
  <2> DEFINE c   == m.numVars
             n1  == NewVar(m, f)
             new == Emplace(m.ors, key, c)
             n   == [n1 EXCEPT !.ors = new]
  <2>1. a \in Var(m) /\ b \in Var(m) /\ Truth(m, a) = m.truth[a] /\ Truth(m, b) = m.truth[b]
    BY <1>7, VariableOperand
  <2>2. f \in SUBSET Assignment
    BY <1>2
  <2>3. n1.ors = m.ors
    BY <1>1, <2>2, NewVarFields
  <2>4. MakeOr(m, a, b) = Result(n, c)
    BY <1>7, <2>3 DEF MakeOr, Constant, key
  <2>5. /\ OneMore(m, n, f) /\ n.ors = new /\ n.nots = m.nots /\ n.ands = m.ands
        /\ n.xors = m.xors /\ n.muxes = m.muxes
    <3> HIDE DEF f
    <3>1. /\ DOMAIN n1 = DOMAIN m /\ "ors" \in DOMAIN n1
          /\ OneMore(m, n1, f) /\ n1.nots = m.nots /\ n1.ands = m.ands
        /\ n1.xors = m.xors /\ n1.muxes = m.muxes
      BY <1>1, <2>2, NewVarFields DEF OneMore, IsManager
    <3> HIDE DEF n1, new
    <3> QED BY <3>1 DEF OneMore
  <2>6. PairCache(m, m.ors)
    BY <1>1 DEF OrsOK
  <2>7. n.numVars = m.numVars + 1
    BY <2>5 DEF OneMore
  <2>14. key = BinaryKey(a, b) /\ new = Emplace(m.ors, key, m.numVars)
    BY DEF key
  <2> HIDE DEF new, n, c
  <2>8. /\ PairCache(n, new)
        /\ DOMAIN new = DOMAIN m.ors \cup {key}
        /\ new[key] = m.numVars
        /\ \A k \in DOMAIN m.ors :
             new[k] = m.ors[k] /\ k[1] \in Var(m) /\ k[2] \in Var(m)
        /\ key = <<a, b>> \/ key = <<b, a>>
    BY <1>1, <1>7, <2>1, <2>6, <2>7, <2>14, NewEntry
  <2>9. \A v \in Var(m) : n.truth[v] = m.truth[v]
    BY <2>5 DEF OneMore
  <2>10. n.truth[new[key]] = n.truth[key[1]] \cup n.truth[key[2]]
    <3>1. n.truth[m.numVars] = m.truth[a] \cup m.truth[b]
      BY <2>1, <2>5 DEF OneMore
    <3> QED BY ONLY <2>1, <2>8, <2>9, <3>1
  <2>11. \A k \in DOMAIN m.ors : n.truth[new[k]] = n.truth[k[1]] \cup n.truth[k[2]]
    <3>1. \A k \in DOMAIN m.ors :
            m.ors[k] \in Var(m) /\ m.truth[m.ors[k]] = m.truth[k[1]] \cup m.truth[k[2]]
      BY <1>1 DEF OrsOK, PairCache
    <3> QED BY ONLY <2>8, <2>9, <3>1
  <2>12. OrsOK(n)
    BY <2>5, <2>8, <2>10, <2>11 DEF OrsOK
  <2>13. NotsOK(n) /\ AndsOK(n) /\ XorsOK(n) /\ MuxesOK(n)
    BY <1>1, <2>5, OldCaches
  <2> QED BY <2>4, <2>5, <2>12, <2>13, Added DEF c
<1> QED BY <1>3, <1>4, <1>5, <1>6, <1>7

LEMMA XorComputes ==
  ASSUME NEW m, Sound(m), NEW a \in Known(m), NEW b \in Known(m)
  PROVE  Computes(m, MakeXor(m, a, b), Xor(Truth(m, a), Truth(m, b)))
<1> DEFINE f   == Xor(Truth(m, a), Truth(m, b))
           key == BinaryKey(a, b)
<1>1. /\ IsManager(m) /\ BaseOK(m) /\ NotsOK(m) /\ AndsOK(m) /\ OrsOK(m)
      /\ XorsOK(m) /\ MuxesOK(m)
  BY SoundParts DEF Sound
<1>2. /\ Truth(m, a) \in SUBSET Assignment /\ Truth(m, b) \in SUBSET Assignment
      /\ Truth(m, ZERO) = {} /\ Truth(m, ONE) = Assignment
      /\ ZERO \in Known(m) /\ ONE \in Known(m)
  BY <1>1, TruthOf DEF Known, Constant
<1> HIDE DEF key
<1>3. CASE a \in Constant \/ b \in Constant
  <2>1. CASE a = ZERO \/ b = ZERO
    BY <1>2, <2>1, Simplified DEF MakeXor, Xor
  <2>2. CASE a = ONE /\ b # ZERO
    <3>1. MakeXor(m, a, b) = MakeNot(m, b)
      BY <2>2, Constants DEF MakeXor
    <3>2. f = Not(Truth(m, b))
      BY <1>2, <2>2 DEF Xor, Not
    <3> QED BY <3>1, <3>2, NotComputes
  <2>3. CASE b = ONE /\ a # ZERO /\ a # ONE
    <3>1. MakeXor(m, a, b) = MakeNot(m, a)
      BY <2>3, Constants DEF MakeXor
    <3>2. f = Not(Truth(m, a))
      BY <1>2, <2>3 DEF Xor, Not
    <3> QED BY <3>1, <3>2, NotComputes
  <2> QED BY <1>3, <2>1, <2>2, <2>3 DEF Constant
<1>4. CASE a = b /\ a \notin Constant
  BY <1>2, <1>4, Simplified, Constants DEF MakeXor, Constant, Xor
<1>5. CASE a # b /\ a \notin Constant /\ b \notin Constant /\ Complementary(m, a, b)
  <2>1. MakeXor(m, a, b) = Result(m, ONE)
    BY <1>5 DEF MakeXor, Constant
  <2>2. f = Truth(m, ONE)
    BY <1>2, <1>5, ComplementKnown, VariableOperand DEF Not, Xor
  <2> QED BY <1>2, <2>1, <2>2, Simplified
<1>6. CASE /\ a # b /\ a \notin Constant /\ b \notin Constant /\ ~Complementary(m, a, b)
           /\ key \in DOMAIN m.xors
  <2>1. MakeXor(m, a, b) = Result(m, m.xors[key])
    BY <1>6 DEF MakeXor, Constant, key
  <2>2. /\ m.xors[key] \in Var(m)
        /\ m.truth[m.xors[key]] = Xor(m.truth[key[1]], m.truth[key[2]])
    BY <1>1, <1>6 DEF XorsOK, PairCache
  <2>3. m.truth[m.xors[key]] = Xor(m.truth[a], m.truth[b])
    BY <2>2 DEF key, BinaryKey, Xor
  <2>4. m.xors[key] \in Known(m)
    BY <2>2 DEF Known
  <2>5. Truth(m, m.xors[key]) = f
    BY <1>1, <1>6, <2>2, <2>3, <2>4, TruthOf, VariableOperand
  <2> QED BY <2>1, <2>4, <2>5, Simplified
<1>7. CASE /\ a # b /\ a \notin Constant /\ b \notin Constant /\ ~Complementary(m, a, b)
           /\ key \notin DOMAIN m.xors
  <2> DEFINE c   == m.numVars
             n1  == NewVar(m, f)
             new == Emplace(m.xors, key, c)
             n   == [n1 EXCEPT !.xors = new]
  <2>1. a \in Var(m) /\ b \in Var(m) /\ Truth(m, a) = m.truth[a] /\ Truth(m, b) = m.truth[b]
    BY <1>7, VariableOperand
  <2>2. f \in SUBSET Assignment
    BY <1>2 DEF Xor
  <2>3. n1.xors = m.xors
    BY <1>1, <2>2, NewVarFields
  <2>4. MakeXor(m, a, b) = Result(n, c)
    BY <1>7, <2>3 DEF MakeXor, Constant, key
  <2>5. /\ OneMore(m, n, f) /\ n.xors = new /\ n.nots = m.nots /\ n.ands = m.ands /\ n.ors = m.ors
        /\ n.muxes = m.muxes
    <3> HIDE DEF f
    <3>1. /\ DOMAIN n1 = DOMAIN m /\ "xors" \in DOMAIN n1
          /\ OneMore(m, n1, f) /\ n1.nots = m.nots /\ n1.ands = m.ands /\ n1.ors = m.ors
        /\ n1.muxes = m.muxes
      BY <1>1, <2>2, NewVarFields DEF OneMore, IsManager
    <3> HIDE DEF n1, new
    <3> QED BY <3>1 DEF OneMore
  <2>6. PairCache(m, m.xors)
    BY <1>1 DEF XorsOK
  <2>7. n.numVars = m.numVars + 1
    BY <2>5 DEF OneMore
  <2>14. key = BinaryKey(a, b) /\ new = Emplace(m.xors, key, m.numVars)
    BY DEF key
  <2> HIDE DEF new, n, c
  <2>8. /\ PairCache(n, new)
        /\ DOMAIN new = DOMAIN m.xors \cup {key}
        /\ new[key] = m.numVars
        /\ \A k \in DOMAIN m.xors :
             new[k] = m.xors[k] /\ k[1] \in Var(m) /\ k[2] \in Var(m)
        /\ key = <<a, b>> \/ key = <<b, a>>
    BY <1>1, <1>7, <2>1, <2>6, <2>7, <2>14, NewEntry
  <2>9. \A v \in Var(m) : n.truth[v] = m.truth[v]
    BY <2>5 DEF OneMore
  <2>10. n.truth[new[key]] = Xor(n.truth[key[1]], n.truth[key[2]])
    <3>1. n.truth[m.numVars] = Xor(m.truth[a], m.truth[b])
      BY <2>1, <2>5 DEF OneMore
    <3> QED BY ONLY <2>1, <2>8, <2>9, <3>1 DEF Xor
  <2>11. \A k \in DOMAIN m.xors : n.truth[new[k]] = Xor(n.truth[k[1]], n.truth[k[2]])
    <3>1. \A k \in DOMAIN m.xors :
            m.xors[k] \in Var(m) /\ m.truth[m.xors[k]] = Xor(m.truth[k[1]], m.truth[k[2]])
      BY <1>1 DEF XorsOK, PairCache
    <3> QED BY ONLY <2>8, <2>9, <3>1
  <2>12. XorsOK(n)
    BY <2>5, <2>8, <2>10, <2>11 DEF XorsOK
  <2>13. NotsOK(n) /\ AndsOK(n) /\ OrsOK(n) /\ MuxesOK(n)
    BY <1>1, <2>5, OldCaches
  <2> QED BY <2>4, <2>5, <2>12, <2>13, Added DEF c
<1> QED BY <1>3, <1>4, <1>5, <1>6, <1>7

-----------------------------------------------------------------------------
(* make_mux.                                                                *)

(* Two operations in a row.                                                 *)
LEMMA Then ==
  ASSUME NEW m, Sound(m), NEW n, Grown(m, n), NEW res, NEW f, Computes(n, res, f)
  PROVE  Computes(m, res, f)
  BY GrownTwice DEF Computes

LEMMA NotAndComputes ==
  ASSUME NEW m, Sound(m), NEW s \in Known(m), NEW b \in Known(m)
  PROVE  /\ Computes(m, NotAnd(m, s, b), Not(Truth(m, s)) \cap Truth(m, b))
         /\ Computes(m, NotOr(m, s, b), Not(Truth(m, s)) \cup Truth(m, b))
<1> DEFINE n == MakeNot(m, s)
<1>1. Computes(m, n, Not(Truth(m, s)))
  BY NotComputes
<1>2. /\ Grown(m, n.m) /\ Sound(n.m) /\ n.v \in Known(n.m)
      /\ Truth(n.m, n.v) = Not(Truth(m, s))
  BY <1>1 DEF Computes, Grown
<1>3. b \in Known(n.m) /\ Truth(n.m, b) = Truth(m, b)
  BY <1>2, GrownKnown
<1>4. /\ NotAnd(m, s, b) = MakeAnd(n.m, n.v, b)
      /\ NotOr(m, s, b) = MakeOr(n.m, n.v, b)
  BY DEF NotAnd, NotOr
<1> HIDE DEF n
<1>5. /\ Computes(n.m, MakeAnd(n.m, n.v, b), Not(Truth(m, s)) \cap Truth(m, b))
      /\ Computes(n.m, MakeOr(n.m, n.v, b), Not(Truth(m, s)) \cup Truth(m, b))
  BY <1>2, <1>3, AndComputes, OrComputes
<1> QED BY <1>2, <1>4, <1>5, Then

(* The formula (s & t) | (-s & e) under the simplifications of make_mux.    *)
Simplifies(s, t, e) ==
  /\ Mux(Assignment, t, e) = t /\ Mux({}, t, e) = e /\ Mux(s, e, e) = e
  /\ Mux(s, Assignment, e) = s \cup e /\ Mux(s, {}, e) = Not(s) \cap e
  /\ Mux(s, t, Assignment) = Not(s) \cup t /\ Mux(s, t, {}) = s \cap t
  /\ Mux(s, Not(e), e) = Xor(s, e)
  /\ Mux(s, s, e) = s \cup e /\ Mux(s, Not(s), e) = Not(s) \cap e
  /\ Mux(s, t, s) = s \cap t /\ Mux(s, t, Not(s)) = Not(s) \cup t

LEMMA MuxRules ==
  ASSUME NEW s \in SUBSET Assignment, NEW t \in SUBSET Assignment,
         NEW e \in SUBSET Assignment
  PROVE  Simplifies(s, t, e)
<1>1. /\ Mux(Assignment, t, e) = t /\ Mux({}, t, e) = e /\ Mux(s, e, e) = e
  BY DEF Mux
<1>2. Mux(s, Assignment, e) = s \cup e /\ Mux(s, {}, e) = Not(s) \cap e
  BY DEF Mux, Not
<1>3. Mux(s, t, Assignment) = Not(s) \cup t /\ Mux(s, t, {}) = s \cap t
  BY DEF Mux, Not
<1>4. Mux(s, Not(e), e) = Xor(s, e)
  BY DEF Mux, Not, Xor
<1>5. Mux(s, s, e) = s \cup e /\ Mux(s, Not(s), e) = Not(s) \cap e
  BY DEF Mux, Not
<1>6. Mux(s, t, s) = s \cap t /\ Mux(s, t, Not(s)) = Not(s) \cup t
  BY DEF Mux, Not
<1> QED BY <1>1, <1>2, <1>3, <1>4, <1>5, <1>6 DEF Simplifies

LEMMA MuxComputes ==
  ASSUME NEW m, Sound(m), NEW s \in Known(m), NEW t \in Known(m), NEW e \in Known(m)
  PROVE  Computes(m, MakeMux(m, s, t, e), Mux(Truth(m, s), Truth(m, t), Truth(m, e)))
<1> DEFINE S   == Truth(m, s)
           T   == Truth(m, t)
           E   == Truth(m, e)
           key == <<s, t, e>>
           res == MakeMux(m, s, t, e)
<1>1. /\ IsManager(m) /\ BaseOK(m) /\ NotsOK(m) /\ AndsOK(m) /\ OrsOK(m)
      /\ XorsOK(m) /\ MuxesOK(m)
  BY SoundParts DEF Sound
<1>2. /\ S \in SUBSET Assignment /\ T \in SUBSET Assignment /\ E \in SUBSET Assignment
      /\ Truth(m, ZERO) = {} /\ Truth(m, ONE) = Assignment
  BY <1>1, TruthOf
<1> HIDE DEF S, T, E, key
<1>3. /\ Mux(Assignment, T, E) = T /\ Mux({}, T, E) = E /\ Mux(S, E, E) = E
      /\ Mux(S, Assignment, E) = S \cup E /\ Mux(S, {}, E) = Not(S) \cap E
      /\ Mux(S, T, Assignment) = Not(S) \cup T /\ Mux(S, T, {}) = S \cap T
      /\ Mux(S, Not(E), E) = Xor(S, E)
      /\ Mux(S, S, E) = S \cup E /\ Mux(S, Not(S), E) = Not(S) \cap E
      /\ Mux(S, T, S) = S \cap T /\ Mux(S, T, Not(S)) = Not(S) \cup T
  <2>1. Simplifies(S, T, E)
    BY <1>2, MuxRules
  <2> QED BY ONLY <2>1 DEF Simplifies
<1>4. /\ Computes(m, MakeOr(m, s, e), S \cup E)
      /\ Computes(m, MakeAnd(m, s, t), S \cap T)
      /\ Computes(m, MakeXor(m, s, e), Xor(S, E))
      /\ Computes(m, NotAnd(m, s, e), Not(S) \cap E)
      /\ Computes(m, NotOr(m, s, t), Not(S) \cup T)
      /\ Computes(m, Result(m, t), T) /\ Computes(m, Result(m, e), E)
  BY OrComputes, AndComputes, XorComputes, NotAndComputes, Unchanged DEF S, T, E
<1>5. CASE s \in Constant \/ t = e \/ t \in Constant \/ e \in Constant
  <2>1. CASE s = ONE
    <3>1. res = Result(m, t) /\ S = Assignment
      BY <1>2, <2>1 DEF MakeMux, S
    <3> QED BY <1>3, <1>4, <3>1 DEF S, T, E
  <2>2. CASE s # ONE /\ (s = ZERO \/ t = e)
    <3>1. res = Result(m, e) /\ (S = {} \/ T = E)
      BY <1>2, <2>2 DEF MakeMux, S, T, E
    <3>2. Mux(S, T, E) = E
      BY <1>3, <3>1
    <3> QED BY <1>4, <3>1, <3>2 DEF S, T, E
  <2>3. CASE s \notin Constant /\ t # e /\ t = ONE
    <3>1. res = MakeOr(m, s, e) /\ T = Assignment
      BY <1>2, <2>3 DEF MakeMux, Constant, T
    <3> QED BY <1>3, <1>4, <3>1 DEF S, T, E
  <2>4. CASE s \notin Constant /\ t # e /\ t = ZERO
    <3>1. res = NotAnd(m, s, e) /\ T = {}
      BY <1>2, <2>4, Constants DEF MakeMux, Constant, T
    <3> QED BY <1>3, <1>4, <3>1 DEF S, T, E
  <2>5. CASE s \notin Constant /\ t # e /\ t \notin Constant /\ e = ONE
    <3>1. res = NotOr(m, s, t) /\ E = Assignment
      BY <1>2, <2>5 DEF MakeMux, Constant, E
    <3> QED BY <1>3, <1>4, <3>1 DEF S, T, E
  <2>6. CASE s \notin Constant /\ t # e /\ t \notin Constant /\ e = ZERO
    <3>1. res = MakeAnd(m, s, t) /\ E = {}
      BY <1>2, <2>6, Constants DEF MakeMux, Constant, E
    <3> QED BY <1>3, <1>4, <3>1 DEF S, T, E
  <2> QED BY <1>5, <2>1, <2>2, <2>3, <2>4, <2>5, <2>6 DEF Constant
<1>6. CASE s \notin Constant /\ t \notin Constant /\ e \notin Constant /\ t # e
  <2>0. /\ s \in Var(m) /\ t \in Var(m) /\ e \in Var(m)
        /\ S = m.truth[s] /\ T = m.truth[t] /\ E = m.truth[e]
    BY <1>6, VariableOperand DEF S, T, E
  <2>1. CASE Complementary(m, t, e)
    <3>1. res = MakeXor(m, s, e)
      BY <1>6, <2>1 DEF MakeMux, Constant
    <3>2. T = Not(E)
      BY <2>0, <2>1, ComplementKnown
    <3> QED BY <1>3, <1>4, <3>1, <3>2 DEF S, T, E
  <2>2. CASE ~Complementary(m, t, e) /\ t = s
    <3>1. res = MakeOr(m, s, e)
      BY <1>6, <2>2 DEF MakeMux, Constant
    <3> QED BY <1>3, <1>4, <2>2, <3>1 DEF S, T, E
  <2>3. CASE ~Complementary(m, t, e) /\ t # s /\ Complementary(m, t, s)
    <3>1. res = MakeAnd(m, m.nots[s], e) /\ m.nots[s] = t
      BY <1>6, <2>3 DEF MakeMux, Constant, Complementary
    <3>2. T = Not(S)
      BY <2>0, <2>3, ComplementKnown
    <3>3. Computes(m, MakeAnd(m, t, e), T \cap E)
      BY AndComputes DEF T, E
    <3> QED BY <1>3, <3>1, <3>2, <3>3 DEF S, T, E
  <2>4. CASE ~Complementary(m, t, e) /\ t # s /\ ~Complementary(m, t, s) /\ e = s
    <3>1. res = MakeAnd(m, s, t)
      BY <1>6, <2>4 DEF MakeMux, Constant
    <3> QED BY <1>3, <1>4, <2>4, <3>1 DEF S, T, E
  <2>5. CASE /\ ~Complementary(m, t, e) /\ t # s /\ ~Complementary(m, t, s) /\ e # s
             /\ Complementary(m, e, s)
    <3>1. res = MakeOr(m, m.nots[s], t) /\ m.nots[s] = e
      BY <1>6, <2>5 DEF MakeMux, Constant, Complementary
    <3>2. E = Not(S)
      BY <2>0, <2>5, ComplementKnown
    <3>3. Computes(m, MakeOr(m, e, t), E \cup T)
      BY OrComputes DEF T, E
    <3> QED BY <1>3, <3>1, <3>2, <3>3 DEF S, T, E
  <2>6. CASE /\ ~Complementary(m, t, e) /\ t # s /\ ~Complementary(m, t, s) /\ e # s
             /\ ~Complementary(m, e, s) /\ key \in DOMAIN m.muxes
    <3>1. res = Result(m, m.muxes[key])
      BY <1>6, <2>6 DEF MakeMux, Constant, key
    <3>2. m.muxes[key] \in Var(m) /\ m.truth[m.muxes[key]] = Mux(S, T, E)
      BY <1>1, <2>0, <2>6 DEF MuxesOK, key
    <3>3. m.muxes[key] \in Known(m)
      BY <3>2 DEF Known
    <3>4. Truth(m, m.muxes[key]) = Mux(S, T, E)
      BY <1>1, <3>2, <3>3, TruthOf
    <3> QED BY <3>1, <3>3, <3>4, Simplified DEF S, T, E
  <2>7. CASE /\ ~Complementary(m, t, e) /\ t # s /\ ~Complementary(m, t, s) /\ e # s
             /\ ~Complementary(m, e, s) /\ key \notin DOMAIN m.muxes
    <3> DEFINE f   == Mux(S, T, E)
               n1  == NewVar(m, f)
               new == Emplace(m.muxes, key, m.numVars)
               n   == [n1 EXCEPT !.muxes = new]
    <3>1. f \in SUBSET Assignment
      BY <1>2 DEF Mux
    <3>2. n1.muxes = m.muxes
      BY <1>1, <3>1, NewVarFields
    <3>3. res = Result(n, m.numVars)
      BY <1>6, <2>7, <3>2 DEF MakeMux, Constant, key, S, T, E
    <3>4. /\ OneMore(m, n, f) /\ n.muxes = new /\ n.nots = m.nots /\ n.ands = m.ands
          /\ n.ors = m.ors /\ n.xors = m.xors
      <4> HIDE DEF f
      <4>1. /\ DOMAIN n1 = DOMAIN m /\ "muxes" \in DOMAIN n1
            /\ OneMore(m, n1, f) /\ n1.nots = m.nots /\ n1.ands = m.ands
            /\ n1.ors = m.ors /\ n1.xors = m.xors
        BY <1>1, <3>1, NewVarFields DEF OneMore, IsManager
      <4> HIDE DEF n1, new
      <4> QED BY <4>1 DEF OneMore
    <3>5. /\ DOMAIN new = DOMAIN m.muxes \cup {key} /\ new[key] = m.numVars
          /\ \A k \in DOMAIN m.muxes : new[k] = m.muxes[k]
          /\ new = [k \in DOMAIN new |-> new[k]]
      BY <2>7 DEF Emplace
    <3> HIDE DEF new, n
    <3>6. /\ \A v \in Var(m) : n.truth[v] = m.truth[v]
          /\ n.truth[m.numVars] = f
          /\ m.numVars \in Var(n) /\ Var(m) \subseteq Var(n)
      BY <1>1, <3>4 DEF OneMore, Var, BaseOK
    <3>7. /\ DOMAIN m.muxes \subseteq Var(m) \X Var(m) \X Var(m)
          /\ \A k \in DOMAIN m.muxes :
               m.muxes[k] \in Var(m) /\ k[1] \in Var(m) /\ k[2] \in Var(m) /\ k[3] \in Var(m)
      BY <1>1 DEF MuxesOK
    <3>8. key \in Var(m) \X Var(m) \X Var(m) /\ key[1] = s /\ key[2] = t /\ key[3] = e
      BY <2>0 DEF key
    <3>9. DOMAIN new \subseteq Var(n) \X Var(n) \X Var(n)
      BY <3>5, <3>6, <3>7, <3>8
    <3>10. \A k \in DOMAIN new : new[k] \in Var(n)
      BY <3>5, <3>6, <3>7
    <3>11. n.truth[new[key]] = Mux(n.truth[key[1]], n.truth[key[2]], n.truth[key[3]])
      BY <2>0, <3>5, <3>6, <3>8
    <3>12. \A k \in DOMAIN m.muxes :
             n.truth[new[k]] = Mux(n.truth[k[1]], n.truth[k[2]], n.truth[k[3]])
      BY <1>1, <3>5, <3>6, <3>7 DEF MuxesOK
    <3>13. MuxesOK(n)
      BY <3>4, <3>5, <3>9, <3>10, <3>11, <3>12 DEF MuxesOK
    <3>14. NotsOK(n) /\ AndsOK(n) /\ OrsOK(n) /\ XorsOK(n)
      BY <1>1, <3>4, OldCaches
    <3> QED BY <3>3, <3>4, <3>13, <3>14, Added DEF S, T, E
  <2> QED BY <2>1, <2>2, <2>3, <2>4, <2>5, <2>6, <2>7
<1> QED BY <1>5, <1>6

-----------------------------------------------------------------------------
(* Symbols.                                                                 *)

(* A good symbol stays good while the manager grows ...                     *)
LEMMA GrownSymbol ==
  ASSUME NEW m, NEW n, Sound(m), Grown(m, n), NEW x, NEW f, GoodSymbol(m, x, f)
  PROVE  GoodSymbol(n, x, f)
<1>1. x.var \in Known(m) /\ x.var \in Known(n) /\ Truth(n, x.var) = Truth(m, x.var)
  BY GrownKnown DEF GoodSymbol
<1>2. n.slots = m.slots /\ n.numEmitted = m.numEmitted
  BY DEF Grown
<1> QED BY <1>1, <1>2 DEF GoodSymbol

(* ... and a symbol made from a result is good.                             *)
LEMMA NewSymbol ==
  ASSUME NEW m, Sound(m), NEW v \in Known(m), NEW f, Truth(m, v) = f
  PROVE  GoodSymbol(m, SymbolOf(m, v), f)
<1>1. m.numEmitted \in Nat /\ m.slots \in [DOMAIN m.slots -> 0 .. m.numEmitted - 1]
  BY DEF Sound, IsManager
<1>2. EmissionSlot(m, v) \in {INVALID_POS} \cup 0 .. m.numEmitted - 1
  BY <1>1 DEF EmissionSlot
<1>3. EmissionSlot(m, v) # INVALID_POS => v \in DOMAIN m.slots /\ m.slots[v] = EmissionSlot(m, v)
  BY DEF EmissionSlot
<1> QED BY <1>2, <1>3 DEF GoodSymbol, SymbolOf

-----------------------------------------------------------------------------
(* One more definition.                                                     *)

LEMMA CacheRange ==
  ASSUME NEW m, Sound(m)
  PROVE  /\ m.numVars \in Nat /\ Var(m) = 0 .. m.numVars - 1
         /\ \A v \in DOMAIN m.nots : v \in Var(m) /\ m.nots[v] \in Var(m)
         /\ \A k \in DOMAIN m.ands : m.ands[k] \in Var(m)
         /\ \A k \in DOMAIN m.ors : m.ors[k] \in Var(m)
         /\ \A k \in DOMAIN m.xors : m.xors[k] \in Var(m)
         /\ \A k \in DOMAIN m.muxes : m.muxes[k] \in Var(m)
  BY DEF Sound, IsManager, PairCache, Var

LEMMA EntriesNew ==
  ASSUME NEW operation, NEW old, NEW key, key \notin DOMAIN old, NEW val
  PROVE  Entries(operation, Emplace(old, key, val))
           = Entries(operation, old) \cup {<<operation, key, val>>}
<1> DEFINE new == Emplace(old, key, val)
<1>1. /\ DOMAIN new = DOMAIN old \cup {key} /\ new[key] = val
      /\ \A k \in DOMAIN old : new[k] = old[k]
  BY DEF Emplace
<1> HIDE DEF new
<1>2. Entries(operation, new) = Entries(operation, old) \cup {<<operation, key, val>>}
  BY <1>1 DEF Entries
<1> QED BY <1>2 DEF new

(* A variable that does not exist yet is defined by nothing.                *)
LEMMA Undefined ==
  ASSUME NEW m, Sound(m) PROVE \A d \in Definition(m) : d[3] # m.numVars
<1>1. \A d \in Complements(m.nots) : d[3] \in Var(m)
  BY CacheRange DEF Complements
<1>2. /\ \A d \in Entries("and", m.ands) : d[3] \in Var(m)
      /\ \A d \in Entries("or", m.ors) : d[3] \in Var(m)
      /\ \A d \in Entries("xor", m.xors) : d[3] \in Var(m)
      /\ \A d \in Entries("mux", m.muxes) : d[3] \in Var(m)
  BY CacheRange DEF Entries
<1>3. m.numVars \notin Var(m)
  BY CacheRange
<1> QED BY <1>1, <1>2, <1>3 DEF Definition

LEMMA OneMoreDefinition ==
  ASSUME NEW m, Sound(m), OneEach(m), NEW n, NEW d, d[3] = m.numVars,
         Definition(n) = Definition(m) \cup {d}
  PROVE  OneEach(n)
  BY Undefined DEF OneEach

LEMMA KeyOrdered ==
  ASSUME NEW m, Sound(m), NEW a \in Var(m), NEW b \in Var(m), NEW cache, PairsOrdered(cache),
         BinaryKey(a, b) \notin DOMAIN cache
  PROVE  PairsOrdered(Emplace(cache, BinaryKey(a, b), m.numVars))
<1> DEFINE key == BinaryKey(a, b)
           new == Emplace(cache, key, m.numVars)
<1>1. key[1] < m.numVars /\ key[2] < m.numVars
  BY CacheRange DEF BinaryKey
<1>2. /\ DOMAIN new = DOMAIN cache \cup {key} /\ new[key] = m.numVars
      /\ \A k \in DOMAIN cache : new[k] = cache[k]
  BY DEF Emplace
<1> HIDE DEF key, new
<1>3. PairsOrdered(new)
  BY <1>1, <1>2 DEF PairsOrdered
<1> QED BY <1>3 DEF key, new

(* A conjunction, a disjunction or an exclusive or that is not cached.      *)
LEMMA PairDefined ==
  ASSUME NEW m, Sound(m), Disciplined(m), NEW a \in Var(m), NEW b \in Var(m), NEW n,
         n.nots = m.nots, n.muxes = m.muxes,
         LET key == BinaryKey(a, b)
         IN  \/ /\ key \notin DOMAIN m.ands /\ n.ands = Emplace(m.ands, key, m.numVars)
                /\ n.ors = m.ors /\ n.xors = m.xors
             \/ /\ key \notin DOMAIN m.ors /\ n.ors = Emplace(m.ors, key, m.numVars)
                /\ n.ands = m.ands /\ n.xors = m.xors
             \/ /\ key \notin DOMAIN m.xors /\ n.xors = Emplace(m.xors, key, m.numVars)
                /\ n.ands = m.ands /\ n.ors = m.ors
  PROVE  Disciplined(n)
<1> DEFINE key == BinaryKey(a, b)
<1>1. /\ Ordered(m) /\ OneEach(m) /\ Mutual(m)
      /\ PairsOrdered(m.ands) /\ PairsOrdered(m.ors) /\ PairsOrdered(m.xors)
  BY DEF Disciplined, Ordered
<1>2. Mutual(n)
  BY <1>1 DEF Mutual
<1>3. PairsOrdered(n.ands) /\ PairsOrdered(n.ors) /\ PairsOrdered(n.xors)
  BY <1>1, KeyOrdered
<1>4. Ordered(n)
  BY <1>1, <1>3 DEF Ordered
<1>5. \E operation : Definition(n) = Definition(m) \cup {<<operation, key, m.numVars>>}
  <2> HIDE DEF key
  <2>1. CASE key \notin DOMAIN m.ands /\ n.ands = Emplace(m.ands, key, m.numVars)
             /\ n.ors = m.ors /\ n.xors = m.xors
    <3>1. Entries("and", n.ands) = Entries("and", m.ands) \cup {<<"and", key, m.numVars>>}
      BY <2>1, EntriesNew
    <3>2. Definition(n) = Definition(m) \cup {<<"and", key, m.numVars>>}
      BY <2>1, <3>1 DEF Definition
    <3> QED BY <3>2
  <2>2. CASE key \notin DOMAIN m.ors /\ n.ors = Emplace(m.ors, key, m.numVars)
             /\ n.ands = m.ands /\ n.xors = m.xors
    <3>1. Entries("or", n.ors) = Entries("or", m.ors) \cup {<<"or", key, m.numVars>>}
      BY <2>2, EntriesNew
    <3>2. Definition(n) = Definition(m) \cup {<<"or", key, m.numVars>>}
      BY <2>2, <3>1 DEF Definition
    <3> QED BY <3>2
  <2>3. CASE key \notin DOMAIN m.xors /\ n.xors = Emplace(m.xors, key, m.numVars)
             /\ n.ands = m.ands /\ n.ors = m.ors
    <3>1. Entries("xor", n.xors) = Entries("xor", m.xors) \cup {<<"xor", key, m.numVars>>}
      BY <2>3, EntriesNew
    <3>2. Definition(n) = Definition(m) \cup {<<"xor", key, m.numVars>>}
      BY <2>3, <3>1 DEF Definition
    <3> QED BY <3>2
  <2> QED BY <2>1, <2>2, <2>3 DEF key
<1>6. OneEach(n)
  <2>1. PICK operation : Definition(n) = Definition(m) \cup {<<operation, key, m.numVars>>}
    BY <1>5
  <2>2. <<operation, key, m.numVars>>[3] = m.numVars
    OBVIOUS
  <2> QED BY <1>1, <2>1, <2>2, OneMoreDefinition
<1> QED BY <1>2, <1>4, <1>6 DEF Disciplined

-----------------------------------------------------------------------------
(* The operations.                                                          *)

LEMMA NotDisciplined ==
  ASSUME NEW m, Sound(m), Disciplined(m), NEW a \in Known(m)
  PROVE  Disciplined(MakeNot(m, a).m)
<1>1. CASE a \in Constant \/ a \in DOMAIN m.nots
  BY <1>1 DEF MakeNot, Constant, Result
<1>2. CASE a \notin Constant /\ a \notin DOMAIN m.nots
  <2> DEFINE c   == m.numVars
             f   == Not(Truth(m, a))
             ns  == Emplace(Emplace(m.nots, a, c), c, a)
             n   == MakeNot(m, a).m
  <2>1. a \in Var(m) /\ c \in Nat /\ c \notin Var(m) /\ a < c
    BY <1>2, CacheRange, VariableOperand
  <2>2. /\ n.nots = ns /\ n.ands = m.ands /\ n.ors = m.ors
        /\ n.xors = m.xors /\ n.muxes = m.muxes
    <3>1. IsManager(m) /\ f \in SUBSET Assignment
      BY DEF Sound, Not
    <3>2. LET n1 == NewVar(m, f)
          IN  /\ DOMAIN n1 = DOMAIN m /\ n1.nots = m.nots /\ n1.ands = m.ands /\ n1.ors = m.ors
              /\ n1.xors = m.xors /\ n1.muxes = m.muxes
      BY <3>1, NewVarFields
    <3>3. n = [NewVar(m, f) EXCEPT !.nots = Emplace(Emplace(@, a, c), c, a)]
      BY <1>2 DEF MakeNot, Constant, Result
    <3> HIDE DEF f, c, n
    <3> QED BY <3>1, <3>2, <3>3 DEF IsManager
  <2>3. /\ DOMAIN ns = DOMAIN m.nots \cup {a, c} /\ ns[a] = c /\ ns[c] = a
        /\ \A v \in DOMAIN m.nots : ns[v] = m.nots[v] /\ v \in Var(m) /\ m.nots[v] \in Var(m)
    <3>1. \A v \in DOMAIN m.nots : v \in Var(m) /\ m.nots[v] \in Var(m)
      BY CacheRange
    <3> QED BY <1>2, <2>1, <3>1 DEF Emplace
  <2> HIDE DEF ns, n
  <2>4. Mutual(m) /\ Ordered(m) /\ OneEach(m)
    BY DEF Disciplined
  <2>5. Mutual(n)
    BY <2>1, <2>2, <2>3, <2>4 DEF Mutual
  <2>6. Ordered(n)
    BY <2>1, <2>2, <2>3, <2>4 DEF Ordered
  <2>7. Complements(ns) = Complements(m.nots) \cup {<<"not", <<a>>, c>>}
    <3>1. {w \in DOMAIN ns : w < ns[w]} = {w \in DOMAIN m.nots : w < m.nots[w]} \cup {a}
      <4>1. ~(c < a)
        BY <2>1, CacheRange
      <4> QED BY <1>2, <2>1, <2>3, <4>1
    <3>2. \A w \in {w \in DOMAIN m.nots : w < m.nots[w]} : ns[w] = m.nots[w]
      BY <2>3
    <3> QED BY <2>3, <3>1, <3>2 DEF Complements
  <2>8. Definition(n) = Definition(m) \cup {<<"not", <<a>>, c>>}
    BY <2>2, <2>7 DEF Definition
  <2>9. <<"not", <<a>>, c>>[3] = m.numVars
    OBVIOUS
  <2>10. OneEach(n)
    BY <2>4, <2>8, <2>9, OneMoreDefinition
  <2> QED BY <2>5, <2>6, <2>10 DEF Disciplined, n
<1> QED BY <1>1, <1>2

LEMMA AndDisciplined ==
  ASSUME NEW m, Sound(m), Disciplined(m), NEW a \in Known(m), NEW b \in Known(m)
  PROVE  Disciplined(MakeAnd(m, a, b).m)
<1> DEFINE key == BinaryKey(a, b)
           f == Truth(m, a) \cap Truth(m, b)
<1>1. /\ IsManager(m) /\ Truth(m, a) \in SUBSET Assignment /\ Truth(m, b) \in SUBSET Assignment
  BY TruthOf DEF Sound
<1>2. CASE \/ a \in Constant \/ b \in Constant \/ a = b
           \/ Complementary(m, a, b) \/ key \in DOMAIN m.ands
  BY <1>2 DEF MakeAnd, Constant, Result
<1>3. CASE /\ a \notin Constant /\ b \notin Constant /\ a # b
           /\ ~Complementary(m, a, b) /\ key \notin DOMAIN m.ands
  <2>1. a \in Var(m) /\ b \in Var(m)
    BY <1>3, VariableOperand
  <2>2. f \in SUBSET Assignment
    BY <1>1
  <2>3. MakeAnd(m, a, b).m = [NewVar(m, f) EXCEPT !.ands = Emplace(@, key, m.numVars)]
    BY <1>3 DEF MakeAnd, Constant, Result
  <2> HIDE DEF f, key
  <2>4. LET n1 == NewVar(m, f)
        IN  /\ DOMAIN n1 = DOMAIN m /\ "ands" \in DOMAIN n1 /\ n1.nots = m.nots
            /\ n1.ands = m.ands /\ n1.ors = m.ors /\ n1.xors = m.xors /\ n1.muxes = m.muxes
    BY <1>1, <2>2, NewVarFields DEF IsManager
  <2> DEFINE n == MakeAnd(m, a, b).m
  <2>5. /\ n.nots = m.nots /\ n.muxes = m.muxes
        /\ n.ands = Emplace(m.ands, key, m.numVars)
        /\ n.ors = m.ors /\ n.xors = m.xors
    BY <2>3, <2>4
  <2> HIDE DEF n
  <2>6. Disciplined(n)
    BY <1>3, <2>1, <2>5, PairDefined DEF key
  <2> QED BY <2>6 DEF n
<1> QED BY <1>2, <1>3

LEMMA OrDisciplined ==
  ASSUME NEW m, Sound(m), Disciplined(m), NEW a \in Known(m), NEW b \in Known(m)
  PROVE  Disciplined(MakeOr(m, a, b).m)
<1> DEFINE key == BinaryKey(a, b)
           f == Truth(m, a) \cup Truth(m, b)
<1>1. /\ IsManager(m) /\ Truth(m, a) \in SUBSET Assignment /\ Truth(m, b) \in SUBSET Assignment
  BY TruthOf DEF Sound
<1>2. CASE \/ a \in Constant \/ b \in Constant \/ a = b
           \/ Complementary(m, a, b) \/ key \in DOMAIN m.ors
  BY <1>2 DEF MakeOr, Constant, Result
<1>3. CASE /\ a \notin Constant /\ b \notin Constant /\ a # b
           /\ ~Complementary(m, a, b) /\ key \notin DOMAIN m.ors
  <2>1. a \in Var(m) /\ b \in Var(m)
    BY <1>3, VariableOperand
  <2>2. f \in SUBSET Assignment
    BY <1>1
  <2>3. MakeOr(m, a, b).m = [NewVar(m, f) EXCEPT !.ors = Emplace(@, key, m.numVars)]
    BY <1>3 DEF MakeOr, Constant, Result
  <2> HIDE DEF f, key
  <2>4. LET n1 == NewVar(m, f)
        IN  /\ DOMAIN n1 = DOMAIN m /\ "ors" \in DOMAIN n1 /\ n1.nots = m.nots
            /\ n1.ands = m.ands /\ n1.ors = m.ors /\ n1.xors = m.xors /\ n1.muxes = m.muxes
    BY <1>1, <2>2, NewVarFields DEF IsManager
  <2> DEFINE n == MakeOr(m, a, b).m
  <2>5. /\ n.nots = m.nots /\ n.muxes = m.muxes
        /\ n.ors = Emplace(m.ors, key, m.numVars)
        /\ n.ands = m.ands /\ n.xors = m.xors
    BY <2>3, <2>4
  <2> HIDE DEF n
  <2>6. Disciplined(n)
    BY <1>3, <2>1, <2>5, PairDefined DEF key
  <2> QED BY <2>6 DEF n
<1> QED BY <1>2, <1>3

LEMMA XorDisciplined ==
  ASSUME NEW m, Sound(m), Disciplined(m), NEW a \in Known(m), NEW b \in Known(m)
  PROVE  Disciplined(MakeXor(m, a, b).m)
<1> DEFINE key == BinaryKey(a, b)
           f == Xor(Truth(m, a), Truth(m, b))
<1>1. /\ IsManager(m) /\ Truth(m, a) \in SUBSET Assignment /\ Truth(m, b) \in SUBSET Assignment
  BY TruthOf DEF Sound
<1>2. CASE \/ a \in Constant \/ b \in Constant \/ a = b
           \/ Complementary(m, a, b) \/ key \in DOMAIN m.xors
  BY <1>2, NotDisciplined DEF MakeXor, Constant, Result
<1>3. CASE /\ a \notin Constant /\ b \notin Constant /\ a # b
           /\ ~Complementary(m, a, b) /\ key \notin DOMAIN m.xors
  <2>1. a \in Var(m) /\ b \in Var(m)
    BY <1>3, VariableOperand
  <2>2. f \in SUBSET Assignment
    BY <1>1 DEF Xor
  <2>3. MakeXor(m, a, b).m = [NewVar(m, f) EXCEPT !.xors = Emplace(@, key, m.numVars)]
    BY <1>3 DEF MakeXor, Constant, Result
  <2> HIDE DEF f, key
  <2>4. LET n1 == NewVar(m, f)
        IN  /\ DOMAIN n1 = DOMAIN m /\ "xors" \in DOMAIN n1 /\ n1.nots = m.nots
            /\ n1.ands = m.ands /\ n1.ors = m.ors /\ n1.xors = m.xors /\ n1.muxes = m.muxes
    BY <1>1, <2>2, NewVarFields DEF IsManager
  <2> DEFINE n == MakeXor(m, a, b).m
  <2>5. /\ n.nots = m.nots /\ n.muxes = m.muxes
        /\ n.xors = Emplace(m.xors, key, m.numVars)
        /\ n.ands = m.ands /\ n.ors = m.ors
    BY <2>3, <2>4
  <2> HIDE DEF n
  <2>6. Disciplined(n)
    BY <1>3, <2>1, <2>5, PairDefined DEF key
  <2> QED BY <2>6 DEF n
<1> QED BY <1>2, <1>3

LEMMA NotThenDisciplined ==
  ASSUME NEW m, Sound(m), Disciplined(m), NEW s \in Known(m), NEW b \in Known(m)
  PROVE  Disciplined(NotAnd(m, s, b).m) /\ Disciplined(NotOr(m, s, b).m)
<1> DEFINE n == MakeNot(m, s)
<1>1. Grown(m, n.m) /\ Sound(n.m) /\ n.v \in Known(n.m)
  BY NotComputes DEF Computes, Grown
<1>2. Disciplined(n.m)
  BY NotDisciplined
<1>3. b \in Known(n.m)
  BY <1>1, GrownKnown
<1>4. NotAnd(m, s, b) = MakeAnd(n.m, n.v, b) /\ NotOr(m, s, b) = MakeOr(n.m, n.v, b)
  BY DEF NotAnd, NotOr
<1> HIDE DEF n
<1> QED BY <1>1, <1>2, <1>3, <1>4, AndDisciplined, OrDisciplined

LEMMA MuxDisciplined ==
  ASSUME NEW m, Sound(m), Disciplined(m), NEW s \in Known(m), NEW t \in Known(m), NEW e \in Known(m)
  PROVE  Disciplined(MakeMux(m, s, t, e).m)
<1> DEFINE key == <<s, t, e>>
           f   == Mux(Truth(m, s), Truth(m, t), Truth(m, e))
           n   == MakeMux(m, s, t, e).m
<1>1. /\ Disciplined(MakeOr(m, s, e).m) /\ Disciplined(MakeAnd(m, s, t).m)
      /\ Disciplined(MakeXor(m, s, e).m) /\ Disciplined(MakeAnd(m, t, e).m)
      /\ Disciplined(MakeOr(m, e, t).m)
  BY OrDisciplined, AndDisciplined, XorDisciplined
<1>2. Disciplined(NotAnd(m, s, e).m) /\ Disciplined(NotOr(m, s, t).m)
  BY NotThenDisciplined
<1>3. CASE s \in Constant \/ t = e \/ t \in Constant \/ e \in Constant
  BY <1>1, <1>2, <1>3 DEF MakeMux, Constant, Result
<1>4. CASE /\ s \notin Constant /\ t # e /\ t \notin Constant /\ e \notin Constant
           /\ \/ Complementary(m, t, e) \/ t = s \/ Complementary(m, t, s) \/ e = s
              \/ Complementary(m, e, s) \/ key \in DOMAIN m.muxes
  BY <1>1, <1>4 DEF MakeMux, Constant, Result, Complementary
<1>5. CASE /\ s \notin Constant /\ t # e /\ t \notin Constant /\ e \notin Constant
           /\ ~Complementary(m, t, e) /\ t # s /\ ~Complementary(m, t, s) /\ e # s
           /\ ~Complementary(m, e, s) /\ key \notin DOMAIN m.muxes
  <2>1. s \in Var(m) /\ t \in Var(m) /\ e \in Var(m)
    BY <1>5, VariableOperand
  <2>2. IsManager(m) /\ f \in SUBSET Assignment
    BY TruthOf DEF Sound, Mux
  <2>3. n = [NewVar(m, f) EXCEPT !.muxes = Emplace(@, key, m.numVars)]
    BY <1>5 DEF MakeMux, Constant, Result
  <2>4. key[1] < m.numVars /\ key[2] < m.numVars /\ key[3] < m.numVars
    BY <2>1, CacheRange
  <2> HIDE DEF f, key, n
  <2>5. LET n1 == NewVar(m, f)
        IN  /\ DOMAIN n1 = DOMAIN m /\ "muxes" \in DOMAIN n1 /\ n1.nots = m.nots
            /\ n1.ands = m.ands /\ n1.ors = m.ors /\ n1.xors = m.xors /\ n1.muxes = m.muxes
    BY <2>2, NewVarFields DEF IsManager
  <2>6. /\ n.nots = m.nots /\ n.ands = m.ands /\ n.ors = m.ors /\ n.xors = m.xors
        /\ n.muxes = Emplace(m.muxes, key, m.numVars)
    BY <2>3, <2>5
  <2>7. /\ DOMAIN n.muxes = DOMAIN m.muxes \cup {key} /\ n.muxes[key] = m.numVars
        /\ \A k \in DOMAIN m.muxes : n.muxes[k] = m.muxes[k]
    BY <1>5, <2>6 DEF Emplace
  <2>8. Ordered(m) /\ OneEach(m) /\ Mutual(m)
    BY DEF Disciplined
  <2>9. Ordered(n)
    BY <2>4, <2>6, <2>7, <2>8 DEF Ordered, PairsOrdered
  <2>10. Entries("mux", n.muxes) = Entries("mux", m.muxes) \cup {<<"mux", key, m.numVars>>}
    BY <1>5, <2>6, EntriesNew
  <2>11. Definition(n) = Definition(m) \cup {<<"mux", key, m.numVars>>}
    BY <2>6, <2>10 DEF Definition
  <2>12. <<"mux", key, m.numVars>>[3] = m.numVars
    OBVIOUS
  <2>13. OneEach(n)
    BY <2>8, <2>11, <2>12, OneMoreDefinition
  <2>14. Mutual(n)
    BY <2>6, <2>8 DEF Mutual
  <2>15. Disciplined(n)
    BY <2>9, <2>13, <2>14 DEF Disciplined
  <2> QED BY <2>15 DEF n
<1> QED BY <1>3, <1>4, <1>5

(* Nothing else changes what is defined.                                    *)
LEMMA SameCaches ==
  ASSUME NEW m, Disciplined(m), NEW n, n.nots = m.nots, n.ands = m.ands, n.ors = m.ors,
         n.xors = m.xors, n.muxes = m.muxes
  PROVE  Disciplined(n)
<1>1. Definition(n) = Definition(m)
  BY DEF Definition
<1> QED BY <1>1 DEF Disciplined, Ordered, OneEach, Mutual
-----------------------------------------------------------------------------
(* Emission.                                                                *)

(* n is what m became: besides variables, slots may have been added.        *)
Later(m, n) ==
  /\ Sound(n)
  /\ m.numVars <= n.numVars /\ m.numEmitted <= n.numEmitted
  /\ \A v \in Var(m) : n.truth[v] = m.truth[v]
  /\ DOMAIN m.slots \subseteq DOMAIN n.slots
  /\ \A v \in DOMAIN m.slots : n.slots[v] = m.slots[v]

LEMMA GrownLater ==
  ASSUME NEW m, NEW n, Sound(m), Grown(m, n) PROVE Later(m, n)
  BY DEF Sound, IsManager, Grown, Later

LEMMA LaterSame ==
  ASSUME NEW m, Sound(m) PROVE Later(m, m)
  BY DEF Sound, IsManager, Later

LEMMA LaterTwice ==
  ASSUME NEW m, NEW n, NEW k, Sound(m), Later(m, n), Later(n, k) PROVE Later(m, k)
<1>1. /\ m.numVars \in Nat /\ n.numVars \in Nat /\ k.numVars \in Nat
      /\ m.numEmitted \in Nat /\ n.numEmitted \in Nat /\ k.numEmitted \in Nat
  BY DEF Sound, Later, IsManager
<1>2. m.numVars <= k.numVars /\ m.numEmitted <= k.numEmitted
  BY <1>1 DEF Later
<1>3. \A v \in Var(m) : v \in Var(n)
  BY <1>1 DEF Later, Var
<1> QED BY <1>2, <1>3 DEF Later

LEMMA LaterKnown ==
  ASSUME NEW m, NEW n, Sound(m), Later(m, n), NEW v \in Known(m)
  PROVE  v \in Known(n) /\ Truth(n, v) = Truth(m, v)
  BY DEF Sound, Later, Known, Var, Truth, IsManager, Constant, ZERO, ONE

(* A symbol that is right stays right.                                      *)
LEMMA LaterSymbol ==
  ASSUME NEW m, NEW n, Sound(m), Later(m, n), NEW x, NEW f, GoodSymbol(m, x, f)
  PROVE  GoodSymbol(n, x, f)
<1>1. x.var \in Known(n) /\ Truth(n, x.var) = f
  BY LaterKnown DEF GoodSymbol
<1>2. m.numEmitted \in Nat /\ n.numEmitted \in Nat /\ m.numEmitted <= n.numEmitted
  BY DEF Sound, Later, IsManager
<1>3. x \in [var : Known(n), pos : {INVALID_POS} \cup 0 .. n.numEmitted - 1]
  BY <1>1, <1>2 DEF GoodSymbol
<1> QED BY <1>1, <1>3 DEF GoodSymbol, Later

LEMMA EmissionFacts ==
  ASSUME NEW m, Sound(m), NEW v \in Var(m), NEW n, n = NewEmission(m, v)
  PROVE  /\ Later(m, n) /\ n.numVars = m.numVars /\ n.truth = m.truth
         /\ n.nots = m.nots /\ n.ands = m.ands /\ n.ors = m.ors
         /\ n.xors = m.xors /\ n.muxes = m.muxes
         /\ v \in DOMAIN m.slots => n = m
         /\ v \notin DOMAIN m.slots => /\ n.numEmitted = m.numEmitted + 1
                                       /\ n.slots[v] = m.numEmitted
         /\ DOMAIN n.slots = DOMAIN m.slots \cup {v}
         /\ DenseSlots(m) => DenseSlots(n)
<1>1. /\ m.numEmitted \in Nat /\ DOMAIN m.slots \subseteq Var(m) /\ m.numVars \in Nat
      /\ m.slots \in [DOMAIN m.slots -> 0 .. m.numEmitted - 1]
  BY DEF Sound, IsManager
<1>2. CASE v \in DOMAIN m.slots
  <2>1. n = m
    BY <1>2 DEF NewEmission
  <2> QED BY <1>2, <2>1, LaterSame
<1>3. CASE v \notin DOMAIN m.slots
  <2>1. /\ DOMAIN n = DOMAIN m
        /\ n.numVars = m.numVars /\ n.truth = m.truth
        /\ n.nots = m.nots /\ n.ands = m.ands /\ n.ors = m.ors
        /\ n.xors = m.xors /\ n.muxes = m.muxes
        /\ n.slots = Emplace(m.slots, v, m.numEmitted)
        /\ n.numEmitted = m.numEmitted + 1
    BY <1>3 DEF NewEmission, Sound, IsManager
  <2>2. /\ DOMAIN n.slots = DOMAIN m.slots \cup {v}
        /\ n.slots[v] = m.numEmitted
        /\ \A w \in DOMAIN m.slots : n.slots[w] = m.slots[w]
        /\ n.slots = [w \in DOMAIN n.slots |-> n.slots[w]]
    BY <1>3, <2>1 DEF Emplace
  <2>3. n.slots \in [DOMAIN n.slots -> 0 .. n.numEmitted - 1]
    BY <1>1, <2>1, <2>2
  <2>4. DOMAIN n.slots \subseteq Var(n)
    BY <1>1, <2>1, <2>2 DEF Var
  <2>5. Sound(n)
    BY <1>1, <2>1, <2>3, <2>4 DEF Sound, IsManager, CachesSound, PairCache, Var
  <2>6. Later(m, n)
    BY <1>1, <2>1, <2>2, <2>5 DEF Later
  <2>7. ASSUME DenseSlots(m) PROVE DenseSlots(n)
    <3>1. \A w, x \in DOMAIN n.slots : n.slots[w] = n.slots[x] => w = x
      BY <1>1, <2>2, <2>7 DEF DenseSlots
    <3>2. {n.slots[w] : w \in DOMAIN n.slots}
            = {m.slots[w] : w \in DOMAIN m.slots} \cup {m.numEmitted}
      BY <1>3, <2>2
    <3>3. {n.slots[w] : w \in DOMAIN n.slots} = 0 .. n.numEmitted - 1
      BY <1>1, <2>1, <2>7, <3>2 DEF DenseSlots
    <3> QED BY <3>1, <3>3 DEF DenseSlots
  <2> QED BY <1>3, <2>1, <2>2, <2>6, <2>7
<1> QED BY <1>2, <1>3

(* A new variable that is no operation: an input.                           *)
LEMMA InputFacts ==
  ASSUME NEW m, Sound(m), NEW f \in SUBSET Assignment
  PROVE  /\ Computes(m, Result(NewVar(m, f), m.numVars), f)
         /\ Disciplined(m) => Disciplined(NewVar(m, f))
<1>1. /\ BaseOK(m) /\ NotsOK(m) /\ AndsOK(m) /\ OrsOK(m) /\ XorsOK(m)
      /\ MuxesOK(m) /\ IsManager(m)
  BY SoundParts DEF Sound
<1>2. LET n == NewVar(m, f)
      IN  /\ OneMore(m, n, f) /\ n.nots = m.nots /\ n.ands = m.ands
          /\ n.ors = m.ors /\ n.xors = m.xors /\ n.muxes = m.muxes
  BY <1>1, NewVarFields DEF OneMore
<1> QED BY <1>1, <1>2, OldCaches, Added, SameCaches
=============================================================================
