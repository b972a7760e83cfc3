--------------------------- MODULE Symbol_proofs ---------------------------
(***************************************************************************)
(* Proofs about Symbol: the code generated for every symbol computes the    *)
(* function of its expression, and slots are never confused.                *)
(***************************************************************************)
EXTENDS Symbol, SymbolManager_proofs

LEMMA IInvSound == IInv => Sound(mgr)
  BY DEF IInv, TypeOK, Sound

Parts == /\ Sound(mgr) /\ DenseSlots(mgr)
         /\ handle = [h \in Handle |-> handle[h]]
         /\ want \in [Handle -> SUBSET Assignment]
         /\ \A h \in Handle : GoodSymbol(mgr, handle[h], want[h])

LEMMA IInvParts == IInv <=> Parts
<1>1. ASSUME IInv PROVE \A h \in Handle : GoodSymbol(mgr, handle[h], want[h])
  BY <1>1 DEF IInv, TypeOK, HandleSound, PositionNeverWrong, GoodSymbol
<1>2. ASSUME IInv PROVE /\ Sound(mgr) /\ DenseSlots(mgr)
                        /\ handle = [h \in Handle |-> handle[h]]
                        /\ want \in [Handle -> SUBSET Assignment]
  BY <1>2 DEF IInv, TypeOK, Sound, SlotsDense, DenseSlots
<1>3. ASSUME Sound(mgr), DenseSlots(mgr), handle = [h \in Handle |-> handle[h]],
             want \in [Handle -> SUBSET Assignment],
             \A h \in Handle : GoodSymbol(mgr, handle[h], want[h])
      PROVE  IInv
  <2>1. TypeOK
    BY <1>3 DEF TypeOK, Sound, GoodSymbol
  <2>2. HandleSound /\ PositionNeverWrong
    BY <1>3 DEF HandleSound, PositionNeverWrong, GoodSymbol
  <2> QED BY <1>3, <2>1, <2>2 DEF IInv, Sound, SlotsDense, DenseSlots
<1> QED BY <1>1, <1>2, <1>3 DEF Parts

LEMMA PutStep ==
  ASSUME IInv, NEW h \in Handle, NEW res, NEW f \in SUBSET Assignment,
         Computes(mgr, res, f), Put(h, res, f)
  PROVE  IInv'
<1>1. /\ Sound(mgr) /\ DenseSlots(mgr)
      /\ handle = [g \in Handle |-> handle[g]] /\ want \in [Handle -> SUBSET Assignment]
      /\ \A g \in Handle : GoodSymbol(mgr, handle[g], want[g])
  BY IInvParts DEF Parts
<1>2. /\ mgr' = res.m /\ Grown(mgr, mgr') /\ Sound(mgr')
      /\ res.v \in Known(mgr') /\ Truth(mgr', res.v) = f
      /\ handle' = [handle EXCEPT ![h] = SymbolOf(mgr', res.v)]
      /\ want' = [want EXCEPT ![h] = f]
  BY DEF Put, Computes, Grown
<1>3. DenseSlots(mgr')
  BY <1>1, <1>2 DEF DenseSlots, Grown
<1>4. GoodSymbol(mgr', handle'[h], want'[h])
  BY <1>1, <1>2, NewSymbol
<1>5. ASSUME NEW g \in Handle, g # h PROVE GoodSymbol(mgr', handle'[g], want'[g])
  <2>1. handle'[g] = handle[g] /\ want'[g] = want[g]
    BY <1>1, <1>2, <1>5
  <2> QED BY <1>1, <1>2, <2>1, GrownSymbol
<1>6. /\ handle' = [g \in Handle |-> handle'[g]] /\ want' \in [Handle -> SUBSET Assignment]
  BY <1>1, <1>2
<1>7. Parts'
  BY <1>2, <1>3, <1>4, <1>5, <1>6 DEF Parts
<1> QED BY <1>7, IInvParts, PTL

LEMMA EmitStep ==
  ASSUME IInv, NEW h \in Handle, Emit(h) PROVE IInv'
<1> DEFINE v == handle[h].var
<1>1. /\ Sound(mgr) /\ DenseSlots(mgr)
      /\ handle = [g \in Handle |-> handle[g]] /\ want \in [Handle -> SUBSET Assignment]
      /\ \A g \in Handle : GoodSymbol(mgr, handle[g], want[g])
  BY IInvParts DEF Parts
<1>2. /\ v \in Var(mgr) /\ mgr' = NewEmission(mgr, v)
      /\ handle' = [handle EXCEPT ![h] = SymbolOf(mgr', v)] /\ want' = want
  <2>1. v \in Known(mgr)
    BY <1>1 DEF GoodSymbol
  <2> QED BY <1>1, <2>1, VariableOperand DEF Emit
<1>4. Later(mgr, mgr') /\ Sound(mgr') /\ DenseSlots(mgr')
  BY <1>1, <1>2, EmissionFacts DEF Later
<1>5. v \in Known(mgr') /\ Truth(mgr', v) = Truth(mgr, v)
  BY <1>1, <1>2, <1>4, LaterKnown DEF Known
<1>6. \A g \in Handle : GoodSymbol(mgr', handle[g], want[g])
  BY <1>1, <1>4, LaterSymbol
<1>7. GoodSymbol(mgr', handle'[h], want'[h])
  BY <1>1, <1>2, <1>4, <1>5, NewSymbol DEF GoodSymbol
<1>8. ASSUME NEW g \in Handle, g # h PROVE GoodSymbol(mgr', handle'[g], want'[g])
  BY <1>1, <1>2, <1>6, <1>8
<1>9. Parts'
  BY <1>1, <1>2, <1>4, <1>7, <1>8 DEF Parts
<1> QED BY <1>9, IInvParts, PTL

LEMMA CopyStep ==
  ASSUME IInv, NEW h \in Handle,
         (\E bit \in BOOLEAN : AssignBool(h, bit)) \/ (\E g \in Handle : Copy(h, g))
  PROVE  IInv'
<1>1. /\ Sound(mgr) /\ DenseSlots(mgr)
      /\ handle = [g \in Handle |-> handle[g]] /\ want \in [Handle -> SUBSET Assignment]
      /\ \A g \in Handle : GoodSymbol(mgr, handle[g], want[g])
  BY IInvParts DEF Parts
<1>2. ASSUME NEW bit \in BOOLEAN
      PROVE  GoodSymbol(mgr, ConstSymbol(bit), IF bit THEN Assignment ELSE {})
  BY Constants DEF GoodSymbol, ConstSymbol, Known, Constant, Truth
<1>3. PICK x, f : /\ GoodSymbol(mgr, x, f) /\ f \in SUBSET Assignment /\ mgr' = mgr
                  /\ handle' = [handle EXCEPT ![h] = x] /\ want' = [want EXCEPT ![h] = f]
  BY <1>1, <1>2 DEF AssignBool, Copy
<1>4. Parts'
  BY <1>1, <1>3 DEF Parts
<1> QED BY <1>4, IInvParts, PTL

LEMMA InvInit == Init => IInv
<1> SUFFICES ASSUME Init PROVE Parts
  BY IInvParts
<1>1. Sound(mgr) /\ DenseSlots(mgr)
  BY DEF Init, NewManager, Empty, Sound, IsManager, CachesSound, PairCache, Var, DenseSlots
<1>2. GoodSymbol(mgr, [var |-> ZERO, pos |-> INVALID_POS], {})
  <2>1. ZERO \in Known(mgr)
    BY DEF Known, Constant
  <2>2. Truth(mgr, ZERO) = {}
    BY <1>1, <2>1, TruthOf DEF Sound
  <2> QED BY <2>1, <2>2 DEF GoodSymbol
<1>3. handle = [h \in Handle |-> [var |-> ZERO, pos |-> INVALID_POS]]
  BY DEF Init, ConstSymbol
<1> QED BY <1>1, <1>2, <1>3 DEF Init, Parts

LEMMA InvNext == IInv /\ [Next]_vars => IInv'
<1> SUFFICES ASSUME IInv, [Next]_vars PROVE IInv'
  OBVIOUS
<1>1. CASE UNCHANGED vars
  <2>1. Parts
    BY IInvParts
  <2>2. Parts'
    BY <1>1, <2>1 DEF vars, Parts
  <2> QED BY <2>2, IInvParts, PTL
<1>2. CASE Next
  <2>1. PICK h \in Handle :
          \/ CreateSymbol(h) \/ Emit(h)
          \/ \E bit \in BOOLEAN : AssignBool(h, bit)
          \/ \E a \in Handle : Copy(h, a) \/ NotOf(h, a)
          \/ \E a, b \in Handle : AndOf(h, a, b) \/ OrOf(h, a, b) \/ XorOf(h, a, b)
          \/ \E s, t, e \in Handle : MuxOf(h, s, t, e)
    BY <1>2 DEF Next
  <2>2. /\ Sound(mgr) /\ want \in [Handle -> SUBSET Assignment]
        /\ \A g \in Handle : handle[g].var \in Known(mgr) /\ Truth(mgr, handle[g].var) = want[g]
    BY IInvParts DEF Parts, GoodSymbol
  <2>3. CASE CreateSymbol(h)
    <3>1. PICK f \in FreshTruth : Put(h, Result(NewVar(mgr, f), mgr.numVars), f)
      BY <2>3 DEF CreateSymbol
    <3>2. f \in SUBSET Assignment
      BY SymbolAssumption
    <3>5. Computes(mgr, Result(NewVar(mgr, f), mgr.numVars), f)
      BY <2>2, <3>2, InputFacts
    <3> QED BY <3>1, <3>2, <3>5, PutStep
  <2>4. CASE \E a \in Handle : NotOf(h, a)
    BY <2>2, <2>4, NotComputes, PutStep DEF NotOf, Not
  <2>5. CASE \E a, b \in Handle : AndOf(h, a, b)
    BY <2>2, <2>5, AndComputes, PutStep DEF AndOf
  <2>6. CASE \E a, b \in Handle : OrOf(h, a, b)
    BY <2>2, <2>6, OrComputes, PutStep DEF OrOf
  <2>7. CASE \E a, b \in Handle : XorOf(h, a, b)
    BY <2>2, <2>7, XorComputes, PutStep DEF XorOf, Xor
  <2>8. CASE \E s, t, e \in Handle : MuxOf(h, s, t, e)
    BY <2>2, <2>8, MuxComputes, PutStep DEF MuxOf, Mux
  <2> QED BY <2>1, <2>3, <2>4, <2>5, <2>6, <2>7, <2>8, EmitStep, CopyStep
<1> QED BY <1>1, <1>2 DEF vars

(* The inductive invariant holds: sound caches are what makes the symbols   *)
(* sound, so it is needed for HandleSound.                                  *)
THEOREM Invariant == Spec => []IInv
<1> QED BY InvInit, InvNext, PTL DEF Spec

(* The manager is well formed, and no operand of generated code is a        *)
(* constant.                                                                *)
THEOREM TypeCorrect == Spec => []TypeOK
<1>1. IInv => TypeOK
  BY DEF IInv
<1> QED BY <1>1, Invariant, PTL

(* Sharing and simplification never change what a symbol computes           *)
(* (SymbolManager.cpp:22-168).                                              *)
THEOREM HandleSoundHolds == Spec => []HandleSound
<1>1. IInv => HandleSound
  BY DEF IInv
<1> QED BY <1>1, Invariant, PTL

(* The slot a symbol remembers is the slot of its variable (Symbol.h:35).   *)
THEOREM PositionHolds == Spec => []PositionNeverWrong
<1>1. IInv => PositionNeverWrong
  BY DEF IInv
<1> QED BY <1>1, Invariant, PTL

(* Emission is a bijection between the emitted variables and the slots of   *)
(* the storage (SymbolManager.h:131).                                       *)
THEOREM SlotsDenseHolds == Spec => []SlotsDense
<1>1. IInv => SlotsDense
  BY DEF IInv
<1> QED BY <1>1, Invariant, PTL

-----------------------------------------------------------------------------
(* The generated code: every macro names only variables that exist before   *)
(* it, and none is written twice.                                           *)

LEMMA InitDisciplined == Init => Disciplined(mgr)
  BY DEF Init, NewManager, Empty, Disciplined, Ordered, PairsOrdered, OneEach, Mutual,
         Definition, Complements, Entries

LEMMA NextDisciplined == IInv /\ Disciplined(mgr) /\ [Next]_vars => Disciplined(mgr)'
<1> SUFFICES ASSUME IInv, Disciplined(mgr), [Next]_vars PROVE Disciplined(mgr')
  OBVIOUS
<1>1. Sound(mgr) /\ \A g \in Handle : handle[g].var \in Known(mgr)
  BY IInvParts DEF Parts, GoodSymbol
<1>2. CASE UNCHANGED vars
  BY <1>2 DEF vars
<1>3. ASSUME NEW h \in Handle, CreateSymbol(h) PROVE Disciplined(mgr')
  <2>1. PICK f \in FreshTruth : mgr' = NewVar(mgr, f)
    BY <1>3 DEF CreateSymbol, Put, Result
  <2>2. f \in SUBSET Assignment
    BY SymbolAssumption
  <2> QED BY <1>1, <2>1, <2>2, InputFacts
<1>4. ASSUME NEW h \in Handle, Emit(h) PROVE Disciplined(mgr')
  <2>1. /\ mgr'.nots = mgr.nots /\ mgr'.ands = mgr.ands /\ mgr'.ors = mgr.ors
        /\ mgr'.xors = mgr.xors /\ mgr'.muxes = mgr.muxes
    BY <1>1, <1>4 DEF Emit, NewEmission, Sound, IsManager
  <2> QED BY <2>1, SameCaches
<1>5. ASSUME NEW h \in Handle, NEW bit \in BOOLEAN, AssignBool(h, bit) PROVE Disciplined(mgr')
  BY <1>5 DEF AssignBool
<1>6. ASSUME NEW h \in Handle, NEW a \in Handle, Copy(h, a) \/ NotOf(h, a) PROVE Disciplined(mgr')
  BY <1>1, <1>6, NotDisciplined DEF Copy, NotOf, Put
<1>7. ASSUME NEW h \in Handle, NEW a \in Handle, NEW b \in Handle,
             AndOf(h, a, b) \/ OrOf(h, a, b) \/ XorOf(h, a, b)
      PROVE  Disciplined(mgr')
  BY <1>1, <1>7, AndDisciplined, OrDisciplined, XorDisciplined DEF AndOf, OrOf, XorOf, Put
<1>8. ASSUME NEW h \in Handle, NEW s \in Handle, NEW t \in Handle, NEW e \in Handle,
             MuxOf(h, s, t, e)
      PROVE  Disciplined(mgr')
  BY <1>1, <1>8, MuxDisciplined DEF MuxOf, Put
<1> QED BY <1>2, <1>3, <1>4, <1>5, <1>6, <1>7, <1>8 DEF Next

LEMMA AlwaysDisciplined == Spec => []Disciplined(mgr)
<1> QED BY InitDisciplined, NextDisciplined, Invariant, PTL DEF Spec

(* The expansion of generated code ends, for any number of symbols and      *)
(* variables (SymbolManager.cpp:22-168).                                    *)
THEOREM OrderedHolds == Spec => []DefinitionsOrdered
<1>1. Disciplined(mgr) => DefinitionsOrdered
  BY DEF Disciplined, DefinitionsOrdered
<1> QED BY <1>1, AlwaysDisciplined, PTL

(* No macro is written twice (SymbolManager.cpp:22-168).                    *)
THEOREM DefinedOnceHolds == Spec => []DefinedOnce
<1>1. Disciplined(mgr) => DefinedOnce
  BY DEF Disciplined, DefinedOnce
<1> QED BY <1>1, AlwaysDisciplined, PTL
=============================================================================
