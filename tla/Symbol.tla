------------------------------- MODULE Symbol ------------------------------
(***************************************************************************)
(* The symbolic bits a testbench and the simulator handle (src/Symbol.h,    *)
(* .cpp) over their one static manager.  Symbols are copies of a variable   *)
(* and of the slot it had when the copy was made.                           *)
(***************************************************************************)
EXTENDS SymbolManager

CONSTANTS
  Handle,     (* the Symbol objects of a testbench and of the trace          *)
  FreshTruth, (* the functions a new input may stand for                     *)
  MaxVars,    (* bound: variables allocated by a behaviour                   *)
  MaxEmitted  (* bound: slots given out, by the number of variables          *)

ASSUME SymbolAssumption ==
  /\ FreshTruth \subseteq SUBSET Assignment
  /\ MaxVars \in Nat
  /\ MaxEmitted \in [0 .. MaxVars -> Nat]

VARIABLES
  mgr,    (* Symbol::s_manager                                               *)
  handle, (* m_variable and m_position of every symbol                       *)
  want    (* history: the function the expression of every symbol denotes    *)

vars == <<mgr, handle, want>>

Init == /\ mgr = NewManager
        /\ handle = [h \in Handle |-> ConstSymbol(FALSE)]
        /\ want = [h \in Handle |-> {}]

Bounded(m) == m.numVars <= MaxVars /\ m.numEmitted <= MaxEmitted[m.numVars]

(* Mutant: the variable is replaced, the slot it had is not.                *)
PutKeepsSlot(h, res, f) ==
  /\ Bounded(res.m)
  /\ mgr' = res.m
  /\ handle' = [handle EXCEPT ![h].var = res.v]
  /\ want' = [want EXCEPT ![h] = f]

(* h becomes the symbol of the variable an operation returned.              *)
Put(h, res, f) ==
  /\ Bounded(res.m)
  /\ mgr' = res.m
  /\ handle' = [handle EXCEPT ![h] = SymbolOf(res.m, res.v)]
  /\ want' = [want EXCEPT ![h] = f]

CreateSymbol(h) ==
  \E f \in FreshTruth : Put(h, Result(NewVar(mgr, f), mgr.numVars), f)

AssignBool(h, bit) ==
  /\ handle' = [handle EXCEPT ![h] = ConstSymbol(bit)]
  /\ want' = [want EXCEPT ![h] = IF bit THEN Assignment ELSE {}]
  /\ UNCHANGED mgr

(* A copy keeps the slot its original knew.                                 *)
Copy(h, g) ==
  /\ handle' = [handle EXCEPT ![h] = handle[g]]
  /\ want' = [want EXCEPT ![h] = want[g]]
  /\ UNCHANGED mgr

Emit(h) ==
  /\ handle[h].var \notin Constant
  /\ mgr' = NewEmission(mgr, handle[h].var)
  /\ Bounded(mgr')
  /\ handle' = [handle EXCEPT ![h] = SymbolOf(mgr', @.var)]
  /\ UNCHANGED want

NotOf(h, a) ==
  Put(h, MakeNot(mgr, handle[a].var), Not(want[a]))

AndOf(h, a, b) ==
  Put(h, MakeAnd(mgr, handle[a].var, handle[b].var), want[a] \cap want[b])

OrOf(h, a, b) ==
  Put(h, MakeOr(mgr, handle[a].var, handle[b].var), want[a] \cup want[b])

XorOf(h, a, b) ==
  Put(h, MakeXor(mgr, handle[a].var, handle[b].var), Xor(want[a], want[b]))

MuxOf(h, s, t, e) ==
  Put(h, MakeMux(mgr, handle[s].var, handle[t].var, handle[e].var),
         Mux(want[s], want[t], want[e]))

Next ==
  \E h \in Handle :
    \/ CreateSymbol(h) \/ Emit(h)
    \/ \E bit \in BOOLEAN : AssignBool(h, bit)
    \/ \E a \in Handle : Copy(h, a) \/ NotOf(h, a)
    \/ \E a, b \in Handle : AndOf(h, a, b) \/ OrOf(h, a, b) \/ XorOf(h, a, b)
    \/ \E s, t, e \in Handle : MuxOf(h, s, t, e)

Spec == Init /\ [][Next]_vars

-----------------------------------------------------------------------------
(* Properties.                                                              *)

(* The manager is well formed and symbols hold variables it knows.          *)
TypeOK ==
  /\ IsManager(mgr)
  /\ handle \in [Handle -> [var : Known(mgr),
                            pos : {INVALID_POS} \cup 0 .. mgr.numEmitted - 1]]
  /\ want \in [Handle -> SUBSET Assignment]

(* However expressions are shared and simplified, the code generated for a  *)
(* symbol computes the function its expression denotes.                     *)
HandleSound == \A h \in Handle : Truth(mgr, handle[h].var) = want[h]

(* A slot is looked up when a symbol is made and kept in every copy: it can *)
(* be missing, but never be the slot of another variable.                   *)
PositionNeverWrong ==
  \A h \in Handle :
    handle[h].pos # INVALID_POS =>
      /\ handle[h].var \in DOMAIN mgr.slots
      /\ mgr.slots[handle[h].var] = handle[h].pos

(* Slots are given out one by one: emitted variables have slots of their    *)
(* own and there is no gap, so the storage of RUN_LENGTH words is used up   *)
(* exactly.                                                                 *)
SlotsDense ==
  /\ \A v, w \in DOMAIN mgr.slots : mgr.slots[v] = mgr.slots[w] => v = w
  /\ {mgr.slots[v] : v \in DOMAIN mgr.slots} = 0 .. mgr.numEmitted - 1

(* The macro of a variable names only variables that exist before it: the   *)
(* expansion of generated code ends, whatever was simplified and cached.    *)
DefinitionsOrdered == Ordered(mgr)

(* No macro is written twice: a variable is the result of at most one       *)
(* operation on one list of operands, and complements are mutual.           *)
DefinedOnce == OneEach(mgr) /\ Mutual(mgr)

-----------------------------------------------------------------------------
(* The inductive invariant: what every cache promises of its entries.       *)
IInv == TypeOK /\ CachesSound(mgr) /\ HandleSound /\ PositionNeverWrong /\ SlotsDense
=============================================================================
