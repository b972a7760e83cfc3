------------------------------- MODULE Folding ------------------------------
(***************************************************************************)
(* What FoldLeft computes, as facts a proof can use: the successive values  *)
(* of the fold of op over a sequence.  The loops of the simulator are folds *)
(* of operators of two arguments; a module that proves something about one  *)
(* of them instantiates this module with that operator for op.              *)
(***************************************************************************)
EXTENDS Integers, WellFoundedInduction, TLAPS

CONSTANT op(_, _)

(* The library folds by recursion over the set of indices: the value of a   *)
(* set is op of the value of the set without its greatest element.          *)
Greatest(s) == CHOOSE x \in s : \A y \in s : x >= y
Step(it, base, seq, s) == IF s = {} THEN base ELSE op(it[s \ {Greatest(s)}], seq[Greatest(s)])
IsIter(it, base, seq, D) == it = [s \in SUBSET D |-> Step(it, base, seq, s)]

(* FoldLeft(op, base, seq)                                                  *)
Fold(base, seq) == (CHOOSE it : IsIter(it, base, seq, DOMAIN seq))[DOMAIN seq]

(* f lists the values of the fold: f[n] is the one after n elements.        *)
Values(f, base, seq, N) ==
  /\ f[0] = base
  /\ \A n \in 0 .. N - 1 : f[n + 1] = op(f[n], seq[n + 1])

-----------------------------------------------------------------------------

(* Induction over the natural numbers, for a set of them.                   *)
LEMMA SetInduction ==
  ASSUME NEW S, 0 \in S, \A n \in Nat : n \in S => n + 1 \in S
  PROVE  Nat \subseteq S
<1>1. SUFFICES ASSUME Nat \ S # {} PROVE FALSE
  OBVIOUS
<1>2. PICK x \in Nat \ S : \A y \in Nat \ S : ~ (<<y, x>> \in OpToRel(<, Nat))
  BY <1>1, NatLessThanWellFounded, WFMin
<1>3. x # 0 /\ x \in Nat
  BY <1>2
<1>4. x - 1 \in Nat /\ (x - 1) + 1 = x
  BY <1>3
<1>5. x - 1 \notin S
  BY <1>4, <1>2
<1>6. <<x - 1, x>> \in OpToRel(<, Nat)
  BY <1>3, <1>4 DEF OpToRel
<1> QED BY <1>2, <1>4, <1>5, <1>6

LEMMA GreatestOfInterval ==
  ASSUME NEW k \in Nat, NEW s \in SUBSET (1 .. k + 1), k + 1 \in s
  PROVE  Greatest(s) = k + 1
<1>1. \A y \in s : k + 1 >= y
  OBVIOUS
<1>2. \A x \in s : (\A y \in s : x >= y) => x = k + 1
  OBVIOUS
<1> QED BY <1>1, <1>2 DEF Greatest

(* That recursion has a solution, for sequences of every length.            *)
LEMMA IterExists ==
  ASSUME NEW base, NEW seq, NEW N \in Nat
  PROVE  \E it : IsIter(it, base, seq, 1 .. N)
<1> DEFINE S == {n \in Nat : \E it : IsIter(it, base, seq, 1 .. n)}
<1>1. 0 \in S
  <2>1. SUBSET (1 .. 0) = {{}}
    OBVIOUS
  <2>2. IsIter([s \in {{}} |-> base], base, seq, 1 .. 0)
    BY <2>1 DEF IsIter, Step
  <2> QED BY <2>2
<1>2. ASSUME NEW k \in Nat, k \in S PROVE k + 1 \in S
  <2>1. PICK it : IsIter(it, base, seq, 1 .. k)
    BY <1>2
  <2> DEFINE D   == SUBSET (1 .. k)
             E   == SUBSET (1 .. k + 1)
             new == [s \in E |-> IF k + 1 \in s THEN op(it[s \ {k + 1}], seq[k + 1]) ELSE it[s]]
  <2>2. \A s \in D : s \in E /\ k + 1 \notin s
    OBVIOUS
  <2>3. \A s \in D : new[s] = it[s] /\ s \ {Greatest(s)} \in D
    BY <2>2
  <2>4. \A s \in E : k + 1 \notin s => s \in D
    OBVIOUS
  <2>5. \A s \in E : k + 1 \in s => s # {} /\ Greatest(s) = k + 1 /\ s \ {k + 1} \in D
    BY GreatestOfInterval
  <2>6. \A s \in D : it[s] = Step(it, base, seq, s)
    BY <2>1 DEF IsIter
  <2> HIDE DEF D
  <2>7. ASSUME NEW s \in D PROVE new[s] = Step(new, base, seq, s)
    <3>1. new[s] = it[s] /\ it[s] = Step(it, base, seq, s)
      BY <2>3, <2>6
    <3>2. new[s \ {Greatest(s)}] = it[s \ {Greatest(s)}]
      BY <2>3
    <3> HIDE DEF new
    <3> QED BY <3>1, <3>2 DEF Step
  <2>8. \A s \in E : k + 1 \in s => new[s] = Step(new, base, seq, s)
    BY <2>3, <2>5 DEF Step
  <2>9. new = [s \in E |-> Step(new, base, seq, s)]
    <3>1. \A s \in E : new[s] = Step(new, base, seq, s)
      BY <2>4, <2>7, <2>8
    <3>2. new = [s \in E |-> new[s]]
      OBVIOUS
    <3> QED BY <3>1, <3>2
  <2> HIDE DEF new
  <2>10. IsIter(new, base, seq, 1 .. k + 1)
    BY <2>9 DEF IsIter
  <2> QED BY <2>10
<1> HIDE DEF S
<1>3. N \in S
  BY <1>1, <1>2, SetInduction
<1> QED BY <1>3 DEF S

(* The values of a fold over a sequence, one after the other.               *)
THEOREM FoldValues ==
  ASSUME NEW base, NEW seq, NEW N \in Nat, DOMAIN seq = 1 .. N
  PROVE  \E f : Values(f, base, seq, N) /\ Fold(base, seq) = f[N]
<1> DEFINE it == CHOOSE it : IsIter(it, base, seq, DOMAIN seq)
           f  == [n \in 0 .. N |-> it[1 .. n]]
<1>1. IsIter(it, base, seq, 1 .. N)
  BY IterExists
<1>2. Fold(base, seq) = it[1 .. N]
  BY DEF Fold
<1> HIDE DEF it
<1>3. \A s \in SUBSET (1 .. N) : it[s] = Step(it, base, seq, s)
  BY <1>1 DEF IsIter
<1>4. f[0] = base
  <2>1. f[0] = it[{}] /\ {} \in SUBSET (1 .. N)
    OBVIOUS
  <2> QED BY <1>3, <2>1 DEF Step
<1>5. ASSUME NEW n \in 0 .. N - 1 PROVE f[n + 1] = op(f[n], seq[n + 1])
  <2>1. 1 .. n + 1 \in SUBSET (1 .. N) /\ 1 .. n + 1 # {}
    <3>1. n \in Nat /\ n + 1 <= N /\ 1 \in 1 .. n + 1
      OBVIOUS
    <3> QED BY <3>1
  <2>2. Greatest(1 .. n + 1) = n + 1
    BY GreatestOfInterval
  <2>3. (1 .. n + 1) \ {n + 1} = 1 .. n
    OBVIOUS
  <2>4. it[1 .. n + 1] = op(it[1 .. n], seq[n + 1])
    BY <1>3, <2>1, <2>2, <2>3 DEF Step
  <2> QED BY <2>4
<1>6. f[N] = it[1 .. N]
  OBVIOUS
<1> HIDE DEF f
<1>7. Values(f, base, seq, N)
  BY <1>4, <1>5 DEF Values
<1> QED BY <1>2, <1>6, <1>7
=============================================================================
