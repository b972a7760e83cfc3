------------------------- MODULE SymbolVector_proofs -------------------------
(***************************************************************************)
(* What is proved of SymbolVector for any names, numbers of shares and      *)
(* width of words: however often a vector is sliced, and in whatever        *)
(* direction, its references are to the bits its bounds say; a wire holds   *)
(* what was last asked for, through whichever slice; and a vector without   *)
(* symbols is read as the number it was assigned.                           *)
(***************************************************************************)
EXTENDS SymbolVector, SequenceTheorems, TLAPS

(* The bits a vector stands for are bits of a name.                         *)
SpanRight ==
  /\ span \in [name : Name, first : Nat, last : Nat]
  /\ span.first \in 1 .. Len(NameBits[span.name])
  /\ span.last \in 1 .. Len(NameBits[span.name])

Cells == Present \cup {S_X}

(* As long as no vector is assigned bits it has overwritten, and only wires *)
(* with a value are assigned to.                                            *)
Kept ==
  ~Overlaps /\ ~Undriven =>
    /\ cell = [c \in Cells |-> cell[c]] /\ ideal = [w \in Wire |-> ideal[w]]
    /\ Mirrors

IInv == vec \in Seq(Cells) /\ SpanRight /\ SliceRight /\ Kept

Storing == INSTANCE Folding WITH op <- Store

(* The wires after the loop of an assignment to vector v.                   *)
Looped(c, v, source) == FoldLeft(Store, c, Stores(v, source))

(* What the i-th bit of a vector is assigned.                               *)
Bit(source, i) == IF i <= Len(source) THEN source[i] ELSE None

(* The size of a slice, and where its elements are in what is sliced.       *)
Size(up, down)  == IF up >= down THEN up - down + 1 ELSE down - up + 1
At(up, down, k) == IF up >= down THEN down + k ELSE down - k

-----------------------------------------------------------------------------
(* A position between the ends of a span is a position of the name.         *)
LEMMA PositionInside ==
  ASSUME NEW s, s.first \in Nat, s.last \in Nat, NEW k \in Places(s)
  PROVE  /\ Width(s) \in Nat \ {0} /\ Position(s, k) \in Nat
         /\ \/ s.first <= Position(s, k) /\ Position(s, k) <= s.last
            \/ s.last <= Position(s, k) /\ Position(s, k) <= s.first
BY DEF Places, Width, Position

(* Places of a part are the places between its bounds, from the second to   *)
(* the first.                                                               *)
LEMMA PartPosition ==
  ASSUME NEW s \in [name : Name, first : Nat, last : Nat],
         NEW up \in Places(s), NEW down \in Places(s)
  PROVE  /\ Part(s, up, down) \in [name : {s.name}, first : Nat, last : Nat]
         /\ Part(s, up, down).first = Position(s, down)
         /\ Part(s, up, down).last = Position(s, up)
         /\ Width(Part(s, up, down)) = Size(up, down)
         /\ \A k \in 0 .. Size(up, down) - 1 :
              Position(Part(s, up, down), k) = Position(s, At(up, down, k))
<1> DEFINE p == Part(s, up, down)
<1>0. Position(s, up) \in Nat /\ Position(s, down) \in Nat
  BY PositionInside
<1>1. p.name = s.name /\ p.first = Position(s, down) /\ p.last = Position(s, up)
  BY DEF Part
<1>2. up \in Nat /\ down \in Nat /\ s.first \in Nat /\ s.last \in Nat
  BY DEF Places, Width
<1>3. p \in [name : {s.name}, first : Nat, last : Nat]
  BY <1>0 DEF Part
<1> HIDE DEF p
<1>4. Width(p) = Size(up, down)
  BY <1>1, <1>2 DEF Position, Width, Places, Size
<1>5. ASSUME NEW k \in 0 .. Size(up, down) - 1
      PROVE  Position(p, k) = Position(s, At(up, down, k))
  BY <1>1, <1>2 DEF Position, Width, Places, Size, At
<1> QED
  BY <1>1, <1>3, <1>4, <1>5 DEF p

(* A slice has the elements between its bounds, from the second to the      *)
(* first.                                                                   *)
LEMMA SliceElements ==
  ASSUME NEW v \in Seq(Cells), NEW up \in 0 .. Len(v) - 1, NEW down \in 0 .. Len(v) - 1
  PROVE  /\ Slice(v, up, down) \in Seq(Cells)
         /\ Len(Slice(v, up, down)) = Size(up, down)
         /\ \A k \in 0 .. Size(up, down) - 1 :
              Slice(v, up, down)[k + 1] = v[At(up, down, k) + 1]
<1>1. CASE up >= down
  <2> DEFINE t == SubSeq(v, down + 1, up + 1)
             m == up - down + 1
  <2>1. t \in Seq(Cells)
    BY <1>1
  <2>2. Len(t) = m /\ \A k \in 0 .. m - 1 : t[k + 1] = v[(down + k) + 1]
    BY <1>1
  <2>3. Slice(v, up, down) = t
    BY <1>1 DEF Slice
  <2> QED
    BY <1>1, <2>1, <2>2, <2>3 DEF Size, At
<1>2. CASE ~(up >= down)
  <2> DEFINE t == SubSeq(v, up + 1, down + 1)
             m == down - up + 1
  <2>0. t \in Seq(Cells)
    BY <1>2
  <2>1. Len(t) = m /\ \A k \in 1 .. m : t[k] = v[up + k]
    BY <1>2
  <2>2. Slice(v, up, down) = [i \in 1 .. Len(t) |-> t[(Len(t) - i) + 1]]
    BY <1>2 DEF Slice, Reverse
  <2>3. m \in Nat
    BY <1>2
  <2> HIDE DEF t
  <2>4. \A i \in 1 .. m : t[(m - i) + 1] \in Cells
    BY <2>0, <2>1, <2>3
  <2>5. Slice(v, up, down) \in Seq(Cells) /\ Len(Slice(v, up, down)) = m
    <3>1. Slice(v, up, down) = [i \in 1 .. m |-> t[(m - i) + 1]]
      BY <2>1, <2>2
    <3>2. [i \in 1 .. m |-> t[(m - i) + 1]] \in [1 .. m -> Cells]
      BY <2>4
    <3>3. Slice(v, up, down) \in [1 .. m -> Cells]
      BY <3>1, <3>2
    <3> HIDE DEF m
    <3>4. Slice(v, up, down) \in Seq(Cells)
      BY <2>3, <3>3
    <3>5. DOMAIN Slice(v, up, down) = 1 .. m
      BY <3>3
    <3> QED
      BY <2>3, <3>4, <3>5, LenProperties
  <2>6. ASSUME NEW k \in 0 .. m - 1 PROVE Slice(v, up, down)[k + 1] = v[(down - k) + 1]
    <3>1. /\ k + 1 \in 1 .. m /\ m - k \in 1 .. m /\ (m - (k + 1)) + 1 = m - k
          /\ up + (m - k) = (down - k) + 1
      BY <1>2
    <3> HIDE DEF m
    <3>2. Slice(v, up, down)[k + 1] = t[(m - (k + 1)) + 1]
      BY <2>1, <2>2, <3>1
    <3> QED BY <2>1, <3>1, <3>2
  <2> QED
    BY <1>2, <2>5, <2>6 DEF Size, At
<1> QED
  BY <1>1, <1>2

-----------------------------------------------------------------------------
(* The loops of the assignments.                                            *)

LEMMA StoringFold ==
  ASSUME NEW base, NEW seq PROVE FoldLeft(Store, base, seq) = Storing!Fold(base, seq)
BY DEF FoldLeft, MapThenFoldSet, Max, Storing!Fold, Storing!IsIter, Storing!Step, Storing!Greatest

LEMMA LengthOf ==
  ASSUME NEW n \in Nat, NEW f, f = [i \in 1 .. n |-> f[i]] PROVE Len(f) = n /\ DOMAIN f = 1 .. n
<1> DEFINE S == {f[i] : i \in 1 .. n}
<1>1. f \in [1 .. n -> S]
  OBVIOUS
<1> HIDE DEF S
<1>2. f \in Seq(S) /\ DOMAIN f = 1 .. n
  BY <1>1
<1> QED BY <1>2, LenProperties

(* A loop that never reads a wire it has stored to leaves the wires of the  *)
(* vector with what they were assigned before the loop, and the others      *)
(* alone.                                                                   *)
LEMMA LoopStores ==
  ASSUME NEW c, c = [w \in Cells |-> c[w]], NEW v \in Seq(Cells), NEW source,
         \A i, j \in 1 .. Len(v) : v[i] = v[j] => i = j,
         \A j \in 1 .. Len(v) : Bit(source, j).kind = "wire" =>
           /\ Bit(source, j).wire \in Cells
           /\ \A i \in 1 .. Len(v) : v[i] = Bit(source, j).wire => j <= i,
         NEW r, r = Looped(c, v, source)
  PROVE  /\ r = [w \in Cells |-> r[w]]
         /\ \A i \in 1 .. Len(v) : r[v[i]] = Taken(c, Bit(source, i))
         /\ \A w \in Cells : (\A i \in 1 .. Len(v) : v[i] # w) => r[w] = c[w]
<1> DEFINE seq == Stores(v, source)
           N == Len(v)
<1>0. N \in Nat /\ DOMAIN v = 1 .. N /\ \A i \in 1 .. N : v[i] \in Cells
  OBVIOUS
<1>1. DOMAIN seq = 1 .. N /\ \A i \in 1 .. N : seq[i].to = v[i] /\ seq[i].from = Bit(source, i)
  BY <1>0 DEF Stores, Bit
<1> HIDE DEF seq, N
<1>2. PICK f : Storing!Values(f, c, seq, N) /\ Storing!Fold(c, seq) = f[N]
  BY <1>0, <1>1, Storing!FoldValues
<1>3. r = f[N] /\ f[0] = c /\ \A n \in 0 .. N - 1 : f[n + 1] = Store(f[n], seq[n + 1])
  BY <1>2, StoringFold DEF Storing!Values, seq, Looped
<1> DEFINE Done(g, n) ==
             /\ g = [w \in Cells |-> g[w]]
             /\ \A i \in 1 .. n : g[v[i]] = Taken(c, Bit(source, i))
             /\ \A w \in Cells : (\A i \in 1 .. n : v[i] # w) => g[w] = c[w]
           S == {n \in Nat : n <= N => Done(f[n], n)}
<1>4. 0 \in S
  BY <1>3
<1>5. ASSUME NEW n \in Nat, n \in S PROVE n + 1 \in S
  <2>1. SUFFICES ASSUME n + 1 <= N PROVE Done(f[n + 1], n + 1)
    OBVIOUS
  <2>2. n + 1 \in 1 .. N /\ n \in 0 .. N - 1 /\ Done(f[n], n) /\ 1 .. n \subseteq 1 .. N
    BY <1>0, <1>5, <2>1
  <2>3. PICK b, x : b = Bit(source, n + 1) /\ x = v[n + 1]
    OBVIOUS
  <2>4. PICK g, h : g = f[n] /\ h = f[n + 1] /\ Done(g, n)
    BY <2>2
  <2>5. h = [g EXCEPT ![x] = Taken(g, b)] /\ x \in Cells
    BY ONLY <1>0, <1>1, <1>3, <2>2, <2>3, <2>4 DEF Store
  <2>6. \A i \in 1 .. n : v[i] # x
    BY <2>2, <2>3 DEF N
  <2>7. Taken(g, b) = Taken(c, b)
    <3>1. CASE b.kind = "wire"
      <4>1. b.wire \in Cells /\ \A i \in 1 .. n : v[i] # b.wire
        BY <2>2, <2>3, <3>1 DEF N
      <4> QED BY <2>4, <3>1, <4>1 DEF Taken
    <3>2. CASE b.kind # "wire"
      BY <3>2 DEF Taken
    <3> QED BY <3>1, <3>2
  <2>8. h = [w \in Cells |-> h[w]] /\ h[x] = Taken(c, b) /\ \A w \in Cells : w # x => h[w] = g[w]
    BY <2>4, <2>5, <2>7
  <2>9. ASSUME NEW i \in 1 .. n + 1 PROVE h[v[i]] = Taken(c, Bit(source, i))
    <3>1. CASE i = n + 1
      BY <2>3, <2>8, <3>1
    <3>2. CASE i \in 1 .. n
      BY <1>0, <2>2, <2>4, <2>6, <2>8, <3>2
    <3> QED BY <3>1, <3>2
  <2>10. ASSUME NEW w \in Cells, \A i \in 1 .. n + 1 : v[i] # w PROVE h[w] = c[w]
    <3>1. w # x /\ \A i \in 1 .. n : v[i] # w
      BY <2>3, <2>10
    <3> QED BY <2>4, <2>8, <3>1
  <2> QED BY <2>4, <2>8, <2>9, <2>10
<1> HIDE DEF S
<1>6. N \in S
  BY <1>0, <1>4, <1>5, Storing!SetInduction
<1>7. Done(f[N], N)
  BY <1>0, <1>6 DEF S
<1>8. Done(r, N)
  BY ONLY <1>3, <1>7
<1> QED BY ONLY <1>8 DEF N

(* Where a value is, and whose it is.                                       *)
LEMMA RefIs ==
  ASSUME NEW v \in Wire, NEW w \in Wire
  PROVE  Ref(v) \in Cells /\ (Ref(v) = Ref(w) /\ Ref(v) # S_X => v = w)
BY VectorAssumption DEF Ref, Cells

LEMMA PlacesAreWires ==
  ASSUME SpanRight, NEW k \in Places(span)
  PROVE  Position(span, k) \in 1 .. Len(NameBits[span.name]) /\ WireAt(span, k) \in Wire
<1>1. /\ span.first \in Nat /\ span.last \in Nat /\ span.name \in Name
      /\ span.first \in 1 .. Len(NameBits[span.name]) /\ span.last \in 1 .. Len(NameBits[span.name])
  BY DEF SpanRight
<1>2. NameBits[span.name] \in Seq(Wire)
  BY <1>1, VectorAssumption
<1>3. Position(span, k) \in 1 .. Len(NameBits[span.name])
  BY <1>1, PositionInside
<1> QED BY <1>2, <1>3 DEF WireAt

(* Different places of a vector are different wires, when all of them have  *)
(* a value: a name has no wire twice.                                       *)
LEMMA PlacesDiffer ==
  ASSUME vec \in Seq(Cells), SpanRight, SliceRight, \A i \in DOMAIN vec : vec[i] # S_X
  PROVE  \A i, j \in 1 .. Len(vec) : vec[i] = vec[j] => i = j
<1>1. SUFFICES ASSUME NEW i \in 1 .. Len(vec), NEW j \in 1 .. Len(vec), vec[i] = vec[j] PROVE i = j
  OBVIOUS
<1> DEFINE k == i - 1
           l == j - 1
           bits == NameBits[span.name]
<1>2. k \in Places(span) /\ l \in Places(span) /\ i = k + 1 /\ j = l + 1
  BY DEF SliceRight, Places
<1>3. WireAt(span, k) = WireAt(span, l)
  <2>1. \A p \in Places(span) : vec[p + 1] = Ref(WireAt(span, p))
    BY DEF SliceRight
  <2>2. WireAt(span, k) \in Wire /\ WireAt(span, l) \in Wire
    BY <1>2, PlacesAreWires
  <2>3. Ref(WireAt(span, k)) = Ref(WireAt(span, l)) /\ Ref(WireAt(span, k)) # S_X
    BY <1>1, <1>2, <2>1
  <2> QED BY <2>2, <2>3, RefIs
<1>4. /\ span.first \in Nat /\ span.last \in Nat /\ span.name \in Name
      /\ span.first \in 1 .. Len(bits) /\ span.last \in 1 .. Len(bits)
  BY DEF SpanRight
<1>5. bits \in Seq(Wire) /\ IsInjective(bits)
  BY <1>4, VectorAssumption
<1> HIDE DEF k, l
<1>6. Position(span, k) \in 1 .. Len(bits) /\ Position(span, l) \in 1 .. Len(bits)
  BY <1>2, PlacesAreWires
<1>7. Position(span, k) = Position(span, l)
  BY <1>3, <1>5, <1>6 DEF WireAt, IsInjective
<1>8. k \in Int /\ l \in Int
  BY <1>2, <1>4 DEF Places
<1> QED BY <1>2, <1>4, <1>7, <1>8 DEF Position

(* An assignment that stores the values asked for keeps wires and history   *)
(* alike.                                                                   *)
LEMMA AssignKeeps ==
  ASSUME IInv, ~Overlaps, ~Undriven, Assignable(DOMAIN vec), NEW source, NEW values,
         cell' = Assigned(source), ideal' = Asked(values),
         \A k \in Places(span) : values[k] = Taken(cell, Bit(source, k + 1)),
         \A j \in 1 .. Len(vec) : Bit(source, j).kind = "wire" =>
           /\ Bit(source, j).wire \in Cells
           /\ \A i \in 1 .. Len(vec) : vec[i] = Bit(source, j).wire => j <= i
  PROVE  Kept'
<1>1. /\ vec \in Seq(Cells) /\ cell = [w \in Cells |-> cell[w]]
      /\ \A w \in Wire : cell[Ref(w)] = ideal[w]
  BY DEF IInv, Kept, Mirrors
<1>2. /\ DOMAIN vec = 1 .. Len(vec) /\ \A i \in 1 .. Len(vec) : vec[i] # S_X
      /\ \A i, j \in 1 .. Len(vec) : vec[i] = vec[j] => i = j
  BY PlacesDiffer DEF IInv, Assignable
<1>3. PICK r : r = Looped(cell, vec, source)
  OBVIOUS
<1>4. cell' = r
  BY <1>3 DEF Assigned, Looped
<1>5. /\ r = [w \in Cells |-> r[w]]
      /\ \A i \in 1 .. Len(vec) : r[vec[i]] = Taken(cell, Bit(source, i))
      /\ \A w \in Cells : (\A i \in 1 .. Len(vec) : vec[i] # w) => r[w] = cell[w]
  <2>1. \A j \in 1 .. Len(vec) : Bit(source, j).kind = "wire" =>
          /\ Bit(source, j).wire \in Cells
          /\ \A i \in 1 .. Len(vec) : vec[i] = Bit(source, j).wire => j <= i
    OBVIOUS
  <2>2. cell = [w \in Cells |-> cell[w]] /\ vec \in Seq(Cells)
    BY <1>1
  <2>3. \A i, j \in 1 .. Len(vec) : vec[i] = vec[j] => i = j
    BY <1>2
  <2>4. r = [w \in Cells |-> r[w]]
    BY ONLY <1>3, <2>1, <2>2, <2>3, LoopStores
  <2>5. \A i \in 1 .. Len(vec) : r[vec[i]] = Taken(cell, Bit(source, i))
    BY ONLY <1>3, <2>1, <2>2, <2>3, LoopStores
  <2>6. \A w \in Cells : (\A i \in 1 .. Len(vec) : vec[i] # w) => r[w] = cell[w]
    BY ONLY <1>3, <2>1, <2>2, <2>3, LoopStores
  <2> QED BY <2>4, <2>5, <2>6
<1>6. /\ Len(vec) \in Nat /\ Len(vec) = Width(span)
      /\ \A k \in Places(span) : WireAt(span, k) \in Wire /\ vec[k + 1] = Ref(WireAt(span, k))
  BY <1>1, PlacesAreWires DEF IInv, SliceRight
<1>7. Places(span) = 0 .. Len(vec) - 1
  BY <1>6 DEF Places
<1>8. ASSUME NEW w \in Wire PROVE r[Ref(w)] = Asked(values)[w]
  <2> DEFINE ks == {k \in Places(span) : WireAt(span, k) = w}
  <2>1. Asked(values)[w] = IF ks = {} THEN ideal[w] ELSE values[CHOOSE k \in ks : TRUE]
    BY DEF Asked
  <2>2. CASE ks = {}
    <3>1. ASSUME NEW i \in 1 .. Len(vec), vec[i] = Ref(w) PROVE FALSE
      <4>1. i - 1 \in Places(span) /\ (i - 1) + 1 = i
        BY <1>6, <1>7
      <4>2. Ref(WireAt(span, i - 1)) = Ref(w) /\ Ref(w) # S_X /\ WireAt(span, i - 1) \in Wire
        BY <1>2, <1>6, <3>1, <4>1
      <4>3. WireAt(span, i - 1) = w
        BY <4>2, RefIs
      <4> QED BY <2>2, <4>1, <4>3
    <3>2. Ref(w) \in Cells
      BY RefIs
    <3> QED BY <1>1, <1>5, <2>1, <2>2, <3>1, <3>2
  <2>3. CASE ks # {}
    <3>1. PICK k \in ks : k = CHOOSE x \in ks : TRUE
      BY <2>3
    <3>2. k + 1 \in 1 .. Len(vec) /\ vec[k + 1] = Ref(w) /\ k \in Places(span)
      BY <1>6, <1>7, <3>1
    <3>3. r[Ref(w)] = Taken(cell, Bit(source, k + 1))
      BY <1>5, <3>2
    <3> QED BY <2>1, <2>3, <3>1, <3>2, <3>3
  <2> QED BY <2>2, <2>3
<1>9. ideal' = [w \in Wire |-> ideal'[w]] /\ \A w \in Wire : ideal'[w] = Asked(values)[w]
  BY DEF Asked
<1>10. Mirrors'
  BY <1>4, <1>8, <1>9 DEF Mirrors, Ref
<1> QED BY <1>4, <1>5, <1>9, <1>10 DEF Kept, Cells

-----------------------------------------------------------------------------
(* Binary digits.                                                           *)

(* A list of the weights up to that of bit n.                               *)
Weights(h, n) == h[0] = 1 /\ \A k \in 0 .. n - 1 : h[k + 1] = 2 * h[k]

LEMMA WeightsExist ==
  ASSUME NEW n \in Nat PROVE \E h : Weights(h, n)
<1> DEFINE S == {m \in Nat : \E h : Weights(h, m)}
<1>1. 0 \in S
  <2>1. Weights([k \in {0} |-> 1], 0)
    BY DEF Weights
  <2> QED BY <2>1
<1>2. ASSUME NEW m \in Nat, m \in S PROVE m + 1 \in S
  <2>1. PICK h : Weights(h, m)
    BY <1>2
  <2> DEFINE new == [k \in 0 .. m + 1 |-> IF k = m + 1 THEN 2 * h[m] ELSE h[k]]
  <2>2. \A k \in 0 .. m : new[k] = h[k]
    OBVIOUS
  <2>3. new[m + 1] = 2 * h[m]
    OBVIOUS
  <2> HIDE DEF new
  <2>4. Weights(new, m + 1)
    BY <2>1, <2>2, <2>3 DEF Weights
  <2> QED BY <2>4
<1> HIDE DEF S
<1>3. n \in S
  BY <1>1, <1>2, Storing!SetInduction
<1> QED BY <1>3 DEF S

LEMMA WeightsAgree ==
  ASSUME NEW m \in Nat, NEW n \in Nat, NEW g, NEW h, Weights(g, m), Weights(h, n),
         NEW k \in Nat, k <= m, k <= n
  PROVE  g[k] = h[k]
<1> DEFINE S == {j \in Nat : j <= m /\ j <= n => g[j] = h[j]}
<1>1. 0 \in S
  BY DEF Weights
<1>2. ASSUME NEW j \in Nat, j \in S PROVE j + 1 \in S
  <2>1. SUFFICES ASSUME j + 1 <= m, j + 1 <= n PROVE g[j + 1] = h[j + 1]
    OBVIOUS
  <2>2. j \in 0 .. m - 1 /\ j \in 0 .. n - 1
    BY <2>1
  <2>3. g[j] = h[j]
    BY <1>2, <2>1
  <2> QED BY <2>2, <2>3 DEF Weights
<1> HIDE DEF S
<1>3. k \in S
  BY <1>1, <1>2, Storing!SetInduction
<1> QED BY <1>3 DEF S

(* The recursion of Weight has a solution.                                  *)
LEMMA WeightSteps ==
  /\ Weight[0] = 1
  /\ \A k \in Nat : Weight[k] \in Nat \ {0} /\ Weight[k + 1] = 2 * Weight[k]
<1> DEFINE list(n) == CHOOSE h : Weights(h, n)
           g == [n \in Nat |-> list(n)[n]]
<1>1. \A n \in Nat : Weights(list(n), n)
  BY WeightsExist
<1> HIDE DEF list
<1>2. g[0] = 1
  BY <1>1 DEF Weights
<1>3. ASSUME NEW k \in Nat PROVE g[k + 1] = 2 * g[k]
  <2>1. k + 1 \in Nat /\ k \in 0 .. (k + 1) - 1 /\ k <= k + 1
    OBVIOUS
  <2>2. Weights(list(k), k) /\ Weights(list(k + 1), k + 1)
    BY <1>1, <2>1
  <2>3. list(k)[k] = list(k + 1)[k]
    BY <2>1, <2>2, WeightsAgree
  <2>4. list(k + 1)[k + 1] = 2 * list(k + 1)[k]
    BY <2>1, <2>2 DEF Weights
  <2> QED BY <2>1, <2>3, <2>4
<1>4. g = [k \in Nat |-> IF k = 0 THEN 1 ELSE 2 * g[k - 1]]
  <2>1. ASSUME NEW k \in Nat PROVE g[k] = IF k = 0 THEN 1 ELSE 2 * g[k - 1]
    <3>1. CASE k = 0
      BY <1>2, <3>1
    <3>2. CASE k # 0
      <4>1. k - 1 \in Nat /\ (k - 1) + 1 = k
        BY <3>2
      <4> HIDE DEF g
      <4> QED BY <1>3, <3>2, <4>1
    <3> QED BY <3>1, <3>2
  <2>2. g = [k \in Nat |-> g[k]]
    OBVIOUS
  <2> HIDE DEF g
  <2> QED BY <2>1, <2>2
<1> HIDE DEF g
<1>5. Weight = [k \in Nat |-> IF k = 0 THEN 1 ELSE 2 * Weight[k - 1]]
  BY <1>4 DEF Weight
<1>6. Weight[0] = 1 /\ \A k \in Nat : Weight[k + 1] = 2 * Weight[k]
  <2>1. Weight[0] = 1
    BY <1>5
  <2>2. ASSUME NEW k \in Nat PROVE Weight[k + 1] = 2 * Weight[k]
    <3>1. k + 1 \in Nat /\ k + 1 # 0 /\ (k + 1) - 1 = k
      OBVIOUS
    <3>2. Weight[k + 1] = IF k + 1 = 0 THEN 1 ELSE 2 * Weight[(k + 1) - 1]
      BY <1>5, <3>1
    <3> QED BY <3>1, <3>2
  <2> QED BY <2>1, <2>2
<1> DEFINE S == {k \in Nat : Weight[k] \in Nat \ {0}}
<1>7. 0 \in S
  BY <1>6
<1>8. ASSUME NEW k \in Nat, k \in S PROVE k + 1 \in S
  BY <1>6, <1>8
<1> HIDE DEF S
<1>9. Nat \subseteq S
  BY <1>7, <1>8, Storing!SetInduction
<1> QED BY <1>6, <1>9 DEF S

(* A heavier bit weighs an even multiple of a lighter one.                  *)
LEMMA WeightMultiple ==
  ASSUME NEW i \in Nat, NEW k \in 0 .. i - 1
  PROVE  \E q \in Nat : Weight[i] = (2 * q) * Weight[k]
<1> DEFINE S == {j \in Nat : \E q \in Nat : Weight[(k + 1) + j] = (2 * q) * Weight[k]}
<1>1. k \in Nat /\ k + 1 \in Nat /\ Weight[k] \in Nat
  BY WeightSteps
<1>2. 0 \in S
  <2>1. Weight[(k + 1) + 0] = (2 * 1) * Weight[k]
    BY <1>1, WeightSteps
  <2> QED BY <2>1
<1>3. ASSUME NEW j \in Nat, j \in S PROVE j + 1 \in S
  <2>1. PICK q \in Nat : Weight[(k + 1) + j] = (2 * q) * Weight[k]
    BY <1>3
  <2>2. Weight[(k + 1) + (j + 1)] = 2 * Weight[(k + 1) + j]
    <3>1. (k + 1) + j \in Nat /\ (k + 1) + (j + 1) = ((k + 1) + j) + 1
      BY <1>1
    <3> QED BY <3>1, WeightSteps
  <2>3. 2 * ((2 * q) * Weight[k]) = (2 * (2 * q)) * Weight[k]
    BY <1>1
  <2>4. 2 * q \in Nat /\ Weight[(k + 1) + (j + 1)] = (2 * (2 * q)) * Weight[k]
    BY <2>1, <2>2, <2>3
  <2>5. \E p \in Nat : Weight[(k + 1) + (j + 1)] = (2 * p) * Weight[k]
    BY ONLY <2>4
  <2> QED BY <2>5
<1> HIDE DEF S
<1>4. i - (k + 1) \in Nat /\ (k + 1) + (i - (k + 1)) = i
  OBVIOUS
<1>5. i - (k + 1) \in S
  BY <1>2, <1>3, <1>4, Storing!SetInduction
<1> QED BY <1>4, <1>5 DEF S

(* A quotient is the one number of times the divisor fits.                  *)
LEMMA QuotientIs ==
  ASSUME NEW w \in Nat \ {0}, NEW n \in Nat, NEW d \in Nat, NEW r \in 0 .. w - 1, n = d * w + r
  PROVE  n \div w = d
OBVIOUS

LEMMA QuotientRest ==
  ASSUME NEW w \in Nat \ {0}, NEW n \in Nat
  PROVE  \E d \in Nat : \E r \in 0 .. w - 1 : n = d * w + r
<1>1. n \div w \in Nat /\ n % w \in 0 .. w - 1 /\ n = (n \div w) * w + (n % w)
  OBVIOUS
<1> QED BY <1>1

(* An even multiple of its weight does not change a digit.                  *)
LEMMA DigitKept ==
  ASSUME NEW w \in Nat \ {0}, NEW n \in Nat, NEW q \in Nat
  PROVE  ((n + (2 * q) * w) \div w) % 2 = (n \div w) % 2
<1>1. PICK d \in Nat : \E r \in 0 .. w - 1 : n = d * w + r
  BY QuotientRest
<1>2. PICK r \in 0 .. w - 1 : n = d * w + r
  BY <1>1
<1>3. n \div w = d
  BY <1>2, QuotientIs
<1>4. n + (2 * q) * w = (d + 2 * q) * w + r /\ d + 2 * q \in Nat /\ (d + 2 * q) * w + r \in Nat
  BY <1>2
<1>5. (n + (2 * q) * w) \div w = d + 2 * q
  BY <1>4, QuotientIs
<1>6. (d + 2 * q) % 2 = d % 2
  OBVIOUS
<1> QED BY <1>3, <1>5, <1>6

-----------------------------------------------------------------------------
(* The invariant.                                                           *)

(* A name as a whole.                                                       *)
LEMMA ReferencesAre ==
  ASSUME NEW n \in Name
  PROVE  /\ NameBits[n] \in Seq(Wire) /\ Len(NameBits[n]) \in Nat \ {0}
         /\ References(n) \in Seq(Cells) /\ Len(References(n)) = Len(NameBits[n])
         /\ \A i \in 1 .. Len(NameBits[n]) : References(n)[i] = Ref(NameBits[n][i])
<1>1. NameBits[n] \in Seq(Wire) /\ Len(NameBits[n]) \in Nat \ {0}
  BY VectorAssumption
<1>2. \A i \in 1 .. Len(NameBits[n]) : Ref(NameBits[n][i]) \in Cells
  BY <1>1, RefIs
<1>3. References(n) \in [1 .. Len(NameBits[n]) -> Cells]
  BY <1>1, <1>2 DEF References
<1>4. References(n) \in Seq(Cells) /\ DOMAIN References(n) = 1 .. Len(NameBits[n])
  BY <1>1, <1>3
<1>5. Len(References(n)) = Len(NameBits[n])
  BY <1>1, <1>4, LenProperties
<1> QED BY <1>1, <1>4, <1>5 DEF References

LEMMA WholeRight ==
  ASSUME NEW n \in Name, vec = References(n), span = Whole(n)
  PROVE  vec \in Seq(Cells) /\ SpanRight /\ SliceRight
BY ReferencesAre DEF SpanRight, SliceRight, Whole, Width, Places, WireAt, Position

LEMMA OpenKeeps ==
  ASSUME IInv, NEW n \in Name, Open(n) PROVE IInv'
<1>1. PICK v, b : v = References(n) /\ b = NameBits[n]
  OBVIOUS
<1>2. /\ b \in Seq(Wire) /\ Len(b) \in Nat \ {0} /\ v \in Seq(Cells) /\ Len(v) = Len(b)
      /\ \A i \in 1 .. Len(b) : v[i] = Ref(b[i])
  BY <1>1, ReferencesAre
<1>3. vec' = v /\ span' = [name |-> n, first |-> 1, last |-> Len(b)]
  BY <1>1 DEF Open, Whole
<1>4. vec' \in Seq(Cells)
  BY <1>2, <1>3
<1>5. SpanRight'
  BY <1>1, <1>2, <1>3 DEF SpanRight
<1>6. SliceRight'
  BY <1>1, <1>2, <1>3 DEF SliceRight, Width, Places, WireAt, Position, Ref
<1>7. Kept'
  BY DEF Open, IInv, Kept, Mirrors, Ref, Cells
<1> QED
  BY <1>4, <1>5, <1>6, <1>7 DEF IInv, Cells

LEMMA NarrowKeeps ==
  ASSUME IInv, NEW up \in Index, NEW down \in Index, Narrow(up, down) PROVE IInv'
<1> DEFINE m == Size(up, down)
           at(k) == At(up, down, k)
<1>1. vec' = Slice(vec, up, down) /\ span' = Part(span, up, down)
  BY DEF Narrow
<1>2. /\ vec \in Seq(Cells) /\ span \in [name : Name, first : Nat, last : Nat]
      /\ Len(vec) = Width(span) /\ \A k \in Places(span) : vec[k + 1] = Ref(WireAt(span, k))
  BY DEF IInv, SpanRight, SliceRight
<1>3. up \in Places(span) /\ down \in Places(span) /\ up \in 0 .. Len(vec) - 1 /\ down \in 0 .. Len(vec) - 1
  BY <1>2 DEF Index, Places
<1>4. /\ span' \in [name : {span.name}, first : Nat, last : Nat] /\ Width(span') = m
      /\ span'.first = Position(span, down) /\ span'.last = Position(span, up)
      /\ \A k \in 0 .. m - 1 : Position(span', k) = Position(span, at(k))
  BY <1>1, <1>2, <1>3, PartPosition
<1>5. /\ vec' \in Seq(Cells) /\ Len(vec') = m
      /\ \A k \in 0 .. m - 1 : vec'[k + 1] = vec[at(k) + 1]
  BY <1>1, <1>2, <1>3, SliceElements
<1>6. \A k \in 0 .. m - 1 : at(k) \in Places(span)
  <2>1. SUFFICES ASSUME NEW k \in 0 .. Size(up, down) - 1 PROVE At(up, down, k) \in Places(span)
    OBVIOUS
  <2>2. Width(span) \in Nat
    BY <1>2 DEF Width
  <2> QED
    BY <1>3, <2>2 DEF Places, Size, At
<1>7. SpanRight'
  <2>1. /\ span'.first \in 1 .. Len(NameBits[span.name])
        /\ span'.last \in 1 .. Len(NameBits[span.name])
    <3>1. span.first \in 1 .. Len(NameBits[span.name]) /\ span.last \in 1 .. Len(NameBits[span.name])
      BY DEF IInv, SpanRight
    <3>2. span.first \in Nat /\ span.last \in Nat
      BY <1>2
    <3>3. \A k \in Places(span) : Position(span, k) \in 1 .. Len(NameBits[span.name])
      BY <3>1, <3>2, PositionInside
    <3> QED BY <1>3, <1>4, <3>3
  <2>2. span' \in [name : Name, first : Nat, last : Nat]
    BY <1>2, <1>4
  <2> QED
    BY <1>4, <2>1, <2>2 DEF SpanRight
<1>8. SliceRight'
  <2>1. SUFFICES ASSUME NEW k \in 0 .. m - 1
                 PROVE  vec'[k + 1] = Ref(WireAt(span', k))
    BY <1>4, <1>5 DEF SliceRight, Places, Ref
  <2>2. vec'[k + 1] = vec[at(k) + 1] /\ vec[at(k) + 1] = Ref(WireAt(span, at(k)))
    BY <1>2, <1>5, <1>6
  <2>3. WireAt(span', k) = WireAt(span, at(k))
    BY <1>4 DEF WireAt
  <2> QED
    BY <2>2, <2>3
<1>9. Kept'
  BY DEF Narrow, IInv, Kept, Mirrors, Ref, Cells
<1> QED
  BY <1>5, <1>7, <1>8, <1>9 DEF IInv, Cells

(* An element is a wire the vector refers to.                               *)
LEMMA ElementKeeps ==
  ASSUME IInv, NEW k \in Index, NEW value, AssignElement(k, value) PROVE Kept'
<1>1. SUFFICES ASSUME ~Overlaps, ~Undriven PROVE Kept'
  BY DEF Kept
<1>2. PICK x, w : x = vec[k + 1] /\ w = WireAt(span, k)
  OBVIOUS
<1>3. /\ vec \in Seq(Cells) /\ Len(vec) = Width(span)
      /\ \A p \in Places(span) : vec[p + 1] = Ref(WireAt(span, p))
  BY DEF IInv, SliceRight
<1>4. k \in Places(span) /\ k + 1 \in 1 .. Len(vec)
  BY <1>3 DEF Index, Places
<1>5. w \in Wire /\ x = Ref(w) /\ x \in Cells /\ x # S_X
  BY <1>1, <1>2, <1>3, <1>4, PlacesAreWires DEF IInv, AssignElement, Assignable
<1>6. cell' = [cell EXCEPT ![x] = value] /\ ideal' = [ideal EXCEPT ![w] = value]
  BY <1>2 DEF AssignElement, Store, Taken, Given
<1>7. /\ cell = [c \in Cells |-> cell[c]] /\ ideal = [v \in Wire |-> ideal[v]]
      /\ \A v \in Wire : cell[Ref(v)] = ideal[v]
  BY <1>1 DEF IInv, Kept, Mirrors
<1>8. cell' = [c \in Cells |-> cell'[c]] /\ ideal' = [v \in Wire |-> ideal'[v]]
  BY <1>5, <1>6, <1>7
<1>9. ASSUME NEW v \in Wire PROVE cell'[Ref(v)] = ideal'[v]
  <2>1. Ref(v) \in Cells /\ (Ref(v) = x => v = w)
    BY <1>5, RefIs
  <2>2. CASE v = w
    BY <1>5, <1>6, <1>7, <2>2
  <2>3. CASE v # w
    BY <1>5, <1>6, <1>7, <2>1, <2>3
  <2> QED BY <2>2, <2>3
<1> QED BY <1>8, <1>9 DEF Kept, Mirrors, Ref, Cells

(* The bits of a number.                                                    *)
LEMMA NumberKeeps ==
  ASSUME IInv, NEW n, AssignNumber(n) PROVE Kept'
<1>1. SUFFICES ASSUME ~Overlaps, ~Undriven PROVE Kept'
  BY DEF Kept
<1>2. PICK wraps \in BOOLEAN :
        /\ cell' = Assigned([i \in DOMAIN vec |-> Given(BitOf(n, wraps, i - 1))])
        /\ ideal' = Asked([k \in Places(span) |-> BitOf(n, wraps, k)])
  BY DEF AssignNumber
<1> DEFINE source == [i \in DOMAIN vec |-> Given(BitOf(n, wraps, i - 1))]
           values == [k \in Places(span) |-> BitOf(n, wraps, k)]
<1>3. DOMAIN vec = 1 .. Len(vec) /\ Len(vec) \in Nat /\ Places(span) = 0 .. Len(vec) - 1
  BY DEF IInv, SliceRight, Places
<1>4. Len(source) = Len(vec)
  <2>1. source = [i \in 1 .. Len(vec) |-> source[i]]
    BY <1>3
  <2> HIDE DEF source
  <2> QED BY <1>3, <2>1, LengthOf
<1>5. ASSUME NEW k \in Places(span) PROVE values[k] = Taken(cell, Bit(source, k + 1))
  <2>1. k + 1 \in 1 .. Len(vec) /\ (k + 1) - 1 = k
    BY <1>3
  <2>2. Bit(source, k + 1) = Given(BitOf(n, wraps, k))
    BY <1>3, <1>4, <2>1 DEF Bit
  <2> QED BY <2>2 DEF Taken, Given
<1>6. \A j \in 1 .. Len(vec) : Bit(source, j).kind # "wire"
  BY <1>3, <1>4 DEF Bit, Given
<1> HIDE DEF source, values
<1>7. cell' = Assigned(source) /\ ideal' = Asked(values)
  BY <1>2 DEF source, values
<1> QED BY <1>1, <1>5, <1>6, <1>7, AssignKeeps DEF AssignNumber

(* Shares, and zeros beyond them.                                           *)
LEMMA SharesKeep ==
  ASSUME IInv, NEW up \in 0 .. NumShares - 1, NEW down \in 0 .. NumShares - 1, AssignShares(up, down)
  PROVE  Kept'
<1>1. SUFFICES ASSUME ~Overlaps, ~Undriven PROVE Kept'
  BY DEF Kept
<1> DEFINE s == [first |-> down, last |-> up]
           shares == Shares(up, down)
           source == [i \in DOMAIN shares |-> Given(shares[i])]
           values == [k \in Places(span) |-> IF k < Width(s) THEN Share(Position(s, k)) ELSE ZERO]
           m == Width(s)
<1>2. DOMAIN vec = 1 .. Len(vec) /\ Len(vec) \in Nat /\ Places(span) = 0 .. Len(vec) - 1
  BY DEF IInv, SliceRight, Places
<1>3. m \in Nat /\ m = IF down <= up THEN up - down + 1 ELSE down - up + 1
  BY VectorAssumption DEF Width
<1>4. DOMAIN shares = 1 .. m /\ \A k \in 0 .. m - 1 : shares[k + 1] = Share(Position(s, k))
  <2>1. up \in Nat /\ down \in Nat
    BY VectorAssumption
  <2>2. CASE down < up
    BY <1>3, <2>1, <2>2 DEF Shares, Position, Share
  <2>3. CASE ~(down < up)
    BY <1>3, <2>1, <2>3 DEF Shares, Position, Share
  <2> QED BY <2>2, <2>3
<1> HIDE DEF shares, m
<1>5. Len(source) = m
  <2>1. source = [i \in 1 .. m |-> source[i]]
    BY <1>4
  <2> HIDE DEF source
  <2> QED BY <1>3, <2>1, LengthOf
<1>6. ASSUME NEW k \in Places(span) PROVE values[k] = Taken(cell, Bit(source, k + 1))
  <2>0. k \in 0 .. Len(vec) - 1 /\ values[k] = IF k < m THEN Share(Position(s, k)) ELSE ZERO
    BY <1>2 DEF m
  <2>1. CASE k < m
    <3>1. k + 1 \in 1 .. m /\ k \in 0 .. m - 1
      BY <1>2, <1>3, <2>0, <2>1
    <3>2. source[k + 1] = Given(shares[k + 1]) /\ shares[k + 1] = Share(Position(s, k))
      BY <1>4, <3>1
    <3>3. k + 1 <= Len(source)
      BY <1>5, <3>1
    <3>4. Bit(source, k + 1) = Given(Share(Position(s, k)))
      BY <3>2, <3>3 DEF Bit
    <3> QED BY <2>0, <2>1, <3>4 DEF Taken, Given
  <2>2. CASE ~(k < m)
    <3>1. Bit(source, k + 1) = None
      BY <1>2, <1>3, <1>5, <2>0, <2>2 DEF Bit
    <3> QED BY <2>0, <2>2, <3>1 DEF Taken, None
  <2> QED BY <2>1, <2>2
<1>7. \A j \in 1 .. Len(vec) : Bit(source, j).kind # "wire"
  BY <1>3, <1>4, <1>5 DEF Bit, Given, None
<1>8. cell' = Assigned(source) /\ ideal' = Asked(values)
  BY DEF AssignShares, shares
<1> HIDE DEF source, values
<1> QED BY <1>1, <1>6, <1>7, <1>8, AssignKeeps DEF AssignShares

(* The bits of another slice, of the same name or another.                  *)
LEMMA VectorKeeps ==
  ASSUME IInv, NEW n \in Name, NEW up \in 0 .. Len(NameBits[n]) - 1,
         NEW down \in 0 .. Len(NameBits[n]) - 1, AssignVector(n, up, down)
  PROVE  Kept'
<1>1. SUFFICES ASSUME ~Overlaps, ~Undriven PROVE Kept'
  BY DEF Kept
<1> DEFINE bits == NameBits[n]
           refs == References(n)
           slice == Slice(refs, up, down)
           whole == Whole(n)
           s == Part(whole, up, down)
           source == [i \in DOMAIN slice |-> Held(slice[i])]
           values == [k \in Places(span) |-> IF k < Width(s) THEN ideal[WireAt(s, k)] ELSE ZERO]
           m == Size(up, down)
<1>2. DOMAIN vec = 1 .. Len(vec) /\ Len(vec) \in Nat /\ Places(span) = 0 .. Len(vec) - 1
  BY DEF IInv, SliceRight, Places
<1>3. /\ bits \in Seq(Wire) /\ Len(bits) \in Nat \ {0} /\ refs \in Seq(Cells) /\ Len(refs) = Len(bits)
      /\ \A i \in 1 .. Len(bits) : refs[i] = Ref(bits[i])
  BY ReferencesAre
<1>4. /\ slice \in Seq(Cells) /\ Len(slice) = m
      /\ \A k \in 0 .. m - 1 : slice[k + 1] = refs[At(up, down, k) + 1]
  BY <1>3, SliceElements
<1>5. /\ whole \in [name : Name, first : Nat, last : Nat] /\ whole.name = n
      /\ up \in Places(whole) /\ down \in Places(whole) /\ whole.first = 1 /\ 1 <= whole.last
  BY <1>3 DEF Whole, Places, Width
<1>6. /\ s.name = n /\ Width(s) = m
      /\ \A k \in 0 .. m - 1 : Position(s, k) = Position(whole, At(up, down, k))
  <2> HIDE DEF whole
  <2> QED BY <1>5, PartPosition
<1>7. m \in Nat /\ \A k \in 0 .. m - 1 : At(up, down, k) \in Nat /\ At(up, down, k) < Len(bits)
  BY <1>3 DEF Size, At
<1> HIDE DEF m, whole
<1>8. \A k \in 0 .. m - 1 : slice[k + 1] = Ref(WireAt(s, k)) /\ WireAt(s, k) \in Wire /\ slice[k + 1] \in Cells
  <2>1. SUFFICES ASSUME NEW k \in 0 .. m - 1
                 PROVE  slice[k + 1] = Ref(WireAt(s, k)) /\ WireAt(s, k) \in Wire /\ slice[k + 1] \in Cells
    OBVIOUS
  <2>2. Position(whole, At(up, down, k)) = 1 + At(up, down, k)
    BY <1>5 DEF Position
  <2>3. 1 + At(up, down, k) = At(up, down, k) + 1
    BY <1>7
  <2>4. slice[k + 1] = Ref(WireAt(s, k)) /\ WireAt(s, k) \in Wire
    <3>1. At(up, down, k) + 1 \in 1 .. Len(bits)
      BY <1>3, <1>7
    <3>2. WireAt(s, k) = bits[At(up, down, k) + 1]
      BY <1>6, <2>2, <2>3 DEF WireAt
    <3> HIDE DEF slice, refs
    <3> QED BY <1>3, <1>4, <3>1, <3>2
  <2>5. k + 1 \in 1 .. Len(slice)
    BY <1>4, <1>7
  <2>6. slice[k + 1] \in Cells
    BY <1>4, <2>5
  <2> QED BY <2>4, <2>6
<1>9. DOMAIN slice = 1 .. m
  BY <1>4
<1>10. \A i \in 1 .. Len(vec), j \in 1 .. m : vec[i] = slice[j] => j <= i
  BY <1>1, <1>2, <1>9 DEF AssignVector
<1>11. cell' = Assigned(source) /\ ideal' = Asked(values)
  BY DEF AssignVector, whole
<1> HIDE DEF slice, s
<1>12. Len(source) = m
  <2>1. source = [i \in 1 .. m |-> source[i]]
    BY <1>9
  <2> HIDE DEF source
  <2> QED BY <1>7, <2>1, LengthOf
<1>13. \A w \in Wire : cell[Ref(w)] = ideal[w]
  BY <1>1 DEF IInv, Kept, Mirrors
<1>14. ASSUME NEW k \in Places(span) PROVE values[k] = Taken(cell, Bit(source, k + 1))
  <2>0. k \in 0 .. Len(vec) - 1 /\ values[k] = IF k < m THEN ideal[WireAt(s, k)] ELSE ZERO
    BY <1>2, <1>6
  <2>1. CASE k < m
    <3>1. k + 1 \in 1 .. m /\ k \in 0 .. m - 1
      BY <1>2, <1>7, <2>0, <2>1
    <3>2. source[k + 1] = Held(slice[k + 1]) /\ slice[k + 1] = Ref(WireAt(s, k)) /\ WireAt(s, k) \in Wire
      BY <1>8, <1>9, <3>1
    <3>3. k + 1 <= Len(source)
      BY <1>12, <3>1
    <3>4. Bit(source, k + 1) = Held(Ref(WireAt(s, k)))
      BY <3>2, <3>3 DEF Bit
    <3> QED BY <1>13, <2>0, <2>1, <3>2, <3>4 DEF Taken, Held
  <2>2. CASE ~(k < m)
    <3>1. Bit(source, k + 1) = None
      BY <1>2, <1>7, <1>12, <2>0, <2>2 DEF Bit
    <3> QED BY <2>0, <2>2, <3>1 DEF Taken, None
  <2> QED BY <2>1, <2>2
<1>15. ASSUME NEW j \in 1 .. Len(vec), Bit(source, j).kind = "wire"
       PROVE  /\ Bit(source, j).wire \in Cells
              /\ \A i \in 1 .. Len(vec) : vec[i] = Bit(source, j).wire => j <= i
  <2>1. j <= m
    BY <1>12, <1>15 DEF Bit, None
  <2>2. j \in 1 .. m /\ Bit(source, j) = Held(slice[j])
    BY <1>7, <1>9, <1>12, <2>1 DEF Bit
  <2>3. Bit(source, j).wire = slice[j]
    BY <2>2 DEF Held
  <2>4. slice[j] \in Cells
    <3>1. j - 1 \in 0 .. m - 1 /\ (j - 1) + 1 = j
      BY <1>7, <2>2
    <3> QED BY <1>8, <3>1
  <2> QED BY <1>10, <2>2, <2>3, <2>4
<1> HIDE DEF source, values
<1> QED BY <1>1, <1>11, <1>14, <1>15, AssignKeeps DEF AssignVector

LEMMA InitInv == Init => IInv
<1>1. SUFFICES ASSUME Init PROVE IInv
  OBVIOUS
<1>2. vec \in Seq(Cells) /\ SpanRight /\ SliceRight
  BY <1>1, WholeRight DEF Init
<1>3. Kept
  <2>1. \A w \in Wire : Ref(w) \in Cells
    BY RefIs
  <2> QED BY <1>1, <2>1 DEF Init, Kept, Mirrors, Cells
<1> QED BY <1>2, <1>3 DEF IInv

LEMMA NextInv == IInv /\ [Next]_vars => IInv'
<1>1. SUFFICES ASSUME IInv, [Next]_vars PROVE IInv'
  OBVIOUS
<1>2. ASSUME UNCHANGED <<vec, span>>, Kept' PROVE IInv'
  BY <1>1, <1>2 DEF IInv, SpanRight, SliceRight, Width, Places, WireAt, Position, Ref, Cells
<1>3. ASSUME UNCHANGED <<cell, ideal>> PROVE Kept'
  BY <1>1, <1>3 DEF IInv, Kept, Mirrors, Ref, Cells
<1>4. CASE Read
  BY <1>2, <1>3, <1>4 DEF Read
<1>5. ASSUME NEW n \in Name, Open(n) PROVE IInv'
  BY <1>1, <1>5, OpenKeeps
<1>6. ASSUME NEW n \in Name, NEW up \in 0 .. Len(NameBits[n]) - 1,
             NEW down \in 0 .. Len(NameBits[n]) - 1, AssignVector(n, up, down)
      PROVE  IInv'
  <2>1. UNCHANGED <<vec, span>>
    BY <1>6 DEF AssignVector
  <2> QED BY <1>1, <1>2, <1>6, <2>1, VectorKeeps
<1>7. ASSUME NEW up \in Index, NEW down \in Index, Narrow(up, down) PROVE IInv'
  BY <1>1, <1>7, NarrowKeeps
<1>8. ASSUME NEW k \in Index, NEW value \in Value, AssignElement(k, value) PROVE IInv'
  <2>1. UNCHANGED <<vec, span>>
    BY <1>8 DEF AssignElement
  <2> QED BY <1>1, <1>2, <1>8, <2>1, ElementKeeps
<1>9. ASSUME NEW n \in 0 .. Weight[WordBits] - 1, AssignNumber(n) PROVE IInv'
  <2>1. UNCHANGED <<vec, span>>
    BY <1>9 DEF AssignNumber
  <2> QED BY <1>1, <1>2, <1>9, <2>1, NumberKeeps
<1>10. ASSUME NEW up \in 0 .. NumShares - 1, NEW down \in 0 .. NumShares - 1, AssignShares(up, down)
       PROVE  IInv'
  <2>1. UNCHANGED <<vec, span>>
    BY <1>10 DEF AssignShares
  <2> QED BY <1>1, <1>2, <1>10, <2>1, SharesKeep
<1>11. CASE UNCHANGED vars
  BY <1>2, <1>3, <1>11 DEF vars
<1> QED
  BY <1>1, <1>4, <1>5, <1>6, <1>7, <1>8, <1>9, <1>10, <1>11 DEF Next

(* What one more bit does to a number of i digits.                          *)
LEMMA DigitAdded ==
  ASSUME NEW i \in Nat, NEW n \in 0 .. Weight[i] - 1
  PROVE  /\ n \in 0 .. Weight[i + 1] - 1 /\ n + Weight[i] \in 0 .. Weight[i + 1] - 1
         /\ Digit(n, i) = 0 /\ Digit(n + Weight[i], i) = 1
         /\ \A k \in 0 .. i - 1 : Digit(n + Weight[i], k) = Digit(n, k)
<1>1. Weight[i] \in Nat \ {0} /\ Weight[i + 1] = 2 * Weight[i] /\ n \in Nat
  BY WeightSteps
<1>2. n \in 0 .. Weight[i + 1] - 1 /\ n + Weight[i] \in 0 .. Weight[i + 1] - 1
  BY <1>1
<1>3. n \div Weight[i] = 0 /\ (n + Weight[i]) \div Weight[i] = 1
  <2>1. n = 0 * Weight[i] + n /\ n + Weight[i] = 1 * Weight[i] + n /\ n + Weight[i] \in Nat
    BY <1>1
  <2> QED BY <1>1, <2>1, QuotientIs
<1>4. ASSUME NEW k \in 0 .. i - 1 PROVE Digit(n + Weight[i], k) = Digit(n, k)
  <2>1. PICK q \in Nat : Weight[i] = (2 * q) * Weight[k]
    BY WeightMultiple
  <2>2. Weight[k] \in Nat \ {0}
    BY WeightSteps
  <2>3. ((n + (2 * q) * Weight[k]) \div Weight[k]) % 2 = (n \div Weight[k]) % 2
    BY <1>1, <2>2, DigitKept
  <2> QED BY <2>1, <2>3 DEF Digit
<1> QED BY <1>2, <1>3, <1>4 DEF Digit

LEMMA WeightGrows ==
  ASSUME NEW i \in Nat, NEW k \in 0 .. i PROVE Weight[k] <= Weight[i]
<1>1. CASE k = i
  BY <1>1, WeightSteps
<1>2. CASE k # i
  <2>1. PICK q \in Nat : Weight[i] = (2 * q) * Weight[k]
    BY <1>2, WeightMultiple
  <2>2. Weight[k] \in Nat \ {0} /\ Weight[i] \in Nat \ {0}
    BY WeightSteps
  <2>3. q # 0
    BY <2>1, <2>2
  <2> QED BY <2>1, <2>2, <2>3
<1> QED BY <1>1, <1>2

-----------------------------------------------------------------------------
(* The loop of as_uint64_t.                                                 *)

(* The bits that are looked at when the loop has come to bit i.             *)
Known(i) == IF i <= WordBits THEN i ELSE WordBits

(* n has the digits of the first i bits of the vector.                      *)
ReadUpTo(i, n) ==
  /\ n \in 0 .. Weight[Known(i)] - 1
  /\ \A k \in 0 .. Known(i) - 1 : Digit(n, k) = 1 <=> BitSet(k + 1)

LEMMA PlusReads ==
  ASSUME NEW i \in Nat, NEW n, ReadUpTo(i, n) PROVE ReadUpTo(i + 1, Plus(n, i + 1))
<1>0. WordBits \in Nat /\ (i + 1) - 1 = i
  BY VectorAssumption
<1>1. CASE ~(i + 1 <= WordBits)
  BY <1>0, <1>1 DEF ReadUpTo, Known, Plus
<1>2. CASE i + 1 <= WordBits
  <2>1. Known(i) = i /\ Known(i + 1) = i + 1
    BY <1>0, <1>2 DEF Known
  <2>2. n \in 0 .. Weight[i] - 1 /\ \A k \in 0 .. i - 1 : Digit(n, k) = 1 <=> BitSet(k + 1)
    BY <2>1 DEF ReadUpTo
  <2>3. Plus(n, i + 1) = IF BitSet(i + 1) THEN n + Weight[i] ELSE n
    BY <1>0, <1>2 DEF Plus
  <2>4. \A k \in 0 .. (i + 1) - 1 : k = i \/ k \in 0 .. i - 1
    OBVIOUS
  <2>5. CASE BitSet(i + 1)
    <3>1. ReadUpTo(i + 1, n + Weight[i])
      <4>1. /\ n + Weight[i] \in 0 .. Weight[i + 1] - 1 /\ Digit(n + Weight[i], i) = 1
            /\ \A k \in 0 .. i - 1 : Digit(n + Weight[i], k) = Digit(n, k)
        BY <2>2, DigitAdded
      <4>2. ASSUME NEW k \in 0 .. (i + 1) - 1
            PROVE  Digit(n + Weight[i], k) = 1 <=> BitSet(k + 1)
        BY <2>2, <2>4, <2>5, <4>1
      <4> QED BY <2>1, <4>1, <4>2 DEF ReadUpTo
    <3> QED BY <2>3, <2>5, <3>1
  <2>6. CASE ~BitSet(i + 1)
    <3>1. ReadUpTo(i + 1, n)
      BY <2>1, <2>2, <2>4, <2>6, DigitAdded DEF ReadUpTo
    <3> QED BY <2>3, <2>6, <3>1
  <2> QED BY <2>5, <2>6
<1> QED BY <1>1, <1>2

Summing == INSTANCE Folding WITH op <- Plus

LEMMA LoopReads ==
  ASSUME vec \in Seq(Cells) PROVE ReadUpTo(Len(vec), FoldLeftDomain(Plus, 0, vec))
<1> DEFINE seq == [i \in DOMAIN vec |-> i]
           N == Len(vec)
<1>1. N \in Nat /\ DOMAIN seq = 1 .. N /\ \A i \in 1 .. N : seq[i] = i
  OBVIOUS
<1>2. FoldLeftDomain(Plus, 0, vec) = Summing!Fold(0, seq)
  BY DEF FoldLeftDomain, FoldLeft, MapThenFoldSet, Max, Summing!Fold, Summing!IsIter, Summing!Step,
         Summing!Greatest
<1> HIDE DEF seq, N
<1>3. PICK f : Summing!Values(f, 0, seq, N) /\ Summing!Fold(0, seq) = f[N]
  BY <1>1, Summing!FoldValues
<1>4. f[0] = 0 /\ \A i \in 0 .. N - 1 : f[i + 1] = Plus(f[i], seq[i + 1])
  BY <1>3 DEF Summing!Values
<1> DEFINE S == {i \in Nat : i <= N => ReadUpTo(i, f[i])}
<1>5. 0 \in S
  <2>1. Known(0) = 0 /\ Weight[0] = 1
    BY VectorAssumption, WeightSteps DEF Known
  <2> QED BY <1>4, <2>1 DEF ReadUpTo
<1>6. ASSUME NEW i \in Nat, i \in S PROVE i + 1 \in S
  <2>1. SUFFICES ASSUME i + 1 <= N PROVE ReadUpTo(i + 1, f[i + 1])
    OBVIOUS
  <2>2. i \in 0 .. N - 1 /\ i + 1 \in 1 .. N /\ ReadUpTo(i, f[i])
    BY <1>1, <1>6, <2>1
  <2>3. f[i + 1] = Plus(f[i], i + 1)
    BY <1>1, <1>4, <2>2
  <2> QED BY <2>2, <2>3, PlusReads
<1> HIDE DEF S
<1>7. N \in S
  BY <1>1, <1>5, <1>6, Summing!SetInduction
<1>8. ReadUpTo(N, f[N])
  BY <1>1, <1>7 DEF S
<1> QED BY <1>2, <1>3, <1>8 DEF N

LEMMA ReadKeeps ==
  ASSUME IInv, ~Overlaps, ~Undriven, Read PROVE ReadRight'
<1>1. /\ vec \in Seq(Cells) /\ Len(vec) \in Nat \ {0} /\ Places(span) = 0 .. Len(vec) - 1
      /\ \A k \in Places(span) : vec[k + 1] = Ref(WireAt(span, k))
  <2>1. Len(vec) = Width(span) /\ Width(span) \in Nat \ {0}
    BY DEF IInv, SpanRight, SliceRight, Width
  <2> QED BY <2>1 DEF IInv, SliceRight, Places
<1>2. vec' = vec /\ span' = span /\ ideal' = ideal
  BY DEF Read
<1>3. /\ Places(span') = Places(span) /\ \A k : WireAt(span', k) = WireAt(span, k)
      /\ AllConst' <=> AllConst
  BY <1>2 DEF AllConst
<1>4. WordBits \in Nat
  BY VectorAssumption
<1>5. SUFFICES ASSUME AllConst
               PROVE  /\ seen'.kind = "number" /\ seen'.n \in 0 .. Weight[WordBits] - 1
                      /\ \A k \in Places(span) \cap 0 .. WordBits - 1 :
                           Digit(seen'.n, k) = ideal[WireAt(span, k)]
  BY <1>2, <1>3 DEF ReadRight
<1>6. \A k \in Places(span) :
        /\ cell[vec[k + 1]] = ideal[WireAt(span, k)]
        /\ ideal[WireAt(span, k)] \in {ZERO, ONE}
  <2>1. \A w \in Wire : cell[Ref(w)] = ideal[w]
    BY DEF IInv, Kept, Mirrors
  <2>2. \A k \in Places(span) : WireAt(span, k) \in Wire
    BY PlacesAreWires DEF IInv
  <2> QED BY <1>1, <1>5, <2>1, <2>2 DEF AllConst
<1>7. IsConst
  <2>1. 0 \in Places(span) /\ 0 + 1 \in DOMAIN vec
    BY <1>1
  <2> QED BY <1>6, <2>1 DEF IsConst
<1> DEFINE n == FoldLeftDomain(Plus, 0, vec)
<1>8. seen' = [kind |-> "number", n |-> n]
  BY <1>7 DEF Read
<1>9. ReadUpTo(Len(vec), n)
  BY <1>1, LoopReads
<1> HIDE DEF n
<1>10. seen'.n = n /\ seen'.kind = "number"
  BY <1>8
<1>11. n \in 0 .. Weight[WordBits] - 1
  <2>1. Known(Len(vec)) \in 0 .. WordBits
    BY <1>1, <1>4 DEF Known
  <2>2. Weight[Known(Len(vec))] <= Weight[WordBits]
    BY <1>4, <2>1, WeightGrows
  <2>3. Weight[Known(Len(vec))] \in Nat /\ Weight[WordBits] \in Nat
    <3>1. Known(Len(vec)) \in Nat
      BY <1>4, <2>1
    <3> QED BY <1>4, <3>1, WeightSteps
  <2> QED BY <1>9, <2>2, <2>3 DEF ReadUpTo
<1>12. ASSUME NEW k \in Places(span) \cap 0 .. WordBits - 1
       PROVE  Digit(n, k) = ideal[WireAt(span, k)]
  <2>1. k \in 0 .. Known(Len(vec)) - 1
    BY <1>1, <1>4 DEF Known
  <2>2. Digit(n, k) = 1 <=> ideal[WireAt(span, k)] = ONE
    BY <1>6, <1>9, <2>1 DEF ReadUpTo, BitSet
  <2>3. n \in Nat /\ k \in Nat /\ Weight[k] \in Nat \ {0} /\ Weight[WordBits] \in Nat
    BY <1>4, <1>11, WeightSteps
  <2>4. Digit(n, k) \in {0, 1}
    <3>1. n \div Weight[k] \in Int
      BY <2>3
    <3> QED BY <3>1 DEF Digit
  <2> QED BY <1>6, <2>2, <2>4 DEF ZERO, ONE
<1> QED BY <1>10, <1>11, <1>12

(* Every other call forgets the number.                                     *)
LEMMA NextReads == IInv /\ ~Overlaps /\ ~Undriven /\ ReadRight /\ [Next]_vars => ReadRight'
<1>1. SUFFICES ASSUME IInv, ~Overlaps, ~Undriven, ReadRight, [Next]_vars PROVE ReadRight'
  OBVIOUS
<1>2. CASE Read
  BY <1>1, <1>2, ReadKeeps
<1>3. CASE seen' = NotRead
  BY <1>3 DEF NotRead, ReadRight
<1>4. CASE UNCHANGED vars
  BY <1>1, <1>4 DEF vars, ReadRight, AllConst
<1>5. Next => Read \/ seen' = NotRead
  BY DEF Next, Open, AssignVector, Narrow, AssignElement, AssignNumber, AssignShares
<1> QED BY <1>1, <1>2, <1>3, <1>4, <1>5

(* For any names and any chain of slices, as in v[{15, 8}][{0, 3}], the     *)
(* references are to the bits the bounds say, in the order they say         *)
(* (SymbolVector.cpp:25-41).                                                *)
THEOREM SlicesStand == Spec => []SliceRight
<1>1. IInv => SliceRight
  BY DEF IInv
<1> QED
  BY <1>1, InitInv, NextInv, PTL DEF Spec

(* For any names, however they share wires: through whatever slices numbers *)
(* (of more bits than a word has, too), shares and vectors are assigned, a  *)
(* wire holds what was last asked for, and the bits without a value are     *)
(* zero (SymbolVector.cpp:43-86).  No vector is assigned bits that it has   *)
(* overwritten, and none is assigned to that has wires without a value,     *)
(* which share one cell (Simulator.cpp:221): then it would not.             *)
THEOREM AssignmentsStand == ASSUME ~Overlaps, ~Undriven PROVE Spec => []Mirrors
<1>1. IInv => Mirrors
  BY DEF IInv, Kept
<1> QED
  BY <1>1, InitInv, NextInv, PTL DEF Spec

(* For any names and words: a vector without symbols is read, and as the    *)
(* number below 2^WordBits whose digits are the bits last asked for, however *)
(* they were assigned (SymbolVector.cpp:88-106).  Nothing is said of vectors *)
(* that are partly symbolic: those are read too.                            *)
THEOREM NumbersAreRight == ASSUME ~Overlaps, ~Undriven PROVE Spec => []ReadRight
<1>1. Init => ReadRight
  BY DEF Init, NotRead, ReadRight
<1> QED
  BY <1>1, InitInv, NextInv, NextReads, PTL DEF Spec
=============================================================================
