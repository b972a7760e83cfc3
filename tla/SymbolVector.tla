---------------------------- MODULE SymbolVector ----------------------------
(***************************************************************************)
(* Vectors of references to the wires of a cycle (src/SymbolVector.cpp), as *)
(* Simulator::operator[] and the getters of shares and masks deliver them:  *)
(* a testbench slices a vector, again and in both directions, assigns       *)
(* numbers, shares and other vectors to it, and reads it as a number.       *)
(***************************************************************************)
EXTENDS Integers, SequencesExt

CONSTANTS
  Wire,      (* the wires of the circuit                                     *)
  Present,   (* the wires that have a value in the cycle, not before step()  *)
  S_X,       (* the constant every other wire is taken for                   *)
  Name,      (* the names of ports and nets                                  *)
  NameBits,  (* m_name_bits: the wires of a name                             *)
  NumShares, (* the i-th shares there are, of secrets 0 .. NumShares - 1     *)
  WordBits,  (* bits of a number: 64                                         *)
  Overlaps,  (* whether a vector may be assigned bits it has overwritten     *)
  Undriven   (* whether wires without a value may be assigned                *)

(* A name has no bit twice, and none of its bits is a constant.             *)
ASSUME VectorAssumption ==
  /\ Present \subseteq Wire /\ S_X \notin Wire
  /\ NameBits \in [Name -> Seq(Wire)]
  /\ \A n \in Name : NameBits[n] # << >> /\ IsInjective(NameBits[n])
  /\ NumShares \in Nat /\ WordBits \in Nat \ {0}
  /\ Overlaps \in BOOLEAN /\ Undriven \in BOOLEAN

(* What a wire holds: a constant or the symbol of a share.                  *)
ZERO == 0
ONE  == 1
Share(i) == 2 + i
Value == {ZERO, ONE} \cup {Share(i) : i \in 0 .. NumShares - 1}

VARIABLES
  cell,   (* m_trace.back(): the values of wires and of S_X                  *)
  vec,    (* the vector in hand: m_refs                                      *)
  seen,   (* what as_uint64_t made of it, when that was the last call        *)
  span,   (* history: the bits of a name the vector was sliced from          *)
  ideal   (* history: the values asked for                                   *)

vars == <<cell, vec, seen, span, ideal>>

NotRead == [kind |-> "none"]
Whole(n) == [name |-> n, first |-> 1, last |-> Len(NameBits[n])]

(* m_trace.back().find: where the value of a wire is.                       *)
Ref(w) == IF w \in Present THEN w ELSE S_X

References(n) == [i \in DOMAIN NameBits[n] |-> Ref(NameBits[n][i])]

Init ==
  /\ cell = [c \in Present \cup {S_X} |-> ZERO]
  /\ ideal = [w \in Wire |-> ZERO]
  /\ \E n \in Name : vec = References(n) /\ span = Whole(n)
  /\ seen = NotRead

-----------------------------------------------------------------------------
(* Which bits: the code walks iterators, the history counts positions.      *)

(* Mutant: a slice that runs downwards is not turned round.                 *)
SliceForward(v, up, down) ==
  IF up >= down THEN SubSeq(v, down + 1, up + 1) ELSE SubSeq(v, up + 1, down + 1)

Slice(v, up, down) ==
  IF up >= down THEN SubSeq(v, down + 1, up + 1) ELSE Reverse(SubSeq(v, up + 1, down + 1))

Position(s, k) == IF s.first <= s.last THEN s.first + k ELSE s.first - k
Width(s)   == 1 + (IF s.first <= s.last THEN s.last - s.first ELSE s.first - s.last)
Places(s)  == 0 .. Width(s) - 1
WireAt(s, k) == NameBits[s.name][Position(s, k)]
Part(s, up, down) == [s EXCEPT !.first = Position(s, down), !.last = Position(s, up)]

(* Mutant: shares come in the order of their numbers.                       *)
SharesUpwards(up, down) ==
  LET low == IF up < down THEN up ELSE down
      size == IF up < down THEN down - up + 1 ELSE up - down + 1
  IN  [i \in 1 .. size |-> Share(low + i - 1)]

(* get_share_i and masks: from the second bound to the first.               *)
Shares(up, down) ==
  IF down < up THEN [i \in 1 .. up - down + 1 |-> Share(down + i - 1)]
               ELSE [i \in 1 .. down - up + 1 |-> Share(down - i + 1)]

-----------------------------------------------------------------------------
(* Calls.                                                                   *)

Open(n) ==
  /\ vec' = References(n) /\ span' = Whole(n)
  /\ seen' = NotRead /\ UNCHANGED <<cell, ideal>>

Narrow(up, down) ==
  /\ vec' = Slice(vec, up, down) /\ span' = Part(span, up, down)
  /\ seen' = NotRead /\ UNCHANGED <<cell, ideal>>

(* Only wires that have a value are assigned one.                           *)
Assignable(places) == Undriven \/ \A i \in places : vec[i] # S_X

(* What a bit is assigned: a value, what a wire holds when its turn comes,  *)
(* or nothing, which makes it zero.                                         *)
Given(value) == [kind |-> "value", value |-> value]
Held(w)      == [kind |-> "wire", wire |-> w]
None         == [kind |-> "none"]

Taken(c, from) ==
  CASE from.kind = "value" -> from.value
    [] from.kind = "wire"  -> c[from.wire]
    [] OTHER               -> ZERO

(* Mutant: upper bits without a value are left as they were.                *)
StoreSome(c, bit) == IF bit.from.kind = "none" THEN c ELSE [c EXCEPT ![bit.to] = Taken(c, bit.from)]

(* One iteration of the loop of an assignment, with the wires at c.         *)
Store(c, bit) == [c EXCEPT ![bit.to] = Taken(c, bit.from)]

(* The bits of vector v, when the values of source are assigned to it:      *)
(* values without a bit are ignored.                                        *)
Stores(v, source) ==
  [i \in DOMAIN v |-> [to |-> v[i], from |-> IF i <= Len(source) THEN source[i] ELSE None]]

Assigned(source) == FoldLeft(Store, cell, Stores(vec, source))

(* The values asked for, place by place.                                    *)
Asked(values) ==
  [w \in Wire |->
     LET ks == {k \in Places(span) : WireAt(span, k) = w}
     IN  IF ks = {} THEN ideal[w] ELSE values[CHOOSE k \in ks : TRUE]]

(* An element, as in v[0] = false.                                          *)
AssignElement(k, value) ==
  /\ Assignable({k + 1})
  /\ cell' = Store(cell, [to |-> vec[k + 1], from |-> Given(value)])
  /\ ideal' = [ideal EXCEPT ![WireAt(span, k)] = value]
  /\ seen' = NotRead /\ UNCHANGED <<vec, span>>

(* 2^k, the weight of bit k.                                                *)
Weight[k \in Nat] == IF k = 0 THEN 1 ELSE 2 * Weight[k - 1]

(* To shift a number by all its bits or more is undefined: the processor    *)
(* starts again at the first bit, vector instructions give zero.            *)
Digit(n, k) == (n \div Weight[k]) % 2
BitOf(n, wraps, k) == IF k < WordBits \/ wraps THEN Digit(n, k % WordBits) ELSE ZERO

AssignNumber(n) ==
  /\ Assignable(DOMAIN vec)
  /\ \E wraps \in BOOLEAN :
       /\ cell' = Assigned([i \in DOMAIN vec |-> Given(BitOf(n, wraps, i - 1))])
       /\ ideal' = Asked([k \in Places(span) |-> BitOf(n, wraps, k)])
  /\ seen' = NotRead /\ UNCHANGED <<vec, span>>

AssignShares(up, down) ==
  /\ Assignable(DOMAIN vec)
  /\ cell' = LET shares == Shares(up, down)
             IN  Assigned([i \in DOMAIN shares |-> Given(shares[i])])
  /\ ideal' = LET s == [first |-> down, last |-> up]
              IN  Asked([k \in Places(span) |-> IF k < Width(s) THEN Share(Position(s, k)) ELSE ZERO])
  /\ seen' = NotRead /\ UNCHANGED <<vec, span>>

(* Another vector: a bit is read when its turn comes.                       *)
AssignVector(n, up, down) ==
  LET source == Slice(References(n), up, down)
      s == Part(Whole(n), up, down)
  IN  /\ Assignable(DOMAIN vec)
      /\ Overlaps \/ \A i \in DOMAIN vec, j \in DOMAIN source : vec[i] = source[j] => j <= i
      /\ cell' = Assigned([i \in DOMAIN source |-> Held(source[i])])
      /\ ideal' = Asked([k \in Places(span) |-> IF k < Width(s) THEN ideal[WireAt(s, k)] ELSE ZERO])
      /\ seen' = NotRead /\ UNCHANGED <<vec, span>>

(* is_const: one constant bit is enough.                                    *)
IsConst == \E i \in DOMAIN vec : cell[vec[i]] \in {ZERO, ONE}

(* A bit that is one; a symbol counts as zero.                              *)
BitSet(i) == cell[vec[i]] = ONE

(* Mutant: nobody stops at the last bit of a number.                        *)
PlusAll(res, i) == IF BitSet(i) THEN res + Weight[i - 1] ELSE res
Plus(res, i)    == IF i <= WordBits /\ BitSet(i) THEN res + Weight[i - 1] ELSE res

(* as_uint64_t                                                              *)
Read ==
  /\ seen' = IF IsConst THEN [kind |-> "number", n |-> FoldLeftDomain(Plus, 0, vec)]
             ELSE [kind |-> "thrown"]
  /\ UNCHANGED <<cell, vec, span, ideal>>

Index == 0 .. Len(vec) - 1

Next ==
  \/ Read
  \/ \E n \in Name : \/ Open(n)
                     \/ \E up, down \in 0 .. Len(NameBits[n]) - 1 : AssignVector(n, up, down)
  \/ \E up, down \in Index : Narrow(up, down)
  \/ \E k \in Index, value \in Value : AssignElement(k, value)
  \/ \E n \in 0 .. Weight[WordBits] - 1 : AssignNumber(n)
  \/ \E up, down \in 0 .. NumShares - 1 : AssignShares(up, down)

Spec == Init /\ [][Next]_vars
-----------------------------------------------------------------------------
(* Properties.                                                              *)

(* A slice of a slice, each in either direction, has the bits of the name   *)
(* that its bounds say, in the order they say.                              *)
SliceRight ==
  /\ Len(vec) = Width(span)
  /\ \A k \in Places(span) : vec[k + 1] = Ref(WireAt(span, k))

(* However slices of names that share wires are assigned to each other, a   *)
(* wire holds what was asked for, and zero when it has no value yet.  Bits  *)
(* beyond a number's word hold anything.                                    *)
Mirrors == \A w \in Wire : cell[Ref(w)] = ideal[w]

AllConst == \A k \in Places(span) : ideal[WireAt(span, k)] \in {ZERO, ONE}

(* A vector without symbols is read as the number, in the range of a word,  *)
(* that has the bits asked for as its digits, and never throws.             *)
ReadRight ==
  seen # NotRead /\ AllConst =>
    /\ seen.kind = "number" /\ seen.n \in 0 .. Weight[WordBits] - 1
    /\ \A k \in Places(span) \cap 0 .. WordBits - 1 :
         Digit(seen.n, k) = ideal[WireAt(span, k)]

(* README.md:124: a vector with symbolic bits is not read as a number; the  *)
(* code throws only when all its bits are symbolic (SymbolVector.cpp:92).   *)
SymbolicThrows == seen.kind = "number" => AllConst
=============================================================================
