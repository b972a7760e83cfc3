----------------------------- MODULE SaveDataMI -----------------------------
(***************************************************************************)
(* Saved results (src/SaveDataMI.cpp) in memory and in files.  The sum of a *)
(* position is the number of runs in it, or Junk if it was never read.      *)
(* What a result was made with (cycles and sample counts) is one value,     *)
(* and the duration, which is only added up, is left out.                   *)
(*                                                                          *)
(* A file is the sequence of fields that reached it: hash, parameters,      *)
(* number of runs, run length, and a sum per position.                      *)
(***************************************************************************)
EXTENDS Integers, Sequences

CONSTANTS
  Junk,      (* a value nobody has set                                       *)
  NoParams   (* the parameters of a result that was not filled in            *)

HeaderSize == 4

(* SaveDataMI::SaveDataMI with the hash of the program.                     *)
NewData(objHash) == [hash |-> objHash, params |-> NoParams, runs |-> 0, sums |-> << >>]

(* operator<<: the fields in the order in which they are written.           *)
Fields(d) == <<d.hash, d.params, d.runs, Len(d.sums)>> \o d.sums

(* operator>>: a field the file does not have stays what it was in memory,  *)
(* and nothing asks whether it was there.                                   *)
FieldOr(f, i, default) == IF i <= Len(f) THEN f[i] ELSE default
SameHash(f, mem, objHash) == FieldOr(f, 1, mem) = objHash
Loaded(f, mem) ==
  [hash   |-> FieldOr(f, 1, mem),
   params |-> FieldOr(f, 2, NoParams),
   runs   |-> FieldOr(f, 3, 0),
   sums   |-> [i \in 1 .. FieldOr(f, HeaderSize, 0) |-> FieldOr(f, HeaderSize + i, Junk)]]

(* Nothing is missing from what was read.                                   *)
Complete(f) == Len(f) >= HeaderSize /\ Len(f) >= HeaderSize + f[HeaderSize]

(* assert_integrity.                                                        *)
(* Mutant: the run length is not compared.                                  *)
SameParams(d, params, runLength)  == d.params = params
HasIntegrity(d, params, runLength) == d.params = params /\ Len(d.sums) = runLength

(* operator+=.                                                              *)
Fits(d, other) == d.params = other.params /\ Len(d.sums) = Len(other.sums)

AddSum(a, b) == IF Junk \in {a, b} THEN Junk ELSE a + b
(* Mutant: the sums are added and the runs are not.                         *)
AddSumsOnly(d, other) ==
  [d EXCEPT !.sums = [i \in DOMAIN d.sums |-> AddSum(d.sums[i], other.sums[i])]]
Add(d, other) ==
  [d EXCEPT !.runs = @ + other.runs,
            !.sums = [i \in DOMAIN d.sums |-> AddSum(d.sums[i], other.sums[i])]]
=============================================================================
