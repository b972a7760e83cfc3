----------------------------- MODULE OptionsMI ------------------------------
(***************************************************************************)
(* The options of a verifier (src/OptionsMI.cpp): sample counts derived     *)
(* from what was given on the command line, the checks on files, and the    *)
(* runs analyze (src/verify_mi.cpp) plans from them.  Numbers are unsigned  *)
(* and wrap at Word.                                                        *)
(***************************************************************************)
EXTENDS Integers

CONSTANTS
  Word,          (* numbers are below: 2^64                                  *)
  ParallelSize,  (* PARALLEL_SIZE: samples in a machine word                 *)
  DefaultHist,   (* DEFAULT_NUM_SAMPLES_FOR_HIST                             *)
  DefaultData,   (* DEFAULT_NUM_DATA                                         *)
  File,          (* file names                                               *)
  None           (* an option that was not given                             *)

(* Numbers, and a command line: the two results an epsilon is turned into,  *)
(* the early-stop flags given, and files.                                   *)
Number == 0 .. Word - 1
Option == Number \cup {None}

ASSUME OptionsAssumption ==
  /\ Word \in Nat \ {0} /\ ParallelSize \in 1 .. Word - 1
  /\ DefaultHist \in Number \ {0} /\ DefaultHist % ParallelSize = 0
  /\ DefaultData \in Number /\ DefaultData * (2 * DefaultHist) \in Number
  /\ None \notin Number \cup File

Request ==
  [cycles : Number, f_given_d : Option, f_given_ds : Option, secrets : Option,
   data : Option, samples : Option, threads : Option,
   epsilon : {None} \cup [hist : {n \in Number : n > 0 /\ n % ParallelSize = 0}, data : Number],
   early : SUBSET BOOLEAN,
   load : File \cup {None}, store : File \cup {None}, report : File \cup {None}]

Wrap(n) == n % Word
Given(option, default) == IF option = None THEN default ELSE option
CeilDiv(n, m) == (n \div m) + (IF n % m = 0 THEN 0 ELSE 1)

(* Mutant: a count that is rounded gets one word too few.                   *)
RoundDown(n) == n - (n % ParallelSize)
RoundUp(n)   == IF n % ParallelSize = 0 THEN n ELSE Wrap(n - (n % ParallelSize) + ParallelSize)

Factor(fd, s, fds) == Wrap(fd + Wrap(s * fds))

-----------------------------------------------------------------------------
(* Sample counts, as a record with ok FALSE when they are refused.          *)

Refused == [ok |-> FALSE]
Counts(fd, fds, s, d, n) ==
  [ok |-> TRUE, f_given_d |-> fd, f_given_ds |-> fds, secrets |-> s, data |-> d, samples |-> n]

FromEpsilon(e) ==
  Counts(e.hist, e.hist, 1, e.data, Wrap(e.data * Factor(e.hist, 1, e.hist)))

(* factor is computed from the counts as given, not as rounded.             *)
FromCounts(q) ==
  LET fd   == Given(q.f_given_d, DefaultHist)
      fds  == Given(q.f_given_ds, DefaultHist)
      s    == Given(q.secrets, 1)
      factor == Factor(fd, s, fds)
      data == IF q.data = None /\ q.samples # None THEN CeilDiv(q.samples, factor)
              ELSE Given(q.data, DefaultData)
      samples == IF q.samples = None /\ q.data # None THEN Wrap(q.data * factor)
                 ELSE Given(q.samples, DefaultData * (2 * DefaultHist))
  IN  IF \/ 0 \in {fd, fds, s, factor}
         \/ q.data # None /\ q.samples # None /\ q.samples # Wrap(q.data * factor)
         \/ 0 \in {samples, data}
      THEN Refused
      ELSE Counts(RoundUp(fd), RoundUp(fds), s, data, samples)

Derive(q) == IF q.epsilon # None THEN FromEpsilon(q.epsilon) ELSE FromCounts(q)

OptionsFail(q) == q.early = BOOLEAN \/ ~Derive(q).ok \/ q.threads = 0

-----------------------------------------------------------------------------
(* Files, when those in there exist.                                        *)

LoadFile(q, there) == IF q.load \in there THEN q.load ELSE None

FilesFail(q, there) ==
  \/ q.store \in there /\ q.store # LoadFile(q, there)
  \/ q.report # None /\ q.report \in {LoadFile(q, there), q.store}

-----------------------------------------------------------------------------
(* The plan of analyze for accepted counts c.                               *)

NumThreads(q)          == Given(q.threads, 1)
SamplesPerData(c)      == Factor(c.f_given_d, c.secrets, c.f_given_ds)
SamplesAtOnce(c, t)    == Wrap(SamplesPerData(c) * t)
(* Mutant: what is left after the last whole round is not sampled.          *)
RunsPerThreadDown(c, t) == c.samples \div SamplesAtOnce(c, t)
RunsPerThread(c, t)     == CeilDiv(c.samples, SamplesAtOnce(c, t))
=============================================================================
