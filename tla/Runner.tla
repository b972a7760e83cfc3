------------------------------- MODULE Runner -------------------------------
(***************************************************************************)
(* Concrete simulation: the functions the simulator generates               *)
(* (src/Simulator.cpp:305-524) and the order SamplerMI::run_once calls them *)
(* in (src/verify_mi.cpp:137-197), on one storage of RUN_LENGTH words.      *)
(*                                                                          *)
(* A word is not a value here but whether it is current: an input slot is   *)
(* when it was filled, a computed slot when its statement ran after the     *)
(* slots it reads became current.  What makes an input new makes what was   *)
(* computed from it out of date.                                            *)
(***************************************************************************)
EXTENDS Simulator

CONSTANTS
  Cycles,   (* the values of --cycles                                        *)
  Samples,  (* samples of both loops, in words                               *)
  Secrets,  (* opts->num_secrets                                             *)
  WordBits  (* bits of a random word                                         *)

ASSUME RunnerAssumption ==
  /\ Cycles \subseteq Nat
  /\ Samples \in Nat \ {0} /\ Secrets \in Nat \ {0} /\ WordBits \in Nat \ {0, 1}

VARIABLES
  cycles,  (* the argument of run_once                                       *)
  pc,      (* the next call of run_once                                      *)
  sample,  (* samples taken by the running loop                              *)
  secret,  (* secret_num                                                     *)
  current, (* the slots of run_data1 that are current                        *)
  count,   (* value_count, in samples                                        *)
  fixed,   (* history: slots that hold what fix_random_* put there           *)
  drawn,   (* history: the random bit every fixed slot was filled from       *)
  stale    (* history: slots counted when they were not current, per loop    *)

runVars == <<cycles, pc, sample, secret, current, count, fixed, drawn, stale>>

-----------------------------------------------------------------------------
(* Generated functions.                                                     *)

Slots == 0 .. RunLength - 1
Computed == Written(gen.code)
ReadFor(p) ==
  UNION {UNION {st.reads : st \in {st \in Range(gen.code[c]) : st.slot = p}} : c \in DOMAIN gen.code}

(* The slots computed from those in S, and S.                               *)
Affected(S) ==
  LET hit[p \in Slots] ==
        p \in S \/ (p \in Computed /\ \E q \in ReadFor(p) : q < p /\ hit[q])
  IN  {p \in Slots : hit[p]}

(* The ranges a function of the kind visits before it returns.              *)
Visited(name) ==
  {k \in DOMAIN ranges[name] : \A j \in 1 .. k : cycles >= ranges[name][j].tag}
Filled(name) == UNION {ranges[name][k].lo .. ranges[name][k].hi : k \in Visited(name)}

(* Words S of the storage are overwritten with random ones.                 *)
Fill(S) == current' = (current \ Affected(S)) \cup (S \cap (Slots \ Computed))

(* A statement of run_circuit_cycle_k, and all of them.                     *)
Execute(now, st) == IF st.reads \subseteq now THEN now \cup {st.slot} ELSE now \ {st.slot}
RunCycle(now, k) == FoldLeft(Execute, now, gen.code[k + 1])

MinOf(a, b) == IF a < b THEN a ELSE b

(* Mutant: the bound of the loop over the cycles is off by another one.     *)
CalledOneLess == MinOf(cycles, Len(trace) - 3)

(* run_circuit calls the cycles up to this one.                             *)
Called == MinOf(cycles, Len(trace) - 2)

RunCycles(now, n) == FoldLeft(RunCycle, now, [k \in 1 .. n |-> k - 1])

(* The cycles that count_run and run_and_count_circuit visit: those before  *)
(* the one whose tag minus one is the argument.                             *)
VisitedCycles == {n \in DOMAIN cycleEmits : \A j \in 1 .. n : cycles # cycleEmits[j].tag - 1}

(* Mutant: start stays 0.                                                   *)
FromStart(n) == 0

StartOf(n) == IF n = 1 THEN 0 ELSE cycleEmits[n - 1].end
CycleSlots(n) == StartOf(n) .. cycleEmits[n].end - 1

Counted == [p \in Slots |-> count[p] + Cardinality({n \in VisitedCycles : p \in CycleSlots(n)})]
CountedSlots == UNION {CycleSlots(n) : n \in VisitedCycles}

(* fix_random_*: the bit every slot is filled from.  rand_pos is compared   *)
(* with zero, and nothing lowers it.                                        *)
Bits(S) == [p \in S |-> [word |-> 1, pos |-> WordBits - 1]]

-----------------------------------------------------------------------------
(* run_once.                                                                *)

RunInit ==
  /\ Init
  /\ cycles \in Cycles
  /\ pc = "fix_random_data" /\ sample = 0 /\ secret = 0
  /\ current = {} /\ count = << >> /\ fixed = {} /\ drawn = << >>
  /\ stale = [loop \in {"d", "ds"} |-> {}]

At(call) == phase = "generated" /\ pc = call /\ UNCHANGED <<simVars, cycles>>

(* value_count is zeroed before each loop.                                  *)
ZeroCount == count' = [p \in Slots |-> 0]

FixRandomData ==
  /\ At("fix_random_data")
  /\ Fill(Filled("data"))
  /\ fixed' = Filled("data") /\ drawn' = Bits(Filled("data"))
  /\ ZeroCount
  /\ pc' = "randomize_secrets"
  /\ UNCHANGED <<sample, secret, stale>>

RandomizeSecrets ==
  /\ At("randomize_secrets")
  /\ Fill(Filled("secret"))
  /\ fixed' = fixed \ Filled("secret")
  /\ pc' = "randomize_masks"
  /\ UNCHANGED <<sample, secret, count, drawn, stale>>

RandomizeMasks ==
  /\ At("randomize_masks")
  /\ Fill(Filled("mask"))
  /\ fixed' = fixed \ Filled("mask")
  /\ pc' = "run_circuit"
  /\ UNCHANGED <<sample, secret, count, drawn, stale>>

RunCircuit ==
  /\ At("run_circuit")
  /\ current' = RunCycles(current, Called)
  /\ pc' = "count_run"
  /\ UNCHANGED <<sample, secret, count, fixed, drawn, stale>>

CountRun ==
  /\ At("count_run")
  /\ count' = Counted
  /\ stale' = [stale EXCEPT !["d"] = @ \cup (CountedSlots \ current)]
  /\ sample' = sample + 1
  /\ pc' = IF sample' = Samples THEN "fix_random_secrets" ELSE "randomize_secrets"
  /\ UNCHANGED <<secret, current, fixed, drawn>>

(* The lookup of the entropies uses value_count up to here.                 *)
FixRandomSecrets ==
  /\ At("fix_random_secrets")
  /\ Fill(Filled("secret"))
  /\ fixed' = fixed \cup Filled("secret")
  /\ drawn' = [p \in DOMAIN drawn \cup Filled("secret") |->
               IF p \in Filled("secret") THEN Bits(Filled("secret"))[p] ELSE drawn[p]]
  /\ ZeroCount
  /\ sample' = 0
  /\ pc' = "randomize_masks_given_s"
  /\ UNCHANGED <<secret, stale>>

RandomizeMasksGivenSecrets ==
  /\ At("randomize_masks_given_s")
  /\ Fill(Filled("mask"))
  /\ fixed' = fixed \ Filled("mask")
  /\ pc' = "run_and_count_circuit"
  /\ UNCHANGED <<sample, secret, count, drawn, stale>>

(* Every visited cycle is run and then counted.                             *)
RunAndCountCircuit ==
  /\ At("run_and_count_circuit")
  /\ current' = RunCycles(current, Cardinality(VisitedCycles))
  /\ count' = Counted
  /\ stale' = [stale EXCEPT !["ds"] = @ \cup (CountedSlots \ current')]
  /\ sample' = sample + 1
  /\ IF sample' < Samples
     THEN pc' = "randomize_masks_given_s" /\ UNCHANGED secret
     ELSE /\ secret' = secret + 1
          /\ pc' = IF secret' = Secrets THEN "done" ELSE "fix_random_secrets"
  /\ UNCHANGED <<fixed, drawn>>

RunOnce ==
  \/ FixRandomData \/ RandomizeSecrets \/ RandomizeMasks \/ RunCircuit \/ CountRun
  \/ FixRandomSecrets \/ RandomizeMasksGivenSecrets \/ RunAndCountCircuit

Generate == Simulate /\ UNCHANGED runVars

RunNext == Generate \/ RunOnce

RunSpec == RunInit /\ [][RunNext]_<<simVars, runVars>>

-----------------------------------------------------------------------------
(* Properties.                                                              *)

(* In the loop over fixed secrets, every wire that is counted was computed  *)
(* from the inputs of the sample, for every number of cycles; so it is in   *)
(* the loop over random secrets, as long as the verifier stops before the   *)
(* last cycle of the testbench.                                             *)
CountedIsCurrent ==
  /\ stale["ds"] = {}
  /\ cycles < Len(cycleEmits) => stale["d"] = {}

(* ... and what the comment over the loop says, for every number of cycles. *)
CurrentGivenData == stale["d"] = {}

(* Data stays what fix_random_data made it until the run is over, and       *)
(* secrets what they were fixed to while masks are sampled for H(F|D=d,S=s) *)
(* (verify_mi.cpp:171).                                                     *)
FixedStays ==
  /\ pc # "fix_random_data" => Filled("data") \subseteq fixed
  /\ pc \in {"randomize_masks_given_s", "run_and_count_circuit", "done"} =>
       Filled("secret") \subseteq fixed

(* value_count indexes a table of one entry more than there are samples: no *)
(* wire is counted twice in a sample, and none that is visited is left out. *)
CountedOncePerSample ==
  pc # "fix_random_data" =>
    \A p \in DOMAIN count : count[p] = IF p \in CountedSlots THEN sample ELSE 0

(* The bits of a fixed data value are independent.                          *)
OwnBits == \A p, q \in DOMAIN drawn \cap Filled("data") : p # q => drawn[p] # drawn[q]
-----------------------------------------------------------------------------
(* The inductive invariant.                                                 *)

(* The slots of a cycle are those that were given out until it was stepped. *)
CyclesOrdered ==
  /\ \A j \in DOMAIN cycleEmits : cycleEmits[j].tag = j /\ cycleEmits[j].end <= gen.m.numEmitted
  /\ \A i, j \in DOMAIN cycleEmits : i <= j => cycleEmits[i].end <= cycleEmits[j].end
  /\ \A c \in DOMAIN gen.code : \A n \in DOMAIN gen.code[c] : \A j \in DOMAIN cycleEmits :
       gen.code[c][n].slot < cycleEmits[j].end <=> c <= j

(* Ranges are in the order of their tags, and no range has slots of a cycle *)
(* before the one it is tagged with: who stops early has filled them.       *)
RangesOrdered ==
  \A name \in DOMAIN ranges : \A k \in DOMAIN ranges[name] :
    /\ ranges[name][k].tag < Len(trace)
    /\ \A i \in 1 .. k : ranges[name][i].tag <= ranges[name][k].tag
    /\ \A p \in ranges[name][k].lo .. ranges[name][k].hi : \A j \in DOMAIN cycleEmits :
         p < cycleEmits[j].end => ranges[name][k].tag <= j

(* The inputs of the sample are filled before the circuit is run, and stay  *)
(* as they are while it is.                                                 *)
Inputs(name) == Filled(name) \cap Slots
InputsCurrent ==
  /\ pc # "fix_random_data" => Inputs("data") \subseteq current
  /\ pc \notin {"fix_random_data", "randomize_secrets", "fix_random_secrets"} =>
       Inputs("secret") \subseteq current
  /\ pc \in {"run_circuit", "count_run", "run_and_count_circuit"} => Inputs("mask") \subseteq current
  /\ pc = "count_run" /\ cycles < Len(cycleEmits) => CountedSlots \subseteq current

OrderRight ==
  /\ pc # "fix_random_data" => phase = "generated" /\ DOMAIN count = Slots
  /\ pc \in {"fix_random_data", "randomize_secrets", "randomize_masks", "run_circuit", "count_run",
             "fix_random_secrets", "randomize_masks_given_s", "run_and_count_circuit", "done"}
  /\ pc = "fix_random_data" => sample = 0 /\ stale["d"] = {} /\ stale["ds"] = {}
  /\ DOMAIN stale = {"d", "ds"}
  /\ cycles \in Nat /\ sample \in Nat

RunIInv ==
  /\ IInv /\ CyclesOrdered /\ OrderRight /\ CountedOncePerSample
  /\ 1 \notin ShareCounts => RangesOrdered
  /\ ~Retries /\ 1 \notin ShareCounts =>
       InputsCurrent /\ FixedStays /\ CountedIsCurrent
=============================================================================
