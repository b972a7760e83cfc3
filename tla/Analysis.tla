------------------------------ MODULE Analysis ------------------------------
(***************************************************************************)
(* What analyze() (src/verify_mi.cpp) promises, without threads, locks and  *)
(* condition variables: workers complete runs, somebody may stop them, and  *)
(* one result is published that accounts for exactly the completed runs.    *)
(***************************************************************************)
EXTENDS Integers

CONSTANTS
  Worker,        (* the samplers                                             *)
  Position,      (* the positions of the result                              *)
  StartRun(_),   (* runs a worker starts with, those of a loaded file        *)
  Total(_),      (* the sum of a function on Worker                          *)
  RunsPerWorker, (* runs a worker has to make                                *)
  NoResult       (* the result before it is published                        *)

VARIABLES completed, left, stopped, result

vars == <<completed, left, stopped, result>>

Init == /\ completed = [w \in Worker |-> StartRun(w)]
        /\ left = [w \in Worker |-> RunsPerWorker]
        /\ stopped = FALSE
        /\ result = NoResult

CompleteRun(w) ==
  /\ result = NoResult
  /\ left[w] > 0
  /\ completed' = [completed EXCEPT ![w] = @ + 1]
  /\ left' = [left EXCEPT ![w] = @ - 1]
  /\ UNCHANGED <<stopped, result>>

(* A stop leaves each worker the run it is in, if any.                      *)
Stop ==
  /\ ~stopped
  /\ stopped' = TRUE
  /\ left' \in [Worker -> {0, 1}]
  /\ \A w \in Worker : left'[w] <= left[w]
  /\ UNCHANGED <<completed, result>>

(* The report of an analysis may itself find the early stop.                *)
Publish ==
  /\ result = NoResult
  /\ \A w \in Worker : left[w] = 0
  /\ result' = LET N == Total(completed)
               IN  [runs |-> N, sums |-> [p \in Position |-> N]]
  /\ stopped' \in {stopped, TRUE}
  /\ UNCHANGED <<completed, left>>

Next == (\E w \in Worker : CompleteRun(w)) \/ Publish \/ Stop

Spec == Init /\ [][Next]_vars
=============================================================================
