---------------------------- MODULE SamplerPool ----------------------------
(***************************************************************************)
(* The sampling phase of the verifier (src/verify_mi.cpp): analyze() spawns *)
(* a pool of SamplerMI threads, waits for them on a condition variable,     *)
(* prints interim reports while they work, joins them and stores the        *)
(* result.                                                                  *)
(*                                                                          *)
(* What a run adds to a position is one summand; sumOf[t][p] counts the     *)
(* summands of sumof_mi_f_s_given_d[p] of sampler t.  The value of a        *)
(* summand (an entropy difference) is abstracted: the reports only ask      *)
(* whether a mean is substantial, which is the constant operator            *)
(* Substantial.                                                             *)
(***************************************************************************)
EXTENDS Integers, FiniteSets, Functions

CONSTANTS
  NumThreads,      (* opts->num_threads                                      *)
  RunLength,       (* RUN_LENGTH, the number of emitted positions            *)
  RunsPerThread,   (* num_runs_per_thread                                    *)
  LoadedRuns,      (* save_data->num_runs, 0 without a loaded file           *)
  PrintInterval,   (* opts->print_interval, in seconds                       *)
  PrintBest,       (* opts->print_best                                       *)
  Timeout,         (* opts->timeout, in seconds                              *)
  EarlyStop,       (* opts->early_stop                                       *)
  Storing,         (* a store file was given                                 *)
  UnmaskedSecrets, (* positions whose debug info names an unmasked secret    *)
  Substantial(_, _, _) (* mi / n > 10 * down_sub(N), for mi summands         *)

ASSUME SamplerPoolAssumption ==
  /\ NumThreads \in Nat \ {0}
  /\ RunLength \in Nat
  /\ RunsPerThread \in Nat
  /\ LoadedRuns \in Nat
  /\ PrintInterval \in Nat
  /\ PrintBest \in Nat
  /\ Timeout \in Nat
  /\ EarlyStop \in BOOLEAN
  /\ Storing \in BOOLEAN
  /\ UnmaskedSecrets \subseteq Nat

Thread   == 0 .. NumThreads - 1
Position == 0 .. RunLength - 1

VARIABLES
  notStopped,   (* not_stopped                                               *)
  alarmPending, (* alarm(timeout) has been armed and has not fired           *)
  stopCause,    (* history: what cleared not_stopped first                   *)
  runsAtStop,   (* history: run_id of every sampler at that moment           *)
  threadAt,     (* control point of every sampler thread                     *)
  addPos,       (* run_pos of the accumulation loop of run_once              *)
  runId,        (* run_id                                                    *)
  endId,        (* end_id, a local of run_many                               *)
  sumOf,        (* summands in sumof_mi_f_s_given_d                          *)
  samplersDone, (* samplers_done                                             *)
  mutexHeld,    (* the main thread holds SamplerMI::mutex between two steps  *)
  mainAt,       (* control point of the main thread                          *)
  spawned,      (* number of threads constructed                             *)
  scan,         (* locals of show_suspicious                                 *)
  store,        (* what write_save put into the store file                   *)
  report        (* what the final show_suspicious printed                    *)

stopVars    == <<notStopped, alarmPending, stopCause, runsAtStop>>
samplerVars == <<threadAt, addPos, runId, endId, sumOf, samplersDone>>
mainVars    == <<mutexHeld, mainAt, spawned, scan, store, report>>
vars        == <<stopVars, samplerVars, mainVars>>

ThreadPoint == {"unborn", "entry", "test", "add", "done", "notify", "exited"}
MainPoint   == {"spawn", "loop", "waiting", "woken", "timedout", "decide",
                "tally", "sums", "runs", "verdict",
                "join", "save", "final", "finished"}
Cause       == {"none", "signal", "alarm", "early"}
Nothing     == [runs |-> -1, sums |-> [p \in Position |-> 0]]

Zero == [t \in Thread |-> 0]

(* The locals of one show_suspicious: the samplers read so far (upto), the  *)
(* position being read (pos), the addends of N (n0), of mi (mi) and of the  *)
(* inner N (n), one per sampler, and whether max_mi is substantial (exceeds).*)
Scan == [upto : Thread, pos : 0 .. RunLength, n0 : [Thread -> Nat],
         mi : [Thread -> Nat], n : [Thread -> Nat], exceeds : BOOLEAN]
FreshScan == [upto |-> 0, pos |-> 0, n0 |-> Zero, mi |-> Zero, n |-> Zero,
              exceeds |-> FALSE]

(* run_id of a new sampler; the loaded results go to samplers[0].           *)
StartRun(t) == IF t = 0 THEN LoadedRuns ELSE 0

Init ==
  /\ notStopped = TRUE
  /\ alarmPending = (Timeout # 0)
  /\ stopCause = "none"
  /\ runsAtStop = Zero
  /\ threadAt = [t \in Thread |-> "unborn"]
  /\ addPos = Zero
  /\ runId = [t \in Thread |-> StartRun(t)]
  /\ endId = Zero
  /\ sumOf = [t \in Thread |-> [p \in Position |-> StartRun(t)]]
  /\ samplersDone = 0
  /\ mutexHeld = FALSE
  /\ mainAt = "spawn"
  /\ spawned = 0
  /\ scan = FreshScan
  /\ store = Nothing
  /\ report = Nothing

-----------------------------------------------------------------------------
(* Stopping: interupt_handler, reached from a signal, from the alarm or     *)
(* from show_suspicious.                                                    *)

interupt_handler(cause) ==
  /\ notStopped' = FALSE
  /\ stopCause' = IF notStopped THEN cause ELSE stopCause
  /\ runsAtStop' = IF notStopped THEN runId ELSE runsAtStop

Interrupt ==
  /\ notStopped
  /\ mainAt # "finished"
  /\ interupt_handler("signal")
  /\ UNCHANGED <<alarmPending, samplerVars, mainVars>>

Alarm ==
  /\ alarmPending
  /\ mainAt # "finished"
  /\ alarmPending' = FALSE
  /\ interupt_handler("alarm")
  /\ UNCHANGED <<samplerVars, mainVars>>

-----------------------------------------------------------------------------
(* A sampler thread: run_many around run_once.                              *)

Goto(t, point) == threadAt' = [threadAt EXCEPT ![t] = point]

(* Mutant: one run too many.                                                *)
EnterOneMore(t) ==
  /\ threadAt[t] = "entry"
  /\ endId' = [endId EXCEPT ![t] = runId[t] + RunsPerThread + 1]
  /\ Goto(t, "test")
  /\ UNCHANGED <<addPos, runId, sumOf, samplersDone, stopVars, mainVars>>

Enter(t) ==
  /\ threadAt[t] = "entry"
  /\ endId' = [endId EXCEPT ![t] = runId[t] + RunsPerThread]
  /\ Goto(t, "test")
  /\ UNCHANGED <<addPos, runId, sumOf, samplersDone, stopVars, mainVars>>

(* Mutant: the loop condition forgets not_stopped.                          *)
TestDeaf(t) ==
  /\ threadAt[t] = "test"
  /\ IF runId[t] # endId[t] THEN addPos' = [addPos EXCEPT ![t] = 0] /\ Goto(t, "add")
                            ELSE UNCHANGED addPos /\ Goto(t, "done")
  /\ UNCHANGED <<runId, endId, sumOf, samplersDone, stopVars, mainVars>>

(* The loop condition; the sampling of run_once touches only the sampler's  *)
(* own buffers and belongs to this step.                                    *)
Test(t) ==
  /\ threadAt[t] = "test"
  /\ \/ /\ notStopped /\ runId[t] # endId[t]
        /\ addPos' = [addPos EXCEPT ![t] = 0]
        /\ Goto(t, "add")
     \/ /\ ~notStopped \/ runId[t] = endId[t]
        /\ Goto(t, "done")
        /\ UNCHANGED addPos
  /\ UNCHANGED <<runId, endId, sumOf, samplersDone, stopVars, mainVars>>

(* Mutant: a stop leaves the accumulation loop at once.                     *)
AddAborts(t) ==
  /\ threadAt[t] = "add"
  /\ addPos[t] < RunLength
  /\ IF notStopped
       THEN /\ sumOf'  = [sumOf EXCEPT ![t][addPos[t]] = @ + 1]
            /\ addPos' = [addPos EXCEPT ![t] = @ + 1]
            /\ UNCHANGED threadAt
       ELSE Goto(t, "done") /\ UNCHANGED <<sumOf, addPos>>
  /\ UNCHANGED <<runId, endId, samplersDone, stopVars, mainVars>>

(* One iteration of the accumulation loop: the reporter may read in between.*)
Add(t) ==
  /\ threadAt[t] = "add"
  /\ addPos[t] < RunLength
  /\ sumOf'  = [sumOf EXCEPT ![t][addPos[t]] = @ + 1]
  /\ addPos' = [addPos EXCEPT ![t] = @ + 1]
  /\ UNCHANGED <<threadAt, runId, endId, samplersDone, stopVars, mainVars>>

(* Mutant: run_pos is not reset, it stays behind the last position.         *)
CountAdvances(t) ==
  /\ threadAt[t] = "add"
  /\ addPos[t] = RunLength
  /\ runId' = [runId EXCEPT ![t] = @ + 1]
  /\ addPos' = [addPos EXCEPT ![t] = @ + 1]
  /\ Goto(t, "test")
  /\ UNCHANGED <<endId, sumOf, samplersDone, stopVars, mainVars>>

Count(t) ==
  /\ threadAt[t] = "add"
  /\ addPos[t] = RunLength
  /\ runId' = [runId EXCEPT ![t] = @ + 1]
  /\ Goto(t, "test")
  /\ UNCHANGED <<addPos, endId, sumOf, samplersDone, stopVars, mainVars>>

(* Mutant: a sampler that was stopped early does not report itself done.    *)
FinishIfComplete(t) ==
  /\ threadAt[t] = "done"
  /\ ~mutexHeld
  /\ samplersDone' = IF runId[t] = endId[t] THEN samplersDone + 1 ELSE samplersDone
  /\ Goto(t, "notify")
  /\ UNCHANGED <<addPos, runId, endId, sumOf, stopVars, mainVars>>

(* Lock, increment and unlock: nothing else happens under this lock.        *)
Finish(t) ==
  /\ threadAt[t] = "done"
  /\ ~mutexHeld
  /\ samplersDone' = samplersDone + 1
  /\ Goto(t, "notify")
  /\ UNCHANGED <<addPos, runId, endId, sumOf, stopVars, mainVars>>

(* notify_one wakes the main thread only if it is waiting: a notification   *)
(* that finds nobody is lost.                                               *)
Notify(t) ==
  /\ threadAt[t] = "notify"
  /\ Goto(t, "exited")
  /\ mainAt' = IF mainAt = "waiting" THEN "woken" ELSE mainAt
  /\ UNCHANGED <<addPos, runId, endId, sumOf, samplersDone, stopVars,
                 mutexHeld, spawned, scan, store, report>>

Sampler(t) == Enter(t) \/ Test(t) \/ Add(t) \/ Count(t) \/ Finish(t) \/ Notify(t)

-----------------------------------------------------------------------------
(* The main thread: analyze and the show_suspicious it calls.               *)

(* Mutant: satisfied by the first sampler that finishes.                    *)
IsDoneFirst == samplersDone # 0

IsDone == samplersDone = NumThreads

MainGoto(point, holding) == mainAt' = point /\ mutexHeld' = holding

Spawn ==
  /\ mainAt = "spawn"
  /\ Goto(spawned, "entry")
  /\ spawned' = spawned + 1
  /\ MainGoto(IF spawned + 1 = NumThreads THEN "loop" ELSE "spawn", FALSE)
  /\ UNCHANGED <<addPos, runId, endId, sumOf, samplersDone, stopVars,
                 scan, store, report>>

(* Take the lock and wait.  wait_for looks at is_done before it sleeps; the *)
(* wait of a zero interval has no predicate and always sleeps.              *)
Wait ==
  /\ mainAt = "loop"
  /\ IF PrintInterval # 0 /\ IsDone THEN MainGoto("decide", TRUE)
                                    ELSE MainGoto("waiting", FALSE)
  /\ UNCHANGED <<samplerVars, stopVars, spawned, scan, store, report>>

TimeUp ==
  /\ mainAt = "waiting"
  /\ PrintInterval # 0
  /\ MainGoto("timedout", FALSE)
  /\ UNCHANGED <<samplerVars, stopVars, spawned, scan, store, report>>

(* A condition variable may wake its waiter without any notification.       *)
SpuriousWake ==
  /\ mainAt = "waiting"
  /\ MainGoto("woken", FALSE)
  /\ UNCHANGED <<samplerVars, stopVars, spawned, scan, store, report>>

Reacquire ==
  /\ mainAt \in {"woken", "timedout"}
  /\ IF mainAt = "woken" /\ PrintInterval # 0 /\ ~IsDone
       THEN MainGoto("waiting", FALSE)
       ELSE MainGoto("decide", TRUE)
  /\ UNCHANGED <<samplerVars, stopVars, spawned, scan, store, report>>

(* Mutant: the waiting loop is also left on a stop.                         *)
DecideOnStop ==
  /\ mainAt = "decide"
  /\ IF IsDone \/ ~notStopped THEN MainGoto("join", FALSE)
     ELSE IF PrintBest = 0 THEN MainGoto("loop", FALSE)
     ELSE MainGoto("tally", TRUE)
  /\ UNCHANGED <<samplerVars, stopVars, spawned, scan, store, report>>

(* The break, or the call of show_suspicious with its early return.         *)
Decide ==
  /\ mainAt = "decide"
  /\ IF IsDone THEN MainGoto("join", FALSE)
     ELSE IF PrintBest = 0 THEN MainGoto("loop", FALSE)
     ELSE MainGoto("tally", TRUE)
  /\ UNCHANGED <<samplerVars, stopVars, spawned, scan, store, report>>

(* N += s.run_id, one sampler at a time.                                    *)
Tally ==
  /\ mainAt = "tally"
  /\ LET last == scan.upto + 1 = NumThreads
     IN  /\ scan' = [scan EXCEPT !.n0[scan.upto] = runId[scan.upto],
                                 !.upto = IF last THEN 0 ELSE @ + 1]
         /\ MainGoto(IF ~last THEN "tally"
                     ELSE IF RunLength = 0 THEN "verdict" ELSE "sums", TRUE)
  /\ UNCHANGED <<samplerVars, stopVars, spawned, store, report>>

ReadSum ==
  /\ mainAt = "sums"
  /\ scan' = [scan EXCEPT !.mi[scan.upto] = sumOf[scan.upto][scan.pos]]
  /\ MainGoto("runs", TRUE)
  /\ UNCHANGED <<samplerVars, stopVars, spawned, store, report>>

(* Whether position p with sum mi over n runs makes max_mi substantial; the *)
(* threshold is infinite for N = 0.                                         *)
Exceeds(p, mi, n, N) ==
  /\ p \notin UnmaskedSecrets
  /\ N > 0
  /\ Substantial(mi, n, N)

(* Mutant: the inner N is taken from the outer one.                         *)
ReadRunsHoisted ==
  /\ mainAt = "runs"
  /\ LET n    == [scan.n EXCEPT ![scan.upto] = scan.n0[scan.upto]]
         next == scan.pos + 1
     IN  IF scan.upto + 1 < NumThreads
         THEN /\ scan' = [scan EXCEPT !.n = n, !.upto = @ + 1]
              /\ MainGoto("sums", TRUE)
         ELSE /\ scan' = [scan EXCEPT !.pos = next, !.upto = 0, !.mi = Zero, !.n = Zero]
              /\ MainGoto(IF next = RunLength THEN "verdict" ELSE "sums", TRUE)
  /\ UNCHANGED <<samplerVars, stopVars, spawned, store, report>>

(* N += s.run_id of the inner loop; after the last sampler, the position.   *)
ReadRuns ==
  /\ mainAt = "runs"
  /\ LET n    == [scan.n EXCEPT ![scan.upto] = runId[scan.upto]]
         next == scan.pos + 1
     IN  IF scan.upto + 1 < NumThreads
         THEN /\ scan' = [scan EXCEPT !.n = n, !.upto = @ + 1]
              /\ MainGoto("sums", TRUE)
         ELSE /\ scan' = [scan EXCEPT
                   !.exceeds = @ \/ Exceeds(scan.pos, SumFunction(scan.mi),
                                            SumFunction(n), SumFunction(scan.n0)),
                   !.pos = next, !.upto = 0, !.mi = Zero, !.n = Zero]
              /\ MainGoto(IF next = RunLength THEN "verdict" ELSE "sums", TRUE)
  /\ UNCHANGED <<samplerVars, stopVars, spawned, store, report>>

(* The end of an interim report; the lock goes with the loop body.          *)
Verdict ==
  /\ mainAt = "verdict"
  /\ IF EarlyStop /\ scan.exceeds
       THEN interupt_handler("early") /\ UNCHANGED alarmPending
       ELSE UNCHANGED stopVars
  /\ scan' = FreshScan
  /\ MainGoto("loop", FALSE)
  /\ UNCHANGED <<samplerVars, spawned, store, report>>

Join ==
  /\ mainAt = "join"
  /\ \A t \in Thread : threadAt[t] = "exited"
  /\ MainGoto("save", FALSE)
  /\ UNCHANGED <<samplerVars, stopVars, spawned, scan, store, report>>

Collected == [runs |-> SumFunction(runId),
              sums |-> [p \in Position |-> SumFunction([t \in Thread |-> sumOf[t][p]])]]

WriteSave ==
  /\ mainAt = "save"
  /\ store' = IF Storing THEN Collected ELSE store
  /\ MainGoto("final", FALSE)
  /\ UNCHANGED <<samplerVars, stopVars, spawned, scan, report>>

(* show_suspicious(-1): the same verdict, from values nobody changes now.   *)
FinalReport ==
  /\ mainAt = "final"
  /\ report' = Collected
  /\ LET N == SumFunction(runId)
     IN  IF EarlyStop /\ \E p \in Position : Exceeds(p, Collected.sums[p], N, N)
           THEN interupt_handler("early") /\ UNCHANGED alarmPending
           ELSE UNCHANGED stopVars
  /\ MainGoto("finished", FALSE)
  /\ UNCHANGED <<samplerVars, spawned, scan, store>>

MainStep == \/ Spawn \/ Wait \/ TimeUp \/ Reacquire \/ Decide
            \/ Tally \/ ReadSum \/ ReadRuns \/ Verdict
            \/ Join \/ WriteSave \/ FinalReport

Terminated == mainAt = "finished" /\ UNCHANGED vars

Next == \/ \E t \in Thread : Sampler(t)
        \/ MainStep \/ SpuriousWake
        \/ Interrupt \/ Alarm
        \/ Terminated

(* The scheduler runs every thread that can run; the lock is free for the   *)
(* whole print interval, so a sampler that wants it gets it; a timer fires. *)
Fairness == /\ \A t \in Thread : WF_vars(Sampler(t)) /\ SF_vars(Finish(t))
            /\ WF_vars(MainStep)
            /\ WF_vars(Alarm)

Spec     == Init /\ [][Next]_vars
FairSpec == Spec /\ Fairness

-----------------------------------------------------------------------------
(* Properties.                                                              *)

(* The values the variables of the pool can take; ExactResult says all      *)
(* there is to say of store and report.                                     *)
TypeOK ==
  /\ notStopped \in BOOLEAN
  /\ alarmPending \in BOOLEAN
  /\ stopCause \in Cause
  /\ runsAtStop \in [Thread -> Nat]
  /\ threadAt \in [Thread -> ThreadPoint]
  /\ addPos \in [Thread -> 0 .. RunLength]
  /\ runId \in [Thread -> Nat]
  /\ endId \in [Thread -> Nat]
  /\ sumOf \in [Thread -> [Position -> Nat]]
  /\ samplersDone \in Nat
  /\ mutexHeld \in BOOLEAN
  /\ mainAt \in MainPoint
  /\ spawned \in 0 .. NumThreads
  /\ scan \in Scan

(* samplers_done counts the samplers that will not sample any more, so      *)
(* is_done() (verify_mi.cpp:443) never holds while one of them still works. *)
DoneMeansIdle ==
  IsDone => \A t \in Thread : threadAt[t] \in {"notify", "exited"}

(* Once the waiting loop has been left, before the joins, no result of any  *)
(* sampler changes: what is stored and what is reported are the same runs.  *)
QuietAfterBreak ==
  [][(mainAt \in {"join", "save", "final", "finished"})
       => UNCHANGED <<runId, sumOf>>]_vars

(* Interim reports read the sums and the run counts of running samplers     *)
(* without synchronisation.  However the reads fall, a sampler contributes  *)
(* at most one summand more than the runs counted for it, and the threshold *)
(* (from n0) is not computed from more runs than the mean (from n).         *)
OvercountAtMostOne ==
  mainAt \in {"sums", "runs"} =>
    \A t \in Thread : t < scan.upto => /\ scan.mi[t] <= scan.n[t] + 1
                                       /\ scan.n0[t] <= scan.n[t]

(* After a stop (signal, timeout or early stop) each sampler completes at   *)
(* most the run it is in.                                                   *)
StopLatency ==
  ~notStopped => \A t \in Thread : runId[t] <= runsAtStop[t] + 1

(* What is stored and reported at the end counts exactly the runs, at every *)
(* position: stopping never leaves half a run behind, loaded results are    *)
(* included once.                                                           *)
ExactResult ==
  \A r \in {store, report} :
    r # Nothing => /\ r.runs = SumFunction(runId)
                   /\ \A p \in Position : r.sums[p] = r.runs

-----------------------------------------------------------------------------
(* The inductive invariant that these properties follow from.               *)

(* Where the main thread can be while it spawns and scans.                  *)
MainBounds ==
  /\ mainAt = "spawn" <=> spawned < NumThreads
  /\ mainAt \in {"sums", "runs"} => scan.pos \in Position
  /\ mainAt \notin {"sums", "runs", "verdict"} => scan.pos = 0
  /\ mainAt \notin {"tally", "sums", "runs"} => scan.upto = 0

(* A sampler's sums are ahead of its run count only inside the accumulation *)
(* loop, at the positions the loop has passed.                              *)
InLoop(t)  == IF threadAt[t] = "add" THEN 1 ELSE 0
Accounting ==
  \A t \in Thread, p \in Position :
    sumOf[t][p] = runId[t] + IF p < addPos[t] THEN InLoop(t) ELSE 0

DoneThreads == {t \in Thread : threadAt[t] \in {"notify", "exited"}}
DoneCount   == samplersDone = Cardinality(DoneThreads)

Births == \A t \in Thread : threadAt[t] = "unborn" <=> t >= spawned

AfterBreak ==
  /\ mainAt \in {"join", "save", "final", "finished"} => IsDone
  /\ mainAt \in {"save", "final", "finished"} =>
       \A t \in Thread : threadAt[t] = "exited"

ScanBounds ==
  /\ mainAt = "tally" =>
       \A t \in Thread : t < scan.upto => scan.n0[t] <= runId[t]
  /\ mainAt \in {"sums", "runs"} =>
       \A t \in Thread : scan.n0[t] <= runId[t]
  /\ mainAt = "runs" => scan.mi[scan.upto] <= runId[scan.upto] + 1

StopBudget ==
  ~notStopped =>
    \A t \in Thread : runId[t] + InLoop(t) <= runsAtStop[t] + 1

PlannedRuns ==
  \A t \in Thread :
    /\ threadAt[t] \in {"unborn", "entry"} => runId[t] = StartRun(t)
    /\ threadAt[t] \notin {"unborn", "entry"} =>
         endId[t] = StartRun(t) + RunsPerThread
    /\ threadAt[t] = "test" => runId[t] <= endId[t]
    /\ threadAt[t] = "add"  => runId[t] < endId[t]
    /\ threadAt[t] \in {"done", "notify", "exited"} /\ notStopped =>
         runId[t] = endId[t]

Published ==
  /\ store  \in {Nothing, Collected}
  /\ report \in {Nothing, Collected}
  /\ mainAt \notin {"final", "finished"} => store = Nothing
  /\ mainAt # "finished" => report = Nothing

IInv == /\ TypeOK /\ MainBounds /\ Accounting /\ DoneCount /\ Births
        /\ AfterBreak /\ OvercountAtMostOne /\ ScanBounds /\ StopBudget
        /\ PlannedRuns /\ Published

-----------------------------------------------------------------------------
(* The analysis ends: all its threads exit and are joined, and the final    *)
(* report is printed.                                                       *)
Termination == <>(mainAt = "finished")

(* README.md:45: --timeout terminates the program after that many seconds.  *)
TimeoutHonoured == (Timeout # 0 /\ ~alarmPending) ~> (mainAt = "finished")

-----------------------------------------------------------------------------
(* The pool implements the analysis it was written for: the runs a sampler  *)
(* still owes are all of them before a stop and the one it is in after it.  *)
RunsLeft == [t \in Thread |->
               IF notStopped THEN StartRun(t) + RunsPerThread - runId[t]
               ELSE IF threadAt[t] = "add" THEN 1 ELSE 0]

Promise == INSTANCE Analysis WITH
             Worker <- Thread, RunsPerWorker <- RunsPerThread,
             Total <- SumFunction, NoResult <- Nothing, completed <- runId, left <- RunsLeft,
             stopped <- ~notStopped, result <- report

(* Every behaviour of the pool is one of Analysis: runs are completed, a    *)
(* stop leaves each sampler at most one, and the report is published once,  *)
(* for exactly the completed runs (verify_mi.cpp:398-487).                  *)
RefinesAnalysis == Promise!Spec
=============================================================================
