------------------------- MODULE SamplerPool_proofs -------------------------
(***************************************************************************)
(* Proofs about SamplerPool for every number of threads, positions and      *)
(* runs, and every option.                                                  *)
(***************************************************************************)
EXTENDS SamplerPool, FiniteSetTheorems, TLAPS

(* The control points are plain enumerations.                               *)
USE DEF ThreadPoint, MainPoint, Cause

(* What the steps need to know of the index sets.                           *)
LEMMA Ranges ==
  /\ 0 \in Thread /\ NumThreads \in Nat \ {0}
  /\ Thread \subseteq Nat
  /\ \A i \in Thread : i + 1 \in Thread \/ i + 1 = NumThreads
  /\ \A i \in 0 .. NumThreads : i < NumThreads => i \in Thread
  /\ 0 \in 0 .. RunLength
  /\ \A i \in 0 .. RunLength : i \in Nat
  /\ \A i \in 0 .. RunLength : i < RunLength => i \in Position /\ i + 1 \in 0 .. RunLength
  /\ \A i \in Position : i + 1 \in 0 .. RunLength /\ (i + 1 = RunLength \/ i + 1 \in Position)
  /\ RunLength # 0 => 0 \in Position
  /\ RunsPerThread \in Nat /\ LoadedRuns \in Nat
BY SamplerPoolAssumption DEF Thread, Position

LEMMA NextThread ==
  ASSUME NEW i \in Thread, i + 1 < NumThreads
  PROVE  i + 1 \in Thread
BY SamplerPoolAssumption DEF Thread

-----------------------------------------------------------------------------
(* Type correctness.  The bounds of the main thread's indices belong to it. *)

TypeInv == TypeOK /\ MainBounds

LEMMA TypeInit == Init => TypeInv
<1> SUFFICES ASSUME Init PROVE TypeInv
  OBVIOUS
<1> USE Ranges DEF Init
<1>1. Zero \in [Thread -> Nat]
  BY DEF Zero
<1>2. FreshScan \in Scan
  BY <1>1 DEF FreshScan, Scan
<1>3. runId \in [Thread -> Nat]
  BY DEF StartRun
<1>4. sumOf \in [Thread -> [Position -> Nat]]
  BY DEF StartRun
<1>5. addPos \in [Thread -> 0 .. RunLength]
  BY DEF Zero
<1>6. threadAt \in [Thread -> ThreadPoint]
  OBVIOUS
<1>7. alarmPending \in BOOLEAN
  OBVIOUS
<1>8. spawned \in 0 .. NumThreads /\ MainBounds
  BY DEF MainBounds, FreshScan
<1> QED
  BY <1>1, <1>2, <1>3, <1>4, <1>5, <1>6, <1>7, <1>8 DEF TypeOK, TypeInv

(* The handler keeps the types of what it assigns.                          *)
LEMMA TypeStop ==
  ASSUME TypeOK, NEW c \in Cause, interupt_handler(c)
  PROVE  /\ notStopped' \in BOOLEAN
         /\ stopCause' \in Cause
         /\ runsAtStop' \in [Thread -> Nat]
BY DEF TypeOK, interupt_handler

LEMMA TypeSampler ==
  ASSUME TypeInv, NEW t \in Thread, Sampler(t)
  PROVE  TypeInv'
<1> USE DEF TypeInv, TypeOK, MainBounds, Goto, stopVars, mainVars
<1>1. CASE Enter(t)
  BY <1>1, Ranges DEF Enter
<1>2. CASE Test(t)
  <2>1. addPos' \in [Thread -> 0 .. RunLength]
    BY <1>2, Ranges DEF Test
  <2>2. threadAt' \in [Thread -> ThreadPoint]
    BY <1>2 DEF Test
  <2> QED
    BY <1>2, <2>1, <2>2 DEF Test
<1>3. CASE Add(t)
  <2>1. addPos[t] \in Position /\ addPos[t] + 1 \in 0 .. RunLength
    BY <1>3, Ranges DEF Add
  <2>2. sumOf' \in [Thread -> [Position -> Nat]]
    BY <1>3, <2>1 DEF Add
  <2>3. addPos' \in [Thread -> 0 .. RunLength]
    BY <1>3, <2>1 DEF Add
  <2> QED
    BY <1>3, <2>2, <2>3 DEF Add
<1>4. CASE Count(t)
  BY <1>4 DEF Count
<1>5. CASE Finish(t)
  BY <1>5 DEF Finish
<1>6. CASE Notify(t)
  BY <1>6 DEF Notify
<1> QED
  BY <1>1, <1>2, <1>3, <1>4, <1>5, <1>6 DEF Sampler

LEMMA TypeMain ==
  ASSUME TypeInv, MainStep \/ SpuriousWake
  PROVE  TypeInv'
<1> USE Ranges DEF TypeInv, TypeOK, MainBounds, MainGoto, stopVars, samplerVars
<1>1. CASE Spawn
  <2>1. spawned \in Thread /\ spawned + 1 \in 0 .. NumThreads
    BY <1>1, SamplerPoolAssumption DEF Spawn, Thread
  <2>2. threadAt' \in [Thread -> ThreadPoint]
    BY <1>1, <2>1 DEF Spawn, Goto
  <2>3. MainBounds'
    BY <1>1, <2>1 DEF Spawn
  <2> QED
    BY <1>1, <2>1, <2>2, <2>3 DEF Spawn
<1>2. CASE Wait
  BY <1>2 DEF Wait
<1>3. CASE TimeUp
  BY <1>3 DEF TimeUp
<1>4. CASE SpuriousWake
  BY <1>4 DEF SpuriousWake
<1>5. CASE Reacquire
  BY <1>5 DEF Reacquire
<1>6. CASE Decide
  BY <1>6 DEF Decide
<1>7. CASE Tally
  BY <1>7 DEF Tally, Scan
<1>8. CASE ReadSum
  <2>1. sumOf[scan.upto][scan.pos] \in Nat
    BY <1>8 DEF ReadSum, Scan
  <2>2. scan' \in Scan /\ scan'.pos = scan.pos
    BY <1>8, <2>1 DEF ReadSum, Scan
  <2> QED
    BY <1>8, <2>2 DEF ReadSum
<1>9. CASE ReadRuns
  <2> DEFINE n == [scan.n EXCEPT ![scan.upto] = runId[scan.upto]]
  <2>1. scan \in Scan /\ scan.pos \in Position /\ n \in [Thread -> Nat]
    BY <1>9 DEF ReadRuns, Scan
  <2>2. CASE scan.upto + 1 < NumThreads
    <3>1. scan' = [scan EXCEPT !.n = n, !.upto = @ + 1] /\ mainAt' = "sums"
      BY <1>9, <2>2 DEF ReadRuns
    <3>0. scan.upto \in Thread
      BY <2>1 DEF Scan
    <3>2. scan.upto + 1 \in Thread
      BY ONLY <3>0, <2>2, NextThread
    <3>3. scan' \in Scan /\ scan'.pos = scan.pos
      BY <2>1, <3>1, <3>2 DEF Scan
    <3> QED
      BY <1>9, <2>1, <3>1, <3>3 DEF ReadRuns
  <2>3. CASE ~(scan.upto + 1 < NumThreads)
    <3> DEFINE e == scan.exceeds \/ Exceeds(scan.pos, SumFunction(scan.mi),
                                            SumFunction(n), SumFunction(scan.n0))
    <3>1. scan' = [scan EXCEPT !.exceeds = e, !.pos = scan.pos + 1, !.upto = 0,
                               !.mi = Zero, !.n = Zero]
      BY <1>9, <2>3, Zenon DEF ReadRuns
    <3>2. mainAt' = IF scan.pos + 1 = RunLength THEN "verdict" ELSE "sums"
      BY <1>9, <2>3 DEF ReadRuns
    <3>3. e \in BOOLEAN /\ Zero \in [Thread -> Nat]
      BY DEF Zero, Exceeds
    <3>4. scan' \in Scan /\ scan'.pos = scan.pos + 1 /\ scan'.upto = 0
      <4> HIDE DEF e
      <4> QED
        BY <2>1, <3>1, <3>3 DEF Scan
    <3> QED
      BY <1>9, <2>1, <3>2, <3>4 DEF ReadRuns
  <2> QED
    BY <2>2, <2>3
<1>10. CASE Verdict
  <2>1. FreshScan \in Scan /\ FreshScan.pos = 0 /\ FreshScan.upto = 0
    BY DEF FreshScan, Scan, Zero
  <2>2. UNCHANGED stopVars \/ (interupt_handler("early") /\ UNCHANGED alarmPending)
    BY <1>10 DEF Verdict
  <2> QED
    BY <1>10, <2>1, <2>2, TypeStop DEF Verdict
<1>11. CASE Join
  BY <1>11 DEF Join
<1>12. CASE WriteSave
  BY <1>12 DEF WriteSave
<1>13. CASE FinalReport
  BY <1>13, TypeStop DEF FinalReport
<1> QED
  BY <1>1, <1>2, <1>3, <1>4, <1>5, <1>6, <1>7, <1>8, <1>9, <1>10, <1>11,
     <1>12, <1>13 DEF MainStep

LEMMA TypeNext == TypeInv /\ [Next]_vars => TypeInv'
<1> SUFFICES ASSUME TypeInv, [Next]_vars PROVE TypeInv'
  OBVIOUS
<1>1. ASSUME NEW t \in Thread, Sampler(t) PROVE TypeInv'
  BY <1>1, TypeSampler
<1>2. CASE MainStep \/ SpuriousWake
  BY <1>2, TypeMain
<1>3. CASE Interrupt \/ Alarm
  BY <1>3, TypeStop
     DEF Interrupt, Alarm, TypeInv, TypeOK, MainBounds, samplerVars, mainVars
<1>4. CASE UNCHANGED vars
  BY <1>4 DEF vars, stopVars, samplerVars, mainVars, TypeInv, TypeOK, MainBounds
<1> QED
  BY <1>1, <1>2, <1>3, <1>4 DEF Next, Terminated

(* Every variable of the pool keeps its type, for any pool and any options. *)
THEOREM TypeCorrect == Spec => []TypeOK
<1>1. TypeInv => TypeOK
  BY DEF TypeInv
<1> QED
  BY TypeInit, TypeNext, <1>1, PTL DEF Spec

-----------------------------------------------------------------------------
(* Who changes what: a sampler's step is its own, and nothing else touches  *)
(* the samplers but their creation.                                         *)

LEMMA SamplerFrame ==
  ASSUME TypeInv, [Next]_vars
  PROVE  \/ \E t \in Thread : Sampler(t)
         \/ Spawn
         \/ UNCHANGED samplerVars
BY DEF Next, MainStep, Interrupt, Alarm, Terminated, Wait, TimeUp, SpuriousWake,
       Reacquire, Decide, Tally, ReadSum, ReadRuns, Verdict, Join, WriteSave,
       FinalReport, vars

LEMMA SamplerStep ==
  ASSUME TypeInv, NEW t \in Thread, Sampler(t)
  PROVE  /\ UNCHANGED <<stopVars, spawned, scan, store, report, mutexHeld>>
         /\ threadAt' = [threadAt EXCEPT ![t] = threadAt'[t]]
         /\ threadAt[t] \notin {"unborn", "exited"}
         /\ threadAt'[t] # "unborn"
         /\ mainAt' = mainAt \/ (mainAt = "waiting" /\ mainAt' = "woken")
BY DEF TypeInv, TypeOK, Sampler, Enter, Test, Add, Count, Finish, Notify, Goto,
       mainVars

LEMMA SpawnStep ==
  ASSUME TypeInv, Births, Spawn
  PROVE  /\ spawned \in Thread
         /\ threadAt[spawned] = "unborn"
         /\ threadAt' = [threadAt EXCEPT ![spawned] = "entry"]
         /\ spawned' = spawned + 1
         /\ UNCHANGED <<stopVars, addPos, runId, endId, sumOf, samplersDone,
                        scan, store, report>>
<1>1. spawned \in Thread
  BY Ranges DEF Spawn, TypeInv, TypeOK, MainBounds
<1>2. threadAt[spawned] = "unborn"
  BY <1>1, Ranges DEF Births
<1> QED
  BY <1>1, <1>2 DEF Spawn, Goto

-----------------------------------------------------------------------------
(* The parts of the inductive invariant that only the samplers and their    *)
(* creation can disturb.                                                    *)

LEMMA BirthsNext ==
  ASSUME TypeInv, Births, [Next]_vars
  PROVE  Births'
<1> USE Ranges DEF Births, TypeInv, TypeOK
<1>1. ASSUME NEW t \in Thread, Sampler(t) PROVE Births'
  BY <1>1, SamplerStep
<1>2. CASE Spawn
  BY <1>2, SpawnStep
<1>3. CASE UNCHANGED samplerVars
  <2>1. UNCHANGED spawned \/ Spawn
    BY DEF Next, MainStep, Interrupt, Alarm, Terminated, Wait, TimeUp,
           SpuriousWake, Reacquire, Decide, Tally, ReadSum, ReadRuns, Verdict,
           Join, WriteSave, FinalReport, vars, mainVars, Sampler, Enter, Test,
           Add, Count, Finish, Notify
  <2> QED
    BY <1>2, <1>3, <2>1 DEF samplerVars
<1> QED
  BY <1>1, <1>2, <1>3, SamplerFrame

LEMMA AccountingNext ==
  ASSUME TypeInv, Births, Accounting, [Next]_vars
  PROVE  Accounting'
<1> USE DEF Accounting, InLoop, TypeInv, TypeOK
<1>1. ASSUME NEW t \in Thread, Sampler(t) PROVE Accounting'
  <2> SUFFICES ASSUME NEW u \in Thread, NEW p \in Position
               PROVE  sumOf'[u][p] = runId'[u] + IF p < addPos'[u] THEN InLoop(u)' ELSE 0
    OBVIOUS
  <2>0. p \in Nat
    BY SamplerPoolAssumption DEF Position
  <2>1. CASE Enter(t) \/ Finish(t) \/ Notify(t)
    BY <2>1 DEF Enter, Finish, Notify, Goto
  <2>2. CASE Test(t)
    BY <2>0, <2>2 DEF Test, Goto
  <2>3. CASE Add(t)
    BY <2>0, <2>3, Ranges DEF Add
  <2>4. CASE Count(t)
    BY <2>0, <2>4, SamplerPoolAssumption DEF Count, Goto, Position
  <2> QED
    BY <1>1, <2>1, <2>2, <2>3, <2>4 DEF Sampler
<1>2. CASE Spawn
  BY <1>2, SpawnStep
<1>3. CASE UNCHANGED samplerVars
  BY <1>3 DEF samplerVars
<1> QED
  BY <1>1, <1>2, <1>3, SamplerFrame

LEMMA DoneFinite == IsFiniteSet(DoneThreads) /\ IsFiniteSet(DoneThreads')
<1>1. IsFiniteSet(Thread)
  BY SamplerPoolAssumption, FS_Interval DEF Thread
<1>2. DoneThreads \in SUBSET Thread /\ DoneThreads' \in SUBSET Thread
  BY DEF DoneThreads
<1> QED
  BY <1>1, <1>2, FS_Subset

LEMMA DoneCountNext ==
  ASSUME TypeInv, Births, DoneCount, [Next]_vars
  PROVE  DoneCount'
<1> USE DEF TypeInv, TypeOK
<1>1. ASSUME NEW t \in Thread, Sampler(t), ~Finish(t) PROVE DoneCount'
  <2>1. samplersDone' = samplersDone
    BY <1>1 DEF Sampler, Enter, Test, Add, Count, Notify
  <2>2. DoneThreads' = DoneThreads
    BY <1>1 DEF DoneThreads, Sampler, Enter, Test, Add, Count, Notify, Goto
  <2> QED
    BY <2>1, <2>2 DEF DoneCount
<1>2. ASSUME NEW t \in Thread, Finish(t) PROVE DoneCount'
  <2>1. t \notin DoneThreads /\ DoneThreads' = DoneThreads \cup {t}
    BY <1>2 DEF DoneThreads, Finish, Goto
  <2>2. Cardinality(DoneThreads \cup {t}) = Cardinality(DoneThreads) + 1
    BY <2>1, DoneFinite, FS_AddElement
  <2> QED
    BY <1>2, <2>1, <2>2 DEF DoneCount, Finish
<1>3. CASE Spawn
  <2>1. DoneThreads' = DoneThreads
    BY <1>3, SpawnStep DEF DoneThreads
  <2> QED
    BY <1>3, <2>1, SpawnStep DEF DoneCount
<1>4. CASE UNCHANGED samplerVars
  BY <1>4 DEF samplerVars, DoneCount, DoneThreads
<1> QED
  BY <1>1, <1>2, <1>3, <1>4, SamplerFrame

(* is_done() counts everybody: then every sampler is past its last run.     *)
LEMMA AllDone ==
  ASSUME TypeInv, DoneCount, IsDone
  PROVE  \A t \in Thread : threadAt[t] \in {"notify", "exited"}
<1>1. IsFiniteSet(Thread) /\ Cardinality(Thread) = NumThreads
  BY SamplerPoolAssumption, FS_Interval DEF Thread
<1>2. DoneThreads \in SUBSET Thread
  BY DEF DoneThreads
<1>3. DoneThreads = Thread
  BY <1>1, <1>2, FS_Subset DEF DoneCount, IsDone
<1> QED
  BY <1>3 DEF DoneThreads

LEMMA PlannedRunsNext ==
  ASSUME TypeInv, Births, PlannedRuns, [Next]_vars
  PROVE  PlannedRuns'
<1> USE Ranges DEF TypeInv, TypeOK, PlannedRuns
<1>0. \A t \in Thread : StartRun(t) \in Nat
  BY DEF StartRun
<1>1. ASSUME NEW t \in Thread, Sampler(t) PROVE PlannedRuns'
  <2>0. notStopped' = notStopped
    BY <1>1, SamplerStep DEF stopVars
  <2>1. CASE Enter(t)
    BY <1>0, <2>0, <2>1 DEF Enter, Goto
  <2>2. CASE Test(t)
    BY <1>0, <2>0, <2>2 DEF Test, Goto
  <2>3. CASE Add(t)
    BY <2>0, <2>3 DEF Add
  <2>4. CASE Count(t)
    BY <1>0, <2>0, <2>4 DEF Count, Goto
  <2>5. CASE Finish(t) \/ Notify(t)
    BY <2>0, <2>5 DEF Finish, Notify, Goto
  <2> QED
    BY <1>1, <2>1, <2>2, <2>3, <2>4, <2>5 DEF Sampler
<1>2. CASE Spawn
  BY <1>2, SpawnStep DEF stopVars
<1>3. CASE UNCHANGED samplerVars
  <2>1. notStopped' => notStopped
    BY DEF Next, MainStep, Interrupt, Alarm, Terminated, Wait, TimeUp,
           SpuriousWake, Reacquire, Decide, Tally, ReadSum, ReadRuns, Verdict,
           Join, WriteSave, FinalReport, Spawn, vars, stopVars, interupt_handler,
           Sampler, Enter, Test, Add, Count, Finish, Notify
  <2> QED
    BY <1>3, <2>1 DEF samplerVars
<1> QED
  BY <1>1, <1>2, <1>3, SamplerFrame

-----------------------------------------------------------------------------
(* Stopping.                                                                *)

(* A step either leaves the flag alone or is one call of the handler, during *)
(* which no sampler moves.                                                  *)
LEMMA StopFrame ==
  ASSUME [Next]_vars
  PROVE  \/ UNCHANGED <<notStopped, runsAtStop>>
         \/ /\ notStopped' = FALSE
            /\ runsAtStop' = IF notStopped THEN runId ELSE runsAtStop
            /\ UNCHANGED samplerVars
BY DEF Next, MainStep, Interrupt, Alarm, Terminated, Wait, TimeUp, SpuriousWake,
       Reacquire, Decide, Tally, ReadSum, ReadRuns, Verdict, Join, WriteSave,
       FinalReport, Spawn, vars, stopVars, interupt_handler,
       Sampler, Enter, Test, Add, Count, Finish, Notify

LEMMA StopBudgetNext ==
  ASSUME TypeInv, Births, StopBudget, [Next]_vars
  PROVE  StopBudget'
<1> USE DEF TypeInv, TypeOK, StopBudget, InLoop
<1>1. CASE UNCHANGED <<notStopped, runsAtStop>>
  <2>1. ASSUME NEW t \in Thread, Sampler(t) PROVE StopBudget'
    <3>1. CASE Test(t)
      BY <1>1, <3>1 DEF Test, Goto
    <3>2. CASE Count(t)
      BY <1>1, <3>2 DEF Count, Goto
    <3>3. CASE Enter(t) \/ Add(t) \/ Finish(t) \/ Notify(t)
      BY <1>1, <3>3 DEF Enter, Add, Finish, Notify, Goto
    <3> QED
      BY <2>1, <3>1, <3>2, <3>3 DEF Sampler
  <2>2. CASE Spawn
    BY <1>1, <2>2, SpawnStep
  <2>3. CASE UNCHANGED samplerVars
    BY <1>1, <2>3 DEF samplerVars
  <2> QED
    BY <2>1, <2>2, <2>3, SamplerFrame
<1>2. CASE /\ notStopped' = FALSE
           /\ runsAtStop' = IF notStopped THEN runId ELSE runsAtStop
           /\ UNCHANGED samplerVars
  BY <1>2 DEF samplerVars
<1> QED
  BY <1>1, <1>2, StopFrame

-----------------------------------------------------------------------------
(* The end of the waiting loop.                                             *)

LEMMA AfterBreakNext ==
  ASSUME TypeInv, Births, DoneCount, AfterBreak, [Next]_vars
  PROVE  AfterBreak'
<1> USE DEF TypeInv, TypeOK, AfterBreak, IsDone
<1>1. ASSUME NEW t \in Thread, Sampler(t) PROVE AfterBreak'
  <2>1. CASE mainAt \in {"join", "save", "final", "finished"}
    <3>1. threadAt[t] = "notify" /\ mainAt = "join"
      BY <1>1, <2>1, AllDone, SamplerStep
    <3>2. Notify(t)
      BY <1>1, <3>1 DEF Sampler, Enter, Test, Add, Count, Finish
    <3> QED
      BY <3>1, <3>2 DEF Notify
  <2>2. CASE mainAt \notin {"join", "save", "final", "finished"}
    BY <1>1, <2>2, SamplerStep
  <2> QED
    BY <2>1, <2>2
<1>2. CASE MainStep \/ SpuriousWake
  <2>1. CASE Spawn
    BY <2>1 DEF Spawn, MainGoto
  <2>2. CASE Wait \/ TimeUp \/ SpuriousWake \/ Reacquire \/ Decide
    BY <2>2 DEF Wait, TimeUp, SpuriousWake, Reacquire, Decide, MainGoto, samplerVars
  <2>3. CASE Tally \/ ReadSum \/ ReadRuns \/ Verdict
    BY <2>3 DEF Tally, ReadSum, ReadRuns, Verdict, MainGoto
  <2>4. CASE Join \/ WriteSave \/ FinalReport
    BY <2>4 DEF Join, WriteSave, FinalReport, MainGoto, samplerVars
  <2> QED
    BY <1>2, <2>1, <2>2, <2>3, <2>4 DEF MainStep
<1>3. CASE Interrupt \/ Alarm \/ UNCHANGED vars
  BY <1>3 DEF Interrupt, Alarm, vars, samplerVars, mainVars
<1> QED
  BY <1>1, <1>2, <1>3 DEF Next, Terminated

(* After the break no sampler's results change.                             *)
LEMMA QuietStep ==
  ASSUME TypeInv, Births, DoneCount, AfterBreak, [Next]_vars,
         mainAt \in {"join", "save", "final", "finished"}
  PROVE  UNCHANGED <<runId, sumOf, samplersDone>>
<1>1. ASSUME NEW t \in Thread, Sampler(t)
      PROVE  UNCHANGED <<runId, sumOf, samplersDone>>
  <2>1. threadAt[t] \in {"notify", "exited"}
    BY AllDone DEF AfterBreak
  <2> QED
    BY <1>1, <2>1 DEF Sampler, Enter, Test, Add, Count, Finish, Notify
<1>2. CASE Spawn
  BY <1>2 DEF Spawn
<1>3. CASE UNCHANGED samplerVars
  BY <1>3 DEF samplerVars
<1> QED
  BY <1>1, <1>2, <1>3, SamplerFrame

-----------------------------------------------------------------------------
(* The reads of an interim report.                                          *)

(* Run counts only grow, so what was read of them stays a lower bound.      *)
LEMMA RunsGrow ==
  ASSUME TypeInv, Births, [Next]_vars
  PROVE  \A t \in Thread : runId[t] \in Nat /\ runId'[t] \in Nat /\ runId[t] <= runId'[t]
<1>1. runId \in [Thread -> Nat]
  BY DEF TypeInv, TypeOK
<1>2. ASSUME NEW u \in Thread, Sampler(u)
      PROVE  runId' = runId \/ runId' = [runId EXCEPT ![u] = @ + 1]
  BY <1>2 DEF Sampler, Enter, Test, Add, Count, Finish, Notify
<1>3. CASE Spawn \/ UNCHANGED samplerVars
  <2>1. runId' = runId
    BY <1>3 DEF Spawn, samplerVars
  <2> QED
    BY <1>1, <2>1
<1>4. ASSUME NEW u \in Thread, Sampler(u)
      PROVE  \A t \in Thread : runId[t] \in Nat /\ runId'[t] \in Nat /\ runId[t] <= runId'[t]
  BY <1>1, <1>2, <1>4
<1> QED
  BY <1>3, <1>4, SamplerFrame

LEMMA SumAtMostOneAhead ==
  ASSUME TypeInv, Accounting
  PROVE  \A t \in Thread, p \in Position : sumOf[t][p] <= runId[t] + 1
BY DEF Accounting, InLoop, TypeInv, TypeOK

ScanInv == OvercountAtMostOne /\ ScanBounds

LEMMA ScanNext ==
  ASSUME TypeInv, Births, Accounting, ScanInv, [Next]_vars
  PROVE  ScanInv'
<1> USE DEF ScanInv, OvercountAtMostOne, ScanBounds, TypeInv, TypeOK, Scan
<1>0. /\ \A t \in Thread : t \in Nat
      /\ \A t \in Thread : t < scan.upto + 1 => t = scan.upto \/ t < scan.upto
  <2>1. scan.upto \in Nat /\ \A t \in Thread : t \in Nat
    BY Ranges
  <2> QED
    BY ONLY <2>1
<1>1. CASE UNCHANGED scan /\ (mainAt' = mainAt \/ mainAt' \notin {"tally", "sums", "runs"})
  BY <1>1, RunsGrow
<1>2. CASE Tally
  <2> DEFINE last == scan.upto + 1 = NumThreads
  <2>1. /\ mainAt = "tally" /\ runId' = runId
        /\ scan' = [scan EXCEPT !.n0[scan.upto] = runId[scan.upto],
                                !.upto = IF last THEN 0 ELSE @ + 1]
        /\ mainAt' = IF ~last THEN "tally"
                     ELSE IF RunLength = 0 THEN "verdict" ELSE "sums"
    BY <1>2 DEF Tally, MainGoto, samplerVars
  <2>2. ASSUME NEW t \in Thread, t < scan.upto + 1
        PROVE  scan'.n0[t] <= runId[t]
    <3>1. scan'.n0 = [scan.n0 EXCEPT ![scan.upto] = runId[scan.upto]]
      BY <2>1
    <3>2. t = scan.upto \/ t < scan.upto
      BY <1>0, <2>2
    <3> QED
      BY <2>1, <3>1, <3>2
  <2>3. CASE last
    <3>1. \A t \in Thread : t < scan.upto + 1
      BY <2>3, SamplerPoolAssumption DEF Thread
    <3>2. scan'.upto = 0
      BY <2>1, <2>3
    <3> QED
      BY <1>0, <2>1, <2>2, <3>1, <3>2
  <2>4. CASE ~last
    BY <2>1, <2>2, <2>4
  <2> QED
    BY <2>3, <2>4
<1>3. CASE ReadSum
  <2>1. /\ mainAt = "sums" /\ mainAt' = "runs" /\ runId' = runId
        /\ scan' = [scan EXCEPT !.mi[scan.upto] = sumOf[scan.upto][scan.pos]]
    BY <1>3 DEF ReadSum, MainGoto, samplerVars
  <2>2. sumOf[scan.upto][scan.pos] <= runId[scan.upto] + 1
    BY <2>1, SumAtMostOneAhead DEF MainBounds
  <2> QED
    BY <1>0, <2>1, <2>2
<1>4. CASE ReadRuns
  <2> DEFINE n == [scan.n EXCEPT ![scan.upto] = runId[scan.upto]]
  <2>1. mainAt = "runs" /\ runId' = runId
    BY <1>4 DEF ReadRuns, samplerVars
  <2>2. CASE scan.upto + 1 < NumThreads
    <3>1. scan' = [scan EXCEPT !.n = n, !.upto = @ + 1] /\ mainAt' = "sums"
      BY <1>4, <2>2 DEF ReadRuns, MainGoto
    <3>2. ASSUME NEW t \in Thread, t < scan.upto + 1
          PROVE  scan.mi[t] <= n[t] + 1 /\ scan.n0[t] <= n[t]
      <4>1. t = scan.upto \/ t < scan.upto
        BY <1>0, <3>2
      <4> QED
        BY <2>1, <4>1
    <3> QED
      BY <2>1, <3>1, <3>2
  <2>3. CASE ~(scan.upto + 1 < NumThreads)
    <3> DEFINE e == scan.exceeds \/ Exceeds(scan.pos, SumFunction(scan.mi),
                                            SumFunction(n), SumFunction(scan.n0))
    <3>0. scan' = [scan EXCEPT !.exceeds = e, !.pos = scan.pos + 1, !.upto = 0,
                               !.mi = Zero, !.n = Zero]
      BY <1>4, <2>3, Zenon DEF ReadRuns
    <3>1. scan'.upto = 0 /\ scan'.n0 = scan.n0
      <4> HIDE DEF e
      <4> QED
        BY <3>0
    <3>2. mainAt' \in {"sums", "verdict"}
      BY <1>4, <2>3 DEF ReadRuns, MainGoto
    <3> QED
      BY <1>0, <2>1, <3>1, <3>2
  <2> QED
    BY <2>2, <2>3
<1>5. CASE Verdict
  BY <1>5 DEF Verdict, MainGoto
<1>6. CASE Decide
  BY <1>0, <1>6 DEF Decide, MainGoto, MainBounds
<1>7. \/ UNCHANGED scan /\ (mainAt' = mainAt \/ mainAt' \notin {"tally", "sums", "runs"})
      \/ Tally \/ ReadSum \/ ReadRuns \/ Verdict \/ Decide
  <2>1. ASSUME NEW t \in Thread, Sampler(t)
        PROVE  UNCHANGED scan /\ (mainAt' = mainAt \/ mainAt' \notin {"tally", "sums", "runs"})
    BY <2>1, SamplerStep
  <2> QED
    BY <2>1 DEF Next, MainStep, Interrupt, Alarm, Terminated, Wait, TimeUp,
                SpuriousWake, Reacquire, Join, WriteSave, FinalReport, Spawn,
                MainGoto, vars, mainVars
<1> QED
  BY <1>1, <1>2, <1>3, <1>4, <1>5, <1>6, <1>7

-----------------------------------------------------------------------------
(* The results.                                                             *)

LEMMA PublishedNext ==
  ASSUME TypeInv, Births, DoneCount, AfterBreak, Published, [Next]_vars
  PROVE  Published'
<1> USE DEF Published
<1>1. CASE mainAt \in {"final", "finished"}
  <2>1. Collected' = Collected
    BY <1>1, QuietStep DEF Collected
  <2>2. ASSUME NEW t \in Thread, Sampler(t) PROVE Published'
    BY <1>1, <2>1, <2>2, SamplerStep
  <2>3. CASE FinalReport
    BY <2>1, <2>3 DEF FinalReport, MainGoto
  <2>4. CASE Interrupt \/ Alarm \/ UNCHANGED vars
    BY <2>1, <2>4 DEF Interrupt, Alarm, mainVars, vars
  <2> QED
    BY <1>1, <2>2, <2>3, <2>4 DEF Next, Terminated, MainStep, Wait, TimeUp,
       SpuriousWake, Reacquire, Decide, Tally, ReadSum, ReadRuns, Verdict,
       Join, WriteSave, Spawn
<1>2. CASE mainAt \notin {"final", "finished"}
  <2>1. store = Nothing /\ report = Nothing
    BY <1>2
  <2>2. ASSUME NEW t \in Thread, Sampler(t) PROVE Published'
    <3>1. UNCHANGED <<store, report>> /\ mainAt' \notin {"final", "finished"}
      BY <1>2, <2>2, SamplerStep
    <3> QED
      BY <2>1, <3>1 DEF Nothing
  <2>3. CASE WriteSave
    <3>1. Collected' = Collected
      BY <2>3 DEF WriteSave, samplerVars, Collected
    <3> QED
      BY <2>1, <2>3, <3>1 DEF WriteSave, MainGoto, Nothing
  <2>4. CASE /\ UNCHANGED <<store, report>>
             /\ mainAt' \notin {"final", "finished"}
    BY <2>1, <2>4 DEF Nothing
  <2> QED
    BY <1>2, <2>2, <2>3, <2>4 DEF Next, Terminated, MainStep, Wait, TimeUp,
       SpuriousWake, Reacquire, Decide, Tally, ReadSum, ReadRuns, Verdict,
       Join, FinalReport, Spawn, Interrupt, Alarm, MainGoto, vars, mainVars
<1> QED
  BY <1>1, <1>2

-----------------------------------------------------------------------------
(* The inductive invariant.                                                 *)

LEMMA InvInit == Init => IInv
<1> SUFFICES ASSUME Init PROVE IInv
  OBVIOUS
<1> USE TypeInit, Ranges DEF Init
<1>1. TypeInv
  OBVIOUS
<1>2. Births /\ PlannedRuns
  BY DEF Births, PlannedRuns
<1>3. Accounting
  BY DEF Accounting, InLoop, StartRun
<1>4. DoneCount
  <2>1. DoneThreads = {}
    BY DEF DoneThreads
  <2> QED
    BY <2>1, FS_EmptySet DEF DoneCount
<1>5. AfterBreak /\ OvercountAtMostOne /\ ScanBounds /\ StopBudget
  BY DEF AfterBreak, OvercountAtMostOne, ScanBounds, StopBudget
<1>6. Published
  BY DEF Published
<1> QED
  BY <1>1, <1>2, <1>3, <1>4, <1>5, <1>6 DEF IInv, TypeInv

LEMMA InvNext == IInv /\ [Next]_vars => IInv'
BY TypeNext, BirthsNext, PlannedRunsNext, AccountingNext, DoneCountNext,
   AfterBreakNext, ScanNext, StopBudgetNext, PublishedNext
   DEF IInv, TypeInv, ScanInv

THEOREM Invariant == Spec => []IInv
BY InvInit, InvNext, PTL DEF Spec

(* is_done() never holds while a sampler can still add to its sums.         *)
THEOREM DoneMeansIdleHolds == Spec => []DoneMeansIdle
<1>1. IInv => DoneMeansIdle
  BY AllDone DEF IInv, TypeInv, DoneMeansIdle
<1> QED
  BY Invariant, <1>1, PTL

(* An unsynchronised interim report overcounts a sampler by one run at most.*)
THEOREM OvercountHolds == Spec => []OvercountAtMostOne
<1>1. IInv => OvercountAtMostOne
  BY DEF IInv
<1> QED
  BY Invariant, <1>1, PTL

(* A stop costs each sampler at most the run it is in.                      *)
THEOREM StopLatencyHolds == Spec => []StopLatency
<1>1. IInv => StopLatency
  BY DEF IInv, StopBudget, InLoop, TypeOK, StopLatency
<1> QED
  BY Invariant, <1>1, PTL

(* Stored and reported results account for exactly the completed runs.      *)
THEOREM ExactResultHolds == Spec => []ExactResult
<1>1. ASSUME IInv, NEW r \in {store, report}, r # Nothing, NEW p \in Position
      PROVE  r.runs = SumFunction(runId) /\ r.sums[p] = r.runs
  <2>1. r = Collected /\ mainAt \in {"final", "finished"}
    BY <1>1 DEF IInv, Published
  <2>2. \A t \in Thread : threadAt[t] = "exited"
    BY <1>1, <2>1 DEF IInv, AfterBreak
  <2>3. \A t \in Thread : sumOf[t][p] = runId[t]
    BY <1>1, <2>2 DEF IInv, Accounting, InLoop, TypeOK
  <2>4. [t \in Thread |-> sumOf[t][p]] = runId
    BY <1>1, <2>3 DEF IInv, TypeOK
  <2> QED
    BY <2>1, <2>4 DEF Collected
<1>2. ASSUME IInv, NEW r \in {store, report}, r # Nothing
      PROVE  r.runs = SumFunction(runId)
  BY <1>2 DEF IInv, Published, Collected
<1>3. IInv => ExactResult
  BY <1>1, <1>2 DEF ExactResult
<1> QED
  BY Invariant, <1>3, PTL

(* What is stored and what is reported cannot differ from what was decided. *)
THEOREM QuietAfterBreakHolds == Spec => QuietAfterBreak
<1>1. IInv /\ [Next]_vars =>
        [(mainAt \in {"join", "save", "final", "finished"})
           => UNCHANGED <<runId, sumOf>>]_vars
  BY QuietStep DEF IInv, TypeInv
<1> QED
  BY Invariant, <1>1, PTL DEF Spec, QuietAfterBreak

-----------------------------------------------------------------------------
(* The pool implements the analysis.                                        *)

(* A sampler never owes a negative number of runs, and none when idle.      *)
LEMMA LeftBounds ==
  ASSUME IInv, NEW t \in Thread
  PROVE  /\ RunsLeft[t] \in Nat
         /\ threadAt[t] = "add" => RunsLeft[t] > 0
         /\ threadAt[t] \in {"done", "notify", "exited"} => RunsLeft[t] = 0
<1>1. StartRun(t) \in Nat /\ RunsPerThread \in Nat /\ runId[t] \in Nat /\ endId[t] \in Nat
  BY Ranges DEF StartRun, IInv, TypeOK
<1>2. threadAt[t] \in ThreadPoint
  BY DEF IInv, TypeOK
<1> QED
  BY <1>1, <1>2 DEF RunsLeft, IInv, PlannedRuns

LEMMA PromiseInit == Init => Promise!Init
<1> SUFFICES ASSUME Init PROVE Promise!Init
  OBVIOUS
<1>1. \A t \in Thread : StartRun(t) \in Nat /\ RunsPerThread \in Nat
  BY Ranges DEF StartRun
<1>2. RunsLeft = [t \in Thread |-> RunsPerThread]
  BY <1>1 DEF Init, RunsLeft
<1> QED
  BY <1>2 DEF Init, Promise!Init

LEMMA PromiseSampler ==
  ASSUME IInv, NEW t \in Thread, Sampler(t)
  PROVE  [Promise!Next]_(Promise!vars)
<1>0. UNCHANGED <<notStopped, report>>
  BY SamplerStep DEF IInv, TypeInv, stopVars
<1>1. CASE Count(t)
  <2>1. report = Nothing
    BY <1>1 DEF Count, IInv, AfterBreak, Published
  <2>2. RunsLeft[t] > 0
    BY <1>1, LeftBounds DEF Count
  <2>3. runId' = [runId EXCEPT ![t] = @ + 1] /\ threadAt' = [threadAt EXCEPT ![t] = "test"]
    BY <1>1 DEF Count, Goto
  <2>4. threadAt[t] = "add"
    BY <1>1 DEF Count
  <2>5. RunsLeft' = [RunsLeft EXCEPT ![t] = @ - 1]
    <3>1. \A u \in Thread : StartRun(u) \in Nat /\ RunsPerThread \in Nat /\ runId[u] \in Nat
      BY Ranges DEF StartRun, IInv, TypeOK
    <3>2. RunsLeft'[t] = RunsLeft[t] - 1
      BY <1>0, <2>3, <2>4, <3>1 DEF RunsLeft, IInv, TypeOK
    <3>3. \A u \in Thread : u # t => RunsLeft'[u] = RunsLeft[u]
      BY <1>0, <2>3 DEF RunsLeft, IInv, TypeOK
    <3> QED
      BY <3>2, <3>3 DEF RunsLeft
  <2>6. Promise!CompleteRun(t)
    BY <1>0, <2>1, <2>2, <2>3, <2>5 DEF Promise!CompleteRun
  <2> QED
    BY <2>6 DEF Promise!Next
<1>2. CASE ~Count(t)
  <2>1. runId' = runId
    BY <1>2 DEF Sampler, Enter, Test, Add, Finish, Notify
  <2>2. \A u \in Thread : notStopped \/ (threadAt'[u] = "add" <=> threadAt[u] = "add")
    BY <1>2 DEF Sampler, Enter, Test, Add, Finish, Notify, Goto, IInv, TypeOK
  <2>3. RunsLeft' = RunsLeft
    BY <1>0, <2>1, <2>2 DEF RunsLeft
  <2> QED
    BY <1>0, <2>1, <2>3 DEF Promise!vars
<1> QED
  BY <1>1, <1>2

(* The handler: the first call is the stop of Analysis, later ones nothing. *)
LEMMA PromiseStop ==
  ASSUME IInv, NEW c \in Cause, interupt_handler(c), UNCHANGED <<samplerVars, report>>
  PROVE  [Promise!Next]_(Promise!vars)
<1>1. UNCHANGED <<runId, threadAt, report>> /\ ~notStopped'
  BY DEF samplerVars, interupt_handler
<1>2. CASE notStopped
  <2>1. RunsLeft' = [t \in Thread |-> IF threadAt[t] = "add" THEN 1 ELSE 0]
    BY <1>1 DEF RunsLeft
  <2>2. \A t \in Thread : RunsLeft'[t] <= RunsLeft[t]
    BY <2>1, LeftBounds
  <2>3. RunsLeft' \in [Thread -> {0, 1}]
    BY <2>1
  <2>4. Promise!Stop
    BY <1>1, <1>2, <2>2, <2>3 DEF Promise!Stop
  <2> QED
    BY <2>4 DEF Promise!Next
<1>3. CASE ~notStopped
  <2>1. RunsLeft' = RunsLeft
    BY <1>1, <1>3 DEF RunsLeft
  <2> QED
    BY <1>1, <1>3, <2>1 DEF Promise!vars, IInv, TypeOK, interupt_handler
<1> QED
  BY <1>2, <1>3

LEMMA PromisePublish ==
  ASSUME IInv, FinalReport
  PROVE  [Promise!Next]_(Promise!vars)
<1>1. report = Nothing /\ \A t \in Thread : threadAt[t] = "exited"
  BY DEF FinalReport, IInv, Published, AfterBreak
<1>2. \A t \in Thread : RunsLeft[t] = 0
  BY <1>1, LeftBounds
<1>3. \A t \in Thread, p \in Position : sumOf[t][p] = runId[t]
  BY <1>1 DEF IInv, Accounting, InLoop, TypeOK
<1>4. \A p \in Position : [t \in Thread |-> sumOf[t][p]] = runId
  BY <1>3 DEF IInv, TypeOK
<1>5. report' = [runs |-> SumFunction(runId), sums |-> [p \in Position |-> SumFunction(runId)]]
  BY <1>4 DEF FinalReport, Collected
<1>6. UNCHANGED <<runId, threadAt>> /\ (notStopped' = notStopped \/ notStopped' = FALSE)
  BY DEF FinalReport, samplerVars, stopVars, interupt_handler
<1>7. RunsLeft' = RunsLeft
  <2>1. \A t \in Thread : RunsLeft'[t] = 0
    BY <1>1, <1>2, <1>6 DEF RunsLeft
  <2> QED
    BY <1>2, <2>1 DEF RunsLeft
<1>8. (~notStopped)' \in {~notStopped, TRUE}
  BY <1>6 DEF IInv, TypeOK
<1>9. Promise!Publish
  BY <1>1, <1>2, <1>5, <1>6, <1>7, <1>8, Zenon DEF Promise!Publish
<1> QED
  BY <1>9 DEF Promise!Next

LEMMA PromiseNext ==
  ASSUME IInv, [Next]_vars
  PROVE  [Promise!Next]_(Promise!vars)
<1>1. CASE FinalReport
  BY <1>1, PromisePublish
<1>2. ASSUME NEW t \in Thread, Sampler(t) PROVE [Promise!Next]_(Promise!vars)
  BY <1>2, PromiseSampler
<1>3. ASSUME NEW c \in Cause, interupt_handler(c), UNCHANGED <<samplerVars, report>>
      PROVE  [Promise!Next]_(Promise!vars)
  BY <1>3, PromiseStop
<1>4. CASE Spawn
  <2>1. UNCHANGED <<runId, notStopped, report>>
    BY <1>4 DEF Spawn, stopVars
  <2>2. \A t \in Thread : threadAt'[t] = "add" <=> threadAt[t] = "add"
    BY <1>4, SpawnStep DEF IInv, TypeInv, TypeOK
  <2>3. RunsLeft' = RunsLeft
    BY <2>1, <2>2 DEF RunsLeft
  <2> QED
    BY <2>1, <2>3 DEF Promise!vars
<1>5. CASE UNCHANGED <<samplerVars, stopVars, report>>
  BY <1>5 DEF samplerVars, stopVars, Promise!vars, RunsLeft
<1>6. CASE Interrupt \/ Alarm \/ Verdict
  BY <1>3, <1>5, <1>6 DEF Interrupt, Alarm, Verdict, mainVars, stopVars
<1> QED
  BY <1>1, <1>2, <1>4, <1>5, <1>6 DEF Next, MainStep, Terminated, Wait, TimeUp,
     SpuriousWake, Reacquire, Decide, Tally, ReadSum, ReadRuns, Join, WriteSave,
     vars, mainVars

(* Every behaviour of the pool is one of the abstract analysis.             *)
THEOREM PoolImplementsAnalysis == Spec => RefinesAnalysis
<1>1. IInv /\ [Next]_vars => [Promise!Next]_(Promise!vars)
  BY PromiseNext
<1> QED
  BY PromiseInit, Invariant, <1>1, PTL DEF Spec, RefinesAnalysis, Promise!Spec
=============================================================================
