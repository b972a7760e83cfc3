------------------------------ MODULE Verifier ------------------------------
(***************************************************************************)
(* Verifiers and the merge tool on the files of a user: main of             *)
(* src/verify_mi.cpp from the options to the report, write_save, and        *)
(* src/merge_savedata.cpp.  Every process executes a script of programs,    *)
(* one after the other; processes run next to each other.  A program may be *)
(* killed at any moment, and a write may fail.                              *)
(*                                                                          *)
(* How an analysis samples is the business of SamplerPool: here it adds any *)
(* number of runs up to the planned one.                                    *)
(***************************************************************************)
EXTENDS OptionsMI, SaveDataMI

CONSTANTS
  Process,
  Hash,         (* the hashes of generated designs                           *)
  RunLength,    (* RUN_LENGTH of each of them                                *)
  Script,       (* what the processes may have to do                         *)
  Disk,         (* the files there may be at first                           *)
  Faults,       (* "kill" and "write": what goes wrong                       *)
  MaxRuns       (* bound: runs of an interrupted analysis                    *)

(* The programs.                                                            *)
VerifyJob == [tool : {"verify"}, design : Hash, request : Request]
MergeJob  == [tool : {"merge"}, inputs : Seq(File) \ {<< >>}, output : File]

Outputs(job) == IF job.tool = "verify" THEN {job.request.store, job.request.report} \ {None}
                ELSE {job.output}

(* Results in memory and in files.  A report begins with no hash.           *)
Hashes    == Hash \cup {Junk, "text"}
ParamSet  == (Number \X Number \X Number \X Number) \cup {NoParams}
Result    == [hash : Hashes, params : ParamSet, runs : Nat, sums : Seq(Nat \cup {Junk})]

IsFile(f) ==
  /\ Len(f) \in Nat /\ f = [i \in 1 .. Len(f) |-> f[i]]
  /\ Len(f) >= 1 => f[1] \in Hashes
  /\ Len(f) >= 2 => f[2] \in ParamSet
  /\ \A i \in {3, HeaderSize} : Len(f) >= i => f[i] \in Nat
  /\ \A i \in HeaderSize + 1 .. Len(f) : f[i] \in Nat \cup {Junk}

(* The sums that reached a file count the runs it claims.                   *)
RightSoFar(f) == \A i \in HeaderSize + 1 .. Len(f) : f[i] \in {Junk, f[3]}

ASSUME VerifierAssumption ==
  /\ RunLength \in [Hash -> Nat \ {0}]
  /\ Script \subseteq [Process -> Seq(VerifyJob \cup MergeJob)]
  /\ \A d \in Disk : DOMAIN d \subseteq File /\ \A f \in DOMAIN d : IsFile(d[f]) /\ RightSoFar(d[f])
  /\ MaxRuns \in Nat

VARIABLES
  disk,    (* the files there are, with the fields that reached them         *)
  script,  (* per process: the current program and those after it            *)
  stage,   (* per process: what it does next                                 *)
  there,   (* per process: the files there were when it looked               *)
  objHash, (* per process: OBJ_HASH                                          *)
  data,    (* per process: the result it has in memory                       *)
  next,    (* per process: the next input or field                           *)
  got,     (* per process: what it has read of the file it is reading        *)
  torn,    (* history: the processes that read a file somebody emptied       *)
  mixed    (* history: the files with what such a process made of it         *)

reading == <<got, torn, mixed>>
vars    == <<disk, script, stage, there, objHash, data, next, got, torn, mixed>>

Job(p)  == script[p][1]
Req(p)  == Job(p).request
Plan(p) == Derive(Req(p))
Params(p) == <<Req(p).cycles, Plan(p).f_given_d, Plan(p).f_given_ds, Plan(p).secrets>>
Length(p) == RunLength[Job(p).design]
Target(p) == IF Job(p).tool = "verify" THEN Req(p).store ELSE Job(p).output
Content(f) == IF f \in DOMAIN disk THEN disk[f] ELSE << >>

Init ==
  /\ disk \in Disk
  /\ script \in Script
  /\ stage = [p \in Process |-> "idle"]
  /\ there = [p \in Process |-> {}]
  /\ objHash = [p \in Process |-> Junk]
  /\ data = [p \in Process |-> NewData(Junk)]
  /\ next = [p \in Process |-> 1]
  /\ got = [p \in Process |-> << >>]
  /\ torn = {} /\ mixed = {}

(* Mutant: inputs and fields are counted from 0.                            *)
GotoZero(p, s) == stage' = [stage EXCEPT ![p] = s] /\ next' = [next EXCEPT ![p] = 0]
Goto(p, s)     == stage' = [stage EXCEPT ![p] = s] /\ next' = [next EXCEPT ![p] = 1]
SetData(p, d)  == data' = [data EXCEPT ![p] = d]
WriteFile(f, content) ==
  disk' = [g \in DOMAIN disk \cup {f} |-> IF g = f THEN content ELSE disk[g]]

(* The program ends, well or not, and the next one of the script may start. *)
Exit(p) ==
  /\ Goto(p, "idle")
  /\ script' = [script EXCEPT ![p] = Tail(@)]
  /\ there' = [there EXCEPT ![p] = {}]
  /\ objHash' = [objHash EXCEPT ![p] = Junk]
  /\ data' = [data EXCEPT ![p] = NewData(Junk)]
  /\ got' = [got EXCEPT ![p] = << >>]
  /\ torn' = torn \ {p}
  /\ UNCHANGED <<disk, mixed>>

Running(p) == stage[p] # "idle"

(* Nobody starts two programs that write the same file to run at the same   *)
(* time.  They may well read what the other is writing.                     *)
Begin(p) ==
  /\ ~Running(p) /\ script[p] # << >>
  /\ \A o \in Process : Running(o) => Outputs(Job(o)) \cap Outputs(Job(p)) = {}
  /\ Goto(p, Job(p).tool)
  /\ UNCHANGED <<disk, script, there, objHash, data, reading>>

-----------------------------------------------------------------------------
(* Reading a result.  While a file is read its writer may go on writing it, *)
(* or somebody may empty it and write another result.                       *)

Source(p) ==
  IF stage[p] = "load" THEN LoadFile(Req(p), there[p])
  ELSE IF stage[p] = "first" THEN Job(p).inputs[1]
  ELSE IF stage[p] = "next" /\ next[p] <= Len(Job(p).inputs) THEN Job(p).inputs[next[p]]
  ELSE None

(* Of another program, nothing is missing, or the end of the file.          *)
ReadOver(p) ==
  \/ Source(p) = None
  \/ got[p] # << >> /\ got[p][1] # objHash[p]
  \/ Complete(got[p])
  \/ Len(got[p]) >= Len(Content(Source(p)))

(* The readers that have a part of file f, and need more of it.             *)
Halfway(f) == {p \in Process : Source(p) = f /\ got[p] # << >> /\ ~Complete(got[p])}

(* The stream takes what is there, up to any field behind the header, which *)
(* fits its buffer.                                                         *)
ReadBlock(p) ==
  /\ Source(p) # None /\ ~ReadOver(p)
  /\ LET f == Content(Source(p))
     IN  \E n \in Len(got[p]) + 1 .. Len(f) :
           /\ n >= HeaderSize \/ n = Len(f)
           /\ got' = [got EXCEPT ![p] = @ \o SubSeq(f, Len(@) + 1, n)]
  /\ torn' = IF Source(p) \in mixed THEN torn \cup {p} ELSE torn
  /\ UNCHANGED <<disk, script, stage, there, objHash, data, next, mixed>>

EndRead(p) ==
  /\ ReadOver(p)
  /\ got' = [got EXCEPT ![p] = << >>]
  /\ UNCHANGED <<torn, mixed>>

-----------------------------------------------------------------------------
(* The verifier.                                                            *)

(* Mutant: only a file that is loaded is looked for.                        *)
FilesFailOnLoad(q, files) == q.load \in files /\ q.store \in files /\ q.store # q.load
Refuses(q, files) == FilesFail(q, files)

ReadOptions(p) ==
  /\ stage[p] = "verify"
  /\ IF OptionsFail(Req(p)) \/ Refuses(Req(p), DOMAIN disk) THEN Exit(p)
     ELSE /\ Goto(p, "load")
          /\ there' = [there EXCEPT ![p] = DOMAIN disk]
          /\ objHash' = [objHash EXCEPT ![p] = Job(p).design]
          /\ UNCHANGED <<disk, script, data, reading>>

(* No file: the analysis starts with no run.                                *)
Fresh(p) == [hash |-> objHash[p], params |-> Params(p), runs |-> 0,
             sums |-> [i \in 1 .. Length(p) |-> 0]]

Load(p) ==
  /\ stage[p] = "load" /\ ReadOver(p)
  /\ LET file == Source(p) # None
         f    == got[p]
         d    == IF file THEN Loaded(f, objHash[p]) ELSE Fresh(p)
     IN  IF file /\ ~(SameHash(f, objHash[p], objHash[p]) /\ HasIntegrity(d, Params(p), Length(p)))
         THEN Exit(p)
         ELSE /\ SetData(p, d)
              /\ Goto(p, "analyze")
              /\ EndRead(p)
              /\ UNCHANGED <<disk, script, there, objHash>>

PlannedRuns(p) == NumThreads(Req(p)) * RunsPerThread(Plan(p), NumThreads(Req(p)))

(* A round of no samples is a division by zero.  Otherwise all planned runs *)
(* are made, or fewer if somebody stops them.                               *)
Analyze(p) ==
  /\ stage[p] = "analyze"
  /\ IF SamplesAtOnce(Plan(p), NumThreads(Req(p))) = 0 THEN Exit(p)
     ELSE \E r \in {n \in 0 .. PlannedRuns(p) : n <= MaxRuns} \cup {PlannedRuns(p)} :
            /\ SetData(p, Add(data[p], [runs |-> r, sums |-> [i \in 1 .. Length(p) |-> r]]))
            /\ Goto(p, IF Req(p).store = None THEN "report" ELSE "open")
            /\ UNCHANGED <<disk, script, there, objHash, reading>>

(* The report goes over what was in its file.                               *)
Report(p) ==
  /\ stage[p] = "report"
  /\ IF Req(p).report = None THEN Exit(p)
     ELSE /\ WriteFile(Req(p).report, <<"text">>)
          /\ torn' = torn \cup Halfway(Req(p).report)
          /\ mixed' = mixed \ {Req(p).report}
          /\ Goto(p, "return")
          /\ UNCHANGED <<script, there, objHash, data, got>>

Return(p) == stage[p] = "return" /\ Exit(p)

-----------------------------------------------------------------------------
(* Writing a result, in place: the file is emptied first.                   *)

AfterWrite(p) == IF Job(p).tool = "verify" THEN "report" ELSE "return"

Open(p) ==
  /\ stage[p] = "open"
  /\ WriteFile(Target(p), << >>)
  /\ torn' = torn \cup Halfway(Target(p))
  /\ mixed' = IF p \in torn THEN mixed \cup {Target(p)} ELSE mixed \ {Target(p)}
  /\ Goto(p, "write")
  /\ UNCHANGED <<script, there, objHash, data, got>>

Write(p) ==
  /\ stage[p] = "write" /\ next[p] <= Len(Fields(data[p]))
  /\ WriteFile(Target(p), Append(Content(Target(p)), Fields(data[p])[next[p]]))
  /\ next' = [next EXCEPT ![p] = @ + 1]
  /\ UNCHANGED <<script, stage, there, objHash, data, reading>>

Close(p) ==
  /\ stage[p] = "write" /\ next[p] > Len(Fields(data[p]))
  /\ Goto(p, AfterWrite(p))
  /\ UNCHANGED <<disk, script, there, objHash, data, reading>>

(* The rest does not reach the file, and nobody asks the stream.            *)
WriteFails(p) ==
  /\ "write" \in Faults
  /\ stage[p] = "write"
  /\ Goto(p, AfterWrite(p))
  /\ UNCHANGED <<disk, script, there, objHash, data, reading>>

-----------------------------------------------------------------------------
(* The merge tool.                                                          *)

(* The memory for the hash and the first result are made before a file is   *)
(* read.                                                                    *)
CheckOutput(p) ==
  /\ stage[p] = "merge"
  /\ IF Job(p).output \in DOMAIN disk THEN Exit(p)
     ELSE /\ Goto(p, "hash")
          /\ UNCHANGED <<disk, script, there, objHash, data, reading>>

ReadHash(p) ==
  /\ stage[p] = "hash"
  /\ objHash' = [objHash EXCEPT ![p] = FieldOr(Content(Job(p).inputs[1]), 1, @)]
  /\ Goto(p, "first")
  /\ UNCHANGED <<disk, script, there, data, reading>>

ReadFirst(p) ==
  /\ stage[p] = "first" /\ ReadOver(p)
  /\ LET f == got[p]
     IN  IF ~SameHash(f, data[p].hash, objHash[p]) THEN Exit(p)
         ELSE /\ SetData(p, Loaded(f, data[p].hash))
              /\ stage' = [stage EXCEPT ![p] = "next"]
              /\ next' = [next EXCEPT ![p] = 2]
              /\ EndRead(p)
              /\ UNCHANGED <<disk, script, there, objHash>>

ReadNext(p) ==
  /\ stage[p] = "next" /\ next[p] <= Len(Job(p).inputs) /\ ReadOver(p)
  /\ LET f == got[p]
         d == Loaded(f, objHash[p])
     IN  IF ~SameHash(f, objHash[p], objHash[p]) \/ ~Fits(data[p], d) THEN Exit(p)
         ELSE /\ SetData(p, Add(data[p], d))
              /\ next' = [next EXCEPT ![p] = @ + 1]
              /\ EndRead(p)
              /\ UNCHANGED <<disk, script, stage, there, objHash>>

EndInputs(p) ==
  /\ stage[p] = "next" /\ next[p] > Len(Job(p).inputs)
  /\ Goto(p, "open")
  /\ UNCHANGED <<disk, script, there, objHash, data, reading>>

-----------------------------------------------------------------------------
Killed(p) == "kill" \in Faults /\ Running(p) /\ Exit(p)

Next ==
  \E p \in Process :
    \/ Begin(p) \/ ReadBlock(p) \/ ReadOptions(p) \/ Load(p) \/ Analyze(p) \/ Report(p) \/ Return(p)
    \/ Open(p) \/ Write(p) \/ Close(p) \/ WriteFails(p)
    \/ CheckOutput(p) \/ ReadHash(p) \/ ReadFirst(p) \/ ReadNext(p) \/ EndInputs(p)
    \/ Killed(p)

Spec == Init /\ [][Next]_vars
-----------------------------------------------------------------------------
(* Properties.                                                              *)

TypeOK ==
  /\ DOMAIN disk \subseteq File /\ \A f \in DOMAIN disk : IsFile(disk[f])
  /\ script \in [Process -> Seq(VerifyJob \cup MergeJob)]
  /\ stage \in [Process -> {"idle", "verify", "load", "analyze", "open", "write", "report",
                            "return", "merge", "hash", "first", "next"}]
  /\ there \in [Process -> SUBSET File]
  /\ objHash \in [Process -> Hashes]
  /\ data \in [Process -> Result]
  /\ next \in [Process -> Nat \ {0}]
  /\ got = [p \in Process |-> got[p]] /\ \A p \in Process : IsFile(got[p])
  /\ torn \subseteq Process /\ mixed \subseteq File
  /\ \A p \in Process : Running(p) => script[p] # << >>

(* However files are loaded, merged, cut, read while they are written, and  *)
(* continued, in memory and in files a sum that was read counts exactly the *)
(* runs that are claimed: show_suspicious divides one by the other.  The    *)
(* only way to the runs of one result with the sums of another is to have   *)
(* read a file that was emptied between two reads, or what came of that.    *)
NeverWrongCount ==
  /\ \A p \in Process \ torn : \A i \in DOMAIN data[p].sums : data[p].sums[i] \in {Junk, data[p].runs}
  /\ \A f \in DOMAIN disk \ mixed : RightSoFar(disk[f])

(* A verifier continues and stores results of its own design, made with its *)
(* own options, of its own length, whatever file it was given: a cut one, a *)
(* report, one of another design.                                           *)
ContinuesOwnResult ==
  \A p \in Process :
    stage[p] \in {"analyze", "open", "write", "report"} /\ Job(p).tool = "verify" =>
      /\ data[p].hash = Job(p).design
      /\ data[p].params = Params(p)
      /\ Len(data[p].sums) = Length(p)

(* When a file with a result is about to be emptied, the result to be       *)
(* written has its runs: "Store file exists and would be overwritten" is    *)
(* decided long before the file is opened.                                  *)
NothingLost ==
  \A p \in Process :
    stage[p] = "open" /\ Target(p) \in DOMAIN disk =>
      LET f == disk[Target(p)]
      IN  Len(f) >= HeaderSize /\ f[3] <= data[p].runs

(* The samples of one run of every thread, without a bound.                 *)
Round(c, q) == (c.f_given_d + c.secrets * c.f_given_ds) * NumThreads(q)

(* The planned runs take at least the samples asked for, and less than one  *)
(* round more; and at least the data values asked for when no sample count  *)
(* had to be rounded.                                                       *)
PlanCovers ==
  \A p \in Process : stage[p] = "load" /\ Round(Plan(p), Req(p)) \in 1 .. Word - 1 =>
    LET c == Plan(p)
        t == NumThreads(Req(p))
        runs == t * RunsPerThread(c, t)
        perRun == SamplesPerData(c)
        given == {Req(p).f_given_d, Req(p).f_given_ds} \ {None}
    IN  /\ c.samples <= runs * perRun /\ runs * perRun < c.samples + Round(c, Req(p))
        /\ /\ Req(p).data # None \/ Req(p).samples # None
           /\ \A n \in given : n % ParallelSize = 0
           /\ c.data * perRun < Word
           => c.data <= runs
=============================================================================
