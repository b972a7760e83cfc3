--------------------------- MODULE Verifier_proofs ---------------------------
(***************************************************************************)
(* What is proved of Verifier for any number of processes, files, designs   *)
(* and programs, any word size and any faults: however results are cut,     *)
(* merged and continued, they never count wrong, a verifier goes on with    *)
(* its own result only, and no result replaces a larger one.                *)
(***************************************************************************)
EXTENDS Verifier, SequenceTheorems, TLAPS

-----------------------------------------------------------------------------
(* Numbers.                                                                 *)

(* Unsigned numbers wrap into their range.                                  *)
LEMMA WrapType == ASSUME NEW n \in Nat PROVE Wrap(n) \in Number
BY OptionsAssumption DEF Wrap, Number

(* A product of numbers is a number.                                        *)
LEMMA ProductType == ASSUME NEW a \in Nat, NEW b \in Nat PROVE a * b \in Nat
OBVIOUS

LEMMA FactorType ==
  ASSUME NEW a \in Number, NEW b \in Number, NEW c \in Number
  PROVE  Factor(a, b, c) \in Number
<1>1. b * c \in Nat
  BY ProductType DEF Number
<1>2. Wrap(b * c) \in Number
  BY <1>1, WrapType
<1>3. a + Wrap(b * c) \in Nat
  BY <1>2 DEF Number
<1> QED
  BY <1>3, WrapType DEF Factor

LEMMA RoundUpType == ASSUME NEW n \in Number PROVE RoundUp(n) \in Number
<1>1. n % ParallelSize \in Nat /\ n % ParallelSize <= n
  BY OptionsAssumption DEF Number
<1>2. n - (n % ParallelSize) + ParallelSize \in Nat
  BY <1>1, OptionsAssumption DEF Number
<1> QED
  BY <1>2, WrapType DEF RoundUp

LEMMA CeilDivType ==
  ASSUME NEW n \in Nat, NEW m \in Nat \ {0} PROVE CeilDiv(n, m) \in Nat
BY DEF CeilDiv

(* Options that were not refused stand for numbers, and not for no thread.  *)
LEMMA DeriveType ==
  ASSUME NEW q \in Request, ~OptionsFail(q)
  PROVE  /\ Derive(q).f_given_d \in Number /\ Derive(q).f_given_ds \in Number
         /\ Derive(q).secrets \in Number /\ Derive(q).samples \in Number
         /\ NumThreads(q) \in Number \ {0}
<1>1. NumThreads(q) \in Number \ {0}
  BY OptionsAssumption DEF OptionsFail, NumThreads, Given, Request, Option, Number
<1>2. CASE q.epsilon # None
  <2> DEFINE e == q.epsilon
  <2>1. e.hist \in Number /\ e.data \in Number /\ 1 \in Number
    BY <1>2, OptionsAssumption DEF Request, Number
  <2>2. Factor(e.hist, 1, e.hist) \in Nat /\ e.data \in Nat
    <3>1. Factor(e.hist, 1, e.hist) \in Number
      BY <2>1, FactorType
    <3> QED
      BY <2>1, <3>1 DEF Number
  <2>3. e.data * Factor(e.hist, 1, e.hist) \in Nat
    BY <2>2, ProductType
  <2>4. Wrap(e.data * Factor(e.hist, 1, e.hist)) \in Number
    BY <2>3, WrapType
  <2> QED
    BY <1>1, <1>2, <2>1, <2>4 DEF Derive, FromEpsilon, Counts
<1>3. CASE q.epsilon = None
  <2> DEFINE fd == Given(q.f_given_d, DefaultHist)
             fds == Given(q.f_given_ds, DefaultHist)
             s == Given(q.secrets, 1)
             factor == Factor(fd, s, fds)
             samples == IF q.samples = None /\ q.data # None THEN Wrap(q.data * factor)
                        ELSE Given(q.samples, DefaultData * (2 * DefaultHist))
  <2>1. fd \in Number /\ fds \in Number /\ s \in Number
    BY OptionsAssumption DEF Given, Request, Option, Number
  <2>2. factor \in Number
    BY <2>1, FactorType
  <2>3. samples \in Number
    <3>1. CASE q.samples = None /\ q.data # None
      <4>1. q.data \in Nat /\ factor \in Nat
        BY <3>1, <2>2 DEF Request, Option, Number
      <4>2. q.data * factor \in Nat
        BY <4>1, ProductType
      <4> QED
        BY <3>1, <4>2, WrapType
    <3>2. CASE ~(q.samples = None /\ q.data # None)
      BY <3>2, OptionsAssumption DEF Given, Request, Option
    <3> QED
      BY <3>1, <3>2
  <2>4. RoundUp(fd) \in Number /\ RoundUp(fds) \in Number
    BY <2>1, RoundUpType
  <2>5. Derive(q).ok /\ Derive(q) = FromCounts(q)
    BY <1>3 DEF OptionsFail, Derive
  <2>6. \E d : FromCounts(q) \in {Refused, Counts(RoundUp(fd), RoundUp(fds), s, d, samples)}
    BY DEF FromCounts
  <2>7. PICK d : FromCounts(q) = Counts(RoundUp(fd), RoundUp(fds), s, d, samples)
    BY <2>5, <2>6 DEF Refused
  <2> HIDE DEF fd, fds, s, factor, samples
  <2> QED
    BY <1>1, <2>1, <2>3, <2>4, <2>5, <2>7 DEF Counts
<1> QED
  BY <1>2, <1>3

(* A plan with a round of samples is a number of runs.                      *)
LEMMA PlanType ==
  ASSUME NEW q \in Request, ~OptionsFail(q),
         SamplesAtOnce(Derive(q), NumThreads(q)) # 0
  PROVE  NumThreads(q) * RunsPerThread(Derive(q), NumThreads(q)) \in Nat
<1> DEFINE c == Derive(q)
           t == NumThreads(q)
<1>1. c.samples \in Number /\ t \in Number
  BY DeriveType
<1>2. SamplesPerData(c) \in Number
  BY DeriveType, FactorType DEF SamplesPerData
<1>3. SamplesPerData(c) * t \in Nat
  BY <1>1, <1>2, ProductType DEF Number
<1>4. SamplesAtOnce(c, t) \in Nat \ {0}
  BY <1>3, WrapType DEF SamplesAtOnce, Number
<1>5. RunsPerThread(c, t) \in Nat
  BY <1>1, <1>4, CeilDivType DEF RunsPerThread, Number
<1> QED
  BY <1>1, <1>5, ProductType DEF Number

-----------------------------------------------------------------------------
(* Files and results.                                                       *)

(* A list of n values of S is a sequence over S.                            *)
LEMMA ListIsSeq ==
  ASSUME NEW S, NEW n \in Nat, NEW f \in [1 .. n -> S]
  PROVE  f \in Seq(S) /\ Len(f) = n
<1>1. f \in Seq(S)
  BY SeqDef
<1>2. Len(f) \in Nat /\ DOMAIN f = 1 .. Len(f)
  BY <1>1, LenProperties
<1>3. 1 .. n = 1 .. Len(f)
  BY <1>2
<1> QED
  BY <1>1, <1>2, <1>3

LEMMA FileIsSeq ==
  ASSUME NEW f, IsFile(f)
  PROVE  \E S : f \in Seq(S)
<1> DEFINE S == {f[i] : i \in 1 .. Len(f)}
<1>1. f \in [1 .. Len(f) -> S]
  BY DEF IsFile
<1> QED
  BY <1>1, ListIsSeq DEF IsFile

(* The sums of a result count its runs.                                     *)
RightCount(d) == \A i \in DOMAIN d.sums : d.sums[i] \in {Junk, d.runs}

(* What is read from a file, however short, is a result, and if its sums    *)
(* count its runs then so do those that were read.                          *)
LEMMA LoadedType ==
  ASSUME NEW f, IsFile(f), NEW mem \in Hashes
  PROVE  /\ Loaded(f, mem) \in Result
         /\ RightSoFar(f) => RightCount(Loaded(f, mem))
<1> DEFINE n == FieldOr(f, HeaderSize, 0)
           runs == FieldOr(f, 3, 0)
           sums == [i \in 1 .. n |-> FieldOr(f, HeaderSize + i, Junk)]
<1>1. n \in Nat /\ runs \in Nat
  BY DEF IsFile, FieldOr, HeaderSize
<1>2. FieldOr(f, 1, mem) \in Hashes /\ FieldOr(f, 2, NoParams) \in ParamSet
  BY DEF IsFile, FieldOr, ParamSet
<1>3. ASSUME NEW i \in 1 .. n, HeaderSize + i <= Len(f)
      PROVE  HeaderSize + i \in HeaderSize + 1 .. Len(f) /\ 3 <= Len(f)
  BY <1>1, <1>3 DEF IsFile, HeaderSize
<1>4. \A i \in 1 .. n : FieldOr(f, HeaderSize + i, Junk) \in Nat \cup {Junk}
  BY <1>3 DEF FieldOr, IsFile
<1>5. ASSUME RightSoFar(f), NEW i \in 1 .. n
      PROVE  FieldOr(f, HeaderSize + i, Junk) \in {Junk, runs}
  BY <1>3, <1>5 DEF FieldOr, RightSoFar
<1>6. sums \in [1 .. n -> Nat \cup {Junk}]
  <2> HIDE DEF n
  <2> QED
    BY <1>4
<1>7. sums \in Seq(Nat \cup {Junk})
  BY <1>1, <1>6, ListIsSeq
<1> QED
  BY <1>1, <1>2, <1>5, <1>7 DEF Loaded, Result, RightCount

(* Adding results of the same length.                                       *)
LEMMA AddType ==
  ASSUME NEW d \in Result, NEW other, other.runs \in Nat,
         other.sums \in Seq(Nat \cup {Junk}), Len(d.sums) = Len(other.sums)
  PROVE  /\ Add(d, other) \in Result
         /\ RightCount(d) /\ RightCount(other) => RightCount(Add(d, other))
         /\ Add(d, other).hash = d.hash /\ Add(d, other).params = d.params
         /\ Add(d, other).runs = d.runs + other.runs
         /\ Len(Add(d, other).sums) = Len(d.sums)
<1> DEFINE n == Len(d.sums)
           sums == [i \in DOMAIN d.sums |-> AddSum(d.sums[i], other.sums[i])]
<1>1. /\ n \in Nat /\ DOMAIN d.sums = 1 .. n /\ DOMAIN other.sums = 1 .. n
      /\ d.runs \in Nat
  BY LenProperties DEF Result
<1>2. \A i \in 1 .. n : RightCount(d) /\ RightCount(other) => sums[i] \in {Junk, d.runs + other.runs}
  BY <1>1 DEF AddSum, RightCount
<1>3. sums \in [1 .. n -> Nat \cup {Junk}]
  <2>1. sums = [i \in 1 .. n |-> sums[i]]
    BY <1>1
  <2>2. \A i \in 1 .. n : d.sums[i] \in Nat \cup {Junk} /\ other.sums[i] \in Nat \cup {Junk}
    BY <1>1, ElementOfSeq DEF Result
  <2>3. \A i \in 1 .. n : sums[i] \in Nat \cup {Junk}
    BY <1>1, <2>2 DEF AddSum
  <2> HIDE DEF n, sums
  <2> QED
    BY <2>1, <2>3
<1>4. sums \in Seq(Nat \cup {Junk}) /\ Len(sums) = n
  BY <1>1, <1>3, ListIsSeq
<1>5. Add(d, other) = [hash |-> d.hash, params |-> d.params, runs |-> d.runs + other.runs,
                       sums |-> sums]
  <2>1. Add(d, other) = [d EXCEPT !.runs = d.runs + other.runs, !.sums = sums]
    BY DEF Add
  <2> HIDE DEF sums
  <2> QED
    BY <2>1 DEF Result
<1> HIDE DEF sums
<1>6. DOMAIN sums = 1 .. n
  BY <1>3
<1> QED
  BY <1>1, <1>2, <1>4, <1>5, <1>6 DEF Result, RightCount

(* The fields of a result, one by one.                                      *)
LEMMA FieldsOf ==
  ASSUME NEW d \in Result
  PROVE  /\ Len(Fields(d)) = HeaderSize + Len(d.sums)
         /\ Fields(d)[1] = d.hash /\ Fields(d)[2] = d.params
         /\ Fields(d)[3] = d.runs /\ Fields(d)[4] = Len(d.sums)
         /\ \A i \in HeaderSize + 1 .. Len(Fields(d)) : Fields(d)[i] = d.sums[i - HeaderSize]
         /\ \E S : Fields(d) \in Seq(S)
<1> DEFINE head == <<d.hash, d.params, d.runs, Len(d.sums)>>
           S == {d.hash, d.params, d.runs, Len(d.sums)} \cup Nat \cup {Junk}
<1>1. d.sums \in Seq(Nat \cup {Junk}) /\ Len(d.sums) \in Nat
  BY LenProperties DEF Result
<1>2. d.sums \in Seq(S)
  BY <1>1, SeqMonotonic
<1>3. head \in Seq(S) /\ Len(head) = 4
  OBVIOUS
<1>4. head[1] = d.hash /\ head[2] = d.params /\ head[3] = d.runs /\ head[4] = Len(d.sums)
  OBVIOUS
<1> HIDE DEF head, S
<1>5. /\ head \o d.sums \in Seq(S)
      /\ Len(head \o d.sums) = Len(head) + Len(d.sums)
      /\ \A i \in 1 .. Len(head) + Len(d.sums) :
           (head \o d.sums)[i] = IF i <= Len(head) THEN head[i] ELSE d.sums[i - Len(head)]
  BY <1>2, <1>3, ConcatProperties
<1>6. /\ Len(head \o d.sums) = 4 + Len(d.sums)
      /\ \A i \in 1 .. 4 + Len(d.sums) :
           (head \o d.sums)[i] = IF i <= 4 THEN head[i] ELSE d.sums[i - 4]
  BY <1>3, <1>5
<1>7. Fields(d) = head \o d.sums
  BY DEF Fields, head
<1> QED
  BY <1>1, <1>4, <1>5, <1>6, <1>7 DEF HeaderSize

(* A file with the first fields of a result, and then the next one.         *)
LEMMA FileExtended ==
  ASSUME NEW f, IsFile(f), NEW d \in Result,
         NEW n \in Nat \ {0}, n <= Len(Fields(d)), Len(f) = n - 1,
         \A i \in 1 .. n - 1 : f[i] = Fields(d)[i]
  PROVE  LET g == Append(f, Fields(d)[n])
         IN  /\ IsFile(g) /\ Len(g) = n
             /\ RightCount(d) => RightSoFar(g)
             /\ \A i \in 1 .. n : g[i] = Fields(d)[i]
<1> DEFINE g == Append(f, Fields(d)[n])
<1>1. PICK S : f \in Seq(S)
  BY FileIsSeq
<1> DEFINE T == S \cup {Fields(d)[n]}
<1>2. f \in Seq(T) /\ Fields(d)[n] \in T
  BY <1>1, SeqMonotonic
<1>3. /\ g \in Seq(T) /\ Len(g) = Len(f) + 1
      /\ \A i \in 1 .. Len(f) : g[i] = f[i]
      /\ g[Len(f) + 1] = Fields(d)[n]
  BY <1>2, AppendProperties
<1> HIDE DEF g, T
<1>4. Len(g) = n /\ \A i \in 1 .. n : g[i] = Fields(d)[i]
  BY <1>3
<1>5. g = [i \in 1 .. Len(g) |-> g[i]]
  BY <1>3, LenProperties
<1>6. Len(d.sums) \in Nat /\ DOMAIN d.sums = 1 .. Len(d.sums)
  BY LenProperties DEF Result
<1>7. /\ Len(Fields(d)) = 4 + Len(d.sums)
      /\ Fields(d)[1] = d.hash /\ Fields(d)[2] = d.params
      /\ Fields(d)[3] = d.runs /\ Fields(d)[4] = Len(d.sums)
      /\ \A i \in 5 .. Len(Fields(d)) : Fields(d)[i] = d.sums[i - 4]
  BY FieldsOf DEF HeaderSize
<1>8. IsFile(g)
  <2>1. 1 <= n => g[1] \in Hashes
    BY <1>4, <1>7 DEF Result
  <2>2. 2 <= n => g[2] \in ParamSet
    BY <1>4, <1>7 DEF Result
  <2>3. 3 <= n => g[3] \in Nat
    BY <1>4, <1>7 DEF Result
  <2>4. 4 <= n => g[4] \in Nat
    BY <1>4, <1>6, <1>7
  <2>5. ASSUME NEW i \in 5 .. n PROVE g[i] \in Nat \cup {Junk}
    <3>1. i \in 1 .. n /\ i \in 5 .. Len(Fields(d)) /\ i - 4 \in 1 .. Len(d.sums)
      BY <1>6, <1>7
    <3>2. g[i] = d.sums[i - 4]
      BY <1>4, <1>7, <3>1
    <3> QED
      BY <3>1, <3>2, ElementOfSeq DEF Result
  <2> QED
    BY <1>4, <1>5, <2>1, <2>2, <2>3, <2>4, <2>5 DEF IsFile, HeaderSize
<1>9. ASSUME RightCount(d) PROVE RightSoFar(g)
  <2> SUFFICES ASSUME NEW i \in 5 .. n PROVE g[i] \in {Junk, g[3]}
    BY <1>4 DEF RightSoFar, HeaderSize
  <2>1. g[i] = d.sums[i - 4] /\ i - 4 \in DOMAIN d.sums
    BY <1>4, <1>6, <1>7
  <2>2. g[3] = d.runs
    BY <1>4, <1>7
  <2> QED
    BY <1>9, <2>1, <2>2 DEF RightCount
<1> QED
  BY <1>4, <1>8, <1>9 DEF g

(* An empty file is a file.                                                 *)
LEMMA NoFile == IsFile(<< >>) /\ RightSoFar(<< >>) /\ Len(<< >>) = 0
BY EmptySeq DEF IsFile, RightSoFar, HeaderSize

(* What was read is the beginning of file f.                                *)
Begins(g, f) == Len(g) <= Len(f) /\ \A i \in 1 .. Len(g) : g[i] = f[i]

(* More of a file behind what was read, of the same file or not.            *)
LEMMA BlockRead ==
  ASSUME NEW g, IsFile(g), NEW f, IsFile(f), NEW n \in Len(g) + 1 .. Len(f)
  PROVE  LET h == g \o SubSeq(f, Len(g) + 1, n)
         IN  /\ IsFile(h)
             /\ Begins(g, f) => /\ Begins(h, f)
                                /\ RightSoFar(f) => RightSoFar(h)
<1> DEFINE block == SubSeq(f, Len(g) + 1, n)
           h == g \o block
<1>1. Len(g) \in Nat /\ Len(f) \in Nat
  BY DEF IsFile
<1>2. PICK S : g \in Seq(S)
  BY FileIsSeq
<1>3. PICK T : f \in Seq(T)
  BY FileIsSeq
<1>4. /\ block \in Seq(T) /\ Len(block) = n - Len(g)
      /\ \A i \in 1 .. n - Len(g) : block[i] = f[Len(g) + i]
  <2>1. Len(g) + 1 \in 1 .. Len(f) + 1 /\ n \in Len(g) .. Len(f)
    BY <1>1
  <2>2. \A i \in Len(g) + 1 .. n : f[i] \in T
    BY <1>1, <1>3, ElementOfSeq
  <2> QED
    BY <1>1, <1>3, <2>1, <2>2, SubSeqProperties
<1> HIDE DEF block
<1>5. g \in Seq(S \cup T) /\ block \in Seq(S \cup T)
  BY <1>2, <1>4, SeqMonotonic
<1>6. /\ h \in Seq(S \cup T) /\ Len(h) = Len(g) + Len(block)
      /\ \A i \in 1 .. Len(g) + Len(block) :
           h[i] = IF i <= Len(g) THEN g[i] ELSE block[i - Len(g)]
  BY <1>5, ConcatProperties
<1> HIDE DEF h
<1>7. Len(h) = n /\ n \in Nat /\ n <= Len(f)
  BY <1>1, <1>4, <1>6
<1>8. ASSUME NEW i \in 1 .. n PROVE h[i] = IF i <= Len(g) THEN g[i] ELSE f[i]
  <2>1. CASE i <= Len(g)
    BY <1>1, <1>4, <1>6, <1>7, <2>1
  <2>2. CASE ~(i <= Len(g))
    <3> DEFINE k == i - Len(g)
    <3>1. k \in 1 .. n - Len(g) /\ Len(g) + k = i
      BY <1>1, <1>7, <2>2
    <3>2. h[i] = block[k]
      BY <1>1, <1>4, <1>6, <1>7, <2>2
    <3> HIDE DEF k
    <3> QED
      BY <1>4, <2>2, <3>1, <3>2
  <2> QED
    BY <2>1, <2>2
<1>9. h = [i \in 1 .. Len(h) |-> h[i]]
  BY <1>6, LenProperties
<1>10. IsFile(h)
  <2>1. /\ 1 <= n => h[1] \in Hashes
        /\ 2 <= n => h[2] \in ParamSet
        /\ 3 <= n => h[3] \in Nat
        /\ 4 <= n => h[4] \in Nat
    BY <1>1, <1>7, <1>8 DEF IsFile, HeaderSize
  <2>2. \A i \in 5 .. n : h[i] \in Nat \cup {Junk}
    BY <1>1, <1>7, <1>8 DEF IsFile, HeaderSize
  <2> QED
    BY <1>7, <1>9, <2>1, <2>2 DEF IsFile, HeaderSize
<1>11. ASSUME Begins(g, f) PROVE Begins(h, f)
  BY <1>1, <1>7, <1>8, <1>11 DEF Begins
<1>12. ASSUME Begins(g, f), RightSoFar(f) PROVE RightSoFar(h)
  <2>1. \A i \in 1 .. n : h[i] = f[i]
    BY <1>7, <1>11, <1>12 DEF Begins
  <2> QED
    BY <1>7, <1>12, <2>1 DEF RightSoFar, HeaderSize
<1> QED
  BY <1>10, <1>11, <1>12 DEF h, block

-----------------------------------------------------------------------------
(* The invariant: besides the properties themselves, nobody but one process *)
(* writes a file; what a process writes is the beginning of its result;     *)
(* what it read is the beginning of a file, unless that was emptied; and    *)
(* the file it will write is still as it was when it looked.                *)

OneWriter ==
  \A o, p \in Process :
    o # p /\ Running(o) /\ Running(p) => Outputs(Job(o)) \cap Outputs(Job(p)) = {}

RightTool(p) ==
  /\ stage[p] \in {"verify", "load", "analyze", "report"} => Job(p).tool = "verify"
  /\ stage[p] \in {"merge", "hash", "first", "next"} => Job(p).tool = "merge"
  /\ stage[p] \in {"open", "write"} => Target(p) \in File

Accepted(p) ==
  Running(p) /\ stage[p] # "verify" /\ Job(p).tool = "verify" =>
    ~OptionsFail(Req(p)) /\ objHash[p] = Job(p).design

OwnResult(p) ==
  stage[p] \in {"analyze", "open", "write", "report"} /\ Job(p).tool = "verify" =>
    /\ data[p].hash = Job(p).design
    /\ data[p].params = Params(p)
    /\ Len(data[p].sums) = Length(p)

PartWritten(p) ==
  stage[p] = "write" =>
    /\ Target(p) \in DOMAIN disk
    /\ next[p] <= Len(Fields(data[p])) + 1
    /\ Len(disk[Target(p)]) = next[p] - 1
    /\ \A i \in 1 .. next[p] - 1 : disk[Target(p)][i] = Fields(data[p])[i]
    /\ p \in torn => Target(p) \in mixed

(* Nobody else changes a file the process itself will write.                *)
Reliable(p) ==
  Source(p) # None /\ (Source(p) \in Outputs(Job(p)) \/ (p \notin torn /\ ~Complete(got[p])))

PartRead(p) ==
  /\ p \notin torn => RightSoFar(got[p])
  /\ Reliable(p) => Begins(got[p], Content(Source(p)))
  /\ Source(p) = None => got[p] = << >>

TargetKept(p) ==
  Running(p) /\ Target(p) \in DOMAIN disk =>
    /\ stage[p] = "load" => Target(p) \in there[p] /\ Target(p) = LoadFile(Req(p), there[p])
    /\ stage[p] \in {"analyze", "open"} =>
         /\ Len(disk[Target(p)]) >= HeaderSize
         /\ disk[Target(p)][3] <= data[p].runs
    /\ stage[p] \notin {"hash", "first", "next"}

ProcInv(p) ==
  RightTool(p) /\ Accepted(p) /\ OwnResult(p) /\ PartWritten(p) /\ PartRead(p) /\ TargetKept(p)

VInv == TypeOK /\ NeverWrongCount /\ OneWriter /\ \A p \in Process : ProcInv(p)

(* The program of a process, and what it writes.                            *)
LEMMA JobType ==
  ASSUME TypeOK, NEW p \in Process, Running(p) \/ script[p] # << >>
  PROVE  /\ script[p] # << >> /\ Job(p) \in VerifyJob \cup MergeJob
         /\ Job(p).tool = "verify" => /\ Job(p).design \in Hash /\ Req(p) \in Request
                                      /\ Length(p) \in Nat \ {0}
         /\ Job(p).tool # "verify" => Job(p).tool = "merge" /\ Job(p) \in MergeJob
         /\ Outputs(Job(p)) \subseteq File
         /\ Target(p) \in File => Target(p) \in Outputs(Job(p))
<1>1. script[p] # << >> /\ script[p] \in Seq(VerifyJob \cup MergeJob)
  BY DEF TypeOK
<1>2. Job(p) \in VerifyJob \cup MergeJob
  BY <1>1, EmptySeq, ElementOfSeq DEF Job
<1>3. CASE Job(p) \in VerifyJob
  BY <1>1, <1>3, OptionsAssumption, VerifierAssumption
  DEF VerifyJob, Req, Request, Length, Outputs, Target
<1>4. CASE Job(p) \in MergeJob
  BY <1>1, <1>4 DEF MergeJob, Outputs, Target
<1> QED
  BY <1>2, <1>3, <1>4

-----------------------------------------------------------------------------
(* A step of one process, and the others.                                   *)

Same(o) ==
  /\ script'[o] = script[o] /\ stage'[o] = stage[o] /\ there'[o] = there[o]
  /\ objHash'[o] = objHash[o] /\ data'[o] = data[o] /\ next'[o] = next[o]
  /\ got'[o] = got[o] /\ (o \in torn => o \in torn')
  /\ o \in torn' => o \in torn \/ Source(o) # None

SameFile(f) ==
  /\ (f \in DOMAIN disk' <=> f \in DOMAIN disk) /\ (f \in DOMAIN disk => disk'[f] = disk[f])
  /\ f \in mixed' <=> f \in mixed

(* Readers find the beginning as it was, or are known to have lost it.      *)
Keeps(f) == Begins(Content(f), Content(f)') \/ Halfway(f) \subseteq torn'

LEMMA SameIsKept ==
  ASSUME TypeOK, NEW f, SameFile(f)
  PROVE  Content(f)' = Content(f) /\ Keeps(f)
<1>1. Content(f)' = Content(f)
  BY DEF SameFile, Content
<1>2. Len(Content(f)) \in Nat
  BY NoFile DEF TypeOK, IsFile, Content
<1> QED
  BY <1>1, <1>2 DEF Keeps, Begins

LEMMA OthersKeep ==
  ASSUME TypeOK, TypeOK', NEW o \in Process, ProcInv(o), Same(o),
         Running(o) => \A f \in Outputs(Job(o)) : SameFile(f),
         \A f : Keeps(f)
  PROVE  ProcInv(o)'
<1>1. /\ Running(o)' <=> Running(o)
      /\ Job(o)' = Job(o) /\ Req(o)' = Req(o) /\ Plan(o)' = Plan(o) /\ Params(o)' = Params(o)
      /\ Length(o)' = Length(o) /\ Target(o)' = Target(o)
      /\ stage'[o] = stage[o] /\ there'[o] = there[o] /\ objHash'[o] = objHash[o]
      /\ data'[o] = data[o] /\ next'[o] = next[o] /\ got'[o] = got[o]
      /\ Source(o)' = Source(o)
  BY DEF Same, Running, Job, Req, Plan, Params, Length, Target, Source
<1>2. RightTool(o)'
  BY <1>1 DEF ProcInv, RightTool
<1>3. Accepted(o)'
  BY <1>1 DEF ProcInv, Accepted
<1>4. OwnResult(o)'
  BY <1>1 DEF ProcInv, OwnResult
<1>5. ASSUME Running(o), Target(o) \in File PROVE SameFile(Target(o))
  BY <1>5, JobType
<1>6. PartWritten(o)'
  <2> SUFFICES ASSUME stage[o] = "write" PROVE PartWritten(o)'
    BY <1>1 DEF PartWritten
  <2>1. SameFile(Target(o))
    BY <1>5 DEF ProcInv, RightTool, Running
  <2>2. o \in torn' => o \in torn
    BY DEF Same, Source
  <2> QED
    BY <1>1, <2>1, <2>2 DEF ProcInv, PartWritten, SameFile
<1>7. TargetKept(o)'
  <2> SUFFICES ASSUME Running(o), Target(o) \in DOMAIN disk' PROVE TargetKept(o)'
    BY <1>1 DEF TargetKept
  <2>1. SameFile(Target(o))
    BY <1>5 DEF TypeOK
  <2> QED
    BY <1>1, <2>1 DEF ProcInv, TargetKept, SameFile
<1>8. PartRead(o)'
  <2>1. (o \notin torn' => RightSoFar(got[o])') /\ (Source(o)' = None => got'[o] = << >>)
    BY <1>1 DEF Same, ProcInv, PartRead
  <2>2. ASSUME Reliable(o)' PROVE Begins(got[o], Content(Source(o)))'
    <3>1. Source(o) # None /\ Outputs(Job(o))' = Outputs(Job(o)) /\ Running(o)
      BY <1>1, <2>2 DEF Reliable, Outputs, Source, Running
    <3>2. Reliable(o)
      BY <1>1, <2>2, <3>1 DEF Reliable, Same
    <3>3. Begins(got[o], Content(Source(o)))
      BY <3>2 DEF ProcInv, PartRead
    <3>4. PICK f : f = Source(o)
      OBVIOUS
    <3>5. Source(o)' = f /\ got'[o] = got[o] /\ Content(Source(o))' = Content(f)'
      BY <1>1, <3>4 DEF Content
    <3>6. CASE f \in Outputs(Job(o))
      <4>1. Content(f)' = Content(f)
        BY <3>1, <3>6, SameIsKept
      <4> QED
        BY <3>3, <3>4, <3>5, <4>1 DEF Begins
    <3>7. CASE o \notin torn' /\ ~Complete(got[o])
      <4>1. Len(got[o]) \in Nat /\ Len(Content(f)) \in Nat /\ Len(Content(f)') \in Nat
        <5>1. IsFile(got[o]) /\ IsFile(Content(f)) /\ IsFile(Content(f)')
          BY <1>1, NoFile DEF TypeOK, Content
        <5> QED
          BY <5>1 DEF IsFile
      <4>2. CASE Begins(Content(f), Content(f)')
        BY <3>3, <3>4, <3>5, <4>1, <4>2 DEF Begins
      <4>3. CASE Halfway(f) \subseteq torn'
        <5>1. got[o] = << >>
          BY <3>4, <3>7, <4>3 DEF Halfway
        <5> QED
          BY <3>5, <4>1, <5>1, NoFile DEF Begins
      <4> QED
        BY <4>2, <4>3 DEF Keeps
    <3> QED
      BY <1>1, <2>2, <3>1, <3>4, <3>6, <3>7 DEF Reliable
  <2> QED
    BY <2>1, <2>2 DEF PartRead
<1> QED
  BY <1>2, <1>3, <1>4, <1>6, <1>7, <1>8 DEF ProcInv

(* Whoever goes on with the same program, or ends it, writes nothing new.   *)
LEMMA WritersKeep ==
  ASSUME OneWriter, NEW p \in Process, \A o \in Process \ {p} : Same(o),
         Running(p)' => Running(p) /\ script'[p] = script[p]
  PROVE  OneWriter'
<1>1. \A o \in Process : Running(o)' => Running(o) /\ Job(o)' = Job(o)
  BY DEF Same, Running, Job
<1>2. \A o \in Process : Running(o)' => Outputs(Job(o))' = Outputs(Job(o))
  BY <1>1 DEF Outputs
<1> QED
  BY <1>1, <1>2 DEF OneWriter

LEMMA StepKeeps ==
  ASSUME VInv, NEW p \in Process, \A o \in Process \ {p} : Same(o),
         \A f \in File : SameFile(f) \/ (Running(p) /\ f \in Outputs(Job(p)) /\ Keeps(f)),
         TypeOK', NeverWrongCount', OneWriter', ProcInv(p)'
  PROVE  VInv'
<1>0. ASSUME NEW f PROVE Keeps(f)
  <2>1. CASE f \in File
    BY <2>1, SameIsKept DEF VInv
  <2>2. CASE f \notin File
    <3>1. Content(f) = << >> /\ Content(f)' = << >>
      BY <2>2 DEF VInv, TypeOK, Content
    <3> QED
      BY <3>1, NoFile DEF Keeps, Begins
  <2> QED
    BY <2>1, <2>2
<1>1. ASSUME NEW o \in Process \ {p} PROVE ProcInv(o)'
  <2>1. ASSUME Running(o), NEW f \in Outputs(Job(o)) PROVE SameFile(f)
    <3>1. f \in File
      BY <2>1, JobType DEF VInv
    <3> QED
      BY <2>1, <3>1 DEF VInv, OneWriter
  <2> QED
    BY <1>0, <2>1, OthersKeep DEF VInv
<1>2. \A o \in Process : ProcInv(o)'
  BY <1>1
<1> QED
  BY <1>2 DEF VInv

(* A process that has read nothing of a file.                               *)
LEMMA NothingRead ==
  ASSUME TypeOK', NEW p \in Process, got'[p] = << >>
  PROVE  PartRead(p)'
<1>1. IsFile(Content(Source(p))')
  BY NoFile DEF TypeOK, Content
<1> QED
  BY <1>1, NoFile DEF PartRead, Begins, IsFile

(* The end of a program, however it comes.                                  *)
LEMMA ExitKeeps ==
  ASSUME VInv, NEW p \in Process, Running(p), Exit(p)
  PROVE  VInv'
<1>0. TypeOK /\ NeverWrongCount /\ OneWriter
  BY DEF VInv
<1>1. script[p] # << >> /\ script[p] \in Seq(VerifyJob \cup MergeJob)
  BY <1>0 DEF TypeOK
<1>2. Tail(script[p]) \in Seq(VerifyJob \cup MergeJob)
  BY <1>1, HeadTailProperties
<1>3. NewData(Junk) \in Result /\ RightCount(NewData(Junk))
  <2>1. << >> \in Seq(Nat \cup {Junk}) /\ DOMAIN << >> = {}
    BY EmptySeq
  <2> QED
    BY <2>1 DEF NewData, Result, Hashes, ParamSet, RightCount
<1>4. TypeOK'
  BY <1>0, <1>2, <1>3, NoFile DEF TypeOK, Exit, Goto, Running, Hashes
<1>5. NeverWrongCount'
  BY <1>0, <1>3 DEF NeverWrongCount, RightCount, Exit, TypeOK
<1>6. ~Running(p)' /\ \A o \in Process \ {p} : Same(o)
  BY <1>0 DEF Exit, Goto, Same, TypeOK, Running
<1>7. ProcInv(p)'
  <2>1. PartRead(p)'
    BY <1>0, <1>4, NothingRead DEF Exit, TypeOK
  <2> QED
    BY <1>6, <2>1 DEF ProcInv, RightTool, Accepted, OwnResult, PartWritten, TargetKept, Running
<1>8. OneWriter'
  BY <1>0, <1>6, WritersKeep
<1>9. \A f \in File : SameFile(f)
  BY DEF Exit, SameFile
<1> QED
  BY <1>4, <1>5, <1>6, <1>7, <1>8, <1>9, StepKeeps

(* A step with the same program that leaves the disk alone.                 *)
LEMMA QuietKeeps ==
  ASSUME VInv, NEW p \in Process, Running(p), UNCHANGED <<disk, script, mixed>>,
         \A o \in Process \ {p} : Same(o),
         TypeOK', p \notin torn' => RightCount(data'[p]), ProcInv(p)'
  PROVE  VInv'
<1>1. NeverWrongCount'
  BY DEF VInv, NeverWrongCount, RightCount, Same
<1>2. OneWriter'
  BY WritersKeep DEF VInv
<1>3. \A f \in File : SameFile(f)
  BY DEF SameFile
<1> QED
  BY <1>1, <1>2, <1>3, StepKeeps

LEMMA ContentType ==
  ASSUME VInv, NEW f
  PROVE  IsFile(Content(f)) /\ (f \notin mixed => RightSoFar(Content(f)))
BY NoFile DEF VInv, TypeOK, NeverWrongCount, Content

(* A process that reads no file has read nothing.                           *)
LEMMA ReadsNothing ==
  ASSUME VInv, NEW p \in Process, Source(p) = None
  PROVE  got[p] = << >> /\ got = [got EXCEPT ![p] = << >>]
<1>1. got[p] = << >> /\ got = [o \in Process |-> got[o]]
  BY DEF VInv, ProcInv, PartRead, TypeOK
<1> QED
  BY <1>1

LEMMA BeginKeeps ==
  ASSUME VInv, NEW p \in Process, Begin(p)
  PROVE  VInv'
<1>1. TypeOK /\ NeverWrongCount /\ OneWriter
  BY DEF VInv
<1>2. script[p] # << >> /\ Job(p).tool \in {"verify", "merge"}
  <2>1. script[p] # << >>
    BY DEF Begin
  <2> QED
    BY <1>1, <2>1, JobType
<1>3. TypeOK'
  BY <1>1, <1>2 DEF TypeOK, Begin, Goto, Running, reading
<1>4. NeverWrongCount'
  BY <1>1 DEF NeverWrongCount, Begin, reading
<1>5. \A o \in Process \ {p} : Same(o) /\ (Running(o)' <=> Running(o)) /\ Job(o)' = Job(o)
  BY <1>1 DEF TypeOK, Begin, Goto, Same, Running, Job, reading
<1>6. OneWriter'
  <2>1. \A o \in Process : Job(o)' = Job(o) /\ Outputs(Job(o))' = Outputs(Job(o))
    BY DEF Begin, Job, Outputs
  <2>2. \A o \in Process \ {p} : Running(o)' => Outputs(Job(o)) \cap Outputs(Job(p)) = {}
    BY <1>5 DEF Begin
  <2>3. SUFFICES ASSUME NEW o \in Process, NEW q \in Process, o # q, Running(o)', Running(q)'
                 PROVE  Outputs(Job(o)) \cap Outputs(Job(q)) = {}
    BY <2>1 DEF OneWriter
  <2>4. CASE o = p \/ q = p
    BY <2>2, <2>3, <2>4
  <2>5. CASE o # p /\ q # p
    BY <1>1, <1>5, <2>3, <2>5 DEF OneWriter
  <2> QED
    BY <2>4, <2>5
<1>7. ProcInv(p)'
  <2>1. stage'[p] = Job(p).tool /\ Job(p)' = Job(p)
    BY <1>1 DEF TypeOK, Begin, Goto, Job
  <2>2. Source(p) = None /\ got' = got
    BY DEF Begin, Running, Source, reading
  <2>3. PartRead(p)'
    BY <1>3, <2>2, ReadsNothing, NothingRead
  <2> QED
    BY <1>2, <2>1, <2>3 DEF ProcInv, RightTool, Accepted, OwnResult, PartWritten, TargetKept, Running
<1>8. \A f \in File : SameFile(f)
  BY DEF Begin, SameFile, reading
<1> QED
  BY <1>3, <1>4, <1>5, <1>6, <1>7, <1>8, StepKeeps

LEMMA ReadOptionsKeeps ==
  ASSUME VInv, NEW p \in Process, ReadOptions(p)
  PROVE  VInv'
<1>1. TypeOK /\ ProcInv(p) /\ stage[p] = "verify" /\ Running(p)
  BY DEF VInv, ReadOptions, Running
<1>2. CASE Exit(p)
  BY <1>1, <1>2, ExitKeeps
<1>3. CASE ~Exit(p)
  <2>1. /\ ~OptionsFail(Req(p)) /\ ~FilesFail(Req(p), DOMAIN disk)
        /\ stage' = [stage EXCEPT ![p] = "load"] /\ next' = [next EXCEPT ![p] = 1]
        /\ there' = [there EXCEPT ![p] = DOMAIN disk]
        /\ objHash' = [objHash EXCEPT ![p] = Job(p).design]
        /\ disk' = disk /\ script' = script /\ data' = data
        /\ got' = got /\ torn' = torn /\ mixed' = mixed
    BY <1>3 DEF ReadOptions, Goto, Refuses, reading
  <2>2. Job(p).tool = "verify" /\ Job(p).design \in Hash /\ script[p] # << >>
    BY <1>1, JobType DEF ProcInv, RightTool
  <2>3. TypeOK'
    BY <1>1, <2>1, <2>2 DEF TypeOK, Running, Hashes
  <2>4. \A o \in Process \ {p} : Same(o)
    BY <1>1, <2>1 DEF TypeOK, Same
  <2>5. /\ stage'[p] = "load" /\ Job(p)' = Job(p) /\ Req(p)' = Req(p) /\ Target(p)' = Target(p)
        /\ there'[p] = DOMAIN disk /\ objHash'[p] = Job(p).design
    BY <1>1, <2>1 DEF TypeOK, Job, Req, Target
  <2>6. Target(p) \in DOMAIN disk => Target(p) = LoadFile(Req(p), DOMAIN disk)
    BY <2>1, <2>2 DEF FilesFail, Target
  <2>7. ProcInv(p)'
    <3>1. PartRead(p)'
      BY <1>1, <2>1, <2>3, ReadsNothing, NothingRead DEF Source
    <3> QED
      BY <2>1, <2>2, <2>5, <2>6, <3>1
      DEF ProcInv, RightTool, Accepted, OwnResult, PartWritten, TargetKept, Running
  <2>8. p \notin torn' => RightCount(data'[p])
    BY <2>1 DEF VInv, NeverWrongCount, RightCount
  <2> QED
    BY <1>1, <2>1, <2>3, <2>4, <2>7, <2>8, QuietKeeps
<1> QED
  BY <1>2, <1>3

(* The parameters of accepted options.                                      *)
LEMMA ParamsType ==
  ASSUME TypeOK, NEW p \in Process, Running(p), Job(p).tool = "verify", ~OptionsFail(Req(p))
  PROVE  Params(p) \in ParamSet
<1>1. Req(p) \in Request
  BY JobType
<1>2. Req(p).cycles \in Number
  BY <1>1 DEF Request
<1> QED
  BY <1>1, <1>2, DeriveType DEF Params, Plan, ParamSet

(* A result that starts with no runs.                                       *)
LEMMA FreshType ==
  ASSUME NEW p \in Process, objHash[p] \in Hashes, Params(p) \in ParamSet, Length(p) \in Nat
  PROVE  Fresh(p) \in Result /\ RightCount(Fresh(p)) /\ Len(Fresh(p).sums) = Length(p)
<1> DEFINE sums == [i \in 1 .. Length(p) |-> 0]
<1>1. sums \in [1 .. Length(p) -> Nat \cup {Junk}]
  OBVIOUS
<1>2. sums \in Seq(Nat \cup {Junk}) /\ Len(sums) = Length(p)
  BY <1>1, ListIsSeq
<1> QED
  BY <1>2 DEF Fresh, Result, RightCount

(* A result with sums was read from a file with a whole header.             *)
LEMMA LoadedWhole ==
  ASSUME NEW f, IsFile(f), NEW mem \in Hashes, Len(Loaded(f, mem).sums) # 0
  PROVE  Len(f) >= HeaderSize /\ f[3] = Loaded(f, mem).runs
<1> DEFINE n == FieldOr(f, HeaderSize, 0)
           sums == [i \in 1 .. n |-> FieldOr(f, HeaderSize + i, Junk)]
<1>1. n \in Nat /\ Len(f) \in Nat
  BY DEF IsFile, FieldOr, HeaderSize
<1>2. Loaded(f, mem).sums \in Seq(Nat \cup {Junk}) /\ Loaded(f, mem).sums = sums
  BY LoadedType DEF Result, Loaded
<1>3. Len(sums) \in Nat /\ 1 .. n = 1 .. Len(sums)
  BY <1>2, LenProperties
<1>4. n # 0
  BY <1>1, <1>2, <1>3
<1> QED
  BY <1>1, <1>4 DEF FieldOr, Loaded, HeaderSize

LEMMA LoadKeeps ==
  ASSUME VInv, NEW p \in Process, Load(p)
  PROVE  VInv'
<1> DEFINE name == Source(p)
           f    == got[p]
           d    == IF name # None THEN Loaded(f, objHash[p]) ELSE Fresh(p)
<1>1. TypeOK /\ ProcInv(p) /\ stage[p] = "load" /\ Running(p)
  BY DEF VInv, Load, Running
<1>2. CASE Exit(p)
  BY <1>1, <1>2, ExitKeeps
<1>3. CASE ~Exit(p)
  <2>1. /\ name # None => SameHash(f, objHash[p], objHash[p]) /\ HasIntegrity(d, Params(p), Length(p))
        /\ data' = [data EXCEPT ![p] = d]
        /\ stage' = [stage EXCEPT ![p] = "analyze"] /\ next' = [next EXCEPT ![p] = 1]
        /\ disk' = disk /\ script' = script /\ there' = there /\ objHash' = objHash
        /\ got' = [got EXCEPT ![p] = << >>] /\ torn' = torn /\ mixed' = mixed
    BY <1>3 DEF Load, Goto, SetData, EndRead
  <2> HIDE DEF d
  <2>2. /\ Job(p).tool = "verify" /\ Job(p).design \in Hash /\ script[p] # << >>
        /\ Length(p) \in Nat \ {0} /\ ~OptionsFail(Req(p))
        /\ objHash[p] = Job(p).design /\ objHash[p] \in Hashes
    BY <1>1, JobType DEF ProcInv, RightTool, Accepted, Hashes
  <2>3. Params(p) \in ParamSet
    BY <1>1, <2>2, ParamsType
  <2>4. /\ d \in Result /\ (p \notin torn => RightCount(d)) /\ d.hash = Job(p).design
        /\ d.params = Params(p) /\ Len(d.sums) = Length(p)
    <3>1. CASE name = None
      BY <2>2, <2>3, <3>1, FreshType DEF d, Fresh
    <3>2. CASE name # None
      <4>1. d = Loaded(f, objHash[p])
        BY <3>2 DEF d
      <4>2. d \in Result /\ (p \notin torn => RightCount(d))
        BY <1>1, <2>2, <4>1, LoadedType DEF TypeOK, ProcInv, PartRead
      <4>3. d.hash = Job(p).design
        BY <2>1, <2>2, <3>2, <4>1 DEF SameHash, Loaded
      <4> QED
        BY <2>1, <3>2, <4>2, <4>3 DEF HasIntegrity
    <3> QED
      BY <3>1, <3>2
  <2>5. Target(p) \in DOMAIN disk => /\ Len(disk[Target(p)]) >= HeaderSize
                                     /\ disk[Target(p)][3] <= d.runs
    <3> SUFFICES ASSUME Target(p) \in DOMAIN disk
                 PROVE  Len(disk[Target(p)]) >= HeaderSize /\ disk[Target(p)][3] <= d.runs
      OBVIOUS
    <3>1. Target(p) = name /\ name # None /\ Target(p) \in File
      BY <1>1, OptionsAssumption DEF ProcInv, TargetKept, TypeOK, Source
    <3>2. Begins(f, disk[Target(p)])
      <4>1. Target(p) \in Outputs(Job(p))
        BY <1>1, <3>1, JobType
      <4> QED
        BY <1>1, <3>1, <4>1 DEF ProcInv, PartRead, Reliable, Content
    <3>3. Len(f) >= HeaderSize /\ f[3] = d.runs
      <4>1. d = Loaded(f, objHash[p]) /\ Len(d.sums) # 0 /\ IsFile(f)
        BY <1>1, <2>2, <2>4, <3>1 DEF d, TypeOK
      <4> QED
        BY <2>2, <4>1, LoadedWhole
    <3>4. d.runs \in Nat /\ Len(f) \in Nat /\ Len(disk[Target(p)]) \in Nat
      BY <1>1, <2>4 DEF Result, TypeOK, IsFile
    <3> QED
      BY <3>2, <3>3, <3>4 DEF Begins, HeaderSize
  <2>6. TypeOK'
    <3>1. got' = [o \in Process |-> got'[o]] /\ \A o \in Process : IsFile(got'[o])
      BY <1>1, <2>1, NoFile DEF TypeOK
    <3>2. data' \in [Process -> Result] /\ stage'[p] = "analyze"
      BY <1>1, <2>1, <2>4 DEF TypeOK
    <3>3. \A o \in Process : Running(o)' => script'[o] # << >>
      BY <1>1, <2>1, <2>2 DEF TypeOK, Running
    <3> QED
      BY <1>1, <2>1, <3>1, <3>2, <3>3 DEF TypeOK
  <2>7. \A o \in Process \ {p} : Same(o)
    BY <1>1, <2>1 DEF TypeOK, Same
  <2>8. /\ stage'[p] = "analyze" /\ Job(p)' = Job(p) /\ Req(p)' = Req(p) /\ Target(p)' = Target(p)
        /\ Params(p)' = Params(p) /\ Length(p)' = Length(p) /\ data'[p] = d
    BY <1>1, <2>1 DEF TypeOK, Job, Req, Target, Params, Plan, Length
  <2>9. ProcInv(p)'
    <3>1. PartRead(p)'
      BY <1>1, <2>1, <2>6, NothingRead DEF TypeOK
    <3> QED
      BY <2>1, <2>2, <2>4, <2>5, <2>8, <3>1
      DEF ProcInv, RightTool, Accepted, OwnResult, PartWritten, TargetKept, Running
  <2> QED
    BY <1>1, <2>1, <2>4, <2>6, <2>7, <2>8, <2>9, QuietKeeps
<1> QED
  BY <1>2, <1>3

(* Reading on, behind what was read.                                        *)
LEMMA ReadBlockKeeps ==
  ASSUME VInv, NEW p \in Process, ReadBlock(p)
  PROVE  VInv'
<1> DEFINE f == Content(Source(p))
           g == got[p]
<1>1. TypeOK /\ ProcInv(p) /\ Source(p) # None /\ ~Complete(g)
  BY DEF VInv, ReadBlock, ReadOver
<1>2. PICK n \in Len(g) + 1 .. Len(f) : got' = [got EXCEPT ![p] = g \o SubSeq(f, Len(g) + 1, n)]
  BY DEF ReadBlock
<1>3. /\ torn' = IF Source(p) \in mixed THEN torn \cup {p} ELSE torn
      /\ UNCHANGED <<disk, script, stage, there, objHash, data, next, mixed>>
  BY DEF ReadBlock
<1>4. stage[p] \in {"load", "first", "next"} /\ Running(p)
  BY <1>1 DEF Source, Running
<1>5. IsFile(g) /\ IsFile(f) /\ (Source(p) \notin mixed => RightSoFar(f))
  BY <1>1, ContentType DEF TypeOK
<1> DEFINE h == g \o SubSeq(f, Len(g) + 1, n)
<1>6. /\ IsFile(h)
      /\ Begins(g, f) => Begins(h, f) /\ (RightSoFar(f) => RightSoFar(h))
  BY <1>5, BlockRead
<1>7. got'[p] = h /\ got' = [got EXCEPT ![p] = h]
  BY <1>1, <1>2 DEF TypeOK
<1> HIDE DEF h
<1>8. TypeOK'
  BY <1>1, <1>3, <1>6, <1>7 DEF TypeOK, Running
<1>9. \A o \in Process \ {p} : Same(o)
  BY <1>1, <1>3, <1>7 DEF TypeOK, Same
<1>10. /\ Source(p)' = Source(p) /\ Job(p)' = Job(p) /\ Outputs(Job(p))' = Outputs(Job(p))
       /\ Content(Source(p))' = f
  BY <1>3 DEF Source, Job, Req, Outputs, Content
<1>11. PartRead(p)'
  <2>1. ASSUME p \notin torn' PROVE RightSoFar(h)
    <3>1. p \notin torn /\ Source(p) \notin mixed
      BY <1>3, <2>1
    <3>2. Begins(g, f)
      BY <1>1, <3>1 DEF ProcInv, PartRead, Reliable
    <3> QED
      BY <1>5, <1>6, <3>1, <3>2
  <2>2. ASSUME Reliable(p)' PROVE Begins(h, f)
    <3>1. p \notin torn' => p \notin torn
      BY <1>3
    <3>2. Reliable(p)
      BY <1>1, <1>10, <2>2, <3>1 DEF Reliable
    <3>3. Begins(g, f)
      BY <1>1, <3>2 DEF ProcInv, PartRead
    <3> QED
      BY <1>6, <3>3
  <2> QED
    BY <1>1, <1>7, <1>10, <2>1, <2>2 DEF PartRead
<1>12. /\ Running(p)' /\ Req(p)' = Req(p) /\ Target(p)' = Target(p)
       /\ stage' = stage /\ objHash' = objHash /\ there' = there /\ disk' = disk /\ data' = data
  BY <1>3, <1>4 DEF Running, Req, Job, Target
<1>13. ProcInv(p)'
  BY <1>1, <1>4, <1>10, <1>11, <1>12
  DEF ProcInv, RightTool, Accepted, OwnResult, PartWritten, TargetKept, Running
<1>14. p \notin torn' => RightCount(data'[p])
  BY <1>3 DEF VInv, NeverWrongCount, RightCount
<1> QED
  BY <1>3, <1>4, <1>8, <1>9, <1>13, <1>14, QuietKeeps

LEMMA AnalyzeKeeps ==
  ASSUME VInv, NEW p \in Process, Analyze(p)
  PROVE  VInv'
<1>1. TypeOK /\ ProcInv(p) /\ stage[p] = "analyze" /\ Running(p)
  BY DEF VInv, Analyze, Running
<1>2. CASE Exit(p)
  BY <1>1, <1>2, ExitKeeps
<1>3. CASE ~Exit(p)
  <2>1. /\ Job(p).tool = "verify" /\ Job(p).design \in Hash /\ script[p] # << >>
        /\ Req(p) \in Request /\ Length(p) \in Nat /\ ~OptionsFail(Req(p))
        /\ objHash[p] = Job(p).design
        /\ data[p].hash = Job(p).design /\ data[p].params = Params(p)
        /\ Len(data[p].sums) = Length(p) /\ data[p] \in Result
        /\ p \notin torn => RightCount(data[p])
    BY <1>1, JobType
    DEF ProcInv, RightTool, Accepted, OwnResult, TypeOK, VInv, NeverWrongCount, RightCount
  <2>2. SamplesAtOnce(Plan(p), NumThreads(Req(p))) # 0
    BY <1>3 DEF Analyze
  <2>3. PlannedRuns(p) \in Nat
    BY <2>1, <2>2, PlanType DEF PlannedRuns, Plan
  <2>4. PICK r \in Nat :
          /\ data' = [data EXCEPT ![p] = Add(data[p], [runs |-> r, sums |-> [i \in 1 .. Length(p) |-> r]])]
          /\ stage' = [stage EXCEPT ![p] = IF Req(p).store = None THEN "report" ELSE "open"]
          /\ next' = [next EXCEPT ![p] = 1]
          /\ disk' = disk /\ script' = script /\ there' = there /\ objHash' = objHash
          /\ got' = got /\ torn' = torn /\ mixed' = mixed
    BY <1>3, <2>3 DEF Analyze, Goto, SetData, reading
  <2> DEFINE sums  == [i \in 1 .. Length(p) |-> r]
             other == [runs |-> r, sums |-> sums]
             d     == Add(data[p], other)
  <2>5. sums \in [1 .. Length(p) -> Nat \cup {Junk}]
    OBVIOUS
  <2>6. sums \in Seq(Nat \cup {Junk}) /\ Len(sums) = Length(p)
    BY <2>1, <2>5, ListIsSeq
  <2>7. other.runs = r /\ other.sums = sums /\ RightCount(other)
    BY DEF RightCount
  <2> HIDE DEF sums, other
  <2>8. /\ d \in Result /\ (p \notin torn => RightCount(d))
        /\ d.hash = data[p].hash /\ d.params = data[p].params
        /\ d.runs = data[p].runs + r /\ Len(d.sums) = Len(data[p].sums)
    BY <2>1, <2>6, <2>7, AddType
  <2>9. data' = [data EXCEPT ![p] = d]
    BY <2>4 DEF sums, other
  <2> HIDE DEF d
  <2>10. TypeOK'
    BY <1>1, <2>1, <2>4, <2>8, <2>9 DEF TypeOK, Running
  <2>11. \A o \in Process \ {p} : Same(o)
    BY <1>1, <2>4 DEF TypeOK, Same
  <2>12. /\ stage'[p] = IF Req(p).store = None THEN "report" ELSE "open"
         /\ Job(p)' = Job(p) /\ Req(p)' = Req(p) /\ Target(p)' = Target(p)
         /\ Params(p)' = Params(p) /\ Length(p)' = Length(p) /\ data'[p] = d
    BY <1>1, <2>4, <2>9 DEF TypeOK, Job, Req, Target, Params, Plan, Length
  <2>13. Req(p).store # None => Target(p) \in File
    BY <2>1 DEF Request, Target
  <2>14. Target(p) \in DOMAIN disk => /\ Len(disk[Target(p)]) >= HeaderSize
                                      /\ disk[Target(p)][3] <= d.runs
    <3> SUFFICES ASSUME Target(p) \in DOMAIN disk
                 PROVE  Len(disk[Target(p)]) >= HeaderSize /\ disk[Target(p)][3] <= d.runs
      OBVIOUS
    <3>1. Len(disk[Target(p)]) >= HeaderSize /\ disk[Target(p)][3] <= data[p].runs
      BY <1>1 DEF ProcInv, TargetKept
    <3>2. disk[Target(p)][3] \in Nat /\ data[p].runs \in Nat
      BY <1>1, <2>1, <3>1 DEF TypeOK, IsFile, HeaderSize, Result
    <3> QED
      BY <2>8, <3>1, <3>2
  <2>15. ProcInv(p)'
    <3>1. PartRead(p)'
      BY <1>1, <2>4, <2>10, ReadsNothing, NothingRead DEF Source
    <3> QED
      BY <2>1, <2>4, <2>8, <2>12, <2>13, <2>14, <3>1
      DEF ProcInv, RightTool, Accepted, OwnResult, PartWritten, TargetKept, Running
  <2> QED
    BY <1>1, <2>4, <2>8, <2>10, <2>11, <2>12, <2>15, QuietKeeps
<1> QED
  BY <1>2, <1>3

-----------------------------------------------------------------------------
(* Steps that write.                                                        *)

(* What a process writes is a file and counts right; the rest follows.      *)
LEMMA WriteKeeps ==
  ASSUME VInv, NEW p \in Process, Running(p), NEW f \in Outputs(Job(p)), NEW content,
         WriteFile(f, content), IsFile(content), f \notin mixed' => RightSoFar(content),
         NEW s \in {"write", "return"}, stage' = [stage EXCEPT ![p] = s],
         NEW n \in Nat \ {0}, next' = [next EXCEPT ![p] = n],
         UNCHANGED <<script, there, objHash, data, got>>,
         NEW readers \in SUBSET Process, torn' = torn \cup readers,
         \A o \in readers : Source(o) # None,
         Keeps(f), mixed' \subseteq File, \A g : g # f => (g \in mixed' <=> g \in mixed),
         ProcInv(p)'
  PROVE  VInv'
<1>1. TypeOK /\ NeverWrongCount /\ OneWriter /\ f \in File
  BY JobType DEF VInv
<1>2. /\ DOMAIN disk' = DOMAIN disk \cup {f}
      /\ \A g \in DOMAIN disk' : disk'[g] = IF g = f THEN content ELSE disk[g]
  BY DEF WriteFile
<1>3. \A o \in Process : Running(o)' => Running(o)
  BY <1>1 DEF Running, TypeOK
<1>4. TypeOK'
  BY <1>1, <1>2, <1>3 DEF TypeOK
<1>5. NeverWrongCount'
  <2>1. \A o \in Process \ torn' : \A i \in DOMAIN data[o].sums : data[o].sums[i] \in {Junk, data[o].runs}
    BY <1>1 DEF NeverWrongCount
  <2>2. \A g \in DOMAIN disk' \ mixed' : RightSoFar(disk'[g])
    BY <1>1, <1>2 DEF NeverWrongCount
  <2> QED
    BY <2>1, <2>2 DEF NeverWrongCount
<1>6. \A o \in Process \ {p} : Same(o)
  BY <1>1 DEF Same, TypeOK
<1>7. OneWriter'
  BY <1>1, <1>6, WritersKeep
<1>8. \A g \in File : SameFile(g) \/ (Running(p) /\ g \in Outputs(Job(p)) /\ Keeps(g))
  <2>1. \A g \in File \ {f} : g \in DOMAIN disk => SameFile(g)
    BY <1>2 DEF SameFile
  <2>2. \A g \in File \ {f} : g \notin DOMAIN disk => SameFile(g)
    BY <1>2 DEF SameFile
  <2> QED
    BY <2>1, <2>2
<1> QED
  BY <1>4, <1>5, <1>6, <1>7, <1>8, StepKeeps

LEMMA ReportKeeps ==
  ASSUME VInv, NEW p \in Process, Report(p)
  PROVE  VInv'
<1>1. TypeOK /\ ProcInv(p) /\ stage[p] = "report" /\ Running(p)
  BY DEF VInv, Report, Running
<1>2. CASE Exit(p)
  BY <1>1, <1>2, ExitKeeps
<1>3. CASE ~Exit(p)
  <2> DEFINE f == Req(p).report
             content == <<"text">>
  <2>1. /\ f # None /\ WriteFile(f, content)
        /\ stage' = [stage EXCEPT ![p] = "return"] /\ next' = [next EXCEPT ![p] = 1]
        /\ UNCHANGED <<script, there, objHash, data, got>>
        /\ torn' = torn \cup Halfway(f) /\ mixed' = mixed \ {f}
    BY <1>3 DEF Report, Goto
  <2>2. Job(p).tool = "verify" /\ f \in Outputs(Job(p))
    BY <1>1, <2>1, JobType DEF ProcInv, RightTool, Outputs, Req
  <2>3. IsFile(content) /\ RightSoFar(content)
    <3>1. Len(content) = 1 /\ content[1] = "text"
      OBVIOUS
    <3>2. content = [i \in 1 .. 1 |-> content[i]]
      OBVIOUS
    <3> HIDE DEF content
    <3> QED
      BY <3>1, <3>2 DEF IsFile, RightSoFar, Hashes, HeaderSize
  <2> HIDE DEF content
  <2>7. TypeOK'
    <3>1. f \in File /\ DOMAIN disk' = DOMAIN disk \cup {f}
      BY <1>1, <2>1, <2>2, JobType DEF WriteFile
    <3>2. \A g \in DOMAIN disk' : disk'[g] = IF g = f THEN content ELSE disk[g]
      BY <2>1 DEF WriteFile
    <3>3. torn' \subseteq Process /\ mixed' \subseteq File
      BY <1>1, <2>1 DEF TypeOK, Halfway
    <3> QED
      BY <1>1, <2>1, <2>3, <3>1, <3>2, <3>3 DEF TypeOK, Running
  <2>4. /\ stage'[p] = "return" /\ Job(p)' = Job(p) /\ Req(p)' = Req(p)
        /\ objHash'[p] = objHash[p]
    BY <1>1, <2>1 DEF TypeOK, Job, Req
  <2>5. ProcInv(p)'
    <3>1. PartRead(p)'
      BY <1>1, <2>1, <2>7, ReadsNothing, NothingRead DEF Source
    <3> QED
      BY <1>1, <2>2, <2>4, <3>1
      DEF ProcInv, RightTool, Accepted, OwnResult, PartWritten, TargetKept, Running
  <2>6. 1 \in Nat \ {0} /\ "return" \in {"write", "return"}
    OBVIOUS
  <2>8. /\ Halfway(f) \in SUBSET Process /\ mixed' \subseteq File
        /\ \A g : g # f => (g \in mixed' <=> g \in mixed)
    BY <1>1, <2>1 DEF TypeOK, Halfway
  <2>9. \A o \in Halfway(f) : Source(o) # None
    BY <2>1 DEF Halfway
  <2>10. Keeps(f)
    BY <2>1 DEF Keeps
  <2> HIDE DEF f
  <2> QED
    BY <1>1, <2>1, <2>2, <2>3, <2>5, <2>6, <2>8, <2>9, <2>10, WriteKeeps
<1> QED
  BY <1>2, <1>3

LEMMA OpenKeeps ==
  ASSUME VInv, NEW p \in Process, Open(p)
  PROVE  VInv'
<1>1. TypeOK /\ ProcInv(p) /\ stage[p] = "open" /\ Running(p)
  BY DEF VInv, Open, Running
<1>2. /\ WriteFile(Target(p), << >>)
      /\ stage' = [stage EXCEPT ![p] = "write"] /\ next' = [next EXCEPT ![p] = 1]
      /\ UNCHANGED <<script, there, objHash, data, got>>
      /\ torn' = torn \cup Halfway(Target(p))
      /\ mixed' = IF p \in torn THEN mixed \cup {Target(p)} ELSE mixed \ {Target(p)}
  BY DEF Open, Goto
<1>3. Target(p) \in Outputs(Job(p)) /\ Target(p) \in File
  BY <1>1, JobType DEF ProcInv, RightTool
<1>4. Source(p) = None /\ p \notin Halfway(Target(p))
  BY <1>1, <1>3, OptionsAssumption DEF Source, Halfway
<1>5. /\ stage'[p] = "write" /\ next'[p] = 1 /\ Job(p)' = Job(p) /\ Req(p)' = Req(p)
      /\ Target(p)' = Target(p) /\ objHash'[p] = objHash[p] /\ data'[p] = data[p]
      /\ Params(p)' = Params(p) /\ Length(p)' = Length(p)
  BY <1>1, <1>2 DEF TypeOK, Job, Req, Target, Params, Plan, Length
<1>6. Target(p) \in DOMAIN disk' /\ disk'[Target(p)] = << >>
  BY <1>2 DEF WriteFile
<1>7. PartWritten(p)'
  <2>1. Len(Fields(data[p])) \in Nat
    BY <1>1, FieldsOf, LenProperties DEF TypeOK
  <2>2. p \in torn' => Target(p) \in mixed'
    BY <1>2, <1>4
  <2> QED
    BY <1>5, <1>6, <2>1, <2>2, NoFile DEF PartWritten
<1>11. TypeOK'
  <2>1. DOMAIN disk' = DOMAIN disk \cup {Target(p)}
    BY <1>2 DEF WriteFile
  <2>2. \A g \in DOMAIN disk' : disk'[g] = IF g = Target(p) THEN << >> ELSE disk[g]
    BY <1>2 DEF WriteFile
  <2>3. torn' \subseteq Process /\ mixed' \subseteq File
    BY <1>1, <1>2, <1>3 DEF TypeOK, Halfway
  <2> QED
    BY <1>1, <1>2, <1>3, <2>1, <2>2, <2>3, NoFile DEF TypeOK, Running
<1>12. PartRead(p)'
  BY <1>1, <1>2, <1>4, <1>11, ReadsNothing, NothingRead
<1>8. ProcInv(p)'
  BY <1>1, <1>5, <1>7, <1>12 DEF ProcInv, RightTool, Accepted, OwnResult, TargetKept, Running
<1>9. 1 \in Nat \ {0} /\ "write" \in {"write", "return"}
  OBVIOUS
<1> DEFINE f == Target(p)
           content == << >>
<1>10. f \in Outputs(Job(p)) /\ WriteFile(f, content) /\ IsFile(content) /\ RightSoFar(content)
  BY <1>2, <1>3, NoFile
<1>13. /\ Halfway(f) \in SUBSET Process /\ mixed' \subseteq File
       /\ \A g : g # f => (g \in mixed' <=> g \in mixed)
  BY <1>1, <1>2, <1>3 DEF TypeOK, Halfway
<1>14. torn' = torn \cup Halfway(f) /\ Keeps(f)
  BY <1>2 DEF Keeps
<1>15. \A o \in Halfway(f) : Source(o) # None
  BY <1>3, OptionsAssumption DEF Halfway
<1> HIDE DEF f, content
<1> QED
  BY <1>1, <1>2, <1>8, <1>9, <1>10, <1>13, <1>14, <1>15, WriteKeeps

LEMMA WriteStepKeeps ==
  ASSUME VInv, NEW p \in Process, Write(p)
  PROVE  VInv'
<1> DEFINE n == next[p]
           f == Content(Target(p))
           content == Append(f, Fields(data[p])[n])
<1>1. TypeOK /\ ProcInv(p) /\ stage[p] = "write" /\ Running(p)
  BY DEF VInv, Write, Running
<1>2. /\ n <= Len(Fields(data[p])) /\ WriteFile(Target(p), content)
      /\ stage' = [stage EXCEPT ![p] = "write"] /\ next' = [next EXCEPT ![p] = n + 1]
      /\ UNCHANGED <<script, there, objHash, data, got, torn, mixed>>
  BY <1>1 DEF Write, TypeOK, reading
<1>3. Target(p) \in Outputs(Job(p))
  BY <1>1, JobType DEF ProcInv, RightTool
<1>4. /\ n \in Nat \ {0} /\ IsFile(f) /\ Len(f) = n - 1
      /\ \A i \in 1 .. n - 1 : f[i] = Fields(data[p])[i]
      /\ data[p] \in Result /\ (Target(p) \notin mixed => RightCount(data[p]))
  BY <1>1 DEF ProcInv, PartWritten, Content, TypeOK, VInv, NeverWrongCount, RightCount
<1>5. /\ IsFile(content) /\ (Target(p) \notin mixed => RightSoFar(content)) /\ Len(content) = n
      /\ \A i \in 1 .. n : content[i] = Fields(data[p])[i]
  BY <1>2, <1>4, FileExtended
<1> HIDE DEF content, n, f
<1>6. /\ stage'[p] = "write" /\ next'[p] = n + 1 /\ Job(p)' = Job(p) /\ Req(p)' = Req(p)
      /\ Target(p)' = Target(p) /\ objHash'[p] = objHash[p] /\ data'[p] = data[p]
      /\ Params(p)' = Params(p) /\ Length(p)' = Length(p)
  BY <1>1, <1>2 DEF TypeOK, Job, Req, Target, Params, Plan, Length
<1>7. Target(p) \in DOMAIN disk' /\ disk'[Target(p)] = content
  BY <1>2 DEF WriteFile
<1>8. PartWritten(p)'
  <2>1. Len(Fields(data[p])) \in Nat
    BY <1>4, FieldsOf, LenProperties
  <2> QED
    BY <1>1, <1>2, <1>4, <1>5, <1>6, <1>7, <2>1 DEF PartWritten, ProcInv
<1>11. Keeps(Target(p)) /\ Content(Target(p))' = content
  <2>1. Content(Target(p))' = content /\ Content(Target(p)) = f
    BY <1>6, <1>7 DEF Content, f
  <2> QED
    BY <1>4, <1>5, <2>1 DEF Keeps, Begins
<1>12. TypeOK'
  <2>1. DOMAIN disk' = DOMAIN disk \cup {Target(p)} /\ Target(p) \in File
    BY <1>1, <1>2 DEF WriteFile, ProcInv, RightTool
  <2>2. \A g \in DOMAIN disk' : disk'[g] = IF g = Target(p) THEN content ELSE disk[g]
    BY <1>2 DEF WriteFile
  <2>3. n + 1 \in Nat \ {0}
    BY <1>4
  <2> QED
    BY <1>1, <1>2, <1>5, <2>1, <2>2, <2>3 DEF TypeOK, Running
<1>13. PartRead(p)'
  BY <1>1, <1>2, <1>12, ReadsNothing, NothingRead DEF Source
<1>9. ProcInv(p)'
  BY <1>1, <1>6, <1>8, <1>13 DEF ProcInv, RightTool, Accepted, OwnResult, TargetKept, Running
<1>10. n + 1 \in Nat \ {0}
  BY <1>4
<1>14. {} \in SUBSET Process /\ torn' = torn \cup {} /\ mixed' \subseteq File
  BY <1>1, <1>2 DEF TypeOK
<1> QED
  BY <1>1, <1>2, <1>3, <1>5, <1>9, <1>10, <1>11, <1>14, WriteKeeps

(* Closing the file, or giving up on it.                                    *)
LEMMA CloseKeeps ==
  ASSUME VInv, NEW p \in Process, stage[p] = "write", Goto(p, AfterWrite(p)),
         UNCHANGED <<disk, script, there, objHash, data, reading>>
  PROVE  VInv'
<1>1. TypeOK /\ ProcInv(p) /\ Running(p)
  BY DEF VInv, Running
<1>2. AfterWrite(p) = IF Job(p).tool = "verify" THEN "report" ELSE "return"
  BY DEF AfterWrite
<1>3. TypeOK'
  BY <1>1, <1>2 DEF TypeOK, Goto, Running, reading
<1>4. \A o \in Process \ {p} : Same(o)
  BY <1>1 DEF TypeOK, Same, Goto, reading
<1>5. /\ stage'[p] = AfterWrite(p) /\ Job(p)' = Job(p) /\ Req(p)' = Req(p)
      /\ objHash'[p] = objHash[p] /\ data'[p] = data[p]
      /\ Params(p)' = Params(p) /\ Length(p)' = Length(p)
  BY <1>1 DEF TypeOK, Goto, Job, Req, Params, Plan, Length
<1>6. ProcInv(p)'
  <2>1. PartRead(p)'
    BY <1>3, ReadsNothing, NothingRead DEF Source, reading
  <2> QED
    BY <1>1, <1>2, <1>5, <2>1
    DEF ProcInv, RightTool, Accepted, OwnResult, PartWritten, TargetKept, Running
<1>7. p \notin torn' => RightCount(data'[p])
  BY DEF VInv, NeverWrongCount, RightCount, reading
<1> QED
  BY <1>1, <1>3, <1>4, <1>6, <1>7, QuietKeeps DEF reading

-----------------------------------------------------------------------------
(* The merge tool.                                                          *)

(* A step of the merge tool that reads.                                     *)
LEMMA MergeKeeps ==
  ASSUME VInv, NEW p \in Process, Running(p), Job(p).tool = "merge",
         NEW s \in {"hash", "first", "next", "open"}, stage' = [stage EXCEPT ![p] = s],
         s = "open" => Target(p) \in File, Target(p) \notin DOMAIN disk,
         NEW n \in Nat \ {0}, next' = [next EXCEPT ![p] = n],
         NEW h \in Hashes, objHash' = [objHash EXCEPT ![p] = h],
         NEW d \in Result, p \notin torn => RightCount(d), data' = [data EXCEPT ![p] = d],
         got' = [got EXCEPT ![p] = << >>],
         UNCHANGED <<disk, script, there, torn, mixed>>
  PROVE  VInv'
<1>1. TypeOK
  BY DEF VInv
<1>2. TypeOK'
  BY <1>1, NoFile DEF TypeOK, Running
<1>3. \A o \in Process \ {p} : Same(o)
  BY <1>1 DEF TypeOK, Same
<1>4. /\ stage'[p] = s /\ Job(p)' = Job(p) /\ Target(p)' = Target(p) /\ data'[p] = d
  BY <1>1 DEF TypeOK, Job, Req, Target
<1>6. PartRead(p)'
  BY <1>1, <1>2, NothingRead DEF TypeOK
<1>5. ProcInv(p)'
  BY <1>4, <1>6 DEF ProcInv, RightTool, Accepted, OwnResult, PartWritten, TargetKept, Running
<1> QED
  BY <1>2, <1>3, <1>4, <1>5, QuietKeeps

(* What is known of a merge before it writes.                               *)
LEMMA MergeFacts ==
  ASSUME VInv, NEW p \in Process, stage[p] \in {"merge", "hash", "first", "next"}
  PROVE  /\ Running(p) /\ Job(p).tool = "merge" /\ Target(p) = Job(p).output /\ Target(p) \in File
         /\ stage[p] # "merge" => Target(p) \notin DOMAIN disk
         /\ objHash[p] \in Hashes /\ data[p] \in Result /\ data[p].hash \in Hashes
         /\ p \notin torn => RightCount(data[p])
         /\ IsFile(got[p]) /\ (p \notin torn => RightSoFar(got[p]))
         /\ next[p] \in Nat \ {0}
<1>1. TypeOK /\ ProcInv(p) /\ Running(p)
  BY DEF VInv, Running
<1>2. Job(p).tool = "merge" /\ Job(p) \in MergeJob
  BY <1>1, JobType DEF ProcInv, RightTool
<1>3. Target(p) = Job(p).output /\ Target(p) \in File
  BY <1>2 DEF Target, MergeJob
<1>4. stage[p] # "merge" => Target(p) \notin DOMAIN disk
  BY <1>1 DEF ProcInv, TargetKept
<1>5. objHash[p] \in Hashes /\ data[p] \in Result /\ next[p] \in Nat \ {0}
  BY <1>1 DEF TypeOK
<1>6. p \notin torn => RightCount(data[p])
  BY DEF VInv, NeverWrongCount, RightCount
<1>7. IsFile(got[p]) /\ (p \notin torn => RightSoFar(got[p]))
  BY <1>1 DEF TypeOK, ProcInv, PartRead
<1> QED
  BY <1>1, <1>2, <1>3, <1>4, <1>5, <1>6, <1>7 DEF Result

LEMMA CheckOutputKeeps ==
  ASSUME VInv, NEW p \in Process, CheckOutput(p)
  PROVE  VInv'
<1>1. stage[p] = "merge" /\ Running(p)
  BY DEF CheckOutput, Running
<1>2. CASE Exit(p)
  BY <1>1, <1>2, ExitKeeps
<1>3. CASE ~Exit(p)
  <2>1. /\ Job(p).output \notin DOMAIN disk
        /\ stage' = [stage EXCEPT ![p] = "hash"] /\ next' = [next EXCEPT ![p] = 1]
        /\ objHash' = objHash /\ data' = data /\ got' = got
        /\ UNCHANGED <<disk, script, there, torn, mixed>>
    BY <1>3 DEF CheckOutput, Goto, reading
  <2>2. /\ objHash' = [objHash EXCEPT ![p] = objHash[p]] /\ data' = [data EXCEPT ![p] = data[p]]
        /\ got' = [got EXCEPT ![p] = << >>]
    BY <1>1, <2>1, ReadsNothing DEF VInv, TypeOK, Source
  <2>3. /\ Running(p) /\ Job(p).tool = "merge" /\ Target(p) \in File
        /\ Target(p) \notin DOMAIN disk /\ objHash[p] \in Hashes /\ data[p] \in Result
        /\ (p \notin torn => RightCount(data[p])) /\ 1 \in Nat \ {0} /\ 2 \in Nat \ {0}
    BY <1>1, <2>1, MergeFacts
  <2> QED
    BY <2>1, <2>2, <2>3, MergeKeeps
<1> QED
  BY <1>2, <1>3

LEMMA ReadHashKeeps ==
  ASSUME VInv, NEW p \in Process, ReadHash(p)
  PROVE  VInv'
<1> DEFINE f == Content(Job(p).inputs[1])
           h == FieldOr(f, 1, objHash[p])
<1>1. stage[p] = "hash"
  BY DEF ReadHash
<1>2. /\ stage' = [stage EXCEPT ![p] = "first"] /\ next' = [next EXCEPT ![p] = 1]
      /\ objHash' = [objHash EXCEPT ![p] = h]
      /\ data' = data /\ got' = got /\ UNCHANGED <<disk, script, there, torn, mixed>>
  BY DEF ReadHash, Goto, VInv, TypeOK, reading
<1>3. h \in Hashes
  BY <1>1, MergeFacts, ContentType DEF IsFile, FieldOr
<1>4. data' = [data EXCEPT ![p] = data[p]] /\ got' = [got EXCEPT ![p] = << >>]
  BY <1>1, <1>2, ReadsNothing DEF VInv, TypeOK, Source
<1> HIDE DEF h
<1>5. /\ Running(p) /\ Job(p).tool = "merge" /\ Target(p) \in File
      /\ Target(p) \notin DOMAIN disk /\ objHash[p] \in Hashes /\ data[p] \in Result
      /\ (p \notin torn => RightCount(data[p])) /\ 1 \in Nat \ {0} /\ 2 \in Nat \ {0}
  BY <1>1, MergeFacts
<1> QED
  BY <1>2, <1>3, <1>4, <1>5, MergeKeeps

LEMMA ReadFirstKeeps ==
  ASSUME VInv, NEW p \in Process, ReadFirst(p)
  PROVE  VInv'
<1> DEFINE f == got[p]
           d == Loaded(f, data[p].hash)
<1>1. stage[p] = "first" /\ Running(p)
  BY DEF ReadFirst, Running
<1>2. CASE Exit(p)
  BY <1>1, <1>2, ExitKeeps
<1>3. CASE ~Exit(p)
  <2>1. /\ stage' = [stage EXCEPT ![p] = "next"] /\ next' = [next EXCEPT ![p] = 2]
        /\ data' = [data EXCEPT ![p] = d]
        /\ objHash' = objHash /\ got' = [got EXCEPT ![p] = << >>]
        /\ UNCHANGED <<disk, script, there, torn, mixed>>
    BY <1>3 DEF ReadFirst, SetData, EndRead
  <2>2. d \in Result /\ (p \notin torn => RightCount(d))
    BY <1>1, MergeFacts, LoadedType
  <2>3. objHash' = [objHash EXCEPT ![p] = objHash[p]]
    BY <2>1 DEF VInv, TypeOK
  <2> HIDE DEF d
  <2>4. /\ Running(p) /\ Job(p).tool = "merge" /\ Target(p) \in File
        /\ Target(p) \notin DOMAIN disk /\ objHash[p] \in Hashes /\ data[p] \in Result
        /\ (p \notin torn => RightCount(data[p])) /\ 1 \in Nat \ {0} /\ 2 \in Nat \ {0}
    BY <1>1, MergeFacts
  <2> QED
    BY <2>1, <2>2, <2>3, <2>4, MergeKeeps
<1> QED
  BY <1>2, <1>3

LEMMA ReadNextKeeps ==
  ASSUME VInv, NEW p \in Process, ReadNext(p)
  PROVE  VInv'
<1> DEFINE f == got[p]
           other == Loaded(f, objHash[p])
           d == Add(data[p], other)
<1>1. stage[p] = "next" /\ Running(p)
  BY DEF ReadNext, Running
<1>2. CASE Exit(p)
  BY <1>1, <1>2, ExitKeeps
<1>3. CASE ~Exit(p)
  <2>1. /\ stage' = stage /\ next' = [next EXCEPT ![p] = next[p] + 1]
        /\ data' = [data EXCEPT ![p] = d] /\ Fits(data[p], other)
        /\ objHash' = objHash /\ got' = [got EXCEPT ![p] = << >>]
        /\ UNCHANGED <<disk, script, there, torn, mixed>>
    BY <1>3 DEF ReadNext, SetData, EndRead
  <2>2. other \in Result /\ (p \notin torn => RightCount(other))
    BY <1>1, MergeFacts, LoadedType
  <2> HIDE DEF other
  <2>3. d \in Result /\ (p \notin torn => RightCount(d))
    BY <1>1, <2>1, <2>2, MergeFacts, AddType DEF Fits, Result
  <2> HIDE DEF d
  <2>4. /\ objHash' = [objHash EXCEPT ![p] = objHash[p]] /\ stage' = [stage EXCEPT ![p] = "next"]
    BY <1>1, <2>1 DEF VInv, TypeOK
  <2>5. next[p] + 1 \in Nat \ {0}
    BY <1>1, MergeFacts
  <2>6. /\ Running(p) /\ Job(p).tool = "merge" /\ Target(p) \in File
        /\ Target(p) \notin DOMAIN disk /\ objHash[p] \in Hashes /\ data[p] \in Result
        /\ (p \notin torn => RightCount(data[p])) /\ 1 \in Nat \ {0} /\ 2 \in Nat \ {0}
    BY <1>1, MergeFacts
  <2> QED
    BY <2>1, <2>3, <2>4, <2>5, <2>6, MergeKeeps
<1> QED
  BY <1>2, <1>3

LEMMA EndInputsKeeps ==
  ASSUME VInv, NEW p \in Process, EndInputs(p)
  PROVE  VInv'
<1>1. stage[p] = "next" /\ Source(p) = None
  <2>1. stage[p] = "next" /\ next[p] > Len(Job(p).inputs)
    BY DEF EndInputs
  <2>2. next[p] \in Nat /\ Len(Job(p).inputs) \in Nat
    <3>1. Job(p) \in MergeJob
      BY <2>1, MergeFacts, JobType DEF VInv
    <3> QED
      BY <2>1, <3>1, MergeFacts, LenProperties DEF MergeJob
  <2> QED
    BY <2>1, <2>2 DEF Source
<1>2. /\ stage' = [stage EXCEPT ![p] = "open"] /\ next' = [next EXCEPT ![p] = 1]
      /\ objHash' = [objHash EXCEPT ![p] = objHash[p]] /\ data' = [data EXCEPT ![p] = data[p]]
      /\ got' = [got EXCEPT ![p] = << >>]
      /\ UNCHANGED <<disk, script, there, torn, mixed>>
  BY <1>1, ReadsNothing DEF EndInputs, Goto, VInv, TypeOK, reading
<1>3. /\ Running(p) /\ Job(p).tool = "merge" /\ Target(p) \in File
      /\ Target(p) \notin DOMAIN disk /\ objHash[p] \in Hashes /\ data[p] \in Result
      /\ (p \notin torn => RightCount(data[p])) /\ 1 \in Nat \ {0} /\ 2 \in Nat \ {0}
  BY <1>1, MergeFacts
<1> QED
  BY <1>2, <1>3, MergeKeeps

-----------------------------------------------------------------------------
(* The theorems.                                                            *)

LEMMA InitInv == Init => VInv
<1> SUFFICES ASSUME Init PROVE VInv
  OBVIOUS
<1>1. NewData(Junk) \in Result /\ RightCount(NewData(Junk))
  <2>1. << >> \in Seq(Nat \cup {Junk}) /\ DOMAIN << >> = {}
    BY EmptySeq
  <2> QED
    BY <2>1 DEF NewData, Result, Hashes, ParamSet, RightCount
<1>2. TypeOK
  BY <1>1, VerifierAssumption, NoFile DEF Init, TypeOK, Running, Hashes
<1>3. NeverWrongCount
  BY <1>1, VerifierAssumption DEF Init, NeverWrongCount, RightCount
<1>4. \A p \in Process : ~Running(p)
  BY DEF Init, Running
<1>5. OneWriter
  BY <1>4 DEF OneWriter
<1>6. \A p \in Process : ProcInv(p)
  <2>1. \A p \in Process : PartRead(p)
    BY NoFile DEF Init, PartRead, Reliable, Source
  <2> QED
    BY <1>4, <2>1 DEF ProcInv, RightTool, Accepted, OwnResult, PartWritten, TargetKept, Running
<1> QED
  BY <1>2, <1>3, <1>5, <1>6 DEF VInv

LEMMA NextInv == VInv /\ [Next]_vars => VInv'
<1> SUFFICES ASSUME VInv, [Next]_vars PROVE VInv'
  OBVIOUS
<1>1. ASSUME NEW p \in Process, Begin(p) PROVE VInv'
  BY <1>1, BeginKeeps
<1>2. ASSUME NEW p \in Process, ReadOptions(p) \/ Load(p) \/ Analyze(p) \/ Report(p) PROVE VInv'
  BY <1>2, ReadOptionsKeeps, LoadKeeps, AnalyzeKeeps, ReportKeeps
<1>3. ASSUME NEW p \in Process, Return(p) \/ Killed(p) PROVE VInv'
  BY <1>3, ExitKeeps DEF Return, Killed, Running
<1>4. ASSUME NEW p \in Process, Open(p) \/ Write(p) PROVE VInv'
  BY <1>4, OpenKeeps, WriteStepKeeps
<1>5. ASSUME NEW p \in Process, Close(p) \/ WriteFails(p) PROVE VInv'
  BY <1>5, CloseKeeps DEF Close, WriteFails
<1>6. ASSUME NEW p \in Process,
             CheckOutput(p) \/ ReadHash(p) \/ ReadFirst(p) \/ ReadNext(p) \/ EndInputs(p)
      PROVE  VInv'
  BY <1>6, CheckOutputKeeps, ReadHashKeeps, ReadFirstKeeps, ReadNextKeeps, EndInputsKeeps
<1>8. ASSUME NEW p \in Process, ReadBlock(p) PROVE VInv'
  BY <1>8, ReadBlockKeeps
<1>7. CASE UNCHANGED vars
  <2>1. TypeOK'
    BY <1>7 DEF vars, VInv, TypeOK, Running
  <2>2. NeverWrongCount'
    BY <1>7 DEF vars, VInv, NeverWrongCount
  <2>3. OneWriter'
    BY <1>7 DEF vars, VInv, OneWriter, Running, Job
  <2>4. ASSUME NEW p \in Process PROVE ProcInv(p)'
    <3>1. Same(p) /\ \A f : SameFile(f)
      BY <1>7 DEF vars, Same, SameFile
    <3> QED
      BY <2>1, <3>1, SameIsKept, OthersKeep DEF VInv
  <2> QED
    BY <2>1, <2>2, <2>3, <2>4 DEF VInv
<1> QED
  BY <1>1, <1>2, <1>3, <1>4, <1>5, <1>6, <1>7, <1>8 DEF Next

LEMMA SpecInv == Spec => []VInv
BY InitInv, NextInv, PTL DEF Spec

(* Types, for any number of processes, files and programs: what is in a     *)
(* file, however little of a result reached it, loads as a result.          *)
THEOREM VerifierTypes == Spec => []TypeOK
<1>1. VInv => TypeOK
  BY DEF VInv
<1> QED
  BY <1>1, SpecInv, PTL

(* No kill, failed write or read of a file that is being written makes a    *)
(* sum count other runs than the result claims, in memory or in a file:     *)
(* only reading on in a file that was emptied in between can.               *)
THEOREM CountsAreRight == Spec => []NeverWrongCount
<1>1. VInv => NeverWrongCount
  BY DEF VInv
<1> QED
  BY <1>1, SpecInv, PTL

(* A verifier goes on with, and stores, a result of its own design, options *)
(* and length, whatever file it is given.                                   *)
THEOREM OnlyOwnResults == Spec => []ContinuesOwnResult
<1>1. VInv => ContinuesOwnResult
  BY DEF VInv, ProcInv, OwnResult, ContinuesOwnResult
<1> QED
  BY <1>1, SpecInv, PTL

(* A file that is emptied to be written held a result with no more runs     *)
(* than the one to be written.                                              *)
THEOREM NoResultIsLost == Spec => []NothingLost
<1>1. VInv => NothingLost
  BY DEF VInv, ProcInv, TargetKept, NothingLost, Running
<1> QED
  BY <1>1, SpecInv, PTL

-----------------------------------------------------------------------------
(* The plan covers what was asked for, for any word size and any accepted   *)
(* options whose round of samples fits into a word.                         *)

-----------------------------------------------------------------------------
(* Arithmetic.                                                              *)

LEMMA Below == ASSUME NEW a \in Nat, NEW t \in Nat \ {0} PROVE a <= a * t
OBVIOUS

LEMMA WrapBelow == ASSUME NEW n \in Nat, n < Word PROVE Wrap(n) = n
BY OptionsAssumption DEF Wrap

(* Larger numbers have larger multiples.                                    *)
LEMMA Grows ==
  ASSUME NEW a \in Nat, NEW b \in Nat, NEW m \in Nat, a <= b PROVE a * m <= b * m
<1>1. PICK d \in Nat : b = a + d
  <2>1. b - a \in Nat /\ b = a + (b - a)
    OBVIOUS
  <2> QED
    BY <2>1
<1>2. b * m = a * m + d * m
  BY <1>1
<1>3. a * m \in Nat /\ d * m \in Nat
  BY ProductType
<1> QED
  BY <1>2, <1>3

(* Rounded up, a quotient covers the number with less than one part more.   *)
LEMMA CeilDivBounds ==
  ASSUME NEW n \in Nat, NEW m \in Nat \ {0}
  PROVE  n <= CeilDiv(n, m) * m /\ CeilDiv(n, m) * m < n + m
<1> DEFINE d == n \div m
           r == n % m
<1>1. d \in Nat /\ r \in 0 .. m - 1 /\ n = m * d + r
  OBVIOUS
<1>2. CeilDiv(n, m) = IF r = 0 THEN d ELSE d + 1
  BY <1>1 DEF CeilDiv
<1> HIDE DEF d, r
<1>3. m * d = d * m /\ (d + 1) * m = d * m + m /\ d * m \in Nat
  BY <1>1
<1> QED
  BY <1>1, <1>2, <1>3

(* And it is the least that does.                                           *)
LEMMA CeilDivLeast ==
  ASSUME NEW n \in Nat, NEW m \in Nat \ {0}, NEW k \in Nat, n <= k * m
  PROVE  CeilDiv(n, m) <= k
<1>1. CeilDiv(n, m) \in Nat /\ CeilDiv(n, m) * m < n + m
  BY CeilDivType, CeilDivBounds
<1>2. (k + 1) * m = k * m + m /\ k * m \in Nat
  OBVIOUS
<1>3. SUFFICES ASSUME k + 1 <= CeilDiv(n, m) PROVE FALSE
  BY <1>1
<1>4. (k + 1) * m <= CeilDiv(n, m) * m
  BY <1>1, <1>3, Grows
<1>5. CeilDiv(n, m) * m \in Nat
  BY <1>1, ProductType
<1> QED
  BY <1>1, <1>2, <1>4, <1>5

-----------------------------------------------------------------------------
(* The samples of a round, when they fit, are what the code computes.       *)
LEMMA RoundFits ==
  ASSUME NEW q \in Request, ~OptionsFail(q), Round(Derive(q), q) \in 1 .. Word - 1
  PROVE  LET c == Derive(q)
             t == NumThreads(q)
         IN  /\ SamplesPerData(c) \in Nat \ {0} /\ t \in Nat \ {0}
             /\ SamplesPerData(c) = Factor(c.f_given_d, c.secrets, c.f_given_ds)
             /\ SamplesAtOnce(c, t) = SamplesPerData(c) * t
             /\ Round(c, q) = SamplesPerData(c) * t
<1> DEFINE c == Derive(q)
           t == NumThreads(q)
           a == c.f_given_d
           b == c.secrets * c.f_given_ds
<1>1. a \in Nat /\ c.secrets \in Nat /\ c.f_given_ds \in Nat /\ t \in Nat \ {0} /\ Word \in Nat
  BY DeriveType, OptionsAssumption DEF Number
<1>2. b \in Nat
  BY <1>1, ProductType
<1>3. Round(c, q) = (a + b) * t
  BY DEF Round
<1> HIDE DEF c, t, a, b
<1>4. a + b \in Nat /\ (a + b) * t \in 1 .. Word - 1
  BY <1>1, <1>2, <1>3 DEF c
<1>5. a + b <= (a + b) * t
  BY <1>1, <1>4, Below
<1>6. b < Word /\ a + b < Word /\ (a + b) * t < Word
  BY <1>1, <1>2, <1>4, <1>5
<1>7. Wrap(b) = b /\ Wrap(a + b) = a + b /\ Wrap((a + b) * t) = (a + b) * t
  BY <1>2, <1>4, <1>6, WrapBelow
<1>8. SamplesPerData(c) = a + b
  BY <1>7 DEF SamplesPerData, Factor, a, b
<1>9. a + b # 0
  <2>1. SUFFICES ASSUME a + b = 0 PROVE FALSE
    OBVIOUS
  <2>2. 0 * t = 0
    BY <1>1
  <2> QED
    BY <2>1, <2>2, <1>4
<1>10. SamplesAtOnce(c, t) = (a + b) * t
  BY <1>7, <1>8 DEF SamplesAtOnce
<1> QED
  BY <1>1, <1>3, <1>4, <1>8, <1>9, <1>10 DEF SamplesPerData, c, t

(* The samples asked for are sampled, and less than a round more.           *)
LEMMA SamplesCovered ==
  ASSUME NEW q \in Request, ~OptionsFail(q), Round(Derive(q), q) \in 1 .. Word - 1
  PROVE  LET c == Derive(q)
             t == NumThreads(q)
             covered == (t * RunsPerThread(c, t)) * SamplesPerData(c)
         IN  /\ RunsPerThread(c, t) \in Nat /\ t \in Nat \ {0}
             /\ c.samples <= covered /\ covered < c.samples + Round(c, q)
<1> DEFINE c == Derive(q)
           t == NumThreads(q)
           k == RunsPerThread(c, t)
           R == SamplesPerData(c)
           m == SamplesAtOnce(c, t)
<1>1. R \in Nat \ {0} /\ t \in Nat \ {0} /\ m = R * t /\ Round(c, q) = R * t
  BY RoundFits
<1>2. R * t \in Nat \ {0}
  <2>1. Round(c, q) \in 1 .. Word - 1 /\ Word \in Nat
    BY OptionsAssumption
  <2> HIDE DEF c, t, R, m
  <2> QED
    BY <1>1, <2>1
<1>3. c.samples \in Nat
  BY DeriveType DEF Number
<1>4. k = CeilDiv(c.samples, m)
  BY DEF RunsPerThread
<1> HIDE DEF c, t, k, R, m
<1>5. k \in Nat /\ c.samples <= k * m /\ k * m < c.samples + m
  BY <1>1, <1>2, <1>3, <1>4, CeilDivType, CeilDivBounds
<1>6. k * (R * t) = (t * k) * R
  BY <1>1, <1>5
<1> QED
  BY <1>1, <1>5, <1>6 DEF c, t, k, R, m

(* As they are derived, the samples are those of the data values asked for, *)
(* or the data values are the fewest that have the samples asked for.       *)
LEMMA DataOrSamples ==
  ASSUME NEW q \in Request, ~OptionsFail(q), Round(Derive(q), q) \in 1 .. Word - 1,
         q.data # None \/ q.samples # None,
         \A n \in {q.f_given_d, q.f_given_ds} \ {None} : n % ParallelSize = 0
  PROVE  LET c == Derive(q)
             R == SamplesPerData(c)
         IN  /\ c.data \in Nat
             /\ c.samples = Wrap(c.data * R) \/ c.data = CeilDiv(c.samples, R)
<1> DEFINE c == Derive(q)
           R == SamplesPerData(c)
<1>1. R = Factor(c.f_given_d, c.secrets, c.f_given_ds)
  BY DEF SamplesPerData
<1>2. CASE q.epsilon # None
  <2>1. c = FromEpsilon(q.epsilon)
    BY <1>2 DEF Derive
  <2>2. q.epsilon.data \in Nat
    BY <1>2 DEF Request, Number
  <2> QED
    BY <1>1, <2>1, <2>2 DEF FromEpsilon, Counts
<1>3. CASE q.epsilon = None
  <2> DEFINE fd == Given(q.f_given_d, DefaultHist)
             fds == Given(q.f_given_ds, DefaultHist)
             s == Given(q.secrets, 1)
             factor == Factor(fd, s, fds)
             dat == IF q.data = None /\ q.samples # None THEN CeilDiv(q.samples, factor)
                    ELSE Given(q.data, DefaultData)
             samples == IF q.samples = None /\ q.data # None THEN Wrap(q.data * factor)
                        ELSE Given(q.samples, DefaultData * (2 * DefaultHist))
  <2>1. RoundUp(fd) = fd /\ RoundUp(fds) = fds
    BY OptionsAssumption DEF RoundUp, Given
  <2>2. Derive(q).ok /\ c = FromCounts(q)
    BY <1>3 DEF OptionsFail, Derive
  <2>3. FromCounts(q) = Counts(RoundUp(fd), RoundUp(fds), s, dat, samples)
    BY <2>2 DEF FromCounts, Refused
  <2>4. ~(q.data # None /\ q.samples # None /\ q.samples # Wrap(q.data * factor))
    BY <2>2 DEF FromCounts, Refused
  <2>5. factor \in Nat /\ factor # 0
    <3>1. fd \in Number /\ fds \in Number /\ s \in Number
      BY OptionsAssumption DEF Given, Request, Option, Number
    <3>2. factor \in Number
      BY <3>1, FactorType
    <3>3. factor # 0
      BY <2>2 DEF FromCounts, Refused
    <3> QED
      BY <3>2, <3>3 DEF Number
  <2> HIDE DEF fd, fds, s, factor, dat, samples
  <2>6. c.f_given_d = fd /\ c.f_given_ds = fds /\ c.secrets = s /\ c.data = dat /\ c.samples = samples
    BY <2>1, <2>2, <2>3 DEF Counts
  <2>7. R = factor
    BY <1>1, <2>6 DEF factor
  <2> HIDE DEF c, R
  <2>8. CASE q.data = None
    <3>1. dat = CeilDiv(q.samples, factor) /\ samples = q.samples
      BY <2>8 DEF dat, samples, Given
    <3>2. q.samples \in Nat
      BY <2>8 DEF Request, Option, Number
    <3> QED
      BY <2>5, <2>6, <2>7, <3>1, <3>2, CeilDivType DEF c, R
  <2>9. CASE q.data # None
    <3>1. dat = q.data /\ samples = Wrap(q.data * factor)
      BY <2>4, <2>9 DEF dat, samples, Given
    <3>2. q.data \in Nat
      BY <2>9 DEF Request, Option, Number
    <3> QED
      BY <2>6, <2>7, <3>1, <3>2 DEF c, R
  <2> QED
    BY <2>8, <2>9
<1> QED
  BY <1>2, <1>3

(* Then as many runs are planned as there are data values.                  *)
LEMMA DataCovered ==
  ASSUME NEW q \in Request, ~OptionsFail(q), Round(Derive(q), q) \in 1 .. Word - 1,
         q.data # None \/ q.samples # None,
         \A n \in {q.f_given_d, q.f_given_ds} \ {None} : n % ParallelSize = 0,
         Derive(q).data * SamplesPerData(Derive(q)) < Word
  PROVE  Derive(q).data <= NumThreads(q) * RunsPerThread(Derive(q), NumThreads(q))
<1> DEFINE c == Derive(q)
           t == NumThreads(q)
           runs == t * RunsPerThread(c, t)
           R == SamplesPerData(c)
<1>1. R \in Nat \ {0}
  BY RoundFits
<1>2. RunsPerThread(c, t) \in Nat /\ t \in Nat \ {0} /\ c.samples <= runs * R
  BY SamplesCovered
<1>3. runs \in Nat
  BY <1>2, ProductType
<1>4. c.data \in Nat /\ (c.samples = Wrap(c.data * R) \/ c.data = CeilDiv(c.samples, R))
  BY DataOrSamples
<1>5. c.samples \in Nat
  BY DeriveType DEF Number
<1>6. c.data * R < Word
  OBVIOUS
<1> HIDE DEF c, t, runs, R
<1>7. CASE c.data = CeilDiv(c.samples, R)
  BY <1>1, <1>2, <1>3, <1>5, <1>7, CeilDivLeast DEF c, t, runs
<1>8. CASE c.samples = Wrap(c.data * R)
  <2>1. c.data * R \in Nat
    BY <1>1, <1>4, ProductType
  <2>2. c.samples = c.data * R
    BY <1>6, <1>8, <2>1, WrapBelow
  <2>3. SUFFICES ASSUME runs + 1 <= c.data PROVE FALSE
    BY <1>3, <1>4 DEF c, t, runs
  <2>4. (runs + 1) * R <= c.data * R
    BY <1>1, <1>3, <1>4, <2>3, Grows
  <2>5. (runs + 1) * R = runs * R + R /\ runs * R \in Nat
    BY <1>1, <1>3
  <2> QED
    BY <1>1, <1>2, <2>1, <2>2, <2>4, <2>5
<1> QED
  BY <1>4, <1>7, <1>8

-----------------------------------------------------------------------------
(* Whatever is asked for and accepted, when a round of samples fits into a  *)
(* word the runs analyze plans (verify_mi.cpp:415-417) take at least the    *)
(* samples asked for and less than a round more, and the data values asked  *)
(* for when no count was rounded.                                           *)
THEOREM PlansCover == Spec => []PlanCovers
<1>1. VInv => PlanCovers
  <2>1. SUFFICES ASSUME VInv, NEW p \in Process, stage[p] = "load",
                        Round(Plan(p), Req(p)) \in 1 .. Word - 1
                 PROVE  LET c == Plan(p)
                            t == NumThreads(Req(p))
                            runs == t * RunsPerThread(c, t)
                            perRun == SamplesPerData(c)
                            given == {Req(p).f_given_d, Req(p).f_given_ds} \ {None}
                        IN  /\ c.samples <= runs * perRun
                            /\ runs * perRun < c.samples + Round(c, Req(p))
                            /\ /\ Req(p).data # None \/ Req(p).samples # None
                               /\ \A n \in given : n % ParallelSize = 0
                               /\ c.data * perRun < Word
                               => c.data <= runs
    BY DEF PlanCovers
  <2>2. Running(p) /\ RightTool(p) /\ Accepted(p) /\ TypeOK
    BY <2>1 DEF VInv, ProcInv, Running
  <2>3. Job(p).tool = "verify" /\ ~OptionsFail(Req(p))
    BY <2>1, <2>2 DEF RightTool, Accepted
  <2>4. Req(p) \in Request
    BY <2>2, <2>3, JobType
  <2>5. Plan(p) = Derive(Req(p))
    BY DEF Plan
  <2> QED
    BY <2>1, <2>3, <2>4, <2>5, SamplesCovered, DataCovered
<1> QED
  BY <1>1, SpecInv, PTL
=============================================================================
