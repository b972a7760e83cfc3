# Quantile, specified

Quantile estimates how much a masked hardware design leaks. It works in two
stages. A *testbench* program loads a netlist, simulates it symbolically cycle by
cycle and generates a C++ file with the functions of the design (stage 1). The
*verifier* is linked against that file and samples it with random inputs on many
threads, estimating the mutual information between every wire and the secrets
(stage 2). This directory holds TLA+ models of both stages, the TLC runs that
check them and TLAPS proofs of what matters most. `PROJECT.json` maps every
definition to the lines it models.

## 1. Inventory

| Component | Source | State | Operations | Where |
|---|---|---|---|---|
| Sampling phase | `verify_mi.cpp` | `not_stopped`, per sampler `run_id` and sums, `samplers_done`, mutex and condition variable, report locals | spawn, run, stop (signal, alarm, early stop), wait, report, join, store | `SamplerPool`, `Analysis` |
| Symbolic expressions | `SymbolManager.*`, `Symbol.*` | caches of operations, variables, slots; `m_variable`, `m_position` of every symbol | create, copy, `! & \| ^ mux`, emit | `SymbolManager`, `Symbol` |
| Cells | `Cell.*`, `cell_types.*` | type and ports | from a type name, `eval` on two cycles | `Cell`, `CellTypes` |
| Symbolic simulator | `Simulator.*` | trace of cycles, secrets, data, masks, ranges of slots, labels, ends of cycles | prepare, step, allocate, assign, epilogue | `Simulator` |
| Generated runner | written by `Simulator.cpp:305-524`, used by `verify_mi.cpp:137-208` | storage of `RUN_LENGTH` words, counts | randomize, fix, run, count | `Runner` |
| Netlist loader | `Circuit.*`, `VerilogId.h` | signals, ports, ordered cells, names | constructor | `CircuitLoader`, `CellTypes` |
| Vectors of symbols | `SymbolVector.*`, getters of `Simulator.cpp` | references into a cycle | slices, elements, assignment, `as_uint64_t` | `SymbolVector` |
| Saved results | `SaveDataMI.*`, `merge_savedata.cpp`, `write_save` | hash, parameters, runs, sums; files | load, check, add, store, merge | `SaveDataMI`, `Verifier` |
| Options | `OptionsMI.*` | sample counts, file names | derive and check counts, check files, plan runs | `OptionsMI`, `Verifier` |
| Mask policies | `tests/common_tb_utils.cpp` | counters in globals | fresh, stale, every n cycles or rounds | not modelled |
| SIMD words, entropies | `circuit_utils.h`, `apxmath.h` | none | bit-sliced gates, popcount, Stirling | not modelled |
| Entry points, tools, scripts, netlists, vendored code | `main.cpp`, `analyze_savedata.cpp`, `sampler_speed_test.cpp`, `tests/*.py`, `designs`, `json`, `cxxopts` | | | not modelled |

**Interaction.** A testbench calls the simulator; the simulator is a circuit
(loader) and calls the cells, which call the operators of `Symbol`, which call
the one static `SymbolManager`; that writes macros and statements into the
generated file. `emit_epilogue` writes the functions that fill, run and count
the storage. In the verifier `analyze` starts one thread per sampler; each calls
the generated functions on a storage of its own and adds to its own sums, while
the main thread reads these sums for interim reports without a lock, and a
signal handler clears the one flag all threads look at.

**What is hard here, and what each component must guarantee.**

- *Sampling phase* (threads, signals, timeouts): a result is whole runs only,
  however it was stopped; interim reports are nearly right although they race
  with the samplers; nobody reports before all samplers have ended; it ends.
- *Symbolic expressions* (long sequences of calls): a dozen rewriting rules and
  five caches never change the function of an expression; slots are never
  confused although symbols remember them in copies.
- *Simulator* (reuse across cycles, numbering): every wire of every cycle has
  the function the circuit gives it; every slot has one source; generated code
  reads only what was stored before; shares add up.
- *Vectors* (slices of slices in both directions, references that alias): a wire
  holds what was assigned to it; a vector is read as the number assigned, or throws.
- *Runner* (loops with their own bounds): what is counted was computed from the
  inputs of that sample; what is fixed stays fixed.
- *Loader* (a loop that may not end): cells come in an order in which they can be
  evaluated, none is lost, and what nothing drives is known as such, or there is
  an error. A combinational loop is neither: the program hangs.
- *Saved results* (crashes, full disks, files shared by programs): a result never
  counts other runs than it claims, no analysis goes on with the result of
  another, and a stored result is not replaced by a smaller one.
- *Options* (rounding and overflow): the runs planned cover what was asked.

## 2. Modules

```
Analysis  <--(refinement)--  SamplerPool  <-- SamplerPool_proofs
SymbolManager <-- Symbol <-- Symbol_proofs
      ^  ^------------------ SymbolManager_proofs (used by Symbol_proofs)
     Cell <-- Simulator <-- Runner
                               ^-- Simulator_proofs (uses SymbolManager_proofs, Folding)
CellTypes <-- CircuitLoader <-- CircuitLoader_proofs
SymbolVector <-- SymbolVector_proofs (uses Folding)
OptionsMI, SaveDataMI <-- Verifier <-- Verifier_proofs
MCSamplerPool  MCSymbol  MCSimulator  MCRunner  MCCircuitLoader  MCVerifier  MCSymbolVector
```

`Folding` has what the proofs need of a loop: a recursive fold has successive
values, and a property of them that every step keeps holds of the last (from
well-founded induction). `MC` modules hold the constants for TLC. `MCSimulator` builds its circuits from
the type names of a netlist with `CellTypes`, so that the cells the simulator
evaluates are the ones the loader would make.

### SamplerPool, Analysis

One action per step of a sampler thread (`Enter`, `Test`, `Add`, `Count`,
`Finish`, `Notify`: `run_many` around `run_once`) and of the main thread
(`Spawn`, `Wait`, ..., `FinalReport`: `analyze` and `show_suspicious`), and the
handler reached from a signal, the alarm or an early stop. `Add` is one iteration of the
accumulation loop, and `Tally`, `ReadSum` and `ReadRuns` are single reads of the
reporter, so every interleaving of the race in `show_suspicious` is there.
`wait_for` with its predicate, its timeout and spurious wakeups, and the `wait`
without predicate of a zero print interval, are modelled as the standard defines
them. A summand is counted, not valued: whether a mean is far above the threshold is the
constant operator `Substantial`. Each store of a sampler is assumed to reach the
reporter whole and in program order, which x86-64 gives for aligned 8-byte
words when the compiler does not move them; formally the reads are a data race.

`Analysis` says what the whole phase promises: workers complete runs, a stop
leaves each of them at most the run it is in, one result is published, and it
accounts for exactly the completed runs. `Promise` in `SamplerPool` is the
refinement mapping.

### SymbolManager, Symbol

`SymbolManager` has the operators of the class as pure operators from a manager
to a manager and a variable, rule by rule and cache by cache. The function a
variable computes is the history field `truth`: the set of assignments of the
inputs under which it is one. `Symbol` is the state machine of a set of symbol
objects over the one manager: a copy keeps the position its original knew.
Variables are numbered 0, 1, ...; the constants are the two literals.

### Cell, Simulator

`Cell` evaluates gates and registers on the symbols of two cycles, including
the reuse of last cycle's output when the inputs have not changed. `Simulator`
has one action per call of a testbench: `PrepareCycle`, `StepCycle`,
`AllocateShared`, `AllocateMasks`, assignments of constants, of shares and masks and
of an exclusive or of two, and `EmitEpilogue`. `RedefineMasks` is a caught error
of `allocate_masks` (`tests/aes_dom/tb_aes_dom.cpp:77-82`). What is generated is
`gen`: which slots the code of every variable reads, the statements of every
cycle, the labels of the slots. The history variable `ideal` runs the circuit on
functions of the inputs, with no variables, caches or reuse.

An error that nobody catches ends the testbench and is no action. Only input
ports of a prepared cycle are assigned, as `src/README.md` describes.
`PrepareCycle` needs an unprepared cycle: called twice it would open one
generated function inside another.

### Runner

The calls of `run_once` on the generated code, one action each, after a
testbench has generated it. A word is abstracted to whether it is *current*: an
input is once it was filled, a computed slot is when its statement ran after
all it reads was current; filling an input makes all that depends on it out of date.

### SymbolVector

The wires of one cycle and one vector in hand, which a testbench opens by name,
narrows, assigns and reads; `Simulator` assigns one bit at a time and leaves this
out. Assignments are folds over the bits in the order of the loops, so one that
reads what it has just written is as in the code. What an assignment asks for is
kept apart: `span` counts positions in the name where the code walks
iterators, `ideal` gets all values at once. A shift of a 64-bit number by 64 or more
(a longer vector) is undefined: it starts again at the first bit, or gives zero.
Bounds of slices are within the vector, as only the size is asserted.
A wire without a value in the cycle (`Present`), an output or a net before the step, is
taken for the one constant `S_X`, as `operator[]` of the simulator does (`Simulator.cpp:219-222`), and reads as
zero. To assign to it would change all other wires without a value: the constant `Undriven`, FALSE in the
run, says whether that may happen. Left out: names with a constant among their bits (an assignment would
change the constant) or with a wire twice. `VectorAssumption` excludes both; ports have neither.

### CellTypes, CircuitLoader

`CellTypes` decodes a type name into a cell type: the gates, and the four
families of registers with their polarities, and the predicates of
`cell_types.h`. The compile-time tests of that header are its assumption.

`CircuitLoader` is the constructor of `Circuit`, one action per iteration of
each of its loops: `ReadPort`, `ReadCell`, `CheckMissing`, `CheckClock`,
`PlaceRegister`, then `VisitCell` and `TestOrder` for the ordering loop, and
`ReadNet` for the names. Every exception ends in the stage `failed`. What a
netlist must be (`Legal`, `Acyclic`) is stated apart from this, from the names of
the cell types. A netlist is a record of
signals: JSON and the numbering of bits are outside. `m_reg_outs` is left out:
it decides nothing in the constructor, and `Simulator` has the outputs of its registers.

### OptionsMI, SaveDataMI, Verifier

`OptionsMI` is pure: the counts derived from a command line in unsigned numbers
that wrap at `Word`, what is refused, and the runs `analyze` plans. What an
epsilon is turned into is floating point, hence two arbitrary inputs.
`SaveDataMI` is pure too: a file is a sequence of fields, and `Loaded` is what
`operator>>` makes of any prefix of one: it never looks at the stream, so a field
that is not there keeps what the constructor put there, and a sum that
is not there is `Junk`, whatever `malloc` returned.

`Verifier` is the composition: processes, each with a script of programs
(`verify_mi` or `merge_savedata`) that share a directory. A program reads its options,
looks which files exist, loads, analyses (any number of the planned runs, as a
stop may come at any time), and writes field by field.
What it loads it reads in blocks, as its stream does (`ReadBlock`), and `Load`, `ReadFirst`
and `ReadNext` work on what was `got`, once nothing is missing or the end of the file was reached. Between two blocks the
writer may write on, or somebody may empty the file and write another result. A block ends behind any field; the header
(116 bytes) is shorter than the buffer of a stream and comes in one. The hash is compared when the reading
ends, which changes nothing, as it is in the first block. A block takes what has reached the file: `Write` of a
field is one step. A report is one field, `text`, which no hash equals: read as a result it ends at the hash, and what lies
behind it in the file counts as absent. Two history variables follow what such reads can do: `torn` has the processes that were in the middle
of a file when it was emptied, `mixed` the files with what they made of it. Faults are a constant:
`kill` ends a program between any two steps, `write` makes a stream stop taking
fields, which nobody notices. A factor of 0 ends a program where an assertion
stops it (the default build does not define `NDEBUG`), a round that wraps to 0 at
the division.

`Begin` makes one assumption on the user: a program does not begin while another
one that writes the same file runs. Without it the later of the two
overwrites the earlier, as there is no lock: `NothingLost` would not hold. With it goes the race of two writers
between asking for a file (`OptionsMI.cpp:211`) and opening it. A file that is read
while another program writes, empties or replaces it is allowed, and happens.

## 3. Runs

| Run | Bounds | Shows |
|---|---|---|
| `pool` | 2 samplers, 2 positions, 2 runs each on 1 loaded run, all options on | `DoneMeansIdle`, `OvercountAtMostOne`, `StopLatency`, `ExactResult`, `QuietAfterBreak`, every step is one of `Analysis`; the analysis ends |
| `pool_lost_wakeup` | zero print interval | violation: the last notification is lost and the timeout not honoured |
| `symbols` | 3 symbols, 2 independent inputs; 3 variables and a slot for each, or 4 variables | expressions keep their function; macros are ordered and defined once; positions in copies are never wrong; slots are dense |
| `simulator` | 2 circuits, 3 inputs, 2 cycles, 2 or 3 shares | shares add up, every slot has one source, labels are complete |
| `simulator_cycles` | 2 circuits, 2 inputs, 3 cycles, 1 or 2 shares, late masks and retries | every signal has its function in every cycle; code reads what is stored; unmasked labels are inputs |
| `runner` | 1 circuit, 3 inputs, 2 cycles, 2 shares, `--cycles` 0 to 3, 2 samples, 2 secrets | what is counted is current, what is fixed stays fixed, nothing is counted twice |
| `runner_last_cycle` | 1 input, the same otherwise | violation: the last cycle is counted but not run in the first loop |
| `runner_fixed_bits` | 4 inputs, 1 cycle | violation: all fixed bits are the same bit |
| `vectors` | ports of 3 and 2 wires, a net across them and one with a wire without a value, numbers of 2 bits, 2 shares | slices refer to the right bits, wires hold what was assigned, vectors without symbols are read as what was assigned |
| `vectors_symbolic` | the same | violation: a vector with a symbolic and a constant bit is read as a number |
| `verifier` | 2 processes, 3 files, 2 designs, words of 64, 4 samples in parallel, kills and failing writes; 343 pairs of scripts and 6,436 command lines, on 2 directories | no result counts wrong unless a file was emptied while it was read, none is another's or replaces a larger one; the plan covers what was asked |
| `circuit` | three families of netlists: 3 gates in any wiring, 2 registers of all kinds around a gate, vectors with shared names | the verdict is the one the netlist deserves; order, cells, missing signals and names are right; without a loop the constructor ends |

**Why the bounds are enough.** Two samplers race with each other and with the
reporter; a third adds only a repetition of the second, as the sums the reporter makes are
per sampler. Two positions give a first and a last one to the accumulation
loop, two runs a run before and after a stop. The loaded run makes sampler 0
start elsewhere than sampler 1. Four variables on two inputs are enough for
operations on the results of operations and for the cached complements the
rules of `make_mux` ask for (a fourth variable and slots together are out of reach: emission does not
touch the caches); that no rule is wrong beyond that is what the
theorems show, which have no bound. The two
circuits of `MCSimulator` have every kind of gate, both polarities, a register with
enable and one with reset, and a wire that is a mere copy of an input; three
cycles are needed for a reuse of a reuse. Each cycle of the runner has a
register between it and the next, so a stale word is carried on. The two processes of `verifier` run three programs, so one of them meets what the other
one left cut, and its own first program too, and one process rewrites a file while the other one reads it; a result has four fields of header
and two sums, so it is cut in and after its header. With words of 64 the counts 62 (rounded past the word),
20 secrets and 16 threads wrap in each of the three products. A port of `vectors` is longer than a number, and of three wires, so that a slice of
a slice can turn round; the other port is shorter than the first. Three gates make
every shape of an ordering loop: a chain against the order of the keys, a loop
of two and of three, and two drivers of one signal.
States are
bounded by `MaxVars`, `MaxEmitted`, `MaxInputs` and `MaxCycles`, which are guards of the
actions that would exceed them. `Simulator`, `Runner`, `CircuitLoader`
and `Verifier` stop, and their cfgs say `CHECK_DEADLOCK FALSE`, as a testbench really
ends after its epilogue, `run_once` after its last secret, a constructor when it returns, and a
script after its last program. The pool checks deadlock: `Terminated` is its only end.
Symbols are symmetric under permutation of the objects, and only invariants are
checked there.

**Fairness.** Threads are scheduled (`WF` of every `Sampler(t)` and of
`MainStep`), a pending alarm fires, and a sampler that asks for the mutex gets it (`SF` of `Finish`):
main releases it for the whole of every print interval, during which a blocked
sampler is woken. Signals, spurious wakeups and stops are never assumed. With
the zero print interval only spurious wakeups would help, and they are not fair.
`CircuitLoader` is one thread (`WF` of `Next`): it stops only when there is nothing to do.

## 4. What the code does otherwise

Four runs end in a violation; `PROJECT.json` "findings" has the quotes.

1. `--print-interval 0` waits without a predicate (`verify_mi.cpp:453`). If the
   last sampler notifies first, the program never ends, timeout or not.
2. `emit_run_circuit` (`Simulator.cpp:314`) leaves out the last cycle, while
   `count_run` counts its wires. The default number of cycles is all of them.
3. `rand_pos` is never lowered (`Simulator.cpp:405, 424`): fixed values are all
   ones or all zeros.
4. `is_const` is true as soon as one bit is constant (`SymbolVector.cpp:92`): a
   vector with symbolic bits is read as a number, its symbols as zeros, where the repository's README
   (`src/README.md:124`) promises an exception.

Known as well, and modelled as they are, but with no run of their own:

- `allocate_shared` with one share reads `dest_map[low][1]`
  (`Simulator.cpp:172`), past the end of a vector of one element. The model
  takes any slot, or one beyond all of them; with
  `ShareCounts` of {1}, `FixedStays` fails, as masks may overwrite a fixed secret.
- `--print-best 0` returns from `show_suspicious` before the early-stop test
  (`verify_mi.cpp:281`), so nothing stops early.
- `factor` is computed before counts are rounded up (`OptionsMI.cpp:139`): in words of
  4 samples, `--num-data 5 --num-samples-f-given-d 1` plans 4 runs, where `src/README.md:42`
  speaks of the number of data values. `PlanCovers` therefore promises data values
  only when no count was rounded.
- A file cut after its header is loaded with all its runs and sums from nowhere. A store
  file that is continued in place is empty for the time of the write. The
  properties of `Verifier` say what still holds.
- A file that is emptied and written anew while another program reads it can be loaded with the run count of
  the old result and sums of the new one: nothing in the file or in `operator>>` (`SaveDataMI.cpp:54-71`) would
  tell. This happens in the model (`torn`, `mixed`); no line promises otherwise. `NeverWrongCount` says that
  this is the only way.
- With `Overlaps`, an assignment between two slices that share wires reads bits it has
  already overwritten (`SymbolVector.cpp:77`, `Mirrors`). No testbench has one; the run
  leaves out exactly these.
- With `Undriven`, an assignment to an output or net without a value goes to a constant that all such wires share
  (`Simulator.cpp:221`, `Mirrors`). No testbench has one.
- With `LateMasks`, masks allocated after the last step get slots beyond `RUN_LENGTH`
  (`LabelsComplete`, the assertion of `Simulator.cpp:496`); with `Retries` a failed
  `allocate_masks` leaves masks in no range (`OneSource`). The passing runs of
  these two properties leave the constants FALSE: the repository's own
  testbenches allocate before the first cycle or in prepared ones, and in blocks that never overlap partly.

## 5. Theorems

All are proved for every value of the constants under the named assumptions of
the modules, which TLC evaluates in the runs. `SamplerPoolAssumption` and
`SymbolAssumption` only give types. `VectorAssumption` says that a name has some wires, each once, and no constants. `OptionsAssumption` has the defaults of the
source fit into a word. `LoaderAssumption` and `VerifierAssumption` say that
netlists, scripts and the files of the first directory have the right shape, and that
these files do not count wrong themselves. The static tests of `cell_types.h` are an
assumption without constants. `SimulatorAssumption` says of a circuit what the constructor
of `Circuit` delivers (every gate reads what has a value, every signal has one driver: what
`OrderIsTopological` and `MissingIsExact` show of the loader), and that an allocated range is not
empty. Every proof goes by an inductive invariant, with one lemma
per conjunct (pool), per operator (symbols) or per action (loader, verifier, simulator).

*Pool* (`SamplerPool_proofs`). `IInv` conjoins the type invariant with: `MainBounds` (where the main
thread's indices are); `Accounting` (a sum is the run count, plus one exactly at the
positions the accumulation loop has passed), from which the bound of the race
follows; `DoneCount` (`samplers_done` is the cardinality of the samplers past
`Finish`), which makes `is_done()` mean that all are; `Births`, `AfterBreak`;
`ScanBounds` (what the reporter has read is at most what is there, and one more
for sums), needed because the two reads of a sampler are separate steps;
`StopBudget` (a stopped sampler in the loop has its last run before it);
`PlannedRuns` and `Published`.
`DoneMeansIdleHolds`, `OvercountHolds`, `StopLatencyHolds`, `ExactResultHolds`
and `QuietAfterBreakHolds` follow, and `PoolImplementsAnalysis` is the
refinement: a sampler's `Count` is `CompleteRun`, a first stop is `Stop`, the
final report is `Publish`, all else stutters.

*Symbols.* `SymbolManager_proofs` shows for every operator that it returns a
known variable with the right function and a manager in which every cache entry
still keeps its promise (`CachesSound`) and nothing older has changed
(`Grown`); `MuxComputes` goes through all branches of `make_mux`.
`Symbol_proofs` lifts this to the state machine: `IInv` is type, soundness of the
caches, `HandleSound`, `PositionNeverWrong` and `SlotsDense`. `CachesSound` is the
strengthening: without it a cached result could be anything.
Its second part adds the discipline of the caches: an entry is younger than its
operands (`Ordered`), no variable is the result of two entries (`OneEach`),
and complements are mutual (`Mutual`), which is what the other two need to
survive an insertion into the cache of complements. `OrderedHolds` and
`DefinedOnceHolds` follow: the macros of the generated file can be read from top to
bottom, and none is defined twice.

*Simulator* (`Simulator_proofs`). For every circuit, any order of the calls, any
number of cycles, shares and masks. `IInv` conjoins
- `IsGen`: the manager is sound and disciplined (the invariants of *Symbols*, whose lemmas
  carry every gate), every variable reads slots that exist, and the statements come in the order of their slots;
- `TraceRight`: a symbol of a cycle has the function of its wire, and in a cycle that is over
  the functions satisfy all gates (`Evaluated`). This is what the reuse of last cycle's output
  rests on: a gate whose inputs are those of the last cycle may take its output from there
  only because that output *is* the function of these inputs;
- `HeldRight`: the same of the shares and masks a testbench holds; the clause on
  unmasked slots in `Right` (such a variable is only reached by symbols that know
  its slot) is what keeps `step_cycle` from renaming an unmasked secret;
- `CallsRight`, `UnmaskedLabels`, and `SourcesRight`: ranges are disjoint from one another and from what
  is computed, and together they are all slots.

The loops over cells, over new inputs and over shares are folds. Their lemmas say what
one iteration keeps, and `FoldValues` (`Folding`) that the whole loop keeps it. `SimulationIsSound`,
`HeldIsSound`, `CodeReadsEarlier` and `UnmaskedStay` hold without conditions. `EveryLabel`
assumes `~LateMasks`, and `EverySlotOneSource` assumes `~Retries` and
that nobody asks for a single share: these are the cases in which the code does
otherwise (section 4), and the only ones.

*Loader* (`CircuitLoader_proofs`). `IInv` conjoins the type invariant and the
properties with `NotYet`, `CellsRead` (the cells are those of the netlist up to
the current one, each with all its ports), `VisitedBacked` (a visited signal
is an input or the output of a placed cell), and, until an exception, `InputsKnown`:
what the ports and names read so far left in the tables, that every signal has one driver
(`DriversKnown`), and that there is one clock for the registers looked at (`ClockKnown`).
`VisitedBacked` makes a gate
whose inputs are all visited a gate that may be placed. `LoaderTypes`, `OrderIsTopological`,
`NoCellIsLost`, `MissingIsExact` and `NamesAreRight` follow, for every netlist.
`VerdictIsRight` compares the constructor with what a netlist must be, which is stated
from the names of the types: `CellPorts` says that the bits of a type mean what its
name says, every `throw` has a lemma of why the netlist is not legal, and the gate that was placed first
of any set of gates reads none of them, which is the absence of a loop. The proof needs that names of
ports and of nets are distinct, as the keys of a JSON object are.

*Saved results and options.* `VInv` (`Verifier_proofs`) conjoins `TypeOK`,
`NeverWrongCount` and `OneWriter` (no two running programs write the same file) with five
facts about every process: `RightTool`, `Accepted` (its options were not
refused), `OwnResult`, `PartWritten` (what is in a file being written is the
first fields of the result), and `TargetKept` (from the decision that the store
file may be overwritten to the moment it is, the file has at most the runs in memory: this is where
`OneWriter` is needed). `VerifierTypes`, `CountsAreRight`,
`OnlyOwnResults` and `NoResultIsLost` follow, for any number of processes and files, any
scripts and any faults. Its last part has the arithmetic: when a round fits into
a word no product wraps (`RoundFits`), a quotient rounded up is the least that covers
(`CeilDivBounds`, `CeilDivLeast`), hence `PlansCover` for every word size and
every accepted command line.

*Vectors* (`SymbolVector_proofs`). `SlicesStand`: the references of a vector are to the
bits its bounds say after any chain of slices. The invariant adds that the
bounds are positions of the name; `PartPosition` and `SliceElements` say the same of
the counted and of the walked slice. `AssignmentsStand`: after any sequence of
assignments, also between slices of names that share wires, a wire holds what was
last asked for. The loop over the bits is a fold; its invariant is that the bits
passed have what was asked for and nothing else has changed, and that a bit still to be
read has not been written. That last part is what `~Overlaps` says of the assignment of one vector
to another, and that different bits are different cells is what `~Undriven` says of wires without a value; without them
the theorem is false (section 4). `NumbersAreRight`: a vector without symbols never throws, and the number
it is read as has the values last asked for as its digits, however they were assigned; after *i* bits the sum of
`as_uint64_t` has the digits of these bits (`PlusReads`), as a heavier bit weighs an even multiple of a lighter one
(`WeightMultiple`). The weights are a recursive function, `Weight`, whose recursion is shown to have a
solution, because the provers know nothing of `^`.

*Runner* (`Simulator_proofs`, last part). `RunIInv` conjoins `IInv` of the simulator with
- `CyclesOrdered`: the slots of a function are those between two ends of cycles;
- `RangesOrdered`: the ranges of inputs come in the order of their tags, and one with tag *t* has no
  slot of an earlier cycle: a function that returns early has filled all that the cycles before need;
- `InputsCurrent`: what has been filled is current from the call that fills it to the end of the sample.
  It needs that no other call makes it out of date: filling affects what is filled and what is computed,
  and ranges are disjoint (`SourcesRight`);
- the order of the calls (`OrderRight`) and the three properties.

Running functions 1 to *n* makes all they compute current, whatever was there before: a statement
reads inputs, which are, or slots of earlier statements (`InOrder`), which have become current
and are not written again. `CountsAreSamples` holds without conditions; `CountedWiresAreCurrent` and `GivenStays`
assume `~Retries` and that nobody asks for a single share, as `EverySlotOneSource` does: otherwise a slot
may be filled by two calls, or by none.

*Only model-checked:* `Termination` and `AcyclicEnds`
(liveness under fairness is out of the prover's reach, and so is `ENABLED`). Every
other property of a passing run is the statement of a theorem. The bounds of
the guards (`MaxVars`, `MaxInputs`, ...) are constants like all others: the theorems hold for each of their values.

## 6. Not modelled

The values of entropies, thresholds and errors (floating point), and with them
what an epsilon is turned into; the random generator; vector instructions and
the bit-sliced counting; the text of reports, VCD dumps and generated files;
parsing of JSON and of options (vendored libraries); `xor_runs`, `copy_*` and
`randomize_data`, which `run_once` never calls. `show_suspicious` keeps a list of
best positions: it is printed and does not feed back. The mask
policies of the testbenches are experiments with bad randomness, which promise
nothing; `Simulator` allows any order of the calls they make. `cell_types.cpp` is
empty, and `analyze_savedata.cpp` does not compile at this commit.

## 7. Possible extensions

1. A vector kept over `prepare_cycle`: its references stay in the cycle before, and
   with that in code that was already written.
2. The list of best positions against its definition (the n largest).
