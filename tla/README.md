# A TLA+ development of AstraLog-HPC

AstraLog-HPC reads the telemetry of a satellite from a CSV file, evaluates
monitoring rules on it with OpenMP threads, and writes two files:
`valid_data.csv` with one NOMINAL line for each timestamp at which no rule fires,
and `alarms.log` with the alarms of the others.  This directory models the program
in TLA+, checks the models with TLC and proves theorems about them with TLAPS.
Paths are those of the repository; `types.hpp` and so on are its eight source
files.

## 1. Inventory

| Part | Source | State it keeps | Operations |
| --- | --- | --- | --- |
| Orchestration | `main.cpp:54-426` | settings, output streams, exit status | arguments, fallible steps in order, open, append, close |
| Sensor loading | `yaml_parser.hpp` | the ids so far | read a line |
| Rule loading | `rules_engine.hpp:43-315`, `types.hpp:47-93` | the parser's position and calls, the rules so far | parse a value, load a rule, throw |
| Start-up | `main.cpp:198-237`, `rules_engine.hpp:328-356`, `timestamp_processor.hpp:144-199`, `csv_parser.hpp:64-109` | token map and its inverse, rules, `PreparedRules` | intern sensors, assign tokens, sort by priority, deal rules to sensors |
| Mapped file and line index | `csv_parser.hpp:119-229` | mapping, descriptor, offsets | open, release, index a line, read a line, split it |
| CSV parser | `csv_parser.hpp:236-340` | per-thread record lists and counts | parse a line, drop a line, reduce the counts, merge |
| Batch accumulator | `batch_accumulator.hpp` | buffer, batch number, timer, audit files | `add_record`, `should_flush`, `flush`, `flush_remaining` |
| Feeding loop | `main.cpp:351-370` | position in the records, batch in hand | ask at the end of a run, flush, process |
| Phases 1 and 2 | `timestamp_processor.hpp:215-279` | none | group by timestamp, index by sensor |
| Phase 3, rule evaluation | `timestamp_processor.hpp:303-415`, `rules_engine.hpp:365-413` | `PipelineState` (previous value and counters of each sensor), per-thread lists | take a sensor, apply a rule, write the state back, merge |
| Violations | `types.hpp:208-252` | inline pairs, vectors | add, read, move |
| Phase 4, correlation and order | `timestamp_processor.hpp:434-535` | none | correlate, sort |
| Phase 5, output | `timestamp_processor.hpp:553-576`, `output_formatter.hpp` | lines of each group | format a value, a line; throw |
| `process_batch` | `main.cpp:313-349` | the two files, the statistics | append, count |

**Interaction.**  Everything runs in one process.  `main()` loads the sensors and the
rules, prepares the rules, maps the file, indexes its lines and parses them, opens the
output files, and then moves the records one by one into the accumulator; a flushed
batch goes through the five phases of `process_pipeline` and to the files before the
loop continues.  Every step before the loop may end the run.  Threads exist only inside
three OpenMP regions (parsing, phase 3, phase 5), each closed by a barrier.  What
connects one batch to the next is `PipelineState`, and the output files.

**What is hard.**

* *Schedules.*  Which thread evaluates which sensor is decided at run time
  (`schedule(dynamic)`), and the violations of a timestamp are collected per thread.
  The output must not show it.
* *State across batches.*  A step-diff rule needs the sensor's last value and a
  stateful rule the length of the run of violations that is open, both of which may
  lie several batches back, the sensor being absent in between.
* *Cuts.*  Batches are cut by a count or by the clock, and a timestamp must never be
  cut in two, at the end of the input either.
* *Time.*  The clock is read in `should_flush` and again in `flush`, and the pipeline
  runs in between.
* *Order.*  Records come back from several threads and must be in file order; groups
  are runs of equal timestamps in that order; alarms are sorted from lists that are
  merged in thread order.
* *Failure.*  Loads, opens and writes may fail and allocations may throw, the run may be
  killed, and the streams hold back lines: what is in the files at each exit is a matter
  of order.  An audit file that cannot be written is only a warning.  Nothing is
  persisted that a later run reads, so there is no recovery.
* *Boundaries.*  The last byte of the file, the fifth pair of a violation, the sixty-fourth
  character of a number, the end of a text that a recursive descent reads.

**What makes each part correct.**

* Orchestration: an error leaves the earlier outputs alone; exit status 0 means complete
  files; what a run that stops midway leaves has no holes; what is mapped is released once.
* Loading: what the parser accepts begins with a JSON value and is read as that value;
  rules are read as written or the file is refused.
* Start-up: parser, rules and formatter agree on the sensors' tokens; each rule is
  evaluated at its sensor's readings, once, with a counter of its own.
* Index and parser: exactly the valid lines of the file, in its order, and counts that
  add up.
* Accumulator: every record once and in order, cut only where the timestamp changes;
  batches no larger than they must be; an audit file holds its batch.
* Phase 3: exactly the violations that the whole history of each sensor calls for.
* Output: every reading and every pair of every violation, with its value.
* Program: the files are a function of the records, not of threads, batches or time.

## 2. Modules

```
RulesEngine ─────┬── RuleEvaluation ──┐
                 └── Monitor ─────────┼── AstraLog ── MC_AstraLog
Orders ────────┬─ TimestampProcessor ─┤
               └─ RulePreparation     │
BatchStream ──── BatchAccumulator ────┘
MiniJsonParser ─ JsonLanguage ──┐
YamlSensors ────────────────────┼── Configuration ── MC_Configuration
RulePreparation ────────────────┘
LineIndex ───────┬── CsvInput ── MC_CsvInput
CsvParser ───────┘
RuleViolation ───┐
OutputFormatter ─┼── OutputGeneration ── MC_OutputGeneration
Orders ──────────┘
Orchestrator ── MC_Orchestrator
*_proofs: Orders, RuleEvaluation, BatchAccumulator, AstraLog, CsvInput (with LineIndex
          and CsvParser), Configuration (with RulePreparation and MiniJsonParser),
          OutputGeneration (with RuleViolation and OutputFormatter), Orchestrator
```

**RulesEngine** has the comparison, the three evaluators, and beside them `Fires`,
what a rule means on a history of values.  Values are the integers and NaN, which
`std::from_chars` accepts.  A double rounds and an integer does not; the rules only
compare and subtract.  `NextCount` is the counter a stateful rule leaves.

**RuleEvaluation** is `evaluate_rules_parallel` on a `PipelineState` over any number
of calls.  `TakeSensor` is the dynamic schedule, `EvaluateRule` one rule at one
reading, `NextReading` the update of the previous value, `WriteBack` the end of the
loop's body, `EndParallel` the barrier, `MergeThread` one round of the merge.  The
rules of a sensor are one sequence, in the order in which the code's three loops apply
them; a counter is indexed by its rule's place in it, where the code has a slot
among the stateful rules alone.  History variables (`timeline`, `owner`) record what a
sensor has ever reported and which thread took it; no guard reads them.

**Orders** is a finite set put into a strict total order: `Ranking`, the sequence whose
n-th element is the one that n - 1 others precede.  A loop that goes through records,
rules or places in their order and keeps some of them is `Ascending` or `Picked`; the
nested loops of phase 2 are a ranking of pairs, and a stable sort is a ranking of places.
None of it is recursive, so it can be reasoned about.

**TimestampProcessor** has the sequential phases as operators over `Orders`.

**BatchAccumulator** is the accumulator together with the loop that drives it, as the
class alone decides nothing.  Each statement that changes state is an action:
`AddRecord`, `CheckFlush`, `FlushRemaining`, `Flush` (the swap and the batch number),
`AuditAndRestartTimer`, `ProcessBatch`.  `Tick` advances the clock between any two of
them.  A record is known by its place in the input.  **BatchStream** is what it
promises: a prefix of the input is delivered and grows, ending where the timestamp
changes.

**Monitor** is what the program promises, without batches, threads, counters or
sorts: it goes through the runs of equal timestamps and reports each.  Its alarms are a
set, which rules fire being judged on the records alone, put into output order.

**AstraLog** composes `BatchAccumulator` and `RuleEvaluation` as instances with
`process_batch` between them, and refines `Monitor`.  `stage` says which phase the batch
is in; the timestamps reported on (`Consumed`) grow by a group with each `AppendOutput`,
the one step that is a step of `Monitor`.

**LineIndex** is `build_line_offsets`, a byte at a time, with `get_line` and
`tokenize_csv_line` on the result.  A byte is a newline, a carriage return, a comma or
another.  **CsvParser** is `parse_csv_parallel` on lines that are the outcome of its
three tests.  How `schedule(static)` cuts the lines is left open, except that blocks are
contiguous and in thread order, which is what the merge relies on.  **CsvInput**
composes the two as `main()` does: the lines the threads test are those the index leads
to.  Which fields spell a number, a marker or a sensor is a constant.

**MiniJsonParser** has the recursive descent with its open calls as a stack; a token
stands for a mark, a string, a number or a literal, or for text on which the function
that reads it throws.  `Throw` is what happens where none of the other actions has its
guard (`Refused`).
**JsonLanguage** is JSON without a parser: `Meanings` of a text gives each part of it, as a
value and as the open beginning of an array or object, the set of what it means, from the
meanings of the shorter parts.  **YamlSensors** is one line of the reader of
`sensors.yaml` (`SensorOn`) and what such a line is meant to list (`Lists`).
**RulePreparation** is start-up from the sensors' names to `PreparedRules`;
`sort_by_priority` is a set of orders, as `std::sort` is not stable; `PreparationSpec`
leaves open who loads the files.  **Configuration** runs all of these in the order of
`main()` on two texts, with `load_rules` an element at a time, and implements
`PreparationSpec`.  Beside the loader it has what it means that a value writes a list of
rules (`WritesRules`) and that an element is defective (`IsDefective`), both in terms of
which members an element has and what they say, not of how one looks them up.

**RuleViolation** is the storage of a violation's pairs: `add`, the accessors, and the
moves that leave an object with its count and without its vectors.  **OutputFormatter**
is `format_value` on the text that `"%.6f"` prints.  **OutputGeneration** builds
violations as `RuleViolation` has it, formats the groups in parallel with the exception
that may leave the region, and appends the lines; which lines the files must have is a
ranking of `Orders`.  In `AstraLog` a violation is a
sequence of pairs and formatting one step, which these modules justify.

**Orchestrator** is `main()` from the arguments to the exit status.  The pipeline is one
step that ends with the next batch or with `std::terminate`; a group is nominal,
anomalous or not printable.  An output file is what is on disk and what its stream's
buffer holds, and `WriteOut` may fail after any part of it.  `kernel` is the mapping and
the descriptor as the system sees them, beside `csv_file`, what `MappedFile` believes.

`MC_*` modules give the constants values for TLC.

## 3. What is checked

| Run | Instance | Shows |
| --- | --- | --- |
| `rule_evaluation` | 2 sensors, 2 threads, 5 rules of every type, 3 calls out of 5 batches | a call returns exactly what the histories call for (`NoFalseAlarm`, `NoMissedAlarm`), in order (`AlarmsInReadingOrder`); states summarise histories (`StateCarriesOver`); `IInv` is an invariant; a call returns |
| `batch_accumulator` | inputs of up to 4 records over 2 timestamps, 8 configurations, 4 instants | `InOrderExactlyOnce`, `RunsIntact`, `CountMinimal`, `AuditMatches`, `TimerSpacing`, termination, refinement of `BatchStream` |
| `whole_program` | 2 sensors, 2 threads, 5 inputs, 4 configurations, 3 correlations, 2 instants | refinement of `Monitor`; `RuleEvaluation`'s assumption about its arguments holds of the batches it is given; statistics and files agree; every record is reported on |
| `csv_parser` | 3 threads, every file of up to 4 bytes, files of up to 3 lines over 6 kinds of line, odd line ends, every division | `IndexComplete`, `LinesReadBack`, `FileOrder`, `RecordsAreTheFile`, `ParseInv`, termination |
| `configuration` | 3 styles of writing up to 3 rules out of 7, 3 files of sensors, 10 defects, every text of up to 4 tokens and longer ones cut, thinned or changed anywhere | `ParsesJson`, `ReadAsWritten`, `PlacedOnce`, `TokensAgree`, `CounterPerRule`, `HigherFirst`, refinement of `PreparationSpec`, termination |
| `orchestrator` | every order of the options of 4 command lines and 9 odd ones, 5 inputs, every failure and a kill at every step | `ErrorKeepsOutputs`, `NoHoles`, `SuccessIsComplete`, `ReleasedOnce`, `ArgumentOrderIrrelevant`, termination |
| `output` | 2 violations with up to 2 pairs and room for one inline, 2 groups, 2 threads, values up to the longest that fits and one that throws | `ReadsBack`, `FilesShowTheBatch` |

**Bounds.**  Two threads and two sensors give every order in which one thread may
take both sensors or each one, and the merge both orders; a violation of the order of
one sensor's alarms needs two readings of it in one group, which the batches have.
Three calls let a sensor's state pass through a batch in which it is absent, and let
a run of three violations spread over three batches.  For the accumulator, runs of one
to four records, thresholds below, at and above their lengths and above the whole
input occur, and the clock may advance before, in and after every flush.  `MaxTime`
stops the clock only, so the loop still ends.  `MaxBatches` is never reached: a batch
has at least one record.  Three threads over three lines give empty blocks in every
position; four bytes are enough for an empty header, empty lines, and a last line with
and without its newline, and lines of seven and more bytes have the three commas.
Texts of four tokens have every pair of a bracket and what may follow it; what is
longer is built from nested values by leaving out, replacing or cutting off after any
token.  `IntMax` is small, so that a number of a file lies beyond it.  One inline pair
puts the boundary of the storage where two pairs cross it; `OutputGeneration_proofs`
has the theorem for every capacity.  `MaxAdds`, `MaxGroups`, `MaxRules`, `MaxTokens`,
`MaxSize`, `MaxLines`, `MaxRecords` and `MaxCalls` bound the inputs only.

**Fairness.**  The operating system runs every thread of a team and the main thread:
weak fairness on each thread's steps, and on the main thread's.  In `AstraLog` it is
enough that some thread of the program runs, since every step of any of them is
finite work, and in `Configuration` and `Orchestrator` there is one.  Nothing obliges
the program to start a call, so `RuleEvaluation` has no fairness on `StartCall`, nor
does the clock have to advance or anyone kill the run.  In `CsvInput` the call of the
parser is fair whatever division of the lines it leads to (`WF_started(Call)`).

### Where the code and its documentation differ

Each is a run that TLC must find violated.

* `timestamp_comes_back`: a timestamp that comes back after another one is two groups,
  and may be both NOMINAL and in alarm, against `README.md:215`,
  `main.cpp:351` and `timestamp_processor.hpp:213`.  The shipped medium telemetry file
  has such timestamps.  Where timestamps do not come back the property holds
  (`NominalExcludesAlarmWhenSorted`).
* `timer_measures_batch_age`: under TIME the timer starts when the batch before is
  flushed, not when the batch starts accumulating (`batch_accumulator.hpp:22`), so the
  time the pipeline takes counts.  What does hold is `TimerSpacing`.
* `duplicate_rule_ids`: two rules with one `rule_id` and priority are accepted, and
  the order of their alarms depends on the schedule (`README.md:164`, `:218`).
* `nested_correlation`: a correlation rule never sees that another one has fired
  (`timestamp_processor.hpp:424`).
* `format_value_cut`: `format_value` prints into 64 bytes.  From 57 characters before
  the point on decimals are lost or zeros kept, from 63 the point, against
  `output_formatter.hpp:33`; with exactly 62 `erase` throws in the parallel region and
  the program ends.  Below, `FilesShowTheBatch` holds.

What the models show of the code where no document says otherwise: a correlation with
AND and no sub-rules fires wherever any rule does (it is in `Monitor` as in the code); a
negative or huge `--batch-size` aborts under TIME too, after the outputs of the run
before were truncated (`ErrorKeepsOutputs` speaks of `return 1` only); exit status 0 does
not exclude that a write failed (the `bad = {}` of `SuccessIsComplete`); text after the
first JSON value is ignored (`ParsesJson`); a member `conditions` that is not an array
hides `sub_rules`; a comment behind a sensor's id becomes part of it.

## 4. What is proved

The constants are arbitrary in every theorem: any number of threads, sensors, rules,
batches, records, lines, bytes, any clock.  What is assumed of them is named in each
module (`...Assumption`) and evaluated by TLC in the runs.

**RuleEvaluation_proofs**: `TypeCorrect`, `FalseAlarms`, `MissedAlarms`, `AlarmOrder`,
`StateIsSummary`, all from `InductiveInvariant`.  The properties speak of a call that
has returned; in its midst the invariant has to say who has done what.  `Done(s, p, j)`
says that rule `j` has been applied to reading `p` of sensor `s`, from the position of
the thread that owns `s`.  `DispatchInv` gives each sensor one owner; `StateInv` says
that a busy thread's private state summarises its sensor's history up to its position,
and the shared state that of every other sensor; `FoundIsExpected` and
`ExpectedIsFound` say that the list of a thread holds a violation exactly if its rule
fires and is done; `ListsInOrder` and `MergeInv` carry the order to the result.  The
heart is `EvaluatorsAreExact`: an evaluator that sees only the summary agrees with
`Fires`, which sees the history.

**BatchAccumulator_proofs**: `InductiveInvariant` and from it `TypeCorrect`,
`ExactlyOnce`, `NoRunIsSplit`, `CountBatches`, `AuditTrail`; then `TimerRestarts`, an
action property, with the help of a small invariant about when the timer was read;
and `Refinement`: every step is a `Deliver` of `BatchStream` or leaves its variables
alone.  The invariant adds to the properties where the batch and the buffer are at
each point of the loop (`ControlInv`), that cuts and batch numbers go together
(`CutsInv`), and that the open batch has not missed an end of a run at which it was
large enough (`OpenBatchInv`).

**Orders_proofs**: `RankingIsUnique`, that whatever has every element of a set and
respects the order is the ranking, and from it what a ranking of a union is (one after
the other, where every element of the first precedes those of the second) and of an
image.  It also has induction over the natural numbers: the library's theorem for it takes
an operator, which the provers cannot instantiate, so it is stated here for a set of
numbers, from the least element of a nonempty one.

**AstraLog_proofs**: that the program implements `Monitor` (`ProgramImplementsMonitor`).
The argument has three parts.

1. *The two instances.*  Every step of the program is a step of `BatchAccumulator` or
   leaves its variables alone, and one of `RuleEvaluation` or leaves its alone, so that
   the inductive invariants of both hold of the program.  `RuleEvaluation_proofs` assumes
   of a call that its readings are indexed completely and in order; here that is
   `CallsAreWellFormed`, a theorem about `build_timestamp_groups` and
   `build_per_sensor_sequences`.
2. *The invariant.*  `IInv` is theirs and `ProgramInv`: `StageInv` and `PhaseInv` say
   that what the phases have handed on is what they make of the batch in hand,
   `HistoryInv` that what a sensor has reported to the evaluator is its history in the
   records up to this batch, which is where batches disappear, `StatisticsInv` and
   `TimestampsInv` what the files hold in the middle of a batch.  `StatisticsAreOfTheFiles`
   and `NominalOrAlarm` follow.
3. *The step.*  A group is a run of the records, by `RunsIntact` a whole one.  By
   `NoFalseAlarm` and `NoMissedAlarm` the violations of phase 3 are the alarms `Monitor`
   raises in it, as a set.  Correlation looks up the first violation of a `rule_id`, and
   the stable sort leaves alarms of equal priority and `rule_id` as they were; by
   `AlarmsInReadingOrder` the list has those of one sensor in the order of `Monitor`, so
   both come out the same if no `rule_id` belongs to two sensors.

`RuleIdsOfOneSensor` is that hypothesis.  It is needed: in the run `duplicate_rule_ids` it
does not hold and TLC finds the output depend on the schedule.  It holds of the rules of
`whole_program`, which `MC_AstraLog` has TLC evaluate.  The other theorems of the module
do without it.

**CsvInput_proofs** covers the path from bytes to records.
*The index*: `IndexIsComplete` for files of any length; `IndexInv` says that the offsets
are the line starts up to the position, and that between two lines the position is itself
a start or past the end, `InFile` that a loop over a line never begins past the end.
*The parser*: `InductiveInvariant` and `OrderOfFile`; `ParseInv` says that a thread's list
is the parse of the part of its block it has been through, and the merged list that of the
merged blocks.  *Their composition*: it implements the specification of the index
(`ImplementsIndex`), so `IndexOfTheFile`; the call establishes the parser's invariant for
the lines it passes, so `ParserInvariant` and `RecordsInFileOrder`.
`TotalsInv` adds that the totals are those of the blocks of the threads reduced so far,
whatever their order, by induction on their number; with it `RecordsOfTheFile` states
`RecordsAreTheFile` in full.  *The lines*: `LinesAreReadBack`: a byte that has a newline
before it is in the line that begins after the last such newline and in no other, and
`tokenize_csv_line` finds the commas of the line one by one, since the stripped bytes
hold none.

**Configuration_proofs**, first for `PreparationSpec`, so whatever loads the files:
`TokensOfTheFile`, `CountersOfTheSensor`, `PriorityAtTheSensor` and `RulesArePlacedOnce`.
`TokensInv` says that tokens are given out from 0 and to one sensor each, `InternInv`
which sensors have one, `InverseInv` that the inverse map is the inverse; then that each
type's list has the rules of the type once each, before and after a sort of which nothing
is assumed but that it permutes and orders, and that a sensor's lists are the rules picked
from it by token.  Then `LoadersImplementPreparation`: with any two files, each step of
the YAML reader, of the JSON parser and of `load_rules` is a `Loading` of
`PreparationSpec`.  `LoadInv` says that what is read are sequences, of rules that have one
of the four types, and that none is handed on before all are read.  So `FilesArePrepared`:
what was proved of `PreparationSpec` holds of the program's own start-up.

*The JSON parser*: `JsonIsParsed` states `ParsesJson` in full, for any file and any depth
of nesting.  `Meanings` is a recursive function over the parts of a text;
`MeaningsEquation` derives, by induction on the length of a part, that it satisfies its
equation, and the rest of the proof uses only that.  The parser's steps are a relation
`Moves` between its positions, of which there is one from each at most (`OneMove`), and
`Leads` says that repeated moves come from one to another.  The inductive invariant
`ParserInv` has two halves.  *Soundness* (`HasRead`): each open array or object was opened
where a value of the one around it begins, its elements so far are a meaning of what lies
between its bracket and the last comma, and the value just read is a meaning of the text
since; `ReadOn` shows that each move keeps this.  *Completeness* (`Expects`): the parser
is still on its way to every value that the text begins with.  It holds at first by
`EveryValueRead`, an induction on the length of the value, and a move keeps it as there is
no other move.  So where the parser is refused no value can be ahead of it, and
where it returns, what is ahead is what it has read: hence also that a text begins
with one value at most.

*What the files say*: `FilesAreReadAsWritten` states `ReadAsWritten` in full.
`WrittenIsRead` shows of an element that writes a rule that `load_rules` accepts it and
makes that rule of it, `DefectIsRefused` that one with a defect is not acceptable;
`SensorIsListed` that trimming a line twice leaves the name that the line is meant to
list.  `FilesInv` adds to `LoadInv` and `ParserInv` that the rules so far are the first of
those meant (`MeantInv`) and that the sensors so far are those of the lines so far
(`SensorsInv`).  What is assumed of the files are the verdicts on them
(`FilesAssumption`: one that is meant to be rules has a meaning that writes those rules,
one that is meant to have a defect means no array without one) and that a sensor's name is
spelt by one symbol (`NamesAssumption`); neither says anything of the loaders, and TLC
evaluates both for the files of the run.

**OutputGeneration_proofs** goes from the storage to the files.
*The storage*: `StorageIsSequence`, for every capacity; `ReadsBack` is inductive with the
type invariant, which says how long the vectors are.  *The texts*: `FormattedValueReads`,
that a value whose text fits the buffer is formatted without an exception and as its
value: the only point of the text is the one before the decimals, so what is stripped
from the end is zeros behind it.  *The files*: from `OutputInvariant`,
`FilesShowWhatWasGiven`.  `LinesInv` says that a group is formatted or blank and that a
thread has formatted its block up to its own position; the blocks cover all groups (by
induction on the threads), so past the barrier every group is formatted, which is
`AppendInv` together with: the files have the lines of the groups appended so far.  Those
are rankings, of the groups and of pairs of a group and a place in it; that one more group
adds its lines at the end is a lemma about `Orders`.

`ValuesFitOrThrow` is the hypothesis of `FilesShowWhatWasGiven`: no value is so long that
the buffer cuts it off without an exception.  It is needed, `format_value_cut` being what
happens otherwise; TLC evaluates it for the run `output`.

**Orchestrator_proofs**: `ErrorsKeepOutputs`, `FilesHaveNoHoles`, `SuccessMeansComplete`
and `HandlesReleased` from `InductiveInvariant`.  `Whole` says that what a good stream
has written and still holds are the lines of all groups so far, from which `NoHoles`
follows wherever the run stops; `OpenInv` where the files are truncated; `ClosedInv`
that a closed file's stream is empty; `Consistent` that `MappedFile`'s members agree
with the system's.  `ArgumentsInAnyOrder` is about pairs of command lines: in a complete
one each option occurs once with its value, so `get_arg`, which takes the first, finds
the value that is given with it, wherever it stands.

### Model-checked only

* Liveness (`CallReturns`, `AllProcessed`, `AllReported`, `InputReturns`,
  `ConfigurationEnds`, `RunEnds`): out of the proof system's reach.

Everything else that the passing runs check is a theorem.

## 5. What is not modelled, and why

* googletest, a third-party test framework of which the repository has a copy: 43 851
  of its 46 557 lines of implementation code.  No part of the program uses it, and what
  could be said of it would not be about this program.  The program itself has 2 706
  lines, two fifths of them comments and blank lines; the definitions are mapped to
  1 648 of them.
* The tests, and the scripts that build and run the program: no program logic.
* Text below the level of a token or a field: JSON's escapes and whitespace, the spelling
  of numbers for `std::stod` and `std::from_chars`, how `printf` rounds, the separators
  of an output line, the text of an audit file.
* The time of day, phase timings, progress messages, and what benchmark mode changes
  besides the audit files.
* Changes of the mapped file by another process during the run.
* Exceptions of allocations other than the one whose size the user gives.
* Overflow of the counters (2^31 readings) and of the batch number.

## 6. Plan

Done in the order of importance: rule evaluation, the accumulator, their composition and
its refinement of `Monitor`, the parser, start-up; then the loading of the two
configuration files, the index and its composition with the parser, the storage and the
formatting of violations, and `main()` itself.

The planned proofs are done: every safety invariant, action property and refinement of
the passing runs is a theorem.  Left are the liveness properties.
