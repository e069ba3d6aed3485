---------------------------- MODULE Orchestrator ----------------------------
(***************************************************************************)
(* main() around the pipeline: the arguments, the fallible steps in their  *)
(* order, the two output files with the buffers of their streams, the exit *)
(* status, and the mapping of the CSV file.  What the pipeline computes is *)
(* in AstraLog; here a group of records is NOMINAL, ANOMALOUS, or one that *)
(* format_value throws on (OutputGeneration).                              *)
(*                                                                         *)
(* A line of a file is the number of the group it belongs to.              *)
(***************************************************************************)
EXTENDS Integers, Sequences, FiniteSets

CONSTANTS
    Argvs,          \* the arguments a run may be given, argv[1] first
    Stoi,           \* std::stoi: the tokens it accepts -> int
    Stod,           \* std::stod: the tokens it accepts -> double
    Inputs,         \* [size, groups]: a CSV file and the kinds of its groups
    MaxThreads,     \* omp_get_max_threads()
    SafeReserve,    \* records for which memory can always be reserved
    Earlier         \* what an output file holds before the run

Kinds == {"NOMINAL", "ANOMALOUS", "UNPRINTABLE"}

ASSUME InputsAssumption == Inputs \subseteq [size : Nat, groups : Seq(Kinds)]

ASSUME ArgvsAssumption == Argvs \subseteq Seq(STRING)

ASSUME StoiAssumption == \A token \in DOMAIN Stoi : Stoi[token] \in Int

ASSUME SizesAssumption == SafeReserve \in Nat /\ MaxThreads \in Nat \ {0}

ASSUME EarlierAssumption == Earlier \notin Seq(Nat)

Files == {"valid_file", "alarms_file"}

VARIABLES
    argv, input,        \* what the run is given
    pc,                 \* the step main() is at
    settings,           \* what main() made of the arguments
    status,             \* "running" | "success" | "failure" | "abort" | "killed"
    csv_file,           \* MappedFile: is data set, is fd >= 0
    kernel,             \* the mapping and the descriptor as the system sees them
    on_disk,            \* output file -> its lines, or Earlier
    pending,            \* output file -> lines in its stream's buffer
    bad,                \* the streams whose badbit is set
    next_group,         \* the next group whose lines are appended
    batch_end           \* the last group of the batch in hand

vars == <<argv, input, pc, settings, status, csv_file, kernel, on_disk, pending, bad,
          next_group, batch_end>>

given == <<argv, input>>
resources == <<csv_file, kernel>>
outputs == <<on_disk, pending, bad>>
progress == <<next_group, batch_end>>
-----------------------------------------------------------------------------
(* Mutant of NamePositions: the loop stops one argument early. *)
NamePositionsShort(args, name) == {n \in 1 .. (Len(args) - 2) : args[n] = name}

(* Occurrences of a name that something follows. *)
NamePositions(args, name) == {n \in 1 .. (Len(args) - 1) : args[n] = name}

get_arg(args, name, default_val) ==
    IF NamePositions(args, name) = {}
    THEN default_val
    ELSE args[1 + CHOOSE n \in NamePositions(args, name) :
                      \A k \in NamePositions(args, name) : n <= k]

has_flag(args, name) == \E n \in 1 .. Len(args) : args[n] = name

(* Trailing characters are ignored by Stoi, and what it throws by the code. *)
get_int_arg(args, name, default_val) ==
    LET val == get_arg(args, name, "")
    IN  IF val \in DOMAIN Stoi THEN Stoi[val] ELSE default_val

get_double_arg(args, name, default_val) ==
    LET val == get_arg(args, name, "")
    IN  IF val \in DOMAIN Stod THEN Stod[val] ELSE default_val

string_to_strategy(s) ==
    IF s \in {"count", "COUNT"} THEN "COUNT"
    ELSE IF s \in {"time", "TIME"} THEN "TIME" ELSE "UNKNOWN"

ThreadCount(n) == IF n > 0 THEN n ELSE MaxThreads

Settings(args) ==
    [csv_path       |-> get_arg(args, "--csv", ""),
     rules_path     |-> get_arg(args, "--rules", "input/rules_SAT_ALPHA.json"),
     sensors_path   |-> get_arg(args, "--sensors", "input/sensors_SAT_ALPHA.yaml"),
     output_dir     |-> get_arg(args, "--output-dir", "output/"),
     num_threads    |-> ThreadCount(get_int_arg(args, "--threads", 0)),
     benchmark_mode |-> has_flag(args, "--benchmark"),
     strategy       |-> string_to_strategy(get_arg(args, "--batch-strategy", "count")),
     batch_size     |-> get_int_arg(args, "--batch-size", 1000),
     batch_interval |-> get_double_arg(args, "--batch-interval", 5000)]

Init ==
    /\ argv \in Argvs
    /\ input \in Inputs
    /\ pc = "arguments"
    /\ settings = Settings(argv)
    /\ status = "running"
    /\ csv_file = [data |-> FALSE, fd |-> FALSE]
    /\ kernel = [data |-> "never", fd |-> "never"]
    /\ on_disk = [f \in Files |-> Earlier]
    /\ pending = [f \in Files |-> << >>]
    /\ bad = {}
    /\ next_group = 1
    /\ batch_end = 0
-----------------------------------------------------------------------------
(* munmap or close: of what is not held, they would free another's. *)
Release(life) == IF life = "held" THEN "released" ELSE "misused"

(* A return from main() runs ~MappedFile. *)
Return(code) ==
    /\ pc' = "ended"
    /\ status' = code
    /\ kernel' = [r \in {"data", "fd"} |->
                    IF csv_file[r] THEN Release(kernel[r]) ELSE kernel[r]]
    /\ UNCHANGED csv_file

(* An exception that nothing catches: std::terminate, without destructors. *)
Terminate ==
    /\ pc' = "ended"
    /\ status' = "abort"
    /\ UNCHANGED resources

ParseArguments ==
    /\ pc = "arguments"
    /\ UNCHANGED <<given, settings, outputs, progress>>
    /\ \/ /\ has_flag(argv, "--help") \/ argv = << >>
          /\ Return("success")
       \/ /\ ~ has_flag(argv, "--help")
          /\ argv # << >>
          /\ settings.csv_path = "" \/ settings.strategy = "UNKNOWN"
          /\ Return("failure")
       \/ /\ ~ has_flag(argv, "--help")
          /\ settings.csv_path # ""
          /\ settings.strategy # "UNKNOWN"
          /\ pc' = "sensors"
          /\ UNCHANGED <<status, resources>>

(* A step that may throw an exception main() catches: it returns 1. *)
Fallible(here, next) ==
    /\ pc = here
    /\ \/ /\ pc' = next
          /\ UNCHANGED <<status, resources>>
       \/ Return("failure")
    /\ UNCHANGED <<given, settings, outputs, progress>>

LoadSensors == Fallible("sensors", "rules")

LoadRules == Fallible("rules", "map")

(* Mutant of FailMapping: fd keeps its value after close. *)
FailMappingKeepFd ==
    /\ csv_file' = [data |-> FALSE, fd |-> TRUE]
    /\ kernel' = [data |-> "never", fd |-> "released"]

(* fstat or mmap failed: close(fd), fd = -1, data null. *)
FailMapping ==
    /\ csv_file' = [data |-> FALSE, fd |-> FALSE]
    /\ kernel' = [data |-> "never", fd |-> "released"]

(***************************************************************************)
(* MappedFile::open.  open, fstat and mmap may each fail; mmap of an empty *)
(* file does.  Then the lines are indexed and parsed.                      *)
(***************************************************************************)
MapFile ==
    /\ pc = "map"
    /\ \/ /\ input.size > 0
          /\ pc' = "create_directories"
          /\ csv_file' = [data |-> TRUE, fd |-> TRUE]
          /\ kernel' = [data |-> "held", fd |-> "held"]
       \/ /\ pc' = "map_failed"
          /\ FailMapping
       \/ /\ pc' = "map_failed"
          /\ UNCHANGED resources
    /\ UNCHANGED <<given, settings, status, outputs, progress>>

MapFailed ==
    /\ pc = "map_failed"
    /\ Return("failure")
    /\ UNCHANGED <<given, settings, outputs, progress>>

CreateOutputDir == Fallible("create_directories", "open_valid")

(* Opening truncates; a stream that is not open takes no output. *)
OpenOutput(here, f, next) ==
    /\ pc = here
    /\ pc' = next
    /\ \/ /\ on_disk' = [on_disk EXCEPT ![f] = << >>]
          /\ UNCHANGED bad
       \/ /\ bad' = bad \cup {f}
          /\ UNCHANGED on_disk
    /\ UNCHANGED <<given, settings, status, resources, pending, progress>>

OpenValid == OpenOutput("open_valid", "valid_file", "open_alarms")

OpenAlarms == OpenOutput("open_alarms", "alarms_file", "check_open")

CheckOpen ==
    /\ pc = "check_open"
    /\ \/ /\ bad = {}
          /\ pc' = "accumulator"
          /\ UNCHANGED <<status, resources>>
       \/ /\ bad # {}
          /\ Return("failure")
    /\ UNCHANGED <<given, settings, outputs, progress>>

(* Mutant of ConstructAccumulator: main() catches what it throws. *)
ConstructAccumulatorOrFail ==
    /\ pc = "accumulator"
    /\ \/ /\ settings.batch_size >= 0
          /\ pc' = "feed"
          /\ UNCHANGED <<status, resources>>
       \/ /\ settings.batch_size < 0 \/ settings.batch_size > SafeReserve
          /\ Return("failure")
    /\ UNCHANGED <<given, settings, outputs, progress>>

(***************************************************************************)
(* The constructor reserves count_threshold records, under either          *)
(* strategy.  A negative batch_size is a size_t no vector can hold, a very *)
(* large one may be more than there is memory; nothing catches that.       *)
(***************************************************************************)
ConstructAccumulator ==
    /\ pc = "accumulator"
    /\ \/ /\ settings.batch_size >= 0
          /\ pc' = "feed"
          /\ UNCHANGED <<status, resources>>
       \/ /\ settings.batch_size < 0 \/ settings.batch_size > SafeReserve
          /\ Terminate
    /\ UNCHANGED <<given, settings, outputs, progress>>
-----------------------------------------------------------------------------
NumGroups == Len(input.groups)

FileOf(g) == IF input.groups[g] = "NOMINAL" THEN "valid_file" ELSE "alarms_file"

(***************************************************************************)
(* The accumulator hands the next batch, up to any group, to the pipeline. *)
(* An exception thrown in the parallel region that formats the lines ends  *)
(* the program before a line of the batch is appended.                     *)
(***************************************************************************)
ProcessPipeline ==
    /\ pc = "feed"
    /\ \E last \in next_group .. NumGroups :
          \/ /\ \A g \in next_group .. last : input.groups[g] # "UNPRINTABLE"
             /\ pc' = "append"
             /\ batch_end' = last
             /\ UNCHANGED <<status, resources>>
          \/ /\ \E g \in next_group .. last : input.groups[g] = "UNPRINTABLE"
             /\ Terminate
             /\ UNCHANGED batch_end
    /\ UNCHANGED <<given, settings, outputs, next_group>>

(* operator<< : a stream whose badbit is set takes nothing. *)
Put(f, g) ==
    IF f \in bad THEN pending ELSE [pending EXCEPT ![f] = Append(@, g)]

(* Mutant of AppendGroup: the two vectors of lines are swapped. *)
AppendSwapped ==
    /\ pc = "append"
    /\ next_group <= batch_end
    /\ \E f \in Files \ {FileOf(next_group)} : pending' = Put(f, next_group)
    /\ next_group' = next_group + 1
    /\ UNCHANGED <<given, pc, settings, status, resources, on_disk, bad, batch_end>>

AppendGroup ==
    /\ pc = "append"
    /\ next_group <= batch_end
    /\ pending' = Put(FileOf(next_group), next_group)
    /\ next_group' = next_group + 1
    /\ UNCHANGED <<given, pc, settings, status, resources, on_disk, bad, batch_end>>

(* Mutant of EndBatch: one group more than the batch has. *)
EndBatchLate ==
    /\ pc = "append"
    /\ next_group > batch_end + 1
    /\ pc' = "feed"
    /\ UNCHANGED <<given, settings, status, resources, outputs, progress>>

EndBatch ==
    /\ pc = "append"
    /\ next_group > batch_end
    /\ pc' = "feed"
    /\ UNCHANGED <<given, settings, status, resources, outputs, progress>>

(***************************************************************************)
(* The stream of f writes its buffer out.  Where the write fails, after    *)
(* any part of it, the buffer stays and the stream is bad.                 *)
(***************************************************************************)
WriteOut(f) ==
    \E n \in 0 .. Len(pending[f]) :
        /\ on_disk' = [on_disk EXCEPT ![f] = @ \o SubSeq(pending[f], 1, n)]
        /\ \/ /\ n = Len(pending[f])
              /\ pending' = [pending EXCEPT ![f] = << >>]
              /\ UNCHANGED bad
           \/ /\ n < Len(pending[f])
              /\ bad' = bad \cup {f}
              /\ UNCHANGED pending

(* A full buffer, in the middle of an append. *)
Overflow ==
    /\ pc = "append"
    /\ \E f \in Files \ bad : pending[f] # << >> /\ WriteOut(f)
    /\ UNCHANGED <<given, pc, settings, status, resources, progress>>

(* Mutant of CloseOutput: the buffer is not written. *)
CloseWithoutFlush(here, f, next) ==
    /\ pc = here
    /\ pc' = next
    /\ UNCHANGED <<given, settings, status, resources, outputs, progress>>

(* Nobody asks what close() says. *)
CloseOutput(here, f, next) ==
    /\ pc = here
    /\ pc' = next
    /\ WriteOut(f)
    /\ UNCHANGED <<given, settings, status, resources, progress>>

CloseValid ==
    /\ next_group > NumGroups
    /\ CloseOutput("feed", "valid_file", "close_alarms")

CloseAlarms == CloseOutput("close_alarms", "alarms_file", "summary")

Summary ==
    /\ pc = "summary"
    /\ Return("success")
    /\ UNCHANGED <<given, settings, outputs, progress>>

(* A signal, such as that of the job's time limit. *)
Kill ==
    /\ pc # "ended"
    /\ pc' = "ended"
    /\ status' = "killed"
    /\ UNCHANGED <<given, settings, resources, outputs, progress>>

Ended == pc = "ended" /\ UNCHANGED vars

Step ==
    \/ ParseArguments \/ LoadSensors \/ LoadRules \/ MapFile \/ MapFailed
    \/ CreateOutputDir \/ OpenValid \/ OpenAlarms \/ CheckOpen
    \/ ConstructAccumulator \/ ProcessPipeline \/ AppendGroup \/ EndBatch
    \/ Overflow \/ CloseValid \/ CloseAlarms \/ Summary

Next == Step \/ Kill \/ Ended

Spec == Init /\ [][Next]_vars

(* The process gets to run; nobody has to kill it. *)
FairSpec == Spec /\ WF_vars(Step)
-----------------------------------------------------------------------------
Steps == {"arguments", "sensors", "rules", "map", "map_failed", "create_directories",
          "open_valid", "open_alarms", "check_open", "accumulator", "feed", "append",
          "close_alarms", "summary", "ended"}

TypeOK ==
    /\ argv \in Argvs
    /\ input \in Inputs
    /\ pc \in Steps
    /\ settings = Settings(argv)
    /\ settings.num_threads \in Nat \ {0}
    /\ settings.batch_size \in Int
    /\ status \in {"running", "success", "failure", "abort", "killed"}
    /\ csv_file \in [{"data", "fd"} -> BOOLEAN]
    /\ kernel \in [{"data", "fd"} -> {"never", "held", "released", "misused"}]
    /\ on_disk \in [Files -> Seq(1 .. NumGroups) \cup {Earlier}]
    /\ pending \in [Files -> Seq(1 .. NumGroups)]
    /\ bad \subseteq Files
    /\ next_group \in 1 .. (NumGroups + 1)
    /\ batch_end \in 0 .. NumGroups

(***************************************************************************)
(* A run that ends with an error leaves the outputs of the run before as   *)
(* they were, unless the error is that one of the two cannot be opened.    *)
(***************************************************************************)
ErrorKeepsOutputs ==
    status = "failure" /\ bad = {} => \A f \in Files : on_disk[f] = Earlier

(* lines holds the groups in S, each once and in order. *)
Lists(lines, S) ==
    /\ {lines[n] : n \in 1 .. Len(lines)} = S
    /\ \A n \in 1 .. Len(lines) : \A k \in 1 .. (n - 1) : lines[k] < lines[n]

GroupsFor(f, n) == {g \in 1 .. n : FileOf(g) = f}

(***************************************************************************)
(* Wherever the run stops, killed or aborted too, a file that was written  *)
(* to without an error has no hole: it holds the lines of the first groups *)
(* and of no other.                                                        *)
(***************************************************************************)
NoHoles ==
    \A f \in Files \ bad :
        on_disk[f] # Earlier =>
            \E n \in 0 .. NumGroups : Lists(on_disk[f], GroupsFor(f, n))

(***************************************************************************)
(* Exit status 0 means that both files are there and complete, if the run  *)
(* was asked for and no write failed; main() does not ask whether one did. *)
(***************************************************************************)
SuccessIsComplete ==
    status = "success" /\ bad = {} /\ argv # << >> /\ ~ has_flag(argv, "--help")
        => \A f \in Files : on_disk[f] # Earlier
                             /\ Lists(on_disk[f], GroupsFor(f, NumGroups))

(***************************************************************************)
(* The mapping and the descriptor are given back once, on every path on    *)
(* which main() returns.                                                   *)
(***************************************************************************)
ReleasedOnce ==
    \A r \in {"data", "fd"} :
        /\ kernel[r] # "misused"
        /\ status \in {"success", "failure"} => kernel[r] # "held"

(***************************************************************************)
(* The options may come in any order: where every option appears once and  *)
(* has a value of its own, the settings do not depend on the order.        *)
(***************************************************************************)
ValueOptions == {"--csv", "--rules", "--sensors", "--output-dir", "--threads",
                 "--batch-strategy", "--batch-size", "--batch-interval"}

Options == ValueOptions \cup {"--benchmark", "--help"}

Usual(args) ==
    /\ \A n \in 1 .. Len(args) :
          IF args[n] \in ValueOptions
          THEN n < Len(args) /\ args[n + 1] \notin Options
          ELSE args[n] \notin Options => n > 1 /\ args[n - 1] \in ValueOptions
    /\ \A n, k \in 1 .. Len(args) :
          args[n] = args[k] /\ args[n] \in Options => n = k

GivenOptions(args) ==
    {IF args[n] \in ValueOptions THEN <<args[n], args[n + 1]>> ELSE <<args[n]>> :
        n \in {n \in 1 .. Len(args) : args[n] \in Options}}

ArgumentOrderIrrelevant ==
    Usual(argv) =>
        \A other \in Argvs :
            Usual(other) /\ GivenOptions(other) = GivenOptions(argv)
                => Settings(other) = settings

(* Every run ends. *)
RunEnds == <>(pc = "ended")
=============================================================================
