------------------------------ MODULE CsvParser ------------------------------
(***************************************************************************)
(* parse_csv_parallel of csv_parser.hpp.  schedule(static) gives every     *)
(* thread one contiguous block of the lines, the blocks being in the order *)
(* of the threads; a thread drops the lines that do not tokenize into four *)
(* fields, fail the schema or have no number for a value, and keeps the    *)
(* others in a list of its own.  The counts are an OpenMP reduction, and   *)
(* the lists are concatenated in thread order after the barrier.           *)
(*                                                                         *)
(* A line is what the three tests see of it.  How many lines each block    *)
(* has is left to the OpenMP implementation: any division may be chosen.   *)
(***************************************************************************)
EXTENDS Integers, Sequences, FiniteSets

CONSTANTS
    NumThreads,     \* omp_get_max_threads()
    Files           \* the data lines of the files a run may be given

Line == [fields : Nat,          \* comma-separated fields
         corrupt : BOOLEAN,     \* one of them is empty, "ERR" or "CORRUPT"
         number : BOOLEAN,      \* the value field is a number to its end
         sensor_token : Int]    \* lookup_sensor_token of the sensor field

ASSUME NumThreadsAssumption == NumThreads \in Nat \ {0}

ASSUME FilesAssumption == \A f \in Files : f \in Seq(Line)

Threads == 0 .. (NumThreads - 1)

VARIABLES
    lines,          \* the data lines of the file
    block,          \* thread t parses the lines block[t] + 1 .. block[t + 1]
    phase,          \* "parse" | "reduce" | "merge" | "done"
    next_line,      \* thread -> the next line it parses
    thread_records, \* thread -> the records it keeps
    valid_count, invalid_count,     \* thread -> its private counts
    reduced,        \* the threads whose counts are in the totals
    total_valid, total_invalid,
    merged,         \* the threads whose records are in all_records
    all_records

vars == <<lines, block, phase, next_line, thread_records, valid_count,
          invalid_count, reduced, total_valid, total_invalid, merged, all_records>>

(* The ways schedule(static) may divide n lines among the threads. *)
Blocks(n) ==
    {b \in [0 .. NumThreads -> 0 .. n] :
        /\ b[0] = 0
        /\ b[NumThreads] = n
        /\ \A t \in Threads : b[t] <= b[t + 1]}

(* The parser has been called. *)
Called ==
    /\ block \in Blocks(Len(lines))
    /\ phase = "parse"
    /\ next_line = [t \in Threads |-> block[t] + 1]
    /\ thread_records = [t \in Threads |-> << >>]
    /\ valid_count = [t \in Threads |-> 0]
    /\ invalid_count = [t \in Threads |-> 0]
    /\ reduced = {}
    /\ total_valid = 0
    /\ total_invalid = 0
    /\ merged = 0
    /\ all_records = << >>

Init == lines \in Files /\ Called
-----------------------------------------------------------------------------
tokenize_csv_line(line) == line.fields = 4

validate_schema(line) == ~ line.corrupt

parse_value(line) == line.number

Valid(line) ==
    /\ tokenize_csv_line(line)
    /\ validate_schema(line)
    /\ parse_value(line)

(* A record, with the number of its line as history. *)
RecordOf(n) == [line |-> n, sensor_token |-> lines[n].sensor_token]

KeepLine(t) ==
    /\ phase = "parse"
    /\ next_line[t] <= block[t + 1]
    /\ Valid(lines[next_line[t]])
    /\ thread_records' = [thread_records EXCEPT ![t] = Append(@, RecordOf(next_line[t]))]
    /\ valid_count' = [valid_count EXCEPT ![t] = @ + 1]
    /\ next_line' = [next_line EXCEPT ![t] = @ + 1]
    /\ UNCHANGED <<lines, block, phase, invalid_count, reduced, total_valid,
                   total_invalid, merged, all_records>>

(* Mutant of DropLine: the loop does not advance on a line it drops. *)
DropLineStuck(t) ==
    /\ phase = "parse"
    /\ next_line[t] <= block[t + 1]
    /\ ~ Valid(lines[next_line[t]])
    /\ UNCHANGED vars

DropLine(t) ==
    /\ phase = "parse"
    /\ next_line[t] <= block[t + 1]
    /\ ~ Valid(lines[next_line[t]])
    /\ invalid_count' = [invalid_count EXCEPT ![t] = @ + 1]
    /\ next_line' = [next_line EXCEPT ![t] = @ + 1]
    /\ UNCHANGED <<lines, block, phase, thread_records, valid_count, reduced,
                   total_valid, total_invalid, merged, all_records>>

(* The barrier at the end of the loop. *)
EndLoop ==
    /\ phase = "parse"
    /\ \A t \in Threads : next_line[t] > block[t + 1]
    /\ phase' = "reduce"
    /\ UNCHANGED <<lines, block, next_line, thread_records, valid_count,
                   invalid_count, reduced, total_valid, total_invalid, merged,
                   all_records>>

(* The reduction: the threads add their counts in some order. *)
Reduce(t) ==
    /\ phase = "reduce"
    /\ t \notin reduced
    /\ reduced' = reduced \cup {t}
    /\ total_valid' = total_valid + valid_count[t]
    /\ total_invalid' = total_invalid + invalid_count[t]
    /\ phase' = IF reduced' = Threads THEN "merge" ELSE "reduce"
    /\ UNCHANGED <<lines, block, next_line, thread_records, valid_count,
                   invalid_count, merged, all_records>>

(* Mutant of MergeThread: the last thread's list comes first. *)
MergeBackwards ==
    /\ phase = "merge"
    /\ merged < NumThreads
    /\ all_records' = all_records \o thread_records[NumThreads - 1 - merged]
    /\ merged' = merged + 1
    /\ UNCHANGED <<lines, block, phase, next_line, thread_records, valid_count,
                   invalid_count, reduced, total_valid, total_invalid>>

(* Mutant of MergeThread: one thread is merged twice. *)
MergeWithoutCounting ==
    /\ phase = "merge"
    /\ merged < NumThreads
    /\ all_records' = all_records \o thread_records[merged]
    /\ merged' \in {merged, merged + 1}
    /\ UNCHANGED <<lines, block, phase, next_line, thread_records, valid_count,
                   invalid_count, reduced, total_valid, total_invalid>>

MergeThread ==
    /\ phase = "merge"
    /\ merged < NumThreads
    /\ all_records' = all_records \o thread_records[merged]
    /\ merged' = merged + 1
    /\ UNCHANGED <<lines, block, phase, next_line, thread_records, valid_count,
                   invalid_count, reduced, total_valid, total_invalid>>

Return ==
    /\ phase = "merge"
    /\ merged = NumThreads
    /\ phase' = "done"
    /\ UNCHANGED <<lines, block, next_line, thread_records, valid_count,
                   invalid_count, reduced, total_valid, total_invalid, merged,
                   all_records>>

Done == phase = "done" /\ UNCHANGED vars

ThreadStep(t) == KeepLine(t) \/ DropLine(t) \/ Reduce(t)

Next ==
    \/ \E t \in Threads : ThreadStep(t)
    \/ EndLoop
    \/ MergeThread
    \/ Return
    \/ Done

Spec == Init /\ [][Next]_vars
-----------------------------------------------------------------------------
Record == [line : 1 .. Len(lines), sensor_token : Int]

(* Every variable keeps its type. *)
TypeOK ==
    /\ lines \in Seq(Line)
    /\ block \in Blocks(Len(lines))
    /\ phase \in {"parse", "reduce", "merge", "done"}
    /\ DOMAIN next_line = Threads
    /\ \A t \in Threads : next_line[t] \in (block[t] + 1) .. (block[t + 1] + 1)
    /\ thread_records \in [Threads -> Seq(Record)]
    /\ valid_count \in [Threads -> Nat]
    /\ invalid_count \in [Threads -> Nat]
    /\ reduced \subseteq Threads
    /\ total_valid \in Nat
    /\ total_invalid \in Nat
    /\ merged \in 0 .. NumThreads
    /\ all_records \in Seq(Record)

(* The records are those of the valid lines from..to, in file order. *)
InOrderFrom(recs, from, to) ==
    /\ \A k \in 1 .. Len(recs) :
          /\ recs[k].line \in (from + 1) .. to
          /\ Valid(lines[recs[k].line])
          /\ recs[k] = RecordOf(recs[k].line)
    /\ \A k, m \in 1 .. Len(recs) : k < m => recs[k].line < recs[m].line
    /\ \A n \in (from + 1) .. to :
          Valid(lines[n]) => \E k \in 1 .. Len(recs) : recs[k].line = n

(***************************************************************************)
(* The parser returns the valid lines, all of them and nothing else, in    *)
(* the order of the file, whatever the division and the schedule.          *)
(***************************************************************************)
FileOrder == phase = "done" => InOrderFrom(all_records, 0, Len(lines))

(***************************************************************************)
(* Inductive: a thread's list is the parse of the part of its block it has *)
(* been through, and the merged list that of the merged blocks.            *)
(***************************************************************************)
ParseInv ==
    /\ \A t \in Threads :
          /\ InOrderFrom(thread_records[t], block[t], next_line[t] - 1)
          /\ valid_count[t] = Len(thread_records[t])
          /\ valid_count[t] + invalid_count[t] = next_line[t] - 1 - block[t]
    /\ phase # "parse" => \A t \in Threads : next_line[t] = block[t + 1] + 1
    /\ InOrderFrom(all_records, 0, block[merged])
    /\ phase \in {"parse", "reduce"} => merged = 0
    /\ phase = "done" => merged = NumThreads

(***************************************************************************)
(* Inductive: in whatever order the threads' counts are reduced, the       *)
(* totals are those of the blocks whose threads have been.                 *)
(***************************************************************************)
BlockOf(t) == (block[t] + 1) .. block[t + 1]

Reduced == UNION {BlockOf(t) : t \in reduced}

ValidOf(places) == {n \in places : Valid(lines[n])}

TotalsInv ==
    /\ total_valid = Cardinality(ValidOf(Reduced))
    /\ total_valid + total_invalid = Cardinality(Reduced)
    /\ phase = "parse" => reduced = {}
    /\ phase \in {"merge", "done"} => reduced = Threads
=============================================================================
