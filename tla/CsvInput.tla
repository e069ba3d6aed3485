------------------------------ MODULE CsvInput ------------------------------
(***************************************************************************)
(* The telemetry file, from its bytes to the records: main() builds the    *)
(* line index, LineIndex, and hands it to parse_csv_parallel, CsvParser,   *)
(* whose threads read the lines through it.                                *)
(*                                                                         *)
(* What a field spells is left open: which fields are "ERR" or "CORRUPT",  *)
(* which std::from_chars reads to the end, and which are known sensors.    *)
(***************************************************************************)
EXTENDS LineIndex, CsvParser

CONSTANTS
    Markers,        \* the fields validate_schema refuses
    Numerals,       \* the fields parse_value takes
    Sensors         \* the sensors with token 0, 1 and so on

ASSUME SensorsAssumption == Sensors \in Seq(Seq(Byte))

VARIABLE started    \* parse_csv_parallel has been called

inputVars == <<indexVars, vars, started>>

(* The token of the sensor a field names. *)
TokenOf(field) ==
    IF \E n \in 1 .. Len(Sensors) : Sensors[n] = field
    THEN (CHOOSE n \in 1 .. Len(Sensors) : Sensors[n] = field) - 1
    ELSE -1

(* What the parser's tests see of a line. *)
Seen(text) ==
    LET fields == Fields(text)
    IN  IF fields = << >>
        THEN [fields |-> 0, corrupt |-> FALSE, number |-> FALSE, sensor_token |-> -1]
        ELSE [fields |-> 4,
              corrupt |-> \E n \in 1 .. 4 : fields[n] = << >> \/ fields[n] \in Markers,
              number |-> fields[3] \in Numerals,
              sensor_token |-> TokenOf(fields[2])]

(* Before the call the parser has nothing to parse. *)
InputInit ==
    /\ IndexInit
    /\ lines = << >>
    /\ Called
    /\ started = FALSE

ScanStep ==
    /\ SkipByte \/ EndLine \/ StartLine \/ Finish
    /\ UNCHANGED <<vars, started>>

(* Mutant of StartParsing: the first data line is taken for the header. *)
StartParsingLate ==
    /\ pc = "done"
    /\ ~ started
    /\ lines' = [n \in 1 .. (Len(offsets) - 1) |-> Seen(get_line(offsets[n + 1]))]
    /\ block' \in Blocks(Len(lines'))
    /\ next_line' = [t \in Threads |-> block'[t] + 1]
    /\ started' = TRUE
    /\ UNCHANGED <<indexVars, phase, thread_records, valid_count, invalid_count, reduced,
                   total_valid, total_invalid, merged, all_records>>

(* parse_csv_parallel is called with the index. *)
StartParsing ==
    /\ pc = "done"
    /\ ~ started
    /\ lines' = [n \in 1 .. Len(offsets) |-> Seen(get_line(offsets[n]))]
    /\ block' \in Blocks(Len(lines'))
    /\ next_line' = [t \in Threads |-> block'[t] + 1]
    /\ started' = TRUE
    /\ UNCHANGED <<indexVars, phase, thread_records, valid_count, invalid_count, reduced,
                   total_valid, total_invalid, merged, all_records>>

InputThreadStep(t) == started /\ ThreadStep(t) /\ UNCHANGED <<indexVars, started>>

InputMainStep ==
    /\ started
    /\ EndLoop \/ MergeThread \/ Return
    /\ UNCHANGED <<indexVars, started>>

InputDone == started /\ Done /\ UNCHANGED inputVars

InputNext ==
    \/ ScanStep
    \/ StartParsing
    \/ \E t \in Threads : InputThreadStep(t)
    \/ InputMainStep
    \/ InputDone

InputSpec == InputInit /\ [][InputNext]_inputVars

(* The call, whatever the division it leads to. *)
Call == pc = "done" /\ ~ started /\ started' = TRUE

(* The main thread runs, and every thread of the team is scheduled. *)
InputFairSpec ==
    /\ InputSpec
    /\ WF_inputVars(ScanStep \/ InputMainStep)
    /\ WF_started(Call)
    /\ \A t \in Threads : WF_inputVars(InputThreadStep(t))
-----------------------------------------------------------------------------
(* Where the n-th data line of the file starts, counted without the index. *)
NthStart(n) ==
    CHOOSE p \in LineStarts(size) : Cardinality({q \in LineStarts(size) : q < p}) = n - 1

(* The parser's n-th line is the n-th data line of the file. *)
LinesOfTheFile ==
    /\ Len(lines) = Cardinality(LineStarts(size))
    /\ \A n \in 1 .. Len(lines) : lines[n] = Seen(get_line(NthStart(n)))

(***************************************************************************)
(* From bytes to records: the parser gets every data line of the file, the *)
(* n-th as its n-th, and returns one record for each that passes the       *)
(* tests, in the order of the file, and counts the others.                 *)
(***************************************************************************)
RecordsAreTheFile ==
    started /\ phase = "done" =>
        /\ LinesOfTheFile
        /\ InOrderFrom(all_records, 0, Len(lines))
        /\ total_valid = Len(all_records)
        /\ total_valid + total_invalid = Cardinality(LineStarts(size))

(* The call returns. *)
InputReturns == <>(started /\ phase = "done")
=============================================================================
