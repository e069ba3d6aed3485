-------------------------- MODULE OutputGeneration --------------------------
(***************************************************************************)
(* The violations of a batch, from the first add to the files: the objects *)
(* are built and moved as RuleViolation has it; then the threads of        *)
(* generate_output_parallel format the groups, a contiguous block each;    *)
(* then process_batch appends the lines to the two files.  An exception    *)
(* that leaves the parallel region ends the program.                       *)
(*                                                                         *)
(* A line is NOMINAL or that of one alarm, with the names and the texts of *)
(* the values in it.                                                       *)
(***************************************************************************)
EXTENDS RuleViolation, OutputFormatter, Orders

CONSTANTS
    NumThreads,
    MaxGroups,          \* bound: groups of the batch
    Readings,           \* the readings a group may have: sequences of pairs
    inverse_token_map   \* token -> name, from 0

ASSUME ThreadsAssumption == NumThreads \in Nat \ {0}

ASSUME OutputAssumption ==
    /\ MaxGroups \in Nat
    /\ IsFiniteSet(Objects)
    /\ Value \subseteq Double
    /\ Readings \subseteq Seq(Int \X Double)

VARIABLES
    stage,          \* "build" | "format" | "append" | "done" | "terminated"
    groups,         \* the groups: readings, and the places of the violations
    next_group,     \* thread -> the next group of its block
    block,          \* thread t formats groups block[t] + 1 .. block[t + 1]
    valid_lines, alarm_lines,   \* group -> its lines, none if it has none
    appended,       \* the groups whose lines have been appended
    valid_file, alarms_file

outputVars == <<stage, groups, next_group, block, valid_lines, alarm_lines, appended,
                valid_file, alarms_file>>

allVars == <<vars, outputVars>>

Threads == 0 .. (NumThreads - 1)

OutputInit ==
    /\ Init
    /\ stage = "build"
    /\ groups = << >>
    /\ next_group = << >>
    /\ block = << >>
    /\ valid_lines = << >>
    /\ alarm_lines = << >>
    /\ appended = 0
    /\ valid_file = << >>
    /\ alarms_file = << >>

BuildStep ==
    /\ stage = "build"
    /\ Next
    /\ UNCHANGED outputVars

(* The ways to put a set of places into a list. *)
Arrangements(places) ==
    {order \in [1 .. Cardinality(places) -> places] :
        \A n, k \in DOMAIN order : n # k => order[n] # order[k]}

Empties(n) == [g \in 1 .. n |-> << >>]

(* The violations are in their groups, and the region begins. *)
StartOutput ==
    /\ stage = "build"
    /\ stage' = "format"
    /\ \E n \in 1 .. MaxGroups :
          /\ \E group_of \in [live -> 1 .. n], readings \in [1 .. n -> Readings] :
             \E order \in [1 .. n -> UNION {Arrangements(places) : places \in SUBSET live}] :
                /\ \A g \in 1 .. n :
                      {order[g][k] : k \in DOMAIN order[g]} = {o \in live : group_of[o] = g}
                /\ groups' = [g \in 1 .. n |-> [readings   |-> readings[g],
                                                violations |-> order[g]]]
          /\ block' \in {b \in [0 .. NumThreads -> 0 .. n] :
                            /\ b[0] = 0 /\ b[NumThreads] = n
                            /\ \A t \in Threads : b[t] <= b[t + 1]}
          /\ next_group' = [t \in Threads |-> block'[t] + 1]
          /\ valid_lines' = Empties(n)
          /\ alarm_lines' = Empties(n)
    /\ UNCHANGED <<vars, appended, valid_file, alarms_file>>
-----------------------------------------------------------------------------
Name(token) ==
    IF token \in DOMAIN inverse_token_map THEN inverse_token_map[token] ELSE "UNKNOWN"

format_nominal_line(group) ==
    [n \in 1 .. Len(group.readings) |->
        <<Name(group.readings[n][1]), format_value(group.readings[n][2])>>]

(* Through size(), sensor_token_at and value_at. *)
format_alarm_line(v) ==
    [n \in 1 .. v.count |->
        <<Name(sensor_token_at(v, n - 1)), format_value(value_at(v, n - 1))>>]

Violations(group) == [n \in 1 .. Len(group.violations) |-> object[group.violations[n]]]

(* The values that are formatted for a group. *)
ValuesOf(group) ==
    IF group.violations = << >>
    THEN {group.readings[n][2] : n \in 1 .. Len(group.readings)}
    ELSE UNION {{value_at(v, n) : n \in 0 .. (v.count - 1)} :
                   v \in {object[o] : o \in {group.violations[k] :
                                                k \in 1 .. Len(group.violations)}}}

Formats(t) == stage = "format" /\ next_group[t] <= block[t + 1]

FormatGroup(t) ==
    /\ Formats(t)
    /\ LET g     == next_group[t]
           group == groups[g]
       IN  /\ \A val \in ValuesOf(group) : ~ Throws(val)
           /\ IF group.violations = << >>
              THEN /\ valid_lines' = [valid_lines EXCEPT ![g] = <<format_nominal_line(group)>>]
                   /\ UNCHANGED alarm_lines
              ELSE /\ alarm_lines' = [alarm_lines EXCEPT ![g] =
                         [n \in 1 .. Len(group.violations) |->
                             format_alarm_line(Violations(group)[n])]]
                   /\ UNCHANGED valid_lines
    /\ next_group' = [next_group EXCEPT ![t] = @ + 1]
    /\ UNCHANGED <<vars, stage, groups, block, appended, valid_file, alarms_file>>

(* std::terminate: the exception would leave the region. *)
FormatThrows(t) ==
    /\ Formats(t)
    /\ \E val \in ValuesOf(groups[next_group[t]]) : Throws(val)
    /\ stage' = "terminated"
    /\ UNCHANGED <<vars, groups, next_group, block, valid_lines, alarm_lines, appended,
                   valid_file, alarms_file>>

EndParallel ==
    /\ stage = "format"
    /\ \A t \in Threads : ~ Formats(t)
    /\ stage' = "append"
    /\ UNCHANGED <<vars, groups, next_group, block, valid_lines, alarm_lines, appended,
                   valid_file, alarms_file>>

AppendOutput ==
    /\ stage = "append"
    /\ appended < Len(groups)
    /\ appended' = appended + 1
    /\ valid_file' = valid_file \o valid_lines[appended']
    /\ alarms_file' = alarms_file \o alarm_lines[appended']
    /\ UNCHANGED <<vars, stage, groups, next_group, block, valid_lines, alarm_lines>>

EndOutput ==
    /\ stage = "append"
    /\ appended = Len(groups)
    /\ stage' = "done"
    /\ UNCHANGED <<vars, groups, next_group, block, valid_lines, alarm_lines, appended,
                   valid_file, alarms_file>>

OutputDone == stage \in {"done", "terminated"} /\ UNCHANGED allVars

OutputStep ==
    \/ \E t \in Threads : FormatGroup(t) \/ FormatThrows(t)
    \/ EndParallel
    \/ AppendOutput
    \/ EndOutput

OutputNext == BuildStep \/ StartOutput \/ OutputStep \/ OutputDone

OutputSpec == OutputInit /\ [][OutputNext]_allVars
-----------------------------------------------------------------------------
(* The groups without a violation among the first m, in their order. *)
Nominal(m) == Ascending({g \in 1 .. m : groups[g].violations = << >>})

(* The violations of the first m groups: by group, then by place in it. *)
AlarmPlaces(m) ==
    UNION {{<<g, k>> : k \in 1 .. Len(groups[g].violations)} : g \in 1 .. m}

Alarms(m) ==
    LET order == Ranking(AlarmPlaces(m), LexicalOrder)
    IN  [n \in 1 .. Cardinality(AlarmPlaces(m)) |->
            groups[order[n][1]].violations[order[n][2]]]

(* A line shows these pairs: their names, and texts that read as the values. *)
Shows(line, pairs) ==
    /\ Len(line) = Len(pairs)
    /\ \A n \in 1 .. Len(pairs) :
          /\ line[n][1] = Name(pairs[n][1])
          /\ Reads(line[n][2], pairs[n][2])

(* No value of the batch loses decimals: each fits the buffer, or throws.  *)
ValuesFitOrThrow ==
    \A val \in Value \cup UNION {{readings[n][2] : n \in 1 .. Len(readings)} :
                                    readings \in Readings} :
        Fits(val) \/ Throws(val)

(***************************************************************************)
(* The files show what was given to the pipeline: every group without a    *)
(* violation has its line with all its readings, every violation its line  *)
(* with all the pairs that were added to it, in order, and each value is   *)
(* printed to all six decimals.                                            *)
(***************************************************************************)
FilesShowTheBatch ==
    stage = "done" =>
        LET nominal == Nominal(Len(groups))
            alarms  == Alarms(Len(groups))
        IN  /\ Len(valid_file) = Len(nominal)
            /\ \A n \in 1 .. Len(nominal) :
                  Shows(valid_file[n], groups[nominal[n]].readings)
            /\ Len(alarms_file) = Len(alarms)
            /\ \A n \in 1 .. Len(alarms) : Shows(alarms_file[n], added[alarms[n]])

(***************************************************************************)
(* output_formatter.hpp:33-34: a value is printed "stripping trailing      *)
(* zeros after the decimal point but keeping at least one decimal digit".  *)
(***************************************************************************)
KeepsDecimalDigit ==
    stage = "done" =>
        \A n \in 1 .. Len(valid_file) : \A k \in 1 .. Len(valid_file[n]) :
            AtLeastOneDecimal(valid_file[n][k][2]) /\ OnlyOneZero(valid_file[n][k][2])
=============================================================================
