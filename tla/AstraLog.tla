------------------------------ MODULE AstraLog ------------------------------
(***************************************************************************)
(* The running program: the feeding loop and the batch accumulator         *)
(* (BatchAccumulator), and for each flushed batch process_batch of         *)
(* main.cpp, which calls process_pipeline, whose phase 3 is RuleEvaluation,*)
(* appends what it returns to the two output files group by group, and     *)
(* adds to the statistics.                                                 *)
(***************************************************************************)
EXTENDS TimestampProcessor

CONSTANTS
    NaN,                \* the not-a-number double
    NumSensors,         \* sensors that have a token: 0 .. NumSensors - 1
    NumThreads,         \* omp_get_max_threads()
    SensorRules,        \* sensor token -> its rules, in evaluation order
    CorrelationRules,   \* PreparedRules::correlation_rules
    Inputs,             \* the sequences of records a run may be given
    Configs,            \* the batch configurations a run may be given
    MaxTime,            \* bound: the clock stops here
    MaxBatches          \* bound: at least the batches of any run

(* Timestamps are compared for equality and, in the file, sorted; -1 is the *)
(* token of a sensor that is in no file.                                   *)
Record == [timestamp : Int, sensor_token : -1 .. (NumSensors - 1), value : Int \cup {NaN}]

ASSUME InputsAssumption == \A r \in Inputs : r \in Seq(Record) /\ Len(r) <= MaxBatches

VARIABLES
    records, config, pc, i, buffer, batch, batch_number, batch_start_time, now,
    audit_files, processed, cuts, opened_at,            \* BatchAccumulator
    phase, calls, call, initialized, sensor_states, next_sensor, owner, worker,
    thread_violations, merged, result, timeline,        \* RuleEvaluation
    stage,              \* process_batch: "idle" | "evaluate" | "sort" | "format" | "append"
    groups,             \* the batch's TimestampGroups
    timestamp_violations,   \* group -> its violations, after phase 3
    lines,              \* valid_lines and alarm_lines, for each group
    next_group,         \* the next group whose lines are appended
    valid_file,         \* valid_data.csv
    alarms_file,        \* alarms.log, one block for each group
    totals              \* total_timestamps, total_anomalies, total_nominal

Feed == INSTANCE BatchAccumulator

(* What a call may be given is not bounded here: it comes from the feed. *)
Eval == INSTANCE RuleEvaluation WITH Calls <- {}, MaxCalls <- MaxBatches

feed_vars == <<records, config, pc, i, buffer, batch, batch_number,
               batch_start_time, now, audit_files, processed, cuts, opened_at>>

eval_vars == <<phase, calls, call, initialized, sensor_states, next_sensor, owner,
               worker, thread_violations, merged, result, timeline>>

ASSUME ConfigsAssumption == \A c \in Configs : c \in Feed!Config

ASSUME SizeAssumption ==
    /\ NumSensors \in Nat
    /\ NumThreads \in Nat \ {0}
    /\ MaxBatches \in Nat
    /\ MaxTime \in Nat

ASSUME RulesAssumption ==
    /\ NaN \notin Int
    /\ SensorRules \in [0 .. (NumSensors - 1) -> Seq(Eval!Rule)]
    /\ CorrelationRules \in Seq([rule_id : Nat, priority : {0, 1, 2}, logic : STRING,
                                 sub_rules : Seq(Nat)])

batch_vars == <<stage, groups, timestamp_violations, lines, next_group, valid_file,
                alarms_file, totals>>

vars == <<feed_vars, eval_vars, batch_vars>>

Init ==
    /\ Feed!Init
    /\ Eval!Init
    /\ stage = "idle"
    /\ groups = << >>
    /\ timestamp_violations = << >>
    /\ lines = << >>
    /\ next_group = 1
    /\ valid_file = << >>
    /\ alarms_file = << >>
    /\ totals = [timestamps |-> 0, anomalies |-> 0, nominal |-> 0]
-----------------------------------------------------------------------------
Tick == Feed!Tick /\ UNCHANGED <<eval_vars, batch_vars>>

(* The loop and the accumulator, up to the call of process_batch. *)
FeedStep ==
    /\ \/ Feed!AddRecord
       \/ Feed!CheckFlush
       \/ Feed!FlushRemaining
       \/ Feed!Flush
       \/ \E written \in BOOLEAN : Feed!AuditAndRestartTimer(written)
    /\ UNCHANGED <<eval_vars, batch_vars>>

BatchRecords == [k \in 1 .. Len(batch) |-> records[batch[k]]]

CallOf(gs) ==
    LET readings == [g \in 1 .. Len(gs) |-> gs[g].readings]
    IN  [groups |-> readings,
         sensor_sequences |-> build_per_sensor_sequences(readings, NumSensors)]

(* Phases 1 and 2, and the call of phase 3. *)
StartPipeline ==
    /\ pc = "process"
    /\ stage = "idle"
    /\ stage' = "evaluate"
    /\ groups' = build_timestamp_groups(BatchRecords)
    /\ Eval!StartCall(CallOf(groups'))
    /\ UNCHANGED <<feed_vars, timestamp_violations, lines, next_group, valid_file,
                   alarms_file, totals>>

EvaluatorStep ==
    /\ \/ \E t \in Eval!Threads : Eval!ThreadStep(t)
       \/ Eval!EndParallel
       \/ Eval!MergeThread
       \/ Eval!Return
    /\ UNCHANGED <<feed_vars, batch_vars>>

(* A violation of phase 3 as the later phases see it. *)
Alarm(v) ==
    LET rule == SensorRules[v.sensor_token][v.rule]
    IN  [rule_id  |-> rule.rule_id,
         priority |-> rule.priority,
         readings |-> <<[sensor_token |-> v.sensor_token, value |-> v.value]>>]

Alarms(violations) == [n \in 1 .. Len(violations) |-> Alarm(violations[n])]

(* Phase 4. *)
EvaluateCorrelations ==
    /\ stage = "evaluate"
    /\ phase = "idle"
    /\ stage' = "sort"
    /\ timestamp_violations' =
          [g \in 1 .. Len(groups) |->
              evaluate_correlations(Alarms(result[g]), CorrelationRules)]
    /\ UNCHANGED <<feed_vars, eval_vars, groups, lines, next_group, valid_file,
                   alarms_file, totals>>

SortViolations ==
    /\ stage = "sort"
    /\ stage' = "format"
    /\ timestamp_violations' =
          [g \in 1 .. Len(groups) |-> sort_violations_for_output(timestamp_violations[g])]
    /\ UNCHANGED <<feed_vars, eval_vars, groups, lines, next_group, valid_file,
                   alarms_file, totals>>

format_alarm_lines(timestamp, violations) ==
    [timestamp |-> timestamp, alarms |-> violations]

(* What a group is formatted to: its NOMINAL line or its alarms. *)
LinesOf(g) ==
    IF timestamp_violations[g] = << >>
    THEN [valid |-> <<groups[g]>>, alarm |-> << >>]
    ELSE [valid |-> << >>,
          alarm |-> <<format_alarm_lines(groups[g].timestamp, timestamp_violations[g])>>]

(***************************************************************************)
(* Phase 5.  The lines of a group depend on that group alone, so the       *)
(* parallel loop is one step here; OutputGeneration has it thread by       *)
(* thread.                                                                 *)
(***************************************************************************)
FormatOutput ==
    /\ stage = "format"
    /\ stage' = "append"
    /\ next_group' = 1
    /\ lines' = [g \in 1 .. Len(groups) |-> LinesOf(g)]
    /\ UNCHANGED <<feed_vars, eval_vars, groups, timestamp_violations, valid_file,
                   alarms_file, totals>>

AppendOutput ==
    /\ stage = "append"
    /\ next_group <= Len(groups)
    /\ valid_file' = valid_file \o lines[next_group].valid
    /\ alarms_file' = alarms_file \o lines[next_group].alarm
    /\ next_group' = next_group + 1
    /\ UNCHANGED <<feed_vars, eval_vars, stage, groups, timestamp_violations, lines,
                   totals>>

Anomalous == {g \in 1 .. Len(groups) : timestamp_violations[g] # << >>}

(* Mutant of EndBatch: the statistics are those of the last batch. *)
EndBatchOverwriting ==
    /\ stage = "append"
    /\ next_group > Len(groups)
    /\ Feed!ProcessBatch
    /\ stage' = "idle"
    /\ totals' = [timestamps |-> Len(groups),
                  anomalies  |-> Cardinality(Anomalous),
                  nominal    |-> Len(groups) - Cardinality(Anomalous)]
    /\ groups' = << >>
    /\ timestamp_violations' = << >>
    /\ lines' = << >>
    /\ next_group' = 1
    /\ UNCHANGED <<eval_vars, valid_file, alarms_file>>

(* The statistics, and the return to the loop. *)
EndBatch ==
    /\ stage = "append"
    /\ next_group > Len(groups)
    /\ Feed!ProcessBatch
    /\ stage' = "idle"
    /\ totals' =
          [timestamps |-> totals.timestamps + Len(groups),
           anomalies  |-> totals.anomalies + Cardinality(Anomalous),
           nominal    |-> totals.nominal + (Len(groups) - Cardinality(Anomalous))]
    /\ groups' = << >>
    /\ timestamp_violations' = << >>
    /\ lines' = << >>
    /\ next_group' = 1
    /\ UNCHANGED <<eval_vars, valid_file, alarms_file>>

Done == pc = "done" /\ UNCHANGED vars

Step ==
    \/ FeedStep
    \/ StartPipeline
    \/ EvaluatorStep
    \/ EvaluateCorrelations
    \/ SortViolations
    \/ FormatOutput
    \/ AppendOutput
    \/ EndBatch

Next == Tick \/ Step \/ Done

Spec == Init /\ [][Next]_vars

(* The main thread keeps running, and in the parallel region some thread   *)
(* of the team does: every one of their steps is bounded work.             *)
FairSpec == Spec /\ WF_vars(Step)
-----------------------------------------------------------------------------
(***************************************************************************)
(* RuleEvaluation assumes of a batch that its readings are indexed by      *)
(* sensor completely and in order: phases 1 and 2 deliver that, for every  *)
(* batch the accumulator flushes.                                          *)
(***************************************************************************)
CallsWellFormed == call \in Eval!Call /\ Eval!WellFormedCall(call)

(* The records whose group's lines are in the files. *)
Consumed ==
    IF stage = "append" /\ next_group > 1
    THEN Len(processed) + GroupEnd(BatchRecords, next_group - 1)
    ELSE Len(processed)

(***************************************************************************)
(* The program implements Monitor: what it has written is a function of    *)
(* the records it has reported on, so neither the number of threads, nor   *)
(* their schedule, nor the batches and the clock that cuts them show in    *)
(* the output.                                                             *)
(***************************************************************************)
Mon == INSTANCE Monitor WITH consumed <- Consumed

ImplementsMonitor == Mon!Spec

(* The statistics count what is in the files. *)
StatisticsMatchFiles ==
    stage = "idle" =>
        /\ totals.nominal = Len(valid_file)
        /\ totals.anomalies = Len(alarms_file)
        /\ totals.timestamps = totals.nominal + totals.anomalies

(***************************************************************************)
(* A timestamp that raises an alarm has no NOMINAL line: where a timestamp *)
(* does not come back after another (Sorted), the two files never speak of *)
(* the same timestamp.                                                     *)
(***************************************************************************)
Timestamps(file) == {file[n].timestamp : n \in 1 .. Len(file)}

Sorted == \A k, n \in 1 .. Len(records) :
              k < n => records[k].timestamp <= records[n].timestamp

NominalExcludesAlarm == Timestamps(valid_file) \cap Timestamps(alarms_file) = {}

NominalExcludesAlarmWhenSorted == Sorted => NominalExcludesAlarm

(***************************************************************************)
(* timestamp_processor.hpp says of a correlation rule: it "checks if the   *)
(* sub-rules referenced by each correlation rule have fired".              *)
(***************************************************************************)
CorrelationComplete ==
    \A n \in 1 .. Len(alarms_file) :
        LET ids == {alarms_file[n].alarms[k].rule_id :
                        k \in 1 .. Len(alarms_file[n].alarms)}
        IN  \A c \in 1 .. Len(CorrelationRules) :
                /\ CorrelationRules[c].logic = "AND"
                /\ ToSet(CorrelationRules[c].sub_rules) \subseteq ids
                => CorrelationRules[c].rule_id \in ids

(* Every record is reported on in the end. *)
AllReported == <>(pc = "done" /\ Consumed = Len(records))
-----------------------------------------------------------------------------
(***************************************************************************)
(* The invariant of process_batch.  What the phases hand to one another is *)
(* what each of them makes of the batch in hand, ...                       *)
(***************************************************************************)
StageInv ==
    /\ stage \in {"idle", "evaluate", "sort", "format", "append"}
    /\ stage # "evaluate" => phase = "idle"
    /\ stage = "idle" => groups = << >>
    /\ stage # "idle" => /\ pc = "process"
                         /\ groups = build_timestamp_groups(BatchRecords)
                         /\ call = CallOf(groups)
    /\ next_group \in 1 .. (Len(groups) + 1)
    /\ stage # "append" => next_group = 1

GroupAlarms(g) == evaluate_correlations(Alarms(result[g]), CorrelationRules)

PhaseInv ==
    /\ stage = "sort"
          => timestamp_violations = [g \in 1 .. Len(groups) |-> GroupAlarms(g)]
    /\ stage \in {"format", "append"}
          => timestamp_violations =
                [g \in 1 .. Len(groups) |-> sort_violations_for_output(GroupAlarms(g))]
    /\ stage = "append" => lines = [g \in 1 .. Len(groups) |-> LinesOf(g)]

(* ... the sensors' histories are those of the records up to this batch,   *)
Evaluated == IF stage = "idle" THEN Len(processed) ELSE Len(processed) + Len(batch)

HistoryInv ==
    \A s \in 0 .. (NumSensors - 1) : timeline[s] = Mon!History(s, Evaluated)

(* ... the files have grown by the groups appended since the statistics    *)
(* were brought up to date, ...                                            *)
AlarmType == [rule_id : Nat, priority : {0, 1, 2}, readings : Seq(Eval!Reading)]

FilesType ==
    /\ valid_file \in Seq([timestamp : Int, readings : Seq(Eval!Reading)])
    /\ alarms_file \in Seq([timestamp : Int, alarms : Seq(AlarmType)])
    /\ totals \in [timestamps : Nat, anomalies : Nat, nominal : Nat]

AppendedAlarms == {g \in 1 .. (next_group - 1) : timestamp_violations[g] # << >>}

StatisticsInv ==
    /\ totals.timestamps = totals.nominal + totals.anomalies
    /\ Len(alarms_file) = totals.anomalies + Cardinality(AppendedAlarms)
    /\ Len(valid_file) + Cardinality(AppendedAlarms)
          = totals.nominal + (next_group - 1)

(* ... and speak of timestamps of the records reported on.                 *)
ReportedTimestamps == {records[n].timestamp : n \in 1 .. Consumed}

TimestampsInv ==
    /\ Timestamps(valid_file) \subseteq ReportedTimestamps
    /\ Timestamps(alarms_file) \subseteq ReportedTimestamps
    /\ Sorted => NominalExcludesAlarm

ProgramInv ==
    /\ StageInv
    /\ PhaseInv
    /\ HistoryInv
    /\ FilesType
    /\ StatisticsInv
    /\ TimestampsInv

(***************************************************************************)
(* No rule_id is that of rules of two sensors.                             *)
(***************************************************************************)
RuleIdsOfOneSensor ==
    \A s, t \in 0 .. (NumSensors - 1) :
        \A j \in 1 .. Len(SensorRules[s]), k \in 1 .. Len(SensorRules[t]) :
            SensorRules[s][j].rule_id = SensorRules[t][k].rule_id => s = t
=============================================================================
