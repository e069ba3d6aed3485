------------------------- MODULE TimestampProcessor -------------------------
(***************************************************************************)
(* The sequential phases of timestamp_processor.hpp as operators: grouping *)
(* records by timestamp (phase 1), the per-sensor sequences (phase 2), the *)
(* correlation rules and the output order (phase 4).                       *)
(*                                                                         *)
(* A record is [timestamp, sensor_token, value].  A violation of phase 4   *)
(* is [rule_id, priority, readings], readings being the sequence of        *)
(* [sensor_token, value] pairs of RuleViolation::add.                      *)
(***************************************************************************)
EXTENDS Orders, SequencesExt

(* Phase 1: a group opens at every record whose timestamp differs from the *)
(* previous record's; current_ts is empty before the first.                *)
OpensGroup(records, i) ==
    i = 1 \/ records[i].timestamp # records[i - 1].timestamp

(* The places where a group opens, in order. *)
Openings(records) == Ascending({i \in 1 .. Len(records) : OpensGroup(records, i)})

(* The last record of the k-th group. *)
GroupEnd(records, k) ==
    IF k = Len(Openings(records)) THEN Len(records) ELSE Openings(records)[k + 1] - 1

Pair(rec) == [sensor_token |-> rec.sensor_token, value |-> rec.value]

build_timestamp_groups(records) ==
    LET opens == Openings(records)
    IN  [k \in 1 .. Len(opens) |->
            [timestamp |-> records[opens[k]].timestamp,
             readings  |-> [r \in 1 .. (GroupEnd(records, k) - opens[k] + 1) |->
                               Pair(records[opens[k] + r - 1])]]]

(* The places <<group, reading>> of a sensor's readings. *)
PlacesOf(groups, s) ==
    UNION {{<<g, r>> : r \in {k \in 1 .. Len(groups[g]) : groups[g][k].sensor_token = s}} :
              g \in 1 .. Len(groups)}

(* Mutant of build_per_sensor_sequences: one reading per sensor and group. *)
first_reading_per_group(groups, num_sensors) ==
    [s \in 0 .. (num_sensors - 1) |->
        Ranking({place \in PlacesOf(groups, s) :
                    \A other \in PlacesOf(groups, s) :
                        other[1] = place[1] => other[2] >= place[2]}, LexicalOrder)]

(* Phase 2: groups is the sequence of the groups' readings. *)
build_per_sensor_sequences(groups, num_sensors) ==
    [s \in 0 .. (num_sensors - 1) |-> Ranking(PlacesOf(groups, s), LexicalOrder)]
-----------------------------------------------------------------------------
(***************************************************************************)
(* Phase 4, correlation.  fired holds the violations phase 3 found at a    *)
(* timestamp; find_fired returns the first of a rule_id, and the value it  *)
(* found belongs to the violation's first reading.                         *)
(***************************************************************************)
HasFired(fired, id) == \E i \in 1 .. Len(fired) : fired[i].rule_id = id

find_fired(fired, id) ==
    fired[CHOOSE i \in 1 .. Len(fired) :
              /\ fired[i].rule_id = id
              /\ \A k \in 1 .. (i - 1) : fired[k].rule_id # id]

Triggered(fired, rule) ==
    \/ /\ rule.logic = "AND"
       /\ \A n \in 1 .. Len(rule.sub_rules) : HasFired(fired, rule.sub_rules[n])
    \/ /\ rule.logic = "OR"
       /\ \E n \in 1 .. Len(rule.sub_rules) : HasFired(fired, rule.sub_rules[n])

(* The readings of the sub-rules that fired, in the rule's order. *)
CorrelationReadings(fired, rule) ==
    LET found == Picked(rule.sub_rules,
                        {n \in 1 .. Len(rule.sub_rules) : HasFired(fired, rule.sub_rules[n])})
    IN  [n \in 1 .. Len(found) |-> find_fired(fired, found[n]).readings[1]]

(* The alarm of a correlation rule that is triggered. *)
CorrelationAlarm(fired, rule) ==
    [rule_id  |-> rule.rule_id,
     priority |-> rule.priority,
     readings |-> CorrelationReadings(fired, rule)]

evaluate_correlations(fired, correlation_rules) ==
    IF fired = << >>
    THEN fired
    ELSE LET triggered == Ascending({c \in 1 .. Len(correlation_rules) :
                                        Triggered(fired, correlation_rules[c])})
         IN  fired \o [n \in 1 .. Len(triggered) |->
                          CorrelationAlarm(fired, correlation_rules[triggered[n]])]

(* Output order: priority, then rule_id; std::stable_sort keeps the rest. *)
OutputBefore(a, b) ==
    \/ a.priority > b.priority
    \/ a.priority = b.priority /\ a.rule_id < b.rule_id

(* Mutant of sort_violations_for_output: the order the threads left. *)
leave_unsorted(violations) == violations

StableBefore(violations, i, k) ==
    \/ OutputBefore(violations[i], violations[k])
    \/ ~ OutputBefore(violations[k], violations[i]) /\ i < k

(* The places of the violations in output order. *)
OutputOrder(violations) ==
    LET places == 1 .. Len(violations)
    IN  Ranking(places, {p \in places \X places : StableBefore(violations, p[1], p[2])})

sort_violations_for_output(violations) ==
    LET order == OutputOrder(violations)
    IN  [n \in 1 .. Len(violations) |-> violations[order[n]]]
=============================================================================
