------------------------------ MODULE Monitor ------------------------------
(***************************************************************************)
(* What the program promises, without batches, threads, counters or sorts: *)
(* it reads the records in order and reports each timestamp in turn, a     *)
(* NOMINAL line when no rule fires there and otherwise its alarms, HIGH    *)
(* before MEDIUM before LOW and then by rule_id.  Whether a rule fires is  *)
(* judged on the whole history of its sensor (Fires of RulesEngine), and a *)
(* correlation rule on the rules that fire at the same timestamp.          *)
(*                                                                         *)
(* Alarms of equal priority and rule_id, which distinct rules do not have, *)
(* are in the order of their sensors and readings.                         *)
(***************************************************************************)
EXTENDS RulesEngine, Orders, SequencesExt

CONSTANTS
    NumSensors,         \* sensors that have a token: 0 .. NumSensors - 1
    SensorRules,        \* sensor token -> its rules
    CorrelationRules,   \* the correlation rules
    Inputs              \* the sequences of records a run may be given

VARIABLES
    records,            \* the records of the run
    consumed,           \* how many of them have been reported on
    valid_file,         \* the NOMINAL lines
    alarms_file         \* the alarms, one block for each timestamp

monitor_vars == <<records, consumed, valid_file, alarms_file>>

(* The values a sensor has reported up to the n-th record. *)
History(s, n) ==
    LET own == Picked(records, {k \in 1 .. n : records[k].sensor_token = s})
    IN  [k \in 1 .. Len(own) |-> own[k].value]

(* The records from a + 1 to b are all those of one timestamp in a row. *)
IsRun(a, b) ==
    /\ b \in (a + 1) .. Len(records)
    /\ \A n \in (a + 1) .. b : records[n].timestamp = records[a + 1].timestamp
    /\ b < Len(records) => records[b + 1].timestamp # records[b].timestamp

Pair(n) == [sensor_token |-> records[n].sensor_token, value |-> records[n].value]

(***************************************************************************)
(* The alarms at the n-th record; place breaks ties.                       *)
(***************************************************************************)
RaisedBy(n, s) ==
    LET h == History(s, n)
    IN  {[rule_id  |-> SensorRules[s][j].rule_id,
          priority |-> SensorRules[s][j].priority,
          readings |-> <<Pair(n)>>,
          place    |-> <<s, n, j>>] :
            j \in {k \in 1 .. Len(SensorRules[s]) : Fires(SensorRules[s][k], h, Len(h))}}

RaisedAt(n) ==
    IF records[n].sensor_token \in 0 .. (NumSensors - 1)
    THEN RaisedBy(n, records[n].sensor_token)
    ELSE {}

Raised(a, b) == UNION {RaisedAt(n) : n \in (a + 1) .. b}

Earlier(p, q) ==
    \/ p[1] < q[1]
    \/ p[1] = q[1] /\ p[2] < q[2]
    \/ p[1] = q[1] /\ p[2] = q[2] /\ p[3] < q[3]

FirstOf(raised, id) ==
    CHOOSE v \in raised :
        /\ v.rule_id = id
        /\ \A w \in raised : w.rule_id = id => w = v \/ Earlier(v.place, w.place)

(* The alarms of the correlation rules, given what the others raised. *)
Correlated(raised) ==
    LET fired == {v.rule_id : v \in raised}
        holds(rule) ==
            \/ rule.logic = "AND" /\ ToSet(rule.sub_rules) \subseteq fired
            \/ rule.logic = "OR"  /\ ToSet(rule.sub_rules) \cap fired # {}
        found(rule) == Picked(rule.sub_rules,
                              {n \in 1 .. Len(rule.sub_rules) : rule.sub_rules[n] \in fired})
    IN  {[rule_id  |-> CorrelationRules[c].rule_id,
          priority |-> CorrelationRules[c].priority,
          readings |-> [n \in 1 .. Len(found(CorrelationRules[c])) |->
                           FirstOf(raised, found(CorrelationRules[c])[n]).readings[1]],
          place    |-> <<NumSensors, c, 0>>] :
            c \in {k \in 1 .. Len(CorrelationRules) : holds(CorrelationRules[k])}}

Before(v, w) ==
    \/ v.priority > w.priority
    \/ v.priority = w.priority /\ v.rule_id < w.rule_id
    \/ v.priority = w.priority /\ v.rule_id = w.rule_id /\ Earlier(v.place, w.place)

Alarms(a, b) ==
    LET raised == Raised(a, b) \cup Correlated(Raised(a, b))
        all    == Ranking(raised, {p \in raised \X raised : Before(p[1], p[2])})
    IN  [n \in 1 .. Len(all) |->
            [rule_id |-> all[n].rule_id, priority |-> all[n].priority,
             readings |-> all[n].readings]]
-----------------------------------------------------------------------------
Init ==
    /\ records \in Inputs
    /\ consumed = 0
    /\ valid_file = << >>
    /\ alarms_file = << >>

Report(b) ==
    /\ IsRun(consumed, b)
    /\ consumed' = b
    /\ IF Raised(consumed, b) = {}
       THEN /\ valid_file' = Append(valid_file,
                 [timestamp |-> records[b].timestamp,
                  readings  |-> [n \in 1 .. (b - consumed) |-> Pair(consumed + n)]])
            /\ UNCHANGED alarms_file
       ELSE /\ alarms_file' = Append(alarms_file,
                 [timestamp |-> records[b].timestamp, alarms |-> Alarms(consumed, b)])
            /\ UNCHANGED valid_file
    /\ UNCHANGED records

Next == \E b \in 1 .. Len(records) : Report(b)

Spec == Init /\ [][Next]_monitor_vars
=============================================================================
