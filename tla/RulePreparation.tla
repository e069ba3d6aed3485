-------------------------- MODULE RulePreparation --------------------------
(***************************************************************************)
(* Start-up: main() gives every sensor of the YAML file a token, and       *)
(* prepare_rules of timestamp_processor.hpp binds each rule to the token   *)
(* of its sensor, sorts the rules of each type by priority and deals them  *)
(* out to the sensors.                                                     *)
(*                                                                         *)
(* sort_by_priority is std::sort, which is not stable: rules of one        *)
(* priority may end up in any order.  A pointer to a rule is the rule's    *)
(* place in the list that was loaded.                                      *)
(***************************************************************************)
EXTENDS Orders, SequencesExt

CONSTANT SensorId       \* names of sensors, of some that are in no file too

RuleType == {"THRESHOLD", "STEP_DIFF", "STATEFUL", "CORRELATION"}

IsSequence(seq) == Len(seq) \in Nat /\ seq = [n \in 1 .. Len(seq) |-> seq[n]]

IsRuleList(rules) ==
    IsSequence(rules) /\ \A r \in 1 .. Len(rules) : rules[r].type \in RuleType

VARIABLES
    phase,              \* where the start-up is; here "sensors" | "bind" | "sort" | "deal"
    sensor_ids,         \* what load_sensors_from_yaml returned
    all_rules,          \* what load_rules returned
    next_id,            \* the next sensor to be given a token
    token_map,          \* sensor -> token
    inverse_token_map,  \* token -> sensor
    sensor_token_idx,   \* rule -> token, or -1
    rules_of,           \* type -> its rules, threshold_rules and so on
    sensor_rules        \* PreparedRules::sensor_rules

preparationVars == <<next_id, token_map, inverse_token_map, sensor_token_idx,
                     rules_of, sensor_rules>>

startUpVars == <<phase, sensor_ids, all_rules, preparationVars>>

PreparationInit ==
    /\ next_id = 1
    /\ token_map = << >>
    /\ inverse_token_map = << >>
    /\ sensor_token_idx = << >>
    /\ rules_of = [type \in RuleType |-> << >>]
    /\ sensor_rules = << >>

Rules   == 1 .. Len(all_rules)
Known   == DOMAIN token_map
NumSensors == Cardinality(Known)
Tokens  == 0 .. (NumSensors - 1)
-----------------------------------------------------------------------------
With(f, x, y) == [z \in DOMAIN f \cup {x} |-> IF z = x THEN y ELSE f[z]]

(* Mutant of TokenFor: a sensor that is listed twice gets a new token. *)
TokenForEach(id) == With(token_map, id, NumSensors)

(* A sensor that is listed twice keeps its first token. *)
TokenFor(id) ==
    IF id \in Known THEN token_map ELSE With(token_map, id, NumSensors)

InternSensor ==
    /\ phase = "sensors"
    /\ next_id <= Len(sensor_ids)
    /\ token_map' = TokenFor(sensor_ids[next_id])
    /\ next_id' = next_id + 1
    /\ UNCHANGED <<phase, sensor_ids, all_rules, inverse_token_map,
                   sensor_token_idx, rules_of, sensor_rules>>

(* A place of the vector that no token refers to keeps the empty string. *)
build_inverse_token_map ==
    [t \in Tokens |->
        IF \E id \in Known : token_map[id] = t
        THEN CHOOSE id \in Known : token_map[id] = t
        ELSE ""]

EndSensors ==
    /\ phase = "sensors"
    /\ next_id > Len(sensor_ids)
    /\ inverse_token_map' = build_inverse_token_map
    /\ phase' = "json"
    /\ UNCHANGED <<sensor_ids, all_rules, next_id, token_map, sensor_token_idx,
                   rules_of, sensor_rules>>
-----------------------------------------------------------------------------
(* prepare_rules. *)

(* Mutant of TokenOf: an unknown sensor is taken for the first one. *)
TokenOrZero(rule) ==
    IF rule.type # "CORRELATION" /\ rule.sensor_id \in Known
    THEN token_map[rule.sensor_id]
    ELSE 0

TokenOf(rule) ==
    IF rule.type # "CORRELATION" /\ rule.sensor_id \in Known
    THEN token_map[rule.sensor_id]
    ELSE -1

RulesOf(type) == {r \in Rules : all_rules[r].type = type}

assign_sensor_tokens ==
    /\ phase = "bind"
    /\ sensor_token_idx' = [r \in Rules |-> TokenOf(all_rules[r])]
    /\ rules_of' = [type \in RuleType |-> Ascending(RulesOf(type))]
    /\ phase' = "sort"
    /\ UNCHANGED <<sensor_ids, all_rules, next_id, token_map, inverse_token_map,
                   sensor_rules>>

(* Mutant of sort_by_priority: the order of the enumeration. *)
sort_ascending(seq) ==
    {order \in SetToSeqs(ToSet(seq)) :
        \A a, b \in 1 .. Len(order) :
            a < b => all_rules[order[a]].priority <= all_rules[order[b]].priority}

sort_by_priority(seq) ==
    {order \in SetToSeqs(ToSet(seq)) :
        \A a, b \in 1 .. Len(order) :
            a < b => all_rules[order[a]].priority >= all_rules[order[b]].priority}

SortRules ==
    /\ phase = "sort"
    /\ \E threshold   \in sort_by_priority(rules_of["THRESHOLD"]) :
       \E step_diff   \in sort_by_priority(rules_of["STEP_DIFF"]) :
       \E stateful    \in sort_by_priority(rules_of["STATEFUL"]) :
       \E correlation \in sort_by_priority(rules_of["CORRELATION"]) :
          rules_of' = [THRESHOLD   |-> threshold,
                       STEP_DIFF   |-> step_diff,
                       STATEFUL    |-> stateful,
                       CORRELATION |-> correlation]
    /\ phase' = "deal"
    /\ UNCHANGED <<sensor_ids, all_rules, next_id, token_map, inverse_token_map,
                   sensor_token_idx, sensor_rules>>

(* The rules of one type that are bound to token t. *)
BoundTo(t, type) ==
    LET rules == rules_of[type]
    IN  Picked(rules, {k \in 1 .. Len(rules) : sensor_token_idx[rules[k]] = t})

(* Mutant of StatefulEntries: slots are numbered over all sensors. *)
EntriesOverAllSensors(t) ==
    LET own == BoundTo(t, "STATEFUL")
    IN  [k \in 1 .. Len(own) |->
            [rule |-> own[k],
             slot |-> (CHOOSE j \in 1 .. Len(rules_of["STATEFUL"]) :
                          rules_of["STATEFUL"][j] = own[k]) - 1]]

(* A STATEFUL rule is given the next counter of its sensor. *)
StatefulEntries(t) ==
    LET own == BoundTo(t, "STATEFUL")
    IN  [k \in 1 .. Len(own) |-> [rule |-> own[k], slot |-> k - 1]]

SensorRuleSet(t) ==
    [threshold |-> BoundTo(t, "THRESHOLD"),
     step_diff |-> BoundTo(t, "STEP_DIFF"),
     stateful  |-> StatefulEntries(t)]

DealRules ==
    /\ phase = "deal"
    /\ sensor_rules' = [t \in Tokens |-> SensorRuleSet(t)]
    /\ phase' = "done"
    /\ UNCHANGED <<sensor_ids, all_rules, next_id, token_map, inverse_token_map,
                   sensor_token_idx, rules_of>>

(* The rules are loaded between EndSensors and assign_sensor_tokens. *)
Prepare ==
    \/ InternSensor
    \/ EndSensors
    \/ assign_sensor_tokens
    \/ SortRules
    \/ DealRules

(* Whatever loads the files: the sensors before the first is interned, the *)
(* rules when all are.                                                     *)
Loading ==
    /\ \/ /\ phase = "yaml"
          /\ phase' \in {"yaml", "sensors"}
          /\ IsSequence(sensor_ids')
          /\ UNCHANGED all_rules
       \/ /\ phase \in {"json", "rules"}
          /\ phase' \in {"json", "rules", "bind", "failed"}
          /\ IsRuleList(all_rules')
          /\ UNCHANGED sensor_ids
    /\ UNCHANGED preparationVars

StartUpInit ==
    /\ phase = "yaml"
    /\ sensor_ids = << >>
    /\ all_rules = << >>
    /\ PreparationInit

PreparationSpec ==
    StartUpInit /\ [][Loading \/ Prepare]_startUpVars
-----------------------------------------------------------------------------
(* lookup_sensor_token: the parser searches the names in token order. *)
lookup_sensor_token(id) ==
    IF \E t \in Tokens : inverse_token_map[t] = id
    THEN CHOOSE t \in Tokens :
            /\ inverse_token_map[t] = id
            /\ \A u \in 0 .. (t - 1) : inverse_token_map[u] # id
    ELSE -1

(***************************************************************************)
(* The parser, the rules and the formatter agree on the tokens, although   *)
(* the YAML file may list a sensor twice: a sensor's row in the telemetry  *)
(* gets the token its rules are bound to, and is printed under its name.   *)
(***************************************************************************)
TokensAgree ==
    phase \notin {"yaml", "sensors"} =>
        /\ \A id \in ToSet(sensor_ids) :
              /\ lookup_sensor_token(id) = token_map[id]
              /\ inverse_token_map[token_map[id]] = id
        /\ \A id \in SensorId \ ToSet(sensor_ids) : lookup_sensor_token(id) = -1

(* The places of rule r in the sensors' lists. *)
Places(r) ==
    UNION { {<<t, "THRESHOLD", k>> : k \in {n \in 1 .. Len(sensor_rules[t].threshold) :
                                              sensor_rules[t].threshold[n] = r}}
              \cup {<<t, "STEP_DIFF", k>> : k \in {n \in 1 .. Len(sensor_rules[t].step_diff) :
                                              sensor_rules[t].step_diff[n] = r}}
              \cup {<<t, "STATEFUL", k>> : k \in {n \in 1 .. Len(sensor_rules[t].stateful) :
                                              sensor_rules[t].stateful[n].rule = r}} :
            t \in Tokens }

(***************************************************************************)
(* A rule for a sensor of the file is evaluated at that sensor's readings, *)
(* once and by the evaluator of its type, and at no other's, whatever the  *)
(* order the sort leaves rules of one priority in; any other rule nowhere. *)
(***************************************************************************)
PlacedOnce ==
    phase = "done" =>
        \A r \in Rules :
            LET rule == all_rules[r]
            IN  IF rule.type # "CORRELATION" /\ rule.sensor_id \in ToSet(sensor_ids)
                THEN \E k \in Rules :
                        Places(r) = {<<token_map[rule.sensor_id], rule.type, k>>}
                ELSE Places(r) = {}

(***************************************************************************)
(* PipelineState::initialize gives a sensor one counter for each entry of  *)
(* its stateful list: every slot is inside that vector, and no two rules   *)
(* count in one counter.                                                   *)
(***************************************************************************)
CounterPerRule ==
    phase = "done" =>
        \A t \in Tokens :
            LET entries == sensor_rules[t].stateful
            IN  {entries[k].slot : k \in 1 .. Len(entries)} = 0 .. (Len(entries) - 1)

(***************************************************************************)
(* rules_engine.hpp: "rules with higher priority are evaluated before the  *)
(* others" within each type, at every sensor.                              *)
(***************************************************************************)
Descending(seq) ==
    \A a, b \in 1 .. Len(seq) :
        a < b => all_rules[seq[a]].priority >= all_rules[seq[b]].priority

HigherFirst ==
    phase = "done" =>
        \A t \in Tokens :
            /\ Descending(sensor_rules[t].threshold)
            /\ Descending(sensor_rules[t].step_diff)
            /\ Descending([k \in 1 .. Len(sensor_rules[t].stateful) |->
                              sensor_rules[t].stateful[k].rule])
=============================================================================
