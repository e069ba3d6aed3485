--------------------------- MODULE Configuration ---------------------------
(***************************************************************************)
(* The start-up of main(), from the text of sensors.yaml and rules.json to *)
(* the prepared rules: load_sensors_from_yaml, the interning of the        *)
(* sensors, MiniJsonParser, load_rules, and prepare_rules.  An exception   *)
(* of the loaders ends the program.                                        *)
(***************************************************************************)
EXTENDS JsonLanguage, RulePreparation, YamlSensors

CONSTANTS
    Files,          \* the two files, and what the rules are meant to be
    IntMin, IntMax  \* the range of int

VARIABLES
    yaml, next_line,    \* the file of sensors, and the next line
    rules,              \* the vector load_rules fills
    meant               \* what the file of rules is meant to be (history)

vars == <<phase, sensor_ids, all_rules, preparationVars, jsonVars, yaml, next_line,
          rules, meant>>

Init ==
    /\ phase = "yaml"
    /\ \E file \in Files : yaml = file.yaml /\ src = file.text /\ meant = file.meant
    /\ next_line = 1
    /\ sensor_ids = << >>
    /\ PreparationInit
    /\ JsonInit
    /\ rules = << >>
    /\ all_rules = << >>
-----------------------------------------------------------------------------
(* load_sensors_from_yaml *)

ReadLine ==
    /\ phase = "yaml"
    /\ next_line <= Len(yaml)
    /\ sensor_ids' = sensor_ids \o SensorOn(yaml[next_line])
    /\ next_line' = next_line + 1
    /\ UNCHANGED <<phase, all_rules, preparationVars, jsonVars, yaml, rules, meant>>

EndYaml ==
    /\ phase = "yaml"
    /\ next_line > Len(yaml)
    /\ phase' = "sensors"
    /\ UNCHANGED <<sensor_ids, all_rules, preparationVars, jsonVars, yaml, next_line,
                   rules, meant>>
-----------------------------------------------------------------------------
(* load_rules *)

ParseStep ==
    /\ phase = "json"
    /\ Parse \/ Throw
    /\ UNCHANGED <<phase, sensor_ids, all_rules, preparationVars, yaml, next_line,
                   rules, meant>>

EndJson ==
    /\ phase = "json"
    /\ pc = "returned"
    /\ value[1] = "array"
    /\ phase' = "rules"
    /\ UNCHANGED <<sensor_ids, all_rules, preparationVars, jsonVars, yaml, next_line,
                   rules, meant>>

string_to_ruletype ==
    [threshold |-> "THRESHOLD", simple |-> "THRESHOLD", step_difference |-> "STEP_DIFF",
     step_diff |-> "STEP_DIFF", stateful |-> "STATEFUL", correlation |-> "CORRELATION"]

string_to_priority ==
    [LOW |-> 0, low |-> 0, MEDIUM |-> 1, medium |-> 1, HIGH |-> 2, high |-> 2]

CompOps == {">", ">=", "<", "<=", "==", "!="}

Has(elem, key) == \E n \in 1 .. Len(elem[2]) : elem[2][n].key = key

(* The first member with the key. *)
find(elem, key) ==
    elem[2][Min({n \in 1 .. Len(elem[2]) : elem[2][n].key = key})].value

as_string(v) == IF v[1] = "string" THEN v[2] ELSE ""

as_number(v) == IF v[1] = "number" THEN v[2] ELSE 0

Truncated(halves) == IF halves >= 0 THEN halves \div 2 ELSE - ((- halves) \div 2)

(* The cast of a double that is out of range is undefined: any int.        *)
as_int(v) ==
    IF v[1] # "number" THEN {1}
    ELSE IF Truncated(v[2]) \in IntMin .. IntMax THEN {Truncated(v[2])}
    ELSE IntMin .. IntMax

(* The conversions throw at a name they do not know, or at none. *)
Acceptable(elem) ==
    /\ elem[1] = "object"
    /\ Has(elem, "rule_id")
    /\ Has(elem, "type")
    /\ as_string(find(elem, "type")) \in DOMAIN string_to_ruletype
    /\ Has(elem, "priority")
          => as_string(find(elem, "priority")) \in DOMAIN string_to_priority
    /\ Has(elem, "operator") => as_string(find(elem, "operator")) \in CompOps

(* "conditions", or else "sub_rules", and if that is not an array nothing. *)
SubRules(elem) ==
    LET key == IF Has(elem, "conditions") THEN "conditions" ELSE "sub_rules"
    IN  IF Has(elem, key) /\ find(elem, key)[1] = "array"
        THEN [n \in 1 .. Len(find(elem, key)[2]) |-> as_string(find(elem, key)[2][n])]
        ELSE << >>

StringOr(elem, key, default) ==
    IF Has(elem, key) THEN as_string(find(elem, key)) ELSE default

(* The rule of an element, and one that is left as RuleDefinition() made it. *)
RuleOf(elem, consecutive) ==
    [rule_id   |-> as_string(find(elem, "rule_id")),
     type      |-> string_to_ruletype[as_string(find(elem, "type"))],
     priority  |-> string_to_priority[StringOr(elem, "priority", "LOW")],
     sensor_id |-> StringOr(elem, "sensor_id", ""),
     op        |-> StringOr(elem, "operator", ">"),
     threshold |-> IF Has(elem, "value") THEN as_number(find(elem, "value")) ELSE 0,
     consecutive_measurements |-> consecutive,
     logic     |-> StringOr(elem, "logic", ""),
     sub_rules |-> SubRules(elem)]

Element == value[2][Len(rules) + 1]

MoreRules == phase = "rules" /\ Len(rules) < Len(value[2])

LoadRule ==
    /\ MoreRules
    /\ Acceptable(Element)
    /\ \E consecutive \in IF Has(Element, "consecutive_measurements")
                          THEN as_int(find(Element, "consecutive_measurements"))
                          ELSE {1} :
          rules' = Append(rules, RuleOf(Element, consecutive))
    /\ UNCHANGED <<phase, sensor_ids, all_rules, preparationVars, jsonVars, yaml,
                   next_line, meant>>

(* Mutant of ReturnRules: an element that throws is passed over. *)
ReturnRulesSoFar ==
    /\ phase = "rules"
    /\ MoreRules => ~ Acceptable(Element)
    /\ all_rules' = rules
    /\ phase' = "bind"
    /\ UNCHANGED <<sensor_ids, preparationVars, jsonVars, yaml, next_line, rules, meant>>

(* Mutant of ReturnRules: the sensors the rules name are registered too. *)
ReturnRulesAndSensors ==
    /\ phase = "rules"
    /\ ~ MoreRules
    /\ all_rules' = rules
    /\ sensor_ids' = sensor_ids \o [n \in 1 .. Len(rules) |-> rules[n].sensor_id]
    /\ phase' = "bind"
    /\ UNCHANGED <<preparationVars, jsonVars, yaml, next_line, rules, meant>>

ReturnRules ==
    /\ phase = "rules"
    /\ ~ MoreRules
    /\ all_rules' = rules
    /\ phase' = "bind"
    /\ UNCHANGED <<sensor_ids, preparationVars, jsonVars, yaml, next_line, rules, meant>>

(* load_rules throws, and main() returns 1. *)
FailRules ==
    /\ \/ phase = "json" /\ pc = "threw"
       \/ phase = "json" /\ pc = "returned" /\ value[1] # "array"
       \/ MoreRules /\ ~ Acceptable(Element)
    /\ phase' = "failed"
    /\ UNCHANGED <<sensor_ids, all_rules, preparationVars, jsonVars, yaml, next_line,
                   rules, meant>>
-----------------------------------------------------------------------------
(***************************************************************************)
(* What it means that a file is written as a list of rules: the meaning of *)
(* its text is an array, and what a rule is or has is said by the first    *)
(* member of its element with that name, or is the default if none has it. *)
(***************************************************************************)
Given(elem, key, kind, what) ==
    \E n \in 1 .. Len(elem[2]) :
        /\ elem[2][n].key = key
        /\ \A m \in 1 .. Len(elem[2]) : elem[2][m].key = key => n <= m
        /\ elem[2][n].value[1] = kind
        /\ elem[2][n].value[2] = what

Absent(elem, key) == \A n \in 1 .. Len(elem[2]) : elem[2][n].key # key

GivenOr(elem, key, kind, what, default) ==
    Given(elem, key, kind, what) \/ (Absent(elem, key) /\ what = default)

TypeNames(type) ==
    CASE type = "THRESHOLD"   -> {"threshold", "simple"}
      [] type = "STEP_DIFF"   -> {"step_difference", "step_diff"}
      [] type = "STATEFUL"    -> {"stateful"}
      [] type = "CORRELATION" -> {"correlation"}

PriorityNames(priority) ==
    CASE priority = 0 -> {"LOW", "low"}
      [] priority = 1 -> {"MEDIUM", "medium"}
      [] priority = 2 -> {"HIGH", "high"}

WritesType(elem, type) ==
    \E name \in TypeNames(type) : Given(elem, "type", "string", name)

WritesPriority(elem, priority) ==
    \/ \E name \in PriorityNames(priority) : Given(elem, "priority", "string", name)
    \/ Absent(elem, "priority") /\ priority = 0

(* A whole number of measurements; a half is not counted. *)
WritesConsecutive(elem, n) ==
    \/ n \in IntMin .. IntMax
       /\ \E halves \in Numbers :
             /\ n = Truncated(halves)
             /\ Given(elem, "consecutive_measurements", "number", halves)
    \/ Absent(elem, "consecutive_measurements") /\ n = 1

WritesSubRules(elem, ids) ==
    LET strings == [n \in 1 .. Len(ids) |-> <<"string", ids[n]>>]
    IN  \/ Given(elem, "conditions", "array", strings)
        \/ /\ Absent(elem, "conditions")
           /\ \/ Given(elem, "sub_rules", "array", strings)
              \/ Absent(elem, "sub_rules") /\ ids = << >>

Writes(elem, rule) ==
    /\ rule = [rule_id |-> rule.rule_id, type |-> rule.type, priority |-> rule.priority,
               sensor_id |-> rule.sensor_id, op |-> rule.op, threshold |-> rule.threshold,
               consecutive_measurements |-> rule.consecutive_measurements,
               logic |-> rule.logic, sub_rules |-> rule.sub_rules]
    /\ rule.type \in RuleType /\ rule.priority \in 0 .. 2 /\ rule.op \in CompOps
    /\ IsSequence(rule.sub_rules)
    /\ elem[1] = "object"
    /\ Given(elem, "rule_id", "string", rule.rule_id)
    /\ WritesType(elem, rule.type)
    /\ WritesPriority(elem, rule.priority)
    /\ GivenOr(elem, "sensor_id", "string", rule.sensor_id, "")
    /\ GivenOr(elem, "operator", "string", rule.op, ">")
    /\ GivenOr(elem, "value", "number", rule.threshold, 0)
    /\ WritesConsecutive(elem, rule.consecutive_measurements)
    /\ GivenOr(elem, "logic", "string", rule.logic, "")
    /\ WritesSubRules(elem, rule.sub_rules)

WritesRules(v, list) ==
    /\ v[1] = "array"
    /\ Len(v[2]) = Len(list)
    /\ \A n \in 1 .. Len(list) : Writes(v[2][n], list[n])

(* No rule: it has no name, no type that is known, or says what is none. *)
IsDefective(elem) ==
    \/ elem[1] # "object"
    \/ Absent(elem, "rule_id")
    \/ \A type \in RuleType : ~ WritesType(elem, type)
    \/ \A priority \in 0 .. 2 : ~ WritesPriority(elem, priority)
    \/ \A op \in CompOps : ~ GivenOr(elem, "operator", "string", op, ">")

(* The verdicts on the files. *)
ASSUME FilesAssumption ==
    \A file \in Files :
        LET values(n) == Meanings(file.text)[<<"value", 1, n>>]
        IN  /\ file.text \in Seq(Token)
            /\ file.meant.verdict = "rules" =>
                  /\ IsSequence(file.meant.rules)
                  /\ \E v \in values(Len(file.text)) : WritesRules(v, file.meant.rules)
            /\ file.meant.verdict = "defect" =>
                  \A n \in 1 .. Len(file.text) : \A v \in values(n) :
                      v[1] = "array" => \E k \in 1 .. Len(v[2]) : IsDefective(v[2][k])

(* A sensor's name is one symbol, and nothing else is spelt like it. *)
ASSUME NamesAssumption ==
    /\ SensorId \cap ({" ", "'"} \cup Keys) = {}
    /\ \A file \in Files :
          /\ IsSequence(file.yaml)
          /\ \A l \in 1 .. Len(file.yaml) :
                LET line == file.yaml[l]
                IN  /\ IsSequence(line)
                    /\ \A a, b \in 1 .. Len(line), id \in SensorId :
                          a <= b => (Spelt(SubSeq(line, a, b)) = id <=> a = b /\ line[a] = id)
-----------------------------------------------------------------------------
Load == ReadLine \/ EndYaml \/ ParseStep \/ EndJson \/ LoadRule \/ ReturnRules \/ FailRules

PrepareStep == Prepare /\ UNCHANGED <<jsonVars, yaml, next_line, rules, meant>>

Done == phase \in {"done", "failed"} /\ UNCHANGED vars

Next == Load \/ PrepareStep \/ Done

Spec == Init /\ [][Next]_vars

(* Nothing but an exception stops the start-up. *)
FairSpec == Spec /\ WF_vars(Load \/ PrepareStep)
-----------------------------------------------------------------------------
Loaded == phase \in {"bind", "sort", "deal", "done"}

(* The sensors the lines of the file of sensors are meant to list. *)
Declared == {id \in SensorId : \E n \in 1 .. Len(yaml) : Lists(yaml[n], id)}

(***************************************************************************)
(* A file that writes down rules is accepted and read as those rules, all  *)
(* of them in their order, however their members are ordered, spelt, left  *)
(* out or accompanied; a file with a defect in any rule is refused whole.  *)
(* The sensors are those that the other file lists, however it is indented *)
(* and quoted: what a rule is written for is what it is bound to.          *)
(***************************************************************************)
ReadAsWritten ==
    /\ meant.verdict = "rules" =>
          /\ phase # "failed"
          /\ Loaded => all_rules = meant.rules
    /\ meant.verdict = "defect" => ~ Loaded
    /\ phase # "yaml" => SensorId \cap ToSet(sensor_ids) = Declared

(* Both loaders leave to prepare_rules and to each other what is theirs:   *)
(* no sensor is added once tokens are given out, no rule bound early.      *)
ImplementsPreparation == PreparationSpec

(* The start-up ends with the rules prepared or an error. *)
ConfigurationEnds == <>(phase \in {"done", "failed"})
=============================================================================
