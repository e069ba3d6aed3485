---------------------------- MODULE RulesEngine ----------------------------
(***************************************************************************)
(* The rule evaluators of rules_engine.hpp and the comparison of           *)
(* types.hpp, and the declarative meaning of a rule they are compared with.*)
(*                                                                         *)
(* A reading's value is a double.  The model keeps the integers, and NaN,  *)
(* which std::from_chars accepts in a telemetry row ("nan"): it compares   *)
(* false with everything except under "!=", and every difference taken     *)
(* with it is NaN.                                                         *)
(***************************************************************************)
EXTENDS Integers, Sequences

CONSTANT NaN            \* the not-a-number double

ASSUME NaNAssumption == NaN \notin Int

Value == Int \cup {NaN}

CompOp == {"GT", "GE", "LT", "LE", "EQ", "NE"}

(***************************************************************************)
(* A rule that is bound to one sensor.  rule_id is a natural: only its     *)
(* identity and its place in the order of the ids matter.                  *)
(***************************************************************************)
Rule == [rule_id : Nat,
         type : {"THRESHOLD", "STEP_DIFF", "STATEFUL"},
         priority : {0, 1, 2},                       \* LOW, MEDIUM, HIGH
         op : CompOp,
         threshold : Int,
         consecutive_measurements : Int]

(***************************************************************************)
(* Comparison and difference of doubles.                                   *)
(***************************************************************************)
evaluate_comparison(lhs, op, rhs) ==
    IF NaN \in {lhs, rhs}
    THEN op = "NE"
    ELSE \/ op = "GT" /\ lhs > rhs
         \/ op = "GE" /\ lhs >= rhs
         \/ op = "LT" /\ lhs < rhs
         \/ op = "LE" /\ lhs <= rhs
         \/ op = "EQ" /\ lhs = rhs
         \/ op = "NE" /\ lhs # rhs

Delta(current, previous) ==
    IF NaN \in {current, previous} THEN NaN ELSE current - previous

(***************************************************************************)
(* The evaluators.  state is the SensorState of the rule's sensor and slot *)
(* the index of the rule's counter in consecutive_violations.              *)
(***************************************************************************)
evaluate_threshold(value, rule) ==
    evaluate_comparison(value, rule.op, rule.threshold)

evaluate_step_diff(value, state, rule) ==
    /\ state.has_previous
    /\ evaluate_comparison(Delta(value, state.previous_value),
                           rule.op, rule.threshold)

(* Mutant of NextCount: a reading that does not violate keeps the counter. *)
CountWithoutReset(value, state, rule, slot) ==
    IF evaluate_comparison(value, rule.op, rule.threshold)
    THEN state.consecutive_violations[slot] + 1
    ELSE state.consecutive_violations[slot]

(* The counter of a STATEFUL rule after a reading. *)
NextCount(value, state, rule, slot) ==
    IF evaluate_comparison(value, rule.op, rule.threshold)
    THEN state.consecutive_violations[slot] + 1
    ELSE 0

evaluate_stateful(value, state, rule, slot) ==
    /\ evaluate_comparison(value, rule.op, rule.threshold)
    /\ NextCount(value, state, rule, slot) >= rule.consecutive_measurements

-----------------------------------------------------------------------------
(***************************************************************************)
(* What the rules mean, over the history h of a sensor: the values it has  *)
(* reported since the program started, in input order.  A rule fires at    *)
(* the k-th of them or not, whatever batch or thread evaluates it.         *)
(***************************************************************************)
Violates(rule, value) == evaluate_comparison(value, rule.op, rule.threshold)

(* The n values of h that end at position k all violate the rule. *)
RunEndsAt(rule, h, k, n) ==
    /\ n <= k
    /\ \A i \in (k - n + 1) .. k : Violates(rule, h[i])

(* ... and the run reaches back as far as it can. *)
MaximalRun(rule, h, k, n) ==
    /\ n \in 0 .. k
    /\ RunEndsAt(rule, h, k, n)
    /\ n < k => ~ Violates(rule, h[k - n])

Fires(rule, h, k) ==
    \/ /\ rule.type = "THRESHOLD"
       /\ Violates(rule, h[k])
    \/ /\ rule.type = "STEP_DIFF"
       /\ k > 1
       /\ evaluate_comparison(Delta(h[k], h[k - 1]), rule.op, rule.threshold)
    \/ /\ rule.type = "STATEFUL"
       /\ \E n \in 1 .. k :
             n >= rule.consecutive_measurements /\ RunEndsAt(rule, h, k, n)
=============================================================================
