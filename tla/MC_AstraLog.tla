---------------------------- MODULE MC_AstraLog ----------------------------
(***************************************************************************)
(* Two sensors and correlations of their rules, one of them with no        *)
(* sub-rules, which holds where any rule fires.  The inputs have a         *)
(* timestamp with several readings of one sensor, a stateful run across    *)
(* timestamps, a reading of an unknown sensor, NaN, and timestamps that    *)
(* come back; the thresholds make the program cut them everywhere it may.  *)
(***************************************************************************)
EXTENDS AstraLog, TLC

ARule(id, type, priority, op, threshold, consecutive) ==
    [rule_id |-> id, type |-> type, priority |-> priority, op |-> op,
     threshold |-> threshold, consecutive_measurements |-> consecutive]

Correlation(id, priority, logic, sub_rules) ==
    [rule_id |-> id, priority |-> priority, logic |-> logic, sub_rules |-> sub_rules]

MCSensorRules ==
    0 :> << ARule(2, "THRESHOLD", 1, "GT", 7, 1),
            ARule(5, "STATEFUL", 2, "GT", 4, 2) >>
    @@
    1 :> << ARule(3, "STEP_DIFF", 1, "NE", 0, 1) >>

MCCorrelationRules ==
    << Correlation(1, 2, "AND", << 3, 2 >>), Correlation(4, 1, "OR", << 9, 5 >>),
       Correlation(6, 0, "AND", << >>) >>

(* A correlation of a correlation. *)
NestedCorrelationRules ==
    << Correlation(1, 2, "AND", << 3, 2 >>), Correlation(4, 1, "AND", << 1, 2 >>) >>

(* Two rules with one rule_id. *)
DuplicateSensorRules ==
    0 :> << ARule(2, "THRESHOLD", 1, "GT", 7, 1) >>
    @@
    1 :> << ARule(2, "THRESHOLD", 1, "GT", 7, 1) >>

(* What ProgramImplementsMonitor assumes holds of the rules but these. *)
ASSUME RuleIdsAssumption == SensorRules # DuplicateSensorRules => RuleIdsOfOneSensor

At(ts, s, v) == [timestamp |-> ts, sensor_token |-> s, value |-> v]

MCInputs ==
    { << At(1, 0, 5), At(2, 0, 9), At(2, 1, 1), At(3, 1, 2), At(3, 0, 9) >>,
      << At(1, 1, 1), At(1, 1, 1), At(1, 0, 9), At(2, 1, 3), At(2, 0, 9) >>,
      << At(1, 0, 5), At(1, 0, 6), At(2, -1, 9), At(3, 0, 8), At(3, 0, 3) >>,
      << At(1, 1, NaN), At(2, 1, 4), At(3, 1, 4), At(4, 0, 5) >>,
      << At(1, 0, 1), At(2, 1, 1), At(1, 0, 8) >> }

TwoAlarms == { << At(1, 0, 9), At(1, 1, 9) >> }

CorrelatedAlarms == { << At(1, 1, 1), At(2, 1, 2), At(2, 0, 9) >> }

TimestampComesBack == { << At(1, 0, 1), At(2, 1, 1), At(1, 0, 8) >> }

Count(n) == [strategy |-> "COUNT", count_threshold |-> n,
             time_threshold_ms |-> 0, write_audit_files |-> FALSE]
Time(n)  == [strategy |-> "TIME", count_threshold |-> 0,
             time_threshold_ms |-> n, write_audit_files |-> FALSE]

MCConfigs == { Count(1), Count(3), Count(9), Time(1) }

OneBatch == { Count(9) }
=============================================================================
