-------------------------- MODULE MC_RuleEvaluation --------------------------
(***************************************************************************)
(* Two sensors, two threads, three batches.  Sensor 0 has a rule of every  *)
(* type, sensor 1 a rule that NaN fires and a STATEFUL rule whose          *)
(* consecutive_measurements is 0.  The batches hold duplicated readings, a *)
(* sensor that is absent, a reading of an unknown sensor, and NaN.         *)
(***************************************************************************)
EXTENDS RuleEvaluation, TimestampProcessor, TLC

ARule(id, type, op, threshold, consecutive) ==
    [rule_id |-> id, type |-> type, priority |-> 2, op |-> op,
     threshold |-> threshold, consecutive_measurements |-> consecutive]

MCSensorRules ==
    0 :> << ARule(1, "THRESHOLD", "GE", 9, 1),
            ARule(2, "STEP_DIFF", "LT", -2, 1),
            ARule(3, "STATEFUL", "GT", 4, 3) >>
    @@
    1 :> << ARule(4, "THRESHOLD", "NE", 1, 1),
            ARule(5, "STATEFUL", "LE", 2, 0) >>

At(s, v) == [sensor_token |-> s, value |-> v]

(* The readings of the groups of a batch, as phase 1 builds them. *)
Batches ==
    { << << At(0, 5), At(1, 1) >>, << At(0, 9) >> >>,
      << << At(0, 9), At(0, 5), At(1, NaN) >> >>,
      << << At(1, 1) >>, << At(NoSensor, 9), At(1, 2) >> >>,
      << << At(0, NaN) >>, << At(0, 5), At(1, 1) >> >>,
      << << At(0, 9), At(1, 2) >>, << At(0, 6), At(0, 3) >> >> }

MCCalls ==
    { [groups |-> b,
       sensor_sequences |-> build_per_sensor_sequences(b, NumSensors)] : b \in Batches }
=============================================================================
