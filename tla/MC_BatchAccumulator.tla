------------------------ MODULE MC_BatchAccumulator ------------------------
(***************************************************************************)
(* All inputs of up to four records over two timestamps, so runs of every  *)
(* length and timestamps that come back, and thresholds below, at and      *)
(* above the lengths of the runs and of the whole input.                   *)
(***************************************************************************)
EXTENDS BatchAccumulator

CONSTANTS MaxRecords

MCRecord == [timestamp : {1, 2}]

MCInputs == UNION {[1 .. n -> MCRecord] : n \in 0 .. MaxRecords}

Count(n) == [strategy |-> "COUNT", count_threshold |-> n,
             time_threshold_ms |-> 0, write_audit_files |-> TRUE]
Time(n)  == [strategy |-> "TIME", count_threshold |-> 0,
             time_threshold_ms |-> n, write_audit_files |-> FALSE]

MCConfigs == {Count(n) : n \in {0, 1, 2, 3, 9}} \cup {Time(n) : n \in {0, 1, 2}}

TimeConfigs == {Time(2)}
=============================================================================
