\* A timestamp that comes back after another.
CONSTANTS
    NaN = NaN
    NumSensors = 2
    NumThreads = 2
    MaxTime = 0
    MaxBatches = 5
    SensorRules <- MCSensorRules
    CorrelationRules <- MCCorrelationRules
    Inputs <- TimestampComesBack
    Configs <- OneBatch
SPECIFICATION FairSpec
INVARIANT
    NominalExcludesAlarm
