\* A correlation rule whose sub-rules include a correlation rule.
CONSTANTS
    NaN = NaN
    NumSensors = 2
    NumThreads = 2
    MaxTime = 0
    MaxBatches = 5
    SensorRules <- MCSensorRules
    CorrelationRules <- NestedCorrelationRules
    Inputs <- CorrelatedAlarms
    Configs <- OneBatch
SPECIFICATION FairSpec
INVARIANT
    CorrelationComplete
