\* Two rules with one rule_id that fire at one timestamp.
CONSTANTS
    NaN = NaN
    NumSensors = 2
    NumThreads = 2
    MaxTime = 0
    MaxBatches = 5
    SensorRules <- DuplicateSensorRules
    CorrelationRules <- MCCorrelationRules
    Inputs <- TwoAlarms
    Configs <- OneBatch
SPECIFICATION FairSpec
PROPERTY
    ImplementsMonitor
