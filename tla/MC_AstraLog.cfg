\* Two sensors, two threads, inputs of up to five records.
CONSTANTS
    NaN = NaN
    NumSensors = 2
    NumThreads = 2
    MaxTime = 1
    MaxBatches = 5
    SensorRules <- MCSensorRules
    CorrelationRules <- MCCorrelationRules
    Inputs <- MCInputs
    Configs <- MCConfigs
SPECIFICATION FairSpec
INVARIANTS
    CallsWellFormed
    StatisticsMatchFiles
    NominalExcludesAlarmWhenSorted
PROPERTIES
    ImplementsMonitor
    AllReported
