\* The timer of TIME against the age of the batch it closes.
CONSTANTS
    MaxTime = 3
    MaxRecords = 3
    Record <- MCRecord
    Inputs <- MCInputs
    Configs <- TimeConfigs
SPECIFICATION FairSpec
PROPERTY
    TimeMeasuresBatchAge
