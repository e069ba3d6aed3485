\* Up to four records; the clock advances at most three times.
CONSTANTS
    MaxTime = 3
    MaxRecords = 4
    Record <- MCRecord
    Inputs <- MCInputs
    Configs <- MCConfigs
SPECIFICATION FairSpec
INVARIANTS
    InOrderExactlyOnce
    RunsIntact
    CountMinimal
    AuditMatches
PROPERTIES
    TimerSpacing
    AllProcessed
    ImplementsStream
