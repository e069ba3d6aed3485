\* Two sensors, two threads, three consecutive batches out of five.
CONSTANTS
    NaN = NaN
    NumSensors = 2
    NumThreads = 2
    MaxCalls = 3
    SensorRules <- MCSensorRules
    Calls <- MCCalls
SPECIFICATION FairSpec
INVARIANTS
    NoFalseAlarm
    NoMissedAlarm
    AlarmsInReadingOrder
    StateCarriesOver
    IInv
PROPERTY
    CallReturns
