SPECIFICATION FairSpec
CONSTANTS
    Argvs <- MCArgvs
    Stoi <- MCStoi
    Stod <- MCStod
    Inputs <- MCInputs
    MaxThreads = 4
    SafeReserve = 1000000
    Earlier = Earlier
INVARIANTS
    ErrorKeepsOutputs
    NoHoles
    SuccessIsComplete
    ReleasedOnce
    ArgumentOrderIrrelevant
PROPERTY
    RunEnds
