\* Three threads, files of up to three lines, every division into blocks.
SPECIFICATION InputFairSpec
CONSTANTS
    NL = NL
    CR = CR
    Comma = Comma
    Other = Other
    MaxSize = 4
    MaxLines = 3
    NumThreads = 3
    Inputs <- MCInputs
    Files <- MCFiles
    Markers <- MCMarkers
    Numerals <- MCNumerals
    Sensors <- MCSensors
INVARIANTS
    IndexComplete
    LinesReadBack
    ParseInv
    FileOrder
    RecordsAreTheFile
PROPERTY
    InputReturns
