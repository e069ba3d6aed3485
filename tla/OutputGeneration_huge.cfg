\* Values around the end of the buffer of format_value.
SPECIFICATION OutputSpec
CONSTANTS
    INLINE_CAPACITY = 1
    Objects = {o1}
    Token = {0}
    Value <- MCValues
    ZeroToken = 0
    ZeroValue <- Zero
    MaxAdds = 1
    BufferSize = 64
    NumThreads = 1
    MaxGroups = 1
    Readings <- HugeReadings
    inverse_token_map <- MCInverse
INVARIANT
    KeepsDecimalDigit
