\* Two violations with up to three pairs, room for one inline; two threads.
SPECIFICATION OutputSpec
CONSTANTS
    INLINE_CAPACITY = 1
    Objects = {o1, o2}
    Token = {0, 1}
    Value <- MCValues
    ZeroToken = 0
    ZeroValue <- Zero
    MaxAdds = 2
    BufferSize = 64
    NumThreads = 2
    MaxGroups = 2
    Readings <- MCReadings
    inverse_token_map <- MCInverse
INVARIANTS
    ReadsBack
    FilesShowTheBatch
