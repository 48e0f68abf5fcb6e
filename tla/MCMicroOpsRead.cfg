SPECIFICATION DecodeSpec
CONSTANTS
    Base      = 128
    TraceWord = 2
    DbWord    = 3
    SizeBytes = 1
    Words     <- SomeWords
    DataSets  <- SomeData
    MaxOps    = 4
INVARIANTS
    DecodesLog
    GroupsAreInstructions
    RoundTripButCalls
