SPECIFICATION Spec
CONSTANTS
    Threads     = {0, 1}
    Process     = proc
    NoOne       = none
    LogCapacity = 1
    MinFree     = 1
    MaxOps      = 0
    XrefRange   = 100
    MaxEventId  = 100
    MaxIns      = 0
    MaxMacro    = 1
    MaxDumps    = 1
PROPERTIES
    IsEventStream
    WritesComplete
    TraceCloses
