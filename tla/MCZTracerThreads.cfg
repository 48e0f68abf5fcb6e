SPECIFICATION Spec
CONSTANTS
    Threads     = {0, 1}
    Process     = proc
    NoOne       = none
    LogCapacity = 1
    MinFree     = 1
    MaxOps      = 0
    XrefRange   = 100
    MaxEventId  = 100
    MaxIns      = 2
    MaxMacro    = 0
    MaxDumps    = 0
INVARIANTS
    OneWriter
    NumberedInOrder
    NoDanglingLog
    LockOrder
    XrefsCoverLifetimes
    XrefsMonotone
    XrefsPlaceEvents
    BlocksTile
