SPECIFICATION Spec
CONSTANTS
    Threads     = {0}
    Process     = proc
    NoOne       = none
    LogCapacity = 5
    MinFree     = 3
    MaxOps      = 2
    XrefRange   = 100
    MaxEventId  = 8
    MaxIns      = 4
    MaxMacro    = 1
    MaxDumps    = 2
INVARIANTS
    TypeOK
    LogFits
    InstructionsWhole
