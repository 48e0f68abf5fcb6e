SPECIFICATION Spec
CONSTANTS
    Threads  = {w, r1, r2}
    Owner    = w
    NoThread = none
    WordMax  = 2
    MaxIncs  = 7
INVARIANTS
    NoTornRead
PROPERTIES
    ReadsNeverGoBack
    IsAtomicCounter
    LockReleased
