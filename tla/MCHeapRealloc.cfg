SPECIFICATION Spec
CONSTANTS
    Threads    = {t1}
    MainThread = t1
    Addrs      = {a1, a2}
    NULL       = null
    NoChunk    = nochunk
    Sizes      = {1}
    Calls      = {"malloc", "realloc"}
    MaxCalls   = 3
SYMMETRY Symmetry
INVARIANTS
    LeaksAreAllocated
