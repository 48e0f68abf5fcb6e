SPECIFICATION Spec
CONSTANTS
    Threads    = {t1, t2}
    MainThread = t1
    Addrs      = {a1, a2}
    NULL       = null
    NoChunk    = nochunk
    Sizes      = {1, 2}
    Calls      = {"malloc", "calloc", "realloc", "free"}
    MaxCalls   = 4
SYMMETRY Symmetry
INVARIANTS
    EventsAlternate
    HeldIsAnnounced
    ToolAgrees
