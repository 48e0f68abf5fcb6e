SPECIFICATION Spec
CONSTANTS
    Threads      = {t1, t2}
    Program      <- MCProgram
    Addrs        = {a1, a2}
    Null         = null
    MaxWriteSize = 32
    MinFree      = 512
    MaxPasses    = 3
SYMMETRY Symmetry
INVARIANTS
    GroupPerPass
    WriteTold
    GroupFits
