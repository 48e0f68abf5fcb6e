SPECIFICATION Spec
CONSTANTS
    Threads     = {t1, t2}
    Nobody      = nobody
    a1          = a1
    a2          = a2
    Addrs       = {a1, a2}
    Nowhere     = nowhere
    Spans       <- MCSpans
    LogCapacity = 1
    MaxLoads    = 2
    MaxIns      = 3
SYMMETRY Symmetry
INVARIANTS
    XrefsDateTheCode
    XrefsDateTheImage
    ModuleMapTrue
