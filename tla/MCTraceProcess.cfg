SPECIFICATION Spec
CONSTANTS
    Pids        = {p1, p2}
    First       = p1
    Hole        = hole
    MaxPrograms = 3
    MaxEvents   = 2
INVARIANTS
    OwnFileIsATrace
PROPERTIES
    WritesAppend
    EventsEnd
    OrphansAreSilent
