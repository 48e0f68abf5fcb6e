SPECIFICATION Spec
CONSTANTS
    Maps     <- MCMaps
    Fragment = 9
    MaxAlloc = 2
    MaxLines = 3
INVARIANTS
    ReadsAPrefix
    WritableIsDumped
PROPERTIES
    TraceCloses
