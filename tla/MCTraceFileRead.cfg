SPECIFICATION Spec
CONSTANTS
    SizeField   = 4
    BodySizes   = {1, 3}
    Interleaved = FALSE
    MaxEvents   = 3
INVARIANTS
    YieldsInOrder
    ReadsWhatIsThere
    ClosedTraceReads
