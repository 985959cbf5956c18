SPECIFICATION Spec
CONSTANTS
    Code <- WithFunction
    Entry = 1
    MaxFrames = 4
    Wrap = 3
INVARIANTS
    TypeOK
PROPERTIES
    FaultStops
    ImplementsCode
CHECK_DEADLOCK FALSE
