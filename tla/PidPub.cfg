SPECIFICATION Spec
CONSTANTS
    Fields = {"cycle", "delta_ms", "diag"}
    Tries = 3
    HeaderEvery = 2
    MaxCycles = 5
CHECK_DEADLOCK FALSE
INVARIANTS
    TypeOK
    NoLostWakeup
PROPERTIES
    ImplementsMailbox
    LastCycleShown
