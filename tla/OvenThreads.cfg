SPECIFICATION Spec
CONSTANTS
    OutputPidLimit = 1
    StaleLimit <- MCStaleLimit
    HangSets = {}
    Inputs = {"operator", "pid_faults"}
    PulseCap = 3
INVARIANTS
    TypeOK
    LatchesAgree
    OneStrayHealthPulse
    KeepaliveNeedsPid
PROPERTIES
    ImplementsOvenState
