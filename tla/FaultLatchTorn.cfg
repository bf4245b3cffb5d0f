SPECIFICATION Spec
CONSTANTS
    Main = "main"
    Background = {"watchdog", "shell"}
    RealTime = {"pid", "output"}
    Operators = {"shell"}
    Prio <- MCPrio
    FaultBits <- MCFaultBits
    DeviceInit = "device_init"
    Restored = "restored"
    Masks <- MCMasks
    TripMod = 3
    NoCrc = NoCrc
INVARIANTS
    TrippedRecordIntact
