SPECIFICATION Spec
CONSTANTS
    TimerPeriod = 5
    PidLate = 1
    OutMin = 1
    OutMax = 1
    WdMin = 1
    WdMax = 1
    OutputPidLimit = 10
    StaleLimit <- MCStaleLimit
    LateSets = {{"pid", "watchdog"}, {"timer"}, {"output"}}
    Horizon = 14
INVARIANTS
    TypeOK
    NoNuisanceTrip
    WatchdogInTime
    TrainEndsInTime
    HotEndsInTime
