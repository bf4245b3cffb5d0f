SPECIFICATION FairSpec
CONSTANTS
    OutputPidLimit = 0
    StaleLimit <- MCNoSlack
    HangSets = {{"pid"}, {"output"}, {"timer", "watchdog"}}
    Inputs = {}
    PulseCap = 0
PROPERTIES
    OutputCutsOff
    WatchdogCutsOff
    HotEndsOff
