SPECIFICATION Spec
CONSTANTS
    Messages = {m1}
    Configs <- DirectConfigs
    Prefetch = 2
    MayStop = FALSE
    PowLimit = 4
    MaxFaults = 1
    m1 = m1
CHECK_DEADLOCK FALSE
PROPERTY NoHotLoop
