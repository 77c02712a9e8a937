SPECIFICATION Spec
CONSTANTS
    Messages = {m1, m2}
    Configs <- StopConfigs
    Prefetch = 2
    MayStop = TRUE
    PowLimit = 4
    MaxFaults = 0
    m1 = m1
    m2 = m2
CHECK_DEADLOCK FALSE
INVARIANT StopCloses
