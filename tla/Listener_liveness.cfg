SPECIFICATION FairSpec
CONSTANTS
    Messages = {m1, m2}
    Configs <- LivenessConfigs
    Prefetch = 2
    MayStop = TRUE
    PowLimit = 4
    MaxFaults = 2
    m1 = m1
    m2 = m2
CHECK_DEADLOCK FALSE
PROPERTY AllSettled
PROPERTY StopExits
