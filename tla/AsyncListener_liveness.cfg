SPECIFICATION FairSpec
CONSTANTS
    m1 = m1
    m2 = m2
    Messages = {m1, m2}
    Configs <- LivenessConfigs
    MaxConcurrency = 1
    MaxStarts = 1
    MaxStops = 1
    MayOverlap = TRUE
    MaxTasks = 2
    MaxFaults = 1
    MaxErrors = 1
PROPERTY StopReturns
PROPERTY AllSettled
CHECK_DEADLOCK FALSE
