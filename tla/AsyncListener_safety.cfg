SPECIFICATION Spec
CONSTANTS
    m1 = m1
    m2 = m2
    Messages = {m1, m2}
    Configs <- AllConfigs
    MaxConcurrency = 1
    MaxStarts = 2
    MaxStops = 1
    MayOverlap = FALSE
    MaxTasks = 3
    MaxFaults = 1
    MaxErrors = 1
INVARIANTS
    TypeOK
    AtLeastOnce
    AtMostOnce
    BoundedUntilRestart
    PoisonLeaves
    StopCloses
    NoHandlerSurvives
SYMMETRY Symmetry
CHECK_DEADLOCK FALSE
