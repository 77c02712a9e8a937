SPECIFICATION Spec
CONSTANTS
    s1 = s1
    s2 = s2
    Procs = {s1, s2}
    Configs <- StopConfigs
    MaxAttempts = 2
    MaxConns = 6
INVARIANT StopFlushes
CHECK_DEADLOCK FALSE
