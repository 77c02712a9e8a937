SPECIFICATION Spec
CONSTANTS
    Starters = {owner, other}
    Stoppers = {}
    Publishers = {}
    IoThreads = {t1, t2}
    QueueMax = 0
    Heartbeat = TRUE
    JoinMayTimeOut = FALSE
    PowLimit = 2
    MaxMsgs = 0
    MaxFaults = 0
    owner = owner
    other = other
    t1 = t1
    t2 = t2
    NoThread = NoThread
CHECK_DEADLOCK FALSE
INVARIANT OneIoThread
