SPECIFICATION Spec
CONSTANTS
    Starters = {owner, other}
    Stoppers = {owner, other}
    Publishers = {pub}
    IoThreads = {t1, t2}
    QueueMax = 2
    Heartbeat = TRUE
    JoinMayTimeOut = TRUE
    PowLimit = 2
    MaxMsgs = 2
    MaxFaults = 2
    owner = owner
    other = other
    pub = pub
    t1 = t1
    t2 = t2
    NoThread = NoThread
SYMMETRY Symmetry
CHECK_DEADLOCK FALSE
INVARIANT TypeOK
INVARIANT Accounted
INVARIANT AtMostOnce
