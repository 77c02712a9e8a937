SPECIFICATION FairSpec
CONSTANTS
    Starters = {owner}
    Stoppers = {owner, other}
    Publishers = {pub}
    IoThreads = {t1, t2}
    QueueMax = 1
    Heartbeat = FALSE
    JoinMayTimeOut = TRUE
    PowLimit = 3
    MaxMsgs = 3
    MaxFaults = 2
    owner = owner
    other = other
    pub = pub
    t1 = t1
    t2 = t2
    NoThread = NoThread
CHECK_DEADLOCK FALSE
INVARIANT OneIoThread
INVARIANT OneConnection
INVARIANT LateBound
PROPERTY PipeSpec
PROPERTY StopTerminates
PROPERTY AcceptedIsTried
PROPERTY PutReturns
