SPECIFICATION FairSpec
CONSTANTS
    s1 = s1
    s2 = s2
    Procs = {s1, s2}
    Configs <- AllConfigs
    MaxAttempts = 2
    MaxConns = 6
INVARIANTS
    TypeOK
    SentIsPublished
    PublishedOnce
PROPERTIES
    NoForgottenConfirm
    CallsReturn
    StopReturns
    PendingFlushed
CHECK_DEADLOCK FALSE
