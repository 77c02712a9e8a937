SPECIFICATION Spec
CONSTANTS
    Messages = {m1, m2}
    Configs <- SafetyConfigs
    Prefetch = 2
    MayStop = TRUE
    PowLimit = 2
    MaxFaults = 2
    m1 = m1
    m2 = m2
SYMMETRY Symmetry
CHECK_DEADLOCK FALSE
INVARIANT TypeOK
INVARIANT AtLeastOnce
INVARIANT AtMostOnce
INVARIANT SettledOnce
INVARIANT PermitsBalance
INVARIANT WorkersStayOff
PROPERTY OnlyWrapperRequeues
PROPERTY ContractSpec
