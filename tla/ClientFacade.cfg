SPECIFICATION Spec
CONSTANTS
    t1 = t1
    t2 = t2
    orders = orders
    logs = logs
    typo = typo
    Threads = {t1, t2}
    Closers = {t1}
    Types = {orders, logs, typo}
    KnownTypes = {orders, logs}
    MaxPools = 3
    MaxCalls = 3
    MaxFailures = 1
INVARIANTS
    TypeOK
    CloseCovers
    AbortKeeps
    
SYMMETRY Symmetry
CHECK_DEADLOCK FALSE
