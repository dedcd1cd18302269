SPECIFICATION Spec
CONSTANTS
    Thread = {t1, t2}
    Obj = {1, 2}
    Var = {v1, v2}
    InOrder = TRUE
    MaxCalls = 2
    Null = Null
    None = None
INVARIANTS
    LocksAreProxies
    NoLostUpdate
    NoDeadlock
