CONSTANTS
    a = a
    b = b
    g0 = g0
    g1 = g1
    Names = {a}
    NoName = NoName
    Pools = {p1, p2, p3}
    NoPool = NoPool
    Workers = {w1, w2}
    InitCfg = g0
    Reloads = {}
    Order <- OneName
    Fail = 2
    Recover = 2
    FailThreshold <- FailConst
    RecoverThreshold <- RecoverConst
    Strategy <- StratMixed
SPECIFICATION FairSpec
INVARIANTS
    TypeOK SingleReconnect
PROPERTIES
    HealthFollowsPings SelfHealing ShutdownQuiesces CloseReleasesPools
