CONSTANTS
    a = a
    b = b
    g0 = g0
    g1 = g1
    Names = {a}
    NoName = NoName
    Pools = {p1, p2, p3}
    NoPool = NoPool
    Workers = {w1, w2}
    InitCfg = g0
    Reloads = {g1}
    Order <- SameA
    Fail = 1
    Recover = 1
    FailThreshold <- FailConst
    RecoverThreshold <- RecoverConst
    Strategy <- StratMixed
SYMMETRY Symmetry
SPECIFICATION Spec
INVARIANTS
    PoolMatchesConfig
