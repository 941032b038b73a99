CONSTANTS
    a = a
    b = b
    g0 = g0
    g1 = g1
    Names = {a, b}
    NoName = NoName
    Pools = {p1, p2, p3, p4}
    NoPool = NoPool
    Workers = {w1}
    InitCfg = g0
    Reloads = {g1}
    Order <- DropA
    Fail = 1
    Recover = 1
    FailThreshold <- FailConst
    RecoverThreshold <- RecoverConst
    Strategy <- StratMixed
SYMMETRY Symmetry
SPECIFICATION Spec
INVARIANTS
    Ownership RouteNeverNil RouteHealthy
PROPERTIES
    ImplementsRegistry StickyActive
