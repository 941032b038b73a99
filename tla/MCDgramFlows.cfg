CONSTANTS
    Keys = {k1, k2}
    Callers = {c1, c2}
    Sessions = {s1}
    Streams = {x1, x2}
    MaxID = 2
    MaxNet = 1
    None = None
CHECK_DEADLOCK FALSE
SPECIFICATION Spec
INVARIANTS
    TypeOK FlowIdentity FlowIsolation CtrlTracked NoSocketLeak
SYMMETRY Symmetry
