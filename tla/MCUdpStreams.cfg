CONSTANTS
    Callers = {c1, c2}
    MaxStreams = 2
CHECK_DEADLOCK FALSE
SPECIFICATION FairSpec
INVARIANTS
    TypeOK NoStreamLeak ForwardPumped OnePump
PROPERTIES
    RelayReleased StreamReleased
