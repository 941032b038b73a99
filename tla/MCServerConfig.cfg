CONSTANTS
    k1 = k1
    n1 = n1
    Keys = {k1, k2}
    Mark = Mark
    Nets = {n1, n2}
    Ports6 = {q1, q2}
    NoPort = NoPort
    Boot <- BootConfig
    Invalid = Invalid
    Cut = Cut
    NoFile = NoFile
    Requests = {hup}
    Editors = {e1, e2}
    Main = Main
    NRules = 1
    MaxEdits = 3
CHECK_DEADLOCK FALSE
SYMMETRY Symmetry
SPECIFICATION Spec
INVARIANTS
    TypeOK ListenerMatchesConfig FirewallFollowsConfig MarkNeverSaved RulesRemoved
