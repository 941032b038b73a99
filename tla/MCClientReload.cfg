CONSTANTS
    c1 = c1
    c2 = c2
    Configs = {c1, c2}
    FirstCfg = c1
    Enabled <- WaitedThenSocks
    Reloaders = {hup}
    Main = Main
    MaxGen = 2
    MaxFails = 1
SPECIFICATION FairSpec
INVARIANTS
    TypeOK ConfigAgreement OneGeneration ForwardBinds NoBlackHole
PROPERTIES
     ShutdownExits
