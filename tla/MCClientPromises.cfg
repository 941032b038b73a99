CONSTANTS
    c1 = c1
    c2 = c2
    Configs = {c1, c2}
    FirstCfg = c1
    Enabled <- AllThenNoRange
    Reloaders = {hup}
    Main = Main
    MaxGen = 2
    MaxFails = 0
SPECIFICATION Spec
INVARIANT ReloadKeepsServing
