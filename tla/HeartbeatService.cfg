SPECIFICATION FairSpec
CONSTANTS
    app = app  w1 = w1
    App = {app}
    Writer = {w1}
    Modes = {"work", "companion"}
    MaxLoops = 2
    MaxRuns = 1
    MaxEdits = 1
    MaxCommands = 1
    MaxFaults = 1
    MaxCrashes = 1
    EditPhases <- Running
    Configs <- Turns
INVARIANTS
    LoopsInv
    LoopsFollowConfig
    ActiveHasRun
PROPERTIES
    ConfigFollowsFile
CHECK_DEADLOCK FALSE
