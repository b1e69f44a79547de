SPECIFICATION FairSpec
CONSTANTS
    Proc = {"p1", "p2"}
    Limit = 4
    LastVt = 4
    Commands <- MCCommands
    Owners <- MCOwners
    TimerId = 0
    MaxSwitches = 1
INVARIANT OwnConsole
PROPERTY SwitchEnds
