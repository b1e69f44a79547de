SPECIFICATION FairSpec
CONSTANTS
    Fonts <- MCFonts
    Kind <- MCKind
    Parts <- MCParts
    HasTable = {"half", "rest", "tall"}
    Tall = {"tall"}
    Count <- MCCount
    Commands <- MCCommands
    MaxLevel = 3
    OtherMaps <- MCOtherMaps
INVARIANTS MapFollowsFont LoadedOnSuccess
PROPERTY Terminates
