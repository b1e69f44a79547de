SPECIFICATION Spec
CONSTANTS
    Len256 = 2
    Len512 = 3
    FontNames = {"a", "b"}
    TextNames = {"t"}
    InitFonts <- MCInitFonts
    InitTexts <- MCInitTexts
    CountMod = 6
    Chunk = 2
    MaxRuns = 4
    MaxFaults = 1
INVARIANTS TablesKept NoPartialFont
PROPERTIES ConsoleShowsTable UnimapReloads
CHECK_DEADLOCK FALSE
