SPECIFICATION Spec
CONSTANTS
    Proc = {p}
    Table = {0, 1, 2}
    Key = {0, 1}
    Func = {0, 1}
    Contexts <- MCContexts
    OptionSets <- MCOptionSets
    ArgLists <- MCArgLists
    Code = {"a", "b", "u", "VoidSymbol"}
    Unicode = {"u"}
    TooLarge = TooLarge
    K_HOLE = "VoidSymbol"
    NoMap = NoMap
    Empty = ""
    KernelMaps <- MCKernelMaps
    KernelStrings <- MCKernelStrings
    OldTables = 2
    MaxDiacr = 3
INVARIANTS ModeRestored LoadedOnSuccess
PROPERTY UnicodeTaken
