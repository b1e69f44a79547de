SPECIFICATION FairSpec
CONSTANTS
    Dir = {"keymaps", "i386", "qwerty", "include", "cwd", "mine"}
    NoDir = "nodir"
    Name = {"", "i386", "include", "link", "qwerty"}
    Subdirs <- MCSubdirs
    Root = "keymaps"
    Cwd = "cwd"
    FileSets <- MCFileSets
    Requests <- MCRequests
    Exts <- MCExts
    IgnoreUtils = FALSE
INVARIANTS FirstInOrder StreamsOwned
PROPERTY SearchEnds
