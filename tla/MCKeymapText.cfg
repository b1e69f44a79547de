SPECIFICATION TextFairSpec
CONSTANTS
    File <- MCFile
    Content <- MCContent
    Lines <- MCLines
    Missing = "nowhere"
    MaxDepth = 4
    MaxParses = 3
    GoesOn = FALSE
    syms <- MCsyms
    charsets <- MCcharsets
    try_charset <- MCtry
    synonyms <- MCsynonyms
    Text <- MCText
    Modes = {TRUE, FALSE}
INVARIANTS ScannerOnStack ClosedByOwner LinesInPlace NamesRoundTrip
PROPERTY ParseEnds
