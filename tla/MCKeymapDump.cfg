SPECIFICATION Spec
CONSTANTS
    Table <- MCTable
    Key = {0, 1, 2}
    Entry <- MCEntry
    MaxColumns = 2
    NoKey = NoKey
    BadCode = BadCode
    Kernels <- MCKernels
    Shapes = {"default", "full", "separate", "until_hole"}
    Types = {0, 1, 2}
INVARIANTS DumpLoads CanonicalRoundTrip ShorthandKeepsKeys
