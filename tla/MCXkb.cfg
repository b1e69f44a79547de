SPECIFICATION Spec
CONSTANTS
    Key <- MCKey
    Inputs <- MCInputs
    Byte <- MCByte
    MaxDiacr = 2
    MaxDown = 3
INVARIANTS NoStuckModifier TypesTheSame ComposeKeepsBest
