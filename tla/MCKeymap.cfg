SPECIFICATION Spec
CONSTANTS
    Table <- MCTable
    Key = {1}
    Entry <- MCEntry
    MaxColumns = 2
    NoKey = NoKey
    BadCode = BadCode
INVARIANTS NoImpossibleError ConstantsFilled LastLineWins NothingLeftOver
