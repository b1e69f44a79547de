SPECIFICATION FairLockSpec
CONSTANTS VT = {1, 2, 3} Ours = 1
INVARIANTS LockHolds ConsoleBack SignalsHandled
PROPERTIES EndsByPassword RequestAnswered
