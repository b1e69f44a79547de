SPECIFICATION FairSpec
CONSTANTS Timeout = 3 Signals = {"INT", "TERM"}
INVARIANTS ConsoleRestored AlarmIsLate
PROPERTY EndsWithoutInput
