\* Five signals in any order, one reset of the board.
SPECIFICATION FairSpec
CONSTANTS
    MaxSignals = 5
    MaxResets = 1
INVARIANTS
    SettledOff
    SettledOn
PROPERTIES
    OffTakesEffect
CHECK_DEADLOCK FALSE
