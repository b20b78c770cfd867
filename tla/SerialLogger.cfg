\* Every cut of every input into lines and reads, over two hours of two
\* seconds, with a buffer of 3 bytes.
SPECIFICATION FairSpec
CONSTANTS
    BufSize = 3
    StreamLen = 5
    Kinds = {"FP_PULSE", "LDR", "other"}
    HourLen = 2
    MaxTime = 2
INVARIANTS
    TypeOK
    OnlyWholeLines
    ShortLinesLogged
    AbortsOnlyAtLimit
    LineInItsHour
    MetricsFollowLog
PROPERTIES
    EveryLinePassed
CHECK_DEADLOCK FALSE
