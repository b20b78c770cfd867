\* Two hours, two meters, every fetch and every interruption.
SPECIFICATION FairSpec
CONSTANTS
    a = a
    b = b
    Nodes = {a, b}
    Hours = {1, 2}
    Logs <- SomeLogs
    LongWrap = 16
    PageLines = 1
    Null = Null
INVARIANTS
    PassedLinesRecorded
    PointsAsUninterrupted
    SeriesNeverDrops
PROPERTIES
    EveryReportRecorded
