\* Half hours of two ticks around a change of the clocks.
SPECIFICATION FairSpec
CONSTANTS
    HalfHour = 2
    MaxTime = 20
    First = 2
    Zones <- SomeZones
    Offset <- SomeOffset
    Date <- SomeDate
    PulseLogs <- SomePulses
    BillDates <- SomeBills
    Day = 4
    Null = Null
INVARIANTS
    GapsOnlyAtRepeatedHour
    BillsSplitRows
PROPERTIES
    RowsAreRight
    CatchesUp
