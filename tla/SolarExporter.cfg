\* One scrape after the other, disturbed by others and by late answers.
SPECIFICATION FairSpec
CONSTANTS
    Metrics <- Table
    Registers <- TableRegisters
    Readings <- SomeReadings
    MaxLate = 1
    None = None
INVARIANTS
    UpMeansRead
    ValuesAreTheirOwn
PROPERTIES
    EveryScrapeReports
