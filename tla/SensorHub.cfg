\* Two nodes whose lists of sensors change, two connections.
SPECIFICATION FairSpec
CONSTANTS
    Nodes = {"pump-a", "pump-b"}
    Flows = {"f", "g"}
    Invalid = "invalid"
    Specs <- SpecsDef
    NameForNode <- NameForNodeDef
    MaxHellos = 2
    MaxConns = 2
    MaxReports = 1
INVARIANTS
    SensorsSubscribed
    MetricsAreCurrent
    PanicOnlyOnSharedLabels
PROPERTIES
    ReportsToCurrentSensors
    EventuallySubscribed
CHECK_DEADLOCK FALSE
