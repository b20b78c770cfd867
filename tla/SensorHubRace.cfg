\* Hellos that meet resubscriptions.
SPECIFICATION Spec
CONSTANTS
    Nodes = {"pump-a", "pump-b"}
    Flows = {"f", "g"}
    Invalid = "invalid"
    Specs <- SpecsDef
    NameForNode <- NameForNodeDef
    MaxHellos = 2
    MaxConns = 2
    MaxReports = 1
INVARIANTS
    OverlapIsHarmless
CHECK_DEADLOCK FALSE
