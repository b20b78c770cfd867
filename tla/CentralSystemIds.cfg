\* Two charge points, one connector each: ids across reconnections and restarts.
SPECIFICATION Spec
CONSTANTS
    ChargePoint = {cp1, cp2}
    ConnectorIds = {1}
    MaxTransactions = 3
    Stamps = {s1, s2}
    Statuses = {}
    Measurements = {}
    NaN = NaN
    Details = {}
    Values = {}
    StopsRepeat = TRUE
    Null = Null
SYMMETRY Symmetry
INVARIANTS
    StoreAgreesWithMemory
PROPERTIES
    NoTakeover
    ImplementsLedger
