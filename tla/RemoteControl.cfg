\* Two charge points with one connector each, two HTTP requests at a time.
SPECIFICATION RCSpec
CONSTANTS
    ChargePoint = {cp1, cp2}
    ConnectorIds = {1}
    MaxTransactions = 2
    Stamps = {s1}
    Statuses = {}
    Measurements = {}
    NaN = NaN
    Details = {}
    Values = {}
    StopsRepeat = FALSE
    Clients = {u1, u2}
    Null = Null
INVARIANTS
    RCTypeOK
    StartFindsOnlyNewer
    StopMeansWhatWasSeen
PROPERTIES
    EveryCommandSettles
