\* A stop that is repeated after the next start.
SPECIFICATION Spec
CONSTANTS
    ChargePoint = {cp1}
    ConnectorIds = {1}
    MaxTransactions = 2
    Stamps = {s1}
    Statuses = {}
    Measurements = {}
    NaN = NaN
    Details = {}
    Values = {}
    StopsRepeat = TRUE
    Null = Null
INVARIANTS
    OngoingTransactionIsCurrent
