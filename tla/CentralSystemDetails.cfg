\* One charge point, all callbacks, stops not repeated: meter values, one of
\* which cannot be encoded, dumps that lag behind, and restored entries.
SPECIFICATION FairSpec
CONSTANTS
    ChargePoint = {cp1}
    ConnectorIds = {0, 1}
    MaxTransactions = 2
    Stamps = {s1}
    Statuses = {st}
    Measurements = {m1, NaN}
    NaN = NaN
    Details = {"BootData"}
    Values = {v1}
    StopsRepeat = FALSE
    Null = Null
INVARIANTS
    BusyConnectorHasOpenTransaction
    OngoingTransactionIsCurrent
PROPERTIES
    RestoredEntryKept
    EndReachesStore
