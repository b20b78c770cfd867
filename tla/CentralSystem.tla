--------------------------- MODULE CentralSystem ---------------------------
(***************************************************************************)
(* The OCPP 1.6 central system of ocpp/: the in-memory state that the      *)
(* protocol callbacks of handler.go maintain for every charge point, the   *)
(* sqlite row into which store.go dumps it every 30 seconds and from which *)
(* it is restored when the process starts, and the connection handlers of  *)
(* main.go.                                                                *)
(*                                                                         *)
(* Each callback is one atomic step here: handler.go takes no lock, so     *)
(* this module states what the callbacks guarantee when two of them do not *)
(* overlap.  The charge points are the environment.  The library runs each *)
(* request in a goroutine of its own and a charge point repeats a          *)
(* transaction message whose answer it did not get, so requests arrive in  *)
(* any order, late, and more than once.                                    *)
(*                                                                         *)
(* A Go map is a function on all keys with Null for "no such key"; Null is *)
(* also the nil pointer, the empty status and the missing database row.    *)
(* The key of a transaction in Transactions is its ID field.               *)
(***************************************************************************)
EXTENDS Integers

CONSTANTS
    ChargePoint,      \* the charge points that may ever connect
    ConnectorIds,     \* connector numbers; 0 stands for the whole charge point
    MaxTransactions,  \* bound: transaction ids are below this
    Stamps,           \* the (id tag, time, meter) data of a start or a stop
    Statuses,         \* connector statuses
    Measurements,     \* contents of a Measurement, NaN among them
    NaN,              \* a measurement with a field JSON cannot encode
    Details,          \* the plain fields of ChargePointState that are tracked
    Values,           \* the values of those fields
    StopsRepeat,      \* charge points repeat a StopTransaction that was handled
    Null

DetailFields ==
    {"BootData", "Status", "DiagnosticsStatus", "FirmwareStatus", "ErrorCode", "ConfigKeys"}

TransactionIds == 0 .. MaxTransactions - 1

\* Measurement is abstracted to a value; handler.go parses the fields.
TransactionInfo ==
    [ConnectorId : ConnectorIds, Start : Stamps, End : Stamps \cup {Null},
     LastMeasurement : Measurements \cup {Null}]

ConnectorInfo ==
    [Status : Statuses \cup {Null}, CurrentTransaction : TransactionIds \cup {-1},
     LastMeasurement : Measurements \cup {Null}]

ChargePointState ==
    [Connectors : [ConnectorIds -> ConnectorInfo \cup {Null}],
     Transactions : [TransactionIds -> TransactionInfo \cup {Null}],
     Details : [Details -> Values \cup {Null}]]

\* What CentralSystemHandler.chargePoints, and so its dump, may hold.
Snapshots == [ChargePoint -> ChargePointState \cup {Null}]

ASSUME BoundsAssumption ==
    MaxTransactions \in Nat /\ ConnectorIds \subseteq Nat

ASSUME RepeatAssumption == StopsRepeat \in BOOLEAN

ASSUME DetailsAssumption == Details \subseteq DetailFields

ASSUME NullAssumption ==
    /\ Null \notin Stamps \cup Statuses \cup Measurements \cup Values
    /\ Null \notin TransactionInfo
    /\ Null \notin ConnectorInfo
    /\ Null \notin ChargePointState
    /\ Null \notin Snapshots

VARIABLES
    chargePoints,       \* handler.chargePoints
    nextTransactionId,  \* the package variable of handler.go
    db,                 \* the 'chargePoints' row of the state table
    running,            \* the process is up
    connected,          \* charge points whose connection handler has run
    configPending       \* connected charge points with GetConfiguration unanswered

vars == <<chargePoints, nextTransactionId, db, running, connected, configPending>>

NoChargePoints == [cp \in ChargePoint |-> Null]

Init ==
    /\ chargePoints = NoChargePoints
    /\ nextTransactionId = 0
    /\ db = Null
    /\ running = TRUE
    /\ connected = {}
    /\ configPending = {}

-----------------------------------------------------------------------------
(* Reading and building the handler's state *)

Known(cp) == chargePoints[cp] # Null

\* Does this dump (or the memory itself) hold transaction t of cp?
Recorded(s, cp, t) == s # Null /\ s[cp] # Null /\ s[cp].Transactions[t] # Null

hasTransactionEnded(ti) == ti.End # Null

hasTransactionInProgress(ci) == ci.CurrentTransaction >= 0

\* Faulty variant: the Go zero value, which is a valid transaction id.
NewConnectorZeroValue ==
    [Status |-> Null, CurrentTransaction |-> 0, LastMeasurement |-> Null]

NewConnector ==
    [Status |-> Null, CurrentTransaction |-> -1, LastMeasurement |-> Null]

getConnector(info, c) ==
    IF info.Connectors[c] = Null THEN NewConnector ELSE info.Connectors[c]

WithConnectorInfo(info, c, ci) == [info EXCEPT !.Connectors[c] = ci]

WithDetail(info, d, v) ==
    [info EXCEPT !.Details = [x \in Details |-> IF x = d THEN v ELSE info.Details[x]]]

SetInfo(cp, info) == chargePoints' = [chargePoints EXCEPT ![cp] = info]

\* A request can run while its charge point is connected, or late, after the
\* disconnection has removed the entry.
Deliverable(cp) == running /\ (cp \in connected \/ ~Known(cp))

-----------------------------------------------------------------------------
(* Connections, main.go *)

NewChargePointState ==
    [Connectors |-> [c \in ConnectorIds |-> Null],
     Transactions |-> [t \in TransactionIds |-> Null],
     Details |-> [d \in Details |-> Null]]

\* Faulty variant: a reconnection starts from an empty entry.
NewChargePointForgets(cp) ==
    /\ running /\ cp \notin connected
    /\ SetInfo(cp, NewChargePointState)
    /\ connected' = connected \cup {cp}
    /\ configPending' = configPending \cup {cp}
    /\ UNCHANGED <<nextTransactionId, db, running>>

NewChargePoint(cp) ==
    /\ running /\ cp \notin connected
    /\ \/ Known(cp) /\ UNCHANGED chargePoints
       \/ ~Known(cp) /\ SetInfo(cp, NewChargePointState)
    /\ connected' = connected \cup {cp}
    /\ configPending' = configPending \cup {cp}
    /\ UNCHANGED <<nextTransactionId, db, running>>

\* The library fails the requests that wait for an answer before it calls
\* the handler; for GetConfiguration that is the error path of OnConfig.
ChargePointDisconnected(cp) ==
    /\ running /\ cp \in connected
    /\ SetInfo(cp, Null)
    /\ connected' = connected \ {cp}
    /\ configPending' = configPending \ {cp}
    /\ UNCHANGED <<nextTransactionId, db, running>>

-----------------------------------------------------------------------------
(* Protocol callbacks, handler.go *)

\* Authorize, DataTransfer and Heartbeat are accepted and change nothing.
OnAuthorize(cp) == Deliverable(cp) /\ UNCHANGED vars
OnDataTransfer(cp) == Deliverable(cp) /\ UNCHANGED vars
OnHeartbeat(cp) == Deliverable(cp) /\ UNCHANGED vars

OnBootNotification(cp, v) ==
    /\ Deliverable(cp)
    /\ \/ ~Known(cp) /\ UNCHANGED chargePoints   \* a warning; accepted all the same
       \/ Known(cp) /\ SetInfo(cp, WithDetail(chargePoints[cp], "BootData", v))
    /\ UNCHANGED <<nextTransactionId, db, running, connected, configPending>>

OnDiagnosticsStatusNotification(cp, v) ==
    /\ Deliverable(cp)
    /\ \/ ~Known(cp) /\ UNCHANGED chargePoints
       \/ Known(cp) /\ SetInfo(cp, WithDetail(chargePoints[cp], "DiagnosticsStatus", v))
    /\ UNCHANGED <<nextTransactionId, db, running, connected, configPending>>

OnFirmwareStatusNotification(cp, v) ==
    /\ Deliverable(cp)
    /\ \/ ~Known(cp) /\ UNCHANGED chargePoints
       \/ Known(cp) /\ SetInfo(cp, WithDetail(chargePoints[cp], "FirmwareStatus", v))
    /\ UNCHANGED <<nextTransactionId, db, running, connected, configPending>>

\* The answer to GetConfiguration: an error or an unknown charge point is logged.
OnConfig(cp, v) ==
    /\ running /\ cp \in configPending
    /\ configPending' = configPending \ {cp}
    /\ \/ UNCHANGED chargePoints                 \* err # nil
       \/ Known(cp) /\ SetInfo(cp, WithDetail(chargePoints[cp], "ConfigKeys", v))
    /\ UNCHANGED <<nextTransactionId, db, running, connected>>

\* A notification about a connector: ConnectorId > 0.
ConnectorStatus(cp, c, s, v) ==
    LET info == WithDetail(chargePoints[cp], "ErrorCode", v)
        ci   == getConnector(info, c)
    IN  SetInfo(cp, WithConnectorInfo(info, c, [ci EXCEPT !.Status = s]))

OnStatusNotification(cp, c, s, v) ==
    /\ Deliverable(cp)
    /\ \/ ~Known(cp) /\ UNCHANGED chargePoints
       \/ Known(cp) /\ c > 0 /\ ConnectorStatus(cp, c, s, v)
    /\ UNCHANGED <<nextTransactionId, db, running, connected, configPending>>

\* A notification about the charge point itself: ConnectorId = 0.
OnOwnStatusNotification(cp, v, e) ==
    /\ Deliverable(cp) /\ Known(cp)
    /\ SetInfo(cp, WithDetail(WithDetail(chargePoints[cp], "ErrorCode", e), "Status", v))
    /\ UNCHANGED <<nextTransactionId, db, running, connected, configPending>>

\* The connector takes the measurement; so does the transaction the request
\* names, if it is recorded, whatever its connector and even when it ended.
processMeterValues(info, c, t, m) ==
    LET ci  == [getConnector(info, c) EXCEPT !.LastMeasurement = m]
        inf == WithConnectorInfo(info, c, ci)
    IN  IF inf.Transactions[t] = Null THEN inf
        ELSE [inf EXCEPT !.Transactions[t].LastMeasurement = m]

OnMeterValues(cp, c, t, m) ==
    /\ Deliverable(cp)
    /\ \/ ~Known(cp) /\ UNCHANGED chargePoints
       \/ Known(cp) /\ SetInfo(cp, processMeterValues(chargePoints[cp], c, t, m))
    /\ UNCHANGED <<nextTransactionId, db, running, connected, configPending>>

StartedTransaction(c, s) ==
    [ConnectorId |-> c, Start |-> s, End |-> Null, LastMeasurement |-> Null]

\* Faulty variant: no check that the connector is free.
StartUnguarded(cp, c, s) ==
    /\ Deliverable(cp) /\ Known(cp)
    /\ nextTransactionId < MaxTransactions
    /\ LET t    == nextTransactionId
           info == chargePoints[cp]
           ci   == [getConnector(info, c) EXCEPT !.CurrentTransaction = t]
       IN  SetInfo(cp, [WithConnectorInfo(info, c, ci)
                          EXCEPT !.Transactions[t] = StartedTransaction(c, s)])
    /\ nextTransactionId' = nextTransactionId + 1
    /\ UNCHANGED <<db, running, connected, configPending>>

\* The bound on nextTransactionId is the only guard that is not in the code.
OnStartTransaction(cp, c, s) ==
    /\ Deliverable(cp) /\ Known(cp)
    /\ ~hasTransactionInProgress(getConnector(chargePoints[cp], c))
    /\ nextTransactionId < MaxTransactions
    /\ LET t    == nextTransactionId
           info == chargePoints[cp]
           ci   == [getConnector(info, c) EXCEPT !.CurrentTransaction = t]
       IN  SetInfo(cp, [WithConnectorInfo(info, c, ci)
                          EXCEPT !.Transactions[t] = StartedTransaction(c, s)])
    /\ nextTransactionId' = nextTransactionId + 1
    /\ UNCHANGED <<db, running, connected, configPending>>

\* Unknown charge point or busy connector: an error is returned.
OnStartTransactionRefused(cp, c) ==
    /\ Deliverable(cp)
    /\ Known(cp) => hasTransactionInProgress(getConnector(chargePoints[cp], c))
    /\ UNCHANGED vars

\* The stop frees the connector of the transaction, whatever runs on it now.
OnStopTransaction(cp, t, e) ==
    /\ Deliverable(cp) /\ Recorded(chargePoints, cp, t)
    /\ LET info == chargePoints[cp]
           c    == info.Transactions[t].ConnectorId
           ci   == [getConnector(info, c) EXCEPT !.CurrentTransaction = -1]
       IN  SetInfo(cp, [WithConnectorInfo(info, c, ci) EXCEPT !.Transactions[t].End = e])
    /\ UNCHANGED <<nextTransactionId, db, running, connected, configPending>>

\* Unknown charge point: an error.  Unknown transaction: confirmed, no effect.
OnStopTransactionUnknown(cp, t) ==
    /\ Deliverable(cp) /\ ~Recorded(chargePoints, cp, t)
    /\ UNCHANGED vars

-----------------------------------------------------------------------------
(* Persistence, store.go, and the life of the process *)

Encodable(cps) ==
    \A cp \in ChargePoint : cps[cp] # Null =>
        /\ \A c \in ConnectorIds :
              cps[cp].Connectors[c] # Null => cps[cp].Connectors[c].LastMeasurement # NaN
        /\ \A t \in TransactionIds :
              cps[cp].Transactions[t] # Null => cps[cp].Transactions[t].LastMeasurement # NaN

\* Faulty variant: a plain INSERT, refused once the row exists.
SaveInsertsOnce ==
    /\ running
    /\ \/ Encodable(chargePoints) /\ db = Null /\ db' = chargePoints
       \/ UNCHANGED db
    /\ UNCHANGED <<chargePoints, nextTransactionId, running, connected, configPending>>

\* One tick of Store.Run.  json.Marshal refuses a NaN or infinite float; the
\* whole dump is then skipped with a log line.
Save ==
    /\ running
    /\ \/ Encodable(chargePoints) /\ db' = chargePoints
       \/ ~Encodable(chargePoints) /\ UNCHANGED db
    /\ UNCHANGED <<chargePoints, nextTransactionId, running, connected, configPending>>

\* Everything but the database is lost: a kill, a power cut, or a panic.
Stopped ==
    /\ running' = FALSE
    /\ chargePoints' = NoChargePoints
    /\ nextTransactionId' = 0
    /\ connected' = {}
    /\ configPending' = {}
    /\ UNCHANGED db

Crash == running /\ Stopped

\* TransactionId is optional in MeterValues; OnMeterValues dereferences it
\* before it looks the charge point up, and the panic ends the process.
OnMeterValuesWithoutTransaction(cp) == Deliverable(cp) /\ Stopped

\* Faulty variants: the counter starts over, or at the largest id in use.
NextFromZero(cps) == {0}

NextAtLargest(cps) ==
    LET ids == {t \in TransactionIds : \E cp \in ChargePoint : Recorded(cps, cp, t)}
    IN  {n \in 0 .. MaxTransactions : /\ \A t \in ids : t <= n
                                      /\ n > 0 => n \in ids}

\* The values the loop of Restore can leave nextTransactionId with: one more
\* than the largest recorded id.
NextAfter(cps) ==
    LET ids == {t \in TransactionIds : \E cp \in ChargePoint : Recorded(cps, cp, t)}
    IN  {n \in 0 .. MaxTransactions : /\ \A t \in ids : t < n
                                      /\ n > 0 => n - 1 \in ids}

Restore ==
    \/ /\ db = Null
       /\ UNCHANGED <<chargePoints, nextTransactionId>>
    \/ /\ db # Null
       /\ chargePoints' = db
       /\ nextTransactionId' \in NextAfter(db)

\* systemd starts the process again; main() restores before it listens.
Restart ==
    /\ ~running
    /\ running' = TRUE
    /\ Restore
    /\ UNCHANGED <<db, connected, configPending>>

-----------------------------------------------------------------------------

\* What a charge point that never repeats a handled stop may send.
MaySendStop(cp, t) ==
    StopsRepeat \/ (Recorded(chargePoints, cp, t)
                      => ~hasTransactionEnded(chargePoints[cp].Transactions[t]))

Request(cp) ==
    \/ OnAuthorize(cp) \/ OnDataTransfer(cp) \/ OnHeartbeat(cp)
    \/ \E v \in Values :
          \/ OnBootNotification(cp, v)
          \/ OnDiagnosticsStatusNotification(cp, v)
          \/ OnFirmwareStatusNotification(cp, v)
          \/ OnConfig(cp, v)
          \/ \E e \in Values : OnOwnStatusNotification(cp, v, e)
          \/ \E c \in ConnectorIds, s \in Statuses : OnStatusNotification(cp, c, s, v)
    \/ \E c \in ConnectorIds, t \in TransactionIds, m \in Measurements :
          OnMeterValues(cp, c, t, m)
    \/ OnMeterValuesWithoutTransaction(cp)
    \/ \E c \in ConnectorIds \ {0}, s \in Stamps : OnStartTransaction(cp, c, s)
    \/ \E c \in ConnectorIds \ {0} : OnStartTransactionRefused(cp, c)
    \/ \E t \in TransactionIds, e \in Stamps :
          MaySendStop(cp, t) /\ OnStopTransaction(cp, t, e)
    \/ \E t \in TransactionIds : OnStopTransactionUnknown(cp, t)

Next ==
    \/ \E cp \in ChargePoint :
          NewChargePoint(cp) \/ ChargePointDisconnected(cp) \/ Request(cp)
    \/ Save \/ Crash \/ Restart

Spec == Init /\ [][Next]_vars

\* The ticker of Store.Run keeps firing while the process runs, and systemd
\* restarts it (Restart=always).  Nothing is assumed of the charge points.
FairSpec == Spec /\ WF_vars(Save) /\ WF_vars(Restart)

-----------------------------------------------------------------------------
(* Properties *)

\* The state has the shape of the Go types, a configuration answer is awaited
\* only from a connected charge point, every connected charge point has an
\* entry (main.go creates it before any request of the connection), and a
\* process that is down has no memory.
TypeOK ==
    /\ chargePoints \in Snapshots
    /\ nextTransactionId \in 0 .. MaxTransactions
    /\ db \in Snapshots \cup {Null}
    /\ running \in BOOLEAN
    /\ connected \subseteq ChargePoint
    /\ configPending \subseteq connected
    /\ \A cp \in connected : Known(cp)
    /\ ~running => chargePoints = NoChargePoints /\ connected = {}

Current(s, cp, c) ==
    IF s[cp] = Null \/ s[cp].Connectors[c] = Null THEN -1
    ELSE s[cp].Connectors[c].CurrentTransaction

\* In one snapshot: what a connector calls its current transaction is a
\* recorded, unended transaction of that connector.
BusyIsOpen(s) ==
    \A cp \in ChargePoint, c \in ConnectorIds :
        LET t == Current(s, cp, c)
        IN  t >= 0 => /\ Recorded(s, cp, t)
                      /\ s[cp].Transactions[t].ConnectorId = c
                      /\ ~hasTransactionEnded(s[cp].Transactions[t])

\* Every start, stop, disconnection, dump and restart leaves a busy connector
\* pointing at an open transaction of its own, in memory and in the database
\* (handler.go OnStartTransaction and OnStopTransaction update both maps).
\* Otherwise the connector refuses every start until the process forgets it.
BusyConnectorHasOpenTransaction ==
    BusyIsOpen(chargePoints) /\ (db # Null => BusyIsOpen(db))

\* The memory and the database never disagree about what a transaction id
\* means, although the database lags behind and the counter restarts from it:
\* the same id is the same charge point's, connector's and start's, and an end
\* that was dumped is not missing from memory.
StoreAgreesWithMemory ==
    db # Null =>
        \A t \in TransactionIds, cp1, cp2 \in ChargePoint :
            Recorded(chargePoints, cp1, t) /\ Recorded(db, cp2, t) =>
                /\ cp1 = cp2
                /\ LET mem == chargePoints[cp1].Transactions[t]
                       old == db[cp2].Transactions[t]
                   IN  /\ mem.ConnectorId = old.ConnectorId
                       /\ mem.Start = old.Start
                       /\ hasTransactionEnded(old) => hasTransactionEnded(mem)

\* nextTransactionId is global: no two charge points share an id, in memory
\* or in the database, over any sequence of reconnections and restarts.
OneOwner(s) ==
    \A t \in TransactionIds, cp1, cp2 \in ChargePoint :
        Recorded(s, cp1, t) /\ Recorded(s, cp2, t) => cp1 = cp2

IdsAreNotShared == OneOwner(chargePoints) /\ (db # Null => OneOwner(db))

\* While the process runs every recorded id, in memory or in the database, is
\* below the counter, so the next start cannot take a recorded id over.
IdsBelowNext ==
    running => \A t \in TransactionIds, cp \in ChargePoint :
        Recorded(chargePoints, cp, t) \/ Recorded(db, cp, t) => t < nextTransactionId

\* A connector's current transaction is never replaced by another one in a
\* single step: it can only be cleared (OnStartTransaction refuses a busy
\* connector), for as long as the charge point keeps its entry.
NoTakeover ==
    [][\A cp \in ChargePoint, c \in ConnectorIds :
         (Known(cp) /\ Known(cp)' /\ Current(chargePoints, cp, c) >= 0) =>
            Current(chargePoints, cp, c)' \in {Current(chargePoints, cp, c), -1}]_vars

\* As long as a charge point keeps its entry no callback loses a transaction,
\* changes what was recorded at its start, or reopens one that has ended.
TransactionsOnlyGrow ==
    [][\A cp \in ChargePoint, t \in TransactionIds :
         (Recorded(chargePoints, cp, t) /\ Known(cp)') =>
            LET old == chargePoints[cp].Transactions[t]
                new == chargePoints'[cp].Transactions[t]
            IN  /\ new # Null
                /\ new.ConnectorId = old.ConnectorId /\ new.Start = old.Start
                /\ hasTransactionEnded(old) => hasTransactionEnded(new)]_vars

\* What Restore brought back for a charge point that has not reconnected stays
\* as it is, whatever the others do, and its reconnection keeps it (the
\* "exists" branch of the new-charge-point handler in main.go).
RestoredEntryKept ==
    [][\A cp \in ChargePoint :
         (Known(cp) /\ running' /\ cp \notin connected) =>
            chargePoints'[cp] = chargePoints[cp]]_vars

\* The end of a transaction reaches the database, unless the charge point's
\* entry goes first (a disconnection or a crash) or a measurement that JSON
\* cannot encode is in memory.
EndReachesStore ==
    \A cp \in ChargePoint, t \in TransactionIds :
        (Recorded(chargePoints, cp, t) /\ hasTransactionEnded(chargePoints[cp].Transactions[t]))
        ~> \/ Recorded(db, cp, t) /\ hasTransactionEnded(db[cp].Transactions[t])
           \/ ~Known(cp)
           \/ ~Encodable(chargePoints)

\* handler.go: "ConnectorInfo contains status and ongoing transaction ID for a
\* connector": a transaction that has not ended is its connector's current one.
OngoingTransactionIsCurrent ==
    \A cp \in ChargePoint, t \in TransactionIds :
        Recorded(chargePoints, cp, t) =>
            \/ hasTransactionEnded(chargePoints[cp].Transactions[t])
            \/ Current(chargePoints, cp, chargePoints[cp].Transactions[t].ConnectorId) = t

-----------------------------------------------------------------------------
(* The ledger that the maps of handler.go and the row of store.go stand for *)

EntryOf(s, cp, t) ==
    IF Recorded(s, cp, t)
    THEN LET ti == s[cp].Transactions[t]
         IN  [Place |-> ti.ConnectorId, Opening |-> ti.Start, Ended |-> hasTransactionEnded(ti)]
    ELSE Null

LedgerOf(s) ==
    [cp \in ChargePoint |-> [t \in TransactionIds |-> EntryOf(s, cp, t)]]

Ledger == INSTANCE TransactionLedger WITH
    Owners <- ChargePoint, Ids <- TransactionIds, Places <- ConnectorIds,
    Openings <- Stamps, None <- Null,
    ledger <- LedgerOf(chargePoints), saved <- LedgerOf(db), available <- running

ASSUME LedgerAssumption == Null \notin Ledger!Entries

\* Every callback, connection change, dump, crash and restart is a step of the
\* abstract ledger or leaves it alone: an id is issued only while neither the
\* memory nor the database uses it, a recorded start is never rewritten, an end
\* is never taken back, the database only ever holds a whole ledger of the
\* memory, and a restart brings back exactly that.
ImplementsLedger == Ledger!Spec

=============================================================================
