------------------------ MODULE CentralSystemProofs ------------------------
(***************************************************************************)
(* Proofs about CentralSystem and RemoteControl, for any charge points,    *)
(* connectors and bound on the transaction ids.                            *)
(*                                                                         *)
(* Every callback replaces one charge point's entry.  GoodUpdate says what *)
(* makes a replacement harmless and UpdatePreserves that it is enough, so  *)
(* a callback is settled by a lemma about the entry it builds.  Most build *)
(* one whose ledger of transactions is unchanged (SameLedger).  What is    *)
(* left are the disconnection, the dump, the crash and the restart.        *)
(*                                                                         *)
(* RequestUpdates sorts the requests by what they do to the ledger; the    *)
(* refinement and OngoingIsCurrent, whose invariant speaks of the row as   *)
(* well as of the memory, both start from it.                              *)
(*                                                                         *)
(* Last comes the remote control, for any clients.  Its steps are defined  *)
(* as steps of CentralSystem or as leaving that alone (SystemMoves), so    *)
(* the invariants proved here hold there as well.  From them follows that  *)
(* a remote stop keeps its meaning: StopSeen adds to the property that the *)
(* id looked up is below the counter, so that no start can take it over.   *)
(* For a remote start CurrentsKept says that a connector takes its current *)
(* transaction from the counter and from nowhere else.                     *)
(***************************************************************************)
EXTENDS RemoteControl, TLAPS

\* The inductive invariant: the checked invariants, together.
IndInv ==
    /\ TypeOK
    /\ BusyConnectorHasOpenTransaction
    /\ StoreAgreesWithMemory
    /\ IdsAreNotShared
    /\ IdsBelowNext

\* The current transaction of a connector in one entry.
CurrentOf(info, c) ==
    IF info.Connectors[c] = Null THEN -1 ELSE info.Connectors[c].CurrentTransaction

\* Two entries that agree on every connector's current transaction and on what
\* is recorded of every transaction but its last measurement.
SameLedger(info, new) ==
    /\ \A c \in ConnectorIds : CurrentOf(new, c) = CurrentOf(info, c)
    /\ \A t \in TransactionIds :
          /\ new.Transactions[t] = Null <=> info.Transactions[t] = Null
          /\ new.Transactions[t] # Null =>
                /\ new.Transactions[t].ConnectorId = info.Transactions[t].ConnectorId
                /\ new.Transactions[t].Start = info.Transactions[t].Start
                /\ new.Transactions[t].End = info.Transactions[t].End

\* A harmless replacement of an entry (Null: there was none) by a new one, while
\* the counter moves from n to m: busy connectors run open transactions of
\* their own, no transaction is lost or altered, the only new one takes the
\* counter's value, and no current transaction is replaced.
GoodUpdate(old, new, n, m) ==
    /\ \A c \in ConnectorIds : CurrentOf(new, c) >= 0 =>
          /\ new.Transactions[CurrentOf(new, c)] # Null
          /\ new.Transactions[CurrentOf(new, c)].ConnectorId = c
          /\ new.Transactions[CurrentOf(new, c)].End = Null
    /\ \A t \in TransactionIds : (old # Null /\ old.Transactions[t] # Null) =>
          /\ new.Transactions[t] # Null
          /\ new.Transactions[t].ConnectorId = old.Transactions[t].ConnectorId
          /\ new.Transactions[t].Start = old.Transactions[t].Start
          /\ old.Transactions[t].End # Null => new.Transactions[t].End # Null
    /\ \A t \in TransactionIds : new.Transactions[t] # Null =>
          (old # Null /\ old.Transactions[t] # Null) \/ (t = n /\ n < m)
    /\ \A c \in ConnectorIds : (old # Null /\ CurrentOf(old, c) >= 0) =>
          CurrentOf(new, c) \in {CurrentOf(old, c), -1}

-----------------------------------------------------------------------------
(* What the helpers of the callbacks return *)

\* getConnector returns a connector, with the current transaction the entry has.
LEMMA GetConnector ==
    ASSUME NEW info \in ChargePointState, NEW c \in ConnectorIds
    PROVE  /\ getConnector(info, c) \in ConnectorInfo
           /\ getConnector(info, c).CurrentTransaction = CurrentOf(info, c)
           /\ CurrentOf(info, c) \in TransactionIds \cup {-1}
  BY DEF getConnector, NewConnector, CurrentOf, ChargePointState, ConnectorInfo

\* Storing a connector changes that connector and nothing else of the entry.
LEMMA PutConnector ==
    ASSUME NEW info \in ChargePointState, NEW c \in ConnectorIds, NEW ci \in ConnectorInfo
    PROVE  /\ WithConnectorInfo(info, c, ci) \in ChargePointState
           /\ WithConnectorInfo(info, c, ci).Transactions = info.Transactions
           /\ \A d \in ConnectorIds :
                 CurrentOf(WithConnectorInfo(info, c, ci), d)
                    = IF d = c THEN ci.CurrentTransaction ELSE CurrentOf(info, d)
  BY NullAssumption DEF WithConnectorInfo, CurrentOf, ChargePointState

\* Setting a plain field leaves connectors and transactions alone.
LEMMA PutDetail ==
    ASSUME NEW info \in ChargePointState, NEW d, NEW v \in Values
    PROVE  /\ WithDetail(info, d, v) \in ChargePointState
           /\ WithDetail(info, d, v).Transactions = info.Transactions
           /\ WithDetail(info, d, v).Connectors = info.Connectors
  BY DEF WithDetail, ChargePointState

\* Meter values do not touch the ledger.
LEMMA MeterValuesKeepLedger ==
    ASSUME NEW info \in ChargePointState, NEW c \in ConnectorIds,
           NEW t \in TransactionIds, NEW m \in Measurements
    PROVE  /\ processMeterValues(info, c, t, m) \in ChargePointState
           /\ SameLedger(info, processMeterValues(info, c, t, m))
  <1> DEFINE ci  == [getConnector(info, c) EXCEPT !.LastMeasurement = m]
             inf == WithConnectorInfo(info, c, ci)
             new == processMeterValues(info, c, t, m)
  <1>1. ci \in ConnectorInfo /\ ci.CurrentTransaction = CurrentOf(info, c)
    BY GetConnector DEF ConnectorInfo
  <1> HIDE DEF ci
  <1>2. /\ inf \in ChargePointState
        /\ inf.Transactions = info.Transactions
        /\ \A d \in ConnectorIds : CurrentOf(inf, d) = CurrentOf(info, d)
    BY <1>1, PutConnector
  <1>3. CASE info.Transactions[t] = Null
    <2>1. new = inf
      BY <1>2, <1>3 DEF processMeterValues, ci
    <2> QED
      BY <1>2, <2>1 DEF SameLedger
  <1>4. CASE info.Transactions[t] # Null
    <2> DEFINE ti == [info.Transactions[t] EXCEPT !.LastMeasurement = m]
    <2> HIDE DEF ci, inf
    <2>1. new = [inf EXCEPT !.Transactions[t].LastMeasurement = m]
      BY <1>2, <1>4 DEF processMeterValues, ci, inf
    <2>2. info.Transactions[t] \in TransactionInfo
      BY <1>4 DEF ChargePointState
    <2>3. ti \in TransactionInfo
      BY <2>2 DEF TransactionInfo
    <2>4. /\ new.Connectors = inf.Connectors
          /\ new.Details = inf.Details
          /\ new.Transactions = [info.Transactions EXCEPT ![t] = ti]
          /\ new = [inf EXCEPT !.Transactions = [info.Transactions EXCEPT ![t] = ti]]
      BY <2>1, <1>2 DEF ChargePointState
    <2>5. new \in ChargePointState
      BY <2>3, <2>4, <1>2 DEF ChargePointState
    <2>6. \A d \in ConnectorIds : CurrentOf(new, d) = CurrentOf(info, d)
      BY <2>4, <1>2 DEF CurrentOf
    <2>7. \A u \in TransactionIds :
             new.Transactions[u] = IF u = t THEN ti ELSE info.Transactions[u]
      BY <2>4 DEF ChargePointState
    <2>8. ti # Null
      BY <2>3, NullAssumption
    <2>9. /\ ti.ConnectorId = info.Transactions[t].ConnectorId
          /\ ti.Start = info.Transactions[t].Start
          /\ ti.End = info.Transactions[t].End
      BY <2>2 DEF TransactionInfo
    <2> QED
      BY <2>5, <2>6, <2>7, <2>8, <2>9, <1>4 DEF SameLedger
  <1> QED
    BY <1>3, <1>4

-----------------------------------------------------------------------------
(* Replacing an entry *)

\* In a state of the invariant, replacing an entry by one with the same ledger
\* is harmless.
LEMMA SameLedgerIsGood ==
    ASSUME IndInv, NEW cp \in ChargePoint, Known(cp),
           NEW info \in ChargePointState, SameLedger(chargePoints[cp], info)
    PROVE  GoodUpdate(chargePoints[cp], info, nextTransactionId, nextTransactionId)
  <1> DEFINE old == chargePoints[cp]
  <1>1. old \in ChargePointState
    BY DEF IndInv, TypeOK, Snapshots, Known
  <1>2. \A c \in ConnectorIds : CurrentOf(old, c) >= 0 =>
            /\ old.Transactions[CurrentOf(old, c)] # Null
            /\ old.Transactions[CurrentOf(old, c)].ConnectorId = c
            /\ old.Transactions[CurrentOf(old, c)].End = Null
    <2>1. BusyIsOpen(chargePoints)
      BY DEF IndInv, BusyConnectorHasOpenTransaction
    <2>2. chargePoints[cp] # Null
      BY DEF Known
    <2> QED
      BY ONLY <2>1, <2>2, cp \in ChargePoint DEF BusyIsOpen, Current, CurrentOf, Recorded, hasTransactionEnded
  <1>3. \A c \in ConnectorIds : CurrentOf(old, c) >= 0 => CurrentOf(old, c) \in TransactionIds
    BY <1>1, GetConnector
  <1>4. SameLedger(old, info) /\ old # Null
    BY DEF Known
  <1> HIDE DEF old
  <1>5. \A c \in ConnectorIds : CurrentOf(info, c) >= 0 =>
            /\ info.Transactions[CurrentOf(info, c)] # Null
            /\ info.Transactions[CurrentOf(info, c)].ConnectorId = c
            /\ info.Transactions[CurrentOf(info, c)].End = Null
    BY <1>2, <1>3, <1>4 DEF SameLedger
  <1>6. GoodUpdate(old, info, nextTransactionId, nextTransactionId)
    BY <1>4, <1>5 DEF SameLedger, GoodUpdate
  <1> QED
    BY <1>6 DEF old

\* BusyIsOpen speaks of one snapshot: a variable that does not change, or takes
\* over a snapshot for which it holds, satisfies it afterwards.
LEMMA BusyCarriesOver ==
    /\ BusyIsOpen(chargePoints) /\ chargePoints' = chargePoints => BusyIsOpen(chargePoints)'
    /\ BusyIsOpen(chargePoints) /\ db' = chargePoints => BusyIsOpen(db)'
    /\ BusyIsOpen(db) /\ db' = db => BusyIsOpen(db)'
    /\ BusyIsOpen(db) /\ chargePoints' = db => BusyIsOpen(chargePoints)'
  OBVIOUS

\* A harmless replacement preserves the invariant.
LEMMA UpdatePreserves ==
    ASSUME IndInv, running, NEW cp \in ChargePoint, NEW info \in ChargePointState,
           SetInfo(cp, info),
           GoodUpdate(chargePoints[cp], info, nextTransactionId, nextTransactionId'),
           nextTransactionId' \in 0 .. MaxTransactions,
           nextTransactionId <= nextTransactionId',
           UNCHANGED <<db, running>>,
           connected' \subseteq connected \cup {cp},
           configPending' \subseteq connected'
    PROVE  IndInv'
  <1> USE DEF Recorded
  <1>1. /\ chargePoints \in Snapshots
        /\ chargePoints' \in Snapshots
        /\ \A x \in ChargePoint :
              chargePoints'[x] = IF x = cp THEN info ELSE chargePoints[x]
        /\ info # Null /\ chargePoints' # Null /\ chargePoints # Null
    BY NullAssumption DEF IndInv, TypeOK, SetInfo, Snapshots
  <1>2. TypeOK'
    BY <1>1 DEF IndInv, TypeOK, Known
  <1>3. \A x \in ChargePoint, c \in ConnectorIds :
           Current(chargePoints', x, c) = IF x = cp THEN CurrentOf(info, c)
                                          ELSE Current(chargePoints, x, c)
    BY <1>1 DEF Current, CurrentOf
  <1>4. \A x \in ChargePoint, t \in TransactionIds :
           /\ Recorded(chargePoints, x, t) => Recorded(chargePoints', x, t)
           /\ Recorded(chargePoints', x, t) =>
                 \/ Recorded(chargePoints, x, t)
                 \/ x = cp /\ t = nextTransactionId /\ nextTransactionId < nextTransactionId'
           /\ Recorded(chargePoints, x, t) =>
                 /\ chargePoints'[x].Transactions[t].ConnectorId
                       = chargePoints[x].Transactions[t].ConnectorId
                 /\ chargePoints'[x].Transactions[t].Start = chargePoints[x].Transactions[t].Start
                 /\ chargePoints[x].Transactions[t].End # Null
                       => chargePoints'[x].Transactions[t].End # Null
    BY <1>1 DEF GoodUpdate
  <1>5. BusyConnectorHasOpenTransaction'
    <2>1. BusyIsOpen(chargePoints')
      <3> SUFFICES ASSUME NEW x \in ChargePoint, NEW c \in ConnectorIds,
                          Current(chargePoints', x, c) >= 0
                   PROVE  LET t == Current(chargePoints', x, c)
                          IN  /\ Recorded(chargePoints', x, t)
                              /\ chargePoints'[x].Transactions[t].ConnectorId = c
                              /\ chargePoints'[x].Transactions[t].End = Null
        BY DEF BusyIsOpen, hasTransactionEnded
      <3>1. CASE x = cp
        BY <3>1, <1>1, <1>3 DEF GoodUpdate
      <3>2. CASE x # cp
        BY <3>2, <1>1, <1>3
           DEF IndInv, BusyConnectorHasOpenTransaction, BusyIsOpen, hasTransactionEnded
      <3> QED
        BY <3>1, <3>2
    <2> QED
      <3>1. (db # Null => BusyIsOpen(db))'
        BY BusyCarriesOver DEF IndInv, BusyConnectorHasOpenTransaction
      <3>2. BusyIsOpen(chargePoints)'
        BY <2>1 DEF BusyIsOpen, Current, hasTransactionEnded
      <3> QED
        BY <3>1, <3>2 DEF BusyConnectorHasOpenTransaction
  <1>6. IdsBelowNext'
    BY <1>4, BoundsAssumption DEF IndInv, IdsBelowNext, TypeOK, TransactionIds
  <1>7. StoreAgreesWithMemory'
    <2> SUFFICES ASSUME db # Null, NEW t \in TransactionIds,
                        NEW cp1 \in ChargePoint, NEW cp2 \in ChargePoint,
                        Recorded(chargePoints', cp1, t), Recorded(db, cp2, t)
                 PROVE  /\ cp1 = cp2
                        /\ chargePoints'[cp1].Transactions[t].ConnectorId
                              = db[cp2].Transactions[t].ConnectorId
                        /\ chargePoints'[cp1].Transactions[t].Start = db[cp2].Transactions[t].Start
                        /\ db[cp2].Transactions[t].End # Null
                              => chargePoints'[cp1].Transactions[t].End # Null
      BY DEF StoreAgreesWithMemory, hasTransactionEnded
    <2>1. t < nextTransactionId
      BY DEF IndInv, IdsBelowNext
    <2>2. Recorded(chargePoints, cp1, t)
      BY <2>1, <1>4 DEF TransactionIds, IndInv, TypeOK
    <2> QED
      BY <2>2, <1>4 DEF IndInv, StoreAgreesWithMemory, hasTransactionEnded
  <1>8. IdsAreNotShared'
    <2>1. OneOwner(chargePoints')
      <3> SUFFICES ASSUME NEW t \in TransactionIds,
                          NEW cp1 \in ChargePoint, NEW cp2 \in ChargePoint,
                          Recorded(chargePoints', cp1, t), Recorded(chargePoints', cp2, t)
                   PROVE  cp1 = cp2
        BY DEF OneOwner
      <3>1. \A x \in ChargePoint : Recorded(chargePoints, x, t) => t < nextTransactionId
        BY DEF IndInv, IdsBelowNext
      <3> QED
        BY <3>1, <1>4, BoundsAssumption DEF IndInv, IdsAreNotShared, OneOwner, TypeOK, TransactionIds
    <2> QED
      BY <2>1 DEF IndInv, IdsAreNotShared, OneOwner
  <1> QED
    BY <1>2, <1>5, <1>6, <1>7, <1>8 DEF IndInv

\* A step that leaves the entries, the counter and the row alone preserves the
\* invariant when it preserves its typing.
LEMMA UntouchedPreserves ==
    ASSUME IndInv, TypeOK', UNCHANGED <<chargePoints, nextTransactionId, db, running>>
    PROVE  IndInv'
  <1>1. BusyConnectorHasOpenTransaction'
    BY BusyCarriesOver DEF IndInv, BusyConnectorHasOpenTransaction
  <1>2. StoreAgreesWithMemory'
    BY DEF IndInv, StoreAgreesWithMemory, hasTransactionEnded, Recorded
  <1>3. IdsAreNotShared'
    BY DEF IndInv, IdsAreNotShared, OneOwner, Recorded
  <1>4. IdsBelowNext'
    BY DEF IndInv, IdsBelowNext, Recorded
  <1> QED
    BY <1>1, <1>2, <1>3, <1>4 DEF IndInv

-----------------------------------------------------------------------------
(* The entries that the callbacks build *)

\* A plain field does not touch the ledger.
LEMMA DetailIsGood ==
    ASSUME IndInv, NEW cp \in ChargePoint, Known(cp), NEW d, NEW v \in Values
    PROVE  LET new == WithDetail(chargePoints[cp], d, v)
           IN  /\ new \in ChargePointState
               /\ GoodUpdate(chargePoints[cp], new, nextTransactionId, nextTransactionId)
  <1>1. chargePoints[cp] \in ChargePointState
    BY DEF IndInv, TypeOK, Snapshots, Known
  <1> DEFINE new == WithDetail(chargePoints[cp], d, v)
  <1>2. /\ new \in ChargePointState
        /\ new.Transactions = chargePoints[cp].Transactions
        /\ new.Connectors = chargePoints[cp].Connectors
    BY <1>1, PutDetail
  <1>3. SameLedger(chargePoints[cp], new)
    BY <1>2 DEF SameLedger, CurrentOf
  <1> QED
    BY <1>2, <1>3, SameLedgerIsGood

\* A connector's status does not touch the ledger.
LEMMA StatusIsGood ==
    ASSUME IndInv, NEW cp \in ChargePoint, Known(cp), NEW c \in ConnectorIds,
           NEW s \in Statuses, NEW v \in Values
    PROVE  LET info == WithDetail(chargePoints[cp], "ErrorCode", v)
               new  == WithConnectorInfo(info, c, [getConnector(info, c) EXCEPT !.Status = s])
           IN  /\ new \in ChargePointState
               /\ GoodUpdate(chargePoints[cp], new, nextTransactionId, nextTransactionId)
  <1> DEFINE info == WithDetail(chargePoints[cp], "ErrorCode", v)
             ci   == [getConnector(info, c) EXCEPT !.Status = s]
             new  == WithConnectorInfo(info, c, ci)
  <1>1. chargePoints[cp] \in ChargePointState
    BY DEF IndInv, TypeOK, Snapshots, Known
  <1>2. /\ info \in ChargePointState
        /\ info.Transactions = chargePoints[cp].Transactions
        /\ info.Connectors = chargePoints[cp].Connectors
    BY <1>1, PutDetail
  <1> HIDE DEF info
  <1>3. ci \in ConnectorInfo /\ ci.CurrentTransaction = CurrentOf(info, c)
    BY <1>2, GetConnector DEF ConnectorInfo
  <1> HIDE DEF ci
  <1>4. /\ new \in ChargePointState
        /\ new.Transactions = info.Transactions
        /\ \A e \in ConnectorIds : CurrentOf(new, e) = CurrentOf(info, e)
    BY <1>2, <1>3, PutConnector
  <1>5. SameLedger(chargePoints[cp], new)
    BY <1>2, <1>4 DEF SameLedger, CurrentOf
  <1>6. GoodUpdate(chargePoints[cp], new, nextTransactionId, nextTransactionId)
    BY <1>4, <1>5, SameLedgerIsGood
  <1> QED
    BY <1>4, <1>6 DEF info, ci

\* An empty entry for a new charge point is harmless.
LEMMA NewEntryIsGood ==
    ASSUME NEW n
    PROVE  /\ NewChargePointState \in ChargePointState
           /\ GoodUpdate(Null, NewChargePointState, n, n)
  <1>1. NewChargePointState \in ChargePointState
    BY DEF NewChargePointState, ChargePointState
  <1>2. \A c \in ConnectorIds : CurrentOf(NewChargePointState, c) = -1
    BY DEF NewChargePointState, CurrentOf
  <1>3. \A t \in TransactionIds : NewChargePointState.Transactions[t] = Null
    BY DEF NewChargePointState
  <1> QED
    BY <1>1, <1>2, <1>3 DEF GoodUpdate

\* In a state of the invariant a connector's current transaction is recorded as
\* an open transaction of that connector, with an id below the counter.
LEMMA BusyEntry ==
    ASSUME IndInv, running, NEW cp \in ChargePoint, Known(cp)
    PROVE  \A c \in ConnectorIds :
             LET info == chargePoints[cp]
                 t    == CurrentOf(info, c)
             IN  /\ t \in TransactionIds \cup {-1}
                 /\ t >= 0 => /\ t \in TransactionIds
                              /\ t < nextTransactionId
                              /\ info.Transactions[t] # Null
                              /\ info.Transactions[t].ConnectorId = c
                              /\ info.Transactions[t].End = Null
  <1>1. chargePoints[cp] \in ChargePointState
    BY DEF IndInv, TypeOK, Snapshots, Known
  <1> SUFFICES ASSUME NEW c \in ConnectorIds
               PROVE  LET info == chargePoints[cp]
                          t    == CurrentOf(info, c)
                      IN  /\ t \in TransactionIds \cup {-1}
                          /\ t >= 0 => /\ t \in TransactionIds
                                       /\ t < nextTransactionId
                                       /\ info.Transactions[t] # Null
                                       /\ info.Transactions[t].ConnectorId = c
                                       /\ info.Transactions[t].End = Null
    OBVIOUS
  <1>2. CurrentOf(chargePoints[cp], c) \in TransactionIds \cup {-1}
    BY <1>1, GetConnector
  <1>3. Current(chargePoints, cp, c) = CurrentOf(chargePoints[cp], c)
    BY DEF Current, CurrentOf, Known
  <1>4. BusyIsOpen(chargePoints)
    BY DEF IndInv, BusyConnectorHasOpenTransaction
  <1>5. CurrentOf(chargePoints[cp], c) >= 0 =>
          /\ Recorded(chargePoints, cp, CurrentOf(chargePoints[cp], c))
          /\ chargePoints[cp].Transactions[CurrentOf(chargePoints[cp], c)].ConnectorId = c
          /\ chargePoints[cp].Transactions[CurrentOf(chargePoints[cp], c)].End = Null
    BY <1>3, <1>4 DEF BusyIsOpen, hasTransactionEnded
  <1>6. \A t \in TransactionIds : Recorded(chargePoints, cp, t) => t < nextTransactionId
    BY DEF IndInv, IdsBelowNext
  <1> QED
    BY <1>2, <1>5, <1>6 DEF Recorded

\* The entries that OnStartTransaction and OnStopTransaction build.
StartedEntry(info, t, c, s) ==
    [WithConnectorInfo(info, c, [getConnector(info, c) EXCEPT !.CurrentTransaction = t])
        EXCEPT !.Transactions[t] = StartedTransaction(c, s)]

StoppedEntry(info, t, e) ==
    LET c  == info.Transactions[t].ConnectorId
        ci == [getConnector(info, c) EXCEPT !.CurrentTransaction = -1]
    IN  [WithConnectorInfo(info, c, ci) EXCEPT !.Transactions[t].End = e]

\* What the entry that OnStartTransaction builds differs in.
LEMMA StartEntry ==
    ASSUME NEW info \in ChargePointState, NEW t \in TransactionIds,
           NEW c \in ConnectorIds, NEW s \in Stamps
    PROVE  LET new == StartedEntry(info, t, c, s)
               ti  == StartedTransaction(c, s)
           IN  /\ new \in ChargePointState
               /\ \A d \in ConnectorIds :
                     CurrentOf(new, d) = IF d = c THEN t ELSE CurrentOf(info, d)
               /\ \A u \in TransactionIds :
                     new.Transactions[u] = IF u = t THEN ti ELSE info.Transactions[u]
               /\ ti # Null /\ ti.ConnectorId = c /\ ti.End = Null
  <1> DEFINE ci   == [getConnector(info, c) EXCEPT !.CurrentTransaction = t]
             mid  == WithConnectorInfo(info, c, ci)
             ti   == StartedTransaction(c, s)
             new  == [mid EXCEPT !.Transactions[t] = ti]
  <1>1. ci \in ConnectorInfo /\ ci.CurrentTransaction = t
    BY GetConnector DEF ConnectorInfo
  <1> HIDE DEF ci
  <1>2. /\ mid \in ChargePointState
        /\ mid.Transactions = info.Transactions
        /\ \A d \in ConnectorIds : CurrentOf(mid, d) = IF d = c THEN t ELSE CurrentOf(info, d)
    BY <1>1, PutConnector
  <1> HIDE DEF mid
  <1>3. ti \in TransactionInfo /\ ti # Null /\ ti.ConnectorId = c /\ ti.End = Null
    BY NullAssumption DEF StartedTransaction, TransactionInfo
  <1> HIDE DEF ti
  <1>4. /\ new \in ChargePointState
        /\ new.Connectors = mid.Connectors
        /\ \A u \in TransactionIds :
              new.Transactions[u] = IF u = t THEN ti ELSE info.Transactions[u]
    BY <1>2, <1>3 DEF ChargePointState
  <1>5. \A d \in ConnectorIds : CurrentOf(new, d) = IF d = c THEN t ELSE CurrentOf(info, d)
    BY <1>2, <1>4 DEF CurrentOf
  <1> QED
    BY <1>3, <1>4, <1>5 DEF StartedEntry, new, mid, ci, ti

\* What the entry that OnStopTransaction builds differs in.
LEMMA StopEntry ==
    ASSUME NEW info \in ChargePointState, NEW t \in TransactionIds,
           info.Transactions[t] # Null, NEW e \in Stamps
    PROVE  LET c   == info.Transactions[t].ConnectorId
               new == StoppedEntry(info, t, e)
               ti  == [info.Transactions[t] EXCEPT !.End = e]
           IN  /\ new \in ChargePointState
               /\ \A d \in ConnectorIds :
                     CurrentOf(new, d) = IF d = c THEN -1 ELSE CurrentOf(info, d)
               /\ \A u \in TransactionIds :
                     new.Transactions[u] = IF u = t THEN ti ELSE info.Transactions[u]
               /\ ti # Null /\ ti.ConnectorId = c /\ ti.End = e /\ e # Null
               /\ ti.Start = info.Transactions[t].Start
  <1> DEFINE c    == info.Transactions[t].ConnectorId
             ci   == [getConnector(info, c) EXCEPT !.CurrentTransaction = -1]
             mid  == WithConnectorInfo(info, c, ci)
             ti   == [info.Transactions[t] EXCEPT !.End = e]
             new  == [mid EXCEPT !.Transactions[t].End = e]
  <1>1. info.Transactions[t] \in TransactionInfo /\ c \in ConnectorIds
    BY DEF ChargePointState, TransactionInfo
  <1>2. /\ ti \in TransactionInfo /\ ti # Null /\ ti.ConnectorId = c /\ ti.End = e
        /\ e # Null /\ ti.Start = info.Transactions[t].Start
    BY <1>1, NullAssumption DEF TransactionInfo
  <1>3. ci \in ConnectorInfo /\ ci.CurrentTransaction = -1
    BY <1>1, GetConnector DEF ConnectorInfo
  <1> HIDE DEF ci
  <1>4. /\ mid \in ChargePointState
        /\ mid.Transactions = info.Transactions
        /\ \A d \in ConnectorIds : CurrentOf(mid, d) = IF d = c THEN -1 ELSE CurrentOf(info, d)
    BY <1>1, <1>3, PutConnector
  <1> HIDE DEF mid
  <1>5. new = [mid EXCEPT !.Transactions = [info.Transactions EXCEPT ![t] = ti]]
    BY <1>4
  <1> HIDE DEF ti, new
  <1>6. /\ new \in ChargePointState
        /\ new.Connectors = mid.Connectors
        /\ \A u \in TransactionIds :
              new.Transactions[u] = IF u = t THEN ti ELSE info.Transactions[u]
    BY <1>2, <1>4, <1>5 DEF ChargePointState
  <1>7. \A d \in ConnectorIds : CurrentOf(new, d) = IF d = c THEN -1 ELSE CurrentOf(info, d)
    BY <1>4, <1>6 DEF CurrentOf
  <1> QED
    BY <1>2, <1>6, <1>7 DEF StoppedEntry, new, mid, ci, ti, c

\* The entry that OnStartTransaction builds on a free connector is harmless.
LEMMA StartIsGood ==
    ASSUME IndInv, running, NEW cp \in ChargePoint, Known(cp),
           NEW c \in ConnectorIds, NEW s \in Stamps,
           ~hasTransactionInProgress(getConnector(chargePoints[cp], c)),
           nextTransactionId < MaxTransactions
    PROVE  LET t    == nextTransactionId
               info == chargePoints[cp]
               new  == StartedEntry(info, t, c, s)
           IN  /\ new \in ChargePointState
               /\ GoodUpdate(info, new, t, t + 1)
  <1> DEFINE t    == nextTransactionId
             info == chargePoints[cp]
             ti   == StartedTransaction(c, s)
             new  == StartedEntry(info, t, c, s)
  <1>1. info \in ChargePointState /\ info # Null
    BY DEF IndInv, TypeOK, Snapshots, Known
  <1>2. t \in TransactionIds
    BY BoundsAssumption DEF IndInv, TypeOK, TransactionIds
  <1>3. CurrentOf(info, c) = -1
    BY <1>1, GetConnector DEF hasTransactionInProgress, TransactionIds
  <1>4. \A d \in ConnectorIds : CurrentOf(info, d) >= 0 =>
          /\ CurrentOf(info, d) \in TransactionIds
          /\ CurrentOf(info, d) # t
          /\ info.Transactions[CurrentOf(info, d)] # Null
          /\ info.Transactions[CurrentOf(info, d)].ConnectorId = d
          /\ info.Transactions[CurrentOf(info, d)].End = Null
    BY <1>2, BusyEntry DEF TransactionIds
  <1>5. info.Transactions[t] = Null
    <2>1. ~Recorded(chargePoints, cp, t)
      BY <1>2 DEF IndInv, IdsBelowNext, TransactionIds
    <2>2. chargePoints # Null
      BY NullAssumption DEF IndInv, TypeOK
    <2> QED
      BY <1>1, <2>1, <2>2 DEF Recorded
  <1> HIDE DEF t, info
  <1>6. /\ new \in ChargePointState
        /\ \A d \in ConnectorIds : CurrentOf(new, d) = IF d = c THEN t ELSE CurrentOf(info, d)
        /\ \A u \in TransactionIds :
              new.Transactions[u] = IF u = t THEN ti ELSE info.Transactions[u]
        /\ ti # Null /\ ti.ConnectorId = c /\ ti.End = Null
    BY <1>1, <1>2, StartEntry
  <1> HIDE DEF ti
  <1> HIDE DEF new
  <1>7. t < t + 1
    BY <1>2 DEF TransactionIds
  <1>8. \A d \in ConnectorIds : CurrentOf(new, d) >= 0 =>
          /\ new.Transactions[CurrentOf(new, d)] # Null
          /\ new.Transactions[CurrentOf(new, d)].ConnectorId = d
          /\ new.Transactions[CurrentOf(new, d)].End = Null
    BY <1>2, <1>4, <1>6
  <1>9. GoodUpdate(info, new, t, t + 1)
    BY <1>1, <1>3, <1>5, <1>6, <1>7, <1>8 DEF GoodUpdate
  <1> QED
    BY <1>6, <1>9 DEF new, info, t

\* The entry that OnStopTransaction builds for a recorded transaction is
\* harmless: the connector it frees is the one the transaction names.
LEMMA StopIsGood ==
    ASSUME IndInv, running, NEW cp \in ChargePoint, NEW t \in TransactionIds,
           Recorded(chargePoints, cp, t), NEW e \in Stamps
    PROVE  LET info == chargePoints[cp]
               new  == StoppedEntry(info, t, e)
           IN  /\ new \in ChargePointState
               /\ GoodUpdate(info, new, nextTransactionId, nextTransactionId)
  <1> DEFINE info == chargePoints[cp]
             c    == info.Transactions[t].ConnectorId
             ti   == [info.Transactions[t] EXCEPT !.End = e]
             new  == StoppedEntry(info, t, e)
  <1>1. /\ info \in ChargePointState /\ info # Null /\ Known(cp)
        /\ info.Transactions[t] # Null
    BY DEF IndInv, TypeOK, Snapshots, Known, Recorded
  <1>2. \A d \in ConnectorIds : CurrentOf(info, d) >= 0 =>
          /\ CurrentOf(info, d) \in TransactionIds
          /\ info.Transactions[CurrentOf(info, d)] # Null
          /\ info.Transactions[CurrentOf(info, d)].ConnectorId = d
          /\ info.Transactions[CurrentOf(info, d)].End = Null
    BY <1>1, BusyEntry
  <1> HIDE DEF info
  <1>3. /\ new \in ChargePointState
        /\ \A d \in ConnectorIds : CurrentOf(new, d) = IF d = c THEN -1 ELSE CurrentOf(info, d)
        /\ \A u \in TransactionIds :
              new.Transactions[u] = IF u = t THEN ti ELSE info.Transactions[u]
        /\ ti # Null /\ ti.ConnectorId = c /\ ti.End = e /\ e # Null
        /\ ti.Start = info.Transactions[t].Start
    BY <1>1, StopEntry
  <1> HIDE DEF ti, new
  <1>4. \A d \in ConnectorIds : CurrentOf(new, d) >= 0 =>
          /\ new.Transactions[CurrentOf(new, d)] # Null
          /\ new.Transactions[CurrentOf(new, d)].ConnectorId = d
          /\ new.Transactions[CurrentOf(new, d)].End = Null
    BY <1>2, <1>3
  <1>5. GoodUpdate(info, new, nextTransactionId, nextTransactionId)
    BY <1>1, <1>3, <1>4 DEF GoodUpdate
  <1> QED
    BY <1>3, <1>5 DEF new, info

-----------------------------------------------------------------------------
(* The kinds of steps *)

\* A step that replaces the entry of cp by a harmless one.
EntryStep(cp) ==
    /\ running
    /\ \E info \in ChargePointState :
          /\ SetInfo(cp, info)
          /\ GoodUpdate(chargePoints[cp], info, nextTransactionId, nextTransactionId')
    /\ nextTransactionId' \in 0 .. MaxTransactions
    /\ nextTransactionId <= nextTransactionId'
    /\ UNCHANGED <<db, running>>
    /\ connected' \subseteq connected \cup {cp}
    /\ configPending' \subseteq connected'
    /\ ~Known(cp) \/ cp \in connected

\* A step that leaves the entries, the counter and the row alone.
QuietStep == UNCHANGED <<chargePoints, nextTransactionId, db, running>> /\ TypeOK'

\* Every request is quiet, replaces its charge point's entry, or panics.
LEMMA RequestKinds ==
    ASSUME IndInv, NEW cp \in ChargePoint, Request(cp)
    PROVE  QuietStep \/ EntryStep(cp) \/ Stopped
  <1> USE DEF Deliverable
  <1>1. nextTransactionId \in 0 .. MaxTransactions /\ nextTransactionId <= nextTransactionId
    BY BoundsAssumption DEF IndInv, TypeOK
  <1>2. ASSUME UNCHANGED vars PROVE QuietStep
    BY <1>2 DEF vars, QuietStep, IndInv, TypeOK, Known
  <1>3. ASSUME UNCHANGED <<chargePoints, nextTransactionId, db, running, connected>>,
               configPending' \subseteq configPending
        PROVE  QuietStep
    BY <1>3 DEF QuietStep, IndInv, TypeOK, Known
  <1>4. ASSUME NEW d, NEW v \in Values, running, Known(cp), cp \in connected,
               SetInfo(cp, WithDetail(chargePoints[cp], d, v)),
               UNCHANGED <<nextTransactionId, db, running, connected>>,
               configPending' \subseteq configPending
        PROVE  EntryStep(cp)
    <2>1. configPending' \subseteq connected'
      BY <1>4 DEF IndInv, TypeOK
    <2> QED
      BY <1>1, <1>4, <2>1, DetailIsGood DEF EntryStep
  <1>5. CASE OnAuthorize(cp) \/ OnDataTransfer(cp) \/ OnHeartbeat(cp)
    BY <1>2, <1>5 DEF OnAuthorize, OnDataTransfer, OnHeartbeat
  <1>6. ASSUME NEW v \in Values, OnBootNotification(cp, v) PROVE QuietStep \/ EntryStep(cp)
    BY <1>3, <1>4, <1>6 DEF OnBootNotification
  <1>7. ASSUME NEW v \in Values, OnDiagnosticsStatusNotification(cp, v)
        PROVE  QuietStep \/ EntryStep(cp)
    BY <1>3, <1>4, <1>7 DEF OnDiagnosticsStatusNotification
  <1>8. ASSUME NEW v \in Values, OnFirmwareStatusNotification(cp, v)
        PROVE  QuietStep \/ EntryStep(cp)
    BY <1>3, <1>4, <1>8 DEF OnFirmwareStatusNotification
  <1>9. ASSUME NEW v \in Values, OnConfig(cp, v) PROVE QuietStep \/ EntryStep(cp)
    <2>1. cp \in connected
      BY <1>9 DEF OnConfig, IndInv, TypeOK
    <2> QED
      BY <1>3, <1>4, <1>9, <2>1 DEF OnConfig
  <1>10. ASSUME NEW v \in Values, NEW e \in Values, OnOwnStatusNotification(cp, v, e)
         PROVE  EntryStep(cp)
    <2> DEFINE mid == WithDetail(chargePoints[cp], "ErrorCode", e)
               new == WithDetail(mid, "Status", v)
    <2>1. chargePoints[cp] \in ChargePointState
      BY <1>10 DEF OnOwnStatusNotification, IndInv, TypeOK, Snapshots, Known
    <2>2. /\ mid \in ChargePointState
          /\ mid.Transactions = chargePoints[cp].Transactions
          /\ mid.Connectors = chargePoints[cp].Connectors
      BY <2>1, PutDetail
    <2> HIDE DEF mid
    <2>3. /\ new \in ChargePointState
          /\ new.Transactions = mid.Transactions
          /\ new.Connectors = mid.Connectors
      BY <2>2, PutDetail
    <2>4. SameLedger(chargePoints[cp], new)
      BY <2>2, <2>3 DEF SameLedger, CurrentOf
    <2>5. GoodUpdate(chargePoints[cp], new, nextTransactionId, nextTransactionId)
      BY <1>10, <2>3, <2>4, SameLedgerIsGood DEF OnOwnStatusNotification
    <2> HIDE DEF new
    <2>6. SetInfo(cp, new)
      BY <1>10 DEF OnOwnStatusNotification, new, mid
    <2> QED
      BY <1>1, <1>10, <2>3, <2>5, <2>6 DEF EntryStep, OnOwnStatusNotification, IndInv, TypeOK
  <1>11. ASSUME NEW c \in ConnectorIds, NEW s \in Statuses, NEW v \in Values,
                OnStatusNotification(cp, c, s, v)
         PROVE  QuietStep \/ EntryStep(cp)
    <2>1. CASE ~Known(cp)
      BY <1>3, <1>11, <2>1 DEF OnStatusNotification
    <2>2. CASE Known(cp)
      <3> DEFINE info == WithDetail(chargePoints[cp], "ErrorCode", v)
                 new  == WithConnectorInfo(info, c, [getConnector(info, c) EXCEPT !.Status = s])
      <3>1. SetInfo(cp, new)
        BY <1>11, <2>2 DEF OnStatusNotification, ConnectorStatus
      <3>2. /\ new \in ChargePointState
            /\ GoodUpdate(chargePoints[cp], new, nextTransactionId, nextTransactionId)
        BY <2>2, StatusIsGood
      <3> HIDE DEF new
      <3> QED
        BY <1>1, <1>11, <2>2, <3>1, <3>2 DEF EntryStep, OnStatusNotification, IndInv, TypeOK
    <2> QED
      BY <2>1, <2>2
  <1>12. ASSUME NEW c \in ConnectorIds, NEW t \in TransactionIds, NEW m \in Measurements,
                OnMeterValues(cp, c, t, m)
         PROVE  QuietStep \/ EntryStep(cp)
    <2>1. CASE ~Known(cp)
      BY <1>3, <1>12, <2>1 DEF OnMeterValues
    <2>2. CASE Known(cp)
      <3> DEFINE new == processMeterValues(chargePoints[cp], c, t, m)
      <3>1. chargePoints[cp] \in ChargePointState
        BY <2>2 DEF IndInv, TypeOK, Snapshots, Known
      <3>2. new \in ChargePointState /\ SameLedger(chargePoints[cp], new)
        BY <3>1, MeterValuesKeepLedger
      <3>3. GoodUpdate(chargePoints[cp], new, nextTransactionId, nextTransactionId)
        BY <2>2, <3>2, SameLedgerIsGood
      <3>4. SetInfo(cp, new)
        BY <1>12, <2>2 DEF OnMeterValues
      <3> HIDE DEF new
      <3> QED
        BY <1>1, <1>12, <2>2, <3>2, <3>3, <3>4 DEF EntryStep, OnMeterValues, IndInv, TypeOK
    <2> QED
      BY <2>1, <2>2
  <1>13. ASSUME NEW c \in ConnectorIds, NEW s \in Stamps, OnStartTransaction(cp, c, s)
         PROVE  EntryStep(cp)
    <2> DEFINE t    == nextTransactionId
               info == chargePoints[cp]
               new  == StartedEntry(info, t, c, s)
    <2>1. new \in ChargePointState /\ GoodUpdate(info, new, t, t + 1)
      BY <1>13, StartIsGood DEF OnStartTransaction
    <2>2. SetInfo(cp, new)
      BY <1>13 DEF OnStartTransaction, StartedEntry
    <2> HIDE DEF new
    <2>3. t + 1 \in 0 .. MaxTransactions /\ t <= t + 1
      BY <1>1, <1>13, BoundsAssumption DEF OnStartTransaction
    <2> QED
      BY <1>13, <2>1, <2>2, <2>3 DEF EntryStep, OnStartTransaction, IndInv, TypeOK
  <1>14. ASSUME NEW t \in TransactionIds, NEW e \in Stamps, OnStopTransaction(cp, t, e)
         PROVE  EntryStep(cp)
    <2> DEFINE info == chargePoints[cp]
               new  == StoppedEntry(info, t, e)
    <2>1. /\ new \in ChargePointState
          /\ GoodUpdate(info, new, nextTransactionId, nextTransactionId)
      BY <1>14, StopIsGood DEF OnStopTransaction
    <2>2. SetInfo(cp, new)
      BY <1>14 DEF OnStopTransaction, StoppedEntry
    <2> HIDE DEF new
    <2> QED
      BY <1>1, <1>14, <2>1, <2>2 DEF EntryStep, OnStopTransaction, IndInv, TypeOK, Known, Recorded
  <1>15. ASSUME NEW c, OnStartTransactionRefused(cp, c) PROVE QuietStep
    BY <1>2, <1>15 DEF OnStartTransactionRefused
  <1>16. ASSUME NEW t, OnStopTransactionUnknown(cp, t) PROVE QuietStep
    BY <1>2, <1>16 DEF OnStopTransactionUnknown
  <1>17. CASE OnMeterValuesWithoutTransaction(cp)
    BY <1>17 DEF OnMeterValuesWithoutTransaction
  <1> QED
    BY <1>5, <1>6, <1>7, <1>8, <1>9, <1>10, <1>11, <1>12, <1>13, <1>14, <1>15, <1>16, <1>17
       DEF Request

\* Every step is of one of six kinds.
LEMMA StepKinds ==
    ASSUME IndInv, [Next]_vars
    PROVE  \/ QuietStep
           \/ \E cp \in ChargePoint : EntryStep(cp) \/ ChargePointDisconnected(cp)
           \/ Save \/ Stopped \/ Restart
  <1>1. CASE UNCHANGED vars
    BY <1>1 DEF vars, QuietStep, IndInv, TypeOK, Known
  <1>2. ASSUME NEW cp \in ChargePoint, NewChargePoint(cp)
        PROVE  QuietStep \/ EntryStep(cp)
    <2>1. CASE Known(cp)
      BY <1>2, <2>1 DEF NewChargePoint, QuietStep, IndInv, TypeOK, Known
    <2>2. CASE ~Known(cp)
      <3>1. /\ NewChargePointState \in ChargePointState
            /\ GoodUpdate(chargePoints[cp], NewChargePointState, nextTransactionId, nextTransactionId)
        BY <2>2, NewEntryIsGood DEF Known
      <3>2. nextTransactionId \in 0 .. MaxTransactions /\ nextTransactionId <= nextTransactionId
        BY BoundsAssumption DEF IndInv, TypeOK
      <3> QED
        BY <1>2, <2>2, <3>1, <3>2 DEF NewChargePoint, EntryStep, IndInv, TypeOK
    <2> QED
      BY <2>1, <2>2
  <1>3. ASSUME NEW cp \in ChargePoint, Request(cp)
        PROVE  QuietStep \/ EntryStep(cp) \/ Stopped
    BY <1>3, RequestKinds
  <1> QED
    BY <1>1, <1>2, <1>3 DEF Next, Crash

-----------------------------------------------------------------------------
(* Invariance *)

LEMMA InitEstablishes == Init => IndInv
  <1> SUFFICES ASSUME Init PROVE IndInv
    OBVIOUS
  <1>1. \A cp \in ChargePoint : chargePoints[cp] = Null
    BY DEF Init, NoChargePoints
  <1>2. TypeOK
    BY BoundsAssumption DEF Init, TypeOK, NoChargePoints, Snapshots
  <1>3. BusyConnectorHasOpenTransaction
    BY <1>1 DEF Init, BusyConnectorHasOpenTransaction, BusyIsOpen, Current
  <1>4. StoreAgreesWithMemory /\ IdsAreNotShared /\ IdsBelowNext
    BY <1>1 DEF Init, StoreAgreesWithMemory, IdsAreNotShared, OneOwner, IdsBelowNext, Recorded
  <1> QED
    BY <1>2, <1>3, <1>4 DEF IndInv

\* A disconnection removes one entry.
LEMMA DisconnectPreserves ==
    ASSUME IndInv, NEW cp \in ChargePoint, ChargePointDisconnected(cp)
    PROVE  IndInv'
  <1> USE DEF ChargePointDisconnected
  <1>1. /\ chargePoints' \in Snapshots
        /\ \A x \in ChargePoint :
              chargePoints'[x] = IF x = cp THEN Null ELSE chargePoints[x]
        /\ chargePoints # Null /\ chargePoints' # Null
    BY NullAssumption DEF IndInv, TypeOK, SetInfo, Snapshots
  <1>2. TypeOK'
    BY <1>1 DEF IndInv, TypeOK, Known
  <1>3. \A x \in ChargePoint, t \in TransactionIds :
           Recorded(chargePoints', x, t) =>
              Recorded(chargePoints, x, t) /\ chargePoints'[x] = chargePoints[x]
    BY <1>1 DEF Recorded
  <1>4. BusyConnectorHasOpenTransaction'
    <2> HIDE DEF ChargePointDisconnected
    <2>1. BusyIsOpen(chargePoints)'
      <3>1. BusyIsOpen(chargePoints)
        BY DEF IndInv, BusyConnectorHasOpenTransaction
      <3>2. \A x \in ChargePoint : chargePoints'[x] = Null \/ chargePoints'[x] = chargePoints[x]
        BY <1>1
      <3>3. ASSUME NEW x \in ChargePoint, NEW c \in ConnectorIds, chargePoints'[x] = chargePoints[x]
            PROVE  LET t == Current(chargePoints', x, c)
                   IN  t >= 0 => /\ Recorded(chargePoints', x, t)
                                 /\ chargePoints'[x].Transactions[t].ConnectorId = c
                                 /\ ~hasTransactionEnded(chargePoints'[x].Transactions[t])
        <4>1. Current(chargePoints', x, c) = Current(chargePoints, x, c)
          BY ONLY <3>3 DEF Current
        <4> QED
          BY ONLY <1>1, <3>1, <3>3, <4>1 DEF BusyIsOpen, Recorded
      <3>4. ASSUME NEW x \in ChargePoint, NEW c \in ConnectorIds, chargePoints'[x] = Null
            PROVE  ~(Current(chargePoints', x, c) >= 0)
        BY ONLY <3>4 DEF Current
      <3> QED
        BY ONLY <3>2, <3>3, <3>4 DEF BusyIsOpen
    <2> USE DEF ChargePointDisconnected
    <2>2. (db # Null => BusyIsOpen(db))'
      BY BusyCarriesOver DEF IndInv, BusyConnectorHasOpenTransaction
    <2> QED
      BY <2>1, <2>2 DEF BusyConnectorHasOpenTransaction
  <1>5. StoreAgreesWithMemory'
    BY <1>3 DEF IndInv, StoreAgreesWithMemory, Recorded, hasTransactionEnded
  <1>6. IdsAreNotShared'
    BY <1>3 DEF IndInv, IdsAreNotShared, OneOwner, Recorded
  <1>7. IdsBelowNext'
    BY <1>3 DEF IndInv, IdsBelowNext, Recorded
  <1> QED
    BY <1>2, <1>4, <1>5, <1>6, <1>7 DEF IndInv

\* A dump makes the row equal to the memory, or changes nothing.
LEMMA SavePreserves ==
    ASSUME IndInv, Save
    PROVE  IndInv'
  <1>1. TypeOK'
    BY DEF Save, IndInv, TypeOK, Known
  <1>2. CASE UNCHANGED db
    BY <1>1, <1>2, UntouchedPreserves DEF Save
  <1>3. CASE db' = chargePoints
    <2>1. chargePoints' = chargePoints /\ db' = chargePoints
          /\ nextTransactionId' = nextTransactionId /\ running' = running
      BY <1>3 DEF Save
    <2>2. BusyConnectorHasOpenTransaction'
      BY <2>1, BusyCarriesOver DEF IndInv, BusyConnectorHasOpenTransaction
    <2>3. StoreAgreesWithMemory'
      BY <2>1 DEF IndInv, StoreAgreesWithMemory, IdsAreNotShared, OneOwner, Recorded,
                  hasTransactionEnded
    <2>4. IdsAreNotShared'
      BY <2>1 DEF IndInv, IdsAreNotShared, OneOwner, Recorded
    <2>5. IdsBelowNext'
      BY <2>1 DEF IndInv, IdsBelowNext, Recorded
    <2> QED
      BY <1>1, <2>2, <2>3, <2>4, <2>5 DEF IndInv
  <1> QED
    BY <1>2, <1>3 DEF Save

\* Losing the memory keeps the invariant: it then speaks of the row alone.
LEMMA StoppedPreserves ==
    ASSUME IndInv, Stopped
    PROVE  IndInv'
  <1>1. \A cp \in ChargePoint : chargePoints'[cp] = Null
    BY DEF Stopped, NoChargePoints
  <1>2. TypeOK'
    <2>1. NoChargePoints \in Snapshots
      BY DEF NoChargePoints, Snapshots
    <2>2. 0 \in 0 .. MaxTransactions
      BY BoundsAssumption
    <2> QED
      BY <2>1, <2>2 DEF Stopped, IndInv, TypeOK, NoChargePoints
  <1>3. BusyConnectorHasOpenTransaction'
    <2>1. BusyIsOpen(chargePoints)'
      BY <1>1 DEF BusyIsOpen, Current
    <2>2. (db # Null => BusyIsOpen(db))'
      BY BusyCarriesOver DEF Stopped, IndInv, BusyConnectorHasOpenTransaction
    <2> QED
      BY <2>1, <2>2 DEF BusyConnectorHasOpenTransaction
  <1>4. StoreAgreesWithMemory' /\ IdsBelowNext'
    BY <1>1 DEF Stopped, StoreAgreesWithMemory, IdsBelowNext, Recorded
  <1>5. IdsAreNotShared'
    BY <1>1 DEF Stopped, IndInv, IdsAreNotShared, OneOwner, Recorded
  <1> QED
    BY <1>2, <1>3, <1>4, <1>5 DEF IndInv

\* The restart brings the row back and leaves the counter above its ids.
LEMMA RestartPreserves ==
    ASSUME IndInv, Restart
    PROVE  IndInv'
  <1>1. CASE db = Null
    <2>1. chargePoints' = chargePoints /\ nextTransactionId' = nextTransactionId
          /\ db' = Null /\ db = Null /\ chargePoints = NoChargePoints
      BY <1>1 DEF Restart, Restore, IndInv, TypeOK
    <2>2. \A cp \in ChargePoint : chargePoints'[cp] = Null
      BY <2>1 DEF NoChargePoints
    <2>3. TypeOK'
      BY <2>1 DEF Restart, IndInv, TypeOK
    <2>4. BusyConnectorHasOpenTransaction'
      BY <2>1, <2>2 DEF BusyConnectorHasOpenTransaction, BusyIsOpen, Current
    <2>5. StoreAgreesWithMemory' /\ IdsAreNotShared' /\ IdsBelowNext'
      BY <2>1, <2>2 DEF StoreAgreesWithMemory, IdsAreNotShared, OneOwner, IdsBelowNext, Recorded
    <2> QED
      BY <2>3, <2>4, <2>5 DEF IndInv
  <1>2. CASE db # Null
    <2>1. chargePoints' = db /\ db' = db /\ nextTransactionId' \in NextAfter(db)
      BY <1>2 DEF Restart, Restore
    <2>2. TypeOK'
      BY <1>2, <2>1 DEF Restart, IndInv, TypeOK, NextAfter
    <2>3. BusyIsOpen(db) /\ OneOwner(db)
      BY <1>2 DEF IndInv, BusyConnectorHasOpenTransaction, IdsAreNotShared
    <2>4. BusyConnectorHasOpenTransaction'
      BY <2>1, <2>3, BusyCarriesOver DEF BusyConnectorHasOpenTransaction
    <2>5. StoreAgreesWithMemory'
      BY <2>1, <2>3 DEF StoreAgreesWithMemory, OneOwner, Recorded, hasTransactionEnded
    <2>6. IdsAreNotShared'
      BY <2>1, <2>3 DEF IdsAreNotShared, OneOwner, Recorded
    <2>7. IdsBelowNext'
      BY <2>1 DEF NextAfter, IdsBelowNext, Recorded
    <2> QED
      BY <2>2, <2>4, <2>5, <2>6, <2>7 DEF IndInv
  <1> QED
    BY <1>1, <1>2

LEMMA NextPreserves == IndInv /\ [Next]_vars => IndInv'
  <1> SUFFICES ASSUME IndInv, [Next]_vars PROVE IndInv'
    OBVIOUS
  <1>1. CASE QuietStep
    BY <1>1, UntouchedPreserves DEF QuietStep
  <1>2. ASSUME NEW cp \in ChargePoint, EntryStep(cp) PROVE IndInv'
    BY <1>2, UpdatePreserves DEF EntryStep
  <1>3. ASSUME NEW cp \in ChargePoint, ChargePointDisconnected(cp) PROVE IndInv'
    BY <1>3, DisconnectPreserves
  <1> QED
    BY <1>1, <1>2, <1>3, StepKinds, SavePreserves, StoppedPreserves, RestartPreserves

\* The conjunction of the invariants is itself an invariant.
THEOREM Invariance == Spec => []IndInv
  BY InitEstablishes, NextPreserves, PTL DEF Spec

\* The state keeps the shape of the Go types.
THEOREM TypeCorrect == Spec => []TypeOK
  <1>1. IndInv => TypeOK
    BY DEF IndInv
  <1> QED
    BY <1>1, Invariance, PTL

\* A busy connector runs a recorded, unended transaction of its own, in memory
\* and in the database, for any number of charge points and connectors.
THEOREM BusyConnectors == Spec => []BusyConnectorHasOpenTransaction
  <1>1. IndInv => BusyConnectorHasOpenTransaction
    BY DEF IndInv
  <1> QED
    BY <1>1, Invariance, PTL

\* A transaction id means the same thing in memory and in the database.
THEOREM StoreAgreement == Spec => []StoreAgreesWithMemory
  <1>1. IndInv => StoreAgreesWithMemory
    BY DEF IndInv
  <1> QED
    BY <1>1, Invariance, PTL

\* No two charge points share a transaction id, and no recorded id is reissued
\* while the process runs.
THEOREM IdsUnique == Spec => [](IdsAreNotShared /\ IdsBelowNext)
  <1>1. IndInv => IdsAreNotShared /\ IdsBelowNext
    BY DEF IndInv
  <1> QED
    BY <1>1, Invariance, PTL

-----------------------------------------------------------------------------
(* What a request does to the ledger of its charge point *)

\* A step that replaces the entry of cp by one with the same ledger.
LedgerKept(cp) ==
    /\ Known(cp)
    /\ \E new \in ChargePointState :
          SameLedger(chargePoints[cp], new) /\ SetInfo(cp, new)
    /\ UNCHANGED <<db, running>>

\* A request leaves the entries alone, keeps the ledger of its charge point,
\* starts or stops a transaction, or ends the process.
LEMMA RequestUpdates ==
    ASSUME IndInv, NEW cp \in ChargePoint, Request(cp)
    PROVE  \/ UNCHANGED <<chargePoints, db, running>>
           \/ LedgerKept(cp)
           \/ running /\ Stopped
           \/ \E c \in ConnectorIds \ {0}, s \in Stamps : OnStartTransaction(cp, c, s)
           \/ \E t \in TransactionIds, e \in Stamps :
                 MaySendStop(cp, t) /\ OnStopTransaction(cp, t, e)
  <1> USE DEF Deliverable
  <1> DEFINE Settled == UNCHANGED <<chargePoints, db, running>> \/ LedgerKept(cp)
  <1>0. ASSUME Known(cp), NEW new \in ChargePointState, SameLedger(chargePoints[cp], new),
               SetInfo(cp, new), UNCHANGED <<db, running>>
        PROVE  Settled
    BY <1>0 DEF LedgerKept
  <1> HIDE DEF Settled
  <1>1. ASSUME UNCHANGED <<chargePoints, db, running>> PROVE Settled
    BY <1>1 DEF Settled
  <1>2. ASSUME UNCHANGED vars PROVE Settled
    BY <1>1, <1>2 DEF vars
  <1>3. ASSUME Known(cp) PROVE chargePoints[cp] \in ChargePointState
    BY <1>3 DEF IndInv, TypeOK, Snapshots, Known
  <1>4. ASSUME NEW d, NEW v \in Values, Known(cp),
               SetInfo(cp, WithDetail(chargePoints[cp], d, v)), UNCHANGED <<db, running>>
        PROVE  Settled
    <2> DEFINE new == WithDetail(chargePoints[cp], d, v)
    <2>1. /\ new \in ChargePointState
          /\ new.Transactions = chargePoints[cp].Transactions
          /\ new.Connectors = chargePoints[cp].Connectors
      BY <1>3, <1>4, PutDetail
    <2>2. SameLedger(chargePoints[cp], new)
      BY <2>1 DEF SameLedger, CurrentOf
    <2> QED
      BY <1>4, <2>1, <2>2, <1>0
  <1>5. CASE OnAuthorize(cp) \/ OnDataTransfer(cp) \/ OnHeartbeat(cp)
    BY <1>1, <1>5 DEF OnAuthorize, OnDataTransfer, OnHeartbeat, vars
  <1>6. ASSUME NEW v \in Values,
               \/ OnBootNotification(cp, v)
               \/ OnDiagnosticsStatusNotification(cp, v)
               \/ OnFirmwareStatusNotification(cp, v)
               \/ OnConfig(cp, v)
        PROVE  Settled
    BY <1>1, <1>4, <1>6 DEF OnBootNotification, OnDiagnosticsStatusNotification,
                            OnFirmwareStatusNotification, OnConfig
  <1>7. ASSUME NEW v \in Values, NEW e \in Values, OnOwnStatusNotification(cp, v, e)
        PROVE  Settled
    <2> DEFINE mid == WithDetail(chargePoints[cp], "ErrorCode", e)
               new == WithDetail(mid, "Status", v)
    <2>1. Known(cp) /\ SetInfo(cp, new) /\ UNCHANGED <<db, running>>
      BY <1>7 DEF OnOwnStatusNotification
    <2>2. /\ mid \in ChargePointState
          /\ mid.Transactions = chargePoints[cp].Transactions
          /\ mid.Connectors = chargePoints[cp].Connectors
      BY <1>3, <2>1, PutDetail
    <2> HIDE DEF mid
    <2>3. /\ new \in ChargePointState
          /\ new.Transactions = mid.Transactions
          /\ new.Connectors = mid.Connectors
      BY <2>2, PutDetail
    <2>4. SameLedger(chargePoints[cp], new)
      BY <2>2, <2>3 DEF SameLedger, CurrentOf
    <2> HIDE DEF new
    <2> QED
      BY <2>1, <2>3, <2>4, <1>0
  <1>8. ASSUME NEW c \in ConnectorIds, NEW s \in Statuses, NEW v \in Values,
               OnStatusNotification(cp, c, s, v), Known(cp)
        PROVE  Settled
    <2> DEFINE info == WithDetail(chargePoints[cp], "ErrorCode", v)
               ci   == [getConnector(info, c) EXCEPT !.Status = s]
               new  == WithConnectorInfo(info, c, ci)
    <2>1. SetInfo(cp, new) /\ UNCHANGED <<db, running>>
      BY <1>8 DEF OnStatusNotification, ConnectorStatus
    <2>2. /\ info \in ChargePointState
          /\ info.Transactions = chargePoints[cp].Transactions
          /\ info.Connectors = chargePoints[cp].Connectors
      BY <1>3, <1>8, PutDetail
    <2> HIDE DEF info
    <2>3. ci \in ConnectorInfo /\ ci.CurrentTransaction = CurrentOf(info, c)
      BY <2>2, GetConnector DEF ConnectorInfo
    <2> HIDE DEF ci
    <2>4. /\ new \in ChargePointState
          /\ new.Transactions = info.Transactions
          /\ \A x \in ConnectorIds : CurrentOf(new, x) = CurrentOf(info, x)
      BY <2>2, <2>3, PutConnector
    <2>5. SameLedger(chargePoints[cp], new)
      BY <2>2, <2>4 DEF SameLedger, CurrentOf
    <2> HIDE DEF new
    <2> QED
      BY <1>8, <2>1, <2>4, <2>5, <1>0
  <1>9. ASSUME NEW c \in ConnectorIds, NEW t \in TransactionIds, NEW m \in Measurements,
               OnMeterValues(cp, c, t, m), Known(cp)
        PROVE  Settled
    <2> DEFINE new == processMeterValues(chargePoints[cp], c, t, m)
    <2>1. SetInfo(cp, new) /\ UNCHANGED <<db, running>>
      BY <1>9 DEF OnMeterValues
    <2>2. new \in ChargePointState /\ SameLedger(chargePoints[cp], new)
      BY <1>3, <1>9, MeterValuesKeepLedger
    <2> HIDE DEF new
    <2> QED
      BY <1>9, <2>1, <2>2, <1>0
  <1>10. ASSUME NEW c, NEW s, NEW v, NEW t, NEW m, ~Known(cp),
                OnStatusNotification(cp, c, s, v) \/ OnMeterValues(cp, c, t, m)
         PROVE  Settled
    BY <1>1, <1>10 DEF OnStatusNotification, OnMeterValues
  <1>11. ASSUME NEW c, NEW t, OnStartTransactionRefused(cp, c) \/ OnStopTransactionUnknown(cp, t)
         PROVE  Settled
    BY <1>2, <1>11 DEF OnStartTransactionRefused, OnStopTransactionUnknown
  <1>12. CASE OnMeterValuesWithoutTransaction(cp)
    BY <1>12 DEF OnMeterValuesWithoutTransaction
  <1> QED
    BY <1>5, <1>6, <1>7, <1>8, <1>9, <1>10, <1>11, <1>12 DEF Request, Settled

-----------------------------------------------------------------------------
(* What a step never does *)

\* The body of NoTakeover and of TransactionsOnlyGrow, for one charge point.
LEMMA StepsKeepTransactions ==
    ASSUME IndInv, [Next]_vars, NEW cp \in ChargePoint, Known(cp), Known(cp)'
    PROVE  /\ \A c \in ConnectorIds : Current(chargePoints, cp, c) >= 0 =>
                  Current(chargePoints, cp, c)' \in {Current(chargePoints, cp, c), -1}
           /\ \A t \in TransactionIds : chargePoints[cp].Transactions[t] # Null =>
                  LET old == chargePoints[cp].Transactions[t]
                      new == chargePoints'[cp].Transactions[t]
                  IN  /\ new # Null
                      /\ new.ConnectorId = old.ConnectorId /\ new.Start = old.Start
                      /\ old.End # Null => new.End # Null
  <1>1. CASE chargePoints'[cp] = chargePoints[cp]
    BY <1>1 DEF Current
  <1>2. ASSUME EntryStep(cp), chargePoints'[cp] # chargePoints[cp]
        PROVE  \E info \in ChargePointState :
                 /\ chargePoints'[cp] = info
                 /\ GoodUpdate(chargePoints[cp], info, nextTransactionId, nextTransactionId')
    BY <1>2 DEF EntryStep, SetInfo, IndInv, TypeOK, Snapshots
  <1>3. ASSUME NEW info \in ChargePointState, chargePoints'[cp] = info,
               GoodUpdate(chargePoints[cp], info, nextTransactionId, nextTransactionId')
        PROVE  /\ \A c \in ConnectorIds : Current(chargePoints, cp, c) >= 0 =>
                      Current(chargePoints, cp, c)' \in {Current(chargePoints, cp, c), -1}
               /\ \A t \in TransactionIds : chargePoints[cp].Transactions[t] # Null =>
                      LET old == chargePoints[cp].Transactions[t]
                          new == chargePoints'[cp].Transactions[t]
                      IN  /\ new # Null
                          /\ new.ConnectorId = old.ConnectorId /\ new.Start = old.Start
                          /\ old.End # Null => new.End # Null
    <2>1. \A c \in ConnectorIds : /\ Current(chargePoints, cp, c) = CurrentOf(chargePoints[cp], c)
                                  /\ Current(chargePoints, cp, c)' = CurrentOf(info, c)
      BY <1>3 DEF Current, CurrentOf, Known
    <2> QED
      BY <1>3, <2>1 DEF GoodUpdate, Known
  <1>4. ASSUME NEW x \in ChargePoint, EntryStep(x), x # cp
        PROVE  chargePoints'[cp] = chargePoints[cp]
    BY <1>4 DEF EntryStep, SetInfo
  <1>5. ASSUME NEW x \in ChargePoint, ChargePointDisconnected(x)
        PROVE  chargePoints'[cp] = chargePoints[cp]
    <2>1. chargePoints' = [chargePoints EXCEPT ![x] = Null] /\ chargePoints \in Snapshots
      BY <1>5 DEF ChargePointDisconnected, SetInfo, IndInv, TypeOK
    <2> QED
      BY <2>1 DEF Snapshots, Known
  <1>6. QuietStep \/ Save => chargePoints'[cp] = chargePoints[cp]
    BY DEF QuietStep, Save
  <1>7. ~Stopped /\ ~Restart
    <2>1. ~Stopped
      BY DEF Stopped, NoChargePoints, Known
    <2>2. ~running => chargePoints = NoChargePoints
      BY DEF IndInv, TypeOK
    <2>3. running
      BY <2>2 DEF NoChargePoints, Known
    <2> QED
      BY <2>1, <2>3 DEF Restart
  <1> QED
    BY <1>1, <1>2, <1>3, <1>4, <1>5, <1>6, <1>7, StepKinds

\* No step replaces a connector's current transaction by another one.
THEOREM TakeoverFree == Spec => NoTakeover
  <1>1. IndInv /\ [Next]_vars =>
          [\A cp \in ChargePoint, c \in ConnectorIds :
             (Known(cp) /\ Known(cp)' /\ Current(chargePoints, cp, c) >= 0) =>
                Current(chargePoints, cp, c)' \in {Current(chargePoints, cp, c), -1}]_vars
    BY StepsKeepTransactions
  <1> QED
    BY <1>1, Invariance, PTL DEF Spec, NoTakeover

\* No callback loses a transaction, alters its start or reopens it.
THEOREM TransactionsGrow == Spec => TransactionsOnlyGrow
  <1>1. IndInv /\ [Next]_vars =>
          [\A cp \in ChargePoint, t \in TransactionIds :
             (Recorded(chargePoints, cp, t) /\ Known(cp)') =>
                LET old == chargePoints[cp].Transactions[t]
                    new == chargePoints'[cp].Transactions[t]
                IN  /\ new # Null
                    /\ new.ConnectorId = old.ConnectorId /\ new.Start = old.Start
                    /\ hasTransactionEnded(old) => hasTransactionEnded(new)]_vars
    BY StepsKeepTransactions DEF Recorded, Known, hasTransactionEnded
  <1> QED
    BY <1>1, Invariance, PTL DEF Spec, TransactionsOnlyGrow

\* The body of RestoredEntryKept: only a connected charge point's entry, or one
\* that is new, is replaced.
LEMMA StepsKeepRestored ==
    ASSUME IndInv, [Next]_vars, NEW cp \in ChargePoint, Known(cp), running', cp \notin connected
    PROVE  chargePoints'[cp] = chargePoints[cp]
  <1>1. ASSUME NEW x \in ChargePoint, x # cp, NEW info, SetInfo(x, info)
        PROVE  chargePoints'[cp] = chargePoints[cp]
    BY <1>1 DEF SetInfo, IndInv, TypeOK, Snapshots
  <1>2. ASSUME NEW x \in ChargePoint, EntryStep(x)
        PROVE  chargePoints'[cp] = chargePoints[cp]
    BY <1>1, <1>2 DEF EntryStep
  <1>3. ASSUME NEW x \in ChargePoint, ChargePointDisconnected(x)
        PROVE  chargePoints'[cp] = chargePoints[cp]
    BY <1>1, <1>3 DEF ChargePointDisconnected
  <1>4. ~Stopped /\ ~Restart
    BY DEF Stopped, Restart, IndInv, TypeOK, NoChargePoints, Known
  <1>5. QuietStep \/ Save => chargePoints'[cp] = chargePoints[cp]
    BY DEF QuietStep, Save
  <1> QED
    BY <1>2, <1>3, <1>4, <1>5, StepKinds

\* What Restore brought back waits unchanged for its charge point.
THEOREM RestoredKept == Spec => RestoredEntryKept
  <1>1. IndInv /\ [Next]_vars =>
          [\A cp \in ChargePoint :
             (Known(cp) /\ running' /\ cp \notin connected) =>
                chargePoints'[cp] = chargePoints[cp]]_vars
    BY StepsKeepRestored
  <1> QED
    BY <1>1, Invariance, PTL DEF Spec, RestoredEntryKept

-----------------------------------------------------------------------------
(* What has not ended is current, if no stop is repeated *)

\* In one entry: a transaction that has not ended is the current transaction of
\* its connector.
OpenIsCurrent(info) ==
    \A t \in TransactionIds : info.Transactions[t] # Null =>
        info.Transactions[t].End # Null \/ CurrentOf(info, info.Transactions[t].ConnectorId) = t

\* In every entry of a snapshot.  The row is included: a restart makes it the
\* memory.
OngoingIn(s) == \A cp \in ChargePoint : s[cp] # Null => OpenIsCurrent(s[cp])

OngoingInv == OngoingIn(chargePoints) /\ (db # Null => OngoingIn(db))

\* It depends on the ledger only.
LEMMA SameLedgerKeepsOpen ==
    ASSUME NEW info \in ChargePointState, NEW new, SameLedger(info, new), OpenIsCurrent(info)
    PROVE  OpenIsCurrent(new)
  <1> SUFFICES ASSUME NEW t \in TransactionIds, new.Transactions[t] # Null
               PROVE  new.Transactions[t].End # Null
                        \/ CurrentOf(new, new.Transactions[t].ConnectorId) = t
    BY DEF OpenIsCurrent
  <1>1. /\ info.Transactions[t] # Null
        /\ new.Transactions[t].ConnectorId = info.Transactions[t].ConnectorId
        /\ new.Transactions[t].End = info.Transactions[t].End
    BY DEF SameLedger
  <1>2. info.Transactions[t].ConnectorId \in ConnectorIds
    BY <1>1 DEF ChargePointState, TransactionInfo
  <1> QED
    BY <1>1, <1>2 DEF SameLedger, OpenIsCurrent

\* A start on a free connector: the connector has no open transaction that could
\* lose its place.
LEMMA StartKeepsOpen ==
    ASSUME NEW info \in ChargePointState, NEW t \in TransactionIds,
           NEW c \in ConnectorIds, NEW s \in Stamps,
           ~hasTransactionInProgress(getConnector(info, c)), OpenIsCurrent(info)
    PROVE  OpenIsCurrent(StartedEntry(info, t, c, s))
  <1> DEFINE ti  == StartedTransaction(c, s)
             new == StartedEntry(info, t, c, s)
  <1>1. CurrentOf(info, c) < 0
    BY GetConnector DEF hasTransactionInProgress, TransactionIds
  <1>2. /\ \A d \in ConnectorIds : CurrentOf(new, d) = IF d = c THEN t ELSE CurrentOf(info, d)
        /\ \A u \in TransactionIds :
              new.Transactions[u] = IF u = t THEN ti ELSE info.Transactions[u]
        /\ ti.ConnectorId = c
    BY StartEntry
  <1> HIDE DEF new, ti
  <1>3. ASSUME NEW u \in TransactionIds, u # t, info.Transactions[u] # Null,
               info.Transactions[u].End = Null
        PROVE  CurrentOf(new, info.Transactions[u].ConnectorId) = u
    <2>1. CurrentOf(info, info.Transactions[u].ConnectorId) = u
      BY <1>3 DEF OpenIsCurrent
    <2>2. info.Transactions[u].ConnectorId \in ConnectorIds
      BY <1>3 DEF ChargePointState, TransactionInfo
    <2> QED
      BY <1>1, <1>2, <2>1, <2>2 DEF TransactionIds
  <1>4. OpenIsCurrent(new)
    BY <1>2, <1>3 DEF OpenIsCurrent
  <1> QED
    BY <1>4 DEF new

\* The stop of a transaction that has not ended frees its own connector, on
\* which no other transaction is open.
LEMMA StopKeepsOpen ==
    ASSUME NEW info \in ChargePointState, NEW t \in TransactionIds,
           info.Transactions[t] # Null, info.Transactions[t].End = Null,
           NEW e \in Stamps, OpenIsCurrent(info)
    PROVE  OpenIsCurrent(StoppedEntry(info, t, e))
  <1> DEFINE c   == info.Transactions[t].ConnectorId
             ti  == [info.Transactions[t] EXCEPT !.End = e]
             new == StoppedEntry(info, t, e)
  <1>1. CurrentOf(info, c) = t
    BY DEF OpenIsCurrent
  <1>2. /\ \A d \in ConnectorIds : CurrentOf(new, d) = IF d = c THEN -1 ELSE CurrentOf(info, d)
        /\ \A u \in TransactionIds :
              new.Transactions[u] = IF u = t THEN ti ELSE info.Transactions[u]
        /\ ti.End # Null
    BY StopEntry
  <1> HIDE DEF new, ti, c
  <1>3. ASSUME NEW u \in TransactionIds, u # t, info.Transactions[u] # Null,
               info.Transactions[u].End = Null
        PROVE  CurrentOf(new, info.Transactions[u].ConnectorId) = u
    <2>1. CurrentOf(info, info.Transactions[u].ConnectorId) = u
      BY <1>3 DEF OpenIsCurrent
    <2>2. info.Transactions[u].ConnectorId \in ConnectorIds
      BY <1>3 DEF ChargePointState, TransactionInfo
    <2> QED
      BY <1>1, <1>2, <1>3, <2>1, <2>2
  <1>4. OpenIsCurrent(new)
    BY <1>2, <1>3 DEF OpenIsCurrent
  <1> QED
    BY <1>4 DEF new

\* Replacing one entry by such an entry, or by none, keeps the snapshot so.
LEMMA SetInfoKeepsOngoing ==
    ASSUME IndInv, OngoingInv, NEW cp \in ChargePoint, NEW info, SetInfo(cp, info),
           info # Null => OpenIsCurrent(info), UNCHANGED db
    PROVE  OngoingInv'
  <1>1. \A x \in ChargePoint : chargePoints'[x] = IF x = cp THEN info ELSE chargePoints[x]
    BY DEF SetInfo, IndInv, TypeOK, Snapshots
  <1>2. OngoingIn(chargePoints')
    BY <1>1 DEF OngoingInv, OngoingIn
  <1>3. db # Null => OngoingIn(db')
    BY DEF OngoingInv
  <1> QED
    BY <1>2, <1>3 DEF OngoingInv, OngoingIn, OpenIsCurrent, CurrentOf

LEMMA RequestKeepsOngoing ==
    ASSUME StopsRepeat = FALSE, IndInv, OngoingInv, NEW cp \in ChargePoint, Request(cp)
    PROVE  OngoingInv'
  <1>1. ASSUME Known(cp)
        PROVE  chargePoints[cp] \in ChargePointState /\ OpenIsCurrent(chargePoints[cp])
    BY <1>1 DEF IndInv, TypeOK, Snapshots, Known, OngoingInv, OngoingIn
  <1>2. CASE UNCHANGED <<chargePoints, db, running>>
    BY <1>2 DEF OngoingInv, OngoingIn, OpenIsCurrent, CurrentOf
  <1>3. CASE LedgerKept(cp)
    BY <1>1, <1>3, SameLedgerKeepsOpen, SetInfoKeepsOngoing DEF LedgerKept
  <1>4. CASE Stopped
    BY <1>4 DEF Stopped, NoChargePoints, OngoingInv, OngoingIn, OpenIsCurrent, CurrentOf
  <1>5. ASSUME NEW c \in ConnectorIds, NEW s \in Stamps, OnStartTransaction(cp, c, s)
        PROVE  OngoingInv'
    <2> DEFINE t    == nextTransactionId
               info == chargePoints[cp]
               new  == StartedEntry(info, t, c, s)
    <2>1. /\ Known(cp) /\ t \in TransactionIds
          /\ ~hasTransactionInProgress(getConnector(info, c))
          /\ SetInfo(cp, new) /\ UNCHANGED db
      BY <1>5, BoundsAssumption DEF StartedEntry, OnStartTransaction, IndInv, TypeOK, TransactionIds
    <2>2. OpenIsCurrent(new)
      BY <1>1, <2>1, StartKeepsOpen
    <2> HIDE DEF new
    <2> QED
      BY <2>1, <2>2, SetInfoKeepsOngoing
  <1>6. ASSUME NEW t \in TransactionIds, NEW e \in Stamps,
               MaySendStop(cp, t), OnStopTransaction(cp, t, e)
        PROVE  OngoingInv'
    <2> DEFINE info == chargePoints[cp]
               new  == StoppedEntry(info, t, e)
    <2>1. /\ Known(cp) /\ info.Transactions[t] # Null /\ info.Transactions[t].End = Null
          /\ SetInfo(cp, new) /\ UNCHANGED db
      BY <1>6 DEF StoppedEntry, OnStopTransaction, MaySendStop, Recorded, Known, hasTransactionEnded
    <2>2. OpenIsCurrent(new)
      BY <1>1, <2>1, StopKeepsOpen
    <2> HIDE DEF new
    <2> QED
      BY <2>1, <2>2, SetInfoKeepsOngoing
  <1> QED
    BY <1>2, <1>3, <1>4, <1>5, <1>6, RequestUpdates

LEMMA NextKeepsOngoing ==
    ASSUME StopsRepeat = FALSE, IndInv, OngoingInv, [Next]_vars
    PROVE  OngoingInv'
  <1> USE DEF OngoingInv, OngoingIn
  <1>1. CASE UNCHANGED <<chargePoints, db>>
    BY <1>1 DEF OpenIsCurrent, CurrentOf
  <1> HIDE DEF OngoingInv, OngoingIn
  <1>2. ASSUME NEW cp \in ChargePoint, NewChargePoint(cp) PROVE OngoingInv'
    <2>1. OpenIsCurrent(NewChargePointState)
      BY DEF OpenIsCurrent, NewChargePointState
    <2> QED
      BY <1>1, <1>2, <2>1, SetInfoKeepsOngoing DEF NewChargePoint
  <1>3. ASSUME NEW cp \in ChargePoint, ChargePointDisconnected(cp) PROVE OngoingInv'
    BY <1>3, SetInfoKeepsOngoing DEF ChargePointDisconnected
  <1>4. CASE Save /\ db' = chargePoints
    BY <1>4 DEF Save, OngoingInv, OngoingIn, OpenIsCurrent, CurrentOf
  <1>5. CASE Save /\ UNCHANGED db
    BY <1>1, <1>5 DEF Save
  <1>6. CASE Crash
    BY <1>6 DEF Crash, Stopped, NoChargePoints, OngoingInv, OngoingIn, OpenIsCurrent, CurrentOf
  <1>7. CASE Restart
    BY <1>7 DEF Restart, Restore, OngoingInv, OngoingIn, OpenIsCurrent, CurrentOf
  <1>8. CASE UNCHANGED vars
    BY <1>1, <1>8 DEF vars
  <1>9. Save => db' = chargePoints \/ UNCHANGED db
    BY DEF Save
  <1> QED
    BY <1>2, <1>3, <1>4, <1>5, <1>6, <1>7, <1>8, <1>9, RequestKeepsOngoing DEF Next

\* As long as no charge point repeats a stop that was handled, a transaction
\* that has not ended is its connector's current one.  Without the assumption
\* it is false: the run CentralSystemRepeatedStop shows how.
THEOREM OngoingIsCurrent ==
    ASSUME StopsRepeat = FALSE
    PROVE  Spec => []OngoingTransactionIsCurrent
  <1>1. Init => OngoingInv
    BY DEF Init, NoChargePoints, OngoingInv, OngoingIn
  <1>2. IndInv /\ OngoingInv /\ [Next]_vars => OngoingInv'
    BY NextKeepsOngoing
  <1>3. IndInv /\ OngoingInv => OngoingTransactionIsCurrent
    <2> SUFFICES ASSUME OngoingInv, NEW cp \in ChargePoint, NEW t \in TransactionIds,
                        Recorded(chargePoints, cp, t)
                 PROVE  LET ti == chargePoints[cp].Transactions[t]
                        IN  ti.End # Null \/ Current(chargePoints, cp, ti.ConnectorId) = t
      BY DEF OngoingTransactionIsCurrent, hasTransactionEnded
    <2> QED
      BY DEF OngoingInv, OngoingIn, OpenIsCurrent, Recorded, Current, CurrentOf
  <1> QED
    BY <1>1, <1>2, <1>3, Invariance, PTL DEF Spec

-----------------------------------------------------------------------------
(* CentralSystem implements TransactionLedger *)

\* What an entry contributes to the ledger.
EntryIn(info, t) ==
    IF info = Null \/ info.Transactions[t] = Null THEN Null
    ELSE [Place |-> info.Transactions[t].ConnectorId, Opening |-> info.Transactions[t].Start,
          Ended |-> info.Transactions[t].End # Null]

LEMMA EntryOfSnapshot ==
    ASSUME NEW s \in Snapshots, NEW cp \in ChargePoint, NEW t \in TransactionIds
    PROVE  EntryOf(s, cp, t) = EntryIn(s[cp], t)
  BY NullAssumption DEF EntryOf, EntryIn, Recorded, hasTransactionEnded

\* Replacing the entry of cp changes its row of the ledger.
LEMMA LedgerAfterSetInfo ==
    ASSUME IndInv, NEW cp \in ChargePoint, NEW info \in ChargePointState \cup {Null},
           SetInfo(cp, info)
    PROVE  LedgerOf(chargePoints)' = [LedgerOf(chargePoints) EXCEPT ![cp] =
                                        [t \in TransactionIds |-> EntryIn(info, t)]]
  <1>1. chargePoints \in Snapshots /\ chargePoints' \in Snapshots
    BY DEF SetInfo, IndInv, TypeOK, Snapshots
  <1>2. \A x \in ChargePoint : chargePoints'[x] = IF x = cp THEN info ELSE chargePoints[x]
    BY <1>1 DEF SetInfo, Snapshots
  <1>3. LedgerOf(chargePoints)' =
          [x \in ChargePoint |-> [t \in TransactionIds |-> EntryOf(chargePoints', x, t)]]
    BY DEF LedgerOf, EntryOf, Recorded, hasTransactionEnded
  <1>4. \A x \in ChargePoint, t \in TransactionIds :
          EntryOf(chargePoints', x, t)
             = IF x = cp THEN EntryIn(info, t) ELSE EntryOf(chargePoints, x, t)
    BY <1>1, <1>2, EntryOfSnapshot
  <1> QED
    BY <1>3, <1>4 DEF LedgerOf

LedgerStep == [Ledger!Next]_(Ledger!ledgerVars)

\* A step that changes neither ledger is a stutter of the abstract one.
LEMMA LedgerStutters ==
    ASSUME LedgerOf(chargePoints)' = LedgerOf(chargePoints), LedgerOf(db)' = LedgerOf(db),
           running' = running
    PROVE  LedgerStep
  BY DEF LedgerStep, Ledger!ledgerVars

\* What is not touched keeps its ledger.
LEMMA LedgerCarriesOver ==
    /\ chargePoints' = chargePoints => LedgerOf(chargePoints)' = LedgerOf(chargePoints)
    /\ db' = db => LedgerOf(db)' = LedgerOf(db)
    /\ db' = chargePoints => LedgerOf(db)' = LedgerOf(chargePoints)
    /\ chargePoints' = db => LedgerOf(chargePoints)' = LedgerOf(db)
  BY DEF LedgerOf, EntryOf, Recorded, hasTransactionEnded

\* An entry with the same records is a stutter.
LEMMA SameLedgerStutters ==
    ASSUME IndInv, NEW cp \in ChargePoint, Known(cp), NEW info \in ChargePointState,
           SameLedger(chargePoints[cp], info), SetInfo(cp, info), UNCHANGED <<db, running>>
    PROVE  LedgerStep
  <1>1. chargePoints \in Snapshots /\ chargePoints[cp] # Null /\ info # Null
    BY NullAssumption DEF IndInv, TypeOK, Known
  <1>2. \A t \in TransactionIds : EntryIn(info, t) = EntryIn(chargePoints[cp], t)
    BY <1>1 DEF SameLedger, EntryIn
  <1>3. [t \in TransactionIds |-> EntryIn(info, t)] = LedgerOf(chargePoints)[cp]
    BY <1>1, <1>2, EntryOfSnapshot DEF LedgerOf
  <1>4. LedgerOf(chargePoints)' = [LedgerOf(chargePoints) EXCEPT ![cp] = LedgerOf(chargePoints)[cp]]
    BY <1>3, LedgerAfterSetInfo
  <1>5. LedgerOf(chargePoints)' = LedgerOf(chargePoints)
    BY <1>4 DEF LedgerOf
  <1> QED
    BY <1>5, LedgerCarriesOver, LedgerStutters

\* A new charge point's empty entry is as good as none.
LEMMA NewEntryStutters ==
    ASSUME IndInv, NEW cp \in ChargePoint, ~Known(cp), SetInfo(cp, NewChargePointState),
           UNCHANGED <<db, running>>
    PROVE  LedgerStep
  <1>1. chargePoints \in Snapshots /\ chargePoints[cp] = Null
    BY DEF IndInv, TypeOK, Known
  <1>2. \A t \in TransactionIds :
           EntryIn(NewChargePointState, t) = EntryIn(chargePoints[cp], t)
    BY <1>1 DEF EntryIn, NewChargePointState
  <1>3. [t \in TransactionIds |-> EntryIn(NewChargePointState, t)] = LedgerOf(chargePoints)[cp]
    BY <1>1, <1>2, EntryOfSnapshot DEF LedgerOf
  <1>4. NewChargePointState \in ChargePointState
    BY NewEntryIsGood
  <1>5. LedgerOf(chargePoints)' = [LedgerOf(chargePoints) EXCEPT ![cp] = LedgerOf(chargePoints)[cp]]
    BY <1>3, <1>4, LedgerAfterSetInfo
  <1>6. LedgerOf(chargePoints)' = LedgerOf(chargePoints)
    BY <1>5 DEF LedgerOf
  <1> QED
    BY <1>6, LedgerCarriesOver, LedgerStutters

\* OnStartTransaction begins a transaction under an id that is used nowhere.
LEMMA StartBegins ==
    ASSUME IndInv, NEW cp \in ChargePoint, NEW c \in ConnectorIds, NEW s \in Stamps,
           OnStartTransaction(cp, c, s)
    PROVE  LedgerStep
  <1> DEFINE n    == nextTransactionId
             info == chargePoints[cp]
             ti   == StartedTransaction(c, s)
             new  == StartedEntry(info, n, c, s)
  <1>1. /\ running /\ Known(cp) /\ n \in TransactionIds
        /\ ~hasTransactionInProgress(getConnector(info, c)) /\ n < MaxTransactions
        /\ SetInfo(cp, new) /\ UNCHANGED <<db, running>>
    BY BoundsAssumption DEF StartedEntry, OnStartTransaction, Deliverable, IndInv, TypeOK, TransactionIds
  <1>2. new \in ChargePointState
    BY <1>1, StartIsGood
  <1>3. chargePoints \in Snapshots /\ info \in ChargePointState /\ info # Null
    BY <1>1 DEF IndInv, TypeOK, Snapshots, Known
  <1> HIDE DEF info
  <1>6. \A t \in TransactionIds :
           new.Transactions[t] = IF t = n THEN ti ELSE info.Transactions[t]
    BY <1>1, <1>3, StartEntry
  <1>7. ti # Null /\ ti.ConnectorId = c /\ ti.Start = s /\ ti.End = Null
    <2>1. ti \in TransactionInfo
      BY DEF StartedTransaction, TransactionInfo
    <2> QED
      BY <2>1, NullAssumption DEF StartedTransaction
  <1>8. new # Null
    BY <1>2, NullAssumption
  <1> HIDE DEF new, ti
  <1>9. \A t \in TransactionIds :
           EntryIn(new, t) = IF t = n THEN [Place |-> c, Opening |-> s, Ended |-> FALSE]
                             ELSE EntryIn(info, t)
    BY <1>3, <1>6, <1>7, <1>8 DEF EntryIn
  <1>10. LedgerOf(chargePoints)' = [LedgerOf(chargePoints) EXCEPT ![cp] =
                                      [t \in TransactionIds |-> EntryIn(new, t)]]
    BY <1>1, <1>2, LedgerAfterSetInfo
  <1>11. \A t \in TransactionIds : LedgerOf(chargePoints)[cp][t] = EntryIn(info, t)
    BY <1>3, EntryOfSnapshot DEF LedgerOf, info
  <1>12. LedgerOf(chargePoints)' = [LedgerOf(chargePoints) EXCEPT ![cp][n] =
                                      [Place |-> c, Opening |-> s, Ended |-> FALSE]]
    <2>1. [t \in TransactionIds |-> EntryIn(new, t)]
             = [LedgerOf(chargePoints)[cp] EXCEPT ![n] =
                  [Place |-> c, Opening |-> s, Ended |-> FALSE]]
      BY <1>1, <1>9, <1>11 DEF LedgerOf
    <2> QED
      BY <1>10, <2>1
  <1>13. ~Ledger!Used(n)
    <2>1. \A x \in ChargePoint : ~Recorded(chargePoints, x, n) /\ ~Recorded(db, x, n)
      BY <1>1, BoundsAssumption DEF IndInv, IdsBelowNext, TypeOK
    <2> QED
      BY <1>1, <2>1 DEF Ledger!Used, LedgerOf, EntryOf
  <1>14. Ledger!Begin(cp, n, c, s)
    BY <1>1, <1>12, <1>13, LedgerCarriesOver DEF Ledger!Begin
  <1> QED
    BY <1>1, <1>14 DEF LedgerStep, Ledger!Next

\* OnStopTransaction ends one, perhaps again.
LEMMA StopEnds ==
    ASSUME IndInv, NEW cp \in ChargePoint, NEW i \in TransactionIds, NEW e \in Stamps,
           OnStopTransaction(cp, i, e)
    PROVE  LedgerStep
  <1> DEFINE info == chargePoints[cp]
             ti   == [info.Transactions[i] EXCEPT !.End = e]
             new  == StoppedEntry(info, i, e)
  <1>1. /\ running /\ Recorded(chargePoints, cp, i)
        /\ UNCHANGED <<db, running>>
    BY DEF OnStopTransaction, Deliverable
  <1>set. SetInfo(cp, new)
    BY DEF OnStopTransaction, StoppedEntry
  <1>2. new \in ChargePointState /\ GoodUpdate(info, new, nextTransactionId, nextTransactionId)
    BY <1>1, StopIsGood
  <1>3. /\ chargePoints \in Snapshots /\ info \in ChargePointState /\ info # Null
        /\ info.Transactions[i] # Null
    BY <1>1 DEF IndInv, TypeOK, Snapshots, Recorded
  <1>4. info.Transactions[i] \in TransactionInfo
    BY <1>3 DEF ChargePointState
  <1> HIDE DEF info
  <1>7. \A t \in TransactionIds :
           new.Transactions[t] = IF t = i THEN ti ELSE info.Transactions[t]
    BY <1>3, StopEntry
  <1>8. /\ ti # Null /\ ti.ConnectorId = info.Transactions[i].ConnectorId
        /\ ti.Start = info.Transactions[i].Start /\ ti.End # Null
    <2>1. ti \in TransactionInfo /\ e # Null
      BY <1>4, NullAssumption DEF TransactionInfo
    <2> QED
      BY <1>4, <2>1, NullAssumption DEF TransactionInfo
  <1>9. new # Null
    BY <1>2, NullAssumption
  <1> HIDE DEF new, ti
  <1>10. \A t \in TransactionIds :
           EntryIn(new, t) = IF t = i THEN [EntryIn(info, i) EXCEPT !.Ended = TRUE]
                             ELSE EntryIn(info, t)
    BY <1>3, <1>7, <1>8, <1>9 DEF EntryIn
  <1>11. LedgerOf(chargePoints)' = [LedgerOf(chargePoints) EXCEPT ![cp] =
                                      [t \in TransactionIds |-> EntryIn(new, t)]]
    BY <1>set, <1>2, LedgerAfterSetInfo
  <1>12. \A t \in TransactionIds : LedgerOf(chargePoints)[cp][t] = EntryIn(info, t)
    BY <1>3, EntryOfSnapshot DEF LedgerOf, info
  <1>13. LedgerOf(chargePoints)' = [LedgerOf(chargePoints) EXCEPT ![cp][i].Ended = TRUE]
    <2>1. [t \in TransactionIds |-> EntryIn(new, t)]
             = [LedgerOf(chargePoints)[cp] EXCEPT ![i] =
                  [LedgerOf(chargePoints)[cp][i] EXCEPT !.Ended = TRUE]]
      BY <1>10, <1>12 DEF LedgerOf
    <2> QED
      BY <1>11, <2>1
  <1>14. LedgerOf(chargePoints)[cp][i] # Null
    <2>1. EntryIn(info, i) \in Ledger!Entries
      BY <1>3, <1>4 DEF EntryIn, Ledger!Entries, TransactionInfo
    <2> QED
      BY <1>12, <2>1, LedgerAssumption
  <1>15. Ledger!End(cp, i)
    BY <1>1, <1>13, <1>14, LedgerCarriesOver DEF Ledger!End
  <1> QED
    BY <1>15 DEF LedgerStep, Ledger!Next

\* The end of the process loses what was not saved.
LEMMA StoppedLoses ==
    ASSUME running, Stopped
    PROVE  LedgerStep
  <1>1. LedgerOf(chargePoints)' = LedgerOf(NoChargePoints)
    BY DEF Stopped, LedgerOf, EntryOf, Recorded, hasTransactionEnded
  <1>2. LedgerOf(NoChargePoints) = Ledger!Blank
    BY DEF NoChargePoints, LedgerOf, EntryOf, Recorded, Ledger!Blank
  <1>3. running' = FALSE /\ db' = db
    BY DEF Stopped
  <1>4. Ledger!Lose
    BY <1>1, <1>2, <1>3, LedgerCarriesOver DEF Ledger!Lose
  <1> QED
    BY <1>4 DEF LedgerStep, Ledger!Next

\* A disconnection forgets all transactions of one charge point.
LEMMA DisconnectForgets ==
    ASSUME IndInv, NEW cp \in ChargePoint, ChargePointDisconnected(cp)
    PROVE  LedgerStep
  <1>1. running /\ SetInfo(cp, Null) /\ UNCHANGED <<db, running>>
    BY DEF ChargePointDisconnected
  <1>2. [t \in TransactionIds |-> EntryIn(Null, t)] = Ledger!Blank[cp]
    BY DEF EntryIn, Ledger!Blank
  <1>3. LedgerOf(chargePoints)' = [LedgerOf(chargePoints) EXCEPT ![cp] = Ledger!Blank[cp]]
    BY <1>1, <1>2, LedgerAfterSetInfo
  <1>4. Ledger!Forget(cp)
    BY <1>1, <1>3, LedgerCarriesOver DEF Ledger!Forget
  <1> QED
    BY <1>4 DEF LedgerStep, Ledger!Next

\* The dump and the restart copy the ledger, in one direction and the other.
LEMMA StoreCopies ==
    ASSUME IndInv, Save \/ Restart
    PROVE  LedgerStep
  <1>1. CASE Save
    <2>1. running /\ UNCHANGED <<chargePoints, running>>
      BY <1>1 DEF Save
    <2>2. CASE db' = chargePoints
      <3>1. Ledger!Checkpoint
        BY <2>1, <2>2, LedgerCarriesOver DEF Ledger!Checkpoint
      <3> QED
        BY <3>1 DEF LedgerStep, Ledger!Next
    <2>3. CASE db' = db
      BY <2>1, <2>3, LedgerCarriesOver, LedgerStutters
    <2> QED
      BY <1>1, <2>2, <2>3 DEF Save
  <1>2. CASE Restart
    <2>1. ~running /\ running' = TRUE /\ db' = db
      BY <1>2 DEF Restart
    <2>2. LedgerOf(chargePoints)' = LedgerOf(db)
      <3>1. CASE db = Null
        <4>1. chargePoints' = NoChargePoints
          BY <1>2, <3>1 DEF Restart, Restore, IndInv, TypeOK
        <4>2. LedgerOf(chargePoints)' = LedgerOf(NoChargePoints)
          BY <4>1 DEF LedgerOf, EntryOf, Recorded, hasTransactionEnded
        <4>3. LedgerOf(NoChargePoints) = LedgerOf(Null)
          BY DEF NoChargePoints, LedgerOf, EntryOf, Recorded
        <4> QED
          BY <3>1, <4>2, <4>3
      <3>2. CASE db # Null
        BY <1>2, <3>2, LedgerCarriesOver DEF Restart, Restore
      <3> QED
        BY <3>1, <3>2
    <2>3. Ledger!Recover
      BY <2>1, <2>2, LedgerCarriesOver DEF Ledger!Recover
    <2> QED
      BY <2>3 DEF LedgerStep, Ledger!Next
  <1> QED
    BY <1>1, <1>2

\* Every request is a step of the ledger or none.
LEMMA RequestIsLedgerStep ==
    ASSUME IndInv, NEW cp \in ChargePoint, Request(cp)
    PROVE  LedgerStep
  <1>1. ASSUME UNCHANGED <<chargePoints, db, running>> PROVE LedgerStep
    BY <1>1, LedgerCarriesOver, LedgerStutters
  <1>2. ASSUME LedgerKept(cp) PROVE LedgerStep
    BY <1>2, SameLedgerStutters DEF LedgerKept
  <1> QED
    BY <1>1, <1>2, RequestUpdates, StoppedLoses, StartBegins, StopEnds

LEMMA StepIsLedgerStep == IndInv /\ [Next]_vars => LedgerStep
  <1> SUFFICES ASSUME IndInv, [Next]_vars PROVE LedgerStep
    OBVIOUS
  <1>1. ASSUME NEW cp \in ChargePoint, NewChargePoint(cp) PROVE LedgerStep
    <2>1. CASE Known(cp)
      BY <1>1, <2>1, LedgerCarriesOver, LedgerStutters DEF NewChargePoint
    <2>2. CASE ~Known(cp)
      BY <1>1, <2>2, NewEntryStutters DEF NewChargePoint
    <2> QED
      BY <2>1, <2>2
  <1>2. CASE Crash
    BY <1>2, StoppedLoses DEF Crash
  <1>3. CASE UNCHANGED vars
    BY <1>3, LedgerCarriesOver, LedgerStutters DEF vars
  <1> QED
    BY <1>1, <1>2, <1>3, RequestIsLedgerStep, DisconnectForgets, StoreCopies DEF Next

\* The maps of handler.go, the row of store.go and the callbacks implement the
\* abstract ledger, for any charge points and connectors.
THEOREM CentralSystemIsLedger == Spec => ImplementsLedger
  <1>1. Init => Ledger!Init
    BY DEF Init, Ledger!Init, Ledger!Blank, LedgerOf, EntryOf, Recorded, NoChargePoints
  <1>2. IndInv /\ [Next]_vars => [Ledger!Next]_(Ledger!ledgerVars)
    BY StepIsLedgerStep DEF LedgerStep
  <1> QED
    BY <1>1, <1>2, Invariance, PTL DEF Spec, ImplementsLedger, Ledger!Spec

-----------------------------------------------------------------------------
(* The remote control *)

\* The state with the commands, as one tuple of the old one and the new.
LEMMA RCVars == (UNCHANGED rcVars) <=> (UNCHANGED vars /\ UNCHANGED commands)
  BY DEF rcVars, vars

\* Whatever the handlers of http.go do, the central system makes a step of its
\* own or none.
LEMMA StepsKeepSystem == [RCNext]_rcVars => [Next]_vars
  <1> SUFFICES ASSUME [RCNext]_rcVars PROVE [Next]_vars
    OBVIOUS
  <1>1. ASSUME NEW u \in Clients, Command(u) PROVE [Next]_vars
    <2>1. CASE UNCHANGED vars
      BY <2>1
    <2>2. CASE CallbackPanics(u)
      BY <2>2 DEF CallbackPanics, Owed, Crash, Next
    <2> QED
      BY <1>1, <2>1, <2>2 DEF Command, Reset, StartTransaction, StopTransaction, Checked, Send,
                              Callback
  <1>2. ASSUME NEW cp \in ChargePoint, Disconnected(cp) PROVE [Next]_vars
    BY <1>2 DEF Disconnected, Next
  <1>3. CASE UNCHANGED rcVars
    BY <1>3, RCVars
  <1> QED
    BY <1>1, <1>2, <1>3 DEF RCNext, Next

\* So the invariants of the central system may be used; by construction, and no
\* result about the code.
LEMMA SystemMoves == RCSpec => Spec
  <1>1. RCInit => Init
    BY DEF RCInit
  <1> QED
    BY <1>1, StepsKeepSystem, PTL DEF RCSpec, Spec

-----------------------------------------------------------------------------
(* Commands and what they mean *)

\* A stop's id is below the counter and means what it meant when looked up.
StopSeen ==
    \A u \in Clients :
        (commands[u] # Null /\ commands[u].Op = "stop") =>
            /\ commands[u].Target < nextTransactionId
            /\ \A cp \in ChargePoint :
                 Recorded(chargePoints, cp, commands[u].Target) =>
                    LET ti == chargePoints[cp].Transactions[commands[u].Target]
                    IN  /\ cp = commands[u].To
                        /\ <<ti.ConnectorId, ti.Start>> = commands[u].Seen

\* What a start finds on its connector is not older than its look-up, which the
\* counter has not gone back before.
StartSeen ==
    \A u \in Clients :
        (commands[u] # Null /\ commands[u].Op = "start") =>
            /\ commands[u].Target \in ConnectorIds
            /\ commands[u].Since <= nextTransactionId
            /\ Current(chargePoints, commands[u].To, commands[u].Target) >= 0 =>
                  Current(chargePoints, commands[u].To, commands[u].Target) >= commands[u].Since

RCInv == RCTypeOK /\ StopSeen /\ StartSeen

\* While the process runs, a record with an id below the counter was there
\* before the step, with the same connector and start, and the counter does not
\* go back.
LEMMA RecordsKept ==
    ASSUME IndInv, [Next]_vars, running, running'
    PROVE  /\ nextTransactionId <= nextTransactionId'
           /\ \A cp \in ChargePoint, t \in TransactionIds :
                (t < nextTransactionId /\ Recorded(chargePoints', cp, t)) =>
                   /\ Recorded(chargePoints, cp, t)
                   /\ chargePoints'[cp].Transactions[t].ConnectorId
                         = chargePoints[cp].Transactions[t].ConnectorId
                   /\ chargePoints'[cp].Transactions[t].Start
                         = chargePoints[cp].Transactions[t].Start
  <1> USE DEF Recorded
  <1>1. nextTransactionId \in Nat /\ chargePoints \in Snapshots
    BY BoundsAssumption DEF IndInv, TypeOK
  <1>2. CASE QuietStep \/ Save
    BY <1>1, <1>2 DEF QuietStep, Save
  <1>3. ASSUME NEW x \in ChargePoint, EntryStep(x)
        PROVE  /\ nextTransactionId <= nextTransactionId'
               /\ \A cp \in ChargePoint, t \in TransactionIds :
                    (t < nextTransactionId /\ Recorded(chargePoints', cp, t)) =>
                       /\ Recorded(chargePoints, cp, t)
                       /\ chargePoints'[cp].Transactions[t].ConnectorId
                             = chargePoints[cp].Transactions[t].ConnectorId
                       /\ chargePoints'[cp].Transactions[t].Start
                             = chargePoints[cp].Transactions[t].Start
    <2>1. PICK info \in ChargePointState :
             /\ chargePoints' = [chargePoints EXCEPT ![x] = info]
             /\ GoodUpdate(chargePoints[x], info, nextTransactionId, nextTransactionId')
      BY <1>3 DEF EntryStep, SetInfo
    <2>2. \A cp \in ChargePoint :
             chargePoints'[cp] = IF cp = x THEN info ELSE chargePoints[cp]
      BY <1>1, <2>1 DEF Snapshots
    <2>3. chargePoints # Null
      BY <1>1, NullAssumption
    <2>4. ASSUME NEW t \in TransactionIds, t < nextTransactionId, info.Transactions[t] # Null
          PROVE  /\ chargePoints[x] # Null /\ chargePoints[x].Transactions[t] # Null
                 /\ info.Transactions[t].ConnectorId = chargePoints[x].Transactions[t].ConnectorId
                 /\ info.Transactions[t].Start = chargePoints[x].Transactions[t].Start
      <3>1. t # nextTransactionId
        BY <1>1, <2>4 DEF TransactionIds
      <3> QED
        BY <2>1, <2>4, <3>1 DEF GoodUpdate
    <2> QED
      BY <1>3, <2>2, <2>3, <2>4 DEF EntryStep
  <1>4. ASSUME NEW x \in ChargePoint, ChargePointDisconnected(x)
        PROVE  /\ nextTransactionId <= nextTransactionId'
               /\ \A cp \in ChargePoint :
                     chargePoints'[cp] # Null =>
                        chargePoints # Null /\ chargePoints'[cp] = chargePoints[cp]
    <2>1. chargePoints' = [chargePoints EXCEPT ![x] = Null]
      BY <1>4 DEF ChargePointDisconnected, SetInfo
    <2>2. chargePoints # Null
      BY <1>1, NullAssumption
    <2>3. nextTransactionId' = nextTransactionId
      BY <1>4 DEF ChargePointDisconnected
    <2> QED
      BY <1>1, <2>1, <2>2, <2>3 DEF Snapshots
  <1>5. ~Stopped /\ ~Restart
    BY DEF Stopped, Restart
  <1> QED
    BY <1>2, <1>3, <1>4, <1>5, StepKinds

\* Replacing an entry by one whose connectors keep their current transactions,
\* lose them, or take the counter's value.
LEMMA ReplacedCurrent ==
    ASSUME IndInv, NEW cp \in ChargePoint, NEW info, SetInfo(cp, info),
           info # Null => \A c \in ConnectorIds :
              \/ CurrentOf(info, c) \in {-1, nextTransactionId}
              \/ Known(cp) /\ CurrentOf(info, c) = CurrentOf(chargePoints[cp], c)
    PROVE  \A x \in ChargePoint, c \in ConnectorIds :
              Current(chargePoints', x, c)
                 \in {Current(chargePoints, x, c), -1, nextTransactionId}
  <1>1. \A x \in ChargePoint : chargePoints'[x] = IF x = cp THEN info ELSE chargePoints[x]
    BY DEF SetInfo, IndInv, TypeOK, Snapshots
  <1> QED
    BY <1>1 DEF Current, CurrentOf, Known

\* A stop gives no connector a transaction.
LEMMA StopFrees ==
    ASSUME NEW info \in ChargePointState, NEW t \in TransactionIds,
           info.Transactions[t] # Null, NEW e \in Stamps
    PROVE  \A c \in ConnectorIds :
              CurrentOf(StoppedEntry(info, t, e), c) \in {-1, CurrentOf(info, c)}
  <1> DEFINE c   == info.Transactions[t].ConnectorId
             ti  == [info.Transactions[t] EXCEPT !.End = e]
             new == StoppedEntry(info, t, e)
  <1>1. /\ \A d \in ConnectorIds : CurrentOf(new, d) = IF d = c THEN -1 ELSE CurrentOf(info, d)
        /\ \A u \in TransactionIds :
              new.Transactions[u] = IF u = t THEN ti ELSE info.Transactions[u]
        /\ ti.End = e
    BY StopEntry
  <1> HIDE DEF new, ti, c
  <1> QED
    BY <1>1 DEF new

\* While the process runs, a connector's current transaction stays, goes, or is
\* one that the step begins.
LEMMA CurrentsKept ==
    ASSUME IndInv, [Next]_vars, running, running'
    PROVE  \A cp \in ChargePoint, c \in ConnectorIds :
              Current(chargePoints', cp, c) >= 0 =>
                 \/ Current(chargePoints', cp, c) = Current(chargePoints, cp, c)
                 \/ Current(chargePoints', cp, c) = nextTransactionId
  <1> DEFINE Kept == \A x \in ChargePoint, c \in ConnectorIds :
                        Current(chargePoints', x, c)
                           \in {Current(chargePoints, x, c), -1, nextTransactionId}
  <1>1. CASE UNCHANGED chargePoints
    BY <1>1 DEF Current
  <1>2. ASSUME NEW cp \in ChargePoint, NewChargePoint(cp), ~Known(cp) PROVE Kept
    <2>1. \A c \in ConnectorIds : CurrentOf(NewChargePointState, c) = -1
      BY DEF CurrentOf, NewChargePointState
    <2>2. SetInfo(cp, NewChargePointState)
      BY <1>2 DEF NewChargePoint
    <2> QED
      BY <2>1, <2>2, ReplacedCurrent
  <1>3. ASSUME NEW cp \in ChargePoint, ChargePointDisconnected(cp) PROVE Kept
    BY <1>3, ReplacedCurrent DEF ChargePointDisconnected
  <1>4. ASSUME NEW cp \in ChargePoint, LedgerKept(cp) PROVE Kept
    BY <1>4, ReplacedCurrent DEF LedgerKept, SameLedger
  <1>5. ASSUME NEW cp \in ChargePoint, NEW c \in ConnectorIds, NEW s \in Stamps,
               OnStartTransaction(cp, c, s)
        PROVE  Kept
    <2> DEFINE t    == nextTransactionId
               info == chargePoints[cp]
               new  == StartedEntry(info, t, c, s)
    <2>1. /\ Known(cp) /\ t \in TransactionIds /\ info \in ChargePointState
          /\ SetInfo(cp, new)
      BY <1>5, BoundsAssumption
         DEF StartedEntry, OnStartTransaction, IndInv, TypeOK, TransactionIds, Snapshots, Known
    <2>2. \A d \in ConnectorIds : CurrentOf(new, d) = IF d = c THEN t ELSE CurrentOf(info, d)
      BY <2>1, StartEntry
    <2> HIDE DEF new
    <2> QED
      BY <2>1, <2>2, ReplacedCurrent
  <1>6. ASSUME NEW cp \in ChargePoint, NEW t \in TransactionIds, NEW e \in Stamps,
               OnStopTransaction(cp, t, e)
        PROVE  Kept
    <2> DEFINE info == chargePoints[cp]
               new  == StoppedEntry(info, t, e)
    <2>1. Recorded(chargePoints, cp, t) /\ SetInfo(cp, new)
      BY <1>6, Zenon DEF StoppedEntry, OnStopTransaction
    <2>2. Known(cp) /\ info.Transactions[t] # Null
      BY <2>1 DEF Recorded, Known
    <2>3. info \in ChargePointState
      BY <2>2 DEF Known, IndInv, TypeOK, Snapshots
    <2>4. \A c \in ConnectorIds : CurrentOf(new, c) \in {-1, CurrentOf(info, c)}
      BY <2>2, <2>3, StopFrees
    <2> HIDE DEF new
    <2> QED
      BY <2>1, <2>2, <2>4, ReplacedCurrent
  <1> HIDE DEF Kept
  <1>7. ASSUME NEW cp \in ChargePoint, Request(cp) PROVE Kept \/ UNCHANGED chargePoints
    <2>1. ~Stopped
      BY DEF Stopped
    <2> QED
      BY <1>4, <1>5, <1>6, <1>7, <2>1, RequestUpdates
  <1>8. Kept \/ UNCHANGED chargePoints
    <2>1. ~Crash /\ ~Restart
      BY DEF Crash, Stopped, Restart
    <2>2. ASSUME NEW cp \in ChargePoint, NewChargePoint(cp)
          PROVE  Kept \/ UNCHANGED chargePoints
      BY <1>2, <2>2 DEF NewChargePoint
    <2> QED
      BY <1>3, <1>7, <2>1, <2>2 DEF Next, Save, vars
  <1>9. CASE Kept
    BY <1>9 DEF Kept
  <1> QED
    BY <1>1, <1>8, <1>9

LEMMA NoCommandsInit == RCInit => RCInv
  BY DEF RCInit, NoCommands, RCInv, RCTypeOK, StopSeen, StartSeen, Awaiting

\* A process that ends takes its commands along.
LEMMA NoCommandsGood ==
    ASSUME commands' = NoCommands
    PROVE  RCInv'
  BY DEF NoCommands, RCInv, RCTypeOK, StopSeen, StartSeen, Awaiting

\* A step of the central system, with the commands as they were.
LEMMA SystemPreserves ==
    ASSUME IndInv, RCInv, [Next]_vars, running, running', commands' = commands,
           \A u \in Clients : Awaiting(u) => commands[u].To \in connected'
    PROVE  RCInv'
  <1>1. RCTypeOK'
    BY DEF RCInv, RCTypeOK, Awaiting
  <1>2. ASSUME NEW u \in Clients, commands[u] # Null, commands[u].Op = "stop"
        PROVE  /\ commands[u].Target < nextTransactionId'
               /\ \A cp \in ChargePoint :
                    Recorded(chargePoints', cp, commands[u].Target) =>
                       LET ti == chargePoints'[cp].Transactions[commands[u].Target]
                       IN  /\ cp = commands[u].To
                           /\ <<ti.ConnectorId, ti.Start>> = commands[u].Seen
    <2> DEFINE t == commands[u].Target
    <2>1. /\ t < nextTransactionId
          /\ \A cp \in ChargePoint :
               Recorded(chargePoints, cp, t) =>
                  LET ti == chargePoints[cp].Transactions[t]
                  IN  cp = commands[u].To /\ <<ti.ConnectorId, ti.Start>> = commands[u].Seen
      BY <1>2 DEF RCInv, StopSeen
    <2>2. t \in Nat
      <3>1. commands[u] \in Commands
        BY <1>2 DEF RCInv, RCTypeOK
      <3>2. t \in ConnectorIds \cup TransactionIds \cup {0}
        BY <3>1 DEF Commands
      <3> HIDE DEF t
      <3>3. ConnectorIds \cup TransactionIds \cup {0} \subseteq Nat
        BY BoundsAssumption DEF TransactionIds
      <3> QED
        BY <3>2, <3>3
    <2>3. /\ nextTransactionId \in 0 .. MaxTransactions
          /\ nextTransactionId' \in 0 .. MaxTransactions
      BY NextPreserves DEF IndInv, TypeOK
    <2>4. t \in TransactionIds
      BY <2>1, <2>2, <2>3, BoundsAssumption DEF TransactionIds
    <2> HIDE DEF t
    <2>5. t < nextTransactionId'
      BY <2>1, <2>2, <2>3, RecordsKept, BoundsAssumption
    <2>6. ASSUME NEW cp \in ChargePoint, Recorded(chargePoints', cp, t)
          PROVE  LET ti == chargePoints'[cp].Transactions[t]
                 IN  cp = commands[u].To /\ <<ti.ConnectorId, ti.Start>> = commands[u].Seen
      <3>1. /\ Recorded(chargePoints, cp, t)
            /\ chargePoints'[cp].Transactions[t].ConnectorId
                  = chargePoints[cp].Transactions[t].ConnectorId
            /\ chargePoints'[cp].Transactions[t].Start = chargePoints[cp].Transactions[t].Start
        BY <2>1, <2>4, <2>6, RecordsKept
      <3> QED
        BY <2>1, <3>1
    <2> QED
      BY <2>5, <2>6 DEF t
  <1>3. ASSUME NEW u \in Clients, commands[u] # Null, commands[u].Op = "start"
        PROVE  /\ commands[u].Target \in ConnectorIds
               /\ commands[u].Since <= nextTransactionId'
               /\ Current(chargePoints', commands[u].To, commands[u].Target) >= 0 =>
                     Current(chargePoints', commands[u].To, commands[u].Target)
                        >= commands[u].Since
    <2> DEFINE cp    == commands[u].To
               c     == commands[u].Target
               since == commands[u].Since
    <2>1. /\ c \in ConnectorIds /\ since <= nextTransactionId
          /\ Current(chargePoints, cp, c) >= 0 => Current(chargePoints, cp, c) >= since
      BY <1>3 DEF RCInv, StartSeen
    <2>2. cp \in ChargePoint /\ since \in 0 .. MaxTransactions
      BY <1>3 DEF RCInv, RCTypeOK, Commands
    <2>3. /\ nextTransactionId \in 0 .. MaxTransactions
          /\ nextTransactionId' \in 0 .. MaxTransactions
      BY NextPreserves DEF IndInv, TypeOK
    <2> HIDE DEF cp, c, since
    <2>4. nextTransactionId <= nextTransactionId'
      BY RecordsKept
    <2>5. Current(chargePoints', cp, c) >= 0 =>
             \/ Current(chargePoints', cp, c) = Current(chargePoints, cp, c)
             \/ Current(chargePoints', cp, c) = nextTransactionId
      BY <2>1, <2>2, CurrentsKept
    <2>6. since <= nextTransactionId'
      BY <2>1, <2>2, <2>3, <2>4, BoundsAssumption
    <2>7. Current(chargePoints', cp, c) >= 0 => Current(chargePoints', cp, c) >= since
      BY <2>1, <2>2, <2>3, <2>5, BoundsAssumption
    <2> QED
      BY <2>1, <2>6, <2>7 DEF cp, c, since
  <1>4. StopSeen'
    BY <1>2 DEF StopSeen, Recorded
  <1>5. StartSeen'
    BY <1>3 DEF StartSeen, Current
  <1> QED
    BY <1>1, <1>4, <1>5 DEF RCInv

\* A request leaves the connections alone or ends the process.
LEMMA RequestKeepsConnections ==
    ASSUME NEW cp \in ChargePoint, Request(cp)
    PROVE  running /\ ((connected' = connected /\ running') \/ Stopped)
  <1>1. running
    BY Zenon DEF Request, Deliverable, OnAuthorize, OnDataTransfer, OnHeartbeat, OnBootNotification,
             OnDiagnosticsStatusNotification, OnFirmwareStatusNotification, OnConfig,
             OnOwnStatusNotification, OnStatusNotification, OnMeterValues,
             OnMeterValuesWithoutTransaction, OnStartTransaction, OnStartTransactionRefused,
             OnStopTransaction, OnStopTransactionUnknown, vars
  <1>2. (connected' = connected /\ running' = running) \/ Stopped
    BY DEF Request, Deliverable, OnAuthorize, OnDataTransfer, OnHeartbeat, OnBootNotification,
             OnDiagnosticsStatusNotification, OnFirmwareStatusNotification, OnConfig,
             OnOwnStatusNotification, OnStatusNotification, OnMeterValues,
             OnMeterValuesWithoutTransaction, OnStartTransaction, OnStartTransactionRefused,
             OnStopTransaction, OnStopTransactionUnknown, vars
  <1> QED
    BY <1>1, <1>2

\* A request of a client that passes its checks.
LEMMA CheckedPreserves ==
    ASSUME IndInv, RCInv, NEW u \in Clients, NEW cp \in ChargePoint, NEW op, NEW target, NEW seen,
           Checked(u, op, cp, target, seen),
           op \in {"reset", "start", "stop"}, target \in ConnectorIds \cup TransactionIds \cup {0},
           seen \in (ConnectorIds \X Stamps) \cup {Null},
           op = "start" =>
              target \in ConnectorIds /\ ~(Current(chargePoints, cp, target) >= 0),
           op = "stop" =>
              /\ target < nextTransactionId
              /\ \A x \in ChargePoint : Recorded(chargePoints, x, target) =>
                   LET ti == chargePoints[x].Transactions[target]
                   IN  x = cp /\ <<ti.ConnectorId, ti.Start>> = seen
    PROVE  RCInv'
  <1> DEFINE com == [Op |-> op, To |-> cp, Target |-> target, Seen |-> seen,
                     Since |-> IF op = "start" THEN nextTransactionId ELSE 0, Sent |-> FALSE]
  <1>0. com \in Commands /\ nextTransactionId \in 0 .. MaxTransactions
    BY BoundsAssumption DEF Commands, IndInv, TypeOK
  <1>1. /\ commands' \in [Clients -> Commands \cup {Null}]
        /\ \A v \in Clients : commands'[v] = IF v = u THEN com ELSE commands[v]
    BY <1>0 DEF Checked, RCInv, RCTypeOK
  <1>2. RCTypeOK'
    BY <1>1 DEF RCInv, RCTypeOK, Awaiting, Checked, vars
  <1>3. StopSeen'
    BY <1>1 DEF RCInv, StopSeen, Recorded, Checked, vars
  <1>4. StartSeen'
    BY <1>0, <1>1, BoundsAssumption DEF RCInv, StartSeen, Current, Checked, vars
  <1> QED
    BY <1>2, <1>3, <1>4 DEF RCInv

\* Sending and answering a request.
LEMMA SendPreserves ==
    ASSUME RCInv, NEW u \in Clients, Send(u) \/ Callback(u)
    PROVE  RCInv'
  <1>1. CASE commands' = [commands EXCEPT ![u] = Null]
    BY <1>1 DEF RCInv, RCTypeOK, StopSeen, StartSeen, Recorded, Current, Awaiting, Send, Callback, Owed, NoCommands, vars
  <1>2. CASE /\ commands[u].To \in connected /\ commands[u] # Null /\ UNCHANGED vars
             /\ running /\ commands' = [commands EXCEPT ![u] = [commands[u] EXCEPT !.Sent = TRUE]]
    <2> DEFINE com == [commands[u] EXCEPT !.Sent = TRUE]
    <2>1. commands[u] \in Commands
      BY <1>2 DEF RCInv, RCTypeOK
    <2>2. /\ com \in Commands
          /\ com.Op = commands[u].Op /\ com.To = commands[u].To
          /\ com.Target = commands[u].Target /\ com.Seen = commands[u].Seen
          /\ com.Since = commands[u].Since
      BY <2>1 DEF Commands
    <2> HIDE DEF com
    <2>3. /\ commands' \in [Clients -> Commands \cup {Null}]
          /\ \A v \in Clients : commands'[v] = IF v = u THEN com ELSE commands[v]
      BY <1>2, <2>2 DEF RCInv, RCTypeOK, com
    <2>4. RCTypeOK'
      <3>1. \A v \in Clients : (Awaiting(v) => commands[v].To \in connected)'
        BY <1>2, <2>2, <2>3 DEF RCInv, RCTypeOK, Awaiting, vars
      <3>2. running'
        BY <1>2 DEF vars
      <3> QED
        BY <2>3, <3>1, <3>2 DEF RCTypeOK
    <2>5. StopSeen'
      BY <1>2, <2>2, <2>3 DEF RCInv, StopSeen, Recorded, vars
    <2>6. StartSeen'
      BY <1>2, <2>2, <2>3 DEF RCInv, StartSeen, Current, vars
    <2> QED
      BY <2>4, <2>5, <2>6 DEF RCInv
  <1> QED
    BY <1>1, <1>2 DEF Send, Callback

\* The handlers of http.go.
LEMMA CommandPreserves ==
    ASSUME IndInv, RCInv, NEW u \in Clients, Command(u)
    PROVE  RCInv'
  <1>1. ASSUME NEW cp \in ChargePoint, Reset(u, cp) PROVE RCInv'
    BY <1>1, CheckedPreserves DEF Reset
  <1>2. ASSUME NEW cp \in ChargePoint, NEW c \in ConnectorIds, StartTransaction(u, cp, c)
        PROVE  RCInv'
    <2>1. ~(Current(chargePoints, cp, c) >= 0)
      BY <1>2 DEF StartTransaction, Current, Known, hasTransactionInProgress
    <2>2. Checked(u, "start", cp, c, Null)
      BY <1>2 DEF StartTransaction
    <2> QED
      BY <2>1, <2>2, CheckedPreserves
  <1>3. ASSUME NEW cp \in ChargePoint, NEW t \in TransactionIds, StopTransaction(u, cp, t)
        PROVE  RCInv'
    <2> DEFINE trans == chargePoints[cp].Transactions[t]
               seen  == <<trans.ConnectorId, trans.Start>>
    <2>1. Recorded(chargePoints, cp, t) /\ running /\ Checked(u, "stop", cp, t, seen)
      BY <1>3 DEF StopTransaction, Checked
    <2>2. trans \in TransactionInfo
      BY <2>1 DEF Recorded, IndInv, TypeOK, Snapshots, ChargePointState
    <2>3. seen \in ConnectorIds \X Stamps
      BY <2>2 DEF TransactionInfo
    <2>5. t < nextTransactionId
      BY <2>1 DEF IndInv, IdsBelowNext
    <2>6. \A x \in ChargePoint : Recorded(chargePoints, x, t) => x = cp
      BY <2>1 DEF IndInv, IdsAreNotShared, OneOwner
    <2>7. \A x \in ChargePoint : Recorded(chargePoints, x, t) =>
             LET ti == chargePoints[x].Transactions[t]
             IN  x = cp /\ <<ti.ConnectorId, ti.Start>> = seen
      BY <2>6
    <2> HIDE DEF seen
    <2> QED
      BY <2>1, <2>3, <2>5, <2>7, CheckedPreserves
  <1>4. CASE Send(u) \/ Callback(u)
    BY <1>4, SendPreserves
  <1>5. CASE CallbackPanics(u)
    BY <1>5, NoCommandsGood DEF CallbackPanics
  <1> QED
    BY <1>1, <1>2, <1>3, <1>4, <1>5 DEF Command

\* A step of the central system, after which the process runs or does not.
LEMMA SurvivorsPreserve ==
    ASSUME IndInv, RCInv, [Next]_vars, commands' = Survivors,
           connected \subseteq connected' \/ ~running'
    PROVE  RCInv'
  <1>1. CASE ~running'
    BY <1>1, NoCommandsGood DEF Survivors
  <1>2. CASE ~running /\ running'
    BY <1>2, NoCommandsGood DEF Survivors, RCInv, RCTypeOK
  <1>3. CASE running /\ running'
    BY <1>3, SystemPreserves DEF Survivors, RCInv, RCTypeOK
  <1> QED
    BY <1>1, <1>2, <1>3

LEMMA RCNextPreserves == IndInv /\ RCInv /\ [RCNext]_rcVars => RCInv'
  <1> SUFFICES ASSUME IndInv, RCInv, [RCNext]_rcVars PROVE RCInv'
    OBVIOUS
  <1>1. [Next]_vars
    BY StepsKeepSystem
  <1>2. ASSUME NEW u \in Clients, Command(u) PROVE RCInv'
    BY <1>2, CommandPreserves
  <1>3. ASSUME NEW cp \in ChargePoint, Disconnected(cp) PROVE RCInv'
    <2>1. running /\ running' /\ commands' = commands
      BY <1>3, Zenon DEF Disconnected, ChargePointDisconnected
    <2>2. \A u \in Clients : Awaiting(u) => commands[u].To \in connected'
      BY <1>3 DEF Disconnected, ChargePointDisconnected, RCInv, RCTypeOK
    <2> QED
      BY <1>1, <2>1, <2>2, SystemPreserves
  <1>4. ASSUME NEW cp \in ChargePoint, NewChargePoint(cp) \/ Request(cp), commands' = Survivors
        PROVE  RCInv'
    <2>1. connected \subseteq connected' \/ ~running'
      BY <1>4, RequestKeepsConnections DEF NewChargePoint, Stopped
    <2> QED
      BY <1>1, <1>4, <2>1, SurvivorsPreserve
  <1>5. CASE (Save \/ Crash \/ Restart) /\ commands' = Survivors
    <2>1. connected \subseteq connected' \/ ~running'
      BY <1>5 DEF Save, Crash, Stopped, Restart
    <2> QED
      BY <1>1, <1>5, <2>1, SurvivorsPreserve
  <1>6. CASE UNCHANGED rcVars
    BY <1>6 DEF rcVars, RCInv, RCTypeOK, StopSeen, StartSeen, Recorded, Current, Awaiting
  <1> QED
    BY <1>2, <1>3, <1>4, <1>5, <1>6 DEF RCNext

\* No handler of http.go waits for a call of the library that is not owed, for
\* any number of requests and charge points.
THEOREM RCTypeCorrect == RCSpec => []RCTypeOK
  <1>1. RCInit => RCInv
    BY NoCommandsInit
  <1>2. RCInv => RCTypeOK
    BY DEF RCInv
  <1> QED
    BY <1>1, <1>2, SystemMoves, RCNextPreserves, Invariance, PTL DEF RCSpec

\* A remote stop never comes to mean another transaction than the one that was
\* looked up for it, however long it takes to reach the charge point.
THEOREM StopKeepsMeaning == RCSpec => []StopMeansWhatWasSeen
  <1>1. RCInit => RCInv
    BY NoCommandsInit
  <1>2. RCInv => StopMeansWhatWasSeen
    BY DEF RCInv, StopSeen, StopMeansWhatWasSeen
  <1> QED
    BY <1>1, <1>2, SystemMoves, RCNextPreserves, Invariance, PTL DEF RCSpec

\* What a remote start finds on its connector began after the look-up, for any
\* number of charge points, connectors and requests.
THEOREM StartFindsNewer == RCSpec => []StartFindsOnlyNewer
  <1>1. RCInit => RCInv
    BY NoCommandsInit
  <1>2. RCInv => StartFindsOnlyNewer
    BY DEF RCInv, StartSeen, StartFindsOnlyNewer
  <1> QED
    BY <1>1, <1>2, SystemMoves, RCNextPreserves, Invariance, PTL DEF RCSpec

=============================================================================
