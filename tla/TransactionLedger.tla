------------------------- MODULE TransactionLedger -------------------------
(***************************************************************************)
(* What the central system of ocpp/ promises about charging transactions,  *)
(* without the callbacks, connectors and maps by which it keeps the        *)
(* promise: a ledger of transactions for every charge point, and a saved   *)
(* copy of it.  A transaction begins under an id that neither the ledger   *)
(* nor the copy uses, keeps what was recorded at its start, and ends for   *)
(* good.  All transactions of a charge point may be forgotten together,    *)
(* and everything after the copy may be lost.                              *)
(***************************************************************************)

CONSTANTS
    Owners,      \* who a transaction belongs to
    Ids,         \* transaction ids
    Places,      \* where a transaction takes place
    Openings,    \* what is recorded when it begins
    None

Entries == [Place : Places, Opening : Openings, Ended : BOOLEAN]

VARIABLES
    ledger,      \* ledger[o][i]: the transaction i of o, or None
    saved,       \* the copy that survives, of the same shape
    available    \* the ledger can be used

ledgerVars == <<ledger, saved, available>>

Blank == [o \in Owners |-> [i \in Ids |-> None]]

Init ==
    /\ ledger = Blank
    /\ saved = Blank
    /\ available = TRUE

Used(i) == \E o \in Owners : ledger[o][i] # None \/ saved[o][i] # None

Begin(o, i, p, s) ==
    /\ available /\ ~Used(i)
    /\ ledger' = [ledger EXCEPT ![o][i] = [Place |-> p, Opening |-> s, Ended |-> FALSE]]
    /\ UNCHANGED <<saved, available>>

End(o, i) ==
    /\ available /\ ledger[o][i] # None
    /\ ledger' = [ledger EXCEPT ![o][i].Ended = TRUE]
    /\ UNCHANGED <<saved, available>>

\* Everything recorded for o is forgotten.
Forget(o) ==
    /\ available
    /\ ledger' = [ledger EXCEPT ![o] = Blank[o]]
    /\ UNCHANGED <<saved, available>>

Checkpoint ==
    /\ available
    /\ saved' = ledger
    /\ UNCHANGED <<ledger, available>>

Lose ==
    /\ available
    /\ available' = FALSE
    /\ ledger' = Blank
    /\ UNCHANGED saved

Recover ==
    /\ ~available
    /\ available' = TRUE
    /\ ledger' = saved
    /\ UNCHANGED saved

Next ==
    \/ \E o \in Owners :
          \/ \E i \in Ids, p \in Places, s \in Openings : Begin(o, i, p, s)
          \/ \E i \in Ids : End(o, i)
          \/ Forget(o)
    \/ Checkpoint \/ Lose \/ Recover

Spec == Init /\ [][Next]_ledgerVars

=============================================================================
