---------------------------- MODULE BillPeriods ----------------------------
(***************************************************************************)
(* analysis/provider-comparison.go: the rows of the power table are summed *)
(* for each bill, from the day after the last bill to the end of the day   *)
(* of this one.  It only reads what powerdb.go writes.                     *)
(***************************************************************************)
EXTENDS PowerDB, Sequences

CONSTANTS
    BillDates,    \* the local midnights at which the bills' days begin
    Day           \* ticks in 24 hours

ASSUME BillsAssumption ==
    /\ Day \in Nat
    /\ BillDates \in Seq(Times) \ {<<>>}
    /\ \A i \in 1 .. Len(BillDates) : BillDates[i] + Day \in Times

\* The file that ParseBillDates reads lists the bills in their order.
ASSUME BillOrder ==
    \A z \in Zones : \A i, j \in 1 .. Len(BillDates) :
        LET local(t) == t + Offset[z][t]
        IN  i < j => local(BillDates[i] + Day) < local(BillDates[j] + Day)

Bills == 2 .. Len(BillDates)

BillStart(i) == BillDates[i - 1] + Day

\* Faulty variant: the day of the bill is left out.
BillEndAtMidnight(i) == BillDates[i]

\* The code adds a nanosecond, which the format of the query's text drops.
BillEnd(i) == BillDates[i] + Day

\* The query compares the rows' and the bounds' texts, which is local time.
BilledRows(i) ==
    {p \in Rows : Local(BillStart(i)) < Local(p) /\ Local(p) < Local(BillEnd(i))}

\* Between the first and the last bill every row is in one bill, except the
\* last half hour of each bill's day: its row bears the very text that ends
\* this bill and begins the next, and is in neither.
BillsSplitRows ==
    \A p \in Rows :
        (Local(BillStart(2)) < Local(p) /\ Local(p) < Local(BillEnd(Len(BillDates)))) =>
            Cardinality({i \in Bills : p \in BilledRows(i)}) =
                IF \E i \in Bills : Local(p) = Local(BillEnd(i)) THEN 0 ELSE 1

=============================================================================
