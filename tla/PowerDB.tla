------------------------------ MODULE PowerDB ------------------------------
(***************************************************************************)
(* analysis/powerdb.go: each run of the program continues the table of     *)
(* half-hourly consumption after the last row, up to the current half      *)
(* hour, by counting the meter's pulses in the hourly UTC logs of mlogger. *)
(*                                                                         *)
(* Time is counted in ticks of a fixed fraction of a half hour, in UTC.    *)
(* The program reads the clock fields of a time and has time.Date build a  *)
(* time from them again.  When clocks are set back an hour of local time   *)
(* occurs twice, and time.Date picks one of its two occurrences: the       *)
(* second in zones at or east of Greenwich, the first west of it.          *)
(***************************************************************************)
EXTENDS Integers, FiniteSets

CONSTANTS
    HalfHour,     \* ticks in a half hour
    MaxTime,      \* bound: the last moment
    First,        \* the sentinel: the logs begin here
    Zones,        \* time zones
    Offset,       \* Offset[z][t]: local time minus UTC
    Date,         \* Date[z][w]: the moment that time.Date makes of local time w
    PulseLogs,    \* the sets of moments at which the meter may have pulsed
    Null

Times == 0 .. MaxTime

Periods == {t \in Times : t % HalfHour = 0}

ASSUME TimeAssumption ==
    /\ HalfHour \in Nat \ {0} /\ MaxTime \in Nat
    /\ First \in Periods
    /\ PulseLogs \subseteq SUBSET Times
    /\ \A p \in PulseLogs : IsFiniteSet(p)
    /\ Null \notin Nat

\* A zone is off by whole half hours and changes at the end of one.  time.Date
\* returns a moment with the local time it was given.
ASSUME ZonesAssumption ==
    \A z \in Zones :
        /\ Offset[z] \in [Times -> Nat]
        /\ \A t \in Times :
              LET local == t + Offset[z][t]
              IN  /\ Date[z][local] \in Times
                  /\ Date[z][local] + Offset[z][Date[z][local]] = local
                  /\ Offset[z][t] % HalfHour = 0
                  /\ Offset[z][t] = Offset[z][t - (t % HalfHour)]

VARIABLES
    now,       \* the clock
    zone,      \* the local time zone
    pulses,    \* when the meter pulses
    copied,    \* /tmp/logs holds the log lines before this moment
    db,        \* the power table: wh_in for each half_hour_ending
    program    \* [d, previousPeriod] of the run in progress, Null when none

vars == <<now, zone, pulses, copied, db, program>>

Init ==
    /\ now = First
    /\ zone \in Zones
    /\ pulses \in PulseLogs
    /\ copied = 0
    /\ db = [p \in Periods |-> Null]
    /\ program = Null

-----------------------------------------------------------------------------
(* Periods *)

Local(t) == t + Offset[zone][t]

\* The time.Date of a moment's own clock fields, minutes and seconds cut.
GetLastFullPeriod(t) == Date[zone][Local(t) - (Local(t) % HalfHour)]

GetPrevPeriod(p) == GetLastFullPeriod(p) - HalfHour

\* Faulty variant: the period after the next.
GetNextPeriodOfNext(p) == GetLastFullPeriod(p + HalfHour) + HalfHour

GetNextPeriod(p) == GetLastFullPeriod(p) + HalfHour

Rows == {p \in Periods : db[p] # Null}

\* Faulty variant: the table is not consulted.
GetFirstUpdate == First

\* The rows are compared as text, which is their local time.
GetLastUpdate ==
    IF Rows = {} THEN First
    ELSE CHOOSE p \in Rows : \A q \in Rows : Local(q) <= Local(p)

\* A file is named after the hour it begins with.
Hour(t) == t \div (2 * HalfHour)

\* A period that ends on the hour is in the file of the hour before.
GetPeriodHour(p) == IF p % (2 * HalfHour) = 0 THEN Hour(p) - 1 ELSE Hour(p)

\* Faulty variant: the pulse at the end of the period belongs to it, too.
PulsesUpTo(p) ==
    {t \in pulses : t < copied /\ Hour(t) = GetPeriodHour(p) /\ GetPrevPeriod(p) <= t /\ t <= p}

\* The PULSE lines of the file that are not before startTime nor after endTime,
\* a nanosecond before the period.  A file that is not there has none.
PulsesIn(p) ==
    {t \in pulses : t < copied /\ Hour(t) = GetPeriodHour(p) /\ GetPrevPeriod(p) <= t /\ t < p}

-----------------------------------------------------------------------------
(* The program *)

Start ==
    /\ program = Null
    /\ program' = [d |-> GetNextPeriod(GetLastUpdate), previousPeriod |-> GetLastFullPeriod(now)]
    /\ UNCHANGED <<now, zone, pulses, copied, db>>

Before == program # Null /\ program.d < program.previousPeriod

InsertPeriodToDB ==
    /\ Before /\ db[program.d] = Null
    /\ db' = [db EXCEPT ![program.d] = Cardinality(PulsesIn(program.d))]
    /\ program' = [program EXCEPT !.d = GetNextPeriod(program.d)]
    /\ UNCHANGED <<now, zone, pulses, copied>>

\* half_hour_ending is the primary key: log.Fatal.
InsertRefused ==
    /\ Before /\ db[program.d] # Null
    /\ program' = Null
    /\ UNCHANGED <<now, zone, pulses, copied, db>>

Finish ==
    /\ program # Null /\ ~Before
    /\ program' = Null
    /\ UNCHANGED <<now, zone, pulses, copied, db>>

\* The program is killed between two rows.
Kill ==
    /\ program # Null
    /\ program' = Null
    /\ UNCHANGED <<now, zone, pulses, copied, db>>

Tick ==
    /\ now < MaxTime
    /\ now' = now + 1
    /\ UNCHANGED <<zone, pulses, copied, db, program>>

\* Somebody brings the logs that mlogger has written so far to /tmp/logs.
CopyLogs ==
    /\ copied < now
    /\ copied' = now
    /\ UNCHANGED <<now, zone, pulses, db, program>>

Next ==
    \/ Start \/ InsertPeriodToDB \/ InsertRefused \/ Finish \/ Kill
    \/ Tick \/ CopyLogs

Spec == Init /\ [][Next]_vars

\* The program is run again and again, and not always killed before its first
\* row.
FairSpec ==
    /\ Spec
    /\ WF_vars(Start) /\ SF_vars(InsertPeriodToDB)
    /\ WF_vars(InsertRefused \/ Finish) /\ WF_vars(Tick)

-----------------------------------------------------------------------------
(* Properties *)

\* The clock fields of p are those of p again when time.Date reads them: p is
\* not in the hour that occurs twice, or is in its right half.
Faithful(p) == Date[zone][Local(p)] = p

\* The program goes from one boundary of half hours to the next.
TypeOK ==
    /\ now \in Times /\ zone \in Zones /\ pulses \in PulseLogs /\ copied \in 0 .. now
    /\ db \in [Periods -> Nat \cup {Null}]
    /\ program # Null =>
          /\ program \in [d : Nat, previousPeriod : Periods]
          /\ program.d % HalfHour = 0

Consumption(p) == {t \in pulses : p - HalfHour <= t /\ t < p}

\* A row holds exactly the pulses of its half hour, the first moment included
\* and the last excluded, whatever file they are in and however often the
\* program was interrupted, provided its log was there when it was written and
\* its local time can be read back.
RowsAreRight ==
    [][\A p \in Periods :
         (db[p] = Null /\ db'[p] # Null /\ p <= copied /\ Faithful(p)) =>
            db'[p] = Cardinality(Consumption(p))]_vars

\* Runs that are killed and repeated leave no half hour out, except those that
\* follow a period in the hour that occurs twice: from it the program goes on
\* after the later occurrence (time.Date in GetLastFullPeriod).
GapsOnlyAtRepeatedHour ==
    \A q \in Periods :
        (First < q /\ db[q] = Null /\ \E r \in Rows : q < r) =>
            \E p \in Rows \cup {First} :
                p < q /\ q <= Date[zone][Local(p)]

CaughtUp ==
    \A p \in Periods : First < p /\ p < GetLastFullPeriod(now) => \E q \in Rows : p <= q

\* Runs that are killed and repeated get to the present again and again, unless
\* time.Date goes back: west of Greenwich the program meets its own rows when
\* the clocks are set back, its INSERT is refused, and it never gets past them.
CatchesUp == (\A t \in Periods : Date[zone][Local(t)] >= t) => []<>CaughtUp

=============================================================================
