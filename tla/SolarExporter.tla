--------------------------- MODULE SolarExporter ---------------------------
(***************************************************************************)
(* solar/solar.go: every HTTP request for /metrics is a scrape that reads  *)
(* the inverter's input registers one metric after the other over Modbus   *)
(* RTU, on a serial line that all scrapes in progress share.  The module   *)
(* follows one scrape; the others are part of its environment.             *)
(*                                                                         *)
(* An RTU answer does not say which request it answers.  A read takes the  *)
(* next answer from the line, or gives up after a second; what comes later *)
(* stays on the line for the next read.  The inverter answers in order, or *)
(* not at all, and noise can spoil an answer.                              *)
(***************************************************************************)
EXTENDS Integers, Sequences, FiniteSets

CONSTANTS
    Metrics,      \* the table of NewSolarCollector, or a shorter one
    Registers,    \* the registers of the inverter
    Readings,     \* the contents the registers may have, as functions
    MaxLate,      \* bound: unanswered requests when a read gives up
    None

Byte == 256

Word == 0 .. Byte * Byte - 1

Kinds == {"U16", "S16", "U32"}

ASSUME MetricsAssumption ==
    /\ Metrics \in Seq([register : Registers, fetcher : Kinds, multiplier : Nat])
    /\ Readings \subseteq [Registers -> Word]
    /\ Registers \subseteq Nat
    /\ \A n \in 1 .. Len(Metrics) :
          Metrics[n].fetcher = "U32" => Metrics[n].register + 1 \in Registers

ASSUME BoundsAssumption == MaxLate \in Nat

Index == 1 .. Len(Metrics)

\* A scrape: the metric and the try it is at, whether it waits for an answer,
\* how many metrics are missing, the values so far.
Scrapes == [n : 1 .. Len(Metrics) + 1, try : {1, 2}, waiting : BOOLEAN, missing : 0 .. 3,
            metrics : [Index -> Int], disturbed : BOOLEAN]

Reports == [up : BOOLEAN, metrics : [Index -> Int], disturbed : BOOLEAN]

ASSUME NoneAssumption == None \notin Scrapes \cup Reports

\* The collector's table.  Multipliers are in thousandths.
SolarMetrics ==
    LET entry(r, f, m) == [register |-> r, fetcher |-> f, multiplier |-> m]
    IN  <<entry(5011, "U16", 100), entry(5012, "U16", 100), entry(5019, "U16", 100),
          entry(5022, "U16", 100), entry(5035, "S16", 1), entry(5036, "U16", 100),
          entry(5006, "U32", 1000), entry(5017, "U32", 1000), entry(5031, "U32", 1000)>>

\* The value of a metric that could not be fetched: -1, in thousandths.
Failed == -1000

VARIABLES
    inverter,    \* the contents of the registers
    scrape,      \* the scrape in progress, None when there is none
    others,      \* other scrapes are in progress
    report,      \* what this step has sent to Prometheus, None when nothing
    owed,        \* requests the inverter has yet to answer, in order
    line         \* answers that have arrived and were not read

vars == <<inverter, scrape, others, report, owed, line>>

Init ==
    /\ inverter \in Readings
    /\ scrape = None
    /\ others = FALSE
    /\ report = None
    /\ owed = <<>>
    /\ line = <<>>

-----------------------------------------------------------------------------
(* Bytes on the line and their decoding *)

Request(n) ==
    [register |-> Metrics[n].register, count |-> IF Metrics[n].fetcher = "U32" THEN 2 ELSE 1]

\* Every register is sent with its high byte first.
Answer(req) ==
    LET w(i) == inverter[req.register + i]
    IN  IF req.count = 1 THEN <<w(0) \div Byte, w(0) % Byte>>
        ELSE <<w(0) \div Byte, w(0) % Byte, w(1) \div Byte, w(1) % Byte>>

Uint16(b) == b[1] * Byte + b[2]

Int16(b) == IF Uint16(b) >= (Byte * Byte) \div 2 THEN Uint16(b) - Byte * Byte ELSE Uint16(b)

Uint32(b) == Uint16(b) * Byte * Byte + b[3] * Byte + b[4]

\* Faulty variant: the registers stay in the order of the line.
registersAsSent(b) == b

leRegistersToBeBytes(b) == <<b[3], b[4], b[1], b[2]>>

\* An answer of the wrong length is used as it is: the log line that fetch
\* prepares for it is dropped, and the decoders of one register take the first
\* two bytes.  An answer that is too short is an error of the library.
Decode(n, b) ==
    Metrics[n].multiplier *
        (CASE Metrics[n].fetcher = "U16" -> Uint16(b)
           [] Metrics[n].fetcher = "S16" -> Int16(b)
           [] Metrics[n].fetcher = "U32" -> Uint32(leRegistersToBeBytes(b)))

Signed(w) == IF 2 * w >= Byte * Byte THEN w - Byte * Byte ELSE w

\* What the description of a metric promises: the number in its register, with
\* the low half of a 32-bit number in the first one.
TrueValue(n) ==
    LET m == Metrics[n]
        w == inverter[m.register]
    IN  m.multiplier *
            (CASE m.fetcher = "U16" -> w
               [] m.fetcher = "S16" -> Signed(w)
               [] m.fetcher = "U32" -> w + inverter[m.register + 1] * Byte * Byte)

-----------------------------------------------------------------------------
(* A scrape *)

\* disturbed is a history variable: another scrape, or an answer to an earlier
\* request, has been around since the scrape began.
NewScrape ==
    [n |-> 1, try |-> 1, waiting |-> FALSE, missing |-> 0,
     metrics |-> [i \in Index |-> 0], disturbed |-> others \/ owed # <<>>]

Start ==
    /\ scrape = None
    /\ scrape' = NewScrape
    /\ report' = None
    /\ UNCHANGED <<inverter, others, owed, line>>

\* Faulty variant: offline is declared one failure later.
TooManyByOneMore(missing) == missing > 3

TooMany(missing) == missing > 2

\* The loop tests for too many missing metrics on its way to the next one.
Fetching ==
    /\ scrape # None /\ ~scrape.waiting
    /\ scrape.n <= Len(Metrics) /\ ~TooMany(scrape.missing)

Send ==
    /\ Fetching
    /\ owed' = Append(owed, Request(scrape.n))
    /\ scrape' = [scrape EXCEPT !.waiting = TRUE]
    /\ report' = None
    /\ UNCHANGED <<inverter, others, line>>

Waiting == scrape # None /\ scrape.waiting

\* The metric is done, with a value or with -1, and the next one begins.
Done(v) ==
    [scrape EXCEPT !.metrics[scrape.n] = v, !.n = scrape.n + 1, !.try = 1, !.waiting = FALSE]

\* Faulty variant: tries without end.
FailedForever == [scrape EXCEPT !.waiting = FALSE]

\* fetch tries a second time; a second failure makes the metric -1.
FailedTry ==
    IF scrape.try = 1 THEN [scrape EXCEPT !.try = 2, !.waiting = FALSE]
    ELSE [Done(Failed) EXCEPT !.missing = scrape.missing + 1]

Read ==
    /\ Waiting /\ line # <<>>
    /\ Len(Head(line)) >= 2 * Request(scrape.n).count
    /\ line' = Tail(line)
    /\ scrape' = Done(Decode(scrape.n, Head(line)))
    /\ report' = None
    /\ UNCHANGED <<inverter, others, owed>>

\* An error of the library: noise, bytes that another scrape has taken, an
\* answer too short, or several answers read as one.
ReadSpoilt ==
    /\ Waiting /\ line # <<>>
    /\ \E k \in 1 .. Len(line) : line' = SubSeq(line, k + 1, Len(line))
    /\ scrape' = FailedTry
    /\ report' = None
    /\ UNCHANGED <<inverter, others, owed>>

\* A second without an answer.  One that is still owed will come too late.
Timeout ==
    /\ Waiting /\ line = <<>>
    /\ Len(owed) <= MaxLate
    /\ scrape' = [FailedTry EXCEPT !.disturbed = scrape.disturbed \/ owed # <<>>]
    /\ report' = None
    /\ UNCHANGED <<inverter, others, owed, line>>

\* Collect sends the values only when the inverter was not declared offline.
\* Closing the port for the last time discards what was not read.
Collect ==
    /\ scrape # None /\ ~scrape.waiting /\ ~Fetching
    /\ report' = [up |-> scrape.n > Len(Metrics), metrics |-> scrape.metrics,
                  disturbed |-> scrape.disturbed]
    /\ scrape' = None
    /\ line' = IF others THEN line ELSE <<>>
    /\ UNCHANGED <<inverter, others, owed>>

-----------------------------------------------------------------------------
(* Around it *)

\* The inverter answers the oldest request, which nobody hears while the port
\* is closed, or it never does.
InverterAnswers ==
    /\ owed # <<>>
    /\ owed' = Tail(owed)
    /\ line' = IF scrape = None /\ ~others THEN line ELSE Append(line, Answer(Head(owed)))
    /\ report' = None
    /\ UNCHANGED <<inverter, scrape, others>>

InverterIgnores ==
    /\ owed # <<>>
    /\ owed' = Tail(owed)
    /\ report' = None
    /\ UNCHANGED <<inverter, scrape, others, line>>

\* Another request for /metrics, with a serial port handle of its own.
OthersStart ==
    /\ ~others
    /\ others' = TRUE
    /\ scrape' = IF scrape = None THEN None ELSE [scrape EXCEPT !.disturbed = TRUE]
    /\ report' = None
    /\ UNCHANGED <<inverter, owed, line>>

OthersSend ==
    /\ others /\ Len(owed) + Len(line) <= MaxLate
    /\ \E n \in Index : owed' = Append(owed, Request(n))
    /\ report' = None
    /\ UNCHANGED <<inverter, scrape, others, line>>

OthersRead ==
    /\ others /\ line # <<>>
    /\ line' = Tail(line)
    /\ report' = None
    /\ UNCHANGED <<inverter, scrape, others, owed>>

OthersCollect ==
    /\ others
    /\ others' = FALSE
    /\ line' = IF scrape = None THEN <<>> ELSE line
    /\ report' = None
    /\ UNCHANGED <<inverter, scrape, owed>>

-----------------------------------------------------------------------------

Next ==
    \/ Start \/ Send \/ Read \/ ReadSpoilt \/ Timeout \/ Collect
    \/ InverterAnswers \/ InverterIgnores
    \/ OthersStart \/ OthersSend \/ OthersRead \/ OthersCollect

Spec == Init /\ [][Next]_vars

\* A scrape runs on by itself.  Its wait ends within a second whatever other
\* scrapes read, and a request is answered at some time or never.
FairSpec ==
    /\ Spec
    /\ WF_vars(Send) /\ WF_vars(Collect)
    /\ SF_vars(Read \/ ReadSpoilt \/ Timeout)
    /\ WF_vars(InverterAnswers \/ InverterIgnores)

-----------------------------------------------------------------------------
(* Properties *)

\* A scrape counts its failures and makes no request after the third; it waits
\* only for a metric of the table.
TypeOK ==
    /\ inverter \in Readings
    /\ others \in BOOLEAN
    /\ scrape # None =>
          scrape \in Scrapes /\ (scrape.waiting => scrape.n <= Len(Metrics) /\ scrape.missing <= 2)
    /\ report # None => report \in Reports

\* No register holds what a metric would report as -1.
NothingReadsAsFailed ==
    \A i \in Index : Metrics[i].fetcher = "S16" =>
        \A r \in Registers : Metrics[i].multiplier * Signed(inverter[r]) # Failed

\* The metrics of a report that say -1 although their register does not.
Unread == {i \in Index : report.metrics[i] = Failed /\ TrueValue(i) # Failed}

\* The inverter is reported as up only when at most two metrics could not be
\* fetched, or three of which one is the last: the failure of the last one is
\* not looked at (Scrape in solar.go tests at the top of its loop).  An answer to
\* another request that reads as -1 cannot be told from a failure.
UpMeansRead ==
    report # None /\ report.up /\ (NothingReadsAsFailed \/ ~report.disturbed) =>
        \/ Cardinality(Unread) <= 2
        \/ Cardinality(Unread) = 3 /\ Len(Metrics) \in Unread

\* Every value that is reported is the one in the metric's own registers, with
\* its sign and its word order, or -1; only another scrape, or an answer that
\* came after its read had given up, can put a value under another metric.
ValuesAreTheirOwn ==
    report # None /\ report.up /\ ~report.disturbed =>
        \A i \in Index : report.metrics[i] \in {TrueValue(i), Failed}

\* Every scrape ends in a report, also when the inverter is silent or other
\* scrapes take its answers.
EveryScrapeReports == scrape # None ~> scrape = None

=============================================================================
