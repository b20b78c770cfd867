---------------------------- MODULE SerialLogger ----------------------------
(***************************************************************************)
(* The read loop of common/mlogger.c: bytes from the serial port are       *)
(* collected in a fixed buffer, whole lines are written with a timestamp   *)
(* to a log file per hour, meter lines update the counters of the metrics  *)
(* file, and lines that do not fit the buffer are dropped.                 *)
(*                                                                         *)
(* Bytes are numbered 1..StreamLen in the order in which they arrive and   *)
(* newlines is the set of those that are '\n', so any input of that length *)
(* is considered.  The buffer holds the bytes first+1..got.  A line is     *)
(* named by the byte before it and its last byte.  The kind of a line is   *)
(* its second word; for LDR its last byte stands for the reading.          *)
(***************************************************************************)
EXTENDS Integers, FiniteSets

CONSTANTS
    BufSize,    \* sizeof(buf), 1024 in the code
    StreamLen,  \* bound: bytes that arrive
    Kinds,      \* second words of lines: "PULSE", "FP_PULSE", "LDR", others
    HourLen,    \* seconds per hour, 3600 in the code
    MaxTime     \* bound: the clock stops there

ASSUME SizesAssumption ==
    /\ BufSize \in Nat /\ BufSize > 1
    /\ StreamLen \in Nat /\ MaxTime \in Nat
    /\ HourLen \in Nat /\ HourLen > 0

VARIABLES
    newlines,    \* the input: which bytes end a line
    kind,        \* the input: what each line says
    first, got,  \* the buffer, bufbytes = got - first
    valid,       \* FALSE while the rest of an oversized line is skipped
    pc,          \* "select", "lines" (the inner loop), or why the loop ended
    now,         \* the clock
    expires_at,  \* of the open log file, -1 before the first
    file,        \* hour of the open log file
    logged,      \* lines in the log files
    meters,      \* counter, fp_counter and watts
    metrics      \* the metrics file

input == <<newlines, kind>>
vars == <<newlines, kind, first, got, valid, pc, now, expires_at, file, logged, meters, metrics>>

Bytes == 1 .. StreamLen
Metered == {"PULSE", "FP_PULSE", "LDR"}
NoMeters == [PULSE |-> 0, FP_PULSE |-> 0, LDR |-> 0]

Init ==
    /\ newlines \in SUBSET Bytes
    /\ kind \in [newlines -> Kinds]
    /\ first = 0 /\ got = 0 /\ valid = TRUE
    /\ pc = "select"
    /\ now = 0
    /\ expires_at = -1 /\ file = -1
    /\ logged = {}
    /\ meters = NoMeters /\ metrics = NoMeters

-----------------------------------------------------------------------------
(* Reading *)

bufbytes == got - first

\* A full buffer holds no newline when the loop comes round: drop it, and what
\* follows up to the next newline.
Full == bufbytes = BufSize
FirstKept == IF Full THEN got ELSE first
StillValid == valid /\ ~Full

\* Faulty variant: the space in use is not subtracted.
ReadOverflows(n) ==
    /\ pc = "select"
    /\ n \in 1 .. BufSize /\ got + n <= StreamLen
    /\ first' = FirstKept /\ valid' = StillValid
    /\ got' = got + n
    /\ pc' = "lines"
    /\ UNCHANGED <<input, now, expires_at, file, logged, meters, metrics>>

Read(n) ==
    /\ pc = "select"
    /\ n \in 1 .. BufSize - (got - FirstKept) /\ got + n <= StreamLen
    /\ first' = FirstKept /\ valid' = StillValid
    /\ got' = got + n
    /\ pc' = "lines"
    /\ UNCHANGED <<input, now, expires_at, file, logged, meters, metrics>>

\* read() fails: logged, and the loop goes on.
ReadFails ==
    /\ pc = "select"
    /\ first' = FirstKept /\ valid' = StillValid
    /\ UNCHANGED <<input, got, pc, now, expires_at, file, logged, meters, metrics>>

\* End of a plain input file: the loop ends when the buffer is empty, and goes
\* round for ever when the last line is not terminated.
EndOfFile ==
    /\ pc = "select" /\ got = StreamLen
    /\ first' = FirstKept /\ valid' = StillValid
    /\ pc' = IF got = FirstKept THEN "exited" ELSE "select"
    /\ UNCHANGED <<input, got, now, expires_at, file, logged, meters, metrics>>

-----------------------------------------------------------------------------
(* Log files *)

Hour(t) == t \div HourLen

\* Faulty variant: an hour from now instead of the end of the current hour.
ExpiryHourFromNow(t) == t + HourLen - 1

\* The last second of the current hour.
Expiry(t) == t + (HourLen - 1 - (t % HourLen))

create_logfile == file' = Hour(now) /\ expires_at' = Expiry(now)

check_logfile ==
    \/ (expires_at = -1 \/ now > expires_at) /\ create_logfile
    \/ (expires_at # -1 /\ now <= expires_at) /\ UNCHANGED <<file, expires_at>>

\* The file cannot be opened; main returns.
LogfileFails ==
    /\ expires_at = -1 \/ now > expires_at
    /\ file' = -1
    /\ pc' = "failed"
    /\ UNCHANGED <<input, first, got, valid, now, expires_at, logged, meters, metrics>>

-----------------------------------------------------------------------------
(* Lines *)

\* Faulty variant: false positives are counted as pulses.
CountedTogether(k, nl) ==
    CASE k = "PULSE" \/ k = "FP_PULSE" -> [meters EXCEPT !.PULSE = @ + 1]
      [] k = "LDR" -> [meters EXCEPT !.LDR = nl]
      [] OTHER -> meters

Counted(k, nl) ==
    CASE k = "PULSE" -> [meters EXCEPT !.PULSE = @ + 1]
      [] k = "FP_PULSE" -> [meters EXCEPT !.FP_PULSE = @ + 1]
      [] k = "LDR" -> [meters EXCEPT !.LDR = nl]
      [] OTHER -> meters

\* The file is replaced by rename(); it stays as it was when the temporary file
\* cannot be opened.
write_metrics == metrics' = meters' \/ UNCHANGED metrics

\* Faulty variant: one byte stricter.
TooLongByOneLess(len) == len >= BufSize - 2

\* assert(len < 1023)
TooLong(len) == len >= BufSize - 1

\* The line goes to the log first; then its length is asserted.
process_line(nl) ==
    /\ check_logfile
    /\ logged' = logged \cup {[first |-> first, last |-> nl, ts |-> now, file |-> file']}
    /\ \/ TooLong(nl - first) /\ pc' = "aborted" /\ UNCHANGED <<meters, metrics>>
       \/ /\ ~TooLong(nl - first) /\ UNCHANGED pc
          /\ meters' = Counted(kind[nl], nl)
          /\ \/ kind[nl] \in Metered /\ write_metrics
             \/ kind[nl] \notin Metered /\ UNCHANGED metrics

\* memchr: the first newline in the buffer.
FirstNewline(nl) ==
    /\ nl \in newlines /\ first < nl /\ nl <= got
    /\ \A p \in newlines : first < p => nl <= p

\* Faulty variant: an oversized line's tail is taken for a line.
LineAlwaysValid(nl) ==
    /\ pc = "lines" /\ FirstNewline(nl)
    /\ process_line(nl)
    /\ first' = nl /\ valid' = TRUE
    /\ UNCHANGED <<input, got, now>>

\* Faulty variant: nothing becomes valid again after an oversized line.
LineStaysInvalid(nl) ==
    /\ pc = "lines" /\ FirstNewline(nl)
    /\ \/ valid /\ process_line(nl)
       \/ ~valid /\ UNCHANGED <<pc, expires_at, file, logged, meters, metrics>>
    /\ first' = nl /\ UNCHANGED valid
    /\ UNCHANGED <<input, got, now>>

\* One round of the inner loop.
Line(nl) ==
    /\ pc = "lines" /\ FirstNewline(nl)
    /\ \/ valid /\ process_line(nl)
       \/ ~valid /\ UNCHANGED <<pc, expires_at, file, logged, meters, metrics>>
    /\ first' = nl /\ valid' = TRUE
    /\ UNCHANGED <<input, got, now>>

LineFails(nl) == pc = "lines" /\ FirstNewline(nl) /\ valid /\ LogfileFails

\* Faulty variant: lines may be left in the buffer.
LinesDoneEarly ==
    /\ pc = "lines"
    /\ pc' = "select"
    /\ UNCHANGED <<input, first, got, valid, now, expires_at, file, logged, meters, metrics>>

\* No newline is left in the buffer.
LinesDone ==
    /\ pc = "lines"
    /\ \A p \in newlines : ~(first < p /\ p <= got)
    /\ pc' = "select"
    /\ UNCHANGED <<input, first, got, valid, now, expires_at, file, logged, meters, metrics>>

\* Time passes, between any two steps.
Tick ==
    /\ now < MaxTime
    /\ now' = now + 1
    /\ UNCHANGED <<input, first, got, valid, pc, expires_at, file, logged, meters, metrics>>

Loop ==
    \/ \E n \in 1 .. BufSize : Read(n)
    \/ EndOfFile
    \/ \E nl \in newlines : Line(nl)
    \/ LinesDone

Next ==
    \/ Loop
    \/ ReadFails
    \/ \E nl \in newlines : LineFails(nl)
    \/ Tick

Spec == Init /\ [][Next]_vars

\* The loop keeps running and the port keeps delivering.
FairSpec == Spec /\ WF_vars(Loop)

-----------------------------------------------------------------------------
(* Properties *)

\* The variables have their types and the buffer lies within the input.
TypeOK ==
    /\ newlines \subseteq Bytes /\ kind \in [newlines -> Kinds]
    /\ first \in 0 .. StreamLen /\ got \in 0 .. StreamLen
    /\ first <= got /\ got - first <= BufSize
    /\ valid \in BOOLEAN
    /\ pc \in {"select", "lines", "exited", "aborted", "failed"}
    /\ now \in 0 .. MaxTime
    /\ expires_at \in Int /\ file \in Int
    /\ logged \subseteq [first : Nat, last : Nat, ts : Nat, file : Int]
    /\ meters \in [PULSE : Nat, FP_PULSE : Nat, LDR : Nat]
    /\ metrics \in [PULSE : Nat, FP_PULSE : Nat, LDR : Nat]

\* Bytes a+1..b are one whole line of the input.
IsLine(a, b) ==
    /\ a = 0 \/ a \in newlines
    /\ b \in newlines /\ a < b
    /\ \A p \in newlines : ~(a < p /\ p < b)

\* However the bytes are cut into reads and whatever was dropped before, what
\* is logged is a whole line of the input: never the tail of an oversized line
\* and never two lines in one (the valid flag and the memmove of mlogger.c).
OnlyWholeLines == \A l \in logged : IsLine(l.first, l.last)

\* mlogger.c: "any line less than 1023 characters will be written": every line
\* short enough that the loop has passed is in the log, once.
ShortLinesLogged ==
    \A a \in 0 .. StreamLen, b \in newlines :
        IsLine(a, b) /\ b <= first /\ b - a < BufSize - 1 =>
            \E l \in logged : /\ l.first = a /\ l.last = b
                              /\ \A k \in logged : k.last = b => k = l

\* The process stops on a line only if it fills the buffer to within a byte:
\* longer lines are skipped, shorter ones are handled.
AbortsOnlyAtLimit ==
    pc = "aborted" =>
        \E l \in logged : /\ l.last = first
                          /\ l.last - l.first \in {BufSize - 1, BufSize}

\* Every line is in the file of the hour of its own timestamp, across any
\* rotation (create_logfile computes expires_at from the same time).
LineInItsHour == \A l \in logged : l.file = Hour(l.ts)

\* The lines of kind k among those logged up to byte c, and the meters they give.
LoggedKind(k, c) ==
    {l.last : l \in {x \in logged : /\ x.last <= c /\ kind[x.last] = k
                                   /\ x.last - x.first < BufSize - 1}}

MetersAt(c) ==
    [PULSE |-> Cardinality(LoggedKind("PULSE", c)),
     FP_PULSE |-> Cardinality(LoggedKind("FP_PULSE", c)),
     LDR |-> CHOOSE p \in LoggedKind("LDR", c) \cup {0} :
                \A q \in LoggedKind("LDR", c) : q <= p]

\* The meters agree with the logs: each pulse line logged since the start is
\* counted once and as its own kind, and watts is the last reading logged.  The
\* metrics file shows what they were after some line, whichever of its
\* replacements failed.
MetricsFollowLog ==
    /\ meters = MetersAt(first)
    /\ \E c \in 0 .. first : metrics = MetersAt(c)

\* Every line of the input is passed eventually, unless the program stops.
EveryLinePassed ==
    \A p \in Bytes : (p \in newlines) ~> (p <= first \/ pc \in {"aborted", "failed"})

=============================================================================
