------------------------- MODULE SerialLoggerProofs -------------------------
(***************************************************************************)
(* Proofs about SerialLogger, for any buffer size and any input: what is   *)
(* logged are whole lines, every short line is logged once and in the file *)
(* of its hour, only a line that just fits the buffer stops the program,   *)
(* and the meters follow the log.                                          *)
(*                                                                         *)
(* The invariant behind the first of these says where the buffer begins:   *)
(* at the start of a line when valid, and otherwise at least BufSize bytes *)
(* into one.                                                               *)
(***************************************************************************)
EXTENDS SerialLogger, FiniteSetTheorems, TLAPS

LineStart(a) == a = 0 \/ a \in newlines

NoNewlineIn(a, b) == \A p \in newlines : ~(a < p /\ p <= b)

\* The part of the type invariant that the argument needs.
Bounds ==
    /\ newlines \subseteq Bytes
    /\ first \in 0 .. StreamLen /\ got \in 0 .. StreamLen
    /\ first <= got /\ got - first <= BufSize
    /\ valid \in BOOLEAN
    /\ now \in Nat
    /\ logged \subseteq [first : Nat, last : Nat, ts : Nat, file : Int]

BufferStart ==
    /\ valid => LineStart(first)
    /\ ~valid => \E a \in 0 .. StreamLen :
                    LineStart(a) /\ first - a >= BufSize /\ NoNewlineIn(a, first)

IndInv ==
    /\ Bounds
    /\ BufferStart
    /\ pc = "select" => NoNewlineIn(first, got)
    /\ file \in Int /\ expires_at \in Int
    /\ \A l \in logged : l.last <= first
    /\ OnlyWholeLines
    /\ ShortLinesLogged
    /\ AbortsOnlyAtLimit

-----------------------------------------------------------------------------

\* Two lines that end at the same byte begin at the same byte.
LEMMA LineHasOneStart ==
    ASSUME newlines \subseteq Bytes, StreamLen \in Nat,
           NEW a \in 0 .. StreamLen, NEW c \in 0 .. StreamLen, NEW b \in newlines,
           IsLine(a, b), LineStart(c), c < b, \A p \in newlines : ~(c < p /\ p < b)
    PROVE  a = c
  BY DEF IsLine, LineStart, Bytes

LEMMA InitEstablishes == Init => IndInv
  <1> SUFFICES ASSUME Init PROVE IndInv
    OBVIOUS
  <1>1. Bounds /\ BufferStart /\ NoNewlineIn(first, got)
    BY SizesAssumption DEF Init, Bounds, BufferStart, NoNewlineIn, LineStart, Bytes
  <1>2. OnlyWholeLines /\ AbortsOnlyAtLimit
    BY DEF Init, OnlyWholeLines, AbortsOnlyAtLimit
  <1>3. ShortLinesLogged
    BY DEF Init, ShortLinesLogged, Bytes
  <1> QED
    BY <1>1, <1>2, <1>3 DEF IndInv, Init

\* Steps that leave the log and the start of the buffer alone keep what is said
\* about the log.
LEMMA LogKept ==
    ASSUME IndInv, UNCHANGED <<newlines, logged>>, first' >= first, first' \in Nat,
           NoNewlineIn(first, first'), pc' # "aborted"
    PROVE  /\ \A l \in logged' : l.last <= first'
           /\ OnlyWholeLines'
           /\ ShortLinesLogged'
           /\ AbortsOnlyAtLimit'
  <1> USE DEF IndInv
  <1>1. \A l \in logged' : l.last <= first'
    BY DEF Bounds
  <1>2. OnlyWholeLines'
    BY DEF OnlyWholeLines, IsLine
  <1>3. \A b \in newlines : b <= first' => b <= first
    BY DEF NoNewlineIn, Bounds, Bytes
  <1>4. ShortLinesLogged'
    BY <1>3 DEF ShortLinesLogged, IsLine
  <1>5. AbortsOnlyAtLimit'
    BY DEF AbortsOnlyAtLimit
  <1> QED
    BY <1>1, <1>2, <1>4, <1>5

\* Dropping a full buffer, or not: where the buffer begins afterwards.
LEMMA Dropping ==
    ASSUME IndInv, pc = "select", first' = FirstKept, valid' = StillValid,
           UNCHANGED newlines
    PROVE  /\ BufferStart'
           /\ first' \in 0 .. StreamLen /\ first <= first' /\ first' <= got
           /\ got - first' < BufSize
           /\ valid' \in BOOLEAN
           /\ NoNewlineIn(first, first')
           /\ NoNewlineIn(first', got)
  <1> USE SizesAssumption DEF IndInv, Bounds, Bytes
  <1>1. NoNewlineIn(first, got)
    OBVIOUS
  <1>2. CASE Full
    <2>1. first' = got /\ valid' = FALSE /\ got - first = BufSize
      BY <1>2 DEF FirstKept, StillValid, Full, bufbytes
    <2>2. \E a \in 0 .. StreamLen : LineStart(a) /\ got - a >= BufSize /\ NoNewlineIn(a, got)
      <3>1. CASE valid
        <4>1. LineStart(first) /\ first \in 0 .. StreamLen /\ got - first >= BufSize
          BY <3>1, <2>1 DEF BufferStart
        <4> QED
          BY <4>1, <1>1
      <3>2. CASE ~valid
        <4>1. PICK a \in 0 .. StreamLen :
                 LineStart(a) /\ first - a >= BufSize /\ NoNewlineIn(a, first)
          BY <3>2 DEF BufferStart
        <4>2. NoNewlineIn(a, got)
          BY <4>1, <1>1 DEF NoNewlineIn
        <4> QED
          BY <4>1, <4>2, <2>1
      <3> QED
        BY <3>1, <3>2
    <2>3. BufferStart'
      BY <2>1, <2>2 DEF BufferStart, LineStart, NoNewlineIn
    <2>4. NoNewlineIn(first, first') /\ NoNewlineIn(first', got)
      BY <2>1, <1>1 DEF NoNewlineIn
    <2>5. /\ first' \in 0 .. StreamLen /\ first <= first' /\ first' <= got
          /\ got - first' < BufSize
      BY <2>1
    <2>6. valid' \in BOOLEAN
      BY <2>1, Zenon
    <2> QED
      BY <2>3, <2>4, <2>5, <2>6
  <1>3. CASE ~Full
    <2>1. first' = first /\ valid' = valid /\ got - first < BufSize
      BY <1>3 DEF FirstKept, StillValid, Full, bufbytes
    <2>2. BufferStart'
      BY <2>1 DEF BufferStart, LineStart, NoNewlineIn
    <2> QED
      BY <2>1, <2>2, <1>1 DEF NoNewlineIn
  <1> QED
    BY <1>2, <1>3

\* The round of the inner loop that logs a line: it begins where the buffer does.
LEMMA LineLogged ==
    ASSUME IndInv, NEW nl \in newlines, Line(nl), valid
    PROVE  IndInv'
  <1> USE SizesAssumption DEF IndInv, Bounds, Bytes
  <1>1. /\ process_line(nl) /\ pc = "lines"
        /\ first' = nl /\ valid' = TRUE /\ got' = got /\ newlines' = newlines /\ now' = now
        /\ first < nl /\ nl <= got
        /\ \A p \in newlines : first < p => nl <= p
    BY DEF Line, FirstNewline, input
  <1> DEFINE new == [first |-> first, last |-> nl, ts |-> now, file |-> file']
  <1>2. file' \in Int /\ expires_at' \in Int
    BY <1>1 DEF process_line, check_logfile, create_logfile, Hour, Expiry
  <1>3. logged' = logged \cup {new}
    BY <1>1 DEF process_line
  <1>4. new \in [first : Nat, last : Nat, ts : Nat, file : Int]
    BY <1>2
  <1> HIDE DEF new
  <1>5. new.first = first /\ new.last = nl
    BY DEF new
  <1>6. Bounds'
    BY <1>1, <1>3, <1>4
  <1>7. IsLine(first, nl)
    BY <1>1 DEF BufferStart, LineStart, IsLine
  <1>8. BufferStart'
    BY <1>1 DEF BufferStart, LineStart
  <1>9. \A l \in logged' : l.last <= first'
    BY <1>1, <1>3, <1>5
  <1>10. OnlyWholeLines'
    BY <1>1, <1>3, <1>5, <1>7 DEF OnlyWholeLines, IsLine
  <1>11. ShortLinesLogged'
    <2> SUFFICES ASSUME NEW a \in 0 .. StreamLen, NEW b \in newlines,
                        IsLine(a, b), b <= nl, b - a < BufSize - 1
                 PROVE  \E l \in logged' : /\ l.first = a /\ l.last = b
                                           /\ \A k \in logged' : k.last = b => k = l
      BY <1>1 DEF ShortLinesLogged, IsLine
    <2>1. CASE b = nl
      <3>1. a = first
        BY <2>1, <1>1, LineHasOneStart DEF BufferStart
      <3>2. \A k \in logged : k.last # nl
        BY <1>1
      <3> QED
        BY <2>1, <3>1, <3>2, <1>3, <1>5
    <2>2. CASE b # nl
      <3>1. b <= first
        BY <2>2, <1>1
      <3>2. PICK l \in logged : /\ l.first = a /\ l.last = b
                                /\ \A k \in logged : k.last = b => k = l
        BY <3>1 DEF ShortLinesLogged
      <3> QED
        BY <3>2, <2>2, <1>3, <1>5
    <2> QED
      BY <2>1, <2>2
  <1>12. AbortsOnlyAtLimit'
    <2> SUFFICES ASSUME pc' = "aborted"
                 PROVE  \E l \in logged' : /\ l.last = first'
                                           /\ l.last - l.first \in {BufSize - 1, BufSize}
      BY DEF AbortsOnlyAtLimit
    <2>1. nl - first >= BufSize - 1
      BY <1>1 DEF process_line, TooLong
    <2>2. nl - first <= BufSize
      BY <1>1
    <2> QED
      BY <2>1, <2>2, <1>1, <1>3, <1>5
  <1>13. pc' # "select"
    BY <1>1 DEF process_line
  <1> QED
    BY <1>2, <1>6, <1>8, <1>9, <1>10, <1>11, <1>12, <1>13

\* The round that passes the end of an oversized line: that line is not short.
LEMMA LineSkipped ==
    ASSUME IndInv, NEW nl \in newlines, Line(nl), ~valid
    PROVE  IndInv'
  <1> USE SizesAssumption DEF IndInv, Bounds, Bytes
  <1>1. /\ UNCHANGED <<pc, expires_at, file, logged>> /\ pc = "lines"
        /\ first' = nl /\ valid' = TRUE /\ got' = got /\ newlines' = newlines /\ now' = now
        /\ first < nl /\ nl <= got
        /\ \A p \in newlines : first < p => nl <= p
    BY DEF Line, FirstNewline, input
  <1>2. Bounds' /\ BufferStart'
    BY <1>1 DEF BufferStart, LineStart
  <1>3. \A l \in logged' : l.last <= first'
    BY <1>1
  <1>4. OnlyWholeLines' /\ AbortsOnlyAtLimit'
    BY <1>1 DEF OnlyWholeLines, AbortsOnlyAtLimit, IsLine
  <1>5. PICK s \in 0 .. StreamLen :
           LineStart(s) /\ first - s >= BufSize /\ NoNewlineIn(s, first)
    BY DEF BufferStart
  <1>6. s < nl /\ \A p \in newlines : ~(s < p /\ p < nl)
    BY <1>1, <1>5 DEF NoNewlineIn
  <1>7. ShortLinesLogged'
    <2> SUFFICES ASSUME NEW a \in 0 .. StreamLen, NEW b \in newlines,
                        IsLine(a, b), b <= nl, b - a < BufSize - 1
                 PROVE  \E l \in logged : /\ l.first = a /\ l.last = b
                                          /\ \A k \in logged : k.last = b => k = l
      BY <1>1 DEF ShortLinesLogged, IsLine
    <2>1. CASE b = nl
      <3>1. a = s
        BY <2>1, <1>5, <1>6, LineHasOneStart
      <3> QED
        BY <3>1, <2>1, <1>1, <1>5
    <2>2. CASE b # nl
      <3>1. b <= first
        BY <2>2, <1>1
      <3> QED
        BY <3>1 DEF ShortLinesLogged
    <2> QED
      BY <2>1, <2>2
  <1> QED
    BY <1>1, <1>2, <1>3, <1>4, <1>7

\* The steps that move bytes into the buffer or find none.
LEMMA ReadingPreserves ==
    ASSUME IndInv, (\E n \in 1 .. BufSize : Read(n)) \/ ReadFails \/ EndOfFile
    PROVE  IndInv'
  <1> USE SizesAssumption
  <1>1. /\ pc = "select" /\ first' = FirstKept /\ valid' = StillValid
        /\ UNCHANGED <<newlines, logged, now, file, expires_at>> /\ pc' # "aborted"
    BY DEF Read, ReadFails, EndOfFile, input
  <1>2. /\ BufferStart'
        /\ first' \in 0 .. StreamLen /\ first <= first' /\ first' <= got
        /\ got - first' < BufSize
        /\ valid' \in BOOLEAN
        /\ NoNewlineIn(first, first')
        /\ NoNewlineIn(first', got)
    BY <1>1, Dropping
  <1>3. /\ \A l \in logged' : l.last <= first'
        /\ OnlyWholeLines' /\ ShortLinesLogged' /\ AbortsOnlyAtLimit'
    BY <1>1, <1>2, LogKept DEF IndInv, Bounds
  <1>4. CASE \E n \in 1 .. BufSize : Read(n)
    <2>1. PICK n \in 1 .. BufSize : Read(n)
      BY <1>4
    <2>2. /\ n <= BufSize - (got - first') /\ got' = got + n /\ got' <= StreamLen
          /\ pc' = "lines"
      BY <2>1, <1>1 DEF Read
    <2>3. Bounds'
      BY <2>2, <1>1, <1>2 DEF IndInv, Bounds
    <2> QED
      BY <2>2, <2>3, <1>1, <1>2, <1>3 DEF IndInv
  <1>5. CASE ReadFails \/ EndOfFile
    <2>1. got' = got
      BY <1>5 DEF ReadFails, EndOfFile
    <2>2. Bounds'
      BY <2>1, <1>1, <1>2 DEF IndInv, Bounds
    <2>3. NoNewlineIn(first, got)'
      BY <2>1, <1>1, <1>2 DEF NoNewlineIn
    <2> QED
      BY <2>2, <2>3, <1>1, <1>2, <1>3 DEF IndInv
  <1> QED
    BY <1>4, <1>5

\* The steps that leave the buffer as it is.
LEMMA OthersPreserve ==
    ASSUME IndInv,
           (\E nl \in newlines : LineFails(nl)) \/ LinesDone \/ Tick \/ UNCHANGED vars
    PROVE  IndInv'
  <1> USE SizesAssumption
  <1>1. /\ UNCHANGED <<newlines, first, got, valid, expires_at, logged>>
        /\ file' \in Int /\ now' \in Nat
    BY DEF LineFails, LogfileFails, LinesDone, Tick, vars, input, IndInv, Bounds
  <1>2. pc' = "select" => NoNewlineIn(first, got)'
    BY DEF LineFails, LogfileFails, LinesDone, Tick, vars, input, IndInv, NoNewlineIn
  <1>3. pc' = "aborted" => pc = "aborted"
    BY DEF LineFails, LogfileFails, LinesDone, Tick, vars
  <1>4. Bounds' /\ BufferStart'
    BY <1>1 DEF IndInv, Bounds, BufferStart, LineStart, NoNewlineIn
  <1>5. OnlyWholeLines' /\ ShortLinesLogged' /\ AbortsOnlyAtLimit'
    BY <1>1, <1>3 DEF IndInv, OnlyWholeLines, ShortLinesLogged, AbortsOnlyAtLimit, IsLine
  <1> QED
    BY <1>1, <1>2, <1>4, <1>5 DEF IndInv

\* IndInv is an invariant of the read loop, for every buffer size and input.
THEOREM Invariance == Spec => []IndInv
  <1>1. IndInv /\ [Next]_vars => IndInv'
    <2> SUFFICES ASSUME IndInv, [Next]_vars PROVE IndInv'
      OBVIOUS
    <2>1. CASE \E nl \in newlines : Line(nl)
      BY <2>1, LineLogged, LineSkipped
    <2>2. CASE (\E n \in 1 .. BufSize : Read(n)) \/ ReadFails \/ EndOfFile
      BY <2>2, ReadingPreserves
    <2>3. CASE (\E nl \in newlines : LineFails(nl)) \/ LinesDone \/ Tick \/ UNCHANGED vars
      BY <2>3, OthersPreserve
    <2> QED
      BY <2>1, <2>2, <2>3 DEF Next, Loop
  <1> QED
    BY <1>1, InitEstablishes, PTL DEF Spec

\* What mlogger.c logs are whole lines of the input, however the bytes arrive.
THEOREM WholeLines == Spec => []OnlyWholeLines
  <1>1. IndInv => OnlyWholeLines
    BY DEF IndInv
  <1> QED
    BY <1>1, Invariance, PTL

\* Every line more than a byte shorter than the buffer is logged exactly once.
THEOREM ShortLines == Spec => []ShortLinesLogged
  <1>1. IndInv => ShortLinesLogged
    BY DEF IndInv
  <1> QED
    BY <1>1, Invariance, PTL

\* The assertion on the length fails only for lines of the last two lengths.
THEOREM AbortLimit == Spec => []AbortsOnlyAtLimit
  <1>1. IndInv => AbortsOnlyAtLimit
    BY DEF IndInv
  <1> QED
    BY <1>1, Invariance, PTL

-----------------------------------------------------------------------------
(* Files and hours *)

\* The last second of an hour is where the next one begins, less one.
LEMMA HourBounds ==
    ASSUME NEW t \in Nat
    PROVE  /\ Hour(t) \in Nat
           /\ HourLen * Hour(t) <= t
           /\ t <= Expiry(t)
           /\ Expiry(t) = HourLen * Hour(t) + HourLen - 1
  BY SizesAssumption DEF Hour, Expiry

\* An hour is told by the times between its ends.
LEMMA HourUnique ==
    ASSUME NEW t \in Nat, NEW h \in Nat, HourLen * h <= t, t <= HourLen * h + HourLen - 1
    PROVE  Hour(t) = h
  BY SizesAssumption DEF Hour

\* The open file is that of an hour that has begun, and expires with it.
FileOpen ==
    expires_at # -1 /\ pc # "failed" =>
        /\ file \in Nat
        /\ HourLen * file <= now
        /\ expires_at = HourLen * file + HourLen - 1

HourInv == FileOpen /\ LineInItsHour

\* After check_logfile the open file is that of the present hour.
LEMMA CheckedFile ==
    ASSUME FileOpen, pc # "failed", now \in Nat, expires_at \in Int, check_logfile
    PROVE  /\ file' = Hour(now)
           /\ expires_at' = HourLen * file' + HourLen - 1
           /\ file' \in Nat /\ HourLen * file' <= now
  <1>1. CASE create_logfile
    BY <1>1, HourBounds DEF create_logfile
  <1>2. CASE expires_at # -1 /\ now <= expires_at /\ UNCHANGED <<file, expires_at>>
    BY <1>2, HourUnique DEF FileOpen
  <1> QED
    BY <1>1, <1>2 DEF check_logfile

LEMMA HourPreserved == IndInv /\ HourInv /\ [Next]_vars => HourInv'
  <1> SUFFICES ASSUME IndInv, HourInv, [Next]_vars PROVE HourInv'
    OBVIOUS
  <1>0. now \in Nat /\ expires_at \in Int
    BY DEF IndInv, Bounds
  <1>1. ASSUME NEW nl \in newlines, Line(nl), valid PROVE HourInv'
    <2>1. /\ check_logfile /\ pc = "lines" /\ now' = now
          /\ logged' = logged \cup {[first |-> first, last |-> nl, ts |-> now, file |-> file']}
      BY <1>1 DEF Line, process_line
    <2>2. /\ file' = Hour(now)
          /\ expires_at' = HourLen * file' + HourLen - 1
          /\ file' \in Nat /\ HourLen * file' <= now
      BY <2>1, <1>0, CheckedFile DEF HourInv
    <2>3. LineInItsHour'
      BY <2>1, <2>2 DEF HourInv, LineInItsHour, Hour
    <2> QED
      BY <2>1, <2>2, <2>3 DEF HourInv, FileOpen
  <1>2. ASSUME NEW nl \in newlines, Line(nl), ~valid PROVE HourInv'
    BY <1>2 DEF Line, HourInv, FileOpen, LineInItsHour, Hour
  <1>3. CASE (\E n \in 1 .. BufSize : Read(n)) \/ ReadFails \/ EndOfFile \/ LinesDone
             \/ UNCHANGED vars
    <2>1. /\ UNCHANGED <<expires_at, file, logged, now>>
          /\ pc = "failed" => pc' = "failed"
      BY <1>3 DEF Read, ReadFails, EndOfFile, LinesDone, vars
    <2>2. FileOpen'
      BY ONLY HourInv, <2>1 DEF HourInv, FileOpen
    <2>3. LineInItsHour'
      BY ONLY HourInv, <2>1 DEF HourInv, LineInItsHour, Hour
    <2> QED
      BY <2>2, <2>3 DEF HourInv
  <1>4. CASE \E nl \in newlines : LineFails(nl)
    BY <1>4 DEF LineFails, LogfileFails, HourInv, FileOpen, LineInItsHour, Hour
  <1>5. CASE Tick
    <2>1. now' = now + 1 /\ UNCHANGED <<expires_at, file, logged, pc>>
      BY <1>5 DEF Tick
    <2>2. ASSUME file \in Nat, HourLen * file <= now PROVE HourLen * file <= now + 1
      BY <1>0, <2>2, SizesAssumption
    <2>3. FileOpen'
      BY <2>1, <2>2 DEF HourInv, FileOpen
    <2> QED
      BY <2>1, <2>3 DEF HourInv, LineInItsHour, Hour
  <1> QED
    BY <1>1, <1>2, <1>3, <1>4, <1>5 DEF Next, Loop

\* create_logfile and check_logfile put every line into the file of its hour,
\* for hours of any length and however long the loop is held up.
THEOREM LinesInTheirHours == Spec => []LineInItsHour
  <1>1. Init => HourInv
    BY DEF Init, HourInv, FileOpen, LineInItsHour
  <1>2. HourInv => LineInItsHour
    BY DEF HourInv
  <1> QED
    BY <1>1, <1>2, HourPreserved, Invariance, PTL DEF Spec

-----------------------------------------------------------------------------
(* Meters *)

Input == newlines \subseteq Bytes /\ kind \in [newlines -> Kinds]

MetersInv == Input /\ MetricsFollowLog

\* The lines that are counted lie in the input, so there are finitely many.
LEMMA LoggedKindFinite ==
    ASSUME Bounds, \A l \in logged : l.last <= first, NEW k, NEW c
    PROVE  /\ IsFiniteSet(LoggedKind(k, c))
           /\ \A p \in LoggedKind(k, c) : p \in Nat /\ p <= first
  <1>1. \A p \in LoggedKind(k, c) : p \in Nat /\ p <= first
    BY DEF LoggedKind, Bounds
  <1>2. IsFiniteSet(0 .. first) /\ LoggedKind(k, c) \in SUBSET (0 .. first)
    BY <1>1, FS_Interval DEF Bounds
  <1> QED
    BY <1>1, <1>2, FS_Subset

\* What is counted up to a byte before a new line, or without one, stays.
LEMMA LoggedKindKept ==
    ASSUME UNCHANGED kind, NEW new, logged' = logged \/ logged' = logged \cup {new},
           NEW c, logged' = logged \/ ~(new.last <= c),
           NEW k
    PROVE  LoggedKind(k, c)' = LoggedKind(k, c)
  BY DEF LoggedKind

LEMMA MetersKept ==
    ASSUME UNCHANGED kind, NEW new, logged' = logged \/ logged' = logged \cup {new},
           NEW c, logged' = logged \/ ~(new.last <= c)
    PROVE  MetersAt(c)' = MetersAt(c)
  BY LoggedKindKept DEF MetersAt

\* The start of the buffer moves over bytes without a logged line: nothing to count.
LEMMA MetersMoved ==
    ASSUME IndInv, NEW c \in Nat, first <= c
    PROVE  MetersAt(c) = MetersAt(first)
  <1>1. ASSUME NEW k PROVE LoggedKind(k, c) = LoggedKind(k, first)
    BY DEF LoggedKind, IndInv, Bounds
  <1>2. /\ LoggedKind("PULSE", c) = LoggedKind("PULSE", first)
        /\ LoggedKind("FP_PULSE", c) = LoggedKind("FP_PULSE", first)
        /\ LoggedKind("LDR", c) = LoggedKind("LDR", first)
    BY <1>1
  <1> QED
    BY <1>2 DEF MetersAt

\* The last reading of a set that grows at its end is the new one.
LEMMA LastReading ==
    ASSUME NEW S, NEW n \in Nat, \A p \in S : p \in Nat /\ p < n
    PROVE  (CHOOSE p \in (S \cup {n}) \cup {0} : \A q \in S \cup {n} : q <= p) = n
  <1>1. n \in (S \cup {n}) \cup {0} /\ \A q \in S \cup {n} : q <= n
    OBVIOUS
  <1>2. ASSUME NEW p \in (S \cup {n}) \cup {0}, \A q \in S \cup {n} : q <= p
        PROVE  p = n
    <2>1. p \in Nat /\ n <= p
      BY <1>2
    <2> QED
      BY <2>1, <1>2
  <1> QED
    BY <1>1, <1>2

\* What a line adds to the lines counted: itself, to those of its kind, unless
\* the assertion on its length ends the program before it is counted.
LEMMA LineAdds ==
    ASSUME IndInv, Input, NEW nl \in newlines, Line(nl), valid, NEW k
    PROVE  LoggedKind(k, nl)' = IF kind[nl] = k /\ ~TooLong(nl - first)
                                THEN LoggedKind(k, first) \cup {nl} ELSE LoggedKind(k, first)
  <1> DEFINE new == [first |-> first, last |-> nl, ts |-> now, file |-> file']
  <1>1. /\ logged' = logged \cup {new} /\ kind' = kind
        /\ first < nl /\ nl \in Nat /\ first \in Nat
    BY DEF Line, process_line, input, FirstNewline, IndInv, Bounds, Bytes
  <1>2. \A l \in logged : l.last \in Nat /\ l.last <= first
    BY DEF IndInv, Bounds
  <1>3. new.first = first /\ new.last = nl
    OBVIOUS
  <1> HIDE DEF new
  <1>4. TooLong(nl - first) <=> ~(new.last - new.first < BufSize - 1)
    BY <1>1, <1>3, SizesAssumption DEF TooLong
  <1>5. LoggedKind(k, nl)' =
           {l.last : l \in {x \in logged \cup {new} : /\ x.last <= nl /\ kind[x.last] = k
                                                    /\ x.last - x.first < BufSize - 1}}
    BY <1>1 DEF LoggedKind
  <1>6. \A x \in logged \cup {new} : x.last <= nl
    BY <1>1, <1>2, <1>3
  <1> QED
    BY <1>2, <1>3, <1>4, <1>5, <1>6 DEF LoggedKind

\* The meters count the line that is logged.
LEMMA LineCounted ==
    ASSUME IndInv, MetersInv, NEW nl \in newlines, Line(nl), valid
    PROVE  MetersAt(nl)' = IF TooLong(nl - first) THEN meters ELSE Counted(kind[nl], nl)
  <1> DEFINE S(k) == LoggedKind(k, first)
             T(k) == LoggedKind(k, nl)'
             counted(k) == kind[nl] = k /\ ~TooLong(nl - first)
  <1>1. \A k : T(k) = IF counted(k) THEN S(k) \cup {nl} ELSE S(k)
    BY LineAdds DEF MetersInv
  <1>2. /\ \A k : IsFiniteSet(S(k)) /\ \A p \in S(k) : p \in Nat /\ p < nl
        /\ nl \in Nat
    BY LoggedKindFinite DEF Line, FirstNewline, IndInv, Bounds, Bytes
  <1>3. meters = [PULSE |-> Cardinality(S("PULSE")),
                  FP_PULSE |-> Cardinality(S("FP_PULSE")),
                  LDR |-> CHOOSE p \in S("LDR") \cup {0} : \A q \in S("LDR") : q <= p]
    BY DEF MetersInv, MetricsFollowLog, MetersAt
  <1>4. MetersAt(nl)' =
           [PULSE |-> Cardinality(T("PULSE")),
            FP_PULSE |-> Cardinality(T("FP_PULSE")),
            LDR |-> CHOOSE p \in T("LDR") \cup {0} : \A q \in T("LDR") : q <= p]
    BY DEF MetersAt
  <1> HIDE DEF S, T
  <1>5. \A k : Cardinality(S(k) \cup {nl}) = Cardinality(S(k)) + 1
    <2> TAKE k
    <2>1. nl \notin S(k)
      BY <1>2
    <2> QED
      BY <1>2, <2>1, FS_AddElement
  <1>6. (CHOOSE p \in (S("LDR") \cup {nl}) \cup {0} : \A q \in S("LDR") \cup {nl} : q <= p) = nl
    BY <1>2, LastReading
  <1>7. CASE TooLong(nl - first)
    BY <1>1, <1>3, <1>4, <1>7
  <1>8. CASE ~TooLong(nl - first) /\ kind[nl] = "PULSE"
    BY <1>1, <1>3, <1>4, <1>5, <1>8 DEF Counted
  <1>9. CASE ~TooLong(nl - first) /\ kind[nl] = "FP_PULSE"
    BY <1>1, <1>3, <1>4, <1>5, <1>9 DEF Counted
  <1>10. CASE ~TooLong(nl - first) /\ kind[nl] = "LDR"
    BY <1>1, <1>3, <1>4, <1>6, <1>10 DEF Counted
  <1>11. CASE ~TooLong(nl - first) /\ kind[nl] \notin Metered
    BY <1>1, <1>3, <1>4, <1>11 DEF Counted, Metered
  <1> QED
    BY <1>7, <1>8, <1>9, <1>10, <1>11 DEF Metered

\* Steps that log nothing, wherever the buffer begins after them.
LEMMA NothingLogged ==
    ASSUME IndInv, MetersInv, UNCHANGED <<newlines, kind, logged, meters, metrics>>,
           first' \in Nat, first <= first'
    PROVE  MetersInv'
  <1>1. \A c : MetersAt(c)' = MetersAt(c)
    BY DEF MetersAt, LoggedKind
  <1>2. meters' = MetersAt(first)'
    BY <1>1, MetersMoved DEF MetersInv, MetricsFollowLog, MetersAt, LoggedKind
  <1>3. PICK c \in 0 .. first : metrics = MetersAt(c)
    BY DEF MetersInv, MetricsFollowLog
  <1>4. c \in 0 .. first' /\ metrics' = MetersAt(c)'
    BY <1>1, <1>3 DEF IndInv, Bounds
  <1> QED
    BY <1>2, <1>4 DEF MetersInv, MetricsFollowLog, Input, Bytes

LEMMA MetersPreserved == IndInv /\ MetersInv /\ [Next]_vars => MetersInv'
  <1> SUFFICES ASSUME IndInv, MetersInv, [Next]_vars PROVE MetersInv'
    OBVIOUS
  <1>0. first \in Nat /\ got \in Nat /\ first <= got
    BY DEF IndInv, Bounds
  <1>1. ASSUME NEW nl \in newlines, Line(nl), valid PROVE MetersInv'
    <2>1. /\ UNCHANGED <<newlines, kind>> /\ first' = nl /\ nl \in Nat /\ first < nl
          /\ \/ TooLong(nl - first) /\ UNCHANGED <<meters, metrics>>
             \/ /\ ~TooLong(nl - first) /\ meters' = Counted(kind[nl], nl)
                /\ metrics' = meters' \/ UNCHANGED metrics
      BY <1>1 DEF Line, process_line, write_metrics, input, FirstNewline, IndInv, Bounds, Bytes
    <2>2. meters' = MetersAt(nl)'
      BY <1>1, <2>1, LineCounted
    <2>3. CASE metrics' = meters'
      BY <2>1, <2>2, <2>3 DEF MetersInv, MetricsFollowLog, Input, Bytes
    <2>4. CASE UNCHANGED metrics
      <3>1. PICK c \in 0 .. first : metrics = MetersAt(c)
        BY DEF MetersInv, MetricsFollowLog
      <3> DEFINE new == [first |-> first, last |-> nl, ts |-> now, file |-> file']
      <3>2. logged' = logged \cup {new} /\ new.last = nl
        BY <1>1 DEF Line, process_line
      <3> HIDE DEF new
      <3>3. c \in 0 .. nl /\ ~(nl <= c)
        BY <2>1, <3>1, <1>0
      <3>4. MetersAt(c)' = MetersAt(c)
        BY <2>1, <3>2, <3>3, MetersKept
      <3> QED
        BY <2>1, <2>2, <2>4, <3>1, <3>3, <3>4 DEF MetersInv, MetricsFollowLog, Input, Bytes
    <2> QED
      BY <2>1, <2>3, <2>4
  <1>2. ASSUME NEW nl \in newlines, Line(nl), ~valid PROVE MetersInv'
    <2>1. /\ UNCHANGED <<newlines, kind, logged, meters, metrics>>
          /\ first' \in Nat /\ first <= first'
      BY <1>2 DEF Line, FirstNewline, input, IndInv, Bounds, Bytes
    <2> QED
      BY <2>1, NothingLogged
  <1>3. CASE (\E n \in 1 .. BufSize : Read(n)) \/ ReadFails \/ EndOfFile
    <2>1. UNCHANGED <<newlines, kind, logged, meters, metrics>> /\ first' = FirstKept
      BY <1>3 DEF Read, ReadFails, EndOfFile, input
    <2>2. first' \in Nat /\ first <= first'
      BY <2>1, <1>0 DEF FirstKept
    <2> QED
      BY <2>1, <2>2, NothingLogged
  <1>4. CASE (\E nl \in newlines : LineFails(nl)) \/ LinesDone \/ Tick \/ UNCHANGED vars
    <2>1. UNCHANGED <<newlines, kind, logged, meters, metrics, first>>
      BY <1>4 DEF LineFails, LogfileFails, LinesDone, Tick, vars, input
    <2> QED
      BY <2>1, <1>0, NothingLogged
  <1> QED
    BY <1>1, <1>2, <1>3, <1>4 DEF Next, Loop

LEMMA MetersInit == Init => MetersInv
  <1> SUFFICES ASSUME Init PROVE MetersInv
    OBVIOUS
  <1>1. Input /\ first = 0 /\ meters = NoMeters /\ metrics = NoMeters
    BY DEF Init, Input
  <1>2. LoggedKind("PULSE", 0) = {} /\ LoggedKind("FP_PULSE", 0) = {} /\ LoggedKind("LDR", 0) = {}
    BY DEF Init, LoggedKind
  <1>3. (CHOOSE p \in {} \cup {0} : \A q \in {} : q <= p) = 0
    OBVIOUS
  <1>4. MetersAt(0) = NoMeters
    BY <1>2, <1>3, FS_EmptySet DEF MetersAt, NoMeters
  <1> QED
    BY <1>1, <1>4 DEF MetersInv, MetricsFollowLog

\* The counters of process_line and the metrics file agree with the logs, for
\* any number of lines and whichever replacement of the file fails.
THEOREM MetersFollow == Spec => []MetricsFollowLog
  <1>1. MetersInv => MetricsFollowLog
    BY DEF MetersInv
  <1> QED
    BY <1>1, MetersInit, MetersPreserved, Invariance, PTL DEF Spec

-----------------------------------------------------------------------------
(* Types *)

\* What TypeOK says beyond Bounds and Input.
OtherTypes ==
    /\ pc \in {"select", "lines", "exited", "aborted", "failed"}
    /\ now <= MaxTime
    /\ meters \in [PULSE : Nat, FP_PULSE : Nat, LDR : Nat]
    /\ metrics \in [PULSE : Nat, FP_PULSE : Nat, LDR : Nat]

LEMMA OtherTypesPreserved == IndInv /\ OtherTypes /\ [Next]_vars => OtherTypes'
  <1> SUFFICES ASSUME IndInv, OtherTypes, [Next]_vars PROVE OtherTypes'
    OBVIOUS
  <1> DEFINE M == [PULSE : Nat, FP_PULSE : Nat, LDR : Nat]
  <1>1. ASSUME NEW nl \in newlines PROVE Counted(kind[nl], nl) \in M
    BY DEF OtherTypes, Counted, IndInv, Bounds, Bytes
  <1>2. meters' \in M /\ metrics' \in M
    <2>1. CASE \E nl \in newlines : Line(nl)
      BY <2>1, <1>1 DEF OtherTypes, Line, process_line, write_metrics
    <2>2. CASE UNCHANGED <<meters, metrics>>
      BY <2>2 DEF OtherTypes
    <2> QED
      BY <2>1, <2>2 DEF Next, Loop, Read, ReadFails, EndOfFile, LineFails, LogfileFails,
                        LinesDone, Tick, vars
  <1>3. now' <= MaxTime
    BY SizesAssumption DEF OtherTypes, IndInv, Bounds, Next, Loop, Read, ReadFails, EndOfFile, Line,
       LineFails, LogfileFails, LinesDone, Tick, vars
  <1>4. pc' \in {"select", "lines", "exited", "aborted", "failed"}
    BY DEF OtherTypes, Next, Loop, Read, ReadFails, EndOfFile, Line, process_line, LineFails,
       LogfileFails, LinesDone, Tick, vars
  <1> QED
    BY <1>2, <1>3, <1>4 DEF OtherTypes

\* Types of the read loop, and the buffer lies within the input.
THEOREM TypeCorrect == Spec => []TypeOK
  <1>1. Init => OtherTypes
    BY SizesAssumption DEF Init, OtherTypes, NoMeters
  <1>2. IndInv /\ MetersInv /\ OtherTypes => TypeOK
    BY DEF IndInv, Bounds, MetersInv, Input, OtherTypes, TypeOK
  <1> QED
    BY <1>1, <1>2, OtherTypesPreserved, MetersInit, MetersPreserved, Invariance, PTL DEF Spec

=============================================================================
