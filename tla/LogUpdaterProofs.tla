-------------------------- MODULE LogUpdaterProofs --------------------------
(***************************************************************************)
(* Proofs about LogUpdater, for any logs, hours and meters.                *)
(*                                                                         *)
(* What Updater.CalculateStep computes comes first, then invariants in     *)
(* layers, each proved with those before it:                               *)
(*   FileInv    what a fetched file holds; what it lacks is spoilt         *)
(*   RunInv     types, and where the run stands in the files               *)
(*   RecInv     what was passed is recorded, queued or spoilt              *)
(*   SeriesInv  the last point of a file, and what the run has counted,    *)
(*              are ends of chains that no later run falls below           *)
(*   TrueInv    the state of a node is that of an uninterrupted run, which *)
(*              the recursion of StatesOf is unrolled for                  *)
(* RecInv gives PassedLinesRecorded, SeriesInv SeriesNeverDrops, and       *)
(* TrueInv PointsAsUninterrupted.                                          *)
(***************************************************************************)
EXTENDS LogUpdater, FiniteSetTheorems, TLAPS

\* CalculateStep of common.py comes down to its first test: after a restart of
\* the meter the step is 1, and otherwise the difference of the counters.  The
\* branches for wrapped counters and missed reports are either not reached, as
\* a counter that went back counts as a restart, or give the difference.
THEOREM StepIsDifference ==
    ASSUME NEW ping_id \in Nat, NEW counter \in Nat, NEW last_counter \in Nat,
           NEW last_ping \in Nat, NEW parts \in Nat
    PROVE  CalculateStep(ping_id, counter, last_counter, last_ping, parts)
              = IF ping_id = 1 \/ counter < last_counter THEN 1 ELSE counter - last_counter
  <1>1. CASE ping_id = 1 \/ counter < last_counter
    BY <1>1 DEF CalculateStep
  <1>2. CASE ping_id # 1 /\ counter >= last_counter /\ ping_id - 1 # last_ping
    BY <1>2 DEF CalculateStep
  <1>3. CASE ping_id # 1 /\ counter >= last_counter /\ ping_id - 1 = last_ping
    <2>1. CASE counter = 0
      <3>1. last_counter = 0
        BY <1>3, <2>1
      <3>2. ~(10 * last_counter > 9 * 2 * 8) /\ ~(10 * last_counter > 9 * LongWrap)
        BY <3>1, LogUpdaterAssumption
      <3> QED
        BY <1>3, <2>1, <3>1, <3>2 DEF CalculateStep
    <2>2. CASE counter # 0
      BY <1>3, <2>2 DEF CalculateStep
    <2> QED
      BY <2>1, <2>2
  <1> QED
    BY <1>1, <1>2, <1>3

\* The counter that goes to the RRD file never goes back from one report of a
\* node to the next, whatever the meter's own counter does: a COUNTER file
\* would take a smaller value for a wrap of 32 bits.
THEOREM ReportNeverLowers ==
    ASSUME NEW state, NEW report \in Lines,
           state.realcounter \in Nat, state.lastcounter \in Nat \cup {Null},
           state.last_ping_id \in Nat, state.lastcounter = Null => state.realcounter = 0
    PROVE  /\ ProcessMeterReader(state, report).realcounter \in Nat
           /\ ProcessMeterReader(state, report).realcounter >= state.realcounter
  <1>1. report.counter \in Nat /\ report.ping_id \in Nat /\ report.parts \in Nat
    BY DEF Lines
  <1>2. CASE state.lastcounter = Null
    BY <1>1, <1>2 DEF ProcessMeterReader
  <1>3. ASSUME NEW last \in Nat, state.lastcounter = last, last # Null
        PROVE  /\ ProcessMeterReader(state, report).realcounter \in Nat
               /\ ProcessMeterReader(state, report).realcounter >= state.realcounter
    <2> DEFINE ping == report.ping_id
               counter == report.counter
               step == CalculateStep(ping, counter, last, state.last_ping_id, report.parts)
    <2>1. ping \in Nat /\ counter \in Nat
      BY <1>1
    <2>2. step = IF ping = 1 \/ counter < last THEN 1 ELSE counter - last
      <3> DEFINE q == state.last_ping_id
                 n == report.parts
      <3>1. q \in Nat /\ n \in Nat
        BY <1>1
      <3> HIDE DEF ping, counter, q, n
      <3>2. CalculateStep(ping, counter, last, q, n)
               = IF ping = 1 \/ counter < last THEN 1 ELSE counter - last
        BY <2>1, <3>1, StepIsDifference
      <3> QED
        BY <3>2 DEF q, n
    <2>3. ProcessMeterReader(state, report).realcounter = state.realcounter + step
      BY <1>3 DEF ProcessMeterReader
    <2> HIDE DEF step, ping, counter
    <2>4. step \in Nat
      BY <2>1, <2>2
    <2> QED
      BY <2>3, <2>4
  <1> QED
    BY <1>2, <1>3

-----------------------------------------------------------------------------
(* The places of the lines in their files *)

Indices == 1 .. Len(log)

\* The number of line i in its file, from 0.
Place(i) == i - FirstOf(log[i].hour)

LogTyped == log \in Logs /\ written \in 0 .. Len(log)

LEMMA LogFacts ==
    ASSUME LogTyped
    PROVE  /\ Len(log) \in Nat /\ log \in Seq(Lines)
           /\ \A i \in Indices : log[i] \in Lines /\ log[i].hour \in Hours /\ log[i].hour \in Nat \ {0}
                                 /\ log[i].ts \in Nat
           /\ \A i, j \in Indices : i <= j => log[i].hour <= log[j].hour /\ log[i].ts <= log[j].ts
  <1>1. log \in Seq(Lines) /\ Hours \subseteq Nat \ {0}
    BY LogUpdaterAssumption DEF LogTyped
  <1>2. Len(log) \in Nat /\ \A i \in Indices : log[i] \in Lines
    BY <1>1 DEF Indices
  <1>3. \A i \in Indices : log[i].hour \in Hours /\ log[i].ts \in Nat
    BY <1>2 DEF Lines
  <1> QED
    BY <1>1, <1>2, <1>3, LogUpdaterAssumption DEF Indices, LogTyped

\* The sets that FirstOf and WrittenOf count.
Before(h) == {i \in 1 .. Len(log) : log[i].hour < h}
WrittenIn(h) == {i \in 1 .. written : log[i].hour = h}

LEMMA PlaceFacts ==
    ASSUME LogTyped, NEW h \in Hours
    PROVE  /\ IsFiniteSet(Before(h)) /\ IsFiniteSet(WrittenIn(h))
           /\ FirstOf(h) = 1 + Cardinality(Before(h)) /\ Cardinality(Before(h)) \in Nat
           /\ WrittenOf(h) = Cardinality(WrittenIn(h)) /\ Cardinality(WrittenIn(h)) \in Nat
  <1>1. IsFiniteSet(1 .. Len(log)) /\ IsFiniteSet(1 .. written)
    BY LogFacts, FS_Interval DEF LogTyped
  <1>2. IsFiniteSet(Before(h)) /\ IsFiniteSet(WrittenIn(h))
    BY <1>1, FS_Subset DEF Before, WrittenIn
  <1> QED
    BY <1>2, FS_CardinalityType DEF FirstOf, WrittenOf, Before, WrittenIn

\* Counting against an initial segment.
LEMMA CountUpTo ==
    ASSUME NEW n \in Nat, NEW S
    PROVE  /\ S \subseteq 1 .. n => Cardinality(S) <= n
           /\ IsFiniteSet(S) /\ 1 .. n \subseteq S => n <= Cardinality(S)
  <1>1. IsFiniteSet(1 .. n) /\ Cardinality(1 .. n) = n
    <2>1. /\ IsFiniteSet(1 .. n)
          /\ Cardinality(1 .. n) = IF 1 > n THEN 0 ELSE n - 1 + 1
      BY FS_Interval
    <2> QED
      BY <2>1
  <1>2. S \subseteq 1 .. n => Cardinality(S) <= n
    BY <1>1, FS_Subset
  <1>3. IsFiniteSet(S) /\ 1 .. n \subseteq S => n <= Cardinality(S)
    BY <1>1, FS_Subset
  <1> QED
    BY <1>2, <1>3

\* The lines before the first one of an hour are all of earlier hours.
LEMMA PlaceIsNatural ==
    ASSUME LogTyped, NEW i \in Indices
    PROVE  Place(i) \in Nat /\ i = FirstOf(log[i].hour) + Place(i)
  <1> DEFINE h == log[i].hour
  <1>1. h \in Hours /\ h \in Nat /\ i \in Nat /\ i >= 1
    BY LogFacts DEF Indices
  <1>2. Before(h) \subseteq 1 .. i - 1
    BY LogFacts DEF Before, Indices
  <1>3. Cardinality(Before(h)) <= i - 1
    <2>1. i - 1 \in Nat
      BY <1>1
    <2> QED
      BY <1>2, <2>1, CountUpTo
  <1>4. FirstOf(h) = 1 + Cardinality(Before(h)) /\ Cardinality(Before(h)) \in Nat
    BY <1>1, PlaceFacts
  <1> QED
    BY <1>1, <1>3, <1>4 DEF Place

\* The places up to the lines written in an hour are places of its lines.
LEMMA LineAtPlace ==
    ASSUME LogTyped, NEW h \in Hours, NEW k \in Nat, k < WrittenOf(h)
    PROVE  /\ FirstOf(h) + k \in Indices /\ log[FirstOf(h) + k].hour = h
           /\ Place(FirstOf(h) + k) = k /\ FirstOf(h) + k <= written
  <1> DEFINE b == Cardinality(Before(h))
             w == Cardinality(WrittenIn(h))
             p == 1 + b + k
  <1>1. /\ IsFiniteSet(Before(h)) /\ IsFiniteSet(WrittenIn(h)) /\ b \in Nat /\ w \in Nat
        /\ FirstOf(h) + k = p /\ k < w /\ p \in Nat /\ p >= 1 /\ h \in Nat /\ FirstOf(h) \in Nat
    BY PlaceFacts, LogUpdaterAssumption
  <1> HIDE DEF b, w, p
  <1>2. IsFiniteSet(Before(h) \cup WrittenIn(h)) /\ Cardinality(Before(h) \cup WrittenIn(h)) = b + w
    <2>1. Before(h) \cap WrittenIn(h) = {}
      BY <1>1, LogFacts DEF Before, WrittenIn, LogTyped, Indices
    <2> QED
      BY <1>1, <2>1, FS_Union, FS_EmptySet DEF b, w
  <1>3. \E i \in Before(h) \cup WrittenIn(h) : i >= p
    <2> SUFFICES ASSUME \A i \in Before(h) \cup WrittenIn(h) : ~(i >= p) PROVE FALSE
      OBVIOUS
    <2>1. Before(h) \cup WrittenIn(h) \subseteq 1 .. p - 1
      BY <1>1, LogFacts DEF Before, WrittenIn, LogTyped
    <2>2. b + w <= p - 1
      <3>1. p - 1 \in Nat
        BY <1>1
      <3> QED
        BY <1>2, <2>1, <3>1, CountUpTo
    <2> QED
      BY <1>1, <2>2 DEF p
  <1>4. PICK i \in Before(h) \cup WrittenIn(h) : i >= p
    BY <1>3
  <1>5. i \in Indices /\ p \in Indices /\ log[i].hour <= h
    <2>1. i \in Nat /\ i <= Len(log) /\ i \in Indices /\ log[i].hour <= h
      <3>1. CASE i \in Before(h)
        BY <1>1, <3>1, LogFacts DEF Before, Indices
      <3>2. CASE i \in WrittenIn(h)
        BY <1>1, <3>2, LogFacts DEF WrittenIn, LogTyped, Indices
      <3> QED
        BY <1>4, <3>1, <3>2
    <2>2. p \in Indices
      BY <1>1, <1>4, <2>1, LogFacts DEF Indices
    <2> QED
      BY <2>1, <2>2
  <1>6. log[p].hour <= h
    BY <1>1, <1>4, <1>5, LogFacts
  <1>7. ~(log[p].hour < h)
    <2> SUFFICES ASSUME log[p].hour < h PROVE FALSE
      OBVIOUS
    <2>1. 1 .. p \subseteq Before(h)
      BY <1>1, <1>5, LogFacts DEF Before, Indices
    <2>2. p <= b
      BY <1>1, <2>1, CountUpTo DEF b
    <2> QED
      BY <1>1, <2>2 DEF p
  <1>8. log[p].hour = h
    BY <1>1, <1>5, <1>6, <1>7, LogFacts
  <1>9. p <= written
    <2>1. log[p].hour <= log[i].hour /\ log[i].hour \in Nat /\ i \in Int
      BY <1>1, <1>4, <1>5, LogFacts DEF Indices
    <2>2. i \notin Before(h)
      BY <1>1, <1>8, <2>1 DEF Before
    <2>3. i <= written /\ written \in Int
      BY <1>4, <2>2 DEF WrittenIn, LogTyped
    <2> QED
      BY <1>1, <1>4, <2>1, <2>3
  <1> QED
    BY <1>1, <1>5, <1>8, <1>9 DEF Place

\* The logger only adds lines.
LEMMA WrittenGrows ==
    ASSUME LogTyped, LogTyped', log' = log, written <= written', NEW h \in Hours
    PROVE  /\ WrittenOf(h) <= WrittenOf(h)' /\ WrittenOf(h)' \in Nat
           /\ FirstOf(h)' = FirstOf(h)
  <1>1. WrittenIn(h) \subseteq WrittenIn(h)'
    BY LogFacts DEF WrittenIn, LogTyped
  <1>2. IsFiniteSet(WrittenIn(h)')
    <2>1. IsFiniteSet(1 .. written')
      BY FS_Interval, LogFacts DEF LogTyped
    <2> QED
      BY <2>1, FS_Subset DEF WrittenIn
  <1>3. Cardinality(WrittenIn(h)) <= Cardinality(WrittenIn(h)')
    BY <1>1, <1>2, FS_Subset
  <1>4. Cardinality(WrittenIn(h)') \in Nat
    BY <1>2, FS_CardinalityType
  <1> QED
    BY <1>3, <1>4 DEF WrittenOf, WrittenIn, FirstOf

-----------------------------------------------------------------------------
(* The fetched files *)

Copy == [lines : Nat, whole : Nat]

\* What is not in the copy of hour h, though its lines were counted or a later
\* hour was fetched, was spoilt in fetching.
CopyGood(h) ==
    /\ copy[h].lines > 0 /\ copy[h].whole <= copy[h].lines /\ copy[h].whole <= WrittenOf(h)
    /\ \A i \in Indices : /\ log[i].hour = h
                           /\ copy[h].whole <= Place(i) /\ Place(i) < copy[h].lines => i \in spoilt
    /\ \A i \in Indices : log[i].hour < h /\ ~InCopy(i) => i \in spoilt

FileInv ==
    /\ LogTyped /\ hour \in Hours
    /\ stamped => NextIsOf(hour)
    /\ copy \in [Hours -> Copy \cup {Null}]
    /\ \A h \in Hours : copy[h] # Null => CopyGood(h)

LEMMA FetchedFacts ==
    ASSUME LogTyped, NEW h \in Hours
    PROVE  /\ Fetched(h) \in Copy /\ Fetched(h) # Null
           /\ Fetched(h).whole = WrittenOf(h) \/ (Fetched(h).whole = 0 /\ WrittenOf(h) = 0)
           /\ Fetched(h).lines > 0 /\ Fetched(h).whole <= Fetched(h).lines
  <1>1. WrittenOf(h) \in Nat /\ PageLines \in Nat \ {0}
    BY PlaceFacts, LogUpdaterAssumption
  <1> DEFINE torn == IF stamped /\ NextIsOf(h) THEN 1 ELSE 0
             w == WrittenOf(h)
  <1>2. torn \in {0, 1} /\ w \in Nat
    BY <1>1
  <1>3. Fetched(h) = IF w + torn > 0 THEN [lines |-> w + torn, whole |-> w]
                     ELSE [lines |-> PageLines, whole |-> 0]
    BY DEF Fetched
  <1> HIDE DEF torn, w
  <1>4. CASE w + torn > 0
    BY <1>1, <1>2, <1>3, <1>4, LogUpdaterAssumption DEF Copy, w
  <1>5. CASE ~(w + torn > 0)
    BY <1>1, <1>2, <1>3, <1>5, LogUpdaterAssumption DEF Copy, w
  <1> QED
    BY <1>4, <1>5

\* A step that leaves the copies alone, while the logger may add a line.
LEMMA CopiesKept ==
    ASSUME FileInv, LogTyped', written <= written', UNCHANGED <<log, copy, spoilt>>
    PROVE  \A h \in Hours : copy'[h] # Null => CopyGood(h)'
  <1> SUFFICES ASSUME NEW h \in Hours, copy[h] # Null PROVE CopyGood(h)'
    OBVIOUS
  <1>1. LogTyped /\ CopyGood(h) /\ copy[h] \in Copy
    BY DEF FileInv
  <1>2. \A g \in Hours : FirstOf(g)' = FirstOf(g)
    BY DEF FirstOf
  <1>3. \A i \in Indices : log[i].hour \in Hours
    BY <1>1, LogFacts
  <1>4. Indices' = Indices /\ \A i \in Indices : Place(i)' = Place(i) /\ (InCopy(i)' <=> InCopy(i))
    BY <1>2, <1>3 DEF Indices, Place, InCopy
  <1>5. copy[h].whole <= WrittenOf(h)'
    <2>1. WrittenOf(h) <= WrittenOf(h)' /\ WrittenOf(h) \in Nat /\ WrittenOf(h)' \in Nat
      BY <1>1, WrittenGrows, PlaceFacts
    <2> QED
      BY <1>1, <2>1 DEF CopyGood, Copy
  <1> QED
    BY <1>1, <1>4, <1>5 DEF CopyGood

\* What was in a copy stays in it.
LEMMA CopyGrows ==
    ASSUME FileInv, NEW h \in Hours, Get(h), NEW i \in Indices, InCopy(i)
    PROVE  InCopy(i)'
  <1> DEFINE f == Fetched(h)
  <1>1. LogTyped /\ UNCHANGED log /\ copy' = [copy EXCEPT ![h] = f] /\ copy \in [Hours -> Copy \cup {Null}]
    BY DEF Get, FileInv
  <1>2. /\ f \in Copy /\ f # Null /\ WrittenOf(h) <= f.whole /\ WrittenOf(h) \in Nat
    <2>1. WrittenOf(h) \in Nat
      BY <1>1, PlaceFacts
    <2> QED
      BY <1>1, <2>1, FetchedFacts
  <1> HIDE DEF f
  <1>3. /\ FirstOf(log[i].hour)' = FirstOf(log[i].hour) /\ Place(i) \in Nat /\ log[i].hour \in Hours
    BY <1>1, PlaceIsNatural, LogFacts DEF FirstOf
  <1>4. CASE log[i].hour # h
    BY <1>1, <1>3, <1>4 DEF InCopy
  <1>5. CASE log[i].hour = h
    <2>1. copy[h] # Null /\ Place(i) < copy[h].whole
      BY <1>5 DEF InCopy, Place
    <2>2. copy[h].whole <= WrittenOf(h) /\ copy[h].whole \in Nat
      BY <1>1, <2>1 DEF FileInv, CopyGood, Copy
    <2>3. Place(i) < f.whole
      BY <1>2, <1>3, <2>1, <2>2 DEF Copy
    <2> QED
      BY <1>1, <1>2, <1>3, <1>5, <2>3 DEF InCopy, Place
  <1> QED
    BY <1>4, <1>5

LEMMA GetFiles ==
    ASSUME FileInv, NEW h \in Hours, Get(h)
    PROVE  FileInv'
  <1> DEFINE f == Fetched(h)
  <1>1. LogTyped /\ UNCHANGED <<log, written, stamped, hour>> /\ copy' = [copy EXCEPT ![h] = f]
        /\ spoilt' = spoilt \cup Hidden(h) \cup Missed(h) /\ copy \in [Hours -> Copy \cup {Null}]
    BY DEF Get, FileInv
  <1>2. /\ f \in Copy /\ f # Null /\ f.lines > 0 /\ f.whole <= f.lines
        /\ f.whole <= WrittenOf(h) /\ WrittenOf(h) <= f.whole /\ WrittenOf(h) \in Nat
    <2>1. WrittenOf(h) \in Nat
      BY <1>1, PlaceFacts
    <2> QED
      BY <1>1, <2>1, FetchedFacts
  <1>3. Hidden(h) = {i \in Indices : log[i].hour = h /\ i - FirstOf(h) \in f.whole .. f.lines - 1}
    BY DEF Hidden, Indices
  <1>4. Missed(h) = {i \in Indices : log[i].hour < h /\ ~InCopy(i)}
    BY DEF Missed, Indices
  <1> HIDE DEF f
  <1>5. /\ LogTyped' /\ hour' \in Hours /\ (stamped' => NextIsOf(hour)')
        /\ copy' \in [Hours -> Copy \cup {Null}] /\ copy'[h] = f
        /\ \A g \in Hours : g # h => copy'[g] = copy[g]
    BY <1>1, <1>2 DEF FileInv, LogTyped, NextIsOf
  <1>6. /\ \A g : FirstOf(g)' = FirstOf(g) /\ WrittenOf(g)' = WrittenOf(g)
        /\ Indices' = Indices
        /\ \A i \in Indices : Place(i)' = Place(i) /\ Place(i) \in Nat /\ log[i].hour \in Hours
    BY <1>1, PlaceIsNatural, LogFacts DEF FirstOf, WrittenOf, Indices, Place
  <1>7. \A i \in Indices : InCopy(i) => InCopy(i)'
    BY CopyGrows
  <1>8. ASSUME NEW g \in Hours, copy'[g] # Null PROVE CopyGood(g)'
    <2>1. CASE g = h
      <3>1. ASSUME NEW i \in Indices, log[i].hour = h, f.whole <= Place(i), Place(i) < f.lines
            PROVE  i \in spoilt'
        <4>1. Place(i) = i - FirstOf(h) /\ Place(i) \in Nat
          BY <1>6, <3>1 DEF Place
        <4>2. Place(i) \in f.whole .. f.lines - 1
          BY <1>2, <3>1, <4>1 DEF Copy
        <4> QED
          BY <1>1, <1>3, <3>1, <4>1, <4>2
      <3>2. ASSUME NEW i \in Indices, log[i].hour < h, ~InCopy(i)' PROVE i \in spoilt'
        BY <1>1, <1>4, <1>7, <3>2
      <3> QED
        BY <1>1, <1>2, <1>5, <1>6, <2>1, <3>1, <3>2 DEF CopyGood
    <2>2. CASE g # h
      <3>1. copy'[g] = copy[g] /\ CopyGood(g)
        BY <1>5, <1>8, <2>2 DEF FileInv
      <3> QED
        BY <1>1, <1>6, <1>7, <3>1 DEF CopyGood
    <2> QED
      BY <2>1, <2>2
  <1> QED
    BY <1>5, <1>8 DEF FileInv

LEMMA FileInit == Init => FileInv
  <1> SUFFICES ASSUME Init PROVE FileInv
    OBVIOUS
  <1>1. LogTyped
    BY LogUpdaterAssumption DEF Init, LogTyped
  <1> QED
    BY <1>1, LogUpdaterAssumption DEF Init, FileInv

LEMMA FileNext == FileInv /\ [Next]_vars => FileInv'
  <1> SUFFICES ASSUME FileInv, [Next]_vars PROVE FileInv'
    OBVIOUS
  <1>1. /\ LogTyped /\ written \in Nat /\ Len(log) \in Nat /\ written <= Len(log)
        /\ hour \in Hours /\ copy \in [Hours -> Copy \cup {Null}]
    BY LogFacts DEF FileInv, LogTyped
  <1>2. ASSUME LogTyped', written <= written', UNCHANGED <<log, copy, spoilt>>,
               hour' \in Hours, stamped' => NextIsOf(hour)'
        PROVE  FileInv'
    BY <1>1, <1>2, CopiesKept DEF FileInv
  <1>3. CASE Stamp
    BY <1>1, <1>2, <1>3 DEF Stamp, LogTyped, NextIsOf
  <1>4. CASE Write
    <2>1. written < Len(log)
      BY <1>4 DEF Write, FileInv, NextIsOf
    <2> QED
      BY <1>1, <1>2, <1>4, <2>1 DEF Write, LogTyped
  <1>5. CASE NextHour
    <2>1. ~stamped
      BY <1>5 DEF NextHour, FileInv
    <2> QED
      BY <1>1, <1>2, <1>5, <2>1 DEF NextHour, LogTyped
  <1>6. ASSUME UNCHANGED <<log, written, stamped, hour, copy, spoilt>> PROVE FileInv'
    BY <1>1, <1>2, <1>6 DEF FileInv, LogTyped, NextIsOf
  <1>7. CASE Start \/ ProcessFiles \/ SaveHistory \/ Crash \/ UNCHANGED vars
    <2>1. ASSUME NEW n \in Nodes, FlushUpdate(n)
          PROVE  UNCHANGED <<log, written, stamped, hour, copy, spoilt>>
      BY <2>1 DEF FlushUpdate
    <2>2. CASE NextFile
      BY ONLY <1>6, <2>2 DEF NextFile
    <2>3. CASE SkipLine \/ ReportLine
      BY ONLY <1>6, <2>3 DEF SkipLine, ReportLine
    <2>4. CASE Start \/ SaveHistory \/ Crash \/ UNCHANGED vars
      BY ONLY <1>6, <2>4 DEF Start, SaveHistory, Crash, vars
    <2> QED
      BY <1>6, <1>7, <2>1, <2>2, <2>3, <2>4 DEF ProcessFiles
  <1> QED
    BY <1>3, <1>4, <1>5, <1>7, GetFiles DEF Next

-----------------------------------------------------------------------------
(* The position of a run *)

NodeStates == {s \in [realcounter : Nat, lastcounter : Nat \cup {Null}, last_ping_id : Nat] :
                  s.lastcounter = Null => s.realcounter = 0}
Histories == [current_file : Hours \cup {0}, current_file_lineno : {-1} \cup Nat,
              node_state : [Nodes -> NodeStates]]
Runs == [history : Histories, next : Nat, update_queue : [Nodes -> Nat \cup {Null}], update_ts : Nat]
Points == [ts : Nat, value : Nat]

RunAt(hist, next, queue, ts) ==
    [history |-> hist, next |-> next, update_queue |-> queue, update_ts |-> ts]

\* The line number is that of the last line, but for a file just entered, which
\* has lines.
RunInv ==
    /\ history \in Histories
    /\ history.current_file # 0 => copy[history.current_file] # Null
    /\ history.current_file = 0 => history.current_file_lineno = -1
    /\ run # Null => /\ run \in Runs
                     /\ File # 0 => copy[File] # Null
                     /\ File = 0 => run.next = 0 /\ run.history.current_file_lineno = -1
                     /\ run.next > 0 => run.history.current_file_lineno = run.next - 1
    /\ rrd \in [Nodes -> Seq(Points)]

\* A run is made of its fields.
LEMMA RunFields ==
    ASSUME NEW r \in Runs
    PROVE  r = RunAt(History(r.history.current_file, r.history.current_file_lineno, r.history.node_state),
                     r.next, r.update_queue, r.update_ts)
  BY DEF Runs, Histories, RunAt, History

LEMMA NextFileRun ==
    ASSUME run \in Runs, NextFile
    PROVE  \E h \in LaterFiles :
              /\ \A k \in LaterFiles : h <= k
              /\ run' = RunAt(History(h, run.history.current_file_lineno, run.history.node_state), 0,
                              run.update_queue, run.update_ts)
  <1>1. PICK h \in LaterFiles : /\ \A k \in LaterFiles : h <= k
                                /\ run' = [run EXCEPT !.history.current_file = h, !.next = 0]
    BY Zenon DEF NextFile
  <1> DEFINE H == [run.history EXCEPT !.current_file = h]
  <1>2. H = History(h, run.history.current_file_lineno, run.history.node_state)
    BY DEF Runs, Histories, History
  <1>3. run' = [run EXCEPT !.history = H, !.next = 0]
    BY <1>1
  <1> HIDE DEF H
  <1>4. run' = RunAt(H, 0, run.update_queue, run.update_ts)
    BY <1>3 DEF Runs, RunAt
  <1> QED
    BY <1>1, <1>2, <1>4

LEMMA CountedRun ==
    ASSUME run \in Runs
    PROVE  Counted = RunAt(History(File, run.next, run.history.node_state), run.next + 1,
                           run.update_queue, run.update_ts)
  <1> DEFINE H == [run.history EXCEPT !.current_file_lineno = run.next]
  <1>1. H = History(File, run.next, run.history.node_state)
    BY DEF Runs, Histories, History, File
  <1>2. Counted = [run EXCEPT !.history = H, !.next = run.next + 1]
    BY DEF Counted
  <1> HIDE DEF H
  <1>3. Counted = RunAt(H, run.next + 1, run.update_queue, run.update_ts)
    BY <1>2 DEF Runs, RunAt
  <1> QED
    BY <1>1, <1>3

LEMMA FlushedRun ==
    ASSUME run \in Runs, NEW n \in Nodes, FlushUpdate(n)
    PROVE  run' = RunAt(run.history, run.next, [run.update_queue EXCEPT ![n] = Null], run.update_ts)
  BY DEF FlushUpdate, Runs, RunAt

\* The node and its state after the line to be read.
NewState == ProcessMeterReader(run.history.node_state[Line.node], Line)

LEMMA ReportRun ==
    ASSUME run \in Runs, ReportLine
    PROVE  run' = RunAt(History(File, run.next, [run.history.node_state EXCEPT ![Line.node] = NewState]),
                        run.next + 1,
                        [run.update_queue EXCEPT ![Line.node] = NewState.realcounter], Line.ts)
  <1> DEFINE n == Line.node
             C == Counted
             S == [C.history.node_state EXCEPT ![n] = NewState]
             H == [C.history EXCEPT !.node_state = S]
             Q == [C.update_queue EXCEPT ![n] = NewState.realcounter]
             h == C.history
             y == run.next + 1
             q == run.update_queue
             u == run.update_ts
  <1>1. run' = [C EXCEPT !.history = H, !.update_queue = Q, !.update_ts = Line.ts]
    BY DEF ReportLine, NewState
  <1>2. C = RunAt(h, y, q, u) /\ h = History(File, run.next, run.history.node_state)
    BY CountedRun DEF RunAt
  <1>3. /\ Q = [q EXCEPT ![n] = NewState.realcounter]
        /\ S = [run.history.node_state EXCEPT ![n] = NewState]
    BY <1>2 DEF RunAt, History
  <1> HIDE DEF C, S, Q, h, y, q, u
  <1>4. H = History(File, run.next, S)
    BY <1>2 DEF History, h
  <1> HIDE DEF H
  <1>5. run' = RunAt(H, y, Q, Line.ts)
    BY <1>1, <1>2 DEF RunAt
  <1> QED
    BY <1>3, <1>4, <1>5 DEF y, q

\* The line to be read is a line of the file, when it is a report.
LEMMA LineFacts ==
    ASSUME FileInv, RunInv, InFile, IsReport
    PROVE  /\ FirstOf(File) + run.next \in Indices
           /\ Place(FirstOf(File) + run.next) = run.next /\ FirstOf(File) + run.next <= written
           /\ Line \in Lines /\ Line.hour = File /\ Line.node \in Nodes /\ Line.ts \in Nat
  <1>1. /\ run \in Runs /\ File # 0 /\ run.next \in Nat /\ File \in Hours
        /\ run.next < copy[File].whole
    BY DEF RunInv, InFile, IsReport, Runs, Histories, File
  <1>2. /\ LogTyped /\ copy[File] \in Copy /\ copy[File].whole \in Nat
        /\ copy[File].whole <= WrittenOf(File)
    BY <1>1 DEF FileInv, RunInv, InFile, CopyGood, Copy
  <1>3. WrittenOf(File) \in Nat
    BY <1>1, <1>2, PlaceFacts
  <1>4. run.next < WrittenOf(File)
    BY <1>1, <1>2, <1>3
  <1>5. /\ FirstOf(File) + run.next \in Indices /\ log[FirstOf(File) + run.next].hour = File
        /\ Place(FirstOf(File) + run.next) = run.next /\ FirstOf(File) + run.next <= written
    BY <1>1, <1>2, <1>4, LineAtPlace
  <1> QED
    BY <1>2, <1>5, LogFacts DEF Line, IsReport

LEMMA StateTyped ==
    ASSUME FileInv, RunInv, InFile, IsReport
    PROVE  /\ NewState \in NodeStates /\ NewState.realcounter \in Nat
           /\ NewState.realcounter >= run.history.node_state[Line.node].realcounter
           /\ NewState.lastcounter = Line.counter
  <1> DEFINE state == run.history.node_state[Line.node]
  <1>1. Line \in Lines /\ Line.node \in Nodes
    BY LineFacts
  <1>2. state \in NodeStates
    BY <1>1 DEF RunInv, InFile, Runs, Histories
  <1>3. /\ state.realcounter \in Nat /\ state.lastcounter \in Nat \cup {Null}
        /\ state.last_ping_id \in Nat /\ (state.lastcounter = Null => state.realcounter = 0)
    BY <1>2 DEF NodeStates
  <1> HIDE DEF state
  <1>4. /\ ProcessMeterReader(state, Line).realcounter \in Nat
        /\ ProcessMeterReader(state, Line).realcounter >= state.realcounter
    BY <1>1, <1>3, ReportNeverLowers
  <1>5. Line.counter \in Nat /\ Line.ping_id \in Nat /\ Null \notin Nat
    BY <1>1, LogUpdaterAssumption DEF Lines
  <1>6. ProcessMeterReader(state, Line) \in NodeStates
    <2> DEFINE r == ProcessMeterReader(state, Line).realcounter
    <2>1. ProcessMeterReader(state, Line)
            = [realcounter |-> r, lastcounter |-> Line.counter, last_ping_id |-> Line.ping_id]
      BY DEF ProcessMeterReader
    <2>2. r \in Nat
      BY <1>4
    <2> HIDE DEF r
    <2> QED
      BY <1>5, <2>1, <2>2 DEF NodeStates
  <1>7. NewState = ProcessMeterReader(state, Line)
    BY DEF NewState, state
  <1> QED
    BY <1>4, <1>6, <1>7 DEF ProcessMeterReader, state

LEMMA RunInit == Init => RunInv
  <1> SUFFICES ASSUME Init PROVE RunInv
    OBVIOUS
  <1>1. NodeState \in NodeStates
    BY DEF NodeState, NodeStates
  <1>2. [n \in Nodes |-> NodeState] \in [Nodes -> NodeStates]
    BY <1>1
  <1>3. history \in Histories
    BY <1>2 DEF Init, History, Histories
  <1>4. rrd \in [Nodes -> Seq(Points)]
    <2>1. <<>> \in Seq(Points)
      OBVIOUS
    <2> QED
      BY <2>1 DEF Init
  <1>5. history.current_file = 0 /\ history.current_file_lineno = -1 /\ run = Null
    BY DEF Init, History
  <1> QED
    BY <1>3, <1>4, <1>5 DEF RunInv

\* Where a run is, after it has moved.
LEMMA RunMoved ==
    ASSUME RunInv, UNCHANGED <<copy, history, rrd>>,
           NEW f \in Hours, NEW l \in {-1} \cup Nat, NEW s \in [Nodes -> NodeStates], NEW x \in Nat,
           NEW q \in [Nodes -> Nat \cup {Null}], NEW t \in Nat,
           run' = RunAt(History(f, l, s), x, q, t), copy[f] # Null, x > 0 => l = x - 1
    PROVE  RunInv'
  <1>1. /\ run'.history = History(f, l, s) /\ run'.next = x
        /\ History(f, l, s) \in Histories
        /\ File' = f /\ run'.history.current_file_lineno = l
    BY DEF RunAt, History, Histories, File
  <1>2. run' \in Runs
    BY <1>1 DEF RunAt, Runs
  <1>3. f # 0
    BY LogUpdaterAssumption
  <1> QED
    BY <1>1, <1>2, <1>3 DEF RunInv

LEMMA RunNext == FileInv /\ RunInv /\ [Next]_vars => RunInv'
  <1> SUFFICES ASSUME FileInv, RunInv, [Next]_vars PROVE RunInv'
    OBVIOUS
  <1>1. /\ history \in Histories /\ rrd \in [Nodes -> Seq(Points)]
        /\ copy \in [Hours -> Copy \cup {Null}] /\ Null \notin Nat
        /\ history.current_file # 0 => history.current_file \in Hours
    BY LogUpdaterAssumption DEF RunInv, FileInv, Histories
  <1>2. CASE UNCHANGED <<copy, history, run, rrd>>
    BY <1>2 DEF RunInv, File
  <1>3. ASSUME NEW h \in Hours, Get(h) PROVE RunInv'
    <2>1. run = Null /\ UNCHANGED <<history, run, rrd>> /\ copy' = [copy EXCEPT ![h] = Fetched(h)]
      BY <1>3 DEF Get
    <2>2. Fetched(h) # Null
      BY FetchedFacts DEF FileInv
    <2>3. \A g \in Hours : copy[g] # Null => copy'[g] # Null
      BY <1>1, <2>1, <2>2
    <2> QED
      BY <1>1, <2>1, <2>3 DEF RunInv
  <1>4. CASE Start
    <2> DEFINE l == history.current_file_lineno
    <2>1. run' = [history |-> history, next |-> l + 1, update_queue |-> NoUpdates, update_ts |-> 0]
      BY <1>4 DEF Start
    <2>2. UNCHANGED <<copy, history, rrd>>
      BY <1>4 DEF Start
    <2>3. l \in {-1} \cup Nat /\ l + 1 \in Nat /\ (l + 1) - 1 = l
      BY <1>1 DEF Histories
    <2>4. NoUpdates \in [Nodes -> Nat \cup {Null}]
      BY DEF NoUpdates
    <2>5. run' \in Runs
      BY <1>1, <2>1, <2>3, <2>4 DEF Runs
    <2>6. run'.history = history /\ run'.next = l + 1 /\ File' = history.current_file
      BY <2>1 DEF File
    <2>7. history.current_file = 0 => l + 1 = 0
      BY DEF RunInv
    <2> HIDE DEF l
    <2> QED
      BY <1>1, <2>2, <2>3, <2>5, <2>6, <2>7 DEF RunInv, l
  <1>5. CASE NextFile
    <2>1. run # Null /\ run \in Runs
      BY <1>5 DEF NextFile, AtEnd, RunInv
    <2>2. PICK h \in LaterFiles :
             run' = RunAt(History(h, run.history.current_file_lineno, run.history.node_state), 0,
                          run.update_queue, run.update_ts)
      BY <1>5, <2>1, NextFileRun
    <2>3. h \in Hours /\ copy[h] # Null
      BY DEF LaterFiles
    <2>4. UNCHANGED <<copy, history, rrd>>
      BY ONLY <1>5 DEF NextFile
    <2>5. /\ run.history.current_file_lineno \in {-1} \cup Nat
          /\ run.history.node_state \in [Nodes -> NodeStates]
          /\ run.update_queue \in [Nodes -> Nat \cup {Null}] /\ run.update_ts \in Nat
      BY <2>1 DEF Runs, Histories
    <2> QED
      BY <2>2, <2>3, <2>4, <2>5, RunMoved
  <1>6. ASSUME InFile
        PROVE  /\ run \in Runs /\ File \in Hours /\ copy[File] # Null /\ run.next \in Nat
               /\ run.next + 1 \in Nat /\ run.next = (run.next + 1) - 1
               /\ run.history.node_state \in [Nodes -> NodeStates]
               /\ run.update_queue \in [Nodes -> Nat \cup {Null}] /\ run.update_ts \in Nat
    BY <1>6 DEF InFile, RunInv, Runs, Histories, File
  <1>7. CASE SkipLine
    <2>1. InFile /\ run' = Counted /\ UNCHANGED <<copy, history, rrd>>
      BY ONLY <1>7 DEF SkipLine
    <2> QED
      BY <1>6, <2>1, CountedRun, RunMoved
  <1>8. CASE ReportLine
    <2>1. InFile /\ IsReport /\ UNCHANGED <<copy, history, rrd>>
      BY ONLY <1>8 DEF ReportLine
    <2>2. NewState \in NodeStates /\ NewState.realcounter \in Nat /\ Line.node \in Nodes /\ Line.ts \in Nat
      BY <2>1, StateTyped, LineFacts
    <2> DEFINE n == Line.node
               s == [run.history.node_state EXCEPT ![n] = NewState]
               q == [run.update_queue EXCEPT ![n] = NewState.realcounter]
    <2>3. s \in [Nodes -> NodeStates] /\ q \in [Nodes -> Nat \cup {Null}]
      BY <1>6, <2>1, <2>2
    <2>4. run' = RunAt(History(File, run.next, s), run.next + 1, q, Line.ts)
      BY <1>6, <1>8, <2>1, ReportRun
    <2> HIDE DEF s, q
    <2> QED
      BY <1>6, <2>1, <2>2, <2>3, <2>4, RunMoved
  <1>9. ASSUME NEW n \in Nodes, FlushUpdate(n) PROVE RunInv'
    <2> DEFINE q == [run.update_queue EXCEPT ![n] = Null]
               point == [ts |-> run.update_ts, value |-> run.update_queue[n]]
    <2>1. run # Null /\ run.update_queue[n] # Null /\ UNCHANGED <<copy, history>>
      BY ONLY <1>9 DEF FlushUpdate, FlushDue
    <2>2. run \in Runs /\ q \in [Nodes -> Nat \cup {Null}] /\ point \in Points
      BY <2>1 DEF RunInv, Runs, Points
    <2>3. run' = RunAt(run.history, run.next, q, run.update_ts)
      BY <1>9, <2>2, FlushedRun
    <2>4. rrd' = rrd \/ rrd' = [rrd EXCEPT ![n] = Append(@, point)]
      BY ONLY <1>9 DEF FlushUpdate
    <2> HIDE DEF q, point
    <2>5. rrd' \in [Nodes -> Seq(Points)]
      <3>1. Append(rrd[n], point) \in Seq(Points)
        BY <1>1, <2>2
      <3> QED
        BY <1>1, <2>4, <3>1
    <2>6. /\ run'.history = run.history /\ run'.next = run.next /\ File' = File
          /\ run' \in Runs
      BY <2>2, <2>3 DEF RunAt, Runs, File
    <2> QED
      BY <2>1, <2>5, <2>6 DEF RunInv
  <1>10. CASE SaveHistory
    <2>1. /\ run # Null /\ run' = Null /\ history' = run.history /\ UNCHANGED <<copy, rrd>>
          /\ history' \in Histories
      BY <1>10 DEF SaveHistory, AtEnd, RunInv, Runs
    <2> QED
      BY <2>1 DEF RunInv, File
  <1>11. CASE Crash
    BY <1>11 DEF Crash, RunInv
  <1>12. CASE Stamp \/ Write \/ NextHour \/ UNCHANGED vars
    <2>1. UNCHANGED <<copy, history, run, rrd>>
      BY ONLY <1>12 DEF Stamp, Write, NextHour, vars
    <2> QED
      BY <1>2, <2>1
  <1> QED
    BY <1>3, <1>4, <1>5, <1>7, <1>8, <1>9, <1>10, <1>11, <1>12 DEF Next, ProcessFiles

-----------------------------------------------------------------------------
(* How a step of the run moves its position *)

\* What the run has passed, as Passed says of the history.
RunPassed(i) == log[i].hour < File \/ (log[i].hour = File /\ Place(i) < run.next)

LEMMA ReportFacts ==
    ASSUME LogTyped, NEW i \in Reports
    PROVE  /\ i \in Indices /\ log[i] \in Lines /\ log[i].node \in Nodes /\ log[i].hour \in Hours
           /\ log[i].hour \in Nat \ {0} /\ log[i].ts \in Nat /\ Place(i) \in Nat
           /\ i = FirstOf(log[i].hour) + Place(i) /\ FirstOf(log[i].hour) \in Nat
  <1>1. i \in Indices /\ log[i].node \in Nodes
    BY DEF Reports, Indices
  <1>2. log[i] \in Lines /\ log[i].hour \in Hours /\ log[i].hour \in Nat \ {0} /\ log[i].ts \in Nat
    BY <1>1, LogFacts
  <1>3. FirstOf(log[i].hour) \in Nat
    BY <1>2, PlaceFacts
  <1> QED
    BY <1>1, <1>2, <1>3, PlaceIsNatural

\* At a report, the run has passed exactly the lines before it.
LEMMA PassedBefore ==
    ASSUME FileInv, RunInv, InFile, IsReport, NEW i \in Reports
    PROVE  RunPassed(i) <=> i < FirstOf(File) + run.next
  <1> PICK p : p = FirstOf(File) + run.next
    OBVIOUS
  <1>1. LogTyped /\ p \in Indices /\ Place(p) = run.next /\ log[p].hour = File /\ run.next \in Nat
    BY LineFacts DEF Line, FileInv, RunInv, InFile, Runs
  <1>2. /\ i \in Indices /\ i \in Nat /\ p \in Nat /\ log[i].hour \in Nat /\ log[p].hour \in Nat
        /\ Place(i) = i - FirstOf(log[i].hour) /\ FirstOf(log[i].hour) \in Nat
    BY <1>1, ReportFacts, LogFacts DEF Indices, Place
  <1>3. CASE i < p
    <2>1. log[i].hour <= log[p].hour
      <3>1. i <= p
        BY <1>2, <1>3
      <3> QED
        BY <1>1, <1>2, <3>1, LogFacts
    <2> QED
      BY <1>1, <1>2, <1>3, <2>1 DEF RunPassed
  <1>4. CASE p <= i
    <2>1. log[p].hour <= log[i].hour
      BY <1>1, <1>2, <1>4, LogFacts
    <2> QED
      BY <1>1, <1>2, <1>4, <2>1 DEF RunPassed
  <1> QED
    BY <1>2, <1>3, <1>4

\* What is whole in the file the run has done with was passed.
LEMMA DonePassed ==
    ASSUME FileInv, RunInv, AtEnd, NEW h \in LaterFiles, \A k \in LaterFiles : h <= k,
           NEW i \in Reports, log[i].hour < h, InCopy(i)
    PROVE  RunPassed(i)
  <1>1. /\ LogTyped /\ run # Null /\ run \in Runs /\ File \in Nat /\ run.next \in Nat
        /\ h \in Hours /\ h \in Nat /\ h > File /\ copy[h] # Null /\ CopyGood(h)
    BY LogUpdaterAssumption DEF FileInv, RunInv, Runs, Histories, File, AtEnd, LaterFiles
  <1>2. i \in Indices /\ log[i].hour \in Hours /\ log[i].hour \in Nat /\ Place(i) \in Nat
    BY <1>1, ReportFacts
  <1>3. copy[log[i].hour] # Null /\ Place(i) < copy[log[i].hour].whole
    BY DEF InCopy, Place
  <1>4. log[i].hour \notin LaterFiles
    BY <1>1, <1>2
  <1>5. log[i].hour <= File
    BY <1>1, <1>2, <1>3, <1>4 DEF LaterFiles
  <1>6. CASE log[i].hour = File
    <2>1. File # 0
      BY <1>1, <1>6, ReportFacts
    <2>2. ~(run.next < copy[File].lines)
      BY <1>1, <2>1 DEF AtEnd, InFile
    <2>3. /\ copy[File].whole <= copy[File].lines /\ copy[File].whole \in Nat
          /\ copy[File].lines \in Nat
      BY <1>2, <1>3, <1>6 DEF FileInv, CopyGood, Copy
    <2> QED
      BY <1>1, <1>2, <1>3, <1>6, <2>2, <2>3 DEF RunPassed
  <1> QED
    BY <1>1, <1>2, <1>5, <1>6 DEF RunPassed

\* At the end of a file, what is left of it and of the files that are not there
\* was spoilt when the next one was fetched.
LEMMA NextFilePasses ==
    ASSUME FileInv, RunInv, AtEnd, NEW h \in LaterFiles, \A k \in LaterFiles : h <= k,
           NEW i \in Reports, log[i].hour < h
    PROVE  RunPassed(i) \/ i \in spoilt
  <1>1. CopyGood(h) /\ i \in Indices
    BY DEF FileInv, LaterFiles, Reports, Indices
  <1>2. ~InCopy(i) => i \in spoilt
    BY <1>1 DEF CopyGood
  <1> QED
    BY <1>2, DonePassed

\* A line that is no report, though there is one of a meter in its place in the
\* log, was spoilt.
LEMMA SkippedSpoilt ==
    ASSUME FileInv, RunInv, InFile, ~IsReport, NEW i \in Reports, log[i].hour = File, Place(i) = run.next
    PROVE  i \in spoilt
  <1>1. /\ LogTyped /\ File \in Hours /\ copy[File] # Null /\ copy[File] \in Copy /\ CopyGood(File)
        /\ run.next < copy[File].lines /\ run.next \in Nat
    BY DEF FileInv, RunInv, Runs, Histories, File, InFile
  <1>2. i = FirstOf(File) + run.next /\ log[i].node \in Nodes /\ i \in Indices
    BY <1>1, ReportFacts
  <1>3. Line = log[i]
    BY <1>2 DEF Line
  <1>4. ~(run.next < copy[File].whole)
    BY <1>2, <1>3 DEF IsReport
  <1>5. copy[File].whole <= Place(i) /\ Place(i) < copy[File].lines
    BY <1>1, <1>4 DEF Copy
  <1> QED
    BY <1>1, <1>2, <1>5 DEF CopyGood

\* What a line counted adds to what the run has passed.
LEMMA LineCounted ==
    ASSUME FileInv, RunInv, InFile, UNCHANGED log, File' = File, run'.next = run.next + 1,
           NEW i \in Reports
    PROVE  /\ RunPassed(i) => RunPassed(i)'
           /\ RunPassed(i)' => RunPassed(i) \/ (log[i].hour = File /\ Place(i) = run.next)
  <1>1. LogTyped /\ run.next \in Nat
    BY DEF FileInv, RunInv, InFile, Runs
  <1>2. Place(i)' = Place(i) /\ Place(i) \in Nat
    BY <1>1, ReportFacts DEF Place, FirstOf
  <1> QED
    BY <1>1, <1>2 DEF RunPassed

LEMMA StartMoves ==
    ASSUME FileInv, RunInv, Start, NEW i \in Reports
    PROVE  RunPassed(i)' <=> Passed(i)
  <1>1. File' = history.current_file /\ run'.next = history.current_file_lineno + 1 /\ UNCHANGED log
    BY DEF Start, File
  <1>2. Place(i)' = Place(i) /\ Place(i) = i - FirstOf(log[i].hour) /\ Place(i) \in Nat
    BY <1>1, ReportFacts DEF Place, FirstOf, FileInv
  <1>3. history.current_file_lineno \in Int
    BY DEF RunInv, Histories
  <1> QED
    BY <1>1, <1>2, <1>3 DEF RunPassed, Passed

LEMMA NextFileMoves ==
    ASSUME FileInv, RunInv, NextFile
    PROVE  /\ UNCHANGED <<log, copy, history, rrd, spoilt>> /\ run # Null
           /\ run'.update_queue = run.update_queue /\ run'.update_ts = run.update_ts
           /\ run'.history.node_state = run.history.node_state
           /\ \A i \in Reports : RunPassed(i) => RunPassed(i)'
           /\ \A i \in Reports : RunPassed(i)' => RunPassed(i) \/ (i \in spoilt /\ ~InCopy(i))
  <1>1. UNCHANGED <<log, copy, history, rrd, spoilt>> /\ AtEnd /\ run # Null /\ run \in Runs
    BY DEF NextFile, AtEnd, RunInv
  <1>2. PICK h \in LaterFiles :
           /\ \A k \in LaterFiles : h <= k
           /\ run' = RunAt(History(h, run.history.current_file_lineno, run.history.node_state), 0,
                           run.update_queue, run.update_ts)
    BY <1>1, NextFileRun
  <1>3. /\ File' = h /\ run'.next = 0 /\ run'.update_queue = run.update_queue
        /\ run'.update_ts = run.update_ts /\ run'.history.node_state = run.history.node_state
    BY <1>2 DEF RunAt, History, File
  <1>4. LogTyped /\ h \in Nat /\ h > File /\ File \in Nat
    <2>1. File \in Hours \cup {0} /\ Hours \subseteq Nat
      BY <1>1, LogUpdaterAssumption DEF Runs, Histories, File
    <2> QED
      BY <2>1 DEF FileInv, LaterFiles
  <1>5. ASSUME NEW i \in Reports, RunPassed(i)' PROVE RunPassed(i) \/ (i \in spoilt /\ ~InCopy(i))
    <2>1. Place(i)' = Place(i) /\ Place(i) \in Nat
      BY <1>1, <1>4, ReportFacts DEF Place, FirstOf
    <2>2. log[i].hour < h
      BY <1>1, <1>3, <1>5, <2>1 DEF RunPassed
    <2>3. InCopy(i) => RunPassed(i)
      BY <1>1, <1>2, <2>2, DonePassed
    <2>4. RunPassed(i) \/ i \in spoilt
      BY <1>1, <1>2, <2>2, NextFilePasses
    <2> QED
      BY <2>3, <2>4
  <1>6. ASSUME NEW i \in Reports, RunPassed(i) PROVE RunPassed(i)'
    BY <1>1, <1>3, <1>4, <1>6, ReportFacts DEF RunPassed
  <1> QED
    BY <1>1, <1>3, <1>5, <1>6

LEMMA SkipMoves ==
    ASSUME FileInv, RunInv, SkipLine
    PROVE  /\ UNCHANGED <<log, copy, history, rrd, spoilt>> /\ run # Null
           /\ run'.update_queue = run.update_queue /\ run'.update_ts = run.update_ts
           /\ run'.history.node_state = run.history.node_state
           /\ \A i \in Reports : RunPassed(i) => RunPassed(i)'
           /\ \A i \in Reports : RunPassed(i)' => RunPassed(i) \/ (i \in spoilt /\ ~InCopy(i))
  <1>1. /\ UNCHANGED <<log, copy, history, rrd, spoilt>> /\ InFile /\ ~IsReport
        /\ run' = Counted /\ run # Null /\ run \in Runs
    BY DEF SkipLine, InFile, RunInv
  <1>2. /\ File' = File /\ run'.next = run.next + 1 /\ run'.update_queue = run.update_queue
        /\ run'.update_ts = run.update_ts /\ run'.history.node_state = run.history.node_state
    BY <1>1, CountedRun DEF RunAt, History, File
  <1>3. ASSUME NEW i \in Reports, log[i].hour = File, Place(i) = run.next PROVE ~InCopy(i)
    <2> SUFFICES ASSUME InCopy(i) PROVE FALSE
      OBVIOUS
    <2>1. i = FirstOf(File) + run.next /\ log[i].node \in Nodes
      BY <1>3, ReportFacts DEF FileInv
    <2>2. Line = log[i]
      BY <2>1 DEF Line
    <2>3. run.next < copy[File].whole
      BY <1>3 DEF InCopy, Place
    <2> QED
      BY <1>1, <2>1, <2>2, <2>3 DEF IsReport
  <1>4. ASSUME NEW i \in Reports
        PROVE  /\ RunPassed(i) => RunPassed(i)'
               /\ RunPassed(i)' => RunPassed(i) \/ (log[i].hour = File /\ Place(i) = run.next)
    BY <1>1, <1>2, LineCounted
  <1>5. ASSUME NEW i \in Reports, RunPassed(i)' PROVE RunPassed(i) \/ (i \in spoilt /\ ~InCopy(i))
    BY <1>1, <1>3, <1>4, <1>5, SkippedSpoilt
  <1> QED
    BY <1>1, <1>2, <1>4, <1>5

\* p is the line counted, n its node, s and t the node's states.
LEMMA ReportMoves ==
    ASSUME FileInv, RunInv, ReportLine,
           NEW p, p = FirstOf(File) + run.next, NEW n, n = Line.node,
           NEW s, s = run.history.node_state[n], NEW t, t = ProcessMeterReader(s, log[p])
    PROVE  /\ UNCHANGED <<log, copy, history, rrd, spoilt>> /\ InFile /\ IsReport
           /\ run # Null /\ run \in Runs /\ Line = log[p]
           /\ \A m \in Nodes : run.update_queue[m] # Null => run.update_ts = log[p].ts
           /\ p \in Reports /\ p \in Indices /\ Place(p) = run.next /\ p <= written
           /\ log[p] \in Lines /\ log[p].hour = File /\ log[p].node = n /\ n \in Nodes
           /\ s \in NodeStates /\ t \in NodeStates /\ t.realcounter \in Nat
           /\ run'.update_ts = log[p].ts
           /\ \A m \in Nodes : run'.history.node_state[m] = IF m = n THEN t
                                                            ELSE run.history.node_state[m]
           /\ \A m \in Nodes : run'.update_queue[m] = IF m = n THEN t.realcounter
                                                      ELSE run.update_queue[m]
           /\ \A i \in Reports : (RunPassed(i) <=> i < p) /\ (RunPassed(i)' <=> i <= p)
  <1>1. /\ UNCHANGED <<log, copy, history, rrd, spoilt>> /\ InFile /\ IsReport
        /\ run # Null /\ run \in Runs
        /\ run.update_queue = NoUpdates \/ run.update_ts = Line.ts
    BY DEF ReportLine, InFile, RunInv
  <1>2. /\ LogTyped /\ p \in Indices /\ Place(p) = run.next /\ Line = log[p] /\ n \in Nodes
        /\ log[p].hour = File /\ log[p].node = n /\ log[p] \in Lines /\ p <= written
    BY <1>1, LineFacts DEF Line, FileInv
  <1>3. NewState = t /\ s \in NodeStates /\ t \in NodeStates /\ t.realcounter \in Nat
    <2>1. NewState = t
      BY <1>2 DEF NewState
    <2> QED
      BY <1>1, <1>2, <2>1, StateTyped DEF Runs, Histories
  <1>4. /\ File' = File /\ run'.next = run.next + 1 /\ run'.update_ts = log[p].ts
        /\ \A m \in Nodes : run'.history.node_state[m] = IF m = n THEN t
                                                         ELSE run.history.node_state[m]
        /\ \A m \in Nodes : run'.update_queue[m] = IF m = n THEN t.realcounter
                                                   ELSE run.update_queue[m]
    <2> DEFINE S == [run.history.node_state EXCEPT ![n] = t]
               Q == [run.update_queue EXCEPT ![n] = t.realcounter]
    <2>1. run' = RunAt(History(File, run.next, S), run.next + 1, Q, log[p].ts)
      BY <1>1, <1>2, <1>3, ReportRun
    <2>2. /\ \A m \in Nodes : S[m] = IF m = n THEN t ELSE run.history.node_state[m]
          /\ \A m \in Nodes : Q[m] = IF m = n THEN t.realcounter ELSE run.update_queue[m]
      BY <1>1 DEF Runs, Histories
    <2> HIDE DEF S, Q
    <2> QED
      BY <2>1, <2>2 DEF RunAt, History, File
  <1>5. p \in Reports
    BY <1>2 DEF Reports, Indices
  <1>6. ASSUME NEW i \in Reports
        PROVE  (RunPassed(i) <=> i < p) /\ (RunPassed(i)' <=> i <= p)
    <2>1. RunPassed(i) <=> i < p
      BY <1>1, PassedBefore
    <2>2. /\ RunPassed(i) => RunPassed(i)'
          /\ RunPassed(i)' => RunPassed(i) \/ (log[i].hour = File /\ Place(i) = run.next)
      BY <1>1, <1>4, LineCounted
    <2>3. log[i].hour = File /\ Place(i) = run.next => i = p
      BY <1>2, ReportFacts
    <2>4. RunPassed(p)'
      <3>1. Place(p)' = Place(p) /\ run.next \in Nat
        BY <1>1 DEF Place, FirstOf, Runs
      <3>2. log'[p].hour = File
        BY <1>1, <1>2
      <3> QED
        BY <1>2, <1>4, <3>1, <3>2 DEF RunPassed
    <2>5. i \in Int /\ p \in Int
      BY <1>5 DEF Reports
    <2> QED
      BY <2>1, <2>2, <2>3, <2>4, <2>5
  <1>7. \A m \in Nodes : run.update_queue[m] # Null => run.update_ts = log[p].ts
    BY <1>1, <1>2 DEF NoUpdates
  <1> QED
    BY <1>1, <1>2, <1>3, <1>4, <1>5, <1>6, <1>7

\* The history is saved at the end of a file, where the line number is that of
\* the last line.
LEMMA SaveMoves ==
    ASSUME FileInv, RunInv, SaveHistory, NEW i \in Reports
    PROVE  Passed(i)' <=> RunPassed(i)
  <1>1. /\ UNCHANGED log /\ history' = run.history /\ run # Null
        /\ AtEnd /\ run \in Runs /\ run.next \in Nat
    BY DEF SaveHistory, AtEnd, RunInv, Runs
  <1>2. /\ i - FirstOf(log[i].hour) = Place(i) /\ Place(i) \in Nat
        /\ log[i].hour \in Hours /\ log[i].hour # 0
    BY ReportFacts DEF Place, FileInv
  <1>3. Passed(i)' <=> \/ log[i].hour < File
                       \/ log[i].hour = File /\ Place(i) <= run.history.current_file_lineno
    BY <1>1, <1>2 DEF Passed, File, FirstOf
  <1>4. ASSUME log[i].hour = File PROVE run.history.current_file_lineno = run.next - 1
    <2>1. ~(run.next < copy[File].lines)
      BY <1>1, <1>2, <1>4 DEF AtEnd, InFile
    <2>2. copy[File].lines \in Nat /\ copy[File].lines > 0
      BY <1>1, <1>2, <1>4 DEF RunInv, FileInv, CopyGood, Copy
    <2> QED
      BY <1>1, <2>1, <2>2 DEF RunInv
  <1> QED
    BY <1>1, <1>2, <1>3, <1>4 DEF RunPassed

-----------------------------------------------------------------------------
(* What has been passed is recorded *)

Accounted(i) == Recorded(i) \/ i \in spoilt

Queued(i) == run.update_queue[log[i].node] # Null /\ run.update_ts = log[i].ts

PassedInv == \A i \in Reports : Passed(i) => Accounted(i)

\* Nothing is missing before a point: rrdtool would not take it any more.
PointsInv ==
    \A n \in Nodes : \A k \in 1 .. Len(rrd[n]) : \A i \in Reports :
        log[i].node = n /\ log[i].ts <= rrd[n][k].ts => Accounted(i)

\* What the run has passed is recorded or waits in the queue, and what waits is
\* of a report the run has passed.
QueueInv ==
    run # Null =>
        /\ \A i \in Reports : RunPassed(i) => Accounted(i) \/ Queued(i)
        /\ \A n \in Nodes : run.update_queue[n] # Null =>
              \E i \in Reports : log[i].node = n /\ log[i].ts = run.update_ts /\ RunPassed(i)

RecInv == PassedInv /\ PointsInv /\ QueueInv

\* Recording more, or spoiling more, takes nothing back.
LEMMA AccountedStays ==
    ASSUME UNCHANGED log, spoilt \subseteq spoilt',
           \A n \in Nodes : \A k \in 1 .. Len(rrd[n]) :
              \E j \in 1 .. Len(rrd'[n]) : rrd'[n][j].ts = rrd[n][k].ts
    PROVE  Reports' = Reports /\ \A i \in Reports : Accounted(i) => Accounted(i)'
  <1>1. Reports' = Reports
    BY DEF Reports
  <1>2. ASSUME NEW i \in Reports, Recorded(i) PROVE Recorded(i)'
    <2>1. log[i].node \in Nodes
      BY DEF Reports
    <2> QED
      BY <1>1, <1>2, <2>1 DEF Recorded
  <1> QED
    BY <1>1, <1>2 DEF Accounted

\* Lines before a report that was passed were passed as well.
LEMMA EarlierPassed ==
    ASSUME FileInv, RunInv, run # Null, NEW i \in Reports, NEW j \in Reports,
           log[i].ts < log[j].ts, RunPassed(j)
    PROVE  RunPassed(i)
  <1>1. LogTyped /\ File \in Nat /\ run.next \in Nat
    BY LogUpdaterAssumption DEF FileInv, RunInv, Runs, Histories, File
  <1>2. i \in Indices /\ j \in Indices /\ i \in Nat /\ j \in Nat /\ log[i].ts \in Nat /\ log[j].ts \in Nat
    BY <1>1, ReportFacts DEF Indices
  <1>3. ~(j <= i)
    <2> SUFFICES ASSUME j <= i PROVE FALSE
      OBVIOUS
    <2>1. log[j].ts <= log[i].ts
      BY <1>1, <1>2, LogFacts
    <2> QED
      BY <1>2, <2>1
  <1>4. log[i].hour <= log[j].hour
    BY <1>1, <1>2, <1>3, LogFacts
  <1>5. CASE log[i].hour < File
    BY <1>5 DEF RunPassed
  <1>6. CASE ~(log[i].hour < File)
    <2>1. log[i].hour = File /\ log[j].hour = File /\ Place(j) < run.next
      BY <1>1, <1>4, <1>6, ReportFacts DEF RunPassed
    <2>2. Place(i) < Place(j)
      BY <1>1, <1>2, <1>3, <2>1, ReportFacts DEF Place
    <2> QED
      BY <1>1, <2>1, <2>2, ReportFacts DEF RunPassed
  <1> QED
    BY <1>5, <1>6

LEMMA RecInit == Init => RecInv
  <1> SUFFICES ASSUME Init PROVE RecInv
    OBVIOUS
  <1>1. /\ history.current_file = 0 /\ history.current_file_lineno = -1 /\ run = Null
        /\ \A n \in Nodes : Len(rrd[n]) = 0
    BY DEF Init, History
  <1>2. PassedInv
    <2> SUFFICES ASSUME NEW i \in Reports PROVE ~Passed(i)
      BY DEF PassedInv
    <2>1. log[i].hour \in Nat \ {0}
      BY FileInit, ReportFacts DEF FileInv
    <2> QED
      BY <1>1, <2>1 DEF Passed
  <1> QED
    BY <1>1, <1>2 DEF RecInv, PointsInv, QueueInv

\* A step of a run, when it has no point to add.
LEMMA RunRecords ==
    ASSUME FileInv, RunInv, RecInv, UNCHANGED <<log, history, rrd, spoilt>>,
           QueueInv'
    PROVE  RecInv'
  <1>1. Reports' = Reports /\ \A i \in Reports : Accounted(i) => Accounted(i)'
    BY AccountedStays
  <1>2. \A i \in Reports : Passed(i)' <=> Passed(i)
    BY DEF Passed, FirstOf
  <1>3. PassedInv'
    BY <1>1, <1>2 DEF RecInv, PassedInv
  <1>4. PointsInv'
    BY <1>1 DEF RecInv, PointsInv
  <1> QED
    BY <1>3, <1>4 DEF RecInv

LEMMA StartRecords ==
    ASSUME FileInv, RunInv, RecInv, Start
    PROVE  RecInv'
  <1>1. /\ run' = [history |-> history, next |-> history.current_file_lineno + 1,
                   update_queue |-> NoUpdates, update_ts |-> 0]
        /\ UNCHANGED <<log, history, rrd, spoilt>>
    BY DEF Start
  <1>2. /\ File' = history.current_file /\ run'.next = history.current_file_lineno + 1
        /\ \A n \in Nodes : run'.update_queue[n] = Null
    BY <1>1 DEF File, NoUpdates
  <1>3. Reports' = Reports /\ \A i \in Reports : Accounted(i) => Accounted(i)'
    BY <1>1, AccountedStays
  <1>4. ASSUME NEW i \in Reports, RunPassed(i)' PROVE Passed(i)
    BY <1>4, StartMoves
  <1>5. QueueInv'
    BY <1>2, <1>3, <1>4 DEF QueueInv, RecInv, PassedInv
  <1> QED
    BY <1>1, <1>5, RunRecords

\* The run moves on, over reports that were spoilt.
LEMMA PassesRecorded ==
    ASSUME FileInv, RunInv, RecInv, UNCHANGED <<log, history, rrd, spoilt>>, run # Null,
           run'.update_queue = run.update_queue, run'.update_ts = run.update_ts,
           \A i \in Reports : RunPassed(i) => RunPassed(i)',
           \A i \in Reports : RunPassed(i)' => RunPassed(i) \/ i \in spoilt
    PROVE  RecInv'
  <1>1. Reports' = Reports /\ \A i \in Reports : Accounted(i) => Accounted(i)'
    BY AccountedStays
  <1>2. \A i \in Reports : Queued(i)' <=> Queued(i)
    BY DEF Queued
  <1>3. QueueInv'
    BY <1>1, <1>2 DEF QueueInv, RecInv, Accounted
  <1> QED
    BY <1>3, RunRecords

LEMMA NextFileRecords ==
    ASSUME FileInv, RunInv, RecInv, NextFile
    PROVE  RecInv'
  <1>1. /\ UNCHANGED <<log, copy, history, rrd, spoilt>> /\ run # Null
        /\ run'.update_queue = run.update_queue /\ run'.update_ts = run.update_ts
        /\ \A i \in Reports : RunPassed(i) => RunPassed(i)'
        /\ \A i \in Reports : RunPassed(i)' => RunPassed(i) \/ i \in spoilt
    BY NextFileMoves
  <1> QED
    BY <1>1, PassesRecorded

LEMMA SkipRecords ==
    ASSUME FileInv, RunInv, RecInv, SkipLine
    PROVE  RecInv'
  <1>1. /\ UNCHANGED <<log, copy, history, rrd, spoilt>> /\ run # Null
        /\ run'.update_queue = run.update_queue /\ run'.update_ts = run.update_ts
        /\ \A i \in Reports : RunPassed(i) => RunPassed(i)'
        /\ \A i \in Reports : RunPassed(i)' => RunPassed(i) \/ i \in spoilt
    BY SkipMoves
  <1> QED
    BY <1>1, PassesRecorded

LEMMA ReportRecords ==
    ASSUME FileInv, RunInv, RecInv, ReportLine
    PROVE  RecInv'
  <1> PICK n : n = Line.node
    OBVIOUS
  <1> PICK p : p = FirstOf(File) + run.next
    OBVIOUS
  <1> PICK v : v = ProcessMeterReader(run.history.node_state[n], log[p]).realcounter
    OBVIOUS
  <1>1. /\ UNCHANGED <<log, history, rrd, spoilt>> /\ run # Null /\ run'.update_ts = log[p].ts
        /\ \A m \in Nodes : run.update_queue[m] # Null => run.update_ts = log[p].ts
        /\ p \in Reports /\ log[p].node = n /\ n \in Nodes /\ v \in Nat
        /\ \A m \in Nodes : run'.update_queue[m] = IF m = n THEN v ELSE run.update_queue[m]
        /\ \A i \in Reports : (RunPassed(i) <=> i < p) /\ (RunPassed(i)' <=> i <= p)
    BY ReportMoves
  <1>2. Reports' = Reports /\ \A i \in Reports : Accounted(i) => Accounted(i)'
    BY <1>1, AccountedStays
  <1>3. v # Null /\ p \in Int /\ \A i \in Reports : i \in Int
    BY <1>1, LogUpdaterAssumption DEF Reports
  <1>4. RunPassed(p)' /\ \A i \in Reports : /\ RunPassed(i) => RunPassed(i)'
                                            /\ RunPassed(i)' => RunPassed(i) \/ i = p
    BY <1>1, <1>3
  <1>5. Queued(p)'
    BY <1>1, <1>3 DEF Queued
  <1>6. ASSUME NEW i \in Reports, Queued(i) PROVE Queued(i)'
    <2>1. log[i].node \in Nodes
      BY DEF Reports
    <2>2. run.update_ts = log[p].ts
      BY <1>1, <1>6, <2>1 DEF Queued
    <2> QED
      BY <1>1, <1>3, <1>6, <2>1, <2>2 DEF Queued
  <1>7. ASSUME NEW m \in Nodes, run'.update_queue[m] # Null
        PROVE  \E i \in Reports : log[i].node = m /\ log[i].ts = run'.update_ts /\ RunPassed(i)'
    <2>1. CASE m = n
      BY <1>1, <1>4, <2>1
    <2>2. CASE m # n
      <3>1. run.update_queue[m] # Null /\ run.update_ts = log[p].ts
        BY <1>1, <1>7, <2>2
      <3>2. PICK i \in Reports : log[i].node = m /\ log[i].ts = run.update_ts /\ RunPassed(i)
        BY <1>1, <3>1 DEF RecInv, QueueInv
      <3> QED
        BY <1>1, <1>4, <3>1, <3>2
    <2> QED
      BY <2>1, <2>2
  <1>8. ASSUME NEW i \in Reports, RunPassed(i)' PROVE Accounted(i)' \/ Queued(i)'
    <2>1. CASE i = p
      BY <1>5, <2>1
    <2>2. CASE RunPassed(i)
      BY <1>1, <1>2, <1>6, <2>2 DEF RecInv, QueueInv
    <2> QED
      BY <1>4, <1>8, <2>1, <2>2
  <1>9. QueueInv'
    BY <1>1, <1>2, <1>7, <1>8 DEF QueueInv
  <1> QED
    BY <1>1, <1>9, RunRecords

\* What a flush appends, or that there is a later point already.
LEMMA FlushPoints ==
    ASSUME RunInv, NEW n \in Nodes, FlushUpdate(n)
    PROVE  \/ /\ UNCHANGED rrd
              /\ Len(rrd[n]) \in 1 .. Len(rrd[n]) /\ run.update_ts <= rrd[n][Len(rrd[n])].ts
           \/ /\ Len(rrd[n]) \in Nat /\ Len(rrd'[n]) = Len(rrd[n]) + 1
              /\ \A k \in 1 .. Len(rrd[n]) : rrd'[n][k] = rrd[n][k]
              /\ rrd'[n][Len(rrd[n]) + 1] = [ts |-> run.update_ts, value |-> run.update_queue[n]]
              /\ \A m \in Nodes : m # n => rrd'[m] = rrd[m]
              /\ Len(rrd[n]) > 0 => rrd[n][Len(rrd[n])].ts < run.update_ts
  <1> DEFINE q == rrd[n]
             point == [ts |-> run.update_ts, value |-> run.update_queue[n]]
  <1>1. /\ q \in Seq(Points) /\ run \in Runs /\ rrd \in [Nodes -> Seq(Points)]
        /\ run.update_queue[n] \in Nat /\ run.update_ts \in Nat
    BY DEF FlushUpdate, FlushDue, RunInv, Runs
  <1>2. \/ UNCHANGED rrd /\ q # <<>> /\ run.update_ts <= Last(q).ts
        \/ rrd' = [rrd EXCEPT ![n] = Append(q, point)] /\ (q = <<>> \/ ~(run.update_ts <= Last(q).ts))
    BY DEF FlushUpdate
  <1>3. point \in Points /\ Last(q) = q[Len(q)]
    BY <1>1 DEF Points, Last
  <1>4. Len(q) \in Nat /\ (q # <<>> => Len(q) \in 1 .. Len(q)) /\ (Len(q) > 0 => q # <<>>)
    BY <1>1
  <1>5. \A k \in 1 .. Len(q) : q[k].ts \in Nat
    <2>1. \A k \in 1 .. Len(q) : q[k] \in Points
      BY <1>1
    <2> QED
      BY <2>1 DEF Points
  <1> HIDE DEF point
  <1>6. /\ Len(Append(q, point)) = Len(q) + 1 /\ Append(q, point)[Len(q) + 1] = point
        /\ \A k \in 1 .. Len(q) : Append(q, point)[k] = q[k]
    BY <1>1, <1>3
  <1> HIDE DEF q
  <1>7. CASE UNCHANGED rrd /\ q # <<>> /\ run.update_ts <= Last(q).ts
    BY <1>3, <1>4, <1>7 DEF q
  <1>8. CASE rrd' = [rrd EXCEPT ![n] = Append(q, point)] /\ (q = <<>> \/ ~(run.update_ts <= Last(q).ts))
    <2>1. rrd'[n] = Append(q, point) /\ \A m \in Nodes : m # n => rrd'[m] = rrd[m]
      BY <1>1, <1>8
    <2>2. Len(q) > 0 => q[Len(q)].ts < run.update_ts
      <3>1. ASSUME Len(q) > 0
            PROVE  q # <<>> /\ Last(q).ts = q[Len(q)].ts /\ q[Len(q)].ts \in Nat
        BY <1>3, <1>4, <1>5, <3>1
      <3>2. ASSUME Len(q) > 0 PROVE ~(run.update_ts <= q[Len(q)].ts)
        BY <1>8, <3>1, <3>2
      <3> QED
        BY <1>1, <3>1, <3>2
    <2> QED
      BY <1>4, <1>6, <2>1, <2>2 DEF q, point
  <1> QED
    BY <1>2, <1>7, <1>8

LEMMA FlushRecords ==
    ASSUME FileInv, RunInv, RecInv, NEW n \in Nodes, FlushUpdate(n)
    PROVE  RecInv'
  <1> DEFINE L == Len(rrd[n])
  <1>1. /\ UNCHANGED <<log, history, spoilt>> /\ run # Null /\ run.update_queue[n] # Null
        /\ LogTyped /\ run \in Runs /\ run.update_ts \in Nat
    BY DEF FlushUpdate, FlushDue, RunInv, FileInv, Runs
  <1>2. /\ File' = File /\ run'.next = run.next /\ run'.update_ts = run.update_ts
        /\ run'.update_queue = [run.update_queue EXCEPT ![n] = Null]
    BY <1>1, FlushedRun DEF RunAt, File
  <1>3. \A m \in Nodes : run'.update_queue[m] = IF m = n THEN Null ELSE run.update_queue[m]
    BY <1>1, <1>2 DEF Runs
  <1>4. \A m \in Nodes : \A k \in 1 .. Len(rrd[m]) :
           k \in 1 .. Len(rrd'[m]) /\ rrd'[m][k] = rrd[m][k]
    <2>1. CASE UNCHANGED rrd
      BY <2>1
    <2>2. CASE /\ L \in Nat /\ Len(rrd'[n]) = L + 1
               /\ \A k \in 1 .. L : rrd'[n][k] = rrd[n][k]
               /\ \A m \in Nodes : m # n => rrd'[m] = rrd[m]
      <3>1. \A k \in 1 .. L : k \in 1 .. Len(rrd'[n])
        BY <2>2
      <3> QED
        BY <2>2, <3>1
    <2> QED
      BY <2>1, <2>2, FlushPoints
  <1>5. Reports' = Reports /\ \A i \in Reports : Accounted(i) => Accounted(i)'
    BY <1>1, <1>4, AccountedStays
  <1>6. \A i \in Reports : RunPassed(i)' <=> RunPassed(i)
    BY <1>1, <1>2 DEF RunPassed, Place, FirstOf
  <1>7. ASSUME NEW i \in Reports, log[i].node = n, log[i].ts <= run.update_ts
        PROVE  Accounted(i)'
    <2>1. /\ log[i].ts \in Nat
      BY <1>1, ReportFacts
    <2>2. CASE UNCHANGED rrd /\ L \in 1 .. L /\ run.update_ts <= rrd[n][L].ts
      <3>1. rrd[n][L].ts \in Nat
        <4>1. rrd[n] \in Seq(Points)
          BY DEF RunInv
        <4>2. rrd[n][L] \in Points
          BY <2>2, <4>1
        <4> QED
          BY <4>2 DEF Points
      <3>2. log[i].ts <= rrd[n][L].ts
        BY <1>1, <1>7, <2>1, <2>2, <3>1
      <3> QED
        BY <1>5, <1>7, <2>2, <3>2 DEF RecInv, PointsInv
    <2>3. CASE Len(rrd'[n]) = L + 1 /\ L \in Nat /\ rrd'[n][L + 1].ts = run.update_ts
      <3>1. CASE log[i].ts = run.update_ts
        <4>1. L + 1 \in 1 .. Len(rrd'[n])
          BY <2>3
        <4> QED
          BY <1>1, <1>5, <1>7, <2>3, <3>1, <4>1 DEF Accounted, Recorded
      <3>2. CASE log[i].ts < run.update_ts
        <4>1. PICK j \in Reports : log[j].ts = run.update_ts /\ RunPassed(j)
          BY <1>1 DEF RecInv, QueueInv
        <4>2. RunPassed(i)
          BY <1>1, <3>2, <4>1, EarlierPassed
        <4>3. ~Queued(i)
          BY <1>1, <2>1, <3>2 DEF Queued
        <4> QED
          BY <1>1, <1>5, <4>2, <4>3 DEF RecInv, QueueInv
      <3> QED
        BY <1>1, <1>7, <2>1, <3>1, <3>2
    <2> QED
      <3>1. [ts |-> run.update_ts, value |-> run.update_queue[n]].ts = run.update_ts
        OBVIOUS
      <3> QED
        BY <2>2, <2>3, <3>1, FlushPoints
  <1>8. PassedInv'
    <2>1. \A i \in Reports : Passed(i)' <=> Passed(i)
      BY <1>1 DEF Passed, FirstOf
    <2> QED
      BY <1>5, <2>1 DEF RecInv, PassedInv
  <1>9. PointsInv'
    <2> SUFFICES ASSUME NEW m \in Nodes, NEW k \in 1 .. Len(rrd'[m]), NEW i \in Reports,
                        log[i].node = m, log[i].ts <= rrd'[m][k].ts
                 PROVE  Accounted(i)'
      BY <1>1, <1>5 DEF PointsInv
    <2>1. CASE k \in 1 .. Len(rrd[m])
      BY <1>4, <1>5, <2>1 DEF RecInv, PointsInv
    <2>2. CASE k \notin 1 .. Len(rrd[m])
      <3>1. m = n /\ rrd'[n][k].ts = run.update_ts
        <4>1. ~UNCHANGED rrd
          BY <2>2
        <4>2. m = n
          BY <2>2, <4>1, FlushPoints
        <4>3. L \in Nat /\ Len(rrd'[n]) = L + 1 /\ rrd'[n][L + 1].ts = run.update_ts
          <5>1. [ts |-> run.update_ts, value |-> run.update_queue[n]].ts = run.update_ts
            OBVIOUS
          <5> QED
            BY <4>1, <5>1, FlushPoints
        <4>4. k = L + 1
          BY <2>2, <4>2, <4>3
        <4> QED
          BY <4>2, <4>3, <4>4
      <3> QED
        BY <1>7, <3>1
    <2> QED
      BY <2>1, <2>2
  <1>10. ASSUME NEW i \in Reports, RunPassed(i)' PROVE Accounted(i)' \/ Queued(i)'
    <2>1. log[i].node \in Nodes /\ log[i].ts \in Nat
      BY <1>1, ReportFacts
    <2>2. Accounted(i) \/ Queued(i)
      BY <1>1, <1>6, <1>10 DEF RecInv, QueueInv
    <2>3. CASE Queued(i) /\ log[i].node = n
      BY <1>1, <1>7, <2>1, <2>3 DEF Queued
    <2>4. CASE Queued(i) /\ log[i].node # n
      BY <1>1, <1>2, <1>3, <2>1, <2>4 DEF Queued
    <2> QED
      BY <1>5, <2>2, <2>3, <2>4
  <1>11. ASSUME NEW m \in Nodes, run'.update_queue[m] # Null
         PROVE  \E i \in Reports : log[i].node = m /\ log[i].ts = run'.update_ts /\ RunPassed(i)'
    BY <1>1, <1>2, <1>3, <1>6, <1>11 DEF RecInv, QueueInv
  <1>12. QueueInv'
    BY <1>1, <1>5, <1>10, <1>11 DEF QueueInv
  <1> QED
    BY <1>8, <1>9, <1>12 DEF RecInv

\* The history is saved when nothing is left in the queue and the file is at its
\* end, where the line number is that of the last line.
LEMMA SaveRecords ==
    ASSUME FileInv, RunInv, RecInv, SaveHistory
    PROVE  RecInv'
  <1>1. /\ UNCHANGED <<log, rrd, spoilt>> /\ history' = run.history /\ run' = Null /\ run # Null
        /\ AtEnd /\ run.update_queue = NoUpdates /\ run \in Runs /\ run.next \in Nat
    BY DEF SaveHistory, AtEnd, RunInv, Runs
  <1>2. Reports' = Reports /\ \A i \in Reports : Accounted(i) => Accounted(i)'
    BY <1>1, AccountedStays
  <1>3. ASSUME NEW i \in Reports, Passed(i)' PROVE RunPassed(i)
    BY <1>3, SaveMoves
  <1>4. ASSUME NEW i \in Reports PROVE ~Queued(i)
    BY <1>1 DEF Queued, NoUpdates, Reports
  <1>5. PassedInv'
    BY <1>1, <1>2, <1>3, <1>4 DEF PassedInv, RecInv, QueueInv
  <1>6. PointsInv'
    BY <1>1, <1>2 DEF RecInv, PointsInv
  <1> QED
    BY <1>1, <1>5, <1>6 DEF RecInv, QueueInv

LEMMA RecNext == FileInv /\ RunInv /\ RecInv /\ [Next]_vars => RecInv'
  <1> SUFFICES ASSUME FileInv, RunInv, RecInv, [Next]_vars PROVE RecInv'
    OBVIOUS
  <1>1. ASSUME UNCHANGED <<log, history, run, rrd>>, spoilt \subseteq spoilt' PROVE RecInv'
    <2>1. Reports' = Reports /\ \A i \in Reports : Accounted(i) => Accounted(i)'
      BY <1>1, AccountedStays
    <2>2. /\ \A i \in Reports : Passed(i)' <=> Passed(i)
          /\ \A i \in Reports : RunPassed(i)' <=> RunPassed(i)
          /\ \A i \in Reports : Queued(i)' <=> Queued(i)
      BY <1>1 DEF Passed, RunPassed, Queued, Place, FirstOf, File
    <2>3. PassedInv' /\ PointsInv'
      BY <1>1, <2>1, <2>2 DEF RecInv, PassedInv, PointsInv
    <2>4. QueueInv'
      BY <1>1, <2>1, <2>2 DEF RecInv, QueueInv
    <2> QED
      BY <2>3, <2>4 DEF RecInv
  <1>2. CASE Stamp \/ Write \/ NextHour \/ UNCHANGED vars
    <2>1. UNCHANGED <<log, history, run, rrd, spoilt>>
      BY ONLY <1>2 DEF Stamp, Write, NextHour, vars
    <2> QED
      BY <1>1, <2>1
  <1>3. ASSUME NEW h \in Hours, Get(h) PROVE RecInv'
    BY <1>1, <1>3 DEF Get
  <1>4. CASE Crash
    <2>1. UNCHANGED <<log, history, rrd, spoilt>> /\ run' = Null
      BY <1>4 DEF Crash
    <2>2. QueueInv'
      BY <2>1 DEF QueueInv
    <2> QED
      BY <2>1, <2>2, RunRecords
  <1> QED
    BY <1>2, <1>3, <1>4, StartRecords, NextFileRecords, SkipRecords, ReportRecords, FlushRecords,
       SaveRecords DEF Next, ProcessFiles

\* Wherever runs are killed and whatever the fetches catch the logger at, what
\* the history counts as processed is in the RRD files, but for what a fetch
\* spoilt: for any logs, hours and meters.
THEOREM PassedAreRecorded == Spec => []PassedLinesRecorded
  <1>1. Init => FileInv /\ RunInv /\ RecInv
    BY FileInit, RunInit, RecInit
  <1>2. FileInv /\ RunInv /\ RecInv /\ [Next]_vars => (FileInv /\ RunInv /\ RecInv)'
    BY FileNext, RunNext, RecNext
  <1>3. RecInv => PassedLinesRecorded
    BY DEF RecInv, PassedInv, PassedLinesRecorded, Accounted
  <1> QED
    BY <1>1, <1>2, <1>3, PTL DEF Spec

-----------------------------------------------------------------------------
(* The counters never drop *)

ReportsOf(n) == {i \in Reports : log[i].node = n}

\* The counter after a line, when s is the state before it.
After(s, line) == ProcessMeterReader(s, line).realcounter

\* What a line adds after a report of counter last.
StepTo(last, line) == IF line.ping_id = 1 \/ line.counter < last THEN 1 ELSE line.counter - last

LEMMA LineFields ==
    ASSUME LogTyped, NEW i \in Reports
    PROVE  /\ log[i].counter \in Nat /\ log[i].ping_id \in Nat /\ log[i].parts \in Nat
           /\ \A last \in Nat : StepTo(last, log[i]) \in Nat
  <1>1. log[i].counter \in Nat /\ log[i].ping_id \in Nat /\ log[i].parts \in Nat
    BY ReportFacts DEF Lines
  <1> QED
    BY <1>1 DEF StepTo

LEMMA AfterIs ==
    ASSUME NEW line \in Lines, NEW s \in NodeStates
    PROVE  /\ ProcessMeterReader(s, line).lastcounter = line.counter /\ line.counter # Null
           /\ s.realcounter \in Nat /\ After(s, line) \in Nat /\ After(s, line) >= s.realcounter
           /\ s.lastcounter = Null => After(s, line) = line.counter
           /\ s.lastcounter # Null => /\ s.lastcounter \in Nat
                                     /\ After(s, line) = s.realcounter + StepTo(s.lastcounter, line)
  <1>1. line.counter \in Nat /\ line.ping_id \in Nat /\ line.parts \in Nat
    BY DEF Lines
  <1>2. s.realcounter \in Nat /\ s.lastcounter \in Nat \cup {Null} /\ s.last_ping_id \in Nat
        /\ (s.lastcounter = Null => s.realcounter = 0)
    BY DEF NodeStates
  <1>3. line.counter # Null
    BY <1>1, LogUpdaterAssumption
  <1>4. After(s, line) \in Nat /\ After(s, line) >= s.realcounter
    BY <1>1, <1>2, ReportNeverLowers DEF After
  <1>5. CASE s.lastcounter = Null
    BY <1>2, <1>3, <1>4, <1>5 DEF After, ProcessMeterReader
  <1>6. CASE s.lastcounter # Null
    <2> DEFINE ping == line.ping_id
               c == line.counter
               q == line.parts
               last == s.lastcounter
               lp == s.last_ping_id
    <2>1. ping \in Nat /\ c \in Nat /\ q \in Nat /\ last \in Nat /\ lp \in Nat
      BY <1>1, <1>2, <1>6
    <2>2. After(s, line) = s.realcounter + CalculateStep(ping, c, last, lp, q)
      BY <1>6 DEF After, ProcessMeterReader
    <2>3. StepTo(last, line) = IF ping = 1 \/ c < last THEN 1 ELSE c - last
      BY DEF StepTo
    <2> HIDE DEF ping, c, q, last, lp
    <2>4. CalculateStep(ping, c, last, lp, q) = IF ping = 1 \/ c < last THEN 1 ELSE c - last
      BY <2>1, StepIsDifference
    <2>5. After(s, line) = s.realcounter + StepTo(last, line)
      BY <2>2, <2>3, <2>4
    <2> QED
      BY <1>2, <1>3, <1>4, <1>6, <2>1, <2>5 DEF last, ProcessMeterReader
  <1> QED
    BY <1>5, <1>6

\* Of which report of R a state knows the counter.
LastFrom(lines, s, R) == s.lastcounter # Null => \E j \in R : s.lastcounter = lines[j].counter

\* One report more in between never lowers the counter.
LEMMA OneMore ==
    ASSUME LogTyped, RestartsGoBack, NEW n, NEW p \in ReportsOf(n), NEW a \in ReportsOf(n), p < a,
           NEW s \in NodeStates, NEW t \in NodeStates, t = ProcessMeterReader(s, log[p]),
           NEW R \in SUBSET ReportsOf(n), LastFrom(log, s, R), \A j \in R : j < p
    PROVE  After(s, log[a]) <= After(t, log[a])
  <1>1. /\ p \in Reports /\ a \in Reports /\ log[p].node = n /\ log[a].node = n
        /\ log[p] \in Lines /\ log[a] \in Lines
    BY ReportFacts DEF ReportsOf
  <1> DEFINE c == log[p].counter
             d == log[a].counter
             r == s.realcounter
             l == s.lastcounter
  <1>2. c \in Nat /\ d \in Nat /\ r \in Nat /\ log[p].ping_id \in Nat /\ log[a].ping_id \in Nat
    BY <1>1, LineFields, AfterIs
  <1>3. t.lastcounter = c /\ t.lastcounter # Null /\ t.realcounter = After(s, log[p])
    BY <1>1, AfterIs DEF After
  <1>4. After(t, log[a]) = After(s, log[p]) + StepTo(c, log[a])
    BY <1>1, <1>3, AfterIs
  <1>5. log[a].ping_id = 1 => d <= c + 1
    BY <1>1 DEF RestartsGoBack
  <1>6. CASE l = Null
    <2>1. After(s, log[a]) = d /\ After(s, log[p]) = c
      BY <1>1, <1>6, AfterIs
    <2>2. StepTo(c, log[a]) = IF log[a].ping_id = 1 \/ d < c THEN 1 ELSE d - c
      BY DEF StepTo
    <2> HIDE DEF c, d
    <2> QED
      BY <1>2, <1>4, <1>5, <2>1, <2>2
  <1>7. CASE l # Null
    <2>1. /\ l \in Nat /\ After(s, log[a]) = r + StepTo(l, log[a])
          /\ After(s, log[p]) = r + StepTo(l, log[p])
      BY <1>1, <1>7, AfterIs
    <2>2. log[p].ping_id = 1 => c <= l + 1
      <3>1. PICK j \in R : l = log[j].counter
        BY <1>7 DEF LastFrom
      <3> QED
        BY <1>1, <3>1 DEF RestartsGoBack, ReportsOf
    <2>3. /\ StepTo(l, log[a]) = IF log[a].ping_id = 1 \/ d < l THEN 1 ELSE d - l
          /\ StepTo(l, log[p]) = IF log[p].ping_id = 1 \/ c < l THEN 1 ELSE c - l
          /\ StepTo(c, log[a]) = IF log[a].ping_id = 1 \/ d < c THEN 1 ELSE d - c
      BY DEF StepTo
    <2> DEFINE x == StepTo(l, log[a])
               y == StepTo(l, log[p])
               z == StepTo(c, log[a])
    <2>4. x <= y + z /\ x \in Nat /\ y \in Nat /\ z \in Nat
      <3> HIDE DEF c, d, l
      <3> QED
        BY <1>2, <2>1, <2>2, <2>3
    <2> HIDE DEF x, y, z
    <2>5. After(s, log[a]) = r + x /\ After(t, log[a]) = (r + y) + z
      BY <1>4, <2>1 DEF x, y, z
    <2> HIDE DEF r
    <2> QED
      BY <1>2, <2>4, <2>5
  <1> QED
    BY <1>6, <1>7

\* A chain: the reports A that a run has counted, with the counter after each.
Chain(lines, A, val) ==
    \A a, c \in A : a < c /\ (\A b \in A : b <= a \/ c <= b)
        => val[c] <= val[a] + StepTo(lines[a].counter, lines[c])

\* A state that has passed P does not fall below the chain A: it is not below
\* what it has passed, nor will it be after the next report of the chain.
Above(lines, s, P, A, val) ==
    /\ \A a \in A : a \in P => val[a] <= s.realcounter
    /\ \A a \in A : a \notin P /\ (\A b \in A : b < a => b \in P) => val[a] <= After(s, lines[a])

\* Only what is passed of the chain matters.
LEMMA AboveSame ==
    ASSUME NEW lines, NEW s, NEW P, NEW Q, NEW A, NEW val, \A a \in A : a \in P <=> a \in Q,
           Above(lines, s, P, A, val)
    PROVE  Above(lines, s, Q, A, val)
  BY Zenon DEF Above

\* Counting a report, of the chain or not, keeps a state above the chain.
LEMMA AboveMoves ==
    ASSUME LogTyped, RestartsGoBack, NEW n, NEW p \in ReportsOf(n),
           NEW s \in NodeStates, NEW t \in NodeStates, t = ProcessMeterReader(s, log[p]),
           NEW P, \A i \in ReportsOf(n) : i \in P <=> i < p,
           NEW Q, \A i \in ReportsOf(n) : i \in Q <=> i <= p,
           NEW A \in SUBSET ReportsOf(n), NEW val \in [Reports -> Nat],
           LastFrom(log, s, ReportsOf(n) \cap P), Chain(log, A, val), Above(log, s, P, A, val)
    PROVE  Above(log, t, Q, A, val)
  <1>1. /\ p \in Int /\ \A i \in ReportsOf(n) : i \in Int /\ i \in Reports /\ log[i] \in Lines
        /\ \A a \in A : val[a] \in Nat
    BY ReportFacts DEF ReportsOf, Indices
  <1>2. /\ t.realcounter = After(s, log[p]) /\ After(s, log[p]) \in Nat
        /\ s.realcounter <= After(s, log[p]) /\ s.realcounter \in Nat
    BY <1>1, AfterIs DEF After
  <1>3. ASSUME NEW a \in A, a \in Q PROVE val[a] <= t.realcounter
    <2>1. CASE a = p
      <3>1. a \notin P /\ \A b \in A : b < a => b \in P
        BY <1>1, <2>1
      <3> QED
        BY <1>2, <2>1, <3>1 DEF Above
    <2>2. CASE a # p
      <3>1. a \in P
        BY <1>1, <1>3, <2>2
      <3>2. val[a] <= s.realcounter
        BY <3>1 DEF Above
      <3> QED
        BY <1>1, <1>2, <3>2
    <2> QED
      BY <2>1, <2>2
  <1>4. ASSUME NEW a \in A, a \notin Q, \A b \in A : b < a => b \in Q
        PROVE  val[a] <= After(t, log[a])
    <2>1. p < a /\ a \in ReportsOf(n) /\ a \notin P /\ log[a] \in Lines
      BY <1>1, <1>4
    <2>2. CASE p \in A
      <3>1. \A b \in A : b <= p \/ a <= b
        BY <1>1, <1>4, <2>1
      <3>2. val[a] <= val[p] + StepTo(log[p].counter, log[a])
        BY <2>1, <2>2, <3>1 DEF Chain
      <3>3. val[p] <= t.realcounter
        BY <1>1, <1>3, <2>2
      <3>4. After(t, log[a]) = t.realcounter + StepTo(log[p].counter, log[a])
        BY <1>1, <2>1, AfterIs
      <3>5. StepTo(log[p].counter, log[a]) \in Nat
        BY <1>1, <2>1, LineFields
      <3>6. val[a] \in Nat /\ val[p] \in Nat /\ t.realcounter \in Nat
        BY <1>1, <1>2, <2>2
      <3> QED
        BY <3>2, <3>3, <3>4, <3>5, <3>6
    <2>3. CASE p \notin A
      <3>1. \A b \in A : b < a => b \in P
        BY <1>1, <1>4, <2>3
      <3>2. val[a] <= After(s, log[a])
        BY <2>1, <3>1 DEF Above
      <3>3. After(s, log[a]) <= After(t, log[a])
        <4>1. \A j \in ReportsOf(n) \cap P : j < p
          OBVIOUS
        <4> QED
          BY <2>1, <4>1, OneMore
      <3>4. val[a] \in Nat /\ After(s, log[a]) \in Nat /\ After(t, log[a]) \in Nat
        BY <1>1, <2>1, AfterIs
      <3> QED
        BY <3>2, <3>3, <3>4
    <2> QED
      BY <2>2, <2>3
  <1> QED
    BY <1>3, <1>4 DEF Above

\* From state h, counting the chain A leads to state s.
ChainEnds(lines, h, s, A, val) ==
    /\ \A a \in A : val[a] <= s.realcounter
    /\ A = {} => s = h
    /\ A # {} => \E l \in A : /\ \A a \in A : a <= l
                              /\ val[l] = s.realcounter /\ lines[l].counter = s.lastcounter

\* What the history counts as processed, and what the run has passed.
Passes == {i \in Reports : Passed(i)}
RunPasses == {i \in Reports : RunPassed(i)}

\* A chain of node n that the history does not fall below.  Its lines are in the
\* copies for good, so that every later run meets them.
ChainOf(n, A, val) ==
    /\ A \in SUBSET ReportsOf(n) /\ val \in [Reports -> Nat]
    /\ \A a \in A : InCopy(a)
    /\ Chain(log, A, val)
    /\ Above(log, history.node_state[n], Passes, A, val)

\* The chain that gave the last point.
LastChain(n, A, val) ==
    /\ ChainOf(n, A, val)
    /\ run # Null => Above(log, run.history.node_state[n], RunPasses, A, val)
    /\ \E l \in A : log[l].ts = Last(rrd[n]).ts /\ val[l] = Last(rrd[n]).value

\* The chain of this run, which begins where the history ends.
RunChain(n, A, val) ==
    /\ ChainOf(n, A, val)
    /\ A \subseteq RunPasses \ Passes
    /\ ChainEnds(log, history.node_state[n], run.history.node_state[n], A, val)
    /\ run.update_queue[n] # Null =>
          /\ run.update_queue[n] = run.history.node_state[n].realcounter
          /\ \E l \in A : log[l].ts = run.update_ts /\ val[l] = run.update_queue[n]

Ordered(n) ==
    \A k \in 2 .. Len(rrd[n]) :
        rrd[n][k - 1].ts < rrd[n][k].ts /\ rrd[n][k - 1].value <= rrd[n][k].value

SeriesOf(n) ==
    /\ Ordered(n)
    /\ LastFrom(log, history.node_state[n], ReportsOf(n) \cap Passes)
    /\ run # Null => LastFrom(log, run.history.node_state[n], ReportsOf(n) \cap RunPasses)
    /\ rrd[n] # <<>> => \E A, val : LastChain(n, A, val)
    /\ run # Null => \E A, val : RunChain(n, A, val)

SeriesInv ==
    /\ run # Null => Passes \subseteq RunPasses
    /\ RestartsGoBack => \A n \in Nodes : SeriesOf(n)

LEMMA SeriesInit == Init => SeriesInv
  <1> SUFFICES ASSUME Init PROVE SeriesInv
    OBVIOUS
  <1>1. run = Null /\ \A n \in Nodes : rrd[n] = <<>> /\ history.node_state[n].lastcounter = Null
    BY DEF Init, History, NodeState
  <1> QED
    BY <1>1 DEF SeriesInv, SeriesOf, Ordered, LastFrom

\* A step that leaves the run alone.
LEMMA SeriesStays ==
    ASSUME FileInv, SeriesInv, UNCHANGED <<log, history, run, rrd>>,
           \A i \in Reports : InCopy(i) => InCopy(i)'
    PROVE  SeriesInv'
  <1>1. /\ Reports' = Reports /\ Passes' = Passes /\ RunPasses' = RunPasses
        /\ \A n : ReportsOf(n)' = ReportsOf(n)
        /\ RestartsGoBack' <=> RestartsGoBack
    BY DEF Reports, Passes, RunPasses, Passed, RunPassed, Place, FirstOf, File, ReportsOf, RestartsGoBack
  <1>2. ASSUME NEW n \in Nodes, NEW A, NEW val, ChainOf(n, A, val) PROVE ChainOf(n, A, val)'
    BY <1>1, <1>2 DEF ChainOf, ReportsOf
  <1>3. ASSUME NEW n \in Nodes, NEW A, NEW val, LastChain(n, A, val) PROVE LastChain(n, A, val)'
    BY <1>1, <1>2, <1>3 DEF LastChain
  <1>4. ASSUME NEW n \in Nodes, NEW A, NEW val, RunChain(n, A, val) PROVE RunChain(n, A, val)'
    BY <1>1, <1>2, <1>4 DEF RunChain
  <1>5. ASSUME NEW n \in Nodes, SeriesOf(n) PROVE SeriesOf(n)'
    BY <1>1, <1>3, <1>4, <1>5 DEF SeriesOf, Ordered
  <1> QED
    BY <1>1, <1>5 DEF SeriesInv

\* A move of the run that counts no report of node n, and adds no point of it.
LEMMA NodeStays ==
    ASSUME UNCHANGED <<log, copy, history>>, NEW n \in Nodes, rrd'[n] = rrd[n], run # Null,
           run'.history.node_state[n] = run.history.node_state[n],
           run'.update_queue[n] # Null =>
              run'.update_queue[n] = run.update_queue[n] /\ run'.update_ts = run.update_ts,
           \A i \in Reports : RunPassed(i) => RunPassed(i)',
           \A i \in ReportsOf(n) : InCopy(i) /\ RunPassed(i)' => RunPassed(i),
           SeriesOf(n)
    PROVE  SeriesOf(n)'
  <1>1. /\ Reports' = Reports /\ Passes' = Passes /\ RunPasses \subseteq RunPasses'
        /\ ReportsOf(n)' = ReportsOf(n) /\ ReportsOf(n) \subseteq Reports
        /\ \A i \in Reports : (InCopy(i)' <=> InCopy(i)) /\ (i \in RunPasses <=> RunPassed(i))
                              /\ (i \in RunPasses' <=> RunPassed(i)')
    BY DEF Reports, Passes, RunPasses, Passed, FirstOf, ReportsOf, InCopy
  <1>2. ASSUME NEW A, NEW val, ChainOf(n, A, val)
        PROVE  /\ ChainOf(n, A, val)' /\ A \in SUBSET ReportsOf(n)
               /\ \A a \in A : a \in RunPasses <=> a \in RunPasses'
    <2>1. A \in SUBSET ReportsOf(n) /\ \A a \in A : InCopy(a)
      BY <1>2 DEF ChainOf
    <2>2. ChainOf(n, A, val)'
      BY <1>1, <1>2 DEF ChainOf, ReportsOf
    <2> QED
      BY <1>1, <2>1, <2>2
  <1>3. ASSUME NEW A, NEW val, LastChain(n, A, val) PROVE LastChain(n, A, val)'
    <2>1. ChainOf(n, A, val)' /\ \A a \in A : a \in RunPasses <=> a \in RunPasses'
      BY <1>2, <1>3 DEF LastChain
    <2>2. Above(log, run.history.node_state[n], RunPasses, A, val)
      BY <1>3 DEF LastChain
    <2>3. Above(log, run.history.node_state[n], RunPasses', A, val)
      BY <2>1, <2>2, AboveSame
    <2> QED
      BY <1>3, <2>1, <2>3 DEF LastChain
  <1>4. ASSUME NEW A, NEW val, RunChain(n, A, val) PROVE RunChain(n, A, val)'
    <2>1. ChainOf(n, A, val)'
      BY <1>2, <1>4 DEF RunChain
    <2> QED
      BY <1>1, <1>4, <2>1 DEF RunChain
  <1>5. LastFrom(log, run.history.node_state[n], ReportsOf(n) \cap RunPasses)
        => LastFrom(log, run.history.node_state[n], ReportsOf(n) \cap RunPasses')
    BY <1>1 DEF LastFrom
  <1> QED
    BY <1>1, <1>3, <1>4, <1>5 DEF SeriesOf, Ordered

\* The run goes on, and its state changes for no node.
LEMMA RunStays ==
    ASSUME SeriesInv, UNCHANGED <<log, copy, history, rrd>>, run # Null,
           run'.history.node_state = run.history.node_state,
           run'.update_queue = run.update_queue, run'.update_ts = run.update_ts,
           \A i \in Reports : RunPassed(i) => RunPassed(i)',
           \A i \in Reports : InCopy(i) /\ RunPassed(i)' => RunPassed(i)
    PROVE  SeriesInv'
  <1>1. \A n \in Nodes : SeriesOf(n) => SeriesOf(n)'
    <2> SUFFICES ASSUME NEW n \in Nodes, SeriesOf(n) PROVE SeriesOf(n)'
      OBVIOUS
    <2>1. \A i \in ReportsOf(n) : i \in Reports
      BY DEF ReportsOf
    <2> QED
      BY <2>1, NodeStays
  <1>2. RestartsGoBack' <=> RestartsGoBack
    BY DEF RestartsGoBack, Reports
  <1>3. Passes' = Passes /\ RunPasses \subseteq RunPasses'
    BY DEF Passes, Passed, Reports, RunPasses, FirstOf
  <1> QED
    BY <1>1, <1>2, <1>3 DEF SeriesInv

LEMMA SeriesNextFile ==
    ASSUME FileInv, RunInv, SeriesInv, NextFile
    PROVE  SeriesInv'
  <1>1. /\ UNCHANGED <<log, copy, history, rrd>> /\ run # Null
        /\ run'.update_queue = run.update_queue /\ run'.update_ts = run.update_ts
        /\ run'.history.node_state = run.history.node_state
        /\ \A i \in Reports : RunPassed(i) => RunPassed(i)'
        /\ \A i \in Reports : InCopy(i) /\ RunPassed(i)' => RunPassed(i)
    BY NextFileMoves
  <1> QED
    BY <1>1, RunStays

LEMMA SeriesSkip ==
    ASSUME FileInv, RunInv, SeriesInv, SkipLine
    PROVE  SeriesInv'
  <1>1. /\ UNCHANGED <<log, copy, history, rrd>> /\ run # Null
        /\ run'.update_queue = run.update_queue /\ run'.update_ts = run.update_ts
        /\ run'.history.node_state = run.history.node_state
        /\ \A i \in Reports : RunPassed(i) => RunPassed(i)'
        /\ \A i \in Reports : InCopy(i) /\ RunPassed(i)' => RunPassed(i)
    BY SkipMoves
  <1> QED
    BY <1>1, RunStays

LEMMA SeriesStart ==
    ASSUME FileInv, RunInv, SeriesInv, Start
    PROVE  SeriesInv'
  <1>1. /\ run' = [history |-> history, next |-> history.current_file_lineno + 1,
                   update_queue |-> NoUpdates, update_ts |-> 0]
        /\ UNCHANGED <<log, copy, history, rrd>> /\ run = Null
    BY DEF Start
  <1>2. /\ File' = history.current_file /\ run'.next = history.current_file_lineno + 1
        /\ run'.history = history /\ \A n \in Nodes : run'.update_queue[n] = Null
    BY <1>1 DEF File, NoUpdates
  <1>3. ASSUME NEW i \in Reports PROVE RunPassed(i)' <=> Passed(i)
    BY StartMoves
  <1>4. /\ Reports' = Reports /\ Passes' = Passes /\ RunPasses' = Passes
        /\ RestartsGoBack' <=> RestartsGoBack
    BY <1>1, <1>3 DEF Reports, Passes, RunPasses, Passed, FirstOf, RestartsGoBack
  <1>5. ASSUME NEW n \in Nodes, SeriesOf(n) PROVE SeriesOf(n)'
    <2>1. ReportsOf(n)' = ReportsOf(n) /\ \A i \in Reports : InCopy(i)' <=> InCopy(i)
      BY <1>1, <1>4 DEF ReportsOf, InCopy, FirstOf
    <2>2. ASSUME NEW A, NEW val, ChainOf(n, A, val) PROVE ChainOf(n, A, val)'
      BY <1>1, <1>4, <2>1, <2>2 DEF ChainOf, ReportsOf
    <2>3. ASSUME NEW A, NEW val, LastChain(n, A, val) PROVE LastChain(n, A, val)'
      <3>1. Above(log, history.node_state[n], Passes, A, val)
        BY <2>3 DEF LastChain, ChainOf
      <3> QED
        BY <1>1, <1>2, <1>4, <2>2, <2>3, <3>1 DEF LastChain
    <2> PICK zero : zero = [i \in Reports |-> 0]
      OBVIOUS
    <2>4. ChainOf(n, {}, zero)'
      <3>1. {} \in SUBSET ReportsOf(n) /\ zero \in [Reports -> Nat]
        OBVIOUS
      <3>2. Chain(log', {}, zero) /\ Above(log', history'.node_state[n], Passes', {}, zero)
        BY DEF Chain, Above
      <3>3. ChainOf(n, {}, zero)
        BY <1>1, <1>4, <3>1, <3>2 DEF ChainOf
      <3> QED
        BY <2>2, <3>3
    <2>5. RunChain(n, {}, zero)'
      <3>1. run'.history.node_state[n] = history'.node_state[n] /\ run'.update_queue[n] = Null
        BY <1>1, <1>2
      <3> QED
        BY <2>4, <3>1 DEF RunChain, ChainEnds
    <2> QED
      BY <1>1, <1>2, <1>4, <1>5, <2>1, <2>3, <2>5 DEF SeriesOf, Ordered
  <1> QED
    BY <1>4, <1>5 DEF SeriesInv

LEMMA SeriesCrash ==
    ASSUME SeriesInv, Crash
    PROVE  SeriesInv'
  <1>1. UNCHANGED <<log, copy, history, rrd>> /\ run' = Null
    BY DEF Crash
  <1>2. /\ Reports' = Reports /\ Passes' = Passes /\ (RestartsGoBack' <=> RestartsGoBack)
        /\ \A n : ReportsOf(n)' = ReportsOf(n)
    BY <1>1 DEF Reports, Passes, Passed, FirstOf, RestartsGoBack, ReportsOf
  <1>3. ASSUME NEW n \in Nodes, SeriesOf(n) PROVE SeriesOf(n)'
    <2>1. \A i \in Reports : InCopy(i)' <=> InCopy(i)
      BY <1>1 DEF InCopy, FirstOf
    <2>2. ASSUME NEW A, NEW val, LastChain(n, A, val) PROVE LastChain(n, A, val)'
      <3>1. ChainOf(n, A, val)'
        BY <1>1, <1>2, <2>1, <2>2 DEF LastChain, ChainOf, ReportsOf
      <3> QED
        BY <1>1, <2>2, <3>1 DEF LastChain
    <2> QED
      BY <1>1, <1>2, <1>3, <2>2 DEF SeriesOf, Ordered
  <1> QED
    BY <1>1, <1>2, <1>3 DEF SeriesInv

LEMMA SeriesSave ==
    ASSUME FileInv, RunInv, SeriesInv, SaveHistory
    PROVE  SeriesInv'
  <1>1. /\ UNCHANGED <<log, copy, rrd>> /\ history' = run.history /\ run' = Null /\ run # Null
        /\ AtEnd /\ run \in Runs /\ run.next \in Nat
    BY DEF SaveHistory, AtEnd, RunInv, Runs
  <1>2. ASSUME NEW i \in Reports PROVE Passed(i)' <=> RunPassed(i)
    BY SaveMoves
  <1>3. /\ Reports' = Reports /\ Passes' = RunPasses /\ (RestartsGoBack' <=> RestartsGoBack)
        /\ \A n : ReportsOf(n)' = ReportsOf(n)
    BY <1>1, <1>2 DEF Reports, Passes, RunPasses, RestartsGoBack, ReportsOf
  <1>4. ASSUME NEW n \in Nodes, SeriesOf(n) PROVE SeriesOf(n)'
    <2>1. \A i \in Reports : InCopy(i)' <=> InCopy(i)
      BY <1>1 DEF InCopy, FirstOf
    <2>2. ASSUME NEW A, NEW val, LastChain(n, A, val) PROVE LastChain(n, A, val)'
      <3>1. Above(log, run.history.node_state[n], RunPasses, A, val)
        BY <1>1, <2>2 DEF LastChain
      <3>2. ChainOf(n, A, val)'
        BY <1>1, <1>3, <2>1, <2>2, <3>1 DEF LastChain, ChainOf, ReportsOf
      <3> QED
        BY <1>1, <2>2, <3>2 DEF LastChain
    <2>3. LastFrom(log, run.history.node_state[n], ReportsOf(n) \cap RunPasses)
      BY <1>1, <1>4 DEF SeriesOf
    <2> QED
      BY <1>1, <1>3, <1>4, <2>2, <2>3 DEF SeriesOf, Ordered
  <1> QED
    BY <1>1, <1>3, <1>4 DEF SeriesInv

\* A point that is added begins the last chain anew, with that of the run.
LEMMA FlushedChain ==
    ASSUME RunInv, NEW n \in Nodes, FlushUpdate(n), NEW A, NEW val, RunChain(n, A, val),
           rrd'[n] # <<>>, Last(rrd'[n]) = [ts |-> run.update_ts, value |-> run.update_queue[n]]
    PROVE  LastChain(n, A, val)'
  <1>1. /\ UNCHANGED <<log, copy, history>> /\ run # Null /\ run \in Runs /\ run.update_queue[n] # Null
    BY DEF FlushUpdate, FlushDue, RunInv
  <1>2. run'.history = run.history /\ run'.next = run.next /\ File' = File
    BY <1>1, FlushedRun DEF RunAt, File
  <1>3. /\ Reports' = Reports /\ Passes' = Passes /\ RunPasses' = RunPasses
        /\ ReportsOf(n)' = ReportsOf(n) /\ \A i \in Reports : InCopy(i)' <=> InCopy(i)
    BY <1>1, <1>2 DEF Reports, Passes, RunPasses, Passed, RunPassed, Place, FirstOf, ReportsOf, InCopy
  <1>4. ChainOf(n, A, val)'
    BY <1>1, <1>3 DEF RunChain, ChainOf, ReportsOf
  <1>5. Above(log, run.history.node_state[n], RunPasses, A, val)
    BY DEF RunChain, ChainEnds, Above
  <1>6. \E l \in A : log[l].ts = Last(rrd'[n]).ts /\ val[l] = Last(rrd'[n]).value
    BY <1>1 DEF RunChain
  <1> QED
    BY <1>1, <1>2, <1>3, <1>4, <1>5, <1>6 DEF LastChain

\* The last point is not above what a flush adds.
LEMMA FlushIsAbove ==
    ASSUME FileInv, RunInv, RestartsGoBack, NEW n \in Nodes, SeriesOf(n), run # Null,
           run.update_queue[n] # Null, rrd[n] # <<>>, Last(rrd[n]).ts < run.update_ts,
           Last(rrd[n]).value \in Nat
    PROVE  Last(rrd[n]).value <= run.update_queue[n]
  <1>1. PICK A, val : RunChain(n, A, val)
    BY DEF SeriesOf
  <1>2. PICK B, old : LastChain(n, B, old)
    BY DEF SeriesOf
  <1>3. PICK c \in A : log[c].ts = run.update_ts
    BY <1>1 DEF RunChain
  <1>4. PICK l \in B : log[l].ts = Last(rrd[n]).ts /\ old[l] = Last(rrd[n]).value
    BY <1>2 DEF LastChain
  <1>5. c \in Reports /\ RunPassed(c) /\ l \in Reports
    BY <1>1, <1>2 DEF RunChain, LastChain, ChainOf, RunPasses, ReportsOf
  <1>6. l \in RunPasses
    BY <1>3, <1>4, <1>5, EarlierPassed DEF RunPasses
  <1>7. old[l] <= run.history.node_state[n].realcounter
    BY <1>2, <1>6 DEF LastChain, Above
  <1>8. run.update_queue[n] = run.history.node_state[n].realcounter
    BY <1>1 DEF RunChain
  <1> QED
    BY <1>4, <1>7, <1>8

LEMMA SeriesFlush ==
    ASSUME FileInv, RunInv, SeriesInv, NEW n \in Nodes, FlushUpdate(n)
    PROVE  SeriesInv'
  <1> DEFINE L == Len(rrd[n])
             point == [ts |-> run.update_ts, value |-> run.update_queue[n]]
  <1>1. /\ UNCHANGED <<log, copy, history>> /\ run # Null /\ run \in Runs /\ run.update_queue[n] # Null
    BY DEF FlushUpdate, FlushDue, RunInv
  <1>2. /\ run'.history = run.history /\ run'.next = run.next /\ File' = File
        /\ run'.update_ts = run.update_ts
        /\ \A m \in Nodes : run'.update_queue[m] = IF m = n THEN Null ELSE run.update_queue[m]
    BY <1>1, FlushedRun DEF RunAt, File, Runs
  <1>3. /\ Reports' = Reports /\ Passes' = Passes /\ RunPasses' = RunPasses
        /\ (RestartsGoBack' <=> RestartsGoBack)
        /\ \A i \in Reports : (InCopy(i)' <=> InCopy(i)) /\ (RunPassed(i)' <=> RunPassed(i))
        /\ \A m : ReportsOf(m)' = ReportsOf(m) /\ ReportsOf(m) \subseteq Reports
    BY <1>1, <1>2 DEF Reports, Passes, RunPasses, Passed, RunPassed, Place, FirstOf, ReportsOf,
                      InCopy, RestartsGoBack
  <1>4. ASSUME NEW m \in Nodes, rrd'[m] = rrd[m], SeriesOf(m) PROVE SeriesOf(m)'
    <2>1. /\ \A i \in Reports : RunPassed(i) => RunPassed(i)'
          /\ \A i \in ReportsOf(m) : InCopy(i) /\ RunPassed(i)' => RunPassed(i)
      BY <1>3
    <2>2. run'.update_queue[m] # Null =>
             run'.update_queue[m] = run.update_queue[m] /\ run'.update_ts = run.update_ts
      BY <1>2
    <2> QED
      BY <1>1, <1>2, <1>4, <2>1, <2>2, NodeStays
  <1>5. ASSUME RestartsGoBack, SeriesOf(n), L \in Nat, Len(rrd'[n]) = L + 1,
               \A k \in 1 .. L : rrd'[n][k] = rrd[n][k], rrd'[n][L + 1] = point,
               L > 0 => rrd[n][L].ts < run.update_ts
        PROVE  SeriesOf(n)'
    <2>1. rrd'[n] # <<>> /\ Last(rrd'[n]) = point
      <3>1. rrd' \in [Nodes -> Seq(Points)]
        <4>1. Next
          BY DEF Next, ProcessFiles
        <4> QED
          BY <4>1, RunNext DEF RunInv
      <3>2. Len(<<>>) = 0
        OBVIOUS
      <3> QED
        BY <1>5, <3>1, <3>2 DEF Last
    <2>2. PICK A, val : RunChain(n, A, val)
      BY <1>1, <1>5 DEF SeriesOf
    <2>3. LastChain(n, A, val)'
      BY <2>1, <2>2, FlushedChain
    <2>4. RunChain(n, A, val)'
      <3>1. ChainOf(n, A, val)'
        BY <2>3 DEF LastChain
      <3> QED
        BY <1>1, <1>2, <1>3, <2>2, <3>1 DEF RunChain
    <2>5. ASSUME L > 0 PROVE rrd[n][L].ts < run.update_ts /\ rrd[n][L].value <= run.update_queue[n]
      <3>1. rrd[n] \in Seq(Points)
        BY DEF RunInv
      <3>2. L \in 1 .. L
        BY <1>5, <2>5
      <3>3. rrd[n][L] \in Points
        BY <3>1, <3>2
      <3>4. rrd[n] # <<>> /\ Last(rrd[n]) = rrd[n][L]
        BY <2>5, <3>1 DEF Last
      <3>5. rrd[n][L].value \in Nat
        BY <3>3 DEF Points
      <3> QED
        BY <1>1, <1>5, <2>5, <3>4, <3>5, FlushIsAbove
    <2>6. Ordered(n)'
      <3> SUFFICES ASSUME NEW k \in 2 .. L + 1
                   PROVE  rrd'[n][k - 1].ts < rrd'[n][k].ts /\ rrd'[n][k - 1].value <= rrd'[n][k].value
        BY <1>5 DEF Ordered
      <3>1. CASE k \in 2 .. L
        <4>1. k - 1 \in 1 .. L /\ k \in 1 .. L
          BY <1>5, <3>1
        <4>2. rrd'[n][k - 1] = rrd[n][k - 1] /\ rrd'[n][k] = rrd[n][k]
          BY <1>5, <4>1
        <4>3. rrd[n][k - 1].ts < rrd[n][k].ts /\ rrd[n][k - 1].value <= rrd[n][k].value
          BY <1>5, <3>1 DEF SeriesOf, Ordered
        <4> QED
          BY <4>2, <4>3
      <3>2. CASE k = L + 1
        <4>1. L > 0 /\ k - 1 = L /\ L \in 1 .. L
          BY <1>5, <3>2
        <4>2. rrd'[n][k - 1] = rrd[n][L] /\ rrd'[n][k] = point
          BY <1>5, <3>2, <4>1
        <4>3. point.ts = run.update_ts /\ point.value = run.update_queue[n]
          OBVIOUS
        <4> QED
          BY <2>5, <4>1, <4>2, <4>3
      <3> QED
        BY <1>5, <3>1, <3>2
    <2>7. LastFrom(log, history.node_state[n], ReportsOf(n) \cap Passes)
          /\ LastFrom(log, run.history.node_state[n], ReportsOf(n) \cap RunPasses)
      BY <1>1, <1>5 DEF SeriesOf
    <2> QED
      BY <1>1, <1>2, <1>3, <2>3, <2>4, <2>6, <2>7 DEF SeriesOf
  <1>6. ASSUME RestartsGoBack, \A m \in Nodes : SeriesOf(m), NEW m \in Nodes PROVE SeriesOf(m)'
    <2>1. CASE UNCHANGED rrd
      BY <1>4, <1>6, <2>1
    <2>2. CASE ~UNCHANGED rrd /\ m # n
      BY <1>4, <1>6, <2>2, FlushPoints
    <2>3. CASE ~UNCHANGED rrd /\ m = n
      BY <1>5, <1>6, <2>3, FlushPoints
    <2> QED
      BY <2>1, <2>2, <2>3
  <1> QED
    BY <1>1, <1>3, <1>6 DEF SeriesInv

\* The chain of a run gets longer by the line that is counted.
LEMMA ChainGrows ==
    ASSUME LogTyped, NEW n, NEW p \in ReportsOf(n), NEW s \in NodeStates, NEW h, NEW D, p \notin D,
           NEW A \in SUBSET ReportsOf(n), NEW val \in [Reports -> Nat],
           \A a \in A : a < p /\ a \notin D, ChainEnds(log, h, s, A, val),
           Chain(log, A, val), Above(log, h, D, A, val),
           NEW new \in [Reports -> Nat], new[p] = After(s, log[p]), \A a \in A : new[a] = val[a]
    PROVE  /\ \A a \in A : new[a] <= new[p]
           /\ Chain(log, A \cup {p}, new) /\ Above(log, h, D, A \cup {p}, new)
  <1>0. /\ \A a \in A : val[a] <= s.realcounter
        /\ A = {} => s = h
        /\ A # {} => \E l \in A : /\ \A a \in A : a <= l
                                  /\ val[l] = s.realcounter /\ log[l].counter = s.lastcounter
    BY DEF ChainEnds
  <1>1. /\ p \in Int /\ p \in Reports /\ log[p] \in Lines
        /\ \A i \in A : i \in Int /\ i \in Reports /\ log[i].counter \in Nat /\ val[i] \in Nat
    <2>1. /\ p \in Reports /\ \A i \in A : i \in Reports /\ val[i] \in Nat
          /\ Reports \subseteq Int
      BY DEF ReportsOf, Reports
    <2> QED
      BY <2>1, ReportFacts, LineFields
  <1>2. After(s, log[p]) \in Nat /\ s.realcounter \in Nat /\ s.realcounter <= After(s, log[p])
    BY <1>1, AfterIs
  <1>3. new[p] = After(s, log[p]) /\ \A a \in A : new[a] = val[a]
    OBVIOUS
  <1>4. \A a \in A : new[a] <= new[p]
    BY <1>0, <1>1, <1>2, <1>3
  <1>5. ASSUME NEW a \in A \cup {p}, NEW c \in A \cup {p}, a < c,
               \A b \in A \cup {p} : b <= a \/ c <= b
        PROVE  new[c] <= new[a] + StepTo(log[a].counter, log[c])
    <2>1. a \in A
      BY <1>1, <1>5
    <2>2. CASE c = p
      <3>1. PICK l \in A : /\ \A b \in A : b <= l
                           /\ val[l] = s.realcounter /\ log[l].counter = s.lastcounter
        BY <1>0, <2>1
      <3>2. l = a
        <4>1. l <= a \/ p <= l
          BY <1>5, <2>2
        <4>2. a <= l /\ l < p
          BY <2>1, <3>1
        <4> QED
          BY <1>1, <2>1, <4>1, <4>2
      <3>3. s.lastcounter # Null
        BY <1>1, <3>1, LogUpdaterAssumption
      <3>4. After(s, log[p]) = s.realcounter + StepTo(s.lastcounter, log[p])
        BY <1>1, <3>3, AfterIs
      <3> QED
        BY <1>2, <1>3, <2>2, <3>1, <3>2, <3>4
    <2>3. CASE c \in A
      <3>1. val[c] <= val[a] + StepTo(log[a].counter, log[c])
        BY <1>5, <2>1, <2>3 DEF Chain
      <3> QED
        BY <1>3, <2>1, <2>3, <3>1
    <2> QED
      BY <2>2, <2>3
  <1>6. ASSUME NEW a \in A \cup {p}, \A b \in A \cup {p} : b < a => b \in D
        PROVE  new[a] <= After(h, log[a])
    <2>1. CASE A = {}
      BY <1>0, <1>2, <1>3, <2>1
    <2>2. CASE a \in A
      <3>1. val[a] <= After(h, log[a])
        BY <1>6, <2>2 DEF Above
      <3> QED
        BY <1>3, <2>2, <3>1
    <2>3. CASE a = p /\ A # {}
      BY <1>6, <2>3
    <2> QED
      BY <2>1, <2>2, <2>3
  <1>7. Above(log, h, D, A \cup {p}, new)
    BY <1>6 DEF Above
  <1>8. Chain(log, A \cup {p}, new)
    BY <1>5 DEF Chain
  <1> QED
    BY <1>3, <1>4, <1>7, <1>8

LEMMA SeriesReport ==
    ASSUME FileInv, RunInv, SeriesInv, ReportLine
    PROVE  SeriesInv'
  <1> PICK n : n = Line.node
    OBVIOUS
  <1> PICK p : p = FirstOf(File) + run.next
    OBVIOUS
  <1> PICK s : s = run.history.node_state[n]
    OBVIOUS
  <1> PICK t : t = ProcessMeterReader(s, log[p])
    OBVIOUS
  <1>1. /\ UNCHANGED <<log, copy, history, rrd, spoilt>> /\ InFile /\ IsReport
        /\ run # Null /\ run \in Runs /\ Line = log[p]
        /\ \A m \in Nodes : run.update_queue[m] # Null => run.update_ts = log[p].ts
        /\ p \in Reports /\ p \in Indices /\ Place(p) = run.next
        /\ log[p] \in Lines /\ log[p].hour = File /\ log[p].node = n /\ n \in Nodes
        /\ s \in NodeStates /\ t \in NodeStates
        /\ run'.update_ts = log[p].ts
        /\ \A m \in Nodes : run'.history.node_state[m] = IF m = n THEN t
                                                         ELSE run.history.node_state[m]
        /\ \A m \in Nodes : run'.update_queue[m] = IF m = n THEN t.realcounter
                                                   ELSE run.update_queue[m]
        /\ \A i \in Reports : (RunPassed(i) <=> i < p) /\ (RunPassed(i)' <=> i <= p)
    BY ReportMoves
  <1>2. LogTyped
    BY  DEF FileInv
  <1>4. /\ t.realcounter = After(s, log[p]) /\ t.realcounter \in Nat /\ s.realcounter \in Nat
        /\ s.realcounter <= t.realcounter /\ t.lastcounter = log[p].counter
    BY <1>1, <1>2, AfterIs DEF After
  <1>6. /\ Reports' = Reports /\ Passes' = Passes /\ (RestartsGoBack' <=> RestartsGoBack)
        /\ \A i \in Reports : (InCopy(i)' <=> InCopy(i)) /\ (i \in RunPasses <=> RunPassed(i))
                              /\ (i \in RunPasses' <=> RunPassed(i)')
        /\ \A m : ReportsOf(m)' = ReportsOf(m) /\ ReportsOf(m) \subseteq Reports
        /\ Reports \subseteq Int
    BY <1>1 DEF Reports, Passes, Passed, RunPasses, FirstOf, ReportsOf, InCopy, RestartsGoBack
  <1>7. p \in ReportsOf(n) /\ p \in Reports
    BY <1>1, <1>2 DEF ReportsOf, Reports, Indices
  <1>9. ASSUME NEW m \in Nodes, m # n, SeriesOf(m) PROVE SeriesOf(m)'
    <2>1. \A i \in Reports : RunPassed(i) => RunPassed(i)'
      BY <1>6, <1>7, <1>1
    <2>2. ASSUME NEW i \in ReportsOf(m), RunPassed(i)' PROVE RunPassed(i)
      <3>1. i # p /\ i \in Reports /\ i \in Int /\ p \in Int
        BY <1>1, <1>2, <1>6, <1>7, <1>9 DEF ReportsOf
      <3> QED
        BY <1>1, <2>2, <3>1
    <2>3. run'.update_queue[m] # Null =>
             run'.update_queue[m] = run.update_queue[m] /\ run'.update_ts = run.update_ts
      BY <1>1, <1>9
    <2> QED
      BY <1>1, <1>9, <2>1, <2>2, <2>3, NodeStays
  <1>10. /\ \A i \in ReportsOf(n) : i \in RunPasses <=> i < p
         /\ \A i \in ReportsOf(n) : i \in RunPasses' <=> i <= p
    BY <1>6, <1>1
  <1>11. Passes \subseteq RunPasses
    BY <1>1 DEF SeriesInv
  <1>12. ASSUME NEW A, NEW val, ChainOf(n, A, val) PROVE ChainOf(n, A, val)'
    BY <1>1, <1>6, <1>12 DEF ChainOf, ReportsOf
  <1>13. ASSUME RestartsGoBack, SeriesOf(n) PROVE SeriesOf(n)'
    <2>1. LastFrom(log, s, ReportsOf(n) \cap RunPasses)
      BY <1>1, <1>13 DEF SeriesOf
    <2>2. ASSUME NEW A, NEW val, LastChain(n, A, val) PROVE LastChain(n, A, val)'
      <3>1. /\ A \in SUBSET ReportsOf(n) /\ val \in [Reports -> Nat] /\ Chain(log, A, val)
            /\ Above(log, s, RunPasses, A, val)
        BY <1>1, <2>2 DEF LastChain, ChainOf
      <3>2. Above(log, t, RunPasses', A, val)
        <4> PICK P, Q : P = RunPasses /\ Q = RunPasses'
          OBVIOUS
        <4>1. /\ \A i \in ReportsOf(n) : i \in P <=> i < p
              /\ \A i \in ReportsOf(n) : i \in Q <=> i <= p
          BY <1>10
        <4>2. LastFrom(log, s, ReportsOf(n) \cap P) /\ Above(log, s, P, A, val)
          BY <2>1, <3>1
        <4>3. Above(log, t, Q, A, val)
          <5>1. LogTyped /\ p \in ReportsOf(n) /\ s \in NodeStates /\ t \in NodeStates
                /\ t = ProcessMeterReader(s, log[p])
            BY <1>1, <1>2, <1>7
          <5> QED
            BY ONLY <1>13, <3>1, <4>1, <4>2, <5>1, AboveMoves
        <4> QED
          BY <4>3
      <3> QED
        BY <1>1, <1>2, <1>12, <2>2, <3>2 DEF LastChain
    <2>3. PICK A, val : RunChain(n, A, val)
      BY <1>1, <1>13 DEF SeriesOf
    <2> PICK new : new = [val EXCEPT ![p] = After(s, log[p])]
      OBVIOUS
    <2> PICK B : B = A \cup {p}
      OBVIOUS
    <2>4. /\ A \in SUBSET ReportsOf(n) /\ val \in [Reports -> Nat] /\ Chain(log, A, val)
          /\ Above(log, history.node_state[n], Passes, A, val) /\ \A a \in A : InCopy(a)
      BY <2>3 DEF RunChain, ChainOf
    <2>5. p \notin Passes
      <3>1. p \in Int /\ ~(p < p)
        BY <1>6, <1>7
      <3>2. p \notin RunPasses
        BY <1>7, <1>10, <3>1
      <3> QED
        BY <1>11, <3>2
    <2>6. \A a \in A : a < p /\ a \notin Passes
      BY <1>10, <2>3, <2>4 DEF RunChain
    <2>7. ChainEnds(log, history.node_state[n], s, A, val)
      BY <2>3 DEF RunChain
    <2>8. /\ new \in [Reports -> Nat] /\ new[p] = After(s, log[p])
          /\ \A a \in A : new[a] = val[a] /\ new[a] <= new[p]
          /\ Chain(log, B, new) /\ Above(log, history.node_state[n], Passes, B, new)
      <3> PICK h, D : h = history.node_state[n] /\ D = Passes
        OBVIOUS
      <3>1. p \notin D /\ \A a \in A : a < p /\ a \notin D
        BY <2>5, <2>6
      <3>2. Above(log, h, D, A, val) /\ ChainEnds(log, h, s, A, val)
        BY <2>4, <2>7
      <3>3. new \in [Reports -> Nat] /\ new[p] = After(s, log[p]) /\ \A a \in A : new[a] = val[a]
        <4>1. p \in Int /\ \A a \in A : a \in Int /\ a \in Reports
          BY <1>6, <1>7, <2>4
        <4>2. \A a \in A : a # p
          BY <2>6, <4>1
        <4> QED
          BY <1>4, <1>7, <2>4, <4>1, <4>2
      <3>4. /\ \A a \in A : new[a] <= new[p]
            /\ Chain(log, A \cup {p}, new) /\ Above(log, h, D, A \cup {p}, new)
        <4>1. LogTyped /\ p \in ReportsOf(n) /\ s \in NodeStates
          BY <1>1, <1>2, <1>7
        <4> QED
          BY ONLY <2>4, <3>1, <3>2, <3>3, <4>1, ChainGrows
      <3> QED
        BY <3>3, <3>4
    <2>9. InCopy(p)
      <3>1. copy[File] # Null
        BY <1>1 DEF RunInv, InFile
      <3> QED
        BY <1>1, <1>2, <3>1 DEF InCopy, IsReport, Place
    <2>10. ChainOf(n, B, new)'
      <3>1. ChainOf(n, B, new)
        BY <1>7, <2>4, <2>8, <2>9 DEF ChainOf
      <3> QED
        BY <1>12, <3>1
    <2>11. B \subseteq RunPasses' \ Passes'
      <3>1. p \in RunPasses' /\ \A a \in A : a \in RunPasses'
        BY <1>6, <1>7, <1>10, <2>4, <2>6
      <3> QED
        BY <1>6, <2>5, <2>6, <3>1
    <2>12. \A a \in B : new[a] <= new[p] /\ a <= p
      <3>1. p \in Int /\ new[p] \in Nat
        BY <1>6, <1>7, <2>8
      <3>2. \A a \in A : new[a] <= new[p] /\ a <= p
        <4>1. \A a \in A : a \in Int
          BY <1>6, <2>4
        <4> QED
          BY <2>6, <2>8, <3>1, <4>1
      <3> QED
        BY <3>1, <3>2
    <2>13. run'.history.node_state[n] = t /\ run'.update_queue[n] = t.realcounter
           /\ new[p] = t.realcounter /\ p \in B
      <3>1. run'.history.node_state[n] = t /\ run'.update_queue[n] = t.realcounter
        BY <1>1, <1>2
      <3> QED
        BY <1>4, <2>8, <3>1
    <2>14. RunChain(n, B, new)'
      <3>1. ChainEnds(log, history.node_state[n], t, B, new)
        BY <1>4, <2>12, <2>13 DEF ChainEnds
      <3>2. \E l \in B : log'[l].ts = run'.update_ts /\ new[l] = run'.update_queue[n]
        BY <1>1, <2>13
      <3>3. ChainEnds(log', history'.node_state[n], run'.history.node_state[n], B, new)
        BY <1>1, <2>13, <3>1
      <3>4. run'.update_queue[n] = run'.history.node_state[n].realcounter
        BY <2>13
      <3> QED
        BY ONLY <2>10, <2>11, <3>2, <3>3, <3>4 DEF RunChain
    <2>15. LastFrom(log, t, ReportsOf(n) \cap RunPasses')
      <3>1. p \in ReportsOf(n) \cap RunPasses'
        BY <1>6, <1>7, <1>10
      <3> QED
        BY <1>4, <3>1 DEF LastFrom
    <2>16. LastFrom(log, history.node_state[n], ReportsOf(n) \cap Passes)
      BY <1>13 DEF SeriesOf
    <2> QED
      BY <1>1, <1>6, <1>13, <2>2, <2>13, <2>14, <2>15, <2>16 DEF SeriesOf, Ordered
  <1>14. \A i \in Passes' : i \in RunPasses'
    <2> SUFFICES ASSUME NEW i \in Passes PROVE i \in RunPasses'
      BY <1>6
    <2>1. i \in Reports /\ i \in Int /\ p \in Int
      BY <1>6, <1>7 DEF Passes
    <2>2. i < p
      BY <1>6, <1>1, <1>11, <2>1
    <2> QED
      BY <1>6, <1>1, <2>1, <2>2
  <1> QED
    BY <1>6, <1>9, <1>13, <1>14 DEF SeriesInv

LEMMA SeriesNext == FileInv /\ RunInv /\ SeriesInv /\ [Next]_vars => SeriesInv'
  <1> SUFFICES ASSUME FileInv, RunInv, SeriesInv, [Next]_vars PROVE SeriesInv'
    OBVIOUS
  <1>1. CASE Stamp \/ Write \/ NextHour \/ UNCHANGED vars
    <2>1. UNCHANGED <<log, copy, history, run, rrd>>
      BY ONLY <1>1 DEF Stamp, Write, NextHour, vars
    <2>2. \A i \in Reports : InCopy(i) => InCopy(i)'
      BY <2>1 DEF InCopy, FirstOf
    <2> QED
      BY <2>1, <2>2, SeriesStays
  <1>2. ASSUME NEW h \in Hours, Get(h) PROVE SeriesInv'
    <2>1. UNCHANGED <<log, history, run, rrd>>
      BY ONLY <1>2 DEF Get
    <2>2. \A i \in Reports : InCopy(i) => InCopy(i)'
      BY <1>2, CopyGrows DEF Indices, Reports
    <2> QED
      BY <2>1, <2>2, SeriesStays
  <1> QED
    BY <1>1, <1>2, SeriesStart, SeriesNextFile, SeriesSkip, SeriesReport, SeriesFlush, SeriesSave,
       SeriesCrash DEF Next, ProcessFiles

\* The counters of an RRD file never drop, for any logs in which a meter that
\* starts again starts from 0, and wherever runs are killed: what a later run
\* counts for a line is never below what an earlier one did, as it has seen the
\* lines that run counted, and one line more never lowers the counter.
THEOREM CountersNeverDrop == Spec => []SeriesNeverDrops
  <1>1. Init => FileInv /\ RunInv /\ SeriesInv
    BY FileInit, RunInit, SeriesInit
  <1>2. FileInv /\ RunInv /\ SeriesInv /\ [Next]_vars => (FileInv /\ RunInv /\ SeriesInv)'
    BY FileNext, RunNext, SeriesNext
  <1>3. SeriesInv => SeriesNeverDrops
    BY DEF SeriesInv, SeriesOf, Ordered, SeriesNeverDrops
  <1> QED
    BY <1>1, <1>2, <1>3, PTL DEF Spec

-----------------------------------------------------------------------------
(* The points are those of an uninterrupted run *)

\* The state of node n after line j, from the one before it.
Over(n, s, j) == IF log[j].node = n THEN ProcessMeterReader(s, log[j]) ELSE s

\* The least of a set of line numbers.
LEMMA LeastLine ==
    ASSUME NEW N \in Nat, NEW S \in SUBSET (0 .. N), S # {}
    PROVE  \E x \in S : \A y \in S : x <= y
  <1> DEFINE Below(x) == {y \in S : y < x}
             T == {Below(x) : x \in S}
             R == StrictSubsetOrdering(S)
  <1>1. IsFiniteSet(S)
    <2>1. IsFiniteSet(0 .. N)
      BY FS_Interval
    <2> QED
      BY <2>1, FS_Subset
  <1>2. IsWellFoundedOn(R, FiniteSubsetsOf(S))
    BY <1>1, FS_StrictSubsetOrderingWellFounded
  <1>3. T \subseteq FiniteSubsetsOf(S) /\ T # {}
    <2>1. \A x \in S : Below(x) \in FiniteSubsetsOf(S)
      <3> SUFFICES ASSUME NEW x \in S PROVE Below(x) \in FiniteSubsetsOf(S)
        OBVIOUS
      <3> DEFINE b == Below(x)
      <3>1. IsFiniteSet(b) /\ b \in SUBSET S
        BY <1>1, FS_Subset
      <3> HIDE DEF b
      <3>2. b \in FiniteSubsetsOf(S)
        BY <3>1 DEF FiniteSubsetsOf
      <3> QED
        BY <3>2 DEF b
    <2>2. PICK x \in S : TRUE
      OBVIOUS
    <2>3. Below(x) \in T
      BY <2>2
    <2> QED
      BY <2>1, <2>3
  <1> HIDE DEF R
  <1>4. \E m \in T : \A n \in T : ~(<<n, m>> \in R)
    <2> HIDE DEF T
    <2> QED
      BY <1>2, <1>3, WFMin
  <1>5. PICK x \in S : \A n \in T : ~(<<n, Below(x)>> \in R)
    BY <1>4
  <1>6. ASSUME NEW y \in S PROVE x <= y
    <2>1. Below(y) \in T /\ ~(<<Below(y), Below(x)>> \in R)
      BY <1>5
    <2> DEFINE p == Below(y)
               q == Below(x)
    <2>2. p \in SUBSET S /\ q \in SUBSET S /\ ~(<<p, q>> \in R)
      BY <2>1
    <2> HIDE DEF p, q
    <2>3. ~(p \subseteq q /\ p # q)
      BY <2>2 DEF R, StrictSubsetOrdering
    <2>4. ~(y < x)
      <3> SUFFICES ASSUME y < x PROVE p \subseteq q /\ p # q
        BY <2>3
      <3>1. y \in q /\ y \notin p
        BY DEF p, q
      <3>2. p \subseteq q
        <4>1. y \in Int /\ x \in Int /\ \A z \in S : z \in Int
          OBVIOUS
        <4>2. ASSUME NEW z \in p PROVE z \in q
          <5>1. z \in S /\ z < y /\ z \in Int
            BY <4>1 DEF p
          <5>2. z < x
            BY <4>1, <5>1
          <5> QED
            BY <5>1, <5>2 DEF q
        <4> QED
          BY <4>2
      <3> QED
        BY <3>1, <3>2
    <2>5. y \in Int /\ x \in Int
      OBVIOUS
    <2> QED
      BY <2>4, <2>5
  <1> QED
    BY <1>5, <1>6

IsStates(f, n, m) ==
    f = [j \in 0 .. m |-> IF j = 0 THEN NodeState
                          ELSE IF log[j].node = n THEN ProcessMeterReader(f[j - 1], log[j])
                          ELSE f[j - 1]]

LEMMA StatesExist ==
    ASSUME NEW N \in Nat, NEW n
    PROVE  \E f : IsStates(f, n, N)
  <1> DEFINE Bad == {m \in 0 .. N : ~\E f : IsStates(f, n, m)}
  <1>1. ASSUME NEW m \in Bad, \A k \in Bad : m <= k PROVE FALSE
    <2>1. m # 0
      <3> PICK f : f = [j \in 0 .. 0 |-> NodeState]
        OBVIOUS
      <3>1. IsStates(f, n, 0)
        BY DEF IsStates
      <3> QED
        BY <1>1, <3>1
    <2>2. m - 1 \in 0 .. N /\ m - 1 \notin Bad /\ m \in Nat \ {0}
      BY <1>1, <2>1
    <2>3. PICK f : IsStates(f, n, m - 1)
      BY <2>2
    <2> PICK g : g = [j \in 0 .. m |-> IF j = m THEN Over(n, f[m - 1], m) ELSE f[j]]
      OBVIOUS
    <2>4. \A j \in 0 .. m - 1 : g[j] = f[j]
      BY <2>2
    <2>5. \A j \in 0 .. m - 1 : f[j] = IF j = 0 THEN NodeState
                          ELSE IF log[j].node = n THEN ProcessMeterReader(f[j - 1], log[j])
                          ELSE f[j - 1]
      BY <2>3 DEF IsStates
    <2>6. ASSUME NEW j \in 0 .. m
          PROVE  g[j] = IF j = 0 THEN NodeState
                        ELSE IF log[j].node = n THEN ProcessMeterReader(g[j - 1], log[j])
                        ELSE g[j - 1]
      <3>1. CASE j = m
        <4>1. m - 1 \in 0 .. m - 1 /\ j # 0
          BY <2>2, <3>1
        <4>2. g[m - 1] = f[m - 1]
          BY <2>4, <4>1
        <4>3. g[m] = Over(n, f[m - 1], m)
          BY <3>1
        <4> QED
          BY <3>1, <4>1, <4>2, <4>3 DEF Over
      <3>2. CASE j # m
        <4>1. j \in 0 .. m - 1 /\ (j # 0 => j - 1 \in 0 .. m - 1)
          BY <2>2, <3>2
        <4>2. g[j] = f[j] /\ (j # 0 => g[j - 1] = f[j - 1])
          BY <2>4, <4>1
        <4> QED
          BY <2>5, <4>1, <4>2
      <3> QED
        BY <3>1, <3>2
    <2>7. IsStates(g, n, m)
      BY <2>6 DEF IsStates
    <2> QED
      BY <1>1, <2>7
  <1>2. Bad = {}
    <2> SUFFICES ASSUME Bad # {} PROVE FALSE
      OBVIOUS
    <2>1. Bad \in SUBSET (0 .. N)
      OBVIOUS
    <2> HIDE DEF Bad
    <2>2. \E x \in Bad : \A y \in Bad : x <= y
      BY <2>1, LeastLine
    <2> QED
      BY <1>1, <2>2
  <1> QED
    BY <1>2

\* The definition of StatesOf, unrolled.
LEMMA StatesUnrolled ==
    ASSUME LogTyped, NEW n
    PROVE  /\ StatesOf(n)[0] = NodeState
           /\ \A j \in Indices : StatesOf(n)[j] = Over(n, StatesOf(n)[j - 1], j)
  <1> PICK N : N = Len(log)
    OBVIOUS
  <1> PICK f : f = StatesOf(n)
    OBVIOUS
  <1>1. N \in Nat
    BY LogFacts
  <1>2. \E g : IsStates(g, n, N)
    BY <1>1, StatesExist
  <1>3. IsStates(f, n, N)
    BY <1>2 DEF StatesOf, IsStates
  <1>4. \A j \in 0 .. N : f[j] = IF j = 0 THEN NodeState ELSE Over(n, f[j - 1], j)
    BY <1>3 DEF IsStates, Over
  <1>5. 0 \in 0 .. N /\ \A j \in Indices : j \in 0 .. N /\ j # 0
    BY <1>1 DEF Indices
  <1> QED
    BY <1>4, <1>5

\* Lines of other nodes change nothing.
LEMMA StatesSame ==
    ASSUME LogTyped, NEW n, NEW i \in 0 .. Len(log), NEW k \in 0 .. Len(log), i <= k,
           \A j \in Indices : i < j /\ j <= k => log[j].node # n
    PROVE  StatesOf(n)[k] = StatesOf(n)[i]
  <1> PICK N : N = Len(log)
    OBVIOUS
  <1> PICK f : f = StatesOf(n)
    OBVIOUS
  <1> DEFINE Bad == {m \in 0 .. N : i <= m /\ m <= k /\ f[m] # f[i]}
  <1>1. N \in Nat /\ \A j \in Indices : f[j] = Over(n, f[j - 1], j)
    BY LogFacts, StatesUnrolled
  <1>2. ASSUME NEW m \in Bad, \A y \in Bad : m <= y PROVE FALSE
    <2>1. m # i /\ m \in Indices /\ i < m /\ m <= k /\ m - 1 \in 0 .. N
          /\ i <= m - 1 /\ m - 1 <= k /\ ~(m <= m - 1)
      BY <1>1, <1>2 DEF Indices
    <2>2. f[m - 1] = f[i]
      BY <1>2, <2>1
    <2>3. f[m] = f[m - 1]
      BY <1>1, <2>1 DEF Over
    <2> QED
      BY <1>2, <2>2, <2>3
  <1>3. Bad = {}
    <2> SUFFICES ASSUME Bad # {} PROVE FALSE
      OBVIOUS
    <2>1. Bad \in SUBSET (0 .. N)
      OBVIOUS
    <2> HIDE DEF Bad
    <2>2. \E x \in Bad : \A y \in Bad : x <= y
      BY <1>1, <2>1, LeastLine
    <2> QED
      BY <1>2, <2>2
  <1> QED
    BY <1>3

\* That s is what an uninterrupted run would have of node n when it has passed
\* P, as long as no report in P was spoilt.
Follows(n, P, s) ==
    ReportsOf(n) \cap P \cap spoilt = {} =>
        \E i \in 0 .. Len(log) :
            ReportsOf(n) \cap P = {j \in ReportsOf(n) : j <= i} /\ s = StatesOf(n)[i]

\* That a value is that of a report of node n with this time.
TrueValue(n, ts, value) ==
    \E i \in Reports : /\ log[i].node = n /\ log[i].ts = ts /\ i <= written
                       /\ {j \in spoilt : j <= i} = {} => value = RealCounter[i]

TruePoints == \A n \in Nodes : \A k \in 1 .. Len(rrd[n]) : TrueValue(n, rrd[n][k].ts, rrd[n][k].value)

TrueRun ==
    run # Null => \A n \in Nodes :
        /\ Follows(n, RunPasses, run.history.node_state[n])
        /\ run.update_queue[n] # Null => TrueValue(n, run.update_ts, run.update_queue[n])

TrueInv ==
    /\ TruePoints /\ TrueRun
    /\ \A n \in Nodes : Follows(n, Passes, history.node_state[n])

LEMMA TrueInit == Init => TrueInv
  <1> SUFFICES ASSUME Init PROVE TrueInv
    OBVIOUS
  <1>1. /\ history.current_file = 0 /\ history.current_file_lineno = -1 /\ run = Null
        /\ \A n \in Nodes : Len(rrd[n]) = 0 /\ history.node_state[n] = NodeState
    BY DEF Init, History
  <1>2. LogTyped
    BY FileInit DEF FileInv
  <1>3. ASSUME NEW n \in Nodes PROVE Follows(n, Passes, history.node_state[n])
    <2>1. ReportsOf(n) \cap Passes = {}
      <3>1. ASSUME NEW i \in Reports PROVE ~Passed(i)
        <4>1. log[i].hour \in Nat \ {0}
          BY <1>2, ReportFacts
        <4> QED
          BY <1>1, <4>1 DEF Passed
      <3> QED
        BY <3>1 DEF Passes
    <2>2. {j \in ReportsOf(n) : j <= 0} = {}
      BY DEF ReportsOf, Reports
    <2>3. 0 \in 0 .. Len(log) /\ history.node_state[n] = StatesOf(n)[0]
      BY <1>1, <1>2, LogFacts, StatesUnrolled
    <2> QED
      BY <2>1, <2>2, <2>3 DEF Follows
  <1> QED
    BY <1>1, <1>3 DEF TrueInv, TruePoints, TrueRun

\* What is true stays so, when more is written or spoilt.
LEMMA TrueStays ==
    ASSUME FileInv, FileInv', UNCHANGED log, spoilt \subseteq spoilt', written <= written'
    PROVE  /\ Reports' = Reports /\ \A n : ReportsOf(n)' = ReportsOf(n)
           /\ \A n, P, s : Follows(n, P, s) => Follows(n, P, s)'
           /\ \A n, ts, value : TrueValue(n, ts, value) => TrueValue(n, ts, value)'
  <1>1. /\ Reports' = Reports /\ \A n : ReportsOf(n)' = ReportsOf(n)
        /\ \A n : StatesOf(n)' = StatesOf(n)
    BY DEF Reports, ReportsOf, StatesOf
  <1>2. RealCounter' = RealCounter
    BY <1>1 DEF RealCounter
  <1>3. ASSUME NEW n, NEW P, NEW s, Follows(n, P, s) PROVE Follows(n, P, s)'
    <2>1. ReportsOf(n) \cap P \cap spoilt' = {} => ReportsOf(n) \cap P \cap spoilt = {}
      OBVIOUS
    <2> QED
      BY <1>1, <1>3, <2>1 DEF Follows
  <1>4. ASSUME NEW n, NEW ts, NEW value, TrueValue(n, ts, value) PROVE TrueValue(n, ts, value)'
    <2>1. PICK i \in Reports : /\ log[i].node = n /\ log[i].ts = ts /\ i <= written
                               /\ {j \in spoilt : j <= i} = {} => value = RealCounter[i]
      BY <1>4 DEF TrueValue
    <2>2. i <= written'
      <3>1. i \in Int /\ written \in Int /\ written' \in Int
        <4>1. written \in Int /\ i \in Int
          BY DEF FileInv, LogTyped, Reports
        <4>2. written' \in Int
          BY DEF FileInv, LogTyped
        <4> QED
          BY <4>1, <4>2
      <3> QED
        BY <2>1, <3>1
    <2>3. {j \in spoilt' : j <= i} = {} => {j \in spoilt : j <= i} = {}
      OBVIOUS
    <2> QED
      BY <1>1, <1>2, <2>1, <2>2, <2>3 DEF TrueValue
  <1> QED
    BY <1>1, <1>3, <1>4

\* A step that moves neither the run nor the history.
LEMMA TrueStill ==
    ASSUME FileInv, FileInv', TrueInv, UNCHANGED <<log, history, run, rrd>>, spoilt \subseteq spoilt',
           written <= written'
    PROVE  TrueInv'
  <1> PICK H, R : H = Passes /\ R = RunPasses
    OBVIOUS
  <1>1. Passes' = H /\ RunPasses' = R
    BY DEF Passes, RunPasses, Passed, RunPassed, Place, FirstOf, File, Reports
  <1>2. TruePoints'
    BY TrueStays DEF TrueInv, TruePoints
  <1>3. TrueRun'
    BY <1>1, TrueStays DEF TrueInv, TrueRun
  <1>4. \A n \in Nodes : Follows(n, Passes, history.node_state[n])'
    BY <1>1, TrueStays DEF TrueInv
  <1> QED
    BY <1>2, <1>3, <1>4 DEF TrueInv

\* The run passes reports of node n only if they were spoilt.
LEMMA FollowsOn ==
    ASSUME NEW n, NEW P, NEW Q, NEW s, Follows(n, P, s),
           \A i \in ReportsOf(n) : i \in P => i \in Q,
           \A i \in ReportsOf(n) : i \in Q => i \in P \/ i \in spoilt
    PROVE  Follows(n, Q, s)
  <1> SUFFICES ASSUME ReportsOf(n) \cap Q \cap spoilt = {}
               PROVE  \E i \in 0 .. Len(log) :
                         ReportsOf(n) \cap Q = {j \in ReportsOf(n) : j <= i} /\ s = StatesOf(n)[i]
    BY DEF Follows
  <1>1. ReportsOf(n) \cap Q = ReportsOf(n) \cap P
    OBVIOUS
  <1>2. ReportsOf(n) \cap P \cap spoilt = {}
    BY <1>1
  <1> QED
    BY <1>1, <1>2 DEF Follows

\* A move of the run that counts no report.
LEMMA TruePasses ==
    ASSUME FileInv, FileInv', TrueInv, UNCHANGED <<log, written, history, rrd, spoilt>>, run # Null,
           run'.history.node_state = run.history.node_state,
           run'.update_queue = run.update_queue, run'.update_ts = run.update_ts,
           \A i \in Reports : RunPassed(i) => RunPassed(i)',
           \A i \in Reports : RunPassed(i)' => RunPassed(i) \/ i \in spoilt
    PROVE  TrueInv'
  <1> PICK H, P, Q : H = Passes /\ P = RunPasses /\ Q = RunPasses'
    OBVIOUS
  <1>1. /\ Reports' = Reports /\ \A n : ReportsOf(n)' = ReportsOf(n)
        /\ \A n, S, s : Follows(n, S, s) => Follows(n, S, s)'
        /\ \A n, ts, value : TrueValue(n, ts, value) => TrueValue(n, ts, value)'
    <2>1. spoilt \subseteq spoilt' /\ written <= written'
      BY DEF FileInv, LogTyped
    <2> QED
      BY <2>1, TrueStays
  <1>2. Passes' = H
    BY <1>1 DEF Passes, Passed, FirstOf
  <1>3. ASSUME NEW n \in Nodes
        PROVE  /\ Follows(n, RunPasses, run.history.node_state[n])'
               /\ run'.update_queue[n] # Null => TrueValue(n, run.update_ts, run.update_queue[n])'
    <2> PICK s : s = run.history.node_state[n]
      OBVIOUS
    <2>1. Follows(n, P, s)
      BY DEF TrueInv, TrueRun
    <2>2. /\ \A i \in ReportsOf(n) : i \in P => i \in Q
          /\ \A i \in ReportsOf(n) : i \in Q => i \in P \/ i \in spoilt
      BY <1>1 DEF ReportsOf, RunPasses
    <2>3. Follows(n, Q, s)
      BY <2>1, <2>2, FollowsOn
    <2>4. Follows(n, Q, s)'
      BY <1>1, <2>3
    <2>5. run'.history.node_state[n] = s
      OBVIOUS
    <2>6. run'.update_queue[n] # Null => TrueValue(n, run.update_ts, run.update_queue[n])
      BY DEF TrueInv, TrueRun
    <2> QED
      BY <1>1, <2>4, <2>5, <2>6
  <1>4. TrueRun'
    BY <1>3 DEF TrueRun
  <1>5. TruePoints'
    BY <1>1 DEF TrueInv, TruePoints
  <1>6. \A n \in Nodes : Follows(n, Passes, history.node_state[n])'
    BY <1>1, <1>2 DEF TrueInv
  <1> QED
    BY <1>4, <1>5, <1>6 DEF TrueInv

LEMMA TrueStart ==
    ASSUME FileInv, FileInv', RunInv, TrueInv, Start
    PROVE  TrueInv'
  <1> PICK H : H = Passes
    OBVIOUS
  <1>1. /\ UNCHANGED <<log, written, history, rrd, spoilt>>
        /\ run'.history = history /\ \A n \in Nodes : run'.update_queue[n] = Null
    BY DEF Start, NoUpdates
  <1>2. /\ Reports' = Reports
        /\ \A n, S, s : Follows(n, S, s) => Follows(n, S, s)'
        /\ \A n, ts, value : TrueValue(n, ts, value) => TrueValue(n, ts, value)'
    <2>1. spoilt \subseteq spoilt' /\ written <= written'
      BY <1>1 DEF FileInv, LogTyped
    <2> QED
      BY <1>1, <2>1, TrueStays
  <1>3. Passes' = H /\ RunPasses' = H
    BY <1>1, <1>2, StartMoves DEF Passes, Passed, FirstOf, RunPasses
  <1>4. \A n \in Nodes : Follows(n, Passes, history.node_state[n])'
    BY <1>1, <1>2, <1>3 DEF TrueInv
  <1>5. TrueRun'
    BY <1>1, <1>3, <1>4 DEF TrueRun
  <1>6. TruePoints'
    BY <1>1, <1>2 DEF TrueInv, TruePoints
  <1> QED
    BY <1>4, <1>5, <1>6 DEF TrueInv

LEMMA TrueSave ==
    ASSUME FileInv, FileInv', RunInv, TrueInv, SaveHistory
    PROVE  TrueInv'
  <1> PICK R : R = RunPasses
    OBVIOUS
  <1>1. /\ UNCHANGED <<log, written, rrd, spoilt>>
        /\ history' = run.history /\ run' = Null /\ run # Null
    BY DEF SaveHistory, AtEnd
  <1>2. /\ Reports' = Reports
        /\ \A n, S, s : Follows(n, S, s) => Follows(n, S, s)'
        /\ \A n, ts, value : TrueValue(n, ts, value) => TrueValue(n, ts, value)'
    <2>1. spoilt \subseteq spoilt' /\ written <= written'
      BY <1>1 DEF FileInv, LogTyped
    <2> QED
      BY <1>1, <2>1, TrueStays
  <1>3. Passes' = R
    BY <1>2, SaveMoves DEF Passes, RunPasses
  <1>4. \A n \in Nodes : Follows(n, Passes, history.node_state[n])'
    BY <1>1, <1>2, <1>3 DEF TrueInv, TrueRun
  <1>5. TruePoints'
    BY <1>1, <1>2 DEF TrueInv, TruePoints
  <1> QED
    BY <1>1, <1>4, <1>5 DEF TrueInv, TrueRun

LEMMA TrueCrash ==
    ASSUME FileInv, FileInv', TrueInv, Crash
    PROVE  TrueInv'
  <1> PICK H : H = Passes
    OBVIOUS
  <1>1. UNCHANGED <<log, written, history, rrd, spoilt>> /\ run' = Null
    BY DEF Crash
  <1>2. /\ Reports' = Reports
        /\ \A n, S, s : Follows(n, S, s) => Follows(n, S, s)'
        /\ \A n, ts, value : TrueValue(n, ts, value) => TrueValue(n, ts, value)'
    <2>1. spoilt \subseteq spoilt' /\ written <= written'
      BY <1>1 DEF FileInv, LogTyped
    <2> QED
      BY <1>1, <2>1, TrueStays
  <1>3. Passes' = H
    BY <1>1, <1>2 DEF Passes, Passed, FirstOf
  <1>4. \A n \in Nodes : Follows(n, Passes, history.node_state[n])'
    BY <1>1, <1>2, <1>3 DEF TrueInv
  <1>5. TruePoints'
    BY <1>1, <1>2 DEF TrueInv, TruePoints
  <1> QED
    BY <1>1, <1>4, <1>5 DEF TrueInv, TrueRun

LEMMA TrueFlush ==
    ASSUME FileInv, FileInv', RunInv, TrueInv, NEW n \in Nodes, FlushUpdate(n)
    PROVE  TrueInv'
  <1> PICK H, R : H = Passes /\ R = RunPasses
    OBVIOUS
  <1> PICK u, v : u = run.update_ts /\ v = run.update_queue[n]
    OBVIOUS
  <1>1. /\ UNCHANGED <<log, written, history, spoilt>> /\ run # Null /\ v # Null /\ run \in Runs
    BY DEF FlushUpdate, FlushDue, RunInv
  <1>2. /\ Reports' = Reports
        /\ \A m, S, s : Follows(m, S, s) => Follows(m, S, s)'
        /\ \A m, ts, value : TrueValue(m, ts, value) => TrueValue(m, ts, value)'
    <2>1. spoilt \subseteq spoilt' /\ written <= written'
      BY <1>1 DEF FileInv, LogTyped
    <2> QED
      BY <1>1, <2>1, TrueStays
  <1>3. /\ File' = File /\ run'.next = run.next /\ run'.update_ts = u
        /\ run'.history = run.history
        /\ \A m \in Nodes : run'.update_queue[m] # Null => run'.update_queue[m] = run.update_queue[m]
    <2>1. run' = RunAt(run.history, run.next, [run.update_queue EXCEPT ![n] = Null], u)
      BY <1>1, FlushedRun
    <2>2. run.update_queue \in [Nodes -> Nat \cup {Null}]
      BY <1>1 DEF Runs
    <2>3. run'.update_queue = [run.update_queue EXCEPT ![n] = Null] /\ run'.update_ts = u
          /\ run'.history = run.history /\ run'.next = run.next
      BY <2>1 DEF RunAt
    <2> QED
      BY <2>2, <2>3 DEF File
  <1>4. Passes' = H /\ RunPasses' = R
    BY <1>1, <1>2, <1>3 DEF Passes, RunPasses, Passed, RunPassed, Place, FirstOf
  <1>5. \A m \in Nodes : Follows(m, Passes, history.node_state[m])'
    BY <1>1, <1>2, <1>4 DEF TrueInv
  <1>6. TrueRun'
    BY <1>1, <1>2, <1>3, <1>4 DEF TrueInv, TrueRun
  <1>7. TrueValue(n, u, v)'
    BY <1>1, <1>2 DEF TrueInv, TrueRun
  <1>8. TruePoints'
    <2>1. CASE UNCHANGED rrd
      BY <1>2, <2>1 DEF TrueInv, TruePoints
    <2>2. CASE ~UNCHANGED rrd
      <3> PICK L : L = Len(rrd[n])
        OBVIOUS
      <3>1. /\ L \in Nat /\ Len(rrd'[n]) = L + 1
            /\ \A k \in 1 .. L : rrd'[n][k] = rrd[n][k]
            /\ rrd'[n][L + 1] = [ts |-> u, value |-> v]
            /\ \A m \in Nodes : m # n => rrd'[m] = rrd[m]
        BY <2>2, FlushPoints
      <3>2. ASSUME NEW m \in Nodes, NEW k \in 1 .. Len(rrd'[m])
            PROVE  TrueValue(m, rrd[m][k].ts, rrd[m][k].value)'
        <4> PICK x : x = rrd'[m][k]
          OBVIOUS
        <4> SUFFICES TrueValue(m, x.ts, x.value)'
          OBVIOUS
        <4>1. CASE m = n /\ k = L + 1
          <5>1. x.ts = u /\ x.value = v
            BY <3>1, <4>1
          <5> QED
            BY <1>7, <4>1, <5>1
        <4>2. CASE ~(m = n /\ k = L + 1)
          <5>1. k \in 1 .. Len(rrd[m]) /\ x = rrd[m][k]
            BY <3>1, <3>2, <4>2
          <5>2. TrueValue(m, x.ts, x.value)
            BY <5>1 DEF TrueInv, TruePoints
          <5> QED
            BY <1>2, <5>2
        <4> QED
          BY <4>1, <4>2
      <3> QED
        BY <3>2 DEF TruePoints
    <2> QED
      BY <2>1, <2>2
  <1> QED
    BY <1>5, <1>6, <1>8 DEF TrueInv

\* The line counted moves its node on to where an uninterrupted run would be.
LEMMA TrueReport ==
    ASSUME FileInv, FileInv', RunInv, TrueInv, ReportLine
    PROVE  TrueInv'
  <1> PICK n, p : n = Line.node /\ p = FirstOf(File) + run.next
    OBVIOUS
  <1> PICK s : s = run.history.node_state[n]
    OBVIOUS
  <1> PICK t : t = ProcessMeterReader(s, log[p])
    OBVIOUS
  <1> PICK u : u = log[p].ts
    OBVIOUS
  <1> PICK H, P, Q : H = Passes /\ P = RunPasses /\ Q = RunPasses'
    OBVIOUS
  <1>1. /\ UNCHANGED <<log, history, rrd, spoilt>> /\ run # Null
        /\ \A m \in Nodes : run.update_queue[m] # Null => run.update_ts = u
        /\ p \in Reports /\ p \in Indices /\ p <= written /\ log[p].node = n /\ n \in Nodes
        /\ run'.update_ts = u
        /\ \A m \in Nodes : run'.history.node_state[m] = IF m = n THEN t
                                                         ELSE run.history.node_state[m]
        /\ \A m \in Nodes : run'.update_queue[m] = IF m = n THEN t.realcounter
                                                   ELSE run.update_queue[m]
        /\ \A i \in Reports : (RunPassed(i) <=> i < p) /\ (RunPassed(i)' <=> i <= p)
    BY ReportMoves
  <1>2. /\ Reports' = Reports
        /\ \A m, S, r : Follows(m, S, r) => Follows(m, S, r)'
        /\ \A m, ts, value : TrueValue(m, ts, value) => TrueValue(m, ts, value)'
    <2>1. written' = written /\ written \in Int
      BY DEF ReportLine, FileInv, LogTyped
    <2> QED
      BY <1>1, <2>1, TrueStays
  <1>3. /\ LogTyped /\ p \in Int /\ Len(log) \in Nat /\ p \in 0 .. Len(log) /\ p - 1 \in 0 .. Len(log)
        /\ \A m : ReportsOf(m) = {j \in Reports : log[j].node = m}
        /\ \A i \in Reports : i \in Int /\ i \in Indices
        /\ \A i \in Reports : (i \in P <=> i < p) /\ (i \in Q <=> i <= p)
    <2>1. LogTyped /\ Len(log) \in Nat
      BY LogFacts DEF FileInv
    <2>2. /\ p \in Int /\ p \in 0 .. Len(log) /\ p - 1 \in 0 .. Len(log)
          /\ \A i \in Reports : i \in Int /\ i \in Indices
      BY <1>1, <2>1 DEF Reports, Indices
    <2>3. \A i \in Reports : (i \in P <=> i < p) /\ (i \in Q <=> i <= p)
      BY <1>1, <1>2 DEF RunPasses
    <2> QED
      BY <2>1, <2>2, <2>3 DEF ReportsOf
  <1>4. Passes' = H
    BY <1>1, <1>2 DEF Passes, Passed, FirstOf
  <1>5. ASSUME ReportsOf(n) \cap Q \cap spoilt = {} PROVE t = StatesOf(n)[p]
    <2>1. ReportsOf(n) \cap P \cap spoilt = {}
      BY <1>3, <1>5
    <2>2. Follows(n, P, s)
      BY <1>1 DEF TrueInv, TrueRun
    <2>3. PICK i \in 0 .. Len(log) :
             ReportsOf(n) \cap P = {j \in ReportsOf(n) : j <= i} /\ s = StatesOf(n)[i]
      BY <2>1, <2>2 DEF Follows
    <2>4. \A j \in ReportsOf(n) : j < p <=> j <= i
      BY <1>3, <2>3
    <2>5. i <= p - 1
      <3>1. p \in ReportsOf(n) /\ i \in Int /\ ~(p < p)
        BY <1>1, <1>3
      <3>2. ~(p <= i)
        BY <2>4, <3>1
      <3> QED
        BY <1>3, <3>1, <3>2
    <2>6. ASSUME NEW j \in Indices, i < j, j <= p - 1 PROVE log[j].node # n
      <3> SUFFICES ASSUME log[j].node = n PROVE FALSE
        OBVIOUS
      <3>1. j \in Reports /\ j \in ReportsOf(n) /\ j \in Int /\ i \in Int
        BY <1>1, <1>3 DEF Reports, Indices
      <3>2. j < p
        BY <1>3, <2>6, <3>1
      <3>3. j <= i
        BY <2>4, <3>1, <3>2
      <3> QED
        BY <2>6, <3>1, <3>3
    <2>7. StatesOf(n)[p - 1] = s
      BY <1>3, <2>3, <2>5, <2>6, StatesSame
    <2>8. StatesOf(n)[p] = Over(n, StatesOf(n)[p - 1], p)
      BY <1>1, <1>3, StatesUnrolled
    <2> QED
      BY <1>1, <2>7, <2>8 DEF Over
  <1>6. Follows(n, Q, t)
    <2>1. ReportsOf(n) \cap Q = {j \in ReportsOf(n) : j <= p}
      BY <1>3
    <2> QED
      BY <1>3, <1>5, <2>1 DEF Follows
  <1>7. TrueValue(n, u, t.realcounter)
    <2>1. ASSUME {j \in spoilt : j <= p} = {} PROVE t.realcounter = RealCounter[p]
      <3>1. ReportsOf(n) \cap Q \cap spoilt = {}
        BY <1>3, <2>1
      <3>2. RealCounter[p] = StatesOf(n)[p].realcounter
        BY <1>1 DEF RealCounter
      <3> QED
        BY <1>5, <3>1, <3>2
    <2> QED
      BY <1>1, <2>1 DEF TrueValue
  <1>8. ASSUME NEW m \in Nodes
        PROVE  /\ Follows(m, RunPasses, run.history.node_state[m])'
               /\ (run.update_queue[m] # Null => TrueValue(m, run.update_ts, run.update_queue[m]))'
    <2>1. CASE m = n
      <3>1. run'.history.node_state[m] = t /\ run'.update_queue[m] = t.realcounter
        BY <1>1, <2>1
      <3>2. Follows(n, Q, t)' /\ TrueValue(n, u, t.realcounter)'
        BY <1>2, <1>6, <1>7
      <3> QED
        BY <1>1, <2>1, <3>1, <3>2
    <2>2. CASE m # n
      <3> PICK r, q : r = run.history.node_state[m] /\ q = run.update_queue[m]
        OBVIOUS
      <3>1. run'.history.node_state[m] = r /\ run'.update_queue[m] = q
        BY <1>1, <2>2
      <3>2. Follows(m, P, r) /\ (q # Null => TrueValue(m, u, q))
        BY <1>1 DEF TrueInv, TrueRun
      <3>3. \A i \in ReportsOf(m) : i \in P <=> i \in Q
        <4>1. \A i \in ReportsOf(m) : i \in Reports /\ i # p
          BY <1>1, <1>3, <2>2
        <4> QED
          BY <1>3, <4>1
      <3>4. Follows(m, Q, r)
        BY <3>2, <3>3, FollowsOn
      <3>5. Follows(m, Q, r)' /\ (q # Null => TrueValue(m, u, q)')
        BY <1>2, <3>2, <3>4
      <3> QED
        BY <1>1, <3>1, <3>5
    <2> QED
      BY <2>1, <2>2
  <1>9. TrueRun'
    BY <1>8 DEF TrueRun
  <1>10. TruePoints'
    BY <1>1, <1>2 DEF TrueInv, TruePoints
  <1>11. \A m \in Nodes : Follows(m, Passes, history.node_state[m])'
    BY <1>1, <1>2, <1>4 DEF TrueInv
  <1> QED
    BY <1>9, <1>10, <1>11 DEF TrueInv

LEMMA TrueNext == FileInv /\ FileInv' /\ RunInv /\ TrueInv /\ [Next]_vars => TrueInv'
  <1> SUFFICES ASSUME FileInv, FileInv', RunInv, TrueInv, [Next]_vars PROVE TrueInv'
    OBVIOUS
  <1>1. CASE Stamp \/ NextHour \/ UNCHANGED vars
    <2>1. UNCHANGED <<log, written, history, run, rrd, spoilt>> /\ written \in Int
      BY ONLY <1>1, FileInv DEF Stamp, NextHour, vars, FileInv, LogTyped
    <2> QED
      BY <2>1, TrueStill
  <1>2. CASE Write
    <2>1. UNCHANGED <<log, history, run, rrd, spoilt>> /\ written \in Int /\ written' = written + 1
      BY <1>2 DEF Write, FileInv, LogTyped
    <2> QED
      BY <2>1, TrueStill
  <1>3. ASSUME NEW h \in Hours, Get(h) PROVE TrueInv'
    <2>1. /\ UNCHANGED <<log, written, history, run, rrd>> /\ written \in Int
          /\ spoilt \subseteq spoilt'
      BY <1>3 DEF Get, FileInv, LogTyped
    <2> QED
      BY <2>1, TrueStill
  <1>4. CASE NextFile
    <2>1. UNCHANGED written
      BY <1>4 DEF NextFile
    <2> QED
      BY <1>4, <2>1, NextFileMoves, TruePasses
  <1>5. CASE SkipLine
    <2>1. UNCHANGED written
      BY <1>5 DEF SkipLine
    <2> QED
      BY <1>5, <2>1, SkipMoves, TruePasses
  <1> QED
    BY <1>1, <1>2, <1>3, <1>4, <1>5, TrueStart, TrueReport, TrueFlush, TrueSave, TrueCrash
       DEF Next, ProcessFiles

\* Every point has the value that one run over the whole log without any
\* interruption would give it, if no line up to it was spoilt: for any logs,
\* hours and meters, and however many runs were killed between the flush of some
\* files and the saving of the history.
THEOREM PointsFollowTheLog == Spec => []PointsAsUninterrupted
  <1>1. Init => FileInv /\ RunInv /\ TrueInv
    BY FileInit, RunInit, TrueInit
  <1>2. FileInv /\ RunInv /\ TrueInv /\ [Next]_vars => (FileInv /\ RunInv /\ TrueInv)'
    BY FileNext, RunNext, TrueNext
  <1>3. TrueInv => PointsAsUninterrupted
    BY DEF TrueInv, TruePoints, TrueValue, PointsAsUninterrupted
  <1> QED
    BY <1>1, <1>2, <1>3, PTL DEF Spec

=============================================================================
