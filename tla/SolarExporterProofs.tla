------------------------ MODULE SolarExporterProofs ------------------------
(***************************************************************************)
(* Proofs about SolarExporter, for any table, registers and readings.      *)
(*                                                                         *)
(* First what the decoders make of an answer: of the metric's own the      *)
(* register's value, and of any other a number.  Then the types, and two   *)
(* invariants of a scrape: its count of failures bounds what is missing,   *)
(* and while nothing has disturbed it, what is owed or on the line is the  *)
(* answer it waits for.                                                    *)
(***************************************************************************)
EXTENDS SolarExporter, FiniteSetTheorems, TLAPS

-----------------------------------------------------------------------------
(* Decoding *)

Requests == {Request(k) : k \in Index}

Answers == {Answer(q) : q \in Requests}

LEMMA MetricFacts ==
    ASSUME NEW n \in Index
    PROVE  /\ Len(Metrics) \in Nat /\ n \in Nat
           /\ Metrics[n].register \in Registers /\ Metrics[n].register \in Nat
           /\ Metrics[n].fetcher \in {"U16", "S16", "U32"} /\ Metrics[n].multiplier \in Nat
           /\ Metrics[n].fetcher = "U32" => Metrics[n].register + 1 \in Registers
           /\ Request(n) \in Requests
           /\ Request(n).register = Metrics[n].register
           /\ Request(n).count = IF Metrics[n].fetcher = "U32" THEN 2 ELSE 1
  <1> DEFINE Entries == [register : Registers, fetcher : Kinds, multiplier : Nat]
  <1>1. Metrics \in Seq(Entries)
    BY MetricsAssumption
  <1> HIDE DEF Entries
  <1>2. Metrics[n] \in Entries /\ Len(Metrics) \in Nat /\ n \in Nat
    BY <1>1 DEF Index
  <1>3. /\ Metrics[n].register \in Registers /\ Metrics[n].fetcher \in Kinds
        /\ Metrics[n].multiplier \in Nat
    BY <1>2 DEF Entries
  <1>4. Request(n) \in Requests
    BY DEF Requests
  <1>5. /\ Registers \subseteq Nat
        /\ Metrics[n].fetcher = "U32" => Metrics[n].register + 1 \in Registers
    BY MetricsAssumption DEF Index
  <1> QED
    BY <1>2, <1>3, <1>4, <1>5 DEF Kinds, Request

LEMMA Words ==
    ASSUME NEW w \in Word
    PROVE  w \in Nat /\ w * Byte * Byte \in Nat
  <1>1. w \in Nat
    <2>1. Byte * Byte - 1 \in Nat
      BY DEF Byte
    <2> QED
      BY ONLY <2>1, w \in Word DEF Word
  <1> QED
    BY <1>1 DEF Byte

\* A word is its two bytes.
LEMMA Bytes ==
    ASSUME NEW w \in Word
    PROVE  \E h, l \in Nat : h = w \div Byte /\ l = w % Byte /\ h * Byte + l = w /\ w \in Nat
  <1>1. w \in Nat /\ Byte = 256
    <2>1. w \in Nat
      BY Words
    <2>2. Byte = 256
      BY DEF Byte
    <2> QED
      BY <2>1, <2>2
  <1>2. w \div 256 \in Nat /\ w % 256 \in Nat /\ w % 256 = w - 256 * (w \div 256)
    BY <1>1
  <1> PICK h : h = w \div 256
    OBVIOUS
  <1> PICK l : l = w % 256
    OBVIOUS
  <1>3. h \in Nat /\ l \in Nat /\ l = w - 256 * h
    BY <1>2
  <1>4. h * Byte + l = w
    BY ONLY <1>1, <1>3
  <1>5. h = w \div Byte /\ l = w % Byte
    BY <1>1
  <1> WITNESS h \in Nat, l \in Nat
  <1> QED
    BY <1>1, <1>4, <1>5

\* The bytes of an answer hold the registers, high byte first.
LEMMA AnswerBytes ==
    ASSUME inverter \in Readings, NEW k \in Index, NEW b, b = Answer(Request(k)),
           NEW w, w = inverter[Metrics[k].register]
    PROVE  /\ w \in Word /\ b \in Seq(Nat) /\ Uint16(b) = w
           /\ Len(b) = IF Metrics[k].fetcher = "U32" THEN 4 ELSE 2
           /\ Metrics[k].fetcher = "U32" =>
                 \E v \in Word : /\ v = inverter[Metrics[k].register + 1]
                                 /\ Uint32(leRegistersToBeBytes(b)) = v * Byte * Byte + w
  <1> PICK v : v = inverter[Metrics[k].register + 1]
    OBVIOUS
  <1>1. w \in Word /\ (Metrics[k].fetcher = "U32" => v \in Word)
    BY MetricFacts, MetricsAssumption
  <1>2. PICK h, l \in Nat : h = w \div Byte /\ l = w % Byte /\ h * Byte + l = w /\ w \in Nat
    BY ONLY <1>1, Bytes
  <1>3. b = IF Metrics[k].fetcher = "U32" THEN <<h, l, v \div Byte, v % Byte>> ELSE <<h, l>>
    <2> PICK q : q = Request(k)
      OBVIOUS
    <2>1. /\ q.register = Metrics[k].register /\ q.register + 0 = q.register
          /\ q.count = IF Metrics[k].fetcher = "U32" THEN 2 ELSE 1
      BY MetricFacts
    <2>2. Answer(q) = IF q.count = 1 THEN <<w \div Byte, w % Byte>>
                      ELSE <<w \div Byte, w % Byte, v \div Byte, v % Byte>>
      BY <2>1 DEF Answer
    <2>3. q.count = 1 <=> Metrics[k].fetcher # "U32"
      BY <2>1
    <2> QED
      BY <1>2, <2>2, <2>3
  <1>4. CASE Metrics[k].fetcher = "U32"
    <2>1. PICK g, m \in Nat : g = v \div Byte /\ m = v % Byte /\ g * Byte + m = v /\ v \in Nat
      BY ONLY <1>1, <1>4, Bytes
    <2>2. b = <<h, l, g, m>>
      BY <1>3, <1>4, <2>1
    <2>3. b \in Seq(Nat) /\ Len(b) = 4 /\ b[1] = h /\ b[2] = l /\ b[3] = g /\ b[4] = m
      BY ONLY <1>2, <2>1, <2>2
    <2>4. Uint16(b) = w
      BY <1>2, <2>3 DEF Uint16
    <2>5. Uint32(leRegistersToBeBytes(b)) = v * Byte * Byte + w
      <3> PICK r : r = leRegistersToBeBytes(b)
        OBVIOUS
      <3>1. r[1] = g /\ r[2] = m /\ r[3] = h /\ r[4] = l
        BY <2>3 DEF leRegistersToBeBytes
      <3>2. Uint32(r) = (g * Byte + m) * Byte * Byte + h * Byte + l
        BY <3>1 DEF Uint32, Uint16
      <3>3. (v * Byte * Byte) + h * Byte + l = v * Byte * Byte + w
        BY ONLY <1>2, <2>1 DEF Byte
      <3> QED
        BY <2>1, <3>2, <3>3
    <2> QED
      BY <1>1, <1>4, <2>3, <2>4, <2>5
  <1>5. CASE Metrics[k].fetcher # "U32"
    <2>1. b = <<h, l>>
      BY <1>3, <1>5
    <2>2. b \in Seq(Nat) /\ Len(b) = 2 /\ b[1] = h /\ b[2] = l
      BY ONLY <1>2, <2>1
    <2>3. Uint16(b) = w
      BY <1>2, <2>2 DEF Uint16
    <2> QED
      BY <1>1, <1>5, <2>2, <2>3
  <1> QED
    BY <1>4, <1>5

\* The value of a register that an answer begins with, taken for metric n.
LEMMA DecodeFirst ==
    ASSUME NEW n \in Index, NEW b, NEW w \in Word, Uint16(b) = w
    PROVE  /\ Metrics[n].fetcher = "U16" => Decode(n, b) = Metrics[n].multiplier * w
           /\ Metrics[n].fetcher = "S16" => /\ Decode(n, b) = Metrics[n].multiplier * Signed(w)
                                            /\ Signed(w) \in Int
  <1>1. w \in Nat /\ Int16(b) = Signed(w) /\ Signed(w) \in Int
    BY DEF Word, Int16, Signed, Byte
  <1> QED
    BY <1>1 DEF Decode

\* What any answer gives is a number, and -1 only if a register reads as -1.
LEMMA DecodeFacts ==
    ASSUME inverter \in Readings, NEW n \in Index, NEW b \in Answers,
           Len(b) >= 2 * Request(n).count
    PROVE  Decode(n, b) \in Int /\ (NothingReadsAsFailed => Decode(n, b) # Failed)
  <1>1. PICK k \in Index : b = Answer(Request(k))
    BY DEF Answers, Requests
  <1> PICK w : w = inverter[Metrics[k].register]
    OBVIOUS
  <1> PICK f : f = Metrics[n].multiplier
    OBVIOUS
  <1>2. /\ w \in Word /\ w \in Nat /\ b \in Seq(Nat) /\ Uint16(b) = w
        /\ Len(b) = IF Metrics[k].fetcher = "U32" THEN 4 ELSE 2
        /\ Metrics[k].register \in Registers /\ f \in Nat
    <2>1. /\ w \in Word /\ b \in Seq(Nat) /\ Uint16(b) = w
          /\ Len(b) = IF Metrics[k].fetcher = "U32" THEN 4 ELSE 2
      BY <1>1, AnswerBytes
    <2> QED
      BY <2>1, MetricFacts, Words
  <1>3. CASE Metrics[n].fetcher = "U16"
    <2>1. Decode(n, b) = f * w
      BY <1>2, <1>3, DecodeFirst
    <2>2. f * w \in Nat
      BY <1>2
    <2> QED
      BY <2>1, <2>2 DEF Failed
  <1>4. CASE Metrics[n].fetcher = "S16"
    <2>1. Decode(n, b) = f * Signed(w) /\ Signed(w) \in Int
      BY <1>2, <1>4, DecodeFirst
    <2>2. f * Signed(w) \in Int
      BY <1>2, <2>1
    <2>3. NothingReadsAsFailed => f * Signed(w) # Failed
      BY <1>2, <1>4 DEF NothingReadsAsFailed
    <2> QED
      BY <2>1, <2>2, <2>3
  <1>5. CASE Metrics[n].fetcher = "U32"
    <2>1. Request(n).count = 2
      BY <1>5, MetricFacts
    <2>2. Metrics[k].fetcher = "U32"
      BY <1>2, <2>1
    <2>3. PICK v \in Word : Uint32(leRegistersToBeBytes(b)) = v * Byte * Byte + w
      BY <1>1, <2>2, AnswerBytes
    <2> PICK u : u = v * Byte * Byte + w
      OBVIOUS
    <2>4. u \in Nat
      BY <1>2, Words
    <2>5. Decode(n, b) = f * u
      BY <1>5, <2>3 DEF Decode
    <2>6. f * u \in Nat
      BY ONLY <1>2, <2>4
    <2> QED
      BY <2>5, <2>6 DEF Failed
  <1> QED
    BY <1>3, <1>4, <1>5, MetricFacts

\* Decoding the metric's own answer gives what its registers hold: bytes, sign
\* and word order are right, for every reading.
THEOREM OwnAnswerIsTrue ==
    ASSUME inverter \in Readings, NEW n \in Index
    PROVE  Decode(n, Answer(Request(n))) = TrueValue(n)
  <1> PICK b : b = Answer(Request(n))
    OBVIOUS
  <1> PICK w : w = inverter[Metrics[n].register]
    OBVIOUS
  <1>1. w \in Word /\ w \in Nat /\ Uint16(b) = w
    BY AnswerBytes, Words
  <1>2. CASE Metrics[n].fetcher = "U16"
    <2>1. TrueValue(n) = Metrics[n].multiplier * w
      BY <1>2 DEF TrueValue
    <2> QED
      BY <1>1, <1>2, <2>1, DecodeFirst
  <1>3. CASE Metrics[n].fetcher = "S16"
    <2>1. TrueValue(n) = Metrics[n].multiplier * Signed(w)
      BY <1>3 DEF TrueValue
    <2> QED
      BY <1>1, <1>3, <2>1, DecodeFirst
  <1>4. CASE Metrics[n].fetcher = "U32"
    <2>1. PICK v \in Word : /\ v = inverter[Metrics[n].register + 1]
                            /\ Uint32(leRegistersToBeBytes(b)) = v * Byte * Byte + w
      BY <1>4, AnswerBytes
    <2>2. v * Byte * Byte \in Nat
      BY Words
    <2>3. v * Byte * Byte + w = w + v * Byte * Byte
      BY <1>1, <2>2
    <2>4. TrueValue(n) = Metrics[n].multiplier * (w + v * Byte * Byte)
      BY <1>4, <2>1 DEF TrueValue
    <2>5. Decode(n, b) = Metrics[n].multiplier * (v * Byte * Byte + w)
      BY <1>4, <2>1 DEF Decode
    <2> QED
      BY <2>3, <2>4, <2>5
  <1> QED
    BY <1>2, <1>3, <1>4, MetricFacts

-----------------------------------------------------------------------------
(* Types *)

TypeInv ==
    /\ TypeOK
    /\ owed \in Seq(Requests) /\ line \in Seq(Answers)

\* The registers, and with them what they are worth, never change.
LEMMA InverterKept ==
    ASSUME UNCHANGED inverter
    PROVE  /\ Answers' = Answers /\ (NothingReadsAsFailed' <=> NothingReadsAsFailed)
           /\ \A i : TrueValue(i)' = TrueValue(i)
           /\ \A q : Answer(q)' = Answer(q)
  BY DEF Answers, Answer, TrueValue, NothingReadsAsFailed

LEMMA TypeInit == Init => TypeInv
  <1> SUFFICES ASSUME Init PROVE TypeInv
    OBVIOUS
  <1>1. <<>> \in Seq(Requests) /\ <<>> \in Seq(Answers)
    OBVIOUS
  <1> QED
    BY <1>1 DEF Init, TypeInv, TypeOK

LEMMA MetricsLength == Len(Metrics) \in Nat
  <1> DEFINE Entries == [register : Registers, fetcher : Kinds, multiplier : Nat]
  <1>1. Metrics \in Seq(Entries)
    BY MetricsAssumption
  <1> HIDE DEF Entries
  <1> QED
    BY <1>1

ScrapeOf(n, try, waiting, missing, metrics, disturbed) ==
    [n |-> n, try |-> try, waiting |-> waiting, missing |-> missing,
     metrics |-> metrics, disturbed |-> disturbed]

LEMMA ScrapeFields ==
    ASSUME NEW s \in Scrapes
    PROVE  /\ s = ScrapeOf(s.n, s.try, s.waiting, s.missing, s.metrics, s.disturbed)
           /\ s.n \in 1 .. Len(Metrics) + 1 /\ s.n \in Nat /\ Len(Metrics) \in Nat
           /\ s.try \in {1, 2} /\ s.waiting \in BOOLEAN /\ s.missing \in 0 .. 3
           /\ s.metrics \in [Index -> Int] /\ s.disturbed \in BOOLEAN
  <1>1. Len(Metrics) \in Nat
    BY MetricsLength
  <1> QED
    BY <1>1 DEF Scrapes, ScrapeOf

LEMMA ScrapeTyped ==
    ASSUME NEW n \in 1 .. Len(Metrics) + 1, NEW try \in {1, 2}, NEW waiting \in BOOLEAN,
           NEW missing \in 0 .. 3, NEW metrics \in [Index -> Int], NEW disturbed \in BOOLEAN,
           NEW s, s = ScrapeOf(n, try, waiting, missing, metrics, disturbed)
    PROVE  /\ s \in Scrapes /\ s # None
           /\ s.n = n /\ s.try = try /\ s.waiting = waiting /\ s.missing = missing
           /\ s.metrics = metrics /\ s.disturbed = disturbed
  <1>1. s \in Scrapes
    BY DEF Scrapes, ScrapeOf
  <1> QED
    BY <1>1, NoneAssumption DEF ScrapeOf

LEMMA DoneIs ==
    ASSUME scrape \in Scrapes, scrape.n \in Index, NEW v \in Int
    PROVE  /\ Done(v) = ScrapeOf(scrape.n + 1, 1, FALSE, scrape.missing,
                                 [scrape.metrics EXCEPT ![scrape.n] = v], scrape.disturbed)
           /\ [scrape.metrics EXCEPT ![scrape.n] = v] \in [Index -> Int]
           /\ scrape.n + 1 \in 1 .. Len(Metrics) + 1
  <1> PICK m : m = [scrape.metrics EXCEPT ![scrape.n] = v]
    OBVIOUS
  <1>1. Done(v) = [scrape EXCEPT !.metrics = m, !.n = scrape.n + 1, !.try = 1, !.waiting = FALSE]
    BY DEF Done
  <1>2. Done(v) = ScrapeOf(scrape.n + 1, 1, FALSE, scrape.missing, m, scrape.disturbed)
    BY <1>1 DEF Scrapes, ScrapeOf
  <1> QED
    BY <1>2, ScrapeFields DEF Index

\* A failure is either followed by a second try, or makes the metric missing.
LEMMA FailedIs ==
    ASSUME scrape \in Scrapes, scrape.n \in Index, scrape.missing <= 2
    PROVE  \/ FailedTry = ScrapeOf(scrape.n, 2, FALSE, scrape.missing, scrape.metrics, scrape.disturbed)
           \/ FailedTry = ScrapeOf(scrape.n + 1, 1, FALSE, scrape.missing + 1,
                                   [scrape.metrics EXCEPT ![scrape.n] = Failed], scrape.disturbed)
  <1>1. CASE scrape.try = 1
    <2>1. FailedTry = [scrape EXCEPT !.try = 2, !.waiting = FALSE]
      BY <1>1 DEF FailedTry
    <2> QED
      BY <2>1 DEF Scrapes, ScrapeOf
  <1>2. CASE scrape.try # 1
    <2> PICK d : d = Done(Failed)
      OBVIOUS
    <2> PICK m : m = [scrape.metrics EXCEPT ![scrape.n] = Failed]
      OBVIOUS
    <2>1. FailedTry = [d EXCEPT !.missing = scrape.missing + 1]
      BY <1>2 DEF FailedTry
    <2>2. d = ScrapeOf(scrape.n + 1, 1, FALSE, scrape.missing, m, scrape.disturbed)
      <3>1. Failed \in Int
        BY DEF Failed
      <3> QED
        BY <3>1, DoneIs
    <2>3. FailedTry = ScrapeOf(scrape.n + 1, 1, FALSE, scrape.missing + 1, m, scrape.disturbed)
      BY ONLY <2>1, <2>2 DEF ScrapeOf
    <2> QED
      BY <2>3
  <1> QED
    BY <1>1, <1>2

\* What the scrape's own steps do.
LEMMA StartIs ==
    ASSUME TypeInv, Start
    PROVE  /\ scrape' = ScrapeOf(1, 1, FALSE, 0, [i \in Index |-> 0], others \/ owed # <<>>)
           /\ scrape = None /\ scrape' \in Scrapes /\ report' = None /\ UNCHANGED <<inverter, others, owed, line>>
  <1>1. scrape' = ScrapeOf(1, 1, FALSE, 0, [i \in Index |-> 0], others \/ owed # <<>>)
    BY DEF Start, NewScrape, ScrapeOf
  <1>2. 1 \in 1 .. Len(Metrics) + 1 /\ [i \in Index |-> 0] \in [Index -> Int]
    <2>1. Len(Metrics) \in Nat
      BY MetricsLength
    <2> QED
      BY <2>1
  <1>3. scrape' \in Scrapes
    BY <1>1, <1>2 DEF Scrapes, ScrapeOf
  <1> QED
    BY <1>1, <1>3 DEF Start

LEMMA SendIs ==
    ASSUME TypeInv, Send
    PROVE  /\ scrape' = ScrapeOf(scrape.n, scrape.try, TRUE, scrape.missing, scrape.metrics, scrape.disturbed)
           /\ scrape \in Scrapes /\ scrape # None /\ ~scrape.waiting /\ scrape.n \in Index /\ scrape.missing <= 2
           /\ owed' = Append(owed, Request(scrape.n)) /\ scrape' \in Scrapes
           /\ report' = None /\ UNCHANGED <<inverter, others, line>>
  <1>1. scrape \in Scrapes /\ scrape # None /\ ~scrape.waiting /\ scrape.n <= Len(Metrics)
        /\ ~TooMany(scrape.missing)
    BY DEF Send, Fetching, TypeInv, TypeOK
  <1>2. scrape.n \in Index /\ scrape.missing <= 2
    BY <1>1, ScrapeFields DEF Index, TooMany
  <1>3. scrape' = [scrape EXCEPT !.waiting = TRUE]
    BY DEF Send
  <1>4. scrape' = ScrapeOf(scrape.n, scrape.try, TRUE, scrape.missing, scrape.metrics, scrape.disturbed)
    BY <1>1, <1>3 DEF Scrapes, ScrapeOf
  <1> PICK t : t = scrape'
    OBVIOUS
  <1>5. t = ScrapeOf(scrape.n, scrape.try, TRUE, scrape.missing, scrape.metrics, scrape.disturbed)
    BY <1>4
  <1>6. t \in Scrapes
    BY ONLY <1>1, <1>5 DEF Scrapes, ScrapeOf
  <1> QED
    BY <1>1, <1>2, <1>4, <1>6 DEF Send

LEMMA WaitingFacts ==
    ASSUME TypeInv, Waiting
    PROVE  scrape \in Scrapes /\ scrape # None /\ scrape.waiting /\ scrape.n \in Index
           /\ scrape.missing \in 0 .. 2 /\ scrape.n \in Nat
  <1>1. scrape \in Scrapes /\ scrape # None /\ scrape.waiting /\ scrape.n <= Len(Metrics) /\ scrape.missing <= 2
    BY DEF TypeInv, TypeOK, Waiting
  <1> QED
    BY <1>1, ScrapeFields DEF Index

\* What was read for the metric.
Value == Decode(scrape.n, Head(line))

LEMMA ReadIs ==
    ASSUME TypeInv, Read
    PROVE  /\ Waiting /\ line # <<>> /\ Head(line) \in Answers /\ Value \in Int
           /\ NothingReadsAsFailed => Value # Failed
           /\ scrape' = ScrapeOf(scrape.n + 1, 1, FALSE, scrape.missing,
                                 [scrape.metrics EXCEPT ![scrape.n] = Value], scrape.disturbed)
           /\ line' = Tail(line) /\ report' = None /\ UNCHANGED <<inverter, others, owed>>
  <1>1. /\ Waiting /\ line # <<>> /\ Len(Head(line)) >= 2 * Request(scrape.n).count
        /\ scrape' = Done(Value)
        /\ line' = Tail(line) /\ report' = None /\ UNCHANGED <<inverter, others, owed>>
    BY DEF Read, Value
  <1>2. inverter \in Readings /\ line \in Seq(Answers)
    BY DEF TypeInv, TypeOK
  <1>3. Head(line) \in Answers
    BY <1>1, <1>2
  <1>4. scrape \in Scrapes /\ scrape.n \in Index
    BY <1>1, WaitingFacts
  <1>5. Value \in Int /\ (NothingReadsAsFailed => Value # Failed)
    BY <1>1, <1>2, <1>3, <1>4, DecodeFacts DEF Value
  <1> QED
    BY <1>1, <1>3, <1>4, <1>5, DoneIs

\* A failed try: what ReadSpoilt and Timeout do to the scrape.
Failure(disturbed) ==
    \/ scrape' = ScrapeOf(scrape.n, 2, FALSE, scrape.missing, scrape.metrics, disturbed)
    \/ scrape' = ScrapeOf(scrape.n + 1, 1, FALSE, scrape.missing + 1,
                          [scrape.metrics EXCEPT ![scrape.n] = Failed], disturbed)

LEMMA ReadSpoiltIs ==
    ASSUME TypeInv, ReadSpoilt
    PROVE  /\ Waiting /\ line # <<>> /\ Failure(scrape.disturbed)
           /\ \E k \in 1 .. Len(line) : line' = SubSeq(line, k + 1, Len(line))
           /\ report' = None /\ UNCHANGED <<inverter, others, owed>>
  <1>1. Waiting /\ scrape' = FailedTry
    BY DEF ReadSpoilt
  <1>2. scrape \in Scrapes /\ scrape.n \in Index /\ scrape.missing <= 2
    BY <1>1, WaitingFacts
  <1>3. Failure(scrape.disturbed)
    BY <1>1, <1>2, FailedIs DEF Failure
  <1> QED
    BY <1>1, <1>3 DEF ReadSpoilt

LEMMA TimeoutIs ==
    ASSUME TypeInv, Timeout
    PROVE  /\ Waiting /\ line = <<>> /\ Failure(scrape.disturbed \/ owed # <<>>)
           /\ report' = None /\ UNCHANGED <<inverter, others, owed, line>>
  <1> PICK d \in BOOLEAN : d = (scrape.disturbed \/ owed # <<>>)
    <2>1. (scrape.disturbed \/ owed # <<>>) \in BOOLEAN
      OBVIOUS
    <2> QED
      BY <2>1
  <1> PICK f : f = FailedTry
    OBVIOUS
  <1>1. Waiting /\ line = <<>> /\ scrape' = [f EXCEPT !.disturbed = d]
        /\ report' = None /\ UNCHANGED <<inverter, others, owed, line>>
    BY DEF Timeout
  <1>2. \/ f = ScrapeOf(scrape.n, 2, FALSE, scrape.missing, scrape.metrics, scrape.disturbed)
        \/ f = ScrapeOf(scrape.n + 1, 1, FALSE, scrape.missing + 1,
                        [scrape.metrics EXCEPT ![scrape.n] = Failed], scrape.disturbed)
    <2>1. scrape \in Scrapes /\ scrape.n \in Index /\ scrape.missing <= 2
      BY <1>1, WaitingFacts
    <2> QED
      BY <2>1, FailedIs
  <1> PICK m : m = [scrape.metrics EXCEPT ![scrape.n] = Failed]
    OBVIOUS
  <1>3. \/ scrape' = ScrapeOf(scrape.n, 2, FALSE, scrape.missing, scrape.metrics, d)
        \/ scrape' = ScrapeOf(scrape.n + 1, 1, FALSE, scrape.missing + 1, m, d)
    <2>1. CASE f = ScrapeOf(scrape.n, 2, FALSE, scrape.missing, scrape.metrics, scrape.disturbed)
      BY ONLY <1>1, <2>1 DEF ScrapeOf
    <2>2. CASE f = ScrapeOf(scrape.n + 1, 1, FALSE, scrape.missing + 1, m, scrape.disturbed)
      BY ONLY <1>1, <2>2 DEF ScrapeOf
    <2> QED
      BY <1>2, <2>1, <2>2
  <1>4. Failure(d)
    BY <1>3 DEF Failure
  <1> QED
    BY <1>1, <1>4

LEMMA FailureTyped ==
    ASSUME TypeInv, Waiting, NEW d \in BOOLEAN, Failure(d)
    PROVE  scrape' \in Scrapes /\ ~scrape'.waiting /\ scrape'.disturbed = d
  <1> PICK m : m = [scrape.metrics EXCEPT ![scrape.n] = Failed]
    OBVIOUS
  <1>1. /\ scrape \in Scrapes /\ scrape.n \in Index /\ scrape.n \in Nat
        /\ scrape.missing \in 0 .. 2 /\ scrape.missing + 1 \in 0 .. 3 /\ scrape.missing \in 0 .. 3
    BY WaitingFacts
  <1>2. Failed \in Int
    BY DEF Failed
  <1>3. m \in [Index -> Int] /\ scrape.n + 1 \in 1 .. Len(Metrics) + 1
    BY <1>1, <1>2, DoneIs
  <1>4. scrape.metrics \in [Index -> Int] /\ scrape.n \in 1 .. Len(Metrics) + 1
    BY ONLY <1>1, ScrapeFields
  <1> PICK t : t = scrape'
    OBVIOUS
  <1>5. \/ t = ScrapeOf(scrape.n, 2, FALSE, scrape.missing, scrape.metrics, d)
        \/ t = ScrapeOf(scrape.n + 1, 1, FALSE, scrape.missing + 1, m, d)
    BY DEF Failure
  <1>6. CASE t = ScrapeOf(scrape.n, 2, FALSE, scrape.missing, scrape.metrics, d)
    <2>1. 2 \in {1, 2} /\ FALSE \in BOOLEAN
      OBVIOUS
    <2>2. t \in Scrapes /\ t.waiting = FALSE /\ t.disturbed = d
      BY ONLY <1>1, <1>4, <1>6, <2>1, d \in BOOLEAN DEF ScrapeOf, Scrapes
    <2> QED
      BY <2>2
  <1>7. CASE t = ScrapeOf(scrape.n + 1, 1, FALSE, scrape.missing + 1, m, d)
    <2>1. 1 \in {1, 2} /\ FALSE \in BOOLEAN
      OBVIOUS
    <2>2. t \in Scrapes /\ t.waiting = FALSE /\ t.disturbed = d
      BY ONLY <1>1, <1>3, <1>7, <2>1, d \in BOOLEAN DEF ScrapeOf, Scrapes
    <2> QED
      BY <2>2
  <1> QED
    BY <1>5, <1>6, <1>7

LEMMA CollectIs ==
    ASSUME TypeInv, Collect
    PROVE  /\ scrape \in Scrapes /\ scrape # None /\ ~scrape.waiting /\ ~Fetching
           /\ scrape' = None /\ UNCHANGED <<inverter, others, owed>>
           /\ report' \in Reports /\ report'.metrics = scrape.metrics
           /\ report'.up <=> scrape.n > Len(Metrics)
           /\ report'.disturbed = scrape.disturbed
           /\ line' = IF others THEN line ELSE <<>>
  <1>1. scrape \in Scrapes /\ scrape # None /\ ~scrape.waiting
    BY DEF Collect, TypeInv, TypeOK
  <1>2. report' = [up |-> scrape.n > Len(Metrics), metrics |-> scrape.metrics,
                   disturbed |-> scrape.disturbed]
    BY DEF Collect
  <1> PICK up \in BOOLEAN : up = (scrape.n > Len(Metrics))
    <2>1. (scrape.n > Len(Metrics)) \in BOOLEAN
      OBVIOUS
    <2> QED
      BY <2>1
  <1> PICK m : m = scrape.metrics
    OBVIOUS
  <1> PICK d : d = scrape.disturbed
    OBVIOUS
  <1>4. m \in [Index -> Int] /\ d \in BOOLEAN
    BY <1>1, ScrapeFields
  <1> PICK r : r = report'
    OBVIOUS
  <1>5. r = [up |-> up, metrics |-> m, disturbed |-> d]
    BY <1>2
  <1>6. r \in Reports /\ r.metrics = m /\ r.disturbed = d /\ r.up = up
    BY ONLY <1>4, <1>5, up \in BOOLEAN DEF Reports
  <1>3. report' \in Reports /\ report'.metrics = scrape.metrics /\ report'.disturbed = scrape.disturbed
        /\ (report'.up <=> scrape.n > Len(Metrics))
    BY <1>6
  <1> QED
    BY <1>1, <1>3 DEF Collect

\* What the steps do to what is owed and to the line.
LEMMA SequenceFacts ==
    ASSUME NEW S, NEW s \in Seq(S)
    PROVE  /\ s # <<>> => Head(s) \in S /\ Tail(s) \in Seq(S)
           /\ \A x \in S : Append(s, x) \in Seq(S)
           /\ \A k \in 1 .. Len(s) : SubSeq(s, k + 1, Len(s)) \in Seq(S)
  OBVIOUS

LEMMA TypeStep ==
    ASSUME TypeInv, UNCHANGED inverter, others' \in BOOLEAN, owed' \in Seq(Requests),
           line' \in Seq(Answers), report' = None \/ report' \in Reports,
           \/ scrape' = None
           \/ scrape' \in Scrapes /\ ~scrape'.waiting
           \/ scrape' \in Scrapes /\ scrape'.n <= Len(Metrics) /\ scrape'.missing <= 2
           \/ UNCHANGED scrape
    PROVE  TypeInv'
  <1>1. Answers' = Answers
    BY InverterKept
  <1>2. scrape' # None =>
          /\ scrape' \in Scrapes
          /\ scrape'.waiting => scrape'.n <= Len(Metrics) /\ scrape'.missing <= 2
    BY DEF TypeInv, TypeOK
  <1> QED
    BY <1>1, <1>2 DEF TypeInv, TypeOK, Requests

LEMMA TypeNext == TypeInv /\ [Next]_vars => TypeInv'
  <1> SUFFICES ASSUME TypeInv, [Next]_vars PROVE TypeInv'
    OBVIOUS
  <1> USE DEF TypeInv
  <1>1. CASE Start
    <2>1. scrape' \in Scrapes /\ ~scrape'.waiting
      BY <1>1, StartIs DEF ScrapeOf
    <2> QED
      BY <1>1, <2>1, StartIs, TypeStep DEF TypeOK
  <1>2. CASE Send
    <2> PICK t : t = scrape'
      OBVIOUS
    <2>1. /\ t = ScrapeOf(scrape.n, scrape.try, TRUE, scrape.missing, scrape.metrics, scrape.disturbed)
          /\ scrape \in Scrapes /\ scrape.n \in Index /\ scrape.missing <= 2
          /\ owed' = Append(owed, Request(scrape.n))
          /\ report' = None /\ UNCHANGED <<inverter, others, line>>
      BY <1>2, SendIs
    <2>2. t \in Scrapes
      BY <1>2, SendIs
    <2>3. t.n <= Len(Metrics) /\ t.missing <= 2
      BY ONLY <2>1, MetricsLength DEF ScrapeOf, Index
    <2>4. owed' \in Seq(Requests)
      BY <2>1, MetricFacts, SequenceFacts
    <2> QED
      BY <2>1, <2>2, <2>3, <2>4, TypeStep DEF TypeOK
  <1>3. CASE Read
    <2> PICK t : t = scrape'
      OBVIOUS
    <2> PICK m : m = [scrape.metrics EXCEPT ![scrape.n] = Value]
      OBVIOUS
    <2>1. /\ Waiting /\ line # <<>> /\ Value \in Int
          /\ t = ScrapeOf(scrape.n + 1, 1, FALSE, scrape.missing, m, scrape.disturbed)
          /\ line' = Tail(line) /\ report' = None /\ UNCHANGED <<inverter, others, owed>>
      BY <1>3, ReadIs
    <2>2. scrape \in Scrapes /\ scrape.n \in Index
      BY <2>1, WaitingFacts
    <2>3. m \in [Index -> Int] /\ scrape.n + 1 \in 1 .. Len(Metrics) + 1
      BY <2>1, <2>2, DoneIs
    <2>4. t \in Scrapes /\ ~t.waiting
      BY ONLY <2>1, <2>2, <2>3 DEF Scrapes, ScrapeOf
    <2>5. line' \in Seq(Answers)
      BY <2>1, SequenceFacts
    <2> QED
      BY <2>1, <2>4, <2>5, TypeStep DEF TypeOK
  <1>4. CASE ReadSpoilt
    <2>1. /\ Waiting /\ Failure(scrape.disturbed)
          /\ \E k \in 1 .. Len(line) : line' = SubSeq(line, k + 1, Len(line))
          /\ report' = None /\ UNCHANGED <<inverter, others, owed>>
      BY <1>4, ReadSpoiltIs
    <2>2. scrape.disturbed \in BOOLEAN
      BY <2>1, WaitingFacts, ScrapeFields
    <2>3. scrape' \in Scrapes /\ ~scrape'.waiting
      BY <2>1, <2>2, FailureTyped
    <2>4. line' \in Seq(Answers)
      BY <2>1, SequenceFacts
    <2> QED
      BY <2>1, <2>3, <2>4, TypeStep DEF TypeOK
  <1>5. CASE Timeout
    <2>1. /\ Waiting /\ Failure(scrape.disturbed \/ owed # <<>>)
          /\ report' = None /\ UNCHANGED <<inverter, others, owed, line>>
      BY <1>5, TimeoutIs
    <2>2. (scrape.disturbed \/ owed # <<>>) \in BOOLEAN
      OBVIOUS
    <2>3. scrape' \in Scrapes /\ ~scrape'.waiting
      BY <2>1, <2>2, FailureTyped
    <2> QED
      BY <2>1, <2>3, TypeStep DEF TypeOK
  <1>6. CASE Collect
    <2>1. /\ scrape' = None /\ report' \in Reports /\ UNCHANGED <<inverter, others, owed>>
          /\ line' = IF others THEN line ELSE <<>>
      BY <1>6, CollectIs
    <2>2. line' \in Seq(Answers)
      BY <2>1
    <2> QED
      BY <2>1, <2>2, TypeStep DEF TypeOK
  <1>7. CASE InverterAnswers
    <2>1. /\ owed # <<>> /\ owed' = Tail(owed)
          /\ line' = IF scrape = None /\ ~others THEN line ELSE Append(line, Answer(Head(owed)))
          /\ report' = None /\ UNCHANGED <<inverter, scrape, others>>
      BY <1>7 DEF InverterAnswers
    <2>2. Head(owed) \in Requests /\ owed' \in Seq(Requests)
      BY <2>1, SequenceFacts
    <2>3. line' \in Seq(Answers)
      BY <2>1, <2>2, SequenceFacts DEF Answers
    <2> QED
      BY <2>1, <2>2, <2>3, TypeStep DEF TypeOK
  <1>8. CASE InverterIgnores
    <2>1. owed' \in Seq(Requests)
      BY <1>8, SequenceFacts DEF InverterIgnores
    <2> QED
      BY <1>8, <2>1, TypeStep DEF InverterIgnores, TypeOK
  <1>9. CASE OthersStart
    <2> PICK t : t = [scrape EXCEPT !.disturbed = TRUE]
      OBVIOUS
    <2>1. /\ others' = TRUE /\ scrape' = IF scrape = None THEN None ELSE t
          /\ report' = None /\ UNCHANGED <<inverter, owed, line>>
      BY <1>9 DEF OthersStart
    <2>2. scrape # None => scrape \in Scrapes /\ (scrape.waiting => scrape.n <= Len(Metrics) /\ scrape.missing <= 2)
      BY DEF TypeOK
    <2>3. scrape # None => t \in Scrapes /\ t.waiting = scrape.waiting /\ t.n = scrape.n /\ t.missing = scrape.missing
      BY <2>2 DEF Scrapes
    <2> QED
      BY <2>1, <2>2, <2>3, TypeStep DEF TypeOK
  <1>10. CASE OthersSend
    <2>1. PICK n \in Index : owed' = Append(owed, Request(n))
      BY <1>10 DEF OthersSend
    <2>2. owed' \in Seq(Requests)
      BY <2>1, MetricFacts, SequenceFacts
    <2> QED
      BY <1>10, <2>2, TypeStep DEF OthersSend, TypeOK
  <1>11. CASE OthersRead
    <2>1. line' \in Seq(Answers)
      BY <1>11, SequenceFacts DEF OthersRead
    <2> QED
      BY <1>11, <2>1, TypeStep DEF OthersRead, TypeOK
  <1>12. CASE OthersCollect
    <2>1. line' = <<>> \/ line' = line
      BY <1>12 DEF OthersCollect
    <2>2. line' \in Seq(Answers) /\ others' \in BOOLEAN
      <3>1. <<>> \in Seq(Answers)
        OBVIOUS
      <3>2. others' = FALSE
        BY <1>12 DEF OthersCollect
      <3> QED
        BY <2>1, <3>1, <3>2
    <2> QED
      BY <1>12, <2>2, TypeStep DEF OthersCollect, TypeOK
  <1>13. CASE UNCHANGED vars
    BY <1>13, InverterKept DEF vars, TypeOK, Requests
  <1> QED
    BY <1>1, <1>2, <1>3, <1>4, <1>5, <1>6, <1>7, <1>8, <1>9, <1>10, <1>11, <1>12, <1>13 DEF Next

LEMMA Types == Spec => []TypeInv
  BY TypeInit, TypeNext, PTL DEF Spec

\* A scrape counts its failures and makes no request after the third; it waits
\* only for a metric of the table.
THEOREM TypeCorrect == Spec => []TypeOK
  <1>1. TypeInv => TypeOK
    BY DEF TypeInv
  <1> QED
    BY <1>1, Types, PTL

-----------------------------------------------------------------------------
(* Reports whose values are their own *)

Undisturbed == scrape # None /\ ~scrape.disturbed

\* What is on its way to a scrape that nothing has disturbed: nothing, or the
\* request it waits for, or that request's answer.
OnItsWay ==
    \/ owed = <<>> /\ line = <<>>
    \/ scrape.waiting /\ owed = <<Request(scrape.n)>> /\ line = <<>>
    \/ scrape.waiting /\ owed = <<>> /\ line = <<Answer(Request(scrape.n))>>

LineInv ==
    /\ scrape = None /\ ~others => line = <<>>
    /\ Undisturbed => ~others /\ OnItsWay

ValuesTrue(metrics, n) == \A i \in 1 .. n - 1 : metrics[i] \in {TrueValue(i), Failed}

ValueInv == Undisturbed => ValuesTrue(scrape.metrics, scrape.n)

LEMMA SingletonFacts ==
    ASSUME NEW x
    PROVE  /\ Head(<<x>>) = x /\ Tail(<<x>>) = <<>> /\ Append(<<>>, x) = <<x>> /\ <<x>> # <<>>
           /\ \A k \in 1 .. Len(<<x>>) : SubSeq(<<x>>, k + 1, Len(<<x>>)) = <<>>
  <1>1. Head(<<x>>) = x /\ Append(<<>>, x) = <<x>> /\ <<x>> # <<>>
    OBVIOUS
  <1>2. Tail(<<x>>) = <<>>
    OBVIOUS
  <1>3. Len(<<x>>) = 1
    OBVIOUS
  <1>4. SubSeq(<<x>>, 2, 1) = <<>>
    OBVIOUS
  <1> QED
    BY <1>1, <1>2, <1>3, <1>4

\* The fields of the scrape when a try has ended.
LEMMA ReadFields ==
    ASSUME TypeInv, Read
    PROVE  /\ scrape' # None /\ ~scrape'.waiting /\ scrape'.n = scrape.n + 1
           /\ scrape'.missing = scrape.missing /\ scrape'.disturbed = scrape.disturbed
           /\ scrape'.metrics = [scrape.metrics EXCEPT ![scrape.n] = Value]
  <1> PICK t : t = scrape'
    OBVIOUS
  <1> PICK m : m = [scrape.metrics EXCEPT ![scrape.n] = Value]
    OBVIOUS
  <1>1. t = ScrapeOf(scrape.n + 1, 1, FALSE, scrape.missing, m, scrape.disturbed)
    BY ReadIs
  <1>2. Waiting /\ Value \in Int
    BY ReadIs
  <1>3. scrape \in Scrapes /\ scrape.n \in Index
    BY <1>2, WaitingFacts
  <1>4. m \in [Index -> Int] /\ scrape.n + 1 \in 1 .. Len(Metrics) + 1
    BY <1>2, <1>3, DoneIs
  <1>5. t \in Scrapes /\ t.waiting = FALSE /\ t.n = scrape.n + 1 /\ t.missing = scrape.missing
        /\ t.disturbed = scrape.disturbed /\ t.metrics = m
    BY ONLY <1>1, <1>3, <1>4 DEF Scrapes, ScrapeOf
  <1> QED
    BY <1>5, NoneAssumption

LEMMA FailureFields ==
    ASSUME TypeInv, Waiting, NEW d \in BOOLEAN, Failure(d)
    PROVE  /\ scrape' # None /\ ~scrape'.waiting /\ scrape'.disturbed = d
           /\ \/ /\ scrape'.n = scrape.n /\ scrape'.missing = scrape.missing
                 /\ scrape'.metrics = scrape.metrics
              \/ /\ scrape'.n = scrape.n + 1 /\ scrape'.missing = scrape.missing + 1
                 /\ scrape'.metrics = [scrape.metrics EXCEPT ![scrape.n] = Failed]
  <1>1. scrape' # None /\ ~scrape'.waiting /\ scrape'.disturbed = d
    BY FailureTyped, NoneAssumption
  <1> PICK m : m = [scrape.metrics EXCEPT ![scrape.n] = Failed]
    OBVIOUS
  <1> PICK t : t = scrape'
    OBVIOUS
  <1>2. \/ t = ScrapeOf(scrape.n, 2, FALSE, scrape.missing, scrape.metrics, d)
        \/ t = ScrapeOf(scrape.n + 1, 1, FALSE, scrape.missing + 1, m, d)
    BY DEF Failure
  <1>3. \/ t.n = scrape.n /\ t.missing = scrape.missing /\ t.metrics = scrape.metrics
        \/ t.n = scrape.n + 1 /\ t.missing = scrape.missing + 1 /\ t.metrics = m
    BY ONLY <1>2 DEF ScrapeOf
  <1> QED
    BY <1>1, <1>3

LEMMA OwnInit == Init => LineInv /\ ValueInv
  BY DEF Init, LineInv, ValueInv, Undisturbed

\* The line, one step after the other.  A step after which the scrape is
\* undisturbed found it undisturbed.
LEMMA LineNext == TypeInv /\ LineInv /\ [Next]_vars => LineInv'
  <1> SUFFICES ASSUME TypeInv, LineInv, [Next]_vars PROVE LineInv'
    OBVIOUS
  <1> USE DEF LineInv
  <1>1. CASE Start
    <2> PICK t : t = scrape'
      OBVIOUS
    <2> PICK d \in BOOLEAN : d = (others \/ owed # <<>>)
      <3>1. (others \/ owed # <<>>) \in BOOLEAN
        OBVIOUS
      <3> QED
        BY <3>1
    <2>1. /\ t = ScrapeOf(1, 1, FALSE, 0, [i \in Index |-> 0], d)
          /\ scrape = None /\ t \in Scrapes /\ UNCHANGED <<others, owed, line>>
      BY <1>1, StartIs
    <2>2. t.disturbed = d /\ t # None
      <3>1. t.disturbed = d
        BY <2>1 DEF ScrapeOf
      <3> QED
        BY <2>1, <3>1, NoneAssumption
    <2>3. Undisturbed' => ~others /\ owed = <<>>
      BY <2>2 DEF Undisturbed
    <2> QED
      BY <2>1, <2>2, <2>3 DEF OnItsWay
  <1>2. CASE Send
    <2> PICK t : t = scrape'
      OBVIOUS
    <2>1. /\ t = ScrapeOf(scrape.n, scrape.try, TRUE, scrape.missing, scrape.metrics, scrape.disturbed)
          /\ scrape # None /\ ~scrape.waiting /\ owed' = Append(owed, Request(scrape.n))
          /\ UNCHANGED <<others, line>>
      BY <1>2, SendIs
    <2>2. t # None
      BY <1>2, SendIs, NoneAssumption
    <2>3. t.n = scrape.n /\ t.waiting = TRUE /\ t.disturbed = scrape.disturbed
      BY <2>1 DEF ScrapeOf
    <2>4. Undisturbed' => Undisturbed
      BY <2>1, <2>3 DEF Undisturbed
    <2>5. Undisturbed => owed = <<>> /\ line = <<>> /\ ~others
      BY <2>1 DEF OnItsWay
    <2>6. Request(scrape.n)' = Request(scrape'.n) /\ Request(scrape'.n) = Request(scrape.n)
      BY <2>3 DEF Request
    <2>7. Undisturbed' => owed' = <<Request(scrape.n)>> /\ line' = <<>> /\ ~others'
      BY <2>1, <2>4, <2>5, SingletonFacts
    <2> QED
      BY <2>2, <2>3, <2>6, <2>7 DEF OnItsWay
  <1>3. CASE Read
    <2>1. /\ line # <<>> /\ line' = Tail(line) /\ UNCHANGED <<others, owed>>
          /\ scrape' # None /\ scrape'.disturbed = scrape.disturbed /\ Waiting
      BY <1>3, ReadIs, ReadFields
    <2>2. Undisturbed' => Undisturbed
      BY <2>1, WaitingFacts DEF Undisturbed
    <2>3. Undisturbed => owed = <<>> /\ Tail(line) = <<>> /\ ~others
      BY <2>1, SingletonFacts DEF OnItsWay
    <2> QED
      BY <2>1, <2>2, <2>3 DEF OnItsWay
  <1>4. CASE ReadSpoilt
    <2>1. /\ Waiting /\ line # <<>> /\ Failure(scrape.disturbed) /\ UNCHANGED <<others, owed>>
          /\ \E k \in 1 .. Len(line) : line' = SubSeq(line, k + 1, Len(line))
      BY <1>4, ReadSpoiltIs
    <2>2. scrape # None /\ scrape.disturbed \in BOOLEAN
      BY <2>1, WaitingFacts, ScrapeFields
    <2>3. scrape' # None /\ scrape'.disturbed = scrape.disturbed
      BY <2>1, <2>2, FailureFields
    <2>4. Undisturbed' => Undisturbed
      BY <2>2, <2>3 DEF Undisturbed
    <2>5. Undisturbed => owed = <<>> /\ line = <<Answer(Request(scrape.n))>> /\ ~others
      BY <2>1 DEF OnItsWay
    <2>6. Undisturbed => line' = <<>>
      BY <2>1, <2>5, SingletonFacts
    <2> QED
      BY <2>1, <2>3, <2>4, <2>5, <2>6 DEF OnItsWay
  <1>5. CASE Timeout
    <2> PICK d \in BOOLEAN : d = (scrape.disturbed \/ owed # <<>>)
      <3>1. (scrape.disturbed \/ owed # <<>>) \in BOOLEAN
        OBVIOUS
      <3> QED
        BY <3>1
    <2>1. Waiting /\ line = <<>> /\ Failure(d) /\ UNCHANGED <<others, owed, line>>
      BY <1>5, TimeoutIs
    <2>2. scrape # None
      BY <2>1, WaitingFacts
    <2>3. scrape' # None /\ scrape'.disturbed = d
      BY <2>1, FailureFields
    <2>4. Undisturbed' => Undisturbed /\ owed = <<>>
      BY <2>2, <2>3 DEF Undisturbed
    <2> QED
      BY <2>1, <2>3, <2>4 DEF OnItsWay
  <1>6. CASE Collect
    <2>1. scrape' = None /\ UNCHANGED others /\ line' = IF others THEN line ELSE <<>>
      BY <1>6, CollectIs
    <2> QED
      BY <2>1 DEF Undisturbed
  <1>7. CASE InverterAnswers
    <2>1. /\ owed # <<>> /\ owed' = Tail(owed)
          /\ line' = IF scrape = None /\ ~others THEN line ELSE Append(line, Answer(Head(owed)))
          /\ UNCHANGED <<inverter, scrape, others>>
      BY <1>7 DEF InverterAnswers
    <2>2. Undisturbed => scrape.waiting /\ owed = <<Request(scrape.n)>> /\ line = <<>> /\ scrape # None
      BY <2>1 DEF OnItsWay, Undisturbed
    <2>3. Undisturbed => owed' = <<>> /\ line' = <<Answer(Request(scrape.n))>>
      BY <2>1, <2>2, SingletonFacts
    <2>4. Answer(Request(scrape.n))' = Answer(Request(scrape.n))
      BY <2>1 DEF Answer, Request
    <2> QED
      BY <2>1, <2>2, <2>3, <2>4 DEF OnItsWay, Undisturbed
  <1>8. CASE InverterIgnores
    <2>1. owed # <<>> /\ owed' = Tail(owed) /\ UNCHANGED <<inverter, scrape, others, line>>
      BY <1>8 DEF InverterIgnores
    <2>2. Undisturbed => owed' = <<>> /\ line' = <<>>
      BY <2>1, SingletonFacts DEF OnItsWay
    <2> QED
      BY <2>1, <2>2 DEF OnItsWay, Undisturbed
  <1>9. CASE OthersStart
    <2> PICK t : t = [scrape EXCEPT !.disturbed = TRUE]
      OBVIOUS
    <2>1. others' = TRUE /\ scrape' = IF scrape = None THEN None ELSE t
      BY <1>9 DEF OthersStart
    <2>2. scrape # None => t.disturbed = TRUE
      BY DEF TypeInv, TypeOK, Scrapes
    <2> QED
      BY <2>1, <2>2 DEF Undisturbed
  <1>10. CASE OthersSend
    BY <1>10 DEF OthersSend, Undisturbed
  <1>11. CASE OthersRead
    BY <1>11 DEF OthersRead, Undisturbed
  <1>12. CASE OthersCollect
    BY <1>12 DEF OthersCollect, Undisturbed
  <1>13. CASE UNCHANGED vars
    BY <1>13 DEF vars, Undisturbed, OnItsWay, Answer, Request
  <1> QED
    BY <1>1, <1>2, <1>3, <1>4, <1>5, <1>6, <1>7, <1>8, <1>9, <1>10, <1>11, <1>12, <1>13 DEF Next

\* One more value: those before it stay.
LEMMA ValueAdded ==
    ASSUME NEW n \in Index, NEW metrics \in [Index -> Int], ValuesTrue(metrics, n),
           NEW v \in {TrueValue(n), Failed}
    PROVE  ValuesTrue([metrics EXCEPT ![n] = v], n + 1)
  <1> PICK m : m = [metrics EXCEPT ![n] = v]
    OBVIOUS
  <1>1. Len(Metrics) \in Nat
    BY MetricsLength
  <1> SUFFICES ASSUME NEW i \in 1 .. (n + 1) - 1 PROVE m[i] \in {TrueValue(i), Failed}
    BY DEF ValuesTrue
  <1>2. i \in Index /\ n \in Index /\ (i = n \/ i \in 1 .. n - 1)
    BY <1>1 DEF Index
  <1>3. CASE i = n
    <2>1. m[n] = v
      OBVIOUS
    <2> QED
      BY <1>3, <2>1
  <1>4. CASE i # n
    <2>1. m[i] = metrics[i]
      BY <1>2, <1>4
    <2>2. i \in 1 .. n - 1
      BY <1>2, <1>4
    <2> QED
      BY <2>1, <2>2 DEF ValuesTrue
  <1> QED
    BY <1>3, <1>4

LEMMA ValuesStep ==
    ASSUME UNCHANGED inverter, Undisturbed' => ValuesTrue(scrape'.metrics, scrape'.n)
    PROVE  ValueInv'
  <1>1. \A i : TrueValue(i)' = TrueValue(i)
    BY InverterKept
  <1>2. ValuesTrue(scrape'.metrics, scrape'.n) => ValuesTrue(scrape.metrics, scrape.n)'
    <2> SUFFICES ASSUME ValuesTrue(scrape'.metrics, scrape'.n), NEW i \in 1 .. scrape'.n - 1
                 PROVE  scrape'.metrics[i] \in {TrueValue(i)', Failed}
      BY DEF ValuesTrue
    <2>1. scrape'.metrics[i] \in {TrueValue(i), Failed}
      BY DEF ValuesTrue
    <2>2. TrueValue(i)' = TrueValue(i)
      BY <1>1
    <2> QED
      BY ONLY <2>1, <2>2
  <1> QED
    BY <1>2 DEF ValueInv

\* Undisturbed, a read takes the answer to its own request.
LEMMA ReadsItsOwn ==
    ASSUME TypeInv, LineInv, Read, Undisturbed
    PROVE  Value = TrueValue(scrape.n)
  <1>1. line # <<>> /\ Waiting /\ inverter \in Readings
    BY ReadIs DEF TypeInv, TypeOK
  <1>2. line = <<Answer(Request(scrape.n))>>
    BY <1>1 DEF LineInv, OnItsWay
  <1>3. Head(line) = Answer(Request(scrape.n)) /\ scrape.n \in Index
    BY <1>1, <1>2, SingletonFacts, WaitingFacts
  <1> QED
    BY <1>1, <1>3, OwnAnswerIsTrue DEF Value

\* A failed try leaves the values as they were, or adds a -1.
LEMMA FailureValues ==
    ASSUME TypeInv, Waiting, ValueInv, NEW d \in BOOLEAN, Failure(d), ~d => ~scrape.disturbed
    PROVE  Undisturbed' => ValuesTrue(scrape'.metrics, scrape'.n)
  <1>1. scrape \in Scrapes /\ scrape # None /\ scrape.n \in Index
    BY WaitingFacts
  <1>2. scrape.metrics \in [Index -> Int]
    BY <1>1, ScrapeFields
  <1>3. Undisturbed' => ValuesTrue(scrape.metrics, scrape.n)
    BY <1>1, FailureFields DEF Undisturbed, ValueInv
  <1>4. \/ scrape'.n = scrape.n /\ scrape'.metrics = scrape.metrics
        \/ scrape'.n = scrape.n + 1 /\ scrape'.metrics = [scrape.metrics EXCEPT ![scrape.n] = Failed]
    BY FailureFields
  <1>5. ValuesTrue(scrape.metrics, scrape.n) =>
          ValuesTrue([scrape.metrics EXCEPT ![scrape.n] = Failed], scrape.n + 1)
    BY <1>1, <1>2, ValueAdded
  <1> QED
    BY <1>3, <1>4, <1>5

LEMMA ValueNext == TypeInv /\ LineInv /\ ValueInv /\ [Next]_vars => ValueInv'
  <1> SUFFICES ASSUME TypeInv, LineInv, ValueInv, [Next]_vars PROVE ValueInv'
    OBVIOUS
  <1>1. CASE Start
    <2>1. scrape'.n = 1 /\ UNCHANGED inverter
      BY <1>1, StartIs DEF ScrapeOf
    <2> QED
      BY <2>1, ValuesStep DEF ValuesTrue
  <1>2. CASE Send
    <2>1. /\ scrape # None /\ scrape'.n = scrape.n /\ scrape'.metrics = scrape.metrics
          /\ scrape'.disturbed = scrape.disturbed /\ UNCHANGED inverter
      BY <1>2, SendIs DEF ScrapeOf
    <2> QED
      BY <2>1, ValuesStep DEF ValueInv, Undisturbed
  <1>3. CASE Read
    <2>1. /\ Waiting /\ scrape'.n = scrape.n + 1 /\ scrape'.disturbed = scrape.disturbed
          /\ scrape'.metrics = [scrape.metrics EXCEPT ![scrape.n] = Value]
          /\ UNCHANGED inverter
      BY <1>3, ReadIs, ReadFields
    <2>2. scrape \in Scrapes /\ scrape # None /\ scrape.n \in Index
      BY <2>1, WaitingFacts
    <2>3. scrape.metrics \in [Index -> Int]
      BY <2>2, ScrapeFields
    <2>4. Undisturbed' => Undisturbed
      BY <2>1, <2>2 DEF Undisturbed
    <2>5. Undisturbed => ValuesTrue(scrape.metrics, scrape.n) /\ Value \in {TrueValue(scrape.n), Failed}
      BY <1>3, ReadsItsOwn DEF ValueInv
    <2>6. Undisturbed => ValuesTrue([scrape.metrics EXCEPT ![scrape.n] = Value], scrape.n + 1)
      BY <2>2, <2>3, <2>5, ValueAdded
    <2> QED
      BY <2>1, <2>4, <2>6, ValuesStep
  <1>4. CASE ReadSpoilt
    <2>1. Waiting /\ Failure(scrape.disturbed) /\ UNCHANGED inverter
      BY <1>4, ReadSpoiltIs
    <2>2. scrape.disturbed \in BOOLEAN
      BY <2>1, WaitingFacts, ScrapeFields
    <2> QED
      BY <2>1, <2>2, FailureValues, ValuesStep
  <1>5. CASE Timeout
    <2> PICK d \in BOOLEAN : d = (scrape.disturbed \/ owed # <<>>)
      <3>1. (scrape.disturbed \/ owed # <<>>) \in BOOLEAN
        OBVIOUS
      <3> QED
        BY <3>1
    <2>1. Waiting /\ Failure(d) /\ UNCHANGED inverter
      BY <1>5, TimeoutIs
    <2> QED
      BY <2>1, FailureValues, ValuesStep
  <1>6. CASE Collect
    BY <1>6, CollectIs, ValuesStep DEF Undisturbed
  <1>7. CASE OthersStart
    <2> PICK t : t = [scrape EXCEPT !.disturbed = TRUE]
      OBVIOUS
    <2>1. scrape' = (IF scrape = None THEN None ELSE t) /\ UNCHANGED inverter
      BY <1>7 DEF OthersStart
    <2>2. scrape # None => t.disturbed = TRUE
      BY DEF TypeInv, TypeOK, Scrapes
    <2> QED
      BY <2>1, <2>2, ValuesStep DEF Undisturbed
  <1>8. CASE UNCHANGED <<inverter, scrape>>
    BY <1>8, ValuesStep DEF ValueInv, Undisturbed
  <1> QED
    BY <1>1, <1>2, <1>3, <1>4, <1>5, <1>6, <1>7, <1>8
       DEF Next, vars, InverterAnswers, InverterIgnores, OthersSend, OthersRead, OthersCollect

\* The report of this step holds the values of the scrape it ends.
LEMMA ReportStep ==
    ASSUME TypeInv, [Next]_vars
    PROVE  report' = None \/ Collect \/ UNCHANGED <<report, inverter>>
  BY DEF Next, vars, Start, Send, Read, ReadSpoilt, Timeout, InverterAnswers, InverterIgnores,
         OthersStart, OthersSend, OthersRead, OthersCollect

LEMMA ValuesNext == TypeInv /\ ValueInv /\ ValuesAreTheirOwn /\ [Next]_vars => ValuesAreTheirOwn'
  <1> SUFFICES ASSUME TypeInv, ValueInv, ValuesAreTheirOwn, [Next]_vars PROVE ValuesAreTheirOwn'
    OBVIOUS
  <1>1. CASE report' = None
    BY <1>1 DEF ValuesAreTheirOwn
  <1>2. CASE Collect
    <2>1. /\ scrape \in Scrapes /\ scrape # None /\ UNCHANGED inverter
          /\ report'.metrics = scrape.metrics /\ (report'.up <=> scrape.n > Len(Metrics))
          /\ report'.disturbed = scrape.disturbed
      BY <1>2, CollectIs
    <2>2. scrape.n \in 1 .. Len(Metrics) + 1 /\ Len(Metrics) \in Nat /\ scrape.n \in Nat
      BY <2>1, ScrapeFields
    <2> SUFFICES ASSUME report'.up, ~report'.disturbed, NEW i \in Index
                 PROVE  report'.metrics[i] \in {TrueValue(i)', Failed}
      BY DEF ValuesAreTheirOwn
    <2>3. ValuesTrue(scrape.metrics, scrape.n)
      BY <2>1 DEF ValueInv, Undisturbed
    <2>4. i \in 1 .. scrape.n - 1
      BY <2>1, <2>2 DEF Index
    <2>5. scrape.metrics[i] \in {TrueValue(i), Failed}
      BY <2>3, <2>4 DEF ValuesTrue
    <2>6. TrueValue(i)' = TrueValue(i)
      BY <2>1, InverterKept
    <2> QED
      BY <2>1, <2>5, <2>6
  <1>3. CASE UNCHANGED <<report, inverter>>
    <2>1. \A i : TrueValue(i)' = TrueValue(i)
      BY <1>3, InverterKept
    <2> QED
      BY <1>3, <2>1 DEF ValuesAreTheirOwn
  <1> QED
    BY <1>1, <1>2, <1>3, ReportStep

LEMMA OwnValues == Spec => [](LineInv /\ ValueInv)
  <1>1. Init => LineInv /\ ValueInv
    BY OwnInit
  <1>2. TypeInv /\ LineInv /\ ValueInv /\ [Next]_vars => LineInv' /\ ValueInv'
    BY LineNext, ValueNext
  <1> QED
    BY <1>1, <1>2, Types, PTL DEF Spec

\* Every value that is reported is the one in the metric's own registers, with
\* its sign and its word order, or -1, unless another scrape or a late answer
\* has disturbed the scrape.
THEOREM ValuesOwn == Spec => []ValuesAreTheirOwn
  <1>1. Init => ValuesAreTheirOwn
    BY DEF Init, ValuesAreTheirOwn
  <1>2. TypeInv /\ ValueInv /\ ValuesAreTheirOwn /\ [Next]_vars => ValuesAreTheirOwn'
    BY ValuesNext
  <1> QED
    BY <1>1, <1>2, Types, OwnValues, PTL DEF Spec

-----------------------------------------------------------------------------
(* Reports that are up have been read *)

\* The metrics up to n that say -1 although their register does not.
MissedOf(metrics, n) == {i \in 1 .. n - 1 : metrics[i] = Failed /\ TrueValue(i) # Failed}

\* No more are missing than were counted, and a third one is the latest.
Counted(metrics, n, missing) ==
    /\ Cardinality(MissedOf(metrics, n)) <= missing
    /\ missing = 3 => Cardinality(MissedOf(metrics, n - 1)) <= 2

Clear == scrape # None /\ (NothingReadsAsFailed \/ ~scrape.disturbed)

CountInv == Clear => Counted(scrape.metrics, scrape.n, scrape.missing)

LEMMA MissedFinite ==
    ASSUME NEW metrics, NEW n \in Nat
    PROVE  IsFiniteSet(MissedOf(metrics, n)) /\ Cardinality(MissedOf(metrics, n)) \in Nat
  <1>1. IsFiniteSet(1 .. n - 1)
    BY FS_Interval
  <1>2. MissedOf(metrics, n) \subseteq 1 .. n - 1
    BY DEF MissedOf
  <1> QED
    BY <1>1, <1>2, FS_Subset, FS_CardinalityType

\* A value that is not a false -1 adds nothing to what is missing, and a
\* failure at most itself.
LEMMA MissedAfter ==
    ASSUME NEW n \in Index, NEW metrics, NEW m, \A i \in Index \ {n} : m[i] = metrics[i]
    PROVE  /\ MissedOf(m, n) = MissedOf(metrics, n)
           /\ MissedOf(m, n + 1) \subseteq MissedOf(metrics, n) \cup {n}
           /\ m[n] # Failed \/ m[n] = TrueValue(n) => MissedOf(m, n + 1) = MissedOf(metrics, n)
  <1>1. Len(Metrics) \in Nat /\ n \in Nat /\ 1 .. (n + 1) - 1 = 1 .. n
    BY MetricsLength DEF Index
  <1>2. \A i \in 1 .. n - 1 : i \in Index /\ i # n /\ m[i] = metrics[i]
    BY <1>1 DEF Index
  <1>4. \A i \in 1 .. n : i = n \/ i \in 1 .. n - 1
    BY <1>1
  <1>5. \A i \in 1 .. n - 1 : i \in 1 .. n
    BY <1>1
  <1>6. MissedOf(m, n) = MissedOf(metrics, n)
    BY <1>2 DEF MissedOf
  <1>7. MissedOf(m, n + 1) = {i \in 1 .. n : m[i] = Failed /\ TrueValue(i) # Failed}
    BY <1>1 DEF MissedOf
  <1>8. MissedOf(m, n + 1) \subseteq MissedOf(m, n) \cup {n}
    BY <1>4, <1>7 DEF MissedOf
  <1>9. MissedOf(m, n) \subseteq MissedOf(m, n + 1)
    BY <1>5, <1>7 DEF MissedOf
  <1>10. m[n] # Failed \/ m[n] = TrueValue(n) => n \notin MissedOf(m, n + 1)
    BY <1>7
  <1>11. m[n] # Failed \/ m[n] = TrueValue(n) => MissedOf(m, n + 1) = MissedOf(m, n)
    BY ONLY <1>8, <1>9, <1>10
  <1> QED
    BY ONLY <1>6, <1>8, <1>11

LEMMA FailureCounted ==
    ASSUME NEW n \in Index, NEW metrics \in [Index -> Int], NEW missing \in 0 .. 2,
           NEW m, m = [metrics EXCEPT ![n] = Failed], Counted(metrics, n, missing)
    PROVE  Counted(m, n + 1, missing + 1)
  <1>1. n \in Nat /\ n + 1 \in Nat /\ (n + 1) - 1 = n /\ Failed \in Int
    BY MetricFacts DEF Failed
  <1> PICK old : old = MissedOf(metrics, n)
    OBVIOUS
  <1>2. IsFiniteSet(old) /\ Cardinality(old) \in Nat /\ Cardinality(old) <= missing
    BY <1>1, MissedFinite DEF Counted
  <1>3. MissedOf(m, n) = old /\ MissedOf(m, n + 1) \subseteq old \cup {n}
    <2>1. \A i \in Index \ {n} : m[i] = metrics[i]
      OBVIOUS
    <2> QED
      BY <2>1, MissedAfter
  <1>4. IsFiniteSet(old \cup {n}) /\ Cardinality(old \cup {n}) <= Cardinality(old) + 1
        /\ Cardinality(old \cup {n}) \in Nat
    <2>1. IsFiniteSet(old \cup {n})
          /\ Cardinality(old \cup {n}) = IF n \in old THEN Cardinality(old) ELSE Cardinality(old) + 1
      BY <1>2, FS_AddElement
    <2> QED
      BY <1>2, <2>1
  <1>5. Cardinality(MissedOf(m, n + 1)) <= Cardinality(old \cup {n})
    BY <1>3, <1>4, FS_Subset
  <1>6. Cardinality(MissedOf(m, n + 1)) \in Nat
    BY <1>1, MissedFinite
  <1>7. Cardinality(MissedOf(m, n + 1)) <= missing + 1
    BY ONLY <1>2, <1>4, <1>5, <1>6, missing \in 0 .. 2
  <1>8. missing + 1 = 3 => Cardinality(MissedOf(m, (n + 1) - 1)) <= 2
    BY <1>1, <1>2, <1>3
  <1> QED
    BY <1>7, <1>8 DEF Counted

\* A value that was read leaves the count as it is.
LEMMA ReadCounted ==
    ASSUME NEW n \in Index, NEW metrics \in [Index -> Int], NEW missing \in 0 .. 2, NEW v \in Int,
           NEW m, m = [metrics EXCEPT ![n] = v], v # Failed \/ v = TrueValue(n),
           Counted(metrics, n, missing)
    PROVE  Counted(m, n + 1, missing)
  <1>1. m[n] = v /\ \A i \in Index \ {n} : m[i] = metrics[i]
    OBVIOUS
  <1>2. MissedOf(m, n + 1) = MissedOf(metrics, n)
    BY <1>1, MissedAfter
  <1> QED
    BY <1>2 DEF Counted

LEMMA CountStep ==
    ASSUME UNCHANGED inverter, Clear' => Counted(scrape'.metrics, scrape'.n, scrape'.missing)
    PROVE  CountInv'
  <1>1. \A i : TrueValue(i)' = TrueValue(i)
    BY InverterKept
  <1>2. /\ MissedOf(scrape.metrics, scrape.n)' = MissedOf(scrape'.metrics, scrape'.n)
        /\ MissedOf(scrape.metrics, scrape.n - 1)' = MissedOf(scrape'.metrics, scrape'.n - 1)
    BY <1>1 DEF MissedOf
  <1> QED
    BY <1>2 DEF CountInv, Counted

\* A failed try leaves the count as it was, or adds one to both sides.
LEMMA FailureCounts ==
    ASSUME TypeInv, Waiting, CountInv, NEW d \in BOOLEAN, Failure(d), ~d => ~scrape.disturbed,
           UNCHANGED inverter
    PROVE  Clear' => Counted(scrape'.metrics, scrape'.n, scrape'.missing)
  <1>1. scrape \in Scrapes /\ scrape # None /\ scrape.n \in Index /\ scrape.missing \in 0 .. 2
    BY WaitingFacts
  <1>2. scrape.metrics \in [Index -> Int]
    BY <1>1, ScrapeFields
  <1>3. Clear' => Clear
    <2>1. scrape' # None /\ scrape'.disturbed = d
      BY FailureFields
    <2>2. NothingReadsAsFailed' <=> NothingReadsAsFailed
      BY InverterKept
    <2> QED
      BY <1>1, <2>1, <2>2 DEF Clear
  <1>4. Clear => Counted(scrape.metrics, scrape.n, scrape.missing)
    BY DEF CountInv
  <1>5. Clear => Counted([scrape.metrics EXCEPT ![scrape.n] = Failed], scrape.n + 1, scrape.missing + 1)
    BY <1>1, <1>2, <1>4, FailureCounted
  <1>6. \/ /\ scrape'.n = scrape.n /\ scrape'.missing = scrape.missing
           /\ scrape'.metrics = scrape.metrics
        \/ /\ scrape'.n = scrape.n + 1 /\ scrape'.missing = scrape.missing + 1
           /\ scrape'.metrics = [scrape.metrics EXCEPT ![scrape.n] = Failed]
    BY FailureFields
  <1> QED
    BY <1>3, <1>4, <1>5, <1>6

LEMMA CountNext == TypeInv /\ LineInv /\ CountInv /\ [Next]_vars => CountInv'
  <1> SUFFICES ASSUME TypeInv, LineInv, CountInv, [Next]_vars PROVE CountInv'
    OBVIOUS
  <1>1. CASE Start
    <2>1. scrape'.n = 1 /\ scrape'.missing = 0 /\ UNCHANGED inverter
      BY <1>1, StartIs DEF ScrapeOf
    <2>2. MissedOf(scrape'.metrics, 1) = {}
      BY DEF MissedOf
    <2>3. Counted(scrape'.metrics, scrape'.n, scrape'.missing)
      BY <2>1, <2>2, FS_EmptySet DEF Counted
    <2> QED
      BY <2>1, <2>3, CountStep
  <1>2. CASE Send
    <2>1. /\ scrape # None /\ scrape'.n = scrape.n /\ scrape'.metrics = scrape.metrics
          /\ scrape'.disturbed = scrape.disturbed /\ scrape'.missing = scrape.missing
          /\ UNCHANGED inverter
      BY <1>2, SendIs DEF ScrapeOf
    <2>2. NothingReadsAsFailed' <=> NothingReadsAsFailed
      BY <2>1, InverterKept
    <2> QED
      BY <2>1, <2>2, CountStep DEF CountInv, Clear
  <1>3. CASE Read
    <2>1. /\ Waiting /\ scrape'.n = scrape.n + 1 /\ scrape'.disturbed = scrape.disturbed
          /\ scrape'.missing = scrape.missing
          /\ scrape'.metrics = [scrape.metrics EXCEPT ![scrape.n] = Value]
          /\ Value \in Int /\ (NothingReadsAsFailed => Value # Failed) /\ UNCHANGED inverter
      BY <1>3, ReadIs, ReadFields
    <2>2. scrape \in Scrapes /\ scrape # None /\ scrape.n \in Index /\ scrape.missing \in 0 .. 2
      BY <2>1, WaitingFacts
    <2>3. scrape.metrics \in [Index -> Int]
      BY <2>2, ScrapeFields
    <2>4. NothingReadsAsFailed' <=> NothingReadsAsFailed
      BY <2>1, InverterKept
    <2>5. Clear' => Clear
      BY <2>1, <2>2, <2>4 DEF Clear
    <2>6. Clear => Value # Failed \/ Value = TrueValue(scrape.n)
      BY <1>3, <2>1, ReadsItsOwn DEF Clear, Undisturbed
    <2>7. Clear => Counted(scrape.metrics, scrape.n, scrape.missing)
      BY DEF CountInv
    <2>8. Clear => Counted([scrape.metrics EXCEPT ![scrape.n] = Value], scrape.n + 1, scrape.missing)
      BY <2>1, <2>2, <2>3, <2>6, <2>7, ReadCounted
    <2> QED
      BY <2>1, <2>5, <2>8, CountStep
  <1>4. CASE ReadSpoilt
    <2>1. Waiting /\ Failure(scrape.disturbed) /\ UNCHANGED inverter
      BY <1>4, ReadSpoiltIs
    <2>2. scrape.disturbed \in BOOLEAN
      BY <2>1, WaitingFacts, ScrapeFields
    <2> QED
      BY <2>1, <2>2, FailureCounts, CountStep
  <1>5. CASE Timeout
    <2> PICK d \in BOOLEAN : d = (scrape.disturbed \/ owed # <<>>)
      <3>1. (scrape.disturbed \/ owed # <<>>) \in BOOLEAN
        OBVIOUS
      <3> QED
        BY <3>1
    <2>1. Waiting /\ Failure(d) /\ UNCHANGED inverter
      BY <1>5, TimeoutIs
    <2> QED
      BY <2>1, FailureCounts, CountStep
  <1>6. CASE Collect
    BY <1>6, CollectIs, CountStep DEF Clear
  <1>7. CASE OthersStart
    <2> PICK t : t = [scrape EXCEPT !.disturbed = TRUE]
      OBVIOUS
    <2>1. scrape' = (IF scrape = None THEN None ELSE t) /\ UNCHANGED inverter
      BY <1>7 DEF OthersStart
    <2>2. scrape # None => /\ t.disturbed = TRUE /\ t.n = scrape.n
                           /\ t.missing = scrape.missing /\ t.metrics = scrape.metrics
      BY DEF TypeInv, TypeOK, Scrapes
    <2>3. NothingReadsAsFailed' <=> NothingReadsAsFailed
      BY <2>1, InverterKept
    <2> QED
      BY <2>1, <2>2, <2>3, CountStep DEF Clear, CountInv
  <1>8. CASE UNCHANGED <<inverter, scrape>>
    <2>1. NothingReadsAsFailed' <=> NothingReadsAsFailed
      BY <1>8, InverterKept
    <2> QED
      BY <1>8, <2>1, CountStep DEF CountInv, Clear
  <1> QED
    BY <1>1, <1>2, <1>3, <1>4, <1>5, <1>6, <1>7, <1>8
       DEF Next, vars, InverterAnswers, InverterIgnores, OthersSend, OthersRead, OthersCollect

\* What is counted when the table is through.
LEMMA CountedAtEnd ==
    ASSUME NEW metrics, NEW missing \in 0 .. 3, Counted(metrics, Len(Metrics) + 1, missing)
    PROVE  LET missed == MissedOf(metrics, Len(Metrics) + 1)
           IN  \/ Cardinality(missed) <= 2
               \/ Cardinality(missed) = 3 /\ Len(Metrics) \in missed
  <1> PICK last : last = Len(Metrics)
    OBVIOUS
  <1> PICK missed : missed = MissedOf(metrics, last + 1)
    OBVIOUS
  <1> PICK before : before = MissedOf(metrics, last)
    OBVIOUS
  <1>1. last \in Nat /\ last + 1 \in Nat /\ (last + 1) - 1 = last
    BY MetricsLength
  <1>2. /\ IsFiniteSet(missed) /\ Cardinality(missed) \in Nat
        /\ IsFiniteSet(before) /\ Cardinality(before) \in Nat
    BY <1>1, MissedFinite
  <1>3. Cardinality(missed) <= missing /\ (missing = 3 => Cardinality(before) <= 2)
    BY <1>1 DEF Counted
  <1>4. last \notin missed => missed \subseteq before
    <2>1. \A i \in 1 .. last : i # last => i \in 1 .. last - 1
      BY <1>1
    <2> QED
      BY <1>1, <2>1 DEF MissedOf
  <1>5. Cardinality(missed) <= 2 \/ Cardinality(missed) = 3
    BY ONLY <1>2, <1>3, missing \in 0 .. 3
  <1>6. last \notin missed => Cardinality(missed) <= 2
    <2> HAVE last \notin missed
    <2>1. Cardinality(missed) <= Cardinality(before)
      BY <1>2, <1>4, FS_Subset
    <2> QED
      BY ONLY <1>2, <1>3, <2>1, missing \in 0 .. 3
  <1>7. \/ Cardinality(missed) <= 2
        \/ Cardinality(missed) = 3 /\ last \in missed
    BY ONLY <1>5, <1>6
  <1> QED
    BY <1>7

LEMMA UpNext == TypeInv /\ CountInv /\ UpMeansRead /\ [Next]_vars => UpMeansRead'
  <1> SUFFICES ASSUME TypeInv, CountInv, UpMeansRead, [Next]_vars PROVE UpMeansRead'
    OBVIOUS
  <1>1. CASE report' = None
    BY <1>1 DEF UpMeansRead
  <1>2. CASE Collect
    <2>1. /\ scrape \in Scrapes /\ scrape # None /\ UNCHANGED inverter
          /\ report'.metrics = scrape.metrics /\ (report'.up <=> scrape.n > Len(Metrics))
          /\ report'.disturbed = scrape.disturbed
      BY <1>2, CollectIs
    <2>2. /\ scrape.n \in 1 .. Len(Metrics) + 1 /\ Len(Metrics) \in Nat /\ scrape.n \in Nat
          /\ scrape.missing \in 0 .. 3
      BY <2>1, ScrapeFields
    <2>3. NothingReadsAsFailed' <=> NothingReadsAsFailed
      BY <2>1, InverterKept
    <2> SUFFICES ASSUME report'.up, NothingReadsAsFailed' \/ ~report'.disturbed
                 PROVE  \/ Cardinality(Unread') <= 2
                        \/ Cardinality(Unread') = 3 /\ Len(Metrics) \in Unread'
      BY DEF UpMeansRead
    <2>4. scrape.n = Len(Metrics) + 1 /\ Counted(scrape.metrics, scrape.n, scrape.missing)
      BY <2>1, <2>2, <2>3 DEF CountInv, Clear
    <2>5. Unread' = MissedOf(scrape.metrics, Len(Metrics) + 1)
      <3>1. \A i : TrueValue(i)' = TrueValue(i)
        BY <2>1, InverterKept
      <3>2. 1 .. (Len(Metrics) + 1) - 1 = Index
        BY <2>2 DEF Index
      <3>3. Unread' = {i \in Index : scrape.metrics[i] = Failed /\ TrueValue(i) # Failed}
        BY <2>1, <3>1 DEF Unread
      <3> QED
        BY <3>2, <3>3 DEF MissedOf
    <2> QED
      BY <2>2, <2>4, <2>5, CountedAtEnd
  <1>3. CASE UNCHANGED <<report, inverter>>
    <2>1. \A i : TrueValue(i)' = TrueValue(i)
      BY <1>3, InverterKept
    <2>2. Unread' = Unread
      BY <1>3, <2>1 DEF Unread
    <2>3. NothingReadsAsFailed' <=> NothingReadsAsFailed
      BY <1>3, InverterKept
    <2> QED
      BY <1>3, <2>2, <2>3 DEF UpMeansRead
  <1> QED
    BY <1>1, <1>2, <1>3, ReportStep

\* The inverter is reported as up only when at most two metrics could not be
\* fetched, or three of which one is the last: provided that no register reads
\* as -1, or that nothing has disturbed the scrape.
THEOREM UpIsRead == Spec => []UpMeansRead
  <1>1. Init => CountInv /\ UpMeansRead
    BY DEF Init, CountInv, Clear, UpMeansRead
  <1>2. TypeInv /\ LineInv /\ CountInv /\ UpMeansRead /\ [Next]_vars => CountInv' /\ UpMeansRead'
    BY CountNext, UpNext
  <1> QED
    BY <1>1, <1>2, Types, OwnValues, PTL DEF Spec

=============================================================================
