--------------------------- MODULE PowerDBProofs ---------------------------
(***************************************************************************)
(* Proofs about PowerDB and BillPeriods, for any half hour, time zones,    *)
(* pulses and bills.                                                       *)
(*                                                                         *)
(* What time.Date and the names of the logs make of a half hour comes      *)
(* first; then that a row holds the pulses of its half hour, that the      *)
(* table has no gap but where time.Date went on, for which the program in  *)
(* progress must be at the period after some row, and that the bills split *)
(* the rows.                                                               *)
(***************************************************************************)
EXTENDS BillPeriods, FiniteSetTheorems, TLAPS

-----------------------------------------------------------------------------
(* Boundaries of half hours *)

LEMMA Division ==
    ASSUME NEW H \in Nat \ {0}, NEW t \in Int
    PROVE  \E q \in Int, r \in 0 .. H - 1 :
              t \div H = q /\ t % H = r /\ H * q \in Int /\ t = H * q + r
  <1> PICK q : q = t \div H
    OBVIOUS
  <1> PICK r : r = t % H
    OBVIOUS
  <1>1. q \in Int /\ r \in Int /\ 0 <= r /\ r < H
    OBVIOUS
  <1>2. H * q \in Int
    BY ONLY <1>1, H \in Nat \ {0}
  <1>3. t % H = t - H * (t \div H)
    OBVIOUS
  <1>4. t = H * q + r
    BY <1>1, <1>2, <1>3
  <1>5. r \in 0 .. H - 1
    BY ONLY <1>1, H \in Nat \ {0}
  <1> QED
    BY <1>1, <1>2, <1>4, <1>5

LEMMA Quotient ==
    ASSUME NEW H \in Nat \ {0}, NEW q \in Int, NEW r \in 0 .. H - 1, NEW t \in Int, t = H * q + r
    PROVE  t \div H = q /\ t % H = r
  <1>1. PICK p \in Int, s \in 0 .. H - 1 : t \div H = p /\ t % H = s /\ t = H * p + s
    BY Division
  <1>2. H * q + r = H * p + s
    BY <1>1
  <1>3. q = p /\ r = s
    BY ONLY <1>2, H \in Nat \ {0}, q \in Int, p \in Int, r \in 0 .. H - 1, s \in 0 .. H - 1
  <1> QED
    BY <1>1, <1>3

\* A shift by a multiple of a half hour leaves the remainder.
LEMMA Shifted ==
    ASSUME NEW H \in Nat \ {0}, NEW t \in Int, NEW o \in Int, o % H = 0
    PROVE  (t + o) % H = t % H /\ (t - o) % H = t % H
  <1>1. PICK q \in Int, r \in 0 .. H - 1 : t % H = r /\ t = H * q + r
    BY Division
  <1>2. PICK p \in Int : o = H * p
    <2>1. PICK p \in Int, s \in 0 .. H - 1 : o % H = s /\ o = H * p + s /\ H * p \in Int
      BY Division
    <2>2. o = H * p
      BY <2>1
    <2> QED
      BY <2>2
  <1>3. t + o = H * (q + p) + r /\ q + p \in Int
    BY <1>1, <1>2
  <1>4. t - o = H * (q - p) + r /\ q - p \in Int
    BY <1>1, <1>2
  <1>5. (t + o) % H = r
    BY <1>3, Quotient
  <1>6. (t - o) % H = r
    BY <1>4, Quotient
  <1> QED
    BY <1>1, <1>5, <1>6

LEMMA Aligned ==
    ASSUME NEW H \in Nat \ {0}, NEW t \in Nat
    PROVE  /\ \E r \in 0 .. H - 1 : t % H = r /\ t - r \in Nat /\ (t - r) % H = 0
           /\ H % H = 0
  <1>1. PICK q \in Int, r \in 0 .. H - 1 : t % H = r /\ t = H * q + r /\ H * q \in Int
    BY Division
  <1>2. t - r = H * q + 0 /\ 0 \in 0 .. H - 1 /\ t - r \in Int
    BY <1>1
  <1>3. (t - r) % H = 0
    BY <1>1, <1>2, Quotient
  <1>4. t - r \in Nat
    <2>1. q >= 0
      BY ONLY <1>1, H \in Nat \ {0}, t \in Nat
    <2>2. H * q >= 0
      BY ONLY <2>1, q \in Int, H \in Nat \ {0}
    <2> QED
      BY <1>1, <1>2, <2>2
  <1>5. H % H = 0
    <2>1. H = H * 1 + 0 /\ 0 \in 0 .. H - 1 /\ 1 \in Int /\ H \in Int
      OBVIOUS
    <2> QED
      BY <2>1, Quotient
  <1> QED
    BY <1>1, <1>3, <1>4, <1>5

\* Two boundaries are a half hour apart.
LEMMA Apart ==
    ASSUME NEW H \in Nat \ {0}, NEW a \in Int, NEW b \in Int, a % H = 0, b % H = 0, a < b
    PROVE  a <= b - H
  <1>1. PICK p \in Int : a = H * p
    <2>1. PICK p \in Int, s \in 0 .. H - 1 : a % H = s /\ a = H * p + s /\ H * p \in Int
      BY Division
    <2> QED
      BY <2>1
  <1>2. PICK q \in Int : b = H * q
    <2>1. PICK q \in Int, s \in 0 .. H - 1 : b % H = s /\ b = H * q + s /\ H * q \in Int
      BY Division
    <2> QED
      BY <2>1
  <1>3. p < q
    <2>1. CASE p >= q
      <3>1. H * p >= H * q
        BY ONLY <2>1, p \in Int, q \in Int, H \in Nat \ {0}
      <3> QED
        BY <1>1, <1>2, <3>1
    <2> QED
      BY <2>1
  <1>4. p + 1 <= q
    BY <1>3
  <1>5. H * (p + 1) <= H * q
    BY ONLY <1>4, p \in Int, q \in Int, H \in Nat \ {0}
  <1>6. H * (p + 1) = a + H
    BY <1>1
  <1> QED
    BY <1>2, <1>5, <1>6

\* The moments of a half hour are in the hour that GetPeriodFilename names.
LEMMA InOneFile ==
    ASSUME NEW H \in Nat \ {0}, NEW d \in Nat, d % H = 0, NEW t \in Nat, d - H <= t, t < d
    PROVE  t \div (2 * H) = IF d % (2 * H) = 0 THEN d \div (2 * H) - 1 ELSE d \div (2 * H)
  <1>1. PICK k \in Int : d = H * k
    <2>1. PICK k \in Int, s \in 0 .. H - 1 : d % H = s /\ d = H * k + s /\ H * k \in Int
      BY Division
    <2> QED
      BY <2>1
  <1> PICK G : G = 2 * H
    OBVIOUS
  <1>2. G \in Nat \ {0}
    OBVIOUS
  <1>3. PICK j \in Int, e \in 0 .. G - 1 : d \div G = j /\ d % G = e /\ G * j \in Int /\ d = G * j + e
    BY <1>2, Division
  <1>4. CASE e = 0
    <2>1. t = G * (j - 1) + (G - (d - t)) /\ j - 1 \in Int
      <3>1. G * (j - 1) = G * j - G
        BY ONLY <1>2, j \in Int
      <3> QED
        BY <1>2, <1>3, <1>4, <3>1
    <2>2. G - (d - t) \in 0 .. G - 1
      OBVIOUS
    <2>3. t \div G = j - 1
      BY <1>2, <2>1, <2>2, Quotient
    <2> QED
      BY <1>3, <1>4, <2>3
  <1>5. CASE e # 0
    <2>1. e = H
      <3>1. e = H * (k - 2 * j) /\ k - 2 * j \in Int
        <4>1. G * j = H * (2 * j)
          BY ONLY G = 2 * H, H \in Nat \ {0}, j \in Int
        <4>2. H * (k - 2 * j) = H * k - H * (2 * j)
          BY ONLY H \in Nat \ {0}, j \in Int, k \in Int
        <4> QED
          BY <1>1, <1>3, <4>1, <4>2
      <3> PICK m : m = k - 2 * j
        OBVIOUS
      <3>2. m \in Int /\ e = H * m /\ 0 < e /\ e < 2 * H
        BY <1>5, <3>1
      <3>3. m > 0
        BY ONLY <3>2, H \in Nat \ {0}
      <3>4. m < 2
        BY ONLY <3>2, H \in Nat \ {0}
      <3>5. m = 1
        BY ONLY <3>2, <3>3, <3>4
      <3> QED
        BY <3>2, <3>5
    <2>2. t = G * j + (H - (d - t)) /\ H - (d - t) \in 0 .. G - 1
      BY <1>2, <1>3, <2>1
    <2>3. t \div G = j
      BY <1>2, <2>2, Quotient
    <2> QED
      BY <1>3, <1>5, <2>3
  <1> QED
    BY <1>4, <1>5

-----------------------------------------------------------------------------
(* Periods *)

PeriodInv ==
    /\ TypeOK
    /\ program # Null => \E p \in Rows \cup {First} : program.d = GetNextPeriod(p)

LEMMA ZoneFacts ==
    ASSUME zone \in Zones, NEW t \in Times
    PROVE  /\ Offset[zone][t] \in Nat /\ Local(t) \in Nat /\ t \in Nat
           /\ Date[zone][Local(t)] \in Times /\ Local(Date[zone][Local(t)]) = Local(t)
           /\ Offset[zone][t] % HalfHour = 0
           /\ Offset[zone][t] = Offset[zone][t - (t % HalfHour)]
  <1>1. /\ Offset[zone] \in [Times -> Nat]
        /\ Date[zone][t + Offset[zone][t]] \in Times
        /\ Date[zone][t + Offset[zone][t]] + Offset[zone][Date[zone][t + Offset[zone][t]]]
              = t + Offset[zone][t]
        /\ Offset[zone][t] % HalfHour = 0
        /\ Offset[zone][t] = Offset[zone][t - (t % HalfHour)]
    BY ZonesAssumption
  <1>2. t \in Nat
    BY TimeAssumption DEF Times
  <1>3. Offset[zone][t] \in Nat
    BY <1>1
  <1> QED
    BY <1>1, <1>2, <1>3 DEF Local

\* The local time of a period is a boundary, and of a boundary a period.
LEMMA LocalPeriod ==
    ASSUME zone \in Zones, NEW t \in Times
    PROVE  Local(t) % HalfHour = t % HalfHour
  <1> PICK o : o = Offset[zone][t]
    OBVIOUS
  <1>1. o \in Nat /\ t \in Nat /\ o % HalfHour = 0
    BY ZoneFacts
  <1>2. o \in Int /\ t \in Int /\ HalfHour \in Nat \ {0}
    BY <1>1, TimeAssumption
  <1>3. (t + o) % HalfHour = t % HalfHour
    BY ONLY <1>1, <1>2, Shifted
  <1> QED
    BY <1>3 DEF Local

LEMMA PeriodFacts ==
    ASSUME zone \in Zones, NEW p \in Periods
    PROVE  /\ p \in Times /\ p \in Nat /\ Local(p) % HalfHour = 0
           /\ GetLastFullPeriod(p) = Date[zone][Local(p)]
           /\ GetLastFullPeriod(p) \in Periods
           /\ GetNextPeriod(p) \in Nat /\ GetNextPeriod(p) % HalfHour = 0
  <1>1. p \in Times /\ p % HalfHour = 0
    BY DEF Periods
  <1>2. Local(p) \in Nat /\ Local(p) % HalfHour = 0 /\ p \in Nat
    BY <1>1, ZoneFacts, LocalPeriod
  <1>3. GetLastFullPeriod(p) = Date[zone][Local(p)]
    <2>1. Local(p) - (Local(p) % HalfHour) = Local(p)
      BY <1>2
    <2> QED
      BY <2>1 DEF GetLastFullPeriod
  <1> PICK m : m = Date[zone][Local(p)]
    OBVIOUS
  <1>4. m \in Times /\ Local(m) = Local(p)
    BY <1>1, ZoneFacts
  <1>5. m % HalfHour = 0 /\ m \in Nat
    BY <1>2, <1>4, LocalPeriod, ZoneFacts
  <1>6. m + HalfHour \in Nat /\ (m + HalfHour) % HalfHour = 0
    <2>1. HalfHour \in Nat \ {0} /\ HalfHour \in Int /\ HalfHour \in Nat /\ m \in Int
      BY <1>5, TimeAssumption
    <2>2. HalfHour % HalfHour = 0
      BY ONLY <2>1, Aligned
    <2>3. (m + HalfHour) % HalfHour = m % HalfHour
      BY ONLY <2>1, <2>2, Shifted
    <2> QED
      BY <1>5, <2>1, <2>3
  <1> QED
    BY <1>1, <1>2, <1>3, <1>4, <1>5, <1>6 DEF Periods, GetNextPeriod

\* The last full period of any moment.
LEMMA LastFullPeriod ==
    ASSUME zone \in Zones, NEW t \in Times
    PROVE  GetLastFullPeriod(t) \in Periods
  <1>1. t \in Nat /\ HalfHour \in Nat \ {0} /\ HalfHour \in Int
    BY ZoneFacts, TimeAssumption
  <1>2. PICK r \in 0 .. HalfHour - 1 :
               t % HalfHour = r /\ t - r \in Nat /\ (t - r) % HalfHour = 0
    BY ONLY <1>1, Aligned
  <1>3. t - r \in Times
    BY <1>1, <1>2, TimeAssumption DEF Times
  <1>4. t - r \in Periods
    BY <1>2, <1>3 DEF Periods
  <1>5. Local(t) - (Local(t) % HalfHour) = Local(t - r)
    <2>1. Local(t) % HalfHour = r
      BY <1>2, LocalPeriod
    <2> PICK o : o = Offset[zone][t]
      OBVIOUS
    <2>2. o = Offset[zone][t - r] /\ o \in Nat /\ r \in Int
      <3>1. o \in Nat /\ o = Offset[zone][t - (t % HalfHour)]
        BY ZoneFacts
      <3> QED
        BY <1>1, <1>2, <3>1
    <2>3. Local(t) = t + o /\ Local(t - r) = (t - r) + o
      BY <2>2 DEF Local
    <2>4. (t + o) - r = (t - r) + o
      BY ONLY <1>1, <2>2
    <2> QED
      BY <2>1, <2>3, <2>4
  <1>6. GetLastFullPeriod(t) = Date[zone][Local(t - r)]
    BY <1>5 DEF GetLastFullPeriod
  <1> QED
    BY <1>4, <1>6, PeriodFacts

\* A finite set has an element whose value no other one exceeds.
LEMMA Largest ==
    ASSUME NEW S, IsFiniteSet(S), S # {}, NEW f \in [S -> Int]
    PROVE  \E x \in S : \A y \in S : f[y] <= f[x]
  <1> DEFINE Above(x) == {y \in S : f[x] < f[y]}
             T == {Above(x) : x \in S}
             R == StrictSubsetOrdering(S)
  <1>1. IsWellFoundedOn(R, FiniteSubsetsOf(S))
    BY FS_StrictSubsetOrderingWellFounded
  <1>2. \A x \in S : IsFiniteSet(Above(x))
    BY FS_Subset
  <1>3. T \subseteq FiniteSubsetsOf(S) /\ T # {}
    <2>1. \A x \in S : Above(x) \in FiniteSubsetsOf(S)
      <3> SUFFICES ASSUME NEW x \in S PROVE Above(x) \in FiniteSubsetsOf(S)
        OBVIOUS
      <3> DEFINE a == Above(x)
      <3>1. IsFiniteSet(a) /\ a \in SUBSET S
        BY <1>2
      <3> HIDE DEF a
      <3>2. a \in FiniteSubsetsOf(S)
        BY <3>1 DEF FiniteSubsetsOf
      <3> QED
        BY <3>2 DEF a
    <2>2. T \subseteq FiniteSubsetsOf(S)
      BY <2>1
    <2>3. PICK x \in S : TRUE
      OBVIOUS
    <2>4. Above(x) \in T
      BY <2>3
    <2> QED
      BY <2>2, <2>4
  <1> HIDE DEF R
  <1>4. \E m \in T : \A n \in T : ~(<<n, m>> \in R)
    <2> HIDE DEF T
    <2> QED
      BY <1>1, <1>3, WFMin
  <1>5. PICK x \in S : \A y \in S : ~(<<Above(y), Above(x)>> \in R)
    BY <1>4
  <1> SUFFICES ASSUME NEW y \in S, ~(f[y] <= f[x]) PROVE FALSE
    BY <1>5
  <1>6. f[x] \in Int /\ f[y] \in Int /\ f[x] < f[y]
    OBVIOUS
  <1>7. Above(y) \subseteq Above(x)
    BY <1>6
  <1>8. y \in Above(x) /\ y \notin Above(y)
    BY <1>6
  <1>9. <<Above(y), Above(x)>> \in R
    <2> DEFINE a == Above(y)
               b == Above(x)
    <2>1. a \in SUBSET S /\ b \in SUBSET S
      OBVIOUS
    <2>2. a \subseteq b /\ a # b
      BY <1>7, <1>8
    <2> HIDE DEF a, b
    <2> QED
      BY <2>1, <2>2 DEF R, StrictSubsetOrdering
  <1> QED
    BY <1>5, <1>9

\* The program goes on after one of the rows, or after the sentinel.
LEMMA LastUpdate ==
    ASSUME zone \in Zones
    PROVE  GetLastUpdate \in Rows \cup {First}
  <1>1. CASE Rows = {}
    BY <1>1 DEF GetLastUpdate
  <1>2. CASE Rows # {}
    <2> PICK S : S = Rows
      OBVIOUS
    <2>1. S \subseteq Times /\ S # {}
      BY <1>2 DEF Rows, Periods
    <2>2. IsFiniteSet(S)
      <3>1. IsFiniteSet(Times)
        BY TimeAssumption, FS_Interval DEF Times
      <3> QED
        BY <2>1, <3>1, FS_Subset
    <2> PICK f : f = [p \in S |-> Local(p)]
      OBVIOUS
    <2>3. f \in [S -> Int]
      BY <2>1, ZoneFacts
    <2>4. \E p \in S : \A q \in S : f[q] <= f[p]
      BY ONLY <2>1, <2>2, <2>3, Largest
    <2>5. \E p \in Rows : \A q \in Rows : Local(q) <= Local(p)
      BY <2>4
    <2> QED
      BY <1>2, <2>5 DEF GetLastUpdate
  <1> QED
    BY <1>1, <1>2

-----------------------------------------------------------------------------
(* Rows and gaps *)

LEMMA PulsesCounted ==
    ASSUME TypeOK, NEW p
    PROVE  IsFiniteSet(PulsesIn(p)) /\ Cardinality(PulsesIn(p)) \in Nat
  <1>1. IsFiniteSet(pulses)
    BY TimeAssumption DEF TypeOK
  <1>2. PulsesIn(p) \subseteq pulses
    BY DEF PulsesIn
  <1> QED
    BY <1>1, <1>2, FS_Subset, FS_CardinalityType

\* What the steps of the program do.
LEMMA StartIs ==
    ASSUME TypeOK, Start
    PROVE  /\ \E p \in Rows \cup {First} : program'.d = GetNextPeriod(p)
           /\ program' \in [d : Nat, previousPeriod : Periods] /\ program'.d % HalfHour = 0
           /\ UNCHANGED <<now, zone, pulses, copied, db>>
  <1>1. PICK p \in Rows \cup {First} : p = GetLastUpdate
    BY LastUpdate DEF TypeOK
  <1>2. p \in Periods
    BY TimeAssumption DEF Rows
  <1> PICK d : d = GetNextPeriod(p)
    OBVIOUS
  <1>3. d \in Nat /\ d % HalfHour = 0
    BY <1>2, PeriodFacts DEF TypeOK
  <1> PICK m : m = GetLastFullPeriod(now)
    OBVIOUS
  <1>4. m \in Periods
    BY LastFullPeriod DEF TypeOK
  <1>5. program' = [d |-> d, previousPeriod |-> m] /\ UNCHANGED <<now, zone, pulses, copied, db>>
    BY <1>1 DEF Start
  <1> QED
    BY <1>3, <1>4, <1>5

LEMMA InsertIs ==
    ASSUME TypeOK, InsertPeriodToDB
    PROVE  \E d \in Periods :
              /\ d = program.d /\ program # Null /\ db[d] = Null
              /\ db' = [db EXCEPT ![d] = Cardinality(PulsesIn(d))]
              /\ program'.d = GetNextPeriod(d)
              /\ program' \in [d : Nat, previousPeriod : Periods] /\ program'.d % HalfHour = 0
              /\ UNCHANGED <<now, zone, pulses, copied>>
  <1> PICK d : d = program.d
    OBVIOUS
  <1> PICK n : n = GetNextPeriod(d)
    OBVIOUS
  <1>1. /\ program \in [d : Nat, previousPeriod : Periods] /\ program # Null
        /\ d % HalfHour = 0 /\ d < program.previousPeriod
    BY DEF InsertPeriodToDB, Before, TypeOK
  <1>2. d \in Periods
    <2>1. d \in Nat /\ program.previousPeriod \in Times /\ MaxTime \in Nat
      BY <1>1, TimeAssumption DEF Periods
    <2>2. d \in Times
      BY <1>1, <2>1 DEF Times
    <2> QED
      BY <1>1, <2>2 DEF Periods
  <1>3. n \in Nat /\ n % HalfHour = 0
    BY <1>2, PeriodFacts DEF TypeOK
  <1>4. program' = [program EXCEPT !.d = n]
    BY DEF InsertPeriodToDB
  <1>5. program'.d = n /\ program' \in [d : Nat, previousPeriod : Periods]
    BY <1>1, <1>3, <1>4
  <1> WITNESS d \in Periods
  <1> QED
    BY <1>1, <1>3, <1>5 DEF InsertPeriodToDB

LEMMA PeriodInit == Init => PeriodInv
  <1> SUFFICES ASSUME Init PROVE PeriodInv
    OBVIOUS
  <1>1. First \in Times /\ 0 \in 0 .. First
    BY TimeAssumption DEF Periods, Times
  <1> QED
    BY <1>1 DEF Init, PeriodInv, TypeOK

LEMMA PeriodNext == PeriodInv /\ [Next]_vars => PeriodInv'
  <1> SUFFICES ASSUME PeriodInv, [Next]_vars PROVE PeriodInv'
    OBVIOUS
  <1>0. TypeOK
    BY DEF PeriodInv
  <1>1. CASE Start
    <2>1. /\ \E p \in Rows \cup {First} : program'.d = GetNextPeriod(p)
          /\ program' \in [d : Nat, previousPeriod : Periods] /\ program'.d % HalfHour = 0
          /\ UNCHANGED <<now, zone, pulses, copied, db>>
      BY <1>0, <1>1, StartIs
    <2>2. TypeOK'
      BY <1>0, <2>1 DEF TypeOK
    <2>3. Rows' = Rows /\ \A p : GetNextPeriod(p)' = GetNextPeriod(p)
      BY <2>1 DEF Rows, GetNextPeriod, GetLastFullPeriod, Local
    <2> QED
      BY <2>1, <2>2, <2>3 DEF PeriodInv
  <1>2. CASE InsertPeriodToDB
    <2>1. PICK d \in Periods :
              /\ db' = [db EXCEPT ![d] = Cardinality(PulsesIn(d))]
              /\ program'.d = GetNextPeriod(d)
              /\ program' \in [d : Nat, previousPeriod : Periods] /\ program'.d % HalfHour = 0
              /\ UNCHANGED <<now, zone, pulses, copied>>
      BY <1>0, <1>2, InsertIs
    <2> PICK c : c = Cardinality(PulsesIn(d))
      OBVIOUS
    <2>2. c \in Nat
      BY <1>0, PulsesCounted
    <2>3. db \in [Periods -> Nat \cup {Null}]
      BY <1>0 DEF TypeOK
    <2>4. db' \in [Periods -> Nat \cup {Null}] /\ db'[d] = c
      BY <2>1, <2>2, <2>3
    <2>5. TypeOK'
      BY <1>0, <2>1, <2>4 DEF TypeOK
    <2>6. d \in Rows'
      BY <2>2, <2>4, TimeAssumption DEF Rows
    <2>7. GetNextPeriod(d)' = GetNextPeriod(d)
      BY <2>1 DEF GetNextPeriod, GetLastFullPeriod, Local
    <2> QED
      BY <2>1, <2>5, <2>6, <2>7 DEF PeriodInv
  <1>3. CASE InsertRefused \/ Finish \/ Kill
    BY <1>0, <1>3 DEF InsertRefused, Finish, Kill, PeriodInv, TypeOK
  <1>4. CASE Tick \/ CopyLogs
    <2>1. UNCHANGED <<zone, pulses, db, program>>
      BY <1>4 DEF Tick, CopyLogs
    <2>2. now \in Nat /\ copied \in 0 .. now /\ MaxTime \in Nat
      BY <1>0, TimeAssumption DEF TypeOK, Times
    <2>3. now' \in Times /\ copied' \in 0 .. now'
      BY <1>0, <1>4, <2>2 DEF Tick, CopyLogs, TypeOK, Times
    <2>4. TypeOK'
      BY <1>0, <2>1, <2>3 DEF TypeOK
    <2>5. Rows' = Rows /\ \A p : GetNextPeriod(p)' = GetNextPeriod(p)
      BY <2>1 DEF Rows, GetNextPeriod, GetLastFullPeriod, Local
    <2> QED
      BY <2>1, <2>4, <2>5 DEF PeriodInv
  <1>5. CASE UNCHANGED vars
    BY <1>5 DEF vars, PeriodInv, TypeOK, Rows, GetNextPeriod, GetLastFullPeriod, Local
  <1> QED
    BY <1>1, <1>2, <1>3, <1>4, <1>5 DEF Next

LEMMA PeriodsKept == Spec => []PeriodInv
  BY PeriodInit, PeriodNext, PTL DEF Spec

\* The program goes from one boundary of half hours to the next.
THEOREM TypeCorrect == Spec => []TypeOK
  <1>1. PeriodInv => TypeOK
    BY DEF PeriodInv
  <1> QED
    BY <1>1, PeriodsKept, PTL

\* A row holds exactly the pulses of its half hour, whatever file they are in,
\* provided its log was there when it was written and its local time can be
\* read back.
THEOREM RowsCount == Spec => RowsAreRight
  <1> DEFINE Right ==
        \A p \in Periods :
           (db[p] = Null /\ db'[p] # Null /\ p <= copied /\ Faithful(p)) =>
              db'[p] = Cardinality(Consumption(p))
  <1>1. PeriodInv /\ [Next]_vars => Right
    <2> SUFFICES ASSUME PeriodInv, [Next]_vars, NEW p \in Periods,
                        db[p] = Null, db'[p] # Null, p <= copied, Faithful(p)
                 PROVE  db'[p] = Cardinality(Consumption(p))
      OBVIOUS
    <2>1. TypeOK
      BY DEF PeriodInv
    <2>2. InsertPeriodToDB
      BY DEF Next, vars, Start, InsertRefused, Finish, Kill, Tick, CopyLogs
    <2>3. PICK d \in Periods : db' = [db EXCEPT ![d] = Cardinality(PulsesIn(d))]
      BY <2>1, <2>2, InsertIs
    <2>4. d = p /\ db'[p] = Cardinality(PulsesIn(p))
      BY <2>1, <2>3 DEF TypeOK
    <2>5. GetPrevPeriod(p) = p - HalfHour /\ p \in Nat /\ HalfHour \in Nat \ {0} /\ copied \in Nat
      <3>1. GetLastFullPeriod(p) = p /\ p \in Nat
        BY <2>1, PeriodFacts DEF TypeOK, Faithful
      <3>2. copied \in Nat
        BY <2>1, TimeAssumption DEF TypeOK, Times
      <3> QED
        BY <3>1, <3>2, TimeAssumption DEF GetPrevPeriod
    <2>6. ASSUME NEW t \in pulses
          PROVE  t \in PulsesIn(p) <=> t \in Consumption(p)
      <3>1. t \in Nat
        BY <2>1, TimeAssumption DEF TypeOK, Times
      <3>2. p - HalfHour <= t /\ t < p => Hour(t) = GetPeriodHour(p)
        BY <2>5, <3>1, InOneFile DEF Hour, GetPeriodHour, Periods
      <3>3. t < p => t < copied
        BY <2>5, <3>1
      <3> QED
        BY <2>5, <3>2, <3>3 DEF PulsesIn, Consumption
    <2>7. PulsesIn(p) = Consumption(p)
      BY <2>6 DEF PulsesIn, Consumption
    <2> QED
      BY <2>4, <2>7
  <1> QED
    BY <1>1, PeriodsKept, PTL DEF Spec, RowsAreRight

LEMMA GapsNext == PeriodInv /\ GapsOnlyAtRepeatedHour /\ [Next]_vars => GapsOnlyAtRepeatedHour'
  <1> SUFFICES ASSUME PeriodInv, GapsOnlyAtRepeatedHour, [Next]_vars
               PROVE  GapsOnlyAtRepeatedHour'
    OBVIOUS
  <1>1. TypeOK
    BY DEF PeriodInv
  <1>2. CASE InsertPeriodToDB
    <2>1. PICK d \in Periods :
              /\ d = program.d /\ program # Null /\ db[d] = Null
              /\ db' = [db EXCEPT ![d] = Cardinality(PulsesIn(d))] /\ UNCHANGED zone
      BY <1>1, <1>2, InsertIs
    <2>2. db \in [Periods -> Nat \cup {Null}] /\ zone \in Zones
      BY <1>1 DEF TypeOK
    <2> PICK c : c = Cardinality(PulsesIn(d))
      OBVIOUS
    <2>3. c \in Nat /\ c # Null
      BY <1>1, PulsesCounted, TimeAssumption
    <2>4. Rows' = Rows \cup {d} /\ \A q \in Periods : db'[q] = Null => db[q] = Null /\ q # d
      BY <2>1, <2>2, <2>3 DEF Rows
    <2>5. PICK last \in Rows \cup {First} : d = GetNextPeriod(last)
      BY <2>1 DEF PeriodInv
    <2>6. last \in Periods
      BY <2>5, TimeAssumption DEF Rows
    <2> PICK there : there = Date[zone][Local(last)]
      OBVIOUS
    <2>7. there \in Periods /\ d = there + HalfHour
      BY <2>2, <2>5, <2>6, PeriodFacts DEF GetNextPeriod
    <2>8. \A p : Date[zone][Local(p)]' = Date[zone][Local(p)]
      BY <2>1 DEF Local
    <2> SUFFICES ASSUME NEW q \in Periods, First < q, db'[q] = Null, NEW r \in Rows', q < r
                 PROVE  \E p \in Rows \cup {First} : p < q /\ q <= Date[zone][Local(p)]
      BY <2>4, <2>8 DEF GapsOnlyAtRepeatedHour
    <2>9. db[q] = Null /\ q # d /\ q \notin Rows
      BY <2>4 DEF Rows
    <2>10. ASSUME \E x \in Rows : q < x
           PROVE  \E p \in Rows \cup {First} : p < q /\ q <= Date[zone][Local(p)]
      BY <2>9, <2>10 DEF GapsOnlyAtRepeatedHour
    <2>11. CASE r \in Rows
      BY <2>10, <2>11
    <2>12. CASE r = d
      <3>1. q \in Nat /\ last \in Nat /\ there \in Nat /\ First \in Nat
        BY <2>6, <2>7, TimeAssumption DEF Periods, Times
      <3>2. CASE last < q
        <4>1. HalfHour \in Nat \ {0} /\ q \in Int /\ d \in Int /\ d % HalfHour = 0 /\ q % HalfHour = 0
          BY <2>7, <3>1, TimeAssumption DEF Periods
        <4>2. q <= d - HalfHour
          BY ONLY <2>12, q < r, <4>1, Apart
        <4>3. q <= there
          BY <2>7, <3>1, <4>1, <4>2
        <4> QED
          BY <2>5, <3>2, <4>3
      <3>3. CASE ~(last < q)
        <4>1. last # q
          BY <2>5, <2>9, <3>1
        <4>2. last \in Rows /\ q < last
          BY <2>5, <3>1, <3>3, <4>1
        <4> QED
          BY <2>10, <4>2
      <3> QED
        BY <3>2, <3>3
    <2> QED
      BY <2>4, <2>11, <2>12
  <1>3. CASE UNCHANGED <<db, zone>>
    <2>1. Rows' = Rows /\ \A p : Date[zone][Local(p)]' = Date[zone][Local(p)]
      BY <1>3 DEF Rows, Local
    <2> QED
      BY <1>3, <2>1 DEF GapsOnlyAtRepeatedHour
  <1> QED
    BY <1>2, <1>3 DEF Next, vars, Start, InsertRefused, Finish, Kill, Tick, CopyLogs

\* Runs that are killed and repeated leave no half hour out, except those that
\* follow a period in the hour that occurs twice: the program goes on after the
\* one that time.Date makes of it.
THEOREM GapsOnlyThere == Spec => []GapsOnlyAtRepeatedHour
  <1>1. Init => GapsOnlyAtRepeatedHour
    BY DEF Init, GapsOnlyAtRepeatedHour, Rows
  <1> QED
    BY <1>1, GapsNext, PeriodsKept, PTL DEF Spec

-----------------------------------------------------------------------------
(* Bills *)

\* The least of a finite set of numbers.
LEMMA Least ==
    ASSUME NEW S \in SUBSET Int, IsFiniteSet(S), S # {}
    PROVE  \E x \in S : \A y \in S : x <= y
  <1> PICK f : f = [x \in S |-> -x]
    OBVIOUS
  <1>1. f \in [S -> Int]
    OBVIOUS
  <1>2. PICK x \in S : \A y \in S : f[y] <= f[x]
    BY <1>1, Largest
  <1>3. \A y \in S : -y <= -x /\ y \in Int /\ x \in Int
    BY <1>2
  <1> QED
    BY <1>3

\* When a bill ends, in local time.
EndOf(i) == Local(BillEnd(i))

LEMMA BillFacts ==
    ASSUME zone \in Zones
    PROVE  /\ Len(BillDates) \in Nat \ {0}
           /\ \A i \in 1 .. Len(BillDates) : EndOf(i) \in Nat
           /\ \A i, j \in 1 .. Len(BillDates) : i < j => EndOf(i) < EndOf(j)
           /\ \A i : Local(BillStart(i)) = EndOf(i - 1)
  <1>1. BillDates \in Seq(Times) /\ BillDates # <<>>
    BY BillsAssumption
  <1>2. Len(BillDates) \in Nat \ {0}
    BY <1>1
  <1>3. \A i \in 1 .. Len(BillDates) : EndOf(i) \in Nat
    BY BillsAssumption, ZoneFacts DEF EndOf, BillEnd
  <1>4. \A i, j \in 1 .. Len(BillDates) : i < j => EndOf(i) < EndOf(j)
    BY BillOrder DEF EndOf, BillEnd, Local
  <1>5. \A i : Local(BillStart(i)) = EndOf(i - 1)
    BY DEF EndOf, BillEnd, BillStart
  <1> QED
    BY <1>2, <1>3, <1>4, <1>5

\* A moment between the ends of the first and the last bill is after the end of
\* the one before some bill, and not after that bill's end.
LEMMA BillOf ==
    ASSUME zone \in Zones, NEW t \in Nat, EndOf(1) < t, t < EndOf(Len(BillDates))
    PROVE  \E i \in Bills : EndOf(i - 1) < t /\ t <= EndOf(i)
  <1> PICK last : last = Len(BillDates)
    OBVIOUS
  <1>1. last \in Nat \ {0} /\ \A i \in 1 .. last : EndOf(i) \in Nat
    BY BillFacts
  <1> PICK S : S = {i \in 1 .. last : t <= EndOf(i)}
    OBVIOUS
  <1>2. last \in S
    BY <1>1
  <1>3. IsFiniteSet(S) /\ S \in SUBSET Int
    <2>1. IsFiniteSet(1 .. last)
      BY <1>1, FS_Interval
    <2> QED
      BY <1>1, <2>1, FS_Subset
  <1>4. PICK i \in S : \A j \in S : i <= j
    BY <1>2, <1>3, Least
  <1>5. i # 1 /\ i \in 2 .. last /\ i - 1 \in 1 .. last
    <2>1. i \in 1 .. last /\ t <= EndOf(i)
      BY <1>4
    <2>2. i # 1
      BY <1>1, <2>1
    <2> QED
      BY <1>1, <2>1, <2>2
  <1>6. i - 1 \notin S
    BY <1>4, <1>5
  <1>7. EndOf(i - 1) < t
    BY <1>1, <1>5, <1>6
  <1> QED
    BY <1>4, <1>5, <1>7 DEF Bills

\* Between the first and the last bill every row is in one bill, except the
\* last half hour of each bill's day.
THEOREM BillsSplit == Spec => []BillsSplitRows
  <1>1. TypeOK => BillsSplitRows
    <2> SUFFICES ASSUME TypeOK, NEW p \in Rows,
                        Local(BillStart(2)) < Local(p), Local(p) < Local(BillEnd(Len(BillDates)))
                 PROVE  Cardinality({i \in Bills : p \in BilledRows(i)}) =
                            IF \E i \in Bills : Local(p) = Local(BillEnd(i)) THEN 0 ELSE 1
      BY DEF BillsSplitRows
    <2> PICK t : t = Local(p)
      OBVIOUS
    <2> PICK last : last = Len(BillDates)
      OBVIOUS
    <2>1. zone \in Zones /\ t \in Nat
      BY ZoneFacts DEF TypeOK, Rows, Periods
    <2>2. /\ last \in Nat \ {0} /\ \A i \in 1 .. last : EndOf(i) \in Nat
          /\ \A i, j \in 1 .. last : i < j => EndOf(i) < EndOf(j)
          /\ \A i : Local(BillStart(i)) = EndOf(i - 1)
      BY <2>1, BillFacts
    <2>3. PICK b \in Bills : EndOf(b - 1) < t /\ t <= EndOf(b)
      <3>1. 2 - 1 = 1
        OBVIOUS
      <3>2. EndOf(1) < t /\ t < EndOf(Len(BillDates))
        BY <2>2, <3>1 DEF EndOf
      <3> QED
        BY <2>1, <3>2, BillOf
    <2>4. \A i \in Bills : i \in 1 .. last /\ i - 1 \in 1 .. last /\ i \in Nat
      BY <2>2 DEF Bills
    <2>5. \A i \in Bills : p \in BilledRows(i) <=> EndOf(i - 1) < t /\ t < EndOf(i)
      BY <2>2 DEF BilledRows, EndOf
    \* Any other bill is over before the row, or begins after it.
    <2>6. ASSUME NEW i \in Bills, i # b
          PROVE  ~(EndOf(i - 1) < t /\ t <= EndOf(i))
      <3>1. /\ i \in 1 .. last /\ i - 1 \in 1 .. last /\ i \in Nat
            /\ b \in 1 .. last /\ b - 1 \in 1 .. last /\ b \in Nat
        BY <2>4
      <3>2. CASE i < b
        <4>1. EndOf(i) <= EndOf(b - 1)
          <5>1. i = b - 1 \/ i < b - 1
            BY <3>1, <3>2
          <5> QED
            BY <2>2, <3>1, <5>1
        <4> QED
          BY <2>1, <2>2, <2>3, <3>1, <4>1
      <3>3. CASE b < i
        <4>1. EndOf(b) <= EndOf(i - 1)
          <5>1. b = i - 1 \/ b < i - 1
            BY <3>1, <3>3
          <5> QED
            BY <2>2, <3>1, <5>1
        <4> QED
          BY <2>1, <2>2, <2>3, <3>1, <4>1
      <3> QED
        BY <2>6, <3>1, <3>2, <3>3
    <2>7. {i \in Bills : p \in BilledRows(i)} = IF t = EndOf(b) THEN {} ELSE {b}
      <3>1. EndOf(b) \in Nat /\ t \in Nat
        BY <2>1, <2>2, <2>4
      <3>2. \A i \in Bills : p \in BilledRows(i) => i = b
        <4> SUFFICES ASSUME NEW i \in Bills, p \in BilledRows(i), i # b PROVE FALSE
          OBVIOUS
        <4>1. EndOf(i - 1) < t /\ t < EndOf(i) /\ EndOf(i) \in Nat
          BY <2>2, <2>4, <2>5
        <4>2. t <= EndOf(i)
          BY <3>1, <4>1
        <4> QED
          BY <2>6, <4>1, <4>2
      <3>3. p \in BilledRows(b) <=> t # EndOf(b)
        BY <2>3, <2>5, <3>1
      <3> QED
        BY <3>2, <3>3
    <2>8. (\E i \in Bills : t = EndOf(i)) <=> t = EndOf(b)
      <3> SUFFICES ASSUME NEW i \in Bills, t = EndOf(i), i # b PROVE FALSE
        OBVIOUS
      <3>1. i \in 1 .. last /\ i - 1 \in 1 .. last /\ i - 1 < i /\ EndOf(i) \in Nat
        BY <2>2, <2>4
      <3>2. EndOf(i - 1) < EndOf(i) /\ t <= EndOf(i)
        BY <2>1, <2>2, <3>1
      <3> QED
        BY <2>6, <3>2
    <2>9. Cardinality({}) = 0 /\ Cardinality({b}) = 1
      BY FS_EmptySet, FS_Singleton
    <2> QED
      BY <2>7, <2>8, <2>9 DEF EndOf
  <1> QED
    BY <1>1, TypeCorrect, PTL

=============================================================================
