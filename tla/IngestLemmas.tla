---------------------------- MODULE IngestLemmas ----------------------------
(***************************************************************************)
(* Facts about finite sets and clock arithmetic that the proofs about the  *)
(* ingestion pipelines rest on.                                            *)
(***************************************************************************)
EXTENDS FillTable, FiniteSetsExt, FiniteSetTheorems, WellFoundedInduction, TLAPS

(* A finite set of integers that is not empty has a greatest element: a       *)
(* smallest subset without one would lose it by giving up any element.        *)
LEMMA GreatestExists ==
  ASSUME NEW S \in SUBSET Int, IsFiniteSet(S), S # {}
  PROVE  \E x \in S : \A y \in S : x >= y
<1> DEFINE HasGreatest(U) == \E x \in U : \A y \in U : x >= y
           Bad == {U \in FiniteSubsetsOf(S) : U # {} /\ ~ HasGreatest(U)}
<1>1. SUFFICES ASSUME Bad # {} PROVE FALSE
  BY DEF FiniteSubsetsOf
<1>2. PICK U \in Bad : \A V \in Bad : <<V, U>> \notin StrictSubsetOrdering(S)
  BY FS_StrictSubsetOrderingWellFounded, WFMin, Bad \subseteq FiniteSubsetsOf(S),
     <1>1, Zenon
<1>3. PICK x \in U : TRUE
  OBVIOUS
<1>4. /\ U \ {x} \subseteq S /\ IsFiniteSet(U \ {x})
      /\ U \subseteq S /\ x \in Int
  BY FS_RemoveElement DEF FiniteSubsetsOf
<1>5. U \ {x} \notin Bad
  BY <1>2, <1>3, <1>4 DEF StrictSubsetOrdering
<1>6. CASE U \ {x} = {}
  BY <1>3, <1>4, <1>6
<1>7. CASE U \ {x} # {}
  <2>1. PICK m \in U \ {x} : \A y \in U \ {x} : m >= y
    BY <1>4, <1>5, <1>7 DEF FiniteSubsetsOf
  <2> QED BY <2>1, <1>4
<1> QED BY <1>6, <1>7

(* Max and Min of such a set are elements that bound it. *)
LEMMA MaxProperties ==
  ASSUME NEW S \in SUBSET Int, IsFiniteSet(S), S # {}
  PROVE  /\ Max(S) \in S
         /\ \A y \in S : Max(S) >= y
BY GreatestExists DEF Max

LEMMA MinProperties ==
  ASSUME NEW S \in SUBSET Int, IsFiniteSet(S), S # {}
  PROVE  /\ Min(S) \in S
         /\ \A y \in S : Min(S) =< y
<1> DEFINE N == {-x : x \in S}
           neg == [x \in S |-> -x]
<1>1. N \in SUBSET Int /\ IsFiniteSet(N) /\ N # {}
  <2>1. neg \in Surjection(S, N)
    BY DEF Surjection
  <2>2. IsFiniteSet(N)
    <3> HIDE DEF N, neg
    <3> QED BY <2>1, FS_Surjection
  <2>3. N \in SUBSET Int
    OBVIOUS
  <2>4. \A x \in S : -x \in N
    OBVIOUS
  <2> QED BY <2>2, <2>3, <2>4
<1>2. PICK n \in N : \A y \in N : n >= y
  BY <1>1, GreatestExists
<1>3. PICK x \in S : n = -x
  OBVIOUS
<1>4. ASSUME NEW y \in S PROVE x =< y
  <2>1. -y \in N
    OBVIOUS
  <2>2. n >= -y
    BY <1>2, <2>1
  <2> QED BY <1>3, <2>2, x \in Int, y \in Int
<1> QED BY <1>4 DEF Min

(* Whole hours, days and hours in a day are integers, and so is the hour a    *)
(* cursor names and the time it stands for.                                   *)
LEMMA TimeTypes ==
  /\ \A t \in Int : /\ HourOf(t) \in Int /\ DayOf(t) \in Int
                    /\ HourInDay(t) \in Int /\ NumHours(t) \in Int
                    /\ HourStart(t) \in Int
                    /\ CursorAt(t) \in [date : Int, hour : Int]
  /\ \A c \in [date : Int, hour : Int] : CursorHour(c) \in Int /\ CursorTime(c) \in Int
  /\ Day \in Int
<1>1. \A t \in Int : /\ HourOf(t) \in Int /\ DayOf(t) \in Int
                    /\ HourInDay(t) \in Int /\ NumHours(t) \in Int
                    /\ HourStart(t) \in Int
  BY TimeAssumption DEF HourOf, DayOf, HourInDay, NumHours, HourStart
<1>2. Day \in Int
  BY TimeAssumption DEF Day
<1>3. \A c \in [date : Int, hour : Int] : CursorHour(c) \in Int /\ CursorTime(c) \in Int
  BY TimeAssumption DEF CursorHour, CursorTime, HourStart
<1> QED BY <1>1, <1>2, <1>3 DEF CursorAt

(* The hour of an hour's start, and of the tick before it. *)
LEMMA HourBounds ==
  /\ \A h \in Int : HourOf(HourStart(h)) = h
  /\ \A t \in Int : HourStart(HourOf(t)) <= t /\ t < HourStart(HourOf(t) + 1)
  /\ \A t \in Int, h \in Int : HourOf(t) < h <=> t < HourStart(h)
BY TimeAssumption, SMTT(60) DEF HourOf, HourStart

(* Of two times the earlier is in the earlier hour, or in the same. *)
LEMMA HourMonotonic ==
  \A s \in Int, t \in Int : s <= t => HourOf(s) <= HourOf(t)
<1> SUFFICES ASSUME NEW s \in Int, NEW t \in Int, s <= t
             PROVE  HourOf(s) <= HourOf(t)
  OBVIOUS
<1>1. HourOf(s) \in Int /\ HourOf(t) \in Int
  BY TimeTypes
<1>2. CASE HourOf(t) < HourOf(s)
  <2>1. t < HourStart(HourOf(s)) /\ HourStart(HourOf(s)) <= s
    BY <1>1, <1>2, HourBounds
  <2>2. HourStart(HourOf(s)) \in Int
    BY <1>1, TimeTypes
  <2> QED BY <2>1, <2>2
<1> QED BY <1>1, <1>2

(* A cursor made from a time stands for the start of that time's hour. *)
LEMMA CursorRoundTrip ==
  \A t \in Int : CursorHour(CursorAt(t)) = HourOf(t)
BY TimeAssumption, SMTT(60) DEF CursorHour, CursorAt, DayOf, HourInDay, HourOf

-----------------------------------------------------------------------------
(* What an insert leaves is a batch, and so is the union with the table. *)
LEMMA BatchTypes ==
  /\ {} \in Batches
  /\ \A a \in Batches, b \in Batches : a \cup b \in Batches
  /\ \A a \in Batches : \A s \in Prefixes(a) : s \in Batches
  /\ \A a \in Batches : a # {} => Max(a) \in Int /\ Max(a) \in a
<1>1. {} \in Batches
  BY FS_EmptySet DEF Batches
<1>2. ASSUME NEW a \in Batches, NEW b \in Batches PROVE a \cup b \in Batches
  BY FS_Union DEF Batches
<1>3. ASSUME NEW a \in Batches, NEW s \in Prefixes(a) PROVE s \in Batches
  <2>1. s \in SUBSET a
    BY DEF Prefixes
  <2> QED BY <2>1, FS_Subset DEF Batches
<1>4. ASSUME NEW a \in Batches, a # {} PROVE Max(a) \in Int /\ Max(a) \in a
  <2>1. a \in SUBSET Int /\ IsFiniteSet(a)
    BY DEF Batches
  <2>2. Max(a) \in a
    BY <1>4, <2>1, MaxProperties
  <2> QED BY <2>1, <2>2
<1> QED BY <1>1, <1>2, <1>3, <1>4

(* Every call of fetch_page that succeeds returns a page, whatever objects    *)
(* exist or fail, wherever it reads and whenever.                             *)
LEMMA HoursUntilNowType ==
  ASSUME NEW pos \in Int, NEW now \in Int
  PROVE  HoursUntilNow(pos, now) \in 0..PageHours
BY TimeTypes, SourceAssumption DEF HoursUntilNow

LEMMA FetchPageType ==
  ASSUME NEW pos \in Int, NEW n \in 0..PageHours, NEW now \in Int,
         NEW published \in SUBSET Hours, NEW failing
  PROVE  FetchPage(pos, n, published, failing, now) \in Pages
<1> DEFINE readable == published \ failing
           files == {File[h] : h \in HoursCovered(pos, n) \cap readable}
<1>1. HoursCovered(pos, n) \in SUBSET Int /\ IsFiniteSet(HoursCovered(pos, n))
  <2> DEFINE last == HourOf(pos) + (IF IsParallel(n) THEN n ELSE 1) - 1
  <2>1. HourOf(pos) \in Int
    BY TimeTypes, Zenon
  <2>2. last \in Int
    BY <2>1
  <2>3. HoursCovered(pos, n) = HourOf(pos) .. last
    BY DEF HoursCovered
  <2> HIDE DEF last
  <2> QED BY <2>1, <2>2, <2>3, FS_Interval
<1>2. IsFiniteSet(HoursCovered(pos, n) \cap readable)
  BY <1>1, FS_Subset, Zenon
<1>3. IsFiniteSet(files)
  <2> DEFINE read == HoursCovered(pos, n) \cap readable
             file == [h \in read |-> File[h]]
  <2>1. file \in Surjection(read, files)
    BY DEF Surjection
  <2> HIDE DEF file, files, read
  <2>2. IsFiniteSet(read)
    BY <1>2 DEF read
  <2> QED BY <2>1, <2>2, FS_Surjection
<1>4. \A f \in files : IsFiniteSet(f) /\ f \in SUBSET Nat
  BY SourceAssumption
<1>5. FetchParallelBatch(pos, n, readable) \in Batches
  <2> HIDE DEF files
  <2>1. UNION files \in Batches
    BY <1>3, <1>4, FS_UNION DEF Batches
  <2> QED BY <2>1 DEF FetchParallelBatch, files
<1>6. ParallelPage(pos, n, readable, now) \in Pages
  BY <1>5, TimeTypes DEF ParallelPage, Pages, Cursors
<1>7. CASE HourOf(pos) \in published
  <2>1. File[HourOf(pos)] \in Batches
    BY <1>7, SourceAssumption DEF Batches
  <2>2. pos + Day \in Int
    BY TimeTypes
  <2>3. HourInDay(pos) \in Int /\ DayOf(pos) \in Int /\ DayOf(pos + Day) \in Int
    BY <2>2, TimeTypes, Zenon
  <2>4. HourInDay(pos) + 1 \in Int
    BY <2>3
  <2>5. SinglePage(pos, now) \in Pages
    BY <2>1, <2>3, <2>4 DEF SinglePage, Pages, Cursors
  <2> QED BY <1>6, <1>7, <2>5 DEF FetchPage
<1>8. EndOfData \in Pages
  BY BatchTypes DEF EndOfData, Pages, Cursors
<1> QED BY <1>6, <1>7, <1>8 DEF FetchPage

-----------------------------------------------------------------------------
(* Inserting a batch, or the part of it that was committed, adds to the       *)
(* table's size exactly the fills it did not have.                            *)
LEMMA InsertGrows ==
  ASSUME NEW table \in Batches, NEW batch \in Batches
  PROVE  /\ Cardinality(table) \in Nat
         /\ Cardinality(batch \ table) \in Nat
         /\ Cardinality(table \cup batch)
              = Cardinality(table) + Cardinality(batch \ table)
<1>1. IsFiniteSet(table) /\ IsFiniteSet(batch \ table)
  BY FS_Difference DEF Batches
<1>2. table \cup batch = table \cup (batch \ table)
  OBVIOUS
<1>3. table \cap (batch \ table) = {}
  OBVIOUS
<1>4. Cardinality({}) = 0
  BY FS_EmptySet
<1>5. Cardinality(table \cup (batch \ table))
        = Cardinality(table) + Cardinality(batch \ table) - 0
  BY <1>1, <1>3, <1>4, FS_Union
<1>6. Cardinality(table) \in Nat /\ Cardinality(batch \ table) \in Nat
  BY <1>1, FS_CardinalityType
<1> QED BY <1>2, <1>5, <1>6

(* The missing hours of a window are finitely many integers, so a first one   *)
(* exists when there are more than a threshold of them.                       *)
LEMMA FirstGapType ==
  ASSUME NEW table, NEW s \in Int, NEW e \in Int, NEW threshold \in Nat,
         NEW gaps, gaps \subseteq Missing(table, s, e),
         Cardinality(gaps) > threshold
  PROVE  Min(gaps) \in Int
<1>1. HourOf(s) \in Int /\ HourOf(e) \in Int
  BY TimeTypes, Zenon
<1>2. HourOf(e) - 1 \in Int
  BY <1>1
<1>3. gaps \in SUBSET (HourOf(s) .. (HourOf(e) - 1))
  BY DEF Missing
<1>4. IsFiniteSet(gaps) /\ gaps \in SUBSET Int
  <2>1. IsFiniteSet(HourOf(s) .. (HourOf(e) - 1))
    BY <1>1, <1>2, FS_Interval
  <2>2. gaps \in SUBSET Int
    BY <1>1, <1>2, <1>3
  <2> QED BY <2>1, <2>2, <1>3, FS_Subset
<1>5. gaps # {}
  BY FS_EmptySet
<1> QED BY <1>4, <1>5, MinProperties

LEMMA MissingType ==
  ASSUME NEW table, NEW s \in Int, NEW e \in Int
  PROVE  Missing(table, s, e) \in SUBSET Int
BY TimeTypes DEF Missing

(* An hour that is over before two ends of a window is missing for both or    *)
(* for neither: only the fills inside that hour count.                        *)
LEMMA MissingByHour ==
  ASSUME NEW table \in Batches, NEW s \in Int, NEW e \in Int, NEW upto \in Int,
         NEW h \in Missing(table, s, e), h < HourOf(upto)
  PROVE  h \in Missing(table, s, upto)
<1>1. HourOf(s) \in Int /\ HourOf(e) \in Int /\ HourOf(upto) \in Int
  BY TimeTypes, Zenon
<1>2. h \in Int /\ HourOf(s) <= h /\ h < HourOf(e)
  BY <1>1 DEF Missing
<1>3. table \subseteq Int
  BY DEF Batches
<1>4. ASSUME NEW f \in table, HourOf(f) = h PROVE f < e /\ f < upto
  <2>1. f \in Int
    BY <1>3
  <2>2. f < HourStart(HourOf(e)) /\ f < HourStart(HourOf(upto))
    BY <1>1, <1>2, <1>4, <2>1, HourBounds
  <2>3. HourStart(HourOf(e)) <= e /\ HourStart(HourOf(upto)) <= upto
    BY HourBounds, Zenon
  <2>4. HourStart(HourOf(e)) \in Int /\ HourStart(HourOf(upto)) \in Int
    BY <1>1, TimeTypes, Zenon
  <2> QED BY <2>1, <2>2, <2>3, <2>4
<1>5. {f \in table : HourOf(f) = h /\ s <= f /\ f < upto}
        = {f \in table : HourOf(f) = h /\ s <= f /\ f < e}
  BY <1>4
<1>6. Cardinality({f \in table : HourOf(f) = h /\ s <= f /\ f < upto}) < MinFills
  BY <1>5 DEF Missing
<1>7. h \in HourOf(s) .. (HourOf(upto) - 1)
  BY <1>1, <1>2
<1> QED BY <1>6, <1>7 DEF Missing

(* The missing hours of a window are a finite set of integers. *)
LEMMA MissingFinite ==
  ASSUME NEW table, NEW s \in Int, NEW e \in Int
  PROVE  IsFiniteSet(Missing(table, s, e))
<1>1. HourOf(s) \in Int /\ HourOf(e) - 1 \in Int
  BY TimeTypes
<1>2. IsFiniteSet(HourOf(s) .. (HourOf(e) - 1))
  BY <1>1, FS_Interval
<1>3. Missing(table, s, e) \subseteq HourOf(s) .. (HourOf(e) - 1)
  BY DEF Missing
<1> QED BY <1>2, <1>3, FS_Subset

(* The earlier and the later of two times. *)
LEMMA EarlierOf ==
  ASSUME NEW a \in Int, NEW b \in Int
  PROVE  Min({a, b}) \in {a, b} /\ Min({a, b}) <= a /\ Min({a, b}) <= b
<1>1. IsFiniteSet({a, b})
  <2>1. IsFiniteSet({a})
    BY FS_Singleton
  <2>2. IsFiniteSet({a} \cup {b})
    BY <2>1, FS_AddElement
  <2>3. {a, b} = {a} \cup {b}
    OBVIOUS
  <2> QED BY <2>2, <2>3
<1>2. {a, b} \in SUBSET Int /\ {a, b} # {}
  OBVIOUS
<1> QED BY <1>1, <1>2, MinProperties

LEMMA LaterOf ==
  ASSUME NEW a \in Int, NEW b \in Int
  PROVE  Max({a, b}) \in Int
<1>1. IsFiniteSet({a, b})
  <2>1. IsFiniteSet({a})
    BY FS_Singleton
  <2>2. IsFiniteSet({a} \cup {b})
    BY <2>1, FS_AddElement
  <2>3. {a, b} = {a} \cup {b}
    OBVIOUS
  <2> QED BY <2>2, <2>3
<1>2. {a, b} \in SUBSET Int /\ {a, b} # {}
  OBVIOUS
<1>3. Max({a, b}) \in {a, b}
  BY <1>1, <1>2, MaxProperties
<1> QED BY <1>3

-----------------------------------------------------------------------------
(* n hours after a time is n hours after its hour. *)
LEMMA HourShift ==
  \A t \in Int, n \in Int : HourOf(t + HourStart(n)) = HourOf(t) + n
BY TimeAssumption, SMTT(60) DEF HourOf, HourStart

(* The hour of a cursor's time is the hour the cursor names. *)
LEMMA CursorTimeHour ==
  \A c \in [date : Int, hour : Int] : HourOf(CursorTime(c)) = CursorHour(c)
<1> SUFFICES ASSUME NEW c \in [date : Int, hour : Int]
             PROVE  HourOf(CursorTime(c)) = CursorHour(c)
  OBVIOUS
<1>1. CursorHour(c) \in Int
  BY TimeTypes
<1> QED BY <1>1, HourBounds DEF CursorTime

(* The carry at midnight: the cursor made by hand names the next hour. *)
LEMMA CarryIsNextHour ==
  ASSUME NEW pos \in Int, NEW now \in Int
  PROVE  CursorHour(SinglePage(pos, now).cursor) = HourOf(pos) + 1
<1> DEFINE H == HourOf(pos)
<1>1. H \in Int
  BY TimeTypes, Zenon
<1>2. HourOf(pos + Day) = H + HoursPerDay
  <2>1. Day = HourStart(HoursPerDay)
    BY TimeAssumption DEF Day, HourStart
  <2> QED BY <2>1, TimeAssumption, HourShift
<1> HIDE DEF H
<1>3. /\ H \div HoursPerDay \in Int /\ H % HoursPerDay \in 0..(HoursPerDay - 1)
      /\ H = (H \div HoursPerDay) * HoursPerDay + (H % HoursPerDay)
  BY <1>1, TimeAssumption, SMTT(30)
<1>4. (H + HoursPerDay) \div HoursPerDay = (H \div HoursPerDay) + 1
  BY <1>1, TimeAssumption, SMTT(30)
<1>5. /\ DayOf(pos) = H \div HoursPerDay /\ HourInDay(pos) = H % HoursPerDay
      /\ DayOf(pos + Day) = (H \div HoursPerDay) + 1
  BY <1>2, <1>4 DEF DayOf, HourInDay, H
<1>6. CASE HourInDay(pos) + 1 >= HoursPerDay
  <2>1. SinglePage(pos, now).cursor = [date |-> DayOf(pos + Day), hour |-> 0]
    BY <1>6 DEF SinglePage
  <2>2. CursorHour(SinglePage(pos, now).cursor)
          = ((H \div HoursPerDay) + 1) * HoursPerDay + 0
    BY <2>1, <1>5 DEF CursorHour
  <2>3. H % HoursPerDay = HoursPerDay - 1
    BY <1>3, <1>5, <1>6, TimeAssumption
  <2>4. ((H \div HoursPerDay) + 1) * HoursPerDay
          = (H \div HoursPerDay) * HoursPerDay + HoursPerDay
    BY <1>3, TimeAssumption, SMTT(30)
  <2> QED BY <1>1, <1>3, <2>2, <2>3, <2>4, TimeAssumption DEF H
<1>7. CASE ~(HourInDay(pos) + 1 >= HoursPerDay)
  <2>1. SinglePage(pos, now).cursor
          = [date |-> DayOf(pos), hour |-> HourInDay(pos) + 1]
    BY <1>7 DEF SinglePage
  <2>2. CursorHour(SinglePage(pos, now).cursor)
          = (H \div HoursPerDay) * HoursPerDay + ((H % HoursPerDay) + 1)
    BY <2>1, <1>5 DEF CursorHour
  <2> QED BY <1>1, <1>3, <2>2, TimeAssumption DEF H
<1> QED BY <1>6, <1>7

(* A page covers the hours from its position to its cursor, without a gap and *)
(* over midnight: it has the fills of each of them that could be read, and no *)
(* others.                                                                    *)
ReadsToCursor(pos, n, published, failing, got) ==
  /\ got.cursor \in [date : Int, hour : Int]
  /\ HourOf(pos) + 1 <= CursorHour(got.cursor)
  /\ HoursCovered(pos, n) = HourOf(pos) .. (CursorHour(got.cursor) - 1)
  /\ \A f \in got.fills : /\ f \in Int /\ HourOf(f) \in HoursCovered(pos, n)
                          /\ f < CursorTime(got.cursor)
  /\ \A h \in HoursCovered(pos, n) \cap (published \ failing) : File[h] \subseteq got.fills

LEMMA PageReadsToCursor ==
  ASSUME NEW pos \in Int, NEW n \in 0..PageHours, NEW now \in Int,
         NEW published \in SUBSET Hours, NEW failing,
         NEW got, got = FetchPage(pos, n, published, failing, now),
         ~FetchFails(pos, n, failing)
  PROVE  \/ /\ got = EndOfData /\ HourOf(pos) \notin published
            /\ HourOf(pos) \in HoursCovered(pos, n)
         \/ ReadsToCursor(pos, n, published, failing, got)
<1> DEFINE H == HourOf(pos)
<1>1. H \in Int /\ PageHours \in Nat /\ ParallelMin \in 1..PageHours /\ n \in Int
  BY TimeTypes, SourceAssumption
<1>2. ASSUME NEW c \in [date : Int, hour : Int], NEW last \in Int,
             CursorHour(c) = last + 1, NEW f \in Int, HourOf(f) <= last
      PROVE  f < CursorTime(c)
  <2>1. HourOf(f) \in Int /\ CursorHour(c) \in Int
    BY TimeTypes
  <2>2. HourOf(f) < CursorHour(c)
    BY <1>2, <2>1
  <2> QED BY <2>1, <2>2, HourBounds DEF CursorTime
<1>3. CASE IsParallel(n)
  <2> DEFINE next == pos + HourStart(n)
             readable == published \ failing
  <2>1. got = ParallelPage(pos, n, readable, now)
    BY <1>3 DEF FetchPage
  <2>2. n >= 1
    BY <1>1, <1>3 DEF IsParallel
  <2>3. HoursCovered(pos, n) = H .. (H + n - 1)
    BY <1>3 DEF HoursCovered
  <2>4. HourStart(n) \in Int /\ next \in Int
    BY <1>1, TimeTypes
  <2>5. got.cursor = CursorAt(next) /\ got.fills = FetchParallelBatch(pos, n, readable)
    BY <2>1 DEF ParallelPage
  <2>6. got.cursor \in [date : Int, hour : Int]
    BY <2>4, <2>5, TimeTypes, Zenon
  <2>7. CursorHour(got.cursor) = H + n
    BY <1>1, <2>4, <2>5, CursorRoundTrip, HourShift
  <2>8. \A h \in HoursCovered(pos, n) \cap readable : File[h] \subseteq got.fills
    BY <2>5 DEF FetchParallelBatch
  <2>9. ASSUME NEW f \in got.fills
        PROVE  f \in Int /\ HourOf(f) \in HoursCovered(pos, n) /\ f < CursorTime(got.cursor)
    <3>1. PICK h \in HoursCovered(pos, n) \cap readable : f \in File[h]
      BY <2>5, <2>9 DEF FetchParallelBatch
    <3>2. h \in Hours
      BY <3>1
    <3>3. f \in Nat /\ HourOf(f) = h
      BY <3>1, <3>2, SourceAssumption
    <3>4. HourOf(f) <= H + n - 1
      BY <1>1, <2>3, <3>1, <3>3
    <3>5. CursorHour(got.cursor) = (H + n - 1) + 1 /\ H + n - 1 \in Int /\ f \in Int
      BY <1>1, <2>7, <3>3
    <3>6. f < CursorTime(got.cursor)
      BY <1>2, <2>6, <3>4, <3>5
    <3> QED BY <3>1, <3>3, <3>6
  <2>10. H + 1 <= CursorHour(got.cursor) /\ HoursCovered(pos, n) = H .. (CursorHour(got.cursor) - 1)
    <3>1. CursorHour(got.cursor) - 1 = H + n - 1
      BY <1>1, <2>7
    <3> QED BY <1>1, <2>2, <2>3, <2>7, <3>1
  <2> QED BY <2>6, <2>8, <2>9, <2>10 DEF ReadsToCursor
<1>4. CASE ~IsParallel(n)
  <2>1. HoursCovered(pos, n) = H .. (H + 1 - 1)
    BY <1>4 DEF HoursCovered
  <2>2. HoursCovered(pos, n) = {H}
    BY <1>1, <2>1
  <2>3. CASE H \notin published
    BY <1>4, <2>2, <2>3 DEF FetchPage
  <2>4. CASE H \in published
    <3>1. got = SinglePage(pos, now) /\ got.fills = File[H]
      BY <1>4, <2>4 DEF FetchPage, SinglePage
    <3>2. CursorHour(got.cursor) = H + 1
      BY <3>1, CarryIsNextHour
    <3>3. got.cursor \in [date : Int, hour : Int]
      <4>1. Day \in Int /\ pos + Day \in Int
        BY TimeTypes
      <4>2. DayOf(pos) \in Int /\ DayOf(pos + Day) \in Int /\ HourInDay(pos) \in Int
        BY <4>1, TimeTypes, Zenon
      <4> QED BY <3>1, <4>2 DEF SinglePage
    <3>4. ASSUME NEW f \in got.fills
          PROVE  f \in Int /\ HourOf(f) \in HoursCovered(pos, n) /\ f < CursorTime(got.cursor)
      <4>1. f \in Nat /\ HourOf(f) = H
        BY <2>4, <3>1, SourceAssumption
      <4>2. f < CursorTime(got.cursor)
        BY <1>1, <1>2, <3>2, <3>3, <4>1
      <4> QED BY <2>2, <4>1, <4>2
    <3>5. HoursCovered(pos, n) = H .. (CursorHour(got.cursor) - 1)
      BY <1>1, <2>1, <3>2
    <3>6. HourOf(pos) + 1 <= CursorHour(got.cursor)
      BY <1>1, <3>2
    <3>7. \A h \in HoursCovered(pos, n) \cap (published \ failing) : File[h] \subseteq got.fills
      BY <2>2, <3>1
    <3> QED BY <3>3, <3>4, <3>5, <3>6, <3>7 DEF ReadsToCursor
  <2> QED BY <2>3, <2>4
<1> QED BY <1>3, <1>4
(* A page has the hours it has any fill of whole, from its position on; so it *)
(* never ends before a fill of an hour that is not after its position.        *)
HasWholeHours(pos, got) ==
  \A f \in got.fills :
    /\ f \in Int /\ HourOf(f) \in Int /\ HourOf(pos) <= HourOf(f)
    /\ f \in File[HourOf(f)] /\ File[HourOf(f)] \subseteq got.fills

LEMMA PageIsWhole ==
  ASSUME NEW pos \in Int, NEW n \in 0..PageHours, NEW now \in Int,
         NEW published \in SUBSET Hours, NEW failing,
         NEW got, got = FetchPage(pos, n, published, failing, now)
  PROVE  HasWholeHours(pos, got)
<1> SUFFICES ASSUME NEW f \in got.fills
             PROVE  /\ f \in Int /\ HourOf(f) \in Int /\ HourOf(pos) <= HourOf(f)
                    /\ f \in File[HourOf(f)] /\ File[HourOf(f)] \subseteq got.fills
  BY DEF HasWholeHours
<1> DEFINE H == HourOf(pos)
<1>1. H \in Int /\ PageHours \in Nat /\ ParallelMin \in 1..PageHours /\ n \in Int
  BY TimeTypes, SourceAssumption
<1>2. PICK h \in Hours : /\ f \in File[h] /\ File[h] \subseteq got.fills
                         /\ h \in Int /\ H <= h
  <2>1. CASE IsParallel(n)
    <3>1. got.fills = FetchParallelBatch(pos, n, published \ failing)
      BY <2>1 DEF FetchPage, ParallelPage
    <3>2. PICK h \in HoursCovered(pos, n) \cap (published \ failing) : f \in File[h]
      BY <3>1 DEF FetchParallelBatch
    <3>3. File[h] \subseteq got.fills
      BY <3>1, <3>2 DEF FetchParallelBatch
    <3>4. h \in Hours /\ h \in Int /\ H <= h
      BY <1>1, <2>1, <3>2 DEF HoursCovered
    <3> QED BY <3>2, <3>3, <3>4
  <2>2. CASE ~IsParallel(n)
    <3>1. H \in published /\ got.fills = File[H]
      BY <2>2 DEF FetchPage, SinglePage, EndOfData
    <3> QED BY <1>1, <3>1
  <2> QED BY <2>1, <2>2
<1>3. f \in Nat /\ HourOf(f) = h
  BY <1>2, SourceAssumption
<1> QED BY <1>2, <1>3

LEMMA WholePageGoesOn ==
  ASSUME NEW pos \in Int, NEW got \in Pages, HasWholeHours(pos, got), got.fills # {},
         NEW f \in Int, f \in File[HourOf(f)], HourOf(f) <= HourOf(pos)
  PROVE  f <= Max(got.fills)
<1>1. got.fills \in Batches
  BY DEF Pages
<1>2. /\ Max(got.fills) \in Int /\ Max(got.fills) \in got.fills
      /\ \A g \in got.fills : Max(got.fills) >= g
  BY <1>1, BatchTypes, MaxProperties DEF Batches
<1>3. PICK g \in Int : g = Max(got.fills)
  BY <1>2
<1>4. /\ HourOf(g) \in Int /\ HourOf(pos) <= HourOf(g) /\ File[HourOf(g)] \subseteq got.fills
  BY <1>2, <1>3 DEF HasWholeHours
<1>5. HourOf(f) \in Int /\ HourOf(pos) \in Int
  BY TimeTypes
<1>6. CASE HourOf(g) = HourOf(f)
  BY <1>2, <1>3, <1>4, <1>6
<1>7. CASE HourOf(f) < HourOf(g)
  BY <1>3, <1>7, <1>5, <1>4, HourMonotonic
<1> QED BY <1>4, <1>5, <1>6, <1>7

(* The more fills the table has, the fewer hours are missing. *)
LEMMA MissingShrinks ==
  ASSUME NEW table, NEW larger \in Batches, table \subseteq larger,
         NEW s \in Int, NEW e \in Int
  PROVE  Missing(larger, s, e) \subseteq Missing(table, s, e)
<1> SUFFICES ASSUME NEW h \in Missing(larger, s, e) PROVE h \in Missing(table, s, e)
  OBVIOUS
<1> DEFINE In(t) == {f \in t : HourOf(f) = h /\ s <= f /\ f < e}
<1>0. In(larger) \in SUBSET larger
  OBVIOUS
<1>1. IsFiniteSet(In(larger))
  BY <1>0, FS_Subset DEF Batches
<1>2. In(table) \in SUBSET In(larger)
  OBVIOUS
<1>3. /\ Cardinality(In(table)) <= Cardinality(In(larger))
      /\ Cardinality(In(table)) \in Nat /\ Cardinality(In(larger)) \in Nat
  BY <1>1, <1>2, FS_Subset, FS_CardinalityType
<1>4. h \in HourOf(s) .. (HourOf(e) - 1) /\ Cardinality(In(larger)) < MinFills
  BY DEF Missing
<1>5. Cardinality(In(table)) < MinFills
  BY <1>3, <1>4, MinFillsAssumption
<1> QED BY <1>4, <1>5 DEF Missing
=============================================================================
