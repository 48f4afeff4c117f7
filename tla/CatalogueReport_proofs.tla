------------------------ MODULE CatalogueReport_proofs ------------------------
(***************************************************************************)
(* Proofs about CatalogueReport, for every content of the partition and    *)
(* any instants: windows tile, reports are exact, and freshness is honest. *)
(***************************************************************************)
EXTENDS CatalogueReport, AnalyticsProjector_proofs

(* What the tool answers to a well-formed query for days. *)
LEMMA DailyAnswer ==
  ASSUME NEW a \in Instants, NEW b \in Instants
  PROVE  ReportTool(Daily(a, b)) = Rows(a, b)
<1>1. IsTime(a) /\ IsTime(b) /\ a # Missing /\ b # Missing
  BY ReportAssumption DEF IsTime
<1>2. GetCatalogueGrowth(Daily(a, b)) = [code |-> 200, rows |-> Rows(a, b)]
  BY <1>1 DEF GetCatalogueGrowth, Daily
<1>. QED  BY <1>1, <1>2 DEF ReportTool, ReportsClient, Decoded, Daily

(* Two answers without a common day that make up a third. *)
Tiles(early, late, whole) ==
  /\ DOMAIN early \cap DOMAIN late = {}
  /\ whole = [d \in DOMAIN early \cup DOMAIN late |->
                IF d \in DOMAIN early THEN early[d] ELSE late[d]]

LEMMA BucketsAreNatural == Buckets \subseteq Nat
BY TopicFacts, BucketSpan DEF Buckets

(* Adjoining windows share no day and leave none out, wherever they are    *)
(* cut.                                                                    *)
THEOREM WindowsAlwaysTile == Spec => []WindowsTile
<1>1. ASSUME NEW a \in Instants, NEW b \in Instants, NEW c \in Instants,
             a <= b, b <= c
      PROVE  Tiles(Rows(a, b), Rows(b, c), Rows(a, c))
  <2>1. a \in Nat /\ b \in Nat /\ c \in Nat
    BY ReportAssumption
  <2>. DEFINE ab == {d \in Buckets : HasRow(d) /\ a <= d /\ d < b}
              bc == {d \in Buckets : HasRow(d) /\ b <= d /\ d < c}
              ac == {d \in Buckets : HasRow(d) /\ a <= d /\ d < c}
  <2>2. /\ Rows(a, b) = [d \in ab |-> rollup[d]]
        /\ Rows(b, c) = [d \in bc |-> rollup[d]]
        /\ Rows(a, c) = [d \in ac |-> rollup[d]]
    BY DEF Rows, Restrict
  <2>3. ASSUME NEW d \in Buckets
        PROVE  /\ ~(d < b /\ b <= d)
               /\ a <= d /\ d < c <=> (a <= d /\ d < b) \/ (b <= d /\ d < c)
    BY <1>1, <2>1, BucketsAreNatural
  <2>4. ab \cap bc = {} /\ ac = ab \cup bc
    BY <2>3
  <2>. HIDE DEF ab, bc, ac
  <2>. QED  BY <2>2, <2>4 DEF Tiles
<1>2. ASSUME NEW a \in Instants, NEW b \in Instants, NEW c \in Instants,
             a <= b, b <= c
      PROVE  Tiles(ReportTool(Daily(a, b)), ReportTool(Daily(b, c)),
                   ReportTool(Daily(a, c)))
  <2>1. /\ ReportTool(Daily(a, b)) = Rows(a, b)
        /\ ReportTool(Daily(b, c)) = Rows(b, c)
        /\ ReportTool(Daily(a, c)) = Rows(a, c)
    BY DailyAnswer
  <2>2. Tiles(Rows(a, b), Rows(b, c), Rows(a, c))
    BY <1>1, <1>2
  <2>. QED  BY <2>1, <2>2
<1>3. WindowsTile
  <2>1. \A a, b, c \in Instants :
          a <= b /\ b <= c =>
            Tiles(ReportTool(Daily(a, b)), ReportTool(Daily(b, c)),
                  ReportTool(Daily(a, c)))
    BY <1>2
  <2>. QED  BY <2>1, Zenon DEF WindowsTile, Tiles
<1>. QED  BY <1>3, PTL

-----------------------------------------------------------------------------
(* Freshness *)

(* A set of naturals with a bound has a greatest element. *)
LEMMA GreatestExists ==
  ASSUME NEW S \in SUBSET Nat, S # {}, NEW bound \in Nat, \A x \in S : x <= bound
  PROVE  Max(S) \in S /\ \A y \in S : Max(S) >= y
<1>. DEFINE R == {ss \in Nat \X Nat : ss[1] < ss[2]}
            T == {bound - x : x \in S}
<1>1. IsWellFoundedOn(R, Nat)
  BY NatLessThanWellFounded, Zenon DEF OpToRel
<1>2. T \in SUBSET Nat /\ T # {}
  <2>1. ASSUME NEW x \in S  PROVE bound - x \in Nat
    OBVIOUS
  <2>. QED  BY <2>1
<1>3. PICK i \in T : \A j \in T : ~ (<<j, i>> \in R)
  <2>. HIDE DEF R, T
  <2>. QED  BY <1>1, <1>2, WFMin
<1>4. PICK x \in S : i = bound - x
  OBVIOUS
<1>5. ASSUME NEW y \in S  PROVE x >= y
  <2>0. bound - y \in T
    OBVIOUS
  <2>1. bound - y \in Nat /\ i \in Nat /\ ~ (<<bound - y, i>> \in R)
    <3>. HIDE DEF R, T
    <3>. QED  BY <1>2, <1>3, <2>0
  <2>2. ~ (bound - y < i)
    <3>. HIDE DEF T
    <3>. QED  BY <2>1
  <2>3. x \in Nat /\ y \in Nat /\ bound \in Nat
    OBVIOUS
  <2>. HIDE DEF R, T
  <2>. QED  BY <1>4, <2>2, <2>3
<1>6. \E z \in S : \A y \in S : z >= y
  BY <1>5
<1>. QED  BY <1>6 DEF Max

LEMMA AtLeastLag ==
  ASSUME NEW i \in Int
  PROVE  Max({0, i}) \in Int /\ Max({0, i}) >= i
<1>1. \E z \in {0, i} : \A y \in {0, i} : z >= y
  OBVIOUS
<1>2. Max({0, i}) \in {0, i} /\ \A y \in {0, i} : Max({0, i}) >= y
  BY <1>1 DEF Max
<1>. QED  BY <1>2

(* In a partition in order of time, what is older than the moment up to    *)
(* which the API claims to be fresh has not been passed by.                *)
THEOREM FreshnessAlwaysHonest == Spec => []FreshnessIsHonest
<1>1. CoverInv => FreshnessIsHonest
  <2>. SUFFICES ASSUME CoverInv, cuts = 0, OccurredAt # {}, InTimeOrder,
                       NEW now \in Instants, NEW o \in Offsets,
                       Topic[o].time < now - FreshnessLag(now)
                PROVE  \/ Projected(o) \/ DeadLettered(o)
                       \/ SomeoneHandles(Topic[o].id)
    BY DEF FreshnessIsHonest
  <2>. DEFINE last == Topic[Len(Topic)].time
              latest == Max(OccurredAt)
  <2>1. OccurredAt \in SUBSET Nat
    BY TopicFacts DEF OccurredAt
  <2>2. last \in Nat /\ \A t \in OccurredAt : t <= last
    BY TopicFacts DEF OccurredAt, InTimeOrder
  <2>3. latest \in OccurredAt
    <3>. HIDE DEF last
    <3>. QED  BY <2>1, <2>2, GreatestExists
  <2>. HIDE DEF last, latest
  <2>4. Topic[o].time \in Nat /\ latest \in Nat /\ now \in Nat
    BY <2>1, <2>3, TopicFacts, ReportAssumption
  <2>5. FreshnessLag(now) = Max({0, now - latest})
    BY DEF FreshnessLag, latest
  <2>6. FreshnessLag(now) \in Int /\ FreshnessLag(now) >= now - latest
    BY <2>4, <2>5, AtLeastLag
  <2>7. Topic[o].time < latest
    BY <2>4, <2>6
  <2>8. PICK n \in Offsets : /\ Topic[n].kind \in Projecting
                             /\ Topic[n].id \in processed
                             /\ Topic[n].time = latest
    BY <2>3 DEF OccurredAt
  <2>9. PICK m \in Offsets : /\ Topic[m].id = Topic[n].id
                             /\ Topic[m].kind \in Projecting
                             /\ \A p \in 1 .. m - 1 : Covered(p)
    BY <2>8 DEF CoverInv, PassedInv, Reached
  <2>10. Topic[m] = Topic[n]
    BY <2>8, <2>9, RedeliveryAssumption DEF Offsets
  <2>11. ~ (m <= o)
    BY <2>4, <2>7, <2>8, <2>10 DEF InTimeOrder
  <2>12. o \in 1 .. m - 1
    BY <2>11, TopicFacts
  <2>. QED  BY <2>9, <2>12, SafeIsCovered DEF CoverInv
<1>. QED  BY <1>1, CoverInvAlways, PTL

-----------------------------------------------------------------------------
(* Sums over finite sets *)

(* Induction over the subsets of a finite set; WFInduction's property is   *)
(* here the set of those that have it.                                     *)
LEMMA SubsetInduction ==
  ASSUME NEW S, IsFiniteSet(S), NEW Good,
         \A s \in SUBSET S : (\A x \in s : s \ {x} \in Good) => s \in Good
  PROVE  SUBSET S \subseteq Good
<1>. DEFINE R == {ss \in Nat \X Nat : ss[1] < ss[2]}
            Bad == {s \in SUBSET S : s \notin Good}
            Sizes == {Cardinality(s) : s \in Bad}
<1>1. IsWellFoundedOn(R, Nat)
  BY NatLessThanWellFounded, Zenon DEF OpToRel
<1>2. \A s \in SUBSET S : IsFiniteSet(s) /\ Cardinality(s) \in Nat
  BY FS_Subset, FS_CardinalityType
<1>3. SUFFICES ASSUME Bad # {}  PROVE FALSE
  OBVIOUS
<1>4. Sizes \in SUBSET Nat /\ Sizes # {}
  BY <1>2, <1>3
<1>5. PICK i \in Sizes : \A j \in Sizes : ~ (<<j, i>> \in R)
  <2>. HIDE DEF R, Sizes
  <2>. QED  BY <1>1, <1>4, WFMin
<1>6. PICK s \in Bad : i = Cardinality(s)
  OBVIOUS
<1>7. ASSUME NEW x \in s  PROVE s \ {x} \in Good
  <2>1. s \ {x} \in SUBSET S
    OBVIOUS
  <2>2. Cardinality(s \ {x}) = Cardinality(s) - 1
    BY <1>2, FS_RemoveElement
  <2>3. CASE s \ {x} \in Bad
    <3>1. Cardinality(s \ {x}) \in Sizes
      BY <2>3
    <3>. HIDE DEF Sizes, Bad
    <3>2. Cardinality(s \ {x}) \in Nat /\ Cardinality(s) \in Nat
      BY <1>4, <1>6, <3>1
    <3>3. <<Cardinality(s \ {x}), Cardinality(s)>> \in R
      BY <2>2, <3>2
    <3>. HIDE DEF R
    <3>. QED  BY <1>5, <1>6, <3>1, <3>3
  <2>. QED  BY <2>1, <2>3
<1>. QED  BY <1>7

(* The union of the sets that A has for the elements of s. *)
All(A, s) == UNION {A[x] : x \in s}

LEMMA AllFinite ==
  ASSUME NEW S, IsFiniteSet(S), NEW A, \A x \in S : IsFiniteSet(A[x])
  PROVE  \A s \in SUBSET S : IsFiniteSet(All(A, s))
<1>. DEFINE Good == {s \in SUBSET S : IsFiniteSet(All(A, s))}
<1>1. ASSUME NEW s \in SUBSET S, \A x \in s : s \ {x} \in Good
      PROVE  IsFiniteSet(All(A, s))
  <2>1. CASE s = {}
    <3>1. All(A, s) = {}
      BY <2>1 DEF All
    <3>. QED  BY <3>1, FS_EmptySet
  <2>2. CASE s # {}
    <3>1. PICK x \in s : IsFiniteSet(All(A, s \ {x}))
      BY <1>1, <2>2
    <3>2. All(A, s) = A[x] \cup All(A, s \ {x})
      BY DEF All
    <3>3. IsFiniteSet(A[x])
      OBVIOUS
    <3>. QED  BY <3>1, <3>2, <3>3, FS_Union
  <2>. QED  BY <2>1, <2>2
<1>2. \A s \in SUBSET S : (\A x \in s : s \ {x} \in Good) => s \in Good
  BY <1>1
<1>. HIDE DEF Good
<1>3. SUBSET S \subseteq Good
  BY <1>2, SubsetInduction
<1>. QED  BY <1>3 DEF Good

(* The sum of the sizes of sets with nothing in common is the size of      *)
(* their union.                                                            *)
LEMMA SumOfSizes ==
  ASSUME NEW S, IsFiniteSet(S), NEW A, NEW f,
         \A x \in S : IsFiniteSet(A[x]) /\ f[x] = Cardinality(A[x]),
         \A x, y \in S : x # y => A[x] \cap A[y] = {}
  PROVE  SumOver(f, S) = Cardinality(All(A, S))
<1>. DEFINE first(s) == CHOOSE x \in s : TRUE
            Sums(iter) == [s \in SUBSET S |->
                             IF s = {} THEN 0
                             ELSE f[first(s)] + iter[s \ {first(s)}]]
            sizes == [s \in SUBSET S |-> Cardinality(All(A, s))]
            sums == CHOOSE iter : iter = Sums(iter)
<1>1. SumOver(f, S) = sums[S]
  BY Zenon DEF SumOver, MapThenSumSet, MapThenFoldSet
<1>2. /\ All(A, {}) = {}
      /\ Cardinality({}) = 0
  BY FS_EmptySet DEF All
<1>3. ASSUME NEW s \in SUBSET S, NEW x \in s
      PROVE  Cardinality(All(A, s)) = f[x] + Cardinality(All(A, s \ {x}))
  <2>1. All(A, s) = A[x] \cup All(A, s \ {x})
    BY DEF All
  <2>2. A[x] \cap All(A, s \ {x}) = {}
    BY DEF All
  <2>3. /\ IsFiniteSet(A[x]) /\ IsFiniteSet(All(A, s \ {x}))
        /\ f[x] = Cardinality(A[x])
    BY AllFinite
  <2>4. Cardinality(A[x]) \in Nat /\ Cardinality(All(A, s \ {x})) \in Nat
    BY <2>3, FS_CardinalityType
  <2>5. Cardinality(A[x] \cup All(A, s \ {x}))
          = Cardinality(A[x]) + Cardinality(All(A, s \ {x}))
              - Cardinality(A[x] \cap All(A, s \ {x}))
    BY <2>3, FS_Union
  <2>6. Cardinality(A[x] \cap All(A, s \ {x})) = 0
    BY <1>2, <2>2
  <2>7. Cardinality(All(A, s))
          = Cardinality(A[x]) + Cardinality(All(A, s \ {x}))
    BY <2>1, <2>4, <2>5, <2>6
  <2>. QED  BY <2>3, <2>7
<1>4. ASSUME NEW s \in SUBSET S, s # {}
      PROVE  first(s) \in s /\ s \ {first(s)} \in SUBSET S
  <2>1. \E x \in s : TRUE
    BY <1>4
  <2>2. first(s) \in s
    BY <2>1, Zenon
  <2>. QED  BY <2>2
<1>. HIDE DEF first
<1>5. sizes = Sums(sizes)
  <2>1. ASSUME NEW s \in SUBSET S
        PROVE  sizes[s] = IF s = {} THEN 0
                          ELSE f[first(s)] + sizes[s \ {first(s)}]
    <3>1. CASE s = {}
      BY <1>2, <3>1
    <3>2. CASE s # {}
      <4>1. sizes[s \ {first(s)}] = Cardinality(All(A, s \ {first(s)}))
        BY <1>4, <3>2
      <4>2. Cardinality(All(A, s))
              = f[first(s)] + Cardinality(All(A, s \ {first(s)}))
        BY <1>3, <1>4, <3>2
      <4>. QED  BY <3>2, <4>1, <4>2
    <3>. QED  BY <3>1, <3>2
  <2>. QED  BY <2>1
<1>. HIDE DEF sizes
<1>6. sums = Sums(sums)
  <2>. HIDE DEF Sums
  <2>. QED  BY <1>5, Zenon
<1>. HIDE DEF sums
<1>7. ASSUME NEW s \in SUBSET S
      PROVE  sums[s] = IF s = {} THEN 0
                       ELSE f[first(s)] + sums[s \ {first(s)}]
  BY <1>6
<1>. DEFINE Good == {s \in SUBSET S : sums[s] = Cardinality(All(A, s))}
<1>8. ASSUME NEW s \in SUBSET S, \A x \in s : s \ {x} \in Good
      PROVE  sums[s] = Cardinality(All(A, s))
  <2>. HIDE DEF Sums
  <2>1. CASE s = {}
    BY <1>2, <1>7, <2>1
  <2>2. CASE s # {}
    <3>1. sums[s] = f[first(s)] + sums[s \ {first(s)}]
      BY <1>7, <2>2
    <3>2. sums[s \ {first(s)}] = Cardinality(All(A, s \ {first(s)}))
      BY <1>4, <1>8, <2>2
    <3>3. Cardinality(All(A, s))
            = f[first(s)] + Cardinality(All(A, s \ {first(s)}))
      BY <1>3, <1>4, <2>2
    <3>. QED  BY <3>1, <3>2, <3>3
  <2>. QED  BY <2>1, <2>2
<1>9. \A s \in SUBSET S : (\A x \in s : s \ {x} \in Good) => s \in Good
  BY <1>8
<1>. HIDE DEF Good
<1>10. SUBSET S \subseteq Good
  BY <1>9, SubsetInduction
<1>. QED  BY <1>1, <1>10 DEF Good

-----------------------------------------------------------------------------
(* Reports *)

LEMMA BucketsAreFinite == IsFiniteSet(Buckets)
<1>. DEFINE day == [o \in 1 .. Len(Topic) |-> Bucket(Topic[o].time)]
<1>1. IsFiniteSet(1 .. Len(Topic))
  BY TopicFacts, FS_Interval
<1>2. day \in Surjection(1 .. Len(Topic), Buckets)
  BY TopicFacts DEF Surjection, Buckets
<1>. QED  BY <1>1, <1>2, FS_Surjection

(* Whole days: a time from a midnight on is in a day from it on, and a day *)
(* that begins before a midnight ends by it.                               *)
LEMMA Midnights ==
  ASSUME NEW m \in Nat, m % DayLength = 0, NEW t \in Nat
  PROVE  /\ m <= t => m <= Bucket(t)
         /\ Bucket(t) < m => Bucket(t) + DayLength <= m
<1>. DEFINE i == m \div DayLength
            j == t \div DayLength
<1>1. DayLength \in Nat \ {0} /\ i \in Nat /\ j \in Nat
  BY ProjectorAssumption
<1>2. m = i * DayLength /\ Bucket(t) = j * DayLength
  BY ProjectorAssumption DEF Bucket
<1>3. Bucket(t) <= t /\ t < Bucket(t) + DayLength
  BY BucketSpan
<1>. HIDE DEF i, j
<1>4. \A x, y \in Nat : x < y => x * DayLength + DayLength <= y * DayLength
  BY <1>1
<1>5. m <= t => ~ (j < i)
  BY <1>1, <1>2, <1>3, <1>4
<1>6. \A x, y \in Nat : x <= y => x * DayLength <= y * DayLength
  BY <1>1
<1>7. m <= t => m <= Bucket(t)
  BY <1>1, <1>2, <1>5, <1>6
<1>8. Bucket(t) < m => ~ (i <= j)
  BY <1>1, <1>2, <1>6
<1>. QED  BY <1>1, <1>2, <1>4, <1>7, <1>8

(* The projected events of a kind and a day; those of a day. *)
DayEvents(k, d) == EventIds(k, d, d + DayLength) \cap processed

ByKind(d) == [k \in Projecting |-> DayEvents(k, d)]

OfDay(d) == All(ByKind(d), Projecting)

LEMMA EventMember ==
  ASSUME NEW k, NEW first, NEW end, NEW id
  PROVE  id \in EventIds(k, first, end) <=>
           \E o \in Offsets : /\ Topic[o].id = id
                              /\ Topic[o].kind = k
                              /\ first <= Topic[o].time
                              /\ Topic[o].time < end
BY DEF EventIds

LEMMA OfDayMember ==
  ASSUME NEW d, NEW id
  PROVE  id \in OfDay(d) <=>
           /\ id \in processed
           /\ \E o \in Offsets : /\ Topic[o].id = id
                                 /\ Topic[o].kind \in Projecting
                                 /\ d <= Topic[o].time
                                 /\ Topic[o].time < d + DayLength
<1>1. id \in OfDay(d) <=> \E k \in Projecting : id \in DayEvents(k, d)
  BY DEF OfDay, All, ByKind
<1>. QED  BY <1>1, EventMember DEF DayEvents

(* Messages of one event are alike. *)
LEMMA SameEvent ==
  ASSUME NEW n \in Offsets, NEW o \in Offsets, Topic[n].id = Topic[o].id,
         Topic[n].kind \in Projecting, Topic[o].kind \in Projecting
  PROVE  Topic[n] = Topic[o]
BY RedeliveryAssumption DEF Offsets

(* A row sums up to the projected events of its day. *)
LEMMA RowSum ==
  ASSUME CountInv, NEW d \in Buckets
  PROVE  SumOver(rollup[d], Projecting) = Cardinality(OfDay(d))
<1>1. IsFiniteSet(Projecting)
  <2>1. IsFiniteSet({"Created"}) /\ IsFiniteSet({"Updated"})
          /\ IsFiniteSet({"Deactivated"})
    BY FS_Singleton
  <2>2. IsFiniteSet({"Created"} \cup {"Updated"})
    BY <2>1, FS_Union
  <2>3. IsFiniteSet(({"Created"} \cup {"Updated"}) \cup {"Deactivated"})
    BY <2>1, <2>2, FS_Union
  <2>4. Projecting = ({"Created"} \cup {"Updated"}) \cup {"Deactivated"}
    BY DEF Projecting
  <2>. QED  BY <2>3, <2>4
<1>2. ASSUME NEW k \in Projecting
      PROVE  /\ IsFiniteSet(ByKind(d)[k])
             /\ rollup[d][k] = Cardinality(ByKind(d)[k])
  BY FS_Intersection DEF CountInv, CountedOnce, ByKind, DayEvents
<1>3. ASSUME NEW k \in Projecting, NEW l \in Projecting, k # l
      PROVE  ByKind(d)[k] \cap ByKind(d)[l] = {}
  <2>. SUFFICES ASSUME NEW id \in DayEvents(k, d), id \in DayEvents(l, d)
                PROVE  FALSE
    BY DEF ByKind
  <2>1. PICK n \in Offsets : Topic[n].id = id /\ Topic[n].kind = k
    BY EventMember DEF DayEvents
  <2>2. PICK o \in Offsets : Topic[o].id = id /\ Topic[o].kind = l
    BY EventMember DEF DayEvents
  <2>. QED  BY <1>3, <2>1, <2>2, SameEvent
<1>. QED  BY <1>1, <1>2, <1>3, SumOfSizes DEF OfDay

(* A report of whole days counts each projected event of its span once,    *)
(* whatever redeliveries, retries and rebalances came before.              *)
LEMMA WholeDays ==
  ASSUME TypeInv, CountInv, NEW a \in Instants, NEW b \in Instants,
         a % DayLength = 0, b % DayLength = 0
  PROVE  Counted(ReportTool(Daily(a, b)))
           = Cardinality(processed
               \cap UNION {EventIds(k, a, b) : k \in Projecting})
<1>. DEFINE days == {d \in Buckets : HasRow(d) /\ a <= d /\ d < b}
            rows == [d \in days |-> rollup[d]]
            totals == [d \in days |-> SumOver(rollup[d], Projecting)]
            byDay == [d \in days |-> OfDay(d)]
            events == UNION {EventIds(k, a, b) : k \in Projecting}
<1>1. ReportTool(Daily(a, b)) = rows
  BY DailyAnswer DEF Rows, Restrict
<1>2. Counted(rows) = SumOver(totals, days)
  <2>1. DOMAIN rows = days /\ DayTotals(rows) = totals
    BY DEF DayTotals
  <2>. HIDE DEF rows, totals, days
  <2>. QED  BY <2>1 DEF Counted
<1>3. a \in Nat /\ b \in Nat
  BY ReportAssumption
<1>4. IsFiniteSet(days)
  BY BucketsAreFinite, FS_Subset
<1>5. ASSUME NEW d \in days
      PROVE  IsFiniteSet(byDay[d]) /\ totals[d] = Cardinality(byDay[d])
  <2>1. OfDay(d) \in SUBSET processed
    BY OfDayMember
  <2>2. IsFiniteSet(OfDay(d))
    BY <2>1, FS_Subset DEF CountInv
  <2>. QED  BY <2>2, RowSum
<1>6. ASSUME NEW d \in days, NEW e \in days, d # e
      PROVE  byDay[d] \cap byDay[e] = {}
  <2>. SUFFICES ASSUME NEW id \in OfDay(d), id \in OfDay(e)
                PROVE  FALSE
    OBVIOUS
  <2>1. PICK n \in Offsets : /\ Topic[n].id = id
                             /\ Topic[n].kind \in Projecting
                             /\ d <= Topic[n].time
                             /\ Topic[n].time < d + DayLength
    BY OfDayMember
  <2>2. PICK o \in Offsets : /\ Topic[o].id = id
                             /\ Topic[o].kind \in Projecting
                             /\ e <= Topic[o].time
                             /\ Topic[o].time < e + DayLength
    BY OfDayMember
  <2>3. Topic[n] = Topic[o]
    BY <2>1, <2>2, SameEvent
  <2>4. Bucket(Topic[n].time) = d /\ Bucket(Topic[n].time) = e
    BY <2>1, <2>2, <2>3, TopicFacts, OneBucket DEF Buckets
  <2>. QED  BY <1>6, <2>4
<1>7. ASSUME NEW id \in processed
      PROVE  id \in All(byDay, days) <=> id \in events
  <2>1. id \in All(byDay, days) <=> \E d \in days : id \in OfDay(d)
    BY DEF All
  <2>2. id \in events <=>
          \E o \in Offsets : /\ Topic[o].id = id
                             /\ Topic[o].kind \in Projecting
                             /\ a <= Topic[o].time
                             /\ Topic[o].time < b
    <3>1. id \in events <=> \E k \in Projecting : id \in EventIds(k, a, b)
      OBVIOUS
    <3>. HIDE DEF events
    <3>. QED  BY <3>1, EventMember
  <2>. HIDE DEF events, byDay
  <2>3. ASSUME NEW d \in days, id \in OfDay(d)
        PROVE  id \in events
    <3>1. PICK o \in Offsets : /\ Topic[o].id = id
                               /\ Topic[o].kind \in Projecting
                               /\ d <= Topic[o].time
                               /\ Topic[o].time < d + DayLength
      BY <2>3, OfDayMember
    <3>2. PICK u \in Offsets : d = Bucket(Topic[u].time)
      BY DEF Buckets
    <3>3. Topic[o].time \in Nat /\ Topic[u].time \in Nat /\ d \in Nat
      BY <3>2, TopicFacts, BucketSpan
    <3>4. d + DayLength <= b
      BY <1>3, <3>2, <3>3, Midnights
    <3>5. a <= Topic[o].time /\ Topic[o].time < b
      BY <1>3, <3>1, <3>3, <3>4, ProjectorAssumption
    <3>. QED  BY <2>2, <3>1, <3>5
  <2>4. ASSUME id \in events
        PROVE  \E d \in days : id \in OfDay(d)
    <3>1. PICK o \in Offsets : /\ Topic[o].id = id
                               /\ Topic[o].kind \in Projecting
                               /\ a <= Topic[o].time
                               /\ Topic[o].time < b
      BY <2>2, <2>4
    <3>. DEFINE d == Bucket(Topic[o].time)
                k == Topic[o].kind
    <3>2. Topic[o].time \in Nat
      BY TopicFacts
    <3>3. d \in Nat /\ d <= Topic[o].time /\ Topic[o].time < d + DayLength
      BY <3>2, BucketSpan
    <3>4. d \in Buckets
      BY DEF Buckets
    <3>5. a <= d /\ d < b
      <4>1. a <= d
        BY <1>3, <3>1, <3>2, Midnights
      <4>. HIDE DEF d
      <4>. QED  BY <1>3, <3>1, <3>2, <3>3, <4>1
    <3>. HIDE DEF d
    <3>6. id \in OfDay(d)
      BY <3>1, <3>3, OfDayMember
    <3>7. HasRow(d)
      <4>1. id \in DayEvents(k, d)
        BY <3>1, <3>3, EventMember DEF DayEvents
      <4>2. /\ IsFiniteSet(DayEvents(k, d))
            /\ rollup[d][k] = Cardinality(DayEvents(k, d))
        BY <3>1, <3>4, FS_Intersection DEF CountInv, CountedOnce, DayEvents
      <4>3. Cardinality(DayEvents(k, d)) # 0 /\ Cardinality(DayEvents(k, d)) \in Nat
        BY <4>1, <4>2, FS_EmptySet, FS_CardinalityType
      <4>4. rollup[d][k] > 0 /\ k \in Projecting
        BY <3>1, <4>2, <4>3
      <4>. QED  BY <4>4 DEF HasRow
    <3>. QED  BY <3>4, <3>5, <3>6, <3>7
  <2>. QED  BY <2>1, <2>3, <2>4
<1>8. All(byDay, days) = processed \cap events
  <2>1. All(byDay, days) \subseteq processed
    BY OfDayMember DEF All
  <2>. HIDE DEF byDay, days, events
  <2>. QED  BY <1>7, <2>1
<1>9. SumOver(totals, days) = Cardinality(All(byDay, days))
  <2>. HIDE DEF totals, byDay, days
  <2>. QED  BY <1>4, <1>5, <1>6, SumOfSizes
<1>. HIDE DEF rows, totals, byDay, days, events
<1>10. Counted(ReportTool(Daily(a, b))) = Cardinality(processed \cap events)
  BY <1>1, <1>2, <1>8, <1>9
<1>. QED  BY <1>10 DEF events

(* What the reports tell of a window of whole days is what was projected,  *)
(* and rows by hour are refused.                                           *)
THEOREM ReportsAreExact == Spec => []ReportIsExact
<1>1. ASSUME NEW q \in Query, q.granularity = "hour"
      PROVE  ReportTool(q) = Error
  BY <1>1 DEF ReportTool, ReportsClient, Decoded, GetCatalogueGrowth, BadRequest
<1>2. TypeInv /\ CountInv => ReportIsExact
  BY <1>1, WholeDays DEF ReportIsExact
<1>. QED  BY <1>2, TypeInvAlways, CountInvAlways, PTL
=============================================================================
