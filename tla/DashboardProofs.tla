---------------------------- MODULE DashboardProofs ----------------------------
(***************************************************************************)
(* Theorems about the reading API and the dashboard, for every length of a *)
(* minute and an hour, every limit and every set of symbols: what a page   *)
(* says of the candles it leaves out, what a complete range promises the   *)
(* backtest, what the cached list of symbols promises the form, and what   *)
(* the red spans of the chart mean.                                        *)
(***************************************************************************)
EXTENDS Dashboard, FiniteSetTheorems, WellFoundedInduction, TLAPS

-----------------------------------------------------------------------------
(* Sets of instants. *)

LEMMA LeastExists ==
    ASSUME NEW S, S \subseteq Nat, S # {}
    PROVE  \E m \in S : \A t \in S : m <= t
<1>1. \E x \in S : \A y \in S : ~ (<<y, x>> \in OpToRel(<, Nat))
  BY NatLessThanWellFounded, WFMin, Zenon
<1>2. PICK x \in S : \A y \in S : ~ (<<y, x>> \in {ss \in Nat \X Nat : ss[1] < ss[2]})
  BY <1>1 DEF OpToRel
<1>3. \A y \in S : x <= y
  <2> SUFFICES ASSUME NEW y \in S, y < x
               PROVE  FALSE
    OBVIOUS
  <2>1. <<y, x>> \in {ss \in Nat \X Nat : ss[1] < ss[2]}
    OBVIOUS
  <2> QED
    BY <1>2, <2>1
<1> QED
  BY <1>3

LEMMA GreatestExists ==
    ASSUME NEW n \in Nat, NEW S, S \subseteq 0..n, S # {}
    PROVE  \E m \in S : \A t \in S : t <= m
<1> DEFINE T == {n - t : t \in S}
<1>1. \A t \in S : t \in Nat /\ t <= n
  OBVIOUS
<1>2. T \subseteq Nat
  BY <1>1
<1>3. T # {}
  <2>1. PICK t \in S : TRUE
    OBVIOUS
  <2> QED
    BY <2>1
<1>4. PICK m \in T : \A t \in T : m <= t
  <2> HIDE DEF T
  <2> QED
    BY <1>2, <1>3, LeastExists
<1>5. PICK s \in S : m = n - s
  BY <1>4
<1>6. \A t \in S : t <= s
  <2> SUFFICES ASSUME NEW t \in S
               PROVE  t <= s
    OBVIOUS
  <2>1. m <= n - t
    BY <1>4
  <2> QED
    BY <1>1, <1>5, <2>1
<1> QED
  BY <1>6

(* Multiples of n are at least n apart. *)
LEMMA MultiplesApart ==
    ASSUME NEW n \in Nat, n > 0, NEW t \in Nat, NEW u \in Nat,
           t % n = 0, u % n = 0, t < u
    PROVE  t + n <= u
<1>1. t = n * (t \div n) + (t % n) /\ t \div n \in Nat
  OBVIOUS
<1>2. u = n * (u \div n) + (u % n) /\ u \div n \in Nat
  OBVIOUS
<1>3. PICK p \in Nat, q \in Nat : t = p * n /\ u = q * n
  <2>1. t = (t \div n) * n /\ u = (u \div n) * n
    BY <1>1, <1>2
  <2> QED
    BY <1>1, <1>2, <2>1
<1>4. p < q
  BY <1>3
<1>5. (p + 1) * n <= q * n
  BY <1>4
<1> QED
  BY <1>3, <1>5

LEMMA Constants ==
    /\ Minute \in Nat /\ Minute > 0
    /\ Hour \in Nat /\ Hour > 0 /\ Hour % Minute = 0
    /\ MaxTime \in Nat
    /\ \A n \in Limits : n \in Nat /\ n > 0
    /\ Instants \subseteq Nat
    /\ OpenTimes \subseteq Instants
<1>1. MaxTime \in Nat /\ Instants = 0..MaxTime /\ OpenTimes \subseteq Instants
  BY CoverageAssumption DEF Instants, OpenTimes
<1>2. \A n \in Limits : n \in Nat /\ n > 0
  <2>1. \A n \in Limits : n \in Nat \ {0}
    BY CoverageAssumption
  <2> QED
    BY <2>1
<1>3. Minute \in Nat /\ Minute > 0 /\ Hour \in Nat /\ Hour > 0 /\ Hour % Minute = 0
  <2>1. Minute \in Nat \ {0} /\ Hour \in Nat \ {0} /\ Hour % Minute = 0
    BY CoverageAssumption, Zenon
  <2> QED
    BY <2>1
<1> QED
  BY <1>1, <1>2, <1>3

-----------------------------------------------------------------------------
(* ORDER BY ts LIMIT n. *)

Before(S, t) == {u \in S : u < t}

LEMMA BeforeFinite ==
    ASSUME NEW S, S \subseteq Nat, IsFiniteSet(S), NEW t \in Nat
    PROVE  IsFiniteSet(Before(S, t)) /\ Cardinality(Before(S, t)) \in Nat
<1>1. Before(S, t) \in SUBSET S
  BY DEF Before
<1>2. IsFiniteSet(Before(S, t))
  BY <1>1, FS_Subset
<1> QED
  BY <1>2, FS_CardinalityType

(* What is in Earliest, in terms of Before. *)
LEMMA EarliestIs ==
    ASSUME NEW S, NEW n
    PROVE  /\ Earliest(S, n) \subseteq S
           /\ \A t \in S : t \in Earliest(S, n) <=> Cardinality(Before(S, t)) < n
BY DEF Earliest, Before

(* The answer has no holes: a row that is earlier than one of it is in it. *)
LEMMA EarliestIsPrefix ==
    ASSUME NEW S, S \subseteq Nat, IsFiniteSet(S), NEW n \in Nat,
           NEW t \in Earliest(S, n), NEW u \in S, u <= t
    PROVE  u \in Earliest(S, n)
<1>1. t \in S /\ t \in Nat /\ u \in Nat
  BY EarliestIs
<1>2. Cardinality(Before(S, t)) < n
  BY <1>1, EarliestIs
<1>3. Before(S, u) \in SUBSET Before(S, t)
  <2>1. \A v \in S : v < u => v < t
    BY <1>1
  <2> QED
    BY <2>1 DEF Before
<1>4. Cardinality(Before(S, u)) <= Cardinality(Before(S, t))
  BY <1>1, <1>3, BeforeFinite, FS_Subset
<1>5. Cardinality(Before(S, u)) < n
  <2>1. Cardinality(Before(S, u)) \in Nat /\ Cardinality(Before(S, t)) \in Nat
    BY <1>1, BeforeFinite
  <2> QED
    BY <1>2, <1>4, <2>1
<1> QED
  BY <1>5, EarliestIs

(* It has at most n rows. *)
LEMMA EarliestFits ==
    ASSUME NEW S, NEW m \in Nat, S \subseteq 0..m, NEW n \in Nat
    PROVE  /\ IsFiniteSet(S)
           /\ IsFiniteSet(Earliest(S, n))
           /\ Cardinality(Earliest(S, n)) \in Nat
           /\ Cardinality(Earliest(S, n)) <= n
<1> DEFINE E == Earliest(S, n)
<1>1. IsFiniteSet(S) /\ S \subseteq Nat
  <2>1. IsFiniteSet(0..m) /\ S \in SUBSET (0..m)
    BY FS_Interval
  <2>2. IsFiniteSet(S)
    BY <2>1, FS_Subset
  <2> QED
    BY <2>2
<1>2. E \subseteq S
  BY EarliestIs
<1>3. IsFiniteSet(E) /\ Cardinality(E) \in Nat
  BY <1>1, <1>2, FS_Subset, FS_CardinalityType
<1>4. CASE E = {}
  BY <1>3, <1>4, FS_EmptySet, <1>1
<1>5. CASE E # {}
  <2>1. PICK g \in E : \A t \in E : t <= g
    <3>1. E \subseteq 0..m
      BY <1>2
    <3> HIDE DEF E
    <3> QED
      BY <1>5, <3>1, GreatestExists
  <2>2. g \in S /\ g \in Nat
    BY <1>1, <1>2, <2>1
  <2>3. Cardinality(Before(S, g)) < n
    BY <2>1, <2>2, EarliestIs
  <2>4. E \in SUBSET (Before(S, g) \cup {g})
    <3>1. \A t \in E : t \in S /\ t \in Nat /\ (t < g \/ t = g)
      BY <1>1, <1>2, <2>1, <2>2
    <3> HIDE DEF E
    <3> QED
      BY <3>1 DEF Before
  <2>5. IsFiniteSet(Before(S, g)) /\ Cardinality(Before(S, g)) \in Nat
    BY <1>1, <2>2, BeforeFinite
  <2>6. /\ IsFiniteSet(Before(S, g) \cup {g})
        /\ Cardinality(Before(S, g) \cup {g}) <= Cardinality(Before(S, g)) + 1
        /\ Cardinality(Before(S, g) \cup {g}) \in Nat
    <3> DEFINE B == Before(S, g)
    <3> HIDE DEF B
    <3>1. /\ IsFiniteSet(B \cup {g})
          /\ Cardinality(B \cup {g}) = IF g \in B THEN Cardinality(B) ELSE Cardinality(B) + 1
          /\ Cardinality(B) \in Nat
      BY <2>5, FS_AddElement DEF B
    <3>2. Cardinality(B \cup {g}) <= Cardinality(B) + 1 /\ Cardinality(B \cup {g}) \in Nat
      BY <3>1
    <3> QED
      BY <3>1, <3>2 DEF B
  <2>7. Cardinality(E) <= Cardinality(Before(S, g) \cup {g})
    BY <2>4, <2>6, FS_Subset
  <2> HIDE DEF E
  <2>8. Cardinality(E) <= n
    BY <1>3, <2>3, <2>5, <2>6, <2>7
  <2> QED
    BY <1>1, <1>3, <2>8 DEF E
<1> QED
  BY <1>4, <1>5

(* If a row is left out, n rows are in it. *)
LEMMA EarliestIsFull ==
    ASSUME NEW S, NEW m \in Nat, S \subseteq 0..m, NEW n \in Nat,
           Earliest(S, n) # S
    PROVE  /\ Cardinality(Earliest(S, n)) = n
           /\ \E t \in S \ Earliest(S, n) : Cardinality(Before(S, t)) = n
<1> DEFINE E == Earliest(S, n)
           Left == S \ E
<1>1. /\ IsFiniteSet(S) /\ S \subseteq Nat /\ IsFiniteSet(E)
      /\ Cardinality(E) \in Nat /\ Cardinality(E) <= n
  <2>1. S \subseteq Nat
    OBVIOUS
  <2> QED
    BY <2>1, EarliestFits
<1>2. E \subseteq S /\ Left # {}
  BY EarliestIs
<1>3. PICK t \in Left : \A u \in Left : t <= u
  <2>1. Left \subseteq S /\ S \subseteq Nat
    BY <1>1
  <2> HIDE DEF Left
  <2> QED
    BY <1>2, <2>1, LeastExists
<1>4. t \in S /\ t \in Nat /\ t \notin E
  BY <1>1, <1>3
<1>5. Before(S, t) \in SUBSET E
  <2>1. SUFFICES ASSUME NEW u \in Before(S, t), u \notin E
                 PROVE  FALSE
    OBVIOUS
  <2>2. u \in S /\ u < t /\ u \in Nat
    BY <1>1 DEF Before
  <2> QED
    BY <1>3, <1>4, <2>1, <2>2
<1>6. Cardinality(Before(S, t)) <= Cardinality(E) /\ Cardinality(Before(S, t)) \in Nat
  BY <1>1, <1>4, <1>5, BeforeFinite, FS_Subset
<1>7. ~ (Cardinality(Before(S, t)) < n)
  BY <1>4, EarliestIs
<1>8. Cardinality(E) = n /\ Cardinality(Before(S, t)) = n
  <2> HIDE DEF E
  <2> QED
    BY <1>1, <1>6, <1>7
<1> QED
  BY <1>3, <1>8

(* The first n of the first n + 1 are the first n. *)
LEMMA EarliestOfProbe ==
    ASSUME NEW S, S \subseteq Nat, IsFiniteSet(S), NEW n \in Nat
    PROVE  Earliest(Earliest(S, n + 1), n) = Earliest(S, n)
<1> DEFINE R == Earliest(S, n + 1)
<1>1. R \subseteq S
  BY EarliestIs
<1>2. \A t \in R : Before(R, t) = Before(S, t)
  <2> SUFFICES ASSUME NEW t \in R
               PROVE  Before(S, t) \subseteq R
    BY <1>1 DEF Before
  <2>1. \A u \in S : u < t => u \in R
    <3> SUFFICES ASSUME NEW u \in S, u < t
                 PROVE  u \in R
      OBVIOUS
    <3>1. u <= t
      <4>1. u \in Nat /\ t \in Nat
        BY <1>1
      <4> HIDE DEF R
      <4> QED
        BY <4>1
    <3>2. n + 1 \in Nat
      OBVIOUS
    <3> QED
      BY <3>1, <3>2, EarliestIsPrefix
  <2> QED
    BY <2>1 DEF Before
<1>3. \A t \in S : t \in Earliest(S, n) => t \in R
  <2> SUFFICES ASSUME NEW t \in S, t \in Earliest(S, n)
               PROVE  t \in R
    OBVIOUS
  <2>1. Cardinality(Before(S, t)) < n /\ Cardinality(Before(S, t)) \in Nat
    BY EarliestIs, BeforeFinite
  <2>2. Cardinality(Before(S, t)) < n + 1
    BY <2>1
  <2> QED
    BY <2>2, EarliestIs
<1>4. \A t \in R : t \in Earliest(R, n) <=> t \in Earliest(S, n)
  BY <1>1, <1>2, EarliestIs
<1>5. Earliest(R, n) \subseteq R /\ Earliest(S, n) \subseteq S
  BY EarliestIs
<1> QED
  BY <1>1, <1>3, <1>4, <1>5

-----------------------------------------------------------------------------
(* The buckets of a query and its page. *)

LEMMA MultipleMod ==
    ASSUME NEW n \in Nat, n > 0, NEW q \in Nat
    PROVE  (q * n) % n = 0 /\ q * n \in Nat
<1> DEFINE x == q * n
           d == x \div n
           e == x % n
<1>1. x \in Nat
  OBVIOUS
<1>2. x = n * d + e /\ d \in Nat /\ e \in 0..n - 1
  <2> HIDE DEF x
  <2> QED
    BY <1>1
<1> HIDE DEF d, e
<1>3. x = q * n
  OBVIOUS
<1>4. CASE q > d
  <2>1. q * n >= (d + 1) * n
    BY <1>2, <1>4
  <2> QED
    BY <1>2, <1>3, <2>1
<1>5. CASE q <= d
  <2>1. q * n <= d * n
    BY <1>2, <1>5
  <2>2. e = 0
    BY <1>2, <1>3, <2>1
  <2> QED
    BY <1>1, <2>2 DEF e
<1> QED
  BY <1>2, <1>4, <1>5

(* A bucket is the open time of its first minute. *)
LEMMA BucketIs ==
    ASSUME NEW t \in OpenTimes, NEW interval \in {Minute, Hour}
    PROVE  /\ (t \div interval) * interval \in OpenTimes
           /\ ((t \div interval) * interval) % interval = 0
           /\ interval = Minute => (t \div interval) * interval = t
<1> DEFINE q == t \div interval
           b == q * interval
<1>1. t \in Nat /\ t % Minute = 0 /\ t <= MaxTime
  BY Constants DEF OpenTimes, Instants
<1>2. interval \in Nat /\ interval > 0
  BY Constants
<1>3. t = interval * q + (t % interval) /\ q \in Nat /\ t % interval \in 0..interval - 1
  BY <1>1, <1>2
<1>4. b \in Nat /\ b % interval = 0
  <2> HIDE DEF q
  <2> QED
    BY <1>2, <1>3, MultipleMod
<1>5. b <= t
  <2> DEFINE k == t % interval
  <2> HIDE DEF q, k
  <2>1. t = interval * q + k /\ k \in 0..interval - 1
    BY <1>3 DEF k
  <2> QED
    BY <1>1, <1>2, <1>3, <2>1
<1>6. interval = Minute => b = t
  <2> SUFFICES ASSUME interval = Minute
               PROVE  b = t
    OBVIOUS
  <2>1. t % interval = 0
    BY <1>1
  <2> HIDE DEF q
  <2> QED
    BY <1>1, <1>2, <1>3, <2>1
<1>7. b % Minute = 0
  <2>1. CASE interval = Minute
    BY <1>4, <2>1
  <2>2. CASE interval = Hour
    <3>1. PICK k \in Nat : Hour = k * Minute
      <4>1. Hour = Minute * (Hour \div Minute) + (Hour % Minute) /\ Hour \div Minute \in Nat
        BY Constants
      <4>2. Hour = (Hour \div Minute) * Minute
        BY <4>1, Constants
      <4> QED
        BY <4>1, <4>2
    <3>2. b = (q * k) * Minute /\ q * k \in Nat
      <4> HIDE DEF q
      <4> QED
        BY <1>3, <2>2, <3>1, Constants
    <3> HIDE DEF b, q
    <3> QED
      BY <3>2, MultipleMod, Constants
  <2> QED
    BY <2>1, <2>2
<1> HIDE DEF b, q
<1>8. b \in OpenTimes
  BY <1>1, <1>4, <1>5, <1>7, Constants DEF OpenTimes, Instants
<1> QED
  BY <1>4, <1>6, <1>8 DEF b, q

(* What TruncatedTells says of a page. *)
Tells(p) ==
    LET left == p.all \ p.candles IN
       /\ p.truncated <=> left # {}
       /\ p.truncated => Cardinality(p.candles) = p.limit
       /\ \A t \in p.candles, u \in left : t < u

OnGrid(p) == p.candles \subseteq p.all /\ \A t \in p.candles : t % p.interval = 0

(* The row more that is asked for tells whether rows are left out. *)
LEMMA ProbeTells ==
    ASSUME NEW S, NEW m \in Nat, S \subseteq 0..m, NEW n \in Nat
    PROVE  Cardinality(Earliest(S, n + 1)) > n <=> Earliest(S, n) # S
<1> DEFINE R == Earliest(S, n + 1)
           E == Earliest(S, n)
<1>1. /\ IsFiniteSet(S) /\ S \subseteq Nat /\ IsFiniteSet(R) /\ IsFiniteSet(E)
      /\ Cardinality(R) \in Nat /\ Cardinality(R) <= n + 1
      /\ Cardinality(E) \in Nat /\ Cardinality(E) <= n
  <2>1. n + 1 \in Nat /\ S \subseteq Nat
    OBVIOUS
  <2> QED
    BY <2>1, EarliestFits
<1>2. R \in SUBSET S /\ E \in SUBSET S
  BY EarliestIs
<1>3. E = S => ~ (Cardinality(R) > n)
  <2> SUFFICES ASSUME E = S
               PROVE  Cardinality(R) <= Cardinality(E)
    BY <1>1
  <2> QED
    BY <1>1, <1>2, FS_Subset
<1>4. E # S => Cardinality(R) > n
  <2> SUFFICES ASSUME E # S
               PROVE  Cardinality(R) > n
    OBVIOUS
  <2>1. Cardinality(E) = n /\ \E t \in S \ E : Cardinality(Before(S, t)) = n
    BY EarliestIsFull
  <2>2. PICK t \in S : t \notin E /\ Cardinality(Before(S, t)) = n
    BY <2>1
  <2>3. t \in R
    <3>1. Cardinality(Before(S, t)) < n + 1
      BY <2>2
    <3> QED
      BY <3>1, EarliestIs
  <2>4. E \subseteq R
    <3>1. E = Earliest(R, n)
      BY <1>1, EarliestOfProbe
    <3> QED
      BY <3>1, EarliestIs
  <2>5. E \cup {t} \in SUBSET R
    BY <2>3, <2>4
  <2>6. IsFiniteSet(E \cup {t}) /\ Cardinality(E \cup {t}) = Cardinality(E) + 1
    BY <1>1, <2>2, FS_AddElement
  <2>7. Cardinality(E \cup {t}) <= Cardinality(R)
    BY <1>1, <2>5, FS_Subset
  <2> HIDE DEF E, R
  <2> QED
    BY <1>1, <2>1, <2>6, <2>7
<1> QED
  BY <1>3, <1>4

LEMMA PageIs ==
    ASSUME stored \subseteq OpenTimes, NEW r \in Ranges,
           NEW interval \in {Minute, Hour}, NEW limit \in Limits
    PROVE  LET p == Page(r, interval, limit) IN
              p \in Pages /\ Tells(p) /\ OnGrid(p)
<1> DEFINE B == Buckets(r, interval)
           R == Earliest(B, limit + 1)
           E == Earliest(B, limit)
           p == Page(r, interval, limit)
<1>1. \A t \in B : t \in OpenTimes /\ t % interval = 0
  <2>1. \A t \in InRange(r, stored) : t \in OpenTimes
    BY DEF InRange
  <2>2. \A t \in B : \E u \in OpenTimes : t = (u \div interval) * interval
    BY <2>1 DEF Buckets
  <2> HIDE DEF B
  <2> QED
    BY <2>2, BucketIs
<1>2. B \subseteq 0..MaxTime /\ MaxTime \in Nat /\ limit \in Nat /\ limit > 0
  BY <1>1, Constants DEF Instants, OpenTimes
<1>3. IsFiniteSet(B) /\ B \subseteq Nat
  <2> HIDE DEF B
  <2>1. B \subseteq Nat
    BY <1>2
  <2> QED
    BY <1>2, <2>1, EarliestFits
<1>4. Earliest(R, limit) = E
  <2> HIDE DEF B
  <2> QED
    BY <1>2, <1>3, EarliestOfProbe
<1>5. /\ E \subseteq B
      /\ Cardinality(R) > limit <=> B \ E # {}
      /\ B \ E # {} => Cardinality(E) = limit
      /\ \A t \in E, u \in B \ E : t < u
  <2> HIDE DEF B
  <2>1. E \subseteq B
    BY EarliestIs
  <2>2. Cardinality(R) > limit <=> B \ E # {}
    <3>1. Cardinality(R) > limit <=> E # B
      BY <1>2, ProbeTells
    <3> HIDE DEF E, R
    <3> QED
      BY <2>1, <3>1
  <2>3. B \ E # {} => Cardinality(E) = limit
    BY <1>2, EarliestIsFull
  <2>4. ASSUME NEW t \in E, NEW u \in B \ E
        PROVE  t < u
    <3>1. ~ (u <= t)
      BY <1>2, <1>3, EarliestIsPrefix
    <3>2. t \in Nat /\ u \in Nat
      BY <1>3, <2>1
    <3> HIDE DEF E
    <3> QED
      BY <3>1, <3>2
  <2> QED
    BY <2>1, <2>2, <2>3, <2>4
<1>6. Expected(r, interval) \in Nat
  <2>1. r.start \in Nat /\ r.end \in Nat /\ r.start <= r.end
    BY Constants DEF Ranges
  <2>2. interval \in Nat /\ interval > 0
    BY Constants
  <2>3. (r.end - r.start) + interval \in Nat
    BY <2>1, <2>2
  <2> QED
    BY <2>2, <2>3 DEF Expected
<1>7. (Cardinality(R) > limit) \in BOOLEAN
  OBVIOUS
<1>8. /\ p.range = r /\ p.interval = interval /\ p.limit = limit /\ p.all = B
      /\ p.candles = E /\ p.truncated = (Cardinality(R) > limit)
  BY <1>4 DEF Page
<1>9. p \in Pages
  <2>1. p = [range |-> r, interval |-> interval, limit |-> limit, all |-> B, candles |-> E,
             truncated |-> Cardinality(R) > limit, expected |-> Expected(r, interval)]
    BY <1>4 DEF Page
  <2>2. B \in SUBSET OpenTimes /\ E \in SUBSET OpenTimes
    BY <1>1, <1>5
  <2> HIDE DEF p, B, E, R
  <2> QED
    BY <1>6, <1>7, <2>1, <2>2, Zenon DEF Pages
<1> HIDE DEF p, B, E, R
<1>10. Tells(p)
  BY <1>5, <1>8 DEF Tells
<1>11. OnGrid(p)
  BY <1>1, <1>5, <1>8 DEF OnGrid
<1> QED
  BY <1>9, <1>10, <1>11 DEF p


-----------------------------------------------------------------------------
(* The count of a range of whole minutes. *)

Due(r) == InRange(r, OpenTimes)

LEMMA RangeTypes ==
    ASSUME NEW r \in Ranges
    PROVE  /\ r.start \in Nat /\ r.end \in Nat /\ r.start <= r.end /\ r.end <= MaxTime
           /\ r.start \in Instants /\ r.end \in Instants
BY Constants DEF Ranges, Instants

LEMMA OpenTimeIs ==
    ASSUME NEW t \in Nat, t % Minute = 0
    PROVE  \E q \in Nat : t = q * Minute
<1>1. t = Minute * (t \div Minute) + (t % Minute) /\ t \div Minute \in Nat
  BY Constants
<1>2. t = (t \div Minute) * Minute
  BY <1>1, Constants
<1> QED
  BY <1>1, <1>2

(* No more candles are due than are expected. *)
LEMMA DueAtMostExpected ==
    ASSUME NEW r \in Ranges, r.start % Minute = 0
    PROVE  /\ IsFiniteSet(Due(r))
           /\ Cardinality(Due(r)) \in Nat
           /\ Expected(r, Minute) \in Nat
           /\ Cardinality(Due(r)) <= Expected(r, Minute)
<1> DEFINE M == Minute
           s == r.start
           e == r.end - r.start
           k == (e + M) \div M
           f == [i \in 1..k |-> s + (i - 1) * M]
<1>1. M \in Nat /\ M > 0 /\ s \in Nat /\ e \in Nat /\ s + e = r.end /\ s % M = 0
  BY Constants, RangeTypes
<1>2. k \in Nat /\ k * M <= e + M /\ e + M < (k + 1) * M
  <2> HIDE DEF M, s, e
  <2> DEFINE x == e + M
             c == x % M
  <2>1. x \in Nat
    BY <1>1
  <2>2. x = M * k + c /\ k \in Nat /\ c \in 0..M - 1
    <3>1. k = x \div M
      OBVIOUS
    <3> HIDE DEF x, k
    <3> QED
      BY <1>1, <2>1, <3>1
  <2> HIDE DEF c, k
  <2> QED
    BY <1>1, <2>2
<1>3. PICK p \in Nat : s = p * M
  BY <1>1, OpenTimeIs
<1>4. Due(r) \subseteq 0..MaxTime /\ MaxTime \in Nat
  BY Constants DEF Due, InRange, OpenTimes, Instants
<1>5. IsFiniteSet(Due(r))
  <2>1. IsFiniteSet(0..MaxTime)
    BY <1>4, FS_Interval
  <2> QED
    BY <1>4, <2>1, FS_Subset
<1>6. \A i \in 1..k : f[i] \in Due(r)
  <2> SUFFICES ASSUME NEW i \in 1..k
               PROVE  s + (i - 1) * M \in Due(r)
    OBVIOUS
  <2> DEFINE t == s + (i - 1) * M
  <2>1. t = (p + (i - 1)) * M /\ p + (i - 1) \in Nat
    <3> HIDE DEF M, s, k
    <3> QED
      BY <1>1, <1>2, <1>3
  <2>2. t \in Nat /\ t % M = 0
    <3> HIDE DEF t
    <3> QED
      BY <1>1, <2>1, MultipleMod
  <2>3. s <= t /\ t <= r.end
    <3> DEFINE j == i - 1
    <3>1. j \in Nat /\ j + 1 <= k
      <4> HIDE DEF k
      <4> QED
        BY <1>2
    <3>2. t = s + j * M
      OBVIOUS
    <3> HIDE DEF M, s, k, j, t, e
    <3>3. (j + 1) * M <= k * M
      BY <1>1, <1>2, <3>1
    <3>4. j * M >= 0 /\ j * M \in Int /\ (j + 1) * M = j * M + M /\ k * M \in Int
      BY <1>1, <1>2, <3>1
    <3> DEFINE jm == j * M
               km == k * M
    <3>5. jm \in Int /\ jm >= 0 /\ km \in Int /\ jm + M <= km /\ km <= e + M /\ t = s + jm
      BY <1>2, <3>2, <3>3, <3>4
    <3> HIDE DEF jm, km
    <3> QED
      BY <1>1, <3>5
  <2> HIDE DEF t
  <2>4. t \in Due(r)
    <3>1. t \in Instants
      BY <2>2, <2>3, RangeTypes, Constants DEF Instants
    <3> QED
      BY <2>2, <2>3, <3>1 DEF Due, InRange, OpenTimes
  <2> QED
    BY <2>4 DEF t
<1>7. \A t \in Due(r) : \E i \in 1..k : f[i] = t
  <2> SUFFICES ASSUME NEW t \in Due(r)
               PROVE  \E i \in 1..k : f[i] = t
    OBVIOUS
  <2>1. t \in Nat /\ t % M = 0 /\ s <= t /\ t <= r.end
    BY Constants DEF Due, InRange, OpenTimes
  <2>2. PICK q \in Nat : t = q * M
    BY <2>1, OpenTimeIs
  <2> DEFINE i == (q - p) + 1
  <2>3. p <= q /\ q < p + k
    <3> HIDE DEF M, s, k, e
    <3>1. ~ (q < p)
      <4>1. q < p => (q + 1) * M <= p * M
        BY <1>1
      <4>2. (q + 1) * M = q * M + M
        BY <1>1
      <4> QED
        BY <1>1, <1>3, <2>1, <2>2, <4>1, <4>2
    <3>2. ~ (q >= p + k)
      <4>1. q >= p + k => (p + k) * M <= q * M
        BY <1>1, <1>2
      <4>2. (p + k) * M = p * M + k * M /\ (k + 1) * M = k * M + M /\ k * M \in Int
        BY <1>1, <1>2
      <4> DEFINE km == k * M
      <4>3. km \in Int /\ e + M < km + M /\ (q >= p + k => s + km <= t)
        BY <1>2, <1>3, <2>2, <4>1, <4>2
      <4> HIDE DEF km
      <4> QED
        BY <1>1, <2>1, <4>3
    <3> QED
      BY <1>2, <3>1, <3>2
  <2>4. i \in 1..k
    <3> HIDE DEF k
    <3> QED
      BY <1>2, <2>3
  <2>5. f[i] = s + (i - 1) * M
    <3> HIDE DEF i
    <3> QED
      BY <2>4
  <2>6. s + (i - 1) * M = t
    <3>1. (i - 1) = q - p
      OBVIOUS
    <3> HIDE DEF M, s, i
    <3>2. (q - p) * M = q * M - p * M
      BY <1>1
    <3> QED
      BY <1>1, <1>3, <2>1, <2>2, <3>1, <3>2
  <2> QED
    BY <2>4, <2>5, <2>6
<1>8. ExistsSurjection(1..k, Due(r))
  <2>1. f \in [1..k -> Due(r)]
    <3> HIDE DEF k, M, s
    <3> QED
      BY <1>6
  <2> HIDE DEF f
  <2> QED
    BY <1>7, <2>1 DEF ExistsSurjection, Surjection
<1>9. Cardinality(Due(r)) <= k
  <2> HIDE DEF k
  <2> QED
    BY <1>2, <1>8, FS_SurjCardinalityBound
<1>10. Expected(r, Minute) = k
  BY DEF Expected
<1>11. Cardinality(Due(r)) \in Nat
  BY <1>5, FS_CardinalityType
<1> HIDE DEF k
<1> QED
  BY <1>2, <1>5, <1>9, <1>10, <1>11

(* A range of whole minutes with as many candles as are expected has them all. *)
LEMMA CountTellsComplete ==
    ASSUME stored \subseteq OpenTimes, NEW r \in Ranges, r.start % Minute = 0,
           Cardinality(InRange(r, stored)) = Expected(r, Minute)
    PROVE  Due(r) \subseteq stored
<1>1. InRange(r, stored) \in SUBSET Due(r)
  BY DEF InRange, Due
<1>2. /\ IsFiniteSet(InRange(r, stored))
      /\ Cardinality(InRange(r, stored)) <= Cardinality(Due(r))
      /\ Cardinality(Due(r)) = Cardinality(InRange(r, stored)) => Due(r) = InRange(r, stored)
  BY <1>1, DueAtMostExpected, FS_Subset
<1>3. Cardinality(Due(r)) = Cardinality(InRange(r, stored))
  <2>1. /\ Cardinality(Due(r)) \in Nat
        /\ Cardinality(Due(r)) <= Expected(r, Minute)
        /\ Expected(r, Minute) \in Nat
    BY DueAtMostExpected
  <2> QED
    BY <1>2, <2>1
<1> QED
  BY <1>2, <1>3 DEF InRange

(* What is due inside a range is due in the range. *)
LEMMA DueInside ==
    ASSUME NEW r \in Ranges, NEW whole \in Ranges, Inside(r, whole)
    PROVE  Due(r) \subseteq Due(whole)
<1>1. r.start \in Nat /\ r.end \in Nat /\ whole.start \in Nat /\ whole.end \in Nat
  BY RangeTypes
<1>2. \A t \in OpenTimes : t \in Nat
  BY Constants
<1> QED
  BY <1>1, <1>2 DEF Due, InRange, Inside

(* What is stored without a hole from the start of a range is neither empty
   nor has a gap. *)
LEMMA AllDueHasNoGap ==
    ASSUME stored \subseteq OpenTimes, NEW r \in Ranges, r.start % Minute = 0,
           Due(r) \subseteq stored
    PROVE  InRange(r, stored) # {} /\ ~ HasGap(InRange(r, stored))
<1>1. /\ r.start \in Nat /\ r.end \in Nat /\ r.start <= r.end /\ r.start \in OpenTimes
      /\ Minute \in Nat /\ Minute > 0
  BY RangeTypes, Constants DEF OpenTimes
<1>2. r.start \in InRange(r, stored)
  BY <1>1 DEF Due, InRange
<1>3. ASSUME NEW t \in InRange(r, stored), NEW u \in InRange(r, stored), u < t
      PROVE  t - Minute \in InRange(r, stored)
  <2>1. /\ t \in Nat /\ u \in Nat /\ t % Minute = 0 /\ u % Minute = 0
        /\ r.start <= u /\ t <= r.end /\ t \in OpenTimes
    BY Constants DEF InRange, OpenTimes
  <2>2. u + Minute <= t
    BY <1>1, <1>3, <2>1, MultiplesApart
  <2>3. r.start <= t - Minute /\ t - Minute <= r.end /\ t - Minute \in Nat
    BY <1>1, <2>1, <2>2
  <2>4. (t - Minute) % Minute = 0
    <3>1. PICK q \in Nat : t = q * Minute
      BY <2>1, OpenTimeIs
    <3>2. t - Minute = (q - 1) * Minute
      BY <1>1, <3>1
    <3>3. q - 1 \in Nat
      <4>1. ~ (q = 0)
        BY <1>1, <2>1, <2>2, <3>1
      <4> QED
        BY <4>1
    <3> DEFINE j == q - 1
    <3>4. j \in Nat /\ t - Minute = j * Minute
      BY <3>2, <3>3
    <3> HIDE DEF j
    <3>5. (j * Minute) % Minute = 0
      BY <1>1, <3>4, MultipleMod
    <3> QED
      BY <3>4, <3>5
  <2>5. t - Minute \in OpenTimes
    <3>1. t - Minute \in Instants
      BY <1>1, <2>1, <2>3, RangeTypes, Constants DEF Instants
    <3> QED
      BY <2>4, <3>1 DEF OpenTimes
  <2> QED
    BY <2>3, <2>5 DEF Due, InRange
<1> QED
  BY <1>2, <1>3 DEF HasGap


-----------------------------------------------------------------------------
(* The spans of the chart. *)

LEMMA SpanIffMissing ==
    ASSUME NEW p \in Pages, OnGrid(p), p.candles # {},
           NEW t \in p.range.start + 1 .. p.range.end - 1, t % p.interval = 0
    PROVE  t \in p.candles <=> ~ \E s \in Spans(p) : s[1] < t /\ t < s[2]
<1> DEFINE C == p.candles
           n == p.interval
           b == p.range.start
           e == p.range.end
           First1 == First(C)
           Last1 == Last(C)
           Marks == C \X C \cup {<<b, First1>>, <<Last1, e>>}
<1>1. /\ n \in Nat /\ n > 0 /\ b \in Nat /\ e \in Nat /\ t \in Nat /\ b < t /\ t < e
      /\ C \subseteq 0..MaxTime /\ MaxTime \in Nat
      /\ \A u \in C : u \in Nat /\ u % n = 0
  <2>1. p.range \in Ranges /\ p.interval \in {Minute, Hour} /\ C \subseteq OpenTimes
    BY DEF Pages
  <2>2. b \in Nat /\ e \in Nat
    BY <2>1, RangeTypes
  <2>3. n \in Nat /\ n > 0
    BY <2>1, Constants
  <2>4. C \subseteq 0..MaxTime /\ MaxTime \in Nat
    BY <2>1, Constants DEF Instants
  <2>5. \A u \in C : u \in Nat /\ u % n = 0
    BY <2>4 DEF OnGrid
  <2> HIDE DEF n, C
  <2>6. t \in Nat /\ b < t /\ t < e
    BY <2>2
  <2> QED
    BY <2>2, <2>3, <2>4, <2>5, <2>6
<1>2. First1 \in C /\ \A u \in C : First1 <= u
  <2>1. \E u \in C : \A w \in C : u <= w
    <3>1. C \subseteq Nat /\ C # {}
      BY <1>1
    <3> HIDE DEF C
    <3> QED
      BY <3>1, LeastExists
  <2> QED
    BY <2>1 DEF First
<1>3. Last1 \in C /\ \A u \in C : u <= Last1
  <2>1. \E u \in C : \A w \in C : w <= u
    <3>1. C # {}
      OBVIOUS
    <3> HIDE DEF C
    <3> QED
      BY <1>1, <3>1, GreatestExists
  <2> QED
    BY <2>1 DEF Last
<1>4. Spans(p) = {m \in Marks : m[2] - m[1] > n /\ \A u \in C : ~ (m[1] < u /\ u < m[2])}
  BY Zenon DEF Spans, FarApart
<1> DEFINE Covers(m) == m \in Marks /\ m[1] < t /\ t < m[2] /\ m[2] - m[1] > n
                           /\ \A u \in C : ~ (m[1] < u /\ u < m[2])
<1>5. (\E s \in Spans(p) : s[1] < t /\ t < s[2]) <=> \E m \in Marks : Covers(m)
  BY <1>4, Zenon
<1>6. t \in C => ~ \E m \in Marks : Covers(m)
  BY Zenon
<1>7. \A u \in C : (t < u => t + n <= u) /\ (u < t => u + n <= t)
  <2> SUFFICES ASSUME NEW u \in C
               PROVE  (t < u => t + n <= u) /\ (u < t => u + n <= t)
    OBVIOUS
  <2>1. u \in Nat /\ u % n = 0 /\ t % n = 0
    BY <1>1
  <2> HIDE DEF n
  <2> QED
    BY <1>1, <2>1, MultiplesApart
<1> HIDE DEF First1, Last1, C, n, b, e
<1>8. t \notin C => \E m \in Marks : Covers(m)
  <2> SUFFICES ASSUME t \notin C
               PROVE  \E m \in Marks : Covers(m)
    OBVIOUS
  <2> DEFINE Lo == {u \in C : u < t}
             Hi == {u \in C : t < u}
  <2>1. \A u \in C : u \in Nat /\ (u \in Lo \/ u \in Hi)
    BY <1>1
  <2>2. CASE Lo = {}
    <3>1. t < First1 /\ First1 \in Nat
      BY <1>2, <2>1, <2>2
    <3>2. First1 - b > n
      BY <1>1, <1>2, <1>7, <3>1
    <3>3. \A u \in C : ~ (b < u /\ u < First1)
      BY <1>1, <1>2, <3>1
    <3>4. Covers(<<b, First1>>)
      BY <1>1, <3>1, <3>2, <3>3
    <3> QED
      BY <3>4
  <2>3. CASE Hi = {}
    <3>1. Last1 < t /\ Last1 \in Nat
      BY <1>3, <2>1, <2>3
    <3>2. e - Last1 > n
      BY <1>1, <1>3, <1>7, <3>1
    <3>3. \A u \in C : ~ (Last1 < u /\ u < e)
      BY <1>1, <1>3, <3>1
    <3>4. Covers(<<Last1, e>>)
      BY <1>1, <3>1, <3>2, <3>3
    <3> QED
      BY <3>4
  <2>4. CASE Lo # {} /\ Hi # {}
    <3>1. PICK lo \in Lo : \A u \in Lo : u <= lo
      <4>1. Lo \subseteq 0..MaxTime /\ Lo # {}
        BY <1>1, <2>4
      <4> HIDE DEF Lo
      <4> QED
        BY <1>1, <4>1, GreatestExists
    <3>2. PICK hi \in Hi : \A u \in Hi : hi <= u
      <4>1. Hi \subseteq Nat /\ Hi # {}
        BY <1>1, <2>4
      <4> HIDE DEF Hi
      <4> QED
        BY <4>1, LeastExists
    <3>3. /\ lo \in C /\ hi \in C /\ lo \in Nat /\ hi \in Nat /\ lo < t /\ t < hi
          /\ lo + n <= t /\ t + n <= hi
      BY <1>1, <1>7
    <3>4. hi - lo > n
      BY <1>1, <3>3
    <3>5. \A u \in C : ~ (lo < u /\ u < hi)
      BY <2>1, <3>1, <3>2, <3>3
    <3>6. Covers(<<lo, hi>>)
      BY <3>3, <3>4, <3>5
    <3> QED
      BY <3>6
  <2> QED
    BY <2>2, <2>3, <2>4
<1> HIDE DEF Covers, Marks
<1>9. t \in C <=> ~ \E m \in Marks : Covers(m)
  BY <1>6, <1>8
<1> QED
  BY <1>5, <1>9 DEF C


-----------------------------------------------------------------------------
(* The API: what a client sees of it. *)

PagesTell ==
    /\ page # None => Tells(page) /\ OnGrid(page)
    /\ listing # None => Tells(listing) /\ OnGrid(listing)

(* A range shown complete has its candles, and keeps them. *)
ShownHasAll ==
    shown # None /\ shown.range.start % Minute = 0 /\ shown.returned = shown.expected =>
        Due(shown.range) \subseteq stored

AnswersInv ==
    /\ AnswersTypeOK
    /\ PagesTell
    /\ ShownHasAll
    /\ CompleteIsAccepted

(* What any step of the system does to what is stored and what was answered. *)
Stores ==
    /\ stored \subseteq stored' /\ stored' \subseteq OpenTimes
    /\ others \subseteq others' /\ others' \subseteq Others
    /\ UNCHANGED answers

Answers ==
    \/ Stores
    \/ \E r \in Ranges, interval \in {Minute, Hour}, limit \in Limits :
          GetCandles(r, interval, limit)
    \/ ListSymbols
    \/ \E r \in Ranges : GetCoverage(r)
    \/ \E r \in Ranges, slow \in SlowWindows : PostBacktest(r, slow)

LEMMA AnswersStep ==
    ASSUME AnswersInv, Answers
    PROVE  AnswersInv'
<1>1. AnswersTypeOK /\ PagesTell /\ ShownHasAll /\ CompleteIsAccepted
  BY DEF AnswersInv
<1>2. stored \subseteq OpenTimes
  BY <1>1 DEF AnswersTypeOK
<1>3. ASSUME Stores
      PROVE  AnswersInv'
  <2>1. AnswersTypeOK'
    BY <1>1, <1>3 DEF AnswersTypeOK, Stores, answers
  <2>2. PagesTell'
    BY <1>1, <1>3 DEF PagesTell, Stores, answers
  <2>3. ShownHasAll'
    BY <1>1, <1>3 DEF ShownHasAll, Stores, answers
  <2>4. CompleteIsAccepted'
    BY <1>1, <1>3 DEF CompleteIsAccepted, Stores, answers
  <2> QED
    BY <2>1, <2>2, <2>3, <2>4 DEF AnswersInv
<1>4. ASSUME NEW r \in Ranges, NEW interval \in {Minute, Hour}, NEW limit \in Limits,
             GetCandles(r, interval, limit)
      PROVE  AnswersInv'
  <2> DEFINE p == Page(r, interval, limit)
  <2>1. p \in Pages /\ Tells(p) /\ OnGrid(p)
    BY <1>2, PageIs
  <2>2. /\ (listing' = p /\ page' = None) \/ (page' = p /\ listing' = listing)
        /\ shown' = None /\ verdict' = None /\ stored' = stored /\ others' = others
        /\ listing = None
    BY <1>4 DEF GetCandles, stores
  <2> HIDE DEF p
  <2>3. AnswersTypeOK'
    BY <1>1, <2>1, <2>2 DEF AnswersTypeOK
  <2>4. PagesTell'
    BY <1>1, <2>1, <2>2 DEF PagesTell
  <2>5. ShownHasAll' /\ CompleteIsAccepted'
    BY <2>2 DEF ShownHasAll, CompleteIsAccepted
  <2> QED
    BY <2>3, <2>4, <2>5 DEF AnswersInv
<1>5. ASSUME ListSymbols
      PROVE  AnswersInv'
  <2>1. /\ page' = listing \/ page' = None
        /\ listing' = None
        /\ UNCHANGED <<stored, others, shown, verdict>>
    BY <1>5 DEF ListSymbols, stores
  <2>2. AnswersTypeOK'
    BY <1>1, <2>1 DEF AnswersTypeOK
  <2>3. PagesTell'
    BY <1>1, <2>1 DEF PagesTell
  <2>4. ShownHasAll' /\ CompleteIsAccepted'
    BY <1>1, <2>1 DEF ShownHasAll, CompleteIsAccepted
  <2> QED
    BY <2>2, <2>3, <2>4 DEF AnswersInv
<1>6. ASSUME NEW r \in Ranges, GetCoverage(r)
      PROVE  AnswersInv'
  <2> DEFINE k == Cardinality(InRange(r, stored))
             n == Expected(r, Minute)
  <2>1. /\ shown' = [range |-> r, expected |-> n, returned |-> k]
        /\ verdict' = None /\ page' = None
        /\ UNCHANGED <<stored, others, listing>>
    BY <1>6 DEF GetCoverage, stores
  <2>2. k \in Nat
    <3>1. InRange(r, stored) \subseteq 0..MaxTime /\ MaxTime \in Nat
      BY <1>2, Constants DEF InRange, Instants
    <3>2. IsFiniteSet(0..MaxTime)
      BY <3>1, FS_Interval
    <3>3. IsFiniteSet(InRange(r, stored))
      BY <3>1, <3>2, FS_Subset
    <3> QED
      BY <3>3, FS_CardinalityType
  <2>3. n \in Nat
    <3>1. r.start \in Nat /\ r.end \in Nat /\ r.start <= r.end
      BY RangeTypes
    <3>2. (r.end - r.start) + Minute \in Nat
      BY <3>1, Constants
    <3> QED
      BY <3>2, Constants DEF Expected
  <2>4. r.start % Minute = 0 /\ k = n => Due(r) \subseteq stored
    BY <1>2, CountTellsComplete
  <2> HIDE DEF k, n
  <2>5. AnswersTypeOK'
    BY <1>1, <2>1, <2>2, <2>3 DEF AnswersTypeOK
  <2>6. PagesTell'
    BY <1>1, <2>1 DEF PagesTell
  <2>7. ShownHasAll'
    BY <2>1, <2>4 DEF ShownHasAll
  <2>8. CompleteIsAccepted'
    BY <2>1 DEF CompleteIsAccepted
  <2> QED
    BY <2>5, <2>6, <2>7, <2>8 DEF AnswersInv
<1>7. ASSUME NEW r \in Ranges, NEW slow \in SlowWindows, PostBacktest(r, slow)
      PROVE  AnswersInv'
  <2> DEFINE candles == InRange(r, stored)
  <2>1. /\ UNCHANGED <<stored, others, listing, shown>>
        /\ page' = None
        /\ verdict' \in [range : Ranges, outcome : Outcomes]
        /\ verdict'.range = r
        /\ verdict'.outcome = "no candles" => candles = {}
        /\ verdict'.outcome = "gap" => HasGap(candles)
    BY <1>7 DEF PostBacktest, stores, Outcomes
  <2>2. AnswersTypeOK'
    BY <1>1, <2>1 DEF AnswersTypeOK
  <2>3. PagesTell' /\ ShownHasAll'
    BY <1>1, <2>1 DEF PagesTell, ShownHasAll
  <2>4. CompleteIsAccepted'
    <3>1. SUFFICES ASSUME shown # None, shown.range.start % Minute = 0,
                          shown.returned = shown.expected, r.start % Minute = 0,
                          Inside(r, shown.range)
                   PROVE  verdict'.outcome \notin {"no candles", "gap"}
      BY <2>1 DEF CompleteIsAccepted
    <3>2. Due(shown.range) \subseteq stored
      BY <1>1, <3>1 DEF ShownHasAll
    <3>3. Due(r) \subseteq stored
      <4>1. shown.range \in Ranges
        BY <1>1, <3>1 DEF AnswersTypeOK
      <4> QED
        BY <3>1, <3>2, <4>1, DueInside
    <3>4. candles # {} /\ ~ HasGap(candles)
      BY <1>2, <3>1, <3>3, AllDueHasNoGap
    <3> QED
      BY <2>1, <3>4
  <2> QED
    BY <2>2, <2>3, <2>4 DEF AnswersInv
<1> QED
  BY <1>3, <1>4, <1>5, <1>6, <1>7 DEF Answers

(* What is stored only grows, and the list of symbols with it. *)
LEMMA ListGrows ==
    ASSUME Answers
    PROVE  Listed \subseteq Listed'
<1>1. stored \subseteq stored' /\ others \subseteq others'
  BY DEF Answers, Stores, GetCandles, ListSymbols, GetCoverage, PostBacktest, stores
<1>2. stored # {} => stored' # {}
  BY <1>1
<1> QED
  BY <1>1, <1>2 DEF Listed

(* The midnight at which the day of an instant begins is an instant. *)
LEMMA MidnightIs == \A t \in Midnights : t \in Instants
<1> SUFFICES ASSUME NEW u \in Instants
             PROVE  AsUtc(u) \in Instants
  BY DEF Midnights
<1> DEFINE q == u \div Day
           e == u % Day
<1>1. Day \in Nat /\ Day > 0 /\ u \in Nat /\ u <= MaxTime /\ MaxTime \in Nat
  BY DashboardAssumption, Constants DEF Instants
<1>2. u = Day * q + e /\ q \in Nat /\ e \in 0..Day - 1
  BY <1>1
<1> HIDE DEF q, e
<1>3. q * Day \in Nat /\ q * Day <= u
  BY <1>1, <1>2
<1>4. AsUtc(u) = q * Day
  BY DEF AsUtc, q
<1> QED
  BY <1>1, <1>3, <1>4 DEF Instants

(* Every step of the dashboard, its users and the writers is one of these. *)
LEMMA StepAnswers ==
    ASSUME AnswersInv, [Next]_vars
    PROVE  Answers
<1>1. stored \subseteq OpenTimes /\ others \subseteq Others
  BY DEF AnswersInv, AnswersTypeOK
<1>2. UNCHANGED <<stores, answers>> => Stores
  BY <1>1 DEF Stores, stores
<1>3. CASE CandlesStored
  BY <1>1, <1>3 DEF CandlesStored, Store, Answers, Stores
<1>4. CASE Expire \/ OthersLoad \/ PageEnds
  BY <1>2, <1>4 DEF Expire, OthersLoad, PageEnds, Answers
<1>5. CASE OpenMarket \/ OpenForm
  BY <1>2, <1>5 DEF OpenMarket, OpenForm, LoadSymbols, Answers
<1>6. CASE Select
  BY <1>2, <1>6 DEF Select, Answers
<1>7. CASE AnswerEmpty
  BY <1>7 DEF AnswerEmpty, Answers
<1>8. CASE Remember
  <2>1. CASE page # None /\ GetCoverage(page.range)
    <3>1. page.range \in Ranges
      BY <2>1 DEF AnswersInv, AnswersTypeOK, Pages
    <3> QED
      BY <2>1, <3>1 DEF Answers
  <2>2. CASE UNCHANGED <<stores, answers>>
    BY <1>2, <2>2 DEF Answers
  <2> QED
    BY <1>8, <2>1, <2>2 DEF Remember
<1>9. CASE Submit
  <2>1. CASE \E start, end \in Midnights, slow \in SlowWindows :
               start < end /\ PostBacktest([start |-> start, end |-> end], slow)
    <3>1. PICK start \in Midnights, end \in Midnights, slow \in SlowWindows :
              start < end /\ PostBacktest([start |-> start, end |-> end], slow)
      BY <2>1
    <3>2. start \in Instants /\ end \in Instants
      BY MidnightIs
    <3>3. start <= end
      BY <3>1, <3>2, Constants
    <3>4. [start |-> start, end |-> end] \in Ranges
      BY <3>2, <3>3 DEF Ranges
    <3> QED
      BY <3>1, <3>4 DEF Answers
  <2>2. CASE UNCHANGED <<stores, answers>>
    BY <1>2, <2>2 DEF Answers
  <2> QED
    BY <1>9, <2>1, <2>2 DEF Submit
<1>10. CASE ClientAsks
  <2>1. Minute \in {Minute, Hour}
    OBVIOUS
  <2>2. PICK r \in Ranges, limit \in Limits : GetCandles(r, Minute, limit)
    BY <1>10 DEF ClientAsks
  <2> QED
    BY <2>1, <2>2 DEF Answers
<1>11. CASE UNCHANGED vars
  BY <1>2, <1>11 DEF vars, Answers
<1> QED
  BY <1>3, <1>4, <1>5, <1>6, <1>7, <1>8, <1>9, <1>10, <1>11 DEF Next


-----------------------------------------------------------------------------
(* The session and the cache. *)

SessionTypeOK ==
    /\ cache \in [Views -> (SUBSET (Others \cup {Watched})) \cup {None}]
    /\ view \in Views \cup {"idle", "loading"}
    /\ symbols \in SUBSET (Others \cup {Watched})
    /\ symbol \in Others \cup {Watched, None}
    /\ remembered \in Others \cup {Watched, None}

(* A list of symbols, cached or in hand, was true when it was made: its
   symbols are listed still. *)
ListsAreOld ==
    /\ cache["market"] # None => cache["market"] \subseteq Listed
    /\ symbols \subseteq Listed

(* The list a page has in hand is the one in the cache, or older than it. *)
CacheIsNewer ==
    cache["market"] # None => symbols \subseteq cache["market"]

(* The remembered symbol is in any list that a page can still get. *)
RememberedStays ==
    remembered # None =>
        /\ remembered \in Listed
        /\ cache["market"] # None => remembered \in cache["market"]

SelectedIsListed == view \in {"loading", "form"} => symbol \in symbols

SessionInv ==
    /\ SessionTypeOK
    /\ ListsAreOld
    /\ CacheIsNewer
    /\ RememberedStays
    /\ SelectedIsListed

LEMMA ListedTypes ==
    ASSUME AnswersTypeOK
    PROVE  Listed \subseteq Others \cup {Watched}
BY DEF AnswersTypeOK, Listed

(* load_symbols, on either page. *)
LEMMA LoadSymbolsStep ==
    ASSUME AnswersTypeOK, SessionInv, NEW v \in Views, LoadSymbols(v)
    PROVE  /\ Listed' = Listed
           /\ cache' \in [Views -> (SUBSET (Others \cup {Watched})) \cup {None}]
           /\ view' = IF symbols' = {} THEN "idle" ELSE v
           /\ symbols' \in SUBSET (Others \cup {Watched})
           /\ cache'["market"] = symbols'
           /\ symbols' \subseteq Listed
           /\ remembered' = remembered
           /\ remembered # None => remembered \in symbols'
<1> DEFINE list == IF cache["market"] = None THEN Listed ELSE cache["market"]
<1>1. /\ symbols' = list
      /\ cache' = [cache EXCEPT !["market"] = symbols']
      /\ view' = IF symbols' = {} THEN "idle" ELSE v
      /\ UNCHANGED <<stored, others, remembered>>
  BY DEF LoadSymbols, CacheKey, stores
<1>2. SessionTypeOK /\ ListsAreOld /\ RememberedStays
  BY DEF SessionInv
<1>3. list \subseteq Listed /\ list \subseteq Others \cup {Watched}
  BY <1>2, ListedTypes DEF ListsAreOld
<1>4. remembered # None => remembered \in list
  BY <1>2 DEF RememberedStays
<1>5. Listed' = Listed
  BY <1>1 DEF Listed
<1>6. cache'["market"] = symbols' /\ "market" \in Views
  BY <1>1, <1>2 DEF SessionTypeOK, Views
<1> HIDE DEF list
<1>7. cache' \in [Views -> (SUBSET (Others \cup {Watched})) \cup {None}]
  BY <1>1, <1>2, <1>3 DEF SessionTypeOK
<1> QED
  BY <1>1, <1>3, <1>4, <1>5, <1>6, <1>7

LEMMA SessionStep ==
    ASSUME AnswersInv, SessionInv, [Next]_vars
    PROVE  SessionInv'
<1>1. AnswersTypeOK
  BY DEF AnswersInv
<1>2. /\ SessionTypeOK
      /\ ListsAreOld
      /\ CacheIsNewer
      /\ RememberedStays
      /\ SelectedIsListed
  BY DEF SessionInv
<1>3. Listed \subseteq Listed'
  BY StepAnswers, ListGrows
<1>4. Listed \subseteq Others \cup {Watched}
  BY <1>1, ListedTypes
<1>5. cache["market"] \in (SUBSET (Others \cup {Watched})) \cup {None} /\ "market" \in Views
  BY <1>2 DEF SessionTypeOK, Views
(* Steps of the API alone, and those that end a page. *)
<1>6. ASSUME cache' = cache, symbols' \subseteq symbols,
             view' \in {"idle", view},
             view' = view => symbols' = symbols /\ symbol' = symbol,
             symbol' \in Others \cup {Watched, None},
             remembered' = remembered
      PROVE  SessionInv'
  <2>1. SessionTypeOK'
    BY <1>2, <1>6 DEF SessionTypeOK
  <2>2. ListsAreOld' /\ CacheIsNewer' /\ RememberedStays'
    BY <1>2, <1>3, <1>6 DEF ListsAreOld, CacheIsNewer, RememberedStays
  <2>3. SelectedIsListed'
    BY <1>2, <1>6 DEF SelectedIsListed
  <2> QED
    BY <2>1, <2>2, <2>3 DEF SessionInv
<1>7. CASE CandlesStored \/ AnswerEmpty \/ ClientAsks \/ UNCHANGED vars
  <2>1. UNCHANGED <<cache, session>>
    BY <1>7 DEF CandlesStored, AnswerEmpty, ClientAsks, vars
  <2>2. symbol \in Others \cup {Watched, None}
    BY <1>2 DEF SessionTypeOK
  <2> QED
    BY <1>6, <2>1, <2>2 DEF session
<1>8. CASE Submit
  <2>1. /\ symbol' \in symbols /\ view' = "idle" /\ view = "form" /\ symbols' = {}
        /\ UNCHANGED <<cache, remembered>>
    BY <1>8 DEF Submit
  <2>2. symbol' \in Others \cup {Watched, None}
    BY <1>2, <2>1 DEF SessionTypeOK
  <2> QED
    BY <1>6, <2>1, <2>2
<1>9. CASE PageEnds
  BY <1>6, <1>9 DEF PageEnds
<1>10. CASE Expire
  <2>1. cache' = [cache EXCEPT !["market"] = None] /\ UNCHANGED session
    BY <1>10 DEF Expire, CacheKey
  <2>2. cache'["market"] = None
    BY <1>2, <2>1 DEF SessionTypeOK, Views
  <2>3. SessionTypeOK'
    BY <1>2, <2>1 DEF SessionTypeOK, session
  <2>4. ListsAreOld' /\ CacheIsNewer' /\ RememberedStays' /\ SelectedIsListed'
    BY <1>2, <1>3, <2>1, <2>2
       DEF ListsAreOld, CacheIsNewer, RememberedStays, SelectedIsListed, session
  <2> QED
    BY <2>3, <2>4 DEF SessionInv
<1>11. CASE OthersLoad
  <2>1. /\ cache' = [cache EXCEPT !["market"] = Listed]
        /\ UNCHANGED <<stored, others, session>>
    BY <1>11 DEF OthersLoad, CacheKey, stores
  <2>2. cache'["market"] = Listed /\ Listed' = Listed
    BY <1>2, <2>1 DEF SessionTypeOK, Views, Listed
  <2>3. SessionTypeOK'
    BY <1>2, <1>4, <2>1 DEF SessionTypeOK, session
  <2>4. ListsAreOld' /\ CacheIsNewer' /\ RememberedStays' /\ SelectedIsListed'
    BY <1>2, <2>1, <2>2
       DEF ListsAreOld, CacheIsNewer, RememberedStays, SelectedIsListed, session
  <2> QED
    BY <2>3, <2>4 DEF SessionInv
<1>12. CASE OpenMarket
  <2>1. LoadSymbols("market") /\ symbol' = None /\ "market" \in Views
    BY <1>12 DEF OpenMarket, Views
  <2>2. /\ Listed' = Listed
        /\ cache' \in [Views -> (SUBSET (Others \cup {Watched})) \cup {None}]
        /\ view' = IF symbols' = {} THEN "idle" ELSE "market"
        /\ symbols' \in SUBSET (Others \cup {Watched})
        /\ cache'["market"] = symbols'
        /\ symbols' \subseteq Listed
        /\ remembered' = remembered
        /\ remembered # None => remembered \in symbols'
    BY <1>1, <2>1, LoadSymbolsStep
  <2>3. SessionTypeOK'
    BY <1>2, <2>1, <2>2 DEF SessionTypeOK, Views
  <2>4. ListsAreOld' /\ CacheIsNewer' /\ RememberedStays' /\ SelectedIsListed'
    BY <1>2, <2>1, <2>2 DEF ListsAreOld, CacheIsNewer, RememberedStays, SelectedIsListed
  <2> QED
    BY <2>3, <2>4 DEF SessionInv
<1>13. CASE OpenForm
  <2>1. LoadSymbols("form") /\ "form" \in Views
    BY <1>13 DEF OpenForm, Views
  <2>2. /\ Listed' = Listed
        /\ cache' \in [Views -> (SUBSET (Others \cup {Watched})) \cup {None}]
        /\ view' = IF symbols' = {} THEN "idle" ELSE "form"
        /\ symbols' \in SUBSET (Others \cup {Watched})
        /\ cache'["market"] = symbols'
        /\ symbols' \subseteq Listed
        /\ remembered' = remembered
        /\ remembered # None => remembered \in symbols'
    BY <1>1, <2>1, LoadSymbolsStep
  <2>3. IF symbols' = {} THEN symbol' = None ELSE symbol' \in symbols'
    BY <1>13, <2>2 DEF OpenForm
  <2>4. SessionTypeOK'
    BY <1>2, <2>1, <2>2, <2>3 DEF SessionTypeOK, Views
  <2>5. ListsAreOld' /\ CacheIsNewer' /\ RememberedStays' /\ SelectedIsListed'
    BY <1>2, <2>2, <2>3 DEF ListsAreOld, CacheIsNewer, RememberedStays, SelectedIsListed
  <2> QED
    BY <2>4, <2>5 DEF SessionInv
<1>14. CASE Select
  <2>1. /\ symbol' \in symbols /\ view' = "loading"
        /\ UNCHANGED <<cache, symbols, remembered>>
    BY <1>14 DEF Select
  <2>2. SessionTypeOK'
    BY <1>2, <2>1 DEF SessionTypeOK
  <2>3. ListsAreOld' /\ CacheIsNewer' /\ RememberedStays' /\ SelectedIsListed'
    BY <1>2, <1>3, <2>1 DEF ListsAreOld, CacheIsNewer, RememberedStays, SelectedIsListed
  <2> QED
    BY <2>2, <2>3 DEF SessionInv
<1>15. CASE Remember
  <2>1. /\ view = "loading" /\ remembered' = symbol /\ view' = "idle" /\ symbols' = {}
        /\ UNCHANGED <<cache, symbol>>
    BY <1>15 DEF Remember
  <2>2. symbol \in symbols
    BY <1>2, <2>1 DEF SelectedIsListed
  <2>3. SessionTypeOK'
    BY <1>2, <2>1 DEF SessionTypeOK
  <2>4. ListsAreOld' /\ CacheIsNewer' /\ SelectedIsListed'
    BY <1>2, <1>3, <2>1 DEF ListsAreOld, CacheIsNewer, SelectedIsListed
  <2>5. RememberedStays'
    BY <1>2, <1>3, <2>1, <2>2 DEF ListsAreOld, CacheIsNewer, RememberedStays
  <2> QED
    BY <2>3, <2>4, <2>5 DEF SessionInv
<1> QED
  BY <1>7, <1>8, <1>9, <1>10, <1>11, <1>12, <1>13, <1>14, <1>15 DEF Next

-----------------------------------------------------------------------------
(* The theorems. *)

DashboardInv == AnswersInv /\ SessionInv

(* At first nothing is asked, cached or remembered. *)
LEMMA DashboardInit == Init => DashboardInv
<1> SUFFICES ASSUME Init
             PROVE  DashboardInv
  OBVIOUS
<1>1. AnswersInv
  BY DEF Init, NothingAsked, AnswersInv, AnswersTypeOK, PagesTell, ShownHasAll,
         CompleteIsAccepted
<1>2. SessionTypeOK
  BY DEF Init, SessionTypeOK, Views
<1>3. ListsAreOld /\ CacheIsNewer /\ RememberedStays /\ SelectedIsListed
  BY DEF Init, ListsAreOld, CacheIsNewer, RememberedStays, SelectedIsListed, Views
<1> QED
  BY <1>1, <1>2, <1>3 DEF DashboardInv, SessionInv

(* Every step of the pages, the cache, the API and the writers keeps it. *)
LEMMA DashboardStep == DashboardInv /\ [Next]_vars => DashboardInv'
<1> SUFFICES ASSUME DashboardInv, [Next]_vars
             PROVE  DashboardInv'
  OBVIOUS
<1>1. AnswersInv /\ SessionInv
  BY DEF DashboardInv
<1>2. AnswersInv'
  BY <1>1, StepAnswers, AnswersStep
<1>3. SessionInv'
  BY <1>1, SessionStep
<1> QED
  BY <1>2, <1>3 DEF DashboardInv

LEMMA DashboardInvariant == Spec => []DashboardInv
BY DashboardInit, DashboardStep, PTL DEF Spec

(* Every answer of the reading API and every variable of a session keeps its
   type: counts are never negative, buckets are open times. *)
THEOREM TypeCorrectness == Spec => []TypeOK
<1>1. DashboardInv => TypeOK
  BY DEF DashboardInv, AnswersInv, SessionInv, SessionTypeOK, TypeOK
<1> QED
  BY <1>1, DashboardInvariant, PTL

(* A page of GET /candles says that it was cut off exactly if rows of the range
   are left out; it is full then, and what is left out is later than all it has. *)
THEOREM PagesTellTruncation == Spec => []TruncatedTells
<1>1. DashboardInv => TruncatedTells
  BY DEF DashboardInv, AnswersInv, PagesTell, Tells, TruncatedTells
<1> QED
  BY <1>1, DashboardInvariant, PTL

(* Once GET /coverage counted a range of whole minutes complete, POST /backtest
   over whole minutes inside it, those between two midnights that the form sends
   among them, is never refused for want of candles or for a gap.  Of a range
   that is not inside it this says nothing. *)
THEOREM CompleteRangesAreAccepted == Spec => []CompleteIsAccepted
<1>1. DashboardInv => CompleteIsAccepted
  BY DEF DashboardInv, AnswersInv
<1> QED
  BY <1>1, DashboardInvariant, PTL

(* The backtest page never looks for a remembered symbol that its list lacks. *)
THEOREM RememberedIsInTheForm == Spec => []RememberedIsListed
<1>1. DashboardInv => RememberedIsListed
  BY DEF DashboardInv, SessionInv, SelectedIsListed, RememberedIsListed
<1> QED
  BY <1>1, DashboardInvariant, PTL

(* On a page that was not cut off, the red spans of the chart cover the candles
   due that were not stored, and no others. *)
THEOREM SpansAreTheGaps == Spec => []SpansAreGaps
<1>1. DashboardInv => SpansAreGaps
  <2> SUFFICES ASSUME DashboardInv, page # None, page.candles # {}, ~ page.truncated,
                      NEW t \in page.range.start + 1 .. page.range.end - 1,
                      t % page.interval = 0
               PROVE  t \in page.all <=> ~ \E s \in Spans(page) : s[1] < t /\ t < s[2]
    BY DEF SpansAreGaps
  <2>1. page \in Pages /\ Tells(page) /\ OnGrid(page)
    BY DEF DashboardInv, AnswersInv, AnswersTypeOK, PagesTell
  <2>2. page.all = page.candles
    BY <2>1 DEF Tells, OnGrid
  <2> QED
    BY <2>1, <2>2, SpanIffMissing, Zenon
<1> QED
  BY <1>1, DashboardInvariant, PTL


=============================================================================
