------------------------------ MODULE FetchProofs ------------------------------
(***************************************************************************)
(* Theorems about the paginated fetch: the loop returns every row it was   *)
(* asked for and only final ones, for every length of a page and minute,   *)
(* every set of minutes the exchange has rows for, and every clock.        *)
(***************************************************************************)
EXTENDS FetchRange, FiniteSetTheorems, WellFoundedInduction, TLAPS

-----------------------------------------------------------------------------
(* Sets of instants. *)

LEMMA LeastExists ==
    ASSUME NEW S, S \subseteq Nat, S # {}
    PROVE  \E m \in S : \A t \in S : m <= t
<1>1. \E x \in S : \A y \in S : ~ (<<y, x>> \in OpToRel(<, Nat))
  BY NatLessThanWellFounded, WFMin, Zenon
<1>2. PICK x \in S : \A y \in S : ~ (<<y, x>> \in {ss \in Nat \X Nat : ss[1] < ss[2]})
  BY <1>1 DEF OpToRel
<1>3. \A y \in S : x <= y
  <2> SUFFICES ASSUME NEW y \in S, y < x
               PROVE  FALSE
    OBVIOUS
  <2>1. <<y, x>> \in {ss \in Nat \X Nat : ss[1] < ss[2]}
    OBVIOUS
  <2> QED
    BY <1>2, <2>1
<1> QED
  BY <1>3

LEMMA GreatestExists ==
    ASSUME NEW n \in Nat, NEW S, S \subseteq 0..n, S # {}
    PROVE  \E m \in S : \A t \in S : t <= m
<1> DEFINE T == {n - t : t \in S}
<1>1. \A t \in S : t \in Nat /\ t <= n
  OBVIOUS
<1>2. T \subseteq Nat
  BY <1>1
<1>3. T # {}
  <2>1. PICK t \in S : TRUE
    OBVIOUS
  <2> QED
    BY <2>1
<1>4. PICK m \in T : \A t \in T : m <= t
  <2> HIDE DEF T
  <2> QED
    BY <1>2, <1>3, LeastExists
<1>5. PICK s \in S : m = n - s
  BY <1>4
<1>6. \A t \in S : t <= s
  <2> SUFFICES ASSUME NEW t \in S
               PROVE  t <= s
    OBVIOUS
  <2>1. m <= n - t
    BY <1>4
  <2> QED
    BY <1>1, <1>5, <2>1
<1> QED
  BY <1>6

-----------------------------------------------------------------------------
(* Open times and the end of the range. *)

LEMMA OpenTimesApart ==
    ASSUME NEW t \in OpenTimes, NEW u \in OpenTimes, t < u
    PROVE  t + Minute <= u
<1>1. /\ Minute \in Nat /\ Minute > 0 /\ t \in Nat /\ u \in Nat
      /\ t % Minute = 0 /\ u % Minute = 0
  BY FetchAssumption DEF OpenTimes, Instants
<1>2. \A a \in Nat : a % Minute = 0 => \E q \in Nat : a = q * Minute
  <2> SUFFICES ASSUME NEW a \in Nat, a % Minute = 0
               PROVE  \E q \in Nat : a = q * Minute
    OBVIOUS
  <2>1. a = Minute * (a \div Minute) + (a % Minute) /\ a \div Minute \in Nat
    BY <1>1
  <2>2. a = (a \div Minute) * Minute
    BY <1>1, <2>1
  <2> QED
    BY <2>1, <2>2
<1>3. PICK p \in Nat, q \in Nat : t = p * Minute /\ u = q * Minute
  BY <1>1, <1>2
<1>4. p < q
  BY <1>1, <1>3
<1>5. (p + 1) * Minute <= q * Minute
  BY <1>1, <1>4
<1> QED
  BY <1>1, <1>3, <1>5

(* The last complete minute is over at end. *)
LEMMA LastCompleteIsOver ==
    ASSUME end \in Instants
    PROVE  LastComplete \in Int /\ LastComplete + Minute <= end
<1>1. Minute \in Nat /\ Minute > 0 /\ end \in Nat
  BY FetchAssumption DEF Instants
<1>2. end = Minute * (end \div Minute) + (end % Minute)
      /\ end % Minute \in 0..Minute - 1 /\ end \div Minute \in Nat
  BY <1>1
<1> QED
  BY <1>1, <1>2 DEF LastComplete

-----------------------------------------------------------------------------
(* A page: the first Limit of the matching rows. *)

LEMMA MatchingTypes ==
    ASSUME TypeOK
    PROVE  /\ Matching \subseteq OpenTimes
           /\ Matching \subseteq Nat
           /\ Matching \subseteq 0..MaxTime
           /\ IsFiniteSet(Matching)
<1>1. MaxTime \in Nat
  BY FetchAssumption
<1>2. Matching \subseteq OpenTimes /\ OpenTimes \subseteq 0..MaxTime
  BY DEF Matching, TypeOK, OpenTimes, Instants
<1>3. IsFiniteSet(0..MaxTime)
  BY <1>1, FS_Interval
<1>4. IsFiniteSet(Matching)
  BY <1>2, <1>3, FS_Subset
<1> QED
  BY <1>1, <1>2, <1>4

Earlier(t) == {u \in Matching : u < t}

LEMMA EarlierFinite ==
    ASSUME TypeOK, NEW t \in Nat
    PROVE  /\ IsFiniteSet(Earlier(t))
           /\ Cardinality(Earlier(t)) \in Nat
<1>1. Earlier(t) \in SUBSET Matching
  BY DEF Earlier
<1>2. IsFiniteSet(Earlier(t))
  BY <1>1, MatchingTypes, FS_Subset
<1> QED
  BY <1>2, FS_CardinalityType

(* A page has no holes: what matches and is earlier than a row of it is on it. *)
LEMMA PageTakesTheFirst ==
    ASSUME TypeOK, NEW t \in PageTimes, NEW u \in Matching, u <= t
    PROVE  u \in PageTimes
<1>1. t \in Matching /\ t \in Nat /\ u \in Nat /\ Limit \in Nat
  BY MatchingTypes, FetchAssumption DEF PageTimes
<1>2. Cardinality(Earlier(t)) < Limit
  BY DEF PageTimes, Earlier
<1>3. Earlier(u) \subseteq Earlier(t)
  <2>1. \A v \in Matching : v \in Nat
    BY MatchingTypes
  <2>2. \A v \in Matching : v < u => v < t
    BY <1>1, <2>1
  <2> QED
    BY <2>2 DEF Earlier
<1>4. Cardinality(Earlier(u)) <= Cardinality(Earlier(t))
  BY <1>1, <1>3, EarlierFinite, FS_Subset
<1>5. Cardinality(Earlier(u)) < Limit
  BY <1>1, <1>2, <1>4, EarlierFinite
<1> QED
  BY <1>5 DEF PageTimes, Earlier

(* A page is empty only if nothing matches. *)
LEMMA PageNotEmpty ==
    ASSUME TypeOK, Matching # {}
    PROVE  PageTimes # {}
<1>1. PICK m \in Matching : \A t \in Matching : m <= t
  BY MatchingTypes, LeastExists
<1>2. Earlier(m) = {}
  BY <1>1, MatchingTypes DEF Earlier
<1>3. Cardinality(Earlier(m)) = 0 /\ 0 < Limit
  BY <1>2, FS_EmptySet, FetchAssumption
<1> QED
  BY <1>3 DEF PageTimes, Earlier

(* A page that is not full has all that matches. *)
LEMMA ShortPageHasAll ==
    ASSUME TypeOK, Cardinality(PageTimes) < Limit
    PROVE  PageTimes = Matching
<1> DEFINE Left == Matching \ PageTimes
<1>1. PageTimes \subseteq Matching /\ Limit \in Nat
  BY FetchAssumption DEF PageTimes
<1>2. SUFFICES ASSUME Left # {}
               PROVE  FALSE
  BY <1>1
<1>3. PICK m \in Left : \A t \in Left : m <= t
  <2>1. Left \subseteq Nat
    BY MatchingTypes
  <2> HIDE DEF Left
  <2> QED
    BY <1>2, <2>1, LeastExists
<1>4. m \in Matching /\ m \in Nat /\ m \notin PageTimes
  BY MatchingTypes
<1>5. Earlier(m) \subseteq PageTimes
  <2>1. SUFFICES ASSUME NEW u \in Earlier(m), u \notin PageTimes
                 PROVE  FALSE
    OBVIOUS
  <2>2. u \in Matching /\ u < m /\ u \in Nat
    BY MatchingTypes DEF Earlier
  <2> QED
    BY <1>3, <1>4, <2>1, <2>2
<1>6. ~ (Cardinality(Earlier(m)) < Limit)
  BY <1>4 DEF PageTimes, Earlier
<1>7. IsFiniteSet(PageTimes)
  BY <1>1, MatchingTypes, FS_Subset
<1>8. Cardinality(Earlier(m)) <= Cardinality(PageTimes) /\ Cardinality(PageTimes) \in Nat
  BY <1>5, <1>7, FS_Subset, FS_CardinalityType
<1> QED
  BY <1>1, <1>4, <1>6, <1>8, EarlierFinite

LEMMA LastOfPage ==
    ASSUME TypeOK, Matching # {}
    PROVE  /\ LastOf(PageTimes) \in PageTimes
           /\ LastOf(PageTimes) \in Matching
           /\ \A t \in PageTimes : t <= LastOf(PageTimes)
<1>1. PageTimes \subseteq Matching
  BY DEF PageTimes
<1>2. PageTimes \subseteq 0..MaxTime /\ MaxTime \in Nat
  BY <1>1, MatchingTypes, FetchAssumption
<1>3. \E m \in PageTimes : \A t \in PageTimes : t <= m
  BY <1>2, PageNotEmpty, GreatestExists
<1> QED
  BY <1>1, <1>3 DEF LastOf

-----------------------------------------------------------------------------
(* The invariant. *)

Rows == [ts : OpenTimes, final : BOOLEAN]

RowsAsked ==
    \A r \in candles : r.ts \in traded /\ start <= r.ts /\ r.ts < startMs

(* No minute before the next page is left out. *)
NoneSkipped ==
    \A t \in Wanted : t < startMs => t \in Times(candles)

(* A row is final unless its minute was not over at the call. *)
FinalIfOver ==
    \A r \in candles : r.ts + Minute <= calledAt => r.final

FetchInv ==
    /\ TypeOK
    /\ start <= startMs
    /\ RowsAsked
    /\ NoneSkipped
    /\ FinalIfOver
    /\ Complete

(* What fetch_range is called with: nothing fetched, and the first page asked for at start. *)
LEMMA FetchInit == Init => FetchInv
<1> SUFFICES ASSUME Init
             PROVE  FetchInv
  OBVIOUS
<1>1. Minute \in Nat /\ Minute > 0 /\ MaxTime \in Nat
  BY FetchAssumption
<1>2. start \in Nat /\ end \in Nat
  BY DEF Init, Instants
<1>3. TypeOK
  <2>1. calledAt \in 0..now
    BY DEF Init, Instants
  <2>2. startMs \in 0..MaxTime + Minute
    BY <1>1 DEF Init, Instants
  <2> QED
    BY <2>1, <2>2 DEF TypeOK, Init
<1>4. start <= startMs
  BY <1>2 DEF Init
<1>5. NoneSkipped
  <2>1. \A t \in Wanted : ~ (t < startMs)
    <3>1. \A t \in Wanted : t \in Nat /\ start <= t
      BY DEF Wanted, Init, OpenTimes, Instants
    <3> QED
      BY <1>2, <3>1 DEF Init
  <2> QED
    BY <2>1 DEF NoneSkipped
<1> QED
  BY <1>3, <1>4, <1>5 DEF FetchInv, RowsAsked, FinalIfOver, Complete, Init

(* Types of what the proofs compare. *)
LEMMA Numbers ==
    ASSUME TypeOK
    PROVE  /\ Minute \in Nat /\ Minute > 0
           /\ now \in Nat /\ start \in Nat /\ end \in Nat /\ startMs \in Nat
           /\ calledAt \in Nat /\ calledAt <= now
           /\ LastComplete \in Int /\ LastComplete + Minute <= end
           /\ \A t \in OpenTimes : t \in Nat
           /\ \A r \in candles : r.ts \in OpenTimes /\ r.ts \in Nat
           /\ \A t \in traded : t \in OpenTimes /\ t \in Nat
BY FetchAssumption, LastCompleteIsOver DEF TypeOK, Instants, OpenTimes

(* The step of the loop that reads a page. *)
LEMMA ReadsPage ==
    ASSUME FetchInv, Matching # {},
           candles' = candles \cup Page,
           startMs' = LastOf(PageTimes) + Minute,
           UNCHANGED <<now, traded, honoursEnd, start, end, calledAt>>
    PROVE  /\ startMs' \in 0..MaxTime + Minute
           /\ startMs < startMs'
           /\ candles' \subseteq Rows
           /\ RowsAsked'
           /\ NoneSkipped'
           /\ FinalIfOver'
           /\ \A t \in Matching : t < startMs' => t \in PageTimes
<1> DEFINE last == LastOf(PageTimes)
<1>1. /\ TypeOK
      /\ start <= startMs
      /\ RowsAsked
      /\ NoneSkipped
      /\ FinalIfOver
  BY DEF FetchInv
<1>2. /\ last \in Matching
      /\ last \in PageTimes
      /\ \A t \in PageTimes : t <= last
  BY <1>1, LastOfPage
<1>3. /\ last \in OpenTimes
      /\ last \in 0..MaxTime
      /\ startMs <= last
      /\ last <= now
  BY <1>1, <1>2, MatchingTypes DEF Matching
<1> HIDE DEF last
<1>4. startMs' = last + Minute
  BY DEF last
<1>5. startMs' \in 0..MaxTime + Minute /\ startMs < startMs'
  BY <1>1, <1>3, <1>4, Numbers, FetchAssumption
<1>6. PageTimes \subseteq Matching /\ Matching \subseteq traded
  BY DEF PageTimes, Matching
<1>7. \A t \in OpenTimes : t < startMs' => t <= last
  <2> SUFFICES ASSUME NEW t \in OpenTimes, t < startMs', last < t
               PROVE  FALSE
    BY <1>1, <1>3, Numbers
  <2>1. last + Minute <= t
    BY <1>3, OpenTimesApart
  <2> QED
    BY <1>1, <1>3, <1>4, <2>1, Numbers
<1>8. \A t \in Matching : t < startMs' => t \in PageTimes
  <2> SUFFICES ASSUME NEW t \in Matching, t < startMs'
               PROVE  t \in PageTimes
    OBVIOUS
  <2>1. t <= last
    BY <1>1, <1>7, MatchingTypes
  <2> QED
    BY <1>1, <1>2, <2>1, PageTakesTheFirst
<1>9. \A r \in Page : /\ r \in Rows
                      /\ r.ts \in PageTimes
                      /\ r.ts + Minute <= now => r.final
  <2> SUFFICES ASSUME NEW r \in Page
               PROVE  /\ r \in Rows
                      /\ r.ts \in PageTimes
                      /\ r.ts + Minute <= now => r.final
    OBVIOUS
  <2>1. PICK t \in PageTimes : r = [ts |-> t, final |-> t + Minute <= now]
    BY DEF Page
  <2>2. t \in OpenTimes
    BY <1>1, <1>6, MatchingTypes
  <2>3. (t + Minute <= now) \in BOOLEAN
    OBVIOUS
  <2> HIDE DEF Rows
  <2>4. r \in Rows
    BY <2>1, <2>2, <2>3, Zenon DEF Rows
  <2> QED
    BY <2>1, <2>4
<1>10. candles' \subseteq Rows
  BY <1>1, <1>9 DEF TypeOK, Rows
<1>11. RowsAsked'
  <2> SUFFICES ASSUME NEW r \in candles'
               PROVE  r.ts \in traded /\ start <= r.ts /\ r.ts < startMs'
    BY DEF RowsAsked
  <2>1. CASE r \in candles
    BY <1>1, <1>5, <2>1, Numbers DEF RowsAsked
  <2>2. CASE r \in Page
    <3>1. r.ts \in Matching /\ r.ts \in traded /\ r.ts <= last
      BY <1>2, <1>6, <1>9, <2>2
    <3>2. startMs <= r.ts
      BY <3>1 DEF Matching
    <3> QED
      BY <1>1, <1>3, <1>4, <3>1, <3>2, Numbers
  <2> QED
    BY <2>1, <2>2
<1>12. NoneSkipped'
  <2>1. Wanted' = Wanted
    BY DEF Wanted, LastComplete
  <2>2. SUFFICES ASSUME NEW t \in Wanted, t < startMs'
                 PROVE  t \in Times(candles')
    BY <2>1 DEF NoneSkipped
  <2>3. t \in traded /\ t \in OpenTimes /\ t \in Nat /\ t <= LastComplete
    BY <1>1, Numbers DEF Wanted
  <2>4. CASE t < startMs
    BY <1>1, <2>4 DEF NoneSkipped, Times
  <2>5. CASE startMs <= t
    <3>1. t <= now
      BY <1>1, <1>3, <1>7, <2>2, <2>3, Numbers
    <3>2. t \in PageTimes
      BY <1>8, <2>2, <2>3, <2>5, <3>1 DEF Matching
    <3> QED
      <4> DEFINE r == [ts |-> t, final |-> t + Minute <= now]
      <4>1. r \in candles'
        BY <3>2, Zenon DEF Page
      <4>2. r.ts = t
        OBVIOUS
      <4> HIDE DEF r
      <4> QED
        BY <4>1, <4>2 DEF Times
  <2> QED
    BY <1>1, <2>3, <2>4, <2>5, Numbers
<1>13. FinalIfOver'
  <2> SUFFICES ASSUME NEW r \in candles', r.ts + Minute <= calledAt
               PROVE  r.final
    BY DEF FinalIfOver
  <2>1. CASE r \in candles
    BY <1>1, <2>1 DEF FinalIfOver
  <2>2. CASE r \in Page
    <3>1. r.ts \in Nat
      BY <1>1, <1>6, <1>9, <2>2, MatchingTypes
    <3>2. r.ts + Minute <= now
      BY <1>1, <3>1, Numbers
    <3> QED
      BY <1>9, <2>2, <3>2
  <2> QED
    BY <2>1, <2>2
<1> QED
  BY <1>5, <1>8, <1>10, <1>11, <1>12, <1>13

(* The loop ends when nothing it wants is left, so that what passes the check
   is what it was asked for. *)
LEMMA EndsComplete ==
    ASSUME FetchInv,
           UNCHANGED <<now, traded, honoursEnd, start, end, calledAt>>,
           startMs <= startMs', startMs' \in Nat,
           candles' \subseteq Rows,
           RowsAsked',
           NoneSkipped',
           pc' = Outcome(candles'),
           \A t \in Matching : t <= LastComplete => t < startMs'
    PROVE  Complete'
<1>1. Wanted' = Wanted /\ LastComplete' = LastComplete
  BY DEF Wanted, LastComplete
<1>2. SUFFICES ASSUME pc' = "returned"
               PROVE  /\ Times(candles') \subseteq Wanted
                      /\ \A t \in Wanted : t <= calledAt => t \in Times(candles')
  BY <1>1 DEF Complete
<1>3. TypeOK /\ NoneSkipped
  BY DEF FetchInv
<1>4. \A r \in candles' : ~ (r.ts > LastComplete)
  BY <1>2 DEF Outcome
<1>5. Times(candles') \subseteq Wanted
  <2> SUFFICES ASSUME NEW r \in candles'
               PROVE  r.ts \in Wanted
    BY DEF Times
  <2>1. r.ts \in traded /\ start <= r.ts
    BY DEF RowsAsked
  <2>2. r.ts <= LastComplete
    BY <1>3, <1>4, <2>1, Numbers
  <2> QED
    BY <2>1, <2>2 DEF Wanted
<1>6. ASSUME NEW t \in Wanted, t <= calledAt
      PROVE  t \in Times(candles')
  <2>1. t \in traded /\ t \in Nat /\ t <= LastComplete
    BY <1>3, Numbers DEF Wanted
  <2>2. t <= now
    BY <1>3, <1>6, <2>1, Numbers
  <2>3. CASE t < startMs'
    BY <1>1, <2>3 DEF NoneSkipped
  <2>4. CASE startMs <= t
    <3>1. t \in Matching
      BY <2>1, <2>2, <2>4 DEF Matching
    <3> QED
      BY <2>1, <2>3, <3>1
  <2>5. CASE t < startMs
    BY <1>1, <1>3, <2>1, <2>5, Numbers DEF NoneSkipped
  <2> QED
    BY <1>3, <2>1, <2>4, <2>5, Numbers
<1> QED
  BY <1>5, <1>6

(* The step of the loop that finds nothing more. *)
LEMMA ReadsNothing ==
    ASSUME FetchInv,
           UNCHANGED <<now, traded, honoursEnd, start, end, calledAt, startMs, candles>>
    PROVE  /\ candles' \subseteq Rows
           /\ RowsAsked'
           /\ NoneSkipped'
           /\ FinalIfOver'
BY DEF FetchInv, TypeOK, Rows, RowsAsked, NoneSkipped, FinalIfOver, Wanted, LastComplete

LEMMA PageKept == FetchInv /\ FetchPage => FetchInv'
<1> SUFFICES ASSUME FetchInv, FetchPage
             PROVE  FetchInv'
  OBVIOUS
<1>1. /\ TypeOK
      /\ start <= startMs
      /\ startMs \in Nat /\ start \in Nat /\ LastComplete \in Int
  BY Numbers DEF FetchInv
<1>2. UNCHANGED <<now, traded, honoursEnd, start, end, calledAt>>
  BY DEF FetchPage
<1>3. Outcome(candles') \in {"returned", "raised"}
  BY DEF Outcome
<1>4. CASE /\ Matching = {}
           /\ pc' = Outcome(candles)
           /\ UNCHANGED <<startMs, candles>>
  <2>1. RowsAsked' /\ NoneSkipped' /\ FinalIfOver' /\ candles' \subseteq Rows
    BY <1>2, <1>4, ReadsNothing
  <2>2. pc' = Outcome(candles')
    BY <1>4
  <2>3. Complete'
    BY <1>1, <1>2, <1>4, <2>1, <2>2, EndsComplete
  <2>4. TypeOK'
    BY <1>1, <1>2, <1>3, <1>4, <2>2 DEF TypeOK
  <2> QED
    BY <1>1, <1>2, <1>4, <2>1, <2>3, <2>4 DEF FetchInv
<1>5. CASE /\ Matching # {}
           /\ candles' = candles \cup Page
           /\ startMs' = LastOf(PageTimes) + Minute
           /\ pc' = IF Cardinality(PageTimes) < Limit \/ startMs' > LastComplete
                    THEN Outcome(candles')
                    ELSE "fetching"
  <2>1. /\ RowsAsked' /\ NoneSkipped' /\ FinalIfOver' /\ candles' \subseteq Rows
        /\ startMs' \in 0..MaxTime + Minute
        /\ startMs < startMs'
        /\ \A t \in Matching : t < startMs' => t \in PageTimes
    BY <1>2, <1>5, ReadsPage
  <2>2. startMs' \in Nat
    BY <2>1
  <2>3. TypeOK'
    <3>1. pc' \in {"fetching", "returned", "raised"}
      BY <1>3, <1>5
    <3>2. candles' \in SUBSET [ts : OpenTimes, final : BOOLEAN]
      BY <2>1 DEF Rows
    <3> QED
      BY <1>1, <1>2, <2>1, <3>1, <3>2 DEF TypeOK
  <2>4. Complete'
    <3>1. CASE pc' = "fetching"
      BY <3>1 DEF Complete
    <3>2. CASE pc' # "fetching"
      <4>1. pc' = Outcome(candles') /\ (Cardinality(PageTimes) < Limit \/ startMs' > LastComplete)
        BY <1>5, <3>2
      <4>2. \A t \in Matching : t <= LastComplete => t < startMs'
        <5>1. CASE Cardinality(PageTimes) < Limit
          <6>1. \A t \in Matching : t \in Nat /\ t <= LastOf(PageTimes)
            BY <1>1, <1>5, <5>1, ShortPageHasAll, LastOfPage, MatchingTypes
          <6>2. LastOf(PageTimes) \in Nat /\ Minute \in Nat /\ Minute > 0
            BY <1>1, <1>5, LastOfPage, MatchingTypes, Numbers
          <6> QED
            BY <1>5, <6>1, <6>2
        <5>2. CASE startMs' > LastComplete
          BY <1>1, <2>2, <5>2, MatchingTypes
        <5> QED
          BY <4>1, <5>1, <5>2
      <4> QED
        BY <1>1, <1>2, <2>1, <2>2, <4>1, <4>2, EndsComplete
    <3> QED
      BY <3>1, <3>2
  <2>5. start' <= startMs'
    BY <1>1, <1>2, <2>1, <2>2
  <2> QED
    BY <2>1, <2>3, <2>4, <2>5 DEF FetchInv
<1> QED
  BY <1>4, <1>5 DEF FetchPage

LEMMA FailKept == FetchInv /\ FetchFails => FetchInv'
<1> SUFFICES ASSUME FetchInv, FetchFails
             PROVE  FetchInv'
  OBVIOUS
<1>1. UNCHANGED <<now, traded, honoursEnd, start, end, calledAt, startMs, candles>> /\ pc' = "raised"
  BY DEF FetchFails
<1>2. RowsAsked' /\ NoneSkipped' /\ FinalIfOver'
  BY <1>1, ReadsNothing
<1>3. Complete'
  BY <1>1 DEF Complete
<1>4. TypeOK' /\ start' <= startMs'
  BY <1>1 DEF FetchInv, TypeOK
<1> QED
  BY <1>2, <1>3, <1>4 DEF FetchInv

LEMMA TickKept == FetchInv /\ Tick => FetchInv'
<1> SUFFICES ASSUME FetchInv, Tick
             PROVE  FetchInv'
  OBVIOUS
<1>1. /\ UNCHANGED <<traded, honoursEnd, start, end, calledAt, startMs, candles, pc>>
      /\ now' = now + 1 /\ now < MaxTime
  BY DEF Tick
<1>2. TypeOK
  BY DEF FetchInv
<1>3. TypeOK'
  <2>1. now' \in Instants /\ calledAt' \in 0..now'
    BY <1>1, <1>2, Numbers, FetchAssumption DEF Instants, TypeOK
  <2> QED
    BY <1>1, <1>2, <2>1 DEF TypeOK
<1> QED
  BY <1>1, <1>3 DEF FetchInv, RowsAsked, NoneSkipped, FinalIfOver, Complete, Wanted,
                    LastComplete

(* A page, a failure and a tick of the clock keep the invariant. *)
LEMMA FetchStep == FetchInv /\ [Next]_vars => FetchInv'
<1> SUFFICES ASSUME FetchInv, [Next]_vars
             PROVE  FetchInv'
  OBVIOUS
<1>1. CASE UNCHANGED vars
  BY <1>1 DEF FetchInv, TypeOK, RowsAsked, NoneSkipped, FinalIfOver, Complete, Wanted,
              LastComplete, vars
<1> QED
  BY <1>1, PageKept, FailKept, TickKept DEF Next

LEMMA FetchInvariance == Spec => []FetchInv
BY FetchInit, FetchStep, PTL DEF Spec

-----------------------------------------------------------------------------
(* The theorems. *)

(* The variables of fetch_range stay in their ranges: the next page starts at
   most a minute after the last instant. *)
THEOREM TypeCorrectness == Spec => []TypeOK
<1>1. FetchInv => TypeOK
  BY DEF FetchInv
<1> QED
  BY <1>1, FetchInvariance, PTL

(* Whatever page size, clock and gaps: fetch_range returns all the minutes it
   was asked for that had begun at the call, and no others. *)
THEOREM FetchIsComplete == Spec => []Complete
<1>1. FetchInv => Complete
  BY DEF FetchInv
<1> QED
  BY <1>1, FetchInvariance, PTL

(* A row fetch_range returns to a caller whose end is not in the future was
   read when its minute was over: a row that comes back is no later than the
   last complete minute of end, which was over when the call was made. *)
THEOREM FetchIsFinal == Spec => []OnlyFinalized
<1>1. FetchInv => OnlyFinalized
  <2> SUFFICES ASSUME FetchInv, pc = "returned", end <= calledAt, NEW r \in candles
               PROVE  r.final
    BY DEF OnlyFinalized
  <2>1. TypeOK /\ Complete /\ FinalIfOver
    BY DEF FetchInv
  <2>2. r.ts <= LastComplete
    BY <2>1 DEF Complete, Times, Wanted
  <2>3. r.ts + Minute <= calledAt
    BY <2>1, <2>2, Numbers
  <2> QED
    BY <2>1, <2>3 DEF FinalIfOver
<1> QED
  BY <1>1, FetchInvariance, PTL

(* Every page lies after all that was fetched before it, so that the list of
   rows, to which pages are appended, is sorted and has no row twice. *)
THEOREM FetchAscends == Spec => PagesAscend
<1>1. FetchInv /\ [Next]_vars
      => [startMs' # startMs => \A t \in PageTimes, r \in candles : r.ts < t]_vars
  <2> SUFFICES ASSUME FetchInv, NEW t \in PageTimes, NEW r \in candles
               PROVE  r.ts < t
    OBVIOUS
  <2>1. TypeOK /\ r.ts < startMs
    BY DEF FetchInv, RowsAsked
  <2>2. startMs <= t /\ t \in Matching
    BY DEF PageTimes, Matching
  <2> QED
    BY <2>1, <2>2, Numbers, MatchingTypes
<1> QED
  BY <1>1, FetchInvariance, PTL DEF Spec, PagesAscend


(* The measure behind termination, which itself is left to TLC: a turn of the
   loop that goes on moves the start of the next page, which never passes the
   last instant by more than a minute. *)
THEOREM LoopAdvances ==
    Spec => [][FetchPage /\ pc' = "fetching"
                 => startMs < startMs' /\ startMs' <= MaxTime + Minute]_vars
<1>1. FetchInv /\ [Next]_vars
      => [FetchPage /\ pc' = "fetching"
            => startMs < startMs' /\ startMs' <= MaxTime + Minute]_vars
  <2> SUFFICES ASSUME FetchInv, FetchPage, pc' = "fetching"
               PROVE  startMs < startMs' /\ startMs' <= MaxTime + Minute
    OBVIOUS
  <2>1. \A rows : Outcome(rows) # "fetching"
    BY DEF Outcome
  <2>2. /\ Matching # {}
        /\ candles' = candles \cup Page
        /\ startMs' = LastOf(PageTimes) + Minute
        /\ UNCHANGED <<now, traded, honoursEnd, start, end, calledAt>>
    BY <2>1 DEF FetchPage
  <2>3. startMs' \in 0..MaxTime + Minute /\ startMs < startMs'
    BY <2>2, ReadsPage
  <2> QED
    BY <2>3, FetchAssumption
<1> QED
  BY <1>1, FetchInvariance, PTL DEF Spec

=============================================================================
