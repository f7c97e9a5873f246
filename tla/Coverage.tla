------------------------------- MODULE Coverage -------------------------------
(***************************************************************************)
(* The reading half of the API (src/crypto_pipeline/api) for one symbol:   *)
(* GET /symbols, GET /candles, GET /coverage, and POST /backtest as far as *)
(* what is stored decides whether it is refused.  The writer and the       *)
(* backfill command store candles meanwhile, in any order.  Dashboard is   *)
(* a client of it.                                                         *)
(*                                                                         *)
(* Times are instants; a minute is Minute of them and an hour is Hour of   *)
(* them, so that the ends of a range may lie inside a minute or an hour.   *)
(***************************************************************************)
EXTENDS Integers, FiniteSets

CONSTANTS
    Minute,       \* INTERVALS["1m"]
    Hour,         \* INTERVALS["1h"]
    Limits,       \* the values of limit
    Watched,       \* the symbol
    Others,       \* the other symbols
    SlowWindows,  \* the values of slow_window
    MaxSpan,      \* MAX_BACKTEST_CANDLES
    None,         \* no answer yet
    MaxTime       \* bound: the last instant

ASSUME CoverageAssumption ==
    /\ Minute \in Nat \ {0}
    /\ Hour \in Nat \ {0}
    /\ Hour % Minute = 0
    /\ Limits \cup SlowWindows \subseteq Nat \ {0}
    /\ Watched \notin Others
    /\ MaxSpan \in Nat
    /\ MaxTime \in Nat

VARIABLES
    stored,       \* open times of the stored candles of Watched
    others,       \* the other symbols that have candles
    listing,      \* a GET /candles that found none and looks for the symbol
    page,         \* the last answer to GET /candles
    shown,        \* the last answer to GET /coverage
    verdict       \* the range of the last POST /backtest and what it came to

stores == <<stored, others>>
answers == <<listing, page, shown, verdict>>

Instants == 0..MaxTime
OpenTimes == {t \in Instants : t % Minute = 0}
Ranges == {r \in [start : Instants, end : Instants] : r.start <= r.end}

-----------------------------------------------------------------------------

(* Mutant: the end of the range is not counted. *)
ExpectedOpenEnded(r, interval) == (r.end - r.start) \div interval

(* Mutant: the ends of the range are swapped. *)
ExpectedSwapped(r, interval) == (r.start - r.end + interval) \div interval

(* _expected_for_range. *)
Expected(r, interval) == (r.end - r.start + interval) \div interval

(* WHERE ts >= start AND ts <= end. *)
InRange(r, times) == {t \in times : r.start <= t /\ t <= r.end}

(* What a query groups by: the minute itself, or time_bucket('1 hour', ts). *)
Buckets(r, interval) == {(t \div interval) * interval : t \in InRange(r, stored)}

(* ORDER BY ts LIMIT n. *)
Earliest(times, n) == {t \in times : Cardinality({u \in times : u < t}) < n}

(* Mutant: LIMIT limit instead of limit + 1. *)
PageWithoutProbe(r, interval, limit) ==
    LET rows == Earliest(Buckets(r, interval), limit)
    IN  [range |-> r, interval |-> interval, limit |-> limit, all |-> Buckets(r, interval),
         candles |-> rows, truncated |-> Cardinality(rows) > limit,
         expected |-> Expected(r, interval)]

(* list_candles asks for one row more than it returns.  The field "all" is
   history: the rows there were to return. *)
Page(r, interval, limit) ==
    LET rows == Earliest(Buckets(r, interval), limit + 1)
    IN  [range |-> r, interval |-> interval, limit |-> limit, all |-> Buckets(r, interval),
         candles |-> Earliest(rows, limit), truncated |-> Cardinality(rows) > limit,
         expected |-> Expected(r, interval)]

(* list_symbols. *)
Listed == others \cup (IF stored = {} THEN {} ELSE {Watched})

NothingAsked ==
    /\ listing = None
    /\ page = None
    /\ shown = None
    /\ verdict = None

(* insert_candles, by the writer or the backfill command. *)
Store ==
    /\ \/ \E t \in OpenTimes \ stored : stored' = stored \cup {t} /\ UNCHANGED others
       \/ \E s \in Others \ others : others' = others \cup {s} /\ UNCHANGED stored
    /\ UNCHANGED answers

(* GET /candles, up to `if not candles`.  The GETs share nothing but the
   table: one answer is remembered at a time. *)
GetCandles(r, interval, limit) ==
    /\ listing = None
    /\ LET answer == Page(r, interval, limit) IN
          IF answer.candles = {}
          THEN listing' = answer /\ page' = None
          ELSE page' = answer /\ UNCHANGED listing
    /\ shown' = None
    /\ verdict' = None
    /\ UNCHANGED stores

(* list_symbols, a query of its own: 404 only for a symbol without candles. *)
ListSymbols ==
    /\ listing # None
    /\ page' = IF Watched \in Listed THEN listing ELSE None
    /\ listing' = None
    /\ UNCHANGED <<stores, shown, verdict>>

(* GET /coverage. *)
GetCoverage(r) ==
    /\ shown' = [range |-> r, expected |-> Expected(r, Minute),
                 returned |-> Cardinality(InRange(r, stored))]
    /\ verdict' = None
    /\ page' = None
    /\ UNCHANGED <<stores, listing>>

(* gap_count > 0 in prepare_candles. *)
HasGap(times) ==
    \E t \in times : (\E u \in times : u < t) /\ t - Minute \notin times

(* check_consistency, as far as the range goes. *)
ValidRequest(r) == r.start < r.end /\ (r.end - r.start) \div Minute <= MaxSpan

(* POST /backtest without allow_gaps: an invalid request, no candles, GapError,
   and a window that is longer than the data, whose ValueError nothing
   catches. *)
PostBacktest(r, slow) ==
    /\ LET candles == InRange(r, stored) IN
          verdict' = [range |-> r,
                      outcome |-> IF ~ValidRequest(r) THEN "invalid"
                                  ELSE IF candles = {} THEN "no candles"
                                  ELSE IF HasGap(candles) THEN "gap"
                                  ELSE IF slow > Cardinality(candles) THEN "error"
                                  ELSE "accepted"]
    /\ page' = None
    /\ UNCHANGED <<stores, listing, shown>>

-----------------------------------------------------------------------------
(* Properties *)

Inside(r, whole) == whole.start <= r.start /\ r.end <= whole.end

Outcomes == {"invalid", "no candles", "gap", "error", "accepted"}

Pages == [range : Ranges, interval : {Minute, Hour}, limit : Limits, all : SUBSET OpenTimes,
          candles : SUBSET OpenTimes, truncated : BOOLEAN, expected : Nat]

AnswersTypeOK ==
    /\ stored \in SUBSET OpenTimes
    /\ others \in SUBSET Others
    /\ listing \in Pages \cup {None}
    /\ page \in Pages \cup {None}
    /\ shown \in [range : Ranges, expected : Nat, returned : Nat] \cup {None}
    /\ verdict \in [range : Ranges, outcome : Outcomes] \cup {None}

(* truncated tells that candles of the range were left out, and those left
   out are the latest. *)
TruncatedTells ==
    page # None =>
        LET left == page.all \ page.candles IN
           /\ page.truncated <=> left # {}
           /\ page.truncated => Cardinality(page.candles) = page.limit
           /\ \A t \in page.candles, u \in left : t < u

(* Once a range of whole minutes was counted complete, a backtest over any whole
   minutes inside it is not refused for what is stored, whatever is stored
   between the count and the backtest. *)
CompleteIsAccepted ==
    /\ shown # None /\ verdict # None
    /\ shown.range.start % Minute = 0 /\ shown.returned = shown.expected
    /\ verdict.range.start % Minute = 0 /\ Inside(verdict.range, shown.range)
    => verdict.outcome \notin {"no candles", "gap"}

=============================================================================
