------------------------------ MODULE FetchRange ------------------------------
(***************************************************************************)
(* fetch_range (src/crypto_pipeline/backfill/fetch.py): the paginated REST *)
(* fetch behind the backfill command and the ingester's heal.  Pages are   *)
(* requested one after the other while the clock runs, so that the set of  *)
(* rows the exchange has, and which of them are final, changes under it.   *)
(*                                                                         *)
(* Times are instants; a minute is Minute of them, so that the arguments   *)
(* may lie inside a minute.  A row is known by its open time.              *)
(***************************************************************************)
EXTENDS Integers, FiniteSets

CONSTANTS
    Minute,       \* MIN_IN_EPOCH, in instants
    Limit,        \* QUERY_LIMIT, rows in a page
    MaxTime       \* bound: the last instant

ASSUME FetchAssumption ==
    /\ Minute \in Nat \ {0}
    /\ Limit \in Nat \ {0}
    /\ MaxTime \in Nat

VARIABLES
    now,          \* the clock
    traded,       \* open times of the minutes the exchange has rows for
    honoursEnd,   \* whether the exchange heeds endTime
    start, end,   \* the arguments of fetch_range
    calledAt,     \* history: the time of the call
    startMs,      \* start of the next page
    candles,      \* the rows fetched so far
    pc            \* "fetching", "returned" or "raised"

vars == <<now, traded, honoursEnd, start, end, calledAt, startMs, candles, pc>>

Instants == 0..MaxTime
OpenTimes == {t \in Instants : t % Minute = 0}

-----------------------------------------------------------------------------

(* Mutant: the minute in progress at end counts as complete. *)
LastCompleteInProgress == (end \div Minute) * Minute

(* last_complete_minute_ms(end): the last minute that is over at end. *)
LastComplete == (end \div Minute) * Minute - Minute

(* Mutant: startTime is taken for exclusive. *)
MatchingAfterStart == {t \in traded :
    startMs < t /\ t <= now /\ (honoursEnd => t <= LastComplete)}

(* The rows the exchange answers a page with.  A minute has a row from its
   first instant on; the row is final when the minute is over. *)
Matching == {t \in traded :
    startMs <= t /\ t <= now /\ (honoursEnd => t <= LastComplete)}
PageTimes == {t \in Matching : Cardinality({u \in Matching : u < t}) < Limit}
Page == {[ts |-> t, final |-> t + Minute <= now] : t \in PageTimes}

(* page[-1][0]: the exchange sorts a page by open time. *)
LastOf(times) == CHOOSE t \in times : \A u \in times : u <= t

(* The times fetch_range has been asked for. *)
Wanted == {t \in traded : start <= t /\ t <= LastComplete}

Times(rows) == {r.ts : r \in rows}

(* A call: resolve_range and _heal_gap both ensure start < end.  The end of a
   heal is in the past; that of the backfill command may be in the future. *)
Init ==
    /\ now \in Instants
    /\ traded \in SUBSET OpenTimes
    /\ honoursEnd \in BOOLEAN
    /\ start \in Instants
    /\ end \in Instants
    /\ start < end
    /\ calledAt = now
    /\ startMs = start
    /\ candles = {}
    /\ pc = "fetching"

(* The check after the loop: a row beyond the last complete minute means that
   the exchange did not heed endTime, and all rows are thrown away. *)
Outcome(rows) ==
    IF \E r \in rows : r.ts > LastComplete THEN "raised" ELSE "returned"

(* Mutant: the start of the next page does not move. *)
FetchPageAgain ==
    /\ pc = "fetching"
    /\ candles' = candles \cup Page
    /\ pc' = IF Cardinality(PageTimes) < Limit THEN Outcome(candles') ELSE "fetching"
    /\ UNCHANGED <<now, traded, honoursEnd, start, end, calledAt, startMs>>

(* Mutant: the next page starts at the last row instead of after it. *)
FetchPageOverlaps ==
    /\ pc = "fetching"
    /\ \/ /\ Matching = {}
          /\ pc' = Outcome(candles)
          /\ UNCHANGED <<startMs, candles>>
       \/ /\ Matching # {}
          /\ candles' = candles \cup Page
          /\ startMs' = LastOf(PageTimes)
          /\ pc' = IF Cardinality(PageTimes) < Limit \/ startMs' > LastComplete
                   THEN Outcome(candles')
                   ELSE "fetching"
    /\ UNCHANGED <<now, traded, honoursEnd, start, end, calledAt>>

(* Mutant: the next page starts a page of minutes later, gaps or not. *)
FetchPageFixedWidth ==
    /\ pc = "fetching"
    /\ candles' = candles \cup Page
    /\ startMs' = startMs + Limit * Minute
    /\ pc' = IF Matching = {} \/ startMs' > LastComplete THEN Outcome(candles')
                                                        ELSE "fetching"
    /\ UNCHANGED <<now, traded, honoursEnd, start, end, calledAt>>

(* One turn of the loop, and the check when it is the last one. *)
FetchPage ==
    /\ pc = "fetching"
    /\ \/ /\ Matching = {}
          /\ pc' = Outcome(candles)
          /\ UNCHANGED <<startMs, candles>>
       \/ /\ Matching # {}
          /\ candles' = candles \cup Page
          /\ startMs' = LastOf(PageTimes) + Minute
          /\ pc' = IF Cardinality(PageTimes) < Limit \/ startMs' > LastComplete
                   THEN Outcome(candles')
                   ELSE "fetching"
    /\ UNCHANGED <<now, traded, honoursEnd, start, end, calledAt>>

(* A request raises; fetch_range passes it on and its rows are lost. *)
FetchFails ==
    /\ pc = "fetching"
    /\ pc' = "raised"
    /\ UNCHANGED <<now, traded, honoursEnd, start, end, calledAt, startMs, candles>>

Tick ==
    /\ now < MaxTime
    /\ now' = now + 1
    /\ UNCHANGED <<traded, honoursEnd, start, end, calledAt, startMs, candles, pc>>

Next == FetchPage \/ FetchFails \/ Tick

Spec == Init /\ [][Next]_vars /\ WF_vars(FetchPage)

-----------------------------------------------------------------------------
(* Properties *)

TypeOK ==
    /\ now \in Instants
    /\ traded \in SUBSET OpenTimes
    /\ honoursEnd \in BOOLEAN
    /\ start \in Instants
    /\ end \in Instants
    /\ calledAt \in 0..now
    /\ startMs \in 0..MaxTime + Minute
    /\ candles \in SUBSET [ts : OpenTimes, final : BOOLEAN]
    /\ pc \in {"fetching", "returned", "raised"}

(* "Only finalized candles enter the system": the minute of a row that
   fetch_range returns was over when the row was read, even if the exchange
   does not heed endTime.  The code owes it to callers whose end is not in
   the future, and to no others: the last complete minute is taken from end. *)
OnlyFinalized == pc = "returned" /\ end <= calledAt => \A r \in candles : r.final

(* When fetch_range returns it has every row of [start, end) whose minute is
   over at end and had begun at the call, and none outside, wherever the
   pages were cut and however the clock moved between them. *)
Complete ==
    pc = "returned" =>
        /\ Times(candles) \subseteq Wanted
        /\ {t \in Wanted : t <= calledAt} \subseteq Times(candles)

(* Pages follow each other: all of a page is later than what was fetched
   before, so the list is sorted and repeats nothing. *)
PagesAscend ==
    [][startMs' # startMs => \A t \in PageTimes, r \in candles : r.ts < t]_vars

(* A full page still makes progress: the loop asks for fewer and fewer rows
   and ends. *)
Terminates == <>(pc # "fetching")

=============================================================================
