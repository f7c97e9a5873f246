--------------------------------- MODULE Sweep ---------------------------------
(***************************************************************************)
(* run_sweep (src/crypto_pipeline/backtest/sweep.py): the candles are cut  *)
(* in two, every combination of the grid that fits is run on the first     *)
(* part, the best one of those that traded enough is chosen, and that one  *)
(* is run once on the second part.                                         *)
(*                                                                         *)
(* A backtest is what Backtest makes of it, as far as the sweep can tell:  *)
(* it raises when a window does not fit the data, or when the data is not  *)
(* accepted, and returns a Sharpe ratio, or none, and a number of trades.  *)
(* BacktestCommand calls it, once for each symbol.                         *)
(***************************************************************************)
EXTENDS Integers, Sequences, FiniteSets, SequencesExt

CONSTANTS
    Grid,         \* the sequence of pairs <<fast, slow>>; 0 is any window < 1
    Sharpes,      \* Sharpe ratios
    NoSharpe,     \* no return varies
    MinTrades,    \* MIN_TRADES_FOR_ELIGIBILITY
    RatioNum,     \* ratio, as a fraction
    RatioDen,
    MaxCandles    \* bound: candles

ASSUME SweepAssumption ==
    /\ Grid \in Seq(Nat \X Nat)
    /\ Sharpes \subseteq Int
    /\ NoSharpe \notin Int
    /\ MinTrades \in Nat
    /\ RatioDen \in Nat \ {0}
    /\ RatioNum \in 0..RatioDen
    /\ MaxCandles \in Nat

VARIABLES
    isLength, oosLength,    \* the lengths of the two segments
    isRefused, oosRefused,  \* whether a segment is not accepted
    stage,                  \* "idle", "tuning", "evaluating", "returned", "raised"
    next,                   \* the next combination of the grid
    results,                \* what the combinations that ran have returned
    ranked,                 \* ranked, sorted: indices of the grid
    best                    \* index of the chosen combination, 0 before

segments == <<isLength, oosLength, isRefused, oosRefused>>
sweepVars == <<segments, stage, next, results, ranked, best>>

Metrics == [sharpe : Sharpes \cup {NoSharpe}, trades : 0..MaxCandles]

-----------------------------------------------------------------------------

(* No call is on its way. *)
NoSweep ==
    /\ isLength = 0
    /\ oosLength = 0
    /\ isRefused = FALSE
    /\ oosRefused = FALSE
    /\ stage = "idle"
    /\ next = 1
    /\ results = <<>>
    /\ ranked = <<>>
    /\ best = 0

(* run_sweep is over; its locals go. *)
Leave ==
    /\ isLength' = 0
    /\ oosLength' = 0
    /\ isRefused' = FALSE
    /\ oosRefused' = FALSE
    /\ stage' = "idle"
    /\ next' = 1
    /\ results' = <<>>
    /\ ranked' = <<>>
    /\ best' = 0

(* run_sweep is called with n candles, and split_chronological cuts them.
   Whatever the windows, prepare_candles does not accept a segment that has a
   gap, prices that do not agree or are not positive, or a negative volume.
   What else raises for every window, a capital of zero, is counted there. *)
Split(n) ==
    /\ isLength' = (n * RatioNum) \div RatioDen
    /\ oosLength' = n - isLength'
    /\ isRefused' \in {refused \in BOOLEAN : refused => isLength' > 0}
    /\ oosRefused' \in {refused \in BOOLEAN : refused => oosLength' > 0}
    /\ stage' = "tuning"
    /\ next' = 1
    /\ results' = <<>>
    /\ ranked' = <<>>
    /\ best' = 0

Fast(k) == Grid[k][1]
Slow(k) == Grid[k][2]

(* The combinations of the grid that are not run at all. *)
Skipped(k) == Fast(k) >= Slow(k) \/ Slow(k) > isLength

(* run_backtest_metrics raises on a segment of this length: prepare_candles
   has none or does not accept them, sma has a window below 1, or
   sma_crossover windows that are too long or swapped. *)
Raises(k, length, refused) ==
    \/ length = 0 \/ refused
    \/ Fast(k) < 1 \/ Slow(k) < 1
    \/ Fast(k) > length \/ Slow(k) > length
    \/ Fast(k) > Slow(k)

(* What a run on the first segment can return: positions are taken from the
   candle after the slow window on, a trade needs a candle in which none is
   held before it, and without a trade the equity does not vary. *)
MetricsOf(k) ==
    {m \in Metrics :
        /\ 2 * m.trades <= isLength - Slow(k) + 1
        /\ m.trades = 0 => m.sharpe = NoSharpe}

(* A combination of the grid is passed over, or run on the first segment;
   what it raises goes through run_sweep. *)
Tune ==
    /\ stage = "tuning"
    /\ next <= Len(Grid)
    /\ \/ /\ Skipped(next)
          /\ next' = next + 1
          /\ UNCHANGED <<stage, results>>
       \/ /\ ~Skipped(next)
          /\ Raises(next, isLength, isRefused)
          /\ stage' = "raised"
          /\ UNCHANGED <<next, results>>
       \/ /\ ~Skipped(next)
          /\ ~Raises(next, isLength, isRefused)
          /\ \E m \in MetricsOf(next) : results' = Append(results, [combo |-> next, metrics |-> m])
          /\ next' = next + 1
          /\ UNCHANGED stage
    /\ UNCHANGED <<segments, ranked, best>>

Eligible(r) == r.metrics.sharpe # NoSharpe /\ r.metrics.trades >= MinTrades

(* Mutant: a missing Sharpe ratio counts as zero. *)
RankedBeforeNoneIsZero(j, k) ==
    LET value(n) == IF results[n].metrics.sharpe = NoSharpe THEN 0 ELSE results[n].metrics.sharpe
    IN  value(j) > value(k) \/ (value(j) = value(k) /\ j < k)

(* The sort key: combinations with a Sharpe ratio first, the highest first;
   the sort is stable. *)
RankedBefore(j, k) ==
    LET a == results[j].metrics.sharpe
        b == results[k].metrics.sharpe
    IN  \/ a # NoSharpe /\ b = NoSharpe
        \/ a # NoSharpe /\ b # NoSharpe /\ a > b
        \/ a = b /\ j < k

(* The place in the sorted list: behind all that are ranked before it. *)
Place(k) == Cardinality({j \in DOMAIN results : RankedBefore(j, k)}) + 1

(* Mutant: the place in the grid is taken for the place in the results. *)
BestOfCombo(E) ==
    results[CHOOSE k \in E : \A j \in E :
                results[j].metrics.sharpe <= results[k].metrics.sharpe].combo

(* max(eligible): the first of those with the highest Sharpe ratio. *)
BestOf(E) ==
    CHOOSE k \in E : \A j \in E :
        \/ results[j].metrics.sharpe < results[k].metrics.sharpe
        \/ results[j].metrics.sharpe = results[k].metrics.sharpe /\ k <= j

(* After the grid: nothing ran, nothing is eligible, or the best is chosen. *)
Choose ==
    /\ stage = "tuning"
    /\ next > Len(Grid)
    /\ LET E == {k \in DOMAIN results : Eligible(results[k])} IN
          IF E = {}
          THEN stage' = "raised" /\ UNCHANGED <<ranked, best>>
          ELSE /\ stage' = "evaluating"
               /\ ranked' = [p \in DOMAIN results |-> CHOOSE k \in DOMAIN results : Place(k) = p]
               /\ best' = BestOf(E)
    /\ UNCHANGED <<segments, next, results>>

(* The chosen combination is run on the second segment. *)
Evaluate ==
    /\ stage = "evaluating"
    /\ stage' = IF Raises(results[best].combo, oosLength, oosRefused) THEN "raised" ELSE "returned"
    /\ UNCHANGED <<segments, next, results, ranked, best>>

SweepNext == Tune \/ Choose \/ Evaluate

-----------------------------------------------------------------------------
(* Properties *)

SweepTypeOK ==
    /\ isLength \in 0..MaxCandles
    /\ oosLength \in 0..MaxCandles
    /\ isRefused \in BOOLEAN
    /\ oosRefused \in BOOLEAN
    /\ stage \in {"idle", "tuning", "evaluating", "returned", "raised"}
    /\ next \in 1..Len(Grid) + 1
    /\ results \in Seq([combo : DOMAIN Grid, metrics : Metrics])
    /\ ranked \in Seq(DOMAIN results)
    /\ best \in {0} \cup DOMAIN results

(* The table shows every combination that ran, once; whatever precedes the
   chosen one in it has too few trades, so that the mark never stands below
   a combination that could have been chosen. *)
RankingExplainsBest ==
    best # 0 =>
        /\ Len(ranked) = Len(results) /\ ToSet(ranked) = DOMAIN results
        /\ \A p, q \in DOMAIN ranked :
              p < q /\ ranked[q] = best =>
                  results[ranked[p]].metrics.trades < MinTrades

=============================================================================
