---------------------------- MODULE BacktestCommand ----------------------------
(***************************************************************************)
(* The backtest command (src/crypto_pipeline/backtest/__main__.py): for    *)
(* each symbol of its arguments it reads the candles of a range and runs   *)
(* one backtest, or a sweep; when either raises it notes the symbol and    *)
(* goes on to the next; in the end it prints the reports it has and exits  *)
(* with 0, 1 (some symbol failed) or 2 (bad range).                        *)
(***************************************************************************)
EXTENDS Sweep

CONSTANTS
    Arguments,    \* the number of symbols on the command line
    Nothing       \* nothing read, or no exit code yet

ASSUME CommandAssumption ==
    /\ Arguments \in Nat \ {0}
    /\ Nothing \notin Int

VARIABLES
    phase,        \* "starting", "reading", "running", "sweeping", "exited"
    symbol,       \* place of the symbol in hand
    sweep,        \* --sweep
    pair,         \* --fast and --slow, as an index of Grid
    counts,       \* history: number of candles read for each symbol
    failures,     \* places of the symbols that failed
    reports,      \* formatted_metrics_list
    printed,      \* what main has printed
    exit          \* exit code

options == <<sweep, pair>>
commandVars == <<phase, symbol, options, counts, failures, reports, printed, exit>>
allVars == <<commandVars, sweepVars>>

Places == 1..Arguments

-----------------------------------------------------------------------------

CommandInit ==
    /\ phase = "starting"
    /\ symbol = 1
    /\ sweep \in BOOLEAN
    /\ pair \in DOMAIN Grid
    /\ counts = [i \in Places |-> Nothing]
    /\ failures = {}
    /\ reports = <<>>
    /\ printed = <<>>
    /\ exit = Nothing
    /\ NoSweep

(* resolve_range gives a range, or raises. *)
Start ==
    /\ phase = "starting"
    /\ \/ phase' = "reading" /\ UNCHANGED exit
       \/ phase' = "exited" /\ exit' = 2
    /\ UNCHANGED <<symbol, options, counts, failures, reports, printed, sweepVars>>

(* What follows a symbol: the next one, or the reports and the exit code.  A
   sweep leaves nothing behind but its report. *)
NextSymbol ==
    /\ IF symbol < Arguments
       THEN symbol' = symbol + 1 /\ phase' = "reading" /\ UNCHANGED <<printed, exit>>
       ELSE /\ phase' = "exited"
            /\ printed' = reports'
            /\ exit' = IF failures' = {} THEN 0 ELSE 1
            /\ UNCHANGED symbol
    /\ Leave
    /\ UNCHANGED options

(* read_candles returns candles. *)
Read ==
    /\ phase = "reading"
    /\ \E n \in 1..MaxCandles :
          /\ counts' = [counts EXCEPT ![symbol] = n]
          /\ IF sweep THEN phase' = "sweeping" /\ Split(n)
                      ELSE phase' = "running" /\ UNCHANGED sweepVars
    /\ UNCHANGED <<symbol, options, failures, reports, printed, exit>>

(* read_candles returns no candles: a warning, and no failure. *)
ReadNone ==
    /\ phase = "reading"
    /\ counts' = [counts EXCEPT ![symbol] = 0]
    /\ UNCHANGED <<failures, reports>>
    /\ NextSymbol

(* Mutant: the try is around the loop. *)
FailedEnds ==
    /\ failures' = failures \cup {symbol}
    /\ phase' = "exited"
    /\ printed' = reports
    /\ exit' = 1
    /\ Leave
    /\ UNCHANGED <<symbol, options, reports>>

(* Whatever the try block of a symbol raises ends that symbol. *)
Failed ==
    /\ failures' = failures \cup {symbol}
    /\ UNCHANGED reports
    /\ NextSymbol

(* A report: the symbol, the windows it is about, the rows of its table. *)
Report(combo, rows) ==
    /\ reports' = Append(reports, [at |-> symbol, combo |-> combo, rows |-> rows])
    /\ UNCHANGED failures
    /\ NextSymbol

(* read_candles raises. *)
ReadFails ==
    /\ phase = "reading"
    /\ Failed
    /\ UNCHANGED counts

(* run_backtest_metrics, with the windows of the command line: nothing has
   looked at them before. *)
Run ==
    /\ phase = "running"
    /\ \E refused \in BOOLEAN :
          IF Raises(pair, counts[symbol], refused) THEN Failed ELSE Report(pair, {})
    /\ UNCHANGED counts

SweepSteps ==
    /\ phase = "sweeping"
    /\ SweepNext
    /\ UNCHANGED commandVars

(* format_sweep marks the row of the chosen pair of windows. *)
SweepReturns ==
    /\ phase = "sweeping"
    /\ stage = "returned"
    /\ Report(results[best].combo, {results[k].combo : k \in ToSet(ranked)})
    /\ UNCHANGED counts

SweepRaises ==
    /\ phase = "sweeping"
    /\ stage = "raised"
    /\ Failed
    /\ UNCHANGED counts

CommandNext == Start \/ Read \/ ReadNone \/ ReadFails \/ Run \/ SweepSteps \/ SweepReturns \/ SweepRaises

CommandSpec == CommandInit /\ [][CommandNext]_allVars

-----------------------------------------------------------------------------
(* Properties *)

Reports == [at : Places, combo : DOMAIN Grid, rows : SUBSET DOMAIN Grid]

CommandTypeOK ==
    /\ SweepTypeOK
    /\ phase \in {"starting", "reading", "running", "sweeping", "exited"}
    /\ symbol \in Places
    /\ sweep \in BOOLEAN
    /\ pair \in DOMAIN Grid
    /\ counts \in [Places -> 0..MaxCandles \cup {Nothing}]
    /\ failures \in SUBSET Places
    /\ {reports, printed} \subseteq Seq(Reports)
    /\ exit \in {Nothing, 0, 1, 2}

FirstSegment(n) == (n * RatioNum) \div RatioDen

(***************************************************************************)
(* Unless the range was bad, every symbol is accounted for when the        *)
(* command exits, whatever happened to the others: it had no candles, or   *)
(* it failed, or it has one printed report.  Exit code 0 means that no     *)
(* symbol with candles lacks one.  Reports come in the order of the        *)
(* arguments, and a sweep's is about that symbol's candles: its table has  *)
(* the pairs of windows that fit them, and its choice fits both segments.  *)
(***************************************************************************)
EverySymbolTold ==
    phase = "exited" /\ exit # 2 =>
        LET told == {printed[k].at : k \in DOMAIN printed} IN
           /\ \A i \in Places : i \in told \/ i \in failures \/ counts[i] = 0
           /\ told \cap failures = {}
           /\ exit = 0 => {i \in Places : counts[i] # 0} = told
           /\ \A k \in DOMAIN printed :
                 LET r == printed[k]
                     n == FirstSegment(counts[r.at])
                 IN  /\ k > 1 => printed[k - 1].at < r.at
                     /\ sweep =>
                           /\ r.rows = {c \in DOMAIN Grid : Fast(c) < Slow(c) /\ Slow(c) <= n}
                           /\ r.combo \in r.rows
                           /\ Slow(r.combo) <= counts[r.at] - n

=============================================================================
