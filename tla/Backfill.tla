------------------------------- MODULE Backfill -------------------------------
(***************************************************************************)
(* The backfill command (src/crypto_pipeline/backfill/__main__.py): for    *)
(* each symbol of its arguments it fetches a range and inserts what came;  *)
(* when either raises it notes the symbol and goes on to the next; it      *)
(* exits with 0, 1 (some symbol failed) or 2 (bad range).  The clock and   *)
(* the table are shared with the rest of the system: see Pipeline.         *)
(*                                                                         *)
(* fetch_range is what FetchRange checks it to be: all rows of the range   *)
(* the exchange has, some or none, or an exception.  insert_candles is     *)
(* what CandleStore checks it to be: one atomic insert, or an exception.   *)
(***************************************************************************)
EXTENDS Integers, Sequences, FiniteSets, CandleTable

CONSTANTS
    Arguments,    \* the sequence of symbols on the command line
    Ranges,       \* the ranges <<start, end>> resolve_range may give
    Lacking,      \* the sets of minutes the exchange may have no candle of
    MaxTime,      \* bound: minutes
    MaxRuns,      \* bound: runs of the command
    MaxFaults     \* bound: fetches and inserts that raise, kills

ArgSymbols == {Arguments[i] : i \in 1..Len(Arguments)}

ASSUME BackfillAssumption ==
    /\ Arguments \in Seq(ArgSymbols) \ {<<>>}
    /\ {MaxTime, MaxRuns, MaxFaults} \subseteq Nat
    /\ Lacking \subseteq SUBSET Nat
    /\ \A r \in Ranges : r[1] \in 0..MaxTime /\ r[2] \in r[1] + 1 .. MaxTime + 1

VARIABLES
    now,          \* the minute in progress
    table,        \* rows of candles_1m
    pc,           \* "exited", "fetching" or "inserting"
    next,         \* index of the symbol in hand
    dryRun,       \* --dry-run
    start, end,   \* the range, in minutes, the end excluded
    candles,      \* what fetch_range returned, until it is inserted
    failures,     \* symbols that failed in this run
    exit,         \* exit code of the last run, or -1 before it ends
    runs, faults, \* so far
    answers,      \* history: the answers of the exchange in this run, each with
                  \*   the symbol and the minutes of the range it had
    ahead         \* history: some run was given an end in the future

position == <<next, start, end>>
settings == <<dryRun, ahead, runs>>
backfillVars == <<pc, candles, failures, exit, faults, answers, position, settings>>

Minutes == 0..MaxTime

-----------------------------------------------------------------------------

(* The candle of minute m as the exchange has it: final once m is over. *)
Row(s, m) == [key |-> <<s, m>>, val |-> IF m < now THEN "final" ELSE "partial"]

(* The minutes of the range that have begun. *)
Begun == {n \in start..end - 1 : n <= now}

(* Mutant: the minute that begins at end counts as complete. *)
FetchedToEnd(s, lack) == {Row(s, m) : m \in {n \in start..end : n <= now} \ lack}

(* What fetch_range returns now, when the exchange lacks the minutes lack: the
   others, none when it lacks them all.  The last minute is the one that is
   over at end: with an end in the future that may be the one in progress. *)
Fetched(s, lack) == {Row(s, m) : m \in Begun \ lack}

BackfillInit ==
    /\ pc = "exited"
    /\ next = 1
    /\ dryRun = FALSE
    /\ start = 0
    /\ end = 0
    /\ candles = {}
    /\ failures = {}
    /\ exit = -1
    /\ runs = 0
    /\ faults = 0
    /\ answers = {}
    /\ ahead = FALSE

(* The command is run, for the first time or again; resolve_range gives a
   range or raises. *)
Run ==
    /\ pc = "exited"
    /\ runs < MaxRuns
    /\ runs' = runs + 1
    /\ dryRun' \in BOOLEAN
    /\ next' = 1
    /\ candles' = {}
    /\ failures' = {}
    /\ answers' = {}
    /\ \/ /\ \E r \in Ranges : start' = r[1] /\ end' = r[2]
          /\ pc' = "fetching"
          /\ exit' = -1
       \/ /\ pc' = "exited"
          /\ exit' = 2
          /\ UNCHANGED <<start, end>>
    /\ ahead' = (ahead \/ end' > now)
    /\ UNCHANGED <<now, table, faults>>

(* The process ends, and its range with it. *)
Ends == pc' = "exited" /\ next' = 1 /\ start' = 0 /\ end' = 0

(* What follows a symbol: the next one, or the summary and the exit code. *)
NextSymbol ==
    \/ /\ next < Len(Arguments)
       /\ next' = next + 1
       /\ pc' = "fetching"
       /\ UNCHANGED <<exit, start, end>>
    \/ /\ next = Len(Arguments)
       /\ Ends
       /\ exit' = IF failures' = {} THEN 0 ELSE 1

(* fetch_range returns. *)
Fetch ==
    /\ pc = "fetching"
    /\ UNCHANGED failures
    /\ \/ dryRun /\ NextSymbol /\ UNCHANGED <<candles, answers>>
       \/ /\ ~dryRun
          /\ \E lack \in Lacking :
                /\ candles' = Fetched(Arguments[next], lack)
                /\ answers' = answers \cup
                      {[symbol |-> Arguments[next], minutes |-> Begun \ lack]}
          /\ pc' = "inserting"
          /\ UNCHANGED <<exit, position>>
    /\ UNCHANGED <<now, table, settings, faults>>

(* insert_candles returns. *)
Insert ==
    /\ pc = "inserting"
    /\ table' \in InsertResults(table, candles)
    /\ candles' = {}
    /\ UNCHANGED failures
    /\ NextSymbol
    /\ UNCHANGED <<now, settings, answers, faults>>

Fault == faults < MaxFaults /\ faults' = faults + 1

(* Mutant: the exception is logged and not recorded. *)
SymbolFailsSilently ==
    /\ pc \in {"fetching", "inserting"}
    /\ Fault
    /\ candles' = {}
    /\ UNCHANGED failures
    /\ NextSymbol
    /\ UNCHANGED <<now, table, answers, settings>>

(* fetch_range or insert_candles raises.  The rows may be there all the same
   when the connection was lost over the COMMIT. *)
SymbolFails ==
    /\ pc \in {"fetching", "inserting"}
    /\ Fault
    /\ \/ table' = table
       \/ pc = "inserting" /\ table' \in InsertResults(table, candles)
    /\ failures' = failures \cup {Arguments[next]}
    /\ candles' = {}
    /\ NextSymbol
    /\ UNCHANGED <<now, answers, settings>>

(* The command is killed; an insert on its way may be done. *)
Killed ==
    /\ pc # "exited"
    /\ Fault
    /\ \/ table' = table
       \/ pc = "inserting" /\ table' \in InsertResults(table, candles)
    /\ Ends
    /\ candles' = {}
    /\ failures' = {}
    /\ answers' = {}
    /\ UNCHANGED <<now, exit, settings>>

BackfillNext == Run \/ Fetch \/ Insert \/ SymbolFails \/ Killed

-----------------------------------------------------------------------------
(* Properties *)

(* The exchange answered for s, and every minute of the range that it
   had is stored. *)
AnswerStored(s) ==
    /\ \E a \in answers : a.symbol = s
    /\ \A a \in answers : a.symbol = s => {s} \X a.minutes \subseteq KeysOf(table)

(* Exit code 0 of a run that was no dry run means that the exchange answered
   for every symbol, and that every minute of the range it had then is in the
   table; exit code 1 names at least every symbol of which this is not so.  It
   does not mean that the range is stored: fetch_range returns fewer candles,
   or none, without raising, and main counts that symbol as done. *)
ExitCodeTells ==
    pc = "exited" /\ ~dryRun =>
        /\ exit = 0 => \A s \in ArgSymbols : AnswerStored(s)
        /\ exit = 1 => \A s \in ArgSymbols : AnswerStored(s) \/ s \in failures

=============================================================================
