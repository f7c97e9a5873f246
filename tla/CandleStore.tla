------------------------------ MODULE CandleStore ------------------------------
(***************************************************************************)
(* insert_candles (src/crypto_pipeline/writer/db.py) run by several        *)
(* sessions of one database at a time: the writer service, and any number  *)
(* of backfill commands beside it.  A call is one transaction: count, copy *)
(* into a temporary table, INSERT ... ON CONFLICT DO NOTHING row by row,   *)
(* count again, commit.                                                    *)
(*                                                                         *)
(* What PostgreSQL adds (READ COMMITTED): a statement sees what had been   *)
(* committed when it began; a row whose key another open transaction has   *)
(* inserted makes the INSERT wait for the end of that transaction; a       *)
(* circle of waits is broken by failing one of them.                       *)
(***************************************************************************)
EXTENDS Integers, FiniteSets, CandleTable

CONSTANTS
    Sessions,     \* callers of insert_candles
    Row,          \* candles: records with fields key, val
    Batches,      \* the sets of rows insert_candles is called with
    NoRow,        \* a session waits for nothing
    MaxCalls,     \* bound: calls of each session
    MaxFaults     \* bound: lost connections

ASSUME StoreAssumption ==
    /\ Batches \subseteq SUBSET Row
    /\ \A batch \in Batches : IsFiniteSet(batch)
    /\ NoRow \notin Row
    /\ MaxCalls \in Nat
    /\ MaxFaults \in Nat

VARIABLES
    table,        \* committed rows of candles_1m
    pc,           \* where each call is
    staged,       \* rows of candles_stage
    todo,         \* staged rows the INSERT has not come to
    pending,      \* rows inserted by the open transaction
    waiting,      \* the row whose key another transaction holds
    startCount,   \* start_count
    endCount,     \* end_count
    calls,        \* calls begun so far
    faults,       \* connections lost so far
    reported,     \* sum of the counts returned (written, total_inserted)
    added         \* history: rows the calls that returned have added

vars == <<table, pc, staged, todo, pending, waiting, startCount, endCount,
          calls, faults, reported, added>>

-----------------------------------------------------------------------------

Open == {"counting", "copying", "inserting", "recounting", "committing"}

Init ==
    /\ table = {}
    /\ pc = [s \in Sessions |-> "idle"]
    /\ staged = [s \in Sessions |-> {}]
    /\ todo = [s \in Sessions |-> {}]
    /\ pending = [s \in Sessions |-> {}]
    /\ waiting = [s \in Sessions |-> NoRow]
    /\ startCount = [s \in Sessions |-> 0]
    /\ endCount = [s \in Sessions |-> 0]
    /\ calls = [s \in Sessions |-> 0]
    /\ faults = 0
    /\ reported = [s \in Sessions |-> 0]
    /\ added = [s \in Sessions |-> 0]

(* Session s moves on to the next statement. *)
Goto(s, label) == pc' = [pc EXCEPT ![s] = label]

(* insert_candles is called, for the first time or once more. *)
Connect(s) ==
    /\ pc[s] \in {"idle", "raised"}
    /\ calls[s] < MaxCalls
    /\ calls' = [calls EXCEPT ![s] = @ + 1]
    /\ \E batch \in Batches : staged' = [staged EXCEPT ![s] = batch]
    /\ Goto(s, "counting")
    /\ UNCHANGED <<table, todo, pending, waiting, startCount, endCount, faults, reported, added>>

(* SELECT COUNT, before the insert. *)
CountStart(s) ==
    /\ pc[s] = "counting"
    /\ startCount' = [startCount EXCEPT ![s] = Cardinality(table)]
    /\ Goto(s, "copying")
    /\ UNCHANGED <<table, staged, todo, pending, waiting, endCount, calls, faults, reported, added>>

(* CREATE TEMP TABLE and COPY, seen by this session alone. *)
Copy(s) ==
    /\ pc[s] = "copying"
    /\ todo' = [todo EXCEPT ![s] = staged[s]]
    /\ Goto(s, "inserting")
    /\ UNCHANGED <<table, staged, pending, waiting, startCount, endCount, calls, faults, reported, added>>

(* The open transactions of others that have inserted the key of r. *)
Holders(s, r) == {t \in Sessions \ {s} : r.key \in KeysOf(pending[t])}

(* The rows the INSERT may look at next: no order, but no leaving a wait. *)
NextRows(s) == IF waiting[s] = NoRow THEN todo[s] ELSE {waiting[s]}

(* Mutant: an autocommit connection that inserts one row at a time. *)
InsertRowAutocommit(s) ==
    /\ pc[s] = "inserting"
    /\ \E r \in todo[s] :
          /\ todo' = [todo EXCEPT ![s] = @ \ {r}]
          /\ table' \in InsertResults(table, {r})
    /\ UNCHANGED <<pc, staged, pending, waiting, startCount, endCount, calls, faults, reported, added>>

(* ON CONFLICT DO NOTHING: a key that is there, or that this INSERT has put
   there, is passed over. *)
InsertRow(s) ==
    /\ pc[s] = "inserting"
    /\ \E r \in NextRows(s) :
          /\ Holders(s, r) = {}
          /\ todo' = [todo EXCEPT ![s] = @ \ {r}]
          /\ pending' = IF r.key \in KeysOf(table \cup pending[s])
                        THEN pending
                        ELSE [pending EXCEPT ![s] = @ \cup {r}]
    /\ waiting' = [waiting EXCEPT ![s] = NoRow]
    /\ UNCHANGED <<table, pc, staged, startCount, endCount, calls, faults, reported, added>>

(* The key is held by another open transaction. *)
Wait(s) ==
    /\ pc[s] = "inserting"
    /\ waiting[s] = NoRow
    /\ \E r \in todo[s] : Holders(s, r) # {} /\ waiting' = [waiting EXCEPT ![s] = r]
    /\ UNCHANGED <<table, pc, staged, todo, pending, startCount, endCount, calls, faults, reported, added>>

(* The INSERT has come to the end of candles_stage. *)
InsertEnds(s) ==
    /\ pc[s] = "inserting"
    /\ todo[s] = {}
    /\ Goto(s, "recounting")
    /\ UNCHANGED <<table, staged, todo, pending, waiting, startCount, endCount, calls, faults, reported, added>>

(* Mutant: the second count is taken on another connection. *)
CountEndElsewhere(s) ==
    /\ pc[s] = "recounting"
    /\ endCount' = [endCount EXCEPT ![s] = Cardinality(table)]
    /\ Goto(s, "committing")
    /\ UNCHANGED <<table, staged, todo, pending, waiting, startCount, calls, faults, reported, added>>

(* SELECT COUNT, after the insert: the rows of this transaction, and all
   that others have committed by now. *)
CountEnd(s) ==
    /\ pc[s] = "recounting"
    /\ endCount' = [endCount EXCEPT ![s] = Cardinality(table \cup pending[s])]
    /\ Goto(s, "committing")
    /\ UNCHANGED <<table, staged, todo, pending, waiting, startCount, calls, faults, reported, added>>

(* The transaction of s is over: candles_stage and its locks are gone. *)
Forget(s) ==
    /\ staged' = [staged EXCEPT ![s] = {}]
    /\ todo' = [todo EXCEPT ![s] = {}]
    /\ pending' = [pending EXCEPT ![s] = {}]
    /\ waiting' = [waiting EXCEPT ![s] = NoRow]
    /\ startCount' = [startCount EXCEPT ![s] = 0]
    /\ endCount' = [endCount EXCEPT ![s] = 0]

(* Mutant: the counts are subtracted the wrong way round. *)
CommitSwapsCounts(s) ==
    /\ pc[s] = "committing"
    /\ table' = table \cup pending[s]
    /\ reported' = [reported EXCEPT ![s] = @ + (startCount[s] - endCount[s])]
    /\ added' = [added EXCEPT ![s] = @ + Cardinality(pending[s])]
    /\ Goto(s, "idle")
    /\ Forget(s)
    /\ UNCHANGED <<calls, faults>>

(* Mutant: the connection is kept open and its transaction never ended. *)
CommitForgotten(s) ==
    /\ pc[s] = "committing"
    /\ Goto(s, "idle")
    /\ UNCHANGED <<table, staged, todo, pending, waiting, startCount, endCount,
                   calls, faults, reported, added>>

(* The connection block commits; insert_candles returns and its caller adds
   the difference of the counts to its total. *)
Commit(s) ==
    /\ pc[s] = "committing"
    /\ table' = table \cup pending[s]
    /\ reported' = [reported EXCEPT ![s] = @ + (endCount[s] - startCount[s])]
    /\ added' = [added EXCEPT ![s] = @ + Cardinality(pending[s])]
    /\ Goto(s, "idle")
    /\ Forget(s)
    /\ UNCHANGED <<calls, faults>>

(* The database fails one call of a circle of waits. *)
WaitsFor(s) == IF waiting[s] = NoRow THEN {} ELSE Holders(s, waiting[s])

Deadlocked(s) ==
    \E circle \in SUBSET Sessions :
        s \in circle /\ \A t \in circle : WaitsFor(t) \cap circle # {}

DeadlockDetected(s) ==
    /\ Deadlocked(s)
    /\ Goto(s, "raised")
    /\ Forget(s)
    /\ UNCHANGED <<table, calls, faults, reported, added>>

(* The connection is lost.  A COMMIT on its way may have been done. *)
ConnectionLost(s) ==
    /\ pc[s] \in Open
    /\ faults < MaxFaults
    /\ faults' = faults + 1
    /\ \/ table' = table
       \/ pc[s] = "committing" /\ table' = table \cup pending[s]
    /\ Goto(s, "raised")
    /\ Forget(s)
    /\ UNCHANGED <<calls, reported, added>>

Next ==
    \E s \in Sessions :
        \/ Connect(s)
        \/ CountStart(s)
        \/ Copy(s)
        \/ InsertRow(s)
        \/ Wait(s)
        \/ InsertEnds(s)
        \/ CountEnd(s)
        \/ Commit(s)
        \/ DeadlockDetected(s)
        \/ ConnectionLost(s)

Spec == Init /\ [][Next]_vars

(* A call, once begun, goes on: the database runs its statements, and looks
   for deadlocks from time to time (deadlock_timeout). *)
Fairness ==
    \A s \in Sessions :
        /\ WF_vars(CountStart(s) \/ Copy(s) \/ InsertEnds(s) \/ CountEnd(s) \/ Commit(s))
        /\ WF_vars(InsertRow(s) \/ Wait(s))
        /\ WF_vars(DeadlockDetected(s))

FairSpec == Spec /\ Fairness

-----------------------------------------------------------------------------
(* Properties *)

TypeOK ==
    /\ table \in SUBSET Row
    /\ pc \in [Sessions -> Open \cup {"idle", "raised"}]
    /\ staged \in [Sessions -> SUBSET Row]
    /\ \A s \in Sessions :
          /\ todo[s] \subseteq staged[s]
          /\ pending[s] \subseteq staged[s]
          /\ waiting[s] \in todo[s] \cup {NoRow}
    /\ startCount \in [Sessions -> Nat]
    /\ endCount \in [Sessions -> Nat]
    /\ calls \in [Sessions -> 0..MaxCalls]
    /\ faults \in 0..MaxFaults
    /\ reported \in [Sessions -> Nat]
    /\ added \in [Sessions -> Nat]

(***************************************************************************)
(* insert_candles implements the atomic store: to the rest of the system   *)
(* each call is one insert of its whole batch into the table as it then    *)
(* is, though counts, row inserts and commits of several sessions          *)
(* interleave and some fail.  This is what lets WriterConsumer and         *)
(* Backfill take a call for one step.                                      *)
(***************************************************************************)
Atomic == INSTANCE AtomicStore WITH
    call  <- [s \in Sessions |-> CASE pc[s] = "idle"   -> "returned"
                                   [] pc[s] = "raised" -> "raised"
                                   [] OTHER            -> "running"],
    batch <- staged

AtomicSpec == Atomic!StoreSpec

(* The count returned is never less than what the call has added: `written`
   and `total_inserted` may count rows of others, but miss none of their own. *)
NeverUndercounts == \A s \in Sessions : reported[s] >= added[s]

(* A call ends, whatever other sessions hold: it returns or raises, and two
   batches that meet in opposite orders do not wait for each other for ever. *)
CallsEnd == \A s \in Sessions : pc[s] \in Open ~> pc[s] \notin Open

=============================================================================
