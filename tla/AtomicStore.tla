----------------------------- MODULE AtomicStore -----------------------------
(***************************************************************************)
(* What insert_candles promises its callers, without transactions, locks   *)
(* or statements: a call puts its whole batch into the table at one moment *)
(* between its begin and its end, or, if it raises, maybe not at all.      *)
(***************************************************************************)
EXTENDS CandleTable

CONSTANTS
    Sessions,     \* callers of insert_candles
    Batches       \* the sets of rows it is called with

VARIABLES
    table,        \* the rows of candles_1m
    call,         \* [Sessions -> {"running", "returned", "raised"}]
    batch         \* [Sessions -> the rows of a running call]

storeVars == <<table, call, batch>>

-----------------------------------------------------------------------------

StoreInit ==
    /\ table = {}
    /\ call = [s \in Sessions |-> "returned"]
    /\ batch = [s \in Sessions |-> {}]

Begin(s) ==
    /\ call[s] # "running"
    /\ call' = [call EXCEPT ![s] = "running"]
    /\ \E rows \in Batches : batch' = [batch EXCEPT ![s] = rows]
    /\ UNCHANGED table

End(s, outcome) ==
    /\ call[s] = "running"
    /\ call' = [call EXCEPT ![s] = outcome]
    /\ batch' = [batch EXCEPT ![s] = {}]

(* A call that returns has stored its batch. *)
Return(s) ==
    /\ End(s, "returned")
    /\ table' \in InsertResults(table, batch[s])

(* A call that raises has stored its batch or nothing. *)
Raise(s) ==
    /\ End(s, "raised")
    /\ table' \in InsertResults(table, batch[s]) \cup {table}

StoreNext == \E s \in Sessions : Begin(s) \/ Return(s) \/ Raise(s)

StoreSpec == StoreInit /\ [][StoreNext]_storeVars

=============================================================================
