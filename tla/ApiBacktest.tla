----------------------------- MODULE ApiBacktest -----------------------------
(***************************************************************************)
(* The requests of the API (src/crypto_pipeline/api) and what they compete *)
(* for.  Every endpoint but /health takes a connection of the pool for its *)
(* whole life.  POST /backtest, once it has its candles, also waits under  *)
(* a timeout for one of MAX_CONCURRENT_BACKTESTS permits of a semaphore,   *)
(* and computes in a thread of the default executor.                       *)
(*                                                                         *)
(* The event loop runs one handler at a time between awaits; the threads   *)
(* run beside it and cannot be cancelled once they compute.  The server    *)
(* stops by letting the requests it has end, and then closes the pool.     *)
(***************************************************************************)
EXTENDS Integers, Sequences, FiniteSets, SequencesExt

CONSTANTS
    Backtests,        \* the requests POST /backtest that arrive
    Reads,            \* the requests /symbols, /candles, /coverage, /ready
    MaxPoolSize,      \* MAX_POOL_SIZE
    MaxConcurrent,    \* MAX_CONCURRENT_BACKTESTS
    Workers           \* threads of the default executor

Requests == Backtests \cup Reads

ASSUME ApiAssumption ==
    /\ IsFiniteSet(Requests)
    /\ Backtests \cap Reads = {}
    /\ MaxPoolSize \in Nat \ {0}
    /\ MaxConcurrent \in Nat \ {0}
    /\ Workers \in Nat \ {0}

VARIABLES
    app,          \* "starting", "serving", "draining", "stopped"
    state,        \* [Requests -> state of the handler]
    thread,       \* [Requests -> state of run_backtest in the executor]
    freeConns,    \* connections the pool can give
    connQueue,    \* requests waiting for a connection, in order
    permits,      \* value of _backtest_semaphore
    semQueue      \* requests waiting for a permit, in order

vars == <<app, state, thread, freeConns, connQueue, permits, semQueue>>

Answers == {"ok", "refused", "unavailable"}

Init ==
    /\ app = "starting"
    /\ state = [r \in Requests |-> "new"]
    /\ thread = [r \in Requests |-> "none"]
    /\ freeConns = MaxPoolSize
    /\ connQueue = <<>>
    /\ permits = MaxConcurrent
    /\ semQueue = <<>>

Goto(r, where) == state' = [state EXCEPT ![r] = where]

Answered(r) == state[r] \in Answers

(* The queue when r, who stands in it once if at all, has given up. *)
Without(queue, r) ==
    IF Contains(queue, r)
    THEN RemoveAt(queue, CHOOSE i \in 1..Len(queue) : queue[i] = r)
    ELSE queue

-----------------------------------------------------------------------------
(* The life of the application. *)

(* pool.open succeeds, or raises and the application does not start. *)
OpenPool ==
    /\ app = "starting"
    /\ app' \in {"serving", "stopped"}
    /\ UNCHANGED <<state, thread, freeConns, connQueue, permits, semQueue>>

(* SIGTERM: the server accepts no more requests. *)
Drain ==
    /\ app = "serving"
    /\ app' = "draining"
    /\ UNCHANGED <<state, thread, freeConns, connQueue, permits, semQueue>>

(* The requests are answered: pool.close. *)
ClosePool ==
    /\ app = "draining"
    /\ \A r \in Requests : state[r] = "new" \/ Answered(r)
    /\ app' = "stopped"
    /\ UNCHANGED <<state, thread, freeConns, connQueue, permits, semQueue>>

-----------------------------------------------------------------------------
(* The handlers, from one await to the next. *)

(* A request arrives and asks the pool for a connection (get_conn). *)
Arrive(r) ==
    /\ app = "serving"
    /\ state[r] = "new"
    /\ Goto(r, "connecting")
    /\ connQueue' = Append(connQueue, r)
    /\ UNCHANGED <<app, thread, freeConns, permits, semQueue>>

(* The pool serves its queue in order. *)
GetConn(r) ==
    /\ connQueue # <<>> /\ Head(connQueue) = r
    /\ freeConns > 0
    /\ freeConns' = freeConns - 1
    /\ connQueue' = Tail(connQueue)
    /\ Goto(r, "querying")
    /\ UNCHANGED <<app, thread, permits, semQueue>>

(* PoolTimeout, an OperationalError: 503 (app.py; ready has its own). *)
PoolTimesOut(r) ==
    /\ state[r] = "connecting"
    /\ connQueue' = Without(connQueue, r)
    /\ Goto(r, "unavailable")
    /\ UNCHANGED <<app, thread, freeConns, permits, semQueue>>

(* The request is answered, and get_conn gives its connection back. *)
Answer(r, answer) ==
    /\ Goto(r, answer)
    /\ freeConns' = freeConns + 1

(* The query of a read returns, or is refused (422, 404), or its statement
   fails or times out (503). *)
ReadEnds(r) ==
    /\ r \in Reads
    /\ state[r] = "querying"
    /\ \E answer \in Answers : Answer(r, answer)
    /\ UNCHANGED <<app, thread, connQueue, permits, semQueue>>

(* No candles, or a failed statement: an error answer. *)
QueryRefused(r) ==
    /\ r \in Backtests
    /\ state[r] = "querying"
    /\ \E answer \in {"refused", "unavailable"} : Answer(r, answer)
    /\ UNCHANGED <<app, thread, connQueue, permits, semQueue>>

(* Candles are there: the timeout starts and the permit is asked for. *)
QueryDone(r) ==
    /\ r \in Backtests
    /\ state[r] = "querying"
    /\ Goto(r, "waiting")
    /\ semQueue' = Append(semQueue, r)
    /\ UNCHANGED <<app, thread, freeConns, connQueue, permits>>

(* The semaphore wakes its waiters in order; the backtest is handed to the
   executor (to_thread). *)
Acquire(r) ==
    /\ semQueue # <<>> /\ Head(semQueue) = r
    /\ permits > 0
    /\ permits' = permits - 1
    /\ semQueue' = Tail(semQueue)
    /\ Goto(r, "running")
    /\ thread' = [thread EXCEPT ![r] = "queued"]
    /\ UNCHANGED <<app, freeConns, connQueue>>

(* The thread is done, with a result or with a GapError or ValueError. *)
Finish(r) ==
    /\ state[r] = "running"
    /\ thread[r] = "finished"
    /\ permits' = permits + 1
    /\ \E answer \in {"ok", "refused"} : Answer(r, answer)
    /\ UNCHANGED <<app, thread, connQueue, semQueue>>

(* Mutant: acquire() without `async with`: a timeout keeps the permit. *)
TimesOutKeepsPermit(r) ==
    /\ \/ /\ state[r] = "waiting"
          /\ semQueue' = Without(semQueue, r)
          /\ UNCHANGED <<thread, permits>>
       \/ /\ state[r] = "running"
          /\ thread' = [thread EXCEPT ![r] = IF @ = "queued" THEN "none" ELSE @]
          /\ UNCHANGED <<semQueue, permits>>
    /\ Answer(r, "unavailable")
    /\ UNCHANGED <<app, connQueue>>

(* Mutant: the permit is released in a finally block, acquired or not. *)
TimesOutAlwaysReleases(r) ==
    /\ state[r] \in {"waiting", "running"}
    /\ semQueue' = Without(semQueue, r)
    /\ permits' = permits + 1
    /\ thread' = [thread EXCEPT ![r] = IF @ = "queued" THEN "none" ELSE @]
    /\ Answer(r, "unavailable")
    /\ UNCHANGED <<app, connQueue>>

(* Mutant: the computation is shielded from the timeout. *)
TimesOutShielded(r) ==
    /\ \/ /\ state[r] = "waiting"
          /\ semQueue' = Without(semQueue, r)
          /\ UNCHANGED permits
       \/ /\ state[r] = "running"
          /\ permits' = permits + 1
          /\ UNCHANGED semQueue
    /\ Answer(r, "unavailable")
    /\ UNCHANGED <<app, thread, connQueue>>

(* Mutant: the timeout is around the permit and not around the backtest. *)
TimesOutWaitingOnly(r) ==
    /\ state[r] = "waiting"
    /\ semQueue' = Without(semQueue, r)
    /\ Answer(r, "unavailable")
    /\ UNCHANGED <<app, thread, connQueue, permits>>

(* BACKTEST_TIMEOUT_S is over: 503.  A backtest that no thread has taken is
   withdrawn from the executor; one that computes goes on computing. *)
TimesOut(r) ==
    /\ \/ /\ state[r] = "waiting"
          /\ semQueue' = Without(semQueue, r)
          /\ UNCHANGED <<thread, permits>>
       \/ /\ state[r] = "running"
          /\ permits' = permits + 1
          /\ thread' = [thread EXCEPT ![r] = IF @ = "queued" THEN "none" ELSE @]
          /\ UNCHANGED semQueue
    /\ Answer(r, "unavailable")
    /\ UNCHANGED <<app, connQueue>>

-----------------------------------------------------------------------------
(* The executor. *)

Computing == {r \in Requests : thread[r] = "computing"}

ThreadStarts(r) ==
    /\ thread[r] = "queued"
    /\ Cardinality(Computing) < Workers
    /\ thread' = [thread EXCEPT ![r] = "computing"]
    /\ UNCHANGED <<app, state, freeConns, connQueue, permits, semQueue>>

ThreadFinishes(r) ==
    /\ thread[r] = "computing"
    /\ thread' = [thread EXCEPT ![r] = "finished"]
    /\ UNCHANGED <<app, state, freeConns, connQueue, permits, semQueue>>

Next ==
    \/ OpenPool
    \/ Drain
    \/ ClosePool
    \/ \E r \in Requests :
          \/ Arrive(r)
          \/ GetConn(r)
          \/ PoolTimesOut(r)
          \/ ReadEnds(r)
          \/ QueryRefused(r)
          \/ QueryDone(r)
          \/ Acquire(r)
          \/ Finish(r)
          \/ TimesOut(r)
          \/ ThreadStarts(r)
          \/ ThreadFinishes(r)

Spec == Init /\ [][Next]_vars

(* Timeouts run out, and a statement ends within STATEMENT_TIMEOUT_MS.
   Nothing is assumed of the threads: a backtest may compute for ever. *)
Fairness ==
    \A r \in Requests :
        /\ WF_vars(PoolTimesOut(r))
        /\ WF_vars(ReadEnds(r) \/ QueryRefused(r) \/ QueryDone(r))
        /\ WF_vars(TimesOut(r))

FairSpec == Spec /\ Fairness

-----------------------------------------------------------------------------
(* Properties *)

(* The requests that hold a connection, and those that hold a permit. *)
Connected == {r \in Requests : state[r] \in {"querying", "waiting", "running"}}
Running == {r \in Requests : state[r] = "running"}

TypeOK ==
    /\ app \in {"starting", "serving", "draining", "stopped"}
    /\ state \in [Requests -> {"new", "connecting", "querying", "waiting", "running"} \cup Answers]
    /\ thread \in [Requests -> {"none", "queued", "computing", "finished"}]
    /\ freeConns \in 0..MaxPoolSize
    /\ permits \in 0..MaxConcurrent
    /\ connQueue \in Seq(Requests)
    /\ semQueue \in Seq(Requests)

(* No connection and no permit is lost or given back twice, whichever of
   timeout, result and error ends a request at whichever await. *)
NothingLeaks ==
    /\ freeConns + Cardinality(Connected) = MaxPoolSize
    /\ permits + Cardinality(Running) = MaxConcurrent

(***************************************************************************)
(* Nobody stands in a queue, of the pool, the semaphore or the executor,   *)
(* for a request that is over: none is woken with a connection or a permit *)
(* no one gives back, and no backtest is begun that no one waits for.  The *)
(* only work left over is what was computing when its request timed out.   *)
(***************************************************************************)
NoGhosts ==
    /\ ToSet(connQueue) \subseteq {r \in Requests : state[r] = "connecting"}
    /\ ToSet(semQueue) \subseteq {r \in Requests : state[r] = "waiting"}
    /\ \A r \in Requests :
          /\ thread[r] = "queued" => state[r] = "running"
          /\ thread[r] = "computing" => state[r] \in {"running", "unavailable"}

(* A request that arrived is answered, even if no backtest ever ends, and
   even while the server stops: the drain always comes to its end. *)
EveryoneAnswered == \A r \in Requests : state[r] = "connecting" ~> Answered(r)

=============================================================================
