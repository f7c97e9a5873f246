# Verification of the crypto market data pipeline

TLA+ models of the pipeline in `src/`, TLC configurations that check them on
small instances, and TLAPS proofs of every safety property the passing runs
check, for all instances.
Source paths below are relative to `src/src/crypto_pipeline/`.

    Binance websocket ──> ingester ──> topic candles.1m ──> writer ──┐
    Binance REST ──heal──────┘                                       ├─ insert_candles ─> candles_1m
    Binance REST ──────────────────────> backfill command ───────────┘                       │
                                                        dashboard <── API (candles, coverage, backtest) 
                                                                       └ backtest library, sweep

Contents: [inventory](#1-inventory) · [modules](#2-modules-and-the-code) ·
[runs](#3-runs) · [fairness](#4-fairness) · [proofs](#5-proofs) ·
[observations](#6-where-code-and-documents-disagree) ·
[not modelled](#7-what-is-not-modelled) · [plan](#8-plan).

To check: `tlc -config X.cfg M` for the pairs of section 3; `tlapm` on each `*Proofs.tla`.

## 1. Inventory

### Ingester (`ingester/stream.py`)
*State*: the websocket and what has arrived on it; in memory `_last_ts` (last
acknowledged candle of each symbol) and `_reconnected` (a flag per symbol);
in the broker the messages sent.
*Operations*: connect (all flags set), receive under `STALE_TIMEOUT_S`, drop
updates of an unfinished minute, heal a gap over REST (in a thread) if the
flag is set and minutes are missing before the candle in hand, publish with
`send_and_wait`, reconnect with a backoff, stop on SIGTERM.
*Hard*: the flag is read before the await of the heal and cleared after it;
the heal can fail or come back short; a send can fail with its message in the
topic; a stalled connection is up and silent; everything in memory dies with
the process.
*Correct if*: only final candles are published; in order; no minute between
the first and the last acknowledged candle is missing unless the code gave
that very minute up; nothing acknowledged is published again; a minute is
published in the end.

### Writer (`writer/consumer.py`)
*State*: positions and the batch in memory; the group's offsets at the
broker; rows in `candles_1m`.
*Operations*: poll, parse (malformed messages are skipped), insert, commit all
positions, on a failed insert seek to the committed offsets and poll again.
*Hard*: a crash or a rebalance between poll, insert, seek and commit; an
insert that fails with its rows stored; duplicates; `commit()` commits the
positions of the moment, not those of the batch.
*Correct if*: no committed offset covers a candle without a row; rows never
change; offsets never move back; every candle gets its row in the end.

### Candle store (`writer/db.py`, the migration)
*State*: the table, and in each transaction a staging table and row locks.
*Operations*: `insert_candles`: count, `COPY` into a temporary table,
`INSERT ... ON CONFLICT DO NOTHING`, count, commit.
*Hard*: two writers over the same keys in opposite orders; the count of
inserted rows is a difference of two counts of a table others write.
*Correct if*: one row per key, each call atomic, each call ends, the count is
never less than what was added.

### Historical fetch and backfill command (`backfill/`)
*State*: rows fetched so far and the start of the next page; the symbol in
hand, totals, failures, exit code.
*Hard*: the clock runs between pages; full pages, gaps of the exchange, an
exchange that does not heed `endTime`; one symbol of several fails; runs are
killed and repeated, beside a live writer.
*Correct if*: what is returned is complete, final and ascending; the loop ends;
the exit code tells whether the exchange answered for each symbol and what it had
is stored.

### API (`api/`)
*State*: the life of the application, the connection pool and its queue, the
semaphore and its queue, the threads of the executor.
*Operations*: start (open the pool), `POST /backtest`, `GET /candles`,
`GET /coverage`, `GET /symbols`, `GET /ready`, stop (end what has arrived, close
the pool).
*Hard*: a timeout while a request waits for a permit, while its thread is
queued, computes or has finished; threads that outlive requests; a connection
held through all of it; clients that give up earlier than the API and ask
again; answers made from two statements, between which rows are stored.
*Correct if*: no connection or permit is lost or given back twice; no queue
serves a request that is over; one answer for each request, in the end, also
while stopping; counts and truncation say what is there.

### Backtest library, sweep and command (`backtest/`)
*State*: the ledger of `simulate` (cash, quantity, the open trade, fees, trades,
curve), the results of a grid; the symbol in hand, reports, failures, exit code.
*Hard*: a long sequence of fills, each of which hands the ledger on; rounding;
windows against lengths; ties and missing Sharpe ratios; one symbol of several
raises after others have their reports.
*Correct if*: no signal looks ahead; fees, pnl, cash and curve agree; the ranking
shows why the choice was made; every symbol is accounted for.

### Dashboard (`dashboard/`)
*State*: caches shared by all sessions (`st.cache_data`, 60 s), the session state
by which the market page tells the backtest page what was selected last.
*Operations*: each thing the user does runs the script of a page again: load the
symbols (cached), select, load candles and coverage, draw, remember the
selection; fill in and send the form.
*Hard*: lists and counts are older than the table; the scripts end early at any
failing call; two pages and many sessions share a cache.
*Correct if*: the remembered symbol is in the list at hand (`list.index` would
raise); the red spans are the gaps; dates inside a range shown complete are not
refused.

### The rest
Configuration, logging, time, migrations, deployment: see
[section 7](#7-what-is-not-modelled).

### Interactions
Ingester and writer share only the topic; writer and backfill command share
only `insert_candles` and the table; ingester and backfill command share
`fetch_range`; the API and the backtest command read the table; the dashboard is
a client of the API. Two ways lead from the parts to the whole:

* *Abstract specifications*, which the detailed modules implement (`INSTANCE ...
  WITH`, checked as a `PROPERTY`): `Ingester` implements `MinuteLog` (a log of final
  minutes without a hole nobody gave up), `WriterConsumer` implements
  `AtLeastOnceSink` (rows are stored before offsets are committed), `CandleStore`
  implements `AtomicStore` (each call is one atomic batch, or nothing).
* *Composition*: `Pipeline` puts `MinuteLog`, `AtLeastOnceSink` and the detailed
  `Backfill` around one topic and one table, and states what holds from the
  exchange to the table. `BacktestCommand` calls the steps of `Sweep`, `Dashboard`
  those of `Coverage`.

`FetchRange` checks what `Ingester` and `Backfill` take `fetch_range` to be: all the
rows the exchange has, which may be few or none, or an exception. A short answer
is a fault of `Ingester` and one of the sets `Lacking` of `Backfill`. `CandleTable` is the effect of an insert wherever there is one.

The hazards, each at its line with the properties that would catch it, are in
`PROJECT.json`.

## 2. Modules and the code

| module | models | state ↔ code |
|---|---|---|
| `CandleTable` | the table and its one statement | `InsertResults`: the tables that ON CONFLICT DO NOTHING may leave |
| `WriterConsumer` | `WriterConsumer.run` | `topic`, `committed` at the broker; `table`; `position`, `candles` in memory; `pc` the await it is at |
| `AtLeastOnceSink` | what the writer promises | `topic`, `committed`, `table` |
| `WriterProofs` | theorems about the two above | |
| `Ingester` | `BinanceIngester` | `lastTs`, `reconnected` are `_last_ts`, `_reconnected`; `conn`, `inbox` the socket; `cur` the candle in `_handle_msg`; `queue` what is left of a heal |
| `MinuteLog` | what the ingester promises | `clock`, `log` the topic; `first`, `last`, `gaveUp` what its process did |
| `IngesterProofs` | theorems about the two above | |
| `FetchRange` | `fetch_range`, `fetch_klines`, `last_complete_minute_ms` | `startMs`, `candles`; `traded`, `honoursEnd` the exchange |
| `FetchProofs` | theorems about `FetchRange` | |
| `CandleStore` | `insert_candles`, several at a time | `pc` per session; `pending` rows of an open transaction; `waiting` its lock wait |
| `AtomicStore` | what `insert_candles` promises | `table`; `call`, `batch` of each session |
| `StoreProofs` | theorems about the two above | |
| `Backfill` | `main` of the backfill command | `next`, `failures`, `exit`; `answers`, `ahead` history |
| `Pipeline` | ingester, topic, writer, backfill command, table | the variables of `MinuteLog` and `Backfill`; `committed` |
| `PipelineProofs` | theorems about `Pipeline` and `Backfill` | |
| `ApiBacktest` | `lifespan`, the endpoints, `get_conn`, pool, semaphore, executor | `app`; `state` and `thread` of each request; `permits`, `freeConns` and the two queues |
| `ApiProofs` | theorems about `ApiBacktest` | |
| `Coverage` | `list_symbols`, `list_candles`, `count_candles`, `_expected_for_range`, `check_consistency`, the gap check | `stored`, `others` the table; the last answers |
| `Dashboard` | `views/market.py`, `views/backtest.py`, `gap_spans` | `cache`; `view` where the script is; `remembered` is `last_selection` |
| `DashboardProofs` | theorems about the two above | |
| `Backtest` | `prepare_candles`, `sma_crossover`, `simulate`, `buy_and_hold` | variables named as in `simulate` |
| `Sweep` | `split_chronological`, `run_sweep` | `results`, `ranked`, `best`; `stage` where `run_sweep` is |
| `BacktestCommand` | `main` of the backtest command, `format_sweep` | `symbol`, `failures`, `reports`, `printed`, `exit` |
| `BacktestProofs` | theorems about the three above | |
| `MC...` | instances for TLC | |

An action is the code between two awaits (writer, ingester, API), between two
statements (store), one turn of a loop (fetch, backfill, backtest, sweep), or
one call of a page (dashboard).
Definitions marked *Mutant* are plausible bugs of the definition after
them; no specification uses them. Each property of a run is violated when the
mutant listed for it in `PROJECT.json` takes the place of its definition.

Decisions a reader should know:

* **Writer.** A candle is its key and a value; a `Malformed` message is one
  `parse_kafka_candle` raises on, a `Rejected` one parses and breaks a column
  constraint. `getmany` returns any prefix mix up to `MaxRecords`. aiokafka is
  external: `seek_to_committed` skips partitions without a positive committed
  offset; a rebalance puts positions back to the committed offsets behind
  `run()`. A failed `commit` ends the process (`Crash`). A group is modelled by
  one member; a second one acts as rebalances do.
* **Ingester.** Times are minutes. One waiting update stands for many. A
  lost connection keeps a prefix of what was under way. Sleeps are steps that
  change nothing and are left out, the backoff with them. `firstTs` and
  `excused` are history: the first acknowledged candle of this process, and
  the minutes whose fetch or publish failed.
* **Fetch.** A minute is `Minute` instants, so that arguments may lie inside a
  minute. `calledAt` is history. The rate-limit pause changes no state.
* **Store.** READ COMMITTED, a unique index, waits for the holder of a key, and
  deadlock detection are PostgreSQL's and external.
* **Pipeline.** Each symbol has a partition of its own. The table is shared, so
  a backfill may store what the ingester gave up, and the writer may come
  first or last. `Row` reads the exchange at the time of the fetch, and `Lacking` is
  what it has no candle of then. The writer is its promise `AtLeastOnceSink`,
  which it keeps for a group with a committed offset on each partition
  (`Established`); so the module starts with messages from before (`Earlier`),
  stored and committed. A new group is no part of it: what the code does there
  is `writer_fresh_group`.
* **API.** A read holds its connection for its queries and nothing else. A
  thread, once computing, may never finish. That the server lets requests end
  before the pool is closed is uvicorn's and external.
* **Coverage and dashboard.** One answer is remembered at a time: the two GETs
  share only the table, and each new answer clears the others. Of one symbol
  the candles are modelled, of the others whether they have any. A page takes
  any range, also of parts of minutes, as other clients of the API may. The form
  keeps the dates of a selection and sends midnight to midnight (`AsUtc`): the
  range of a backtest is in general not the one that was counted. That
  Streamlit gives the two `load_symbols` one cache entry, and that it computes an
  entry once at a time, is external.
* **Backtest.** Exact integers: money in 1/`Unit`, quantities in 1/`Lot` (the
  code: 10^-8). Decimal's 28 digits are not a limit in the model. The average
  is compared by cross multiplication, where pandas compares floats.
* **Sweep.** A backtest is any result `MetricsOf` allows for the window: no
  more trades than fit, no Sharpe ratio without a trade. It raises for windows
  that are below 1, too long or swapped, and for candles `prepare_candles` does
  not accept (a gap, incoherent prices), which any segment may have. The stable sort of the
  table is given by what it does: the place of a result is one more than the
  number of those that come before it. A report of the command is its symbol,
  its windows and the rows it has.

## 3. Runs

States are distinct states; the runs take seconds, `dashboard` and `pipeline` two
and three minutes.

| run | asks | instance and why it is enough |
|---|---|---|
| `writer` | Is anything lost, changed or never stored, under crashes, rebalances, failed inserts? Does it implement the sink? | Two partitions, two keys on one and one on the other, a second version of a key, malformed and rejected messages, batches of two, three messages a partition, two crashes or rebalances: a batch can span partitions, be cut anywhere, fail, be replayed after a commit of the other partition. 91k states |
| `writer_fresh_group` (violated) | Does the same hold for a group that never committed? | The shortest trace: poll, fail, poll the next, commit |
| `ingester_faults` | Does the ingester implement `MinuteLog` under every fault; is every minute published in the end? | One symbol, five minutes, two drops, one REST fault, one publish fault, one crash: a heal after a heal, a heal cut short by each fault. 50k states |
| `ingester_symbols` | Are symbols kept apart? | Two symbols, three minutes, one fault of each kind: events of one between connect and heal of the other. 164k states |
| `ingester_unhealed` (violated) | Is a gap healed on a later occasion? | Two drops, one REST fault, six minutes: room for a second reconnect after the failed heal |
| `fetch_range` | Is what is returned complete, final, ascending; does it end? | Five minutes of two instants, pages of two: no page, a full page, a full last page, and every set of minutes without a row. 597k states |
| `store` | Do concurrent inserts implement `AtomicStore`, do they end? | Two sessions, two calls each, batches with both keys, with two versions of one: the smallest deadlock, and a second call after it. 92k states |
| `pipeline` | Does every hand-over keep what it is given? What does an exit code of a backfill tell? Are rows final? | A symbol that is streamed and backfilled, one that is only backfilled; one message from before, stored and committed; three minutes, two new messages, ranges of one and two minutes, an exchange that has all or lacks the first minute, two runs of the command, one fault of it and one restart of the ingester: a run before, between and after the others, one that is repeated after a failure, one that gets less than was asked. 1.47M states |
| `api` | Are permits and connections kept, does nobody queue for a request that is over, is everyone answered? | Three backtests and a read, a pool of three, two permits, two threads: a queue at each, threads left over by timeouts, and a stop at any time. 29k states |
| `backtest` | Does the ledger add up, does the signal look ahead, is any money dropped but by rounding? | All histories of up to five candles with opens and closes out of two prices, with or without a missing minute, five pairs of windows: up to two trades, the second with the rest of the first. 124k states |
| `backtest_command` | Is every symbol accounted for, and each report about its own candles? Does the ranking show why a pair was chosen? | Two symbols; five combinations, one in the wrong order, one with a window of 0, one longer than some segments; lengths 0 to 12, so that the second segment can be too short for what the first one chose; segments that are not accepted; Sharpe ratios with ties and none. 1.85M states |
| `dashboard` | Do counts, truncation and spans say what is there, does a count promise what the form asks for, is the remembered symbol listed? | Five minutes of two instants, hours and days of two minutes, a limit of two, all ranges, backtests between any two of three midnights, which may lie inside the range that was counted or reach beyond it; rows stored in any order, one other symbol, caches that expire and other sessions that fill them. 1.54M states |

Deadlock is checked in `dashboard`, and in `writer`, `writer_fresh_group`, where
a group can always poll. The others really stop: the clock, the calls or the
requests of the instance are used up.

What the properties say, beyond the comment at each: `NoCommittedLoss` and
`PassedIsHandled` (in `IInv`) are about *every* interleaving of the commit with seeks and
rebalances. `NoUnexplainedGap` is the promise of the heal, with the two ways
out the code takes (`excused`) and no other; `LogSpec` adds that what is published
is final, ascending, and repeated only when a send failed. `AtomicSpec` is what
lets the writer be modelled in one step per insert. `EndToEnd` says where a
minute is while it is on its way, for a group that has committed before.
`ExitCodeTells` says how far exit code 0 of the backfill command can be relied on:
the exchange answered for each symbol, and all it had then is stored; whether it
had the whole range it does not tell (section 6).
`RowsAreFinal` is the README's "stored partial candle would be a permanent lie".
`NothingLeaks` counts permits and connections against the states of the requests,
`NoGhosts` the queues and threads. `LedgerAddsUp` ties the list of trades to the
totals, which the code keeps apart; `CostsNeverPay` and `OnlyDustIsDropped` bound
each trade from above and below, between them no more than a lot.
`CompleteIsAccepted` relates a count, the dates the form makes of a range, and
what is stored when the backtest reads it. `RememberedIsListed` relates a session to a
cache it shares; it holds because lists only grow and both pages read one
entry.

## 4. Fairness

* **Writer**: weak fairness of its own steps. `Start`: an operator starts the
  container again; docker-compose.yml has no restart policy, so this is an
  assumption about the operator. Strong fairness of `InsertSucceeds`: the
  database is not down for ever; without it nothing can be promised. None for
  producers and crashes.
* **Ingester**: weak fairness of the clock and of the process's steps, since
  fetches, sends and connects return or time out; strong fairness of `Receive`
  per symbol, since asyncio reads frames in the order they came and each
  symbol's frame is reached. The clock of the instance stops at `MaxTime`,
  so the last minute stands for the first one after all faults: `CalmEnd` says
  that it ends with the connection up and that no drop or crash follows.
  `ingester_symbols` checks safety without `CalmEnd`.
* **Fetch**: each request has a timeout, so the loop goes on.
* **Store**: a statement goes on unless it waits for a lock, and
  `deadlock_timeout` breaks circles.
* **API**: timeouts run out and statements end (`STATEMENT_TIMEOUT_MS`).
  Nothing is assumed of threads: `EveryoneAnswered` holds if none ever ends.
* **Pipeline, backtest, backtest command, dashboard**: no liveness is claimed.

## 5. Proofs

Every type invariant, safety invariant and action property of a passing run is a
theorem of its specification. None of them needs the bounds of the runs: symbols,
partitions, sessions, requests, limits on faults, prices, windows and lengths
are any that the `ASSUME` of the module allows. What the runs add is liveness,
and that the theorems are not hollow: TLC reaches the states the properties are
about, and the mutants break the properties there.

A proof has an inductive invariant, named `...Inv` or `IInv`, that TLC checked
on a run's instance before it was proved; a lemma for each action, or for the
actions of one part; and temporal steps of one line.

### The writer (`WriterProofs`)

For all sets of partitions, keys and contents, all values of `MaxRecords`,
`MaxLen`, `MaxFaults` and all producers:

| theorem | says |
|---|---|
| `Invariance` | `Established => (Spec => []IInv)` |
| `TypeCorrectness`, `CommittedIsStored`, `PassedAlwaysHandled` | `TypeOK`, `NoCommittedLoss`, `PassedIsHandled` follow |
| `OneRowAlways`, `RowsNeverChange` | `OneRow`, `RowsImmutable`: for every group, established or not |
| `OffsetsNeverMoveBack` | `CommitMonotone` |
| `ImplementsSink` | every step of the writer publishes, stores, acknowledges or stutters |

*Assumptions*: `WriterAssumption` (constants have the right types; the initial
topic fits `MaxLen` and its candles have distinct keys or are equal) and, for
the loss results, `Established`: the group has committed on each partition
before. Without it `NoCommittedLoss` is false, as `writer_fresh_group` shows.

*Argument*: `NoCommittedLoss` is not inductive: `Commit` makes `committed` what
`position` is, so one must know that all a live consumer has passed is stored
(`PassedIsHandled`). That in turn survives a failed insert only because the seek
goes back to a committed offset on *every* partition (`CommittedSomething`;
this is where `Established` comes in) up to which all is stored
(`NoCommittedLoss`), and survives a rebalance for the same reason. That offsets
do not move back needs `PositionAhead`. The refinement needs that stored rows
come from the topic even after a rebalance took the batch's partitions away
(`BatchFromTopic`). The conjunction is `IInv`; TLC checks it in `writer`, and
each action preserves it in a lemma of its own. Lemmas about `InsertResults`
(keeps, adds only staged rows with new keys, covers the batch) carry the rest.

### The store (`StoreProofs`)

For any sessions, rows, batches and bounds:

| theorem | says |
|---|---|
| `ImplementsAtomicStore` | `Spec => AtomicSpec`: a call is one insert of its whole batch, or, if it raises, maybe none |
| `CountsMissNone` | `NeverUndercounts` |
| `TypeCorrectness` | `TypeOK`; that a returned count is never negative takes `CountInv` |

*Assumption*: `StoreAssumption` (batches are finite sets of rows).

*Argument*: at a COMMIT the pending rows must be just what an insert of the
batch would add to the table *as it is then* (`CommitIsInsert`), though it has
changed since the INSERT looked at it. They are, since the INSERT has come past
the whole batch (`Tidy`, `Covered`), and since rows of open transactions never
clash with the table or with each other (`Apart`), which is what waiting for the
holder of a key gives. The parts are one invariant, `StoreInv`. The counts need
besides that the table only grows and is finite (`CountInv`).

### The pipeline (`PipelineProofs`)

For any symbols, arguments, ranges, messages from before, exchanges and bounds:

| theorem | says |
|---|---|
| `NoneLostOnTheWay` | `EndToEnd`, for a group with a committed offset on each partition |
| `ExitCodeIsTrue` | `ExitCodeTells`: about what the exchange had, not about the range |
| `OnlyFinalRows` | `RowsAreFinal` |

*Assumptions*: `BackfillAssumption`, `PipelineAssumption` (types, and that each
partition has messages from before, at least one, with one final row per key: `Init`
has them stored and committed, which makes the group `Established`), and what
`Pipeline` is built on: the ingester is `MinuteLog` (`ImplementsMinuteLog`), the
writer is `AtLeastOnceSink` (`ImplementsSink`, for an established group), an
insert is atomic (`ImplementsAtomicStore`), `fetch_range` returns what the exchange
has (`FetchIsComplete`). Each of the four is proved of its component; that the
detailed components side by side implement `Pipeline` is read off their
interfaces, not proved.

*Argument*: a new message is unread because no offset is committed past the end
of the topic (`CommittedReached`); what is unread becomes stored before an offset
passes it (`Acknowledge`); a minute between two known ones was known before or
given up (`MayFollow`). The exit code needs an account of the loop while it runs
(`RunInProgress`): each symbol before the one in hand is stored or noted, and
what is in hand is what the exchange answered for it. Final rows need that what the command
holds between fetch and insert is final (`SourcesFinal`).

### The ingester (`IngesterProofs`)

For any symbols, any `MaxTime`, any number of faults of each kind:

| theorem | says |
|---|---|
| `ImplementsMinuteLog` | `Spec => LogSpec`: what is published is final, ascending, without an unexplained hole, and repeated only after a failed send |
| `LogHasNoHole` | the abstract log has no hole |
| `IngesterHasNoHole` | `NoUnexplainedGap`, from the two |
| `TypeCorrectness` | `TypeOK` |

*Assumption*: `IngesterAssumption` (types).

*Argument*: a minute may be appended only if all since `_last_ts` are given up, but
without the flag the code does not look: it relies on what the connection
brings. So the invariant speaks of what a connection will still bring (`Due`),
and says that it comes in order and without a hole, also when a lost connection
cuts it (`Streams`). Without the flag what is due follows `_last_ts` but for
minutes given up (`FollowsLast`); with it there may be a hole, and the flag must
not go before the hole does. While a candle is in hand its symbol is not
at rest (`AtRest`), and `FetchingAfterLast`, `HealingInOrder` or
`PublishingNext` stands in for `FollowsLast`. `HealingInOrder` is the one that
relates `queue`, `cur`, `lastTs` and `excused`: what is left of a heal is
consecutive, may come next, and what is missing between its end and the
candle in hand is given up.

### Historical fetch (`FetchProofs`)

For any length of a minute and a page, any rows of the exchange, any clock:

| theorem | says |
|---|---|
| `FetchIsComplete`, `FetchIsFinal`, `FetchAscends` | `Complete`, `OnlyFinalized`, `PagesAscend` |
| `LoopAdvances` | a turn that goes on moves the next page up, below a bound |
| `TypeCorrectness` | `TypeOK` |

*Assumption*: `FetchAssumption` (positive lengths).

*Argument*: a page has no holes, is empty only if nothing matches, and has all that
matches unless it is full (lemmas about `PageTimes`, by counting). Hence nothing
is left out below `startMs` (`NoneSkipped`), and wherever the loop stops nothing
wanted is left above it (`EndsComplete`). A row of a minute that was over at the
call was read final (`FinalIfOver`). `LoopAdvances` is the measure of
termination; the property `Terminates` itself is liveness and is TLC's.

### The API (`ApiProofs`)

For any finite set of requests, any pool, semaphore and executor:

| theorem | says |
|---|---|
| `NoLeaks`, `GhostsNever` | `NothingLeaks`, `NoGhosts` |
| `TypeCorrectness` | `TypeOK` |

*Assumption*: `ApiAssumption` (finitely many requests, positive sizes).

*Argument*: `NothingLeaks` counts, and is inductive only together with `Queues`:
each queue holds just those that wait for it, each of them once, so that what is
handed to its head reaches one that waits, and giving up takes a request out
altogether. `Balances` does the counting for all actions: when one request
changes its place, the free connections and permits change by what the two
places hold. `Threads` relates a thread to the request it computes for: it may
compute on when that one has timed out, and in no other case.

### Coverage and dashboard (`DashboardProofs`)

For any lengths of a minute and an hour, any limits, windows and symbols:

| theorem | says |
|---|---|
| `PagesTellTruncation` | `TruncatedTells` |
| `CompleteRangesAreAccepted` | `CompleteIsAccepted` |
| `SpansAreTheGaps` | `SpansAreGaps` |
| `RememberedIsInTheForm` | `RememberedIsListed` |
| `TypeCorrectness` | `TypeOK` |

*Assumptions*: `CoverageAssumption` (positive lengths, an hour of whole minutes, a
watched symbol that is not among the others) and `DashboardAssumption` (a day of
whole minutes).

*Argument*: the first `n` rows of a set come before all others, and are `n` if there
are more (`EarliestIsPrefix`, `EarliestIsFull`); asking for one more tells
(`ProbeTells`). A count that equals `Expected` means that nothing is missing
because no more open times than that are due (`DueAtMostExpected`,
`CountTellsComplete`); it still means it when the backtest reads, since no row is
deleted (`ShownHasAll`), and for any range inside (`DueInside`), which then has no
gap (`AllDueHasNoGap`). `SpanIffMissing` says of each due time whether a span
between two marks of the chart covers it. The remembered symbol needs four facts
about lists of different ages (`SessionInv`): each list was true when it was
made, the one in hand is no newer than the cached one, the remembered symbol is
in every list a page can still get, and the selected one is in the list in hand.

### One backtest (`BacktestProofs`)

For any histories with ascending times, any prices, windows and capital, fee and
slippage below 1, any lot:

| theorem | says |
|---|---|
| `SignalIsBlind`, `LoopFollowsSignal` | `NoLookAhead`, `FollowsSignal` |
| `LedgerAlwaysAddsUp`, `CurveMeetsResult` | `LedgerAddsUp`, `CurveEndsAtFinal` |
| `NothingEscapesCosts`, `OnlyRoundingLoses` | `CostsNeverPay`, `OnlyDustIsDropped` |
| `TypeCorrectness` | `TypeOK` |

*Assumption*: `BacktestAssumption`.

*Argument*: the sums of fees and pnl are folds over sets (`MapThenSumSet`), which
take the elements in an order that is not determined, and the library's
induction theorems cannot be used here. Instead the proof looks at a least
counterexample: the partial results that satisfy the recursion up to `n` exist
(`FixedPointExists`) and agree (`PartialsAgree`), hence the fold is determined,
and taking an element out takes its value off (`SumRemove`). With
that, `LedgerAddsUp` is kept by a sale, whose pnl is the difference of two
cash balances while the fees are added one by one. `CostsNeverPay` needs that what
is held was bought with all the cash at the entry, and that the cash is a
multiple of `FeeDen`, so that the fees are exact and the only rounding is that
of the quantity (`Invested`); `RoundTripPays` has both inequalities for one
trade. It stays true of the trades listed before, whose sums no longer change
(`OldTradesPay`).

### Sweep and command (`BacktestProofs`)

For any grid, ratios, split, minimum of trades, number of symbols, and any
result a backtest can have:

| theorem | says |
|---|---|
| `TableExplainsChoice` | `RankingExplainsBest` |
| `NoSymbolForgotten` | `EverySymbolTold` |
| `CommandTypeCorrectness` | `CommandTypeOK` |

*Assumptions*: `SweepAssumption`, `CommandAssumption` (types).

*Argument*: different results have different places, because the order is total,
and by the pigeonhole principle each place is taken (`PlaceIs`, `SortedIs`).
The choice has the highest ratio of those with enough trades, and the first of
them in the grid at that (`BestIs`), so that none of those is placed before it.
`Accounts` says what is done with when the loop has come to a symbol, and that a
report of a sweep fits the candles of *its* symbol, though `results` and the
segments are those of a later one by the time it is printed (`SegmentsAre` and
`ResultsAre` say it of the one in hand). `BacktestProofs` extends both `Backtest`
and `BacktestCommand`; hence the names of their specifications, `Spec` and
`CommandSpec`.

### Only model-checked

* Liveness, which rests on fairness and so on ENABLED, which this prover
  does not do: `EventuallyStored`, `EventuallyPublished`, `Terminates`,
  `CallsEnd`, `EveryoneAnswered`. In the instances faults are bounded, since
  fairness alone does not end them.
* The two properties of the violated runs, which are false.

## 6. Where code and documents disagree

Found while modelling. The first two are checked by runs that TLC must find
violated; the others are stated here, and the properties of the runs say what
holds instead.

1. *A new group can lose a batch* (`writer_fresh_group`). `seek_to_committed`
   does nothing for a partition without a committed offset
   (`writer/consumer.py:70`). If the first insert of a group fails, the next
   commit passes the lost batch. README.md:80-81 promises a retry.
2. *A failed heal is not repeated* (`ingester_unhealed`). `_heal_gap` logs and
   returns (`ingester/stream.py:156`), the flag is cleared and `_last_ts` moves
   on. README.md:22-23 says missing minutes are fetched.
3. *A message that parses but cannot be stored* (for example `"symbol": null`,
   `common/parse.py:57`) fails its batch for ever; README.md:80 says malformed
   messages do not make the writer loop. `EventuallyStored` exempts topics
   that hold one.
4. *An end in the future.* `last_complete_minute_ms` is given the end of the
   range, not the time (`backfill/fetch.py:21`, whose comment says `now - 1m`),
   and `resolve_range` accepts any end: the minute in progress is returned,
   and, once stored, is final. `OnlyFinalized` of `FetchRange` is for an end
   that is not after the call, `RowsAreFinal` for systems where none was asked for.
5. *The limit on backtests* (`api/config.py:14`) bounds the requests that hold a
   permit. A timeout gives the permit back while the thread computes on
   (`api/routes.py:114`), so more backtests than that may compute at a time, up to
   the threads of the executor.
6. *A choice can be too long for the second segment.* `run_sweep` filters the
   grid by the first segment's length alone (`backtest/sweep.py:51`); then
   the evaluation raises and nothing is returned.
7. *The market page's warning.* It counts minutes missing at the ends of the
   range (`dashboard/views/market.py:113`), which `prepare_candles` does not
   refuse (`backtest/frame.py:46-49`): the backtest it warns of is accepted.
   `CompleteIsAccepted` is the direction that holds, for dates inside the range.
8. *Two readings of a range.* The API takes both ends of a range
   (`api/queries.py:63-86`), the backtest command leaves the end out
   (`common/db.py:17`): the same arguments make backtests that differ by a candle.
   `Expected` counts both ends.
9. *Hourly coverage.* A range that begins and ends inside hours touches more
   buckets than `_expected_for_range` counts (`api/routes.py:159`): `returned` can be
   more than `expected`. The dashboard shows the count by minutes only.
10. *A window longer than the data* raises a `ValueError` in the thread that
    `post_backtest` does not catch (`api/routes.py:127-134`): the answer is 500, where
    other bad requests get 422 (`PostBacktest`, verdict `error`).
11. *One list for two pages.* `symbols.index` (`dashboard/views/backtest.py:44`) cannot
    raise only because the two `load_symbols` have the same text, so that they
    share a cache entry. A change to one of them would undo it: that is the
    mutant `CacheKeyOfPage`.
12. *The first minute of a chart.* `gap_spans` marks no gap when exactly the first
    minute of the range is missing (`dashboard/charts.py:45`); `SpansAreGaps` is
    about the minutes strictly inside.
13. *The title of a curve* is the form's symbol and not the result's
    (`dashboard/views/backtest.py:128`); they differ when the user comes back from
    the other page with another selection.
14. *Timeouts in the wrong order.* The dashboard gives up after 10 s
    (`dashboard/config.py:7`), the API after 30 (`api/config.py:15`): a user who tries
    again adds to the queue the first request is still in.

15. *Exit code 0 of a backfill* does not say that the range is stored.
    `fetch_range` ends at an empty or short page without raising
    (`backfill/fetch.py:24-33`; `tests/test_backfill_fetch.py:77-87` wants it so), and
    `main` counts the symbol as done: a gap of the exchange, or one that lags, is
    seen in the logged counts only. `ExitCodeTells` says what the code is worth.
16. *A complete page and a refused backtest.* The backtest page is prefilled with
    the dates of the market page's range and sends midnight to midnight
    (`dashboard/views/backtest.py:49-50, 68-69`). The range begins earlier on its
    first day than was counted, so that a page at 100 % can be followed by a 422
    for a gap nobody was shown; and it ends before the last day.

## 7. What is not modelled

* The length of the reconnect backoff (`ingester/stream.py:61`) and the counters
  that are only logged.
* A single stream that stalls inside a combined connection
  (`ingester/stream.py:89`): the code has no means to notice it, and its promise is
  about reconnects.
* Sharpe ratio, drawdown, win rate, `rsi` (nothing calls it), prices of hourly
  buckets: floating-point data the properties do not depend on.
* What is only displayed or printed: the layout of reports and pages, the last
  result in the session state, the dates a form is prefilled with.
* Configuration, logging, migrations, deployment: no state, or external.

## 8. Plan

Written so far, the most important behaviour first: table and writer with its
sink; ingester and its log; fetch; store and its atomic form; backfill; the
pipeline; API; backtest, sweep and command; coverage and dashboard; proofs for
each of them. Next:

1. **Proofs.** The composition: that the detailed writer and the detailed
   ingester around one topic implement `Pipeline`'s view of them. Measures like
   that of `LoopAdvances` for the store's calls and the API's requests.
2. **More of the system.** The reconnect backoff: delay, healthy uptime against
   stale timeout.
