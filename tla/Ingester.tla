------------------------------- MODULE Ingester -------------------------------
(***************************************************************************)
(* The ingester service (src/crypto_pipeline/ingester/stream.py): reads    *)
(* the exchange's websocket, keeps closed candles, and publishes them to   *)
(* the topic keyed by symbol.  After a reconnect, the first closed candle  *)
(* of a symbol shows what was missed; it is fetched over REST and          *)
(* published before that candle.                                           *)
(*                                                                         *)
(* Time is counted in minutes: candle t covers minute t and is final when  *)
(* now > t.  The steps are the pieces of the task between two awaits       *)
(* (recv, the fetch in its thread, send_and_wait), so that the clock, the  *)
(* exchange and every fault can come between any two.                      *)
(***************************************************************************)
EXTENDS Integers, Sequences

CONSTANTS
    Symbols,      \* the subscribed symbols
    None,         \* nothing published yet; no candle in hand
    MaxTime,      \* bound: minutes
    MaxFaults     \* bound: [FaultKinds -> Nat], how often each kind happens

FaultKinds == {"drop", "rest", "publish", "crash"}

ASSUME IngesterAssumption ==
    /\ None \notin Nat
    /\ MaxTime \in Nat
    /\ MaxFaults \in [FaultKinds -> Nat]

VARIABLES
    now,          \* the clock of the exchange
    conn,         \* "down", "up", or not yet noticed to be "lost" or "stalled"
    inbox,        \* [Symbols -> Seq(event)], received and not yet handled
    topic,        \* [Symbols -> Seq(message)], what the broker holds
    pc,           \* where the task waits
    cur,          \* the closed candle being handled
    queue,        \* the fetched candles still to be published
    lastTs,       \* _last_ts
    reconnected,  \* _reconnected
    faults,       \* faults so far, by kind
    firstTs,      \* history: first candle this process got acknowledged
    excused       \* history: candles this process gave up or may have lost

exchangeVars == <<now, conn, inbox>>
historyVars  == <<firstTs, excused>>
vars == <<now, conn, inbox, topic, pc, cur, queue, lastTs, reconnected, faults,
          firstTs, excused>>

Minutes == 0..MaxTime

-----------------------------------------------------------------------------

(* A kline update: closed is the flag "x" of the event. *)
Event == [ts : Minutes, closed : BOOLEAN]

(* A message of the topic.  It is final if it was read when its minute was over. *)
Candle == [ts : Minutes, final : BOOLEAN]

Idle == [symbol |-> None, ts |-> None, final |-> FALSE]

(* What the exchange reports now of minute t. *)
Reading(t) == [ts |-> t, final |-> t < now]

(* missing in _heal_gap: the minutes between the last published and cur. *)
Missing(s, t) == IF lastTs[s] = None THEN {} ELSE lastTs[s] + 1 .. t - 1

Fault(kind) ==
    /\ faults[kind] < MaxFaults[kind]
    /\ faults' = [faults EXCEPT ![kind] = @ + 1]

Init ==
    /\ now = 0
    /\ conn = "down"
    /\ inbox = [s \in Symbols |-> <<>>]
    /\ topic = [s \in Symbols |-> <<>>]
    /\ pc = "stopped"
    /\ cur = Idle
    /\ queue = <<>>
    /\ lastTs = [s \in Symbols |-> None]
    /\ reconnected = [s \in Symbols |-> FALSE]
    /\ faults = [k \in FaultKinds |-> 0]
    /\ firstTs = [s \in Symbols |-> None]
    /\ excused = [s \in Symbols |-> {}]

-----------------------------------------------------------------------------
(* The exchange. *)

(* A minute ends.  A live connection is sent the closed candle of every
   symbol; a lost or stalled one loses it. *)
Tick ==
    /\ now < MaxTime
    /\ now' = now + 1
    /\ inbox' = IF conn = "up"
                THEN [s \in Symbols |-> Append(inbox[s], [ts |-> now, closed |-> TRUE])]
                ELSE inbox
    /\ UNCHANGED <<conn, topic, pc, cur, queue, lastTs, reconnected, faults, historyVars>>

(* An update of the minute in progress.  One waiting update of a symbol
   stands for the many that the exchange sends in a minute. *)
Update ==
    /\ conn = "up"
    /\ \E s \in Symbols :
          /\ \A i \in 1..Len(inbox[s]) : inbox[s][i].closed
          /\ inbox' = [inbox EXCEPT ![s] = Append(@, [ts |-> now, closed |-> FALSE])]
    /\ UNCHANGED <<now, conn, topic, pc, cur, queue, lastTs, reconnected, faults, historyVars>>

(* The connection is lost or stalls: events on their way do not arrive. *)
Drop ==
    /\ conn = "up"
    /\ Fault("drop")
    /\ conn' \in {"lost", "stalled"}
    /\ \E n \in [Symbols -> 0..MaxTime + 1] :
          /\ \A s \in Symbols : n[s] <= Len(inbox[s])
          /\ inbox' = [s \in Symbols |-> SubSeq(inbox[s], 1, n[s])]
    /\ UNCHANGED <<now, topic, pc, cur, queue, lastTs, reconnected, historyVars>>

-----------------------------------------------------------------------------
(* The task. *)

(* A new process starts. *)
Start ==
    /\ pc = "stopped"
    /\ pc' = "connecting"
    /\ UNCHANGED <<exchangeVars, topic, cur, queue, lastTs, reconnected, faults, historyVars>>

(* Mutant: the flags are not set on a reconnect. *)
ConnectKeepsFlags ==
    /\ pc = "connecting"
    /\ pc' = "receiving"
    /\ conn' = "up"
    /\ inbox' = [s \in Symbols |-> <<>>]
    /\ UNCHANGED <<now, topic, cur, queue, lastTs, reconnected, faults, historyVars>>

(* connect() succeeds, after a first try or the backoff of run(). *)
Connect ==
    /\ pc = "connecting"
    /\ pc' = "receiving"
    /\ conn' = "up"
    /\ inbox' = [s \in Symbols |-> <<>>]
    /\ reconnected' = [s \in Symbols |-> TRUE]
    /\ UNCHANGED <<now, topic, cur, queue, lastTs, faults, historyVars>>

(* Mutant: recv() without STALE_TIMEOUT_S: a stalled connection is kept. *)
NoticeLossNoTimeout ==
    /\ pc = "receiving"
    /\ conn = "lost"
    /\ \A s \in Symbols : inbox[s] = <<>>
    /\ conn' = "down"
    /\ pc' = "connecting"
    /\ UNCHANGED <<now, inbox, topic, cur, queue, lastTs, reconnected, faults, historyVars>>

(* recv() raises ConnectionClosed, or times out, once what had arrived is
   read; the connection is closed and run() schedules a reconnect. *)
NoticeLoss ==
    /\ pc = "receiving"
    /\ conn \in {"lost", "stalled"}
    /\ \A s \in Symbols : inbox[s] = <<>>
    /\ conn' = "down"
    /\ pc' = "connecting"
    /\ UNCHANGED <<now, inbox, topic, cur, queue, lastTs, reconnected, faults, historyVars>>

(* _handle_msg up to its first await: an update of an unfinished candle is
   dropped, a closed candle is published, after a heal if it is the first
   one since the reconnect and minutes are missing before it. *)
Receive(s) ==
    /\ pc = "receiving"
    /\ inbox[s] # <<>>
    /\ inbox' = [inbox EXCEPT ![s] = Tail(@)]
    /\ LET e == Head(inbox[s]) IN
          \/ /\ ~e.closed
             /\ UNCHANGED <<pc, cur, reconnected>>
          \/ /\ e.closed
             /\ cur' = [symbol |-> s, ts |-> e.ts, final |-> e.closed]
             /\ IF reconnected[s] /\ Missing(s, e.ts) # {}
                THEN pc' = "fetching" /\ UNCHANGED reconnected
                ELSE pc' = "publishing" /\ reconnected' = [reconnected EXCEPT ![s] = FALSE]
    /\ UNCHANGED <<now, conn, topic, queue, lastTs, faults, historyVars>>

(* Mutant: one flag for the connection instead of one for each symbol. *)
HealDoneForAll ==
    /\ queue' = <<>>
    /\ reconnected' = [s \in Symbols |-> FALSE]
    /\ pc' = "publishing"

(* The heal is over, well or badly: the flag goes and cur is published. *)
HealDone ==
    /\ queue' = <<>>
    /\ reconnected' = [reconnected EXCEPT ![cur.symbol] = FALSE]
    /\ pc' = "publishing"

(* Mutant: the heal starts at _last_ts instead of a minute after it. *)
FetchedFromLast(n) == [i \in 1..n |-> Reading(lastTs[cur.symbol] + i - 1)]

(* The rows fetch_range returns for the first n missing minutes. *)
Fetched(n) == [i \in 1..n |-> Reading(lastTs[cur.symbol] + i)]

(* Mutant: an empty answer of the exchange is not expected. *)
FetchReturnsEmpty ==
    /\ pc = "fetching"
    /\ Fault("rest")
    /\ queue' = <<>>
    /\ pc' = "healing"
    /\ UNCHANGED <<exchangeVars, topic, cur, lastTs, reconnected, historyVars>>

(* fetch_range returns; a lagging exchange leaves out the latest minutes. *)
FetchReturns ==
    /\ pc = "fetching"
    /\ LET missing == cur.ts - lastTs[cur.symbol] - 1 IN
          \E n \in 0..missing :
             /\ IF n = missing THEN UNCHANGED faults ELSE Fault("rest")
             /\ excused' = [excused EXCEPT ![cur.symbol] =
                               @ \cup (lastTs[cur.symbol] + n + 1 .. cur.ts - 1)]
             /\ IF n = 0
                THEN HealDone
                ELSE /\ queue' = Fetched(n)
                     /\ pc' = "healing"
                     /\ UNCHANGED reconnected
    /\ UNCHANGED <<exchangeVars, topic, cur, lastTs, firstTs>>

(* fetch_range raises; _heal_gap logs it and goes on. *)
FetchFails ==
    /\ pc = "fetching"
    /\ Fault("rest")
    /\ HealDone
    /\ excused' = [excused EXCEPT ![cur.symbol] = @ \cup Missing(cur.symbol, cur.ts)]
    /\ UNCHANGED <<exchangeVars, topic, cur, lastTs, firstTs>>

-----------------------------------------------------------------------------
(* Publishing. *)

(* The candle send_and_wait has been called with. *)
Sent == IF pc = "healing" THEN Head(queue) ELSE [ts |-> cur.ts, final |-> cur.final]

(* What follows _publish, whatever came of it. *)
AfterPublish ==
    \/ /\ pc = "healing"
       /\ Len(queue) > 1
       /\ queue' = Tail(queue)
       /\ UNCHANGED <<pc, cur, reconnected>>
    \/ /\ pc = "healing"
       /\ Len(queue) = 1
       /\ HealDone
       /\ UNCHANGED cur
    \/ /\ pc = "publishing"
       /\ pc' = "receiving"
       /\ cur' = Idle
       /\ UNCHANGED <<queue, reconnected>>

(* The broker acknowledges.  The producer retries on its own, so a lost
   acknowledgement may have left a second copy. *)
PublishAcked ==
    /\ pc \in {"healing", "publishing"}
    /\ LET s == cur.symbol IN
          /\ \/ topic' = [topic EXCEPT ![s] = Append(@, Sent)] /\ UNCHANGED faults
             \/ topic' = [topic EXCEPT ![s] = @ \o <<Sent, Sent>>] /\ Fault("publish")
          /\ lastTs' = [lastTs EXCEPT ![s] =
                           IF @ = None \/ @ < Sent.ts THEN Sent.ts ELSE @]
          /\ firstTs' = [firstTs EXCEPT ![s] = IF @ = None THEN Sent.ts ELSE @]
    /\ AfterPublish
    /\ UNCHANGED <<exchangeVars, excused>>

(* send_and_wait raises, with or without the message in the topic; _publish
   logs it and goes on. *)
PublishFails ==
    /\ pc \in {"healing", "publishing"}
    /\ Fault("publish")
    /\ \/ UNCHANGED topic
       \/ topic' = [topic EXCEPT ![cur.symbol] = Append(@, Sent)]
    /\ excused' = [excused EXCEPT ![cur.symbol] = @ \cup {Sent.ts}]
    /\ AfterPublish
    /\ UNCHANGED <<exchangeVars, lastTs, firstTs>>

(* SIGTERM, a kill, or an exception run() does not catch.  A message on its
   way may still arrive. *)
Crash ==
    /\ pc # "stopped"
    /\ Fault("crash")
    /\ \/ UNCHANGED topic
       \/ /\ pc \in {"healing", "publishing"}
          /\ topic' = [topic EXCEPT ![cur.symbol] = Append(@, Sent)]
    /\ pc' = "stopped"
    /\ conn' = "down"
    /\ inbox' = [s \in Symbols |-> <<>>]
    /\ cur' = Idle
    /\ queue' = <<>>
    /\ lastTs' = [s \in Symbols |-> None]
    /\ reconnected' = [s \in Symbols |-> FALSE]
    /\ firstTs' = [s \in Symbols |-> None]
    /\ excused' = [s \in Symbols |-> {}]
    /\ UNCHANGED now

Next ==
    \/ Tick
    \/ Update
    \/ Drop
    \/ Start
    \/ Connect
    \/ NoticeLoss
    \/ \E s \in Symbols : Receive(s)
    \/ FetchReturns
    \/ FetchFails
    \/ PublishAcked
    \/ PublishFails
    \/ Crash

Spec == Init /\ [][Next]_vars

(***************************************************************************)
(* The clock and the task go on (weak fairness); the container is started  *)
(* again after a crash; fetches and publishes return in the end, because   *)
(* both have timeouts.  Faults are bounded by MaxFaults and owed to no one.*)
(*                                                                         *)
(* CalmEnd is the price of a clock that stops: the last minute stands for  *)
(* the first one after all faults of the connection and the process, so it *)
(* ends with the connection up, and nothing is dropped or crashes after.   *)
(***************************************************************************)
CalmEnd ==
    /\ now' # now /\ now' = MaxTime => conn = "up"
    /\ now = MaxTime => \A k \in {"drop", "crash"} : faults'[k] = faults[k]

Fairness ==
    /\ WF_vars(Tick /\ CalmEnd)
    /\ WF_vars(Start)
    /\ WF_vars(Connect)
    /\ WF_vars(NoticeLoss)
    /\ \A s \in Symbols : SF_vars(Receive(s))
    /\ WF_vars(FetchReturns)
    /\ WF_vars(PublishAcked)

LiveSpec == Init /\ [][Next /\ CalmEnd]_vars /\ Fairness

-----------------------------------------------------------------------------
(* Properties *)

(* The minutes of s that are in the topic. *)
Published(s) == {topic[s][i].ts : i \in 1..Len(topic[s])}

TypeOK ==
    /\ now \in Minutes
    /\ conn \in {"down", "up", "lost", "stalled"}
    /\ inbox \in [Symbols -> Seq(Event)]
    /\ topic \in [Symbols -> Seq(Candle)]
    /\ pc \in {"stopped", "connecting", "receiving", "fetching", "healing", "publishing"}
    /\ cur \in [symbol : Symbols, ts : Minutes, final : BOOLEAN] \cup {Idle}
    /\ queue \in Seq(Candle)
    /\ lastTs \in [Symbols -> Minutes \cup {None}]
    /\ reconnected \in [Symbols -> BOOLEAN]
    /\ faults \in [FaultKinds -> Nat]
    /\ \A k \in FaultKinds : faults[k] <= MaxFaults[k]
    /\ firstTs \in [Symbols -> Minutes \cup {None}]
    /\ excused \in [Symbols -> SUBSET Minutes]
    /\ cur = Idle <=> pc \in {"stopped", "connecting", "receiving"}
    /\ queue = <<>> <=> pc # "healing"

(***************************************************************************)
(* Between the first and the last candle a process got acknowledged there  *)
(* is no minute missing, except those whose fetch failed or was short and  *)
(* those whose publish failed.  A lost or stalled connection alone, at any *)
(* point and any number of times, leaves no hole: _reconnected is set for  *)
(* all symbols on connect and cleared for each one only after its heal,    *)
(* and _last_ts is where the heal starts.                                  *)
(***************************************************************************)
NoUnexplainedGap ==
    \A s \in Symbols :
        firstTs[s] # None =>
            firstTs[s] .. lastTs[s] \subseteq Published(s) \cup excused[s]

(***************************************************************************)
(* The task implements the log of minutes: whatever the interleaving of    *)
(* clock, connection, heal, sends and faults, each message it puts into    *)
(* the topic is a minute that is over, comes after the last acknowledged   *)
(* one, and follows it without a hole nobody gave up.                      *)
(***************************************************************************)
MinuteLog == INSTANCE MinuteLog WITH
    clock  <- now,
    log    <- topic,
    first  <- firstTs,
    last   <- lastTs,
    gaveUp <- excused

LogSpec == MinuteLog!LogSpec

(* A minute that ends after the last acknowledged candle is published in the
   end, live or by a heal, if nobody gave it up and the process survives. *)
EventuallyPublished ==
    \A s \in Symbols, m \in Minutes :
        (lastTs[s] # None /\ lastTs[s] < m /\ m < now)
            ~> (m \in Published(s) \cup excused[s] \/ lastTs[s] = None)

(* The same without the excuse: minutes that are missing after a reconnect
   are fetched and published (README, ingester), so none is missing for good. *)
GapEventuallyHealed ==
    \A s \in Symbols, m \in Minutes :
        (lastTs[s] # None /\ lastTs[s] < m /\ m < now)
            ~> (m \in Published(s) \/ lastTs[s] = None)

=============================================================================
