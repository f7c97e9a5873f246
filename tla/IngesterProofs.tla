---------------------------- MODULE IngesterProofs ----------------------------
(***************************************************************************)
(* Theorems about the ingester: it implements the log of minutes, whatever *)
(* the number of symbols, minutes and faults, and therefore leaves no hole *)
(* in the topic that it did not give up.                                   *)
(***************************************************************************)
EXTENDS Ingester, SequenceTheorems, TLAPS

-----------------------------------------------------------------------------
(* What waits in an inbox: the minutes of its closed candles. *)

Closed(q) == {i \in 1..Len(q) : q[i].closed}
ClosedMinutes(q) == {q[i].ts : i \in Closed(q)}
Ascends(q) == \A i, j \in Closed(q) : i < j => q[i].ts < q[j].ts

Waiting(s) == ClosedMinutes(inbox[s])

(* The candles of s this connection still brings: those that wait and, while it
   is up, the one of the minute in progress. *)
Due(s) == Waiting(s) \cup (IF conn = "up" THEN {now} ELSE {})

(* Candles from b on: the first due one comes after b, and what lies between b
   and a due one waits before it or is in gone. *)
FollowFrom(b, due, waiting, gone) ==
    \A t \in due : b < t /\ \A m \in b + 1 .. t - 1 : m \in waiting \cup gone

-----------------------------------------------------------------------------
(* The invariant. *)

InHand == {"fetching", "healing", "publishing"}

(* A connection brings the candles of a symbol in order and without a hole. *)
Streams ==
    \A s \in Symbols :
        /\ Ascends(inbox[s])
        /\ \A t \in Waiting(s) : t < now
        /\ \A b \in Waiting(s) :
              FollowFrom(b, {t \in Due(s) : b < t}, Waiting(s), {})

Connected ==
    /\ conn = "down" <=> pc \in {"stopped", "connecting"}
    /\ conn = "down" => \A s \in Symbols : inbox[s] = <<>>

Known ==
    \A s \in Symbols :
        /\ firstTs[s] = None <=> lastTs[s] = None
        /\ lastTs[s] # None => lastTs[s] < now

(* _last_ts and the stream: once the flag is gone there is no hole between the
   two but what was given up. *)
FollowsLast(s) ==
    lastTs[s] # None =>
        /\ \A t \in Due(s) : lastTs[s] < t
        /\ ~ reconnected[s] => FollowFrom(lastTs[s], Due(s), Waiting(s), excused[s])

AtRest ==
    \A s \in Symbols :
        \/ pc \in {"stopped", "connecting"}
        \/ pc \in InHand /\ s = cur.symbol
        \/ FollowsLast(s)

(* The candle in hand is over, and the stream goes on after it. *)
CurInHand ==
    pc \in InHand =>
        /\ cur.final
        /\ cur.ts < now
        /\ FollowFrom(cur.ts, Due(cur.symbol), Waiting(cur.symbol), {})

(* t may be published next: from _last_ts up to it all is given up. *)
MayBeNext(s, t) ==
    lastTs[s] # None =>
        lastTs[s] < t /\ \A m \in lastTs[s] + 1 .. t - 1 : m \in excused[s]

FetchingAfterLast ==
    pc = "fetching" => lastTs[cur.symbol] # None /\ lastTs[cur.symbol] < cur.ts

(* The fetched candles are consecutive and over, the first one may be next, and
   what is left out between the last one and cur is given up. *)
Run(q) == \A i \in 1..Len(q) : q[i] = [ts |-> q[1].ts + (i - 1), final |-> TRUE]

HealingInOrder ==
    pc = "healing" =>
        /\ Run(queue)
        /\ MayBeNext(cur.symbol, queue[1].ts)
        /\ queue[1].ts + (Len(queue) - 1) < cur.ts
        /\ \A m \in queue[1].ts + Len(queue) .. cur.ts - 1 : m \in excused[cur.symbol]

PublishingNext ==
    pc = "publishing" => MayBeNext(cur.symbol, cur.ts)

IngesterInv ==
    /\ TypeOK
    /\ Streams
    /\ Connected
    /\ Known
    /\ AtRest
    /\ CurInHand
    /\ FetchingAfterLast
    /\ HealingInOrder
    /\ PublishingNext

-----------------------------------------------------------------------------
(* What waits when an event arrives, is read, or is lost. *)

LEMMA EventTypes ==
    /\ \A e \in Event : e.ts \in Minutes /\ e.ts \in Nat /\ e.closed \in BOOLEAN
    /\ \A q \in Seq(Event) : \A i \in 1..Len(q) : q[i] \in Event
<1>1. Minutes \subseteq Nat
  BY IngesterAssumption DEF Minutes
<1>2. \A e \in Event : e.ts \in Minutes /\ e.closed \in BOOLEAN
  BY DEF Event
<1>3. \A q \in Seq(Event) : \A i \in 1..Len(q) : q[i] \in Event
  OBVIOUS
<1> QED
  BY <1>1, <1>2, <1>3

LEMMA NothingWaits == ClosedMinutes(<<>>) = {} /\ Ascends(<<>>)
BY DEF ClosedMinutes, Closed, Ascends

LEMMA AppendOpen ==
    ASSUME NEW q \in Seq(Event), NEW e \in Event, ~ e.closed
    PROVE  /\ ClosedMinutes(Append(q, e)) = ClosedMinutes(q)
           /\ Ascends(q) => Ascends(Append(q, e))
<1> DEFINE p == Append(q, e)
<1>1. /\ Len(q) \in Nat
      /\ Len(p) = Len(q) + 1
      /\ \A i \in 1..Len(q) : p[i] = q[i]
      /\ p[Len(q) + 1] = e
  OBVIOUS
<1> HIDE DEF p
<1>2. Closed(p) = Closed(q)
  <2>1. \A i \in 1..Len(p) : i \in 1..Len(q) \/ i = Len(q) + 1
    BY <1>1
  <2>2. \A i \in 1..Len(q) : i \in 1..Len(p)
    BY <1>1
  <2> QED
    BY <1>1, <2>1, <2>2 DEF Closed
<1>3. \A i \in Closed(q) : p[i] = q[i]
  BY <1>1 DEF Closed
<1>4. ClosedMinutes(p) = ClosedMinutes(q)
  BY <1>2, <1>3 DEF ClosedMinutes
<1>5. Ascends(q) => Ascends(p)
  BY <1>2, <1>3 DEF Ascends
<1> QED
  BY <1>4, <1>5 DEF p

LEMMA AppendClosed ==
    ASSUME NEW q \in Seq(Event), NEW e \in Event, e.closed
    PROVE  /\ ClosedMinutes(Append(q, e)) = ClosedMinutes(q) \cup {e.ts}
           /\ Ascends(q) /\ (\A t \in ClosedMinutes(q) : t < e.ts) => Ascends(Append(q, e))
<1> DEFINE p == Append(q, e)
<1>1. /\ Len(q) \in Nat
      /\ Len(p) = Len(q) + 1
      /\ \A i \in 1..Len(q) : p[i] = q[i]
      /\ p[Len(q) + 1] = e
  OBVIOUS
<1> HIDE DEF p
<1>2. Closed(p) = Closed(q) \cup {Len(q) + 1}
  <2>1. \A i \in 1..Len(p) : i \in 1..Len(q) \/ i = Len(q) + 1
    BY <1>1
  <2>2. \A i \in 1..Len(q) : i \in 1..Len(p)
    BY <1>1
  <2>3. Len(q) + 1 \in 1..Len(p)
    BY <1>1
  <2> QED
    BY <1>1, <2>1, <2>2, <2>3 DEF Closed
<1>3. \A i \in Closed(q) : p[i] = q[i] /\ i \in Nat /\ i < Len(q) + 1
  BY <1>1 DEF Closed
<1>4. ClosedMinutes(p) = ClosedMinutes(q) \cup {e.ts}
  BY <1>1, <1>2, <1>3 DEF ClosedMinutes
<1>5. ASSUME Ascends(q), \A t \in ClosedMinutes(q) : t < e.ts
      PROVE  Ascends(p)
  <2> SUFFICES ASSUME NEW i \in Closed(p), NEW j \in Closed(p), i < j
               PROVE  p[i].ts < p[j].ts
    BY DEF Ascends
  <2>1. CASE j \in Closed(q)
    <3>1. i \in Closed(q)
      BY <1>1, <1>2, <1>3, <2>1
    <3> QED
      BY <1>3, <1>5, <2>1, <3>1 DEF Ascends
  <2>2. CASE j = Len(q) + 1
    <3>1. i \in Closed(q)
      BY <1>1, <1>2, <2>2
    <3>2. q[i].ts \in ClosedMinutes(q)
      BY <3>1 DEF ClosedMinutes
    <3> QED
      BY <1>1, <1>3, <1>5, <2>2, <3>1, <3>2
  <2> QED
    BY <1>2, <2>1, <2>2
<1> QED
  BY <1>4, <1>5 DEF p

LEMMA TailClosed ==
    ASSUME NEW q \in Seq(Event), q # <<>>, Ascends(q)
    PROVE  /\ Ascends(Tail(q))
           /\ ~ Head(q).closed => ClosedMinutes(Tail(q)) = ClosedMinutes(q)
           /\ Head(q).closed =>
                 /\ Head(q).ts \in ClosedMinutes(q)
                 /\ ClosedMinutes(Tail(q)) = ClosedMinutes(q) \ {Head(q).ts}
                 /\ \A t \in ClosedMinutes(Tail(q)) : Head(q).ts < t
<1> DEFINE p == Tail(q)
<1>1. /\ Len(q) \in Nat /\ Len(q) >= 1
      /\ Len(p) = Len(q) - 1
      /\ \A i \in 1..Len(p) : p[i] = q[i + 1]
      /\ Head(q) = q[1]
      /\ \A i \in 1..Len(q) : q[i].ts \in Nat
  <2>1. \A i \in 1..Len(q) : q[i].ts \in Nat
    BY EventTypes
  <2> QED
    BY <2>1
<1> HIDE DEF p
<1>2. \A i \in Closed(p) : i \in Nat /\ i + 1 \in Closed(q) /\ 1 < i + 1 /\ p[i] = q[i + 1]
  BY <1>1 DEF Closed
<1>3. \A j \in Closed(q) : j = 1 \/ (j \in Nat /\ j - 1 \in Closed(p) /\ p[j - 1] = q[j])
  <2> SUFFICES ASSUME NEW j \in Closed(q), j # 1
               PROVE  j \in Nat /\ j - 1 \in Closed(p) /\ p[j - 1] = q[j]
    OBVIOUS
  <2>1. j \in Nat /\ j - 1 \in 1..Len(p) /\ (j - 1) + 1 = j
    BY <1>1 DEF Closed
  <2>2. p[j - 1] = q[j]
    BY <1>1, <2>1
  <2> QED
    BY <2>1, <2>2 DEF Closed
<1>4. Ascends(p)
  <2> SUFFICES ASSUME NEW i \in Closed(p), NEW j \in Closed(p), i < j
               PROVE  p[i].ts < p[j].ts
    BY DEF Ascends
  <2>1. i + 1 < j + 1
    BY <1>2
  <2> QED
    BY <1>2, <2>1 DEF Ascends
<1>5. ClosedMinutes(p) \subseteq ClosedMinutes(q)
  BY <1>2 DEF ClosedMinutes
<1>6. ASSUME ~ q[1].closed
      PROVE  ClosedMinutes(q) \subseteq ClosedMinutes(p)
  BY <1>3, <1>6 DEF ClosedMinutes, Closed
<1>7. ASSUME q[1].closed
      PROVE  /\ q[1].ts \in ClosedMinutes(q)
             /\ ClosedMinutes(q) \ {q[1].ts} \subseteq ClosedMinutes(p)
             /\ \A t \in ClosedMinutes(p) : q[1].ts < t
  <2>1. 1 \in Closed(q)
    BY <1>1, <1>7 DEF Closed
  <2>2. \A i \in Closed(p) : q[1].ts < p[i].ts
    BY <1>2, <2>1 DEF Ascends
  <2> QED
    BY <1>3, <2>1, <2>2 DEF ClosedMinutes
<1>8. ASSUME q[1].closed
      PROVE  q[1].ts \notin ClosedMinutes(p)
  BY <1>1, <1>7, <1>8
<1> QED
  BY <1>1, <1>4, <1>5, <1>6, <1>7, <1>8 DEF p

LEMMA PrefixClosed ==
    ASSUME NEW q \in Seq(Event), NEW n \in Nat, n <= Len(q), Ascends(q)
    PROVE  LET p == SubSeq(q, 1, n)
           IN  /\ Ascends(p)
               /\ ClosedMinutes(p) \subseteq ClosedMinutes(q)
               /\ \A t \in ClosedMinutes(p), m \in ClosedMinutes(q) :
                     m < t => m \in ClosedMinutes(p)
<1> DEFINE p == SubSeq(q, 1, n)
<1>1. /\ Len(q) \in Nat
      /\ Len(p) = n
      /\ \A i \in 1..n : p[i] = q[i]
  OBVIOUS
<1>2. \A i \in 1..Len(q) : q[i].ts \in Nat
  BY EventTypes
<1> HIDE DEF p
<1>3. \A i \in Closed(p) : i \in Closed(q) /\ p[i] = q[i] /\ i \in Nat /\ i <= n
  BY <1>1 DEF Closed
<1>4. \A i \in Closed(q) : i \in Nat /\ (i <= n => i \in Closed(p) /\ p[i] = q[i])
  BY <1>1 DEF Closed
<1>5. Ascends(p)
  BY <1>3 DEF Ascends
<1>6. ClosedMinutes(p) \subseteq ClosedMinutes(q)
  BY <1>3 DEF ClosedMinutes
<1>7. ASSUME NEW i \in Closed(p), NEW j \in Closed(q), q[j].ts < p[i].ts
      PROVE  q[j].ts \in ClosedMinutes(p)
  <2>1. ~ (i < j)
    <3>1. i \in Closed(q) /\ p[i] = q[i] /\ i \in 1..Len(q) /\ j \in 1..Len(q)
      BY <1>3 DEF Closed
    <3> QED
      BY <1>2, <1>7, <3>1 DEF Ascends
  <2>2. j \in Closed(p) /\ p[j] = q[j]
    BY <1>3, <1>4, <2>1
  <2> QED
    BY <2>2 DEF ClosedMinutes
<1>8. \A t \in ClosedMinutes(p), m \in ClosedMinutes(q) : m < t => m \in ClosedMinutes(p)
  BY <1>7 DEF ClosedMinutes
<1> QED
  BY <1>5, <1>6, <1>8 DEF p

-----------------------------------------------------------------------------
(* Types. *)

LEMMA Numbers ==
    ASSUME TypeOK
    PROVE  /\ MaxTime \in Nat /\ Minutes \subseteq Nat /\ None \notin Minutes
           /\ now \in Nat /\ now \in Minutes
           /\ \A s \in Symbols : lastTs[s] # None => lastTs[s] \in Nat /\ lastTs[s] \in Minutes
           /\ \A s \in Symbols : firstTs[s] # None => firstTs[s] \in Nat
           /\ \A m \in Nat, n \in Minutes : m <= n => m \in Minutes
<1>1. MaxTime \in Nat /\ None \notin Nat
  BY IngesterAssumption
<1>2. Minutes \subseteq Nat /\ None \notin Minutes
  BY <1>1 DEF Minutes
<1>3. \A m \in Nat, n \in Minutes : m <= n => m \in Minutes
  BY <1>1 DEF Minutes
<1>4. now \in Minutes /\ lastTs \in [Symbols -> Minutes \cup {None}]
      /\ firstTs \in [Symbols -> Minutes \cup {None}]
  BY DEF TypeOK
<1> QED
  BY <1>1, <1>2, <1>3, <1>4

LEMMA CurTypes ==
    ASSUME TypeOK, pc \in InHand
    PROVE  /\ cur # Idle
           /\ cur \in [symbol : Symbols, ts : Minutes, final : BOOLEAN]
           /\ cur.symbol \in Symbols
           /\ cur.ts \in Minutes /\ cur.ts \in Nat
           /\ cur.final \in BOOLEAN
<1>1. cur # Idle
  BY DEF TypeOK, InHand
<1>2. cur \in [symbol : Symbols, ts : Minutes, final : BOOLEAN]
  BY <1>1 DEF TypeOK
<1> QED
  BY <1>1, <1>2, Numbers

LEMMA SentTypes ==
    ASSUME TypeOK, pc \in {"healing", "publishing"}
    PROVE  Sent \in Candle /\ Sent.ts \in Minutes
<1>1. Sent \in Candle
  <2>1. CASE pc = "healing"
    <3>1. queue \in Seq(Candle) /\ queue # <<>>
      BY <2>1 DEF TypeOK
    <3>2. Head(queue) \in Candle
      BY <3>1
    <3> QED
      BY <2>1, <3>2 DEF Sent
  <2>2. CASE pc = "publishing"
    BY <2>2, CurTypes DEF Sent, Candle, InHand
  <2> QED
    BY <2>1, <2>2
<1> QED
  BY <1>1 DEF Candle

FaultsOK == faults \in [FaultKinds -> Nat] /\ \A k \in FaultKinds : faults[k] <= MaxFaults[k]

LEMMA FaultCounted ==
    ASSUME FaultsOK, NEW kind \in FaultKinds, Fault(kind)
    PROVE  FaultsOK'
<1>1. \A k \in FaultKinds : MaxFaults[k] \in Nat /\ faults[k] \in Nat /\ faults[k] <= MaxFaults[k]
  BY IngesterAssumption DEF FaultsOK
<1>2. faults[kind] < MaxFaults[kind] /\ faults' = [faults EXCEPT ![kind] = faults[kind] + 1]
  BY DEF Fault
<1>3. faults' \in [FaultKinds -> Nat]
  BY <1>1, <1>2 DEF FaultsOK
<1>4. \A k \in FaultKinds : faults'[k] = IF k = kind THEN faults[kind] + 1 ELSE faults[k]
  BY <1>2 DEF FaultsOK
<1>5. \A k \in FaultKinds : faults'[k] <= MaxFaults[k]
  BY <1>1, <1>2, <1>4
<1> QED
  BY <1>3, <1>5 DEF FaultsOK

LEMMA StreamTypes ==
    ASSUME TypeOK, Tick \/ Update \/ Drop
    PROVE  TypeOK'
<1>1. FaultsOK /\ now \in Minutes /\ inbox \in [Symbols -> Seq(Event)]
  BY DEF TypeOK, FaultsOK
<1>2. CASE Tick
  <2>1. now' \in Minutes
    BY <1>1, <1>2, IngesterAssumption DEF Tick, Minutes
  <2>2. [ts |-> now, closed |-> TRUE] \in Event
    BY <1>1 DEF Event
  <2>3. inbox' \in [Symbols -> Seq(Event)]
    BY <1>1, <1>2, <2>2 DEF Tick
  <2> QED
    BY <1>2, <2>1, <2>3 DEF TypeOK, Tick, historyVars
<1>3. CASE Update
  <2>1. [ts |-> now, closed |-> FALSE] \in Event
    BY <1>1 DEF Event
  <2>2. inbox' \in [Symbols -> Seq(Event)]
    BY <1>1, <1>3, <2>1 DEF Update
  <2> QED
    BY <1>3, <2>2 DEF TypeOK, Update, historyVars
<1>4. CASE Drop
  <2>1. FaultsOK'
    BY <1>1, <1>4, FaultCounted DEF Drop, FaultKinds
  <2>2. inbox' \in [Symbols -> Seq(Event)]
    <3>1. PICK n \in [Symbols -> 0..MaxTime + 1] :
              /\ \A s \in Symbols : n[s] <= Len(inbox[s])
              /\ inbox' = [s \in Symbols |-> SubSeq(inbox[s], 1, n[s])]
      BY <1>4 DEF Drop
    <3>2. \A s \in Symbols : n[s] \in Nat
      BY IngesterAssumption
    <3>3. \A s \in Symbols : SubSeq(inbox[s], 1, n[s]) \in Seq(Event)
      BY <1>1, <3>1, <3>2, SubSeqProperties
    <3> QED
      BY <3>1, <3>3
  <2> QED
    BY <1>4, <2>1, <2>2 DEF TypeOK, Drop, historyVars, FaultsOK
<1> QED
  BY <1>2, <1>3, <1>4

LEMMA ConnectionTypes ==
    ASSUME TypeOK, Start \/ Connect \/ NoticeLoss
    PROVE  TypeOK'
<1>1. CASE Start
  BY <1>1 DEF TypeOK, Start, exchangeVars, historyVars
<1>2. CASE Connect
  <2>1. inbox' \in [Symbols -> Seq(Event)]
    <3>1. <<>> \in Seq(Event)
      OBVIOUS
    <3> QED
      BY <1>2, <3>1 DEF Connect
  <2> QED
    BY <1>2, <2>1 DEF TypeOK, Connect, historyVars
<1>3. CASE NoticeLoss
  BY <1>3 DEF TypeOK, NoticeLoss, historyVars
<1> QED
  BY <1>1, <1>2, <1>3

LEMMA ReceiveTypes ==
    ASSUME TypeOK, NEW s \in Symbols, Receive(s)
    PROVE  TypeOK'
<1> DEFINE e == Head(inbox[s])
<1>1. inbox \in [Symbols -> Seq(Event)] /\ inbox[s] \in Seq(Event) /\ inbox[s] # <<>>
  BY DEF TypeOK, Receive
<1>2. inbox' \in [Symbols -> Seq(Event)]
  BY <1>1 DEF Receive
<1>3. e \in Event
  BY <1>1
<1>4. e.ts \in Minutes /\ e.closed \in BOOLEAN
  BY <1>3, EventTypes
<1> HIDE DEF e
<1>5. \/ UNCHANGED <<pc, cur, reconnected>>
      \/ /\ cur' = [symbol |-> s, ts |-> e.ts, final |-> e.closed]
         /\ pc' \in {"fetching", "publishing"}
         /\ reconnected' = reconnected \/ reconnected' = [reconnected EXCEPT ![s] = FALSE]
  BY DEF Receive, e
<1>6. CASE UNCHANGED <<pc, cur, reconnected>>
  BY <1>2, <1>6 DEF TypeOK, Receive, historyVars
<1>7. CASE /\ cur' = [symbol |-> s, ts |-> e.ts, final |-> e.closed]
           /\ pc' \in {"fetching", "publishing"}
           /\ reconnected' = reconnected \/ reconnected' = [reconnected EXCEPT ![s] = FALSE]
  <2>1. cur' \in [symbol : Symbols, ts : Minutes, final : BOOLEAN]
    BY <1>4, <1>7
  <2>2. cur' # Idle
    <3>1. Idle.ts = None /\ None \notin Minutes
      BY Numbers DEF Idle
    <3> QED
      BY <2>1, <3>1
  <2>3. reconnected' \in [Symbols -> BOOLEAN]
    BY <1>7 DEF TypeOK
  <2>4. queue = <<>>
    BY DEF TypeOK, Receive
  <2> QED
    BY <1>2, <1>7, <2>1, <2>2, <2>3, <2>4 DEF TypeOK, Receive, historyVars
<1> QED
  BY <1>5, <1>6, <1>7

(* The heal is over: types of what HealDone sets. *)
LEMMA HealDoneTypes ==
    ASSUME TypeOK, pc \in InHand, HealDone, UNCHANGED cur
    PROVE  /\ queue' = <<>> /\ queue' \in Seq(Candle)
           /\ reconnected' \in [Symbols -> BOOLEAN]
           /\ pc' = "publishing"
           /\ cur' # Idle
           /\ cur' \in [symbol : Symbols, ts : Minutes, final : BOOLEAN] \cup {Idle}
<1>1. reconnected' \in [Symbols -> BOOLEAN] /\ queue' = <<>> /\ pc' = "publishing"
  BY DEF HealDone, TypeOK
<1>2. <<>> \in Seq(Candle)
  OBVIOUS
<1> QED
  BY <1>1, <1>2, CurTypes

LEMMA FetchedTypes ==
    ASSUME TypeOK, FetchingAfterLast, pc = "fetching",
           NEW n \in 0 .. cur.ts - lastTs[cur.symbol] - 1
    PROVE  /\ n \in Nat
           /\ Len(Fetched(n)) = n
           /\ \A i \in 1..n : /\ lastTs[cur.symbol] + i \in Minutes
                              /\ lastTs[cur.symbol] + i < cur.ts
                              /\ Fetched(n)[i] = Reading(lastTs[cur.symbol] + i)
           /\ Fetched(n) \in Seq(Candle)
           /\ n > 0 => Fetched(n) # <<>>
<1> DEFINE last == lastTs[cur.symbol]
<1>1. last \in Nat /\ cur.ts \in Minutes /\ cur.ts \in Nat /\ last < cur.ts
  BY CurTypes, Numbers DEF FetchingAfterLast, InHand
<1> HIDE DEF last
<1>2. n \in Nat /\ last + n < cur.ts
  BY <1>1 DEF last
<1>3. \A i \in 1..n : last + i \in Minutes /\ last + i < cur.ts
  <2> SUFFICES ASSUME NEW i \in 1..n
               PROVE  last + i \in Minutes /\ last + i < cur.ts
    OBVIOUS
  <2>1. last + i \in Nat /\ last + i < cur.ts
    BY <1>1, <1>2
  <2> QED
    BY <1>1, <2>1, Numbers
<1>4. \A t \in Minutes : Reading(t) \in Candle
  <2>1. \A t \in Minutes : (t < now) \in BOOLEAN
    OBVIOUS
  <2> QED
    BY <2>1, Zenon DEF Reading, Candle
<1>5. Fetched(n) = [i \in 1..n |-> Reading(last + i)]
  BY DEF Fetched, last
<1>6. Fetched(n) \in [1..n -> Candle]
  BY <1>3, <1>4, <1>5
<1>7. Fetched(n) \in Seq(Candle) /\ Len(Fetched(n)) = n
  BY <1>2, <1>6
<1>8. n > 0 => Fetched(n) # <<>>
  BY <1>7
<1> QED
  BY <1>2, <1>3, <1>5, <1>7, <1>8 DEF last

(* What a heal that is short or fails gives up. *)
LEMMA GivenUpTypes ==
    ASSUME TypeOK, NEW s \in Symbols, NEW minutes, minutes \subseteq Minutes,
           excused' = [excused EXCEPT ![s] = @ \cup minutes]
    PROVE  excused' \in [Symbols -> SUBSET Minutes]
BY DEF TypeOK

LEMMA LeftOutTypes ==
    ASSUME TypeOK, FetchingAfterLast, pc = "fetching", NEW n \in Nat
    PROVE  lastTs[cur.symbol] + n + 1 .. cur.ts - 1 \subseteq Minutes
<1>1. lastTs[cur.symbol] \in Nat /\ cur.ts \in Minutes /\ cur.ts \in Nat
  BY CurTypes, Numbers DEF FetchingAfterLast, InHand
<1>2. \A m \in lastTs[cur.symbol] + n + 1 .. cur.ts - 1 : m \in Nat /\ m <= cur.ts
  BY <1>1
<1> QED
  BY <1>1, <1>2, Numbers

LEMMA FetchTypes ==
    ASSUME TypeOK, FetchingAfterLast, FetchReturns \/ FetchFails
    PROVE  TypeOK'
<1> DEFINE last == lastTs[cur.symbol]
<1>1. /\ pc = "fetching" /\ pc \in InHand
      /\ UNCHANGED <<exchangeVars, topic, cur, lastTs, firstTs>>
      /\ cur.symbol \in Symbols /\ cur.ts \in Nat /\ last \in Nat
      /\ FaultsOK
  <2>1. pc = "fetching" /\ pc \in InHand
    BY DEF FetchReturns, FetchFails, InHand
  <2>2. last \in Nat /\ cur.symbol \in Symbols /\ cur.ts \in Nat
    BY <2>1, CurTypes, Numbers DEF FetchingAfterLast
  <2> QED
    BY <2>1, <2>2 DEF FetchReturns, FetchFails, TypeOK, FaultsOK
<1>2. CASE FetchReturns
  <2>1. PICK n \in 0 .. cur.ts - last - 1 :
             /\ IF n = cur.ts - last - 1 THEN UNCHANGED faults ELSE Fault("rest")
             /\ excused' = [excused EXCEPT ![cur.symbol] = @ \cup (last + n + 1 .. cur.ts - 1)]
             /\ IF n = 0 THEN HealDone
                         ELSE queue' = Fetched(n) /\ pc' = "healing" /\ UNCHANGED reconnected
    BY <1>2 DEF FetchReturns
  <2>2. FaultsOK'
    <3>1. CASE UNCHANGED faults
      BY <1>1, <3>1 DEF FaultsOK
    <3>2. CASE Fault("rest")
      BY <1>1, <3>2, FaultCounted DEF FaultKinds
    <3> QED
      BY <2>1, <3>1, <3>2
  <2>3. excused' \in [Symbols -> SUBSET Minutes]
    <3>1. n \in Nat
      BY <1>1, <2>1
    <3>2. last + n + 1 .. cur.ts - 1 \subseteq Minutes
      BY <1>1, <3>1, LeftOutTypes
    <3> HIDE DEF last
    <3> QED
      BY <1>1, <2>1, <3>2, GivenUpTypes
  <2>4. CASE n = 0
    <3>1. HealDone
      BY <2>1, <2>4
    <3> QED
      BY <1>1, <2>2, <2>3, <3>1, HealDoneTypes DEF TypeOK, FaultsOK, exchangeVars
  <2>5. CASE n > 0
    <3>1. queue' = Fetched(n) /\ pc' = "healing" /\ UNCHANGED reconnected
      BY <2>1, <2>5
    <3>2. queue' \in Seq(Candle) /\ queue' # <<>>
      BY <1>1, <2>5, <3>1, FetchedTypes
    <3>3. cur # Idle
      BY <1>1, CurTypes
    <3> QED
      BY <1>1, <2>2, <2>3, <3>1, <3>2, <3>3 DEF TypeOK, FaultsOK, exchangeVars
  <2> QED
    BY <2>4, <2>5
<1>3. CASE FetchFails
  <2>1. HealDone /\ Fault("rest")
        /\ excused' = [excused EXCEPT ![cur.symbol] = @ \cup Missing(cur.symbol, cur.ts)]
    BY <1>3 DEF FetchFails
  <2>2. Missing(cur.symbol, cur.ts) \subseteq Minutes
    <3>1. Missing(cur.symbol, cur.ts) = last + 0 + 1 .. cur.ts - 1
      BY <1>1 DEF Missing, FetchingAfterLast
    <3> QED
      BY <1>1, <3>1, LeftOutTypes
  <2>3. FaultsOK'
    BY <1>1, <2>1, FaultCounted DEF FaultKinds
  <2>4. excused' \in [Symbols -> SUBSET Minutes]
    BY <1>1, <2>1, <2>2, GivenUpTypes
  <2> QED
    BY <1>1, <2>1, <2>3, <2>4, HealDoneTypes DEF TypeOK, FaultsOK, exchangeVars
<1> QED
  BY <1>2, <1>3

(* Types of what AfterPublish sets. *)
LEMMA AfterPublishTypes ==
    ASSUME TypeOK, pc \in {"healing", "publishing"}, AfterPublish
    PROVE  /\ queue' \in Seq(Candle)
           /\ reconnected' \in [Symbols -> BOOLEAN]
           /\ pc' \in {"receiving", "healing", "publishing"}
           /\ cur' \in [symbol : Symbols, ts : Minutes, final : BOOLEAN] \cup {Idle}
           /\ cur' = Idle <=> pc' = "receiving"
           /\ queue' = <<>> <=> pc' # "healing"
<1>1. cur # Idle /\ pc \in InHand
  BY CurTypes DEF InHand
<1>2. queue \in Seq(Candle) /\ (queue = <<>> <=> pc # "healing")
      /\ reconnected \in [Symbols -> BOOLEAN]
      /\ cur \in [symbol : Symbols, ts : Minutes, final : BOOLEAN] \cup {Idle}
  BY DEF TypeOK
<1>3. CASE pc = "healing" /\ Len(queue) > 1 /\ queue' = Tail(queue)
           /\ UNCHANGED <<pc, cur, reconnected>>
  <2>1. Tail(queue) \in Seq(Candle)
    BY <1>2, <1>3
  <2>2. Len(Tail(queue)) = Len(queue) - 1 /\ Len(queue) \in Nat
    BY <1>2, <1>3
  <2>3. Tail(queue) # <<>>
    <3>1. Len(Tail(queue)) # 0
      BY <1>3, <2>2
    <3>2. Len(<<>>) = 0
      OBVIOUS
    <3> QED
      BY <3>1, <3>2, Zenon
  <2> QED
    BY <1>1, <1>2, <1>3, <2>1, <2>3
<1>4. CASE pc = "healing" /\ Len(queue) = 1 /\ HealDone /\ UNCHANGED cur
  BY <1>1, <1>4, HealDoneTypes
<1>5. CASE pc = "publishing" /\ pc' = "receiving" /\ cur' = Idle
           /\ UNCHANGED <<queue, reconnected>>
  BY <1>2, <1>5
<1> QED
  BY <1>3, <1>4, <1>5 DEF AfterPublish

LEMMA PublishTypes ==
    ASSUME TypeOK, PublishAcked \/ PublishFails
    PROVE  TypeOK'
<1> DEFINE s == cur.symbol
<1>1. /\ pc \in {"healing", "publishing"} /\ pc \in InHand
      /\ AfterPublish
      /\ UNCHANGED exchangeVars
      /\ FaultsOK
      /\ s \in Symbols
  <2>1. pc \in {"healing", "publishing"} /\ pc \in InHand
    BY DEF PublishAcked, PublishFails, InHand
  <2> QED
    BY <2>1, CurTypes DEF PublishAcked, PublishFails, TypeOK, FaultsOK
<1>2. Sent \in Candle /\ Sent.ts \in Minutes
  BY <1>1, SentTypes
<1>3. \A q \in Seq(Candle) : Append(q, Sent) \in Seq(Candle) /\ q \o <<Sent, Sent>> \in Seq(Candle)
  BY <1>2
<1>4. topic \in [Symbols -> Seq(Candle)] /\ lastTs \in [Symbols -> Minutes \cup {None}]
      /\ firstTs \in [Symbols -> Minutes \cup {None}] /\ excused \in [Symbols -> SUBSET Minutes]
  BY DEF TypeOK
<1>5. FaultsOK'
  <2>1. UNCHANGED faults \/ Fault("publish")
    BY DEF PublishAcked, PublishFails
  <2>2. CASE UNCHANGED faults
    BY <1>1, <2>2 DEF FaultsOK
  <2>3. CASE Fault("publish")
    BY <1>1, <2>3, FaultCounted DEF FaultKinds
  <2> QED
    BY <2>1, <2>2, <2>3
<1>6. topic' \in [Symbols -> Seq(Candle)]
  <2>1. \/ UNCHANGED topic
        \/ topic' = [topic EXCEPT ![s] = Append(@, Sent)]
        \/ topic' = [topic EXCEPT ![s] = @ \o <<Sent, Sent>>]
    BY DEF PublishAcked, PublishFails
  <2>2. Append(topic[s], Sent) \in Seq(Candle) /\ topic[s] \o <<Sent, Sent>> \in Seq(Candle)
    BY <1>1, <1>3, <1>4
  <2> HIDE DEF s
  <2> QED
    BY <1>1, <1>4, <2>1, <2>2
<1>7. /\ lastTs' \in [Symbols -> Minutes \cup {None}]
      /\ firstTs' \in [Symbols -> Minutes \cup {None}]
      /\ excused' \in [Symbols -> SUBSET Minutes]
  <2>1. CASE PublishAcked
    BY <1>1, <1>2, <1>4, <2>1 DEF PublishAcked
  <2>2. CASE PublishFails
    BY <1>1, <1>2, <1>4, <2>2 DEF PublishFails
  <2> QED
    BY <2>1, <2>2
<1> HIDE DEF s
<1>8. /\ queue' \in Seq(Candle)
      /\ reconnected' \in [Symbols -> BOOLEAN]
      /\ pc' \in {"receiving", "healing", "publishing"}
      /\ cur' \in [symbol : Symbols, ts : Minutes, final : BOOLEAN] \cup {Idle}
      /\ cur' = Idle <=> pc' = "receiving"
      /\ queue' = <<>> <=> pc' # "healing"
  BY <1>1, AfterPublishTypes
<1> QED
  BY <1>1, <1>5, <1>6, <1>7, <1>8 DEF TypeOK, FaultsOK, exchangeVars

LEMMA CrashTypes ==
    ASSUME TypeOK, Crash
    PROVE  TypeOK'
<1>1. topic' \in [Symbols -> Seq(Candle)]
  <2>1. CASE UNCHANGED topic
    BY <2>1 DEF TypeOK
  <2>2. CASE /\ pc \in {"healing", "publishing"}
             /\ topic' = [topic EXCEPT ![cur.symbol] = Append(@, Sent)]
    <3>1. Sent \in Candle /\ topic \in [Symbols -> Seq(Candle)]
      BY <2>2, SentTypes DEF TypeOK
    <3>2. cur.symbol \in Symbols
      BY <2>2, CurTypes DEF InHand
    <3>3. Append(topic[cur.symbol], Sent) \in Seq(Candle)
      BY <3>1, <3>2
    <3> QED
      BY <2>2, <3>1, <3>2, <3>3
  <2> QED
    BY <2>1, <2>2 DEF Crash
<1>2. FaultsOK'
  BY FaultCounted DEF TypeOK, FaultsOK, Crash, FaultKinds
<1>3. <<>> \in Seq(Event) /\ <<>> \in Seq(Candle)
  OBVIOUS
<1>4. inbox' \in [Symbols -> Seq(Event)] /\ queue' \in Seq(Candle)
  BY <1>3 DEF Crash
<1> QED
  BY <1>1, <1>2, <1>4 DEF TypeOK, FaultsOK, Crash

LEMMA TypesKept == IngesterInv /\ [Next]_vars => TypeOK'
<1> SUFFICES ASSUME IngesterInv, [Next]_vars
             PROVE  TypeOK'
  OBVIOUS
<1>1. TypeOK /\ FetchingAfterLast
  BY DEF IngesterInv
<1>2. CASE UNCHANGED vars
  BY <1>1, <1>2 DEF TypeOK, vars
<1>3. CASE Next
  BY <1>1, <1>3, StreamTypes, ConnectionTypes, ReceiveTypes, FetchTypes, PublishTypes, CrashTypes
     DEF Next
<1> QED
  BY <1>2, <1>3

-----------------------------------------------------------------------------
(* Streams of minutes without holes. *)

LEMMA MinuteDue ==
    ASSUME NEW b \in Nat, NEW n \in Nat, NEW due, NEW waiting, NEW gone,
           due \subseteq Nat, n \in due,
           FollowFrom(b, due, waiting, gone)
    PROVE  FollowFrom(b, due \cup {n + 1}, waiting \cup {n}, gone)
<1> SUFFICES ASSUME NEW t \in due \cup {n + 1}
             PROVE  b < t /\ \A m \in b + 1 .. t - 1 : m \in (waiting \cup {n}) \cup gone
  BY DEF FollowFrom
<1>1. CASE t \in due
  BY <1>1 DEF FollowFrom
<1>2. CASE t = n + 1
  <2>1. b < n /\ \A m \in b + 1 .. n - 1 : m \in waiting \cup gone
    BY DEF FollowFrom
  <2>2. \A m \in b + 1 .. n : m = n \/ m \in b + 1 .. n - 1
    OBVIOUS
  <2> QED
    BY <1>2, <2>1, <2>2
<1> QED
  BY <1>1, <1>2

LEMMA FollowPrefix ==
    ASSUME NEW b \in Nat, NEW due, NEW waiting, NEW gone, NEW kept, NEW left,
           FollowFrom(b, due, waiting, gone),
           due \subseteq Nat, kept \subseteq due, kept \subseteq left,
           \A t \in left, m \in waiting : m < t => m \in left
    PROVE  FollowFrom(b, kept, left, gone)
<1> SUFFICES ASSUME NEW t \in kept
             PROVE  b < t /\ \A m \in b + 1 .. t - 1 : m \in left \cup gone
  BY DEF FollowFrom
<1>1. t \in due /\ t \in left /\ t \in Nat
  OBVIOUS
<1>2. b < t /\ \A m \in b + 1 .. t - 1 : m \in waiting \cup gone
  BY <1>1 DEF FollowFrom
<1>3. \A m \in b + 1 .. t - 1 : m < t
  BY <1>1
<1> QED
  BY <1>1, <1>2, <1>3

LEMMA WaitingTypes ==
    ASSUME TypeOK, NEW s \in Symbols
    PROVE  /\ inbox[s] \in Seq(Event)
           /\ Waiting(s) \subseteq Nat
           /\ Due(s) \subseteq Nat
           /\ Waiting(s) \subseteq Due(s)
<1>1. inbox[s] \in Seq(Event)
  BY DEF TypeOK
<1>2. \A i \in Closed(inbox[s]) : inbox[s][i].ts \in Nat
  BY <1>1, EventTypes DEF Closed
<1>3. Waiting(s) \subseteq Nat
  BY <1>2 DEF Waiting, ClosedMinutes
<1> QED
  BY <1>1, <1>3, Numbers DEF Due

(* What a step of the exchange keeps: what the stream follows, it goes on
   following. *)
GoesOn(s) ==
    /\ \A b \in Nat : (\A t \in Due(s) : b < t) => (\A t \in Due(s)' : b < t)
    /\ \A b \in Nat, gone \in SUBSET Nat :
          FollowFrom(b, Due(s), Waiting(s), gone) => FollowFrom(b, Due(s)', Waiting(s)', gone)

LEMMA TickStreams ==
    ASSUME TypeOK, Streams, Tick, NEW s \in Symbols
    PROVE  /\ Ascends(inbox[s])'
           /\ \A t \in Waiting(s)' : t < now'
           /\ \A b \in Waiting(s)' :
                 FollowFrom(b, {t \in Due(s)' : b < t}, Waiting(s)', {})
           /\ GoesOn(s)
<1>1. /\ now' = now + 1 /\ conn' = conn /\ now \in Nat /\ now \in Minutes
      /\ inbox[s] \in Seq(Event)
      /\ Waiting(s) \subseteq Nat /\ Due(s) \subseteq Nat /\ Waiting(s) \subseteq Due(s)
      /\ Ascends(inbox[s])
      /\ \A t \in Waiting(s) : t < now
      /\ \A b \in Waiting(s) : FollowFrom(b, {t \in Due(s) : b < t}, Waiting(s), {})
  BY Numbers, WaitingTypes DEF Tick, Streams
<1>2. CASE conn # "up"
  <2>1. inbox' = inbox
    BY <1>2 DEF Tick
  <2>2. Waiting(s)' = Waiting(s) /\ Due(s)' = Due(s)
    BY <1>1, <1>2, <2>1 DEF Waiting, Due
  <2>3. \A t \in Waiting(s) : t < now'
    BY <1>1
  <2> QED
    BY <1>1, <2>1, <2>2, <2>3 DEF GoesOn
<1>3. CASE conn = "up"
  <2> DEFINE e == [ts |-> now, closed |-> TRUE]
  <2>1. e \in Event /\ e.closed /\ e.ts = now
    BY <1>1 DEF Event
  <2> HIDE DEF e
  <2>2. inbox'[s] = Append(inbox[s], e)
    BY <1>3 DEF Tick, e
  <2>3. Waiting(s)' = Waiting(s) \cup {now} /\ Ascends(inbox[s])'
    BY <1>1, <2>1, <2>2, AppendClosed DEF Waiting
  <2>4. Due(s) = Waiting(s) \cup {now} /\ Due(s)' = Due(s) \cup {now + 1}
    BY <1>1, <1>3, <2>3 DEF Due
  <2>5. \A t \in Waiting(s)' : t < now'
    BY <1>1, <2>3
  <2>6. ASSUME NEW b \in Waiting(s)'
        PROVE  FollowFrom(b, {t \in Due(s)' : b < t}, Waiting(s)', {})
    <3>1. CASE b \in Waiting(s)
      <4> DEFINE due == {t \in Due(s) : b < t}
      <4>1. b \in Nat /\ b < now /\ now \in due /\ due \subseteq Nat
        BY <1>1, <2>4, <3>1
      <4>2. {t \in Due(s)' : b < t} = due \cup {now + 1}
        BY <2>4, <4>1
      <4>3. FollowFrom(b, due, Waiting(s), {})
        BY <1>1, <3>1
      <4> HIDE DEF due
      <4>4. FollowFrom(b, due \cup {now + 1}, Waiting(s) \cup {now}, {})
        BY <1>1, <4>1, <4>3, MinuteDue
      <4> QED
        BY <2>3, <4>2, <4>4, Zenon
    <3>2. CASE b = now
      <4>1. {t \in Due(s)' : b < t} = {now + 1}
        BY <1>1, <2>4, <3>2
      <4>2. FollowFrom(now, {now + 1}, Waiting(s)', {})
        BY <1>1 DEF FollowFrom
      <4> QED
        BY <3>2, <4>1, <4>2
    <3> QED
      BY <2>3, <3>1, <3>2
  <2>7. GoesOn(s)
    <3>1. \A b \in Nat : (\A t \in Due(s) : b < t) => (\A t \in Due(s)' : b < t)
      BY <1>1, <2>4
    <3>2. ASSUME NEW b \in Nat, NEW gone \in SUBSET Nat,
                 FollowFrom(b, Due(s), Waiting(s), gone)
          PROVE  FollowFrom(b, Due(s)', Waiting(s)', gone)
      BY <1>1, <2>3, <2>4, <3>2, MinuteDue
    <3> QED
      BY <3>1, <3>2 DEF GoesOn
  <2> QED
    BY <2>3, <2>5, <2>6, <2>7
<1> QED
  BY <1>2, <1>3

LEMMA UpdateStreams ==
    ASSUME TypeOK, Streams, Update, NEW s \in Symbols
    PROVE  /\ Ascends(inbox[s])'
           /\ \A t \in Waiting(s)' : t < now'
           /\ \A b \in Waiting(s)' :
                 FollowFrom(b, {t \in Due(s)' : b < t}, Waiting(s)', {})
           /\ GoesOn(s)
<1> DEFINE e == [ts |-> now, closed |-> FALSE]
<1>1. e \in Event /\ ~ e.closed
  BY Numbers DEF Event
<1> HIDE DEF e
<1>2. inbox \in [Symbols -> Seq(Event)]
  BY DEF TypeOK
<1>3. PICK u \in Symbols : inbox' = [inbox EXCEPT ![u] = Append(@, e)]
  BY DEF Update, e
<1>4. inbox'[s] = inbox[s] \/ inbox'[s] = Append(inbox[s], e)
  BY <1>2, <1>3
<1>5. Waiting(s)' = Waiting(s) /\ Ascends(inbox[s])'
  BY <1>1, <1>2, <1>4, AppendOpen DEF Waiting, Streams
<1>6. Due(s)' = Due(s) /\ now' = now
  BY <1>5 DEF Due, Update
<1> QED
  BY <1>5, <1>6 DEF Streams, GoesOn

LEMMA DropStreams ==
    ASSUME TypeOK, Streams, Drop, NEW s \in Symbols
    PROVE  /\ Ascends(inbox[s])'
           /\ \A t \in Waiting(s)' : t < now'
           /\ \A b \in Waiting(s)' :
                 FollowFrom(b, {t \in Due(s)' : b < t}, Waiting(s)', {})
           /\ GoesOn(s)
<1>1. /\ now' = now /\ conn' # "up"
      /\ inbox[s] \in Seq(Event)
      /\ Waiting(s) \subseteq Nat /\ Due(s) \subseteq Nat /\ Waiting(s) \subseteq Due(s)
      /\ Ascends(inbox[s])
      /\ \A t \in Waiting(s) : t < now
      /\ \A b \in Waiting(s) : FollowFrom(b, {t \in Due(s) : b < t}, Waiting(s), {})
  BY WaitingTypes DEF Drop, Streams
<1>2. PICK n \in [Symbols -> 0..MaxTime + 1] :
          /\ \A u \in Symbols : n[u] <= Len(inbox[u])
          /\ inbox' = [u \in Symbols |-> SubSeq(inbox[u], 1, n[u])]
  BY DEF Drop
<1>3. n[s] \in Nat /\ n[s] <= Len(inbox[s]) /\ inbox'[s] = SubSeq(inbox[s], 1, n[s])
  BY <1>2, IngesterAssumption
<1>4. /\ Ascends(inbox[s])'
      /\ Waiting(s)' \subseteq Waiting(s)
      /\ \A t \in Waiting(s)', m \in Waiting(s) : m < t => m \in Waiting(s)'
  BY <1>1, <1>3, PrefixClosed DEF Waiting
<1>5. Due(s)' = Waiting(s)'
  BY <1>1 DEF Due
<1>6. ASSUME NEW b \in Waiting(s)'
      PROVE  FollowFrom(b, {t \in Due(s)' : b < t}, Waiting(s)', {})
  <2> DEFINE due == {t \in Due(s) : b < t}
  <2> DEFINE kept == {t \in Due(s)' : b < t}
  <2>1. b \in Nat /\ due \subseteq Nat /\ kept \subseteq due /\ kept \subseteq Waiting(s)'
    BY <1>1, <1>4, <1>5
  <2>2. FollowFrom(b, due, Waiting(s), {})
    BY <1>1, <1>4
  <2> HIDE DEF due, kept
  <2>3. FollowFrom(b, kept, Waiting(s)', {})
    BY <1>4, <2>1, <2>2, FollowPrefix
  <2> QED
    BY <2>3 DEF kept
<1>7. GoesOn(s)
  <2>1. \A b \in Nat : (\A t \in Due(s) : b < t) => (\A t \in Due(s)' : b < t)
    BY <1>1, <1>4, <1>5
  <2>2. ASSUME NEW b \in Nat, NEW gone \in SUBSET Nat,
               FollowFrom(b, Due(s), Waiting(s), gone)
        PROVE  FollowFrom(b, Due(s)', Waiting(s)', gone)
    <3>1. Due(s)' \subseteq Due(s)
      BY <1>1, <1>4, <1>5
    <3> QED
      BY <1>1, <1>4, <1>5, <2>2, <3>1, FollowPrefix
  <2> QED
    BY <2>1, <2>2 DEF GoesOn
<1> QED
  BY <1>1, <1>4, <1>6, <1>7

-----------------------------------------------------------------------------
(* The steps of the exchange keep the invariant. *)

LEMMA ExchangeKept ==
    ASSUME IngesterInv, Tick \/ Update \/ Drop
    PROVE  IngesterInv'
<1>1. /\ TypeOK /\ Streams /\ Connected /\ Known /\ AtRest /\ CurInHand
      /\ FetchingAfterLast /\ HealingInOrder /\ PublishingNext
  BY DEF IngesterInv
<1>2. UNCHANGED <<topic, pc, cur, queue, lastTs, reconnected, firstTs, excused>>
  BY DEF Tick, Update, Drop, historyVars
<1>3. \A s \in Symbols :
          /\ Ascends(inbox[s])'
          /\ \A t \in Waiting(s)' : t < now'
          /\ \A b \in Waiting(s)' :
                FollowFrom(b, {t \in Due(s)' : b < t}, Waiting(s)', {})
          /\ GoesOn(s)
  BY <1>1, TickStreams, UpdateStreams, DropStreams
<1>4. Streams'
  BY <1>3 DEF Streams
<1>5. now \in Nat /\ now' \in Nat /\ now <= now'
  BY <1>1, Numbers DEF Tick, Update, Drop
<1>6. TypeOK'
  BY <1>1, StreamTypes
<1>7. Connected'
  <2>1. CASE Tick
    BY <1>1, <1>2, <2>1 DEF Connected, Tick
  <2>2. CASE Update
    BY <1>1, <1>2, <2>2 DEF Connected, Update
  <2>3. CASE Drop
    BY <1>1, <1>2, <2>3 DEF Connected, Drop
  <2> QED
    BY <2>1, <2>2, <2>3
<1>8. Known'
  <2>1. \A s \in Symbols : lastTs[s] # None => lastTs[s] \in Nat
    BY <1>1, Numbers
  <2> QED
    BY <1>1, <1>2, <1>5, <2>1 DEF Known
<1>9. AtRest'
  <2> SUFFICES ASSUME NEW s \in Symbols, FollowsLast(s), lastTs[s] # None
               PROVE  /\ \A t \in Due(s)' : lastTs[s] < t
                      /\ ~ reconnected[s] => FollowFrom(lastTs[s], Due(s)', Waiting(s)', excused[s])
    BY <1>1, <1>2 DEF AtRest, FollowsLast
  <2>1. lastTs[s] \in Nat /\ excused[s] \in SUBSET Nat
    BY <1>1, Numbers DEF TypeOK
  <2>2. GoesOn(s)
    BY <1>3
  <2> QED
    BY <2>1, <2>2 DEF FollowsLast, GoesOn
<1>10. CurInHand'
  <2> SUFFICES ASSUME pc \in InHand, NEW s \in Symbols, s = cur.symbol
               PROVE  /\ cur.final
                      /\ cur.ts < now'
                      /\ FollowFrom(cur.ts, Due(s)', Waiting(s)', {})
    BY <1>1, <1>2, CurTypes DEF CurInHand, Due, Waiting
  <2>1. cur.ts \in Nat
    BY <1>1, CurTypes
  <2>2. GoesOn(s)
    BY <1>3
  <2>3. cur.final /\ cur.ts < now /\ FollowFrom(cur.ts, Due(s), Waiting(s), {})
    BY <1>1 DEF CurInHand
  <2>4. FollowFrom(cur.ts, Due(s)', Waiting(s)', {})
    BY <2>1, <2>2, <2>3 DEF GoesOn
  <2> QED
    BY <1>5, <2>1, <2>3, <2>4
<1>11. FetchingAfterLast' /\ HealingInOrder' /\ PublishingNext'
  BY <1>1, <1>2 DEF FetchingAfterLast, HealingInOrder, PublishingNext, MayBeNext, Run
<1> QED
  BY <1>4, <1>6, <1>7, <1>8, <1>9, <1>10, <1>11 DEF IngesterInv

(* The start of a process, and the loss of a connection. *)
LEMMA StartLossKept ==
    ASSUME IngesterInv, Start \/ NoticeLoss
    PROVE  IngesterInv'
<1>1. /\ TypeOK /\ Streams /\ Connected /\ Known
  BY DEF IngesterInv
<1>2. /\ UNCHANGED <<now, inbox, lastTs, firstTs>>
      /\ pc' = "connecting" /\ conn' = "down"
      /\ \A s \in Symbols : inbox[s] = <<>>
  BY <1>1 DEF Start, NoticeLoss, exchangeVars, historyVars, Connected
<1>3. Streams'
  <2>1. \A s \in Symbols : Ascends(inbox[s])' /\ Waiting(s)' = {}
    BY <1>2, NothingWaits DEF Waiting
  <2> QED
    BY <2>1 DEF Streams
<1>4. Connected' /\ Known' /\ AtRest'
  BY <1>1, <1>2 DEF Connected, Known, AtRest
<1>5. TypeOK'
  BY <1>1, ConnectionTypes
<1> QED
  BY <1>2, <1>3, <1>4, <1>5
     DEF IngesterInv, CurInHand, FetchingAfterLast, HealingInOrder, PublishingNext, InHand

LEMMA ConnectKept ==
    ASSUME IngesterInv, Connect
    PROVE  IngesterInv'
<1>1. TypeOK /\ Known
  BY DEF IngesterInv
<1>2. /\ UNCHANGED <<now, lastTs, firstTs>>
      /\ pc' = "receiving" /\ conn' = "up"
      /\ \A s \in Symbols : inbox'[s] = <<>> /\ reconnected'[s] = TRUE
  BY DEF Connect, historyVars
<1>3. \A s \in Symbols : Ascends(inbox[s])' /\ Waiting(s)' = {} /\ Due(s)' = {now}
  BY <1>2, NothingWaits DEF Waiting, Due
<1>4. Streams'
  BY <1>3 DEF Streams
<1>5. Connected' /\ Known'
  BY <1>1, <1>2 DEF Connected, Known
<1>6. AtRest'
  BY <1>1, <1>2, <1>3 DEF AtRest, FollowsLast, Known
<1>7. TypeOK'
  BY <1>1, ConnectionTypes
<1> QED
  BY <1>2, <1>4, <1>5, <1>6, <1>7
     DEF IngesterInv, CurInHand, FetchingAfterLast, HealingInOrder, PublishingNext, InHand

LEMMA CrashKept ==
    ASSUME IngesterInv, Crash
    PROVE  IngesterInv'
<1>1. /\ pc' = "stopped" /\ conn' = "down"
      /\ \A s \in Symbols : inbox'[s] = <<>> /\ lastTs'[s] = None /\ firstTs'[s] = None
  BY DEF Crash
<1>2. Streams'
  <2>1. \A s \in Symbols : Ascends(inbox[s])' /\ Waiting(s)' = {}
    BY <1>1, NothingWaits DEF Waiting
  <2> QED
    BY <2>1 DEF Streams
<1>3. Connected' /\ Known' /\ AtRest'
  BY <1>1 DEF Connected, Known, AtRest
<1>4. TypeOK'
  BY CrashTypes DEF IngesterInv
<1> QED
  BY <1>1, <1>2, <1>3, <1>4
     DEF IngesterInv, CurInHand, FetchingAfterLast, HealingInOrder, PublishingNext, InHand

-----------------------------------------------------------------------------
(* The task reads an event. *)

LEMMA FollowAfterHead ==
    ASSUME NEW h \in Nat, NEW b \in Nat, NEW due, NEW waiting, NEW gone, NEW kept,
           FollowFrom(b, due, waiting, gone), kept \subseteq due, h <= b
    PROVE  FollowFrom(b, kept, waiting \ {h}, gone)
<1> SUFFICES ASSUME NEW t \in kept
             PROVE  b < t /\ \A m \in b + 1 .. t - 1 : m \in (waiting \ {h}) \cup gone
  BY DEF FollowFrom
<1>1. b < t /\ \A m \in b + 1 .. t - 1 : m \in waiting \cup gone
  BY DEF FollowFrom
<1>2. \A m \in b + 1 .. t - 1 : m # h
  OBVIOUS
<1> QED
  BY <1>1, <1>2

(* The head is read: the streams of the other symbols are not touched, and that
   of s goes on after it. *)
LEMMA HeadRead ==
    ASSUME TypeOK, Streams, pc = "receiving", NEW s \in Symbols, Receive(s)
    PROVE  /\ Streams'
           /\ UNCHANGED <<now, conn>>
           /\ \A u \in Symbols : u # s => Waiting(u)' = Waiting(u) /\ Due(u)' = Due(u)
           /\ ~ Head(inbox[s]).closed => Waiting(s)' = Waiting(s) /\ Due(s)' = Due(s)
           /\ Head(inbox[s]).closed =>
                 /\ Head(inbox[s]).ts \in Waiting(s)
                 /\ Head(inbox[s]).ts < now
                 /\ \A t \in Waiting(s) : ~ (t < Head(inbox[s]).ts)
                 /\ FollowFrom(Head(inbox[s]).ts, Due(s)', Waiting(s)', {})
<1> DEFINE h == Head(inbox[s])
<1>1. /\ inbox \in [Symbols -> Seq(Event)] /\ inbox[s] \in Seq(Event) /\ inbox[s] # <<>>
      /\ inbox' = [inbox EXCEPT ![s] = Tail(inbox[s])]
      /\ UNCHANGED <<now, conn>> /\ now \in Nat
      /\ h \in Event
  BY Numbers DEF TypeOK, Receive
<1>2. h.ts \in Nat /\ h.closed \in BOOLEAN
  BY <1>1, EventTypes
<1>3. \A u \in Symbols :
          /\ Waiting(u) \subseteq Nat /\ Due(u) \subseteq Nat /\ Waiting(u) \subseteq Due(u)
          /\ Ascends(inbox[u])
          /\ \A t \in Waiting(u) : t < now
          /\ \A b \in Waiting(u) : FollowFrom(b, {t \in Due(u) : b < t}, Waiting(u), {})
  BY WaitingTypes DEF Streams
<1>4. \A u \in Symbols : u # s => inbox'[u] = inbox[u]
  BY <1>1
<1>5. \A u \in Symbols : u # s => Waiting(u)' = Waiting(u) /\ Due(u)' = Due(u)
  BY <1>1, <1>4 DEF Waiting, Due
<1>6. inbox'[s] = Tail(inbox[s])
  BY <1>1
<1> HIDE DEF h
<1>7. /\ Ascends(inbox'[s])
      /\ ~ h.closed => Waiting(s)' = Waiting(s)
      /\ h.closed => /\ h.ts \in Waiting(s)
                     /\ Waiting(s)' = Waiting(s) \ {h.ts}
                     /\ \A t \in Waiting(s)' : h.ts < t
  BY <1>1, <1>3, <1>6, TailClosed DEF h, Waiting
<1>8. ~ h.closed => Due(s)' = Due(s)
  BY <1>1, <1>7 DEF Due
<1>9. ASSUME h.closed
      PROVE  /\ h.ts < now
             /\ \A t \in Waiting(s) : ~ (t < h.ts)
             /\ \A t \in Due(s)' : t \in Due(s) /\ h.ts < t
             /\ FollowFrom(h.ts, Due(s)', Waiting(s)', {})
             /\ \A b \in Waiting(s)' :
                   FollowFrom(b, {t \in Due(s)' : b < t}, Waiting(s)', {})
  <2>1. h.ts \in Waiting(s) /\ h.ts < now /\ \A t \in Waiting(s)' : h.ts < t
    BY <1>3, <1>7, <1>9
  <2>2. \A t \in Waiting(s) : ~ (t < h.ts)
    BY <1>2, <1>3, <1>7, <1>9
  <2>3. \A t \in Due(s)' : t \in Due(s) /\ h.ts < t
    BY <1>1, <1>7, <1>9, <2>1 DEF Due
  <2>4. ASSUME NEW b \in Waiting(s), h.ts <= b, NEW kept, kept \subseteq Due(s)',
               \A t \in kept : b < t
        PROVE  FollowFrom(b, kept, Waiting(s)', {})
    <3> DEFINE due == {t \in Due(s) : b < t}
    <3>1. FollowFrom(b, due, Waiting(s), {}) /\ kept \subseteq due /\ b \in Nat
      BY <1>3, <2>3, <2>4
    <3> HIDE DEF due
    <3>2. FollowFrom(b, kept, Waiting(s) \ {h.ts}, {})
      BY <1>2, <2>4, <3>1, FollowAfterHead
    <3> QED
      BY <1>7, <1>9, <3>2
  <2>5. FollowFrom(h.ts, Due(s)', Waiting(s)', {})
    BY <1>2, <2>1, <2>3, <2>4
  <2>6. ASSUME NEW b \in Waiting(s)'
        PROVE  FollowFrom(b, {t \in Due(s)' : b < t}, Waiting(s)', {})
    <3>1. b \in Waiting(s) /\ h.ts <= b
      BY <1>2, <1>3, <1>7, <1>9, <2>1
    <3> QED
      BY <2>4, <3>1
  <2> QED
    BY <2>1, <2>2, <2>3, <2>5, <2>6
<1>10. Streams'
  <2> SUFFICES ASSUME NEW u \in Symbols
               PROVE  /\ Ascends(inbox'[u])
                      /\ \A t \in Waiting(u)' : t < now'
                      /\ \A b \in Waiting(u)' :
                            FollowFrom(b, {t \in Due(u)' : b < t}, Waiting(u)', {})
    BY DEF Streams
  <2>1. CASE u # s
    BY <1>1, <1>3, <1>4, <1>5, <2>1
  <2>2. CASE u = s /\ ~ h.closed
    BY <1>1, <1>3, <1>7, <1>8, <2>2
  <2>3. CASE u = s /\ h.closed
    <3>1. \A t \in Waiting(s)' : t < now'
      BY <1>1, <1>3, <1>7, <2>3
    <3> QED
      BY <1>7, <1>9, <2>3, <3>1
  <2> QED
    BY <1>2, <2>1, <2>2, <2>3
<1> QED
  BY <1>1, <1>5, <1>7, <1>8, <1>9, <1>10 DEF h

LEMMA ReceiveKept ==
    ASSUME IngesterInv, NEW s \in Symbols, Receive(s)
    PROVE  IngesterInv'
<1> DEFINE h == Head(inbox[s])
<1>1. /\ TypeOK /\ Streams /\ Connected /\ Known /\ AtRest
      /\ pc = "receiving" /\ inbox[s] # <<>> /\ inbox[s] \in Seq(Event)
      /\ UNCHANGED <<now, conn, topic, queue, lastTs, faults, firstTs, excused>>
  BY DEF IngesterInv, Receive, historyVars, TypeOK
<1>2. \A u \in Symbols : FollowsLast(u)
  BY <1>1 DEF AtRest, InHand
<1>3. h \in Event /\ h.ts \in Nat /\ h.closed \in BOOLEAN
  <2>1. h \in Event
    BY <1>1
  <2> HIDE DEF h
  <2> QED
    BY <2>1, EventTypes
<1>4. /\ Streams'
      /\ \A u \in Symbols : u # s => Waiting(u)' = Waiting(u) /\ Due(u)' = Due(u)
      /\ ~ h.closed => Waiting(s)' = Waiting(s) /\ Due(s)' = Due(s)
      /\ h.closed => /\ h.ts \in Waiting(s)
                     /\ h.ts < now
                     /\ \A t \in Waiting(s) : ~ (t < h.ts)
                     /\ FollowFrom(h.ts, Due(s)', Waiting(s)', {})
  BY <1>1, HeadRead
<1>5. \/ ~ h.closed /\ UNCHANGED <<pc, cur, reconnected>>
      \/ /\ h.closed
         /\ cur' = [symbol |-> s, ts |-> h.ts, final |-> h.closed]
         /\ \/ /\ reconnected[s] /\ Missing(s, h.ts) # {}
               /\ pc' = "fetching" /\ UNCHANGED reconnected
            \/ /\ ~ (reconnected[s] /\ Missing(s, h.ts) # {})
               /\ pc' = "publishing" /\ reconnected' = [reconnected EXCEPT ![s] = FALSE]
  BY DEF Receive
<1> HIDE DEF h
<1>6. TypeOK'
  BY <1>1, ReceiveTypes
<1>7. Known'
  BY <1>1 DEF Known
<1>8. Connected'
  <2>1. conn # "down"
    BY <1>1 DEF Connected
  <2> QED
    BY <1>1, <1>5, <2>1 DEF Connected
<1>9. CASE ~ h.closed /\ UNCHANGED <<pc, cur, reconnected>>
  <2>1. \A u \in Symbols : Waiting(u)' = Waiting(u) /\ Due(u)' = Due(u)
    BY <1>4, <1>9
  <2>2. AtRest'
    BY <1>1, <1>2, <1>9, <2>1 DEF AtRest, FollowsLast
  <2> QED
    BY <1>1, <1>4, <1>6, <1>7, <1>8, <1>9, <2>2
       DEF IngesterInv, CurInHand, FetchingAfterLast, HealingInOrder, PublishingNext, InHand
<1>10. CASE /\ h.closed
            /\ cur' = [symbol |-> s, ts |-> h.ts, final |-> h.closed]
            /\ \/ /\ reconnected[s] /\ Missing(s, h.ts) # {}
                  /\ pc' = "fetching" /\ UNCHANGED reconnected
               \/ /\ ~ (reconnected[s] /\ Missing(s, h.ts) # {})
                  /\ pc' = "publishing" /\ reconnected' = [reconnected EXCEPT ![s] = FALSE]
  <2>1. cur'.symbol = s /\ cur'.ts = h.ts /\ cur'.final = h.closed /\ pc' \in {"fetching", "publishing"}
    BY <1>10
  <2>2. AtRest'
    <3>1. \A u \in Symbols : u # s => reconnected'[u] = reconnected[u]
      BY <1>1, <1>10 DEF TypeOK
    <3> SUFFICES ASSUME NEW u \in Symbols, u # s
                 PROVE  FollowsLast(u)'
      BY <2>1 DEF AtRest, InHand
    <3> QED
      BY <1>1, <1>2, <1>4, <3>1 DEF FollowsLast
  <2>3. CurInHand'
    BY <1>1, <1>4, <1>10, <2>1 DEF CurInHand, Due, Waiting
  <2>4. lastTs[s] # None => lastTs[s] \in Nat /\ lastTs[s] < h.ts
    BY <1>1, <1>2, <1>4, <1>10, Numbers DEF FollowsLast, Due
  <2>5. FetchingAfterLast'
    <3>1. SUFFICES ASSUME pc' = "fetching"
                   PROVE  lastTs[s] # None
      BY <1>1, <2>1, <2>4 DEF FetchingAfterLast
    <3>2. Missing(s, h.ts) # {}
      BY <1>10, <3>1
    <3> QED
      BY <3>2 DEF Missing
  <2>6. PublishingNext'
    <3> SUFFICES ASSUME pc' = "publishing", lastTs[s] # None
                 PROVE  \A m \in lastTs[s] + 1 .. h.ts - 1 : m \in excused[s]
      BY <1>1, <2>1, <2>4 DEF PublishingNext, MayBeNext
    <3>1. ~ reconnected[s] \/ Missing(s, h.ts) = {}
      BY <1>10
    <3>2. CASE Missing(s, h.ts) = {}
      BY <3>2 DEF Missing
    <3>3. CASE ~ reconnected[s]
      <4>1. FollowFrom(lastTs[s], Due(s), Waiting(s), excused[s]) /\ h.ts \in Due(s)
        BY <1>2, <1>4, <1>10, <3>3 DEF FollowsLast, Due
      <4>2. \A m \in lastTs[s] + 1 .. h.ts - 1 : m \in Waiting(s) \cup excused[s]
        BY <4>1 DEF FollowFrom
      <4>3. \A m \in lastTs[s] + 1 .. h.ts - 1 : m < h.ts
        BY <1>3, <2>4
      <4> QED
        BY <1>4, <1>10, <4>2, <4>3
    <3> QED
      BY <3>1, <3>2, <3>3
  <2>7. HealingInOrder'
    BY <2>1 DEF HealingInOrder
  <2> QED
    BY <1>4, <1>6, <1>7, <1>8, <2>2, <2>3, <2>5, <2>6, <2>7 DEF IngesterInv
<1> QED
  BY <1>5, <1>9, <1>10

-----------------------------------------------------------------------------
(* The task goes on with the candle in hand. *)

LEMMA StreamsFrame ==
    ASSUME IngesterInv, pc \in InHand, UNCHANGED exchangeVars
    PROVE  /\ Streams'
           /\ \A u \in Symbols : Waiting(u)' = Waiting(u) /\ Due(u)' = Due(u)
           /\ pc' \notin {"stopped", "connecting"} => Connected'
BY DEF IngesterInv, exchangeVars, Streams, Connected, Waiting, Due, InHand

(* A candle in hand of one symbol is nothing to the others. *)
LEMMA OthersKept ==
    ASSUME IngesterInv, pc \in InHand, UNCHANGED exchangeVars,
           NEW u \in Symbols, u # cur.symbol,
           lastTs'[u] = lastTs[u], reconnected'[u] = reconnected[u], excused'[u] = excused[u]
    PROVE  FollowsLast(u)'
<1>1. FollowsLast(u)
  BY DEF IngesterInv, AtRest, InHand
<1>2. Waiting(u)' = Waiting(u) /\ Due(u)' = Due(u)
  BY StreamsFrame
<1> QED
  BY <1>1, <1>2 DEF FollowsLast

LEMMA HealDoneLeavesOthers ==
    ASSUME TypeOK, HealDone, NEW u \in Symbols, u # cur.symbol
    PROVE  reconnected'[u] = reconnected[u]
BY DEF TypeOK, HealDone

(* The invariant after a step that keeps the candle in hand: what is left to
   show is what the step does to the symbol of the candle. *)
LEMMA InHandKept ==
    ASSUME IngesterInv, TypeOK', pc \in InHand, pc' \in {"healing", "publishing"},
           UNCHANGED exchangeVars, UNCHANGED cur,
           \A u \in Symbols : u # cur.symbol =>
               lastTs'[u] = lastTs[u] /\ reconnected'[u] = reconnected[u]
               /\ excused'[u] = excused[u],
           Known', HealingInOrder', PublishingNext'
    PROVE  IngesterInv'
<1>1. Streams' /\ Connected'
  BY StreamsFrame
<1>2. AtRest'
  BY OthersKept DEF AtRest, InHand
<1>3. CurInHand'
  <2> SUFFICES ASSUME NEW s \in Symbols, s = cur.symbol
               PROVE  /\ cur.final
                      /\ cur.ts < now'
                      /\ FollowFrom(cur.ts, Due(s)', Waiting(s)', {})
    BY CurTypes DEF CurInHand, Due, Waiting, IngesterInv
  <2>1. Due(s)' = Due(s) /\ Waiting(s)' = Waiting(s) /\ now' = now
    BY StreamsFrame DEF exchangeVars
  <2>2. cur.final /\ cur.ts < now /\ FollowFrom(cur.ts, Due(s), Waiting(s), {})
    BY DEF IngesterInv, CurInHand
  <2> QED
    BY <2>1, <2>2
<1>4. FetchingAfterLast'
  BY DEF FetchingAfterLast
<1> QED
  BY <1>1, <1>2, <1>3, <1>4 DEF IngesterInv

LEMMA ReadingIsFinal ==
    ASSUME TypeOK, NEW t \in Nat, t < now
    PROVE  Reading(t) = [ts |-> t, final |-> TRUE]
BY DEF Reading

LEMMA FetchKept ==
    ASSUME IngesterInv, FetchReturns \/ FetchFails
    PROVE  IngesterInv'
<1>1. /\ TypeOK /\ Known /\ FetchingAfterLast
      /\ pc = "fetching" /\ pc \in InHand
      /\ UNCHANGED exchangeVars /\ UNCHANGED cur /\ UNCHANGED <<lastTs, firstTs>>
  BY DEF IngesterInv, FetchReturns, FetchFails, InHand
<1>2. PICK s \in Symbols : s = cur.symbol
  BY <1>1, CurTypes
<1>3. PICK last \in Nat : last = lastTs[s]
  BY <1>1, <1>2, Numbers DEF FetchingAfterLast
<1>4. /\ cur.ts \in Nat /\ last < cur.ts /\ last # None /\ lastTs'[s] = last /\ cur'.symbol = s
      /\ cur.ts < now /\ now \in Nat
  BY <1>1, <1>2, <1>3, CurTypes, Numbers DEF FetchingAfterLast, IngesterInv, CurInHand
<1>5. TypeOK'
  BY <1>1, FetchTypes
<1>6. Known'
  BY <1>1 DEF Known, exchangeVars
<1>7. CASE FetchReturns
  <2>1. PICK n \in 0 .. cur.ts - last - 1 :
             /\ excused' = [excused EXCEPT ![s] = @ \cup (last + n + 1 .. cur.ts - 1)]
             /\ IF n = 0 THEN HealDone
                         ELSE queue' = Fetched(n) /\ pc' = "healing" /\ UNCHANGED reconnected
    BY <1>2, <1>3, <1>7 DEF FetchReturns
  <2>2. \A m \in last + n + 1 .. cur.ts - 1 : m \in excused'[s]
    BY <1>1, <2>1 DEF TypeOK
  <2>3. \A u \in Symbols : u # cur.symbol => excused'[u] = excused[u]
    BY <1>1, <1>2, <2>1 DEF TypeOK
  <2>4. \A u \in Symbols : u # cur.symbol => reconnected'[u] = reconnected[u]
    BY <1>1, <2>1, HealDoneLeavesOthers
  <2>5. CASE n = 0
    <3>1. pc' = "publishing"
      BY <2>1, <2>5 DEF HealDone
    <3>2. PublishingNext'
      BY <1>1, <1>4, <2>2, <2>5 DEF PublishingNext, MayBeNext
    <3>3. HealingInOrder'
      BY <3>1 DEF HealingInOrder
    <3> QED
      BY <1>1, <1>5, <1>6, <2>3, <2>4, <3>1, <3>2, <3>3, InHandKept
  <2>6. CASE n > 0
    <3>1. queue' = Fetched(n) /\ pc' = "healing"
      BY <2>1, <2>6
    <3>2. n \in 0 .. cur.ts - lastTs[cur.symbol] - 1
      BY <1>2, <1>3
    <3>3. /\ n \in Nat /\ Len(queue') = n
          /\ \A i \in 1..n : last + i < cur.ts /\ queue'[i] = Reading(last + i)
      BY <1>1, <1>2, <1>3, <3>1, <3>2, FetchedTypes
    <3>4. \A i \in 1..n : queue'[i] = [ts |-> last + i, final |-> TRUE]
      <4> SUFFICES ASSUME NEW i \in 1..n
                   PROVE  queue'[i] = [ts |-> last + i, final |-> TRUE]
        OBVIOUS
      <4>1. last + i \in Nat /\ last + i < now
        BY <1>4, <3>3
      <4> QED
        BY <1>1, <3>3, <4>1, ReadingIsFinal
    <3>5. queue'[1].ts = last + 1
      <4>1. ASSUME NEW i \in 1..n
            PROVE  queue'[i].ts = last + i
        <5>1. queue'[i] = [ts |-> last + i, final |-> TRUE]
          BY <3>4
        <5>2. [ts |-> last + i, final |-> TRUE].ts = last + i
          OBVIOUS
        <5> QED
          BY <5>1, <5>2, Zenon
      <4>2. PICK i \in 1..n : i = 1
        BY <2>6
      <4> QED
        BY <4>1, <4>2
    <3>6. Run(queue')
      <4> SUFFICES ASSUME NEW i \in 1..n
                   PROVE  queue'[i] = [ts |-> queue'[1].ts + (i - 1), final |-> TRUE]
        BY <3>3 DEF Run
      <4>1. queue'[1].ts + (i - 1) = last + i
        BY <3>5
      <4> QED
        BY <3>4, <4>1
    <3>7. HealingInOrder'
      <4>1. MayBeNext(cur.symbol, queue[1].ts)'
        BY <1>4, <3>5 DEF MayBeNext
      <4>2. queue'[1].ts + (Len(queue') - 1) < cur.ts
        BY <1>4, <2>1, <3>3, <3>5
      <4>3. \A m \in queue'[1].ts + Len(queue') .. cur.ts - 1 : m \in excused'[s]
        BY <2>2, <3>3, <3>5
      <4> QED
        BY <1>1, <1>4, <3>6, <4>1, <4>2, <4>3 DEF HealingInOrder
    <3>8. PublishingNext'
      BY <3>1 DEF PublishingNext
    <3> QED
      BY <1>1, <1>5, <1>6, <2>3, <2>4, <3>1, <3>7, <3>8, InHandKept
  <2> QED
    BY <2>5, <2>6
<1>8. CASE FetchFails
  <2>1. /\ HealDone /\ pc' = "publishing"
        /\ excused' = [excused EXCEPT ![s] = @ \cup Missing(s, cur.ts)]
    BY <1>2, <1>8 DEF FetchFails, HealDone
  <2>2. \A m \in last + 1 .. cur.ts - 1 : m \in excused'[s]
    BY <1>1, <1>3, <1>4, <2>1 DEF TypeOK, Missing
  <2>3. \A u \in Symbols : u # cur.symbol => excused'[u] = excused[u]
    BY <1>1, <1>2, <2>1 DEF TypeOK
  <2>4. \A u \in Symbols : u # cur.symbol => reconnected'[u] = reconnected[u]
    BY <1>1, <2>1, HealDoneLeavesOthers
  <2>5. PublishingNext'
    BY <1>1, <1>4, <2>2 DEF PublishingNext, MayBeNext
  <2>6. HealingInOrder'
    BY <2>1 DEF HealingInOrder
  <2> QED
    BY <1>1, <1>5, <1>6, <2>1, <2>3, <2>4, <2>5, <2>6, InHandKept
<1> QED
  BY <1>7, <1>8

-----------------------------------------------------------------------------
(* The task sends a candle. *)

(* Every candle the task sends is over, and may be next. *)
LEMMA SentMayBeNext ==
    ASSUME IngesterInv, pc \in {"healing", "publishing"}
    PROVE  /\ Sent.ts \in Nat
           /\ Sent = [ts |-> Sent.ts, final |-> TRUE]
           /\ Sent.ts < now
           /\ Sent.ts <= cur.ts
           /\ MayBeNext(cur.symbol, Sent.ts)
<1>1. /\ TypeOK /\ CurInHand /\ HealingInOrder /\ PublishingNext
      /\ pc \in InHand
      /\ cur.ts \in Nat /\ now \in Nat
      /\ cur.final /\ cur.final \in BOOLEAN /\ cur.ts < now
  BY CurTypes, Numbers DEF IngesterInv, InHand, CurInHand
<1>2. CASE pc = "publishing"
  <2>1. Sent = [ts |-> cur.ts, final |-> TRUE]
    BY <1>1, <1>2 DEF Sent
  <2> QED
    BY <1>1, <1>2, <2>1 DEF PublishingNext
<1>3. CASE pc = "healing"
  <2>1. queue \in Seq(Candle) /\ queue # <<>> /\ Run(queue)
    BY <1>1, <1>3 DEF TypeOK, HealingInOrder
  <2>2. Len(queue) \in Nat /\ Len(queue) >= 1 /\ Head(queue) = queue[1]
    BY <2>1
  <2>3. queue[1] \in Candle
    BY <2>1, <2>2
  <2>4. queue[1].ts \in Nat
    BY <1>1, <2>3, Numbers DEF Candle
  <2>5. Sent = queue[1]
    BY <1>3, <2>2 DEF Sent
  <2>6. queue[1] = [ts |-> queue[1].ts, final |-> TRUE]
    <3>1. PICK i \in 1..Len(queue) : i = 1
      BY <2>2
    <3>2. queue[i] = [ts |-> queue[1].ts + (i - 1), final |-> TRUE]
      BY <2>1, <3>1 DEF Run
    <3>3. queue[1].ts + (i - 1) = queue[1].ts
      BY <2>4, <3>1
    <3> QED
      BY <3>1, <3>2, <3>3, Zenon
  <2>7. queue[1].ts < cur.ts /\ MayBeNext(cur.symbol, queue[1].ts)
    BY <1>1, <1>3, <2>2, <2>4 DEF HealingInOrder
  <2> QED
    BY <1>1, <2>4, <2>5, <2>6, <2>7
<1> QED
  BY <1>2, <1>3

(* A send that was acknowledged or given up: the minute after it may be next. *)
LEMMA NextAfterSent ==
    ASSUME IngesterInv, PublishAcked \/ PublishFails,
           NEW s \in Symbols, s = cur.symbol, NEW m \in Nat, m = Sent.ts
    PROVE  /\ Known'
           /\ UNCHANGED exchangeVars
           /\ \A u \in Symbols : u # cur.symbol =>
                 lastTs'[u] = lastTs[u] /\ excused'[u] = excused[u]
           /\ lastTs'[s] # None =>
                 /\ lastTs'[s] \in Nat
                 /\ lastTs'[s] < m + 1
                 /\ \A k \in lastTs'[s] + 1 .. m : k \in excused'[s]
<1>1. /\ TypeOK /\ Known /\ UNCHANGED exchangeVars
      /\ m < now /\ now \in Nat
      /\ MayBeNext(s, m)
      /\ lastTs[s] # None => lastTs[s] \in Nat
      /\ None \notin Nat
  BY SentMayBeNext, Numbers, IngesterAssumption DEF IngesterInv, PublishAcked, PublishFails
<1>2. /\ lastTs \in [Symbols -> Minutes \cup {None}]
      /\ firstTs \in [Symbols -> Minutes \cup {None}]
      /\ excused \in [Symbols -> SUBSET Minutes]
  BY <1>1 DEF TypeOK
<1>3. CASE PublishAcked
  <2>1. lastTs' = [lastTs EXCEPT ![s] = m]
    BY <1>1, <1>2, <1>3 DEF PublishAcked, MayBeNext
  <2>2. excused' = excused /\ firstTs' = [firstTs EXCEPT ![s] = IF @ = None THEN m ELSE @]
    BY <1>3 DEF PublishAcked
  <2>3. Known'
    BY <1>1, <1>2, <2>1, <2>2 DEF Known, exchangeVars
  <2>4. lastTs'[s] = m
    BY <1>2, <2>1
  <2>5. \A u \in Symbols : u # cur.symbol => lastTs'[u] = lastTs[u] /\ excused'[u] = excused[u]
    BY <1>2, <2>1, <2>2
  <2>6. \A k \in m + 1 .. m : FALSE
    OBVIOUS
  <2> QED
    BY <1>1, <2>3, <2>4, <2>5, <2>6
<1>4. CASE PublishFails
  <2>1. /\ UNCHANGED <<lastTs, firstTs>>
        /\ excused' = [excused EXCEPT ![s] = @ \cup {m}]
    BY <1>4 DEF PublishFails
  <2>2. Known'
    BY <1>1, <2>1 DEF Known, exchangeVars
  <2>3. excused'[s] = excused[s] \cup {m} /\ \A u \in Symbols : u # s => excused'[u] = excused[u]
    BY <1>2, <2>1
  <2>4. ASSUME lastTs[s] # None
        PROVE  /\ lastTs[s] < m + 1
               /\ \A k \in lastTs[s] + 1 .. m : k \in excused'[s]
    <3>1. lastTs[s] < m /\ \A k \in lastTs[s] + 1 .. m - 1 : k \in excused[s]
      BY <1>1, <2>4 DEF MayBeNext
    <3>2. \A k \in lastTs[s] + 1 .. m : k = m \/ k \in lastTs[s] + 1 .. m - 1
      BY <1>1, <2>4
    <3> QED
      BY <1>1, <2>3, <2>4, <3>1, <3>2
  <2> QED
    BY <1>1, <2>1, <2>2, <2>3, <2>4
<1> QED
  BY <1>3, <1>4

(* The rest of a run of fetched candles. *)
LEMMA TailRun ==
    ASSUME NEW q \in Seq(Candle), Run(q), Len(q) > 1, q[1].ts \in Nat
    PROVE  /\ Run(Tail(q))
           /\ Tail(q)[1].ts = q[1].ts + 1
           /\ Len(Tail(q)) = Len(q) - 1
<1> DEFINE p == Tail(q)
<1> DEFINE a == q[1].ts
<1>1. /\ Len(q) \in Nat /\ Len(p) = Len(q) - 1 /\ Len(p) \in Nat
      /\ \A i \in 1..Len(p) : i \in Nat /\ p[i] = q[i + 1] /\ i + 1 \in 1..Len(q)
  OBVIOUS
<1>2. a \in Nat /\ \A i \in 1..Len(q) : q[i] = [ts |-> a + (i - 1), final |-> TRUE]
  BY DEF Run
<1> HIDE DEF p, a
<1>3. ASSUME NEW i \in 1..Len(p)
      PROVE  p[i] = [ts |-> a + i, final |-> TRUE]
  <2>1. q[i + 1] = [ts |-> a + ((i + 1) - 1), final |-> TRUE]
    BY <1>1, <1>2
  <2>2. a + ((i + 1) - 1) = a + i
    BY <1>1, <1>2
  <2> QED
    BY <1>1, <2>1, <2>2
<1>4. p[1].ts = a + 1
  <2>1. PICK i \in 1..Len(p) : i = 1
    BY <1>1
  <2>2. p[i] = [ts |-> a + i, final |-> TRUE]
    BY <1>3
  <2> QED
    BY <2>1, <2>2
<1>5. Run(p)
  <2> SUFFICES ASSUME NEW i \in 1..Len(p)
               PROVE  p[i] = [ts |-> p[1].ts + (i - 1), final |-> TRUE]
    BY DEF Run
  <2>1. p[1].ts + (i - 1) = a + i
    BY <1>1, <1>2, <1>4
  <2> QED
    BY <1>3, <2>1
<1> QED
  BY <1>1, <1>4, <1>5 DEF p, a

LEMMA PublishKept ==
    ASSUME IngesterInv, PublishAcked \/ PublishFails
    PROVE  IngesterInv'
<1>1. /\ TypeOK /\ pc \in {"healing", "publishing"} /\ pc \in InHand /\ AfterPublish
      /\ cur.ts \in Nat /\ now \in Nat
      /\ CurInHand /\ HealingInOrder /\ PublishingNext
  BY CurTypes, Numbers DEF IngesterInv, PublishAcked, PublishFails, InHand
<1>2. PICK s \in Symbols : s = cur.symbol
  BY <1>1, CurTypes
<1>3. PICK m \in Nat : m = Sent.ts
  BY <1>1, SentMayBeNext
<1>4. m < now /\ m <= cur.ts /\ MayBeNext(s, m)
  BY <1>1, <1>2, <1>3, SentMayBeNext
<1>5. /\ Known'
      /\ UNCHANGED exchangeVars
      /\ \A u \in Symbols : u # cur.symbol => lastTs'[u] = lastTs[u] /\ excused'[u] = excused[u]
      /\ lastTs'[s] # None =>
            /\ lastTs'[s] \in Nat
            /\ lastTs'[s] < m + 1
            /\ \A k \in lastTs'[s] + 1 .. m : k \in excused'[s]
  BY <1>2, <1>3, NextAfterSent
<1>6. TypeOK'
  BY <1>1, PublishTypes
<1>7. \A k \in excused[s] : k \in excused'[s]
  BY <1>1, <1>2 DEF TypeOK, PublishAcked, PublishFails
(* Whatever comes after m and has all between given up may be next. *)
<1>8. ASSUME NEW t \in Nat, m < t, \A k \in m + 1 .. t - 1 : k \in excused'[s],
             lastTs'[s] # None
      PROVE  lastTs'[s] < t /\ \A k \in lastTs'[s] + 1 .. t - 1 : k \in excused'[s]
  <2>1. lastTs'[s] < t
    BY <1>5, <1>8
  <2>2. \A k \in lastTs'[s] + 1 .. t - 1 : k \in lastTs'[s] + 1 .. m \/ k \in m + 1 .. t - 1
    BY <1>5, <1>8
  <2> QED
    BY <1>5, <1>8, <2>1, <2>2
<1>9. CASE /\ pc = "healing" /\ Len(queue) > 1 /\ queue' = Tail(queue)
           /\ UNCHANGED <<pc, cur, reconnected>>
  <2>1. /\ queue \in Seq(Candle) /\ Run(queue) /\ Len(queue) \in Nat /\ Head(queue) = queue[1]
        /\ queue[1].ts + (Len(queue) - 1) < cur.ts
        /\ \A k \in queue[1].ts + Len(queue) .. cur.ts - 1 : k \in excused[s]
    BY <1>1, <1>2, <1>9 DEF HealingInOrder, TypeOK
  <2>2. m = queue[1].ts
    BY <1>3, <1>9, <2>1 DEF Sent
  <2>3. Run(queue') /\ queue'[1].ts = m + 1 /\ Len(queue') = Len(queue) - 1
    BY <1>9, <2>1, <2>2, TailRun
  <2>4. MayBeNext(cur.symbol, queue[1].ts)'
    <3>1. \A k \in m + 1 .. (m + 1) - 1 : k \in excused'[s]
      OBVIOUS
    <3>2. cur'.symbol = s
      BY <1>2, <1>9
    <3> QED
      BY <1>8, <2>3, <3>1, <3>2 DEF MayBeNext
  <2>5. HealingInOrder'
    <3>1. queue'[1].ts + (Len(queue') - 1) < cur.ts
      BY <1>1, <2>1, <2>2, <2>3
    <3>2. \A k \in queue'[1].ts + Len(queue') .. cur.ts - 1 : k \in excused'[s]
      <4>1. queue'[1].ts + Len(queue') = queue[1].ts + Len(queue)
        BY <2>1, <2>2, <2>3
      <4> QED
        BY <1>7, <2>1, <4>1
    <3> QED
      BY <1>2, <1>9, <2>3, <2>4, <3>1, <3>2 DEF HealingInOrder
  <2>6. PublishingNext'
    BY <1>9 DEF PublishingNext
  <2> QED
    BY <1>1, <1>5, <1>6, <1>9, <2>5, <2>6, InHandKept
<1>10. CASE pc = "healing" /\ Len(queue) = 1 /\ HealDone /\ UNCHANGED cur
  <2>1. /\ Head(queue) = queue[1] /\ queue[1].ts + (1 - 1) < cur.ts
        /\ \A k \in queue[1].ts + 1 .. cur.ts - 1 : k \in excused[s]
    BY <1>1, <1>2, <1>10 DEF HealingInOrder, TypeOK
  <2>2. m = queue[1].ts
    BY <1>3, <1>10, <2>1 DEF Sent
  <2>3. m < cur.ts /\ \A k \in m + 1 .. cur.ts - 1 : k \in excused'[s]
    BY <1>3, <1>7, <2>1, <2>2
  <2>4. pc' = "publishing"
    BY <1>10 DEF HealDone
  <2>5. PublishingNext'
    BY <1>1, <1>2, <1>8, <1>10, <2>3 DEF PublishingNext, MayBeNext
  <2>6. HealingInOrder'
    BY <2>4 DEF HealingInOrder
  <2>7. \A u \in Symbols : u # cur.symbol => reconnected'[u] = reconnected[u]
    BY <1>1, <1>10, HealDoneLeavesOthers
  <2> QED
    BY <1>1, <1>5, <1>6, <1>10, <2>4, <2>5, <2>6, <2>7, InHandKept
<1>11. CASE /\ pc = "publishing" /\ pc' = "receiving" /\ cur' = Idle
            /\ UNCHANGED <<queue, reconnected>>
  <2>1. m = cur.ts
    BY <1>3, <1>11 DEF Sent
  <2>2. Streams' /\ Connected' /\ Waiting(s)' = Waiting(s) /\ Due(s)' = Due(s)
    BY <1>1, <1>5, <1>11, StreamsFrame
  <2>3. FollowFrom(m, Due(s), Waiting(s), {}) /\ Due(s) \subseteq Nat
    BY <1>1, <1>2, <2>1, WaitingTypes DEF CurInHand
  <2>4. FollowsLast(s)'
    <3> SUFFICES ASSUME lastTs'[s] # None
                 PROVE  FollowFrom(lastTs'[s], Due(s), Waiting(s), excused'[s])
      BY <2>2 DEF FollowsLast, FollowFrom
    <3> SUFFICES ASSUME NEW t \in Due(s)
                 PROVE  /\ lastTs'[s] < t
                        /\ \A k \in lastTs'[s] + 1 .. t - 1 : k \in Waiting(s) \cup excused'[s]
      BY DEF FollowFrom
    <3>1. t \in Nat /\ m < t /\ \A k \in m + 1 .. t - 1 : k \in Waiting(s)
      BY <2>3 DEF FollowFrom
    <3>2. \A k \in lastTs'[s] + 1 .. t - 1 : k \in lastTs'[s] + 1 .. m \/ k \in m + 1 .. t - 1
      BY <1>5, <3>1
    <3> QED
      BY <1>5, <3>1, <3>2
  <2>5. AtRest'
    <3> SUFFICES ASSUME NEW u \in Symbols
                 PROVE  FollowsLast(u)'
      BY DEF AtRest
    <3>1. CASE u = s
      BY <2>4, <3>1
    <3>2. CASE u # s
      BY <1>1, <1>2, <1>5, <1>11, <3>2, OthersKept
    <3> QED
      BY <3>1, <3>2
  <2> QED
    BY <1>5, <1>6, <1>11, <2>2, <2>5
       DEF IngesterInv, CurInHand, FetchingAfterLast, HealingInOrder, PublishingNext, InHand
<1> QED
  BY <1>1, <1>9, <1>10, <1>11 DEF AfterPublish

-----------------------------------------------------------------------------
(* Invariance. *)

(* Before the first start there is nothing to keep. *)
LEMMA IngesterInit == Init => IngesterInv
<1> SUFFICES ASSUME Init
             PROVE  IngesterInv
  OBVIOUS
<1>1. MaxTime \in Nat /\ None \notin Nat /\ MaxFaults \in [FaultKinds -> Nat]
  BY IngesterAssumption
<1>2. <<>> \in Seq(Event) /\ <<>> \in Seq(Candle)
  OBVIOUS
<1>3. TypeOK
  <2>1. now \in Minutes
    BY <1>1 DEF Init, Minutes
  <2>2. faults \in [FaultKinds -> Nat] /\ \A k \in FaultKinds : faults[k] <= MaxFaults[k]
    BY <1>1 DEF Init
  <2>3. inbox \in [Symbols -> Seq(Event)] /\ topic \in [Symbols -> Seq(Candle)]
    BY <1>2 DEF Init
  <2> QED
    BY <1>2, <2>1, <2>2, <2>3 DEF TypeOK, Init
<1>4. Streams
  <2>1. \A s \in Symbols : Ascends(inbox[s]) /\ Waiting(s) = {}
    BY NothingWaits DEF Init, Waiting
  <2> QED
    BY <2>1 DEF Streams
<1>5. Connected /\ Known /\ AtRest
  BY DEF Init, Connected, Known, AtRest
<1> QED
  BY <1>3, <1>4, <1>5
     DEF IngesterInv, CurInHand, FetchingAfterLast, HealingInOrder, PublishingNext, InHand, Init

(* The exchange, the connection and the task keep the invariant. *)
LEMMA IngesterStep == IngesterInv /\ [Next]_vars => IngesterInv'
<1> SUFFICES ASSUME IngesterInv, [Next]_vars
             PROVE  IngesterInv'
  OBVIOUS
<1>1. CASE UNCHANGED vars
  <2>1. TypeOK' /\ Streams' /\ Connected' /\ Known'
    BY <1>1, TypesKept DEF IngesterInv, Streams, Waiting, Due, Connected, Known, vars
  <2>2. AtRest' /\ CurInHand'
    BY <1>1 DEF IngesterInv, AtRest, FollowsLast, CurInHand, Waiting, Due, vars
  <2>3. FetchingAfterLast' /\ HealingInOrder' /\ PublishingNext'
    BY <1>1 DEF IngesterInv, FetchingAfterLast, HealingInOrder, PublishingNext, MayBeNext, Run, vars
  <2> QED
    BY <2>1, <2>2, <2>3 DEF IngesterInv
<1>2. CASE Next
  BY <1>2, ExchangeKept, StartLossKept, ConnectKept, ReceiveKept, FetchKept, PublishKept, CrashKept
     DEF Next
<1> QED
  BY <1>1, <1>2

LEMMA IngesterInvariance == Spec => []IngesterInv
BY IngesterInit, IngesterStep, PTL DEF Spec

(* The variables of the service keep their types; in particular a candle is in
   hand exactly while it is healed or published, and the fault counters keep
   their bounds. *)
THEOREM TypeCorrectness == Spec => []TypeOK
<1>1. IngesterInv => TypeOK
  BY DEF IngesterInv
<1> QED
  BY <1>1, IngesterInvariance, PTL

-----------------------------------------------------------------------------
(* The ingester implements the log of minutes. *)

LEMMA MayFollowLast ==
    ASSUME TypeOK, NEW s \in Symbols, NEW m \in Nat, m < now, MayBeNext(s, m)
    PROVE  MinuteLog!MayFollow(s, m) /\ m \in 0 .. now - 1
<1>1. lastTs[s] # None => lastTs[s] + 1 .. m - 1 \subseteq excused[s]
  BY DEF MayBeNext
<1>2. now \in Nat
  BY Numbers
<1> QED
  BY <1>1, <1>2 DEF MinuteLog!MayFollow, MayBeNext

LEMMA FetchGivesUp ==
    ASSUME IngesterInv, FetchReturns \/ FetchFails
    PROVE  MinuteLog!LogNext
<1>1. /\ TypeOK /\ FetchingAfterLast /\ pc = "fetching"
      /\ UNCHANGED <<now, topic, firstTs, lastTs>>
      /\ cur.symbol \in Symbols /\ cur.ts \in Nat /\ cur.ts < now /\ now \in Nat
      /\ lastTs[cur.symbol] \in Nat
  <2>1. /\ TypeOK /\ FetchingAfterLast /\ CurInHand /\ pc = "fetching" /\ pc \in InHand
        /\ UNCHANGED <<now, topic, firstTs, lastTs>>
    BY DEF IngesterInv, FetchReturns, FetchFails, exchangeVars, InHand
  <2> QED
    BY <2>1, CurTypes, Numbers DEF FetchingAfterLast, CurInHand
<1>2. PICK s \in Symbols : s = cur.symbol
  BY <1>1
<1>3. PICK minutes :
          /\ excused' = [excused EXCEPT ![s] = @ \cup minutes]
          /\ \A m \in minutes : m \in Nat /\ lastTs[s] < m /\ m < cur.ts
  <2>1. CASE FetchReturns
    <3>1. PICK n \in 0 .. cur.ts - lastTs[s] - 1 :
              excused' = [excused EXCEPT ![s] = @ \cup (lastTs[s] + n + 1 .. cur.ts - 1)]
      BY <1>2, <2>1 DEF FetchReturns
    <3>2. \A m \in lastTs[s] + n + 1 .. cur.ts - 1 : m \in Nat /\ lastTs[s] < m /\ m < cur.ts
      BY <1>1, <1>2
    <3> QED
      BY <3>1, <3>2
  <2>2. CASE FetchFails
    <3>1. excused' = [excused EXCEPT ![s] = @ \cup Missing(s, cur.ts)]
      BY <1>2, <2>2 DEF FetchFails
    <3>2. \A m \in Missing(s, cur.ts) : m \in Nat /\ lastTs[s] < m /\ m < cur.ts
      BY <1>1, <1>2 DEF Missing
    <3> QED
      BY <3>1, <3>2
  <2> QED
    BY <1>1, <2>1, <2>2 DEF IngesterInv
<1>4. minutes \in SUBSET {m \in 0 .. now - 1 : lastTs[s] = None \/ lastTs[s] < m}
  <2>1. \A m \in minutes : m \in 0 .. now - 1 /\ lastTs[s] < m
    BY <1>1, <1>3
  <2> QED
    BY <2>1
<1>5. MinuteLog!GiveUp(s)
  BY <1>1, <1>3, <1>4 DEF MinuteLog!GiveUp
<1> QED
  BY <1>5 DEF MinuteLog!LogNext

LEMMA PublishAppends ==
    ASSUME IngesterInv, PublishAcked \/ PublishFails
    PROVE  MinuteLog!LogNext
<1>1. /\ TypeOK /\ pc \in {"healing", "publishing"} /\ pc \in InHand
      /\ UNCHANGED now /\ now \in Nat
      /\ None \notin Nat
  BY Numbers, IngesterAssumption DEF IngesterInv, PublishAcked, PublishFails, InHand, exchangeVars
<1>2. PICK s \in Symbols : s = cur.symbol
  BY <1>1, CurTypes
<1>3. PICK m \in Nat : m = Sent.ts
  BY <1>1, SentMayBeNext
<1>4. m < now /\ MayBeNext(s, m) /\ Sent = MinuteLog!Final(m)
  BY <1>1, <1>2, <1>3, SentMayBeNext DEF MinuteLog!Final
<1>5. MinuteLog!MayFollow(s, m) /\ m \in 0 .. now - 1
  BY <1>1, <1>4, MayFollowLast
<1>6. topic[s] \in Seq(Candle) /\ topic \in [Symbols -> Seq(Candle)] /\ Sent \in Candle
  BY <1>1, SentTypes DEF TypeOK
<1>7. Append(topic[s], Sent) = topic[s] \o <<Sent>>
  BY <1>6, AppendIsConcat
<1>8. CASE PublishAcked
  <2>1. lastTs' = [lastTs EXCEPT ![s] = m]
    <3>1. lastTs \in [Symbols -> Minutes \cup {None}]
      BY <1>1 DEF TypeOK
    <3> QED
      BY <1>1, <1>2, <1>3, <1>4, <1>8, <3>1, Numbers DEF PublishAcked, MayBeNext
  <2>2. firstTs' = [firstTs EXCEPT ![s] = IF @ = None THEN m ELSE @] /\ UNCHANGED excused
    BY <1>2, <1>3, <1>8 DEF PublishAcked
  <2>3. \E copies \in {<<MinuteLog!Final(m)>>, <<MinuteLog!Final(m), MinuteLog!Final(m)>>} :
            topic' = [topic EXCEPT ![s] = @ \o copies]
    <3>1. \/ topic' = [topic EXCEPT ![s] = topic[s] \o <<Sent>>]
          \/ topic' = [topic EXCEPT ![s] = topic[s] \o <<Sent, Sent>>]
      BY <1>2, <1>7, <1>8 DEF PublishAcked
    <3> QED
      BY <1>4, <3>1
  <2>4. MinuteLog!AppendKnown(s)
    BY <1>1, <1>5, <2>1, <2>2, <2>3 DEF MinuteLog!AppendKnown
  <2> QED
    BY <2>4 DEF MinuteLog!LogNext
<1>9. CASE PublishFails
  <2>1. UNCHANGED <<lastTs, firstTs>> /\ excused' = [excused EXCEPT ![s] = @ \cup {m}]
    BY <1>2, <1>3, <1>9 DEF PublishFails
  <2>2. CASE UNCHANGED topic
    <3>1. {m} \in SUBSET {k \in 0 .. now - 1 : lastTs[s] = None \/ lastTs[s] < k}
      BY <1>4, <1>5 DEF MayBeNext
    <3>2. MinuteLog!GiveUp(s)
      BY <1>1, <2>1, <2>2, <3>1 DEF MinuteLog!GiveUp
    <3> QED
      BY <3>2 DEF MinuteLog!LogNext
  <2>3. CASE topic' = [topic EXCEPT ![cur.symbol] = Append(@, Sent)]
    <3>1. MinuteLog!AppendUnknown(s)
      BY <1>1, <1>2, <1>4, <1>5, <2>1, <2>3 DEF MinuteLog!AppendUnknown
    <3> QED
      BY <3>1 DEF MinuteLog!LogNext
  <2> QED
    BY <1>9, <2>2, <2>3 DEF PublishFails
<1> QED
  BY <1>8, <1>9

LEMMA CrashRestarts ==
    ASSUME IngesterInv, Crash
    PROVE  MinuteLog!LogNext
<1>1. TypeOK
  BY DEF IngesterInv
<1>2. /\ firstTs' = [u \in Symbols |-> None]
      /\ lastTs' = [u \in Symbols |-> None]
      /\ excused' = [u \in Symbols |-> {}]
      /\ now' = now
  BY DEF Crash
<1>3. \/ topic' = topic
      \/ \E s \in Symbols, m \in 0 .. now - 1 :
            MinuteLog!MayFollow(s, m) /\ topic' = [topic EXCEPT ![s] = Append(@, MinuteLog!Final(m))]
  <2> SUFFICES ASSUME pc \in {"healing", "publishing"},
                      topic' = [topic EXCEPT ![cur.symbol] = Append(@, Sent)]
               PROVE  \E s \in Symbols, m \in 0 .. now - 1 :
                         /\ MinuteLog!MayFollow(s, m)
                         /\ topic' = [topic EXCEPT ![s] = Append(@, MinuteLog!Final(m))]
    BY DEF Crash
  <2>1. PICK s \in Symbols : s = cur.symbol
    BY <1>1, CurTypes DEF InHand
  <2>2. PICK m \in Nat : m = Sent.ts
    BY SentMayBeNext
  <2>3. m < now /\ MayBeNext(s, m) /\ Sent = MinuteLog!Final(m)
    BY <2>1, <2>2, SentMayBeNext DEF MinuteLog!Final
  <2>4. MinuteLog!MayFollow(s, m) /\ m \in 0 .. now - 1
    BY <1>1, <2>3, MayFollowLast
  <2> QED
    BY <2>1, <2>3, <2>4
<1>4. MinuteLog!Restart
  BY <1>2, <1>3 DEF MinuteLog!Restart
<1> QED
  BY <1>4 DEF MinuteLog!LogNext

(* The task implements the log of minutes, step by step: a tick advances the
   clock, an acknowledged send appends a minute that may follow, a failed one
   or a short fetch gives minutes up, a crash forgets, and all else stutters. *)
THEOREM ImplementsMinuteLog == Spec => LogSpec
<1>1. Init => MinuteLog!LogInit
  BY DEF Init, MinuteLog!LogInit
<1>2. IngesterInv /\ [Next]_vars => [MinuteLog!LogNext]_(MinuteLog!logVars)
  <2> SUFFICES ASSUME IngesterInv, [Next]_vars
               PROVE  [MinuteLog!LogNext]_(MinuteLog!logVars)
    OBVIOUS
  <2>1. CASE Tick
    BY <2>1 DEF Tick, historyVars, MinuteLog!LogNext, MinuteLog!Advance
  <2>2. CASE Update \/ Drop \/ Start \/ Connect \/ NoticeLoss \/ \E s \in Symbols : Receive(s)
    BY <2>2 DEF Update, Drop, Start, Connect, NoticeLoss, Receive, exchangeVars, historyVars,
                MinuteLog!logVars
  <2>3. CASE UNCHANGED vars
    BY <2>3 DEF vars, MinuteLog!logVars
  <2> QED
    BY <2>1, <2>2, <2>3, FetchGivesUp, PublishAppends, CrashRestarts DEF Next
<1> QED
  BY <1>1, <1>2, IngesterInvariance, PTL DEF Spec, LogSpec, MinuteLog!LogSpec

-----------------------------------------------------------------------------
(* What the log promises, the ingester keeps. *)

Message == [ts : Nat, final : BOOLEAN]

(* The log and what is known of it: shape, and no hole. *)
LogInv ==
    /\ now \in Nat
    /\ topic \in [Symbols -> Seq(Message)]
    /\ firstTs \in [Symbols -> Nat \cup {None}]
    /\ lastTs \in [Symbols -> Nat \cup {None}]
    /\ excused \in [Symbols -> SUBSET Nat]
    /\ \A s \in Symbols : firstTs[s] = None <=> lastTs[s] = None
    /\ MinuteLog!NoHole

MinutesIn(q) == {q[i].ts : i \in 1..Len(q)}

LEMMA ConcatKeepsMinutes ==
    ASSUME NEW S, NEW p \in Seq(S), NEW q \in Seq(S)
    PROVE  /\ p \o q \in Seq(S)
           /\ MinutesIn(p) \subseteq MinutesIn(p \o q)
           /\ MinutesIn(q) \subseteq MinutesIn(p \o q)
<1>1. /\ p \o q \in Seq(S)
      /\ Len(p \o q) = Len(p) + Len(q)
      /\ Len(p) \in Nat /\ Len(q) \in Nat
      /\ \A i \in 1..Len(p) : i \in 1..Len(p \o q) /\ (p \o q)[i] = p[i]
      /\ \A i \in 1..Len(q) : Len(p) + i \in 1..Len(p \o q) /\ (p \o q)[Len(p) + i] = q[i]
  OBVIOUS
<1>2. MinutesIn(p) \subseteq MinutesIn(p \o q)
  BY <1>1 DEF MinutesIn
<1>3. MinutesIn(q) \subseteq MinutesIn(p \o q)
  BY <1>1 DEF MinutesIn
<1> QED
  BY <1>1, <1>2, <1>3

LEMMA FinalTypes ==
    ASSUME NEW m \in Nat
    PROVE  /\ MinuteLog!Final(m) \in Message
           /\ <<MinuteLog!Final(m)>> \in Seq(Message)
           /\ <<MinuteLog!Final(m), MinuteLog!Final(m)>> \in Seq(Message)
           /\ m \in MinutesIn(<<MinuteLog!Final(m)>>)
           /\ m \in MinutesIn(<<MinuteLog!Final(m), MinuteLog!Final(m)>>)
<1> DEFINE e == MinuteLog!Final(m)
<1>1. e \in Message /\ e.ts = m
  BY DEF MinuteLog!Final, Message
<1> HIDE DEF e
<1>2. <<e>> \in Seq(Message) /\ <<e, e>> \in Seq(Message)
  BY <1>1
<1>3. /\ 1 \in 1..Len(<<e>>) /\ <<e>>[1] = e
      /\ 1 \in 1..Len(<<e, e>>) /\ <<e, e>>[1] = e
  OBVIOUS
<1>4. m \in MinutesIn(<<e>>) /\ m \in MinutesIn(<<e, e>>)
  BY <1>1, <1>3, Zenon DEF MinutesIn
<1> QED
  BY <1>1, <1>2, <1>4 DEF e


(* The log of s grows by some copies, the others stay. *)
LEMMA LogGrows ==
    ASSUME topic \in [Symbols -> Seq(Message)], NEW s \in Symbols,
           NEW copies \in Seq(Message), topic' = [topic EXCEPT ![s] = @ \o copies]
    PROVE  /\ topic' \in [Symbols -> Seq(Message)]
           /\ \A u \in Symbols : MinutesIn(topic[u]) \subseteq MinutesIn(topic'[u])
           /\ MinutesIn(copies) \subseteq MinutesIn(topic'[s])
<1>1. topic[s] \o copies \in Seq(Message)
      /\ MinutesIn(topic[s]) \subseteq MinutesIn(topic[s] \o copies)
      /\ MinutesIn(copies) \subseteq MinutesIn(topic[s] \o copies)
  BY ConcatKeepsMinutes
<1>2. topic'[s] = topic[s] \o copies /\ \A u \in Symbols : u # s => topic'[u] = topic[u]
  OBVIOUS
<1>3. topic' \in [Symbols -> Seq(Message)]
  BY <1>1
<1> QED
  BY <1>1, <1>2, <1>3

LEMMA NoHoleIsMinutes ==
    MinuteLog!NoHole <=>
        \A u \in Symbols : firstTs[u] # None =>
            firstTs[u] .. lastTs[u] \subseteq MinutesIn(topic[u]) \cup excused[u]
BY DEF MinuteLog!NoHole, MinuteLog!Minutes, MinutesIn

(* A minute that may follow and is known to be in the log leaves no hole. *)
LEMMA KnownLeavesNoHole ==
    ASSUME LogInv, NEW s \in Symbols, MinuteLog!AppendKnown(s)
    PROVE  LogInv'
<1>1. PICK m \in 0 .. now - 1 :
          /\ MinuteLog!MayFollow(s, m)
          /\ \E copies \in {<<MinuteLog!Final(m)>>, <<MinuteLog!Final(m), MinuteLog!Final(m)>>} :
                topic' = [topic EXCEPT ![s] = @ \o copies]
          /\ firstTs' = [firstTs EXCEPT ![s] = IF @ = None THEN m ELSE @]
          /\ lastTs' = [lastTs EXCEPT ![s] = m]
  BY DEF MinuteLog!AppendKnown
<1>2. PICK copies \in {<<MinuteLog!Final(m)>>, <<MinuteLog!Final(m), MinuteLog!Final(m)>>} :
          topic' = [topic EXCEPT ![s] = @ \o copies]
  BY <1>1
<1>3. UNCHANGED <<now, excused>> /\ m \in Nat /\ None \notin Nat
  BY IngesterAssumption DEF MinuteLog!AppendKnown, LogInv
<1>4. copies \in Seq(Message) /\ m \in MinutesIn(copies)
  BY <1>2, <1>3, FinalTypes
<1>5. /\ topic' \in [Symbols -> Seq(Message)]
      /\ \A u \in Symbols : MinutesIn(topic[u]) \subseteq MinutesIn(topic'[u])
      /\ m \in MinutesIn(topic'[s])
  BY <1>2, <1>4, LogGrows DEF LogInv
<1>6. /\ firstTs' \in [Symbols -> Nat \cup {None}] /\ lastTs' \in [Symbols -> Nat \cup {None}]
      /\ \A u \in Symbols : u # s => firstTs'[u] = firstTs[u] /\ lastTs'[u] = lastTs[u]
      /\ lastTs'[s] = m
      /\ firstTs'[s] = IF firstTs[s] = None THEN m ELSE firstTs[s]
  BY <1>1, <1>3 DEF LogInv
<1>7. ASSUME NEW u \in Symbols, firstTs'[u] # None
      PROVE  firstTs'[u] .. lastTs'[u] \subseteq MinutesIn(topic'[u]) \cup excused'[u]
  <2>1. firstTs[u] # None =>
            firstTs[u] .. lastTs[u] \subseteq MinutesIn(topic[u]) \cup excused[u]
    BY NoHoleIsMinutes DEF LogInv
  <2>2. CASE u # s
    BY <1>3, <1>5, <1>6, <1>7, <2>1, <2>2
  <2>3. CASE u = s /\ firstTs[s] = None
    BY <1>3, <1>5, <1>6, <2>3
  <2>4. CASE u = s /\ firstTs[s] # None
    <3>1. firstTs[s] \in Nat /\ lastTs[s] \in Nat /\ lastTs[s] # None
      BY <1>3, <2>4 DEF LogInv
    <3>2. lastTs[s] < m /\ lastTs[s] + 1 .. m - 1 \subseteq excused[s]
      BY <1>1, <3>1 DEF MinuteLog!MayFollow
    <3>3. \A k \in firstTs[s] .. m :
              k \in firstTs[s] .. lastTs[s] \/ k \in lastTs[s] + 1 .. m - 1 \/ k = m
      BY <1>3, <3>1
    <3> QED
      BY <1>3, <1>5, <1>6, <2>1, <2>4, <3>2, <3>3
  <2> QED
    BY <2>2, <2>3, <2>4
<1>8. MinuteLog!NoHole'
  <2>1. (\A u \in Symbols : firstTs[u] # None =>
            firstTs[u] .. lastTs[u] \subseteq MinutesIn(topic[u]) \cup excused[u])'
    BY <1>7
  <2> QED
    BY <2>1, NoHoleIsMinutes, PTL
<1>9. \A u \in Symbols : firstTs'[u] = None <=> lastTs'[u] = None
  BY <1>3, <1>6 DEF LogInv
<1> QED
  BY <1>3, <1>5, <1>6, <1>8, <1>9 DEF LogInv


(* Growth of the log and of what is given up leaves no hole either. *)
LEMMA GrowthLeavesNoHole ==
    ASSUME LogInv, UNCHANGED <<now, firstTs, lastTs>>,
           topic' \in [Symbols -> Seq(Message)],
           excused' \in [Symbols -> SUBSET Nat],
           \A u \in Symbols : /\ MinutesIn(topic[u]) \subseteq MinutesIn(topic'[u])
                              /\ excused[u] \subseteq excused'[u]
    PROVE  LogInv'
<1>1. ASSUME NEW u \in Symbols, firstTs'[u] # None
      PROVE  firstTs'[u] .. lastTs'[u] \subseteq MinutesIn(topic'[u]) \cup excused'[u]
  <2>1. firstTs[u] .. lastTs[u] \subseteq MinutesIn(topic[u]) \cup excused[u]
    BY <1>1, NoHoleIsMinutes DEF LogInv
  <2> QED
    BY <2>1
<1>2. MinuteLog!NoHole'
  <2>1. (\A u \in Symbols : firstTs[u] # None =>
            firstTs[u] .. lastTs[u] \subseteq MinutesIn(topic[u]) \cup excused[u])'
    BY <1>1
  <2> QED
    BY <2>1, NoHoleIsMinutes, PTL
<1> QED
  BY <1>2 DEF LogInv

LEMMA UnknownLeavesNoHole ==
    ASSUME LogInv, NEW s \in Symbols, MinuteLog!AppendUnknown(s)
    PROVE  LogInv'
<1>1. PICK m \in 0 .. now - 1 :
          /\ topic' = [topic EXCEPT ![s] = Append(@, MinuteLog!Final(m))]
          /\ excused' = [excused EXCEPT ![s] = @ \cup {m}]
  BY DEF MinuteLog!AppendUnknown
<1>2. UNCHANGED <<now, firstTs, lastTs>> /\ m \in Nat
  BY DEF MinuteLog!AppendUnknown, LogInv
<1>3. excused' \in [Symbols -> SUBSET Nat] /\ \A u \in Symbols : excused[u] \subseteq excused'[u]
  BY <1>1, <1>2 DEF LogInv
<1>4. MinuteLog!Final(m) \in Message /\ <<MinuteLog!Final(m)>> \in Seq(Message)
      /\ topic \in [Symbols -> Seq(Message)] /\ topic[s] \in Seq(Message)
  BY <1>2, FinalTypes DEF LogInv
<1>5. Append(topic[s], MinuteLog!Final(m)) = topic[s] \o <<MinuteLog!Final(m)>>
  BY <1>4, AppendIsConcat
<1>6. topic' = [topic EXCEPT ![s] = @ \o <<MinuteLog!Final(m)>>]
  BY <1>1, <1>5
<1>7. /\ topic' \in [Symbols -> Seq(Message)]
      /\ \A u \in Symbols : MinutesIn(topic[u]) \subseteq MinutesIn(topic'[u])
  BY <1>4, <1>6, LogGrows
<1> QED
  BY <1>2, <1>3, <1>7, GrowthLeavesNoHole

LEMMA GivingUpLeavesNoHole ==
    ASSUME LogInv, NEW s \in Symbols, MinuteLog!GiveUp(s)
    PROVE  LogInv'
<1>1. PICK minutes \in SUBSET {m \in 0 .. now - 1 : lastTs[s] = None \/ lastTs[s] < m} :
          excused' = [excused EXCEPT ![s] = @ \cup minutes]
  BY DEF MinuteLog!GiveUp
<1>2. UNCHANGED <<now, topic, firstTs, lastTs>> /\ minutes \subseteq Nat
  BY DEF MinuteLog!GiveUp, LogInv
<1>3. excused' \in [Symbols -> SUBSET Nat] /\ \A u \in Symbols : excused[u] \subseteq excused'[u]
  BY <1>1, <1>2 DEF LogInv
<1> QED
  BY <1>2, <1>3, GrowthLeavesNoHole DEF LogInv

LEMMA RestartLeavesNoHole ==
    ASSUME LogInv, MinuteLog!Restart
    PROVE  LogInv'
<1>1. /\ now' = now
      /\ firstTs' = [u \in Symbols |-> None] /\ lastTs' = [u \in Symbols |-> None]
      /\ excused' = [u \in Symbols |-> {}]
  BY DEF MinuteLog!Restart
<1>2. topic' \in [Symbols -> Seq(Message)]
  <2>1. CASE topic' = topic
    BY <2>1 DEF LogInv
  <2>2. CASE \E s \in Symbols, m \in 0 .. now - 1 :
                topic' = [topic EXCEPT ![s] = Append(@, MinuteLog!Final(m))]
    <3>1. PICK s \in Symbols, m \in 0 .. now - 1 :
              topic' = [topic EXCEPT ![s] = Append(@, MinuteLog!Final(m))]
      BY <2>2
    <3>2. MinuteLog!Final(m) \in Message /\ topic[s] \in Seq(Message)
          /\ topic \in [Symbols -> Seq(Message)]
      <4>1. m \in Nat
        BY DEF LogInv
      <4> QED
        BY <4>1, FinalTypes DEF LogInv
    <3>3. Append(topic[s], MinuteLog!Final(m)) \in Seq(Message)
      BY <3>2
    <3> QED
      BY <3>1, <3>2, <3>3
  <2> QED
    BY <2>1, <2>2 DEF MinuteLog!Restart
<1>3. (\A u \in Symbols : firstTs[u] # None =>
          firstTs[u] .. lastTs[u] \subseteq MinutesIn(topic[u]) \cup excused[u])'
  BY <1>1
<1>4. MinuteLog!NoHole'
  BY <1>3, NoHoleIsMinutes, PTL
<1> QED
  BY <1>1, <1>2, <1>4 DEF LogInv

(* The abstract log alone has no hole but what was given up. *)
THEOREM LogHasNoHole == LogSpec => []MinuteLog!NoHole
<1>1. MinuteLog!LogInit => LogInv
  <2> SUFFICES ASSUME MinuteLog!LogInit
               PROVE  LogInv
    OBVIOUS
  <2>1. <<>> \in Seq(Message)
    OBVIOUS
  <2>2. topic \in [Symbols -> Seq(Message)]
    BY <2>1 DEF MinuteLog!LogInit
  <2> QED
    BY <2>2 DEF MinuteLog!LogInit, LogInv, MinuteLog!NoHole
<1>2. LogInv /\ [MinuteLog!LogNext]_(MinuteLog!logVars) => LogInv'
  <2> SUFFICES ASSUME LogInv, [MinuteLog!LogNext]_(MinuteLog!logVars)
               PROVE  LogInv'
    OBVIOUS
  <2>1. CASE UNCHANGED MinuteLog!logVars
    BY <2>1 DEF MinuteLog!logVars, LogInv, MinuteLog!NoHole, MinuteLog!Minutes
  <2>2. CASE MinuteLog!Advance
    BY <2>2 DEF MinuteLog!Advance, LogInv, MinuteLog!NoHole, MinuteLog!Minutes
  <2> QED
    BY <2>1, <2>2, KnownLeavesNoHole, UnknownLeavesNoHole, GivingUpLeavesNoHole,
       RestartLeavesNoHole DEF MinuteLog!LogNext
<1>3. LogInv => MinuteLog!NoHole
  BY DEF LogInv
<1> QED
  BY <1>1, <1>2, <1>3, PTL DEF LogSpec, MinuteLog!LogSpec

(* Between the first and the last candle a process got acknowledged nothing is
   missing but what it gave up: whatever is lost with connections, the heal
   brings back, because the ingester implements the log and the log has no
   hole. *)
THEOREM IngesterHasNoHole == Spec => []NoUnexplainedGap
<1>1. MinuteLog!NoHole <=> NoUnexplainedGap
  BY DEF MinuteLog!NoHole, MinuteLog!Minutes, NoUnexplainedGap, Published
<1> QED
  BY <1>1, ImplementsMinuteLog, LogHasNoHole, PTL

=============================================================================
