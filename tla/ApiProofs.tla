------------------------------ MODULE ApiProofs ------------------------------
(***************************************************************************)
(* Proofs about the requests of the API, for any requests, pool, semaphore *)
(* and executor: no connection or permit is lost or given back twice, and  *)
(* no queue serves a request that is over.                                 *)
(***************************************************************************)
EXTENDS ApiBacktest, FiniteSetTheorems, SequenceTheorems, TLAPS

-----------------------------------------------------------------------------
(* The inductive invariant, part by part. *)

States == {"new", "connecting", "querying", "waiting", "running"} \cup Answers

Shape ==
    /\ app \in {"starting", "serving", "draining", "stopped"}
    /\ state \in [Requests -> States]
    /\ thread \in [Requests -> {"none", "queued", "computing", "finished"}]
    /\ freeConns \in Nat
    /\ permits \in Nat
    /\ connQueue \in Seq(Requests)
    /\ semQueue \in Seq(Requests)

(* No one stands in the queue twice. *)
Distinct(queue) == \A i, j \in 1..Len(queue) : queue[i] = queue[j] => i = j

(* The queue holds those whose handlers wait for it, each of them once. *)
QueueOf(queue, where) ==
    Distinct(queue) /\ ToSet(queue) = {r \in Requests : state[r] = where}

Queues == QueueOf(connQueue, "connecting") /\ QueueOf(semQueue, "waiting")

(* A thread is asked for by a request that holds a permit, and is computing for
   it or for one that timed out. *)
Threads ==
    \A r \in Requests :
        /\ thread[r] = "queued" => state[r] = "running"
        /\ thread[r] = "computing" => state[r] \in {"running", "unavailable"}

ApiInv == Shape /\ Queues /\ Threads /\ NothingLeaks

-----------------------------------------------------------------------------
(* What is done to a queue. *)

(* A request that joins a queue it does not stand in. *)
LEMMA Joins ==
    ASSUME NEW S, NEW q \in Seq(S), Distinct(q), NEW x \in S, x \notin ToSet(q)
    PROVE  /\ Append(q, x) \in Seq(S)
           /\ Distinct(Append(q, x))
           /\ ToSet(Append(q, x)) = ToSet(q) \cup {x}
  <1>1. /\ Append(q, x) \in Seq(S)
        /\ Len(q) \in Nat
        /\ Len(Append(q, x)) = Len(q) + 1
        /\ \A i \in 1..Len(q) : Append(q, x)[i] = q[i]
        /\ Append(q, x)[Len(q) + 1] = x
    OBVIOUS
  <1>2. \A i \in 1..Len(q) : q[i] # x
    BY DEF ToSet
  <1>3. Distinct(Append(q, x))
    BY <1>1, <1>2 DEF Distinct
  <1>4. DOMAIN Append(q, x) = 1..Len(q) + 1 /\ DOMAIN q = 1..Len(q)
    BY <1>1
  <1>5. ToSet(Append(q, x)) = ToSet(q) \cup {x}
    <2>1. ASSUME NEW y \in ToSet(Append(q, x))
          PROVE  y \in ToSet(q) \cup {x}
      <3>1. PICK i \in 1..Len(q) + 1 : y = Append(q, x)[i]
        BY <1>4 DEF ToSet
      <3> QED
        BY <1>1, <1>4, <3>1 DEF ToSet
    <2>2. ASSUME NEW y \in ToSet(q) \cup {x}
          PROVE  y \in ToSet(Append(q, x))
      <3>1. CASE y = x
        BY <1>1, <1>4, <3>1 DEF ToSet
      <3>2. CASE y \in ToSet(q)
        <4>1. PICK i \in 1..Len(q) : y = q[i]
          BY <1>4, <3>2 DEF ToSet
        <4>2. i \in DOMAIN Append(q, x) /\ Append(q, x)[i] = y
          BY <1>1, <1>4, <4>1
        <4> QED
          BY <4>2 DEF ToSet
      <3> QED
        BY <3>1, <3>2
    <2> QED
      BY <2>1, <2>2
  <1> QED
    BY <1>1, <1>3, <1>5

(* rest is q without the one at index i. *)
LeftAt(q, i, rest) ==
    /\ Len(rest) = Len(q) - 1
    /\ \A j \in 1..Len(rest) : rest[j] = IF j < i THEN q[j] ELSE q[j + 1]

(* The one at index i leaves. *)
LEMMA LeavesAt ==
    ASSUME NEW S, NEW q \in Seq(S), Distinct(q), NEW i \in 1..Len(q),
           NEW rest \in Seq(S), LeftAt(q, i, rest)
    PROVE  Distinct(rest) /\ ToSet(rest) = ToSet(q) \ {q[i]}
  <1>1. /\ Len(q) \in Nat /\ Len(rest) \in Nat /\ i \in Int
        /\ Len(rest) = Len(q) - 1
        /\ \A j \in 1..Len(rest) : rest[j] = IF j < i THEN q[j] ELSE q[j + 1]
    BY DEF LeftAt
  <1>2. Distinct(rest)
    <2> SUFFICES ASSUME NEW j \in 1..Len(rest), NEW k \in 1..Len(rest), rest[j] = rest[k]
                 PROVE  j = k
      BY DEF Distinct
    <2> DEFINE at(n) == IF n < i THEN n ELSE n + 1
    <2>1. /\ at(j) \in 1..Len(q) /\ rest[j] = q[at(j)]
          /\ at(k) \in 1..Len(q) /\ rest[k] = q[at(k)]
      BY <1>1
    <2>2. at(j) = at(k)
      BY <2>1 DEF Distinct
    <2> QED
      BY <1>1, <2>2
  <1>3. DOMAIN rest = 1..Len(rest) /\ DOMAIN q = 1..Len(q)
    OBVIOUS
  <1>4. ASSUME NEW y \in ToSet(rest)
        PROVE  y \in ToSet(q) \ {q[i]}
    <2>1. PICK j \in 1..Len(rest) : y = rest[j]
      BY <1>3 DEF ToSet
    <2>2. PICK k \in 1..Len(q) : k # i /\ y = q[k]
      <3>1. CASE j < i
        BY <1>1, <2>1, <3>1
      <3>2. CASE ~(j < i)
        <4>1. j + 1 \in 1..Len(q) /\ j + 1 # i /\ y = q[j + 1]
          BY <1>1, <2>1, <3>2
        <4> QED
          BY <4>1
      <3> QED
        BY <3>1, <3>2
    <2> QED
      BY <1>3, <2>2 DEF ToSet, Distinct
  <1>5. ASSUME NEW y \in ToSet(q) \ {q[i]}
        PROVE  y \in ToSet(rest)
    <2>1. PICK k \in 1..Len(q) : y = q[k] /\ k # i
      BY <1>3 DEF ToSet
    <2>2. CASE k < i
      <3>1. k \in 1..Len(rest) /\ rest[k] = y
        BY <1>1, <2>1, <2>2
      <3> QED
        BY <1>3, <3>1 DEF ToSet
    <2>3. CASE k > i
      <3>1. k - 1 \in 1..Len(rest) /\ rest[k - 1] = y
        BY <1>1, <2>1, <2>3
      <3> QED
        BY <1>3, <3>1 DEF ToSet
    <2> QED
      BY <1>1, <2>1, <2>2, <2>3
  <1> QED
    BY <1>2, <1>4, <1>5

(* The first one is served. *)
LEMMA Served ==
    ASSUME NEW S, NEW q \in Seq(S), Distinct(q), q # <<>>
    PROVE  /\ Tail(q) \in Seq(S)
           /\ Head(q) \in ToSet(q)
           /\ Distinct(Tail(q))
           /\ ToSet(Tail(q)) = ToSet(q) \ {Head(q)}
  <1>1. /\ Tail(q) \in Seq(S)
        /\ Len(Tail(q)) = Len(q) - 1
        /\ 1 \in 1..Len(q)
        /\ \A j \in 1..Len(Tail(q)) : Tail(q)[j] = IF j < 1 THEN q[j] ELSE q[j + 1]
        /\ Head(q) = q[1]
    OBVIOUS
  <1>2. Head(q) \in ToSet(q)
    BY <1>1 DEF ToSet
  <1>3. LeftAt(q, 1, Tail(q))
    BY <1>1 DEF LeftAt
  <1>4. ASSUME NEW i \in 1..Len(q), i = 1
        PROVE  Distinct(Tail(q)) /\ ToSet(Tail(q)) = ToSet(q) \ {q[i]}
    <2>1. LeftAt(q, i, Tail(q))
      BY <1>3, <1>4
    <2>2. Tail(q) \in Seq(S)
      BY <1>1
    <2> QED
      BY <2>1, <2>2, LeavesAt
  <1> QED
    BY <1>1, <1>2, <1>4

(* One who gives up leaves. *)
LEMMA GivesUp ==
    ASSUME NEW S, NEW q \in Seq(S), Distinct(q), NEW x
    PROVE  /\ Without(q, x) \in Seq(S)
           /\ Distinct(Without(q, x))
           /\ ToSet(Without(q, x)) = ToSet(q) \ {x}
  <1>1. CASE Contains(q, x)
    <2> DEFINE i == CHOOSE j \in 1..Len(q) : q[j] = x
    <2>1. i \in 1..Len(q) /\ q[i] = x
      BY <1>1 DEF Contains
    <2>2. Without(q, x) = SubSeq(q, 1, i - 1) \o SubSeq(q, i + 1, Len(q))
      BY <1>1 DEF Without, RemoveAt
    <2> HIDE DEF i
    <2> DEFINE before == SubSeq(q, 1, i - 1)
               after == SubSeq(q, i + 1, Len(q))
               rest == before \o after
    <2>3. /\ before \in Seq(S)
          /\ after \in Seq(S)
          /\ Len(before) = i - 1
          /\ Len(after) = Len(q) - i
          /\ \A j \in 1..i - 1 : before[j] = q[j]
          /\ \A j \in 1..Len(q) - i : after[j] = q[i + j]
      BY <2>1
    <2> HIDE DEF before, after
    <2>4. /\ rest \in Seq(S)
          /\ Len(rest) = Len(before) + Len(after)
          /\ \A j \in 1..Len(before) + Len(after) :
                rest[j] = IF j <= Len(before) THEN before[j] ELSE after[j - Len(before)]
      BY <2>3, ConcatProperties
    <2> HIDE DEF rest
    <2>5. Len(rest) = Len(q) - 1
      BY <2>1, <2>3, <2>4
    <2>6. ASSUME NEW j \in 1..Len(rest)
          PROVE  rest[j] = IF j < i THEN q[j] ELSE q[j + 1]
      <3>1. CASE j < i
        BY <2>1, <2>3, <2>4, <2>5, <3>1
      <3>2. CASE ~(j < i)
        <4>1. j - (i - 1) \in 1..Len(q) - i /\ i + (j - (i - 1)) = j + 1
          BY <2>1, <2>5, <3>2
        <4>2. rest[j] = after[j - (i - 1)]
          BY <2>1, <2>3, <2>4, <2>5, <3>2
        <4> QED
          BY <2>3, <3>2, <4>1, <4>2
      <3> QED
        BY <3>1, <3>2
    <2>7. LeftAt(q, i, rest)
      BY <2>5, <2>6 DEF LeftAt
    <2>8. Distinct(rest) /\ ToSet(rest) = ToSet(q) \ {q[i]}
      BY <2>1, <2>4, <2>7, LeavesAt
    <2> QED
      BY <2>1, <2>2, <2>4, <2>8 DEF rest, before, after
  <1>2. CASE ~Contains(q, x)
    <2>1. Without(q, x) = q
      BY <1>2 DEF Without
    <2>2. x \notin ToSet(q)
      BY <1>2 DEF Contains, ToSet
    <2> QED
      BY <2>1, <2>2
  <1> QED
    BY <1>1, <1>2

-----------------------------------------------------------------------------
(* What a handler's move does to the sets of handlers. *)

(* The requests whose handlers are at one of these places. *)
At(places) == {r \in Requests : state[r] \in places}

(* A handler that moves joins the set of those at its new place, and leaves
   that of those at its old one. *)
LEMMA AtMoves ==
    ASSUME Shape, NEW r \in Requests, NEW where \in States, Goto(r, where), NEW places
    PROVE  /\ Shape => state' \in [Requests -> States]
           /\ state'[r] = where
           /\ \A q \in Requests \ {r} : state'[q] = state[q]
           /\ At(places)' = IF where \in places THEN At(places) \cup {r} ELSE At(places) \ {r}
  BY DEF Goto, Shape, At

(* So it is counted there, and no longer here. *)
LEMMA CountMoves ==
    ASSUME Shape, NEW r \in Requests, NEW where \in States, Goto(r, where), NEW places
    PROVE  /\ Cardinality(At(places)) \in Nat
           /\ Cardinality(At(places)') = Cardinality(At(places))
                 + (IF where \in places THEN 1 ELSE 0)
                 - (IF state[r] \in places THEN 1 ELSE 0)
  <1>1. IsFiniteSet(At(places))
    BY ApiAssumption, FS_Subset DEF At
  <1>2. r \in At(places) <=> state[r] \in places
    BY DEF At
  <1>3. Cardinality(At(places)) \in Nat
    BY <1>1, FS_CardinalityType
  <1>4. CASE where \in places
    <2>1. At(places)' = At(places) \cup {r}
      BY <1>4, AtMoves
    <2>2. Cardinality(At(places) \cup {r}) =
             IF r \in At(places) THEN Cardinality(At(places)) ELSE Cardinality(At(places)) + 1
      BY <1>1, FS_AddElement
    <2> QED
      BY <1>2, <1>3, <1>4, <2>1, <2>2
  <1>5. CASE where \notin places
    <2>1. At(places)' = At(places) \ {r}
      BY <1>5, AtMoves
    <2>2. Cardinality(At(places) \ {r}) =
             IF r \in At(places) THEN Cardinality(At(places)) - 1 ELSE Cardinality(At(places))
      BY <1>1, FS_RemoveElement
    <2> QED
      BY <1>2, <1>3, <1>5, <2>1, <2>2
  <1> QED
    BY <1>4, <1>5

(* What a handler holds at a place. *)
Conns(place) == IF place \in {"querying", "waiting", "running"} THEN 1 ELSE 0
Permits(place) == IF place = "running" THEN 1 ELSE 0

(* Nothing leaks if a move takes from the pool and the semaphore what the
   handler holds at its new place and did not at its old one, and gives back
   the difference the other way round. *)
LEMMA Balances ==
    ASSUME Shape, NothingLeaks, NEW r \in Requests, NEW where \in States, Goto(r, where),
           freeConns' = freeConns + Conns(state[r]) - Conns(where),
           permits' = permits + Permits(state[r]) - Permits(where)
    PROVE  NothingLeaks'
  <1>1. /\ Cardinality(Connected) \in Nat
        /\ Cardinality(Connected') = Cardinality(Connected) + Conns(where) - Conns(state[r])
    <2>1. Connected = At({"querying", "waiting", "running"})
      BY DEF Connected, At
    <2>2. Connected' = At({"querying", "waiting", "running"})'
      BY DEF Connected, At
    <2> QED
      BY <2>1, <2>2, CountMoves DEF Conns
  <1>2. /\ Cardinality(Running) \in Nat
        /\ Cardinality(Running') = Cardinality(Running) + Permits(where) - Permits(state[r])
    <2>1. Running = At({"running"})
      BY DEF Running, At
    <2>2. Running' = At({"running"})'
      BY DEF Running, At
    <2> QED
      BY <2>1, <2>2, CountMoves DEF Permits
  <1> QED
    BY <1>1, <1>2, ApiAssumption DEF NothingLeaks, Shape, Conns, Permits

(* The same of what is a queue after the move. *)
QueueAfter(queue, where) ==
    Distinct(queue) /\ ToSet(queue) = {r \in Requests : state'[r] = where}

(* A queue that a move is not about, of those at another place. *)
LEMMA QueueStays ==
    ASSUME Shape, NEW r \in Requests, NEW where \in States, Goto(r, where),
           NEW queue, NEW place, QueueOf(queue, place), state[r] # place, where # place
    PROVE  QueueAfter(queue, place)
  BY AtMoves DEF QueueOf, QueueAfter, Shape

(* A queue that the handler joins. *)
LEMMA QueueJoined ==
    ASSUME Shape, NEW r \in Requests, NEW where \in States, Goto(r, where),
           NEW queue \in Seq(Requests), QueueOf(queue, where), state[r] # where
    PROVE  /\ Append(queue, r) \in Seq(Requests)
           /\ QueueAfter(Append(queue, r), where)
  BY AtMoves, Joins DEF QueueOf, QueueAfter

(* A queue that the handler leaves. *)
LEMMA QueueLeft ==
    ASSUME Shape, NEW r \in Requests, NEW where \in States, Goto(r, where),
           NEW queue, NEW rest, NEW place, QueueOf(queue, place), where # place,
           Distinct(rest), ToSet(rest) = ToSet(queue) \ {r}
    PROVE  QueueAfter(rest, place)
  BY AtMoves DEF QueueOf, QueueAfter

-----------------------------------------------------------------------------
(* The invariant *)

(* The threads stay in order when a handler moves that has none asked for or
   computing, or goes where those that have may be. *)
LEMMA ThreadsStay ==
    ASSUME Shape, Threads, NEW r \in Requests, NEW where \in States, Goto(r, where),
           \A q \in Requests \ {r} : thread'[q] = thread[q],
           thread'[r] = "queued" => where = "running",
           thread'[r] = "computing" => where \in {"running", "unavailable"}
    PROVE  Threads'
  BY AtMoves DEF Threads

(* The life of the application and the threads touch neither the handlers nor
   what they hold. *)
LEMMA HandlersStay ==
    ASSUME ApiInv, UNCHANGED <<state, freeConns, connQueue, permits, semQueue>>,
           Shape', Threads'
    PROVE  ApiInv'
  BY DEF ApiInv, Queues, QueueOf, NothingLeaks, Connected, Running

(* A request arrives. *)
LEMMA ArriveInv ==
    ASSUME ApiInv, NEW r \in Requests, Arrive(r)
    PROVE  ApiInv'
  <1> USE DEF ApiInv
  <1>1. /\ state[r] = "new"
        /\ Goto(r, "connecting")
        /\ connQueue' = Append(connQueue, r)
        /\ UNCHANGED <<app, thread, freeConns, permits, semQueue>>
        /\ "connecting" \in States
    BY DEF Arrive, States
  <1>2. NothingLeaks'
    BY <1>1, Balances DEF Shape, Conns, Permits
  <1>3. QueueAfter(Append(connQueue, r), "connecting") /\ Append(connQueue, r) \in Seq(Requests)
    BY <1>1, QueueJoined DEF Queues, Shape, QueueAfter
  <1>4. QueueAfter(semQueue, "waiting")
    BY <1>1, QueueStays DEF Queues, QueueAfter
  <1>5. Queues'
    BY <1>1, <1>3, <1>4 DEF Queues, QueueOf, QueueAfter
  <1>6. Shape'
    BY <1>1, <1>3, AtMoves DEF Shape
  <1>7. Threads'
    BY <1>1, ThreadsStay DEF Threads
  <1> QED
    BY <1>2, <1>5, <1>6, <1>7

(* The first in the queue gets a connection. *)
LEMMA GetConnInv ==
    ASSUME ApiInv, NEW r \in Requests, GetConn(r)
    PROVE  ApiInv'
  <1> USE DEF ApiInv
  <1>1. /\ connQueue # <<>> /\ Head(connQueue) = r
        /\ freeConns > 0
        /\ freeConns' = freeConns - 1
        /\ connQueue' = Tail(connQueue)
        /\ Goto(r, "querying")
        /\ UNCHANGED <<app, thread, permits, semQueue>>
        /\ "querying" \in States
    BY DEF GetConn, States
  <1>2. /\ Tail(connQueue) \in Seq(Requests)
        /\ Distinct(Tail(connQueue))
        /\ ToSet(Tail(connQueue)) = ToSet(connQueue) \ {r}
        /\ r \in ToSet(connQueue)
    BY <1>1, Served DEF Queues, QueueOf, Shape
  <1>3. state[r] = "connecting"
    BY <1>2 DEF Queues, QueueOf, QueueAfter
  <1>4. NothingLeaks'
    BY <1>1, <1>3, Balances DEF Shape, Conns, Permits
  <1>5. QueueAfter(Tail(connQueue), "connecting")
    BY <1>1, <1>2, QueueLeft DEF Queues, QueueAfter
  <1>6. QueueAfter(semQueue, "waiting")
    BY <1>1, <1>3, QueueStays DEF Queues, QueueAfter
  <1>7. Queues'
    BY <1>1, <1>5, <1>6 DEF Queues, QueueOf, QueueAfter
  <1>8. Shape'
    BY <1>1, <1>2, AtMoves DEF Shape
  <1>9. Threads'
    BY <1>1, <1>3, ThreadsStay DEF Threads
  <1> QED
    BY <1>4, <1>7, <1>8, <1>9

(* The pool gives up on a request, wherever it stands in the queue. *)
LEMMA PoolTimesOutInv ==
    ASSUME ApiInv, NEW r \in Requests, PoolTimesOut(r)
    PROVE  ApiInv'
  <1> USE DEF ApiInv
  <1>1. /\ state[r] = "connecting"
        /\ connQueue' = Without(connQueue, r)
        /\ Goto(r, "unavailable")
        /\ UNCHANGED <<app, thread, freeConns, permits, semQueue>>
        /\ "unavailable" \in States
    BY DEF PoolTimesOut, States, Answers
  <1>2. /\ Without(connQueue, r) \in Seq(Requests)
        /\ Distinct(Without(connQueue, r))
        /\ ToSet(Without(connQueue, r)) = ToSet(connQueue) \ {r}
    BY GivesUp DEF Queues, QueueOf, Shape
  <1>3. NothingLeaks'
    BY <1>1, Balances DEF Shape, Conns, Permits
  <1>4. QueueAfter(Without(connQueue, r), "connecting")
    BY <1>1, <1>2, QueueLeft DEF Queues, QueueAfter
  <1>5. QueueAfter(semQueue, "waiting")
    BY <1>1, QueueStays DEF Queues, QueueAfter
  <1>6. Queues'
    BY <1>1, <1>4, <1>5 DEF Queues, QueueOf, QueueAfter
  <1>7. Shape'
    BY <1>1, <1>2, AtMoves DEF Shape
  <1>8. Threads'
    BY <1>1, ThreadsStay DEF Threads
  <1> QED
    BY <1>3, <1>6, <1>7, <1>8

(* A handler that stands in no queue is answered. *)
LEMMA AnswerInv ==
    ASSUME ApiInv, NEW r \in Requests, state[r] \in {"querying", "running"},
           NEW answer \in Answers, Answer(r, answer),
           permits' = permits + Permits(state[r]),
           UNCHANGED <<app, connQueue, semQueue>>,
           thread' \in [Requests -> {"none", "queued", "computing", "finished"}],
           \A q \in Requests \ {r} : thread'[q] = thread[q],
           thread'[r] # "queued",
           thread'[r] = "computing" => answer = "unavailable"
    PROVE  ApiInv'
  <1> USE DEF ApiInv
  <1>1. /\ Goto(r, answer)
        /\ freeConns' = freeConns + 1
        /\ answer \in States
        /\ answer \notin {"connecting", "querying", "waiting", "running"}
    BY DEF Answer, Answers, States
  <1>2. NothingLeaks'
    BY <1>1, Balances DEF Shape, Conns, Permits
  <1>3. QueueAfter(connQueue, "connecting") /\ QueueAfter(semQueue, "waiting")
    BY <1>1, QueueStays DEF Queues, QueueAfter
  <1>4. Shape'
    BY <1>1, AtMoves DEF Shape, Permits
  <1>5. Threads'
    BY <1>1, ThreadsStay
  <1> QED
    BY <1>2, <1>3, <1>4, <1>5 DEF Queues, QueueOf, QueueAfter

(* The candles are there and a permit is asked for. *)
LEMMA QueryDoneInv ==
    ASSUME ApiInv, NEW r \in Requests, QueryDone(r)
    PROVE  ApiInv'
  <1> USE DEF ApiInv
  <1>1. /\ state[r] = "querying"
        /\ Goto(r, "waiting")
        /\ semQueue' = Append(semQueue, r)
        /\ UNCHANGED <<app, thread, freeConns, permits, connQueue>>
        /\ "waiting" \in States
    BY DEF QueryDone, States
  <1>2. NothingLeaks'
    BY <1>1, Balances DEF Shape, Conns, Permits
  <1>3. QueueAfter(Append(semQueue, r), "waiting") /\ Append(semQueue, r) \in Seq(Requests)
    BY <1>1, QueueJoined DEF Queues, Shape, QueueAfter
  <1>4. QueueAfter(connQueue, "connecting")
    BY <1>1, QueueStays DEF Queues, QueueAfter
  <1>5. Queues'
    BY <1>1, <1>3, <1>4 DEF Queues, QueueOf, QueueAfter
  <1>6. Shape'
    BY <1>1, <1>3, AtMoves DEF Shape
  <1>7. Threads'
    BY <1>1, ThreadsStay DEF Threads
  <1> QED
    BY <1>2, <1>5, <1>6, <1>7

(* The first in the queue gets a permit, and a thread is asked for. *)
LEMMA AcquireInv ==
    ASSUME ApiInv, NEW r \in Requests, Acquire(r)
    PROVE  ApiInv'
  <1> USE DEF ApiInv
  <1>1. /\ semQueue # <<>> /\ Head(semQueue) = r
        /\ permits > 0
        /\ permits' = permits - 1
        /\ semQueue' = Tail(semQueue)
        /\ Goto(r, "running")
        /\ thread' = [thread EXCEPT ![r] = "queued"]
        /\ UNCHANGED <<app, freeConns, connQueue>>
        /\ "running" \in States
    BY DEF Acquire, States
  <1>2. /\ Tail(semQueue) \in Seq(Requests)
        /\ Distinct(Tail(semQueue))
        /\ ToSet(Tail(semQueue)) = ToSet(semQueue) \ {r}
        /\ r \in ToSet(semQueue)
    BY <1>1, Served DEF Queues, QueueOf, Shape
  <1>3. state[r] = "waiting"
    BY <1>2 DEF Queues, QueueOf, QueueAfter
  <1>4. NothingLeaks'
    BY <1>1, <1>3, Balances DEF Shape, Conns, Permits
  <1>5. QueueAfter(Tail(semQueue), "waiting")
    BY <1>1, <1>2, QueueLeft DEF Queues, QueueAfter
  <1>6. QueueAfter(connQueue, "connecting")
    BY <1>1, <1>3, QueueStays DEF Queues, QueueAfter
  <1>7. Queues'
    BY <1>1, <1>5, <1>6 DEF Queues, QueueOf, QueueAfter
  <1>8. Shape'
    BY <1>1, <1>2, AtMoves DEF Shape
  <1>9. Threads'
    BY <1>1, ThreadsStay DEF Shape
  <1> QED
    BY <1>4, <1>7, <1>8, <1>9

(* The timeout of a backtest that waits for a permit, or has one. *)
LEMMA TimesOutInv ==
    ASSUME ApiInv, NEW r \in Requests, TimesOut(r)
    PROVE  ApiInv'
  <1> USE DEF ApiInv
  <1>1. CASE state[r] = "waiting"
    <2>1. /\ semQueue' = Without(semQueue, r)
          /\ Goto(r, "unavailable")
          /\ freeConns' = freeConns + 1
          /\ UNCHANGED <<app, thread, permits, connQueue>>
          /\ "unavailable" \in States
      BY <1>1 DEF TimesOut, Answer, States, Answers
    <2>2. /\ Without(semQueue, r) \in Seq(Requests)
          /\ Distinct(Without(semQueue, r))
          /\ ToSet(Without(semQueue, r)) = ToSet(semQueue) \ {r}
      BY GivesUp DEF Queues, QueueOf, Shape
    <2>3. NothingLeaks'
      BY <1>1, <2>1, Balances DEF Shape, Conns, Permits
    <2>4. QueueAfter(Without(semQueue, r), "waiting")
      BY <2>1, <2>2, QueueLeft DEF Queues, QueueAfter
    <2>5. QueueAfter(connQueue, "connecting")
      BY <1>1, <2>1, QueueStays DEF Queues, QueueAfter
    <2>6. Queues'
      BY <2>1, <2>4, <2>5 DEF Queues, QueueOf, QueueAfter
    <2>7. Shape'
      BY <2>1, <2>2, AtMoves DEF Shape
    <2>8. Threads'
      BY <1>1, <2>1, ThreadsStay DEF Threads
    <2> QED
      BY <2>3, <2>6, <2>7, <2>8
  <1>2. CASE state[r] = "running"
    <2>1. /\ permits' = permits + Permits(state[r])
          /\ thread' = [thread EXCEPT ![r] = IF @ = "queued" THEN "none" ELSE @]
          /\ Answer(r, "unavailable")
          /\ UNCHANGED <<app, connQueue, semQueue>>
          /\ "unavailable" \in Answers
      BY <1>2 DEF TimesOut, Permits, Answers
    <2>2. /\ thread' \in [Requests -> {"none", "queued", "computing", "finished"}]
          /\ \A q \in Requests \ {r} : thread'[q] = thread[q]
          /\ thread'[r] # "queued"
      BY <2>1 DEF Shape
    <2> QED
      BY <1>2, <2>1, <2>2, AnswerInv
  <1> QED
    BY <1>1, <1>2 DEF TimesOut

(* A step keeps the invariant. *)
LEMMA NextApiInv == ApiInv /\ [Next]_vars => ApiInv'
  <1> SUFFICES ASSUME ApiInv, [Next]_vars
               PROVE  ApiInv'
    OBVIOUS
  <1>1. CASE OpenPool \/ Drain \/ ClosePool \/ UNCHANGED vars
    <2>1. /\ UNCHANGED <<state, thread, freeConns, connQueue, permits, semQueue>>
          /\ app' \in {"starting", "serving", "draining", "stopped"}
      BY <1>1 DEF OpenPool, Drain, ClosePool, vars, ApiInv, Shape
    <2> QED
      BY <2>1, HandlersStay DEF ApiInv, Shape, Threads
  <1>2. ASSUME NEW r \in Requests, ReadEnds(r) \/ QueryRefused(r)
        PROVE  ApiInv'
    <2>1. PICK answer \in Answers : Answer(r, answer)
      BY <1>2 DEF ReadEnds, QueryRefused, Answers
    <2>2. /\ state[r] = "querying"
          /\ UNCHANGED <<app, thread, connQueue, permits, semQueue>>
      BY <1>2 DEF ReadEnds, QueryRefused
    <2>3. thread'[r] \notin {"queued", "computing"}
      BY <2>2 DEF ApiInv, Threads
    <2>4. permits' = permits + Permits(state[r])
      BY <2>2 DEF Permits, ApiInv, Shape
    <2> QED
      BY <2>1, <2>2, <2>3, <2>4, AnswerInv DEF ApiInv, Shape
  <1>3. ASSUME NEW r \in Requests, Finish(r)
        PROVE  ApiInv'
    <2>1. PICK answer \in Answers : Answer(r, answer)
      BY <1>3 DEF Finish, Answers
    <2>2. /\ state[r] = "running"
          /\ thread'[r] = "finished"
          /\ permits' = permits + Permits(state[r])
          /\ UNCHANGED <<app, thread, connQueue, semQueue>>
      BY <1>3 DEF Finish, Permits
    <2> QED
      BY <2>1, <2>2, AnswerInv DEF ApiInv, Shape
  <1>4. ASSUME NEW r \in Requests, ThreadStarts(r) \/ ThreadFinishes(r)
        PROVE  ApiInv'
    <2>1. /\ UNCHANGED <<app, state, freeConns, connQueue, permits, semQueue>>
          /\ \/ thread[r] = "queued" /\ thread' = [thread EXCEPT ![r] = "computing"]
             \/ thread[r] = "computing" /\ thread' = [thread EXCEPT ![r] = "finished"]
      BY <1>4 DEF ThreadStarts, ThreadFinishes
    <2>2. Shape' /\ Threads'
      BY <2>1 DEF ApiInv, Shape, Threads
    <2> QED
      BY <2>1, <2>2, HandlersStay
  <1> QED
    BY <1>1, <1>2, <1>3, <1>4, ArriveInv, GetConnInv, PoolTimesOutInv, QueryDoneInv,
       AcquireInv, TimesOutInv DEF Next

(* The invariant holds at first. *)
LEMMA InitApiInv == Init => ApiInv
  <1> SUFFICES ASSUME Init
               PROVE  ApiInv
    OBVIOUS
  <1>1. Shape
    BY ApiAssumption DEF Init, Shape, States
  <1>2. Distinct(<<>>) /\ ToSet(<<>>) = {}
    BY DEF Distinct, ToSet
  <1>3. Queues
    BY <1>2 DEF Init, Queues, QueueOf
  <1>4. Threads
    BY DEF Init, Threads
  <1>5. Connected = {} /\ Running = {}
    BY DEF Init, Connected, Running
  <1>6. NothingLeaks
    BY <1>5, FS_EmptySet, ApiAssumption DEF Init, NothingLeaks
  <1> QED
    BY <1>1, <1>3, <1>4, <1>6 DEF ApiInv

(* The invariant holds for ever. *)
LEMMA ApiInvariance == Spec => []ApiInv
  BY InitApiInv, NextApiInv, PTL DEF Spec

(* The types, with the bounds that follow from the balance. *)
THEOREM TypeCorrectness == Spec => []TypeOK
  <1>1. ApiInv => TypeOK
    <2> SUFFICES ASSUME ApiInv
                 PROVE  TypeOK
      OBVIOUS
    <2>1. IsFiniteSet(Connected) /\ IsFiniteSet(Running)
      BY ApiAssumption, FS_Subset DEF Connected, Running
    <2>2. Cardinality(Connected) \in Nat /\ Cardinality(Running) \in Nat
      BY <2>1, FS_CardinalityType
    <2>3. freeConns \in 0..MaxPoolSize /\ permits \in 0..MaxConcurrent
      BY <2>2, ApiAssumption DEF ApiInv, Shape, NothingLeaks
    <2> QED
      BY <2>3 DEF ApiInv, Shape, States, TypeOK
  <1> QED
    BY <1>1, ApiInvariance, PTL

(***************************************************************************)
(* No connection of the pool and no permit of the semaphore is lost or     *)
(* given back twice, for any number of requests, however queries, results, *)
(* errors and timeouts race: each handler holds what its place says.       *)
(***************************************************************************)
THEOREM NoLeaks == Spec => []NothingLeaks
  <1>1. ApiInv => NothingLeaks
    BY DEF ApiInv
  <1> QED
    BY <1>1, ApiInvariance, PTL

(***************************************************************************)
(* No queue holds a request that is over, and no thread begins a backtest  *)
(* no one waits for.  Each queue holds just those that wait, each once, so *)
(* that giving up takes a request out of it altogether.                    *)
(***************************************************************************)
THEOREM GhostsNever == Spec => []NoGhosts
  <1>1. ApiInv => NoGhosts
    BY DEF ApiInv, Queues, QueueOf, Threads, NoGhosts
  <1> QED
    BY <1>1, ApiInvariance, PTL

=============================================================================
