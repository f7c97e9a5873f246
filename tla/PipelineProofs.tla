---------------------------- MODULE PipelineProofs ----------------------------
(***************************************************************************)
(* Proofs about the pipeline end to end, for all symbols, arguments,       *)
(* ranges and bounds: no minute is lost between the services, the exit     *)
(* code of the backfill command tells the truth, and rows are final.       *)
(***************************************************************************)
EXTENDS Pipeline, TLAPS

-----------------------------------------------------------------------------
(* The inductive invariant, part by part. *)

(* What the ingester publishes. *)
Messages == [ts : Minutes, final : {TRUE}]

(* Types, as far as the arguments need them. *)
Types ==
    /\ now \in Minutes
    /\ topic \in [Streamed -> Seq(Messages)]
    /\ first \in [Streamed -> Minutes \cup {None}]
    /\ last \in [Streamed -> Minutes \cup {None}]
    /\ gaveUp \in [Streamed -> SUBSET Minutes]
    /\ committed \in [Streamed -> Nat]

(* The group commits no offset past the end of the topic, so that what is
   published later is still read. *)
CommittedReached ==
    \A s \in Streamed : committed[s] <= Len(Earlier[s]) + Len(topic[s])

(* An ingester that has published nothing knows no first minute. *)
FirstHasLast == \A s \in Streamed : last[s] = None => first[s] = None

DeliveryInv == Types /\ CommittedReached /\ FirstHasLast /\ EndToEnd

(* As long as no run was asked for the future, what the command holds is final. *)
SourcesFinal ==
    /\ start \in Int
    /\ end \in Int
    /\ ~ahead => end <= now /\ \A r \in candles : r.val = "final"

FinalInv == Types /\ SourcesFinal /\ RowsAreFinal

(* The exchange answered for s, or s is noted. *)
Asked(s) == s \in failures \/ \E a \in answers : a.symbol = s

(* Where a run of the command is: what it has in hand, that every symbol before
   it is answered or noted, and that no answer is dropped unnoted. *)
RunInProgress ==
    pc # "exited" =>
        /\ pc \in {"fetching", "inserting"}
        /\ exit = -1
        /\ next \in 1..Len(Arguments)
        /\ pc = "fetching" => candles = {}
        /\ pc = "inserting" => Asked(Arguments[next])
        /\ \A r \in candles : r.key[1] = Arguments[next]
        /\ \A a \in answers :
              \/ a.symbol \in failures
              \/ {a.symbol} \X a.minutes \subseteq KeysOf(table) \cup KeysOf(candles)
        /\ ~dryRun => \A j \in 1..next - 1 : Asked(Arguments[j])

ExitInv == RunInProgress /\ ExitCodeTells

-----------------------------------------------------------------------------
(* Types *)

(* The lengths and the entries of a topic. *)
LEMMA TopicFacts ==
    ASSUME Types, NEW s \in Streamed
    PROVE  /\ Len(topic[s]) \in Nat
           /\ \A i \in 1..Len(topic[s]) :
                 topic[s][i].ts \in Minutes /\ topic[s][i].final = TRUE
  <1>1. topic[s] \in Seq(Messages)
    BY DEF Types
  <1>2. ASSUME NEW i \in 1..Len(topic[s])
        PROVE  topic[s][i] \in Messages
    BY <1>1
  <1>3. ASSUME NEW x \in Messages
        PROVE  x.ts \in Minutes /\ x.final = TRUE
    BY <1>3 DEF Messages
  <1>4. Len(topic[s]) \in Nat
    BY <1>1
  <1> QED
    BY <1>2, <1>3, <1>4

(* The partition of a symbol: the earlier messages, then those of its topic. *)
LEMMA ParsedFacts ==
    ASSUME Types, NEW s \in Streamed
    PROVE  /\ Len(Earlier[s]) \in Nat
           /\ Len(ParsedTopic[s]) = Len(Earlier[s]) + Len(topic[s])
           /\ \A i \in 1..Len(Earlier[s]) : ParsedTopic[s][i] = Earlier[s][i]
           /\ \A i \in 1..Len(topic[s]) :
                 ParsedTopic[s][Len(Earlier[s]) + i] = Parsed(s, topic[s][i])
  <1> DEFINE front == Earlier[s]
             new == [i \in 1..Len(topic[s]) |-> Parsed(s, topic[s][i])]
             all == EarlierRows \cup {Parsed(s, topic[s][i]) : i \in 1..Len(topic[s])}
  <1>1. Len(topic[s]) \in Nat
    BY TopicFacts
  <1>2. new \in Seq(all) /\ Len(new) = Len(topic[s])
    BY <1>1
  <1>3. front \in Seq(all)
    BY PipelineAssumption
  <1>4. ParsedTopic[s] = front \o new
    BY DEF ParsedTopic
  <1>5. \A i \in 1..Len(topic[s]) : new[i] = Parsed(s, topic[s][i])
    OBVIOUS
  <1> HIDE DEF front, new, all
  <1>6. /\ Len(front) \in Nat
        /\ Len(front \o new) = Len(front) + Len(new)
        /\ \A i \in 1..Len(front) : (front \o new)[i] = front[i]
        /\ \A i \in 1..Len(new) : (front \o new)[Len(front) + i] = new[i]
    BY <1>2, <1>3
  <1>7. /\ Len(front) \in Nat
        /\ Len(ParsedTopic[s]) = Len(front) + Len(topic[s])
        /\ \A i \in 1..Len(front) : ParsedTopic[s][i] = front[i]
        /\ \A i \in 1..Len(topic[s]) :
              ParsedTopic[s][Len(front) + i] = Parsed(s, topic[s][i])
    BY <1>2, <1>4, <1>5, <1>6
  <1> QED
    BY <1>7 DEF front

(* A minute that may follow is a minute, and its messages are messages. *)
LEMMA FollowerIsMinute ==
    ASSUME Types, NEW m \in 0..now - 1
    PROVE  m \in Minutes /\ Log!Final(m) \in Messages
  BY BackfillAssumption DEF Types, Minutes, Log!Final, Messages

(* Types hold at first. *)
LEMMA InitTypes == Init => Types
  <1> SUFFICES ASSUME Init
               PROVE  Types
    OBVIOUS
  <1>1. \A s \in Streamed : Len(Earlier[s]) \in Nat
    BY PipelineAssumption
  <1> QED
    BY <1>1, BackfillAssumption DEF Init, Log!LogInit, Types, Minutes

(* A step keeps the types. *)
LEMMA NextTypes == Types /\ [Next]_vars => Types'
  <1> SUFFICES ASSUME Types, [Next]_vars
               PROVE  Types'
    OBVIOUS
  <1> USE DEF Types
  <1>1. CASE Tick
    <2>1. now' \in Minutes
      BY <1>1, BackfillAssumption DEF Tick, Log!Advance, Minutes
    <2> QED
      BY <1>1, <2>1 DEF Tick, Log!Advance, writerVars
  <1>2. ASSUME NEW s \in Streamed, Ingest(s)
        PROVE  Types'
    <2>0. UNCHANGED <<now, committed>>
      BY <1>2 DEF Ingest, Log!AppendKnown, Log!AppendUnknown, Log!GiveUp, writerVars
    <2>1. CASE Log!AppendKnown(s)
      <3>1. PICK m \in 0..now - 1 :
              /\ \E copies \in {<<Log!Final(m)>>, <<Log!Final(m), Log!Final(m)>>} :
                    topic' = [topic EXCEPT ![s] = @ \o copies]
              /\ first' = [first EXCEPT ![s] = IF @ = None THEN m ELSE @]
              /\ last' = [last EXCEPT ![s] = m]
        BY <2>1 DEF Log!AppendKnown
      <3>2. m \in Minutes /\ Log!Final(m) \in Messages
        BY FollowerIsMinute
      <3>3. gaveUp' = gaveUp
        BY <2>1 DEF Log!AppendKnown
      <3>4. PICK copies \in {<<Log!Final(m)>>, <<Log!Final(m), Log!Final(m)>>} :
                    topic' = [topic EXCEPT ![s] = @ \o copies]
        BY <3>1
      <3>5. copies \in Seq(Messages)
        <4>1. CASE copies = <<Log!Final(m)>>
          BY <3>2, <4>1
        <4>2. CASE copies = <<Log!Final(m), Log!Final(m)>>
          BY <3>2, <4>2
        <4> QED
          BY <3>4, <4>1, <4>2
      <3>6. topic' \in [Streamed -> Seq(Messages)]
        BY <3>4, <3>5
      <3> QED
        BY <2>0, <3>1, <3>2, <3>3, <3>6
    <2>2. CASE Log!AppendUnknown(s)
      <3>1. PICK m \in 0..now - 1 :
              /\ topic' = [topic EXCEPT ![s] = Append(@, Log!Final(m))]
              /\ gaveUp' = [gaveUp EXCEPT ![s] = @ \cup {m}]
        BY <2>2 DEF Log!AppendUnknown
      <3>2. m \in Minutes /\ Log!Final(m) \in Messages
        BY FollowerIsMinute
      <3> QED
        BY <2>0, <2>2, <3>1, <3>2 DEF Log!AppendUnknown
    <2>3. CASE Log!GiveUp(s)
      BY <2>0, <2>3, FollowerIsMinute DEF Log!GiveUp
    <2> QED
      BY <1>2, <2>1, <2>2, <2>3 DEF Ingest
  <1>3. CASE IngesterRestarts
    <2>1. topic' \in [Streamed -> Seq(Messages)]
      <3>1. CASE topic' = topic
        BY <3>1
      <3>2. ASSUME NEW s \in Streamed, NEW m \in 0..now - 1,
                   topic' = [topic EXCEPT ![s] = Append(@, Log!Final(m))]
            PROVE  topic' \in [Streamed -> Seq(Messages)]
        BY <3>2, FollowerIsMinute
      <3> QED
        BY <1>3, <3>1, <3>2 DEF IngesterRestarts, Log!Restart
    <2> QED
      BY <1>3, <2>1 DEF IngesterRestarts, Log!Restart, writerVars
  <1>4. CASE WriterInserts
    BY <1>4 DEF WriterInserts, ingesterVars, Sink!Store
  <1>5. CASE WriterCommits
    BY <1>5 DEF WriterCommits, ingesterVars, Sink!Acknowledge
  <1>6. CASE BackfillSteps
    BY <1>6 DEF BackfillSteps, BackfillNext, Run, Fetch, Insert, SymbolFails, Killed,
                ingesterVars, writerVars
  <1>7. CASE UNCHANGED vars
    BY <1>7 DEF vars, ingesterVars, writerVars
  <1> QED
    BY <1>1, <1>2, <1>3, <1>4, <1>5, <1>6, <1>7 DEF Next

-----------------------------------------------------------------------------
(* Delivery *)

(* The topics are appended to. *)
TopicsExtend ==
    \A s \in Streamed :
        /\ Len(topic[s]) <= Len(topic'[s])
        /\ \A i \in 1..Len(topic[s]) : topic'[s][i] = topic[s][i]

(* After an insert every staged row has a row with its key. *)
LEMMA InsertCovers ==
    ASSUME NEW tbl, NEW staged, NEW result \in InsertResults(tbl, staged),
           NEW r \in staged
    PROVE  r.key \in KeysOf(result)
  <1>1. PICK new \in SUBSET Fresh(tbl, staged) :
            /\ KeysOf(new) = KeysOf(Fresh(tbl, staged))
            /\ result = tbl \cup new
    BY DEF InsertResults
  <1>2. CASE r.key \in KeysOf(tbl)
    BY <1>1, <1>2 DEF KeysOf
  <1>3. CASE r.key \notin KeysOf(tbl)
    <2>1. r.key \in KeysOf(new)
      BY <1>1, <1>3 DEF Fresh, KeysOf
    <2> QED
      BY <1>1, <2>1 DEF KeysOf
  <1> QED
    BY <1>2, <1>3

(* No step takes a key out of the table. *)
LEMMA TableGrows == [Next]_vars => KeysOf(table) \subseteq KeysOf(table')
  <1> SUFFICES ASSUME [Next]_vars
               PROVE  table \subseteq table'
    BY DEF KeysOf
  <1>1. ASSUME NEW s \in Streamed, Ingest(s)
        PROVE  table \subseteq table'
    BY <1>1 DEF Ingest
  <1>2. CASE Tick \/ IngesterRestarts \/ WriterCommits
    BY <1>2 DEF Tick, IngesterRestarts, WriterCommits, Sink!Acknowledge
  <1>3. CASE WriterInserts
    BY <1>3 DEF WriterInserts, Sink!Store
  <1>4. CASE BackfillSteps
    BY <1>4 DEF BackfillSteps, BackfillNext, Run, Fetch, Insert, InsertResults,
                SymbolFails, Killed
  <1>5. CASE UNCHANGED vars
    BY <1>5 DEF vars
  <1> QED
    BY <1>1, <1>2, <1>3, <1>4, <1>5 DEF Next

(* What the ingester does, it does by appending. *)
LEMMA IngesterAppends ==
    ASSUME Types, \/ \E s \in Streamed : Ingest(s)
                  \/ IngesterRestarts
    PROVE  TopicsExtend
  <1>1. ASSUME NEW s \in Streamed, NEW more \in Seq(Messages),
               topic' = [topic EXCEPT ![s] = @ \o more]
        PROVE  TopicsExtend
    BY <1>1 DEF Types, TopicsExtend
  <1>2. ASSUME NEW s \in Streamed, NEW x \in Messages,
               topic' = [topic EXCEPT ![s] = Append(@, x)]
        PROVE  TopicsExtend
    BY <1>2 DEF Types, TopicsExtend
  <1>3. CASE topic' = topic
    BY <1>3 DEF Types, TopicsExtend
  <1>4. ASSUME NEW s \in Streamed, Log!AppendKnown(s)
        PROVE  TopicsExtend
    <2>1. PICK m \in 0..now - 1 :
            \E copies \in {<<Log!Final(m)>>, <<Log!Final(m), Log!Final(m)>>} :
                topic' = [topic EXCEPT ![s] = @ \o copies]
      BY <1>4 DEF Log!AppendKnown
    <2>2. /\ <<Log!Final(m)>> \in Seq(Messages)
          /\ <<Log!Final(m), Log!Final(m)>> \in Seq(Messages)
      BY FollowerIsMinute
    <2> QED
      BY <1>1, <2>1, <2>2
  <1>5. ASSUME NEW s \in Streamed, Log!AppendUnknown(s)
        PROVE  TopicsExtend
    BY <1>2, <1>5, FollowerIsMinute DEF Log!AppendUnknown
  <1>6. CASE IngesterRestarts
    BY <1>2, <1>3, <1>6, FollowerIsMinute DEF IngesterRestarts, Log!Restart
  <1> QED
    BY <1>3, <1>4, <1>5, <1>6 DEF Ingest, Log!GiveUp

(* What is stored or unread stays so while the offsets do. *)
LEMMA UnreadStays ==
    ASSUME Types, Types', TopicsExtend, KeysOf(table) \subseteq KeysOf(table'),
           committed' = committed,
           NEW s \in Streamed, NEW m, StoredOrUnread(s, m)
    PROVE  StoredOrUnread(s, m)'
  <1>1. CASE <<s, m>> \in KeysOf(table)
    BY <1>1 DEF StoredOrUnread
  <1>2. ASSUME NEW i \in 1..Len(topic[s]), topic[s][i].ts = m,
               committed[s] < Len(Earlier[s]) + i
        PROVE  StoredOrUnread(s, m)'
    <2>1. topic'[s][i].ts = m
      BY <1>2 DEF TopicsExtend
    <2>2. Len(topic[s]) \in Nat /\ Len(topic'[s]) \in Nat
      BY DEF Types
    <2>3. i \in 1..Len(topic'[s])
      BY <2>2 DEF TopicsExtend
    <2> QED
      BY <1>2, <2>1, <2>3 DEF StoredOrUnread
  <1> QED
    BY <1>1, <1>2 DEF StoredOrUnread

(* A message that is new is unread: no committed offset covers it. *)
LEMMA NewIsUnread ==
    ASSUME Types, Types', CommittedReached, committed' = committed,
           NEW s \in Streamed, NEW i \in Len(topic[s]) + 1 .. Len(topic'[s]),
           NEW m, topic'[s][i].ts = m
    PROVE  StoredOrUnread(s, m)'
  <1>1. Len(topic[s]) \in Nat /\ Len(topic'[s]) \in Nat
    BY DEF Types
  <1>2. i \in 1..Len(topic'[s])
    BY <1>1
  <1>3. committed[s] < Len(Earlier[s]) + i
    BY <1>1, ParsedFacts DEF CommittedReached, Types
  <1> QED
    BY <1>2, <1>3 DEF StoredOrUnread

(* Offsets stay within the topics. *)
LEMMA NextCommittedReached ==
    ASSUME Types, Types', CommittedReached, [Next]_vars
    PROVE  CommittedReached'
  <1>1. ASSUME TopicsExtend, committed' = committed
        PROVE  CommittedReached'
    BY <1>1, TopicFacts, ParsedFacts DEF CommittedReached, TopicsExtend, Types
  <1>2. CASE WriterCommits
    <2> SUFFICES ASSUME NEW s \in Streamed
                 PROVE  committed'[s] <= Len(Earlier[s]) + Len(topic'[s])
      BY DEF CommittedReached
    <2>1. committed'[s] \in Nat /\ Sink!StoredUpTo(s, committed'[s])
      BY <1>2 DEF WriterCommits, Sink!Acknowledge
    <2>2. /\ Len(ParsedTopic[s]) = Len(Earlier[s]) + Len(topic[s])
          /\ Len(topic[s]) \in Nat /\ Len(Earlier[s]) \in Nat
      BY TopicFacts, ParsedFacts
    <2>3. \A i \in 1..committed'[s] : i <= Len(Earlier[s]) + Len(topic[s])
      BY <2>1, <2>2 DEF Sink!StoredUpTo
    <2>4. topic' = topic
      BY <1>2 DEF WriterCommits, ingesterVars
    <2>5. committed'[s] = 0 \/ committed'[s] \in 1..committed'[s]
      BY <2>1
    <2> QED
      BY <2>1, <2>2, <2>3, <2>4, <2>5, PipelineAssumption
  <1>3. CASE topic' = topic /\ committed' = committed
    BY <1>3 DEF CommittedReached
  <1>4. ASSUME NEW s \in Streamed, Ingest(s)
        PROVE  CommittedReached'
    BY <1>1, <1>4, IngesterAppends DEF Ingest, writerVars
  <1>5. CASE IngesterRestarts
    BY <1>1, <1>5, IngesterAppends DEF IngesterRestarts, writerVars
  <1>6. CASE Tick \/ WriterInserts \/ BackfillSteps \/ UNCHANGED vars
    BY <1>3, <1>6 DEF Tick, Log!Advance, WriterInserts, Sink!Store, BackfillSteps, vars,
                      ingesterVars, writerVars
  <1> QED
    BY <1>2, <1>4, <1>5, <1>6 DEF Next

(* Only an ingester that starts again forgets its last minute. *)
LEMMA NextFirstHasLast ==
    ASSUME Types, Types', FirstHasLast, [Next]_vars
    PROVE  FirstHasLast'
  <1>1. ASSUME NEW s \in Streamed, Log!AppendKnown(s)
        PROVE  FirstHasLast'
    <2>1. PICK m \in 0..now - 1 :
            /\ first' = [first EXCEPT ![s] = IF @ = None THEN m ELSE @]
            /\ last' = [last EXCEPT ![s] = m]
      BY <1>1 DEF Log!AppendKnown
    <2>2. m # None
      BY PipelineAssumption DEF Types
    <2> QED
      BY <2>1, <2>2 DEF FirstHasLast, Types
  <1>2. CASE IngesterRestarts
    BY <1>2 DEF IngesterRestarts, Log!Restart, FirstHasLast
  <1>3. CASE UNCHANGED <<first, last>>
    BY <1>3 DEF FirstHasLast
  <1> QED
    BY <1>1, <1>2, <1>3 DEF Next, vars, Tick, Log!Advance, Ingest, Log!AppendUnknown,
       Log!GiveUp, WriterInserts, WriterCommits, BackfillSteps, ingesterVars, writerVars

(* A minute that an ingester knows to be in the log, or that lies before one
   and was not given up, stays stored or unread: one action at a time. *)
LEMMA NextEndToEnd ==
    ASSUME DeliveryInv, Types', CommittedReached', [Next]_vars
    PROVE  EndToEnd'
  <1> USE DEF DeliveryInv
  <1>1. KeysOf(table) \subseteq KeysOf(table')
    BY TableGrows
  <1>2. ASSUME TopicsExtend, committed' = committed,
               NEW s \in Streamed, first'[s] # None,
               first'[s] = first[s], last'[s] = last[s], gaveUp[s] \subseteq gaveUp'[s],
               NEW m \in (first'[s] .. last'[s]) \ gaveUp'[s]
        PROVE  StoredOrUnread(s, m)'
    <2>1. StoredOrUnread(s, m)
      BY <1>2 DEF EndToEnd
    <2> QED
      BY <1>1, <1>2, <2>1, UnreadStays
  <1>3. CASE /\ TopicsExtend
             /\ committed' = committed
             /\ UNCHANGED <<first, last>>
             /\ \A s \in Streamed : gaveUp[s] \subseteq gaveUp'[s]
    BY <1>2, <1>3 DEF EndToEnd
  <1>4. ASSUME NEW t \in Streamed, Ingest(t)
        PROVE  EndToEnd'
    <2>1. TopicsExtend /\ committed' = committed
      BY <1>4, IngesterAppends DEF Ingest, writerVars
    <2>2. CASE Log!AppendUnknown(t)
      BY <1>3, <2>1, <2>2 DEF Log!AppendUnknown, Types
    <2>3. CASE Log!GiveUp(t)
      BY <1>3, <2>1, <2>3 DEF Log!GiveUp, Types
    <2>4. CASE Log!AppendKnown(t)
      <3>1. PICK n \in 0..now - 1 :
              /\ Log!MayFollow(t, n)
              /\ \E copies \in {<<Log!Final(n)>>, <<Log!Final(n), Log!Final(n)>>} :
                    topic' = [topic EXCEPT ![t] = @ \o copies]
              /\ first' = [first EXCEPT ![t] = IF @ = None THEN n ELSE @]
              /\ last' = [last EXCEPT ![t] = n]
        BY <2>4 DEF Log!AppendKnown
      <3>2. gaveUp' = gaveUp
        BY <2>4 DEF Log!AppendKnown
      <3>3. StoredOrUnread(t, n)'
        <4>1. Len(topic[t]) \in Nat
          BY TopicFacts
        <4>2. /\ Len(topic[t]) + 1 \in Len(topic[t]) + 1 .. Len(topic'[t])
              /\ topic'[t][Len(topic[t]) + 1] = Log!Final(n)
          <5>1. PICK copies \in {<<Log!Final(n)>>, <<Log!Final(n), Log!Final(n)>>} :
                    topic' = [topic EXCEPT ![t] = @ \o copies]
            BY <3>1
          <5>2. Log!Final(n) \in Messages
            BY FollowerIsMinute
          <5>3. /\ copies \in Seq(Messages)
                /\ Len(copies) >= 1
                /\ copies[1] = Log!Final(n)
            <6>1. CASE copies = <<Log!Final(n)>>
              BY <5>2, <6>1
            <6>2. CASE copies = <<Log!Final(n), Log!Final(n)>>
              BY <5>2, <6>2
            <6> QED
              BY <5>1, <6>1, <6>2
          <5>4. topic'[t] = topic[t] \o copies /\ topic[t] \in Seq(Messages)
            BY <5>1 DEF Types
          <5> QED
            BY <4>1, <5>3, <5>4
        <4>3. Log!Final(n).ts = n
          BY DEF Log!Final
        <4> QED
          BY <2>1, <4>2, <4>3, NewIsUnread
      <3>4. ASSUME NEW m \in (first'[t] .. last'[t]) \ gaveUp'[t], m # n
            PROVE  StoredOrUnread(t, m)'
        <4>1. first[t] # None /\ last[t] # None /\ first'[t] = first[t] /\ last'[t] = n
          BY <3>1, <3>4 DEF Types, FirstHasLast, Minutes
        <4>2. last[t] \in Int /\ first[t] \in Int /\ n \in Int /\ m \in Int
          BY <4>1 DEF Types, Minutes
        <4>3. last[t] < n /\ last[t] + 1 .. n - 1 \subseteq gaveUp[t]
          BY <3>1, <4>1 DEF Log!MayFollow
        <4>4. m \in (first[t] .. last[t]) \ gaveUp[t]
          BY <3>2, <3>4, <4>1, <4>2, <4>3
        <4> QED
          BY <1>1, <2>1, <4>1, <4>4, UnreadStays DEF EndToEnd
      <3>5. ASSUME NEW s \in Streamed, s # t
            PROVE  first'[s] = first[s] /\ last'[s] = last[s] /\ gaveUp'[s] = gaveUp[s]
        BY <3>1, <3>2, <3>5 DEF Types
      <3> QED
        BY <1>2, <2>1, <3>3, <3>4, <3>5 DEF EndToEnd
    <2> QED
      BY <1>4, <2>2, <2>3, <2>4 DEF Ingest
  <1>5. CASE IngesterRestarts
    BY <1>5 DEF IngesterRestarts, Log!Restart, EndToEnd
  <1>6. CASE WriterCommits
    <2> SUFFICES ASSUME NEW s \in Streamed, NEW m, StoredOrUnread(s, m)
                 PROVE  StoredOrUnread(s, m)'
      BY <1>6 DEF WriterCommits, ingesterVars, EndToEnd
    <2>1. /\ committed'[s] \in Nat
          /\ Sink!StoredUpTo(s, committed'[s])
          /\ UNCHANGED <<topic, table>>
      BY <1>6 DEF WriterCommits, Sink!Acknowledge, ingesterVars
    <2>2. CASE <<s, m>> \in KeysOf(table)
      BY <2>1, <2>2 DEF StoredOrUnread
    <2>3. ASSUME NEW i \in 1..Len(topic[s]), topic[s][i].ts = m
          PROVE  StoredOrUnread(s, m)'
      <3> DEFINE offset == Len(Earlier[s]) + i
      <3>0. offset \in Nat \ {0} /\ ParsedTopic[s][offset] = Parsed(s, topic[s][i])
        BY <2>3, ParsedFacts, TopicFacts, PipelineAssumption
      <3>1. CASE committed'[s] < offset
        BY <2>1, <2>3, <3>1 DEF StoredOrUnread
      <3>2. CASE offset <= committed'[s]
        <4>1. ParsedTopic[s][offset] = [key |-> <<s, m>>, val |-> "final"]
          BY <2>3, <3>0, TopicFacts DEF Parsed
        <4>2. ParsedTopic[s][offset] \in Rows
          <5>1. m \in Minutes
            BY <2>3, TopicFacts
          <5>2. <<s, m>> \in Streamed \X Minutes
            BY <5>1
          <5> QED
            BY <4>1, <5>2 DEF Rows
        <4>3. offset \in 1..committed'[s]
          BY <2>1, <3>0, <3>2
        <4>4. <<s, m>> \in Sink!KeysOf(table)
          BY <2>1, <4>1, <4>2, <4>3 DEF Sink!StoredUpTo
        <4> QED
          BY <2>1, <4>4 DEF StoredOrUnread, Sink!KeysOf, KeysOf
      <3> QED
        BY <2>1, <3>0, <3>1, <3>2
    <2> QED
      BY <2>2, <2>3 DEF StoredOrUnread
  <1>7. CASE Tick \/ WriterInserts \/ BackfillSteps \/ UNCHANGED vars
    <2>1. UNCHANGED <<topic, first, last, gaveUp, committed>>
      BY <1>7 DEF Tick, Log!Advance, WriterInserts, Sink!Store, BackfillSteps, vars,
                  ingesterVars, writerVars
    <2>2. TopicsExtend
      BY <2>1, TopicFacts DEF TopicsExtend
    <2> QED
      BY <1>3, <2>1, <2>2
  <1> QED
    BY <1>4, <1>5, <1>6, <1>7 DEF Next

(***************************************************************************)
(* From exchange to table no hand-over between the services loses a minute *)
(* the ingester got acknowledged, for a group that has committed an offset *)
(* on each partition before.  The topic is read from a committed           *)
(* offset that never passes what is not stored (CommittedReached, and the  *)
(* promise of the writer), and a minute between two known ones was known   *)
(* itself or given up (the promise of the ingester).                       *)
(***************************************************************************)
THEOREM NoneLostOnTheWay == Spec => []EndToEnd
  <1>1. Init => DeliveryInv
    <2> SUFFICES ASSUME Init
                 PROVE  DeliveryInv
      OBVIOUS
    <2>1. Types
      BY InitTypes
    <2>2. CommittedReached
      <3> SUFFICES ASSUME NEW s \in Streamed
                   PROVE  committed[s] <= Len(Earlier[s]) + Len(topic[s])
        BY DEF CommittedReached
      <3>1. Len(Earlier[s]) \in Nat /\ Len(topic[s]) \in Nat
        BY <2>1, ParsedFacts, TopicFacts
      <3> QED
        BY <3>1, PipelineAssumption DEF Init
    <2>3. FirstHasLast /\ EndToEnd
      BY DEF Init, Log!LogInit, FirstHasLast, EndToEnd
    <2> QED
      BY <2>1, <2>2, <2>3 DEF DeliveryInv
  <1>2. DeliveryInv /\ [Next]_vars => DeliveryInv'
    BY NextTypes, NextCommittedReached, NextFirstHasLast, NextEndToEnd DEF DeliveryInv
  <1>3. DeliveryInv => EndToEnd
    BY DEF DeliveryInv
  <1> QED
    BY <1>1, <1>2, <1>3, PTL DEF Spec

-----------------------------------------------------------------------------
(* Final rows *)

(* What the topic holds is final once parsed. *)
LEMMA TopicIsFinal ==
    ASSUME Types, NEW r \in Sink!TopicCandles
    PROVE  r.val = "final"
  <1>1. PICK s \in Streamed : \E i \in 1..Len(ParsedTopic[s]) : ParsedTopic[s][i] = r
    BY DEF Sink!TopicCandles
  <1>2. PICK i \in 1..Len(ParsedTopic[s]) : ParsedTopic[s][i] = r
    BY <1>1
  <1>3. /\ Len(topic[s]) \in Nat
        /\ Len(Earlier[s]) \in Nat
        /\ Len(ParsedTopic[s]) = Len(Earlier[s]) + Len(topic[s])
    BY TopicFacts, ParsedFacts
  <1>4. CASE i \in 1..Len(Earlier[s])
    <2>1. Earlier[s][i] \in EarlierRows
      BY <1>4 DEF EarlierRows
    <2> QED
      BY <1>2, <1>4, <2>1, ParsedFacts, PipelineAssumption
  <1>5. CASE i \notin 1..Len(Earlier[s])
    <2>1. PICK j \in 1..Len(topic[s]) : i = Len(Earlier[s]) + j
      <3>1. i - Len(Earlier[s]) \in 1..Len(topic[s])
        BY <1>2, <1>3, <1>5, PipelineAssumption
      <3>2. i = Len(Earlier[s]) + (i - Len(Earlier[s]))
        BY <1>3, PipelineAssumption
      <3> QED
        BY <3>1, <3>2
    <2>2. r = Parsed(s, topic[s][j]) /\ topic[s][j].final = TRUE
      BY <1>2, <2>1, TopicFacts, ParsedFacts
    <2> QED
      BY <2>2 DEF Parsed
  <1> QED
    BY <1>4, <1>5

(* What the command may store comes from what it holds. *)
LEMMA CommandStores ==
    ASSUME Types, BackfillSteps
    PROVE  \/ table' = table
           \/ table' \in InsertResults(table, candles)
  BY DEF BackfillSteps, BackfillNext, Run, Fetch, Insert, SymbolFails, Killed

(* What the command holds stays final while it has not asked for the future. *)
LEMMA NextSourcesFinal ==
    ASSUME Types, Types', SourcesFinal, [Next]_vars
    PROVE  SourcesFinal'
  <1>0. now \in Int
    BY BackfillAssumption DEF Types, Minutes
  <1>1. CASE UNCHANGED <<start, end, ahead, candles>> /\ now <= now'
    BY <1>0, <1>1 DEF SourcesFinal, Types, Minutes
  <1>2. CASE Tick
    BY <1>0, <1>1, <1>2 DEF Tick, Log!Advance, backfillVars, position, settings
  <1>3. ASSUME NEW s \in Streamed, Ingest(s)
        PROVE  SourcesFinal'
    BY <1>0, <1>1, <1>3 DEF Ingest, Log!AppendKnown, Log!AppendUnknown, Log!GiveUp,
                            backfillVars, position, settings
  <1>4. CASE IngesterRestarts \/ WriterInserts \/ WriterCommits \/ UNCHANGED vars
    BY <1>0, <1>1, <1>4 DEF IngesterRestarts, Log!Restart, WriterInserts, WriterCommits,
                            vars, backfillVars, position, settings
  <1>5. CASE Run
    <2>1. start' \in Int /\ end' \in Int
      BY <1>5, BackfillAssumption DEF Run, SourcesFinal
    <2>2. candles' = {} /\ now' = now /\ ahead' = (ahead \/ end' > now)
      BY <1>5 DEF Run
    <2>3. ~ahead' => end' <= now'
      <3>1. ~ahead' => ~(end' > now)
        BY <2>2, Zenon
      <3>2. end' > now \/ end' <= now
        BY <1>0, <2>1
      <3> QED
        BY <2>2, <3>1, <3>2
    <2> QED
      BY <2>1, <2>2, <2>3 DEF SourcesFinal
  <1>6. ASSUME \/ UNCHANGED <<start, end>>
               \/ start' = 0 /\ end' = 0,
               UNCHANGED <<ahead, now>>
        PROVE  start' \in Int /\ end' \in Int /\ (~ahead' => end' <= now')
    BY <1>0, <1>6 DEF SourcesFinal, Types, Minutes
  <1>7. CASE Fetch
    <2>1. /\ UNCHANGED <<ahead, now>>
          /\ \/ UNCHANGED <<start, end>>
             \/ start' = 0 /\ end' = 0
          /\ \/ candles' = candles
             \/ \E lack \in Lacking : candles' = Fetched(Arguments[next], lack)
      BY <1>7 DEF Fetch, NextSymbol, Ends, settings, position
    <2>2. ASSUME ~ahead, NEW lack, NEW r \in Fetched(Arguments[next], lack)
          PROVE  r.val = "final"
      <3>1. PICK m \in start..end - 1 : r = Row(Arguments[next], m)
        BY <2>2 DEF Fetched, Begun
      <3>2. m < now
        BY <1>0, <2>2, <3>1 DEF SourcesFinal
      <3> QED
        BY <3>1, <3>2 DEF Row
    <2> QED
      BY <1>6, <2>1, <2>2 DEF SourcesFinal
  <1>8. CASE Insert \/ SymbolFails \/ Killed
    <2>1. /\ UNCHANGED <<ahead, now>>
          /\ \/ UNCHANGED <<start, end>>
             \/ start' = 0 /\ end' = 0
          /\ candles' = {}
      BY <1>8 DEF Insert, SymbolFails, Killed, NextSymbol, Ends, settings
    <2> QED
      BY <1>6, <2>1 DEF SourcesFinal
  <1> QED
    BY <1>2, <1>3, <1>4, <1>5, <1>7, <1>8 DEF Next, BackfillSteps, BackfillNext

(* Rows come from the topic or from the command. *)
LEMMA NextRowsAreFinal ==
    ASSUME FinalInv, [Next]_vars
    PROVE  RowsAreFinal'
  <1> USE DEF FinalInv
  <1>1. ASSUME NEW staged, \A r \in staged : r.val = "final",
               table' \in InsertResults(table, staged), ahead' = ahead
        PROVE  RowsAreFinal'
    BY <1>1 DEF InsertResults, Fresh, RowsAreFinal
  <1>2. CASE table' = table /\ (ahead => ahead')
    BY <1>2 DEF RowsAreFinal
  <1>3. ASSUME NEW s \in Streamed, Ingest(s)
        PROVE  RowsAreFinal'
    BY <1>2, <1>3 DEF Ingest, backfillVars, settings
  <1>4. CASE WriterInserts
    BY <1>4, TopicIsFinal DEF WriterInserts, Sink!Store, Sink!Fresh, backfillVars,
                              settings, RowsAreFinal
  <1>5. CASE Tick \/ IngesterRestarts \/ WriterCommits \/ UNCHANGED vars
    BY <1>2, <1>5 DEF Tick, IngesterRestarts, WriterCommits, Sink!Acknowledge, vars,
                      backfillVars, settings
  <1>6. CASE Run \/ Fetch
    BY <1>2, <1>6 DEF Run, Fetch, settings
  <1>7. CASE BackfillSteps /\ (Insert \/ SymbolFails \/ Killed)
    <2>1. ahead' = ahead
      BY <1>7 DEF Insert, SymbolFails, Killed, settings
    <2>2. CASE table' = table
      BY <1>2, <2>1, <2>2
    <2>3. CASE ahead
      BY <2>1, <2>3 DEF RowsAreFinal
    <2>4. CASE ~ahead /\ table' \in InsertResults(table, candles)
      BY <1>1, <2>1, <2>4 DEF SourcesFinal
    <2> QED
      BY <1>7, <2>2, <2>3, <2>4, CommandStores
  <1> QED
    BY <1>3, <1>4, <1>5, <1>6, <1>7 DEF Next, BackfillSteps, BackfillNext

(***************************************************************************)
(* As long as no backfill was asked for a range that ends in the future,   *)
(* every row is final: what the ingester publishes is over, and so is what *)
(* the command holds from the fetch to the insert (SourcesFinal).          *)
(***************************************************************************)
THEOREM OnlyFinalRows == Spec => []RowsAreFinal
  <1>1. Init => FinalInv
    <2> SUFFICES ASSUME Init
                 PROVE  FinalInv
      OBVIOUS
    <2>1. now = 0 /\ table = EarlierRows
      BY DEF Init, Log!LogInit
    <2>2. SourcesFinal /\ RowsAreFinal
      BY <2>1, PipelineAssumption DEF Init, BackfillInit, SourcesFinal, RowsAreFinal
    <2> QED
      BY <2>2, InitTypes DEF FinalInv
  <1>2. FinalInv /\ [Next]_vars => FinalInv'
    BY NextTypes, NextSourcesFinal, NextRowsAreFinal DEF FinalInv
  <1>3. FinalInv => RowsAreFinal
    BY DEF FinalInv
  <1> QED
    BY <1>1, <1>2, <1>3, PTL DEF Spec

-----------------------------------------------------------------------------
(* The exit code *)

(* What is in the table stays there. *)
LEMMA StoredStays ==
    ASSUME KeysOf(table) \subseteq KeysOf(table'), answers' = answers,
           NEW s, AnswerStored(s)
    PROVE  AnswerStored(s)'
  BY DEF AnswerStored

(* Symbols have an index among the arguments. *)
LEMMA ArgIndex ==
    /\ Len(Arguments) \in Nat \ {0}
    /\ \A s \in ArgSymbols : \E j \in 1..Len(Arguments) : Arguments[j] = s
  <1>1. Arguments \in Seq(ArgSymbols) /\ Arguments # <<>>
    BY BackfillAssumption
  <1>2. Len(Arguments) \in Nat \ {0}
    BY <1>1
  <1>3. \A s \in ArgSymbols : \E j \in 1..Len(Arguments) : Arguments[j] = s
    BY DEF ArgSymbols
  <1> QED
    BY <1>2, <1>3

(* When the symbol in hand is answered or noted, and every answer stored or
   noted, the loop may go on to the next symbol, or end. *)
LEMMA SymbolDone ==
    ASSUME RunInProgress, pc # "exited", NextSymbol,
           UNCHANGED <<dryRun, answers>>,
           failures \subseteq failures',
           candles' = {},
           ~dryRun => \/ Arguments[next] \in failures'
                      \/ \E a \in answers : a.symbol = Arguments[next],
           \A a \in answers :
              \/ a.symbol \in failures'
              \/ {a.symbol} \X a.minutes \subseteq KeysOf(table')
    PROVE  RunInProgress' /\ ExitCodeTells'
  <1>1. /\ next \in 1..Len(Arguments)
        /\ exit = -1
        /\ Len(Arguments) \in Nat
    BY ArgIndex DEF RunInProgress
  <1>2. ASSUME ~dryRun, NEW j \in 1..next
        PROVE  Arguments[j] \in failures' \/ \E a \in answers : a.symbol = Arguments[j]
    <2>1. CASE j = next
      BY <1>2, <2>1
    <2>2. CASE j # next
      <3>1. j \in 1..next - 1
        BY <1>1, <2>2
      <3> QED
        BY <1>2, <3>1 DEF RunInProgress, Asked
    <2> QED
      BY <2>1, <2>2
  <1>3. CASE next < Len(Arguments) /\ next' = next + 1 /\ pc' = "fetching" /\ exit' = exit
    <2>1. next' \in 1..Len(Arguments) /\ next' - 1 = next
      BY <1>1, <1>3
    <2> QED
      BY <1>1, <1>2, <1>3, <2>1 DEF RunInProgress, ExitCodeTells, Asked
  <1>4. CASE /\ next = Len(Arguments)
             /\ pc' = "exited"
             /\ exit' = IF failures' = {} THEN 0 ELSE 1
    <2>1. ASSUME ~dryRun, NEW s \in ArgSymbols, s \notin failures'
          PROVE  AnswerStored(s)'
      <3>1. \E a \in answers : a.symbol = s
        BY <1>2, <1>4, <2>1, ArgIndex
      <3>2. \A a \in answers : a.symbol = s => {s} \X a.minutes \subseteq KeysOf(table')
        BY <2>1
      <3> QED
        BY <3>1, <3>2 DEF AnswerStored
    <2> QED
      BY <1>4, <2>1 DEF RunInProgress, ExitCodeTells
  <1> QED
    BY <1>3, <1>4 DEF NextSymbol, Ends

(* Steps of the others leave a run as it is; the table may grow. *)
LEMMA OthersLeaveRun ==
    ASSUME ExitInv, KeysOf(table) \subseteq KeysOf(table'), UNCHANGED backfillVars
    PROVE  ExitInv'
  <1>1. UNCHANGED <<pc, next, candles, failures, exit, dryRun, answers>>
    BY DEF backfillVars, position, settings
  <1>2. RunInProgress'
    BY <1>1 DEF ExitInv, RunInProgress, Asked
  <1>3. ExitCodeTells'
    BY <1>1, StoredStays DEF ExitInv, ExitCodeTells
  <1> QED
    BY <1>2, <1>3 DEF ExitInv

(* A step of the command keeps account of what it was answered and stored. *)
LEMMA NextExitInv == ExitInv /\ [Next]_vars => ExitInv'
  <1> SUFFICES ASSUME ExitInv, [Next]_vars
               PROVE  ExitInv'
    OBVIOUS
  <1>1. KeysOf(table) \subseteq KeysOf(table')
    BY TableGrows
  <1>2. CASE UNCHANGED backfillVars
    BY <1>1, <1>2, OthersLeaveRun
  <1>3. CASE Run
    <2>1. /\ next' = 1 /\ candles' = {} /\ answers' = {}
          /\ \/ pc' = "fetching" /\ exit' = -1
             \/ pc' = "exited" /\ exit' = 2
      BY <1>3 DEF Run
    <2>2. 1 \in 1..Len(Arguments)
      BY ArgIndex
    <2>3. RunInProgress'
      BY <2>1, <2>2 DEF RunInProgress
    <2>4. ExitCodeTells'
      BY <2>1 DEF ExitCodeTells
    <2> QED
      BY <2>3, <2>4 DEF ExitInv
  <1>4. CASE Fetch
    <2>1. UNCHANGED <<dryRun, failures, table>> /\ pc = "fetching" /\ candles = {}
      BY <1>4 DEF Fetch, settings, ExitInv, RunInProgress
    <2>2. CASE dryRun /\ NextSymbol /\ UNCHANGED <<candles, answers>>
      <3>1. \A a \in answers : \/ a.symbol \in failures'
                              \/ {a.symbol} \X a.minutes \subseteq KeysOf(table')
        BY <2>1 DEF ExitInv, RunInProgress, KeysOf
      <3> QED
        BY <2>1, <2>2, <3>1, SymbolDone DEF ExitInv
    <2>3. ASSUME ~dryRun, NEW lack,
                 candles' = Fetched(Arguments[next], lack),
                 answers' = answers \cup
                    {[symbol |-> Arguments[next], minutes |-> Begun \ lack]},
                 pc' = "inserting",
                 UNCHANGED <<exit, next>>
          PROVE  ExitInv'
      <3> DEFINE answer == [symbol |-> Arguments[next], minutes |-> Begun \ lack]
      <3>1. {answer.symbol} \X answer.minutes \subseteq KeysOf(candles')
        <4>1. answer.symbol = Arguments[next] /\ answer.minutes = Begun \ lack
          OBVIOUS
        <4>2. ASSUME NEW m \in Begun \ lack
              PROVE  <<Arguments[next], m>> \in KeysOf(candles')
          <5>1. Row(Arguments[next], m) \in candles'
            BY <2>3 DEF Fetched
          <5>2. Row(Arguments[next], m).key = <<Arguments[next], m>>
            BY DEF Row
          <5> QED
            BY <5>1, <5>2 DEF KeysOf
        <4> QED
          BY <4>1, <4>2
      <3>2. \A r \in candles' : r.key[1] = Arguments[next]
        BY <2>3 DEF Fetched, Row
      <3>3. ASSUME NEW a \in answers'
            PROVE  \/ a.symbol \in failures'
                   \/ {a.symbol} \X a.minutes \subseteq KeysOf(table') \cup KeysOf(candles')
        <4>1. CASE a = answer
          BY <3>1, <4>1
        <4>2. CASE a \in answers
          BY <2>1, <4>2 DEF ExitInv, RunInProgress, KeysOf
        <4> QED
          BY <2>3, <4>1, <4>2
      <3>4. Asked(Arguments[next])'
        <4>1. answer.symbol = Arguments[next] /\ answer \in answers'
          BY <2>3
        <4> QED
          BY <2>3, <4>1 DEF Asked
      <3>5. \A s : Asked(s) => Asked(s)'
        BY <2>1, <2>3 DEF Asked
      <3>6. RunInProgress'
        BY <2>1, <2>3, <3>2, <3>3, <3>4, <3>5 DEF ExitInv, RunInProgress
      <3>7. ExitCodeTells'
        BY <2>3 DEF ExitCodeTells
      <3> QED
        BY <3>6, <3>7 DEF ExitInv
    <2> QED
      BY <1>4, <2>2, <2>3 DEF Fetch, position
  <1>5. CASE Insert
    <2>1. /\ UNCHANGED <<dryRun, failures, answers>>
          /\ pc = "inserting"
          /\ NextSymbol
          /\ candles' = {}
          /\ table' \in InsertResults(table, candles)
      BY <1>5 DEF Insert, settings
    <2>2. KeysOf(candles) \subseteq KeysOf(table')
      BY <2>1, InsertCovers DEF KeysOf
    <2>3. \A a \in answers : \/ a.symbol \in failures'
                            \/ {a.symbol} \X a.minutes \subseteq KeysOf(table')
      BY <1>1, <2>1, <2>2 DEF ExitInv, RunInProgress
    <2>4. \/ Arguments[next] \in failures'
          \/ \E a \in answers : a.symbol = Arguments[next]
      BY <2>1 DEF ExitInv, RunInProgress, Asked
    <2> QED
      BY <2>1, <2>3, <2>4, SymbolDone DEF ExitInv
  <1>6. CASE SymbolFails
    <2>1. /\ UNCHANGED <<dryRun, answers>>
          /\ pc # "exited"
          /\ NextSymbol
          /\ candles' = {}
          /\ failures' = failures \cup {Arguments[next]}
      BY <1>6 DEF SymbolFails, settings
    <2>2. ASSUME NEW a \in answers, a.symbol \notin failures'
          PROVE  {a.symbol} \X a.minutes \subseteq KeysOf(table')
      <3>1. /\ {a.symbol} \X a.minutes \subseteq KeysOf(table) \cup KeysOf(candles)
            /\ \A r \in candles : r.key[1] = Arguments[next]
            /\ a.symbol # Arguments[next]
        BY <2>1, <2>2 DEF ExitInv, RunInProgress
      <3>2. ASSUME NEW m \in a.minutes
            PROVE  <<a.symbol, m>> \notin KeysOf(candles)
        BY <3>1 DEF KeysOf
      <3> QED
        BY <1>1, <3>1, <3>2
    <2>3. Arguments[next] \in failures'
      BY <2>1
    <2> QED
      BY <2>1, <2>2, <2>3, SymbolDone DEF ExitInv
  <1>7. CASE Killed
    <2>1. pc # "exited" /\ pc' = "exited" /\ exit' = exit
      BY <1>7 DEF Killed, Ends
    <2>2. exit' = -1
      BY <2>1 DEF ExitInv, RunInProgress
    <2> QED
      BY <2>1, <2>2 DEF ExitInv, RunInProgress, ExitCodeTells
  <1> QED
    BY <1>2, <1>3, <1>4, <1>5, <1>6, <1>7
    DEF Next, vars, Tick, Ingest, IngesterRestarts, WriterInserts, WriterCommits,
        BackfillSteps, BackfillNext

(***************************************************************************)
(* What an exit code of the backfill command tells: 0 means that the       *)
(* exchange answered for every symbol and that all it had of the range is  *)
(* stored, and 1 names every symbol of which this is not so.  The loop     *)
(* keeps account (RunInProgress), and what it stored stays, whatever the   *)
(* writer does to the table meanwhile.  That the range is stored it does   *)
(* not mean: an answer may be short or empty.                              *)
(***************************************************************************)
THEOREM ExitCodeIsTrue == Spec => []ExitCodeTells
  <1>1. Init => ExitInv
    BY DEF Init, BackfillInit, ExitInv, RunInProgress, ExitCodeTells
  <1>2. ExitInv => ExitCodeTells
    BY DEF ExitInv
  <1> QED
    BY <1>1, <1>2, NextExitInv, PTL DEF Spec

=============================================================================
