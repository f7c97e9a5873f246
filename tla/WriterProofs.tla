----------------------------- MODULE WriterProofs -----------------------------
(***************************************************************************)
(* Proofs about the writer service, for all sets of partitions, keys and   *)
(* contents and all bounds: the inductive invariant IInv, the safety       *)
(* properties that follow from it, the action properties, and that         *)
(* WriterConsumer implements AtLeastOnceSink.                              *)
(*                                                                         *)
(* All of it is for a group that has committed on every partition before   *)
(* (Established).  Without that NoCommittedLoss is false: see the run      *)
(* writer_fresh_group.                                                     *)
(***************************************************************************)
EXTENDS WriterConsumer, TLAPS

-----------------------------------------------------------------------------
(* What an insert does to the table, for every table and every batch. *)

(* An insert keeps every row of the table: ON CONFLICT DO NOTHING. *)
LEMMA InsertKeeps ==
    ASSUME NEW tbl, NEW staged, NEW result \in InsertResults(tbl, staged)
    PROVE  tbl \subseteq result
  BY DEF InsertResults

(* What an insert adds was staged, with a key the table did not have. *)
LEMMA InsertAdds ==
    ASSUME NEW tbl, NEW staged, NEW result \in InsertResults(tbl, staged)
    PROVE  \E new \in SUBSET Fresh(tbl, staged) :
              OneRowPerKey(new) /\ result = tbl \cup new
  BY DEF InsertResults

(* After an insert every staged row has a row with its key. *)
LEMMA InsertCovers ==
    ASSUME NEW tbl, NEW staged, NEW result \in InsertResults(tbl, staged),
           NEW r \in staged
    PROVE  r.key \in KeysOf(result)
  <1>1. PICK new \in SUBSET Fresh(tbl, staged) :
            /\ KeysOf(new) = KeysOf(Fresh(tbl, staged))
            /\ result = tbl \cup new
    BY DEF InsertResults
  <1>2. CASE r.key \in KeysOf(tbl)
    BY <1>1, <1>2 DEF KeysOf
  <1>3. CASE r.key \notin KeysOf(tbl)
    <2>1. r.key \in KeysOf(new)
      BY <1>1, <1>3 DEF Fresh, KeysOf
    <2> QED
      BY <1>1, <2>1 DEF KeysOf
  <1> QED
    BY <1>2, <1>3

(* Rows with new keys, one for each, break no primary key. *)
LEMMA FreshUnion ==
    ASSUME NEW tbl, NEW staged, NEW new \in SUBSET Fresh(tbl, staged),
           OneRowPerKey(tbl), OneRowPerKey(new)
    PROVE  OneRowPerKey(tbl \cup new)
  BY DEF OneRowPerKey, Fresh, KeysOf

(* An insert respects the primary key, whatever the batch repeats. *)
LEMMA InsertOneRow ==
    ASSUME NEW tbl, NEW staged, NEW result \in InsertResults(tbl, staged),
           OneRowPerKey(tbl)
    PROVE  OneRowPerKey(result)
  BY InsertAdds, FreshUnion

(* A key stays in a table that grows. *)
LEMMA KeysGrow ==
    ASSUME NEW tbl, NEW more, tbl \subseteq more
    PROVE  KeysOf(tbl) \subseteq KeysOf(more)
  BY DEF KeysOf

-----------------------------------------------------------------------------
(* How topic and table may change under the offsets. *)

(* Topics are appended to, and the table only grows. *)
Grows ==
    /\ table \subseteq table'
    /\ \A p \in Partitions :
          /\ Len(topic[p]) <= Len(topic'[p])
          /\ \A i \in 1..Len(topic[p]) : topic'[p][i] = topic[p][i]

(* What StoredUpTo(p, n) says after the step, for n taken before or after it. *)
StoredThen(p, n) ==
    \A i \in 1..n :
        /\ i <= Len(topic'[p])
        /\ topic'[p][i] \in Candle => topic'[p][i].key \in KeysOf(table')

(* Stored messages stay stored while topic and table grow. *)
LEMMA StoredStays ==
    ASSUME TypeOK, TypeOK', Grows, NEW p \in Partitions, NEW n \in Nat,
           Sink!StoredUpTo(p, n)
    PROVE  StoredThen(p, n)
  <1>1. KeysOf(table) \subseteq KeysOf(table')
    BY KeysGrow DEF Grows
  <1> SUFFICES ASSUME NEW i \in 1..n
               PROVE  /\ i <= Len(topic'[p])
                      /\ topic'[p][i] \in Candle => topic'[p][i].key \in KeysOf(table')
    BY DEF StoredThen
  <1>2. i \in 1..Len(topic[p])
    BY DEF Sink!StoredUpTo, TypeOK
  <1>3. topic'[p][i] = topic[p][i]
    BY <1>2 DEF Grows
  <1>4. i <= Len(topic'[p])
    BY <1>2 DEF Grows, TypeOK
  <1>5. topic[p][i] \in Candle => topic[p][i].key \in KeysOf(table)
    BY DEF Sink!StoredUpTo, KeysOf, Sink!KeysOf
  <1> QED
    BY <1>1, <1>3, <1>4, <1>5

-----------------------------------------------------------------------------
(* Type correctness, one action at a time. *)

(* What getmany takes are messages of the topic. *)
LEMMA PolledMessages ==
    ASSUME TypeOK, NEW n \in [Partitions -> 0..MaxRecords],
           \A p \in Partitions : position[p] + n[p] <= Len(topic[p])
    PROVE  \A m \in Polled(n) : \E p \in Partitions :
              \E i \in 1..Len(topic[p]) : topic[p][i] = m /\ m \in Message
  <1> SUFFICES ASSUME NEW p \in Partitions,
                      NEW i \in position[p] + 1 .. position[p] + n[p]
               PROVE  /\ i \in 1..Len(topic[p])
                      /\ topic[p][i] \in Message
    BY DEF Polled
  <1>1. /\ position[p] \in Nat
        /\ n[p] \in Nat
        /\ topic[p] \in Seq(Message)
        /\ Len(topic[p]) \in Nat
        /\ position[p] + n[p] <= Len(topic[p])
    BY DEF TypeOK
  <1>2. i \in 1..Len(topic[p])
    BY <1>1
  <1> QED
    BY <1>1, <1>2

(* The rows an insert of a batch leaves are candles. *)
LEMMA InsertCandles ==
    ASSUME TypeOK, Rejected \notin candles,
           NEW result \in InsertResults(table, candles)
    PROVE  result \in SUBSET Candle
  <1>1. candles \subseteq Candle
    BY DEF TypeOK
  <1> QED
    BY <1>1 DEF InsertResults, Fresh, TypeOK

(* The initial state is well typed. *)
LEMMA InitTypeOK == Init => TypeOK
  BY WriterAssumption DEF Init, TypeOK, InitTable, Candle, Message

(* Every step keeps the types and the bounds. *)
LEMMA NextTypeOK == TypeOK /\ CommittedSomething /\ [Next]_vars => TypeOK'
  <1> SUFFICES ASSUME TypeOK, CommittedSomething, [Next]_vars
               PROVE  TypeOK'
    OBVIOUS
  <1>a. \A p \in Partitions : StartOffset(p) \in 0..MaxLen
    BY WriterAssumption DEF TypeOK, CommittedSomething, StartOffset
  <1>b. 0 \in 0..MaxLen
    BY WriterAssumption
  <1>1. CASE Produce
    <2>1. PICK q \in Partitions, m \in Produced :
              /\ Len(topic[q]) < MaxLen
              /\ topic' = [topic EXCEPT ![q] = Append(@, m)]
      BY <1>1 DEF Produce
    <2>2. Append(topic[q], m) \in Seq(Message) /\ Len(Append(topic[q], m)) <= MaxLen
      BY <2>1, WriterAssumption DEF TypeOK
    <2>3. /\ topic' \in [Partitions -> Seq(Message)]
          /\ \A p \in Partitions : Len(topic'[p]) <= MaxLen
      BY <2>1, <2>2 DEF TypeOK
    <2> QED
      BY <1>1, <2>3 DEF Produce, TypeOK
  <1>2. CASE Start
    BY <1>2, <1>a DEF Start, TypeOK
  <1>3. CASE GetMany
    <2>1. PICK n \in [Partitions -> 0..MaxRecords] :
              /\ \A p \in Partitions : position[p] + n[p] <= Len(topic[p])
              /\ position' = [p \in Partitions |-> position[p] + n[p]]
              /\ candles' = Parsed(Polled(n))
      BY <1>3 DEF GetMany
    <2>2. candles' \in SUBSET (Candle \cup {Rejected})
      BY <2>1, PolledMessages DEF Parsed, Message
    <2>3. ASSUME NEW p \in Partitions
          PROVE  position[p] + n[p] \in 0..MaxLen
      <3>1. /\ position[p] \in Nat
            /\ n[p] \in Nat
            /\ Len(topic[p]) \in Nat
            /\ Len(topic[p]) <= MaxLen
            /\ position[p] + n[p] <= Len(topic[p])
        BY <2>1 DEF TypeOK
      <3> QED
        BY <3>1, WriterAssumption
    <2>4. position' \in [Partitions -> 0..MaxLen]
      BY <2>1, <2>3
    <2> QED
      BY <1>3, <2>2, <2>4 DEF GetMany, TypeOK
  <1>4. CASE InsertSucceeds
    BY <1>4, InsertCandles DEF InsertSucceeds, TypeOK
  <1>5. CASE InsertFails
    <2>1. table' \in SUBSET Candle
      BY <1>5, InsertCandles DEF InsertFails, TypeOK
    <2> QED
      BY <1>5, <2>1 DEF InsertFails, TypeOK
  <1>6. CASE SeekToCommitted
    <2>1. position' \in [Partitions -> 0..MaxLen]
      BY <1>6, WriterAssumption DEF SeekToCommitted, TypeOK
    <2> QED
      BY <1>6, <2>1 DEF SeekToCommitted, TypeOK
  <1>7. CASE Commit
    BY <1>7 DEF Commit, TypeOK
  <1>8. CASE Crash
    <2>1. table' \in SUBSET Candle
      BY <1>8, InsertCandles DEF Crash, TypeOK
    <2>2. faults' \in 0..MaxFaults
      BY <1>8, WriterAssumption DEF Crash, TypeOK
    <2> QED
      BY <1>8, <1>b, <2>1, <2>2 DEF Crash, TypeOK
  <1>9. CASE Rebalance
    <2>1. faults' \in 0..MaxFaults
      BY <1>9, WriterAssumption DEF Rebalance, TypeOK
    <2> QED
      BY <1>9, <1>a, <2>1 DEF Rebalance, TypeOK
  <1>10. CASE UNCHANGED vars
    BY <1>10 DEF vars, TypeOK
  <1> QED
    BY <1>1, <1>2, <1>3, <1>4, <1>5, <1>6, <1>7, <1>8, <1>9, <1>10 DEF Next

-----------------------------------------------------------------------------
(* The parts of the inductive invariant. *)

(* Every step only appends to the topic and only adds rows. *)
LEMMA NextGrows == TypeOK /\ [Next]_vars => Grows
  <1> SUFFICES ASSUME TypeOK, [Next]_vars
               PROVE  Grows
    OBVIOUS
  <1>1. table \subseteq table'
    BY InsertKeeps DEF Next, vars, Produce, Start, GetMany, InsertSucceeds, InsertFails,
                       SeekToCommitted, Commit, Crash, Rebalance
  <1>2. CASE Produce
    <2>1. PICK q \in Partitions, m \in Produced :
              topic' = [topic EXCEPT ![q] = Append(@, m)]
      BY <1>2 DEF Produce
    <2>2. /\ topic[q] \in Seq(Message)
          /\ m \in Message
      BY WriterAssumption DEF TypeOK
    <2>3. /\ Len(topic[q]) <= Len(Append(topic[q], m))
          /\ \A i \in 1..Len(topic[q]) : Append(topic[q], m)[i] = topic[q][i]
      BY <2>2
    <2>4. \A p \in Partitions : Len(topic[p]) \in Nat
      BY DEF TypeOK
    <2> QED
      BY <1>1, <2>1, <2>3, <2>4 DEF Grows, TypeOK
  <1>3. CASE topic' = topic
    BY <1>1, <1>3 DEF Grows, TypeOK
  <1> QED
    BY <1>2, <1>3 DEF Next, vars, Start, GetMany, InsertSucceeds, InsertFails,
                      SeekToCommitted, Commit, Crash, Rebalance

(* Every step keeps one row for each key. *)
LEMMA NextOneRow ==
    OneRowPerKey(table) /\ [Next]_vars => OneRowPerKey(table')
  <1> SUFFICES ASSUME OneRowPerKey(table), [Next]_vars
               PROVE  OneRowPerKey(table')
    OBVIOUS
  <1>1. table' = table \/ table' \in InsertResults(table, candles)
    BY DEF Next, vars, Produce, Start, GetMany, InsertSucceeds, InsertFails,
           SeekToCommitted, Commit, Crash, Rebalance
  <1> QED
    BY <1>1, InsertOneRow

(* A commit moves a group forward, never back. *)
LEMMA NextCommitted ==
    TypeOK /\ CommittedSomething /\ PositionAhead /\ [Next]_vars
        => /\ CommittedSomething'
           /\ \A p \in Partitions : committed[p] <= committed'[p]
  <1> SUFFICES ASSUME TypeOK, CommittedSomething, PositionAhead, [Next]_vars,
                      NEW p \in Partitions
               PROVE  committed'[p] \in Nat \ {0} /\ committed[p] <= committed'[p]
    BY DEF CommittedSomething
  <1>1. CASE Commit
    <2>1. /\ committed'[p] = position[p]
          /\ committed[p] <= position[p]
          /\ committed[p] \in Nat \ {0}
          /\ position[p] \in Nat
      BY <1>1 DEF Commit, PositionAhead, CommittedSomething, TypeOK
    <2> QED
      BY <2>1
  <1>2. CASE committed' = committed
    BY <1>2 DEF CommittedSomething
  <1> QED
    BY <1>1, <1>2 DEF Next, vars, Produce, Start, GetMany, InsertSucceeds, InsertFails,
                      SeekToCommitted, Crash, Rebalance

(* A seek or a rebalance sets a live consumer back to what is committed, and
   no step sets it back further. *)
LEMMA NextPositionAhead ==
    TypeOK /\ CommittedSomething /\ PositionAhead /\ [Next]_vars => PositionAhead'
  <1> SUFFICES ASSUME TypeOK, CommittedSomething, PositionAhead, [Next]_vars,
                      pc' # "stopped", NEW p \in Partitions
               PROVE  committed'[p] <= position'[p]
    BY DEF PositionAhead
  <1>1. /\ committed[p] \in Nat \ {0}
        /\ committed[p] # NoOffset
        /\ position[p] \in Nat
        /\ StartOffset(p) = committed[p]
    BY WriterAssumption DEF CommittedSomething, TypeOK, StartOffset
  <1>2. CASE Start
    BY <1>1, <1>2 DEF Start
  <1>3. CASE GetMany
    <2>1. PICK n \in [Partitions -> 0..MaxRecords] :
              position' = [q \in Partitions |-> position[q] + n[q]]
      BY <1>3 DEF GetMany
    <2>2. /\ position'[p] = position[p] + n[p]
          /\ n[p] \in Nat
      BY <2>1
    <2>3. committed' = committed /\ committed[p] <= position[p]
      BY <1>3 DEF GetMany, PositionAhead
    <2> QED
      BY <1>1, <2>2, <2>3
  <1>4. CASE SeekToCommitted
    BY <1>1, <1>4 DEF SeekToCommitted
  <1>5. CASE Commit
    BY <1>1, <1>5 DEF Commit
  <1>6. CASE Rebalance
    BY <1>1, <1>6 DEF Rebalance
  <1>7. CASE Crash
    BY <1>7 DEF Crash
  <1>8. CASE \/ Produce \/ InsertSucceeds \/ InsertFails \/ UNCHANGED vars
    BY <1>8 DEF Produce, InsertSucceeds, InsertFails, vars, PositionAhead
  <1> QED
    BY <1>2, <1>3, <1>4, <1>5, <1>6, <1>7, <1>8 DEF Next

(* A batch is made of messages of the topic, and the topic only grows. *)
LEMMA NextBatchFromTopic ==
    TypeOK /\ TypeOK' /\ BatchFromTopic /\ [Next]_vars => BatchFromTopic'
  <1> SUFFICES ASSUME TypeOK, TypeOK', BatchFromTopic, [Next]_vars,
                      NEW c \in candles', c \in Candle
               PROVE  \E p \in Partitions : \E i \in 1..Len(topic'[p]) : topic'[p][i] = c
    BY DEF BatchFromTopic, Sink!TopicCandles
  <1>1. CASE GetMany
    <2>1. PICK n \in [Partitions -> 0..MaxRecords] :
              /\ \A p \in Partitions : position[p] + n[p] <= Len(topic[p])
              /\ candles' = Parsed(Polled(n))
      BY <1>1 DEF GetMany
    <2>2. c \in Polled(n)
      BY <2>1 DEF Parsed
    <2> QED
      BY <1>1, <2>1, <2>2, PolledMessages DEF GetMany
  <1>2. CASE candles' = candles
    <2>a. PICK p \in Partitions : \E i \in 1..Len(topic[p]) : topic[p][i] = c
      BY <1>2 DEF BatchFromTopic, Sink!TopicCandles
    <2>1. PICK i \in 1..Len(topic[p]) : topic[p][i] = c
      BY <2>a
    <2>2. topic'[p][i] = c /\ Len(topic[p]) <= Len(topic'[p])
      BY <2>1, NextGrows DEF Grows
    <2>3. i \in 1..Len(topic'[p])
      BY <2>2 DEF TypeOK
    <2> QED
      BY <2>2, <2>3
  <1>3. CASE candles' = {}
    BY <1>3
  <1> QED
    BY <1>1, <1>2, <1>3 DEF Next, vars, Produce, Start, InsertSucceeds, InsertFails,
                            SeekToCommitted, Commit, Crash, Rebalance

(* A message of a live consumer's past: in the table, or in the open batch. *)
LEMMA NextNoCommittedLoss == IInv /\ TypeOK' /\ [Next]_vars => NoCommittedLoss'
  <1> SUFFICES ASSUME IInv, TypeOK', [Next]_vars,
                      NEW p \in Partitions, committed'[p] # NoOffset
               PROVE  StoredThen(p, committed'[p])
    BY DEF NoCommittedLoss, StoredThen, Sink!StoredUpTo, KeysOf, Sink!KeysOf
  <1> USE DEF IInv
  <1>1. CASE Commit
    <2>1. /\ committed'[p] = position[p]
          /\ topic' = topic
          /\ table' = table
      BY <1>1 DEF Commit, TypeOK
    <2>2. \A i \in 1..position[p] :
              /\ i <= Len(topic[p])
              /\ topic[p][i] \in Candle => topic[p][i].key \in KeysOf(table)
      BY <1>1 DEF Commit, PassedIsHandled
    <2> QED
      BY <2>1, <2>2 DEF StoredThen
  <1>2. CASE committed' = committed
    <2>1. committed[p] \in Nat /\ committed[p] # NoOffset
      BY <1>2 DEF CommittedSomething
    <2>2. Sink!StoredUpTo(p, committed[p])
      BY <2>1 DEF NoCommittedLoss
    <2>3. StoredThen(p, committed[p])
      BY <2>1, <2>2, NextGrows, StoredStays
    <2> QED
      BY <1>2, <2>3
  <1> QED
    BY <1>1, <1>2 DEF Next, vars, Produce, Start, GetMany, InsertSucceeds, InsertFails,
                      SeekToCommitted, Crash, Rebalance

(* Handled messages stay handled when the position does not move. *)
HandledUpTo(p, n) ==
    \A i \in 1..n :
        /\ i <= Len(topic[p])
        /\ topic[p][i] \in Candle =>
              \/ topic[p][i].key \in KeysOf(table)
              \/ pc = "writing" /\ topic[p][i] \in candles

(* What is stored is handled. *)
LEMMA StoredIsHandled ==
    ASSUME NEW p \in Partitions, NEW n \in Nat, Sink!StoredUpTo(p, n)
    PROVE  HandledUpTo(p, n)
  BY DEF Sink!StoredUpTo, HandledUpTo, KeysOf, Sink!KeysOf

(* Every step keeps PassedIsHandled.  The seek after a failed insert and the
   covering of the batch by the insert are what it rests on. *)
LEMMA NextPassedIsHandled == IInv /\ TypeOK' /\ [Next]_vars => PassedIsHandled'
  <1> SUFFICES ASSUME IInv, TypeOK', [Next]_vars,
                      pc' \in {"polling", "writing", "committing"},
                      NEW p \in Partitions
               PROVE  HandledUpTo(p, position[p])'
    BY DEF PassedIsHandled, HandledUpTo
  <1> USE DEF IInv
  <1>g. Grows
    BY NextGrows
  <1>h. pc \in {"polling", "writing", "committing"} => HandledUpTo(p, position[p])
    BY DEF PassedIsHandled, HandledUpTo
  <1>t. /\ Len(topic[p]) \in Nat
        /\ Len(topic'[p]) \in Nat
        /\ position[p] \in Nat
    BY DEF TypeOK
  <1>c. /\ committed[p] \in Nat
        /\ committed[p] # NoOffset
        /\ committed[p] # 0
        /\ StartOffset(p) = committed[p]
        /\ Sink!StoredUpTo(p, committed[p])
    BY WriterAssumption DEF CommittedSomething, NoCommittedLoss, StartOffset
  (* The steps that go back to what is committed. *)
  <1>1. CASE Start \/ SeekToCommitted \/ Rebalance
    <2>1. position'[p] = committed[p]
      BY <1>1, <1>c DEF Start, SeekToCommitted, Rebalance
    <2>2. StoredThen(p, committed[p])
      BY <1>c, <1>g, StoredStays
    <2>3. ASSUME NEW i \in 1..position'[p]
          PROVE  /\ i <= Len(topic'[p])
                 /\ topic'[p][i] \in Candle => topic'[p][i].key \in KeysOf(table')
      BY <2>1, <2>2 DEF StoredThen
    <2> QED
      BY <2>3 DEF HandledUpTo
  <1>2. CASE GetMany
    <2>1. PICK n \in [Partitions -> 0..MaxRecords] :
              /\ \A q \in Partitions : position[q] + n[q] <= Len(topic[q])
              /\ position' = [q \in Partitions |-> position[q] + n[q]]
              /\ candles' = Parsed(Polled(n))
      BY <1>2 DEF GetMany
    <2>2. /\ n[p] \in Nat
          /\ position'[p] = position[p] + n[p]
          /\ position[p] + n[p] <= Len(topic[p])
      BY <2>1
    <2>3. /\ topic' = topic
          /\ table' = table
          /\ pc = "polling"
          /\ candles' # {} => pc' = "writing"
      BY <1>2 DEF GetMany
    <2>4. ASSUME NEW i \in 1..position'[p]
          PROVE  /\ i <= Len(topic[p])
                 /\ topic[p][i] \in Candle =>
                       \/ topic[p][i].key \in KeysOf(table)
                       \/ topic[p][i] \in candles'
      <3>1. i <= Len(topic[p])
        BY <1>t, <2>2
      <3>2. CASE i \in 1..position[p]
        BY <1>h, <2>3, <3>1, <3>2 DEF HandledUpTo
      <3>3. CASE i \in position[p] + 1 .. position[p] + n[p]
        <4>1. topic[p][i] \in Polled(n)
          BY <3>3 DEF Polled
        <4>2. topic[p][i] \in Candle => topic[p][i] \in candles'
          BY <2>1, <4>1, WriterAssumption DEF Parsed
        <4> QED
          BY <3>1, <4>2
      <3> QED
        BY <1>t, <2>2, <3>2, <3>3
    <2> QED
      BY <2>3, <2>4 DEF HandledUpTo
  <1>3. CASE InsertSucceeds
    <2>1. /\ table' \in InsertResults(table, candles)
          /\ topic' = topic
          /\ position' = position
      BY <1>3 DEF InsertSucceeds
    <2>2. HandledUpTo(p, position[p])
      BY <1>3, <1>h DEF InsertSucceeds
    <2>3. KeysOf(table) \subseteq KeysOf(table')
      BY <1>g, KeysGrow DEF Grows
    <2>4. \A c \in candles : c.key \in KeysOf(table')
      BY <2>1, InsertCovers
    <2> QED
      BY <2>1, <2>2, <2>3, <2>4 DEF HandledUpTo
  <1>4. CASE Produce
    <2>1. /\ table' = table
          /\ pc' = pc
          /\ position' = position
          /\ candles' = candles
      BY <1>4 DEF Produce
    <2>2. HandledUpTo(p, position[p])
      BY <1>h, <2>1
    <2>3. ASSUME NEW i \in 1..position[p]
          PROVE  i <= Len(topic'[p]) /\ topic'[p][i] = topic[p][i]
      BY <1>g, <1>t, <2>2 DEF HandledUpTo, Grows
    <2> QED
      BY <2>1, <2>2, <2>3 DEF HandledUpTo
  <1>5. CASE Commit
    <2>1. /\ pc = "committing"
          /\ table' = table
          /\ topic' = topic
          /\ position' = position
      BY <1>5 DEF Commit
    <2> QED
      BY <1>h, <2>1 DEF HandledUpTo
  <1>6. CASE InsertFails \/ Crash
    BY <1>6 DEF InsertFails, Crash
  <1>7. CASE UNCHANGED vars
    BY <1>7, <1>h DEF vars, HandledUpTo
  <1> QED
    BY <1>1, <1>2, <1>3, <1>4, <1>5, <1>6, <1>7 DEF Next

-----------------------------------------------------------------------------
(* The inductive invariant. *)

(* The initial topic is committed and stored to its end. *)
LEMMA InitStored ==
    ASSUME Init, NEW p \in Partitions
    PROVE  Sink!StoredUpTo(p, Len(topic[p]))
  <1> SUFFICES ASSUME NEW i \in 1..Len(InitTopic[p]), InitTopic[p][i] \in Candle
               PROVE  InitTopic[p][i].key \in KeysOf(InitTable)
    <2>1. Len(InitTopic[p]) \in Nat
      BY WriterAssumption
    <2> QED
      BY <2>1 DEF Init, Sink!StoredUpTo, KeysOf, Sink!KeysOf
  <1>1. InitTopic[p][i] \in InitTable
    BY DEF InitTable
  <1> QED
    BY <1>1 DEF KeysOf

LEMMA InitIInv == Established /\ Init => IInv
  <1> SUFFICES ASSUME Established, Init
               PROVE  IInv
    OBVIOUS
  <1>1. TypeOK
    BY InitTypeOK
  <1>2. ASSUME NEW p \in Partitions
        PROVE  committed[p] = Len(topic[p]) /\ committed[p] \in Nat \ {0}
    <2>1. InitTopic[p] \in Seq(Message) /\ InitTopic[p] # <<>>
      BY WriterAssumption DEF Established
    <2> QED
      BY <2>1 DEF Init
  <1>3. CommittedSomething
    BY <1>2 DEF CommittedSomething
  <1>4. NoCommittedLoss
    BY <1>2, InitStored DEF NoCommittedLoss
  <1>5. PositionAhead /\ BatchFromTopic /\ PassedIsHandled
    BY DEF Init, PositionAhead, BatchFromTopic, PassedIsHandled
  <1>6. OneRowPerKey(table)
    BY WriterAssumption DEF Init
  <1> QED
    BY <1>1, <1>3, <1>4, <1>5, <1>6 DEF IInv

LEMMA NextIInv == IInv /\ [Next]_vars => IInv'
  <1> SUFFICES ASSUME IInv, [Next]_vars
               PROVE  IInv'
    OBVIOUS
  <1>1. TypeOK'
    BY NextTypeOK DEF IInv
  <1>2. CommittedSomething'
    BY NextCommitted DEF IInv
  <1>3. PositionAhead'
    BY NextPositionAhead DEF IInv
  <1>4. BatchFromTopic'
    BY <1>1, NextBatchFromTopic DEF IInv
  <1>5. NoCommittedLoss'
    BY <1>1, NextNoCommittedLoss
  <1>6. PassedIsHandled'
    BY <1>1, NextPassedIsHandled
  <1>7. OneRowPerKey(table)'
    BY NextOneRow DEF IInv
  <1> QED
    BY <1>1, <1>2, <1>3, <1>4, <1>5, <1>6, <1>7 DEF IInv

(* IInv holds of every reachable state of an established group. *)
THEOREM Invariance == Established => (Spec => []IInv)
  BY InitIInv, NextIInv, PTL DEF Spec

(* Variables keep their types, offsets and positions their bounds. *)
THEOREM TypeCorrectness == Established => (Spec => []TypeOK)
  <1>1. IInv => TypeOK
    BY DEF IInv
  <1> QED
    BY <1>1, Invariance, PTL

(* No committed offset ever covers a candle without a row: insert before
   commit, seek after a failed insert (consumer.py). *)
THEOREM CommittedIsStored == Established => (Spec => []NoCommittedLoss)
  <1>1. IInv => NoCommittedLoss
    BY DEF IInv
  <1> QED
    BY <1>1, Invariance, PTL

(* What a live consumer moved past is in the table or in its open batch. *)
THEOREM PassedAlwaysHandled == Established => (Spec => []PassedIsHandled)
  <1>1. IInv => PassedIsHandled
    BY DEF IInv
  <1> QED
    BY <1>1, Invariance, PTL

(* Replays, duplicates and two versions of one candle never make a second row.
   This one and the next do not need an established group. *)
THEOREM OneRowAlways == Spec => []OneRow
  <1>1. Init => OneRow
    BY WriterAssumption DEF Init, OneRow
  <1>2. OneRow /\ [Next]_vars => OneRow'
    BY NextOneRow DEF OneRow
  <1> QED
    BY <1>1, <1>2, PTL DEF Spec

(* No step changes or removes a row (ON CONFLICT DO NOTHING). *)
THEOREM RowsNeverChange == Spec => RowsImmutable
  <1>1. [Next]_vars => [table \subseteq table']_vars
    BY InsertKeeps DEF Next, vars, Produce, Start, GetMany, InsertSucceeds, InsertFails,
                       SeekToCommitted, Commit, Crash, Rebalance
  <1> QED
    BY <1>1, PTL DEF Spec, RowsImmutable

(* The group's offsets never move back, although positions do. *)
THEOREM OffsetsNeverMoveBack == Established => (Spec => CommitMonotone)
  <1>1. IInv /\ [Next]_vars =>
            [\A p \in Partitions :
                committed[p] # NoOffset =>
                    committed'[p] # NoOffset /\ committed[p] <= committed'[p]]_vars
    <2>1. IInv /\ [Next]_vars => CommittedSomething'
                               /\ \A p \in Partitions : committed[p] <= committed'[p]
      BY NextCommitted DEF IInv
    <2> QED
      BY <2>1, WriterAssumption DEF CommittedSomething
  <1> QED
    BY <1>1, Invariance, PTL DEF Spec, CommitMonotone

-----------------------------------------------------------------------------
(* The writer implements AtLeastOnceSink. *)

LEMMA InitRefines == Init => Sink!SinkInit
  <1> SUFFICES ASSUME Init
               PROVE  Sink!SinkInit
    OBVIOUS
  <1>1. topic \in [Partitions -> Seq(Message)]
    BY WriterAssumption DEF Init
  <1>2. Sink!OneRowPerKey(table)
    BY WriterAssumption DEF Init, OneRowPerKey, Sink!OneRowPerKey
  <1>3. committed = [p \in Partitions |-> IF topic[p] = <<>> THEN NoOffset
                                                            ELSE Len(topic[p])]
    BY DEF Init
  <1> QED
    BY <1>1, <1>2, <1>3, InitStored DEF Sink!SinkInit

(* A step that may insert the batch is a Store of the sink, or a stutter. *)
LEMMA InsertRefines ==
    ASSUME IInv, TypeOK', UNCHANGED <<topic, committed>>,
           table' = table \/ table' \in InsertResults(table, candles)
    PROVE  [Sink!SinkNext]_Sink!sinkVars
  <1>1. CASE table' = table
    BY <1>1 DEF Sink!sinkVars
  <1>2. CASE table' \in InsertResults(table, candles)
    <2>1. PICK new \in SUBSET Fresh(table, candles) :
              OneRowPerKey(new) /\ table' = table \cup new
      BY <1>2, InsertAdds
    <2>2. new \subseteq Candle
      BY <2>1 DEF TypeOK
    <2>3. new \subseteq Sink!TopicCandles
      BY <2>2 DEF IInv, BatchFromTopic, Fresh
    <2>4. new \in SUBSET Sink!Fresh(table, Sink!TopicCandles)
      BY <2>3 DEF Fresh, KeysOf, Sink!Fresh, Sink!KeysOf
    <2>5. Sink!OneRowPerKey(new)
      BY <2>1 DEF OneRowPerKey, Sink!OneRowPerKey
    <2>6. Sink!Store
      BY <2>1, <2>4, <2>5 DEF Sink!Store
    <2> QED
      BY <2>6 DEF Sink!SinkNext
  <1> QED
    BY <1>1, <1>2

(* A commit acknowledges only what is stored. *)
LEMMA CommitRefines ==
    ASSUME IInv, IInv', Commit
    PROVE  Sink!Acknowledge
  <1>1. committed' \in [Partitions -> Nat]
    BY DEF Commit, IInv, TypeOK
  <1>2. ASSUME NEW p \in Partitions
        PROVE  /\ committed[p] <= committed'[p]
               /\ Sink!StoredUpTo(p, committed'[p])
    <2>1. committed'[p] = position[p] /\ committed[p] <= position[p]
      BY DEF Commit, IInv, TypeOK, PositionAhead
    <2>2. HandledUpTo(p, position[p]) /\ pc # "writing"
      BY DEF Commit, IInv, PassedIsHandled, HandledUpTo
    <2> QED
      BY <2>1, <2>2 DEF HandledUpTo, Sink!StoredUpTo, KeysOf, Sink!KeysOf
  <1>3. UNCHANGED <<topic, table>>
    BY DEF Commit
  <1> QED
    BY <1>1, <1>2, <1>3 DEF Sink!Acknowledge

(* Every step of the writer is a step of the sink or a stutter. *)
LEMMA NextRefines == IInv /\ IInv' /\ [Next]_vars => [Sink!SinkNext]_Sink!sinkVars
  <1> SUFFICES ASSUME IInv, IInv', [Next]_vars
               PROVE  [Sink!SinkNext]_Sink!sinkVars
    OBVIOUS
  <1>1. CASE Produce
    <2>1. Sink!Publish
      BY <1>1, WriterAssumption DEF Produce, Sink!Publish
    <2> QED
      BY <2>1 DEF Sink!SinkNext
  <1>2. CASE InsertSucceeds \/ InsertFails \/ Crash
    BY <1>2, InsertRefines DEF InsertSucceeds, InsertFails, Crash, IInv
  <1>3. CASE Commit
    BY <1>3, CommitRefines DEF Sink!SinkNext
  <1>4. CASE Start \/ GetMany \/ SeekToCommitted \/ Rebalance \/ UNCHANGED vars
    BY <1>4 DEF Start, GetMany, SeekToCommitted, Rebalance, vars, Sink!sinkVars
  <1> QED
    BY <1>1, <1>2, <1>3, <1>4 DEF Next

(* The detailed writer, with its polls, seeks, crashes and rebalances, keeps
   the promise of the at-least-once sink: publish, store, then acknowledge. *)
THEOREM ImplementsSink == Established => (Spec => SinkSpec)
  <1>1. Established /\ Spec => []IInv
    BY Invariance
  <1> QED
    BY <1>1, InitRefines, NextRefines, PTL DEF Spec, SinkSpec, Sink!SinkSpec

=============================================================================
