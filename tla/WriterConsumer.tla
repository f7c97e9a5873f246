---------------------------- MODULE WriterConsumer ----------------------------
(***************************************************************************)
(* The writer service (src/crypto_pipeline/writer): one member of the      *)
(* consumer group "writers" that polls the topic candles.1m, inserts what  *)
(* it read into candles_1m and only then commits its offsets.  When the    *)
(* insert fails it seeks back to the committed offsets and polls again.    *)
(*                                                                         *)
(* The steps are the pieces of WriterConsumer.run between two awaits, so   *)
(* that a crash, a SIGTERM, a rebalance or a producer can come between     *)
(* any two of them.                                                        *)
(***************************************************************************)
EXTENDS Integers, Sequences, Functions, CandleTable

CONSTANTS
    Partitions,   \* partitions of candles.1m
    Keys,         \* primary keys (symbol, ts)
    Vals,         \* contents of a candle
    PartitionOf,  \* partition of a key: messages are keyed by symbol
    Malformed,    \* a message parse_kafka_candle raises on
    Rejected,     \* a message that parses but no row can hold ("symbol": null)
    Produced,     \* the messages producers append; a subset of Message
    NoOffset,     \* the group has no committed offset on a partition
    MaxRecords,   \* getmany(max_records)
    InitTopic,    \* the topic at start, all of it committed and stored
    MaxLen,       \* bound: messages per partition
    MaxFaults     \* bound: crashes and rebalances

Candle  == [key : Keys, val : Vals]
Message == Candle \cup {Malformed, Rejected}

(* The candles of the initial topic: what an earlier run of the group stored. *)
InitTable ==
    {m \in Candle : \E p \in Partitions : \E i \in 1..Len(InitTopic[p]) :
                        InitTopic[p][i] = m}

ASSUME WriterAssumption ==
    /\ PartitionOf \in [Keys -> Partitions]
    /\ Malformed \notin Candle
    /\ Rejected \notin Candle
    /\ Malformed # Rejected
    /\ Produced \subseteq Message
    /\ NoOffset \notin Nat
    /\ MaxRecords \in Nat \ {0}
    /\ MaxLen \in Nat
    /\ MaxFaults \in Nat
    /\ InitTopic \in [Partitions -> Seq(Message)]
    /\ \A p \in Partitions : Len(InitTopic[p]) <= MaxLen
    /\ OneRowPerKey(InitTable)

VARIABLES
    topic,        \* [Partitions -> Seq(Message)], kept by the broker
    committed,    \* offsets of the group, kept by the broker
    table,        \* rows of candles_1m
    position,     \* [Partitions -> Nat], next offset to read, in memory
    candles,      \* the parsed messages of the current batch
    pc,           \* where run() waits
    faults        \* crashes and rebalances so far

vars == <<topic, committed, table, position, candles, pc, faults>>

-----------------------------------------------------------------------------

(* Where a consumer with no position starts: auto_offset_reset="earliest". *)
StartOffset(p) == IF committed[p] = NoOffset THEN 0 ELSE committed[p]

(* The messages getmany returns when it takes n[p] messages of each partition. *)
Polled(n) ==
    UNION {{topic[p][i] : i \in position[p] + 1 .. position[p] + n[p]} : p \in Partitions}

(* Mutant: one malformed message discards the batch it is in. *)
ParsedAllOrNothing(msgs) == IF Malformed \in msgs THEN {} ELSE msgs

(* The loop over batches.values(): malformed messages are logged and skipped. *)
Parsed(msgs) == msgs \ {Malformed}

Init ==
    /\ topic = InitTopic
    /\ committed = [p \in Partitions |-> IF InitTopic[p] = <<>> THEN NoOffset
                                                                ELSE Len(InitTopic[p])]
    /\ table = InitTable
    /\ position = [p \in Partitions |-> 0]
    /\ candles = {}
    /\ pc = "stopped"
    /\ faults = 0

-----------------------------------------------------------------------------

(* A producer appends a message; a candle goes to the partition of its key. *)
Produce ==
    /\ \E p \in Partitions, m \in Produced :
          /\ Len(topic[p]) < MaxLen
          /\ m \in Candle => PartitionOf[m.key] = p
          /\ topic' = [topic EXCEPT ![p] = Append(@, m)]
    /\ UNCHANGED <<committed, table, position, candles, pc, faults>>

(* The process starts and joins the group. *)
Start ==
    /\ pc = "stopped"
    /\ pc' = "polling"
    /\ position' = [p \in Partitions |-> StartOffset(p)]
    /\ candles' = {}
    /\ UNCHANGED <<topic, committed, table, faults>>

(* Mutant: enable_auto_commit=True, offsets are committed as they are read. *)
GetManyAutoCommit ==
    /\ pc = "polling"
    /\ \E n \in [Partitions -> 0..MaxRecords] :
          /\ FoldFunction(+, 0, n) <= MaxRecords
          /\ \A p \in Partitions : position[p] + n[p] <= Len(topic[p])
          /\ position' = [p \in Partitions |-> position[p] + n[p]]
          /\ candles' = Parsed(Polled(n))
    /\ committed' = position'
    /\ pc' = IF candles' = {} THEN "polling" ELSE "writing"
    /\ UNCHANGED <<topic, table, faults>>

(***************************************************************************)
(* getmany and the parsing of what it returned, up to `if candles`.  With  *)
(* nothing read, or nothing parsed, run() polls again and commits nothing. *)
(***************************************************************************)
GetMany ==
    /\ pc = "polling"
    /\ \E n \in [Partitions -> 0..MaxRecords] :
          /\ FoldFunction(+, 0, n) <= MaxRecords
          /\ \A p \in Partitions : position[p] + n[p] <= Len(topic[p])
          /\ position' = [p \in Partitions |-> position[p] + n[p]]
          /\ candles' = Parsed(Polled(n))
    /\ pc' = IF candles' = {} THEN "polling" ELSE "writing"
    /\ UNCHANGED <<topic, committed, table, faults>>

(* insert_candles commits its transaction.  A row that breaks a NOT NULL
   constraint fails the COPY, and with it the whole batch. *)
InsertSucceeds ==
    /\ pc = "writing"
    /\ Rejected \notin candles
    /\ table' \in InsertResults(table, candles)
    /\ pc' = "committing"
    /\ UNCHANGED <<topic, committed, position, candles, faults>>

(* Mutant: a failed insert goes on polling without the seek. *)
InsertFailsNoSeek ==
    /\ pc = "writing"
    /\ pc' = "polling"
    /\ candles' = {}
    /\ UNCHANGED <<topic, committed, table, position, faults>>

(* insert_candles raises: the database is down, refuses a row, or is lost
   while COMMIT is on its way, in which case the rows may be there. *)
InsertFails ==
    /\ pc = "writing"
    /\ \/ table' = table
       \/ Rejected \notin candles /\ table' \in InsertResults(table, candles)
    /\ pc' = "seeking"
    /\ UNCHANGED <<topic, committed, position, candles, faults>>

(***************************************************************************)
(* seek_to_committed, the sleep and `continue`.  aiokafka seeks only those *)
(* partitions whose committed offset is there and positive; it leaves the  *)
(* others where the failed batch left them.                                *)
(***************************************************************************)
SeekToCommitted ==
    /\ pc = "seeking"
    /\ position' = [p \in Partitions |->
                       IF committed[p] # NoOffset /\ committed[p] # 0
                       THEN committed[p]
                       ELSE position[p]]
    /\ candles' = {}
    /\ pc' = "polling"
    /\ UNCHANGED <<topic, committed, table, faults>>

(* commit() without arguments: the positions of all assigned partitions. *)
Commit ==
    /\ pc = "committing"
    /\ committed' = position
    /\ candles' = {}
    /\ pc' = "polling"
    /\ UNCHANGED <<topic, table, position, faults>>

(***************************************************************************)
(* SIGTERM, a kill, or an exception run() does not catch (a failed commit  *)
(* or seek).  The thread or the server may still finish an insert under    *)
(* way.  Memory is lost; topic, offsets and table are not.                 *)
(***************************************************************************)
Crash ==
    /\ pc # "stopped"
    /\ faults < MaxFaults
    /\ faults' = faults + 1
    /\ pc' = "stopped"
    /\ position' = [p \in Partitions |-> 0]
    /\ candles' = {}
    /\ \/ table' = table
       \/ /\ pc = "writing"
          /\ Rejected \notin candles
          /\ table' \in InsertResults(table, candles)
    /\ UNCHANGED <<topic, committed>>

(* The group rebalances behind run(): the partitions are assigned anew and
   read from the committed offsets, while run() goes on with its batch. *)
Rebalance ==
    /\ pc # "stopped"
    /\ faults < MaxFaults
    /\ faults' = faults + 1
    /\ position' = [p \in Partitions |-> StartOffset(p)]
    /\ UNCHANGED <<topic, committed, table, candles, pc>>

Next ==
    \/ Produce
    \/ Start
    \/ GetMany
    \/ InsertSucceeds
    \/ InsertFails
    \/ SeekToCommitted
    \/ Commit
    \/ Crash
    \/ Rebalance

Spec == Init /\ [][Next]_vars

(***************************************************************************)
(* run() never stops of itself and the container is started again after a  *)
(* crash (weak fairness of its steps).  The database does not fail every   *)
(* insert for ever: an insert attempted again and again succeeds (strong   *)
(* fairness).  Nothing is assumed of producers, crashes and rebalances,    *)
(* except that MaxFaults bounds the latter two.                            *)
(***************************************************************************)
Fairness ==
    /\ WF_vars(Start)
    /\ WF_vars(GetMany)
    /\ SF_vars(InsertSucceeds)
    /\ WF_vars(InsertFails)
    /\ WF_vars(SeekToCommitted)
    /\ WF_vars(Commit)

FairSpec == Spec /\ Fairness

-----------------------------------------------------------------------------
(* Properties *)

Sink == INSTANCE AtLeastOnceSink

TypeOK ==
    /\ topic \in [Partitions -> Seq(Message)]
    /\ \A p \in Partitions : Len(topic[p]) <= MaxLen
    /\ committed \in [Partitions -> 0..MaxLen \cup {NoOffset}]
    /\ table \in SUBSET Candle
    /\ position \in [Partitions -> 0..MaxLen]
    /\ candles \in SUBSET (Candle \cup {Rejected})
    /\ pc \in {"stopped", "polling", "writing", "committing", "seeking"}
    /\ faults \in 0..MaxFaults

(***************************************************************************)
(* A committed offset never covers a candle that has no row: whatever      *)
(* crashes, rebalances and failed inserts come between poll, insert and    *)
(* commit, a restart that reads from the committed offsets misses nothing. *)
(* (consumer.py: insert, then commit, and seek back on failure.)           *)
(***************************************************************************)
NoCommittedLoss ==
    \A p \in Partitions : committed[p] # NoOffset => Sink!StoredUpTo(p, committed[p])

(***************************************************************************)
(* What a live consumer has moved past is either in the table or in the    *)
(* batch it still has to write, unless it is about to seek back.  This is  *)
(* what makes committing "all positions" (consumer.py:73) right.           *)
(***************************************************************************)
PassedIsHandled ==
    pc \in {"polling", "writing", "committing"} =>
        \A p \in Partitions : \A i \in 1..position[p] :
            /\ i <= Len(topic[p])
            /\ topic[p][i] \in Candle =>
                  \/ topic[p][i].key \in KeysOf(table)
                  \/ pc = "writing" /\ topic[p][i] \in candles

(***************************************************************************)
(* What makes the three above inductive, for a group that has committed on *)
(* every partition.  A live consumer is never behind what is committed, so *)
(* that commit() cannot move the group back; and a batch holds nothing the *)
(* topic does not, even after a rebalance has taken its partitions away.   *)
(***************************************************************************)
Established == \A p \in Partitions : InitTopic[p] # <<>>

CommittedSomething == \A p \in Partitions : committed[p] \in Nat \ {0}

PositionAhead ==
    pc # "stopped" => \A p \in Partitions : committed[p] <= position[p]

BatchFromTopic == \A c \in candles : c \in Candle => c \in Sink!TopicCandles

IInv ==
    /\ TypeOK
    /\ CommittedSomething
    /\ PositionAhead
    /\ BatchFromTopic
    /\ NoCommittedLoss
    /\ PassedIsHandled
    /\ OneRowPerKey(table)

(* The primary key holds: replayed and duplicated messages add no second row. *)
OneRow == OneRowPerKey(table)

(* The first row stored for a key is final: no step changes or removes a row
   (ON CONFLICT DO NOTHING in db.py). *)
RowsImmutable == [][table \subseteq table']_vars

(***************************************************************************)
(* The group's offsets never move back.  commit() commits positions, and   *)
(* those are set back by a seek and by a rebalance, but never below what   *)
(* is committed.                                                           *)
(***************************************************************************)
CommitMonotone ==
    [][\A p \in Partitions :
          committed[p] # NoOffset =>
              committed'[p] # NoOffset /\ committed[p] <= committed'[p]]_vars

(* The writer implements the abstract promise: publish, store, and only then
   acknowledge. *)
SinkSpec == Sink!SinkSpec

(* Every candle of the topic is in the table in the end: database outages,
   crashes and malformed neighbours delay it but do not lose it.  A message
   that parses but that no row can hold does: it fails every batch it is in,
   with all that was polled beside it. *)
RejectedInTopic == \E p \in Partitions : Rejected \in Range(topic[p])

EventuallyStored ==
    \A p \in Partitions, i \in 1..MaxLen :
        (i <= Len(topic[p])) ~> (Sink!StoredUpTo(p, i) \/ RejectedInTopic)

=============================================================================
