--------------------------- MODULE AtLeastOnceSink ---------------------------
(***************************************************************************)
(* What the writer promises, without saying how: "At-least-once delivery   *)
(* plus idempotency.  Offsets are committed after the write, never before."*)
(* (README, Design decisions.)                                             *)
(*                                                                         *)
(* Messages are appended to a partitioned topic.  Rows are stored, each    *)
(* taken from a message of the topic, and never changed afterwards.  The   *)
(* group's offsets are acknowledged, forwards only, and only past messages *)
(* whose candle has a row.                                                 *)
(***************************************************************************)
EXTENDS Integers, Sequences, CandleTable

CONSTANTS
    Partitions,   \* partitions of the topic candles.1m
    Candle,       \* the well-formed messages: records with fields key, val
    Message,      \* every message, Candle included
    NoOffset      \* the group has committed nothing on a partition

VARIABLES
    topic,        \* [Partitions -> Seq(Message)]
    committed,    \* [Partitions -> Nat \cup {NoOffset}], offsets of the group
    table         \* the rows of candles_1m

sinkVars == <<topic, committed, table>>

-----------------------------------------------------------------------------

(* Every candle among the first n messages of p has a row. *)
StoredUpTo(p, n) ==
    \A i \in 1..n :
        /\ i <= Len(topic[p])
        /\ topic[p][i] \in Candle => topic[p][i].key \in KeysOf(table)

(* The candles the topic holds. *)
TopicCandles ==
    {m \in Candle : \E p \in Partitions : \E i \in 1..Len(topic[p]) : topic[p][i] = m}

-----------------------------------------------------------------------------

SinkInit ==
    /\ topic \in [Partitions -> Seq(Message)]
    /\ committed = [p \in Partitions |-> IF topic[p] = <<>> THEN NoOffset
                                                            ELSE Len(topic[p])]
    /\ OneRowPerKey(table)
    /\ \A p \in Partitions : StoredUpTo(p, Len(topic[p]))

(* A producer appends one message. *)
Publish ==
    /\ \E p \in Partitions, m \in Message :
          topic' = [topic EXCEPT ![p] = Append(@, m)]
    /\ UNCHANGED <<committed, table>>

(* Candles of the topic get their rows; existing rows stay as they are. *)
Store ==
    /\ \E new \in SUBSET Fresh(table, TopicCandles) :
          /\ OneRowPerKey(new)
          /\ table' = table \cup new
    /\ UNCHANGED <<topic, committed>>

(* The group's offsets move forward over stored messages. *)
Acknowledge ==
    /\ committed' \in [Partitions -> Nat]
    /\ \A p \in Partitions :
          /\ committed[p] # NoOffset => committed[p] <= committed'[p]
          /\ StoredUpTo(p, committed'[p])
    /\ UNCHANGED <<topic, table>>

SinkNext == Publish \/ Store \/ Acknowledge

SinkSpec == SinkInit /\ [][SinkNext]_sinkVars

=============================================================================
