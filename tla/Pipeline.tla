------------------------------- MODULE Pipeline -------------------------------
(***************************************************************************)
(* The pipeline end to end: the ingester feeds the topic, the writer moves *)
(* the topic into candles_1m, and the backfill command fills the same      *)
(* table from the side (README, architecture).                             *)
(*                                                                         *)
(* The ingester is its promise MinuteLog, which Ingester implements; the   *)
(* writer is its promise AtLeastOnceSink, which WriterConsumer implements. *)
(* Each symbol's messages are on a partition of their own.                 *)
(*                                                                         *)
(* The writer keeps that promise for a group that has committed an offset  *)
(* on each partition (WriterProofs: ImplementsSink assumes Established),   *)
(* so the topic holds messages from before, stored and committed.  A group *)
(* that has committed nothing is no part of this module: there the code    *)
(* may lose a batch, which run writer_fresh_group shows.                   *)
(***************************************************************************)
EXTENDS Backfill

CONSTANTS
    Streamed,     \* the symbols the ingester is subscribed to
    Earlier,      \* the rows of the messages the group has read before
    None,         \* no minute
    NoOffset,     \* no committed offset
    MaxLen,       \* bound: messages of a symbol
    MaxRestarts   \* bound: restarts of the ingester

(* The rows of all those messages. *)
EarlierRows == UNION {{Earlier[s][i] : i \in 1..Len(Earlier[s])} : s \in Streamed}

ASSUME PipelineAssumption ==
    /\ Earlier \in [Streamed -> Seq(EarlierRows) \ {<<>>}]
    /\ OneRowPerKey(EarlierRows)
    /\ \A r \in EarlierRows : r.val = "final"
    /\ None \notin Nat
    /\ NoOffset \notin Nat
    /\ {MaxLen, MaxRestarts} \subseteq Nat

VARIABLES
    topic,                \* the messages of each symbol since the start
    first, last, gaveUp,  \* the ingester, as in MinuteLog
    committed,            \* offsets of the group "writers"
    restarts              \* so far

ingesterVars == <<topic, first, last, gaveUp>>
writerVars == <<committed>>
vars == <<now, table, backfillVars, ingesterVars, writerVars, restarts>>

(* The rows a message may carry. *)
Rows == EarlierRows \cup [key : Streamed \X Minutes, val : {"final", "partial"}]

(* parse_kafka_candle: the row of a message. *)
Parsed(s, message) ==
    [key |-> <<s, message.ts>>, val |-> IF message.final THEN "final" ELSE "partial"]

(* The partition of s, parsed. *)
ParsedTopic ==
    [s \in Streamed |-> Earlier[s] \o [i \in 1..Len(topic[s]) |-> Parsed(s, topic[s][i])]]

Log == INSTANCE MinuteLog WITH Symbols <- Streamed, clock <- now, log <- topic

Sink == INSTANCE AtLeastOnceSink WITH
    Partitions <- Streamed, Candle <- Rows, Message <- Rows, topic <- ParsedTopic

-----------------------------------------------------------------------------

Init ==
    /\ Log!LogInit
    /\ table = EarlierRows
    /\ committed = [s \in Streamed |-> Len(Earlier[s])]
    /\ Sink!SinkInit
    /\ BackfillInit
    /\ restarts = 0

Tick ==
    /\ now < MaxTime
    /\ Log!Advance
    /\ UNCHANGED <<table, backfillVars, writerVars, restarts>>

(* The ingester publishes a minute, live or in a heal, or fails to. *)
Ingest(s) ==
    /\ Log!AppendKnown(s) \/ Log!AppendUnknown(s) \/ Log!GiveUp(s)
    /\ Len(topic'[s]) <= MaxLen
    /\ UNCHANGED <<table, backfillVars, writerVars, restarts>>

(* The ingester dies and starts again. *)
IngesterRestarts ==
    /\ restarts < MaxRestarts
    /\ restarts' = restarts + 1
    /\ Log!Restart
    /\ \A s \in Streamed : Len(topic'[s]) <= MaxLen
    /\ UNCHANGED <<table, backfillVars, writerVars>>

(* The writer inserts candles it has polled. *)
WriterInserts ==
    /\ UNCHANGED <<now, backfillVars, ingesterVars, restarts>>
    /\ Sink!Store

(* Mutant: offsets are committed as they are read. *)
WriterCommitsUnstored ==
    /\ \E s \in Streamed : \E n \in 1..Len(ParsedTopic[s]) :
          committed' = [committed EXCEPT ![s] = n]
    /\ UNCHANGED <<now, table, backfillVars, ingesterVars, restarts>>

(* The writer commits, once what it commits is stored. *)
WriterCommits ==
    /\ \E s \in Streamed : \E n \in 1..Len(ParsedTopic[s]) :
          committed' = [committed EXCEPT ![s] = n]
    /\ UNCHANGED <<now, backfillVars, ingesterVars, restarts>>
    /\ Sink!Acknowledge

BackfillSteps == BackfillNext /\ UNCHANGED <<ingesterVars, writerVars, restarts>>

Next ==
    \/ Tick
    \/ \E s \in Streamed : Ingest(s)
    \/ IngesterRestarts
    \/ WriterInserts
    \/ WriterCommits
    \/ BackfillSteps

Spec == Init /\ [][Next]_vars

-----------------------------------------------------------------------------
(* Properties *)

(* Minute m of s is in the table, or in the topic where the writer has yet to
   read it, now or after its next start. *)
StoredOrUnread(s, m) ==
    \/ <<s, m>> \in KeysOf(table)
    \/ \E i \in 1..Len(topic[s]) :
          topic[s][i].ts = m /\ committed[s] < Len(Earlier[s]) + i

(***************************************************************************)
(* From exchange to table: a minute between the first and the last one an  *)
(* ingester got acknowledged is stored, or on its way in the topic where   *)
(* the writer will still read it, unless the ingester gave it up.  No      *)
(* hand-over between the services loses one, once the group "writers" has  *)
(* committed an offset on each partition.                                  *)
(***************************************************************************)
EndToEnd ==
    \A s \in Streamed : first[s] # None =>
        \A m \in (first[s] .. last[s]) \ gaveUp[s] : StoredOrUnread(s, m)

(* A row is final, whoever stored it first, as long as no backfill was asked
   for a range that ends in the future: the first row of a key stays, so that
   a row read too early could never be put right by the live candle. *)
RowsAreFinal == ~ahead => \A r \in table : r.val = "final"

=============================================================================
