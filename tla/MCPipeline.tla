------------------------------ MODULE MCPipeline ------------------------------
(* One symbol that is streamed and backfilled, and one that is only backfilled. *)
EXTENDS Pipeline

CONSTANTS a, b

MCArguments == <<a, b>>

(* Ranges of one and two minutes: in the past or not, as the clock stands. *)
MCRanges == {<<0, 1>>, <<0, 2>>}

(* The exchange has every minute, or lacks the first: it answers the shorter
   range with no candle, the longer one with fewer. *)
MCLacking == {{}, {0}}

(* One message of an earlier time, before the first minute. *)
MCEarlier == [s \in {a} |-> <<[key |-> <<s, -1>>, val |-> "final"]>>]

=============================================================================
