------------------------------ MODULE MCWriter ------------------------------
(* Small instances of the writer: two partitions, one key each or two on one. *)
EXTENDS WriterConsumer, TLC

CONSTANTS p1, p2, k1, k2, k3, v1, v2

MCPartitionOf == (k1 :> p1) @@ (k2 :> p1) @@ (k3 :> p2)

MCCandles == Candle \ {[key |-> k3, val |-> v2], [key |-> k2, val |-> v2]}

(* Messages a topic may hold: duplicates, a second version of k1, a message
   that does not parse and one that parses but that no row can hold. *)
MCProduced == MCCandles \cup {Malformed, Rejected}

(* A group that has already committed on each partition. *)
MCEstablished == (p1 :> <<[key |-> k2, val |-> v1]>>) @@ (p2 :> <<Malformed>>)

(* A group that runs for the first time on an empty topic. *)
MCFreshGroup == (p1 :> <<>>) @@ (p2 :> <<>>)

=============================================================================
