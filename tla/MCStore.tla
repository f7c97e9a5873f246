------------------------------- MODULE MCStore -------------------------------
(* The writer and a backfill command over the same keys. *)
EXTENDS CandleStore, TLC

CONSTANTS writer, backfill, k1, k2, v1, v2

MCRow == [key : {k1, k2}, val : {v1, v2}]

(* Batches that overlap, in one key or in both, with one version or two. *)
MCBatches ==
    {{[key |-> k1, val |-> v1], [key |-> k2, val |-> v1]},
     {[key |-> k1, val |-> v2], [key |-> k2, val |-> v1]},
     {[key |-> k1, val |-> v1], [key |-> k1, val |-> v2]}}

=============================================================================
