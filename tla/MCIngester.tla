----------------------------- MODULE MCIngester -----------------------------
(* Small instances of the ingester, by the faults they allow. *)
EXTENDS Ingester, TLC

MCFaults(drop, rest, publish, crash) ==
    [k \in FaultKinds |-> CASE k = "drop" -> drop
                            [] k = "rest" -> rest
                            [] k = "publish" -> publish
                            [] k = "crash" -> crash]

MCAllFaults  == MCFaults(2, 1, 1, 1)
MCTwoSymbols == MCFaults(1, 1, 1, 1)
MCRestFaults == MCFaults(2, 1, 0, 0)

=============================================================================
