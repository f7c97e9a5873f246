\* The writer under crashes, rebalances, failed inserts and messages it cannot
\* store, for a group that has committed on each partition before.
SPECIFICATION FairSpec
CONSTANTS
    p1 = p1
    p2 = p2
    k1 = k1
    k2 = k2
    k3 = k3
    v1 = v1
    v2 = v2
    Partitions = {p1, p2}
    Keys = {k1, k2, k3}
    Vals = {v1, v2}
    PartitionOf <- MCPartitionOf
    Malformed = Malformed
    Rejected = Rejected
    NoOffset = NoOffset
    Produced <- MCProduced
    InitTopic <- MCEstablished
    MaxRecords = 2
    MaxLen = 3
    MaxFaults = 2
INVARIANTS
    IInv
    NoCommittedLoss
PROPERTIES
    SinkSpec
    EventuallyStored
