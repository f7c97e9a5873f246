\* A group that has never committed: a failed first insert is not retried,
\* because seek_to_committed leaves partitions without an offset alone.
SPECIFICATION Spec
CONSTANTS
    p1 = p1
    p2 = p2
    k1 = k1
    k2 = k2
    k3 = k3
    v1 = v1
    v2 = v2
    Partitions = {p1, p2}
    Keys = {k1, k2, k3}
    Vals = {v1}
    PartitionOf <- MCPartitionOf
    Malformed = Malformed
    Rejected = Rejected
    NoOffset = NoOffset
    Produced <- MCProduced
    InitTopic <- MCFreshGroup
    MaxRecords = 2
    MaxLen = 2
    MaxFaults = 0
INVARIANTS
    NoCommittedLoss
