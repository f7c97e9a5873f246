\* Two sessions insert overlapping batches; connections are lost anywhere.
\* A session stops after MaxCalls calls.
SPECIFICATION FairSpec
CONSTANTS
    writer = writer
    backfill = backfill
    k1 = k1
    k2 = k2
    v1 = v1
    v2 = v2
    Sessions = {writer, backfill}
    Row <- MCRow
    Batches <- MCBatches
    NoRow = NoRow
    MaxCalls = 2
    MaxFaults = 1
INVARIANTS
    TypeOK
    NeverUndercounts
PROPERTIES
    AtomicSpec
    CallsEnd
CHECK_DEADLOCK FALSE
