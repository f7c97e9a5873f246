\* A streamed symbol and a backfilled one, with every fault of every service.
\* The clock stops at MaxTime, the runs at MaxRuns.
SPECIFICATION Spec
CONSTANTS
    a = a
    b = b
    Arguments <- MCArguments
    Streamed = {a}
    Earlier <- MCEarlier
    None = None
    NoOffset = NoOffset
    MaxTime = 2
    MaxRuns = 2
    Ranges <- MCRanges
    Lacking <- MCLacking
    MaxFaults = 1
    MaxLen = 2
    MaxRestarts = 1
INVARIANTS
    ExitCodeTells
    EndToEnd
    RowsAreFinal
CHECK_DEADLOCK FALSE
