\* One symbol and every kind of fault.  The clock stops at
\* MaxTime, and with it everything.
SPECIFICATION LiveSpec
CONSTANTS
    Symbols = {s1}
    None = None
    MaxTime = 5
    MaxFaults <- MCAllFaults
INVARIANTS
    TypeOK
    NoUnexplainedGap
PROPERTIES
    LogSpec
    EventuallyPublished
CHECK_DEADLOCK FALSE
