\* fetch_range for all starts, ends, gaps of the exchange and clocks of the
\* instance.  The clock stops at MaxTime.
SPECIFICATION Spec
CONSTANTS
    Minute = 2
    Limit = 2
    MaxTime = 9
INVARIANTS
    TypeOK
    OnlyFinalized
    Complete
PROPERTIES
    PagesAscend
    Terminates
CHECK_DEADLOCK FALSE
