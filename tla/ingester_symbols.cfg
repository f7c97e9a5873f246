\* Two symbols: flags, last candles and heals are kept apart.  The clock stops at
\* MaxTime, and with it everything.
SPECIFICATION Spec
CONSTANTS
    Symbols = {s1, s2}
    None = None
    MaxTime = 3
    MaxFaults <- MCTwoSymbols
INVARIANTS
    NoUnexplainedGap
CHECK_DEADLOCK FALSE
