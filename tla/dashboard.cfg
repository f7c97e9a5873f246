\* Five minutes of two instants, hours and days of two minutes, one other symbol.  A
\* page can always be opened: no deadlock.
SPECIFICATION Spec
CONSTANTS
    Minute = 2
    Hour = 4
    Day = 4
    Limits = {2}
    Watched = a
    Others = {b}
    SlowWindows = {2}
    MaxSpan = 2
    None = None
    MaxTime = 8
INVARIANTS
    TypeOK
    TruncatedTells
    CompleteIsAccepted
    RememberedIsListed
    SpansAreGaps
