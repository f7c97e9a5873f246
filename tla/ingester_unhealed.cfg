\* One failed REST call, and the minutes it was for are never fetched again,
\* not even after the next reconnect.  The clock stops at MaxTime.
SPECIFICATION LiveSpec
CONSTANTS
    Symbols = {s1}
    None = None
    MaxTime = 6
    MaxFaults <- MCRestFaults
PROPERTIES
    GapEventuallyHealed
CHECK_DEADLOCK FALSE
