\* Three backtests and a read, a pool of three, two permits, two threads: queues
\* form at each of them.  All requests may have been answered.
SPECIFICATION FairSpec
CONSTANTS
    Backtests = {b1, b2, b3}
    Reads = {g1}
    MaxPoolSize = 3
    MaxConcurrent = 2
    Workers = 2
INVARIANTS
    TypeOK
    NothingLeaks
    NoGhosts
PROPERTIES
    EveryoneAnswered
CHECK_DEADLOCK FALSE
