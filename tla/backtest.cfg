\* Every history of the instance, with every pair of windows.  A run that has
\* returned or raised is over.
SPECIFICATION Spec
CONSTANTS
    Prices = {2, 3}
    Histories <- MCHistories
    Windows <- MCWindows
    MaxCandles = 5
    Capital = 4
    FeeNum = 1
    FeeDen = 10
    SlipNum = 1
    SlipDen = 10
    Lot = 5
    None = None
INVARIANTS
    TypeOK
    NoLookAhead
    FollowsSignal
    LedgerAddsUp
    CostsNeverPay
    OnlyDustIsDropped
    CurveEndsAtFinal
CHECK_DEADLOCK FALSE
