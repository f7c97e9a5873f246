\* Two symbols; for each, three combinations that fit, or fewer, with all their
\* results.  The command exits.
SPECIFICATION CommandSpec
CONSTANTS
    Arguments = 2
    Nothing = Nothing
    Grid <- MCGrid
    Sharpes <- MCSharpes
    NoSharpe = NoSharpe
    MinTrades = 2
    RatioNum = 7
    RatioDen = 10
    MaxCandles = 12
INVARIANTS
    CommandTypeOK
    RankingExplainsBest
    EverySymbolTold
CHECK_DEADLOCK FALSE
