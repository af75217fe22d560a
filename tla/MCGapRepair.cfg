CONSTANTS
    Interval = 2
    Duration = 10
    GapBlock = 2
    MaxCandles = 5
    Horizon = 17
    Markets <- MCMarkets
SPECIFICATION FairSpec
INVARIANT WindowCovers
INVARIANT VerdictRight
PROPERTY RepairKeepsLatest
PROPERTY RepairEnds
CHECK_DEADLOCK FALSE
