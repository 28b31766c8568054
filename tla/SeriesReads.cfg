\* Series and pages of rounds while rounds come late and the rollup and the retention worker run.
SPECIFICATION SeriesSpec
CONSTANTS
    p1 = p1
    PairOrder <- OnePair
    Steady <- First
    Fine = 2
    Coarse = 4
    Lookback = 2
    BatchSize = 100
    DeleteBatch = 100
    Keep <- KeepShort
    Forever = Forever
    MaxDelay = 1
    MaxNow = 5
    MaxFaults = 0
    Bins = {0, 1, 2}
    NoLatency = NoLatency
    Ended <- Mixed
    Latency <- Spread
    Requests <- SomeRequests
    FallbackLimit = 3
    Limits = {2}
INVARIANTS
    RoundsShown
    NoRoundTwice
    PointsTell
    PagesExact
