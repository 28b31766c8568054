\* Two checks; the first alone fills a batch.
SPECIFICATION FairSpec
CONSTANTS
    p1 = p1
    p2 = p2
    PairOrder <- TwoPairs
    Steady <- Both
    Fine = 2
    Coarse = 4
    Lookback = 2
    BatchSize = 2
    DeleteBatch = 2
    Keep <- KeepAll
    Forever = Forever
    MaxDelay = 0
    MaxNow = 6
    MaxFaults = 0
PROPERTIES
    BucketsAppear
