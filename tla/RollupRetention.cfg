\* A check that runs all the time; rounds come late, a cycle may fail, and retention deletes
\* rounds and fine buckets.
SPECIFICATION Spec
CONSTANTS
    p1 = p1
    p2 = p2
    PairOrder <- OnePair
    Steady <- First
    Fine = 3
    Coarse = 6
    Lookback = 2
    BatchSize = 100
    DeleteBatch = 100
    Keep <- KeepSome
    Forever = Forever
    MaxDelay = 1
    MaxNow = 15
    MaxFaults = 1
INVARIANTS
    BucketsSound
    NoRoundLost
PROPERTIES
    CountedInTime
