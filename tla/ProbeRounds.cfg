\* Two workers, two rounds: of two ICMP samples, with answers that come late, twice or
\* never, under either kind of socket; or of one sample of each other kind.
SPECIFICATION ProbesSpec
CONSTANTS
    w1 = w1
    w2 = w2
    Workers <- TwoWorkers
    Methods <- BothMethods
    Protocols <- EveryProtocol
    NoLatency = NoLatency
    Samples = 2
    Timeout = 4
    Spacing = 1
    IdSpace = 8
    FirstId = 1
    MaxNow = 5
    MaxRounds = 2
    MaxAnswers = 2
    MaxFailures = 1
SYMMETRY Alike
INVARIANTS
    RepliesAreOwn
    LostMeansSilence
    LatencyOfAnswers
\* The clock and the rounds are bounded: the model may stop.
CHECK_DEADLOCK FALSE
