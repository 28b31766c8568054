\* A rule on a metric with a duration, a repeat interval and hysteresis.
SPECIFICATION Spec
CONSTANTS
    loss = loss
    nodata = nodata
    Alerts <- JustLoss
    SilenceAlerts <- None
    CheckOf <- SameCheck
    Readings <- Hysteresis
    Duration = 1
    RepeatEvery = 2
    ReloadOutcomes = {}
    AlertChannelFull = FALSE
    MaxNow = 6
    MaxRounds = 7
    MaxReloads = 0
    MaxCrashes = 0
    MaxFailures = 0
INVARIANTS
    StateTold
    DurationHolds
    RepeatSpacing
\* The clock and the rounds are bounded: the model may stop.
CHECK_DEADLOCK FALSE
