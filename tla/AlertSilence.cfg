\* A no_data rule under both evaluators, with a reload that removes the rule or the check or
\* moves the check to another profile, a restart and a failing statement.
SPECIFICATION FairSpec
CONSTANTS
    loss = loss
    nodata = nodata
    Alerts <- JustNoData
    SilenceAlerts <- JustNoData
    CheckOf <- SameCheck
    Readings <- Inverse
    Duration = 0
    RepeatEvery = 0
    ReloadOutcomes = {"rule_removed", "check_removed", "profile_changed"}
    AlertChannelFull = TRUE
    MaxNow = 1
    MaxRounds = 1
    MaxReloads = 1
    MaxCrashes = 1
    MaxFailures = 1
INVARIANTS
    TransitionsSent
PROPERTIES
    RemovedNotEvaluated
    SilenceFires
\* The clock and the rounds are bounded: the model may stop.
CHECK_DEADLOCK FALSE
