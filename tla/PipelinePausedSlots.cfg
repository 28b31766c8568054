\* Disk pressure pauses the scheduler over a due slot.
SPECIFICATION FairSpec
CONSTANTS
    c1 = c1
    c2 = c2
    c3 = c3
    icmp = icmp
    dns = dns
    NoCheck = NoCheck
    Workers = {w1}
    Checks <- TwoChecks
    Kinds = {icmp}
    KindOf <- AllIcmp2
    Intervals = {2, 3}
    KindLimit <- NoKindLimit
    QueueCap = 2
    ResultCap = 1
    Offset <- Jitter2
    StartupImmediate = TRUE
    CommandCap = 1
    InitialConfig <- Both
    MaxTime = 2
    MaxPanics = 0
    AlertCap = 1
    StorageFails = FALSE
    ReloadConfigs <- NoReload
    MaxReloads = 0
    MaxPressure = 1
    DrainMayTimeOut = FALSE
    MaxBackSteps = 0
PROPERTIES
    PausedSlotsRecorded
