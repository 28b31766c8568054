\* One check that is dropped and brought back while the wall clock steps back; a worker may
\* panic, a statement may fail, the drain may time out, and disk pressure pauses the scheduler.
SPECIFICATION FairSpec
CONSTANTS
    c1 = c1
    c2 = c2
    c3 = c3
    icmp = icmp
    dns = dns
    NoCheck = NoCheck
    Workers = {w1, w2}
    Checks <- JustC1
    Kinds = {icmp}
    KindOf <- C1Icmp
    Intervals = {2, 3}
    KindLimit <- NoKindLimit
    QueueCap = 1
    ResultCap = 1
    Offset <- NoJitter
    StartupImmediate = FALSE
    CommandCap = 1
    InitialConfig <- OnlyC1
    MaxTime = 3
    MaxPanics = 1
    AlertCap = 1
    StorageFails = TRUE
    ReloadConfigs <- StopAndReturn
    MaxReloads = 2
    MaxPressure = 1
    DrainMayTimeOut = TRUE
    MaxBackSteps = 1
INVARIANTS
    CurrentStateBacked
    SlotsAdvance
PROPERTIES
    SlotsSettle
    ShutdownEnds
    DeathIsFatal
