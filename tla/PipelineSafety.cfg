\* Two checks of a kind that is limited to one round at a time, a job channel shorter than
\* the number of workers, and reloads that drop a check whose round may be in flight, bring
\* one of another kind and then all three; startup rounds, no faults.
SPECIFICATION Spec
CONSTANTS
    c1 = c1
    c2 = c2
    c3 = c3
    icmp = icmp
    dns = dns
    NoCheck = NoCheck
    Workers = {w1, w2}
    Checks <- ThreeChecks
    Kinds = {icmp, dns}
    KindOf <- TwoKinds
    Intervals = {2, 3}
    KindLimit <- OneIcmp
    QueueCap = 1
    ResultCap = 1
    Offset <- JitterC1
    StartupImmediate = TRUE
    CommandCap = 1
    InitialConfig <- Both
    MaxTime = 3
    MaxPanics = 0
    AlertCap = 1
    StorageFails = FALSE
    ReloadConfigs <- SwapAndReturn
    MaxReloads = 2
    MaxPressure = 0
    DrainMayTimeOut = FALSE
    MaxBackSteps = 0
INVARIANTS
    TypeOK
    RunningExact
    SlotConservation
    DrainFlushes
    NoSlotMissed
    GlobalLimitHeld
PROPERTIES
    LedgerSpec
SYMMETRY WorkerSymmetry
