\* Two notifiers, one of them broken, with batches of one, a lost answer, two reloads,
\* retention, a crash and a failing statement.
SPECIFICATION FairSpec
CONSTANTS
    mail = mail
    hook = hook
    MaxEntries = 2
    Notifiers <- Both
    NotifierOf <- TakeTurns
    Broken <- JustHook
    BatchSize = 1
    MaxAttempts = 4
    Base = 1
    Cap = 2
    RetentionOn = TRUE
    Late = 1
    MaxLost = 1
    MaxReloads = 2
    MaxCrashes = 1
    MaxFailures = 1
INVARIANTS
    DuplicatesExplained
PROPERTIES
    SettledIsFinal
    EntriesSettle
    HealthyDelivered
\* With every entry settled nothing is left to do.
CHECK_DEADLOCK FALSE
