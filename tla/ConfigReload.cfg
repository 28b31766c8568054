\* Two targets with three checks; the file, a secret and the requests change between any two
\* steps of a start or a reload.  An idle server waits, and a process whose file is refused
\* stays down, so a state without a step is no error.
SPECIFICATION Spec
CONSTANTS
    None = None
    Unparsable = Unparsable
    Forever = Forever
    MaxU64 = 1000000000
    Files <- AllFiles
    Content <- Contents
    InitialFile = "base"
    Readable <- SecretStates
    InitialSecrets <- FirstSecrets
    IcmpAvailable = FALSE
    CommandCap = 1
    MaxEdits = 2
    MaxRotations = 1
    MaxRequests = 2
    MaxCrashes = 1
INVARIANTS
    CopiesAgree
    AssignmentsExact
PROPERTIES
    FailureKeepsRunning
    KindStable
    RevisionFollowsSettings
    EditsTakeEffect
CHECK_DEADLOCK FALSE
