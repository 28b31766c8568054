\* The disk fills and empties at will, and two configurations take turns.
SPECIFICATION FairSpec
CONSTANTS
    MaxFree = 4
    Limits <- TwoConfigurations
    CmdCapacity = 2
INVARIANTS
    DecisionsArrive
PROPERTIES
    LimitsFollowed
