CONSTANTS
    Second = 4
    MaxSecs = 2
    Setups <- AllSetups
    Late = 2
    Transfer = 2
    Room = 2
SPECIFICATION FairSpec
INVARIANTS
    TypeOK
    GivenUpForDelay
PROPERTY DeadPeersExpire
CHECK_DEADLOCK FALSE
