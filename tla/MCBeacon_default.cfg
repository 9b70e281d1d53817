\* two intervals are the whole timeout; a frame takes a tick
CONSTANTS
    Second = 4
    MaxSecs = 2
    Setups <- DefaultSetup
    Late = 0
    Transfer = 1
    Room = 2
SPECIFICATION FairSpec
INVARIANT OnlyDeadPeersExpire
CHECK_DEADLOCK FALSE
