CONSTANTS
    W = 4
    Tip = 4
    MaxHeaderFetch = 5
    SoftResponseLimit = 5
    EstHeaderSize = 2
    Amounts <- HostileAmounts
    Skips <- HostileSkips

SPECIFICATION Spec

INVARIANT WalkOrderFollowsReverseFlag
