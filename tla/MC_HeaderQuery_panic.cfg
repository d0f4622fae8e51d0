CONSTANTS
    W = 4
    Tip = 4
    MaxHeaderFetch = 3
    SoftResponseLimit = 7
    EstHeaderSize = 2
    Amounts <- WalkAmounts
    Skips <- WalkSkips

SPECIFICATION Spec

INVARIANT NoNilDereference
