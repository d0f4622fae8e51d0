CONSTANTS
    p1 = p1
    p2 = p2
    NoPeer = NoPeer
    Procs <- MCProcs
    MaxHeight = 7
    MaxEnvChanges = 1
    StopThreshold = 0
    StartThreshold = 2
    BootStrapNode = FALSE

SPECIFICATION Spec

SYMMETRY MCSymmetry

INVARIANT CacheRejectsOnlyWhileSyncing
