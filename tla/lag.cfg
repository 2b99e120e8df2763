SPECIFICATION Spec
CHECK_DEADLOCK FALSE
CONSTANTS
    Pipelines = {p1, p2}
    Clusters  = {c1}
    Keys      = {k1, k2}
    BlankKeys = {}
    Defs      <- OneDef
    Absent    = Absent
    Images    = {i1}
    Drifts    <- NoDrift
    Lag       <- QueueLag
    Webhooks  = TRUE
    Moves     = FALSE
    MaxEdits  = 3
    MaxUid    = 1
    MaxFaults = 0
SYMMETRY Symmetry
INVARIANT AppliedHasFinalizer
INVARIANT AppliedWasPublished
INVARIANT SettledMerged
PROPERTY ImplementsLifecycle
