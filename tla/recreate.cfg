SPECIFICATION Spec
CHECK_DEADLOCK FALSE
CONSTANTS
    Pipelines = {p1}
    Clusters  = {c1}
    Keys      = {k1}
    BlankKeys = {}
    Defs      <- OneDef
    Absent    = Absent
    Images    = {i1, i2}
    Drifts    <- EmptyDrift
    Lag       <- ChildLag
    Webhooks  = TRUE
    Moves     = FALSE
    MaxEdits  = 4
    MaxUid    = 2
    MaxFaults = 0
SYMMETRY Symmetry
INVARIANT SettledCluster
INVARIANT SettledMerged
INVARIANT StampedWasPublished
PROPERTY HashOwnedByPipelines
