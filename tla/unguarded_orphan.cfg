SPECIFICATION FifoSpec
CHECK_DEADLOCK FALSE
CONSTANTS
    Pipelines = {p1, p2}
    Clusters  = {c1}
    Keys      = {k1, k2}
    BlankKeys = {}
    Defs      <- OneDef
    Absent    = Absent
    Images    = {i1}
    Drifts    <- NoDrift
    Lag       <- PipelineLag
    Webhooks  = TRUE
    Moves     = FALSE
    MaxEdits  = 4
    MaxUid    = 1
    MaxFaults = 0
SYMMETRY Symmetry
INVARIANT SettledNoOrphans
