SPECIFICATION Spec
CHECK_DEADLOCK FALSE
CONSTANTS
    Pipelines = {p1, p2}
    Clusters  = {c1}
    Keys      = {k1, k2}
    BlankKeys = {k2}
    Defs      <- AnyDefs
    Absent    = Absent
    Images    = {i1}
    Drifts    <- NoDrift
    Lag       <- NoLag
    Webhooks  = FALSE
    Moves     = FALSE
    MaxEdits  = 3
    MaxUid    = 1
    MaxFaults = 1
SYMMETRY PipelineSymmetry
INVARIANT SettledMerged
INVARIANT SettledStamped
INVARIANT SettledCluster
PROPERTY NoOrphanOnDelete
PROPERTY LastGoodTextStays
