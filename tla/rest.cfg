SPECIFICATION FairSpec
CHECK_DEADLOCK FALSE
CONSTANTS
    Pipelines = {p1}
    Clusters  = {c1, c2}
    Keys      = {k1}
    BlankKeys = {}
    Defs      <- OneDef
    Absent    = Absent
    Images    = {i1}
    Drifts    <- NoDrift
    Lag       <- NoLag
    Webhooks  = TRUE
    Moves     = TRUE
    MaxEdits  = 3
    MaxUid    = 1
    MaxFaults = 1
INVARIANT AppliedWasPublished
INVARIANT SettledMerged
PROPERTY EventuallySettles
PROPERTY DeletionCompletes
