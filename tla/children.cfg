SPECIFICATION Spec
CHECK_DEADLOCK FALSE
CONSTANTS
    i1         = i1
    i2         = i2
    n1         = n1
    n2         = n2
    Specs      <- ChildSpecs
    Images     = {i1, i2}
    NoImage    = NoImage
    Ports      = {n1, n2}
    Lag        <- ClassLag
    Rank       <- InOrder
    MonitorCRD = TRUE
    Webhooks   = TRUE
    Classes    = TRUE
    Deletions  = TRUE
    MaxEdits   = 3
    MaxFaults  = 0
    Absent     = Absent
INVARIANT TypeOK
INVARIANT SettledChildren
PROPERTY ImplementsConvergence
