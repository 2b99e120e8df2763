SPECIFICATION FairSpec
CHECK_DEADLOCK FALSE
CONSTANTS
    i1         = i1
    i2         = i2
    n1         = n1
    n2         = n2
    Specs      <- LoadSpecs
    Images     = {i1}
    NoImage    = NoImage
    Ports      = {n1, n2}
    Lag        <- DeploymentLag
    Rank       <- AnyOrder
    MonitorCRD = TRUE
    Webhooks   = FALSE
    Classes    = FALSE
    Deletions  = FALSE
    MaxEdits   = 2
    MaxFaults  = 1
    Absent     = Absent
INVARIANT SettledChildren
INVARIANT SettledStatus
INVARIANT SettledServerConfig
PROPERTY EventuallySettles
PROPERTY ImplementsConvergence
