SPECIFICATION FairSpec
CHECK_DEADLOCK FALSE
CONSTANTS
    i1         = i1
    i2         = i2
    n1         = n1
    n2         = n2
    Specs      <- ServerSpecs
    Images     = {i1}
    NoImage    = NoImage
    Ports      = {n1, n2}
    Lag        <- NoLag
    Rank       <- AnyOrder
    MonitorCRD = TRUE
    Webhooks   = TRUE
    Classes    = FALSE
    Deletions  = FALSE
    MaxEdits   = 2
    MaxFaults  = 0
    Absent     = Absent
PROPERTY ServerConfigAdopted
