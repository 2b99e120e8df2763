SPECIFICATION FairSpec
CHECK_DEADLOCK FALSE
CONSTANTS
    Texts     = {t1, t2}
    BadTexts  = {t2}
    NoText    = NoText
    Replicas  = 1
    MaxEvents = 2
    Absent    = Absent
INVARIANT TypeOK
INVARIANT SettledApplied
INVARIANT HealthFollowsStatus
PROPERTY EventuallySettles
