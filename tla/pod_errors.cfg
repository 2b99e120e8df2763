SPECIFICATION Spec
CHECK_DEADLOCK FALSE
CONSTANTS
    Texts     = {t1}
    BadTexts  = {t1}
    NoText    = NoText
    Replicas  = 1
    MaxEvents = 1
    Absent    = Absent
INVARIANT BootErrorsSurface
