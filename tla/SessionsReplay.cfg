\* A browser that has kept the 24 h token of its login.
SPECIFICATION Spec
CONSTANTS
    b1 = b1
    b2 = b2
    t1 = t1
    t2 = t2
    Browsers = {b1}
    Tabs = {t1, t2}
    Legacy = {b1}
    AccessTTL = 1
    LegacyTTL = 1
    RefreshTTL = 2
    MaxSessions = 3
    MaxReqs = 3
    MaxTime = 3
    MaxEvents = 3
SYMMETRY Symmetry
INVARIANT ReplayIsAccepted
\* A browser may stop using its session.
CHECK_DEADLOCK FALSE
