\* One browser with two tabs, three requests and a fourth event, a fault.  The
\* access token and the legacy token are refused from the second tick after their
\* birth on, the refresh token from the third on.
SPECIFICATION Spec
CONSTANTS
    b1 = b1
    b2 = b2
    t1 = t1
    t2 = t2
    Browsers = {b1}
    Tabs = {t1, t2}
    Legacy = {b1}
    AccessTTL = 1
    LegacyTTL = 1
    RefreshTTL = 2
    MaxSessions = 3
    MaxReqs = 3
    MaxTime = 3
    MaxEvents = 4
SYMMETRY Symmetry
INVARIANT TypeOK
INVARIANT ReuseIsExplained
INVARIANT NoForkWithoutOverlap
INVARIANT LogoutAllLeavesOnlyRacers
INVARIANT KilledIsRefused
\* A browser may stop using its session.
CHECK_DEADLOCK FALSE
