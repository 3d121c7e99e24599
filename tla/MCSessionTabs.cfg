SPECIFICATION TabsSpec
CONSTANTS
    Users = {u1}
    Ids = {t1, t2, t3}
    First = t1
    Tabs = {b1, b2}
    Requests = {b1, b2}
    Grace = 0
    RefreshTTL = 1
    SessionMaxAge = 1
    MfaTTL = 0
    MaxTime = 2
    Locks = TRUE
INVARIANT SignedInUntilOver
PROPERTY EveryRefreshEnds
CHECK_DEADLOCK FALSE
