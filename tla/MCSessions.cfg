SPECIFICATION Spec
CONSTANTS
    Users = {u1}
    Ids = {t1, t2, t3}
    Requests = {r1, r2}
    Grace = 0
    RefreshTTL = 1
    SessionMaxAge = 1
    MfaTTL = 0
    MaxTime = 2
SYMMETRY Symmetric
INVARIANT OneActivePerSession
INVARIANT DeadlineHolds
INVARIANT EndedStaysEnded
PROPERTY DisabledGetNoTokens
CHECK_DEADLOCK FALSE
