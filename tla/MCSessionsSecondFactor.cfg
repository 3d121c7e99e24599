SPECIFICATION Spec
CONSTANTS
    Users = {u1}
    Ids = {t1, t2, t3}
    Requests = {r1}
    Grace = 0
    RefreshTTL = 1
    SessionMaxAge = 2
    MfaTTL = 1
    MaxTime = 3
SYMMETRY Symmetric
PROPERTY DisabledSignInNever
CHECK_DEADLOCK FALSE
