SPECIFICATION Spec
CONSTANTS
    Users = {u1, u2}
    Orgs = {o1}
    Invitations = {i1}
    Requests = {r1, r2}
SYMMETRY Symmetric
INVARIANT LastOwnerKept
CHECK_DEADLOCK FALSE
