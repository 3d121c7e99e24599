SPECIFICATION Spec
CONSTANTS
    Users = {u1, u2}
    Orgs = {o1}
    Invitations = {i1, i2}
    Requests = {r1, r2}
SYMMETRY Symmetric
INVARIANT SpentByOneJoin
INVARIANT OrgHasOwner
INVARIANT DeletedOrgsAreClosed
PROPERTY ErasureSparesOthers
CHECK_DEADLOCK FALSE
