\* Two users, two requests at a time, none dies, one invite.
CONSTANTS
    u1 = u1
    u2 = u2
    Users = {u1, u2}
    r1 = r1
    r2 = r2
    Requests = {r1, r2}
    i1 = i1
    InviteIds = {i1}
    ForeignIds = {}
    Nobody = Nobody
    NoInvite = NoInvite
    MayFail = FALSE
SPECIFICATION Spec
SYMMETRY Symmetry
INVARIANT OwnerIsAdmin
\* A deleted board accepts no request: the system may stop.
CHECK_DEADLOCK FALSE
