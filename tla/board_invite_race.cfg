\* Two users, two requests at a time, none dies, two invites.
CONSTANTS
    u1 = u1
    u2 = u2
    Users = {u1, u2}
    r1 = r1
    r2 = r2
    Requests = {r1, r2}
    i1 = i1
    i2 = i2
    InviteIds = {i1, i2}
    ForeignIds = {}
    Nobody = Nobody
    NoInvite = NoInvite
    MayFail = FALSE
SPECIFICATION Spec
SYMMETRY Symmetry
INVARIANT OneInvitePerOutsider
\* A deleted board accepts no request: the system may stop.
CHECK_DEADLOCK FALSE
