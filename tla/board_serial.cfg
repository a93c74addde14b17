\* One request at a time, none dies: four users, two invites of
\* this board and one of another.
CONSTANTS
    u1 = u1
    u2 = u2
    u3 = u3
    u4 = u4
    Users = {u1, u2, u3, u4}
    r1 = r1
    Requests = {r1}
    i1 = i1
    i2 = i2
    i3 = i3
    InviteIds = {i1, i2, i3}
    ForeignIds = {i3}
    Nobody = Nobody
    NoInvite = NoInvite
    MayFail = FALSE
SPECIFICATION Spec
SYMMETRY Symmetry
INVARIANTS OwnerIsAdmin OneInvitePerOutsider
PROPERTIES HandlersAreAtomic
\* A deleted board accepts no request: the system may stop.
CHECK_DEADLOCK FALSE
