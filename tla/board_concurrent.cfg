\* Three users, two requests at a time that may die, an invite of
\* this board and one of another.
CONSTANTS
    u1 = u1
    u2 = u2
    u3 = u3
    Users = {u1, u2, u3}
    r1 = r1
    r2 = r2
    Requests = {r1, r2}
    i1 = i1
    i2 = i2
    InviteIds = {i1, i2}
    ForeignIds = {i2}
    Nobody = Nobody
    NoInvite = NoInvite
    MayFail = TRUE
SPECIFICATION Spec
SYMMETRY Symmetry
INVARIANT TypeOK
PROPERTIES InvitesFollowLifecycle OwnerHandsOverByLeaving
\* A deleted board accepts no request: the system may stop.
CHECK_DEADLOCK FALSE
