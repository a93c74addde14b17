\* Three requests at a time that may die, five keys.
CONSTANTS
    r1 = r1
    r2 = r2
    r3 = r3
    Requests = {r1, r2, r3}
    k1 = k1
    k2 = k2
    k3 = k3
    k4 = k4
    k5 = k5
    Keys = {k1, k2, k3, k4, k5}
    NoKey = NoKey
    MayFail = TRUE
SPECIFICATION MCSpec
SYMMETRY Symmetry
INVARIANTS AvatarExists CalmOneObject
\* A deleted account accepts no request: the system may stop.
CHECK_DEADLOCK FALSE
