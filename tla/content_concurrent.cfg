\* Two requests at a time that may die, any client, negative positions
\* included: two lists of one board, two tasks.
CONSTANTS
    l1 = l1
    l2 = l2
    t1 = t1
    t2 = t2
    r1 = r1
    r2 = r2
    Lists = {l1, l2}
    OtherLists = {}
    BoardOf <- TwoBoards
    Tasks = {t1, t2}
    Requests = {r1, r2}
    NoList = NoList
    NoTask = NoTask
    Gone = Gone
    Deleted = Deleted
    Keep = Keep
    Statuses = {"OPEN"}
    Positions <- BesideZero
    MaxPosition = 0
    Careful = FALSE
    MayFail = TRUE
SPECIFICATION Spec
SYMMETRY Symmetry
INVARIANTS TypeOK NoPositionBelowSent
PROPERTIES OtherListsKeepOrder
