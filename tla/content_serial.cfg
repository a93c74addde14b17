\* One request at a time, none dies, careful clients: two lists of one board,
\* one of another, three tasks.
CONSTANTS
    l1 = l1
    l2 = l2
    l3 = l3
    t1 = t1
    t2 = t2
    t3 = t3
    r1 = r1
    Lists = {l1, l2, l3}
    OtherLists = {l3}
    BoardOf <- TwoBoards
    Tasks = {t1, t2, t3}
    Requests = {r1}
    NoList = NoList
    NoTask = NoTask
    Gone = Gone
    Deleted = Deleted
    Keep = Keep
    Statuses = {"OPEN", "DONE"}
    Positions = {0, 1, 2}
    MaxPosition = 3
    Careful = TRUE
    MayFail = FALSE
SPECIFICATION Spec
SYMMETRY Symmetry
INVARIANTS DoneIffCompleted ListsApart
PROPERTIES ListsDieEmpty TasksFormSequences
