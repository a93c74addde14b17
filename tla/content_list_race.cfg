\* Two requests at a time, careful clients: a list is deleted while a task is created in it.
CONSTANTS
    l1 = l1
    t1 = t1
    r1 = r1
    r2 = r2
    Lists = {l1}
    OtherLists = {}
    BoardOf <- TwoBoards
    Tasks = {t1}
    Requests = {r1, r2}
    NoList = NoList
    NoTask = NoTask
    Gone = Gone
    Deleted = Deleted
    Keep = Keep
    Statuses = {"OPEN", "DONE"}
    Positions = {0}
    MaxPosition = 1
    Careful = TRUE
    MayFail = FALSE
SPECIFICATION Spec
SYMMETRY Symmetry
PROPERTIES ListsDieEmpty
