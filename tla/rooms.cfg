\* One client, two requests of the server at a time, two joins under way.
CONSTANTS
    u1 = u1
    r1 = r1
    r2 = r2
    j1 = j1
    j2 = j2
    Users = {u1}
    Board = Board
    Requests = {r1, r2}
    Calls = {j1, j2}
    NoCall = NoCall
SPECIFICATION Spec
INVARIANTS TypeOK OpenViewsAreInTheRoom OpenViewsAreCurrent NotificationsAreCurrent
PROPERTIES EveryViewCatchesUp RemovedMembersLeave
