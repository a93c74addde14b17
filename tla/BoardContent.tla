---------------------------- MODULE BoardContent ----------------------------
(***************************************************************************)
(* The lists of some boards and their tasks: the handlers of ListService   *)
(* and TaskService that create, edit, reorder, move and delete them.       *)
(*                                                                         *)
(* As in BoardMembership, a handler is a sequence of repository calls,     *)
(* each one an atomic step, and what it has read stays in req[r].  Only    *)
(* moving a task between lists and deleting one are transactions: placing  *)
(* a task or a list is a shift of its neighbours, then the update of the   *)
(* row itself.                                                             *)
(*                                                                         *)
(* Requests come from members whose role allows them, and a request that   *)
(* its first read refuses is not represented.  The import of a Trello      *)
(* board, which creates lists and tasks in batches, is not part of this    *)
(* module, and the boards themselves live throughout.                      *)
(***************************************************************************)
EXTENDS Integers, FiniteSets

CONSTANTS
    Lists,        \* list ids
    BoardOf,      \* BoardOf[l]: the board that list l is created on
    Tasks,        \* task ids
    Requests,     \* request slots of the server
    NoList,       \* the absence of a list
    NoTask,       \* the absence of a task
    Gone,         \* a list without a row
    Deleted,      \* a task without a row
    Keep,         \* a field the body of an update leaves out
    Statuses,     \* the statuses clients send
    Positions,    \* the positions clients send: no handler refuses a
                  \* negative one
    MaxPosition,  \* bound: no list is created and no task moved between
                  \* lists beside a greater position
    Careful,      \* TRUE when clients place tasks and lists only with the
                  \* position and move endpoints, and tasks at indexes of
                  \* their list
    MayFail       \* TRUE when a request may die between two statements

ASSUME NoListIsNoId == NoList \notin Lists
ASSUME NoTaskIsNoId == NoTask \notin Tasks
ASSUME TasksAreFinite == IsFiniteSet(Tasks)
ASSUME GoneIsNoPosition == Gone \notin Int
ASSUME PositionsAreIntegers == Positions \subseteq Int
ASSUME SwitchesAreBoolean == Careful \in BOOLEAN /\ MayFail \in BOOLEAN

VARIABLES
    listAt,   \* listAt[l]: position of the list row, or Gone without a row
    task,     \* task[t]: the task row, or Deleted without a row
    req       \* req[r]: the local state of the handler in slot r

vars == <<listAt, task, req>>

-----------------------------------------------------------------------------

\* The statuses other than DONE are not told apart.
Status == {"OPEN", "DONE"}
ASSUME StatusesAreStatus == Statuses \subseteq Status

Task == [list : Lists, position : Int, status : Status, completed : BOOLEAN]

ASSUME DeletedIsNoTask == Deleted \notin Task
ASSUME KeepIsNoValue == Keep \notin Status /\ Keep \notin BOOLEAN

Op == {"none", "createTask", "updateTask", "placeTask", "removeTask",
       "moveTask", "createList", "updateList", "placeList", "removeList"}

\* The call the handler makes next; "write" is its last one.
Call == {"idle", "countByList", "findLists", "shift", "write"}

\* list: the list acted on, or the list of the task as it was read; target:
\* the new list; old, new: positions read and sent; status, completed: what
\* an update writes.
Request == [op : Op, call : Call, task : Tasks \cup {NoTask},
            list : Lists \cup {NoList}, target : Lists \cup {NoList},
            old : Int, new : Int, status : Status \cup {Keep},
            completed : BOOLEAN \cup {Keep}]

Idle == [op |-> "none", call |-> "idle", task |-> NoTask, list |-> NoList,
         target |-> NoList, old |-> 0, new |-> 0, status |-> Keep,
         completed |-> Keep]

TypeOK ==
    /\ listAt \in [Lists -> Int \cup {Gone}]
    /\ task \in [Tasks -> Task \cup {Deleted}]
    /\ req \in [Requests -> Request]

Init ==
    /\ listAt = [l \in Lists |-> Gone]
    /\ task = [t \in Tasks |-> Deleted]
    /\ req = [r \in Requests |-> Idle]

-----------------------------------------------------------------------------
(* The database *)

LiveLists == {l \in Lists : listAt[l] # Gone}
LiveTasks == {t \in Tasks : task[t] # Deleted}
TasksOf(l) == {t \in LiveTasks : task[t].list = l}

ListsOf(b) == {l \in LiveLists : BoardOf[l] = b}

\* Mutant: lists counted, as tasks are, instead of looked up.
CountLists(b) == {Cardinality(ListsOf(b))}

\* findLastByBoard: the greatest position, and 0 for a board without lists
LastPositions(b) ==
    IF ListsOf(b) = {} THEN {0}
    ELSE {p \in {listAt[l] : l \in ListsOf(b)} :
            \A l \in ListsOf(b) : listAt[l] <= p}

\* Mutant: the range moved down includes the row that is being placed.
ShiftedWithItself(p, old, new) ==
    IF new <= p /\ p < old THEN p + 1
    ELSE IF old <= p /\ p <= new THEN p - 1
    ELSE p

\* shiftPositionsUp and shiftPositionsDown, for a row at position p moving
\* from old to new: the rows in between make room for it.
Shifted(p, old, new) ==
    IF new <= p /\ p < old THEN p + 1
    ELSE IF old < p /\ p <= new THEN p - 1
    ELSE p

ShiftTasks(l, old, new) ==
    task' = [t \in Tasks |->
               IF t \in TasksOf(l)
               THEN [task[t] EXCEPT !.position = Shifted(@, old, new)]
               ELSE task[t]]

ShiftLists(b, old, new) ==
    listAt' = [l \in Lists |->
                 IF l \in ListsOf(b) THEN Shifted(listAt[l], old, new)
                 ELSE listAt[l]]

-----------------------------------------------------------------------------
(* Requests *)

At(r, op, call) == req[r].op = op /\ req[r].call = call

Start(r, record) ==
    /\ req[r] = Idle
    /\ req' = [req EXCEPT ![r] = record]
    /\ UNCHANGED <<listAt, task>>

Continue(r, call) == req' = [req EXCEPT ![r].call = call]
Finish(r) == req' = [req EXCEPT ![r] = Idle]
Refuse(r) == Finish(r) /\ UNCHANGED <<listAt, task>>

\* Ids are uuids, never used twice: an id is free for a new row once no
\* request mentions it.
FreshTasks == {t \in Tasks \ LiveTasks : \A r \in Requests : req[r].task # t}
FreshLists == {l \in Lists \ LiveLists : \A r \in Requests :
                 req[r].list # l /\ req[r].target # l}

-----------------------------------------------------------------------------
(* POST /tasks: the new task goes to the position counted before *)

RequestCreateTask(r) ==
    \E l \in LiveLists, t \in FreshTasks, status \in Statuses :
        Start(r, [Idle EXCEPT !.op = "createTask", !.call = "countByList",
                              !.task = t, !.list = l, !.status = status])

CountByList(r) ==
    /\ At(r, "createTask", "countByList")
    /\ req' = [req EXCEPT ![r].call = "write",
                          ![r].new = Cardinality(TasksOf(req[r].list))]
    /\ UNCHANGED <<listAt, task>>

CreateTask(r) ==
    /\ At(r, "createTask", "write")
    /\ \/ /\ req[r].list \in LiveLists
          /\ task' = [task EXCEPT ![req[r].task] =
                [list |-> req[r].list, position |-> req[r].new,
                 status |-> req[r].status,
                 completed |-> req[r].status = "DONE"]]
          /\ Finish(r)
          /\ UNCHANGED listAt
       \/ req[r].list \notin LiveLists /\ Refuse(r)

-----------------------------------------------------------------------------
(* PATCH /tasks/:taskId: what completedAt becomes depends on the status    *)
(* read before; the body may name a list, whose positions nobody adjusts   *)

\* Mutant: completedAt survives the reopening of a task.
CompletedForEver(old, status) ==
    IF status = "DONE" /\ old # "DONE" THEN TRUE ELSE Keep

CompletedEdit(old, status) ==
    IF status = "DONE" /\ old # "DONE" THEN TRUE
    ELSE IF status = "OPEN" /\ old = "DONE" THEN FALSE
    ELSE Keep

RequestUpdateTask(r) ==
    \E t \in LiveTasks, status \in Statuses \cup {Keep},
       target \in IF Careful THEN {NoList} ELSE LiveLists \cup {NoList} :
        Start(r, [Idle EXCEPT
                    !.op = "updateTask", !.call = "write", !.task = t,
                    !.target = target, !.status = status,
                    !.completed = CompletedEdit(task[t].status, status)])

\* Mutant: fields the body leaves out are written as well.
Overwritten(old, edit) == edit

\* Prisma writes no field that is undefined.
Merged(old, edit) == IF edit = Keep THEN old ELSE edit

CanUpdateTask(r) ==
    /\ req[r].task \in LiveTasks
    /\ req[r].target \in LiveLists \cup {NoList}

UpdateTask(r) ==
    /\ At(r, "updateTask", "write")
    /\ \/ /\ CanUpdateTask(r)
          /\ task' = [task EXCEPT ![req[r].task] =
                [list |-> IF req[r].target = NoList
                          THEN @.list ELSE req[r].target,
                 position |-> @.position,
                 status |-> Merged(@.status, req[r].status),
                 completed |-> Merged(@.completed, req[r].completed)]]
          /\ Finish(r)
          /\ UNCHANGED listAt
       \/ ~CanUpdateTask(r) /\ Refuse(r)

-----------------------------------------------------------------------------
(* The handlers that begin by reading the task, its list and its position  *)

ReadTask(r, op, t, target, new) ==
    Start(r, [Idle EXCEPT !.op = op, !.call = "findLists", !.task = t,
                          !.list = task[t].list, !.target = target,
                          !.old = task[t].position, !.new = new])

\* The indexes a careful client offers to place t in list l at.
Places(t, l) ==
    IF Careful
    THEN {p \in Positions : 0 <= p /\ p < Cardinality(TasksOf(l) \cup {t})}
    ELSE Positions

\* PATCH /tasks/:taskId/position
RequestPlaceTask(r) ==
    \E t \in LiveTasks : \E new \in Places(t, task[t].list) :
        ReadTask(r, "placeTask", t, NoList, new)

\* DELETE /tasks/:taskId
RequestRemoveTask(r) ==
    \E t \in LiveTasks : ReadTask(r, "removeTask", t, NoList, 0)

\* PATCH /tasks/:taskId/move: to a list of the board or of another one
RequestMoveTask(r) ==
    /\ \A t \in LiveTasks : task[t].position <= MaxPosition
    /\ \E t \in LiveTasks, l \in LiveLists : \E new \in Places(t, l) :
          ReadTask(r, "moveTask", t, l, new)

FindLists(r) ==
    /\ req[r].call = "findLists"
    /\ IF {req[r].list, req[r].target} \subseteq LiveLists \cup {NoList}
       THEN Continue(r, IF req[r].op = "placeTask" /\ req[r].new # req[r].old
                        THEN "shift" ELSE "write")
       ELSE Finish(r)
    /\ UNCHANGED <<listAt, task>>

ShiftForTask(r) ==
    /\ At(r, "placeTask", "shift")
    /\ ShiftTasks(req[r].list, req[r].old, req[r].new)
    /\ Continue(r, "write")
    /\ UNCHANGED listAt

PlaceTask(r) ==
    /\ At(r, "placeTask", "write")
    /\ \/ /\ req[r].task \in LiveTasks
          /\ task' = [task EXCEPT ![req[r].task].position = req[r].new]
          /\ Finish(r)
          /\ UNCHANGED listAt
       \/ req[r].task \notin LiveTasks /\ Refuse(r)

\* Mutant: the gap is closed in every list.
CloseGapEverywhere(t, l, old) ==
    IF t \in LiveTasks /\ task[t].position > old
    THEN [task[t] EXCEPT !.position = @ - 1] ELSE task[t]

\* deleteTaskWithReorder: one transaction, with the list and the position
\* that were read before it
CloseGap(t, l, old) ==
    IF t \in TasksOf(l) /\ task[t].position > old
    THEN [task[t] EXCEPT !.position = @ - 1] ELSE task[t]

DeleteTaskWithReorder(r) ==
    /\ At(r, "removeTask", "write")
    /\ \/ /\ req[r].task \in LiveTasks
          /\ task' = [t \in Tasks |->
                IF t = req[r].task THEN Deleted
                ELSE CloseGap(t, req[r].list, req[r].old)]
          /\ Finish(r)
          /\ UNCHANGED listAt
       \/ req[r].task \notin LiveTasks /\ Refuse(r)

\* Mutant: the task that stands at the index asked for stays there.
MakeRoomBehind(row, l, new) ==
    IF row # Deleted /\ row.list = l /\ row.position > new
    THEN [row EXCEPT !.position = @ + 1] ELSE row

\* moveTaskBetweenLists: one transaction that closes the gap in the list
\* that was read, makes room in the target and places the task
MakeRoom(row, l, new) ==
    IF row # Deleted /\ row.list = l /\ row.position >= new
    THEN [row EXCEPT !.position = @ + 1] ELSE row

CanMove(r) == req[r].task \in LiveTasks /\ req[r].target \in LiveLists

MoveTaskBetweenLists(r) ==
    /\ At(r, "moveTask", "write")
    /\ \/ /\ CanMove(r)
          /\ task' = [t \in Tasks |->
                IF t = req[r].task
                THEN [task[t] EXCEPT !.list = req[r].target,
                                     !.position = req[r].new]
                ELSE MakeRoom(CloseGap(t, req[r].list, req[r].old),
                              req[r].target, req[r].new)]
          /\ Finish(r)
          /\ UNCHANGED listAt
       \/ ~CanMove(r) /\ Refuse(r)

-----------------------------------------------------------------------------
(* POST /lists: behind the last list, or where the body says *)

RequestCreateList(r) ==
    /\ \A l \in LiveLists : listAt[l] < MaxPosition
    /\ \E l \in FreshLists :
       \E new \in {p + 1 : p \in LastPositions(BoardOf[l])}
                   \cup IF Careful THEN {} ELSE Positions :
          Start(r, [Idle EXCEPT !.op = "createList", !.call = "write",
                                !.list = l, !.new = new])

CreateList(r) ==
    /\ At(r, "createList", "write")
    /\ listAt' = [listAt EXCEPT ![req[r].list] = req[r].new]
    /\ Finish(r)
    /\ UNCHANGED task

-----------------------------------------------------------------------------
(* PATCH /lists/:listId with a position in its body, which moves no        *)
(* neighbour, and PATCH /lists/:listId/position, which shifts them first   *)

RequestUpdateList(r) ==
    /\ ~Careful
    /\ \E l \in LiveLists, new \in Positions :
          Start(r, [Idle EXCEPT !.op = "updateList", !.call = "write",
                                !.list = l, !.new = new])

RequestPlaceList(r) ==
    \E l \in LiveLists, new \in Positions :
        Start(r, [Idle EXCEPT !.op = "placeList",
                    !.call = IF new = listAt[l] THEN "write" ELSE "shift",
                    !.list = l, !.old = listAt[l], !.new = new])

ShiftForList(r) ==
    /\ At(r, "placeList", "shift")
    /\ ShiftLists(BoardOf[req[r].list], req[r].old, req[r].new)
    /\ Continue(r, "write")
    /\ UNCHANGED task

UpdateList(r) ==
    /\ req[r].op \in {"updateList", "placeList"} /\ req[r].call = "write"
    /\ \/ /\ req[r].list \in LiveLists
          /\ listAt' = [listAt EXCEPT ![req[r].list] = req[r].new]
          /\ Finish(r)
          /\ UNCHANGED task
       \/ req[r].list \notin LiveLists /\ Refuse(r)

-----------------------------------------------------------------------------
(* DELETE /lists/:listId: refused when the list was read with tasks; the   *)
(* row takes with it whatever tasks it has when it goes                    *)

\* Mutant: the tasks of the list are not looked at.
AnyLiveList == LiveLists

Removable == {l \in LiveLists : TasksOf(l) = {}}

RequestRemoveList(r) ==
    \E l \in Removable :
        Start(r, [Idle EXCEPT !.op = "removeList", !.call = "write",
                              !.list = l])

DeleteList(r) ==
    /\ At(r, "removeList", "write")
    /\ \/ /\ req[r].list \in LiveLists
          /\ listAt' = [listAt EXCEPT ![req[r].list] = Gone]
          /\ task' = [t \in Tasks |->
                IF t \in TasksOf(req[r].list) THEN Deleted ELSE task[t]]
          /\ Finish(r)
       \/ req[r].list \notin LiveLists /\ Refuse(r)

-----------------------------------------------------------------------------
(* The server may lose its connection to the database, or stop, between    *)
(* two statements of a request, which then ends where it was.              *)

Fail(r) == MayFail /\ req[r] # Idle /\ Refuse(r)

TaskStep(r) ==
    \/ RequestCreateTask(r) \/ CountByList(r) \/ CreateTask(r)
    \/ RequestUpdateTask(r) \/ UpdateTask(r)
    \/ RequestPlaceTask(r) \/ FindLists(r) \/ ShiftForTask(r) \/ PlaceTask(r)
    \/ RequestRemoveTask(r) \/ DeleteTaskWithReorder(r)
    \/ RequestMoveTask(r) \/ MoveTaskBetweenLists(r)

ListStep(r) ==
    \/ RequestCreateList(r) \/ CreateList(r)
    \/ RequestUpdateList(r) \/ RequestPlaceList(r)
    \/ ShiftForList(r) \/ UpdateList(r)
    \/ RequestRemoveList(r) \/ DeleteList(r)

Next == \E r \in Requests : TaskStep(r) \/ ListStep(r) \/ Fail(r)

Spec == Init /\ [][Next]_vars

-----------------------------------------------------------------------------
(* Properties of any interleaving *)

\* The positions no lower than 0 or one that clients send.
NotBelow == {p \in Int : \E q \in Positions \cup {0} : q <= p}

\* However stale the positions a handler works with, shifting neighbours and
\* closing gaps takes no task and no list below 0 and every position sent: a
\* row is moved down only from above a position that some row has had.  So
\* positions are natural as long as clients send no negative one.
NoPositionBelowSent ==
    /\ \A l \in LiveLists : listAt[l] \in NotBelow
    /\ \A t \in LiveTasks : task[t].position \in NotBelow

\* What makes the two above inductive: a request holds positions that were
\* read or sent, and a request to create has all it needs to.
Sound(q) ==
    /\ {q.old, q.new} \subseteq NotBelow
    /\ q.op = "createTask" =>
         q.task \in Tasks /\ q.list \in Lists /\ q.status \in Status
    /\ q.op = "createList" => q.list \in Lists

RequestsSound == \A r \in Requests : Sound(req[r])

ContentInv == TypeOK /\ NoPositionBelowSent /\ RequestsSound

\* A step changes the position of no task but those of the two lists its
\* request names and the one it acts on: what a stale handler disorders stays
\* within the lists it was asked about.
OtherListsKeepOrder ==
    [][\A t \in LiveTasks :
         task'[t] # Deleted /\ task'[t].position # task[t].position =>
           \E r \in Requests :
             /\ req'[r] # req[r]
             /\ \/ t = req[r].task
                \/ task[t].list \in {req[r].list, req[r].target}]_vars

-----------------------------------------------------------------------------
(* Properties of handlers that run one after another, for careful clients  *)

\* completedAt is set exactly while the status is DONE: create and update
\* agree on it, whatever the order of the edits.
DoneIffCompleted ==
    \A t \in LiveTasks : task[t].completed <=> task[t].status = "DONE"

\* "Cannot delete a list that contains tasks" (ListService.remove).
ListsDieEmpty ==
    [][\A l \in LiveLists : listAt'[l] = Gone => TasksOf(l) = {}]_vars

\* Between the shift of its neighbours and its own update, a row that is
\* being placed counts as standing where it goes.
Placing(r, op) == req[r].op = op /\ req[r].call = "write"

ListPlace(l) ==
    IF \E r \in Requests : Placing(r, "placeList") /\ req[r].list = l
    THEN (CHOOSE q \in {req[r] : r \in Requests} : q.list = l).new
    ELSE listAt[l]

TaskPlace(t) ==
    IF \E r \in Requests : Placing(r, "placeTask") /\ req[r].task = t
    THEN (CHOOSE q \in {req[r] : r \in Requests} : q.task = t).new
    ELSE task[t].position

\* No two lists of a board stand at the same place, although deleting one
\* leaves a gap and a new one counts on from the last.
ListsApart ==
    \A k, l \in LiveLists :
      BoardOf[k] = BoardOf[l] /\ ListPlace(k) = ListPlace(l) => k = l

TaskAt(l, place) ==
    IF \E t \in TasksOf(l) : TaskPlace(t) = place
    THEN CHOOSE t \in TasksOf(l) : TaskPlace(t) = place
    ELSE NoTask

InOrder(l) == [i \in 1..Cardinality(TasksOf(l)) |-> TaskAt(l, i - 1)]

\* The positions of a list with n tasks are 0 to n-1, each used once, and
\* every handler changes them as it would change a sequence.
Order == INSTANCE TaskSequences WITH inList <- [l \in Lists |-> InOrder(l)]

TasksFormSequences == Order!Spec

=============================================================================
