-------------------------- MODULE BoardContentProofs --------------------------
(***************************************************************************)
(* Proofs about BoardContent, for any numbers of lists, tasks and          *)
(* concurrent requests, careful clients or not.                            *)
(***************************************************************************)
EXTENDS BoardContent, FiniteSetTheorems, TLAPS

-----------------------------------------------------------------------------
(* Types and positions *)

LEMMA NotBelowIsInt == NotBelow \subseteq Int
BY DEF NotBelow

LEMMA NaturalsNotBelow == Nat \subseteq NotBelow
BY DEF NotBelow

LEMMA PositionsNotBelow == Positions \subseteq NotBelow
BY PositionsAreIntegers DEF NotBelow

\* With a position, every greater one.
LEMMA NotBelowGoesUp ==
    ASSUME NEW p \in NotBelow, NEW q \in Int, p <= q
    PROVE  q \in NotBelow
<1>1. PICK least \in Positions \cup {0} : least <= p
  BY DEF NotBelow
<1>2. least \in Int /\ p \in Int
  BY NotBelowIsInt, PositionsAreIntegers
<1>. QED
  BY <1>1, <1>2 DEF NotBelow

LEMMA IdleIsSound == Idle \in Request /\ Sound(Idle)
<1>1. 0 \in NotBelow
  BY NaturalsNotBelow
<1>. QED
  BY <1>1, KeepIsNoValue DEF Idle, Request, Op, Call, Sound

LEMMA InitInv == Init => ContentInv
BY IdleIsSound
DEF Init, ContentInv, TypeOK, NoPositionBelowSent, RequestsSound, LiveLists,
    LiveTasks

\* What a step may write to keep the invariant.
LEMMA RequestsKept ==
    ASSUME ContentInv, NEW r \in Requests, NEW q \in Request, Sound(q),
           req' = [req EXCEPT ![r] = q]
    PROVE  req' \in [Requests -> Request] /\ RequestsSound'
BY DEF ContentInv, TypeOK, RequestsSound

LEMMA FinishKeepsRequests ==
    ASSUME ContentInv, NEW r \in Requests, Finish(r)
    PROVE  req' \in [Requests -> Request] /\ RequestsSound'
BY RequestsKept, IdleIsSound DEF Finish

LEMMA ContinueKeepsRequests ==
    ASSUME ContentInv, NEW r \in Requests, NEW call \in Call,
           Continue(r, call)
    PROVE  req' \in [Requests -> Request] /\ RequestsSound'
<1>. DEFINE q == [req[r] EXCEPT !.call = call]
<1>1. q \in Request /\ Sound(q)
  BY DEF ContentInv, TypeOK, RequestsSound, Request, Sound
<1>2. req' = [req EXCEPT ![r] = q]
  BY DEF Continue
<1>. QED
  BY <1>1, <1>2, RequestsKept

\* The rows and places the invariant allows.
SoundRows == {row \in Task : row.position \in NotBelow} \cup {Deleted}
SoundPlaces == NotBelow \cup {Gone}

Rows == task \in [Tasks -> SoundRows] /\ listAt \in [Lists -> SoundPlaces]

LEMMA InvGivesRows == ContentInv => Rows
BY DEF ContentInv, TypeOK, NoPositionBelowSent, LiveTasks, LiveLists, Rows,
       SoundRows, SoundPlaces

LEMMA InvFromRows ==
    ASSUME Rows', req' \in [Requests -> Request], RequestsSound'
    PROVE  ContentInv'
BY NotBelowIsInt, GoneIsNoPosition, DeletedIsNoTask
DEF ContentInv, TypeOK, NoPositionBelowSent, LiveTasks, LiveLists, Rows,
    SoundRows, SoundPlaces

LEMMA StartKeepsInv ==
    ASSUME ContentInv, NEW r \in Requests, NEW q \in Request, Sound(q),
           Start(r, q)
    PROVE  ContentInv'
BY RequestsKept, InvGivesRows, InvFromRows DEF Start, Rows

LEMMA RefuseKeepsInv ==
    ASSUME ContentInv, NEW r \in Requests, Refuse(r)
    PROVE  ContentInv'
BY FinishKeepsRequests, InvGivesRows, InvFromRows DEF Refuse, Rows

\* Moving a row between old and new moves it down only from above old.
LEMMA ShiftedNotBelow ==
    ASSUME NEW p \in NotBelow, NEW old \in NotBelow, NEW new \in NotBelow
    PROVE  Shifted(p, old, new) \in NotBelow
<1>1. p \in Int /\ old \in Int /\ new \in Int
  BY NotBelowIsInt
<1>2. CASE new <= p /\ p < old
  BY <1>1, <1>2, NotBelowGoesUp DEF Shifted
<1>3. CASE old < p /\ p <= new
  <2>1. Shifted(p, old, new) = p - 1 /\ p - 1 \in Int /\ old <= p - 1
    BY <1>1, <1>3 DEF Shifted
  <2>. QED
    BY <2>1, NotBelowGoesUp
<1>4. CASE ~(new <= p /\ p < old) /\ ~(old < p /\ p <= new)
  BY <1>4 DEF Shifted
<1>. QED
  BY <1>2, <1>3, <1>4

LEMMA LiveRow ==
    ASSUME Rows, NEW t \in LiveTasks
    PROVE  /\ t \in Tasks /\ task[t] \in Task /\ task[t].position \in NotBelow
           /\ task[t] # Deleted
BY DEF Rows, LiveTasks, SoundRows, Task

LEMMA LivePlace ==
    ASSUME Rows, NEW l \in LiveLists
    PROVE  l \in Lists /\ listAt[l] \in NotBelow
BY DEF Rows, LiveLists, SoundPlaces

LEMMA NewPosition ==
    ASSUME NEW row \in Task, NEW p \in NotBelow
    PROVE  [row EXCEPT !.position = p] \in SoundRows
BY NotBelowIsInt DEF Task, SoundRows

LEMMA NewListAndPosition ==
    ASSUME NEW row \in Task, NEW l \in Lists, NEW p \in NotBelow
    PROVE  [row EXCEPT !.list = l, !.position = p] \in SoundRows
<1>. DEFINE moved == [row EXCEPT !.list = l, !.position = p]
<1>1. p \in Int
  BY NotBelowIsInt
<1>2. moved \in Task
  BY <1>1 DEF Task
<1>3. moved.position = p
  BY DEF Task
<1>. QED
  BY <1>1, <1>2, <1>3 DEF SoundRows

LEMMA CloseGapIsSound ==
    ASSUME Rows, NEW t \in Tasks, NEW l, NEW old \in NotBelow
    PROVE  CloseGap(t, l, old) \in SoundRows
<1>1. CASE t \in TasksOf(l) /\ task[t].position > old
  <2>1. task[t] \in Task /\ task[t].position \in Int /\ old \in Int
    BY <1>1, LiveRow, NotBelowIsInt DEF TasksOf
  <2>2. task[t].position - 1 \in NotBelow
    BY <1>1, <2>1, NotBelowGoesUp
  <2>. QED
    BY <1>1, <2>1, <2>2, NewPosition DEF CloseGap
<1>2. CASE ~(t \in TasksOf(l) /\ task[t].position > old)
  BY <1>2 DEF CloseGap, Rows
<1>. QED
  BY <1>1, <1>2

LEMMA MakeRoomIsSound ==
    ASSUME NEW row \in SoundRows, NEW l, NEW new
    PROVE  MakeRoom(row, l, new) \in SoundRows
<1>1. CASE row # Deleted /\ row.list = l /\ row.position >= new
  <2>1. row \in Task /\ row.position \in NotBelow
    BY <1>1 DEF SoundRows
  <2>2. row.position \in Int
    BY <2>1, NotBelowIsInt
  <2>3. row.position + 1 \in NotBelow
    BY <2>1, <2>2, NotBelowGoesUp
  <2>. QED
    BY <1>1, <2>1, <2>3, NewPosition DEF MakeRoom
<1>2. CASE ~(row # Deleted /\ row.list = l /\ row.position >= new)
  BY <1>2 DEF MakeRoom
<1>. QED
  BY <1>1, <1>2

-----------------------------------------------------------------------------
(* Every step keeps the invariant *)

LEMMA RequestFields ==
    ASSUME ContentInv, NEW r \in Requests
    PROVE  /\ req[r] \in Request /\ Sound(req[r])
           /\ req[r].old \in NotBelow /\ req[r].new \in NotBelow
BY DEF ContentInv, TypeOK, RequestsSound, Request, Sound

LEMMA ReceiveTaskKeepsInv ==
    ASSUME ContentInv, NEW r \in Requests,
           \/ RequestCreateTask(r) \/ RequestUpdateTask(r)
           \/ RequestPlaceTask(r) \/ RequestRemoveTask(r)
           \/ RequestMoveTask(r)
    PROVE  ContentInv'
<1>1. Rows
  BY InvGivesRows
<1>2. CASE RequestCreateTask(r)
  <2>1. PICK l \in LiveLists, t \in FreshTasks, status \in Statuses :
          Start(r, [Idle EXCEPT !.op = "createTask", !.call = "countByList",
                                !.task = t, !.list = l, !.status = status])
    BY <1>2 DEF RequestCreateTask
  <2>. DEFINE q == [Idle EXCEPT !.op = "createTask", !.call = "countByList",
                                !.task = t, !.list = l, !.status = status]
  <2>2. l \in Lists /\ t \in Tasks /\ status \in Status
    BY <1>1, LivePlace, StatusesAreStatus DEF FreshTasks
  <2>3. q \in Request
    BY <2>2, IdleIsSound DEF Request, Op, Call
  <2>4. Sound(q)
    BY <2>2, IdleIsSound DEF Request, Sound
  <2>. HIDE DEF q
  <2>. QED
    BY <2>1, <2>3, <2>4, StartKeepsInv DEF q
<1>3. CASE RequestUpdateTask(r)
  <2>1. PICK t \in LiveTasks, status \in Statuses \cup {Keep},
             target \in IF Careful THEN {NoList}
                        ELSE LiveLists \cup {NoList} :
          Start(r, [Idle EXCEPT
                      !.op = "updateTask", !.call = "write", !.task = t,
                      !.target = target, !.status = status,
                      !.completed = CompletedEdit(task[t].status, status)])
    BY <1>3 DEF RequestUpdateTask
  <2>. DEFINE edit == CompletedEdit(task[t].status, status)
              q == [Idle EXCEPT
                      !.op = "updateTask", !.call = "write", !.task = t,
                      !.target = target, !.status = status,
                      !.completed = edit]
  <2>2. edit \in BOOLEAN \cup {Keep}
    BY DEF CompletedEdit
  <2>3. /\ target \in Lists \cup {NoList} /\ t \in Tasks
        /\ status \in Status \cup {Keep}
    BY <1>1, LivePlace, LiveRow, StatusesAreStatus
  <2>. HIDE DEF edit
  <2>4. q \in Request
    BY <2>2, <2>3, IdleIsSound DEF Request, Op, Call
  <2>5. Sound(q)
    BY <2>2, <2>3, IdleIsSound DEF Request, Sound
  <2>. HIDE DEF q
  <2>. QED
    BY <2>1, <2>4, <2>5, StartKeepsInv DEF q, edit
<1>4. ASSUME NEW op \in {"placeTask", "removeTask", "moveTask"},
             NEW t \in LiveTasks, NEW target \in Lists \cup {NoList},
             NEW new \in NotBelow, ReadTask(r, op, t, target, new)
      PROVE  ContentInv'
  <2>. DEFINE q == [Idle EXCEPT !.op = op, !.call = "findLists", !.task = t,
                                !.list = task[t].list, !.target = target,
                                !.old = task[t].position, !.new = new]
  <2>1. /\ t \in Tasks /\ task[t].list \in Lists
        /\ {task[t].position, new} \subseteq NotBelow
    BY <1>1, LiveRow DEF Task
  <2>2. q \in Request
    BY <1>4, <2>1, IdleIsSound, NotBelowIsInt DEF Request, Op, Call
  <2>3. Sound(q)
    BY <1>4, <2>1, IdleIsSound DEF Request, Sound
  <2>. HIDE DEF q
  <2>. QED
    BY <1>4, <2>2, <2>3, StartKeepsInv DEF ReadTask, q
<1>5. CASE RequestPlaceTask(r)
  BY <1>4, <1>5, PositionsNotBelow DEF RequestPlaceTask, Places
<1>6. CASE RequestRemoveTask(r)
  <2>1. 0 \in NotBelow
    BY NaturalsNotBelow
  <2>. QED
    BY <1>4, <1>6, <2>1 DEF RequestRemoveTask
<1>7. CASE RequestMoveTask(r)
  BY <1>1, <1>4, <1>7, PositionsNotBelow, LivePlace
  DEF RequestMoveTask, Places
<1>. QED
  BY <1>2, <1>3, <1>5, <1>6, <1>7

LEMMA ReceiveListKeepsInv ==
    ASSUME ContentInv, NEW r \in Requests,
           \/ RequestCreateList(r) \/ RequestUpdateList(r)
           \/ RequestPlaceList(r) \/ RequestRemoveList(r)
    PROVE  ContentInv'
<1>1. Rows
  BY InvGivesRows
<1>2. CASE RequestCreateList(r)
  <2>1. PICK l \in FreshLists :
          \E new \in {p + 1 : p \in LastPositions(BoardOf[l])}
                       \cup IF Careful THEN {} ELSE Positions :
            Start(r, [Idle EXCEPT !.op = "createList", !.call = "write",
                                  !.list = l, !.new = new])
    BY <1>2 DEF RequestCreateList
  <2>. PICK new \in {p + 1 : p \in LastPositions(BoardOf[l])}
                     \cup IF Careful THEN {} ELSE Positions :
         Start(r, [Idle EXCEPT !.op = "createList", !.call = "write",
                               !.list = l, !.new = new])
    BY <2>1
  <2>. DEFINE q == [Idle EXCEPT !.op = "createList", !.call = "write",
                                !.list = l, !.new = new]
  <2>2. l \in Lists
    BY DEF FreshLists
  <2>3. LastPositions(BoardOf[l]) \subseteq NotBelow
    BY <1>1, LivePlace, NaturalsNotBelow DEF LastPositions, ListsOf
  <2>4. new \in NotBelow /\ new \in Int
    <3>1. CASE new \in {p + 1 : p \in LastPositions(BoardOf[l])}
      <4>1. PICK p \in LastPositions(BoardOf[l]) : new = p + 1
        BY <3>1
      <4>2. p \in NotBelow /\ p \in Int
        BY <2>3, NotBelowIsInt
      <4>. QED
        BY <4>1, <4>2, NotBelowGoesUp
    <3>2. CASE new \in Positions
      BY <3>2, PositionsNotBelow, NotBelowIsInt
    <3>. QED
      BY <3>1, <3>2
  <2>5. q \in Request
    BY <2>2, <2>4, IdleIsSound DEF Request, Op, Call
  <2>6. Sound(q)
    BY <2>2, <2>4, IdleIsSound DEF Request, Sound
  <2>. HIDE DEF q
  <2>. QED
    BY <2>1, <2>5, <2>6, StartKeepsInv DEF q
<1>3. CASE RequestUpdateList(r)
  <2>1. PICK l \in LiveLists, new \in Positions :
          Start(r, [Idle EXCEPT !.op = "updateList", !.call = "write",
                                !.list = l, !.new = new])
    BY <1>3 DEF RequestUpdateList
  <2>. DEFINE q == [Idle EXCEPT !.op = "updateList", !.call = "write",
                                !.list = l, !.new = new]
  <2>2. /\ l \in Lists /\ {listAt[l], new} \subseteq NotBelow \cap Int
    BY <1>1, LivePlace, PositionsNotBelow, NotBelowIsInt
  <2>3. q \in Request
    BY <2>2, IdleIsSound DEF Request, Op, Call
  <2>4. Sound(q)
    BY <2>2, IdleIsSound DEF Request, Sound
  <2>. HIDE DEF q
  <2>. QED
    BY <2>1, <2>3, <2>4, StartKeepsInv DEF q
<1>4. CASE RequestPlaceList(r)
  <2>1. PICK l \in LiveLists, new \in Positions :
          Start(r, [Idle EXCEPT !.op = "placeList",
                      !.call = IF new = listAt[l] THEN "write" ELSE "shift",
                      !.list = l, !.old = listAt[l], !.new = new])
    BY <1>4 DEF RequestPlaceList
  <2>. DEFINE q == [Idle EXCEPT !.op = "placeList",
                      !.call = IF new = listAt[l] THEN "write" ELSE "shift",
                      !.list = l, !.old = listAt[l], !.new = new]
  <2>2. /\ l \in Lists /\ {listAt[l], new} \subseteq NotBelow \cap Int
    BY <1>1, LivePlace, PositionsNotBelow, NotBelowIsInt
  <2>3. q \in Request
    BY <2>2, IdleIsSound DEF Request, Op, Call
  <2>4. Sound(q)
    BY <2>2, IdleIsSound DEF Request, Sound
  <2>. HIDE DEF q
  <2>. QED
    BY <2>1, <2>3, <2>4, StartKeepsInv DEF q
<1>5. CASE RequestRemoveList(r)
  <2>1. PICK l \in Removable :
          Start(r, [Idle EXCEPT !.op = "removeList", !.call = "write",
                                !.list = l])
    BY <1>5 DEF RequestRemoveList
  <2>. DEFINE q == [Idle EXCEPT !.op = "removeList", !.call = "write",
                                !.list = l]
  <2>2. q \in Request
    BY <1>1, LivePlace, IdleIsSound
    DEF Removable, Request, Op, Call
  <2>3. Sound(q)
    BY <1>1, LivePlace, IdleIsSound
    DEF Removable, Request, Sound
  <2>. HIDE DEF q
  <2>. QED
    BY <2>1, <2>2, <2>3, StartKeepsInv DEF q
<1>. QED
  BY <1>2, <1>3, <1>4, <1>5

\* The steps that read or write on behalf of a request already received.
TaskProceed(r) ==
    \/ CountByList(r) \/ CreateTask(r) \/ UpdateTask(r) \/ FindLists(r)
    \/ ShiftForTask(r) \/ PlaceTask(r) \/ DeleteTaskWithReorder(r)
    \/ MoveTaskBetweenLists(r)

LEMMA InvAfterTaskWrite ==
    ASSUME ContentInv, NEW r \in Requests,
           task' \in [Tasks -> SoundRows], UNCHANGED listAt,
           Finish(r) \/ \E call \in Call : Continue(r, call)
    PROVE  ContentInv'
BY InvGivesRows, FinishKeepsRequests, ContinueKeepsRequests, InvFromRows
DEF Rows

LEMMA TaskProceedKeepsInv ==
    ASSUME ContentInv, NEW r \in Requests, TaskProceed(r)
    PROVE  ContentInv'
<1>1. Rows
  BY InvGivesRows
<1>2. /\ req[r] \in Request /\ Sound(req[r])
      /\ req[r].old \in NotBelow /\ req[r].new \in NotBelow
  BY RequestFields
<1>3. CASE CountByList(r)
  <2>. DEFINE n == Cardinality(TasksOf(req[r].list))
              q == [req[r] EXCEPT !.call = "write", !.new = n]
  <2>1. n \in Int /\ n \in NotBelow
    <3>1. IsFiniteSet(TasksOf(req[r].list))
      BY TasksAreFinite, FS_Subset DEF TasksOf, LiveTasks
    <3>. QED
      BY <3>1, FS_CardinalityType, NaturalsNotBelow
  <2>. HIDE DEF n
  <2>2. q \in Request /\ Sound(q)
    BY <1>2, <2>1 DEF Request, Call, Sound
  <2>3. req' = [req EXCEPT ![r] = q]
    BY <1>3 DEF CountByList, n
  <2>. HIDE DEF q
  <2>4. req' \in [Requests -> Request] /\ RequestsSound'
    BY <2>2, <2>3, RequestsKept
  <2>. QED
    BY <1>1, <1>3, <2>4, InvFromRows DEF CountByList, Rows
<1>4. CASE CreateTask(r)
  <2>1. CASE Refuse(r)
    BY <2>1, RefuseKeepsInv
  <2>2. CASE ~Refuse(r)
    <3>. DEFINE row == [list |-> req[r].list, position |-> req[r].new,
                        status |-> req[r].status,
                        completed |-> req[r].status = "DONE"]
    <3>1. /\ task' = [task EXCEPT ![req[r].task] = row]
          /\ Finish(r) /\ UNCHANGED listAt
      BY <1>4, <2>2 DEF CreateTask
    <3>2. row \in SoundRows
      BY <1>2, <1>4, NotBelowIsInt DEF CreateTask, At, Sound, SoundRows, Task
    <3>3. task' \in [Tasks -> SoundRows]
      BY <1>1, <3>1, <3>2 DEF Rows
    <3>. QED
      BY <3>1, <3>3, InvAfterTaskWrite
  <2>. QED
    BY <2>1, <2>2
<1>5. CASE UpdateTask(r)
  <2>1. CASE CanUpdateTask(r)
    <3>. DEFINE t == req[r].task
                row == [list |-> IF req[r].target = NoList
                                 THEN task[t].list ELSE req[r].target,
                        position |-> task[t].position,
                        status |-> Merged(task[t].status, req[r].status),
                        completed |-> Merged(task[t].completed,
                                             req[r].completed)]
    <3>1. t \in Tasks /\ task[t] \in Task /\ task[t].position \in NotBelow
      BY <1>1, <2>1, LiveRow DEF CanUpdateTask
    <3>2. /\ task' = [task EXCEPT ![t] = row]
          /\ Finish(r) /\ UNCHANGED listAt
      BY <1>1, <1>5, <2>1, <3>1 DEF UpdateTask, Refuse, Rows
    <3>3. req[r].target = NoList \/ req[r].target \in Lists
      BY <2>1 DEF CanUpdateTask, LiveLists
    <3>4. /\ Merged(task[t].status, req[r].status) \in Status
          /\ Merged(task[t].completed, req[r].completed) \in BOOLEAN
      BY <1>2, <3>1 DEF Merged, Request, Task
    <3>5. row \in SoundRows
      BY <3>1, <3>3, <3>4 DEF SoundRows, Task
    <3>. HIDE DEF row
    <3>6. task' \in [Tasks -> SoundRows]
      BY <1>1, <3>2, <3>5 DEF Rows
    <3>. QED
      BY <3>2, <3>6, InvAfterTaskWrite
  <2>2. CASE ~CanUpdateTask(r)
    BY <1>5, <2>2, RefuseKeepsInv DEF UpdateTask
  <2>. QED
    BY <2>1, <2>2
<1>6. CASE FindLists(r)
  BY <1>1, <1>6, InvAfterTaskWrite DEF FindLists, Rows, Call
<1>7. CASE ShiftForTask(r)
  <2>1. ASSUME NEW t \in Tasks, t \in TasksOf(req[r].list)
        PROVE  [task[t] EXCEPT !.position =
                  Shifted(@, req[r].old, req[r].new)] \in SoundRows
    <3>1. task[t] \in Task /\ task[t].position \in NotBelow
      BY <1>1, <2>1, LiveRow DEF TasksOf
    <3>. QED
      BY <1>2, <3>1, ShiftedNotBelow, NewPosition
  <2>2. task' \in [Tasks -> SoundRows]
    BY <1>1, <1>7, <2>1 DEF ShiftForTask, ShiftTasks, Rows
  <2>. QED
    BY <1>7, <2>2, InvAfterTaskWrite DEF ShiftForTask, Call
<1>8. CASE PlaceTask(r)
  <2>1. CASE req[r].task \in LiveTasks
    <3>1. task[req[r].task] \in Task /\ req[r].task \in Tasks
      BY <1>1, <2>1, LiveRow
    <3>2. [task[req[r].task] EXCEPT !.position = req[r].new] \in SoundRows
      BY <1>2, <3>1, NewPosition
    <3>3. task' \in [Tasks -> SoundRows]
      BY <1>1, <1>8, <2>1, <3>1, <3>2 DEF PlaceTask, Refuse, Rows
    <3>. QED
      BY <1>8, <2>1, <3>3, InvAfterTaskWrite DEF PlaceTask
  <2>2. CASE req[r].task \notin LiveTasks
    BY <1>8, <2>2, RefuseKeepsInv DEF PlaceTask
  <2>. QED
    BY <2>1, <2>2
<1>9. CASE DeleteTaskWithReorder(r)
  <2>1. CASE req[r].task \in LiveTasks
    <3>1. task' \in [Tasks -> SoundRows]
      <4>1. Deleted \in SoundRows
        BY DEF SoundRows
      <4>. QED
        BY <1>1, <1>2, <1>9, <2>1, <4>1, CloseGapIsSound
        DEF DeleteTaskWithReorder
    <3>. QED
      BY <1>9, <2>1, <3>1, InvAfterTaskWrite DEF DeleteTaskWithReorder
  <2>2. CASE req[r].task \notin LiveTasks
    BY <1>9, <2>2, RefuseKeepsInv DEF DeleteTaskWithReorder
  <2>. QED
    BY <2>1, <2>2
<1>10. CASE MoveTaskBetweenLists(r)
  <2>1. CASE CanMove(r)
    <3>1. /\ task[req[r].task] \in Task /\ req[r].task \in Tasks
          /\ req[r].target \in Lists
      BY <1>1, <2>1, LiveRow, LivePlace DEF CanMove
    <3>2. [task[req[r].task] EXCEPT !.list = req[r].target,
                                    !.position = req[r].new] \in SoundRows
      BY <1>2, <3>1, NewListAndPosition
    <3>3. \A t \in Tasks :
            MakeRoom(CloseGap(t, req[r].list, req[r].old),
                     req[r].target, req[r].new) \in SoundRows
      BY <1>1, <1>2, CloseGapIsSound, MakeRoomIsSound
    <3>4. task' \in [Tasks -> SoundRows]
      BY <1>10, <2>1, <3>2, <3>3 DEF MoveTaskBetweenLists
    <3>. QED
      BY <1>10, <2>1, <3>4, InvAfterTaskWrite DEF MoveTaskBetweenLists
  <2>2. CASE ~CanMove(r)
    BY <1>10, <2>2, RefuseKeepsInv DEF MoveTaskBetweenLists
  <2>. QED
    BY <2>1, <2>2
<1>. QED
  BY <1>3, <1>4, <1>5, <1>6, <1>7, <1>8, <1>9, <1>10 DEF TaskProceed

ListProceed(r) ==
    CreateList(r) \/ ShiftForList(r) \/ UpdateList(r) \/ DeleteList(r)

LEMMA ListProceedKeepsInv ==
    ASSUME ContentInv, NEW r \in Requests, ListProceed(r)
    PROVE  ContentInv'
<1>1. Rows
  BY InvGivesRows
<1>2. /\ req[r] \in Request /\ Sound(req[r])
      /\ req[r].old \in NotBelow /\ req[r].new \in NotBelow
  BY RequestFields
<1>3. CASE Refuse(r)
  BY <1>3, RefuseKeepsInv
<1>4. CASE CreateList(r)
  <2>1. listAt' \in [Lists -> SoundPlaces]
    BY <1>1, <1>2, <1>4 DEF CreateList, Rows, SoundPlaces
  <2>. QED
    BY <1>1, <1>4, <2>1, FinishKeepsRequests, InvFromRows DEF CreateList, Rows
<1>5. CASE ShiftForList(r)
  <2>1. \A l \in LiveLists :
          Shifted(listAt[l], req[r].old, req[r].new) \in NotBelow
    BY <1>1, <1>2, LivePlace, ShiftedNotBelow
  <2>2. listAt' \in [Lists -> SoundPlaces]
    BY <1>1, <1>5, <2>1 DEF ShiftForList, ShiftLists, ListsOf, Rows, SoundPlaces
  <2>3. req' \in [Requests -> Request] /\ RequestsSound'
    BY <1>5, ContinueKeepsRequests DEF ShiftForList, Call
  <2>. QED
    BY <1>1, <1>5, <2>2, <2>3, InvFromRows DEF ShiftForList, Rows
<1>6. CASE UpdateList(r) /\ ~Refuse(r)
  <2>1. listAt' \in [Lists -> SoundPlaces]
    BY <1>1, <1>2, <1>6 DEF UpdateList, Rows, SoundPlaces
  <2>. QED
    BY <1>1, <1>6, <2>1, FinishKeepsRequests, InvFromRows DEF UpdateList, Rows
<1>7. CASE DeleteList(r) /\ ~Refuse(r)
  <2>1. listAt' \in [Lists -> SoundPlaces]
    BY <1>1, <1>7 DEF DeleteList, Rows, SoundPlaces
  <2>2. task' \in [Tasks -> SoundRows]
    BY <1>1, <1>7 DEF DeleteList, Rows, SoundRows
  <2>. QED
    BY <1>7, <2>1, <2>2, FinishKeepsRequests, InvFromRows DEF DeleteList, Rows
<1>. QED
  BY <1>3, <1>4, <1>5, <1>6, <1>7 DEF ListProceed

LEMMA InvKept == ContentInv /\ [Next]_vars => ContentInv'
<1>. SUFFICES ASSUME ContentInv, [Next]_vars PROVE ContentInv'
  OBVIOUS
<1>1. CASE UNCHANGED vars
  BY <1>1 DEF vars, ContentInv, TypeOK, NoPositionBelowSent, RequestsSound,
              LiveTasks, LiveLists
<1>2. CASE Next
  <2>1. PICK r \in Requests : TaskStep(r) \/ ListStep(r) \/ Fail(r)
    BY <1>2 DEF Next
  <2>2. CASE Fail(r)
    BY <2>2, RefuseKeepsInv DEF Fail
  <2>3. CASE TaskStep(r)
    BY <2>3, ReceiveTaskKeepsInv, TaskProceedKeepsInv
    DEF TaskStep, TaskProceed
  <2>4. CASE ListStep(r)
    BY <2>4, ReceiveListKeepsInv, ListProceedKeepsInv
    DEF ListStep, ListProceed
  <2>. QED
    BY <2>1, <2>2, <2>3, <2>4
<1>. QED
  BY <1>1, <1>2

\* Every reachable state is well-typed, however requests interleave and
\* wherever they die.
THEOREM TypeCorrect == Spec => []TypeOK
<1>1. ContentInv => TypeOK
  BY DEF ContentInv
<1>. QED
  BY <1>1, InitInv, InvKept, PTL DEF Spec

\* No interleaving of placements, moves and deletions, complete or not, takes
\* a task or a list below 0 and every position that clients have sent.
THEOREM PositionsNotBelowSent == Spec => []NoPositionBelowSent
<1>1. ContentInv => NoPositionBelowSent
  BY DEF ContentInv
<1>. QED
  BY <1>1, InitInv, InvKept, PTL DEF Spec

-----------------------------------------------------------------------------
(* The reach of a handler *)

\* What OtherListsKeepOrder says of a step of the request in slot r.
KeepsOtherLists(r) ==
    \A t \in LiveTasks :
      task'[t] # Deleted /\ task'[t].position # task[t].position =>
        /\ req'[r] # req[r]
        /\ \/ t = req[r].task
           \/ task[t].list \in {req[r].list, req[r].target}

LEMMA FinishIsAStep ==
    ASSUME ContentInv, NEW r \in Requests, Finish(r), req[r].op # "none"
    PROVE  req'[r] # req[r]
BY DEF Finish, ContentInv, TypeOK, Idle

LEMMA MakeRoomElsewhere ==
    ASSUME NEW row \in SoundRows, NEW l, NEW new, row # Deleted,
           row.list # l
    PROVE  MakeRoom(row, l, new) = row
BY DEF MakeRoom

LEMMA TaskProceedReach ==
    ASSUME ContentInv, NEW r \in Requests, TaskProceed(r)
    PROVE  KeepsOtherLists(r)
<1>1. Rows
  BY InvGivesRows
<1>2. SUFFICES ASSUME NEW t \in LiveTasks, task'[t] # Deleted,
                      task'[t].position # task[t].position
               PROVE  /\ req'[r] # req[r]
                      /\ \/ t = req[r].task
                         \/ task[t].list \in {req[r].list, req[r].target}
  BY DEF KeepsOtherLists
<1>3. t \in Tasks /\ task[t] \in Task /\ task[t] # Deleted
  BY <1>1, LiveRow
<1>4. task' # task
  BY <1>2
<1>5. CASE CountByList(r) \/ FindLists(r)
  BY <1>4, <1>5 DEF CountByList, FindLists
<1>6. CASE CreateTask(r)
  BY <1>1, <1>2, <1>3, <1>4, <1>6, FinishIsAStep
  DEF CreateTask, Refuse, At, Rows
<1>7. CASE UpdateTask(r)
  <2>1. CanUpdateTask(r) /\ req[r].task \in Tasks
    BY <1>4, <1>7, LiveRow, <1>1 DEF UpdateTask, CanUpdateTask, Refuse
  <2>2. task'[t].position = task[t].position
    BY <1>1, <1>3, <1>4, <1>7, <2>1 DEF UpdateTask, Refuse, Rows
  <2>. QED
    BY <1>2, <2>2
<1>8. CASE ShiftForTask(r)
  <2>1. t \in TasksOf(req[r].list)
    BY <1>2, <1>3, <1>8 DEF ShiftForTask, ShiftTasks
  <2>2. task[t].list = req[r].list
    BY <2>1 DEF TasksOf
  <2>3. req'[r].call = "write" /\ req[r].call = "shift"
    BY <1>8 DEF ShiftForTask, At, Continue, ContentInv, TypeOK, Request
  <2>. QED
    BY <2>2, <2>3
<1>9. CASE PlaceTask(r)
  <2>1. t = req[r].task
    BY <1>1, <1>2, <1>3, <1>4, <1>9 DEF PlaceTask, Refuse, Rows
  <2>2. Finish(r) /\ req[r].op = "placeTask"
    BY <1>4, <1>9 DEF PlaceTask, Refuse, At
  <2>. QED
    BY <2>1, <2>2, FinishIsAStep
<1>10. CASE DeleteTaskWithReorder(r)
  <2>1. t # req[r].task /\ task'[t] = CloseGap(t, req[r].list, req[r].old)
    BY <1>2, <1>3, <1>4, <1>10 DEF DeleteTaskWithReorder, Refuse
  <2>2. task[t].list = req[r].list
    BY <1>2, <2>1 DEF CloseGap, TasksOf
  <2>3. Finish(r) /\ req[r].op = "removeTask"
    BY <1>4, <1>10 DEF DeleteTaskWithReorder, Refuse, At
  <2>. QED
    BY <2>2, <2>3, FinishIsAStep
<1>11. CASE MoveTaskBetweenLists(r)
  <2>1. Finish(r) /\ req[r].op = "moveTask"
    BY <1>4, <1>11 DEF MoveTaskBetweenLists, Refuse, At
  <2>2. SUFFICES ASSUME t # req[r].task, task[t].list # req[r].list,
                        task[t].list # req[r].target
                 PROVE  FALSE
    BY <2>1, FinishIsAStep
  <2>3. task'[t] = MakeRoom(CloseGap(t, req[r].list, req[r].old),
                            req[r].target, req[r].new)
    BY <1>3, <1>4, <1>11, <2>2 DEF MoveTaskBetweenLists, Refuse
  <2>4. CloseGap(t, req[r].list, req[r].old) = task[t]
    BY <2>2 DEF CloseGap, TasksOf
  <2>5. task'[t] = task[t]
    BY <1>3, <2>2, <2>3, <2>4 DEF MakeRoom
  <2>. QED
    BY <1>2, <2>5
<1>. QED
  BY <1>5, <1>6, <1>7, <1>8, <1>9, <1>10, <1>11 DEF TaskProceed

LEMMA StepReach ==
    ASSUME ContentInv, NEW r \in Requests,
           TaskStep(r) \/ ListStep(r) \/ Fail(r)
    PROVE  KeepsOtherLists(r)
<1>1. CASE TaskProceed(r)
  BY <1>1, TaskProceedReach
<1>2. CASE DeleteList(r)
  <2>1. \A t \in LiveTasks : t \in Tasks /\ task'[t] \in {task[t], Deleted}
    BY <1>2 DEF DeleteList, Refuse, LiveTasks
  <2>. QED
    BY <2>1 DEF KeepsOtherLists
<1>3. CASE UNCHANGED task
  BY <1>3 DEF KeepsOtherLists
<1>4. TaskProceed(r) \/ DeleteList(r) \/ UNCHANGED task
  BY DEF TaskStep, ListStep, Fail, Refuse, TaskProceed, Start, ReadTask,
         RequestCreateTask, RequestUpdateTask, RequestPlaceTask,
         RequestRemoveTask, RequestMoveTask, RequestCreateList, CreateList,
         RequestUpdateList, RequestPlaceList, ShiftForList, UpdateList,
         RequestRemoveList
<1>. QED
  BY <1>1, <1>2, <1>3, <1>4

\* A handler, however stale, reorders nothing beyond the lists it names.
THEOREM StaleHandlersStayInTheirLists == Spec => OtherListsKeepOrder
<1>1. ContentInv /\ [Next]_vars =>
        [\A t \in LiveTasks :
           task'[t] # Deleted /\ task'[t].position # task[t].position =>
             \E r \in Requests :
               /\ req'[r] # req[r]
               /\ \/ t = req[r].task
                  \/ task[t].list \in {req[r].list, req[r].target}]_vars
  BY StepReach DEF Next, KeepsOtherLists
<1>. QED
  BY <1>1, InitInv, InvKept, PTL DEF Spec, OtherListsKeepOrder

-----------------------------------------------------------------------------
(* One request at a time *)

OneAtATime == \A r, s \in Requests : r = s

\* What the request has read still holds when it writes.
ReadsAreCurrent ==
    \A r \in Requests :
        /\ req[r].op = "updateTask" =>
              /\ req[r].task \in LiveTasks
              /\ req[r].completed =
                    CompletedEdit(task[req[r].task].status, req[r].status)
        /\ req[r].op = "removeList" => TasksOf(req[r].list) = {}
        /\ req[r].op = "createList" /\ Careful =>
              \A l \in ListsOf(BoardOf[req[r].list]) : listAt[l] < req[r].new
        /\ req[r].op = "updateList" => ~Careful
        /\ req[r].op = "placeList" => req[r].call \in {"shift", "write"}
        /\ req[r].op = "placeList" /\ req[r].call = "shift" =>
              /\ req[r].list \in LiveLists /\ req[r].old = listAt[req[r].list]
              /\ req[r].new # req[r].old

LEMMA FinishedReadsAreCurrent ==
    ASSUME ContentInv, OneAtATime, NEW r \in Requests, Finish(r)
    PROVE  ReadsAreCurrent'
<1>1. req'[r] = Idle
  BY DEF Finish, ContentInv, TypeOK
<1>. QED
  BY <1>1 DEF OneAtATime, ReadsAreCurrent, Idle

LEMMA StartedReadsAreCurrent ==
    ASSUME ContentInv, OneAtATime, NEW r \in Requests, NEW q, Start(r, q),
           /\ q.op = "updateTask" =>
                 /\ q.task \in LiveTasks
                 /\ q.completed = CompletedEdit(task[q.task].status, q.status)
           /\ q.op = "removeList" => TasksOf(q.list) = {}
           /\ q.op = "createList" /\ Careful =>
                 \A l \in ListsOf(BoardOf[q.list]) : listAt[l] < q.new
           /\ q.op = "updateList" => ~Careful
           /\ q.op = "placeList" => q.call \in {"shift", "write"}
           /\ q.op = "placeList" /\ q.call = "shift" =>
                 q.list \in LiveLists /\ q.old = listAt[q.list] /\ q.new # q.old
    PROVE  ReadsAreCurrent'
<1>1. req'[r] = q /\ UNCHANGED <<listAt, task>>
  BY DEF Start, ContentInv, TypeOK
<1>2. LiveTasks' = LiveTasks /\ LiveLists' = LiveLists /\ TasksOf(q.list)' = TasksOf(q.list)
  BY <1>1 DEF LiveTasks, LiveLists, TasksOf
<1>. QED
  BY <1>1, <1>2 DEF OneAtATime, ReadsAreCurrent, LiveTasks, LiveLists, ListsOf, TasksOf

LEMMA ReceivedReadsAreCurrent ==
    ASSUME ContentInv, OneAtATime, NEW r \in Requests,
           \/ RequestCreateTask(r) \/ RequestUpdateTask(r) \/ RequestPlaceTask(r)
           \/ RequestRemoveTask(r) \/ RequestMoveTask(r) \/ RequestCreateList(r)
           \/ RequestUpdateList(r) \/ RequestPlaceList(r) \/ RequestRemoveList(r)
    PROVE  ReadsAreCurrent'
<1>1. ASSUME NEW q, Start(r, q),
             q.op \in {"createTask", "placeTask", "removeTask", "moveTask"}
      PROVE  ReadsAreCurrent'
  BY <1>1, StartedReadsAreCurrent
<1>2. CASE RequestCreateTask(r)
  <2>1. PICK l \in LiveLists, t \in FreshTasks, status \in Statuses :
          Start(r, [Idle EXCEPT !.op = "createTask", !.call = "countByList",
                                !.task = t, !.list = l, !.status = status])
    BY <1>2 DEF RequestCreateTask
  <2>. QED
    BY <1>1, <2>1 DEF Idle
<1>3. ASSUME NEW op \in {"placeTask", "removeTask", "moveTask"}, NEW t,
             NEW target, NEW new, ReadTask(r, op, t, target, new)
      PROVE  ReadsAreCurrent'
  <2>. DEFINE q == [Idle EXCEPT !.op = op, !.call = "findLists", !.task = t,
                                !.list = task[t].list, !.target = target,
                                !.old = task[t].position, !.new = new]
  <2>1. Start(r, q) /\ q.op = op
    BY <1>3 DEF ReadTask, Idle
  <2>. HIDE DEF q
  <2>. QED
    BY <1>1, <2>1
<1>4. CASE RequestPlaceTask(r) \/ RequestRemoveTask(r) \/ RequestMoveTask(r)
  BY <1>3, <1>4 DEF RequestPlaceTask, RequestRemoveTask, RequestMoveTask
<1>5. CASE RequestUpdateTask(r)
  <2>1. PICK t \in LiveTasks, status \in Statuses \cup {Keep},
             target \in IF Careful THEN {NoList} ELSE LiveLists \cup {NoList} :
          Start(r, [Idle EXCEPT
                      !.op = "updateTask", !.call = "write", !.task = t,
                      !.target = target, !.status = status,
                      !.completed = CompletedEdit(task[t].status, status)])
    BY <1>5 DEF RequestUpdateTask
  <2>. DEFINE edit == CompletedEdit(task[t].status, status)
              q == [Idle EXCEPT
                      !.op = "updateTask", !.call = "write", !.task = t,
                      !.target = target, !.status = status,
                      !.completed = edit]
  <2>2. q.op = "updateTask" /\ q.task = t /\ q.status = status /\ q.completed = edit
    BY DEF Idle
  <2>. HIDE DEF q
  <2>. QED
    BY <2>1, <2>2, StartedReadsAreCurrent DEF q
<1>6. CASE RequestCreateList(r)
  <2>1. PICK l \in FreshLists :
          \E new \in {p + 1 : p \in LastPositions(BoardOf[l])}
                       \cup IF Careful THEN {} ELSE Positions :
            Start(r, [Idle EXCEPT !.op = "createList", !.call = "write",
                                  !.list = l, !.new = new])
    BY <1>6 DEF RequestCreateList
  <2>. PICK new \in {p + 1 : p \in LastPositions(BoardOf[l])}
                     \cup IF Careful THEN {} ELSE Positions :
         Start(r, [Idle EXCEPT !.op = "createList", !.call = "write",
                               !.list = l, !.new = new])
    BY <2>1
  <2>. DEFINE q == [Idle EXCEPT !.op = "createList", !.call = "write",
                                !.list = l, !.new = new]
  <2>2. q.op = "createList" /\ q.new = new /\ q.list = l
    BY DEF Idle
  <2>3. ASSUME Careful, NEW k \in ListsOf(BoardOf[l]) PROVE listAt[k] < new
    <3>1. PICK p \in LastPositions(BoardOf[l]) : new = p + 1
      BY <2>3
    <3>2. p \in {listAt[i] : i \in ListsOf(BoardOf[l])} /\ listAt[k] <= p
      BY <2>3 DEF LastPositions
    <3>3. \A i \in ListsOf(BoardOf[l]) : listAt[i] \in Int
      BY InvGivesRows, LivePlace, NotBelowIsInt DEF ListsOf
    <3>. QED
      BY <3>1, <3>2, <3>3
  <2>. HIDE DEF q
  <2>. QED
    BY <2>1, <2>2, <2>3, StartedReadsAreCurrent DEF q
<1>7. CASE RequestUpdateList(r)
  <2>1. PICK l, new : Start(r, [Idle EXCEPT !.op = "updateList", !.call = "write",
                                            !.list = l, !.new = new])
    BY <1>7 DEF RequestUpdateList
  <2>. DEFINE q == [Idle EXCEPT !.op = "updateList", !.call = "write",
                                !.list = l, !.new = new]
  <2>2. q.op = "updateList" /\ ~Careful
    BY <1>7 DEF Idle, RequestUpdateList
  <2>. HIDE DEF q
  <2>. QED
    BY <2>1, <2>2, StartedReadsAreCurrent DEF q
<1>8. CASE RequestPlaceList(r)
  <2>1. PICK l \in LiveLists, new \in Positions :
          Start(r, [Idle EXCEPT !.op = "placeList",
                      !.call = IF new = listAt[l] THEN "write" ELSE "shift",
                      !.list = l, !.old = listAt[l], !.new = new])
    BY <1>8 DEF RequestPlaceList
  <2>. DEFINE q == [Idle EXCEPT !.op = "placeList",
                      !.call = IF new = listAt[l] THEN "write" ELSE "shift",
                      !.list = l, !.old = listAt[l], !.new = new]
  <2>2. /\ q.op = "placeList" /\ q.list = l /\ q.old = listAt[l] /\ q.new = new
        /\ q.call \in {"shift", "write"} /\ (q.call = "shift" => new # listAt[l])
    BY DEF Idle
  <2>. HIDE DEF q
  <2>. QED
    BY <2>1, <2>2, StartedReadsAreCurrent DEF q
<1>9. CASE RequestRemoveList(r)
  <2>1. PICK l \in Removable : Start(r, [Idle EXCEPT !.op = "removeList",
                                                     !.call = "write", !.list = l])
    BY <1>9 DEF RequestRemoveList
  <2>. DEFINE q == [Idle EXCEPT !.op = "removeList", !.call = "write", !.list = l]
  <2>2. q.op = "removeList" /\ TasksOf(q.list) = {}
    BY <2>1 DEF Idle, Removable
  <2>. HIDE DEF q
  <2>. QED
    BY <2>1, <2>2, StartedReadsAreCurrent DEF q
<1>. QED
  BY <1>2, <1>4, <1>5, <1>6, <1>7, <1>8, <1>9

\* The steps between the first read of a request and its last call.
Midway(r) == CountByList(r) \/ FindLists(r) \/ ShiftForTask(r) \/ ShiftForList(r)

\* The last calls.
Final(r) ==
    \/ CreateTask(r) \/ UpdateTask(r) \/ PlaceTask(r) \/ DeleteTaskWithReorder(r)
    \/ MoveTaskBetweenLists(r) \/ CreateList(r) \/ UpdateList(r) \/ DeleteList(r)

LEMMA StepForm ==
    ASSUME NEW r \in Requests, TaskStep(r) \/ ListStep(r) \/ Fail(r)
    PROVE  \/ \/ RequestCreateTask(r) \/ RequestUpdateTask(r) \/ RequestPlaceTask(r)
              \/ RequestRemoveTask(r) \/ RequestMoveTask(r) \/ RequestCreateList(r)
              \/ RequestUpdateList(r) \/ RequestPlaceList(r) \/ RequestRemoveList(r)
           \/ Midway(r)
           \/ Final(r)
           \/ MayFail /\ Refuse(r)
BY DEF TaskStep, ListStep, Fail, Midway, Final

LEMMA FinalFinishes == ASSUME NEW r \in Requests, Final(r) PROVE Finish(r)
BY DEF Final, CreateTask, UpdateTask, PlaceTask, DeleteTaskWithReorder,
       MoveTaskBetweenLists, CreateList, UpdateList, DeleteList, Refuse

LEMMA MidwayReadsAreCurrent ==
    ASSUME ContentInv, ReadsAreCurrent, OneAtATime, NEW r \in Requests, Midway(r)
    PROVE  ReadsAreCurrent'
<1>1. ASSUME \/ req'[r].op \in {"createTask", "placeTask"}
             \/ req'[r].op = "placeList" /\ req'[r].call = "write"
      PROVE  ReadsAreCurrent'
  BY <1>1 DEF OneAtATime, ReadsAreCurrent
<1>2. req \in [Requests -> Request]
  BY DEF ContentInv, TypeOK
<1>3. CASE CountByList(r) \/ ShiftForTask(r) \/ ShiftForList(r)
  <2>1. req'[r].op = req[r].op /\ req'[r].call = "write"
    BY <1>2, <1>3 DEF CountByList, ShiftForTask, ShiftForList, Continue, Request
  <2>. QED
    BY <1>1, <1>3, <2>1 DEF CountByList, ShiftForTask, ShiftForList, At
<1>4. CASE FindLists(r) /\ Finish(r)
  BY <1>4, FinishedReadsAreCurrent
<1>5. CASE FindLists(r) /\ ~Finish(r)
  <2>1. UNCHANGED <<listAt, task>>
    BY <1>5 DEF FindLists
  <2>2. PICK call : /\ Continue(r, call)
                    /\ call = "shift" => req[r].op = "placeTask"
                    /\ req[r].op # "placeList"
    BY <1>5 DEF FindLists, ReadsAreCurrent
  <2>3. req'[r] = [req[r] EXCEPT !.call = call]
    BY <1>2, <2>2 DEF Continue
  <2>4. /\ req'[r].op = req[r].op /\ req'[r].call = call
        /\ req'[r].task = req[r].task /\ req'[r].list = req[r].list
        /\ req'[r].new = req[r].new /\ req'[r].old = req[r].old
        /\ req'[r].status = req[r].status /\ req'[r].completed = req[r].completed
    BY <1>2, <2>3 DEF Request
  <2>5. /\ LiveTasks' = LiveTasks /\ LiveLists' = LiveLists
        /\ TasksOf(req[r].list)' = TasksOf(req'[r].list)
    BY <2>1, <2>4 DEF LiveTasks, LiveLists, TasksOf
  <2>. QED
    BY <2>1, <2>2, <2>4, <2>5
    DEF OneAtATime, ReadsAreCurrent, LiveTasks, LiveLists, ListsOf, TasksOf
<1>. QED
  BY <1>3, <1>4, <1>5 DEF Midway

LEMMA ReadsStayCurrent ==
    ASSUME ContentInv, ReadsAreCurrent, OneAtATime, [Next]_vars
    PROVE  ReadsAreCurrent'
<1>1. CASE UNCHANGED vars
  BY <1>1 DEF vars, ReadsAreCurrent, LiveTasks, LiveLists, ListsOf, TasksOf
<1>2. CASE Next
  <2>1. PICK r \in Requests : TaskStep(r) \/ ListStep(r) \/ Fail(r)
    BY <1>2 DEF Next
  <2>. QED
    BY <2>1, StepForm, ReceivedReadsAreCurrent, MidwayReadsAreCurrent,
       FinalFinishes, FinishedReadsAreCurrent DEF Refuse
<1>. QED
  BY <1>1, <1>2

LEMMA ReadsCurrentInitially == Init => ReadsAreCurrent
BY DEF Init, ReadsAreCurrent, Idle

-----------------------------------------------------------------------------
(* completedAt *)

\* The status of a row and its completedAt agree.
Agrees(row) == row.completed <=> row.status = "DONE"

\* No row is new, and none has another status or completedAt than before.
StatusesStay ==
    \A t \in LiveTasks' :
        /\ t \in LiveTasks /\ task'[t].status = task[t].status
        /\ task'[t].completed = task[t].completed

LEMMA PositionsLeaveStatuses ==
    \A row \in Task : \A p, l :
          /\ [row EXCEPT !.position = p].status = row.status
          /\ [row EXCEPT !.position = p].completed = row.completed
          /\ [row EXCEPT !.list = l, !.position = p].status = row.status
          /\ [row EXCEPT !.list = l, !.position = p].completed = row.completed
          /\ [row EXCEPT !.position = p] # Deleted => row # Deleted
BY DeletedIsNoTask DEF Task

LEMMA CloseGapLeavesStatuses ==
    ASSUME Rows, NEW t \in Tasks, NEW l, NEW old \in NotBelow
    PROVE  LET row == CloseGap(t, l, old) IN
           /\ row \in SoundRows
           /\ row # Deleted => /\ task[t] # Deleted
                               /\ row.status = task[t].status
                               /\ row.completed = task[t].completed
<1>1. CASE t \in TasksOf(l) /\ task[t].position > old
  <2>1. task[t] \in Task /\ task[t] # Deleted
    BY <1>1, LiveRow DEF TasksOf
  <2>. QED
    BY <1>1, <2>1, CloseGapIsSound, PositionsLeaveStatuses DEF CloseGap
<1>2. CASE ~(t \in TasksOf(l) /\ task[t].position > old)
  BY <1>2, CloseGapIsSound DEF CloseGap
<1>. QED
  BY <1>1, <1>2

LEMMA MakeRoomLeavesStatuses ==
    ASSUME NEW row \in SoundRows, NEW l, NEW new
    PROVE  MakeRoom(row, l, new) # Deleted =>
              /\ row # Deleted
              /\ MakeRoom(row, l, new).status = row.status
              /\ MakeRoom(row, l, new).completed = row.completed
<1>1. CASE row # Deleted /\ row.list = l /\ row.position >= new
  BY <1>1, PositionsLeaveStatuses DEF MakeRoom, SoundRows
<1>2. CASE ~(row # Deleted /\ row.list = l /\ row.position >= new)
  BY <1>2 DEF MakeRoom
<1>. QED
  BY <1>1, <1>2

LEMMA OtherWritesLeaveStatuses ==
    ASSUME ContentInv, NEW r \in Requests,
           \/ ShiftForTask(r) \/ PlaceTask(r) \/ DeleteTaskWithReorder(r)
           \/ MoveTaskBetweenLists(r) \/ DeleteList(r) \/ UNCHANGED task
    PROVE  StatusesStay
<1>1. Rows /\ req[r].old \in NotBelow
  BY InvGivesRows, RequestFields
<1>2. \A t \in LiveTasks : t \in Tasks /\ task[t] \in Task
  BY <1>1, LiveRow
<1>3. \A t \in Tasks : t \notin LiveTasks <=> task[t] = Deleted
  BY DEF LiveTasks
<1>4. SUFFICES ASSUME NEW t \in Tasks, task'[t] # Deleted
               PROVE  /\ t \in LiveTasks /\ task'[t].status = task[t].status
                      /\ task'[t].completed = task[t].completed
  BY DEF StatusesStay, LiveTasks
<1>5. CASE UNCHANGED task
  BY <1>3, <1>4, <1>5
<1>6. CASE ShiftForTask(r)
  <2>1. CASE t \in TasksOf(req[r].list)
    <3>1. t \in LiveTasks /\ task'[t] = [task[t] EXCEPT !.position =
                                          Shifted(@, req[r].old, req[r].new)]
      BY <1>6, <2>1 DEF ShiftForTask, ShiftTasks, TasksOf
    <3>. QED
      BY <1>2, <3>1, PositionsLeaveStatuses
  <2>2. CASE t \notin TasksOf(req[r].list)
    BY <1>3, <1>4, <1>6, <2>2 DEF ShiftForTask, ShiftTasks
  <2>. QED
    BY <2>1, <2>2
<1>7. CASE PlaceTask(r) /\ ~UNCHANGED task
  <2>1. /\ req[r].task \in LiveTasks
        /\ task' = [task EXCEPT ![req[r].task].position = req[r].new]
    BY <1>7 DEF PlaceTask, Refuse
  <2>2. task'[t] = IF t = req[r].task THEN [task[t] EXCEPT !.position = req[r].new]
                   ELSE task[t]
    BY <1>1, <2>1 DEF Rows
  <2>. QED
    BY <1>2, <1>3, <1>4, <2>1, <2>2, PositionsLeaveStatuses
<1>8. CASE DeleteTaskWithReorder(r) /\ ~UNCHANGED task
  <2>1. task'[t] = CloseGap(t, req[r].list, req[r].old)
    BY <1>4, <1>8 DEF DeleteTaskWithReorder, Refuse
  <2>. QED
    BY <1>1, <1>3, <1>4, <2>1, CloseGapLeavesStatuses
<1>9. CASE MoveTaskBetweenLists(r) /\ ~UNCHANGED task
  <2>1. /\ CanMove(r)
        /\ task'[t] = IF t = req[r].task
                      THEN [task[t] EXCEPT !.list = req[r].target,
                                           !.position = req[r].new]
                      ELSE MakeRoom(CloseGap(t, req[r].list, req[r].old),
                                    req[r].target, req[r].new)
    BY <1>9 DEF MoveTaskBetweenLists, Refuse
  <2>2. CASE t = req[r].task
    BY <1>2, <2>1, <2>2, PositionsLeaveStatuses DEF CanMove
  <2>3. CASE t # req[r].task
    <3>. DEFINE row == CloseGap(t, req[r].list, req[r].old)
    <3>1. task'[t] = MakeRoom(row, req[r].target, req[r].new)
      BY <2>1, <2>3
    <3>2. /\ row \in SoundRows
          /\ row # Deleted => /\ task[t] # Deleted /\ row.status = task[t].status
                              /\ row.completed = task[t].completed
      BY <1>1, CloseGapLeavesStatuses
    <3>. HIDE DEF row
    <3>. QED
      BY <1>3, <1>4, <3>1, <3>2, MakeRoomLeavesStatuses
  <2>. QED
    BY <2>2, <2>3
<1>10. CASE DeleteList(r) /\ ~UNCHANGED task
  <2>1. task'[t] \in {Deleted, task[t]}
    BY <1>10 DEF DeleteList, Refuse
  <2>. QED
    BY <1>3, <1>4, <2>1
<1>. QED
  BY <1>5, <1>6, <1>7, <1>8, <1>9, <1>10

LEMMA DoneKept ==
    ASSUME ContentInv, ReadsAreCurrent, DoneIffCompleted, [Next]_vars
    PROVE  DoneIffCompleted'
<1>1. Rows
  BY InvGivesRows
<1>2. CASE StatusesStay
  BY <1>2 DEF StatusesStay, DoneIffCompleted
<1>3. ASSUME NEW r \in Requests, NEW row, Agrees(row),
             task' = [task EXCEPT ![req[r].task] = row]
      PROVE  DoneIffCompleted'
  <2>1. \A t \in Tasks : task'[t] = IF t = req[r].task THEN row ELSE task[t]
    BY <1>1, <1>3 DEF Rows
  <2>. QED
    BY <1>3, <2>1 DEF DoneIffCompleted, LiveTasks, Agrees
<1>4. ASSUME NEW r \in Requests, CreateTask(r), ~Refuse(r) PROVE DoneIffCompleted'
  BY <1>3, <1>4 DEF CreateTask, Agrees
<1>5. ASSUME NEW r \in Requests, UpdateTask(r), ~Refuse(r) PROVE DoneIffCompleted'
  <2>. DEFINE t == req[r].task
              row == [list |-> IF req[r].target = NoList
                               THEN task[t].list ELSE req[r].target,
                      position |-> task[t].position,
                      status |-> Merged(task[t].status, req[r].status),
                      completed |-> Merged(task[t].completed, req[r].completed)]
  <2>1. t \in LiveTasks /\ t \in Tasks
    BY <1>5 DEF UpdateTask, CanUpdateTask, LiveTasks
  <2>2. task' = [task EXCEPT ![t] = row]
    BY <1>1, <1>5, <2>1 DEF UpdateTask, Rows
  <2>3. req[r].completed = CompletedEdit(task[t].status, req[r].status)
    BY <1>5 DEF ReadsAreCurrent, UpdateTask, At
  <2>4. /\ task[t].status \in Status /\ task[t].completed \in BOOLEAN
        /\ task[t].completed <=> task[t].status = "DONE"
    BY <1>1, <2>1, LiveRow DEF DoneIffCompleted, Task
  <2>5. req[r].status \in Status \cup {Keep}
    BY DEF ContentInv, TypeOK, Request
  <2>6. Agrees(row)
    <3>1. CASE req[r].status = Keep
      BY <2>3, <2>4, <3>1, KeepIsNoValue DEF CompletedEdit, Merged, Agrees, Status
    <3>2. CASE req[r].status = "DONE"
      BY <2>3, <2>4, <3>2, KeepIsNoValue DEF CompletedEdit, Merged, Agrees, Status
    <3>3. CASE req[r].status = "OPEN"
      BY <2>3, <2>4, <3>3, KeepIsNoValue DEF CompletedEdit, Merged, Agrees, Status
    <3>. QED
      BY <2>5, <3>1, <3>2, <3>3 DEF Status
  <2>. HIDE DEF row
  <2>. QED
    BY <1>3, <2>2, <2>6
<1>6. ASSUME NEW r \in Requests, TaskStep(r) \/ ListStep(r) \/ Fail(r)
      PROVE  DoneIffCompleted'
  <2>1. \/ CreateTask(r) /\ ~Refuse(r)
        \/ UpdateTask(r) /\ ~Refuse(r)
        \/ ShiftForTask(r) \/ PlaceTask(r) \/ DeleteTaskWithReorder(r)
        \/ MoveTaskBetweenLists(r) \/ DeleteList(r) \/ UNCHANGED task
    BY <1>6
    DEF TaskStep, ListStep, Fail, Refuse, Start, ReadTask, RequestCreateTask,
        RequestUpdateTask, RequestPlaceTask, RequestRemoveTask, RequestMoveTask,
        RequestCreateList, RequestUpdateList, RequestPlaceList,
        RequestRemoveList, CountByList, FindLists, CreateList, ShiftForList,
        UpdateList
  <2>. QED
    BY <1>2, <1>4, <1>5, <2>1, OtherWritesLeaveStatuses
<1>. QED
  BY <1>2, <1>6, OtherWritesLeaveStatuses DEF Next, vars, StatusesStay, LiveTasks

LEMMA SerialSpec ==
    ASSUME OneAtATime
    PROVE  Spec => [](ContentInv /\ ReadsAreCurrent)
<1>1. ContentInv /\ ReadsAreCurrent /\ [Next]_vars => ContentInv' /\ ReadsAreCurrent'
  BY InvKept, ReadsStayCurrent
<1>. QED
  BY <1>1, InitInv, ReadsCurrentInitially, PTL DEF Spec

\* One request at a time, whatever clients send and wherever requests die,
\* completedAt is set exactly while the status is DONE (task.service.ts:
\* create, update).
THEOREM DoneIffCompletedOneAtATime == Spec /\ OneAtATime => []DoneIffCompleted
<1>1. Init => DoneIffCompleted
  BY DEF Init, DoneIffCompleted, LiveTasks
<1>2. ASSUME OneAtATime PROVE Spec => []DoneIffCompleted
  <2>1. ContentInv /\ ReadsAreCurrent /\ DoneIffCompleted /\ [Next]_vars
          => DoneIffCompleted'
    BY DoneKept
  <2>2. Spec => [](ContentInv /\ ReadsAreCurrent)
    BY <1>2, SerialSpec
  <2>. QED
    BY <1>1, <2>1, <2>2, PTL DEF Spec
<1>. QED
  BY <1>2

\* One request at a time, a list that goes has no tasks.
THEOREM ListsDieEmptyOneAtATime == Spec /\ OneAtATime => ListsDieEmpty
<1>1. ASSUME ContentInv, ReadsAreCurrent, [Next]_vars
      PROVE  [\A l \in LiveLists : listAt'[l] = Gone => TasksOf(l) = {}]_vars
  <2>. SUFFICES ASSUME NEW r \in Requests, TaskStep(r) \/ ListStep(r) \/ Fail(r),
                       NEW l \in LiveLists, listAt'[l] = Gone
                PROVE  TasksOf(l) = {}
    BY <1>1 DEF Next
  <2>1. l \in Lists /\ listAt[l] \in NotBelow /\ listAt[l] # Gone
    BY <1>1, InvGivesRows, LivePlace DEF LiveLists
  <2>2. req[r].old \in NotBelow /\ req[r].new \in NotBelow
    BY <1>1, RequestFields
  <2>3. listAt \in [Lists -> Int \cup {Gone}]
    BY <1>1 DEF ContentInv, TypeOK
  <2>4. listAt' # listAt
    BY <2>1
  <2>5. CreateList(r) \/ ShiftForList(r) \/ UpdateList(r) \/ DeleteList(r)
    BY <2>4
    DEF TaskStep, ListStep, Fail, Refuse, Start, ReadTask, RequestCreateTask,
        RequestUpdateTask, RequestPlaceTask, RequestRemoveTask, RequestMoveTask,
        RequestCreateList, RequestUpdateList, RequestPlaceList,
        RequestRemoveList, CountByList, FindLists, CreateTask, UpdateTask,
        ShiftForTask, PlaceTask, DeleteTaskWithReorder, MoveTaskBetweenLists
  <2>6. ~CreateList(r) /\ ~UpdateList(r)
    BY <2>1, <2>2, <2>3, <2>4, NotBelowIsInt, GoneIsNoPosition DEF CreateList, UpdateList, Refuse
  <2>7. ~ShiftForList(r)
    <3>1. Shifted(listAt[l], req[r].old, req[r].new) \in NotBelow
      BY <2>1, <2>2, ShiftedNotBelow
    <3>. QED
      BY <2>1, <3>1, NotBelowIsInt, GoneIsNoPosition DEF ShiftForList, ShiftLists
  <2>8. CASE DeleteList(r)
    <3>1. l = req[r].list
      BY <2>1, <2>3, <2>4, <2>8 DEF DeleteList, Refuse
    <3>2. req[r].op = "removeList"
      BY <2>8 DEF DeleteList, At
    <3>. QED
      BY <1>1, <3>1, <3>2 DEF ReadsAreCurrent
  <2>. QED
    BY <2>5, <2>6, <2>7, <2>8
<1>2. ASSUME OneAtATime PROVE Spec => ListsDieEmpty
  <2>1. Spec => [](ContentInv /\ ReadsAreCurrent)
    BY <1>2, SerialSpec
  <2>. QED
    BY <1>1, <2>1, PTL DEF Spec, ListsDieEmpty
<1>. QED
  BY <1>2

-----------------------------------------------------------------------------
(* The places of lists *)

\* With one slot, only the list its request is placing stands where it goes.
LEMMA PlacesOfLists ==
    ASSUME OneAtATime, NEW r \in Requests, NEW l
    PROVE  ListPlace(l) = IF Placing(r, "placeList") /\ req[r].list = l
                          THEN req[r].new ELSE listAt[l]
<1>1. \A s \in Requests : s = r
  BY DEF OneAtATime
<1>2. CASE Placing(r, "placeList") /\ req[r].list = l
  <2>. DEFINE q == CHOOSE q \in {req[s] : s \in Requests} : q.list = l
  <2>1. q \in {req[s] : s \in Requests}
    BY <1>2
  <2>2. q = req[r]
    BY <1>1, <2>1
  <2>. QED
    BY <1>2, <2>2 DEF ListPlace
<1>3. CASE ~(Placing(r, "placeList") /\ req[r].list = l)
  BY <1>1, <1>3 DEF ListPlace
<1>. QED
  BY <1>2, <1>3

LEMMA PlacesOfListsNext ==
    ASSUME OneAtATime, NEW r \in Requests, NEW l
    PROVE  ListPlace(l)' = IF Placing(r, "placeList")' /\ req'[r].list = l
                           THEN req'[r].new ELSE listAt'[l]
<1>1. \A s \in Requests : s = r
  BY DEF OneAtATime
<1>2. CASE Placing(r, "placeList")' /\ req'[r].list = l
  <2>. DEFINE q == CHOOSE q \in {req'[s] : s \in Requests} : q.list = l
  <2>1. q \in {req'[s] : s \in Requests}
    BY <1>2
  <2>2. q = req'[r]
    BY <1>1, <2>1
  <2>. QED
    BY <1>2, <2>2 DEF ListPlace
<1>3. CASE ~(Placing(r, "placeList")' /\ req'[r].list = l)
  BY <1>1, <1>3 DEF ListPlace
<1>. QED
  BY <1>2, <1>3

\* A shift keeps rows apart, and leaves the place free that it is for.
LEMMA ShiftedApart ==
    ASSUME NEW old \in Int, NEW new \in Int, new # old, NEW p \in Int, p # old
    PROVE  /\ Shifted(p, old, new) # new
           /\ \A q \in Int : q # old /\ q # p =>
                 Shifted(p, old, new) # Shifted(q, old, new)
BY DEF Shifted

\* Steps that place no list.
LEMMA OtherStepsPlaceNothing ==
    ASSUME ContentInv, ReadsAreCurrent, NEW r \in Requests, ~MayFail,
           TaskStep(r) \/ ListStep(r) \/ Fail(r),
           ~RequestPlaceList(r), ~ShiftForList(r), ~UpdateList(r)
    PROVE  ~Placing(r, "placeList") /\ ~Placing(r, "placeList")'
<1>1. req \in [Requests -> Request] /\ Idle.op # "placeList" /\ Idle.call # "write"
  BY DEF ContentInv, TypeOK, Idle
<1>2. ASSUME NEW q, Start(r, q), q.op # "placeList"
      PROVE  ~Placing(r, "placeList") /\ ~Placing(r, "placeList")'
  BY <1>1, <1>2 DEF Start, Placing
<1>3. ASSUME NEW op, op # "placeList", NEW t, NEW target, NEW new,
             ReadTask(r, op, t, target, new)
      PROVE  ~Placing(r, "placeList") /\ ~Placing(r, "placeList")'
  <2>. DEFINE q == [Idle EXCEPT !.op = op, !.call = "findLists", !.task = t,
                                !.list = task[t].list, !.target = target,
                                !.old = task[t].position, !.new = new]
  <2>1. Start(r, q) /\ q.op = op
    BY <1>3 DEF ReadTask, Idle
  <2>. HIDE DEF q
  <2>. QED
    BY <1>2, <1>3, <2>1
<1>4. CASE RequestPlaceTask(r) \/ RequestRemoveTask(r) \/ RequestMoveTask(r)
  BY <1>3, <1>4 DEF RequestPlaceTask, RequestRemoveTask, RequestMoveTask
<1>5. CASE RequestCreateTask(r)
           \/ RequestUpdateTask(r)
           \/ RequestCreateList(r)
           \/ RequestUpdateList(r)
           \/ RequestRemoveList(r)
  <2>1. CASE RequestCreateTask(r)
    <3>1. PICK l \in LiveLists, t \in FreshTasks, status \in Statuses :
            Start(r, [Idle EXCEPT !.op = "createTask", !.call = "countByList",
                     !.task = t, !.list = l, !.status = status])
      BY <2>1 DEF RequestCreateTask
    <3>. DEFINE q == [Idle EXCEPT !.op = "createTask", !.call = "countByList",
                     !.task = t, !.list = l, !.status = status]
    <3>2. q.op = "createTask"
      BY DEF Idle
    <3>. HIDE DEF q
    <3>3. Start(r, q)
      BY <3>1 DEF q
    <3>. QED
      BY <1>2, <3>2, <3>3
  <2>2. CASE RequestUpdateTask(r)
    <3>1. PICK t \in LiveTasks, status \in Statuses \cup {Keep},
         target \in IF Careful THEN {NoList} ELSE LiveLists \cup {NoList} :
            Start(r, [Idle EXCEPT !.op = "updateTask", !.call = "write", !.task = t,
                     !.target = target, !.status = status,
                     !.completed = CompletedEdit(task[t].status, status)])
      BY <2>2 DEF RequestUpdateTask
    <3>. DEFINE q == [Idle EXCEPT !.op = "updateTask", !.call = "write", !.task = t,
                     !.target = target, !.status = status,
                     !.completed = CompletedEdit(task[t].status, status)]
    <3>2. q.op = "updateTask"
      BY DEF Idle
    <3>. HIDE DEF q
    <3>3. Start(r, q)
      BY <3>1 DEF q
    <3>. QED
      BY <1>2, <3>2, <3>3
  <2>3. CASE RequestCreateList(r)
    <3>1. PICK l, new :
            Start(r, [Idle EXCEPT !.op = "createList", !.call = "write",
                     !.list = l, !.new = new])
      BY <2>3 DEF RequestCreateList
    <3>. DEFINE q == [Idle EXCEPT !.op = "createList", !.call = "write",
                     !.list = l, !.new = new]
    <3>2. q.op = "createList"
      BY DEF Idle
    <3>. HIDE DEF q
    <3>3. Start(r, q)
      BY <3>1 DEF q
    <3>. QED
      BY <1>2, <3>2, <3>3
  <2>4. CASE RequestUpdateList(r)
    <3>1. PICK l \in LiveLists, new \in Positions :
            Start(r, [Idle EXCEPT !.op = "updateList", !.call = "write",
                     !.list = l, !.new = new])
      BY <2>4 DEF RequestUpdateList
    <3>. DEFINE q == [Idle EXCEPT !.op = "updateList", !.call = "write",
                     !.list = l, !.new = new]
    <3>2. q.op = "updateList"
      BY DEF Idle
    <3>. HIDE DEF q
    <3>3. Start(r, q)
      BY <3>1 DEF q
    <3>. QED
      BY <1>2, <3>2, <3>3
  <2>5. CASE RequestRemoveList(r)
    <3>1. PICK l \in Removable :
            Start(r, [Idle EXCEPT !.op = "removeList", !.call = "write", !.list = l])
      BY <2>5 DEF RequestRemoveList
    <3>. DEFINE q == [Idle EXCEPT !.op = "removeList", !.call = "write", !.list = l]
    <3>2. q.op = "removeList"
      BY DEF Idle
    <3>. HIDE DEF q
    <3>3. Start(r, q)
      BY <3>1 DEF q
    <3>. QED
      BY <1>2, <3>2, <3>3
  <2>. QED
    BY <1>5, <2>1, <2>2, <2>3, <2>4, <2>5
<1>6. ASSUME req[r].op # "placeList",
             \/ req'[r] = Idle
             \/ req'[r].op = req[r].op
      PROVE  ~Placing(r, "placeList") /\ ~Placing(r, "placeList")'
  BY <1>1, <1>6 DEF Placing
<1>7. CASE CountByList(r) \/ ShiftForTask(r)
  BY <1>1, <1>6, <1>7 DEF CountByList, ShiftForTask, Continue, At, Request
<1>8. CASE FindLists(r)
  <2>1. req[r].op # "placeList"
    BY <1>8 DEF FindLists, ReadsAreCurrent
  <2>. QED
    BY <1>1, <1>6, <1>8, <2>1 DEF FindLists, Continue, Finish, Request
<1>9. CASE Final(r) /\ ~UpdateList(r)
  <2>1. req[r].op # "placeList"
    BY <1>9 DEF Final, CreateTask, UpdateTask, PlaceTask, DeleteTaskWithReorder,
                MoveTaskBetweenLists, CreateList, DeleteList, At
  <2>. QED
    BY <1>1, <1>6, <1>9, <2>1, FinalFinishes DEF Finish
<1>. QED
  BY <1>4, <1>5, <1>7, <1>8, <1>9, StepForm DEF Midway

LEMMA ApartKept ==
    ASSUME ContentInv, ReadsAreCurrent, ListsApart, OneAtATime, Careful, ~MayFail,
           [Next]_vars
    PROVE  ListsApart'
<1>1. /\ listAt \in [Lists -> Int \cup {Gone}] /\ req \in [Requests -> Request]
      /\ \A l \in LiveLists : l \in Lists /\ listAt[l] \in Int
  BY InvGivesRows, LivePlace, NotBelowIsInt DEF ContentInv, TypeOK
<1>2. CASE UNCHANGED vars
  BY <1>2 DEF vars, ListsApart, ListPlace, LiveLists, Placing
<1>3. ASSUME NEW r \in Requests, TaskStep(r) \/ ListStep(r) \/ Fail(r)
      PROVE  ListsApart'
  <2>. DEFINE placing == Placing(r, "placeList")
              l == req[r].list
              new == req[r].new
  <2>1. \A k : /\ ListPlace(k) = IF placing /\ l = k THEN new ELSE listAt[k]
               /\ ListPlace(k)' = IF placing' /\ req'[r].list = k THEN req'[r].new
                                  ELSE listAt'[k]
    BY <1>3, PlacesOfLists, PlacesOfListsNext
  <2>2. req[r].old \in Int /\ new \in Int
    BY RequestFields, NotBelowIsInt
  <2>3. CASE ~placing /\ ~placing' /\ UNCHANGED listAt
    BY <2>1, <2>3 DEF ListsApart, LiveLists
  <2>4. CASE RequestPlaceList(r)
    <3>1. PICK k \in LiveLists, p \in Positions :
            Start(r, [Idle EXCEPT !.op = "placeList",
                        !.call = IF p = listAt[k] THEN "write" ELSE "shift",
                        !.list = k, !.old = listAt[k], !.new = p])
      BY <2>4 DEF RequestPlaceList
    <3>. DEFINE q == [Idle EXCEPT !.op = "placeList",
                        !.call = IF p = listAt[k] THEN "write" ELSE "shift",
                        !.list = k, !.old = listAt[k], !.new = p]
    <3>2. q.list = k /\ q.new = p /\ (q.call = "write" => p = listAt[k])
      BY DEF Idle
    <3>. HIDE DEF q
    <3>3. req[r] = Idle /\ req'[r] = q /\ UNCHANGED listAt
      BY <1>1, <3>1 DEF Start, q
    <3>4. ~placing
      BY <3>3 DEF Placing, Idle
    <3>5. \A i : ListPlace(i)' = listAt[i] /\ ListPlace(i) = listAt[i]
      BY <2>1, <3>2, <3>3, <3>4 DEF Placing
    <3>. QED
      BY <3>3, <3>5 DEF ListsApart, LiveLists
  <2>5. CASE ShiftForList(r)
    <3>1. /\ req[r].op = "placeList" /\ req[r].call = "shift" /\ ~placing
      BY <2>5 DEF ShiftForList, At, Placing
    <3>2. /\ placing' /\ req'[r].list = l /\ req'[r].new = new
      BY <1>1, <2>5, <3>1 DEF ShiftForList, Continue, Placing, Request
    <3>3. l \in LiveLists /\ req[r].old = listAt[l] /\ new # req[r].old
      BY <3>1 DEF ReadsAreCurrent
    <3>. DEFINE here == ListsOf(BoardOf[l])
    <3>4. /\ LiveLists' = LiveLists /\ l \in here /\ here \subseteq LiveLists
          /\ \A k \in here : listAt'[k] = Shifted(listAt[k], req[r].old, new)
          /\ \A k \in LiveLists : k \notin here => listAt'[k] = listAt[k]
      <4>1. \A k \in LiveLists : Shifted(listAt[k], req[r].old, new) \in Int
        BY <1>1, <2>2 DEF Shifted
      <4>. QED
        BY <2>5, <3>3, <4>1, GoneIsNoPosition
        DEF ShiftForList, ShiftLists, ListsOf, LiveLists
    <3>5. \A i, k \in LiveLists : BoardOf[i] = BoardOf[k] /\ listAt[i] = listAt[k] => i = k
      BY <2>1, <3>1 DEF ListsApart
    <3>6. \A k \in here : k # l =>
             /\ listAt'[k] # new
             /\ \A i \in here : i # l /\ i # k => listAt'[i] # listAt'[k]
      <4>. SUFFICES ASSUME NEW k \in here, k # l
                    PROVE  /\ listAt'[k] # new
                           /\ \A i \in here : i # l /\ i # k =>
                                 listAt'[i] # listAt'[k]
        OBVIOUS
      <4>0. \A i \in here : i \in LiveLists /\ BoardOf[i] = BoardOf[l]
        BY DEF ListsOf
      <4>1. listAt[k] \in Int /\ listAt[k] # req[r].old
        BY <1>1, <3>3, <3>5, <4>0
      <4>2. listAt'[k] # new
        BY <2>2, <3>3, <3>4, <4>1, ShiftedApart
      <4>3. ASSUME NEW i \in here, i # l, i # k PROVE listAt'[i] # listAt'[k]
        <5>1. listAt[i] \in Int /\ listAt[i] # req[r].old /\ listAt[i] # listAt[k]
          BY <1>1, <3>3, <3>5, <4>0, <4>3
        <5>. QED
          BY <2>2, <3>3, <3>4, <4>1, <5>1, ShiftedApart
      <4>. QED
        BY <4>2, <4>3
    <3>7. ASSUME NEW i \in LiveLists, NEW k \in LiveLists, BoardOf[i] = BoardOf[k],
                 ListPlace(i)' = ListPlace(k)'
          PROVE  i = k
      <4>1. CASE i \in here
        <5>1. k \in here
          BY <3>7, <4>1 DEF ListsOf
        <5>. QED
          BY <2>1, <3>2, <3>4, <3>6, <3>7, <4>1, <5>1
      <4>2. CASE i \notin here
        <5>1. k \notin here /\ i # l /\ k # l
          BY <3>4, <3>7, <4>2 DEF ListsOf
        <5>. QED
          BY <2>1, <3>2, <3>4, <3>5, <3>7, <4>2, <5>1
      <4>. QED
        BY <4>1, <4>2
    <3>. QED
      BY <3>4, <3>7 DEF ListsApart
  <2>6. CASE UpdateList(r)
    <3>1. placing
      BY <2>6 DEF UpdateList, ReadsAreCurrent, Placing
    <3>2. ~placing' /\ Finish(r)
      BY <1>1, <2>6 DEF UpdateList, Refuse, Finish, Idle, Placing
    <3>3. \A k \in LiveLists' : k \in LiveLists
                                /\ listAt'[k] = IF k = l THEN new ELSE listAt[k]
      BY <1>1, <2>6 DEF UpdateList, Refuse, LiveLists
    <3>. QED
      BY <2>1, <3>1, <3>2, <3>3 DEF ListsApart
  <2>7. CASE CreateList(r) \/ DeleteList(r)
    <3>1. ~placing /\ ~placing'
      BY <1>1, <2>7 DEF CreateList, DeleteList, Refuse, At, Finish, Idle, Placing
    <3>2. CASE DeleteList(r)
      <4>1. \A k \in LiveLists' : k \in LiveLists /\ listAt'[k] = listAt[k]
        BY <1>1, <3>2 DEF DeleteList, Refuse, LiveLists
      <4>. QED
        BY <2>1, <3>1, <4>1 DEF ListsApart
    <3>3. CASE CreateList(r)
      <4>1. \A k \in LiveLists : BoardOf[k] = BoardOf[l] => listAt[k] < new
        BY <3>3 DEF CreateList, At, ReadsAreCurrent, ListsOf
      <4>2. \A k \in LiveLists' : IF k = l THEN listAt'[k] = new
                                  ELSE k \in LiveLists /\ listAt'[k] = listAt[k]
        BY <1>1, <3>3 DEF CreateList, LiveLists
      <4>3. \A k \in LiveLists : BoardOf[k] = BoardOf[l] => listAt[k] # new
        BY <1>1, <2>2, <4>1
      <4>. QED
        BY <2>1, <3>1, <4>2, <4>3 DEF ListsApart
    <3>. QED
      BY <2>7, <3>2, <3>3
  <2>8. CASE ~(RequestPlaceList(r) \/ ShiftForList(r) \/ UpdateList(r)
               \/ CreateList(r) \/ DeleteList(r))
    <3>1. ~placing /\ ~placing'
      BY <1>3, <2>8, OtherStepsPlaceNothing
    <3>2. UNCHANGED listAt
      BY <1>3, <2>8
      DEF TaskStep, ListStep, Fail, Refuse, Start, ReadTask, RequestCreateTask,
          RequestUpdateTask, RequestPlaceTask, RequestRemoveTask,
          RequestMoveTask, RequestCreateList, RequestUpdateList,
          RequestRemoveList, CountByList, FindLists, CreateTask, UpdateTask,
          ShiftForTask, PlaceTask, DeleteTaskWithReorder, MoveTaskBetweenLists
    <3>. QED
      BY <2>3, <3>1, <3>2
  <2>. QED
    BY <2>4, <2>5, <2>6, <2>7, <2>8
<1>. QED
  BY <1>2, <1>3 DEF Next

\* For careful clients, one request at a time that does not die, no two lists
\* stand at one place, however many are created, placed and deleted.
THEOREM ListsApartOneAtATime ==
    Spec /\ OneAtATime /\ Careful /\ ~MayFail => []ListsApart
<1>1. Init => ListsApart
  BY DEF Init, ListsApart, LiveLists
<1>2. ASSUME OneAtATime, Careful, ~MayFail PROVE Spec => []ListsApart
  <2>1. ContentInv /\ ReadsAreCurrent /\ ListsApart /\ [Next]_vars => ListsApart'
    BY <1>2, ApartKept
  <2>2. Spec => [](ContentInv /\ ReadsAreCurrent)
    BY <1>2, SerialSpec
  <2>. QED
    BY <1>1, <2>1, <2>2, PTL DEF Spec
<1>. QED
  BY <1>2

=============================================================================
