------------------------- MODULE RealtimeRoomsProofs -------------------------
(***************************************************************************)
(* A board that is shown is in its room, and what a client has read is the *)
(* latest once the writes in flight have been announced, but for changes   *)
(* that no event announces: for any number of clients, requests and        *)
(* overlapping joins, across disconnects and restarts.                     *)
(***************************************************************************)
EXTENDS RealtimeRooms, TLAPS

LEMMA InitEstablishesRoomsInv == Init => RoomsInv
<1> SUFFICES ASSUME Init PROVE RoomsInv
  OBVIOUS
<1>1. TypeOK
  BY DEF Init, TypeOK, Request, Step, Room, Idle, NoCalls
<1>2. TwoCallsAreOfTheBoard /\ GoneMeansGone
  BY DEF Init, TwoCallsAreOfTheBoard, GoneMeansGone, Idle
<1> QED
  BY <1>1, <1>2
     DEF Init, RoomsInv, OpenViewsAreInTheRoom, OpenViewsAreCurrent,
         PrimedInTheirRoom, NotificationsAreCurrent

-----------------------------------------------------------------------------
(* Requests *)

LEMMA BeginKeepsRoomsInv ==
    ASSUME RoomsInv, NEW r \in Requests,
           NEW step \in {"write", "first"}, NEW about \in Room, NEW target \in Room,
           Begin(r, step, about, target), step = "first" => about = Board
    PROVE  RoomsInv'
<1>1. /\ req[r] = Idle
      /\ req' = [req EXCEPT ![r] = [step |-> step, about |-> about, target |-> target]]
      /\ UNCHANGED <<database, socket, client>>
  BY DEF Begin
<1>2. TypeOK'
  BY <1>1 DEF RoomsInv, TypeOK, Request, Step, Room, database, socket, client
<1>3. \A s \in Requests :
        IF s = r THEN req'[s].step = step /\ req'[s].about = about
        ELSE req'[s] = req[s]
  BY <1>1 DEF RoomsInv, TypeOK
<1>4. \A x \in Room : Quiet(x)' => Quiet(x)
  BY <1>1, <1>3 DEF Quiet, Idle
<1>5. TwoCallsAreOfTheBoard'
  BY <1>3 DEF RoomsInv, TwoCallsAreOfTheBoard
<1>6. OpenViewsAreCurrent' /\ NotificationsAreCurrent'
  BY <1>1, <1>4
     DEF RoomsInv, TypeOK, OpenViewsAreCurrent, NotificationsAreCurrent,
         Room, database, client
<1> QED
  BY <1>1, <1>2, <1>5, <1>6
     DEF RoomsInv, GoneMeansGone, OpenViewsAreInTheRoom, PrimedInTheirRoom,
         socket, client

LEMMA RequestsKeepRoomsInv ==
    ASSUME RoomsInv, NEW r \in Requests,
           \/ RequestModify(r) \/ RequestTwoCalls(r)
           \/ RequestRemoveMember(r) \/ RequestInvite(r)
    PROVE  RoomsInv'
<1>1. Board \in Room /\ Users \subseteq Room /\ member \subseteq Users
  BY DEF Room, RoomsInv, TypeOK
<1>2. CASE RequestModify(r)
  BY <1>1, <1>2, BeginKeepsRoomsInv DEF RequestModify
<1>3. CASE RequestTwoCalls(r)
  BY <1>1, <1>3, BeginKeepsRoomsInv DEF RequestTwoCalls
<1>4. CASE RequestRemoveMember(r)
  BY <1>1, <1>4, BeginKeepsRoomsInv DEF RequestRemoveMember
<1>5. CASE RequestInvite(r)
  BY <1>1, <1>5, BeginKeepsRoomsInv DEF RequestInvite
<1> QED
  BY <1>2, <1>3, <1>4, <1>5

\* A write makes the copies of its room old, and its handler is on the way to
\* the event from then on; the invitees it touches besides hear nothing.
LEMMA WriteKeepsRoomsInv ==
    ASSUME RoomsInv, NEW r \in Requests, Write(r)
    PROVE  RoomsInv'
<1> DEFINE next == IF req[r].step = "first" THEN "second" ELSE "emit"
<1>1. PICK U \in Invitees(r) :
        /\ behind' = [u \in Users |->
                        behind[u] \cup ({u, Board} \cap ({req[r].about} \cup U))]
        /\ silent' = silent \cup U
  BY DEF Write, Changed, ChangedSilently
<1>a. /\ req[r].step \in {"write", "first", "second"}
      /\ member' = member \ {req[r].target}
      /\ req' = [req EXCEPT ![r].step = next, ![r].target = Board]
      /\ UNCHANGED <<socket, client>>
  BY DEF Write, AfterWrite, Continue, At
<1>b. U \subseteq Users
  BY DEF Invitees
<1>2. req[r] \in Request
  BY DEF RoomsInv, TypeOK
<1>3. /\ req'[r] = [step |-> next, about |-> req[r].about, target |-> Board]
      /\ \A s \in Requests \ {r} : req'[s] = req[s]
  BY <1>a, <1>2 DEF RoomsInv, TypeOK, Request
<1>4. TypeOK'
  <2>1. req' \in [Requests -> Request]
    <3>1. req'[r] \in Request
      BY <1>2, <1>3 DEF Request, Step, Room
    <3>2. req' = [s \in Requests |-> req'[s]]
      BY <1>a DEF RoomsInv, TypeOK
    <3> QED
      BY <1>3, <3>1, <3>2 DEF RoomsInv, TypeOK
  <2>2. behind' \in [Users -> SUBSET Room] /\ silent' \subseteq Room
    BY <1>1, <1>b, <1>2 DEF RoomsInv, TypeOK, Room
  <2> QED
    BY <1>a, <2>1, <2>2 DEF RoomsInv, TypeOK, socket, client
<1>6. ~Quiet(req[r].about)'
  BY <1>3 DEF Quiet
<1>7. \A x \in Room : Quiet(x)' => Quiet(x)
  BY <1>3, <1>6 DEF Quiet
<1>8. \A u \in Users, x \in Room :
          x # req[r].about /\ x \notin silent' => (x \in behind'[u] <=> x \in behind[u])
  BY <1>1
<1>9. \A x : x \notin silent' => x \notin silent
  BY <1>1
<1> QED
  BY <1>a, <1>3, <1>4, <1>6, <1>7, <1>8, <1>9
     DEF RoomsInv, TypeOK, Room, TwoCallsAreOfTheBoard, GoneMeansGone,
         OpenViewsAreInTheRoom, OpenViewsAreCurrent, PrimedInTheirRoom,
         NotificationsAreCurrent, socket, client

\* The read of an import leaves it on the way to its event.
LEMMA FindBoardKeepsRoomsInv ==
    ASSUME RoomsInv, NEW r \in Requests, FindBoard(r)
    PROVE  RoomsInv'
<1>1. /\ req[r].step = "second"
      /\ req' = [req EXCEPT ![r].step = "emit", ![r].target = Board]
      /\ UNCHANGED <<database, socket, client>>
  BY DEF FindBoard, Continue, At
<1>2. req[r] \in Request
  BY DEF RoomsInv, TypeOK
<1>3. /\ req'[r] = [step |-> "emit", about |-> req[r].about, target |-> Board]
      /\ \A s \in Requests \ {r} : req'[s] = req[s]
  BY <1>1, <1>2 DEF RoomsInv, TypeOK, Request
<1>4. TypeOK'
  <2>1. req'[r] \in Request
    BY <1>2, <1>3 DEF Request, Step, Room
  <2>2. req' = [s \in Requests |-> req'[s]]
    BY <1>1 DEF RoomsInv, TypeOK
  <2>3. req' \in [Requests -> Request]
    BY <1>3, <2>1, <2>2 DEF RoomsInv, TypeOK
  <2> QED
    BY <1>1, <2>3 DEF RoomsInv, TypeOK, database, socket, client
<1>5. \A x \in Room : Quiet(x)' => Quiet(x)
  <2>1. ~Quiet(req[r].about)'
    BY <1>3 DEF Quiet
  <2> QED
    BY <1>3, <2>1 DEF Quiet
<1> QED
  BY <1>1, <1>3, <1>4, <1>5
     DEF RoomsInv, TypeOK, Room, TwoCallsAreOfTheBoard, GoneMeansGone,
         OpenViewsAreInTheRoom, OpenViewsAreCurrent, PrimedInTheirRoom,
         NotificationsAreCurrent, database, socket, client

\* A handler that gives up after its first write leaves a silent one.
LEMMA FailingHandlerKeepsRoomsInv ==
    ASSUME RoomsInv, NEW r \in Requests, HandlerFails(r)
    PROVE  RoomsInv'
<1>1. /\ req[r].step \in {"write", "first", "second"}
      /\ silent' = silent \cup IF req[r].step = "second" THEN {Board} ELSE {}
      /\ req' = [req EXCEPT ![r] = Idle]
      /\ UNCHANGED <<member, behind, socket, client>>
  BY DEF HandlerFails, ChangedSilently, Finish, At
<1>2. TypeOK'
  BY <1>1 DEF RoomsInv, TypeOK, Request, Step, Room, Idle, socket, client
<1>3. /\ req'[r] = Idle
      /\ \A s \in Requests \ {r} : req'[s] = req[s]
  BY <1>1 DEF RoomsInv, TypeOK
<1>4. \A x \in Room : Quiet(x)' /\ x \notin silent' => Quiet(x)
  BY <1>1, <1>3 DEF Quiet, RoomsInv, TwoCallsAreOfTheBoard
<1>5. \A x : x \notin silent' => x \notin silent
  BY <1>1
<1> QED
  BY <1>1, <1>2, <1>3, <1>4, <1>5, BoardIsNoUser
     DEF RoomsInv, TypeOK, Room, TwoCallsAreOfTheBoard, GoneMeansGone,
         OpenViewsAreInTheRoom, OpenViewsAreCurrent, PrimedInTheirRoom,
         NotificationsAreCurrent, socket, client, Idle

\* An event reaches every client that shows the board, and every client that
\* has read its notifications in its room: each is told to read again.
LEMMA EventsKeepRoomsInv ==
    ASSUME RoomsInv, NEW r \in Requests,
           EmitModifiedInBoard(r) \/ SendNewNotificationToUser(r)
    PROVE  RoomsInv'
<1> DEFINE x == req[r].about
<1>1. /\ req[r].step = "emit"
      /\ stale' = [u \in Users |-> IF Hears(u, x) THEN stale[u] \cup {x} ELSE stale[u]]
      /\ req' = [req EXCEPT ![r] = Idle]
      /\ UNCHANGED <<member, behind, socket, awaited, open, primed>>
      /\ silent' = silent \ {x}
  BY DEF EmitModifiedInBoard, SendNewNotificationToUser, Deliver, At, Finish,
     RoomsInv, TypeOK
<1>2. x \in Room /\ x \in Users \cup {Board}
  BY DEF RoomsInv, TypeOK, Request, Room
<1>3. TypeOK'
  BY <1>1, <1>2 DEF RoomsInv, TypeOK, Request, Step, Room, Idle, socket
<1>4. /\ req'[r] = Idle
      /\ \A s \in Requests \ {r} : req'[s] = req[s]
  BY <1>1 DEF RoomsInv, TypeOK
<1>5. \A y \in Room : Quiet(y)' => (y = x \/ Quiet(y))
  BY <1>4 DEF Quiet
<1>6. OpenViewsAreCurrent'
  <2> SUFFICES ASSUME Quiet(Board)', Board \notin silent', NEW u \in open', Board \notin stale'[u]
               PROVE  Board \notin behind'[u]
    BY DEF OpenViewsAreCurrent
  <2>1. u \in open /\ u \in Users /\ Board \in room[u]
    BY <1>1 DEF RoomsInv, TypeOK, OpenViewsAreInTheRoom
  <2>2. x # Board
    BY <1>1, <2>1 DEF Hears
  <2> QED
    BY <1>1, <1>5, <2>1, <2>2 DEF RoomsInv, OpenViewsAreCurrent, Room
<1>7. NotificationsAreCurrent'
  <2> SUFFICES ASSUME NEW u \in primed', Quiet(u)', u \notin silent', u \notin stale'[u]
               PROVE  u \notin behind'[u]
    BY DEF NotificationsAreCurrent
  <2>1. u \in primed /\ u \in Users /\ u \in room[u]
    BY <1>1 DEF RoomsInv, TypeOK, PrimedInTheirRoom
  <2>2. x # u
    BY <1>1, <2>1, BoardIsNoUser DEF Hears
  <2> QED
    BY <1>1, <1>5, <2>1, <2>2 DEF RoomsInv, NotificationsAreCurrent, Room
<1> QED
  BY <1>1, <1>3, <1>4, <1>6, <1>7
     DEF RoomsInv, TwoCallsAreOfTheBoard, GoneMeansGone, OpenViewsAreInTheRoom,
         PrimedInTheirRoom, socket, Idle

\* What changes without an event is exempt until the next event or read.
LEMMA SilentChangeKeepsRoomsInv ==
    ASSUME RoomsInv, NEW X \in SUBSET Room, Changed(X), ChangedSilently(X),
           member' \subseteq Users, UNCHANGED <<req, socket, client>>
    PROVE  RoomsInv'
<1>1. /\ behind' = [v \in Users |-> behind[v] \cup ({v, Board} \cap X)]
      /\ silent' = silent \cup X
  BY DEF Changed, ChangedSilently
<1>2. TypeOK'
  BY <1>1 DEF RoomsInv, TypeOK, Room, socket, client
<1>3. \A v \in Users : \A x : x \notin silent' =>
          x \notin silent /\ (x \in behind'[v] <=> x \in behind[v])
  BY <1>1
<1> QED
  BY <1>1, <1>2, <1>3
     DEF RoomsInv, TypeOK, TwoCallsAreOfTheBoard, GoneMeansGone, Quiet,
         OpenViewsAreInTheRoom, OpenViewsAreCurrent, PrimedInTheirRoom,
         NotificationsAreCurrent, socket, client

LEMMA ElsewhereKeepsRoomsInv ==
    ASSUME RoomsInv,
           \/ \E u \in Users : AcceptInvite(u)
           \/ \E x \in Room : ChangeElsewhere(x)
    PROVE  RoomsInv'
<1>1. member \subseteq Users
  BY DEF RoomsInv, TypeOK
<1>2. ASSUME NEW u \in Users, AcceptInvite(u) PROVE RoomsInv'
  <2>1. {Board, u} \in SUBSET Room
    BY DEF Room
  <2> QED
    BY <1>1, <1>2, <2>1, SilentChangeKeepsRoomsInv DEF AcceptInvite
<1>3. ASSUME NEW x \in Room, ChangeElsewhere(x) PROVE RoomsInv'
  BY <1>1, <1>3, SilentChangeKeepsRoomsInv DEF ChangeElsewhere
<1> QED
  BY <1>2, <1>3

-----------------------------------------------------------------------------
(* Sockets *)

\* What no request and no read does: the conjuncts about the clients are then
\* those of each client by himself.
LEMMA ConnectKeepsRoomsInv ==
    ASSUME RoomsInv, NEW u \in Users, Connect(u)
    PROVE  RoomsInv'
<1>1. /\ u \notin up
      /\ up' = up \cup {u}
      /\ stale' = [stale EXCEPT ![u] = {u}]
      /\ UNCHANGED <<member, behind, silent, req, known, room, call, awaited, open, primed>>
  BY DEF Connect, database
<1>2. u \notin open /\ u \notin primed
  BY <1>1 DEF RoomsInv, GoneMeansGone
<1>3. TypeOK'
  BY <1>1 DEF RoomsInv, TypeOK, Room
<1>4. OpenViewsAreCurrent' /\ NotificationsAreCurrent'
  BY <1>1, <1>2 DEF RoomsInv, TypeOK, OpenViewsAreCurrent,
     NotificationsAreCurrent, Quiet
<1> QED
  BY <1>1, <1>3, <1>4
     DEF RoomsInv, TwoCallsAreOfTheBoard, GoneMeansGone, OpenViewsAreInTheRoom,
         PrimedInTheirRoom

LEMMA HandleConnectionKeepsRoomsInv ==
    ASSUME RoomsInv, NEW u \in Users, NEW g \in Gateway, HandleConnection(u, g)
    PROVE  RoomsInv'
<1>1. /\ u \in up
      /\ known' = [known EXCEPT ![u] = @ \cup {g}]
      /\ room' = [room EXCEPT ![u] = @ \cup {u}]
      /\ UNCHANGED <<member, behind, silent, req, up, call, client>>
  BY DEF HandleConnection, database
<1>2. TypeOK'
  BY <1>1 DEF RoomsInv, TypeOK, Room, client
<1>3. OpenViewsAreInTheRoom' /\ PrimedInTheirRoom' /\ GoneMeansGone'
  BY <1>1 DEF RoomsInv, TypeOK, OpenViewsAreInTheRoom, PrimedInTheirRoom,
     GoneMeansGone, client
<1> QED
  BY <1>1, <1>2, <1>3
     DEF RoomsInv, TwoCallsAreOfTheBoard, OpenViewsAreCurrent,
         NotificationsAreCurrent, Quiet, client

\* Nothing is claimed of a client that is cut off, be it by itself or with
\* the whole process.
LEMMA DropKeepsRoomsInv ==
    ASSUME RoomsInv, NEW D \in SUBSET Users, Drop(D),
           \/ UNCHANGED <<database, req>>
           \/ D = Users /\ Restart
    PROVE  RoomsInv'
<1>1. \A u \in Users \ D : /\ known'[u] = known[u] /\ room'[u] = room[u]
                            /\ call'[u] = call[u] /\ stale'[u] = stale[u]
  BY DEF Drop
<1>2. up' = up \ D /\ open' = open \ D /\ primed' = primed \ D
  BY DEF Drop
<1>3. D = Users => open' = {} /\ primed' = {}
  BY <1>2 DEF RoomsInv, TypeOK
<1>4. TypeOK'
  <2>1. member' \subseteq Users /\ behind' \in [Users -> SUBSET Room]
    BY DEF RoomsInv, TypeOK, Restart, database
  <2>2. silent' \subseteq Room
    BY DEF RoomsInv, TypeOK, Restart, database
  <2>3. req' \in [Requests -> Request]
    <3>1. Idle \in Request
      BY DEF Idle, Request, Step, Room
    <3> QED
      BY <3>1 DEF RoomsInv, TypeOK, Restart
  <2>4. /\ call' \in [Users -> [Calls -> {"none", "findFirst", "join"}]]
        /\ awaited' \in [Users -> Calls \cup {NoCall}]
    <3>1. NoCalls \in [Calls -> {"none", "findFirst", "join"}]
      BY DEF NoCalls
    <3> QED
      BY <3>1 DEF Drop, RoomsInv, TypeOK
  <2>5. /\ known' \in [Users -> SUBSET Gateway]
        /\ room' \in [Users -> SUBSET Room]
        /\ stale' \in [Users -> SUBSET Room]
    BY DEF Drop, RoomsInv, TypeOK
  <2>6. up' \subseteq Users /\ open' \subseteq Users /\ primed' \subseteq Users
    BY <1>2 DEF RoomsInv, TypeOK
  <2> QED
    BY <2>1, <2>2, <2>3, <2>4, <2>5, <2>6 DEF TypeOK
<1>5. TwoCallsAreOfTheBoard'
  BY DEF RoomsInv, TwoCallsAreOfTheBoard, Restart, Idle
<1>6. GoneMeansGone'
  BY DEF RoomsInv, TypeOK, GoneMeansGone, Drop
<1>7. OpenViewsAreInTheRoom' /\ PrimedInTheirRoom'
  BY <1>1, <1>2 DEF RoomsInv, TypeOK, OpenViewsAreInTheRoom, PrimedInTheirRoom
<1>8. OpenViewsAreCurrent' /\ NotificationsAreCurrent'
  BY <1>1, <1>2, <1>3
     DEF RoomsInv, TypeOK, OpenViewsAreCurrent, NotificationsAreCurrent, Quiet,
         database
<1> QED
  BY <1>4, <1>5, <1>6, <1>7, <1>8 DEF RoomsInv

-----------------------------------------------------------------------------
(* joinBoard, leaveBoard and the reads *)

\* A call is only awaited, looked up, denied or left: no view is opened, and
\* what is left is closed.
LEMMA JoinBoardKeepsRoomsInv ==
    ASSUME RoomsInv, NEW u \in Users, NEW j \in Calls,
           JoinBoard(u, j) \/ FindMember(u, j)
    PROVE  RoomsInv'
<1>1. PICK next \in {"none", "findFirst", "join"} :
        call' = [call EXCEPT ![u][j] = next]
  BY DEF JoinBoard, FindMember
<1>2. /\ UNCHANGED <<member, behind, silent, req, up, known, room, open, stale, primed>>
      /\ \E w \in Calls \cup {NoCall} : awaited' = [awaited EXCEPT ![u] = w]
                                     \/ awaited' = awaited
  BY DEF JoinBoard, FindMember, Deny, RoomsInv, TypeOK, database
<1>3. u \in up
  BY DEF JoinBoard, FindMember, RoomsInv, GoneMeansGone, NoCalls
<1>4. TypeOK'
  BY <1>1, <1>2 DEF RoomsInv, TypeOK
<1>5. GoneMeansGone'
  BY <1>1, <1>2, <1>3 DEF RoomsInv, TypeOK, GoneMeansGone
<1> QED
  BY <1>2, <1>4, <1>5
     DEF RoomsInv, TwoCallsAreOfTheBoard, OpenViewsAreInTheRoom, PrimedInTheirRoom,
         OpenViewsAreCurrent, NotificationsAreCurrent, Quiet

\* The view is opened by the step that puts the socket in the room, and is to
\* be read from then on.
LEMMA JoinRoomKeepsRoomsInv ==
    ASSUME RoomsInv, NEW u \in Users, NEW j \in Calls, JoinRoom(u, j)
    PROVE  RoomsInv'
<1>1. /\ call[u][j] = "join"
      /\ call' = [call EXCEPT ![u][j] = "none"]
      /\ room' = [room EXCEPT ![u] = @ \cup {Board}]
      /\ UNCHANGED <<member, behind, silent, req, up, known, primed>>
  BY DEF JoinRoom, database
<1>2. \/ UNCHANGED <<open, stale, awaited>>
      \/ /\ open' = open \cup {u}
         /\ stale' = [stale EXCEPT ![u] = @ \cup {Board}]
         /\ awaited' = [awaited EXCEPT ![u] = NoCall]
  BY DEF JoinRoom, Acknowledge
<1>3. u \in up
  BY <1>1 DEF RoomsInv, GoneMeansGone, NoCalls
<1>4. TypeOK'
  <2>1. /\ call' \in [Users -> [Calls -> {"none", "findFirst", "join"}]]
        /\ room' \in [Users -> SUBSET Room]
    BY <1>1 DEF RoomsInv, TypeOK, Room
  <2>2. open' \subseteq Users /\ awaited' \in [Users -> Calls \cup {NoCall}]
    BY <1>2 DEF RoomsInv, TypeOK
  <2>3. stale' \in [Users -> SUBSET Room]
    BY <1>2 DEF RoomsInv, TypeOK, Room
  <2> QED
    BY <1>1, <2>1, <2>2, <2>3 DEF RoomsInv, TypeOK
<1>5. GoneMeansGone'
  BY <1>1, <1>2, <1>3 DEF RoomsInv, TypeOK, GoneMeansGone
<1>6. OpenViewsAreInTheRoom' /\ PrimedInTheirRoom'
  BY <1>1, <1>2 DEF RoomsInv, TypeOK, OpenViewsAreInTheRoom, PrimedInTheirRoom
<1>7. OpenViewsAreCurrent' /\ NotificationsAreCurrent'
  <2>1. /\ \A v \in Users : v \in stale'[v] <=> v \in stale[v]
        /\ \A v \in Users : Board \in stale[v] => Board \in stale'[v]
        /\ \A v \in open' : v \in open \/ Board \in stale'[v]
    <3>1. CASE UNCHANGED <<open, stale, awaited>>
      BY <3>1
    <3>2. CASE open' = open \cup {u} /\ stale' = [stale EXCEPT ![u] = @ \cup {Board}]
      BY <3>2, BoardIsNoUser DEF RoomsInv, TypeOK
    <3> QED
      BY <1>2, <3>1, <3>2
  <2>2. open' \subseteq Users /\ primed \subseteq Users
    BY <1>4 DEF RoomsInv, TypeOK
  <2>3. OpenViewsAreCurrent'
    BY <1>1, <2>1, <2>2 DEF RoomsInv, OpenViewsAreCurrent, Quiet
  <2>4. NotificationsAreCurrent'
    BY <1>1, <2>1, <2>2 DEF RoomsInv, NotificationsAreCurrent, Quiet
  <2> QED
    BY <2>3, <2>4
<1> QED
  BY <1>1, <1>4, <1>5, <1>6, <1>7 DEF RoomsInv, TwoCallsAreOfTheBoard

LEMMA LeaveKeepsRoomsInv ==
    ASSUME RoomsInv, NEW u \in Users, Leave(u),
           UNCHANGED <<member, behind, silent, req, up, known, call, primed>>
    PROVE  RoomsInv'
<1>1. /\ room' = [room EXCEPT ![u] = @ \ {Board}]
      /\ open' = open \ {u}
      /\ awaited' = [awaited EXCEPT ![u] = NoCall]
      /\ stale' = [stale EXCEPT ![u] = @ \ {Board}]
  BY DEF Leave
<1>2. TypeOK'
  BY <1>1 DEF RoomsInv, TypeOK
<1>3. GoneMeansGone'
  BY <1>1 DEF RoomsInv, TypeOK, GoneMeansGone
<1>4. OpenViewsAreInTheRoom' /\ PrimedInTheirRoom'
  BY <1>1, BoardIsNoUser
     DEF RoomsInv, TypeOK, OpenViewsAreInTheRoom, PrimedInTheirRoom
<1>5. OpenViewsAreCurrent' /\ NotificationsAreCurrent'
  BY <1>1, BoardIsNoUser
     DEF RoomsInv, TypeOK, OpenViewsAreCurrent, NotificationsAreCurrent, Quiet
<1> QED
  BY <1>2, <1>3, <1>4, <1>5 DEF RoomsInv, TwoCallsAreOfTheBoard

\* A read brings its own copy up to date and no other.
LEMMA ReadsKeepRoomsInv ==
    ASSUME RoomsInv, NEW u \in Users, ReadBoard(u) \/ ReadNotifications(u)
    PROVE  RoomsInv'
<1>1. CASE ReadBoard(u) /\ u \notin member
  BY <1>1, LeaveKeepsRoomsInv DEF ReadBoard
<1>2. ASSUME NEW x \in Room,
             x \in stale[u],
             behind' = [behind EXCEPT ![u] = @ \ {x}],
             stale' = [stale EXCEPT ![u] = @ \ {x}],
             \/ x = Board /\ silent' = silent /\ primed' = primed
             \/ /\ x = u /\ silent' = silent \ {u}
                /\ \/ primed' = primed
                   \/ u \in room[u] /\ primed' = primed \cup {u},
             UNCHANGED <<member, req, socket, awaited, open>>
      PROVE  RoomsInv'
  <2>1. TypeOK'
    BY <1>2 DEF RoomsInv, TypeOK, socket
  <2>2. GoneMeansGone'
    BY <1>2 DEF RoomsInv, TypeOK, GoneMeansGone, socket
  <2>3. OpenViewsAreInTheRoom' /\ PrimedInTheirRoom'
    BY <1>2 DEF RoomsInv, OpenViewsAreInTheRoom, PrimedInTheirRoom, socket
  <2>4. OpenViewsAreCurrent'
    <3>1. Board \notin silent' => Board \notin silent
      BY <1>2, BoardIsNoUser
    <3>2. ASSUME NEW v \in Users, Board \notin stale'[v], Board \in behind'[v]
          PROVE  Board \notin stale[v] /\ Board \in behind[v]
      <4>1. CASE v = u /\ x = Board
        BY <1>2, <3>2, <4>1 DEF RoomsInv, TypeOK
      <4>2. CASE v = u /\ x # Board
        BY <1>2, <3>2, <4>2 DEF RoomsInv, TypeOK
      <4>3. CASE v # u
        BY <1>2, <3>2, <4>3 DEF RoomsInv, TypeOK
      <4> QED
        BY <4>1, <4>2, <4>3
    <3> QED
      BY <1>2, <3>1, <3>2 DEF RoomsInv, TypeOK, OpenViewsAreCurrent, Quiet
  <2>5. NotificationsAreCurrent'
    <3> SUFFICES ASSUME NEW v \in primed', Quiet(v)', v \notin silent', v \notin stale'[v]
                 PROVE  v \notin behind'[v]
      BY DEF NotificationsAreCurrent
    <3>1. v \in Users /\ (v \in primed \/ (x = u /\ v = u))
      BY <1>2 DEF RoomsInv, TypeOK
    <3>2. CASE x = u /\ v = u
      BY <1>2, <3>2 DEF RoomsInv, TypeOK
    <3>3. CASE v \in primed /\ ~(x = u /\ v = u)
      <4>1. v # x /\ v \notin silent
        BY <1>2, <3>1, <3>3, BoardIsNoUser
      <4>2. v \notin stale[v] /\ (v \in behind'[v] => v \in behind[v])
        BY <1>2, <3>1, <4>1 DEF RoomsInv, TypeOK
      <4> QED
        BY <1>2, <3>3, <4>1, <4>2 DEF RoomsInv, NotificationsAreCurrent, Quiet
    <3> QED
      BY <3>1, <3>2, <3>3
  <2> QED
    BY <1>2, <2>1, <2>2, <2>3, <2>4, <2>5 DEF RoomsInv, TwoCallsAreOfTheBoard
<1>3. CASE ReadBoard(u) /\ u \in member
  BY <1>2, <1>3 DEF ReadBoard, Room, socket
<1>4. CASE ReadNotifications(u)
  BY <1>2, <1>4 DEF ReadNotifications, Room
<1> QED
  BY <1>1, <1>3, <1>4

-----------------------------------------------------------------------------
(* The theorems *)

LEMMA NextKeepsRoomsInv == RoomsInv /\ [Next]_vars => RoomsInv'
<1> SUFFICES ASSUME RoomsInv, [Next]_vars PROVE RoomsInv'
  OBVIOUS
<1>1. CASE \E r \in Requests :
             \/ RequestModify(r) \/ RequestTwoCalls(r)
             \/ RequestRemoveMember(r) \/ RequestInvite(r)
  BY <1>1, RequestsKeepRoomsInv
<1>2. CASE \E r \in Requests : Serve(r)
  BY <1>2, WriteKeepsRoomsInv, FindBoardKeepsRoomsInv, EventsKeepRoomsInv DEF Serve
<1>3. CASE \E r \in Requests : HandlerFails(r)
  BY <1>3, FailingHandlerKeepsRoomsInv
<1>4. CASE (\E u \in Users : AcceptInvite(u)) \/ (\E x \in Room : ChangeElsewhere(x))
  BY <1>4, ElsewhereKeepsRoomsInv
<1>5. CASE \E u \in Users : Connect(u)
  BY <1>5, ConnectKeepsRoomsInv
<1>6. CASE \E u \in Users : Disconnect(u)
  <2>1. PICK u \in Users : Drop({u}) /\ UNCHANGED <<database, req>>
    BY <1>6 DEF Disconnect
  <2> QED
    BY <2>1, DropKeepsRoomsInv
<1>7. CASE \E u \in Users : LeaveBoard(u)
  BY <1>7, LeaveKeepsRoomsInv DEF LeaveBoard, database
<1>8. CASE \E u \in Users : ReadBoard(u) \/ ReadNotifications(u)
  BY <1>8, ReadsKeepRoomsInv
<1>9. CASE \E u \in Users, g \in Gateway : HandleConnection(u, g)
  BY <1>9, HandleConnectionKeepsRoomsInv
<1>10. CASE \E u \in Users, j \in Calls : JoinBoard(u, j) \/ Answer(u, j)
  BY <1>10, JoinBoardKeepsRoomsInv, JoinRoomKeepsRoomsInv DEF Answer
<1>11. CASE Restart
  BY <1>11, DropKeepsRoomsInv DEF Restart
<1>12. CASE UNCHANGED vars
  BY <1>12 DEF vars, RoomsInv, TypeOK, TwoCallsAreOfTheBoard, GoneMeansGone,
     OpenViewsAreInTheRoom, OpenViewsAreCurrent, PrimedInTheirRoom,
     NotificationsAreCurrent, Quiet
<1> QED
  BY <1>1, <1>2, <1>3, <1>4, <1>5, <1>6, <1>7, <1>8, <1>9, <1>10, <1>11, <1>12
     DEF Next

\* What the gateways and the clients keep between them: in particular, a client
\* whose socket is gone has no call, room or view left.
THEOREM RoomsInvariant == Spec => []RoomsInv
<1> QED
  BY InitEstablishesRoomsInv, NextKeepsRoomsInv, PTL DEF Spec

\* Every reachable state is well typed: no event is for a room that is neither
\* the board's nor a user's, and no socket is in one.
THEOREM TypeCorrect == Spec => []TypeOK
<1>1. RoomsInv => TypeOK
  BY DEF RoomsInv
<1> QED
  BY <1>1, RoomsInvariant, PTL

\* joinBoard answers after the socket is in the room and leaveBoard awaits
\* nothing: a board that is shown is in its room, however many calls overlap.
THEOREM ShownBoardsAreInTheirRoom == Spec => []OpenViewsAreInTheRoom
<1>1. RoomsInv => OpenViewsAreInTheRoom
  BY DEF RoomsInv
<1> QED
  BY <1>1, RoomsInvariant, PTL

\* Events follow the writes they are about: a view that has read what it was
\* told to is the latest, but for the writes on their way to their event and
\* those without one.
THEOREM ShownBoardsAreCurrent == Spec => []OpenViewsAreCurrent
<1>1. RoomsInv => OpenViewsAreCurrent
  BY DEF RoomsInv
<1> QED
  BY <1>1, RoomsInvariant, PTL

\* The same of notifications, for the clients that have read theirs after
\* handleConnection had put them in their room: they show every invite sent
\* (BoardService.sendInvite), but for answers, deletions and renames since.
THEOREM ReadNotificationsAreCurrent == Spec => []NotificationsAreCurrent
<1>1. RoomsInv => NotificationsAreCurrent
  BY DEF RoomsInv
<1> QED
  BY <1>1, RoomsInvariant, PTL

=============================================================================
