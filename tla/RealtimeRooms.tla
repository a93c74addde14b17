---------------------------- MODULE RealtimeRooms ----------------------------
(***************************************************************************)
(* What clients of one board see through the gateways: the handshake of    *)
(* BaseGateway, the rooms of BoardGateway and NotificationsGateway, and    *)
(* the events that services emit after their writes.                       *)
(*                                                                         *)
(* The clients are not in the repository.  They are taken to use the       *)
(* gateways as these are meant to be used: read the board when joinBoard   *)
(* is acknowledged and again after each boardModified, leave it when they  *)
(* may not read it any more, and read the notifications after they connect *)
(* and after each newNotification.  A read is one atomic step.             *)
(*                                                                         *)
(* A notification is an invite of the user, with the names of its board    *)
(* and its sender.  Only a new invite has an event: those that are         *)
(* answered, deleted or renamed change the list in silence, as some writes *)
(* change the board.  One process serves all sockets and requests.         *)
(***************************************************************************)
EXTENDS Naturals

CONSTANTS
    Users,     \* users, each with one client
    Board,     \* the room board:<id>; a user's own room is named by the user
    Requests,  \* request slots of the server
    Calls,     \* joinBoard calls of one client that may be under way
    NoCall     \* the absence of a call

ASSUME BoardIsNoUser == Board \notin Users
ASSUME NoCallIsNoCall == NoCall \notin Calls

VARIABLES
    member,   \* the users with a BoardMember row
    behind,   \* behind[u]: what was written since u's client has read it
    silent,   \* the rooms that a write without an event has changed since
              \* their last event, and since the user's last read of his own
    req,      \* req[r]: the local state of the handler in slot r
    up,       \* the clients whose socket is connected
    known,    \* known[u]: the gateways that have u in their socketData
    room,     \* room[u]: the rooms u's socket is in
    call,     \* call[u][j]: where the joinBoard call j of u is
    awaited,  \* awaited[u]: the call whose acknowledgement u's client wants
    open,     \* the clients that show the board
    stale,    \* stale[u]: what u's client has been told to read
    primed    \* the clients that have read their notifications in their room

database == <<member, behind, silent>>
socket == <<up, known, room, call>>
client == <<awaited, open, stale, primed>>
vars == <<member, behind, silent, req, up, known, room, call,
          awaited, open, stale, primed>>

Gateway == {"board", "notifications"}
Room == Users \cup {Board}

\* first and second are the calls of handlers with two of them before the event.
Step == {"idle", "write", "first", "second", "emit"}

\* about: the room of the event; target: the member it removes, Board for none.
Request == [step : Step, about : Room, target : Room]

Idle == [step |-> "idle", about |-> Board, target |-> Board]

TypeOK ==
    /\ member \subseteq Users
    /\ behind \in [Users -> SUBSET Room]
    /\ silent \subseteq Room
    /\ req \in [Requests -> Request]
    /\ up \subseteq Users
    /\ known \in [Users -> SUBSET Gateway]
    /\ room \in [Users -> SUBSET Room]
    /\ call \in [Users -> [Calls -> {"none", "findFirst", "join"}]]
    /\ awaited \in [Users -> Calls \cup {NoCall}]
    /\ open \subseteq Users
    /\ stale \in [Users -> SUBSET Room]
    /\ primed \subseteq Users

NoCalls == [j \in Calls |-> "none"]

Init ==
    /\ member = Users
    /\ behind = [u \in Users |-> {u, Board}]
    /\ silent = {}
    /\ req = [r \in Requests |-> Idle]
    /\ up = {}
    /\ known = [u \in Users |-> {}]
    /\ room = [u \in Users |-> {}]
    /\ call = [u \in Users |-> NoCalls]
    /\ awaited = [u \in Users |-> NoCall]
    /\ open = {}
    /\ stale = [u \in Users |-> {}]
    /\ primed = {}

-----------------------------------------------------------------------------
(* Writes and their events                                                 *)

At(r, step) == req[r].step = step
Continue(r, step) == req' = [req EXCEPT ![r].step = step, ![r].target = Board]
Finish(r) == req' = [req EXCEPT ![r] = Idle]

Begin(r, step, about, target) ==
    /\ req[r] = Idle
    /\ req' = [req EXCEPT ![r] = [step |-> step, about |-> about, target |-> target]]
    /\ UNCHANGED <<database, socket, client>>

\* The lists and tasks of the board, its title, the roles of its members.
RequestModify(r) == Begin(r, "write", Board, Board)

\* The positions of lists or tasks (a shift, then the update), or a batch of an
\* import (its insert, then the read of the board to tell).
RequestTwoCalls(r) == Begin(r, "first", Board, Board)

RequestRemoveMember(r) == \E u \in member : Begin(r, "write", Board, u)

RequestInvite(r) == \E u \in Users : Begin(r, "write", u, Board)

\* What the clients have of the rooms X is out of date: all of them show the
\* board, and each one his own notifications.
Changed(X) ==
    behind' = [u \in Users |-> behind[u] \cup ({u, Board} \cap X)]

\* X changes without an event.
ChangedSilently(X) == silent' = silent \cup X

\* Mutant: the event is forgotten.
NoEvent(r) == Finish(r)

\* The event is emitted when the last write has answered.
AfterWrite(r) == Continue(r, IF At(r, "first") THEN "second" ELSE "emit")

\* Whom the write of r may touch besides: the title of the board is part of the
\* notifications of those it has invited.
Invitees(r) ==
    IF At(r, "write") /\ req[r].about = Board /\ req[r].target = Board
    THEN SUBSET Users ELSE {{}}

\* A write of the handler: its only one, or the first or second of two.
Write(r) ==
    /\ req[r].step \in {"write", "first", "second"}
    /\ \E U \in Invitees(r) : Changed({req[r].about} \cup U) /\ ChangedSilently(U)
    /\ member' = member \ {req[r].target}
    /\ AfterWrite(r)
    /\ UNCHANGED <<socket, client>>

\* findListBoardId, the second call of an import, only reads.
FindBoard(r) ==
    /\ At(r, "second")
    /\ Continue(r, "emit")
    /\ UNCHANGED <<database, socket, client>>

\* A call of the database is refused or fails, as updateList does when the list
\* is gone: what was written before it has no event.
HandlerFails(r) ==
    /\ req[r].step \in {"write", "first", "second"}
    /\ ChangedSilently(IF At(r, "second") THEN {Board} ELSE {})
    /\ Finish(r)
    /\ UNCHANGED <<member, behind, socket, client>>

\* acceptInvite adds a member, deletes the invite and emits nothing.
AcceptInvite(u) ==
    /\ u \notin member
    /\ member' = member \cup {u}
    /\ Changed({Board, u})
    /\ ChangedSilently({Board, u})
    /\ UNCHANGED <<req, socket, client>>

\* Room x changes by a write that tells others or nobody.  The notifications of
\* x: an invite is declined, or deleted with its board or its sender.  The
\* board: moveTaskToList brings a task from another board, and tells that one.
ChangeElsewhere(x) ==
    /\ Changed({x})
    /\ ChangedSilently({x})
    /\ UNCHANGED <<member, req, socket, client>>

\* A client without the board open ignores boardModified.
Hears(u, x) == x \in room[u] /\ (x = Board => u \in open)

\* The event reaches the sockets in room y; an empty room is no error.
Deliver(r, y) ==
    /\ At(r, "emit")
    /\ stale' = [u \in Users |-> IF Hears(u, y) THEN stale[u] \cup {req[r].about}
                                               ELSE stale[u]]
    /\ Finish(r)
    /\ UNCHANGED <<member, behind, socket, awaited, open, primed>>

\* Mutant: a room of one is taken for an empty one.
EmitToMany(r) ==
    /\ At(r, "emit") /\ req[r].about = Board
    /\ stale' = [u \in Users |->
          IF Hears(u, Board) /\ (\E v \in Users \ {u} : Board \in room[v])
          THEN stale[u] \cup {Board} ELSE stale[u]]
    /\ silent' = silent \ {Board}
    /\ Finish(r)
    /\ UNCHANGED <<member, behind, socket, awaited, open, primed>>

\* board.modified, through BoardListener.
EmitModifiedInBoard(r) ==
    /\ req[r].about = Board
    /\ Deliver(r, Board)
    /\ silent' = silent \ {Board}

\* Mutant: notifications go where boards do.
NotifyBoard(r) ==
    /\ req[r].about # Board
    /\ Deliver(r, Board)
    /\ UNCHANGED silent

\* notification.new, through NotificationListener.
SendNewNotificationToUser(r) ==
    /\ req[r].about # Board
    /\ Deliver(r, req[r].about)
    /\ silent' = silent \ {req[r].about}

-----------------------------------------------------------------------------
(* Sockets *)

\* The client reads its notifications when it is connected.
Connect(u) ==
    /\ u \notin up
    /\ up' = up \cup {u}
    /\ stale' = [stale EXCEPT ![u] = {u}]
    /\ UNCHANGED <<database, req, known, room, call, awaited, open, primed>>

\* Mutant: the room is named by the gateway.
HandleConnectionByGateway(u, g) ==
    /\ u \in up /\ g \notin known[u]
    /\ known' = [known EXCEPT ![u] = @ \cup {g}]
    /\ room' = [room EXCEPT ![u] = @ \cup {g}]
    /\ UNCHANGED <<database, req, up, call, client>>

\* validateUserFromToken has found the user: each gateway keeps him, and the
\* socket joins his room.
HandleConnection(u, g) ==
    /\ u \in up /\ g \notin known[u]
    /\ known' = [known EXCEPT ![u] = @ \cup {g}]
    /\ room' = [room EXCEPT ![u] = @ \cup {u}]
    /\ UNCHANGED <<database, req, up, call, client>>

\* The clients of D are cut off.  socket.io takes their sockets out of all rooms
\* and lets no late join put one back: their calls are over.
Drop(D) ==
    /\ up' = up \ D
    /\ known' = [u \in Users |-> IF u \in D THEN {} ELSE known[u]]
    /\ room' = [u \in Users |-> IF u \in D THEN {} ELSE room[u]]
    /\ call' = [u \in Users |-> IF u \in D THEN NoCalls ELSE call[u]]
    /\ awaited' = [u \in Users |-> IF u \in D THEN NoCall ELSE awaited[u]]
    /\ open' = open \ D
    /\ stale' = [u \in Users |-> IF u \in D THEN {} ELSE stale[u]]
    /\ primed' = primed \ D

\* The client goes, or handleConnection finds no user for its token.
Disconnect(u) == u \in up /\ Drop({u}) /\ UNCHANGED <<database, req>>

\* The process dies with its sockets and handlers.
Restart ==
    /\ Drop(Users)
    /\ req' = [r \in Requests |-> Idle]
    /\ silent' = {}
    /\ UNCHANGED <<member, behind>>

-----------------------------------------------------------------------------
(* joinBoard, leaveBoard *)

\* Asked before handleConnection is through, joinBoard answers 'not
\* authenticated', and the client asks again.
JoinBoard(u, j) ==
    /\ "board" \in known[u] /\ u \notin open
    /\ awaited[u] = NoCall /\ call[u][j] = "none"
    /\ call' = [call EXCEPT ![u][j] = "findFirst"]
    /\ awaited' = [awaited EXCEPT ![u] = j]
    /\ UNCHANGED <<database, req, up, known, room, open, stale, primed>>

\* What the client makes of an acknowledgement: it shows and reads the board,
\* unless it has left meanwhile.
Acknowledge(u, j) ==
    IF awaited[u] = j
    THEN /\ open' = open \cup {u}
         /\ stale' = [stale EXCEPT ![u] = @ \cup {Board}]
         /\ awaited' = [awaited EXCEPT ![u] = NoCall]
    ELSE UNCHANGED <<open, stale, awaited>>

Deny(u, j) ==
    /\ awaited' = [awaited EXCEPT ![u] = IF @ = j THEN NoCall ELSE @]
    /\ UNCHANGED <<open, stale>>

\* Mutant: the call is acknowledged before the socket is in the room.
FindMemberAndAcknowledge(u, j) ==
    /\ call[u][j] = "findFirst"
    /\ IF u \in member
       THEN call' = [call EXCEPT ![u][j] = "join"] /\ Acknowledge(u, j)
       ELSE call' = [call EXCEPT ![u][j] = "none"] /\ Deny(u, j)
    /\ UNCHANGED <<database, req, up, known, room, primed>>

FindMember(u, j) ==
    /\ call[u][j] = "findFirst"
    /\ IF u \in member
       THEN call' = [call EXCEPT ![u][j] = "join"] /\ UNCHANGED <<open, stale, awaited>>
       ELSE call' = [call EXCEPT ![u][j] = "none"] /\ Deny(u, j)
    /\ UNCHANGED <<database, req, up, known, room, primed>>

JoinRoom(u, j) ==
    /\ call[u][j] = "join"
    /\ call' = [call EXCEPT ![u][j] = "none"]
    /\ room' = [room EXCEPT ![u] = @ \cup {Board}]
    /\ Acknowledge(u, j)
    /\ UNCHANGED <<database, req, up, known, primed>>

\* leaveBoard awaits nothing before the socket is out of the room.  A call that
\* is under way still puts it back.
Leave(u) ==
    /\ room' = [room EXCEPT ![u] = @ \ {Board}]
    /\ open' = open \ {u}
    /\ awaited' = [awaited EXCEPT ![u] = NoCall]
    /\ stale' = [stale EXCEPT ![u] = @ \ {Board}]

LeaveBoard(u) ==
    /\ u \in open \/ awaited[u] # NoCall
    /\ Leave(u)
    /\ UNCHANGED <<database, req, up, known, call, primed>>

-----------------------------------------------------------------------------
(* Reads *)

\* GET /board/:id, for members.
ReadBoard(u) ==
    /\ Board \in stale[u]
    /\ IF u \in member
       THEN /\ behind' = [behind EXCEPT ![u] = @ \ {Board}]
            /\ stale' = [stale EXCEPT ![u] = @ \ {Board}]
            /\ UNCHANGED <<room, open, awaited>>
       ELSE Leave(u) /\ UNCHANGED behind
    /\ UNCHANGED <<member, silent, req, up, known, call, primed>>

\* GET /me/notifications
ReadNotifications(u) ==
    /\ u \in stale[u]
    /\ behind' = [behind EXCEPT ![u] = @ \ {u}]
    /\ stale' = [stale EXCEPT ![u] = @ \ {u}]
    /\ silent' = silent \ {u}
    /\ primed' = IF u \in room[u] THEN primed \cup {u} ELSE primed
    /\ UNCHANGED <<member, req, socket, awaited, open>>

-----------------------------------------------------------------------------

Serve(r) ==
    Write(r) \/ FindBoard(r) \/ EmitModifiedInBoard(r) \/ SendNewNotificationToUser(r)

Answer(u, j) == FindMember(u, j) \/ JoinRoom(u, j)

Next ==
    \/ \E r \in Requests :
          \/ RequestModify(r) \/ RequestTwoCalls(r)
          \/ RequestRemoveMember(r) \/ RequestInvite(r)
          \/ Serve(r) \/ HandlerFails(r)
    \/ \E u \in Users :
          \/ AcceptInvite(u) \/ Connect(u) \/ Disconnect(u) \/ LeaveBoard(u)
          \/ ReadBoard(u) \/ ReadNotifications(u)
          \/ \E g \in Gateway : HandleConnection(u, g)
          \/ \E j \in Calls : JoinBoard(u, j) \/ Answer(u, j)
    \/ \E x \in Room : ChangeElsewhere(x)
    \/ Restart

\* A handler goes on or fails, and a client reads what it is told to.
Fairness ==
    /\ \A r \in Requests : WF_vars(Serve(r) \/ HandlerFails(r))
    /\ \A u \in Users : WF_vars(ReadBoard(u))

Spec == Init /\ [][Next]_vars /\ Fairness

-----------------------------------------------------------------------------
(* Properties *)

\* Nothing about room x is between its write and its event.
Quiet(x) ==
    \A r \in Requests :
        req[r].about = x => req[r].step \in {"idle", "write", "first"}

\* A client that shows the board is in its room, however join, leave and
\* disconnect overtake each other: it misses no event.
OpenViewsAreInTheRoom == \A u \in open : Board \in room[u]

\* A client that shows the board and has read it as often as it was told to
\* shows its latest state, unless a write is on its way to its event or had
\* none: the next event makes up for that.
OpenViewsAreCurrent ==
    Quiet(Board) /\ Board \notin silent =>
        \A u \in open : Board \notin stale[u] => Board \notin behind[u]

\* A client that has read its notifications since it joined its room, and as
\* often as it was told to, shows every invite sent since, and it shows the
\* latest list unless that has changed in silence since.  What it reads before it
\* is in its room may be out of date without any event to tell it.
NotificationsAreCurrent ==
    \A u \in primed :
        Quiet(u) /\ u \notin silent /\ u \notin stale[u] => u \notin behind[u]

\* Every write reaches a client that shows the board, if it is not a silent one.
EveryViewCatchesUp ==
    \A u \in Users :
        (u \in open /\ Board \in behind[u])
            ~> (u \notin open \/ Board \notin behind[u] \/ Board \in silent)

\* The client of a member who was removed does not go on showing the board.
RemovedMembersLeave ==
    \A u \in Users : (u \in open /\ u \notin member) ~> (u \notin open \/ u \in member)

-----------------------------------------------------------------------------
(* The inductive invariant *)

\* The event of a handler with two calls is for the board.
TwoCallsAreOfTheBoard ==
    \A r \in Requests : req[r].step \in {"first", "second"} => req[r].about = Board

\* Nothing is left of a client whose socket is gone.
GoneMeansGone ==
    \A u \in Users \ up :
        /\ u \notin open /\ u \notin primed
        /\ known[u] = {} /\ room[u] = {} /\ call[u] = NoCalls

PrimedInTheirRoom == \A u \in primed : u \in room[u]

RoomsInv ==
    /\ TypeOK
    /\ TwoCallsAreOfTheBoard
    /\ GoneMeansGone
    /\ OpenViewsAreInTheRoom
    /\ OpenViewsAreCurrent
    /\ PrimedInTheirRoom
    /\ NotificationsAreCurrent

=============================================================================
