--------------------------- MODULE BoardMembership ---------------------------
(***************************************************************************)
(* The membership of one board: the handlers of BoardService that change   *)
(* who belongs to it, with which role, who owns it and who is invited.     *)
(*                                                                         *)
(* The server answers several HTTP requests at once.  A handler is a       *)
(* sequence of awaited repository calls; each call is one statement or one *)
(* transaction of PostgreSQL and one atomic step here, and other requests  *)
(* run between two of them.  What a handler has read stays in its own      *)
(* record req[r] and may be out of date when it is used.                   *)
(*                                                                         *)
(* A request that is refused by its first database read changes nothing    *)
(* and is not represented: a request enters the model by a first step that *)
(* succeeds.  PATCH /board/:boardId changes only the title and the         *)
(* description, which are not modelled.                                    *)
(*                                                                         *)
(* An invite is answered under the URL of a board, and the handler loads   *)
(* the invite by its id alone: the two boards need not be the same.  The   *)
(* ids in ForeignIds are invites of other boards, whose membership is not  *)
(* modelled; what happens there to an invite is an action of the           *)
(* environment.                                                            *)
(***************************************************************************)
EXTENDS Naturals, FiniteSets

CONSTANTS
    Users,      \* the accounts
    Requests,   \* request slots of the server; a slot is used again when free
    InviteIds,  \* ids of the invites that are ever sent: bounds a behaviour
    ForeignIds, \* those of them that are invites of other boards
    Nobody,     \* the absence of a user
    NoInvite,   \* the absence of an invite id
    MayFail     \* TRUE when a request may die between two of its statements

ASSUME NobodyIsNoUser == Nobody \notin Users
ASSUME NoInviteIsNoId == NoInvite \notin InviteIds
ASSUME ForeignIdsAreIds == ForeignIds \subseteq InviteIds
ASSUME MayFailIsBoolean == MayFail \in BOOLEAN

VARIABLES
    board,      \* the board row: not created yet, live, or deleted
    owner,      \* board.ownerId
    member,     \* member[u]: the role in u's BoardMember row, or "NONE"
    joinedAt,   \* joinedAt[u]: when that row was created, 0 without a row
    clock,      \* the time of the next join
    invite,     \* invite[i]: the Invite row, and what became of it
    req         \* req[r]: the local state of the handler in slot r

db == <<board, owner, member, joinedAt, clock, invite>>
vars == <<board, owner, member, joinedAt, clock, invite, req>>

-----------------------------------------------------------------------------
(* Types *)

Role == {"ADMIN", "MEMBER", "OBSERVER"}
RoleOrNone == Role \cup {"NONE"}
UserOrNobody == Users \cup {Nobody}

\* An Invite row exists exactly while its status is "pending".  The other
\* statuses record, for the properties, whether it was deleted by an
\* acceptance under this board's URL, or else: by a refusal, by something
\* that happened at another board, or by this board's cascade.
InviteStatus == {"unsent", "pending", "accepted", "closed"}
Invite == [status : InviteStatus, recipient : UserOrNobody, role : RoleOrNone]

Unsent == [status |-> "unsent", recipient |-> Nobody, role |-> "NONE"]
Closed == [status |-> "closed", recipient |-> Nobody, role |-> "NONE"]
AcceptedBy(u) == [status |-> "accepted", recipient |-> u, role |-> "NONE"]

Op == {"none", "create", "remove", "removeMember", "changeRole", "invite",
       "accept", "decline"}

\* The repository call a handler is about to make.
Call == {"idle", "createBoardMember", "findBoardById", "deleteBoard",
         "findNextAdmin", "findNextMember", "transfer", "promoteAndTransfer",
         "findBoardMember", "findRequester", "deleteBoardMember",
         "countAdmins", "updateBoardMemberRole", "findPendingInvite",
         "findInvitee", "createInvite", "deleteInvite", "acceptInvite"}

\* by: the authenticated user; user, role, invite: the request's arguments
\* (of an answered invite: the row that was read); next: the chosen successor.
Request == [op : Op, call : Call, by : UserOrNobody, user : UserOrNobody,
            role : RoleOrNone, invite : InviteIds \cup {NoInvite},
            next : UserOrNobody]

NewRequest(op, call, by, user, role, inviteId) ==
    [op |-> op, call |-> call, by |-> by, user |-> user, role |-> role,
     invite |-> inviteId, next |-> Nobody]

Idle == NewRequest("none", "idle", Nobody, Nobody, "NONE", NoInvite)

TypeOK ==
    /\ board \in {"none", "live", "deleted"}
    /\ owner \in UserOrNobody
    /\ member \in [Users -> RoleOrNone]
    /\ joinedAt \in [Users -> Nat]
    /\ clock \in Nat
    /\ invite \in [InviteIds -> Invite]
    /\ req \in [Requests -> Request]

Init ==
    /\ board = "none"
    /\ owner = Nobody
    /\ member = [u \in Users |-> "NONE"]
    /\ joinedAt = [u \in Users |-> 0]
    /\ clock = 1
    /\ invite = [i \in InviteIds |-> Unsent]
    /\ req = [r \in Requests |-> Idle]

-----------------------------------------------------------------------------
(* The database *)

IsMember(u) == member[u] # "NONE"
Admins == {u \in Users : member[u] = "ADMIN"}
PendingInvites == {i \in InviteIds : invite[i].status = "pending"}

\* The pending invites of this board.
PendingHere == PendingInvites \ ForeignIds

\* Mutant of OldestWithRole: ordered by joinedAt, latest first.
LatestWithRole(role, excluded) ==
    {u \in Users \ {excluded} :
        /\ member[u] = role
        /\ \A v \in Users \ {excluded} :
              member[v] = role => joinedAt[u] >= joinedAt[v]}

\* findNextAdmin, findNextMember: the first row of that role by joinedAt.
OldestWithRole(role, excluded) ==
    {u \in Users \ {excluded} :
        /\ member[u] = role
        /\ \A v \in Users \ {excluded} :
              member[v] = role => joinedAt[u] <= joinedAt[v]}

\* The BoardMember row is inserted; its primary key is (boardId, userId) and
\* its board must exist.
CanInsertMember(u) == board = "live" /\ ~IsMember(u)

InsertMember(u, role) ==
    /\ member' = [member EXCEPT ![u] = role]
    /\ joinedAt' = [joinedAt EXCEPT ![u] = clock]
    /\ clock' = clock + 1

CloseInvite(i, trace) == invite' = [invite EXCEPT ![i] = trace]

\* The board row is deleted, and with it every row that references it.
DeleteBoardRow ==
    /\ board' = "deleted"
    /\ owner' = Nobody
    /\ member' = [u \in Users |-> "NONE"]
    /\ joinedAt' = [u \in Users |-> 0]
    /\ invite' = [i \in InviteIds |->
                    IF i \in PendingHere THEN Closed ELSE invite[i]]
    /\ UNCHANGED clock

-----------------------------------------------------------------------------
(* Requests *)

At(r, op, call) == req[r].op = op /\ req[r].call = call

\* The handler has made its call and goes on to the next one.
Continue(r, call) == req' = [req EXCEPT ![r].call = call]

\* The handler returns or throws: its slot is free again.
Finish(r) == req' = [req EXCEPT ![r] = Idle]

Refuse(r) == Finish(r) /\ UNCHANGED db

\* A read whose answer is "condition": the handler goes on or throws.
ContinueIf(condition, r, call) ==
    /\ IF condition THEN Continue(r, call) ELSE Finish(r)
    /\ UNCHANGED db

\* BoardRoleGuard: the caller's row is read, and its role must be allowed.
GuardedStart(r, op, roles, by, user, role, inviteId) ==
    /\ req[r] = Idle
    /\ member[by] \in roles
    /\ req' = [req EXCEPT ![r] =
                NewRequest(op, "findBoardById", by, user, role, inviteId)]
    /\ UNCHANGED db

(* POST /board: two statements, not one transaction *)

CreateBoard(r) ==
    /\ req[r] = Idle
    /\ board = "none"
    /\ \E u \in Users :
          /\ board' = "live"
          /\ owner' = u
          /\ req' = [req EXCEPT ![r] =
                      NewRequest("create", "createBoardMember", u,
                                 Nobody, "NONE", NoInvite)]
    /\ UNCHANGED <<member, joinedAt, clock, invite>>

CreateBoardMember(r) ==
    /\ At(r, "create", "createBoardMember")
    /\ \/ /\ CanInsertMember(req[r].by)
          /\ InsertMember(req[r].by, "ADMIN")
          /\ Finish(r)
          /\ UNCHANGED <<board, owner, invite>>
       \/ ~CanInsertMember(req[r].by) /\ Refuse(r)

-----------------------------------------------------------------------------
(* DELETE /board/:boardId, by an ADMIN *)

RequestRemove(r) ==
    \E u \in Users :
        GuardedStart(r, "remove", {"ADMIN"}, u, Nobody, "NONE", NoInvite)

RemoveFindBoard(r) ==
    /\ At(r, "remove", "findBoardById")
    /\ ContinueIf(board = "live", r, "deleteBoard")

DeleteBoard(r) ==
    /\ req[r].call = "deleteBoard"
    /\ \/ board = "live" /\ DeleteBoardRow /\ Finish(r)
       \/ board # "live" /\ Refuse(r)

-----------------------------------------------------------------------------
(* DELETE /board/:boardId/member/:userId, by any member *)

RequestRemoveMember(r) ==
    \E u, v \in Users :
        GuardedStart(r, "removeMember", Role, u, v, "NONE", NoInvite)

\* removeMember and the first line of handleOwnerRemoval: the owner is read
\* here and never again.
RemoveMemberFindBoard(r) ==
    /\ At(r, "removeMember", "findBoardById")
    /\ LET ownerTargeted == req[r].user = owner IN
       \/ board = "live" /\ ~ownerTargeted /\ Continue(r, "findBoardMember")
       \/ /\ board = "live" /\ ownerTargeted /\ req[r].by = owner
          /\ Continue(r, "findNextAdmin")
       \/ /\ board # "live" \/ (ownerTargeted /\ req[r].by # owner)
          /\ Finish(r)
    /\ UNCHANGED db

\* Mutant of FindNextAdmin: all the admins are taken for the successor.
FindEveryAdmin(r) ==
    /\ At(r, "removeMember", "findNextAdmin")
    /\ LET found == OldestWithRole("ADMIN", req[r].by) IN
       req' = [req EXCEPT ![r].call = "transfer", ![r].next = found]
    /\ UNCHANGED db

FindNextAdmin(r) ==
    /\ At(r, "removeMember", "findNextAdmin")
    /\ LET found == OldestWithRole("ADMIN", req[r].by) IN
       IF found = {}
       THEN Continue(r, "findNextMember")
       ELSE \E u \in found :
               req' = [req EXCEPT ![r].call = "transfer", ![r].next = u]
    /\ UNCHANGED db

FindNextMember(r) ==
    /\ At(r, "removeMember", "findNextMember")
    /\ LET found == OldestWithRole("MEMBER", req[r].by) IN
       IF found = {}
       THEN Continue(r, "deleteBoard")
       ELSE \E u \in found :
               req' = [req EXCEPT ![r].call = "promoteAndTransfer",
                                  ![r].next = u]
    /\ UNCHANGED db

\* Mutant of CanTransfer: deleteMany in place of delete.
CanTransferWithoutRow(r) ==
    /\ board = "live"
    /\ req[r].call = "promoteAndTransfer" => IsMember(req[r].next)

\* The transaction rolls back when the board or the leaving owner's row is
\* gone, and when the row to promote is gone; without a promotion nothing
\* asks whether the new owner still has a row.
CanTransfer(r) ==
    /\ board = "live"
    /\ IsMember(req[r].by)
    /\ req[r].call = "promoteAndTransfer" => IsMember(req[r].next)

TransferOwnershipAndRemoveMember(r) ==
    /\ req[r].call \in {"transfer", "promoteAndTransfer"}
    /\ \/ /\ CanTransfer(r)
          /\ owner' = req[r].next
          /\ member' = [u \in Users |->
                IF u = req[r].by THEN "NONE"
                ELSE IF /\ u = req[r].next
                        /\ req[r].call = "promoteAndTransfer"
                     THEN "ADMIN"
                     ELSE member[u]]
          /\ joinedAt' = [joinedAt EXCEPT ![req[r].by] = 0]
          /\ Finish(r)
          /\ UNCHANGED <<board, clock, invite>>
       \/ ~CanTransfer(r) /\ Refuse(r)

\* handleRegularMemberRemoval
RemoveMemberFindMember(r) ==
    /\ At(r, "removeMember", "findBoardMember")
    /\ ContinueIf(IsMember(req[r].user), r,
                  IF req[r].by = req[r].user
                  THEN "deleteBoardMember" ELSE "findRequester")

ValidateAdminPermission(r) ==
    /\ At(r, "removeMember", "findRequester")
    /\ ContinueIf(member[req[r].by] = "ADMIN", r, "deleteBoardMember")

DeleteBoardMember(r) ==
    /\ At(r, "removeMember", "deleteBoardMember")
    /\ \/ /\ IsMember(req[r].user)
          /\ member' = [member EXCEPT ![req[r].user] = "NONE"]
          /\ joinedAt' = [joinedAt EXCEPT ![req[r].user] = 0]
          /\ Finish(r)
          /\ UNCHANGED <<board, owner, clock, invite>>
       \/ ~IsMember(req[r].user) /\ Refuse(r)

-----------------------------------------------------------------------------
(* PATCH /board/:boardId/member/:userId/role, by an ADMIN *)

RequestChangeRole(r) ==
    \E u, v \in Users, role \in Role :
        GuardedStart(r, "changeRole", {"ADMIN"}, u, v, role, NoInvite)

\* Mutant of ChangeRoleFindBoard: the owner's role may be changed too.
ChangeAnyRoleFindBoard(r) ==
    /\ At(r, "changeRole", "findBoardById")
    /\ ContinueIf(board = "live", r, "findBoardMember")

ChangeRoleFindBoard(r) ==
    /\ At(r, "changeRole", "findBoardById")
    /\ ContinueIf(board = "live" /\ req[r].user # owner, r, "findBoardMember")

\* getMemberOrFail and the condition of validateAdminDemotion
ChangeRoleFindMember(r) ==
    /\ At(r, "changeRole", "findBoardMember")
    /\ ContinueIf(IsMember(req[r].user), r,
                  IF member[req[r].user] = "ADMIN" /\ req[r].role # "ADMIN"
                  THEN "countAdmins" ELSE "updateBoardMemberRole")

CountAdmins(r) ==
    /\ At(r, "changeRole", "countAdmins")
    /\ ContinueIf(Cardinality(Admins) > 1, r, "updateBoardMemberRole")

UpdateBoardMemberRole(r) ==
    /\ At(r, "changeRole", "updateBoardMemberRole")
    /\ \/ /\ IsMember(req[r].user)
          /\ member' = [member EXCEPT ![req[r].user] = req[r].role]
          /\ Finish(r)
          /\ UNCHANGED <<board, owner, joinedAt, clock, invite>>
       \/ ~IsMember(req[r].user) /\ Refuse(r)

-----------------------------------------------------------------------------
(* POST /board/invite/:boardId, by an ADMIN *)

\* The row's id, a fresh uuid, is drawn when the request arrives.
FreshInviteIds ==
    {i \in InviteIds \ ForeignIds :
        /\ invite[i].status = "unsent"
        /\ \A r \in Requests : req[r].invite # i}

RequestInvite(r) ==
    \E u, v \in Users, role \in Role, i \in FreshInviteIds :
        GuardedStart(r, "invite", {"ADMIN"}, u, v, role, i)

InviteFindBoard(r) ==
    /\ At(r, "invite", "findBoardById")
    /\ ContinueIf(board = "live", r, "findPendingInvite")

FindPendingInvite(r) ==
    /\ At(r, "invite", "findPendingInvite")
    /\ ContinueIf(\A i \in PendingHere : invite[i].recipient # req[r].user,
                  r, "findInvitee")

\* Mutant of FindInvitee: members are invited as well.
FindAnyInvitee(r) ==
    /\ At(r, "invite", "findInvitee")
    /\ ContinueIf(TRUE, r, "createInvite")

FindInvitee(r) ==
    /\ At(r, "invite", "findInvitee")
    /\ ContinueIf(~IsMember(req[r].user), r, "createInvite")

CreateInvite(r) ==
    /\ At(r, "invite", "createInvite")
    /\ \/ /\ board = "live"
          /\ invite' = [invite EXCEPT ![req[r].invite] =
                [status |-> "pending", recipient |-> req[r].user,
                 role |-> req[r].role]]
          /\ Finish(r)
          /\ UNCHANGED <<board, owner, member, joinedAt, clock>>
       \/ board # "live" /\ Refuse(r)

-----------------------------------------------------------------------------
(* POST /board/invite/:boardId/response, by the invite's recipient *)

\* getInviteOrFail and validateInviteRecipient: any invite of the caller's,
\* of this board or another.  The board's id is known to somebody once it
\* has had a member.
FindInvite(r) ==
    /\ req[r] = Idle
    /\ clock > 1
    /\ \E i \in PendingInvites,
          answer \in {<<"accept", "acceptInvite">>,
                      <<"decline", "deleteInvite">>} :
          req' = [req EXCEPT ![r] =
                   NewRequest(answer[1], answer[2], invite[i].recipient,
                              Nobody, invite[i].role, i)]
    /\ UNCHANGED db

DeleteInvite(r) ==
    /\ At(r, "decline", "deleteInvite")
    /\ \/ /\ req[r].invite \in PendingInvites
          /\ CloseInvite(req[r].invite, Closed)
          /\ Finish(r)
          /\ UNCHANGED <<board, owner, member, joinedAt, clock>>
       \/ req[r].invite \notin PendingInvites /\ Refuse(r)

\* Mutant of CanAccept: the invite row is deleted if it is still there.
CanAcceptWithoutRow(r) == CanInsertMember(req[r].by)

\* acceptInviteTransaction: the membership is of the board of the URL, the
\* invite the one of the body; both statements or neither
CanAccept(r) ==
    /\ CanInsertMember(req[r].by)
    /\ req[r].invite \in PendingInvites

AcceptInvite(r) ==
    /\ At(r, "accept", "acceptInvite")
    /\ \/ /\ CanAccept(r)
          /\ InsertMember(req[r].by, req[r].role)
          /\ CloseInvite(req[r].invite, AcceptedBy(req[r].by))
          /\ Finish(r)
          /\ UNCHANGED <<board, owner>>
       \/ ~CanAccept(r) /\ Refuse(r)

-----------------------------------------------------------------------------
(* The other boards *)

\* An ADMIN of another board invites a user there.
InviteElsewhere(i) ==
    /\ i \in ForeignIds
    /\ invite[i].status = "unsent"
    /\ \E u \in Users, role \in Role :
          invite' = [invite EXCEPT ![i] =
             [status |-> "pending", recipient |-> u, role |-> role]]
    /\ UNCHANGED <<board, owner, member, joinedAt, clock, req>>

\* The recipient answers under the URL of another board, where the handler
\* creates or fails to create a membership, or an invite of another board
\* goes with that board.  The row's deletion is all that is seen from here.
SpendElsewhere(i) ==
    /\ i \in PendingInvites
    /\ CloseInvite(i, Closed)
    /\ UNCHANGED <<board, owner, member, joinedAt, clock, req>>

-----------------------------------------------------------------------------

\* The connection, the database or the server gives up on a request between
\* two of its statements; what it has committed stays.
Fail(r) == MayFail /\ req[r] # Idle /\ Refuse(r)

Receive(r) ==
    \/ CreateBoard(r)
    \/ RequestRemove(r)
    \/ RequestRemoveMember(r)
    \/ RequestChangeRole(r)
    \/ RequestInvite(r)
    \/ FindInvite(r)

Proceed(r) ==
    \/ CreateBoardMember(r)
    \/ RemoveFindBoard(r)
    \/ DeleteBoard(r)
    \/ RemoveMemberFindBoard(r)
    \/ FindNextAdmin(r)
    \/ FindNextMember(r)
    \/ TransferOwnershipAndRemoveMember(r)
    \/ RemoveMemberFindMember(r)
    \/ ValidateAdminPermission(r)
    \/ DeleteBoardMember(r)
    \/ ChangeRoleFindBoard(r)
    \/ ChangeRoleFindMember(r)
    \/ CountAdmins(r)
    \/ UpdateBoardMemberRole(r)
    \/ InviteFindBoard(r)
    \/ FindPendingInvite(r)
    \/ FindInvitee(r)
    \/ CreateInvite(r)
    \/ DeleteInvite(r)
    \/ AcceptInvite(r)

Next ==
    \/ \E r \in Requests : Receive(r) \/ Proceed(r) \/ Fail(r)
    \/ \E i \in InviteIds : InviteElsewhere(i) \/ SpendElsewhere(i)

Spec == Init /\ [][Next]_vars

-----------------------------------------------------------------------------
(* Properties, whatever the interleaving and the failures *)

\* Invites and membership follow InviteLifecycle: an invite that is declined
\* and accepted at once, accepted twice, or accepted under the URLs of two
\* boards, takes effect once, and no late answer or late request revives
\* anything on a deleted board.
Lifecycle == INSTANCE InviteLifecycle
InvitesFollowLifecycle == Lifecycle!Spec

\* Ownership moves only together with the removal of exactly one member, who
\* is not the new owner, in one transaction in which nobody joins: a leave
\* that is sent twice, both times with the same answer of findNextAdmin,
\* moves it once.  Under concurrency the removed member need not be the
\* previous owner, nor the new owner a member.
OwnerHandsOverByLeaving ==
    [][ (board = "live" /\ board' = "live" /\ owner' # owner)
          => \E u \in Users \ {owner'} :
                /\ IsMember(u) /\ ~IsMember(u)'
                /\ \A v \in Users \ {u} : IsMember(v)' <=> IsMember(v) ]_vars

-----------------------------------------------------------------------------
(* Properties of requests that run one at a time and do not die: what the  *)
(* checks inside the handlers are for.                                     *)

\* Between createBoard and createBoardMember the owner has no row yet.
Founding == \E r \in Requests : req[r].op = "create"

\* The owner of a live board belongs to it, as an ADMIN: the handlers never
\* leave a board nobody can administer ("Cannot remove the board owner",
\* "Cannot change the board owner role", "Cannot demote the only ADMIN").
OwnerIsAdmin == (board = "live" /\ ~Founding) => member[owner] = "ADMIN"

\* u has become a member here by an invite of another board.
CameByForeignInvite(u) ==
    \E i \in ForeignIds :
        invite[i].status = "accepted" /\ invite[i].recipient = u

\* validateInviteEligibility keeps a user from holding two pending invites to
\* the board, or one beside a membership, with which a removed member could
\* come back; only who came by an invite of another board may hold both.
OneInvitePerOutsider ==
    \A i \in PendingHere :
        /\ IsMember(invite[i].recipient)
              => CameByForeignInvite(invite[i].recipient)
        /\ \A j \in PendingHere :
              invite[j].recipient = invite[i].recipient => i = j

\* Every handler has the effect of one atomic operation of AtomicBoard.
Atomic == INSTANCE AtomicBoard
            WITH board <- IF Founding THEN "none" ELSE board,
                 owner <- IF Founding THEN Nobody ELSE owner
HandlersAreAtomic == Atomic!Spec

-----------------------------------------------------------------------------
(* The inductive invariants behind these properties                        *)

HasOp(r, ops) == req[r].op \in ops
HasCall(r, calls) == req[r].call \in calls

\* A request carries the arguments its handler uses.
WellFormed(q) ==
    /\ q.op = "none" => q = Idle
    /\ q.op # "none" => q.by \in Users
    /\ q.op \in {"removeMember", "changeRole", "invite"} => q.user \in Users
    /\ q.op \in {"changeRole", "invite"} => q.role \in Role
    /\ q.call \in {"transfer", "promoteAndTransfer"} =>
          q.op = "removeMember" /\ q.next \in Users \ {q.by}

RequestsWellFormed == \A r \in Requests : WellFormed(req[r])

\* The id of an invite that is being sent is nobody else's, and an answer is
\* about an invite that was sent, to the user who answers.
InvitesTracked ==
    /\ \A i \in PendingInvites :
          invite[i].recipient \in Users /\ invite[i].role \in Role
    /\ \A r \in Requests : HasOp(r, {"invite"}) =>
          /\ req[r].invite \in InviteIds \ ForeignIds
          /\ invite[req[r].invite].status = "unsent"
          /\ \A s \in Requests : req[s].invite = req[r].invite => s = r
    /\ \A r \in Requests : HasOp(r, {"accept", "decline"}) =>
          /\ req[r].invite \in InviteIds
          /\ invite[req[r].invite].status # "unsent"
          /\ req[r].invite \in PendingInvites =>
                /\ invite[req[r].invite].recipient = req[r].by
                /\ invite[req[r].invite].role = req[r].role

\* Nobody acts on a board before its founder's row is there.
NobodyBeforeFounder ==
    /\ board = "none" => \A r \in Requests : req[r] = Idle
    /\ \A r, s \in Requests : HasOp(r, {"create"}) => s = r \/ req[s] = Idle
    /\ (board = "none" \/ Founding) =>
          /\ clock = 1
          /\ \A u \in Users : member[u] = "NONE"
          /\ \A i \in InviteIds \ ForeignIds : invite[i].status = "unsent"

MembershipInv ==
    TypeOK /\ RequestsWellFormed /\ InvitesTracked /\ NobodyBeforeFounder

\* A request that acts on a user who, it has read, is not the owner.
ActsOnNonOwner(q) ==
    \/ /\ q.op = "removeMember"
       /\ q.call \in {"findBoardMember", "findRequester", "deleteBoardMember"}
    \/ q.op = "changeRole" /\ q.call # "findBoardById"

\* What keeps the owner an ADMIN while the ownership does not move.
OwnerSettled ==
    /\ (board = "live" /\ ~Founding)
          => owner \in Users /\ member[owner] = "ADMIN"
    /\ \A r \in Requests : HasOp(r, {"create"}) =>
          board = "live" /\ owner = req[r].by /\ HasCall(r, {"createBoardMember"})
    /\ \A r \in Requests : (board = "live" /\ ActsOnNonOwner(req[r]))
          => req[r].user # owner

\* The leaving owner and the heir that was found are still what they were
\* read to be: true only while nobody else acts.
HeirIsCurrent ==
    \A r \in Requests :
        /\ (board = "live" /\ HasCall(r, {"findNextAdmin", "findNextMember",
                                          "transfer", "promoteAndTransfer"}))
              => owner = req[r].by
        /\ HasCall(r, {"transfer"}) => member[req[r].next] = "ADMIN"

\* The ownership does not move, and no request dies.
NoHandover ==
    ~MayFail /\ [][owner' = owner \/ board = "none" \/ board' = "deleted"]_vars

\* One request at a time, and it does not die.
OneAtATime == ~MayFail /\ \A r, s \in Requests : r = s

=============================================================================
