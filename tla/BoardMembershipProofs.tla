----------------------- MODULE BoardMembershipProofs -----------------------
(***************************************************************************)
(* Proofs about BoardMembership, for any numbers of users, invites and     *)
(* concurrent requests.                                                    *)
(***************************************************************************)
EXTENDS BoardMembership, WellFoundedInduction, TLAPS

-----------------------------------------------------------------------------
(* Type correctness *)

LEMMA NewRequestType ==
    ASSUME NEW op \in Op, NEW call \in Call, NEW by \in UserOrNobody,
           NEW user \in UserOrNobody, NEW role \in RoleOrNone,
           NEW i \in InviteIds \cup {NoInvite}
    PROVE  NewRequest(op, call, by, user, role, i) \in Request
BY DEF NewRequest, Request, UserOrNobody

LEMMA IdleIsRequest == Idle \in Request
BY NewRequestType DEF Idle, Op, Call, RoleOrNone, UserOrNobody

LEMMA InitTypeOK == Init => TypeOK
BY IdleIsRequest
DEF Init, TypeOK, RoleOrNone, UserOrNobody, Unsent, Invite, InviteStatus

\* A step that only moves a request on, or ends it, keeps the types.
LEMMA RefuseTypeOK ==
    ASSUME TypeOK, NEW r \in Requests, Refuse(r)
    PROVE  TypeOK'
BY IdleIsRequest DEF TypeOK, Refuse, Finish, db

LEMMA ContinueTypeOK ==
    ASSUME TypeOK, NEW r \in Requests, NEW call \in Call,
           Continue(r, call), UNCHANGED db
    PROVE  TypeOK'
BY DEF TypeOK, Continue, Request, db

LEMMA StartTypeOK ==
    ASSUME TypeOK, NEW r \in Requests, NEW op \in Op, NEW roles,
           NEW by \in Users, NEW user \in UserOrNobody,
           NEW role \in RoleOrNone, NEW i \in InviteIds \cup {NoInvite},
           GuardedStart(r, op, roles, by, user, role, i)
    PROVE  TypeOK'
BY NewRequestType DEF TypeOK, GuardedStart, Call, UserOrNobody, db

LEMMA TracesAreInvites ==
    /\ Closed \in Invite
    /\ \A u \in UserOrNobody : AcceptedBy(u) \in Invite
BY DEF Closed, AcceptedBy, Invite, InviteStatus, UserOrNobody, RoleOrNone

LEMMA DeleteBoardRowTypeOK ==
    ASSUME TypeOK, NEW r \in Requests, DeleteBoardRow, Finish(r)
    PROVE  TypeOK'
BY IdleIsRequest, TracesAreInvites
DEF TypeOK, DeleteBoardRow, Finish, UserOrNobody, RoleOrNone

LEMMA InsertMemberType ==
    ASSUME TypeOK, NEW u, NEW role \in RoleOrNone, InsertMember(u, role)
    PROVE  /\ member' \in [Users -> RoleOrNone]
           /\ joinedAt' \in [Users -> Nat]
           /\ clock' \in Nat
<1>1. member' \in [Users -> RoleOrNone]
  BY DEF TypeOK, InsertMember
<1>2. joinedAt' \in [Users -> Nat]
  <2>1. joinedAt \in [Users -> Nat] /\ clock \in Nat
    BY DEF TypeOK
  <2>. QED
    BY <2>1, Zenon DEF InsertMember
<1>3. clock' \in Nat
  BY DEF TypeOK, InsertMember
<1>. QED
  BY <1>1, <1>2, <1>3

LEMMA CloseInviteType ==
    ASSUME TypeOK, NEW i, NEW trace \in Invite, CloseInvite(i, trace)
    PROVE  invite' \in [InviteIds -> Invite]
BY DEF TypeOK, CloseInvite

LEMMA ReceiveTypeOK ==
    ASSUME TypeOK, NEW r \in Requests, Receive(r)
    PROVE  TypeOK'
<1>1. CASE CreateBoard(r)
  <2>1. PICK u \in Users :
            /\ board' = "live"
            /\ owner' = u
            /\ req' = [req EXCEPT ![r] =
                  NewRequest("create", "createBoardMember", u, Nobody,
                             "NONE", NoInvite)]
    BY <1>1 DEF CreateBoard
  <2>2. NewRequest("create", "createBoardMember", u, Nobody, "NONE",
                   NoInvite) \in Request
    BY NewRequestType DEF Op, Call, RoleOrNone, UserOrNobody
  <2>. QED
    BY <1>1, <2>1, <2>2 DEF TypeOK, CreateBoard, UserOrNobody
<1>2. CASE RequestRemove(r)
  BY <1>2, StartTypeOK DEF RequestRemove, Op, RoleOrNone, UserOrNobody
<1>3. CASE RequestRemoveMember(r)
  BY <1>3, StartTypeOK DEF RequestRemoveMember, Op, RoleOrNone, UserOrNobody
<1>4. CASE RequestChangeRole(r)
  BY <1>4, StartTypeOK DEF RequestChangeRole, Op, RoleOrNone, UserOrNobody
<1>5. CASE RequestInvite(r)
  BY <1>5, StartTypeOK
  DEF RequestInvite, FreshInviteIds, Op, RoleOrNone, UserOrNobody
<1>6. CASE FindInvite(r)
  <2>1. PICK i \in PendingInvites,
             answer \in {<<"accept", "acceptInvite">>,
                         <<"decline", "deleteInvite">>} :
            req' = [req EXCEPT ![r] =
                     NewRequest(answer[1], answer[2], invite[i].recipient,
                                Nobody, invite[i].role, i)]
    BY <1>6 DEF FindInvite
  <2>2. i \in InviteIds /\ invite[i] \in Invite
    BY DEF TypeOK, PendingInvites
  <2>3. answer[1] \in Op /\ answer[2] \in Call
    BY DEF Op, Call
  <2>4. NewRequest(answer[1], answer[2], invite[i].recipient, Nobody,
                   invite[i].role, i) \in Request
    BY <2>2, <2>3, NewRequestType DEF Invite, UserOrNobody
  <2>. QED
    BY <1>6, <2>1, <2>4 DEF TypeOK, FindInvite, db
<1>. QED
  BY <1>1, <1>2, <1>3, <1>4, <1>5, <1>6 DEF Receive

\* The steps that only read the database.
Read(r) ==
    \/ RemoveFindBoard(r)
    \/ RemoveMemberFindBoard(r)
    \/ RemoveMemberFindMember(r)
    \/ ValidateAdminPermission(r)
    \/ ChangeRoleFindBoard(r)
    \/ ChangeRoleFindMember(r)
    \/ CountAdmins(r)
    \/ InviteFindBoard(r)
    \/ FindPendingInvite(r)
    \/ FindInvitee(r)

LEMMA ReadMovesOn ==
    ASSUME NEW r \in Requests, Read(r)
    PROVE  /\ UNCHANGED db
           /\ Finish(r) \/ \E call \in Call : Continue(r, call)
BY DEF Read, RemoveFindBoard, RemoveMemberFindBoard, RemoveMemberFindMember,
       ValidateAdminPermission, ChangeRoleFindBoard, ChangeRoleFindMember,
       CountAdmins, InviteFindBoard, FindPendingInvite, FindInvitee,
       ContinueIf, Call

LEMMA ProceedTypeOK ==
    ASSUME TypeOK, NEW r \in Requests, Proceed(r)
    PROVE  TypeOK'
<1>. USE IdleIsRequest
<1>1. CASE Read(r)
  BY <1>1, ReadMovesOn, RefuseTypeOK, ContinueTypeOK DEF Refuse
<1>2. CASE CreateBoardMember(r)
  BY <1>2, RefuseTypeOK, InsertMemberType
  DEF TypeOK, CreateBoardMember, Finish, RoleOrNone, Role
<1>3. CASE DeleteBoard(r)
  BY <1>3, RefuseTypeOK, DeleteBoardRowTypeOK DEF DeleteBoard
<1>4. CASE FindNextAdmin(r)
  BY <1>4
  DEF TypeOK, FindNextAdmin, OldestWithRole, Continue, Request, Call,
      UserOrNobody, db
<1>5. CASE FindNextMember(r)
  BY <1>5
  DEF TypeOK, FindNextMember, OldestWithRole, Continue, Request, Call,
      UserOrNobody, db
<1>6. CASE TransferOwnershipAndRemoveMember(r)
  BY <1>6, RefuseTypeOK
  DEF TypeOK, TransferOwnershipAndRemoveMember, Finish, Request,
      UserOrNobody, RoleOrNone, Role
<1>7. CASE DeleteBoardMember(r)
  BY <1>7, RefuseTypeOK DEF TypeOK, DeleteBoardMember, Finish, RoleOrNone
<1>8. CASE UpdateBoardMemberRole(r)
  BY <1>8, RefuseTypeOK
  DEF TypeOK, UpdateBoardMemberRole, Finish, Request, RoleOrNone
<1>9. CASE CreateInvite(r)
  BY <1>9, RefuseTypeOK
  DEF TypeOK, CreateInvite, Finish, Request, Invite, InviteStatus
<1>10. CASE DeleteInvite(r)
  BY <1>10, RefuseTypeOK, CloseInviteType, TracesAreInvites
  DEF TypeOK, DeleteInvite, Finish
<1>11. CASE AcceptInvite(r)
  <2>1. req[r].role \in RoleOrNone /\ req[r].by \in UserOrNobody
    BY DEF TypeOK, Request
  <2>2. CASE /\ CanAccept(r)
             /\ InsertMember(req[r].by, req[r].role)
             /\ CloseInvite(req[r].invite, AcceptedBy(req[r].by))
             /\ Finish(r)
             /\ UNCHANGED <<board, owner>>
    <3>1. /\ member' \in [Users -> RoleOrNone]
          /\ joinedAt' \in [Users -> Nat]
          /\ clock' \in Nat
      BY <2>1, <2>2, InsertMemberType
    <3>2. invite' \in [InviteIds -> Invite]
      BY <2>1, <2>2, CloseInviteType, TracesAreInvites
    <3>. QED
      BY <2>2, <3>1, <3>2 DEF TypeOK, Finish
  <2>. QED
    BY <1>11, <2>2, RefuseTypeOK DEF AcceptInvite
<1>. QED
  BY <1>1, <1>2, <1>3, <1>4, <1>5, <1>6, <1>7, <1>8, <1>9, <1>10, <1>11
  DEF Proceed, Read

\* What other boards do is seen in the invites only.
Elsewhere(i) == InviteElsewhere(i) \/ SpendElsewhere(i)

LEMMA ElsewhereTypeOK ==
    ASSUME TypeOK, NEW i \in InviteIds, Elsewhere(i)
    PROVE  /\ TypeOK'
           /\ UNCHANGED <<board, owner, member, joinedAt, clock, req>>
<1>1. invite' \in [InviteIds -> Invite]
  <2>1. CASE InviteElsewhere(i)
    BY <2>1
    DEF InviteElsewhere, TypeOK, Invite, InviteStatus, UserOrNobody, RoleOrNone
  <2>2. CASE SpendElsewhere(i)
    BY <2>2, CloseInviteType, TracesAreInvites DEF SpendElsewhere
  <2>. QED
    BY <2>1, <2>2 DEF Elsewhere
<1>2. UNCHANGED <<board, owner, member, joinedAt, clock, req>>
  BY DEF Elsewhere, InviteElsewhere, SpendElsewhere
<1>. QED
  BY <1>1, <1>2 DEF TypeOK

LEMMA NextTypeOK == TypeOK /\ [Next]_vars => TypeOK'
<1> SUFFICES ASSUME TypeOK, [Next]_vars
             PROVE  TypeOK'
  OBVIOUS
<1>1. CASE UNCHANGED vars
  BY <1>1 DEF TypeOK, vars
<1>2. ASSUME NEW r \in Requests, Receive(r) \/ Proceed(r) \/ Fail(r)
      PROVE  TypeOK'
  BY <1>2, ReceiveTypeOK, ProceedTypeOK, RefuseTypeOK DEF Fail
<1>. QED
  BY <1>1, <1>2, ElsewhereTypeOK DEF Next, Elsewhere

\* Every variable keeps its type, whatever the requests do.
THEOREM TypeCorrect == Spec => []TypeOK
BY InitTypeOK, NextTypeOK, PTL DEF Spec

-----------------------------------------------------------------------------
(* The invariants of the requests                                          *)

\* The steps that write the database end their request.
Write(r) ==
    \/ CreateBoardMember(r)
    \/ DeleteBoard(r)
    \/ TransferOwnershipAndRemoveMember(r)
    \/ DeleteBoardMember(r)
    \/ UpdateBoardMemberRole(r)
    \/ CreateInvite(r)
    \/ DeleteInvite(r)
    \/ AcceptInvite(r)

LEMMA WriteFinishes == ASSUME NEW r \in Requests, Write(r) PROVE Finish(r)
BY DEF Write, CreateBoardMember, DeleteBoard,
       TransferOwnershipAndRemoveMember, DeleteBoardMember,
       UpdateBoardMemberRole, CreateInvite, DeleteInvite, AcceptInvite,
       Refuse

\* The calls a read may lead to, unless it chooses a successor.
PlainCall == Call \ {"transfer", "promoteAndTransfer"}

LEMMA ReadContinuesPlainly ==
    ASSUME NEW r \in Requests, Read(r)
    PROVE  /\ UNCHANGED db
           /\ Finish(r) \/ \E call \in PlainCall : Continue(r, call)
BY DEF Read, RemoveFindBoard, RemoveMemberFindBoard, RemoveMemberFindMember,
       ValidateAdminPermission, ChangeRoleFindBoard, ChangeRoleFindMember,
       CountAdmins, InviteFindBoard, FindPendingInvite, FindInvitee,
       ContinueIf, PlainCall, Call

\* Choosing the successor of a leaving owner.
Choose(r, call, u) ==
    /\ req[r].op = "removeMember"
    /\ u \in Users \ {req[r].by}
    /\ req' = [req EXCEPT ![r].call = call, ![r].next = u]

LEMMA FindNextChooses ==
    ASSUME NEW r \in Requests, FindNextAdmin(r) \/ FindNextMember(r)
    PROVE  /\ UNCHANGED db
           /\ \/ \E call \in PlainCall : Continue(r, call)
              \/ \E call \in {"transfer", "promoteAndTransfer"}, u \in Users :
                    Choose(r, call, u)
BY DEF FindNextAdmin, FindNextMember, OldestWithRole, Choose, At,
       PlainCall, Call

\* Every step of a started request has one of these forms.
LEMMA ProceedForm ==
    ASSUME NEW r \in Requests, Proceed(r)
    PROVE  \/ Write(r)
           \/ Read(r)
           \/ FindNextAdmin(r) \/ FindNextMember(r)
BY DEF Proceed, Write, Read

LEMMA ReadersAreStarted ==
    ASSUME NEW r \in Requests,
           Read(r) \/ FindNextAdmin(r) \/ FindNextMember(r)
    PROVE  req[r].op \in {"remove", "removeMember", "changeRole", "invite"}
BY DEF Read, RemoveFindBoard, RemoveMemberFindBoard, RemoveMemberFindMember,
       ValidateAdminPermission, ChangeRoleFindBoard, ChangeRoleFindMember,
       CountAdmins, InviteFindBoard, FindPendingInvite, FindInvitee,
       FindNextAdmin, FindNextMember, At

LEMMA NewRequestWellFormed ==
    ASSUME NEW op, op # "none", NEW call \in PlainCall, NEW by \in Users,
           NEW user, NEW role, NEW i,
           op \in {"removeMember", "changeRole", "invite"} => user \in Users,
           op \in {"changeRole", "invite"} => role \in Role
    PROVE  WellFormed(NewRequest(op, call, by, user, role, i))
BY DEF WellFormed, NewRequest, PlainCall, Call

LEMMA StartWellFormed ==
    ASSUME NEW r \in Requests, NEW op, op # "none", NEW roles,
           NEW by \in Users, NEW user, NEW role, NEW i,
           op \in {"removeMember", "changeRole", "invite"} => user \in Users,
           op \in {"changeRole", "invite"} => role \in Role,
           GuardedStart(r, op, roles, by, user, role, i)
    PROVE  \E q : WellFormed(q) /\ req' = [req EXCEPT ![r] = q]
BY NewRequestWellFormed DEF GuardedStart, PlainCall, Call

LEMMA ReceiveWellFormed ==
    ASSUME MembershipInv, NEW r \in Requests, Receive(r)
    PROVE  \E q : WellFormed(q) /\ req' = [req EXCEPT ![r] = q]
<1>1. CASE CreateBoard(r)
  BY <1>1, NewRequestWellFormed DEF CreateBoard, PlainCall, Call
<1>2. CASE RequestRemove(r)
  BY <1>2, StartWellFormed DEF RequestRemove
<1>3. CASE RequestRemoveMember(r)
  BY <1>3, StartWellFormed DEF RequestRemoveMember
<1>4. CASE RequestChangeRole(r)
  BY <1>4, StartWellFormed DEF RequestChangeRole
<1>5. CASE RequestInvite(r)
  BY <1>5, StartWellFormed DEF RequestInvite
<1>6. CASE FindInvite(r)
  <2>1. PICK i \in PendingInvites,
             answer \in {<<"accept", "acceptInvite">>,
                         <<"decline", "deleteInvite">>} :
            req' = [req EXCEPT ![r] =
                     NewRequest(answer[1], answer[2], invite[i].recipient,
                                Nobody, invite[i].role, i)]
    BY <1>6 DEF FindInvite
  <2>2. invite[i].recipient \in Users
    BY DEF MembershipInv, InvitesTracked, PendingInvites
  <2>3. /\ answer[1] \in {"accept", "decline"}
        /\ answer[2] \in PlainCall
    BY DEF PlainCall, Call
  <2>. QED
    BY <2>1, <2>2, <2>3, NewRequestWellFormed
<1>. QED
  BY <1>1, <1>2, <1>3, <1>4, <1>5, <1>6 DEF Receive

LEMMA WellFormedKept ==
    ASSUME MembershipInv, NEW r \in Requests,
           Receive(r) \/ Proceed(r) \/ Fail(r)
    PROVE  RequestsWellFormed'
<1>. USE DEF RequestsWellFormed
<1>0. RequestsWellFormed /\ req \in [Requests -> Request]
  BY DEF MembershipInv, TypeOK
<1>1. ASSUME NEW q, WellFormed(q), req' = [req EXCEPT ![r] = q]
      PROVE  RequestsWellFormed'
  BY <1>0, <1>1
<1>2. CASE Finish(r)
  <2>1. WellFormed(Idle)
    BY DEF WellFormed, Idle, NewRequest
  <2>. QED
    BY <1>1, <1>2, <2>1 DEF Finish
<1>3. ASSUME NEW call \in PlainCall, Continue(r, call), req[r] # Idle
      PROVE  RequestsWellFormed'
  <2>1. WellFormed([req[r] EXCEPT !.call = call])
    BY <1>0, <1>3 DEF WellFormed, PlainCall, Request
  <2>. QED
    BY <1>1, <1>3, <2>1 DEF Continue
<1>4. ASSUME NEW call \in {"transfer", "promoteAndTransfer"},
             NEW u \in Users, Choose(r, call, u)
      PROVE  RequestsWellFormed'
  <2>1. WellFormed([req[r] EXCEPT !.call = call, !.next = u])
    BY <1>0, <1>4 DEF WellFormed, Choose, Request
  <2>2. req' = [req EXCEPT ![r] = [req[r] EXCEPT !.call = call, !.next = u]]
    BY <1>0, <1>4 DEF Choose
  <2>. QED
    BY <1>1, <2>1, <2>2
<1>5. CASE Receive(r)
  BY <1>1, <1>5, ReceiveWellFormed
<1>6. CASE Read(r) \/ FindNextAdmin(r) \/ FindNextMember(r)
  <2>1. req[r] # Idle
    BY <1>6, ReadersAreStarted DEF Idle, NewRequest
  <2>. QED
    BY <1>2, <1>3, <1>4, <1>6, <2>1, ReadContinuesPlainly, FindNextChooses
<1>. QED
  BY <1>2, <1>5, <1>6, ProceedForm, WriteFinishes DEF Fail, Refuse

LEMMA ProceedIsStarted ==
    ASSUME NEW r \in Requests, Proceed(r)
    PROVE  req[r] # Idle
<1>1. CASE Write(r)
  <2>1. req[r].call # "idle"
    BY <1>1
    DEF Write, CreateBoardMember, DeleteBoard,
        TransferOwnershipAndRemoveMember, DeleteBoardMember,
        UpdateBoardMemberRole, CreateInvite, DeleteInvite, AcceptInvite, At
  <2>. QED
    BY <2>1 DEF Idle, NewRequest
<1>2. CASE Read(r) \/ FindNextAdmin(r) \/ FindNextMember(r)
  BY <1>2, ReadersAreStarted DEF Idle, NewRequest
<1>. QED
  BY <1>1, <1>2, ProceedForm

LEMMA BoardStaysCreated ==
    ASSUME NEW r \in Requests, Proceed(r) \/ Fail(r), board # "none"
    PROVE  board' # "none"
BY ProceedForm, ReadContinuesPlainly, FindNextChooses
DEF Fail, Refuse, db, Write, CreateBoardMember, DeleteBoard, DeleteBoardRow,
    TransferOwnershipAndRemoveMember, DeleteBoardMember,
    UpdateBoardMemberRole, CreateInvite, DeleteInvite, AcceptInvite

\* Only a request that has read a member's row, or an invite, is started
\* beside the founder's.
LEMMA StartAfterFounder ==
    ASSUME MembershipInv, NEW r \in Requests, NEW op, op # "create",
           NEW roles \in SUBSET Role, NEW by \in Users, NEW user, NEW role,
           NEW i, GuardedStart(r, op, roles, by, user, role, i)
    PROVE  /\ board # "none" /\ ~Founding
           /\ UNCHANGED db
           /\ \E q : /\ q.op # "create" /\ ~ActsOnNonOwner(q)
                     /\ req' = [req EXCEPT ![r] = q]
<1>1. member[by] # "NONE"
  BY DEF GuardedStart, Role
<1>2. board # "none" /\ ~Founding
  BY <1>1 DEF MembershipInv, NobodyBeforeFounder
<1>. QED
  BY <1>2 DEF GuardedStart, NewRequest, ActsOnNonOwner

LEMMA ReceiveAfterFounder ==
    ASSUME MembershipInv, NEW r \in Requests, Receive(r), ~CreateBoard(r)
    PROVE  /\ board # "none" /\ ~Founding
           /\ UNCHANGED db
           /\ \E q : /\ q.op # "create" /\ ~ActsOnNonOwner(q)
                     /\ req' = [req EXCEPT ![r] = q]
<1>1. CASE RequestRemove(r)
  BY <1>1, StartAfterFounder DEF RequestRemove, Role
<1>2. CASE RequestRemoveMember(r)
  BY <1>2, StartAfterFounder DEF RequestRemoveMember
<1>3. CASE RequestChangeRole(r)
  BY <1>3, StartAfterFounder DEF RequestChangeRole, Role
<1>4. CASE RequestInvite(r)
  BY <1>4, StartAfterFounder DEF RequestInvite, Role
<1>5. CASE FindInvite(r)
  <2>1. PICK i \in PendingInvites,
             answer \in {<<"accept", "acceptInvite">>,
                         <<"decline", "deleteInvite">>} :
            req' = [req EXCEPT ![r] =
                     NewRequest(answer[1], answer[2], invite[i].recipient,
                                Nobody, invite[i].role, i)]
    BY <1>5 DEF FindInvite
  <2>2. board # "none" /\ ~Founding
    BY <1>5 DEF FindInvite, MembershipInv, NobodyBeforeFounder
  <2>3. NewRequest(answer[1], answer[2], invite[i].recipient, Nobody,
                   invite[i].role, i).op \in {"accept", "decline"}
    BY DEF NewRequest
  <2>. QED
    BY <1>5, <2>1, <2>2, <2>3 DEF FindInvite, ActsOnNonOwner
<1>. QED
  BY <1>1, <1>2, <1>3, <1>4, <1>5 DEF Receive

LEMMA FounderFirstKept ==
    ASSUME MembershipInv, NEW r \in Requests,
           Receive(r) \/ Proceed(r) \/ Fail(r)
    PROVE  NobodyBeforeFounder'
<1>. USE DEF NobodyBeforeFounder, Founding, HasOp
<1>0. NobodyBeforeFounder /\ req \in [Requests -> Request]
  BY DEF MembershipInv, TypeOK
<1>1. CASE CreateBoard(r)
  <2>1. board = "none" /\ board' = "live"
    BY <1>1 DEF CreateBoard
  <2>2. \A s \in Requests : req[s] = Idle
    BY <1>0, <2>1
  <2>3. \A s \in Requests \ {r} : req'[s] = Idle
    BY <1>0, <1>1, <2>2 DEF CreateBoard
  <2>4. Idle.op # "create"
    BY DEF Idle, NewRequest
  <2>5. \A s, t \in Requests : req'[s].op = "create" => t = s \/ req'[t] = Idle
    BY <2>3, <2>4
  <2>6. UNCHANGED <<member, invite, clock>>
    BY <1>1 DEF CreateBoard
  <2>. QED
    BY <1>0, <2>1, <2>5, <2>6
<1>2. CASE Receive(r) /\ ~CreateBoard(r)
  <2>1. /\ board # "none" /\ ~Founding
        /\ UNCHANGED db
    BY <1>2, ReceiveAfterFounder
  <2>2. PICK q : q.op # "create" /\ req' = [req EXCEPT ![r] = q]
    BY <1>2, ReceiveAfterFounder
  <2>3. \A s \in Requests : req'[s].op # "create"
    BY <1>0, <2>1, <2>2
  <2>. QED
    BY <2>1, <2>3 DEF db
<1>3. CASE Proceed(r) \/ Fail(r)
  <2>1. req[r] # Idle
    BY <1>3, ProceedIsStarted DEF Fail
  <2>2. board # "none" /\ board' # "none"
    BY <1>0, <1>3, <2>1, BoardStaysCreated
  <2>3. \A s \in Requests : s # r => req'[s].op # "create"
    <3>1. \A s \in Requests : s # r => req'[s] = req[s]
      BY <1>0, <1>3, ProceedForm, WriteFinishes, ReadContinuesPlainly,
         FindNextChooses
      DEF Fail, Refuse, Finish, Continue, Choose
    <3>. QED
      BY <1>0, <2>1, <3>1
  <2>4. req'[r].op # "create"
    <3>1. CASE Finish(r)
      BY <1>0, <3>1 DEF Finish, Idle, NewRequest
    <3>2. CASE Read(r) \/ FindNextAdmin(r) \/ FindNextMember(r)
      <4>1. req[r].op # "create" /\ req[r] \in Request
        BY <1>0, <3>2, ReadersAreStarted
      <4>2. ASSUME NEW call, Continue(r, call)
            PROVE  req'[r].op = req[r].op
        BY <1>0, <4>1, <4>2 DEF Continue, Request
      <4>3. ASSUME NEW call, NEW u, Choose(r, call, u)
            PROVE  req'[r].op = req[r].op
        BY <1>0, <4>1, <4>3 DEF Choose, Request
      <4>. QED
        BY <3>1, <3>2, <4>1, <4>2, <4>3, ReadContinuesPlainly,
           FindNextChooses
    <3>. QED
      BY <1>3, <3>1, <3>2, ProceedForm, WriteFinishes DEF Fail, Refuse
  <2>. QED
    BY <2>2, <2>3, <2>4
<1>. QED
  BY <1>1, <1>2, <1>3

\* No invite of this board is sent; those that are pending were, or come from
\* another board.
NothingSent ==
    /\ \A i \in InviteIds \ ForeignIds :
          invite'[i].status = "unsent" <=> invite[i].status = "unsent"
    /\ \A i \in InviteIds :
          invite[i].status # "unsent" => invite'[i].status # "unsent"
    /\ \A i \in PendingInvites' :
          /\ invite'[i].recipient \in Users /\ invite'[i].role \in Role
          /\ invite[i].status # "unsent" =>
                i \in PendingInvites /\ invite'[i] = invite[i]

LEMMA NothingSentUnlessCreateInvite ==
    ASSUME MembershipInv, NEW r \in Requests,
           Receive(r) \/ Proceed(r) \/ Fail(r), ~CreateInvite(r)
    PROVE  NothingSent
<1>0. /\ \A i \in PendingInvites :
            invite[i].recipient \in Users /\ invite[i].role \in Role
      /\ invite \in [InviteIds -> Invite]
  BY DEF MembershipInv, InvitesTracked, TypeOK
<1>1. CASE UNCHANGED invite
  BY <1>0, <1>1 DEF NothingSent, PendingInvites
<1>2. ASSUME NEW i \in PendingInvites, NEW trace, CloseInvite(i, trace),
             trace.status \in {"accepted", "closed"}
      PROVE  NothingSent
  BY <1>0, <1>2 DEF NothingSent, CloseInvite, PendingInvites
<1>3. CASE DeleteBoardRow
  BY <1>0, <1>3
  DEF NothingSent, DeleteBoardRow, PendingHere, PendingInvites, Closed
<1>4. CASE Receive(r)
  BY <1>1, <1>4, ReceiveAfterFounder DEF CreateBoard, db
<1>5. CASE Write(r)
  BY <1>1, <1>2, <1>3, <1>5
  DEF Write, CreateBoardMember, DeleteBoard,
      TransferOwnershipAndRemoveMember, DeleteBoardMember,
      UpdateBoardMemberRole, DeleteInvite, AcceptInvite, CanAccept, Refuse, db,
      Closed, AcceptedBy
<1>. QED
  BY <1>1, <1>4, <1>5, ProceedForm, ReadContinuesPlainly, FindNextChooses
  DEF Fail, Refuse, db

LEMMA NothingSentElsewhere ==
    ASSUME MembershipInv, NEW i \in InviteIds, Elsewhere(i)
    PROVE  NothingSent
<1>0. /\ \A j \in PendingInvites :
            invite[j].recipient \in Users /\ invite[j].role \in Role
      /\ invite \in [InviteIds -> Invite]
  BY DEF MembershipInv, InvitesTracked, TypeOK
<1>1. CASE InviteElsewhere(i)
  <2>1. PICK u \in Users, role \in Role :
            invite' = [invite EXCEPT ![i] =
               [status |-> "pending", recipient |-> u, role |-> role]]
    BY <1>1 DEF InviteElsewhere
  <2>. QED
    BY <1>0, <1>1, <2>1 DEF InviteElsewhere, NothingSent, PendingInvites
<1>2. CASE SpendElsewhere(i)
  BY <1>0, <1>2
  DEF SpendElsewhere, CloseInvite, Closed, NothingSent, PendingInvites
<1>. QED
  BY <1>1, <1>2 DEF Elsewhere

\* What a request says about an invite.
SameSubject(q, p) ==
    q.op = p.op /\ q.by = p.by /\ q.role = p.role /\ q.invite = p.invite

LEMMA SubjectKept ==
    ASSUME MembershipInv, NEW r \in Requests, Proceed(r) \/ Fail(r)
    PROVE  \A s \in Requests : req'[s] = Idle \/ SameSubject(req'[s], req[s])
<1>0. req \in [Requests -> Request]
  BY DEF MembershipInv, TypeOK
<1>1. CASE Finish(r)
  BY <1>0, <1>1 DEF Finish, SameSubject
<1>2. ASSUME NEW call, Continue(r, call)
      PROVE  \A s \in Requests : SameSubject(req'[s], req[s])
  BY <1>0, <1>2 DEF Continue, SameSubject, Request
<1>3. ASSUME NEW call, NEW u, Choose(r, call, u)
      PROVE  \A s \in Requests : SameSubject(req'[s], req[s])
  BY <1>0, <1>3 DEF Choose, SameSubject, Request
<1>. QED
  BY <1>1, <1>2, <1>3, ProceedForm, WriteFinishes, ReadContinuesPlainly,
     FindNextChooses DEF Fail, Refuse

LEMMA TrackedWhenNothingSent ==
    ASSUME MembershipInv, NothingSent,
           \A s \in Requests : req'[s] = Idle \/ SameSubject(req'[s], req[s])
    PROVE  InvitesTracked'
<1>1. Idle.op = "none" /\ Idle.invite = NoInvite
  BY DEF Idle, NewRequest
<1>2. InvitesTracked
  BY DEF MembershipInv
<1>3. \A i \in PendingInvites' :
          invite'[i].recipient \in Users /\ invite'[i].role \in Role
  BY DEF NothingSent
<1>4. ASSUME NEW s \in Requests, req'[s].op = "invite"
      PROVE  /\ req'[s].invite \in InviteIds \ ForeignIds
             /\ invite'[req'[s].invite].status = "unsent"
             /\ \A t \in Requests : req'[t].invite = req'[s].invite => t = s
  <2>1. SameSubject(req'[s], req[s])
    BY <1>1, <1>4
  <2>. QED
    BY <1>1, <1>2, <1>4, <2>1, NoInviteIsNoId
    DEF InvitesTracked, NothingSent, SameSubject, HasOp
<1>5. ASSUME NEW s \in Requests, req'[s].op \in {"accept", "decline"}
      PROVE  /\ req'[s].invite \in InviteIds
             /\ invite'[req'[s].invite].status # "unsent"
             /\ req'[s].invite \in PendingInvites' =>
                   /\ invite'[req'[s].invite].recipient = req'[s].by
                   /\ invite'[req'[s].invite].role = req'[s].role
  <2>1. SameSubject(req'[s], req[s])
    BY <1>1, <1>5
  <2>. QED
    BY <1>2, <1>5, <2>1 DEF InvitesTracked, NothingSent, SameSubject, HasOp
<1>. QED
  BY <1>3, <1>4, <1>5 DEF InvitesTracked, HasOp

LEMMA TrackedWhenStarted ==
    ASSUME MembershipInv, UNCHANGED invite, NEW r \in Requests, NEW q,
           req' = [req EXCEPT ![r] = q],
           \/ /\ q.op \notin {"invite", "accept", "decline"}
              /\ q.invite = NoInvite
           \/ q.op = "invite" /\ q.invite \in FreshInviteIds
           \/ /\ q.op \in {"accept", "decline"}
              /\ q.invite \in PendingInvites
              /\ q.by = invite[q.invite].recipient
              /\ q.role = invite[q.invite].role
    PROVE  InvitesTracked'
<1>1. /\ InvitesTracked
      /\ req'[r] = q
      /\ \A s \in Requests \ {r} : req'[s] = req[s]
  BY DEF MembershipInv, TypeOK
<1>2. ASSUME NEW s \in Requests, req'[s].op = "invite"
      PROVE  /\ req'[s].invite \in InviteIds \ ForeignIds
             /\ invite'[req'[s].invite].status = "unsent"
             /\ \A t \in Requests : req'[t].invite = req'[s].invite => t = s
  BY <1>1, <1>2, NoInviteIsNoId
  DEF InvitesTracked, HasOp, FreshInviteIds, PendingInvites
<1>3. ASSUME NEW s \in Requests, req'[s].op \in {"accept", "decline"}
      PROVE  /\ req'[s].invite \in InviteIds
             /\ invite'[req'[s].invite].status # "unsent"
             /\ req'[s].invite \in PendingInvites' =>
                   /\ invite'[req'[s].invite].recipient = req'[s].by
                   /\ invite'[req'[s].invite].role = req'[s].role
  BY <1>1, <1>3 DEF InvitesTracked, HasOp, PendingInvites
<1>. QED
  BY <1>1, <1>2, <1>3 DEF InvitesTracked, HasOp, PendingInvites

LEMMA TrackedWhenReceived ==
    ASSUME MembershipInv, NEW r \in Requests, Receive(r)
    PROVE  InvitesTracked'
<1>. USE TrackedWhenStarted DEF GuardedStart, NewRequest
<1>1. CASE CreateBoard(r)
  <2>1. UNCHANGED invite
    BY <1>1 DEF CreateBoard
  <2>. QED
    BY <1>1, <2>1 DEF CreateBoard
<1>2. UNCHANGED invite
  BY <1>1, ReceiveAfterFounder DEF CreateBoard, db
<1>3. CASE RequestRemove(r)
  BY <1>2, <1>3 DEF RequestRemove
<1>4. CASE RequestRemoveMember(r)
  BY <1>2, <1>4 DEF RequestRemoveMember
<1>5. CASE RequestChangeRole(r)
  BY <1>2, <1>5 DEF RequestChangeRole
<1>6. CASE RequestInvite(r)
  BY <1>2, <1>6 DEF RequestInvite
<1>7. CASE FindInvite(r)
  <2>1. PICK i \in PendingInvites,
             answer \in {<<"accept", "acceptInvite">>,
                         <<"decline", "deleteInvite">>} :
            req' = [req EXCEPT ![r] =
                     NewRequest(answer[1], answer[2], invite[i].recipient,
                                Nobody, invite[i].role, i)]
    BY <1>7 DEF FindInvite
  <2>2. answer[1] \in {"accept", "decline"}
    OBVIOUS
  <2>. QED
    BY <1>2, <2>1, <2>2
<1>. QED
  BY <1>1, <1>3, <1>4, <1>5, <1>6, <1>7 DEF Receive

LEMMA TrackedWhenCreated ==
    ASSUME MembershipInv, NEW r \in Requests, CreateInvite(r), ~Refuse(r)
    PROVE  InvitesTracked'
<1>1. /\ InvitesTracked
      /\ invite \in [InviteIds -> Invite]
      /\ req[r].op = "invite"
      /\ req[r].user \in Users /\ req[r].role \in Role
  BY DEF MembershipInv, TypeOK, RequestsWellFormed, WellFormed, CreateInvite,
         At
<1>2. /\ invite' = [invite EXCEPT ![req[r].invite] =
              [status |-> "pending", recipient |-> req[r].user,
               role |-> req[r].role]]
      /\ Finish(r)
  BY DEF CreateInvite
<1>3. /\ req'[r] = Idle
      /\ \A s \in Requests \ {r} : req'[s] = req[s]
  BY <1>2 DEF MembershipInv, TypeOK, Finish
<1>4. Idle.op = "none" /\ Idle.invite = NoInvite
  BY DEF Idle, NewRequest
<1>5. \A i \in InviteIds : i # req[r].invite => invite'[i] = invite[i]
  BY <1>1, <1>2
<1>6. \A i \in PendingInvites' :
          invite'[i].recipient \in Users /\ invite'[i].role \in Role
  BY <1>1, <1>2 DEF InvitesTracked, PendingInvites
<1>7. ASSUME NEW s \in Requests, req'[s].op = "invite"
      PROVE  /\ req'[s].invite \in InviteIds \ ForeignIds
             /\ invite'[req'[s].invite].status = "unsent"
             /\ \A t \in Requests : req'[t].invite = req'[s].invite => t = s
  BY <1>1, <1>3, <1>4, <1>5, <1>7, NoInviteIsNoId DEF InvitesTracked, HasOp
<1>8. ASSUME NEW s \in Requests, req'[s].op \in {"accept", "decline"}
      PROVE  /\ req'[s].invite \in InviteIds
             /\ invite'[req'[s].invite].status # "unsent"
             /\ req'[s].invite \in PendingInvites' =>
                   /\ invite'[req'[s].invite].recipient = req'[s].by
                   /\ invite'[req'[s].invite].role = req'[s].role
  BY <1>1, <1>3, <1>4, <1>5, <1>8 DEF InvitesTracked, HasOp, PendingInvites
<1>. QED
  BY <1>6, <1>7, <1>8 DEF InvitesTracked, HasOp, PendingInvites

LEMMA TrackedKept ==
    ASSUME MembershipInv, NEW r \in Requests,
           Receive(r) \/ Proceed(r) \/ Fail(r)
    PROVE  InvitesTracked'
<1>1. CASE Receive(r)
  BY <1>1, TrackedWhenReceived
<1>2. CASE (Proceed(r) \/ Fail(r)) /\ (~CreateInvite(r) \/ Refuse(r))
  <2>1. NothingSent
    BY <1>2, NothingSentUnlessCreateInvite
    DEF Refuse, db, NothingSent, PendingInvites, MembershipInv, InvitesTracked
  <2>. QED
    BY <1>2, <2>1, SubjectKept, TrackedWhenNothingSent
<1>3. CASE CreateInvite(r) /\ ~Refuse(r)
  BY <1>3, TrackedWhenCreated
<1>. QED
  BY <1>1, <1>2, <1>3

LEMMA InvInitially == Init => MembershipInv
<1>. SUFFICES ASSUME Init PROVE MembershipInv
  OBVIOUS
<1>1. Idle.op = "none" /\ Idle.call = "idle"
  BY DEF Idle, NewRequest
<1>2. RequestsWellFormed
  BY <1>1 DEF Init, RequestsWellFormed, WellFormed
<1>3. InvitesTracked
  BY <1>1 DEF Init, InvitesTracked, HasOp, PendingInvites, Unsent
<1>4. NobodyBeforeFounder
  BY <1>1 DEF Init, NobodyBeforeFounder, HasOp, Unsent
<1>. QED
  BY <1>2, <1>3, <1>4, InitTypeOK DEF MembershipInv

LEMMA InvKept == MembershipInv /\ [Next]_vars => MembershipInv'
<1>. SUFFICES ASSUME MembershipInv, [Next]_vars PROVE MembershipInv'
  OBVIOUS
<1>1. CASE UNCHANGED vars
  <2>. USE <1>1 DEF vars
  <2>1. TypeOK'
    BY DEF TypeOK, MembershipInv
  <2>2. RequestsWellFormed'
    BY DEF RequestsWellFormed, MembershipInv
  <2>3. InvitesTracked'
    BY DEF InvitesTracked, HasOp, PendingInvites, MembershipInv
  <2>4. NobodyBeforeFounder'
    BY DEF NobodyBeforeFounder, Founding, HasOp, MembershipInv
  <2>. QED
    BY <2>1, <2>2, <2>3, <2>4 DEF MembershipInv
<1>2. ASSUME NEW r \in Requests, Receive(r) \/ Proceed(r) \/ Fail(r)
      PROVE  MembershipInv'
  <2>1. TypeOK'
    BY <1>2, ReceiveTypeOK, ProceedTypeOK, RefuseTypeOK
    DEF Fail, MembershipInv
  <2>. QED
    BY <1>2, <2>1, WellFormedKept, TrackedKept, FounderFirstKept
    DEF MembershipInv
<1>3. ASSUME NEW i \in InviteIds, Elsewhere(i) PROVE MembershipInv'
  <2>1. TypeOK' /\ UNCHANGED <<board, member, clock, req>>
    BY <1>3, ElsewhereTypeOK DEF MembershipInv
  <2>2. NothingSent
    BY <1>3, NothingSentElsewhere
  <2>3. RequestsWellFormed'
    BY <2>1 DEF RequestsWellFormed, MembershipInv
  <2>4. InvitesTracked'
    BY <2>1, <2>2, TrackedWhenNothingSent DEF SameSubject
  <2>5. NobodyBeforeFounder'
    BY <2>1, <2>2
    DEF NobodyBeforeFounder, Founding, HasOp, MembershipInv, NothingSent
  <2>. QED
    BY <2>1, <2>3, <2>4, <2>5 DEF MembershipInv
<1>. QED
  BY <1>1, <1>2, <1>3 DEF Next, Elsewhere

\* Requests carry current facts about the invites they act on, and none runs
\* before the board's founder has a row.
THEOREM MembershipInvariant == Spec => []MembershipInv
BY InvInitially, InvKept, PTL DEF Spec

-----------------------------------------------------------------------------
(* BoardMembership implements InviteLifecycle                              *)

LEMMA LifecycleInit == Init => Lifecycle!Init
BY DEF Init, Lifecycle!Init, Lifecycle!Gone, Unsent

LifecycleStutter == UNCHANGED <<board, member, invite>>

LEMMA WriteIsLifecycleStep ==
    ASSUME MembershipInv, NEW r \in Requests, Write(r)
    PROVE  Lifecycle!Next \/ LifecycleStutter
<1>0. TypeOK /\ WellFormed(req[r])
  BY DEF MembershipInv, RequestsWellFormed
<1>1. CASE Refuse(r)
  BY <1>1 DEF Refuse, db, LifecycleStutter
<1>2. CASE CreateBoardMember(r) /\ ~Refuse(r)
  <2>1. req[r].op = "create" /\ req[r].by \in Users
    BY <1>0, <1>2 DEF CreateBoardMember, At, WellFormed
  <2>2. Founding
    BY <2>1 DEF Founding
  <2>3. Lifecycle!Found(req[r].by)
    BY <1>2, <2>2
    DEF CreateBoardMember, InsertMember, CanInsertMember, Lifecycle!Found,
        MembershipInv, NobodyBeforeFounder
  <2>. QED
    BY <2>1, <2>3 DEF Lifecycle!Next
<1>3. CASE DeleteBoard(r) /\ ~Refuse(r)
  <2>1. Lifecycle!Dissolve
    BY <1>3
    DEF DeleteBoard, DeleteBoardRow, PendingHere, PendingInvites, Closed,
        Lifecycle!Dissolve, Lifecycle!Gone
  <2>. QED
    BY <2>1 DEF Lifecycle!Next
<1>4. CASE TransferOwnershipAndRemoveMember(r) /\ ~Refuse(r)
  <2>1. /\ req[r].by \in Users /\ IsMember(req[r].by)
        /\ req[r].next \in Users /\ req[r].next # req[r].by
    BY <1>0, <1>4
    DEF TransferOwnershipAndRemoveMember, CanTransfer, WellFormed
  <2>2. CASE req[r].call = "transfer"
    <3>1. Lifecycle!Leave(req[r].by)
      BY <1>0, <1>4, <2>1, <2>2
      DEF TransferOwnershipAndRemoveMember, Lifecycle!Leave, IsMember, TypeOK
    <3>. QED
      BY <2>1, <3>1 DEF Lifecycle!Next
  <2>3. CASE req[r].call = "promoteAndTransfer"
    <3>1. Lifecycle!Handover(req[r].by, req[r].next)
      BY <1>0, <1>4, <2>1, <2>3
      DEF TransferOwnershipAndRemoveMember, CanTransfer, Lifecycle!Handover,
          IsMember, TypeOK
    <3>. QED
      BY <2>1, <3>1 DEF Lifecycle!Next
  <2>. QED
    BY <1>4, <2>2, <2>3 DEF TransferOwnershipAndRemoveMember
<1>5. CASE DeleteBoardMember(r) /\ ~Refuse(r)
  <2>1. req[r].user \in Users
    BY <1>0, <1>5 DEF DeleteBoardMember, At, WellFormed
  <2>2. Lifecycle!Leave(req[r].user)
    BY <1>5 DEF DeleteBoardMember, Lifecycle!Leave, IsMember
  <2>. QED
    BY <2>1, <2>2 DEF Lifecycle!Next
<1>6. CASE UpdateBoardMemberRole(r) /\ ~Refuse(r)
  <2>1. req[r].user \in Users /\ req[r].role \in Role
    BY <1>0, <1>6 DEF UpdateBoardMemberRole, At, WellFormed
  <2>2. Lifecycle!ChangeRole(req[r].user, req[r].role)
    BY <1>6 DEF UpdateBoardMemberRole, Lifecycle!ChangeRole, IsMember
  <2>. QED
    BY <2>1, <2>2 DEF Lifecycle!Next, Lifecycle!Role, Role
<1>7. CASE CreateInvite(r) /\ ~Refuse(r)
  <2>1. /\ req[r].user \in Users /\ req[r].role \in Role
        /\ req[r].invite \in InviteIds
        /\ invite[req[r].invite].status = "unsent"
    BY <1>0, <1>7
    DEF CreateInvite, At, WellFormed, MembershipInv, InvitesTracked, HasOp
  <2>2. Lifecycle!Send(req[r].invite, req[r].user, req[r].role)
    BY <1>7, <2>1 DEF CreateInvite, Lifecycle!Send
  <2>. QED
    BY <2>1, <2>2 DEF Lifecycle!Next, Lifecycle!Role, Role
<1>8. CASE DeleteInvite(r) /\ ~Refuse(r)
  <2>1. Lifecycle!Close(req[r].invite) /\ req[r].invite \in InviteIds
    BY <1>8
    DEF DeleteInvite, CloseInvite, Closed, PendingInvites, Lifecycle!Close,
        Lifecycle!Gone
  <2>. QED
    BY <2>1 DEF Lifecycle!Next
<1>9. CASE AcceptInvite(r) /\ ~Refuse(r)
  <2>1. /\ req[r].invite \in InviteIds
        /\ invite[req[r].invite].recipient = req[r].by
        /\ invite[req[r].invite].role = req[r].role
    BY <1>9
    DEF AcceptInvite, CanAccept, At, MembershipInv, InvitesTracked, HasOp
  <2>2. Lifecycle!Accept(req[r].invite)
    BY <1>9, <2>1
    DEF AcceptInvite, CanAccept, CanInsertMember, IsMember, PendingInvites,
        InsertMember, CloseInvite, AcceptedBy, Lifecycle!Accept,
        Lifecycle!Gone
  <2>. QED
    BY <2>1, <2>2 DEF Lifecycle!Next
<1>. QED
  BY <1>1, <1>2, <1>3, <1>4, <1>5, <1>6, <1>7, <1>8, <1>9 DEF Write

LEMMA LifecycleStep ==
    MembershipInv /\ [Next]_vars => [Lifecycle!Next]_(Lifecycle!vars)
<1>. SUFFICES ASSUME MembershipInv, [Next]_vars
              PROVE  Lifecycle!Next \/ LifecycleStutter
  BY DEF Lifecycle!vars, LifecycleStutter
<1>1. CASE UNCHANGED vars
  BY <1>1 DEF vars, LifecycleStutter
<1>2. ASSUME NEW r \in Requests, CreateBoard(r)
      PROVE  Lifecycle!Next
  <2>1. Lifecycle!Open
    BY <1>2 DEF CreateBoard, Lifecycle!Open
  <2>. QED
    BY <2>1 DEF Lifecycle!Next
<1>3. ASSUME NEW r \in Requests, Receive(r), ~CreateBoard(r)
      PROVE  LifecycleStutter
  BY <1>3, ReceiveAfterFounder DEF db, LifecycleStutter
<1>4. ASSUME NEW r \in Requests, Proceed(r)
      PROVE  Lifecycle!Next \/ LifecycleStutter
  BY <1>4, ProceedForm, WriteIsLifecycleStep, ReadContinuesPlainly,
     FindNextChooses DEF db, LifecycleStutter
<1>5. ASSUME NEW r \in Requests, Fail(r)
      PROVE  LifecycleStutter
  BY <1>5 DEF Fail, Refuse, db, LifecycleStutter
<1>6. ASSUME NEW i \in InviteIds, InviteElsewhere(i)
      PROVE  Lifecycle!Next
  <2>1. PICK u \in Users, role \in Role : Lifecycle!Send(i, u, role)
    BY <1>6 DEF InviteElsewhere, Lifecycle!Send
  <2>. QED
    BY <2>1 DEF Lifecycle!Next, Lifecycle!Role, Role
<1>7. ASSUME NEW i \in InviteIds, SpendElsewhere(i)
      PROVE  Lifecycle!Next
  <2>1. Lifecycle!Close(i)
    BY <1>7
    DEF SpendElsewhere, CloseInvite, Closed, PendingInvites,
        Lifecycle!Close, Lifecycle!Gone
  <2>. QED
    BY <2>1 DEF Lifecycle!Next
<1>. QED
  BY <1>1, <1>2, <1>3, <1>4, <1>5, <1>6, <1>7 DEF Next

\* However requests interleave and die, after the founder users join only by
\* invites that were sent to them and are pending, of this board or another,
\* and each invite is consumed at most once, be it answered under the URLs of
\* two boards.
THEOREM InvitesAreSafe == Spec => InvitesFollowLifecycle
<1>1. Spec => Lifecycle!Spec
  BY LifecycleInit, LifecycleStep, MembershipInvariant, PTL
  DEF Spec, Lifecycle!Spec
<1>. QED
  BY <1>1 DEF InvitesFollowLifecycle

\* Ownership moves only in the step in which exactly one member's row goes,
\* not the new owner's, and nobody joins.
THEOREM OwnershipMovesOnce == Spec => OwnerHandsOverByLeaving
<1>1. ASSUME MembershipInv, [Next]_vars,
             board = "live", board' = "live", owner' # owner
      PROVE  \E u \in Users \ {owner'} :
                /\ IsMember(u) /\ ~IsMember(u)'
                /\ \A v \in Users \ {u} : IsMember(v)' <=> IsMember(v)
  <2>1. PICK r \in Requests : Proceed(r)
    BY <1>1, ReceiveAfterFounder, ElsewhereTypeOK
    DEF Next, vars, db, Fail, Refuse, CreateBoard, MembershipInv, Elsewhere
  <2>2. TransferOwnershipAndRemoveMember(r) /\ ~Refuse(r)
    BY <1>1, <2>1, ProceedForm, ReadContinuesPlainly, FindNextChooses
    DEF Write, db, Refuse, CreateBoardMember, DeleteBoard, DeleteBoardRow,
        DeleteBoardMember, UpdateBoardMemberRole, CreateInvite, DeleteInvite,
        AcceptInvite
  <2>3. req[r].by \in Users /\ req[r].next # req[r].by
    BY <1>1, <2>2
    DEF TransferOwnershipAndRemoveMember, MembershipInv, RequestsWellFormed,
        WellFormed
  <2>. QED
    BY <2>2, <2>3
    DEF TransferOwnershipAndRemoveMember, CanTransfer, IsMember
<1>. QED
  BY <1>1, MembershipInvariant, PTL DEF Spec, OwnerHandsOverByLeaving

-----------------------------------------------------------------------------
(* The owner of a live board is one of its ADMINs                          *)

\* Steps other than the founder's take place on a founded board.
LEMMA FoundedBeforeProceed ==
    ASSUME MembershipInv, OwnerSettled, NEW r \in Requests, Proceed(r),
           ~CreateBoardMember(r)
    PROVE  ~Founding /\ ~Founding'
<1>1. req[r].op # "create"
  <2>1. req[r].call # "createBoardMember"
    BY ProceedForm
    DEF Write, Read, DeleteBoard, TransferOwnershipAndRemoveMember,
        DeleteBoardMember, UpdateBoardMemberRole, CreateInvite, DeleteInvite,
        AcceptInvite, RemoveFindBoard, RemoveMemberFindBoard,
        RemoveMemberFindMember, ValidateAdminPermission, ChangeRoleFindBoard,
        ChangeRoleFindMember, CountAdmins, InviteFindBoard,
        FindPendingInvite, FindInvitee, FindNextAdmin, FindNextMember, At
  <2>. QED
    BY <2>1 DEF OwnerSettled, HasOp, HasCall
<1>2. ~Founding
  BY <1>1, ProceedIsStarted
  DEF Founding, MembershipInv, NobodyBeforeFounder, HasOp
<1>3. ~Founding'
  BY <1>2, SubjectKept DEF Founding, SameSubject, Idle, NewRequest
<1>. QED
  BY <1>2, <1>3

\* What a step does to the requests that act on a user who is not the owner.
NonOwnersKept ==
    \A s \in Requests : ActsOnNonOwner(req'[s]) =>
        \/ ActsOnNonOwner(req[s]) /\ req'[s].user = req[s].user
        \/ req'[s].user # owner

LEMMA ReadKeepsNonOwners ==
    ASSUME MembershipInv, NEW r \in Requests,
           Read(r) \/ FindNextAdmin(r) \/ FindNextMember(r)
    PROVE  NonOwnersKept
<1>0. req \in [Requests -> Request]
  BY DEF MembershipInv, TypeOK
<1>1. ~ActsOnNonOwner(Idle)
  BY DEF ActsOnNonOwner, Idle, NewRequest
<1>2. CASE Finish(r)
  BY <1>0, <1>1, <1>2 DEF Finish, NonOwnersKept
<1>3. ASSUME NEW call, Continue(r, call),
             \/ ~ActsOnNonOwner([req[r] EXCEPT !.call = call])
             \/ ActsOnNonOwner(req[r])
             \/ req[r].user # owner
      PROVE  NonOwnersKept
  <2>1. /\ req'[r] = [req[r] EXCEPT !.call = call]
        /\ req'[r].user = req[r].user
        /\ \A s \in Requests \ {r} : req'[s] = req[s]
    BY <1>0, <1>3 DEF Continue, Request
  <2>. QED
    BY <1>3, <2>1 DEF NonOwnersKept
<1>4. ASSUME NEW call \in {"transfer", "promoteAndTransfer"}, NEW u \in Users,
             Choose(r, call, u)
      PROVE  NonOwnersKept
  <2>1. /\ req'[r] = [req[r] EXCEPT !.call = call, !.next = u]
        /\ \A s \in Requests \ {r} : req'[s] = req[s]
    BY <1>0, <1>4 DEF Choose
  <2>2. ~ActsOnNonOwner(req'[r])
    BY <1>0, <1>4, <2>1 DEF Choose, ActsOnNonOwner, Request
  <2>. QED
    BY <2>1, <2>2 DEF NonOwnersKept
<1>5. CASE RemoveFindBoard(r) \/ InviteFindBoard(r) \/ FindPendingInvite(r)
             \/ FindInvitee(r)
  <2>1. \A call : ~ActsOnNonOwner([req[r] EXCEPT !.call = call])
    BY <1>0, <1>5
    DEF RemoveFindBoard, InviteFindBoard, FindPendingInvite, FindInvitee, At,
        ActsOnNonOwner, Request
  <2>. QED
    BY <1>2, <1>3, <1>5, <2>1
    DEF RemoveFindBoard, InviteFindBoard, FindPendingInvite, FindInvitee,
        ContinueIf
<1>6. CASE RemoveMemberFindMember(r) \/ ValidateAdminPermission(r)
             \/ ChangeRoleFindMember(r) \/ CountAdmins(r)
  <2>1. ActsOnNonOwner(req[r])
    BY <1>6
    DEF RemoveMemberFindMember, ValidateAdminPermission, CountAdmins,
        ChangeRoleFindMember, At, ActsOnNonOwner
  <2>. QED
    BY <1>2, <1>3, <1>6, <2>1
    DEF RemoveMemberFindMember, ValidateAdminPermission, CountAdmins,
        ChangeRoleFindMember, ContinueIf
<1>7. CASE ChangeRoleFindBoard(r)
  BY <1>2, <1>3, <1>7 DEF ChangeRoleFindBoard, ContinueIf
<1>8. ASSUME NEW call \in {"findNextAdmin", "findNextMember", "deleteBoard"},
             req[r].op = "removeMember"
      PROVE  ~ActsOnNonOwner([req[r] EXCEPT !.call = call])
  BY <1>0, <1>8 DEF ActsOnNonOwner, Request
<1>9. CASE RemoveMemberFindBoard(r)
  BY <1>2, <1>3, <1>8, <1>9 DEF RemoveMemberFindBoard, At
<1>10. CASE FindNextAdmin(r) \/ FindNextMember(r)
  <2>1. req[r].op = "removeMember"
    BY <1>10 DEF FindNextAdmin, FindNextMember, At
  <2>2. ASSUME NEW u \in OldestWithRole("ADMIN", req[r].by)
                         \cup OldestWithRole("MEMBER", req[r].by),
               NEW call \in {"transfer", "promoteAndTransfer"},
               req' = [req EXCEPT ![r].call = call, ![r].next = u]
        PROVE  NonOwnersKept
    BY <1>4, <2>1, <2>2 DEF Choose, OldestWithRole
  <2>. QED
    BY <1>3, <1>8, <1>10, <2>1, <2>2 DEF FindNextAdmin, FindNextMember
<1>. QED
  BY <1>5, <1>6, <1>7, <1>9, <1>10 DEF Read

LEMMA WriteKeepsNonOwners ==
    ASSUME MembershipInv, NEW r \in Requests, Finish(r)
    PROVE  NonOwnersKept
<1>1. ~ActsOnNonOwner(Idle)
  BY DEF ActsOnNonOwner, Idle, NewRequest
<1>. QED
  BY <1>1 DEF MembershipInv, TypeOK, Finish, NonOwnersKept

\* A step after which a live board's owner is the same and still an ADMIN.
LEMMA SettledByKeeping ==
    ASSUME MembershipInv, OwnerSettled, ~Founding, ~Founding', NonOwnersKept,
           board' = "live" =>
              /\ board = "live" /\ owner' = owner
              /\ member'[owner] = "ADMIN"
    PROVE  OwnerSettled'
<1>1. (board' = "live" /\ ~Founding')
         => owner' \in Users /\ member'[owner'] = "ADMIN"
  BY DEF OwnerSettled
<1>2. \A s \in Requests : req'[s].op # "create"
  BY DEF Founding
<1>3. \A s \in Requests : (board' = "live" /\ ActsOnNonOwner(req'[s]))
         => req'[s].user # owner'
  BY DEF OwnerSettled, NonOwnersKept
<1>. QED
  BY <1>1, <1>2, <1>3 DEF OwnerSettled, HasOp

LEMMA FounderSettles ==
    ASSUME MembershipInv, OwnerSettled, NEW r \in Requests,
           CreateBoardMember(r)
    PROVE  OwnerSettled'
<1>1. req[r].op = "create" /\ req[r].by \in Users
  BY DEF CreateBoardMember, At, MembershipInv, RequestsWellFormed, WellFormed
<1>2. board = "live" /\ owner = req[r].by
  BY <1>1 DEF OwnerSettled, HasOp
<1>3. /\ \A u \in Users : member[u] = "NONE"
      /\ \A s \in Requests : s # r => req[s] = Idle
  BY <1>1 DEF MembershipInv, NobodyBeforeFounder, Founding, HasOp
<1>4. InsertMember(req[r].by, "ADMIN") /\ Finish(r) /\ UNCHANGED <<board, owner>>
  BY <1>1, <1>2, <1>3 DEF CreateBoardMember, CanInsertMember, IsMember
<1>5. \A s \in Requests : req'[s] = Idle
  BY <1>3, <1>4 DEF Finish, MembershipInv, TypeOK
<1>6. ~ActsOnNonOwner(Idle) /\ Idle.op # "create"
  BY DEF ActsOnNonOwner, Idle, NewRequest
<1>7. member'[owner'] = "ADMIN"
  BY <1>1, <1>2, <1>4 DEF InsertMember, MembershipInv, TypeOK
<1>. QED
  BY <1>1, <1>2, <1>4, <1>5, <1>6, <1>7 DEF OwnerSettled, HasOp

LEMMA ReceiveSettled ==
    ASSUME MembershipInv, OwnerSettled, NEW r \in Requests, Receive(r)
    PROVE  OwnerSettled'
<1>0. req \in [Requests -> Request]
  BY DEF MembershipInv, TypeOK
<1>1. CASE CreateBoard(r)
  <2>1. PICK u \in Users :
            /\ board' = "live" /\ owner' = u
            /\ req' = [req EXCEPT ![r] =
                  NewRequest("create", "createBoardMember", u, Nobody,
                             "NONE", NoInvite)]
    BY <1>1 DEF CreateBoard
  <2>2. \A s \in Requests \ {r} : req'[s] = Idle
    BY <1>0, <1>1, <2>1
    DEF CreateBoard, MembershipInv, NobodyBeforeFounder
  <2>3. /\ req'[r].op = "create" /\ req'[r].by = u
        /\ req'[r].call = "createBoardMember"
    BY <1>0, <2>1 DEF NewRequest
  <2>4. ~ActsOnNonOwner(Idle) /\ Idle.op # "create"
    BY DEF ActsOnNonOwner, Idle, NewRequest
  <2>5. ~ActsOnNonOwner(req'[r])
    BY <2>3 DEF ActsOnNonOwner
  <2>6. Founding'
    BY <2>3 DEF Founding
  <2>. QED
    BY <2>1, <2>2, <2>3, <2>4, <2>5, <2>6 DEF OwnerSettled, HasOp, HasCall
<1>2. CASE ~CreateBoard(r)
  <2>1. ~Founding /\ UNCHANGED db
    BY <1>2, ReceiveAfterFounder
  <2>2. PICK q : /\ q.op # "create" /\ ~ActsOnNonOwner(q)
                 /\ req' = [req EXCEPT ![r] = q]
    BY <1>2, ReceiveAfterFounder
  <2>3. NonOwnersKept /\ ~Founding'
    BY <1>0, <2>1, <2>2 DEF NonOwnersKept, Founding
  <2>. QED
    BY <2>1, <2>3, SettledByKeeping DEF OwnerSettled, db
<1>. QED
  BY <1>1, <1>2

LEMMA ProceedSettled ==
    ASSUME MembershipInv, OwnerSettled, NEW r \in Requests, Proceed(r),
           ~CreateBoardMember(r),
           TransferOwnershipAndRemoveMember(r) => Refuse(r)
    PROVE  OwnerSettled'
<1>0. TypeOK /\ WellFormed(req[r])
  BY DEF MembershipInv, RequestsWellFormed
<1>1. ~Founding /\ ~Founding'
  BY FoundedBeforeProceed
<1>2. NonOwnersKept
  BY ProceedForm, WriteFinishes, WriteKeepsNonOwners, ReadKeepsNonOwners
<1>3. CASE UNCHANGED db
  BY <1>1, <1>2, <1>3, SettledByKeeping DEF OwnerSettled, db
<1>4. CASE DeleteBoard(r) /\ ~Refuse(r)
  BY <1>1, <1>2, <1>4, SettledByKeeping DEF DeleteBoard, DeleteBoardRow
<1>5. CASE DeleteBoardMember(r) /\ ~Refuse(r)
  <2>1. ActsOnNonOwner(req[r])
    BY <1>5 DEF DeleteBoardMember, At, ActsOnNonOwner
  <2>2. board' = "live" => member'[owner] = "ADMIN"
    BY <1>0, <1>1, <1>5, <2>1 DEF DeleteBoardMember, OwnerSettled, TypeOK
  <2>. QED
    BY <1>1, <1>2, <1>5, <2>2, SettledByKeeping DEF DeleteBoardMember
<1>6. CASE UpdateBoardMemberRole(r) /\ ~Refuse(r)
  <2>1. ActsOnNonOwner(req[r])
    BY <1>6 DEF UpdateBoardMemberRole, At, ActsOnNonOwner
  <2>2. board' = "live" => member'[owner] = "ADMIN"
    BY <1>0, <1>1, <1>6, <2>1 DEF UpdateBoardMemberRole, OwnerSettled, TypeOK
  <2>. QED
    BY <1>1, <1>2, <1>6, <2>2, SettledByKeeping DEF UpdateBoardMemberRole
<1>7. CASE CreateInvite(r) \/ DeleteInvite(r)
  BY <1>1, <1>2, <1>3, <1>7, SettledByKeeping
  DEF CreateInvite, DeleteInvite, Refuse, OwnerSettled
<1>8. CASE AcceptInvite(r) /\ ~Refuse(r)
  <2>1. CanInsertMember(req[r].by)
    BY <1>8 DEF AcceptInvite, CanAccept
  <2>2. board = "live" /\ req[r].by # owner
    BY <1>1, <2>1 DEF CanInsertMember, IsMember, OwnerSettled
  <2>3. member'[owner] = "ADMIN"
    BY <1>0, <1>1, <1>8, <2>2
    DEF AcceptInvite, InsertMember, OwnerSettled, TypeOK
  <2>. QED
    BY <1>1, <1>2, <1>8, <2>2, <2>3, SettledByKeeping DEF AcceptInvite
<1>. QED
  BY <1>3, <1>4, <1>5, <1>6, <1>7, <1>8, ProceedForm, ReadContinuesPlainly,
     FindNextChooses DEF Write, Refuse

LEMMA TransferEffect ==
    ASSUME MembershipInv, NEW r \in Requests,
           TransferOwnershipAndRemoveMember(r), ~Refuse(r)
    PROVE  /\ Proceed(r) /\ ~CreateBoardMember(r)
           /\ board = "live" /\ board' = "live"
           /\ owner' = req[r].next
           /\ req[r].next \in Users
           /\ member'[req[r].next] = "ADMIN" \/
                 /\ req[r].call = "transfer"
                 /\ member'[req[r].next] = member[req[r].next]
           /\ Finish(r)
<1>1. Proceed(r)
  BY DEF Proceed
<1>2. ~CreateBoardMember(r)
  BY DEF TransferOwnershipAndRemoveMember, CreateBoardMember, At
<1>3. req[r].next \in Users /\ req[r].next # req[r].by
  BY DEF TransferOwnershipAndRemoveMember, MembershipInv, RequestsWellFormed,
         WellFormed
<1>. QED
  BY <1>1, <1>2, <1>3 DEF TransferOwnershipAndRemoveMember, CanTransfer

LEMMA SettledUnchanged ==
    ASSUME OwnerSettled, UNCHANGED vars
    PROVE  OwnerSettled'
BY DEF vars, OwnerSettled, Founding, HasOp, HasCall

LEMMA SettledElsewhere ==
    ASSUME MembershipInv, OwnerSettled, NEW i \in InviteIds, Elsewhere(i)
    PROVE  OwnerSettled'
BY ElsewhereTypeOK DEF MembershipInv, OwnerSettled, Founding, HasOp, HasCall

LEMMA SettledInitially == Init => OwnerSettled /\ HeirIsCurrent
BY DEF Init, OwnerSettled, HeirIsCurrent, HasOp, HasCall, Idle, NewRequest,
       ActsOnNonOwner

\* With any number of concurrent requests, the owner keeps an ADMIN row as
\* long as the ownership does not move: the race of a leaving owner is the
\* only one that takes it away.
THEOREM OwnerIsAdminUntilHandover == Spec /\ NoHandover => []OwnerIsAdmin
<1>1. ASSUME MembershipInv, OwnerSettled, [Next]_vars, ~MayFail,
             owner' = owner \/ board = "none" \/ board' = "deleted"
      PROVE  OwnerSettled'
  <2>1. ASSUME NEW r \in Requests, TransferOwnershipAndRemoveMember(r),
               ~Refuse(r)
        PROVE  OwnerSettled'
    <3>1. ~Founding /\ ~Founding'
      BY <1>1, <2>1, TransferEffect, FoundedBeforeProceed
    <3>2. board = "live" /\ board' = "live" /\ owner' = owner
      BY <1>1, <2>1, TransferEffect
    <3>3. member'[owner] = "ADMIN"
      BY <1>1, <2>1, <3>1, <3>2, TransferEffect DEF OwnerSettled
    <3>4. NonOwnersKept
      BY <1>1, <2>1, TransferEffect, WriteKeepsNonOwners
    <3>. QED
      BY <1>1, <3>1, <3>2, <3>3, <3>4, SettledByKeeping
  <2>2. ASSUME NEW r \in Requests, Receive(r) \/ Proceed(r) \/ Fail(r)
        PROVE  OwnerSettled'
    <3>1. CASE Receive(r)
      BY <1>1, <3>1, ReceiveSettled
    <3>2. CASE Proceed(r)
      BY <1>1, <2>1, <3>2, ProceedSettled, FounderSettles
    <3>. QED
      BY <1>1, <2>2, <3>1, <3>2 DEF Fail
  <2>. QED
    BY <1>1, <2>2, SettledUnchanged, SettledElsewhere DEF Next, Elsewhere
<1>2. OwnerSettled => OwnerIsAdmin
  BY DEF OwnerSettled, OwnerIsAdmin
<1>3. Init => OwnerSettled
  BY SettledInitially
<1>4. ASSUME ~MayFail
      PROVE  /\ Spec
             /\ [][owner' = owner \/ board = "none" \/ board' = "deleted"]_vars
             => []OwnerIsAdmin
  <2>1. ASSUME MembershipInv, OwnerSettled, [Next]_vars,
               [owner' = owner \/ board = "none" \/ board' = "deleted"]_vars
        PROVE  OwnerSettled'
    BY <1>1, <1>4, <2>1, SettledUnchanged
  <2>. QED
    BY <1>2, <1>3, <2>1, MembershipInvariant, PTL DEF Spec
<1>. QED
  BY <1>4 DEF NoHandover

LEMMA HeirKept ==
    ASSUME MembershipInv, HeirIsCurrent, OneAtATime, [Next]_vars
    PROVE  HeirIsCurrent'
<1>0. TypeOK
  BY DEF MembershipInv
<1>1. CASE UNCHANGED vars
  BY <1>1 DEF vars, HeirIsCurrent, HasCall
<1>2. ASSUME NEW r \in Requests,
             \/ req'[r].call \notin {"findNextAdmin", "findNextMember",
                                     "transfer", "promoteAndTransfer"}
             \/ /\ board' = "live" => owner' = req'[r].by
                /\ req'[r].call = "transfer" => member'[req'[r].next] = "ADMIN"
      PROVE  HeirIsCurrent'
  BY <1>2 DEF OneAtATime, HeirIsCurrent, HasCall
<1>3. ASSUME NEW r \in Requests, Finish(r)
      PROVE  HeirIsCurrent'
  BY <1>0, <1>2, <1>3 DEF Finish, Idle, NewRequest, TypeOK
<1>4. ASSUME NEW r \in Requests, Receive(r)
      PROVE  HeirIsCurrent'
  <2>1. req'[r].call \in {"createBoardMember", "findBoardById",
                          "acceptInvite", "deleteInvite"}
    BY <1>0, <1>4
    DEF Receive, CreateBoard, RequestRemove, RequestRemoveMember,
        RequestChangeRole, RequestInvite, FindInvite, GuardedStart,
        NewRequest, TypeOK
  <2>. QED
    BY <1>2, <2>1
<1>5. ASSUME NEW r \in Requests, Read(r), ~RemoveMemberFindBoard(r)
      PROVE  HeirIsCurrent'
  <2>1. PICK call : /\ Finish(r) \/ Continue(r, call)
                    /\ call \notin {"findNextAdmin", "findNextMember",
                                    "transfer", "promoteAndTransfer"}
    BY <1>5
    DEF Read, RemoveFindBoard, RemoveMemberFindMember,
        ValidateAdminPermission, ChangeRoleFindBoard, ChangeRoleFindMember,
        CountAdmins, InviteFindBoard, FindPendingInvite, FindInvitee,
        ContinueIf
  <2>2. CASE Continue(r, call)
    <3>1. req'[r].call = call
      BY <1>0, <2>2 DEF Continue, TypeOK, Request
    <3>. QED
      BY <1>2, <2>1, <3>1
  <2>. QED
    BY <1>3, <2>1, <2>2
<1>6. ASSUME NEW r \in Requests, RemoveMemberFindBoard(r)
      PROVE  HeirIsCurrent'
  <2>1. CASE Continue(r, "findBoardMember")
    <3>1. req'[r].call = "findBoardMember"
      BY <1>0, <2>1 DEF Continue, TypeOK, Request
    <3>. QED
      BY <1>2, <3>1
  <2>2. CASE Continue(r, "findNextAdmin") /\ req[r].by = owner
    <3>1. /\ req'[r].call = "findNextAdmin" /\ req'[r].by = req[r].by
      BY <1>0, <2>2 DEF Continue, TypeOK, Request
    <3>. QED
      BY <1>2, <1>6, <2>2, <3>1 DEF RemoveMemberFindBoard, db
  <2>. QED
    BY <1>3, <1>6, <2>1, <2>2 DEF RemoveMemberFindBoard
<1>7. ASSUME NEW r \in Requests, FindNextAdmin(r) \/ FindNextMember(r)
      PROVE  HeirIsCurrent'
  <2>1. board = "live" => owner = req[r].by
    BY <1>7 DEF FindNextAdmin, FindNextMember, At, HeirIsCurrent, HasCall
  <2>2. UNCHANGED <<board, owner, member>>
    BY <1>7 DEF FindNextAdmin, FindNextMember, db
  <2>3. ASSUME NEW call, call # "transfer", Continue(r, call)
        PROVE  HeirIsCurrent'
    <3>1. req'[r].call = call /\ req'[r].by = req[r].by
      BY <1>0, <2>3 DEF Continue, TypeOK, Request
    <3>. QED
      BY <1>2, <2>1, <2>2, <2>3, <3>1
  <2>4. ASSUME NEW call, NEW u, call = "transfer" => member[u] = "ADMIN",
               req' = [req EXCEPT ![r].call = call, ![r].next = u]
        PROVE  HeirIsCurrent'
    <3>1. /\ req'[r].call = call /\ req'[r].by = req[r].by
          /\ req'[r].next = u
      BY <1>0, <2>4 DEF TypeOK, Request
    <3>. QED
      BY <1>2, <2>1, <2>2, <2>4, <3>1
  <2>. QED
    BY <1>7, <2>3, <2>4
    DEF FindNextAdmin, FindNextMember, OldestWithRole
<1>8. ASSUME NEW i \in InviteIds, Elsewhere(i)
      PROVE  HeirIsCurrent'
  BY <1>0, <1>8, ElsewhereTypeOK DEF HeirIsCurrent, HasCall
<1>. QED
  BY <1>1, <1>3, <1>4, <1>5, <1>6, <1>7, <1>8, ProceedForm, WriteFinishes
  DEF Next, OneAtATime, Fail, Elsewhere

\* One request at a time, whatever the handlers do (owners leave, admins are
\* demoted and removed), a live board has an owner with an ADMIN row.
THEOREM OwnerIsAdminOneAtATime == Spec /\ OneAtATime => []OwnerIsAdmin
<1>1. ASSUME MembershipInv, OwnerSettled, HeirIsCurrent, OneAtATime,
             [Next]_vars
      PROVE  OwnerSettled'
  <2>1. ASSUME NEW r \in Requests, TransferOwnershipAndRemoveMember(r),
               ~Refuse(r)
        PROVE  OwnerSettled'
    <3>1. owner' = req[r].next /\ req[r].next \in Users /\ Finish(r)
      BY <1>1, <2>1, TransferEffect
    <3>2. member'[owner'] = "ADMIN"
      BY <1>1, <2>1, <3>1, TransferEffect DEF HeirIsCurrent, HasCall
    <3>3. \A s \in Requests : req'[s] = Idle
      BY <1>1, <3>1 DEF OneAtATime, Finish, MembershipInv, TypeOK
    <3>4. ~ActsOnNonOwner(Idle) /\ Idle.op # "create"
      BY DEF ActsOnNonOwner, Idle, NewRequest
    <3>. QED
      BY <3>1, <3>2, <3>3, <3>4 DEF OwnerSettled, HasOp
  <2>2. ASSUME NEW r \in Requests, Receive(r) \/ Proceed(r) \/ Fail(r)
        PROVE  OwnerSettled'
    <3>1. CASE Receive(r)
      BY <1>1, <3>1, ReceiveSettled
    <3>2. CASE Proceed(r)
      BY <1>1, <2>1, <3>2, ProceedSettled, FounderSettles
    <3>. QED
      BY <1>1, <2>2, <3>1, <3>2 DEF Fail, OneAtATime
  <2>. QED
    BY <1>1, <2>2, SettledUnchanged, SettledElsewhere DEF Next, Elsewhere
<1>2. OwnerSettled => OwnerIsAdmin
  BY DEF OwnerSettled, OwnerIsAdmin
<1>3. ASSUME OneAtATime PROVE Spec => []OwnerIsAdmin
  <2>1. ASSUME MembershipInv, OwnerSettled, HeirIsCurrent, [Next]_vars
        PROVE  OwnerSettled' /\ HeirIsCurrent'
    BY <1>1, <1>3, <2>1, HeirKept
  <2>. QED
    BY <1>2, <2>1, SettledInitially, MembershipInvariant, PTL DEF Spec
<1>. QED
  BY <1>3

-----------------------------------------------------------------------------
(* Invites, one request at a time                                          *)

\* What an inviting request has read of its invitee still holds.
InviteeIsOutsider ==
    \A r \in Requests :
        /\ HasCall(r, {"findInvitee", "createInvite"}) =>
              \A i \in PendingHere : invite[i].recipient # req[r].user
        /\ HasCall(r, {"createInvite"}) => ~IsMember(req[r].user)

\* What an accepted invite of another board has recorded stays.
RecordsStay ==
    \A i \in InviteIds : invite[i].status = "accepted" => invite'[i] = invite[i]

\* No invite to the board is sent, and nobody joins.
NobodyComes ==
    /\ \A i \in PendingHere' :
          i \in PendingHere /\ invite'[i].recipient = invite[i].recipient
    /\ \A u \in Users : IsMember(u)' => IsMember(u)
    /\ RecordsStay

LEMMA OutsidersKeptWhenNobodyComes ==
    ASSUME MembershipInv, OneInvitePerOutsider, NobodyComes
    PROVE  OneInvitePerOutsider'
<1>1. \A i \in PendingHere : invite[i].recipient \in Users
  BY DEF MembershipInv, InvitesTracked, PendingHere
<1>2. \A u \in Users : CameByForeignInvite(u) => CameByForeignInvite(u)'
  BY ForeignIdsAreIds DEF NobodyComes, RecordsStay, CameByForeignInvite
<1>3. ASSUME NEW i \in PendingHere', IsMember(invite[i].recipient)'
      PROVE  CameByForeignInvite(invite[i].recipient)'
  <2>1. /\ i \in PendingHere /\ invite'[i].recipient = invite[i].recipient
        /\ invite[i].recipient \in Users
    BY <1>1, <1>3 DEF NobodyComes
  <2>2. IsMember(invite[i].recipient)
    BY <1>3, <2>1 DEF NobodyComes, IsMember
  <2>3. CameByForeignInvite(invite[i].recipient)
    BY <2>1, <2>2 DEF OneInvitePerOutsider
  <2>. QED
    BY <1>2, <2>1, <2>3 DEF CameByForeignInvite
<1>. QED
  BY <1>3 DEF NobodyComes, OneInvitePerOutsider

LEMMA WriteKeepsOutsiders ==
    ASSUME MembershipInv, OneInvitePerOutsider, InviteeIsOutsider,
           NEW r \in Requests, Write(r)
    PROVE  OneInvitePerOutsider'
<1>0. TypeOK /\ InvitesTracked
  BY DEF MembershipInv
<1>1. CASE Refuse(r)
  BY <1>1, OutsidersKeptWhenNobodyComes
  DEF NobodyComes, RecordsStay, Refuse, db, PendingHere, PendingInvites,
      IsMember
<1>2. CASE CreateBoardMember(r) /\ ~Refuse(r)
  <2>1. PendingHere' = {}
    BY <1>2
    DEF CreateBoardMember, At, MembershipInv, NobodyBeforeFounder, Founding,
        PendingHere, PendingInvites
  <2>. QED
    BY <2>1 DEF OneInvitePerOutsider
<1>3. CASE DeleteBoard(r) /\ ~Refuse(r)
  <2>1. PendingHere' = {}
    BY <1>3 DEF DeleteBoard, DeleteBoardRow, PendingHere, PendingInvites, Closed
  <2>. QED
    BY <2>1 DEF OneInvitePerOutsider
<1>4. CASE TransferOwnershipAndRemoveMember(r) /\ ~Refuse(r)
  <2>1. NobodyComes
    BY <1>4
    DEF NobodyComes, RecordsStay, TransferOwnershipAndRemoveMember,
        CanTransfer, IsMember, PendingHere, PendingInvites
  <2>. QED
    BY <2>1, OutsidersKeptWhenNobodyComes
<1>5. CASE (DeleteBoardMember(r) \/ UpdateBoardMemberRole(r)) /\ ~Refuse(r)
  <2>1. NobodyComes
    BY <1>0, <1>5
    DEF NobodyComes, RecordsStay, DeleteBoardMember, UpdateBoardMemberRole,
        IsMember, PendingHere, PendingInvites, TypeOK
  <2>. QED
    BY <2>1, OutsidersKeptWhenNobodyComes
<1>6. CASE CreateInvite(r) /\ ~Refuse(r)
  <2>1. /\ \A i \in PendingHere : invite[i].recipient # req[r].user
        /\ ~IsMember(req[r].user)
    BY <1>6 DEF InviteeIsOutsider, CreateInvite, At, HasCall
  <2>2. /\ \A i \in PendingHere' :
              \/ i = req[r].invite /\ invite'[i].recipient = req[r].user
              \/ /\ i # req[r].invite /\ i \in PendingHere
                 /\ invite'[i] = invite[i]
        /\ member' = member
    BY <1>0, <1>6 DEF CreateInvite, PendingHere, PendingInvites, TypeOK
  <2>3. \A u : CameByForeignInvite(u) => CameByForeignInvite(u)'
    <3>1. req[r].invite \notin ForeignIds
      BY <1>0, <1>6 DEF CreateInvite, At, InvitesTracked, HasOp
    <3>. QED
      BY <1>0, <1>6, <3>1, ForeignIdsAreIds
      DEF CreateInvite, CameByForeignInvite, TypeOK
  <2>. QED
    BY <2>1, <2>2, <2>3 DEF OneInvitePerOutsider, IsMember
<1>7. CASE DeleteInvite(r) /\ ~Refuse(r)
  <2>1. NobodyComes
    BY <1>0, <1>7
    DEF NobodyComes, RecordsStay, DeleteInvite, CloseInvite, Closed, IsMember,
        PendingHere, PendingInvites, TypeOK
  <2>. QED
    BY <2>1, OutsidersKeptWhenNobodyComes
<1>8. CASE AcceptInvite(r) /\ ~Refuse(r)
  <2>1. /\ req[r].invite \in PendingInvites
        /\ invite[req[r].invite].recipient = req[r].by
    BY <1>0, <1>8 DEF AcceptInvite, CanAccept, At, InvitesTracked, HasOp
  <2>2. \A i \in PendingHere' :
           i # req[r].invite /\ i \in PendingHere /\ invite'[i] = invite[i]
    BY <1>0, <1>8
    DEF AcceptInvite, CloseInvite, AcceptedBy, PendingHere, PendingInvites,
        TypeOK
  <2>3. \A i \in PendingHere : invite[i].recipient \in Users
    BY <1>0 DEF InvitesTracked, PendingHere
  <2>4. \A u \in Users : u # req[r].by => member'[u] = member[u]
    BY <1>0, <1>8 DEF AcceptInvite, InsertMember, TypeOK
  <2>5. \A u : CameByForeignInvite(u) => CameByForeignInvite(u)'
    BY <1>0, <1>8, <2>1, ForeignIdsAreIds
    DEF AcceptInvite, CloseInvite, CameByForeignInvite, PendingInvites, TypeOK
  <2>6. ASSUME NEW i \in PendingHere', IsMember(invite[i].recipient)'
        PROVE  CameByForeignInvite(invite[i].recipient)'
    <3>1. CASE invite[i].recipient # req[r].by
      BY <2>2, <2>3, <2>4, <2>5, <2>6, <3>1
      DEF OneInvitePerOutsider, IsMember, CameByForeignInvite
    <3>2. CASE invite[i].recipient = req[r].by
      <4>1. req[r].invite \in ForeignIds
        BY <2>1, <2>2, <2>6, <3>2 DEF OneInvitePerOutsider, PendingHere
      <4>2. invite'[req[r].invite] = AcceptedBy(req[r].by)
        BY <1>0, <1>8, <2>1
        DEF AcceptInvite, CloseInvite, PendingInvites, TypeOK
      <4>. QED
        BY <2>2, <2>6, <3>2, <4>1, <4>2 DEF CameByForeignInvite, AcceptedBy
    <3>. QED
      BY <3>1, <3>2
  <2>. QED
    BY <2>2, <2>6 DEF OneInvitePerOutsider
<1>. QED
  BY <1>1, <1>2, <1>3, <1>4, <1>5, <1>6, <1>7, <1>8 DEF Write

LEMMA OutsidersKept ==
    ASSUME MembershipInv, OneInvitePerOutsider, InviteeIsOutsider, OneAtATime,
           [Next]_vars
    PROVE  OneInvitePerOutsider' /\ InviteeIsOutsider'
<1>0. TypeOK
  BY DEF MembershipInv
<1>1. ASSUME UNCHANGED <<member, invite>> PROVE OneInvitePerOutsider'
  BY <1>1
  DEF OneInvitePerOutsider, PendingHere, PendingInvites, IsMember,
      CameByForeignInvite
<1>2. ASSUME NEW r \in Requests, NEW q \in Request, req'[r] = q,
             q.call \notin {"findInvitee", "createInvite"}
      PROVE  InviteeIsOutsider'
  BY <1>2 DEF OneAtATime, InviteeIsOutsider, HasCall
<1>3. ASSUME NEW r \in Requests, Finish(r) PROVE InviteeIsOutsider'
  BY <1>0, <1>2, <1>3, IdleIsRequest DEF Finish, Idle, NewRequest, TypeOK
<1>4. ASSUME NEW r \in Requests, NEW call \in Call \ {"findInvitee", "createInvite"},
             Continue(r, call)
      PROVE  InviteeIsOutsider'
  <2>1. req'[r] \in Request /\ req'[r].call = call
    BY <1>0, <1>4 DEF Continue, TypeOK, Request
  <2>. QED
    BY <1>2, <2>1
<1>5. CASE UNCHANGED vars
  BY <1>1, <1>5
  DEF vars, InviteeIsOutsider, HasCall, PendingHere, PendingInvites, IsMember
<1>6. ASSUME NEW r \in Requests, Receive(r)
      PROVE  OneInvitePerOutsider' /\ InviteeIsOutsider'
  <2>1. UNCHANGED <<member, invite>>
    BY <1>6
    DEF Receive, CreateBoard, RequestRemove, RequestRemoveMember,
        RequestChangeRole, RequestInvite, FindInvite, GuardedStart, db
  <2>2. req'[r] \in Request
    BY <1>0, <1>6, ReceiveTypeOK DEF TypeOK
  <2>3. req'[r].call \in {"createBoardMember", "findBoardById",
                          "acceptInvite", "deleteInvite"}
    BY <1>0, <1>6
    DEF Receive, CreateBoard, RequestRemove, RequestRemoveMember,
        RequestChangeRole, RequestInvite, FindInvite, GuardedStart,
        NewRequest, TypeOK
  <2>. QED
    BY <1>1, <1>2, <2>1, <2>2, <2>3
<1>7. ASSUME NEW r \in Requests, Read(r), ~FindPendingInvite(r), ~FindInvitee(r)
      PROVE  OneInvitePerOutsider' /\ InviteeIsOutsider'
  <2>1. /\ UNCHANGED db
        /\ \/ Finish(r)
           \/ \E call \in Call \ {"findInvitee", "createInvite"} : Continue(r, call)
    BY <1>7
    DEF Read, RemoveFindBoard, RemoveMemberFindBoard, RemoveMemberFindMember,
        ValidateAdminPermission, ChangeRoleFindBoard, ChangeRoleFindMember,
        CountAdmins, InviteFindBoard, ContinueIf, Call
  <2>. QED
    BY <1>1, <1>3, <1>4, <2>1 DEF db
<1>8. ASSUME NEW r \in Requests, FindPendingInvite(r) \/ FindInvitee(r)
      PROVE  OneInvitePerOutsider' /\ InviteeIsOutsider'
  <2>1. UNCHANGED <<member, invite>> /\ PendingHere' = PendingHere
    BY <1>8
    DEF FindPendingInvite, FindInvitee, ContinueIf, db, PendingHere,
        PendingInvites
  <2>2. CASE Finish(r)
    BY <1>1, <1>3, <2>1, <2>2
  <2>3. ASSUME NEW call, Continue(r, call)
        PROVE  req'[r].call = call /\ req'[r].user = req[r].user
    BY <1>0, <2>3 DEF Continue, TypeOK, Request
  <2>4. CASE FindPendingInvite(r) /\ Continue(r, "findInvitee")
    <3>1. \A i \in PendingHere : invite[i].recipient # req[r].user
      BY <2>4, <2>3, <1>0 DEF FindPendingInvite, ContinueIf, Finish, Idle,
         NewRequest, TypeOK
    <3>2. req'[r].call = "findInvitee" /\ req'[r].user = req[r].user
      BY <2>3, <2>4
    <3>. QED
      BY <1>1, <2>1, <3>1, <3>2 DEF OneAtATime, InviteeIsOutsider, HasCall
  <2>5. CASE FindInvitee(r) /\ Continue(r, "createInvite")
    <3>1. \A i \in PendingHere : invite[i].recipient # req[r].user
      BY <2>5 DEF FindInvitee, At, InviteeIsOutsider, HasCall
    <3>2. ~IsMember(req[r].user)
      BY <2>5, <2>3, <1>0 DEF FindInvitee, ContinueIf, Finish, Idle,
         NewRequest, TypeOK
    <3>3. req'[r].call = "createInvite" /\ req'[r].user = req[r].user
      BY <2>3, <2>5
    <3>. QED
      BY <1>1, <2>1, <3>1, <3>2, <3>3
      DEF OneAtATime, InviteeIsOutsider, HasCall, IsMember
  <2>. QED
    BY <1>8, <2>2, <2>4, <2>5 DEF FindPendingInvite, FindInvitee, ContinueIf
<1>9. ASSUME NEW r \in Requests, FindNextAdmin(r) \/ FindNextMember(r)
      PROVE  OneInvitePerOutsider' /\ InviteeIsOutsider'
  <2>1. UNCHANGED <<member, invite>>
    BY <1>9, FindNextChooses DEF db
  <2>2. \/ \E call \in {"findNextMember", "deleteBoard"} : Continue(r, call)
        \/ \E call \in {"transfer", "promoteAndTransfer"}, u \in Users :
              Choose(r, call, u)
    BY <1>9
    DEF FindNextAdmin, FindNextMember, OldestWithRole, Choose, At
  <2>3. ASSUME NEW call \in {"transfer", "promoteAndTransfer"}, NEW u \in Users,
               Choose(r, call, u)
        PROVE  InviteeIsOutsider'
    <3>1. req'[r].call = call /\ req'[r] \in Request
      BY <1>0, <2>3 DEF Choose, TypeOK, Request, Call, UserOrNobody
    <3>. QED
      BY <1>2, <3>1
  <2>4. {"findNextMember", "deleteBoard"} \subseteq Call \ {"findInvitee", "createInvite"}
    BY DEF Call
  <2>. QED
    BY <1>1, <1>4, <2>1, <2>2, <2>3, <2>4
<1>10. ASSUME NEW r \in Requests, Write(r)
       PROVE  OneInvitePerOutsider' /\ InviteeIsOutsider'
  BY <1>3, <1>10, WriteFinishes, WriteKeepsOutsiders
<1>11. ASSUME NEW r \in Requests, Fail(r)
       PROVE  OneInvitePerOutsider' /\ InviteeIsOutsider'
  BY <1>1, <1>3, <1>11 DEF Fail, Refuse, db
<1>12. ASSUME NEW i \in InviteIds, Elsewhere(i)
       PROVE  OneInvitePerOutsider' /\ InviteeIsOutsider'
  <2>1. UNCHANGED <<member, req>>
    BY <1>0, <1>12, ElsewhereTypeOK
  <2>2. NobodyComes
    BY <1>0, <1>12, <2>1
    DEF Elsewhere, InviteElsewhere, SpendElsewhere, CloseInvite, Closed,
        NobodyComes, RecordsStay, IsMember, PendingHere, PendingInvites, TypeOK
  <2>3. InviteeIsOutsider'
    BY <2>1, <2>2 DEF InviteeIsOutsider, HasCall, NobodyComes, IsMember
  <2>. QED
    BY <2>2, <2>3, OutsidersKeptWhenNobodyComes
<1>. QED
  BY <1>5, <1>6, <1>7, <1>8, <1>9, <1>10, <1>11, <1>12, ProceedForm
  DEF Next, Elsewhere

\* One request at a time, no user has two pending invites to the board, nor,
\* unless he came by an invite of another board, one beside a membership: the
\* checks of validateInviteEligibility suffice for invites that are answered
\* where they belong.
THEOREM InvitesGoToOutsidersOneAtATime ==
    Spec /\ OneAtATime => []OneInvitePerOutsider
<1>1. Init => OneInvitePerOutsider /\ InviteeIsOutsider
  BY DEF Init, OneInvitePerOutsider, InviteeIsOutsider, PendingHere,
         PendingInvites, Unsent, HasCall, Idle, NewRequest
<1>2. ASSUME OneAtATime PROVE Spec => []OneInvitePerOutsider
  <2>1. ASSUME MembershipInv, OneInvitePerOutsider, InviteeIsOutsider, [Next]_vars
        PROVE  OneInvitePerOutsider' /\ InviteeIsOutsider'
    BY <1>2, <2>1, OutsidersKept
  <2>. QED
    BY <1>1, <2>1, MembershipInvariant, PTL DEF Spec
<1>. QED
  BY <1>2

-----------------------------------------------------------------------------
(* BoardMembership implements AtomicBoard, one request at a time           *)

\* A set with a time for each element has one with the first time, so that a
\* search that finds no row ordered by joinedAt finds that there is none.
Before == {p \in Nat \X Nat : p[1] < p[2]}

LEMMA BeforeIsWellFounded == IsWellFoundedOn(Before, Nat)
BY NatLessThanWellFounded DEF OpToRel, Before

LEMMA SomebodyIsFirst ==
    ASSUME NEW S, S # {}, NEW time, \A s \in S : time[s] \in Nat
    PROVE  \E s \in S : \A t \in S : time[s] <= time[t]
<1>. DEFINE T == {time[s] : s \in S}
<1>1. T \subseteq Nat /\ T # {}
  OBVIOUS
<1>2. \E x \in T : \A y \in T : ~(<<y, x>> \in Before)
  <2>. HIDE DEF T
  <2>. QED
    BY <1>1, BeforeIsWellFounded, WFMin
<1>3. PICK x \in T : \A y \in T : ~(y < x)
  BY <1>1, <1>2 DEF Before
<1>4. PICK s \in S : time[s] = x
  OBVIOUS
<1>5. ASSUME NEW t \in S PROVE time[s] <= time[t]
  <2>1. time[t] \in T /\ time[t] \in Nat /\ time[s] \in Nat
    OBVIOUS
  <2>. QED
    BY <1>3, <1>4, <2>1
<1>. QED
  BY <1>5

LEMMA NoOldestMeansNone ==
    ASSUME TypeOK, NEW role, NEW u, OldestWithRole(role, u) = {}
    PROVE  {v \in Users : member[v] = role} \ {u} = {}
<1>. DEFINE S == {v \in Users : member[v] = role} \ {u}
<1>. SUFFICES ASSUME S # {} PROVE FALSE
  OBVIOUS
<1>1. \A v \in S : joinedAt[v] \in Nat
  BY DEF TypeOK
<1>2. PICK v \in S : \A w \in S : joinedAt[v] <= joinedAt[w]
  <2>. HIDE DEF S
  <2>. QED
    BY <1>1, SomebodyIsFirst
<1>. QED
  BY <1>2 DEF OldestWithRole

\* The handler of an owner who leaves.
Leaving(q) ==
    /\ q.op = "removeMember"
    /\ q.call \in {"findNextAdmin", "findNextMember", "transfer",
                   "promoteAndTransfer", "deleteBoard"}

\* What a handler has read is still so.
ReadsHold(q) ==
    /\ q.op = "create" => board = "live" /\ owner = q.by
    /\ q.op \in {"remove", "changeRole", "invite"} => member[q.by] = "ADMIN"
    /\ ActsOnNonOwner(q) => q.user # owner
    /\ (q.op = "removeMember" /\ q.call = "deleteBoardMember") =>
          q.by = q.user \/ member[q.by] = "ADMIN"
    /\ q.call = "deleteBoard" => q.op \in {"remove", "removeMember"}
    /\ Leaving(q) => owner = q.by
    /\ Leaving(q) /\ q.call \in {"findNextMember", "promoteAndTransfer",
                                 "deleteBoard"}
          => OldestWithRole("ADMIN", q.by) = {}
    /\ Leaving(q) /\ q.call = "deleteBoard"
          => OldestWithRole("MEMBER", q.by) = {}
    /\ q.call = "transfer" => q.next \in OldestWithRole("ADMIN", q.by)
    /\ q.call = "promoteAndTransfer" =>
          q.next \in OldestWithRole("MEMBER", q.by)

AllReadsHold == \A r \in Requests : ReadsHold(req[r])

\* q is the request in r as it goes on to its next call.
GoesOn(r, q, call) ==
    /\ q.op = req[r].op /\ q.by = req[r].by /\ q.user = req[r].user
    /\ q.call = call

LEMMA ReadsHoldKept ==
    ASSUME MembershipInv, AllReadsHold, OneAtATime, [Next]_vars
    PROVE  AllReadsHold'
<1>0. TypeOK
  BY DEF MembershipInv
<1>1. ASSUME NEW r \in Requests, NEW q, req'[r] = q, UNCHANGED db, ReadsHold(q)
      PROVE  AllReadsHold'
  BY <1>1
  DEF OneAtATime, AllReadsHold, ReadsHold, Leaving, ActsOnNonOwner,
      OldestWithRole, db
<1>2. ASSUME NEW r \in Requests, Finish(r) PROVE AllReadsHold'
  <2>1. \A s \in Requests : req'[s] = Idle
    BY <1>0, <1>2 DEF OneAtATime, Finish, TypeOK
  <2>. QED
    BY <2>1 DEF AllReadsHold, ReadsHold, Leaving, ActsOnNonOwner, Idle, NewRequest
<1>3. CASE UNCHANGED vars
  BY <1>3 DEF vars, AllReadsHold, ReadsHold, Leaving, ActsOnNonOwner,
              OldestWithRole
<1>4. ASSUME NEW r \in Requests, CreateBoard(r) PROVE AllReadsHold'
  <2>1. PICK u \in Users :
            /\ board' = "live" /\ owner' = u
            /\ req' = [req EXCEPT ![r] =
                 NewRequest("create", "createBoardMember", u, Nobody, "NONE",
                            NoInvite)]
    BY <1>4 DEF CreateBoard
  <2>2. \A s \in Requests :
          req'[s] = NewRequest("create", "createBoardMember", u, Nobody,
                               "NONE", NoInvite)
    BY <1>0, <2>1 DEF OneAtATime, TypeOK
  <2>. QED
    BY <2>1, <2>2 DEF AllReadsHold, ReadsHold, Leaving, ActsOnNonOwner, NewRequest
<1>5. ASSUME NEW r \in Requests, NEW op, NEW roles, NEW by, NEW user, NEW role,
             NEW i, GuardedStart(r, op, roles, by, user, role, i),
             \/ op \in {"remove", "changeRole", "invite"} /\ roles = {"ADMIN"}
             \/ op = "removeMember"
      PROVE  AllReadsHold'
  <2>1. /\ req'[r] = NewRequest(op, "findBoardById", by, user, role, i)
        /\ UNCHANGED db
    BY <1>0, <1>5 DEF GuardedStart, TypeOK
  <2>2. ReadsHold(NewRequest(op, "findBoardById", by, user, role, i))
    BY <1>5 DEF GuardedStart, ReadsHold, Leaving, ActsOnNonOwner, NewRequest
  <2>. QED
    BY <1>1, <2>1, <2>2
<1>6. ASSUME NEW r \in Requests, FindInvite(r) PROVE AllReadsHold'
  <2>1. PICK i \in PendingInvites,
             answer \in {<<"accept", "acceptInvite">>,
                         <<"decline", "deleteInvite">>} :
            req' = [req EXCEPT ![r] =
                     NewRequest(answer[1], answer[2], invite[i].recipient,
                                Nobody, invite[i].role, i)]
    BY <1>6 DEF FindInvite
  <2>. DEFINE q == NewRequest(answer[1], answer[2], invite[i].recipient,
                              Nobody, invite[i].role, i)
  <2>2. q.op \in {"accept", "decline"} /\ q.call \in {"acceptInvite", "deleteInvite"}
    BY DEF NewRequest
  <2>3. req'[r] = q
    BY <1>0, <2>1 DEF TypeOK
  <2>. HIDE DEF q
  <2>4. ReadsHold(q)
    BY <2>2 DEF ReadsHold, Leaving, ActsOnNonOwner
  <2>. QED
    BY <1>1, <1>6, <2>3, <2>4 DEF FindInvite
<1>7. ASSUME NEW r \in Requests, Receive(r) PROVE AllReadsHold'
  BY <1>4, <1>5, <1>6, <1>7
  DEF Receive, RequestRemove, RequestRemoveMember, RequestChangeRole,
      RequestInvite
<1>8. ASSUME NEW r \in Requests, NEW call,
             UNCHANGED db, Continue(r, call),
             \A q : GoesOn(r, q, call) => ReadsHold(q)
      PROVE  AllReadsHold'
  <2>. DEFINE q == req'[r]
  <2>1. GoesOn(r, q, call)
    BY <1>0, <1>8 DEF Continue, TypeOK, Request, GoesOn
  <2>2. ReadsHold(q)
    <3>. HIDE DEF q
    <3>. QED
      BY <1>8, <2>1
  <2>. QED
    BY <1>1, <1>8, <2>2
<1>9. ASSUME NEW r \in Requests, Read(r) PROVE AllReadsHold'
  <2>0. UNCHANGED db /\ ReadsHold(req[r])
    BY <1>9, ReadContinuesPlainly DEF AllReadsHold
  <2>1. CASE RemoveFindBoard(r) \/ RemoveMemberFindMember(r)
             \/ ValidateAdminPermission(r)
    <3>1. PICK call : /\ Finish(r) \/ Continue(r, call)
                      /\ \/ req[r].op = "remove" /\ call = "deleteBoard"
                         \/ /\ req[r].op = "removeMember"
                            /\ ActsOnNonOwner(req[r])
                            /\ call \in {"findRequester", "deleteBoardMember"}
                            /\ (call = "deleteBoardMember" /\ ~Finish(r)) =>
                                  \/ req[r].by = req[r].user
                                  \/ member[req[r].by] = "ADMIN"
      BY <2>1
      DEF RemoveFindBoard, RemoveMemberFindMember, ValidateAdminPermission,
          ContinueIf, At, ActsOnNonOwner
    <3>2. CASE ~Finish(r)
      <4>1. \A q : GoesOn(r, q, call) => ReadsHold(q)
        BY <2>0, <3>1, <3>2 DEF GoesOn, ReadsHold, Leaving, ActsOnNonOwner
      <4>. QED
        BY <1>8, <2>0, <3>1, <3>2, <4>1
    <3>. QED
      BY <1>2, <3>2
  <2>2. CASE RemoveMemberFindBoard(r)
    <3>1. CASE Continue(r, "findBoardMember") /\ req[r].user # owner
      <4>1. \A q : GoesOn(r, q, "findBoardMember") => ReadsHold(q)
        BY <2>0, <2>2, <3>1
        DEF GoesOn, ReadsHold, Leaving, ActsOnNonOwner, RemoveMemberFindBoard, At
      <4>. QED
        BY <1>8, <2>0, <3>1, <4>1
    <3>2. CASE Continue(r, "findNextAdmin") /\ req[r].by = owner
      <4>1. \A q : GoesOn(r, q, "findNextAdmin") => ReadsHold(q)
        BY <2>0, <2>2, <3>2
        DEF GoesOn, ReadsHold, Leaving, ActsOnNonOwner, RemoveMemberFindBoard, At
      <4>. QED
        BY <1>8, <2>0, <3>2, <4>1
    <3>. QED
      BY <1>2, <2>2, <3>1, <3>2 DEF RemoveMemberFindBoard
  <2>3. CASE ChangeRoleFindBoard(r) \/ ChangeRoleFindMember(r) \/ CountAdmins(r)
    <3>1. PICK call : /\ Finish(r) \/ Continue(r, call)
                      /\ req[r].op = "changeRole"
                      /\ ~Finish(r) => req[r].user # owner
                      /\ call \in {"findBoardMember", "countAdmins",
                                   "updateBoardMemberRole"}
      BY <2>0, <2>3
      DEF ChangeRoleFindBoard, ChangeRoleFindMember, CountAdmins, ContinueIf,
          At, ReadsHold, ActsOnNonOwner
    <3>2. CASE ~Finish(r)
      <4>1. \A q : GoesOn(r, q, call) => ReadsHold(q)
        BY <2>0, <3>1, <3>2 DEF GoesOn, ReadsHold, Leaving, ActsOnNonOwner
      <4>. QED
        BY <1>8, <2>0, <3>1, <3>2, <4>1
    <3>. QED
      BY <1>2, <3>2
  <2>4. CASE InviteFindBoard(r) \/ FindPendingInvite(r) \/ FindInvitee(r)
    <3>1. PICK call : /\ Finish(r) \/ Continue(r, call)
                      /\ req[r].op = "invite"
                      /\ call \in {"findPendingInvite", "findInvitee",
                                   "createInvite"}
      BY <2>4
      DEF InviteFindBoard, FindPendingInvite, FindInvitee, ContinueIf, At
    <3>2. CASE ~Finish(r)
      <4>1. \A q : GoesOn(r, q, call) => ReadsHold(q)
        BY <2>0, <3>1, <3>2 DEF GoesOn, ReadsHold, Leaving, ActsOnNonOwner
      <4>. QED
        BY <1>8, <2>0, <3>1, <3>2, <4>1
    <3>. QED
      BY <1>2, <3>2
  <2>. QED
    BY <1>9, <2>1, <2>2, <2>3, <2>4 DEF Read
<1>10. ASSUME NEW r \in Requests, FindNextAdmin(r) \/ FindNextMember(r)
       PROVE  AllReadsHold'
  <2>0. UNCHANGED db /\ ReadsHold(req[r]) /\ Leaving(req[r])
    BY <1>10 DEF FindNextAdmin, FindNextMember, At, AllReadsHold, Leaving
  <2>1. ASSUME NEW call, Continue(r, call),
               \/ call = "findNextMember"
               \/ call = "deleteBoard" /\ OldestWithRole("MEMBER", req[r].by) = {},
               OldestWithRole("ADMIN", req[r].by) = {}
        PROVE  AllReadsHold'
    <3>1. \A q : GoesOn(r, q, call) => ReadsHold(q)
      BY <2>0, <2>1 DEF GoesOn, ReadsHold, Leaving, ActsOnNonOwner
    <3>. QED
      BY <1>8, <2>0, <2>1, <3>1
  <2>2. ASSUME NEW call, NEW u,
               req' = [req EXCEPT ![r].call = call, ![r].next = u],
               \/ /\ call = "transfer"
                  /\ u \in OldestWithRole("ADMIN", req[r].by)
               \/ /\ call = "promoteAndTransfer"
                  /\ u \in OldestWithRole("MEMBER", req[r].by)
                  /\ OldestWithRole("ADMIN", req[r].by) = {}
        PROVE  AllReadsHold'
    <3>. DEFINE q == req'[r]
    <3>1. /\ q.op = req[r].op /\ q.by = req[r].by /\ q.call = call
          /\ q.next = u
      BY <1>0, <2>2 DEF TypeOK, Request
    <3>2. ReadsHold(q)
      <4>. HIDE DEF q
      <4>. QED
        BY <2>0, <2>2, <3>1 DEF ReadsHold, Leaving, ActsOnNonOwner
    <3>. QED
      BY <1>1, <2>0, <3>2
  <2>3. CASE FindNextAdmin(r)
    BY <2>1, <2>2, <2>3 DEF FindNextAdmin
  <2>4. CASE FindNextMember(r)
    <3>1. OldestWithRole("ADMIN", req[r].by) = {}
      BY <2>0, <2>4 DEF FindNextMember, At, ReadsHold
    <3>. QED
      BY <2>1, <2>2, <2>4, <3>1 DEF FindNextMember
  <2>. QED
    BY <1>10, <2>3, <2>4
<1>11. ASSUME NEW i \in InviteIds, Elsewhere(i) PROVE AllReadsHold'
  BY <1>0, <1>11, ElsewhereTypeOK
  DEF AllReadsHold, ReadsHold, Leaving, ActsOnNonOwner, OldestWithRole
<1>. QED
  BY <1>2, <1>3, <1>7, <1>9, <1>10, <1>11, ProceedForm, WriteFinishes
  DEF Next, Fail, OneAtATime, Elsewhere

LEMMA AtomicInit == Init => Atomic!Init
BY DEF Init, Atomic!Init, Atomic!Gone, Unsent, Founding, Idle, NewRequest

AtomicStutter ==
    /\ UNCHANGED <<member, joinedAt, clock, invite>>
    /\ \/ Founding /\ Founding'
       \/ board = "none" /\ owner = Nobody /\ Founding'
       \/ ~Founding /\ ~Founding' /\ UNCHANGED <<board, owner>>

\* Every write is one operation of AtomicBoard.
LEMMA WriteIsAtomicStep ==
    ASSUME MembershipInv, AllReadsHold, InviteeIsOutsider, OneAtATime,
           NEW r \in Requests, Write(r), ~Refuse(r)
    PROVE  Atomic!Next
<1>0. /\ TypeOK /\ WellFormed(req[r]) /\ ReadsHold(req[r])
      /\ req[r] \in Request
  BY DEF MembershipInv, RequestsWellFormed, AllReadsHold, TypeOK
<1>1. ~Founding'
  <2>1. \A s \in Requests : req'[s] = Idle
    BY <1>0, WriteFinishes DEF Finish, OneAtATime, TypeOK
  <2>. QED
    BY <2>1 DEF Founding, Idle, NewRequest
<1>2. Founding <=> req[r].op = "create"
  BY DEF OneAtATime, Founding
<1>3. CASE CreateBoardMember(r)
  <2>1. req[r].by \in Users
    BY <1>0, <1>3 DEF CreateBoardMember, At, WellFormed
  <2>2. Atomic!Create(req[r].by)
    BY <1>0, <1>1, <1>2, <1>3
    DEF CreateBoardMember, At, InsertMember, ReadsHold, Atomic!Create,
        Atomic!Join
  <2>. QED
    BY <2>1, <2>2 DEF Atomic!Next
<1>4. ASSUME req[r].op # "create"
      PROVE  ~Founding /\ ~Founding'
  BY <1>1, <1>2, <1>4
<1>5. CASE DeleteBoard(r)
  <2>1. req[r].op \in {"remove", "removeMember"} /\ req[r].by \in Users
    BY <1>0, <1>5 DEF DeleteBoard, ReadsHold, WellFormed
  <2>2. ~Founding /\ ~Founding'
    BY <1>4, <2>1
  <2>3. Atomic!Dissolve /\ board = "live"
    BY <1>5, <2>2
    DEF DeleteBoard, DeleteBoardRow, PendingHere, PendingInvites, Closed,
        Atomic!Dissolve, Atomic!PendingHere, Atomic!Pending, Atomic!Gone
  <2>4. CASE req[r].op = "remove"
    <3>1. Atomic!Delete(req[r].by)
      BY <1>0, <2>3, <2>4 DEF ReadsHold, Atomic!Delete
    <3>. QED
      BY <2>1, <3>1 DEF Atomic!Next
  <2>5. CASE req[r].op = "removeMember"
    <3>1. /\ owner = req[r].by
          /\ OldestWithRole("ADMIN", owner) = {}
          /\ OldestWithRole("MEMBER", owner) = {}
      BY <1>0, <1>5, <2>5 DEF DeleteBoard, ReadsHold, Leaving
    <3>2. Atomic!Candidates = {}
      <4>1. /\ {v \in Users : member[v] = "ADMIN"} \ {owner} = {}
            /\ {v \in Users : member[v] = "MEMBER"} \ {owner} = {}
        BY <1>0, <3>1, NoOldestMeansNone
      <4>. QED
        BY <2>2, <4>1 DEF Atomic!Candidates, Atomic!Holders
    <3>3. Atomic!LastOwnerLeaves
      BY <2>2, <2>3, <3>2 DEF Atomic!LastOwnerLeaves
    <3>. QED
      BY <3>3 DEF Atomic!Next
  <2>. QED
    BY <2>1, <2>4, <2>5
<1>6. CASE TransferOwnershipAndRemoveMember(r)
  <2>. DEFINE v == req[r].next
  <2>1. /\ req[r].op = "removeMember" /\ req[r].by \in Users
        /\ v \in Users /\ v # req[r].by
    BY <1>0, <1>6 DEF TransferOwnershipAndRemoveMember, WellFormed
  <2>2. ~Founding /\ ~Founding' /\ owner = req[r].by
    BY <1>0, <1>4, <1>6, <2>1
    DEF TransferOwnershipAndRemoveMember, ReadsHold, Leaving
  <2>3. CASE req[r].call = "transfer"
    <3>1. v \in OldestWithRole("ADMIN", owner)
      BY <1>0, <2>2, <2>3 DEF ReadsHold
    <3>2. /\ Atomic!Holders("ADMIN") \ {owner} # {}
          /\ Atomic!Candidates = Atomic!Holders("ADMIN") \ {owner}
      BY <2>2, <3>1 DEF OldestWithRole, Atomic!Candidates, Atomic!Holders
    <3>3. Atomic!IsHeir(v)
      BY <3>1, <3>2 DEF OldestWithRole, Atomic!IsHeir, Atomic!Holders
    <3>4. member' = [member EXCEPT ![owner] = "NONE", ![v] = "ADMIN"]
      BY <1>0, <1>6, <2>1, <2>2, <2>3, <3>1
      DEF TransferOwnershipAndRemoveMember, OldestWithRole, TypeOK
    <3>5. Atomic!OwnerLeaves(v)
      BY <1>6, <2>2, <3>3, <3>4
      DEF TransferOwnershipAndRemoveMember, CanTransfer, Atomic!OwnerLeaves
    <3>. QED
      BY <2>1, <3>5 DEF Atomic!Next
  <2>4. CASE req[r].call = "promoteAndTransfer"
    <3>1. v \in OldestWithRole("MEMBER", owner) /\ OldestWithRole("ADMIN", owner) = {}
      BY <1>0, <2>1, <2>2, <2>4 DEF ReadsHold, Leaving
    <3>2. Atomic!Holders("ADMIN") \ {owner} = {}
      BY <1>0, <3>1, NoOldestMeansNone DEF Atomic!Holders
    <3>3. Atomic!Candidates = Atomic!Holders("MEMBER") \ {owner}
      BY <2>2, <3>2 DEF Atomic!Candidates
    <3>4. Atomic!IsHeir(v)
      BY <3>1, <3>3 DEF OldestWithRole, Atomic!IsHeir, Atomic!Holders
    <3>5. member' = [member EXCEPT ![owner] = "NONE", ![v] = "ADMIN"]
      BY <1>0, <1>6, <2>1, <2>2, <2>4
      DEF TransferOwnershipAndRemoveMember, TypeOK
    <3>6. Atomic!OwnerLeaves(v)
      BY <1>6, <2>2, <3>4, <3>5
      DEF TransferOwnershipAndRemoveMember, CanTransfer, Atomic!OwnerLeaves
    <3>. QED
      BY <2>1, <3>6 DEF Atomic!Next
  <2>. QED
    BY <1>6, <2>3, <2>4 DEF TransferOwnershipAndRemoveMember
<1>7. CASE DeleteBoardMember(r)
  <2>1. req[r].op = "removeMember" /\ req[r].by \in Users /\ req[r].user \in Users
    BY <1>0, <1>7 DEF DeleteBoardMember, At, WellFormed
  <2>2. ~Founding /\ ~Founding'
    BY <1>4, <2>1
  <2>3. Atomic!Remove(req[r].by, req[r].user)
    BY <1>0, <1>7, <2>2
    DEF DeleteBoardMember, At, ReadsHold, ActsOnNonOwner, IsMember,
        Atomic!Remove, Atomic!IsMember
  <2>. QED
    BY <2>1, <2>3 DEF Atomic!Next
<1>8. CASE UpdateBoardMemberRole(r)
  <2>1. /\ req[r].op = "changeRole" /\ req[r].by \in Users
        /\ req[r].user \in Users /\ req[r].role \in Role
    BY <1>0, <1>8 DEF UpdateBoardMemberRole, At, WellFormed
  <2>2. ~Founding /\ ~Founding'
    BY <1>4, <2>1
  <2>3. Atomic!ChangeRole(req[r].by, req[r].user, req[r].role)
    BY <1>0, <1>8, <2>2
    DEF UpdateBoardMemberRole, At, ReadsHold, ActsOnNonOwner, IsMember,
        Atomic!ChangeRole, Atomic!IsMember
  <2>. QED
    BY <2>1, <2>3 DEF Atomic!Next, Atomic!Role, Role
<1>9. CASE CreateInvite(r)
  <2>1. /\ req[r].op = "invite" /\ req[r].by \in Users
        /\ req[r].user \in Users /\ req[r].role \in Role
        /\ req[r].invite \in InviteIds \ ForeignIds
        /\ invite[req[r].invite].status = "unsent"
    BY <1>0, <1>9
    DEF CreateInvite, At, WellFormed, MembershipInv, InvitesTracked, HasOp
  <2>2. ~Founding /\ ~Founding'
    BY <1>4, <2>1
  <2>3. /\ ~IsMember(req[r].user)
        /\ \A j \in PendingHere : invite[j].recipient # req[r].user
    BY <1>9 DEF CreateInvite, At, InviteeIsOutsider, HasCall
  <2>4. Atomic!Send(req[r].by, req[r].user, req[r].role, req[r].invite)
    BY <1>0, <1>9, <2>1, <2>2, <2>3
    DEF CreateInvite, ReadsHold, IsMember, PendingHere, PendingInvites,
        Atomic!Send, Atomic!IsMember, Atomic!PendingHere, Atomic!Pending
  <2>. QED
    BY <2>1, <2>4 DEF Atomic!Next, Atomic!Role, Role
<1>10. CASE DeleteInvite(r)
  <2>1. /\ req[r].op = "decline" /\ req[r].invite \in PendingInvites
        /\ req[r].invite \in InviteIds
    BY <1>10 DEF DeleteInvite, At, PendingInvites
  <2>2. ~Founding /\ ~Founding'
    BY <1>4, <2>1
  <2>3. Atomic!Close(req[r].invite)
    BY <1>10, <2>1, <2>2
    DEF DeleteInvite, CloseInvite, Closed, PendingInvites, Atomic!Close,
        Atomic!Pending, Atomic!Gone
  <2>. QED
    BY <2>1, <2>3 DEF Atomic!Next
<1>11. CASE AcceptInvite(r)
  <2>1. /\ req[r].op = "accept" /\ req[r].invite \in PendingInvites
        /\ req[r].invite \in InviteIds
        /\ invite[req[r].invite].recipient = req[r].by
        /\ invite[req[r].invite].role = req[r].role
    BY <1>11
    DEF AcceptInvite, CanAccept, At, PendingInvites, MembershipInv,
        InvitesTracked, HasOp
  <2>2. ~Founding /\ ~Founding'
    BY <1>4, <2>1
  <2>3. Atomic!Accept(req[r].invite)
    BY <1>11, <2>1, <2>2
    DEF AcceptInvite, CanAccept, CanInsertMember, IsMember, InsertMember,
        CloseInvite, AcceptedBy, PendingInvites, Atomic!Accept, Atomic!Join,
        Atomic!Pending, Atomic!IsMember, Atomic!Gone
  <2>. QED
    BY <2>1, <2>3 DEF Atomic!Next
<1>. QED
  BY <1>3, <1>5, <1>6, <1>7, <1>8, <1>9, <1>10, <1>11 DEF Write

\* A board that is not made yet is nobody's.
NoBoardNoOwner == board = "none" => owner = Nobody

LEMMA NoBoardNoOwnerKept ==
    ASSUME MembershipInv, NoBoardNoOwner, [Next]_vars
    PROVE  NoBoardNoOwner'
<1>1. CASE UNCHANGED vars
  BY <1>1 DEF vars, NoBoardNoOwner
<1>2. ASSUME NEW r \in Requests, Receive(r) PROVE NoBoardNoOwner'
  BY <1>2, ReceiveAfterFounder DEF CreateBoard, db, NoBoardNoOwner
<1>3. ASSUME NEW r \in Requests, Proceed(r) \/ Fail(r) PROVE NoBoardNoOwner'
  <2>1. board # "none"
    BY <1>3, ProceedIsStarted DEF Fail, MembershipInv, NobodyBeforeFounder
  <2>. QED
    BY <1>3, <2>1, BoardStaysCreated DEF NoBoardNoOwner
<1>. QED
  BY <1>1, <1>2, <1>3, ElsewhereTypeOK
  DEF Next, Elsewhere, MembershipInv, NoBoardNoOwner

\* The other steps leave the board alone, or make one that has no row yet.
LEMMA AtomicStep ==
    ASSUME MembershipInv, AllReadsHold, InviteeIsOutsider, NoBoardNoOwner,
           OneAtATime, [Next]_vars
    PROVE  [Atomic!Next]_(Atomic!vars)
<1>0. TypeOK
  BY DEF MembershipInv
<1>1. AtomicStutter => UNCHANGED Atomic!vars
  BY DEF AtomicStutter, Atomic!vars
<1>2. CASE UNCHANGED vars
  BY <1>2 DEF vars, Atomic!vars, Founding
<1>3. ASSUME NEW r \in Requests, UNCHANGED db, req[r].op # "create",
             req'[r].op # "create"
      PROVE  AtomicStutter
  BY <1>3 DEF OneAtATime, Founding, db, AtomicStutter
<1>4. ASSUME NEW r \in Requests, CreateBoard(r) PROVE AtomicStutter
  <2>1. req[r].op = "none" /\ req'[r].op = "create"
    BY <1>0, <1>4 DEF CreateBoard, Idle, NewRequest, TypeOK
  <2>2. ~Founding /\ Founding'
    BY <2>1 DEF OneAtATime, Founding
  <2>. QED
    BY <1>4, <2>2 DEF CreateBoard, NoBoardNoOwner, AtomicStutter
<1>5. ASSUME NEW r \in Requests, Receive(r), ~CreateBoard(r)
      PROVE  AtomicStutter
  <2>1. PICK q : q.op # "create" /\ req' = [req EXCEPT ![r] = q]
    BY <1>5, ReceiveAfterFounder
  <2>2. ~Founding /\ UNCHANGED db
    BY <1>5, ReceiveAfterFounder
  <2>3. req[r].op # "create" /\ req'[r].op # "create"
    BY <1>0, <2>1, <2>2 DEF Founding, TypeOK
  <2>. QED
    BY <1>3, <2>2, <2>3
<1>6. ASSUME NEW r \in Requests, Read(r) \/ FindNextAdmin(r) \/ FindNextMember(r)
      PROVE  AtomicStutter
  <2>1. req[r].op # "create"
    BY <1>6, ReadersAreStarted
  <2>2. UNCHANGED db
    BY <1>6, ReadContinuesPlainly, FindNextChooses
  <2>3. req'[r] = Idle \/ req'[r].op = req[r].op
    <3>1. Finish(r) => req'[r] = Idle
      BY <1>0 DEF Finish, TypeOK
    <3>2. \A call : Continue(r, call) => req'[r].op = req[r].op
      BY <1>0 DEF Continue, TypeOK, Request
    <3>3. \A call, u : Choose(r, call, u) => req'[r].op = req[r].op
      BY <1>0 DEF Choose, TypeOK, Request
    <3>. QED
      BY <1>6, <3>1, <3>2, <3>3, ReadContinuesPlainly, FindNextChooses
  <2>. QED
    BY <1>3, <2>1, <2>2, <2>3 DEF Idle, NewRequest
<1>7. ASSUME NEW r \in Requests, Write(r), Refuse(r)
      PROVE  AtomicStutter
  <2>1. CASE req[r].op # "create"
    BY <1>0, <1>3, <1>7, <2>1 DEF Refuse, Finish, Idle, NewRequest, TypeOK
  <2>2. CASE req[r].op = "create"
    <3>1. CreateBoardMember(r)
      BY <1>7, <2>2
      DEF Write, DeleteBoard, TransferOwnershipAndRemoveMember,
          DeleteBoardMember, UpdateBoardMemberRole, CreateInvite,
          DeleteInvite, AcceptInvite, At, AllReadsHold, ReadsHold,
          MembershipInv, RequestsWellFormed, WellFormed
    <3>2. Founding
      BY <2>2 DEF Founding
    <3>3. board = "live" /\ req[r].by \in Users /\ ~IsMember(req[r].by)
      BY <2>2, <3>2
      DEF AllReadsHold, ReadsHold, MembershipInv, NobodyBeforeFounder,
          RequestsWellFormed, WellFormed, IsMember
    <3>4. member'[req[r].by] = "ADMIN" /\ member[req[r].by] = "NONE"
      BY <1>0, <3>1, <3>3
      DEF CreateBoardMember, CanInsertMember, InsertMember, IsMember, TypeOK
    <3>. QED
      BY <1>7, <3>4 DEF Refuse, db
  <2>. QED
    BY <2>1, <2>2
<1>8. ASSUME NEW i \in InviteIds, InviteElsewhere(i) PROVE Atomic!Next
  <2>1. UNCHANGED <<board, owner, member, joinedAt, clock, req>>
    BY <1>8 DEF InviteElsewhere
  <2>2. PICK u \in Users, role \in Role : Atomic!SendElsewhere(i, u, role)
    BY <1>8, <2>1 DEF InviteElsewhere, Atomic!SendElsewhere, Founding
  <2>. QED
    BY <2>2 DEF Atomic!Next, Atomic!Role, Role
<1>9. ASSUME NEW i \in InviteIds, SpendElsewhere(i) PROVE Atomic!Next
  <2>1. Atomic!Close(i)
    BY <1>9
    DEF SpendElsewhere, CloseInvite, Closed, PendingInvites, Founding,
        Atomic!Close, Atomic!Pending, Atomic!Gone
  <2>. QED
    BY <2>1 DEF Atomic!Next
<1>. QED
  BY <1>1, <1>2, <1>4, <1>5, <1>6, <1>7, <1>8, <1>9, ProceedForm,
     WriteIsAtomicStep
  DEF Next, Fail, OneAtATime

\* One request at a time, every handler has the effect of one operation of
\* AtomicBoard: between two calls of a handler the board is as before, and a
\* board without its founder's row counts as none.
THEOREM HandlersAreAtomicOneAtATime == Spec /\ OneAtATime => HandlersAreAtomic
<1>1. Init => /\ OneInvitePerOutsider /\ InviteeIsOutsider
              /\ AllReadsHold /\ NoBoardNoOwner
  BY DEF Init, OneInvitePerOutsider, InviteeIsOutsider, PendingHere,
         PendingInvites, Unsent, HasCall, Idle, NewRequest, AllReadsHold, ReadsHold, Leaving,
         ActsOnNonOwner, NoBoardNoOwner
<1>2. ASSUME OneAtATime PROVE Spec => Atomic!Spec
  <2>1. ASSUME MembershipInv, OneInvitePerOutsider, InviteeIsOutsider,
               AllReadsHold, NoBoardNoOwner, [Next]_vars
        PROVE  /\ OneInvitePerOutsider' /\ InviteeIsOutsider'
               /\ AllReadsHold' /\ NoBoardNoOwner'
    BY <1>2, <2>1, OutsidersKept, ReadsHoldKept, NoBoardNoOwnerKept
  <2>2. ASSUME MembershipInv, InviteeIsOutsider, AllReadsHold, NoBoardNoOwner,
               [Next]_vars
        PROVE  [Atomic!Next]_(Atomic!vars)
    BY <1>2, <2>2, AtomicStep
  <2>. QED
    BY <1>1, <2>1, <2>2, AtomicInit, MembershipInvariant, PTL
    DEF Spec, Atomic!Spec
<1>. QED
  BY <1>2 DEF HandlersAreAtomic

=============================================================================
