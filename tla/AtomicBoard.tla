----------------------------- MODULE AtomicBoard -----------------------------
(***************************************************************************)
(* The membership rules of a board as the product states them: every       *)
(* operation is one step.  BoardMembership implements this specification   *)
(* when one request runs at a time and none dies half-way.  An invite may  *)
(* be one of another board (ForeignIds): accepting it under this board's   *)
(* URL is a join here all the same.                                        *)
(***************************************************************************)
EXTENDS Naturals

CONSTANTS Users, InviteIds, ForeignIds, Nobody

VARIABLES board, owner, member, joinedAt, clock, invite

vars == <<board, owner, member, joinedAt, clock, invite>>

Role == {"ADMIN", "MEMBER", "OBSERVER"}
IsMember(u) == member[u] # "NONE"
Holders(role) == {u \in Users : member[u] = role}
Pending(i) == invite[i].status = "pending"
PendingHere(i) == Pending(i) /\ i \notin ForeignIds

\* No row, but a trace of what became of it.
Gone(status, u) == [status |-> status, recipient |-> u, role |-> "NONE"]

Init ==
    /\ board = "none"
    /\ owner = Nobody
    /\ member = [u \in Users |-> "NONE"]
    /\ joinedAt = [u \in Users |-> 0]
    /\ clock = 1
    /\ invite = [i \in InviteIds |-> Gone("unsent", Nobody)]

Join(u, role) ==
    /\ member' = [member EXCEPT ![u] = role]
    /\ joinedAt' = [joinedAt EXCEPT ![u] = clock]
    /\ clock' = clock + 1

\* The creator owns the board and is its first ADMIN.
Create(u) ==
    /\ board = "none"
    /\ board' = "live"
    /\ owner' = u
    /\ Join(u, "ADMIN")
    /\ UNCHANGED invite

Dissolve ==
    /\ board' = "deleted"
    /\ owner' = Nobody
    /\ member' = [u \in Users |-> "NONE"]
    /\ joinedAt' = [u \in Users |-> 0]
    /\ invite' = [i \in InviteIds |->
                    IF PendingHere(i) THEN Gone("closed", Nobody) ELSE invite[i]]
    /\ UNCHANGED clock

Delete(u) == member[u] = "ADMIN" /\ Dissolve

\* Anyone but the owner may leave; an ADMIN may remove anyone but the owner.
Remove(by, u) ==
    /\ IsMember(u) /\ u # owner
    /\ by = u \/ member[by] = "ADMIN"
    /\ member' = [member EXCEPT ![u] = "NONE"]
    /\ joinedAt' = [joinedAt EXCEPT ![u] = 0]
    /\ UNCHANGED <<board, owner, clock, invite>>

\* The heir of a leaving owner: the ADMIN who joined first, or else the
\* MEMBER who joined first.  An OBSERVER never inherits.
Candidates == IF Holders("ADMIN") \ {owner} # {}
              THEN Holders("ADMIN") \ {owner}
              ELSE Holders("MEMBER") \ {owner}

IsHeir(v) == /\ v \in Candidates
             /\ \A w \in Candidates : joinedAt[v] <= joinedAt[w]

OwnerLeaves(v) ==
    /\ board = "live"
    /\ IsHeir(v)
    /\ owner' = v
    /\ member' = [member EXCEPT ![owner] = "NONE", ![v] = "ADMIN"]
    /\ joinedAt' = [joinedAt EXCEPT ![owner] = 0]
    /\ UNCHANGED <<board, clock, invite>>

LastOwnerLeaves == board = "live" /\ Candidates = {} /\ Dissolve

ChangeRole(by, u, role) ==
    /\ member[by] = "ADMIN"
    /\ IsMember(u) /\ u # owner
    /\ member' = [member EXCEPT ![u] = role]
    /\ UNCHANGED <<board, owner, joinedAt, clock, invite>>

\* Only users who are neither members nor already invited are invited.
Send(by, u, role, i) ==
    /\ member[by] = "ADMIN"
    /\ ~IsMember(u)
    /\ \A j \in InviteIds : PendingHere(j) => invite[j].recipient # u
    /\ i \notin ForeignIds /\ invite[i].status = "unsent"
    /\ invite' = [invite EXCEPT ![i] =
            [status |-> "pending", recipient |-> u, role |-> role]]
    /\ UNCHANGED <<board, owner, member, joinedAt, clock>>

Accept(i) ==
    /\ board = "live"
    /\ Pending(i)
    /\ ~IsMember(invite[i].recipient)
    /\ Join(invite[i].recipient, invite[i].role)
    /\ invite' = [invite EXCEPT ![i] = Gone("accepted", invite[i].recipient)]
    /\ UNCHANGED <<board, owner>>

\* Declined, or consumed by what happens at another board.
Close(i) ==
    /\ Pending(i)
    /\ invite' = [invite EXCEPT ![i] = Gone("closed", Nobody)]
    /\ UNCHANGED <<board, owner, member, joinedAt, clock>>

\* Other boards send invites as well.
SendElsewhere(i, u, role) ==
    /\ i \in ForeignIds /\ invite[i].status = "unsent"
    /\ invite' = [invite EXCEPT ![i] =
            [status |-> "pending", recipient |-> u, role |-> role]]
    /\ UNCHANGED <<board, owner, member, joinedAt, clock>>

Next ==
    \/ \E u \in Users : Create(u) \/ Delete(u) \/ OwnerLeaves(u)
    \/ LastOwnerLeaves
    \/ \E u, v \in Users :
          \/ Remove(u, v)
          \/ \E role \in Role : \/ ChangeRole(u, v, role)
                                \/ \E i \in InviteIds : Send(u, v, role, i)
    \/ \E i \in InviteIds :
          \/ Accept(i) \/ Close(i)
          \/ \E u \in Users, role \in Role : SendElsewhere(i, u, role)

Spec == Init /\ [][Next]_vars

=============================================================================
