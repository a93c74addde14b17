--------------------------- MODULE InviteLifecycle ---------------------------
(***************************************************************************)
(* What the server promises about invites and membership, however its      *)
(* requests interleave and wherever they fail: after the founder, a user   *)
(* becomes a member only by an accepted invite, which is consumed by the   *)
(* same step and gives the role it was sent with; an invite is consumed at *)
(* most once; a deleted board has no members and no invites for ever.  The *)
(* invite need not be one of this board: ForeignIds are those of others.   *)
(***************************************************************************)
CONSTANTS Users, InviteIds, ForeignIds, Nobody

VARIABLES board, member, invite

vars == <<board, member, invite>>

Role == {"ADMIN", "MEMBER", "OBSERVER"}

\* No row, but a trace of what became of it.
Gone(status, u) == [status |-> status, recipient |-> u, role |-> "NONE"]

Init ==
    /\ board = "none"
    /\ member = [u \in Users |-> "NONE"]
    /\ invite = [i \in InviteIds |-> Gone("unsent", Nobody)]

Open ==
    /\ board = "none"
    /\ board' = "live"
    /\ UNCHANGED <<member, invite>>

\* The first member; no invite of the board can have been sent before.
Found(u) ==
    /\ board = "live"
    /\ \A v \in Users : member[v] = "NONE"
    /\ \A i \in InviteIds \ ForeignIds : invite[i].status = "unsent"
    /\ member' = [member EXCEPT ![u] = "ADMIN"]
    /\ UNCHANGED <<board, invite>>

\* A deleted board sends no invites; another board may be live.
Send(i, u, role) ==
    /\ board = "live" \/ i \in ForeignIds
    /\ invite[i].status = "unsent"
    /\ invite' = [invite EXCEPT ![i] =
            [status |-> "pending", recipient |-> u, role |-> role]]
    /\ UNCHANGED <<board, member>>

Accept(i) ==
    /\ board = "live"
    /\ invite[i].status = "pending"
    /\ member[invite[i].recipient] = "NONE"
    /\ member' = [member EXCEPT ![invite[i].recipient] = invite[i].role]
    /\ invite' = [invite EXCEPT ![i] = Gone("accepted", invite[i].recipient)]
    /\ UNCHANGED board

\* Declined, or consumed by what happens at another board.
Close(i) ==
    /\ invite[i].status = "pending"
    /\ invite' = [invite EXCEPT ![i] = Gone("closed", Nobody)]
    /\ UNCHANGED <<board, member>>

ChangeRole(u, role) ==
    /\ member[u] # "NONE"
    /\ member' = [member EXCEPT ![u] = role]
    /\ UNCHANGED <<board, invite>>

Leave(u) ==
    /\ member[u] # "NONE"
    /\ member' = [member EXCEPT ![u] = "NONE"]
    /\ UNCHANGED <<board, invite>>

\* The owner leaves and a member is promoted, at once.
Handover(u, v) ==
    /\ member[u] # "NONE" /\ member[v] # "NONE" /\ u # v
    /\ member' = [member EXCEPT ![u] = "NONE", ![v] = "ADMIN"]
    /\ UNCHANGED <<board, invite>>

Dissolve ==
    /\ board = "live"
    /\ board' = "deleted"
    /\ member' = [u \in Users |-> "NONE"]
    /\ invite' = [i \in InviteIds |->
                    IF invite[i].status = "pending" /\ i \notin ForeignIds
                    THEN Gone("closed", Nobody)
                    ELSE invite[i]]

Next ==
    \/ Open
    \/ Dissolve
    \/ \E u \in Users :
          Found(u) \/ Leave(u) \/ \E v \in Users : Handover(u, v)
    \/ \E u \in Users, role \in Role :
          ChangeRole(u, role) \/ \E i \in InviteIds : Send(i, u, role)
    \/ \E i \in InviteIds : Accept(i) \/ Close(i)

Spec == Init /\ [][Next]_vars

=============================================================================
