--------------------------- MODULE MCUserAccount ----------------------------
(***************************************************************************)
(* UserAccount on small instances: the sets are given by the .cfg.  The    *)
(* history variable calm is TRUE as long as requests have come one at a    *)
(* time and none has failed.                                               *)
(***************************************************************************)
EXTENDS UserAccount, FiniteSets, TLC

VARIABLE calm

MCInit == Init /\ calm = TRUE

Busy == {r \in Requests : req[r] # Idle}

OneAtATime == Cardinality(Busy') <= 1

MCNext ==
    /\ Next
    /\ calm' = (calm /\ OneAtATime /\ \A r \in Requests : ~Fail(r))

MCSpec == MCInit /\ [][MCNext]_<<vars, calm>>

\* Keys have no order, and request slots are alike.
Symmetry == Permutations(Keys) \cup Permutations(Requests)

-----------------------------------------------------------------------------

\* An upload removes the object it replaces: a live user has at most the one
\* object his row names.  Overlapping and failing uploads leave others.
CalmOneObject ==
    calm /\ exists /\ (\A r \in Requests : req[r] = Idle) => objects \subseteq {image}

-----------------------------------------------------------------------------
(* The inductive invariant behind it *)

\* An object that is not the row's is the one that a handler has uploaded, or
\* the one it deletes next; what it has read of the row is still there.
OtherObjectsHaveAHandler ==
    /\ \A r \in Requests :
          req[r].call \in {"uploadFile", "updateUserAvatar"} => req[r].oldKey = image
    /\ \A k \in objects \ {image} :
          \E r \in Requests :
             \/ At(r, "updateUserAvatar") /\ req[r].key = k
             \/ At(r, "deleteFile") /\ req[r].oldKey = k

CalmInv ==
    /\ IsFiniteSet(Busy)
    /\ calm => /\ \A r, s \in Busy : r = s
               /\ exists => OtherObjectsHaveAHandler

=============================================================================
