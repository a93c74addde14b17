-------------------------- MODULE MCBoardMembership --------------------------
(* BoardMembership on small instances: the sets are given by the .cfg.     *)
EXTENDS BoardMembership, TLC

\* Neither users nor invites have an order, and request slots are alike; the
\* invites of the board are not exchanged with those of other boards.
Symmetry == Permutations(Users) \cup Permutations(InviteIds \ ForeignIds)
              \cup Permutations(ForeignIds) \cup Permutations(Requests)

=============================================================================
