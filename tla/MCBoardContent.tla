--------------------------- MODULE MCBoardContent ---------------------------
(* BoardContent on small instances, with two boards: the sets are given by *)
(* the .cfg.                                                               *)
EXTENDS BoardContent, TLC

CONSTANT OtherLists   \* the lists of the second board

TwoBoards == [l \in Lists |-> IF l \in OtherLists THEN 2 ELSE 1]

\* A .cfg has no negative numbers.
BesideZero == {-1, 1}

\* Ids have no order, and request slots are alike.
Symmetry == Permutations(Lists \ OtherLists) \cup Permutations(OtherLists)
              \cup Permutations(Tasks) \cup Permutations(Requests)

=============================================================================
