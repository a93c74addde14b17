---------------------------- MODULE TaskSequences ----------------------------
(***************************************************************************)
(* What the position fields of a board stand for: every list is a          *)
(* sequence of tasks.  A new task joins the end of its list, a deleted one *)
(* leaves the others in their order, and a placed one is taken out and put *)
(* back at the index asked for, in its own list or in another one.         *)
(***************************************************************************)
EXTENDS SequencesExt

CONSTANTS Lists, Tasks

VARIABLE inList   \* inList[l]: the tasks of list l, in order

Empty == [l \in Lists |-> <<>>]

Holding(t) == {l \in Lists : Contains(inList[l], t)}

IndexOf(t, l) == CHOOSE i \in 1..Len(inList[l]) : inList[l][i] = t

Without(t) == [l \in Lists |->
                 IF l \in Holding(t) THEN RemoveAt(inList[l], IndexOf(t, l))
                 ELSE inList[l]]

Add(l, t) ==
    /\ Holding(t) = {}
    /\ inList' = [inList EXCEPT ![l] = Append(@, t)]

Drop(t) ==
    /\ Holding(t) # {}
    /\ inList' = Without(t)

Put(t, l, i) ==
    /\ Holding(t) # {}
    /\ i \in 1..(Len(Without(t)[l]) + 1)
    /\ inList' = [Without(t) EXCEPT ![l] = InsertAt(@, i, t)]

Next ==
    \E t \in Tasks :
      \/ Drop(t)
      \/ \E l \in Lists :
           \/ Add(l, t)
           \/ \E i \in 1..(Len(inList[l]) + 1) : Put(t, l, i)

Spec == inList = Empty /\ [][Next]_inList

=============================================================================
