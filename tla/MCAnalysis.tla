----------------------------- MODULE MCAnalysis ------------------------------
(* Analysis on small instances: the sets are given by the .cfg; the rows of *)
(* the table are alike.                                                     *)
EXTENDS Analysis, TLC

CONSTANTS t1, t2, t3, u1

\* Servers to the west of UTC, on it, and to the east.
MCZones == {-1, 0, 1}

Symmetry == Permutations(Tasks)

=============================================================================
