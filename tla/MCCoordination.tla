--------------------------- MODULE MCCoordination ---------------------------
(* Model values for the runs of Coordination.                              *)
EXTENDS Coordination, TLC

CONSTANTS root, c1, c2, c3

\* The Runs that are not the root are told apart by nothing but their rows.
ChildSymmetry == Permutations(Runs \ {root})
=============================================================================
