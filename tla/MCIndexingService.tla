--------------------------- MODULE MCIndexingService ---------------------------
(* Model values and symmetry for the runs of IndexingService. *)
EXTENDS IndexingService, TLC

CONSTANTS p1, p2, r1, r2, i1, i2, c1

Symmetry == Permutations(Projects) \cup Permutations(Inits)
=============================================================================
