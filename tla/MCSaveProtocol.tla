---------------------------- MODULE MCSaveProtocol ----------------------------
(* Model values and symmetry for the runs of SaveProtocol. *)
EXTENDS SaveProtocol, TLC

CONSTANTS p1, s1, s2, t1, t2, v1, v2

Symmetry == Permutations(Saves) \cup Permutations(Texts)
=============================================================================
