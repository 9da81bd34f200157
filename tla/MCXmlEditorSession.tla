-------------------------- MODULE MCXmlEditorSession --------------------------
(* Model values and symmetry for the runs of XmlEditorSession. *)
EXTENDS XmlEditorSession

CONSTANTS q1, q2, q3, s1, s2

Symmetry == Permutations(Requests) \cup Permutations(Saves)
=============================================================================
