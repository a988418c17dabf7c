---------------------------- MODULE MCDocuments ----------------------------
(* A few processes over the documents, for TLC. *)
EXTENDS Documents, TLC

CONSTANTS p1, p2, n1, n2

Alike == Permutations(Procs) \cup Permutations(Names)
=============================================================================
