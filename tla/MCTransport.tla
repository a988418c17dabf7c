----------------------------- MODULE MCTransport ----------------------------
(* Small clients for TLC. *)
EXTENDS Transport, TLC

CONSTANTS c1, c2

Identical == Permutations(Callers)
=============================================================================
