----------------------------- MODULE MCRotation -----------------------------
(* Small rotations for TLC. *)
EXTENDS Rotation

CONSTANTS c1, c2, good, bad

MCWorkGood == [c \in Callers |-> <<good>>]
=============================================================================
