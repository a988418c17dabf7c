----------------------------- MODULE Positions ------------------------------
(***************************************************************************)
(* Lists cut down to a set of their positions: what a loop does that       *)
(* appends the entries that pass a test, or stops at a limit.  Without     *)
(* recursion, so that the proof modules can reason about it.               *)
(***************************************************************************)
EXTENDS Integers, Sequences, FiniteSets, Functions

(* The position of i among the positions I, counted from 1. *)
Rank(I, i) == Cardinality({j \in I : j =< i})

(* The entries of s at the positions I, in the order of s. *)
Keep(s, I) == [k \in 1..Cardinality(I) |-> s[CHOOSE i \in I : Rank(I, i) = k]]

(* The first n entries of s, or all of s when it is shorter. *)
UpTo(s, n) == Keep(s, {i \in DOMAIN s : i =< n})

(* The entries of s that pass a test. *)
Only(s, Test(_)) == Keep(s, {i \in DOMAIN s : Test(s[i])})

(* The lists of a list, one after the other: list i before list i + 1. *)
Joined(lists) ==
    LET spots        == UNION {{i} \X DOMAIN lists[i] : i \in DOMAIN lists}
        Before(p, q) == p[1] < q[1] \/ (p[1] = q[1] /\ p[2] =< q[2])
        Spot(k)      == CHOOSE p \in spots : Cardinality({q \in spots : Before(q, p)}) = k
    IN  [k \in 1..Cardinality(spots) |-> lists[Spot(k)[1]][Spot(k)[2]]]
=============================================================================
