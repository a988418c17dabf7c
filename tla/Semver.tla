------------------------------- MODULE Semver -------------------------------
(***************************************************************************)
(* The order of versions (internal/update/semver.go).  A version is its    *)
(* three numbers and the identifiers behind the dash; build metadata is    *)
(* cut off while parsing, and a tag that does not parse is not valid.      *)
(***************************************************************************)
EXTENDS Integers, Sequences

CONSTANT MaxUint    \* what a number that is too long is read as

ASSUME SemverAssumption == MaxUint \in Nat

(* An identifier: a number, or a word by its place in the order of words. *)
Number(n) == [numeric |-> TRUE, value |-> n]
Word(n)   == [numeric |-> FALSE, value |-> n]

(* What parsing a tag can yield. *)
Identifiers    == [numeric : BOOLEAN, value : Nat]
ParsedVersions == [valid : BOOLEAN, core : {c \in Seq(Nat) : Len(c) = 3},
                   identifiers : Seq(Identifiers)]

Version(core, identifiers) == [valid |-> TRUE, core |-> core, identifiers |-> identifiers]
Invalid == [valid |-> FALSE, core |-> <<0, 0, 0>>, identifiers |-> <<>>]

ParseUint(id) == IF id.value > MaxUint THEN MaxUint ELSE id.value

(* -1, 0 or 1, as the first place where two lists differ decides. *)
AtFirstDifference(a, b, Order(_, _), otherwise) ==
    LET both == {i \in DOMAIN a \cap DOMAIN b : Order(a[i], b[i]) # 0}
    IN  IF both = {} THEN otherwise
        ELSE LET i == CHOOSE i \in both : \A j \in both : i =< j IN Order(a[i], b[i])

CompareNumbers(x, y) == IF x < y THEN -1 ELSE IF x > y THEN 1 ELSE 0

CompareIdentifiers(x, y) ==
    IF x.numeric # y.numeric
    THEN IF x.numeric THEN -1 ELSE 1
    ELSE IF x.numeric THEN CompareNumbers(ParseUint(x), ParseUint(y))
    ELSE CompareNumbers(x.value, y.value)

\* Faulty variant.
ComparePrereleaseShorterWins(a, b) ==
    IF a = <<>> \/ b = <<>>
    THEN CompareNumbers(Len(b), Len(a))
    ELSE AtFirstDifference(a, b, CompareIdentifiers, CompareNumbers(Len(b), Len(a)))

(* A version without identifiers outranks one that has some. *)
ComparePrerelease(a, b) ==
    IF a = <<>> \/ b = <<>>
    THEN CompareNumbers(Len(b), Len(a))
    ELSE AtFirstDifference(a, b, CompareIdentifiers, CompareNumbers(Len(a), Len(b)))

(* An invalid version sorts below every valid one. *)
Compare(a, b) ==
    IF a.valid /\ b.valid
    THEN AtFirstDifference(a.core, b.core, CompareNumbers,
                           ComparePrerelease(a.identifiers, b.identifiers))
    ELSE IF a.valid THEN 1 ELSE IF b.valid THEN -1 ELSE 0

-----------------------------------------------------------------------------
(* The order itself, as section 11 of semver.org words it and compareParsed *)
(* claims to implement it: numbers by their value however long they are,   *)
(* words above numbers, the more identifiers the higher, none the highest. *)
Agree(a, b, n) == \A j \in 1..n : a[j] = b[j]

HigherIdentifier(x, y) ==
    IF x.numeric = y.numeric THEN x.value > y.value ELSE y.numeric

HigherPrerelease(a, b) ==
    /\ b # <<>>
    /\ \/ a = <<>>
       \/ \E i \in DOMAIN a \cap DOMAIN b :
             Agree(a, b, i - 1) /\ HigherIdentifier(a[i], b[i])
       \/ Len(a) > Len(b) /\ Agree(a, b, Len(b))

(* A tag that is no version is below all that are. *)
Higher(v, w) ==
    /\ v.valid
    /\ \/ ~w.valid
       \/ \E i \in 1..3 : Agree(v.core, w.core, i - 1) /\ v.core[i] > w.core[i]
       \/ v.core = w.core /\ HigherPrerelease(v.identifiers, w.identifiers)

(* Numbers of the two that are read as the same number are the same. *)
ReadApart(v, w) ==
    \A i \in DOMAIN v.identifiers, j \in DOMAIN w.identifiers :
        LET x == v.identifiers[i]
            y == w.identifiers[j]
        IN  x.numeric /\ y.numeric /\ ParseUint(x) = ParseUint(y) => x.value = y.value
=============================================================================
