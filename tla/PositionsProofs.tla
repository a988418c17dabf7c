-------------------------- MODULE PositionsProofs ---------------------------
(***************************************************************************)
(* Facts about lists of any length: what is left of one that is cut down   *)
(* to a set of its positions (Keep, UpTo), and what a list of lists is     *)
(* when they are joined (Joined).                                          *)
(***************************************************************************)
EXTENDS Positions, SequenceTheorems, FiniteSetTheorems, TLAPS

(* A finite set of positions and its prefixes. *)
LEMMA PrefixFinite ==
    ASSUME NEW n \in Nat, NEW I \in SUBSET (1..n), NEW i \in I
    PROVE  /\ IsFiniteSet(I) /\ Cardinality(I) \in Nat
           /\ IsFiniteSet({j \in I : j =< i})
           /\ Rank(I, i) \in 1..Cardinality(I)
<1> DEFINE P == {j \in I : j =< i}
<1>1. IsFiniteSet(1..n)
  BY FS_Interval
<1>2. IsFiniteSet(I)
  BY <1>1, FS_Subset
<1>3. /\ IsFiniteSet(P) /\ Cardinality(P) =< Cardinality(I)
  BY <1>2, FS_Subset
<1>4. P # {}
  BY i \in P
<1>5. Cardinality(P) # 0
  BY <1>3, <1>4, FS_EmptySet
<1>6. Cardinality(P) \in Nat /\ Cardinality(I) \in Nat
  BY <1>2, <1>3, FS_CardinalityType
<1> QED
  BY <1>2, <1>3, <1>5, <1>6 DEF Rank

(* Ranks grow with the position. *)
LEMMA RankMonotone ==
    ASSUME NEW n \in Nat, NEW I \in SUBSET (1..n), NEW i \in I, NEW j \in I, i < j
    PROVE  Rank(I, i) < Rank(I, j)
<1> DEFINE P == {k \in I : k =< i}
           Q == {k \in I : k =< j}
<1>1. IsFiniteSet(P) /\ IsFiniteSet(Q)
  BY PrefixFinite
<1>2. P \subseteq Q /\ j \in Q /\ j \notin P
  <2>1. i \in Int /\ j \in Int /\ \A k \in I : k \in Int
    OBVIOUS
  <2>2. \A k \in I : k =< i => k =< j
    BY <2>1
  <2>3. j =< j /\ ~(j =< i)
    BY <2>1
  <2> QED
    BY <2>2, <2>3
<1>3. Cardinality(P) =< Cardinality(Q) /\ Cardinality(P) # Cardinality(Q)
  BY <1>1, <1>2, FS_Subset
<1>4. Cardinality(P) \in Nat /\ Cardinality(Q) \in Nat
  BY <1>1, FS_CardinalityType
<1> QED
  BY <1>3, <1>4 DEF Rank

(* Every rank belongs to exactly one position. *)
LEMMA RankSurjective ==
    ASSUME NEW n \in Nat, NEW I \in SUBSET (1..n), NEW k \in 1..Cardinality(I)
    PROVE  \E i \in I : Rank(I, i) = k
<1>1. IsFiniteSet(I) /\ Cardinality(I) \in Nat
  <2>1. IsFiniteSet(1..n)
    BY FS_Interval
  <2>2. IsFiniteSet(I)
    BY <2>1, FS_Subset
  <2> QED
    BY <2>2, FS_CardinalityType
<1> DEFINE c == Cardinality(I)
           T == (1..c) \ {k}
           f == [i \in I |-> Rank(I, i)]
<1>2. SUFFICES ASSUME \A i \in I : Rank(I, i) # k PROVE FALSE
  OBVIOUS
<1>3. f \in [I -> T]
  BY <1>2, PrefixFinite
<1>4. IsFiniteSet(T) /\ Cardinality(T) = c - 1
  <2>1. k \in 1..c
    OBVIOUS
  <2>2. IsFiniteSet(1..c) /\ Cardinality(1..c) = c
    BY <1>1, FS_Interval
  <2> QED
    BY <2>1, <2>2, FS_RemoveElement
<1>5. PICK x \in I, y \in I : x # y /\ f[x] = f[y]
  <2>1. IsFiniteSet(I) /\ IsFiniteSet(T) /\ Cardinality(T) < Cardinality(I)
    BY <1>1, <1>4
  <2> HIDE DEF f, T
  <2> QED
    BY <2>1, <1>3, FS_PigeonHole
<1>6. x \in Int /\ y \in Int
  OBVIOUS
<1>7. x < y \/ y < x
  BY <1>5, <1>6
<1>8. Rank(I, x) \in Int /\ Rank(I, y) \in Int
  <2>1. Rank(I, x) \in 1..Cardinality(I) /\ Rank(I, y) \in 1..Cardinality(I)
    BY PrefixFinite
  <2> QED
    BY <2>1, <1>1
<1>9. Rank(I, x) = Rank(I, y)
  BY <1>5
<1>10. ~(Rank(I, x) < Rank(I, y)) /\ ~(Rank(I, y) < Rank(I, x))
  BY <1>8, <1>9
<1>11. (x < y => Rank(I, x) < Rank(I, y)) /\ (y < x => Rank(I, y) < Rank(I, x))
  BY RankMonotone
<1> QED
  BY <1>7, <1>10, <1>11

(* Positions have a last one: the one whose rank is their number. *)
LEMMA LastPosition ==
    ASSUME NEW n \in Nat, NEW I \in SUBSET (1..n), I # {}
    PROVE  \E i \in I : \A j \in I : j =< i
<1> DEFINE c == Cardinality(I)
<1>1. c \in Nat /\ \A i \in I : Rank(I, i) \in 1..c
  BY PrefixFinite
<1>2. c \in 1..c
  <2>1. PICK i \in I : TRUE
    OBVIOUS
  <2>2. Rank(I, i) \in 1..c
    BY <1>1, <2>1
  <2> HIDE DEF c
  <2> QED
    BY <1>1, <2>2
<1> HIDE DEF c
<1>3. PICK i \in I : Rank(I, i) = c
  BY <1>2, RankSurjective DEF c
<1>4. ASSUME NEW j \in I, i < j PROVE FALSE
  <2>1. Rank(I, i) < Rank(I, j)
    BY <1>4, RankMonotone
  <2>2. Rank(I, j) \in 1..c
    BY <1>1
  <2> QED
    BY <1>1, <1>3, <2>1, <2>2
<1>5. \A j \in I : j \in Int /\ i \in Int
  OBVIOUS
<1> QED
  BY <1>4, <1>5

(* A set of positions has a first one. *)
LEMMA FirstPosition ==
    ASSUME NEW n \in Nat, NEW I \in SUBSET (1..n), I # {}
    PROVE  \E i \in I : \A j \in I : i =< j
<1> DEFINE c == Cardinality(I)
<1>1. c \in Nat /\ \A i \in I : Rank(I, i) \in 1..c
  BY PrefixFinite
<1>2. 1 \in 1..c
  <2>1. PICK i \in I : TRUE
    OBVIOUS
  <2>2. Rank(I, i) \in 1..c
    BY <1>1, <2>1
  <2> HIDE DEF c
  <2> QED
    BY <1>1, <2>2
<1> HIDE DEF c
<1>3. PICK i \in I : Rank(I, i) = 1
  BY <1>2, RankSurjective DEF c
<1>4. ASSUME NEW j \in I, j < i PROVE FALSE
  <2>1. Rank(I, j) < Rank(I, i)
    BY <1>4, RankMonotone
  <2>2. Rank(I, j) \in 1..c
    BY <1>1
  <2> QED
    BY <1>1, <1>3, <2>1, <2>2
<1>5. \A j \in I : j \in Int /\ i \in Int
  OBVIOUS
<1> QED
  BY <1>4, <1>5

(* What Keep returns: the entries at the chosen positions, all of them, in *)
(* the order they had.                                                     *)
LEMMA KeepProperties ==
    ASSUME NEW T, NEW s \in Seq(T), NEW I \in SUBSET (DOMAIN s)
    PROVE  /\ Keep(s, I) \in Seq(T)
           /\ Range(Keep(s, I)) = {s[i] : i \in I}
           /\ \A k, l \in DOMAIN Keep(s, I) : k < l =>
                 \E i, j \in I : i < j /\ Keep(s, I)[k] = s[i] /\ Keep(s, I)[l] = s[j]
<1> DEFINE n == Len(s)
           c == Cardinality(I)
           At(k) == CHOOSE i \in I : Rank(I, i) = k
<1>1. n \in Nat /\ DOMAIN s = 1..n /\ I \in SUBSET (1..n)
  OBVIOUS
<1>2. IsFiniteSet(I) /\ c \in Nat
  <2>1. IsFiniteSet(1..n)
    BY <1>1, FS_Interval
  <2>2. IsFiniteSet(I)
    BY <1>1, <2>1, FS_Subset
  <2> QED
    BY <2>2, FS_CardinalityType
<1>3. \A k \in 1..c : At(k) \in I /\ Rank(I, At(k)) = k
  BY <1>1, RankSurjective
<1>4. Keep(s, I) = [k \in 1..c |-> s[At(k)]]
  BY DEF Keep
<1> HIDE DEF At
<1>5. Keep(s, I) \in Seq(T)
  BY <1>1, <1>2, <1>3, <1>4, IsASeq
<1>6. \A i, j \in I : i < j => Rank(I, i) < Rank(I, j)
  BY <1>1, RankMonotone
<1>7. \A i \in I : Rank(I, i) \in 1..c
  BY <1>1, PrefixFinite
<1>8. \A i \in I : At(Rank(I, i)) = i
  <2> TAKE i \in I
  <2> DEFINE j == At(Rank(I, i))
  <2>1. j \in I /\ Rank(I, j) = Rank(I, i)
    BY <1>3, <1>7
  <2>2. i \in Int /\ j \in Int /\ Rank(I, i) \in Int
    BY <1>1, <1>2, <1>7, <2>1
  <2> QED
    BY <1>6, <2>1, <2>2
<1>9. Range(Keep(s, I)) = {s[i] : i \in I}
  <2>1. Range(Keep(s, I)) = {s[At(k)] : k \in 1..c}
    BY <1>4 DEF Range
  <2> QED
    BY <2>1, <1>3, <1>7, <1>8
<1>10. ASSUME NEW k \in 1..c, NEW l \in 1..c, k < l
       PROVE  At(k) < At(l)
  <2>1. At(k) \in I /\ At(l) \in I /\ Rank(I, At(k)) = k /\ Rank(I, At(l)) = l
    BY <1>3
  <2>2. At(k) \in Int /\ At(l) \in Int /\ k \in Int /\ l \in Int
    BY <1>1, <1>2, <2>1
  <2> QED
    BY <1>6, <1>10, <2>1, <2>2
<1> QED
  BY <1>3, <1>4, <1>5, <1>9, <1>10

(* No two entries of a list are equal. *)
Distinct(s) == \A i, j \in DOMAIN s : s[i] = s[j] => i = j

(* Positions whose entries differ are kept as a list without copies. *)
LEMMA KeepDistinct ==
    ASSUME NEW T, NEW s \in Seq(T), NEW I \in SUBSET (DOMAIN s),
           \A i, j \in I : s[i] = s[j] => i = j
    PROVE  Distinct(Keep(s, I))
<1> DEFINE kept == Keep(s, I)
<1>1. /\ kept \in Seq(T)
      /\ \A k, l \in DOMAIN kept : k < l =>
            \E i, j \in I : i < j /\ kept[k] = s[i] /\ kept[l] = s[j]
  BY KeepProperties
<1> HIDE DEF kept
<1>2. ASSUME NEW k \in DOMAIN kept, NEW l \in DOMAIN kept, k < l
      PROVE  kept[k] # kept[l]
  <2>1. PICK i \in I, j \in I : i < j /\ kept[k] = s[i] /\ kept[l] = s[j]
    BY <1>1, <1>2
  <2>2. i # j
    BY <2>1
  <2> QED
    BY <2>1, <2>2
<1>3. DOMAIN kept \subseteq Int
  BY <1>1
<1>4. ASSUME NEW k \in DOMAIN kept, NEW l \in DOMAIN kept, kept[k] = kept[l]
      PROVE  k = l
  <2>1. ~(k < l) /\ ~(l < k)
    BY <1>2, <1>4
  <2> QED
    BY <1>3, <2>1
<1> QED
  BY <1>4 DEF Distinct, kept

(* UpTo returns the first n entries: an entry of the list is among them    *)
(* exactly when its position is at most n.                                 *)
LEMMA UpToProperties ==
    ASSUME NEW T, NEW s \in Seq(T), NEW n \in Nat
    PROVE  /\ UpTo(s, n) \in Seq(T)
           /\ Len(UpTo(s, n)) =< n
           /\ Distinct(s) => Distinct(UpTo(s, n))
           /\ \A i \in DOMAIN s : i =< n => s[i] \in Range(UpTo(s, n))
           /\ \A x \in Range(UpTo(s, n)) : \E i \in DOMAIN s : i =< n /\ x = s[i]
           /\ Range(UpTo(s, n)) \subseteq Range(s)
<1> DEFINE I == {i \in DOMAIN s : i =< n}
<1>1. I \in SUBSET (DOMAIN s)
  OBVIOUS
<1>2. UpTo(s, n) = Keep(s, I)
  BY DEF UpTo
<1> HIDE DEF I
<1>3. UpTo(s, n) \in Seq(T) /\ Range(UpTo(s, n)) = {s[i] : i \in I}
  BY <1>1, <1>2, KeepProperties
<1>4. Range(UpTo(s, n)) \subseteq Range(s)
  BY <1>1, <1>3 DEF Range
<1>5. Distinct(s) => Distinct(UpTo(s, n))
  BY <1>1, <1>2, KeepDistinct DEF Distinct
<1>6. Len(UpTo(s, n)) =< n
  <2>1. I \in SUBSET (1..n) /\ n \in Int
    BY DEF I
  <2>2. IsFiniteSet(1..n) /\ Cardinality(1..n) = n
    BY FS_Interval
  <2>3. IsFiniteSet(I) /\ Cardinality(I) =< n /\ Cardinality(I) \in Nat
    BY <2>1, <2>2, FS_Subset, FS_CardinalityType
  <2>4. DOMAIN UpTo(s, n) = 1..Cardinality(I)
    BY <1>2 DEF Keep
  <2>5. Len(UpTo(s, n)) = Cardinality(I)
    BY <1>3, <2>3, <2>4
  <2> QED
    BY <2>3, <2>5
<1> QED
  BY <1>3, <1>4, <1>5, <1>6 DEF I

(* UpTo shortens a list only to its limit. *)
LEMMA UpToFills ==
    ASSUME NEW T, NEW s \in Seq(T), NEW n \in Nat
    PROVE  Range(UpTo(s, n)) = Range(s) \/ Len(UpTo(s, n)) = n
<1> DEFINE I == {i \in DOMAIN s : i =< n}
<1>1. UpTo(s, n) \in Seq(T) /\ Range(UpTo(s, n)) \subseteq Range(s)
      /\ \A i \in DOMAIN s : i =< n => s[i] \in Range(UpTo(s, n))
  BY UpToProperties
<1>2. DOMAIN s = 1..Len(s) /\ Len(s) \in Nat
  OBVIOUS
<1>3. CASE Len(s) =< n
  <2>1. \A i \in DOMAIN s : s[i] \in Range(UpTo(s, n))
    BY <1>1, <1>2, <1>3
  <2>2. Range(s) \subseteq Range(UpTo(s, n))
    BY <2>1 DEF Range
  <2> QED
    BY <1>1, <2>2
<1>4. CASE n < Len(s)
  <2>1. I = 1..n
    BY <1>2, <1>4
  <2>2. Cardinality(I) = n
    <3>1. Cardinality(1..n) = n
      BY FS_Interval
    <3> QED
      BY <2>1, <3>1
  <2>3. DOMAIN UpTo(s, n) = 1..Cardinality(I)
    BY DEF UpTo, Keep
  <2>4. DOMAIN UpTo(s, n) = 1..n
    BY <2>2, <2>3
  <2> QED
    BY <1>1, <2>4
<1> QED
  BY <1>2, <1>3, <1>4

(* The entries of a list are finitely many, and as many as its length when *)
(* no two of them are equal.                                               *)
LEMMA RangeFinite ==
    ASSUME NEW T, NEW s \in Seq(T)
    PROVE  /\ IsFiniteSet(Range(s)) /\ Cardinality(Range(s)) \in Nat
           /\ Cardinality(Range(s)) =< Len(s)
           /\ Distinct(s) => Cardinality(Range(s)) = Len(s)
<1> DEFINE D == 1..Len(s)
<1>1. DOMAIN s = D /\ Len(s) \in Nat
  OBVIOUS
<1>2. IsFiniteSet(D) /\ Cardinality(D) = Len(s)
  BY <1>1, FS_Interval
<1>3. s \in [D -> Range(s)] /\ (\A t \in Range(s) : \E i \in D : s[i] = t)
  BY <1>1 DEF Range
<1>4. s \in Surjection(D, Range(s))
  BY <1>3 DEF Surjection
<1>5. Distinct(s) => s \in Injection(D, Range(s))
  BY <1>3 DEF Distinct, Injection, IsInjective
<1> HIDE DEF D
<1>6. /\ IsFiniteSet(Range(s)) /\ Cardinality(Range(s)) =< Cardinality(D)
      /\ Cardinality(Range(s)) = Cardinality(D) <=> s \in Injection(D, Range(s))
  BY <1>2, <1>4, FS_Surjection
<1>7. Cardinality(Range(s)) \in Nat
  BY <1>6, FS_CardinalityType
<1> QED
  BY <1>2, <1>5, <1>6, <1>7

-----------------------------------------------------------------------------
(* A finite set in the order of a relation R: every rank belongs to one    *)
(* element, and only to one.                                               *)
Place(P, R, x) == Cardinality({y \in P : <<y, x>> \in R})

(* In a total order, the first, the second and so on are there, once each. *)
LEMMA OrderRank ==
    ASSUME NEW P, IsFiniteSet(P), NEW R,
           \A x, y \in P : <<x, y>> \in R \/ <<y, x>> \in R,
           \A x, y \in P : <<x, y>> \in R /\ <<y, x>> \in R => x = y,
           \A x, y, z \in P : <<x, y>> \in R /\ <<y, z>> \in R => <<x, z>> \in R
    PROVE  /\ \A x \in P : Place(P, R, x) \in 1..Cardinality(P)
           /\ \A k \in 1..Cardinality(P) : \E x \in P : Place(P, R, x) = k
           /\ \A x, y \in P : Place(P, R, x) = Place(P, R, y) => x = y
<1> DEFINE Below(x) == {y \in P : <<y, x>> \in R}
           rank == [x \in P |-> Cardinality(Below(x))]
           c    == Cardinality(P)
<1>1. c \in Nat
  BY FS_CardinalityType
<1>2. \A x \in P : IsFiniteSet(Below(x)) /\ rank[x] \in 1..c /\ rank[x] \in Int
  <2> TAKE x \in P
  <2>1. Below(x) \subseteq P /\ x \in Below(x)
    OBVIOUS
  <2> HIDE DEF Below
  <2>2. IsFiniteSet(Below(x)) /\ Cardinality(Below(x)) =< c /\ Cardinality(Below(x)) \in Nat
    BY <2>1, FS_Subset, FS_CardinalityType
  <2>3. Cardinality(Below(x)) # 0
    BY <2>1, <2>2, FS_EmptySet
  <2>4. rank[x] = Cardinality(Below(x))
    OBVIOUS
  <2> HIDE DEF rank, c
  <2> QED
    BY <1>1, <2>2, <2>3, <2>4
<1>3. ASSUME NEW x \in P, NEW y \in P, x # y, <<x, y>> \in R
      PROVE  rank[x] < rank[y]
  <2>1. Below(x) \subseteq Below(y) /\ y \in Below(y) /\ y \notin Below(x)
    BY <1>3
  <2>2. rank[x] = Cardinality(Below(x)) /\ rank[y] = Cardinality(Below(y))
    OBVIOUS
  <2>3. rank[x] \in Int /\ rank[y] \in Int /\ IsFiniteSet(Below(y))
    <3> HIDE DEF Below, rank, c
    <3> QED
      BY <1>2
  <2> HIDE DEF Below, rank
  <2>4. Cardinality(Below(x)) =< Cardinality(Below(y)) /\ Cardinality(Below(x)) # Cardinality(Below(y))
    BY <2>1, <2>3, FS_Subset
  <2> QED
    BY <2>2, <2>3, <2>4
<1>4. \A x, y \in P : rank[x] = rank[y] => x = y
  <2> TAKE x \in P, y \in P
  <2> HIDE DEF rank, c
  <2>1. rank[x] \in Int /\ rank[y] \in Int
    BY <1>2
  <2>2. <<x, y>> \in R \/ <<y, x>> \in R
    OBVIOUS
  <2>3. x # y => rank[x] < rank[y] \/ rank[y] < rank[x]
    BY <1>3, <2>2
  <2> QED
    BY <2>1, <2>3
<1>5. ASSUME NEW k \in 1..c, \A x \in P : rank[x] # k PROVE FALSE
  <2> DEFINE T == (1..c) \ {k}
  <2>1. IsFiniteSet(1..c) /\ Cardinality(1..c) = c
    BY <1>1, FS_Interval
  <2>2. IsFiniteSet(T) /\ Cardinality(T) = c - 1
    BY <2>1, FS_RemoveElement
  <2>3. rank \in [P -> T]
    BY <1>2, <1>5
  <2>4. Cardinality(T) < Cardinality(P)
    BY <1>1, <2>2
  <2> HIDE DEF rank, T, c
  <2>5. \E x, y \in P : x # y /\ rank[x] = rank[y]
    BY <2>2, <2>3, <2>4, FS_PigeonHole
  <2> QED
    BY <1>4, <2>5
<1>6. \A x \in P : Place(P, R, x) = rank[x]
  BY DEF Place
<1> HIDE DEF rank, Below
<1>7. \A x \in P : Place(P, R, x) \in 1..c
  <2> TAKE x \in P
  <2>1. rank[x] \in 1..c /\ Place(P, R, x) = rank[x]
    BY <1>2, <1>6
  <2> QED
    BY <2>1
<1>8. \A k \in 1..c : \E x \in P : Place(P, R, x) = k
  BY <1>5, <1>6
<1>9. \A x, y \in P : Place(P, R, x) = Place(P, R, y) => x = y
  BY <1>4, <1>6
<1> QED
  BY <1>7, <1>8, <1>9

(* Joining lists loses none of their entries and adds none. *)
LEMMA JoinedProperties ==
    ASSUME NEW T, NEW lists \in Seq(Seq(T))
    PROVE  /\ Joined(lists) \in Seq(T)
           /\ Range(Joined(lists)) = UNION {Range(lists[i]) : i \in DOMAIN lists}
<1> DEFINE n == Len(lists)
           Row(i) == {i} \X DOMAIN lists[i]
           spots == UNION {Row(i) : i \in DOMAIN lists}
           Before(p, q) == p[1] < q[1] \/ (p[1] = q[1] /\ p[2] =< q[2])
           R == {r \in spots \X spots : Before(r[1], r[2])}
           c == Cardinality(spots)
           Spot(k) == CHOOSE p \in spots : Cardinality({q \in spots : Before(q, p)}) = k
<1>1. /\ n \in Nat /\ DOMAIN lists = 1..n
      /\ \A i \in 1..n : lists[i] \in Seq(T) /\ Len(lists[i]) \in Nat /\ DOMAIN lists[i] = 1..Len(lists[i])
  <2>1. n \in Nat /\ DOMAIN lists = 1..n /\ \A i \in 1..n : lists[i] \in Seq(T)
    BY ElementOfSeq
  <2> QED
    BY <2>1, LenProperties
<1>2. IsFiniteSet(spots)
  <2> DEFINE rows == {Row(i) : i \in 1..n}
             f    == [i \in 1..n |-> Row(i)]
  <2>1. \A i \in 1..n : IsFiniteSet(Row(i))
    <3> TAKE i \in 1..n
    <3>1. IsFiniteSet({i}) /\ Len(lists[i]) \in Int
      <4>1. IsFiniteSet({i})
        BY FS_Singleton
      <4>2. Len(lists[i]) \in Nat
        BY <1>1
      <4> QED
        BY <4>1, <4>2
    <3>2. IsFiniteSet(1..Len(lists[i]))
      BY <3>1, FS_Interval
    <3> QED
      BY <1>1, <3>1, <3>2, FS_Product
  <2>2. IsFiniteSet(1..n)
    BY <1>1, FS_Interval
  <2> HIDE DEF Row
  <2>3. f \in Surjection(1..n, rows)
    BY DEF Surjection
  <2>4. IsFiniteSet(rows) /\ \A S \in rows : IsFiniteSet(S)
    BY <2>1, <2>2, <2>3, FS_Surjection
  <2>5. spots = UNION rows
    BY <1>1
  <2> QED
    BY <2>4, <2>5, FS_UNION
<1>3. \A p \in spots : /\ p = <<p[1], p[2]>> /\ p[1] \in 1..n /\ p[2] \in 1..Len(lists[p[1]])
                       /\ p[1] \in Int /\ p[2] \in Int
  BY <1>1
<1>4. \A i \in 1..n : \A j \in 1..Len(lists[i]) : <<i, j>> \in spots
  BY <1>1
<1> HIDE DEF spots
<1>5. \A p, q \in spots : <<p, q>> \in R <=> Before(p, q)
  OBVIOUS
<1>6. /\ \A p, q \in spots : <<p, q>> \in R \/ <<q, p>> \in R
      /\ \A p, q \in spots : <<p, q>> \in R /\ <<q, p>> \in R => p = q
      /\ \A p, q, r \in spots : <<p, q>> \in R /\ <<q, r>> \in R => <<p, r>> \in R
  <2> HIDE DEF R
  <2>1. \A p, q \in spots : Before(p, q) \/ Before(q, p)
    BY <1>3
  <2>2. \A p, q \in spots : Before(p, q) /\ Before(q, p) => p = q
    <3> TAKE p \in spots, q \in spots
    <3>1. Before(p, q) /\ Before(q, p) => p[1] = q[1] /\ p[2] = q[2]
      BY <1>3
    <3> HIDE DEF Before
    <3> QED
      BY <1>3, <3>1
  <2>3. \A p, q, r \in spots : Before(p, q) /\ Before(q, r) => Before(p, r)
    BY <1>3
  <2> HIDE DEF Before
  <2> QED
    BY <1>5, <2>1, <2>2, <2>3
<1>7. \A p \in spots : Cardinality({q \in spots : Before(q, p)}) = Place(spots, R, p)
  <2> TAKE p \in spots
  <2>1. {q \in spots : Before(q, p)} = {q \in spots : <<q, p>> \in R}
    BY <1>5
  <2> QED
    BY <2>1 DEF Place
<1> HIDE DEF R, Before
<1>8. /\ \A p \in spots : Place(spots, R, p) \in 1..c
      /\ \A k \in 1..c : \E p \in spots : Place(spots, R, p) = k
      /\ \A p, q \in spots : Place(spots, R, p) = Place(spots, R, q) => p = q
  BY <1>2, <1>6, OrderRank
<1>9. c \in Nat
  BY <1>2, FS_CardinalityType
<1>10. \A k \in 1..c : Spot(k) \in spots
  BY <1>7, <1>8
<1>11. \A p \in spots : \E k \in 1..c : Spot(k) = p
  <2> TAKE p \in spots
  <2> DEFINE k == Cardinality({q \in spots : Before(q, p)})
  <2>1. k \in 1..c
    BY <1>7, <1>8
  <2>2. Spot(k) \in spots /\ Cardinality({q \in spots : Before(q, Spot(k))}) = k
    <3>1. \E q \in spots : Cardinality({r \in spots : Before(r, q)}) = k
      OBVIOUS
    <3> HIDE DEF k
    <3> QED
      BY <3>1
  <2>3. Spot(k) = p
    BY <1>7, <1>8, <2>2
  <2> QED
    BY <2>1, <2>3
<1>12. Joined(lists) = [k \in 1..c |-> lists[Spot(k)[1]][Spot(k)[2]]]
  BY DEF Joined, spots, Before
<1> HIDE DEF Spot, c
<1>13. \A k \in 1..c : lists[Spot(k)[1]][Spot(k)[2]] \in T
  <2> TAKE k \in 1..c
  <2>1. Spot(k)[1] \in 1..n /\ Spot(k)[2] \in 1..Len(lists[Spot(k)[1]])
    BY <1>3, <1>10
  <2>2. lists[Spot(k)[1]] \in Seq(T)
    BY <1>1, <2>1
  <2> QED
    BY <2>1, <2>2, ElementOfSeq
<1>14. Joined(lists) \in Seq(T)
  BY <1>9, <1>12, <1>13, IsASeq
<1>15. ASSUME NEW x \in Range(Joined(lists)) PROVE \E i \in DOMAIN lists : x \in Range(lists[i])
  <2>1. PICK k \in 1..c : x = lists[Spot(k)[1]][Spot(k)[2]]
    BY <1>12, <1>15 DEF Range
  <2>2. Spot(k)[1] \in 1..n /\ Spot(k)[2] \in 1..Len(lists[Spot(k)[1]])
    BY <1>3, <1>10
  <2> QED
    BY <1>1, <2>1, <2>2 DEF Range
<1>16. ASSUME NEW i \in DOMAIN lists, NEW x \in Range(lists[i]) PROVE x \in Range(Joined(lists))
  <2>1. PICK j \in DOMAIN lists[i] : x = lists[i][j]
    BY <1>16 DEF Range
  <2>2. <<i, j>> \in spots
    BY <1>1, <1>4, <2>1
  <2>3. PICK k \in 1..c : Spot(k) = <<i, j>>
    BY <1>11, <2>2
  <2>4. Joined(lists)[k] = x
    BY <1>12, <2>1, <2>3
  <2> QED
    BY <1>12, <2>4 DEF Range
<1> QED
  BY <1>14, <1>15, <1>16
=============================================================================
