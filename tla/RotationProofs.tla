--------------------------- MODULE RotationProofs ---------------------------
(***************************************************************************)
(* Rotation keeps its types and refuses a call only for a reason, for any  *)
(* number of instances and callers, any work and any cooldown: whatever    *)
(* order the marks of concurrent callers arrive in, an instance is cooling *)
(* only while the last mark it was given is a failure.  And a call does    *)
(* not fail before everybody it could ask has been asked, when a cooldown  *)
(* lasts long enough for that.                                             *)
(***************************************************************************)
EXTENDS Rotation, FiniteSetTheorems, TLAPS

IInv == TypeOK /\ CoolingIsSick

LEMMA BoundsAreNat ==
    /\ Cooldown \in Nat /\ Interval \in Nat /\ MaxAttempt \in Nat /\ MaxOutages \in Nat
    /\ MaxClock \in Nat /\ MaxClock >= Interval /\ MaxClock >= MaxAttempt
BY RotationAssumption DEF MaxClock

(* A caller's turn always names a piece of its work (Return wraps around). *)
LEMMA WorkHasTurns ==
    ASSUME NEW c \in Callers
    PROVE  /\ 1 \in DOMAIN Work[c]
           /\ \A k \in DOMAIN Work[c] : k < Len(Work[c]) => k + 1 \in DOMAIN Work[c]
<1>1. Work[c] \in Seq(Refs) /\ Work[c] # <<>>
    BY RotationAssumption
<1>2. DOMAIN Work[c] = 1..Len(Work[c]) /\ Len(Work[c]) \in Nat \ {0}
    BY <1>1
<1> QED BY <1>2

LEMMA InitInvariant == Init => IInv
<1> SUFFICES ASSUME Init PROVE IInv
    OBVIOUS
<1>1. TypeOK
    BY RotationAssumption, WorkHasTurns DEF Init, TypeOK, Instances, MaxClock
<1>2. CoolingIsSick
    BY DEF Init, CoolingIsSick, Instances
<1> QED BY <1>1, <1>2 DEF IInv

(* The end of a call, which three of the loop's exits and a success share. *)
LEMMA ReturnKeepsTypes ==
    ASSUME TypeOK, NEW c \in Callers,
           NEW how \in {"ok", "failed", "cooling", "aborted"}, Return(c, how),
           cool' \in [Instances -> 0..Cooldown], sick' \in [Instances -> BOOLEAN]
    PROVE  TypeOK'
<1>1. turn' \in [Callers -> Nat] /\ \A d \in Callers : turn'[d] \in DOMAIN Work[d]
    <2>1. turn[c] \in Nat /\ turn[c] \in DOMAIN Work[c]
        BY DEF TypeOK
    <2>2. PICK k \in Nat : k \in DOMAIN Work[c] /\ turn' = [turn EXCEPT ![c] = k]
        <3>1. CASE turn[c] < Len(Work[c])
            BY <3>1, <2>1, WorkHasTurns DEF Return
        <3>2. CASE ~(turn[c] < Len(Work[c]))
            BY <3>2, WorkHasTurns DEF Return
        <3> QED BY <3>1, <3>2
    <2> QED BY <2>2 DEF TypeOK
<1>2. pc' \in [Callers -> {"begin", "pick", "attempt", "pause"}]
    BY DEF TypeOK, Return, Goto
<1>3. clock' \in [Callers -> 0..MaxClock]
    BY RotationAssumption DEF TypeOK, Return, MaxClock
<1>4. outcome' \in [Callers -> {"none", "ok", "failed", "cooling", "aborted"}]
    BY DEF TypeOK, Return
<1> QED BY <1>1, <1>2, <1>3, <1>4 DEF TypeOK, Return, world

LEMMA StepInvariant == IInv /\ [Next]_vars => IInv'
<1> SUFFICES ASSUME IInv, [Next]_vars PROVE IInv'
    OBVIOUS
<1> USE RotationAssumption DEF IInv
<1> DEFINE Keeps == cool' \in [Instances -> 0..Cooldown] /\ sick' \in [Instances -> BOOLEAN]
<1>1. CASE Tick
    <2>1. cool' \in [Instances -> 0..Cooldown]
        BY <1>1 DEF Tick, TypeOK
    <2>2. clock' \in [Callers -> 0..MaxClock]
        <3>1. ASSUME NEW c \in Callers
              PROVE  clock[c] + 1 \in 0..MaxClock
            <4>1. clock[c] \in Nat /\ (clock[c] < MaxAttempt \/ clock[c] < Interval)
                BY <1>1, BoundsAreNat DEF Tick, TypeOK
            <4> QED BY <4>1, BoundsAreNat
        <3> QED BY <1>1, <3>1 DEF Tick
    <2>3. TypeOK'
        BY <1>1, <2>1, <2>2 DEF Tick, TypeOK, loop, world
    <2>4. CoolingIsSick'
        BY <1>1 DEF Tick, TypeOK, CoolingIsSick
    <2> QED BY <2>3, <2>4
<1>2. ASSUME NEW i \in Instances, Fails(i) \/ Recovers(i)
      PROVE  IInv'
    <2>1. up' \in [Instances -> BOOLEAN] /\ outages' \in 0..MaxOutages
        <3>1. CASE Fails(i)
            BY <3>1, BoundsAreNat DEF Fails, TypeOK
        <3>2. CASE Recovers(i)
            BY <3>2, BoundsAreNat DEF Recovers, TypeOK
        <3> QED BY <1>2, <3>1, <3>2
    <2> QED BY <1>2, <2>1 DEF Fails, Recovers, TypeOK, CoolingIsSick, loop
<1>3. ASSUME NEW c \in Callers, Begin(c)
      PROVE  IInv'
    BY <1>3 DEF Begin, Goto, TypeOK, CoolingIsSick, world
<1>4. ASSUME NEW c \in Callers, AllCooling(c) \/ Repeated(c) \/ GiveUp(c)
      PROVE  IInv'
    <2>1. cool' = cool /\ sick' = sick
        BY <1>4 DEF AllCooling, Repeated, GiveUp
    <2>2. PICK how \in {"failed", "cooling", "aborted"} : Return(c, how)
        BY <1>4 DEF AllCooling, Repeated, GiveUp
    <2>3. TypeOK'
        BY <2>1, <2>2, ReturnKeepsTypes DEF TypeOK
    <2>4. CoolingIsSick'
        BY <2>1 DEF CoolingIsSick
    <2> QED BY <2>3, <2>4
<1>5. ASSUME NEW c \in Callers, Try(c)
      PROVE  IInv'
    <2>1. PICK i \in Instances : Attempt(c, i)
        BY <1>5 DEF Try
    <2> QED BY <2>1 DEF Attempt, Goto, TypeOK, CoolingIsSick, world
<1>6. ASSUME NEW c \in Callers, Succeed(c)
      PROVE  IInv'
    <2>1. base[c] \in Instances
        BY DEF TypeOK
    <2>2. Keeps
        BY <1>6, <2>1 DEF Succeed, Reset, TypeOK
    <2>3. TypeOK'
        BY <1>6, <2>2, ReturnKeepsTypes DEF Succeed
    <2>4. CoolingIsSick'
        BY <1>6, <2>1 DEF Succeed, Reset, CoolingIsSick, TypeOK
    <2> QED BY <2>3, <2>4
<1>7. ASSUME NEW c \in Callers, Fail(c)
      PROVE  IInv'
    <2>1. base[c] \in Instances
        BY DEF TypeOK
    <2>2. Keeps
        BY <1>7, <2>1 DEF Fail, Cool, TypeOK
    <2>3. TypeOK'
        BY <1>7, <2>2 DEF Fail, Goto, TypeOK, MaxClock, world
    <2>4. CoolingIsSick'
        BY <1>7, <2>1 DEF Fail, Cool, CoolingIsSick, TypeOK
    <2> QED BY <2>3, <2>4
<1>8. ASSUME NEW c \in Callers, Resume(c)
      PROVE  IInv'
    BY <1>8 DEF Resume, Goto, TypeOK, CoolingIsSick, MaxClock, loop, world
<1>9. CASE UNCHANGED vars
    BY <1>9 DEF vars, loop, world, TypeOK, CoolingIsSick
<1> QED BY <1>1, <1>2, <1>3, <1>4, <1>5, <1>6, <1>7, <1>8, <1>9 DEF Next, Step

(* The rotation's state has its types (chooser.go, timeline.go). *)
THEOREM RotationTypes == Spec => []TypeOK
<1>1. IInv => TypeOK
    BY DEF IInv
<1> QED BY InitInvariant, StepInvariant, <1>1, PTL DEF Spec

(* A call ends without an attempt only when every instance's last mark is  *)
(* a failure (chooser.go Pick; timeline.go withInstance).                  *)
THEOREM Refusals == Spec => RefusalJustified
<1> DEFINE Justified ==
        \A c \in Callers : Ends(c, "cooling") => \A i \in Instances : sick[i]
<1>1. ASSUME IInv, [Next]_vars, NEW c \in Callers, Ends(c, "cooling")
      PROVE  \A i \in Instances : sick[i]
    <2>1. outcome[c] = "none" /\ outcome'[c] = "cooling"
        BY <1>1 DEF Ends
    <2>2. Pickable = {}
        <3>1. outcome' # outcome
            BY <2>1
        <3>2. PICK d \in Callers : Step(d) \/ GiveUp(d)
            BY <1>1, <3>1 DEF Next, Tick, Fails, Recovers, vars
        <3>3. ~Begin(d) /\ ~Try(d) /\ ~Fail(d) /\ ~Resume(d)
            BY <1>1, <2>1 DEF IInv, TypeOK, Begin, Try, Attempt, Fail, Resume
        <3>4. ~Repeated(d) /\ ~Succeed(d) /\ ~GiveUp(d)
            BY <1>1, <2>1 DEF IInv, TypeOK, Repeated, Succeed, GiveUp, Return
        <3>5. AllCooling(d)
            BY <3>2, <3>3, <3>4 DEF Step
        <3> QED BY <3>5 DEF AllCooling
    <2>3. \A i \in Instances : cool[i] > 0
        BY <1>1, <2>2, RotationAssumption DEF Pickable, IInv, TypeOK
    <2> QED BY <1>1, <2>3 DEF IInv, CoolingIsSick
<1>2. IInv /\ [Next]_vars => [Justified]_vars
    BY <1>1
<1>3. Spec => [][Justified]_vars
    BY InitInvariant, StepInvariant, <1>2, PTL DEF Spec
<1> QED BY <1>3 DEF RefusalJustified

-----------------------------------------------------------------------------
(* What is left at least of a cooldown that this call has caused: the      *)
(* attempts since then, each MaxAttempt at most, are those at the          *)
(* instances tried later, and these are others.                            *)
Remains(c) ==
    IF pc[c] = "pick"
    THEN Cooldown - (Cardinality(tried[c]) - 1) * MaxAttempt
    ELSE Cooldown - (Cardinality(tried[c]) - 2) * MaxAttempt - clock[c]

(* Every instance this call has tried is still cooling by that much,       *)
(* unless it has served somebody since.                                    *)
StillCools(c, i) ==
    \/ pc[c] = "attempt" /\ i = base[c]
    \/ ~sick[i]
    \/ cool[i] >= Remains(c)

Marked(c) ==
    /\ pc[c] \in {"begin", "pick"} => clock[c] = 0
    /\ pc[c] = "attempt" => base[c] \in tried[c] /\ clock[c] =< MaxAttempt
    /\ pc[c] \in {"pick", "attempt"} => \A i \in tried[c] : StillCools(c, i)

MarksHold == \A c \in Callers : Marked(c)

(* The instances a call has tried can be counted.                          *)
LEMMA TriedFinite ==
    ASSUME TypeOK, NEW c \in Callers
    PROVE  /\ IsFiniteSet(tried[c]) /\ Cardinality(tried[c]) \in Nat
           /\ \A i \in tried[c] : Cardinality(tried[c]) >= 1
           /\ \A i \in Instances \ tried[c] :
                 /\ Cardinality(tried[c] \cup {i}) = Cardinality(tried[c]) + 1
                 /\ Cardinality(tried[c]) =< N - 1
<1>1. tried[c] \in SUBSET Instances /\ N \in Nat
    BY RotationAssumption DEF TypeOK
<1>2. IsFiniteSet(Instances) /\ Cardinality(Instances) = N
    BY <1>1, FS_Interval DEF Instances
<1>3. IsFiniteSet(tried[c]) /\ Cardinality(tried[c]) \in Nat
    BY <1>1, <1>2, FS_Subset, FS_CardinalityType
<1>4. ASSUME NEW i \in tried[c] PROVE Cardinality(tried[c]) >= 1
    BY <1>3, <1>4, FS_EmptySet
<1>5. ASSUME NEW i \in Instances \ tried[c]
      PROVE  /\ Cardinality(tried[c] \cup {i}) = Cardinality(tried[c]) + 1
             /\ Cardinality(tried[c]) =< N - 1
    <2>1. Cardinality(tried[c] \cup {i}) = Cardinality(tried[c]) + 1
        BY <1>3, FS_AddElement
    <2>2. tried[c] \cup {i} \in SUBSET Instances
        BY <1>1
    <2>3. Cardinality(tried[c] \cup {i}) =< Cardinality(Instances)
        BY <1>2, <2>2, FS_Subset
    <2> QED BY <1>1, <1>2, <1>3, <2>1, <2>3
<1> QED BY <1>3, <1>4, <1>5

(* The bound on what is left is a number, no more than the cooldown.       *)
LEMMA RemainsBounded ==
    ASSUME TypeOK, NEW c \in Callers
    PROVE  /\ (Cardinality(tried[c]) - 1) * MaxAttempt \in Int
           /\ (Cardinality(tried[c]) - 2) * MaxAttempt \in Int
           /\ (Cardinality(tried[c]) - 1) * MaxAttempt
                 = (Cardinality(tried[c]) - 2) * MaxAttempt + MaxAttempt
           /\ Cardinality(tried[c]) >= 1 => (Cardinality(tried[c]) - 1) * MaxAttempt >= 0
           /\ clock[c] \in Nat
           /\ Remains(c) \in Int
<1>1. MaxAttempt \in Nat /\ Cooldown \in Nat /\ MaxClock \in Nat
    BY BoundsAreNat
<1>2. Cardinality(tried[c]) \in Nat
    BY TriedFinite
<1>3. \A k \in Nat, m \in Nat : /\ (k - 1) * m \in Int /\ (k - 2) * m \in Int
                                /\ (k - 1) * m = (k - 2) * m + m
                                /\ k >= 1 => (k - 1) * m >= 0
    OBVIOUS
<1>4. clock[c] \in Nat
    BY <1>1 DEF TypeOK
<1> QED BY <1>1, <1>2, <1>3, <1>4 DEF Remains

(* Nobody has tried anything yet. *)
LEMMA InitMarks == Init => MarksHold
BY DEF Init, MarksHold, Marked

(* A step of one caller does not take from what another's attempts have    *)
(* left: a mark puts an instance back to a whole cooldown, or serves.      *)
LEMMA OthersMarks ==
    ASSUME IInv, NEW c \in Callers, NEW i \in Instances, StillCools(c, i), Marked(c),
           pc[c] \in {"pick", "attempt"}, i \in tried[c],
           pc'[c] = pc[c], base'[c] = base[c], tried'[c] = tried[c], clock'[c] = clock[c],
           \/ cool'[i] = cool[i] /\ sick'[i] = sick[i]
           \/ cool'[i] = Cooldown /\ sick'[i]
           \/ ~sick'[i]
    PROVE  StillCools(c, i)'
<1>1. TypeOK
    BY DEF IInv
<1>2. Remains(c)' = Remains(c)
    BY DEF Remains
<1>3. CASE cool'[i] = cool[i] /\ sick'[i] = sick[i]
    BY <1>2, <1>3 DEF StillCools
<1>4. CASE cool'[i] = Cooldown /\ sick'[i]
    <2>1. Cooldown \in Nat /\ MaxAttempt \in Nat /\ clock[c] \in Nat
        BY <1>1, BoundsAreNat, RemainsBounded
    <2>2. CASE pc[c] = "pick"
        <3>1. Cooldown >= Remains(c)
            BY <1>1, <2>1, <2>2, TriedFinite, RemainsBounded DEF Remains
        <3> QED BY <1>2, <1>4, <3>1 DEF StillCools
    <2>3. CASE pc[c] = "attempt" /\ i # base[c]
        <3>1. base[c] \in tried[c] \ {i} /\ IsFiniteSet(tried[c])
            BY <1>1, <2>3, TriedFinite DEF Marked
        <3>2. Cardinality(tried[c]) >= 2
            <4>1. IsFiniteSet(tried[c] \ {i}) /\ Cardinality(tried[c] \ {i}) = Cardinality(tried[c]) - 1
                BY <3>1, FS_RemoveElement
            <4>2. Cardinality(tried[c] \ {i}) # 0 /\ Cardinality(tried[c] \ {i}) \in Nat
                BY <3>1, <4>1, FS_EmptySet, FS_CardinalityType
            <4> QED BY <1>1, <4>1, <4>2, TriedFinite
        <3>3. (Cardinality(tried[c]) - 2) * MaxAttempt >= 0
            <4>1. Cardinality(tried[c]) - 2 \in Nat
                BY <1>1, <3>2, TriedFinite
            <4>2. \A k \in Nat, m \in Nat : k * m >= 0
                OBVIOUS
            <4> QED BY <2>1, <4>1, <4>2
        <3>4. Cooldown >= Remains(c)
            BY <1>1, <2>1, <2>3, <3>3, RemainsBounded DEF Remains
        <3> QED BY <1>2, <1>4, <3>4 DEF StillCools
    <2>4. CASE pc[c] = "attempt" /\ i = base[c]
        BY <2>4 DEF StillCools
    <2> QED BY <2>2, <2>3, <2>4
<1>5. CASE ~sick'[i]
    BY <1>5 DEF StillCools
<1> QED BY <1>3, <1>4, <1>5

(* So a step keeps the marks when it keeps those of the caller that takes  *)
(* it.                                                                     *)
LEMMA OwnMarks ==
    ASSUME IInv, MarksHold, NEW c \in Callers, Marked(c)',
           \A d \in Callers : d # c => /\ pc'[d] = pc[d] /\ base'[d] = base[d]
                                       /\ tried'[d] = tried[d] /\ clock'[d] = clock[d],
           \A i \in Instances : \/ cool'[i] = cool[i] /\ sick'[i] = sick[i]
                                \/ cool'[i] = Cooldown /\ sick'[i]
                                \/ ~sick'[i]
    PROVE  MarksHold'
<1> SUFFICES ASSUME NEW d \in Callers, d # c PROVE Marked(d)'
    BY DEF MarksHold
<1>1. Marked(d) /\ tried[d] \in SUBSET Instances
    BY DEF MarksHold, IInv, TypeOK
<1>2. ASSUME pc'[d] \in {"pick", "attempt"}, NEW i \in tried'[d] PROVE StillCools(d, i)'
    BY <1>1, <1>2, OthersMarks DEF Marked
<1>3. /\ pc'[d] \in {"begin", "pick"} => clock'[d] = 0
      /\ pc'[d] = "attempt" => base'[d] \in tried'[d] /\ clock'[d] =< MaxAttempt
    BY <1>1 DEF Marked
<1> QED BY <1>2, <1>3 DEF Marked

(* Time, for all callers at once. *)
LEMMA TickMarks ==
    ASSUME IInv, MarksHold, Tick
    PROVE  MarksHold'
<1> SUFFICES ASSUME NEW c \in Callers PROVE Marked(c)'
    BY DEF MarksHold
<1>1. TypeOK /\ Marked(c)
    BY DEF MarksHold, IInv
<1>2. /\ pc' = pc /\ base' = base /\ tried' = tried /\ sick' = sick
      /\ clock'[c] = clock[c] + 1 /\ clock[c] \in Nat /\ MaxAttempt \in Nat
      /\ pc[c] \in {"attempt", "pause"}
      /\ pc[c] = "attempt" => clock[c] < MaxAttempt
    BY <1>1, BoundsAreNat, RemainsBounded DEF Tick, loop
<1>3. ASSUME pc[c] = "attempt", NEW i \in tried[c] PROVE StillCools(c, i)'
    <2>1. i \in Instances /\ StillCools(c, i)
        BY <1>1, <1>3 DEF Marked, TypeOK
    <2>2. cool[i] \in Nat /\ cool'[i] \in Int /\ cool'[i] >= cool[i] - 1
        BY <1>1, <2>1, RotationAssumption DEF Tick, TypeOK
    <2>3. Remains(c)' = Remains(c) - 1
        BY <1>1, <1>2, <1>3, BoundsAreNat, RemainsBounded DEF Remains
    <2>4. cool[i] >= Remains(c) => cool'[i] >= Remains(c)'
        BY <1>1, <2>2, <2>3, RemainsBounded
    <2> QED BY <1>2, <2>1, <2>4 DEF StillCools
<1>4. pc[c] = "attempt" => base[c] \in tried[c] /\ clock[c] + 1 =< MaxAttempt
    BY <1>1, <1>2 DEF Marked
<1> QED BY <1>2, <1>3, <1>4 DEF Marked

(* Pick and the attempt that follows it. *)
LEMMA TryMarks ==
    ASSUME IInv, MarksHold, NEW c \in Callers, Try(c)
    PROVE  Marked(c)'
<1>1. PICK i \in Instances \ tried[c] : Attempt(c, i)
    BY DEF Try
<1>2. TypeOK /\ Marked(c) /\ pc[c] = "pick" /\ clock[c] = 0
    BY DEF Try, IInv, MarksHold, Marked
<1>3. /\ pc'[c] = "attempt" /\ base'[c] = i /\ tried'[c] = tried[c] \cup {i}
      /\ clock'[c] = 0 /\ cool' = cool /\ sick' = sick
    BY <1>1, <1>2 DEF Attempt, Goto, TypeOK
<1>4. Remains(c)' = Remains(c)
    <2>1. Cardinality(tried'[c]) = Cardinality(tried[c]) + 1 /\ Cardinality(tried[c]) \in Nat
        BY <1>2, <1>3, TriedFinite
    <2>2. Cardinality(tried'[c]) - 2 = Cardinality(tried[c]) - 1
        BY <2>1
    <2>3. (Cardinality(tried[c]) - 1) * MaxAttempt \in Int
        BY <1>2, RemainsBounded
    <2> QED BY <1>2, <1>3, <2>2, <2>3, BoundsAreNat DEF Remains
<1>5. ASSUME NEW j \in tried'[c] PROVE StillCools(c, j)'
    <2>1. CASE j = i
        BY <1>3, <2>1 DEF StillCools
    <2>2. CASE j \in tried[c]
        <3>1. StillCools(c, j)
            BY <1>2, <2>2 DEF Marked
        <3> QED BY <1>2, <1>3, <1>4, <3>1 DEF StillCools
    <2> QED BY <1>3, <1>5, <2>1, <2>2
<1> QED BY <1>3, <1>5, BoundsAreNat DEF Marked

(* An attempt fails: its instance begins to cool, the others have done so  *)
(* for no longer than it took.                                             *)
LEMMA FailMarks ==
    ASSUME IInv, MarksHold, NEW c \in Callers, Fail(c)
    PROVE  Marked(c)'
<1>1. /\ TypeOK /\ Marked(c) /\ pc[c] = "attempt" /\ clock[c] =< MaxAttempt /\ clock[c] \in Nat
      /\ base[c] \in tried[c] /\ tried[c] \in SUBSET Instances
    BY RemainsBounded DEF Fail, IInv, MarksHold, Marked, TypeOK
<1>2. /\ pc'[c] = "pick" /\ tried' = tried /\ clock'[c] = 0
      /\ cool' = [cool EXCEPT ![base[c]] = Cooldown]
      /\ sick' = [sick EXCEPT ![base[c]] = TRUE]
    BY <1>1 DEF Fail, Goto, Cool, TypeOK
<1>3. Remains(c)' =< Remains(c) /\ Remains(c)' =< Cooldown /\ Remains(c)' \in Int
    <2>1. Remains(c)' = Cooldown - (Cardinality(tried[c]) - 1) * MaxAttempt
        BY <1>2 DEF Remains
    <2>2. Remains(c) = Cooldown - (Cardinality(tried[c]) - 2) * MaxAttempt - clock[c]
        BY <1>1 DEF Remains
    <2>3. Cardinality(tried[c]) >= 1
        BY <1>1, TriedFinite
    <2> QED BY <1>1, <2>1, <2>2, <2>3, BoundsAreNat, RemainsBounded
<1>4. ASSUME NEW i \in tried[c] PROVE StillCools(c, i)'
    <2>1. CASE i = base[c]
        <3>1. cool'[i] = Cooldown
            BY <1>1, <1>2, <2>1 DEF TypeOK
        <3> QED BY <1>3, <3>1, BoundsAreNat DEF StillCools
    <2>2. CASE i # base[c]
        <3>1. cool'[i] = cool[i] /\ sick'[i] = sick[i] /\ cool[i] \in Nat
            BY <1>1, <1>2, <2>2, RotationAssumption DEF TypeOK
        <3>2. ~sick[i] \/ cool[i] >= Remains(c)
            BY <1>1, <2>2 DEF Marked, StillCools
        <3>3. cool[i] >= Remains(c) => cool'[i] >= Remains(c)'
            BY <1>1, <1>3, <3>1, RemainsBounded
        <3> QED BY <3>1, <3>2, <3>3 DEF StillCools
    <2> QED BY <2>1, <2>2
<1> QED BY <1>2, <1>4 DEF Marked

(* All steps keep the marks. *)
LEMMA StepMarks == IInv /\ MarksHold /\ [Next]_vars => MarksHold'
<1> SUFFICES ASSUME IInv, MarksHold, [Next]_vars PROVE MarksHold'
    OBVIOUS
<1>1. CASE Tick
    BY <1>1, TickMarks
<1>2. CASE \/ UNCHANGED vars
           \/ \E i \in Instances : Fails(i) \/ Recovers(i)
    <2>1. UNCHANGED <<cool, pc, base, tried, clock, sick>>
        BY <1>2 DEF vars, Fails, Recovers, loop
    <2> QED BY <2>1 DEF MarksHold, Marked, StillCools, Remains
<1>3. ASSUME NEW c \in Callers, Step(c) \/ GiveUp(c) PROVE MarksHold'
    <2>1. TypeOK /\ Marked(c)
        BY DEF IInv, MarksHold
    <2>2. Marked(c)'
        <3>1. CASE Begin(c)
            BY <2>1, <3>1 DEF Begin, Goto, Marked, TypeOK
        <3>2. CASE AllCooling(c) \/ Repeated(c) \/ Succeed(c) \/ GiveUp(c)
            <4>1. PICK how : Return(c, how)
                BY <3>2 DEF AllCooling, Repeated, Succeed, GiveUp
            <4>2. pc'[c] \in {"begin", "pause"} /\ clock'[c] = 0
                BY <2>1, <4>1 DEF Return, Goto, TypeOK
            <4> QED BY <4>2 DEF Marked
        <3>3. CASE Resume(c)
            BY <2>1, <3>3 DEF Resume, Goto, Marked, TypeOK
        <3> QED BY <1>3, <3>1, <3>2, <3>3, TryMarks, FailMarks DEF Step
    <2>3. \A d \in Callers : d # c => /\ pc'[d] = pc[d] /\ base'[d] = base[d]
                                      /\ tried'[d] = tried[d] /\ clock'[d] = clock[d]
        BY <1>3, <2>1 DEF Step, Begin, AllCooling, Repeated, Try, Attempt, Succeed, Fail, Resume,
                          GiveUp, Return, Goto, TypeOK, loop
    <2>4. \A i \in Instances : \/ cool'[i] = cool[i] /\ sick'[i] = sick[i]
                               \/ cool'[i] = Cooldown /\ sick'[i]
                               \/ ~sick'[i]
        <3> SUFFICES ASSUME NEW i \in Instances
                     PROVE  \/ cool'[i] = cool[i] /\ sick'[i] = sick[i]
                            \/ cool'[i] = Cooldown /\ sick'[i]
                            \/ ~sick'[i]
            OBVIOUS
        <3>1. CASE Succeed(c)
            BY <2>1, <3>1 DEF Succeed, Reset, TypeOK
        <3>2. CASE Fail(c)
            BY <2>1, <3>2 DEF Fail, Cool, TypeOK
        <3>3. CASE ~Succeed(c) /\ ~Fail(c)
            BY <1>3, <3>3 DEF Step, Begin, AllCooling, Repeated, Try, Attempt, Resume, GiveUp
        <3> QED BY <3>1, <3>2, <3>3
    <2> QED BY <2>2, <2>3, <2>4, OwnMarks
<1> QED BY <1>1, <1>2, <1>3 DEF Next

(* A call that reports failure has attempted every instance that was not   *)
(* cooling down, for any number of instances and callers, as long as a     *)
(* cooldown outlasts the attempts at all but two of them; or another       *)
(* caller's success has put an instance back in front.  (timeline.go       *)
(* withInstance)                                                           *)
THEOREM EverybodyAttempted ==
    ASSUME (N - 2) * MaxAttempt < Cooldown
    PROVE  Spec => AllAttempted
<1> DEFINE Covered(c) == \/ \A i \in Instances : i \in tried[c] \/ cool[i] > 0
                         \/ \E i \in tried[c] : cool[i] = 0 /\ ~sick[i]
           Attempted == \A c \in Callers : Ends(c, "failed") => Covered(c)
<1>1. ASSUME IInv, MarksHold, [Next]_vars, NEW c \in Callers, Ends(c, "failed")
      PROVE  Covered(c)
    <2>1. outcome[c] = "none" /\ outcome'[c] = "failed" /\ TypeOK
        BY <1>1 DEF Ends, IInv
    <2>2. AllCooling(c) \/ Repeated(c)
        <3>1. outcome' # outcome
            BY <2>1
        <3>2. PICK d \in Callers : Step(d) \/ GiveUp(d)
            BY <1>1, <3>1 DEF Next, Tick, Fails, Recovers, vars
        <3>3. ~Begin(d) /\ ~Try(d) /\ ~Fail(d) /\ ~Resume(d)
            BY <2>1 DEF TypeOK, Begin, Try, Attempt, Fail, Resume
        <3>4. ~Succeed(d) /\ ~GiveUp(d)
            BY <2>1 DEF TypeOK, Succeed, GiveUp, Return
        <3>5. (AllCooling(d) \/ Repeated(d)) /\ d = c
            BY <2>1, <3>2, <3>3, <3>4 DEF Step, AllCooling, Repeated, Return, TypeOK
        <3> QED BY <3>5
    <2>3. CASE AllCooling(c)
        BY <2>1, <2>3, RotationAssumption DEF AllCooling, Pickable, TypeOK
    <2>4. CASE Repeated(c)
        <3>1. PICK i \in tried[c] : Picked(i)
            BY <2>4 DEF Repeated
        <3>2. cool[i] = 0 /\ pc[c] = "pick" /\ i \in Instances
            BY <2>4, <3>1 DEF Repeated, Picked, Pickable
        <3>3. CASE \A j \in Instances : j \in tried[c]
            BY <3>3
        <3>4. ASSUME NEW j \in Instances \ tried[c] PROVE ~sick[i]
            <4>1. Cardinality(tried[c]) - 1 =< N - 2 /\ Cardinality(tried[c]) \in Nat
                <5>1. Cardinality(tried[c]) \in Nat /\ Cardinality(tried[c]) =< N - 1
                    BY <2>1, TriedFinite
                <5>2. N \in Nat
                    BY RotationAssumption
                <5> QED BY <5>1, <5>2
            <4>2. (Cardinality(tried[c]) - 1) * MaxAttempt =< (N - 2) * MaxAttempt
                <5>1. \A a \in Int, b \in Int, m \in Nat : a =< b => a * m =< b * m
                    OBVIOUS
                <5>2. Cardinality(tried[c]) - 1 \in Int /\ N - 2 \in Int /\ MaxAttempt \in Nat
                    BY <4>1, RotationAssumption
                <5> QED BY <4>1, <5>1, <5>2
            <4>3. (N - 2) * MaxAttempt \in Int
                <5>1. \A a \in Int, m \in Int : a * m \in Int
                    OBVIOUS
                <5> QED BY <5>1, RotationAssumption
            <4>4. Remains(c) > 0
                BY <2>1, <3>2, <4>2, <4>3, BoundsAreNat, RemainsBounded DEF Remains
            <4>5. StillCools(c, i)
                BY <1>1, <3>1, <3>2 DEF MarksHold, Marked
            <4> QED BY <2>1, <3>2, <4>4, <4>5, RemainsBounded DEF StillCools
        <3> QED BY <3>2, <3>3, <3>4
    <2> QED BY <2>2, <2>3, <2>4
<1>2. IInv /\ MarksHold /\ [Next]_vars => [Attempted]_vars
    BY <1>1
<1>3. Spec => [][Attempted]_vars
    BY InitInvariant, StepInvariant, InitMarks, StepMarks, <1>2, PTL DEF Spec
<1> QED BY <1>3 DEF AllAttempted
=============================================================================
