----------------------------- MODULE WatchProofs -----------------------------
(***************************************************************************)
(* Theorems about Watch for every subscription, feed, page size and limit. *)
(*                                                                         *)
(* The first half proves IInv, which every step preserves: type            *)
(* correctness, and that seen.json never holds a tweet the consumer was    *)
(* not given, except history and overflow.  The second half proves DInv    *)
(* on top of it: whose tweets are delivered, what a delivery that is not   *)
(* remembered has been paid with, and which records wait.  From the two    *)
(* follow the bound on redelivery and that Watch implements Subscription.  *)
(***************************************************************************)
EXTENDS Watch, PositionsProofs

Record == [source : Sources, id : IDs]
Write  == [source : Sources, state : SourceStates]

-----------------------------------------------------------------------------
(* Remembered lists. *)

(* What a source remembers after a round (seen.go MergeSeen): at most      *)
(* SeenLimit ids, none of them empty, none of them twice, and each of them *)
(* was remembered before or is one of the round's new ids.                 *)
THEOREM MergeSeenProperties ==
    ASSUME NEW T, NEW newIDs \in Seq(T), NEW oldIDs \in Seq(T)
    PROVE  /\ MergeSeen(newIDs, oldIDs) \in Seq(T)
           /\ Len(MergeSeen(newIDs, oldIDs)) =< SeenLimit
           /\ Distinct(MergeSeen(newIDs, oldIDs))
           /\ EmptyID \notin Range(MergeSeen(newIDs, oldIDs))
           /\ Range(MergeSeen(newIDs, oldIDs)) \subseteq Range(newIDs) \cup Range(oldIDs)
<1> DEFINE all  == newIDs \o oldIDs
           I    == {i \in FirstCopies(all) : all[i] # EmptyID}
           kept == Keep(all, I)
<1>1. all \in Seq(T) /\ Range(all) = Range(newIDs) \cup Range(oldIDs)
  BY ConcatProperties, RangeConcatenation
<1>2. I \in SUBSET (DOMAIN all) /\ (\A i \in I : all[i] # EmptyID)
  BY DEF FirstCopies
<1> HIDE DEF all
<1>3. \A i, j \in I : all[i] = all[j] => i = j
  <2> SUFFICES ASSUME NEW i \in I, NEW j \in I, all[i] = all[j]
               PROVE  i = j
    OBVIOUS
  <2>1. i \in Nat \ {0} /\ j \in Nat \ {0}
    BY <1>1, <1>2
  <2>2. (\A k \in 1..(i - 1) : all[k] # all[i]) /\ (\A k \in 1..(j - 1) : all[k] # all[j])
    BY DEF FirstCopies
  <2>3. j \notin 1..(i - 1) /\ i \notin 1..(j - 1)
    BY <2>2
  <2> QED
    BY <2>1, <2>3
<1> HIDE DEF I
<1>4. kept \in Seq(T) /\ Range(kept) = {all[i] : i \in I} /\ Distinct(kept)
  BY <1>1, <1>2, <1>3, KeepProperties, KeepDistinct
<1>5. Range(kept) \subseteq Range(all) /\ EmptyID \notin Range(kept)
  BY <1>2, <1>4 DEF Range
<1> HIDE DEF kept
<1>6. SeenLimit \in Nat
  BY SeenListAssumption
<1>7. /\ UpTo(kept, SeenLimit) \in Seq(T)
      /\ Len(UpTo(kept, SeenLimit)) =< SeenLimit
      /\ Distinct(UpTo(kept, SeenLimit))
      /\ Range(UpTo(kept, SeenLimit)) \subseteq Range(kept)
  BY <1>4, <1>6, UpToProperties
<1>8. MergeSeen(newIDs, oldIDs) = UpTo(kept, SeenLimit)
  BY DEF MergeSeen, kept, all, I
<1> QED
  BY <1>1, <1>5, <1>7, <1>8

(* A watermark holds ids of its page. *)
LEMMA CapWatermarkProperties ==
    ASSUME NEW T, NEW ids \in Seq(T)
    PROVE  /\ CapWatermark(ids) \in Seq(T)
           /\ Range(CapWatermark(ids)) \subseteq Range(ids)
<1> DEFINE I    == {i \in FirstCopies(ids) :
                       ids[i] # EmptyID /\ ids[i] \notin NonNumericIDs}
           kept == Keep(ids, I)
<1>1. I \in SUBSET (DOMAIN ids)
  BY DEF FirstCopies
<1> HIDE DEF I
<1>2. kept \in Seq(T) /\ Range(kept) \subseteq Range(ids)
  <2>1. kept \in Seq(T) /\ Range(kept) = {ids[i] : i \in I}
    BY <1>1, KeepProperties
  <2> QED
    BY <2>1, <1>1 DEF Range
<1> HIDE DEF kept
<1>3. WatermarkLimit \in Nat
  BY SeenListAssumption
<1>4. UpTo(kept, WatermarkLimit) \in Seq(T) /\ Range(UpTo(kept, WatermarkLimit)) \subseteq Range(kept)
  BY <1>2, <1>3, UpToProperties
<1>5. CapWatermark(ids) = UpTo(kept, WatermarkLimit)
  BY DEF CapWatermark, kept, I
<1> QED
  BY <1>2, <1>4, <1>5

-----------------------------------------------------------------------------
(* Fetches. *)

(* Filtering, cutting and bucketing keep a list newest first. *)
LEMMA KeepDescending ==
    ASSUME NEW s \in Seq(IDs), Descending(s), NEW I \in SUBSET (DOMAIN s)
    PROVE  /\ Keep(s, I) \in Seq(IDs) /\ Descending(Keep(s, I))
           /\ Range(Keep(s, I)) = {s[i] : i \in I}
<1> DEFINE r == Keep(s, I)
<1>1. /\ r \in Seq(IDs)
      /\ Range(r) = {s[i] : i \in I}
      /\ \A k, l \in DOMAIN r : k < l =>
            \E i, j \in I : i < j /\ r[k] = s[i] /\ r[l] = s[j]
  BY KeepProperties
<1> HIDE DEF r
<1>2. ASSUME NEW k \in DOMAIN r, NEW l \in DOMAIN r, k < l
      PROVE  r[k] > r[l]
  <2>1. PICK i \in I, j \in I : i < j /\ r[k] = s[i] /\ r[l] = s[j]
    BY <1>1, <1>2
  <2> QED
    BY <2>1 DEF Descending
<1>3. Descending(r)
  BY <1>2 DEF Descending
<1> QED
  BY <1>1, <1>3 DEF r

(* The upstream serves a feed newest first. *)
LEMMA FeedDescending ==
    ASSUME TypeOK, NEW S
    PROVE  Feed(S) \in Seq(IDs) /\ Descending(Feed(S))
<1> DEFINE n == Len(posts)
           all == Countdown(n)
<1>1. n \in Nat /\ n =< MaxPosts /\ MaxPosts \in Nat
  BY WatchAssumption DEF TypeOK
<1>2. all \in Seq(IDs) /\ Descending(all)
  <2>1. all = [k \in 1..n |-> n + 1 - k]
    BY DEF Countdown
  <2>2. \A k \in 1..n : n + 1 - k \in IDs
    BY <1>1 DEF IDs
  <2> QED
    BY <1>1, <2>1, <2>2, IsASeq DEF Descending
<1> HIDE DEF all
<1>3. {k \in DOMAIN all : posts[all[k]] \in S /\ all[k] \notin gone} \in SUBSET (DOMAIN all)
  OBVIOUS
<1> QED
  BY <1>2, <1>3, KeepDescending DEF Feed, all

(* Wherever a scan stops, it reads newest first. *)
LEMMA ScanDescending ==
    ASSUME NEW feed \in Seq(IDs), Descending(feed), NEW size, NEW ends
    PROVE  Scan(feed, size, ends) \in Seq(IDs) /\ Descending(Scan(feed, size, ends))
<1> DEFINE I == {i \in DOMAIN feed :
                  /\ i =< MaxPages * size
                  /\ \A p \in ends : i =< p * size}
<1>1. I \in SUBSET (DOMAIN feed)
  OBVIOUS
<1>2. Scan(feed, size, ends) = Keep(feed, I)
  BY DEF Scan
<1> QED
  BY <1>1, <1>2, KeepDescending

(* Whatever lane serves it, a fetch is newest first. *)
LEMMA TimelineDescending ==
    ASSUME TypeOK, NEW s \in Sources, NEW lane, NEW prev
    PROVE  Timeline(s, lane, prev) \in Seq(IDs) /\ Descending(Timeline(s, lane, prev))
<1>1. Feed({s}) \in Seq(IDs) /\ Descending(Feed({s}))
  BY FeedDescending
<1> QED
  BY <1>1, ScanDescending DEF Timeline

(* The field filters keep a fetch newest first. *)
LEMMA FilteredDescending ==
    ASSUME NEW tweets \in Seq(IDs), Descending(tweets)
    PROVE  Filtered(tweets) \in Seq(IDs) /\ Descending(Filtered(tweets))
BY KeepDescending DEF Filtered

-----------------------------------------------------------------------------
(* Selection. *)

(* Deliveries can be counted: there are finitely many ids. *)
LEMMA IDsFinite ==
    /\ MaxPosts \in Nat /\ MaxNew \in Nat
    /\ IDs \subseteq Nat
    /\ IsFiniteSet(IDs)
    /\ \A S \in SUBSET IDs : IsFiniteSet(S) /\ Cardinality(S) \in Nat
<1>1. MaxPosts \in Nat /\ MaxNew \in Nat
  BY WatchAssumption, WatchEngineAssumption
<1>2. IsFiniteSet(1..MaxPosts)
  BY <1>1, FS_Interval
<1>3. \A S \in SUBSET (1..MaxPosts) : IsFiniteSet(S) /\ Cardinality(S) \in Nat
  BY <1>2, FS_Subset, FS_CardinalityType
<1> QED
  BY <1>1, <1>2, <1>3 DEF IDs

(* More deliveries excuse no fewer ids. *)
LEMMA AccountedMonotone ==
    ASSUME NEW base, NEW got \in SUBSET IDs, NEW more \in SUBSET IDs, got \subseteq more,
           NEW ids, Accounted(base, ids, got)
    PROVE  Accounted(base, ids, more)
<1>1. ASSUME NEW id \in ids, Excused(base, id, got)
      PROVE  Excused(base, id, more)
  <2> DEFINE G == {newer \in got : newer > id}
             M == {newer \in more : newer > id}
  <2>1. IsFiniteSet(M) /\ Cardinality(M) \in Nat /\ Cardinality(G) \in Nat
    <3>1. M \in SUBSET IDs /\ G \in SUBSET IDs
      OBVIOUS
    <3> HIDE DEF M, G
    <3> QED
      BY <3>1, IDsFinite
  <2>2. Cardinality(G) =< Cardinality(M)
    <3>1. G \subseteq M
      OBVIOUS
    <3> HIDE DEF M, G
    <3> QED
      BY <2>1, <3>1, FS_Subset
  <2>3. MaxNew \in Nat
    BY IDsFinite
  <2>4. Cardinality(G) >= MaxNew => Cardinality(M) >= MaxNew
    BY <2>1, <2>2, <2>3
  <2>5. CASE id =< base
    BY <2>5 DEF Excused
  <2>6. CASE ~(id =< base)
    <3>1. (KeepOverflow => MaxNew = 0) /\ Cardinality(G) >= MaxNew
      BY <1>1, <2>6 DEF Excused
    <3>2. Cardinality(M) >= MaxNew
      BY <2>4, <3>1
    <3> QED
      BY <3>1, <3>2 DEF Excused
  <2> QED
    BY <2>5, <2>6
<1> QED
  BY <1>1 DEF Accounted

(* What a capped round leaves behind is overtaken by the MaxNew tweets it  *)
(* emits: they are all newer.                                              *)
LEMMA OverflowOvertaken ==
    ASSUME NEW tweets \in Seq(IDs), Descending(tweets),
           NEW got \in SUBSET IDs, Range(UpTo(tweets, MaxNew)) \subseteq got,
           NEW k \in DOMAIN tweets, MaxNew < k
    PROVE  Cardinality({newer \in got : newer > tweets[k]}) >= MaxNew
<1> DEFINE M == {newer \in got : newer > tweets[k]}
           f == [j \in 1..MaxNew |-> tweets[j]]
<1>1. MaxNew \in Nat /\ k \in Nat /\ Len(tweets) \in Nat /\ DOMAIN tweets = 1..Len(tweets)
  BY IDsFinite
<1>2. ASSUME NEW j \in 1..MaxNew
      PROVE  j \in DOMAIN tweets /\ tweets[j] \in M
  <2>1. j \in DOMAIN tweets /\ j < k /\ j =< MaxNew
    BY <1>1
  <2>2. tweets[j] > tweets[k]
    BY <2>1 DEF Descending
  <2>3. tweets[j] \in Range(UpTo(tweets, MaxNew))
    BY <1>1, <2>1, UpToProperties
  <2> QED
    BY <2>1, <2>2, <2>3
<1>3. ASSUME NEW i \in 1..MaxNew, NEW j \in 1..MaxNew, tweets[i] = tweets[j]
      PROVE  i = j
  <2>1. i \in DOMAIN tweets /\ j \in DOMAIN tweets /\ i \in Int /\ j \in Int
    BY <1>1, <1>2
  <2>2. tweets[i] \in Nat /\ tweets[j] \in Nat
    <3>1. tweets[i] \in IDs /\ tweets[j] \in IDs
      BY <1>1, <2>1, ElementOfSeq
    <3> QED
      BY <3>1, IDsFinite
  <2>3. ~(i < j) /\ ~(j < i)
    BY <1>3, <2>1, <2>2 DEF Descending
  <2> QED
    BY <2>1, <2>3
<1>4. IsFiniteSet(M) /\ Cardinality(M) \in Nat
  BY IDsFinite
<1> HIDE DEF M
<1>5. f \in Injection(1..MaxNew, M)
  BY <1>2, <1>3 DEF Injection, IsInjective
<1>6. Cardinality(1..MaxNew) =< Cardinality(M)
  BY <1>4, <1>5, FS_Injection
<1>7. Cardinality(1..MaxNew) = MaxNew
  BY <1>1, FS_Interval
<1> QED
  BY <1>1, <1>4, <1>6, <1>7 DEF M

(* The state a round asks to persist is typed, and initialized whenever it *)
(* differs from the previous one.                                          *)
LEMMA SelectTyped ==
    ASSUME NEW tweets \in Seq(IDs), NEW page \in Seq(IDs),
           NEW prev \in SourceStates, NEW kind
    PROVE  LET res == Select(tweets, page, prev, kind)
           IN  /\ res.Tweets \in Seq(IDs)
               /\ res.State \in SourceStates
               /\ res.State # prev => res.State.Initialized
<1>1. CapWatermark(page) \in Seq(IDs)
  BY CapWatermarkProperties
<1>2. NonEmptyIDs(tweets) \in Seq(IDs)
  BY KeepProperties DEF NonEmptyIDs
<1>3. NewTweets(tweets, prev) \in Seq(IDs)
  BY KeepProperties DEF NewTweets
<1>4. UpTo(NewTweets(tweets, prev), MaxNew) \in Seq(IDs)
  BY <1>3, IDsFinite, UpToProperties
<1>5. prev.SeenIDs \in Seq(IDs)
  BY DEF SourceStates
<1>6. ASSUME NEW ids \in Seq(IDs), NEW mark \in Seq(IDs)
      PROVE  /\ Advanced(ids, prev, mark) \in SourceStates
             /\ Advanced(ids, prev, mark).Initialized
  <2>1. MergeSeen(ids, prev.SeenIDs) \in Seq(IDs)
    BY <1>5, MergeSeenProperties
  <2> QED
    BY <2>1 DEF Advanced, SourceStates
<1>7. <<>> \in Seq(IDs)
  OBVIOUS
<1>8. CASE ~prev.Initialized
  BY <1>1, <1>2, <1>6, <1>7, <1>8 DEF Select, FirstRun, Nothing
<1>9. CASE prev.Initialized /\ (tweets = <<>> \/ MaxNew = 0)
  BY <1>1, <1>6, <1>7, <1>9 DEF Select, Nothing
<1>10. CASE prev.Initialized /\ tweets # <<>> /\ MaxNew # 0
  BY <1>1, <1>3, <1>4, <1>6, <1>10 DEF Select, EmitNew
<1> QED
  BY <1>8, <1>9, <1>10

(* The baseline a round leaves: a first run that records nothing but        *)
(* history moves it to the newest tweet it saw.                             *)
NewBaseline(base, prev, tweets) ==
    IF ~prev.Initialized /\ ~IncludeExisting
    THEN IF tweets = <<>> THEN 0 ELSE tweets[1]
    ELSE base

(* A first run remembers only what it emits or what is history.            *)
LEMMA FirstRunAccounted ==
    ASSUME NEW tweets \in Seq(IDs), Descending(tweets),
           NEW mark \in Seq(IDs), NEW prev \in SourceStates, NEW kind, NEW base,
           NEW got \in SUBSET IDs, ~prev.Initialized, prev.SeenIDs = <<>>
    PROVE  LET res == FirstRun(tweets, mark, prev, kind)
           IN  Accounted(NewBaseline(base, prev, tweets), Range(res.State.SeenIDs),
                         got \cup Range(res.Tweets))
<1> DEFINE seedIDs == NonEmptyIDs(tweets)
           res == FirstRun(tweets, mark, prev, kind)
<1>1. seedIDs \in Seq(IDs) /\ Range(seedIDs) \subseteq Range(tweets)
  <2>1. /\ seedIDs \in Seq(IDs)
        /\ Range(seedIDs) = {tweets[i] : i \in {j \in DOMAIN tweets : tweets[j] # EmptyID}}
    BY KeepProperties DEF NonEmptyIDs
  <2> QED
    BY <2>1 DEF Range
<1>2. Range(prev.SeenIDs) = {} /\ <<>> \in Seq(IDs)
  BY DEF Range
<1>3. Range(MergeSeen(seedIDs, prev.SeenIDs)) \subseteq Range(seedIDs)
  BY <1>1, <1>2, MergeSeenProperties
<1>4. CASE seedIDs = <<>>
  <2>1. Range(seedIDs) = {}
    BY <1>4 DEF Range
  <2>2. Range(res.State.SeenIDs) = {}
    <3>1. res.State.SeenIDs = prev.SeenIDs \/ res.State.SeenIDs = MergeSeen(seedIDs, prev.SeenIDs)
      BY <1>4 DEF FirstRun, Nothing, Advanced
    <3> QED
      BY <1>2, <1>3, <2>1, <3>1
  <2> QED
    BY <2>2 DEF Accounted
<1>5. CASE seedIDs # <<>>
  <2>1. res.State.SeenIDs = MergeSeen(seedIDs, prev.SeenIDs)
    BY <1>5 DEF FirstRun, Advanced
  <2>2. Range(res.State.SeenIDs) \subseteq Range(tweets)
    BY <1>1, <1>3, <2>1
  <2>3. CASE IncludeExisting
    <3>1. res.Tweets = tweets
      BY <1>5, <2>3 DEF FirstRun
    <3> QED
      BY <2>2, <3>1 DEF Accounted
  <2>4. CASE ~IncludeExisting
    <3>1. ASSUME NEW id \in Range(tweets)
          PROVE  id =< NewBaseline(base, prev, tweets)
      <4>1. PICK k \in DOMAIN tweets : id = tweets[k]
        BY <3>1 DEF Range
      <4>2. /\ 1 \in DOMAIN tweets /\ tweets # <<>>
            /\ k \in Nat /\ k >= 1
        BY <4>1
      <4>3. tweets[1] \in IDs /\ tweets[k] \in IDs
        BY <4>1, <4>2, ElementOfSeq
      <4>4. tweets[1] \in Nat /\ tweets[k] \in Nat
        BY <4>3, IDsFinite
      <4>5. k = 1 \/ tweets[1] > tweets[k]
        BY <4>1, <4>2 DEF Descending
      <4>6. NewBaseline(base, prev, tweets) = tweets[1]
        BY <2>4, <4>2 DEF NewBaseline
      <4> QED
        BY <4>1, <4>4, <4>5, <4>6
    <3> QED
      BY <2>2, <3>1 DEF Accounted, Excused
  <2> QED
    BY <2>3, <2>4
<1> QED
  BY <1>4, <1>5

(* A capped round remembers what was accounted for before, what it emits   *)
(* and, when it drops its overflow, what the emitted tweets overtake.      *)
LEMMA EmitNewAccounted ==
    ASSUME NEW tweets \in Seq(IDs), Descending(tweets),
           NEW mark \in Seq(IDs), NEW prev \in SourceStates, NEW base,
           NEW got \in SUBSET IDs, Accounted(base, Range(prev.SeenIDs), got)
    PROVE  LET res == EmitNew(tweets, mark, prev)
           IN  Accounted(base, Range(res.State.SeenIDs), got \cup Range(res.Tweets))
<1> DEFINE new  == NewTweets(tweets, prev)
           top  == UpTo(new, MaxNew)
           ids  == IF KeepOverflow THEN top ELSE new
           more == got \cup Range(top)
<1>1. new \in Seq(IDs) /\ Descending(new)
  <2>1. {i \in DOMAIN tweets : tweets[i] # EmptyID /\ tweets[i] \notin Range(prev.SeenIDs)}
            \in SUBSET (DOMAIN tweets)
    OBVIOUS
  <2> QED
    BY <2>1, KeepDescending DEF NewTweets
<1>2. prev.SeenIDs \in Seq(IDs)
  BY DEF SourceStates
<1>3. EmitNew(tweets, mark, prev) =
          [Tweets |-> top, State |-> Advanced(ids, prev, mark)]
  BY DEF EmitNew
<1> HIDE DEF new
<1>4. top \in Seq(IDs) /\ Range(top) \subseteq IDs
  <2>1. top \in Seq(IDs)
    BY <1>1, IDsFinite, UpToProperties
  <2> QED
    BY <2>1, RangeOfSeq
<1> HIDE DEF top
<1>5. ids \in Seq(IDs)
  BY <1>1, <1>4
<1>6. Range(MergeSeen(ids, prev.SeenIDs)) \subseteq Range(ids) \cup Range(prev.SeenIDs)
  BY <1>2, <1>5, MergeSeenProperties
<1>7. Accounted(base, Range(prev.SeenIDs), more)
  BY <1>4, AccountedMonotone
<1>8. ASSUME NEW id \in Range(ids)
      PROVE  id \in more \/ Excused(base, id, more)
  <2>1. CASE KeepOverflow
    BY <1>8, <2>1
  <2>2. CASE ~KeepOverflow
    <3>1. PICK k \in DOMAIN new : id = new[k]
      BY <1>8, <2>2 DEF Range
    <3>2. CASE k =< MaxNew
      <4>1. new[k] \in Range(top)
        BY <1>1, <3>2, IDsFinite, UpToProperties DEF top
      <4> QED
        BY <3>1, <4>1
    <3>3. CASE MaxNew < k
      <4>1. Range(top) \subseteq more /\ more \in SUBSET IDs
        BY <1>4
      <4> HIDE DEF more
      <4>2. Cardinality({newer \in more : newer > new[k]}) >= MaxNew
        BY <1>1, <3>3, <4>1, OverflowOvertaken DEF top
      <4> QED
        BY <2>2, <3>1, <4>2 DEF Excused
    <3>4. k \in Nat /\ MaxNew \in Nat
      BY <1>1, IDsFinite
    <3> QED
      BY <3>2, <3>3, <3>4
  <2> QED
    BY <2>1, <2>2
<1>9. Accounted(base, Range(MergeSeen(ids, prev.SeenIDs)), more)
  BY <1>6, <1>7, <1>8 DEF Accounted
<1> QED
  BY <1>3, <1>9 DEF Advanced

(* Whatever a round decides, the state it asks to persist is accounted for *)
(* once its tweets are out.                                                *)
THEOREM SelectAccounted ==
    ASSUME NEW tweets \in Seq(IDs), Descending(tweets),
           NEW page \in Seq(IDs), NEW prev \in SourceStates, NEW kind, NEW base,
           NEW got \in SUBSET IDs, Accounted(base, Range(prev.SeenIDs), got),
           ~prev.Initialized => prev.SeenIDs = <<>>
    PROVE  LET res == Select(tweets, page, prev, kind)
           IN  Accounted(NewBaseline(base, prev, tweets), Range(res.State.SeenIDs),
                         got \cup Range(res.Tweets))
<1> DEFINE mark == CapWatermark(page)
           res  == Select(tweets, page, prev, kind)
<1>1. mark \in Seq(IDs)
  BY CapWatermarkProperties
<1> HIDE DEF mark
<1>2. CASE ~prev.Initialized
  <2>1. res = FirstRun(tweets, mark, prev, kind)
    BY <1>2 DEF Select, mark
  <2> QED
    BY <1>1, <1>2, <2>1, FirstRunAccounted
<1>3. CASE prev.Initialized
  <2>1. NewBaseline(base, prev, tweets) = base
    BY <1>3 DEF NewBaseline
  <2>2. CASE tweets = <<>>
    <3>1. res.Tweets = <<>> /\ res.State = prev
      BY <1>3, <2>2 DEF Select, Nothing
    <3> HIDE DEF res
    <3>2. got \cup Range(res.Tweets) = got
      BY <3>1 DEF Range
    <3>3. Accounted(base, Range(res.State.SeenIDs), got \cup Range(res.Tweets))
      BY <3>1, <3>2
    <3> QED
      BY <2>1, <3>3 DEF res
  <2>3. CASE tweets # <<>> /\ MaxNew = 0
    <3> DEFINE more == got \cup Range(res.Tweets)
    <3>1. res.Tweets = <<>>
      BY <1>3, <2>3 DEF Select
    <3> HIDE DEF res
    <3>2. more = got
      BY <3>1 DEF Range
    <3>3. ASSUME NEW id
          PROVE  Excused(base, id, more)
      <4>1. Cardinality({newer \in got : newer > id}) \in Nat
        BY IDsFinite
      <4> HIDE DEF more
      <4> QED
        BY <2>3, <3>2, <4>1 DEF Excused
    <3>4. Accounted(base, Range(res.State.SeenIDs), more)
      BY <3>3 DEF Accounted
    <3> QED
      BY <2>1, <3>4 DEF res
  <2>4. CASE tweets # <<>> /\ MaxNew # 0
    <3>1. res = EmitNew(tweets, mark, prev)
      BY <1>3, <2>4 DEF Select, mark
    <3> QED
      BY <1>1, <2>1, <3>1, EmitNewAccounted
  <2> QED
    BY <2>2, <2>3, <2>4
<1> QED
  BY <1>2, <1>3

-----------------------------------------------------------------------------
(* Steps that several actions share. *)

(* The empty buckets a cycle starts with are typed and newest first. *)
LEMMA EmptyBuckets ==
    ASSUME prefetched' = NoBuckets
    PROVE  prefetched' \in [Sources -> Seq(IDs)] /\ BucketsDescend'
<1>1. NoBuckets \in [Sources -> Seq(IDs)]
  BY DEF NoBuckets
<1>2. \A s \in Sources : Descending(NoBuckets[s])
  BY DEF NoBuckets, Descending
<1> QED
  BY <1>1, <1>2 DEF BucketsDescend

(* Where the process goes after a source. *)
LEMMA NextSourceMoves ==
    ASSUME TypeOK, BucketsDescend, NextSource
    PROVE  /\ idx' \in DOMAIN Argv /\ cancelled' \in BOOLEAN
           /\ prefetched' \in [Sources -> Seq(IDs)] /\ BucketsDescend'
           /\ pc' \in (IF AsJSON THEN {"source", "document"}
                                 ELSE {"source", "down", "idle"})
<1>1. idx \in DOMAIN Argv /\ cancelled \in BOOLEAN
      /\ prefetched \in [Sources -> Seq(IDs)]
      /\ Argv \in Seq(Sources) /\ Argv # <<>>
  BY WatchAssumption DEF TypeOK
<1>2. 1 \in DOMAIN Argv
  BY <1>1
<1>3. CASE idx < Len(Argv)
  <2>1. pc' = "source" /\ idx' = idx + 1 /\ cancelled' = cancelled /\ prefetched' = prefetched
    BY <1>3 DEF NextSource
  <2>2. idx + 1 \in DOMAIN Argv
    BY <1>1, <1>3
  <2> QED
    BY <1>1, <2>1, <2>2 DEF BucketsDescend
<1>4. CASE ~(idx < Len(Argv)) /\ (AsJSON \/ ~Once)
  <2>1. /\ pc' = IF AsJSON THEN "document" ELSE "idle"
        /\ idx' = idx /\ cancelled' = cancelled /\ prefetched' = prefetched
    BY <1>4 DEF NextSource, run
  <2> QED
    BY <1>1, <2>1 DEF BucketsDescend
<1>5. CASE ~(idx < Len(Argv)) /\ ~AsJSON /\ Once
  <2>1. pc' = "down" /\ idx' = 1 /\ cancelled' = FALSE /\ prefetched' = NoBuckets
    BY <1>5 DEF NextSource, Finish
  <2> QED
    BY <1>2, <1>5, <2>1, EmptyBuckets
<1> QED
  BY <1>3, <1>4, <1>5

(* Everything a cycle compares a fetch with is accounted for by what has   *)
(* been and will be written; an unrecorded source remembers nothing.       *)
LEMMA PrevStateAccounted ==
    ASSUME IInv, NEW s \in Sources
    PROVE  /\ PrevState(s) \in SourceStates
           /\ Accounted(baseline[s], Range(PrevState(s).SeenIDs),
                        DeliveredIDs(s) \cup Waiting(s))
           /\ ~PrevState(s).Initialized =>
                 /\ PrevState(s).SeenIDs = <<>>
                 /\ disk[s].SeenIDs = <<>>
                 /\ \A i \in DOMAIN pending : pending[i].source # s
<1> DEFINE buffered == {i \in DOMAIN pending : pending[i].source = s}
<1>1. /\ pending \in Seq(Write) /\ mem \in [Sources -> SourceStates] /\ mem = disk
      /\ PendingIsAccounted /\ SeenIsAccounted
  BY DEF IInv, TypeOK, StoreAgrees, Write
<1>2. CASE buffered = {}
  <2>1. PrevState(s) = disk[s]
    BY <1>1, <1>2 DEF PrevState
  <2>2. Accounted(baseline[s], Range(disk[s].SeenIDs), DeliveredIDs(s))
    BY <1>1 DEF SeenIsAccounted
  <2>3. Accounted(baseline[s], Range(disk[s].SeenIDs), DeliveredIDs(s) \cup Waiting(s))
    <3>1. DeliveredIDs(s) \in SUBSET IDs /\ DeliveredIDs(s) \cup Waiting(s) \in SUBSET IDs
      BY DEF DeliveredIDs, Waiting
    <3> QED
      BY <2>2, <3>1, AccountedMonotone
  <2> QED
    BY <1>1, <1>2, <2>1, <2>3 DEF IInv, StoreAgrees
<1>3. CASE buffered # {}
  <2> DEFINE last == CHOOSE i \in buffered : \A j \in buffered : j =< i
  <2>1. buffered \in SUBSET (1..Len(pending)) /\ Len(pending) \in Nat
    BY <1>1
  <2>2. \E i \in buffered : \A j \in buffered : j =< i
    <3> HIDE DEF buffered
    <3> QED
      BY <1>3, <2>1, LastPosition
  <2>3. last \in buffered
    BY <2>2
  <2>4. PrevState(s) = pending[last].state
    BY <1>3 DEF PrevState
  <2> HIDE DEF last
  <2>5. last \in DOMAIN pending /\ pending[last].source = s
    BY <2>3
  <2>6. pending[last] \in Write
    BY <1>1, <2>5, ElementOfSeq
  <2>7. /\ pending[last].state.Initialized
        /\ Accounted(baseline[s], Range(pending[last].state.SeenIDs),
                     DeliveredIDs(s) \cup Waiting(s))
    BY <1>1, <2>5 DEF PendingIsAccounted
  <2> QED
    BY <2>4, <2>6, <2>7 DEF Write
<1> QED
  BY <1>2, <1>3

(* Records that are written count as delivered from then on. *)
LEMMA DeliverAdds ==
    ASSUME TypeOK, NEW records \in Seq(Record), Deliver(records)
    PROVE  /\ delivered' \in [Sources -> [IDs -> Nat]]
           /\ \A s \in Sources :
                 /\ DeliveredIDs(s) \subseteq DeliveredIDs(s)'
                 /\ \A i \in DOMAIN records :
                       records[i].source = s => records[i].id \in DeliveredIDs(s)'
<1> DEFINE Copies(s, id) ==
        {i \in DOMAIN records : records[i] = [source |-> s, id |-> id]}
<1>1. delivered \in [Sources -> [IDs -> Nat]]
  BY DEF TypeOK
<1>2. ASSUME NEW s, NEW id
      PROVE  /\ Cardinality(Copies(s, id)) \in Nat
             /\ Copies(s, id) # {} => Cardinality(Copies(s, id)) > 0
  <2>1. Copies(s, id) \subseteq 1..Len(records) /\ Len(records) \in Nat
    OBVIOUS
  <2> HIDE DEF Copies
  <2>2. IsFiniteSet(Copies(s, id))
    <3>1. IsFiniteSet(1..Len(records))
      BY <2>1, FS_Interval
    <3> QED
      BY <2>1, <3>1, FS_Subset
  <2>3. Cardinality(Copies(s, id)) \in Nat
    BY <2>2, FS_CardinalityType
  <2>4. Copies(s, id) # {} => Cardinality(Copies(s, id)) # 0
    BY <2>2, FS_EmptySet
  <2> QED
    BY <2>3, <2>4
<1>3. delivered' = [s \in Sources |-> [id \in IDs |->
                      delivered[s][id] + Cardinality(Copies(s, id))]]
  BY DEF Deliver
<1> HIDE DEF Copies
<1>4. delivered' \in [Sources -> [IDs -> Nat]]
  BY <1>1, <1>2, <1>3
<1>5. ASSUME NEW s \in Sources, NEW id \in IDs
      PROVE  /\ delivered[s][id] > 0 => delivered'[s][id] > 0
             /\ Copies(s, id) # {} => delivered'[s][id] > 0
  <2>1. delivered'[s][id] = delivered[s][id] + Cardinality(Copies(s, id))
    BY <1>3
  <2>2. delivered[s][id] \in Nat
    BY <1>1
  <2> QED
    BY <1>2, <2>1, <2>2
<1>6. ASSUME NEW s \in Sources, NEW i \in DOMAIN records, records[i].source = s
      PROVE  records[i].id \in IDs /\ Copies(s, records[i].id) # {}
  <2>1. records[i] \in Record
    BY ElementOfSeq
  <2>2. records[i] = [source |-> s, id |-> records[i].id] /\ records[i].id \in IDs
    BY <1>6, <2>1 DEF Record
  <2> QED
    BY <2>2 DEF Copies
<1> QED
  BY <1>4, <1>5, <1>6 DEF DeliveredIDs

(* More deliveries and more waiting records account for no fewer ids. *)
LEMMA StillAccounted ==
    ASSUME NEW base, NEW ids, NEW got, NEW more \in SUBSET IDs, got \subseteq more,
           Accounted(base, ids, got)
    PROVE  Accounted(base, ids, more)
<1>1. got \in SUBSET IDs
  OBVIOUS
<1> QED
  BY <1>1, AccountedMonotone

(* The state writes are accounted for when each of them is. *)
LEMMA EntriesAccounted ==
    ASSUME \A i \in DOMAIN pending' :
              /\ pending'[i].state.Initialized
              /\ \A s \in Sources : pending'[i].source = s =>
                    Accounted(baseline'[s], Range(pending'[i].state.SeenIDs),
                              DeliveredIDs(s)' \cup Waiting(s)')
    PROVE  PendingIsAccounted'
BY DEF PendingIsAccounted

-----------------------------------------------------------------------------
(* One source with a successful fetch. *)

(* A round keeps the invariant: what it buffers is accounted for by what   *)
(* was delivered before and the records it puts in front of the write.     *)
LEMMA RoundPreserves ==
    ASSUME IInv, NEW s \in Sources, pc = "source",
           NEW fetched \in Seq(IDs), Descending(fetched),
           Round(s, fetched), served' \in BOOLEAN
    PROVE  IInv'
<1> DEFINE tweets == Filtered(fetched)
           page   == UpTo(tweets, WatermarkLimit)
           prev   == PrevState(s)
           res    == Select(tweets, page, prev, Kind[s])
           writes == IF res.State = prev THEN <<>>
                     ELSE <<[source |-> s, state |-> res.State]>>
           records == Records(s, res.Tweets)
           got    == DeliveredIDs(s) \cup Waiting(s)
<1>1. /\ TypeOK /\ BuffersMatchPC /\ StoreAgrees /\ BucketsDescend
      /\ PendingIsAccounted /\ SeenIsAccounted
      /\ out \in Seq(Record) /\ pending \in Seq(Write)
      /\ baseline \in [Sources -> 0..MaxPosts]
  BY DEF IInv, TypeOK, Record, Write
<1>2. tweets \in Seq(IDs) /\ Descending(tweets)
  BY FilteredDescending
<1>3. page \in Seq(IDs)
  BY <1>2, UpToProperties, SeenListAssumption
<1>4. /\ prev \in SourceStates
      /\ Accounted(baseline[s], Range(prev.SeenIDs), got)
      /\ ~prev.Initialized =>
            /\ prev.SeenIDs = <<>>
            /\ disk[s].SeenIDs = <<>>
            /\ \A i \in DOMAIN pending : pending[i].source # s
  BY PrevStateAccounted
<1>5. got \in SUBSET IDs
  BY DEF DeliveredIDs, Waiting
<1>6. /\ out' = out \o records
      /\ pending' = pending \o writes
      /\ NoteBaseline(s, prev, tweets)
      /\ IF AsJSON \/ (res.Tweets = <<>> /\ writes = <<>>)
         THEN NextSource
         ELSE pc' = (IF res.Tweets # <<>> THEN "write" ELSE "put") /\ UNCHANGED run
      /\ UNCHANGED <<upstream, store, delivered, stops>>
  BY DEF Round
<1> HIDE DEF tweets, page, prev, got
<1>7. /\ res.Tweets \in Seq(IDs) /\ res.State \in SourceStates
      /\ res.State # prev => res.State.Initialized
  BY <1>2, <1>3, <1>4, SelectTyped
<1>8. Accounted(NewBaseline(baseline[s], prev, tweets), Range(res.State.SeenIDs),
                got \cup Range(res.Tweets))
  BY <1>2, <1>3, <1>4, <1>5, SelectAccounted
<1>9. /\ baseline' = [baseline EXCEPT ![s] = NewBaseline(baseline[s], prev, tweets)]
      /\ prev.Initialized => baseline' = baseline
      /\ baseline' \in [Sources -> 0..MaxPosts]
      /\ seeded' \in [Sources -> SUBSET IDs]
  <2>0. seeded \in [Sources -> SUBSET IDs] /\ Range(tweets) \in SUBSET IDs
    BY <1>1, <1>2, RangeOfSeq DEF TypeOK
  <2>1. 0 \in 0..MaxPosts /\ IDs \subseteq 0..MaxPosts
    BY IDsFinite DEF IDs
  <2>2. tweets # <<>> => tweets[1] \in 0..MaxPosts
    <3>1. tweets # <<>> => 1 \in 1..Len(tweets)
      BY <1>2
    <3> QED
      BY <1>2, <2>1, <3>1, ElementOfSeq
  <2>3. CASE ~prev.Initialized /\ ~IncludeExisting
    BY <1>1, <1>6, <2>0, <2>1, <2>2, <2>3 DEF NoteBaseline, NewBaseline
  <2>4. CASE prev.Initialized \/ IncludeExisting
    BY <1>1, <1>6, <2>0, <2>4 DEF NoteBaseline, NewBaseline
  <2> QED
    BY <2>3, <2>4
<1> HIDE DEF res
<1>10. /\ records \in Seq(Record) /\ Len(records) = Len(res.Tweets)
       /\ \A k \in DOMAIN res.Tweets :
             k \in DOMAIN records /\ records[k] = [source |-> s, id |-> res.Tweets[k]]
  <2>1. records = [k \in 1..Len(res.Tweets) |-> [source |-> s, id |-> res.Tweets[k]]]
    BY <1>7 DEF Records
  <2>2. \A k \in 1..Len(res.Tweets) : [source |-> s, id |-> res.Tweets[k]] \in Record
    BY <1>7, ElementOfSeq DEF Record
  <2>3. Len(res.Tweets) \in Nat
    BY <1>7
  <2> HIDE DEF records
  <2> QED
    BY <2>1, <2>2, <2>3, <1>7
<1>11. writes \in Seq(Write)
  <2>1. [source |-> s, state |-> res.State] \in Write
    BY <1>7 DEF Write
  <2>2. <<>> \in Seq(Write) /\ <<[source |-> s, state |-> res.State]>> \in Seq(Write)
    BY <2>1
  <2> QED
    BY <2>2
<1>12. out' \in Seq(Record) /\ pending' \in Seq(Write)
  BY <1>1, <1>6, <1>10, <1>11
<1> HIDE DEF records
<1>13. /\ \A t \in Sources : Waiting(t) \subseteq Waiting(t)'
       /\ Range(res.Tweets) \subseteq Waiting(s)'
  <2>1. /\ \A i \in DOMAIN out : i \in DOMAIN out' /\ out'[i] = out[i]
        /\ \A k \in DOMAIN records :
              Len(out) + k \in DOMAIN out' /\ out'[Len(out) + k] = records[k]
    BY <1>1, <1>6, <1>10
  <2>2. ASSUME NEW t \in Sources, NEW id \in Waiting(t)
        PROVE  id \in Waiting(t)'
    BY <2>1 DEF Waiting
  <2>3. ASSUME NEW k \in DOMAIN res.Tweets
        PROVE  res.Tweets[k] \in Waiting(s)'
    <3>1. res.Tweets[k] \in IDs
      BY <1>7, ElementOfSeq
    <3>2. out'[Len(out) + k] = [source |-> s, id |-> res.Tweets[k]]
          /\ Len(out) + k \in DOMAIN out'
      BY <1>10, <2>1
    <3> QED
      BY <3>1, <3>2 DEF Waiting
  <2> QED
    BY <2>2, <2>3 DEF Range
<1>14. \A t \in Sources : DeliveredIDs(t)' = DeliveredIDs(t)
  BY <1>6 DEF DeliveredIDs
<1>15. \A t \in Sources : DeliveredIDs(t)' \cup Waiting(t)' \in SUBSET IDs
  BY DEF DeliveredIDs, Waiting
<1>16. TypeOK' /\ BucketsDescend'
  <2>1. /\ idx' \in DOMAIN Argv /\ cancelled' \in BOOLEAN /\ pc' \in PCs
        /\ prefetched' \in [Sources -> Seq(IDs)] /\ BucketsDescend'
    <3>1. CASE AsJSON \/ (res.Tweets = <<>> /\ writes = <<>>)
      <4>1. NextSource
        BY <1>6, <3>1
      <4> QED
        BY <1>1, <4>1, NextSourceMoves DEF PCs
    <3>2. CASE ~(AsJSON \/ (res.Tweets = <<>> /\ writes = <<>>))
      <4>1. pc' \in {"write", "put"} /\ UNCHANGED run
        BY <1>6, <3>2
      <4> QED
        BY <1>1, <4>1 DEF TypeOK, PCs, run, BucketsDescend
    <3> QED
      BY <3>1, <3>2
  <2>2. UNCHANGED <<posts, gone, disk, mem, delivered, stops>>
    BY <1>6 DEF upstream, store
  <2> QED
    BY <1>1, <1>9, <1>12, <2>1, <2>2 DEF TypeOK, Record, Write
<1>17. StoreAgrees'
  BY <1>1, <1>6 DEF StoreAgrees, store
<1>18. BuffersMatchPC'
  <2>1. CASE AsJSON
    <3>1. pc' \in {"source", "document"}
      BY <1>1, <1>6, <2>1, NextSourceMoves
    <3> QED
      BY <2>1, <3>1 DEF BuffersMatchPC
  <2>2. CASE ~AsJSON
    <3>1. out = <<>> /\ pending = <<>>
      BY <1>1, <2>2 DEF BuffersMatchPC
    <3>2. out' = records /\ pending' = writes
      BY <1>6, <1>10, <1>11, <3>1, ConcatEmptySeq
    <3>3. res.Tweets = <<>> <=> records = <<>>
      BY <1>7, <1>10
    <3>4. Len(writes) =< 1
      OBVIOUS
    <3>5. CASE res.Tweets = <<>> /\ writes = <<>>
      <4>1. pc' \in {"source", "down", "idle"}
        BY <1>1, <1>6, <2>2, <3>5, NextSourceMoves
      <4> QED
        BY <2>2, <3>2, <3>3, <3>4, <3>5, <4>1 DEF BuffersMatchPC
    <3>6. CASE res.Tweets # <<>>
      <4>1. pc' = "write"
        BY <1>6, <2>2, <3>6
      <4> QED
        BY <2>2, <3>2, <3>3, <3>4, <3>6, <4>1 DEF BuffersMatchPC
    <3>7. CASE res.Tweets = <<>> /\ writes # <<>>
      <4>1. pc' = "put"
        BY <1>6, <2>2, <3>7
      <4> QED
        BY <2>2, <3>2, <3>3, <3>4, <3>7, <4>1 DEF BuffersMatchPC
    <3> QED
      BY <3>5, <3>6, <3>7
  <2> QED
    BY <2>1, <2>2
<1>19. SeenIsAccounted'
  <2> SUFFICES ASSUME NEW t \in Sources
               PROVE  Accounted(baseline'[t], Range(disk'[t].SeenIDs), DeliveredIDs(t)')
    BY DEF SeenIsAccounted
  <2>1. disk' = disk /\ Accounted(baseline[t], Range(disk[t].SeenIDs), DeliveredIDs(t)')
    BY <1>1, <1>6, <1>14 DEF SeenIsAccounted, store
  <2>2. CASE baseline'[t] = baseline[t]
    BY <2>1, <2>2
  <2>3. CASE baseline'[t] # baseline[t]
    <3>1. t = s /\ ~prev.Initialized
      BY <1>1, <1>9, <2>3
    <3>2. Range(disk'[t].SeenIDs) = {}
      BY <1>4, <2>1, <3>1 DEF Range
    <3> QED
      BY <3>2 DEF Accounted
  <2> QED
    BY <2>2, <2>3
<1>20. PendingIsAccounted'
  <2> SUFFICES ASSUME NEW i \in DOMAIN pending'
               PROVE  /\ pending'[i].state.Initialized
                      /\ \A t \in Sources : pending'[i].source = t =>
                            Accounted(baseline'[t], Range(pending'[i].state.SeenIDs),
                                      DeliveredIDs(t)' \cup Waiting(t)')
    BY EntriesAccounted
  <2>1. CASE i \in DOMAIN pending
    <3>1. pending'[i] = pending[i]
      BY <1>1, <1>6, <1>11, <2>1
    <3>2. pending[i].state.Initialized
      BY <1>1, <2>1 DEF PendingIsAccounted
    <3>3. ASSUME NEW t \in Sources, pending[i].source = t
          PROVE  Accounted(baseline'[t], Range(pending[i].state.SeenIDs),
                           DeliveredIDs(t)' \cup Waiting(t)')
      <4>1. Accounted(baseline[t], Range(pending[i].state.SeenIDs),
                      DeliveredIDs(t) \cup Waiting(t))
        BY <1>1, <2>1, <3>3 DEF PendingIsAccounted
      <4>2. baseline'[t] = baseline[t]
        <5>1. CASE t = s
          BY <1>4, <1>9, <2>1, <3>3, <5>1
        <5>2. CASE t # s
          BY <1>1, <1>9, <5>2
        <5> QED
          BY <5>1, <5>2
      <4>3. DeliveredIDs(t) \cup Waiting(t) \subseteq DeliveredIDs(t)' \cup Waiting(t)'
        BY <1>13, <1>14
      <4> QED
        BY <1>15, <4>1, <4>2, <4>3, StillAccounted
    <3> QED
      BY <3>1, <3>2, <3>3
  <2>2. CASE i \notin DOMAIN pending
    <3>1. /\ res.State # prev
          /\ pending'[i] = [source |-> s, state |-> res.State]
      BY <1>1, <1>6, <1>11, <2>2
    <3>2. got \cup Range(res.Tweets) \subseteq DeliveredIDs(s)' \cup Waiting(s)'
      BY <1>13, <1>14 DEF got
    <3>3. baseline'[s] = NewBaseline(baseline[s], prev, tweets)
      BY <1>1, <1>9
    <3>4. Accounted(baseline'[s], Range(res.State.SeenIDs),
                    DeliveredIDs(s)' \cup Waiting(s)')
      BY <1>8, <1>15, <3>2, <3>3, StillAccounted
    <3>5. pending'[i].source = s /\ pending'[i].state = res.State
      BY <3>1
    <3> QED
      BY <1>7, <3>1, <3>4, <3>5
  <2> QED
    BY <2>1, <2>2
<1> QED
  BY <1>16, <1>17, <1>18, <1>19, <1>20 DEF IInv

(* The ways to fetch a source differ in what they hand to the round. *)
LEMMA FetchPreserves ==
    ASSUME IInv, NEW s \in Sources, Fetch(s)
    PROVE  IInv'
<1>1. TypeOK /\ BuffersMatchPC /\ StoreAgrees /\ BucketsDescend
      /\ PendingIsAccounted /\ SeenIsAccounted
  BY DEF IInv
<1>2. CASE UsePrefetched(s)
  <2>1. prefetched[s] \in Seq(IDs) /\ Descending(prefetched[s])
    BY <1>1 DEF TypeOK, BucketsDescend
  <2>2. pc = "source" /\ Round(s, prefetched[s]) /\ served' \in BOOLEAN
    BY <1>2 DEF UsePrefetched, AtSource
  <2> QED
    BY <2>1, <2>2, RoundPreserves
<1>3. CASE FetchOK(s)
  <2>1. PICK lane \in Lanes[s] : Round(s, Timeline(s, lane, PrevState(s)))
    BY <1>3 DEF FetchOK
  <2>2. pc = "source" /\ served' \in BOOLEAN
    BY <1>3 DEF FetchOK, AtSource
  <2>3. /\ Timeline(s, lane, PrevState(s)) \in Seq(IDs)
        /\ Descending(Timeline(s, lane, PrevState(s)))
    BY <1>1, TimelineDescending
  <2> QED
    BY <2>1, <2>2, <2>3, RoundPreserves
<1>4. CASE FetchEmpty(s)
  <2>1. pc = "source" /\ Round(s, <<>>) /\ served' \in BOOLEAN
    BY <1>4 DEF FetchEmpty, AtSource
  <2>2. <<>> \in Seq(IDs) /\ Descending(<<>>)
    BY DEF Descending
  <2> QED
    BY <2>1, <2>2, RoundPreserves
<1>5. CASE FetchFails(s)
  <2>1. /\ pc = "source" /\ NextSource /\ served' \in BOOLEAN
        /\ UNCHANGED <<posts, gone, disk, mem, out, pending, delivered, baseline, seeded, stops>>
    BY <1>5 DEF FetchFails, AtSource, upstream, store, buffers
  <2>2. /\ idx' \in DOMAIN Argv /\ cancelled' \in BOOLEAN
        /\ prefetched' \in [Sources -> Seq(IDs)] /\ BucketsDescend'
        /\ pc' \in (IF AsJSON THEN {"source", "document"}
                              ELSE {"source", "down", "idle"})
    BY <1>1, <2>1, NextSourceMoves
  <2>3. TypeOK'
    BY <1>1, <2>1, <2>2 DEF TypeOK, PCs
  <2>4. BuffersMatchPC'
    BY <1>1, <2>1, <2>2 DEF BuffersMatchPC
  <2>5. StoreAgrees'
    BY <1>1, <2>1 DEF StoreAgrees
  <2>6. SeenIsAccounted'
    BY <1>1, <2>1 DEF SeenIsAccounted, DeliveredIDs
  <2>7. PendingIsAccounted'
    BY <1>1, <2>1 DEF PendingIsAccounted, DeliveredIDs, Waiting
  <2> QED
    BY <2>2, <2>3, <2>4, <2>5, <2>6, <2>7 DEF IInv
<1> QED
  BY <1>2, <1>3, <1>4, <1>5 DEF Fetch

-----------------------------------------------------------------------------
(* Writing and persisting. *)

(* Writing moves an id from the waiting to the delivered ones. *)
LEMMA WritePreserves ==
    ASSUME IInv, NEW records \in Seq(Record), Deliver(records),
           out' \in Seq(Record),
           \A i \in DOMAIN out :
              \/ \E j \in DOMAIN records : records[j] = out[i]
              \/ \E j \in DOMAIN out' : out'[j] = out[i],
           UNCHANGED <<posts, gone, disk, mem, pending, baseline, seeded, stops, served>>
    PROVE  /\ delivered' \in [Sources -> [IDs -> Nat]]
           /\ StoreAgrees' /\ PendingIsAccounted' /\ SeenIsAccounted'
<1>1. TypeOK /\ StoreAgrees /\ PendingIsAccounted /\ SeenIsAccounted
  BY DEF IInv
<1>2. /\ delivered' \in [Sources -> [IDs -> Nat]]
      /\ \A s \in Sources :
            /\ DeliveredIDs(s) \subseteq DeliveredIDs(s)'
            /\ \A i \in DOMAIN records :
                  records[i].source = s => records[i].id \in DeliveredIDs(s)'
  BY <1>1, DeliverAdds
<1>3. ASSUME NEW s \in Sources
      PROVE  /\ Waiting(s) \subseteq DeliveredIDs(s)' \cup Waiting(s)'
             /\ DeliveredIDs(s)' \in SUBSET IDs
             /\ DeliveredIDs(s)' \cup Waiting(s)' \in SUBSET IDs
  <2>1. ASSUME NEW id \in Waiting(s)
        PROVE  id \in DeliveredIDs(s)' \cup Waiting(s)'
    <3>1. PICK i \in DOMAIN out : out[i] = [source |-> s, id |-> id]
      BY <2>1 DEF Waiting
    <3>2. id \in IDs
      BY <2>1 DEF Waiting
    <3>3. CASE \E j \in DOMAIN records : records[j] = out[i]
      BY <1>2, <3>1, <3>3
    <3>4. CASE \E j \in DOMAIN out' : out'[j] = out[i]
      BY <3>1, <3>2, <3>4 DEF Waiting
    <3> QED
      BY <3>3, <3>4
  <2> QED
    BY <2>1 DEF DeliveredIDs, Waiting
<1>4. StoreAgrees'
  BY <1>1 DEF StoreAgrees
<1>5. SeenIsAccounted'
  <2> SUFFICES ASSUME NEW s \in Sources
               PROVE  Accounted(baseline[s], Range(disk[s].SeenIDs), DeliveredIDs(s)')
    BY DEF SeenIsAccounted
  <2>1. Accounted(baseline[s], Range(disk[s].SeenIDs), DeliveredIDs(s))
    BY <1>1 DEF SeenIsAccounted
  <2> QED
    BY <1>2, <1>3, <2>1, StillAccounted
<1>6. PendingIsAccounted'
  <2> SUFFICES ASSUME NEW i \in DOMAIN pending'
               PROVE  /\ pending'[i].state.Initialized
                      /\ \A s \in Sources : pending'[i].source = s =>
                            Accounted(baseline'[s], Range(pending'[i].state.SeenIDs),
                                      DeliveredIDs(s)' \cup Waiting(s)')
    BY EntriesAccounted
  <2>0. pending' = pending /\ baseline' = baseline /\ i \in DOMAIN pending
    OBVIOUS
  <2>1. pending[i].state.Initialized
    BY <1>1, <2>0 DEF PendingIsAccounted
  <2>2. ASSUME NEW s \in Sources, pending[i].source = s
        PROVE  Accounted(baseline[s], Range(pending[i].state.SeenIDs),
                         DeliveredIDs(s)' \cup Waiting(s)')
    <3>1. Accounted(baseline[s], Range(pending[i].state.SeenIDs),
                    DeliveredIDs(s) \cup Waiting(s))
      BY <1>1, <2>0, <2>2 DEF PendingIsAccounted
    <3>2. DeliveredIDs(s) \cup Waiting(s) \subseteq DeliveredIDs(s)' \cup Waiting(s)'
      BY <1>2, <1>3
    <3> QED
      BY <1>3, <3>1, <3>2, StillAccounted
  <2> QED
    BY <2>0, <2>1, <2>2
<1> QED
  BY <1>2, <1>4, <1>5, <1>6

(* Writing one record of a streaming round keeps the invariant. *)
LEMMA WriteRecordPreserves ==
    ASSUME IInv, WriteRecord
    PROVE  IInv'
<1>1. /\ TypeOK /\ BuffersMatchPC /\ BucketsDescend
      /\ out \in Seq(Record) /\ out # <<>> /\ ~AsJSON
  BY DEF IInv, TypeOK, BuffersMatchPC, WriteRecord, Record
<1>2. /\ Deliver(<<Head(out)>>) /\ out' = Tail(out)
      /\ IF Len(out) > 1 THEN UNCHANGED <<pc, run>>
         ELSE IF pending # <<>> THEN pc' = "put" /\ UNCHANGED run
         ELSE NextSource
      /\ UNCHANGED <<posts, gone, disk, mem, pending, baseline, seeded, stops, served>>
      /\ pc = "write"
  BY DEF WriteRecord, upstream, store
<1>3. /\ Head(out) = out[1] /\ Len(out) \in Nat \ {0} /\ Len(Tail(out)) = Len(out) - 1
      /\ Tail(out) \in Seq(Record)
      /\ \A i \in 1..Len(Tail(out)) : Tail(out)[i] = out[i + 1]
  BY <1>1, HeadTailProperties, EmptySeq
<1>4. out[1] \in Record /\ <<Head(out)>> \in Seq(Record)
  BY <1>1, <1>3, ElementOfSeq
<1>5. ASSUME NEW i \in DOMAIN out
      PROVE  \/ \E j \in DOMAIN <<Head(out)>> : <<Head(out)>>[j] = out[i]
             \/ \E j \in DOMAIN out' : out'[j] = out[i]
  <2>1. CASE i = 1
    BY <1>3, <2>1
  <2>2. CASE i # 1
    <3>1. i - 1 \in 1..Len(Tail(out)) /\ (i - 1) + 1 = i
      BY <1>1, <1>3, <2>2
    <3>2. Tail(out)[i - 1] = out[i]
      BY <1>3, <3>1
    <3>3. i - 1 \in DOMAIN out'
      BY <1>2, <1>3, <3>1
    <3> QED
      BY <1>2, <3>2, <3>3
  <2> QED
    BY <2>1, <2>2
<1>6. /\ delivered' \in [Sources -> [IDs -> Nat]]
      /\ StoreAgrees' /\ PendingIsAccounted' /\ SeenIsAccounted'
  BY <1>2, <1>3, <1>4, <1>5, WritePreserves
<1>7. /\ idx' \in DOMAIN Argv /\ cancelled' \in BOOLEAN /\ pc' \in PCs
      /\ prefetched' \in [Sources -> Seq(IDs)] /\ BucketsDescend'
      /\ BuffersMatchPC'
  <2>1. out' = <<>> <=> Len(out) = 1
    <3>1. out' \in Seq(Record) /\ Len(out') = Len(out) - 1 /\ Len(out) \in Nat
      BY <1>2, <1>3
    <3>2. out' = <<>> <=> Len(out') = 0
      BY <3>1, EmptySeq
    <3> QED
      BY <3>1, <3>2
  <2>2. CASE Len(out) > 1
    <3>1. UNCHANGED <<pc, idx, cancelled, prefetched>>
      BY <1>2, <2>2 DEF run
    <3>2. out' # <<>>
      BY <1>2, <1>3, <2>1, <2>2
    <3>3. BuffersMatchPC'
      BY <1>1, <1>2, <2>2, <3>1, <3>2 DEF BuffersMatchPC
    <3> QED
      BY <1>1, <3>1, <3>3 DEF TypeOK, BucketsDescend
  <2>3. CASE ~(Len(out) > 1) /\ pending # <<>>
    <3>1. pc' = "put" /\ UNCHANGED <<idx, cancelled, prefetched>>
      BY <1>2, <2>3 DEF run
    <3>2. out' = <<>>
      BY <1>3, <2>1, <2>3
    <3>3. BuffersMatchPC' /\ pc' \in PCs
      BY <1>1, <1>2, <2>3, <3>1, <3>2 DEF BuffersMatchPC, PCs
    <3> QED
      BY <1>1, <3>1, <3>3 DEF TypeOK, BucketsDescend
  <2>4. CASE ~(Len(out) > 1) /\ pending = <<>>
    <3>1. /\ idx' \in DOMAIN Argv /\ cancelled' \in BOOLEAN
          /\ prefetched' \in [Sources -> Seq(IDs)] /\ BucketsDescend'
          /\ pc' \in {"source", "down", "idle"}
      BY <1>1, <1>2, <2>4, NextSourceMoves
    <3>2. out' = <<>>
      BY <1>3, <2>1, <2>4
    <3> QED
      BY <1>1, <1>2, <2>4, <3>1, <3>2 DEF BuffersMatchPC, PCs
  <2> QED
    BY <2>2, <2>3, <2>4
<1>8. TypeOK'
  BY <1>1, <1>2, <1>3, <1>6, <1>7 DEF TypeOK, Record
<1> QED
  BY <1>6, <1>7, <1>8 DEF IInv

(* Writing the document of a --once --json cycle keeps the invariant. *)
LEMMA WriteDocumentPreserves ==
    ASSUME IInv, WriteDocument
    PROVE  IInv'
<1>1. TypeOK /\ BuffersMatchPC /\ BucketsDescend /\ out \in Seq(Record)
  BY DEF IInv, TypeOK, Record
<1>2. /\ Deliver(out) /\ out' = <<>> /\ pc = "document"
      /\ IF pending # <<>> THEN pc' = "put" /\ UNCHANGED run
         ELSE Finish
      /\ UNCHANGED <<posts, gone, disk, mem, pending, baseline, seeded, stops, served>>
  BY DEF WriteDocument, upstream, store
<1>3. /\ delivered' \in [Sources -> [IDs -> Nat]]
      /\ StoreAgrees' /\ PendingIsAccounted' /\ SeenIsAccounted'
  <2>1. out' \in Seq(Record)
    BY <1>2
  <2>2. \A i \in DOMAIN out : \E j \in DOMAIN out : out[j] = out[i]
    OBVIOUS
  <2> QED
    BY <1>1, <1>2, <2>1, <2>2, WritePreserves
<1>4. /\ idx' \in DOMAIN Argv /\ cancelled' \in BOOLEAN
      /\ prefetched' \in [Sources -> Seq(IDs)] /\ BucketsDescend'
      /\ pc' = IF pending # <<>> THEN "put" ELSE "down"
  <2>1. 1 \in DOMAIN Argv
    BY WatchAssumption
  <2>2. CASE pending # <<>>
    BY <1>1, <1>2, <2>2 DEF TypeOK, run, BucketsDescend
  <2>3. CASE pending = <<>>
    <3>1. pc' = "down" /\ idx' = 1 /\ cancelled' = FALSE /\ prefetched' = NoBuckets
      BY <1>2, <2>3 DEF Finish
    <3> QED
      BY <2>1, <2>3, <3>1, EmptyBuckets
  <2> QED
    BY <2>2, <2>3
<1>5. BuffersMatchPC'
  BY <1>1, <1>2, <1>4 DEF BuffersMatchPC
<1>6. TypeOK'
  BY <1>1, <1>2, <1>3, <1>4 DEF TypeOK, PCs
<1> QED
  BY <1>3, <1>4, <1>5, <1>6 DEF IInv

(* A state write that is persisted is accounted for by deliveries alone:   *)
(* no record waits when it is made.                                        *)
LEMMA PutPreserves ==
    ASSUME IInv, Put
    PROVE  IInv'
<1> DEFINE w == Head(pending)
<1>1. /\ TypeOK /\ BuffersMatchPC /\ BucketsDescend /\ StoreAgrees
      /\ PendingIsAccounted /\ SeenIsAccounted
      /\ pending \in Seq(Write) /\ pending # <<>> /\ out = <<>>
  BY DEF IInv, TypeOK, BuffersMatchPC, Put, Write
<1>2. /\ pc = "put"
      /\ mem' = [mem EXCEPT ![w.source] = w.state] /\ disk' = mem'
      /\ pending' = Tail(pending)
      /\ IF ~AsJSON THEN NextSource
         ELSE IF Len(pending) > 1 THEN UNCHANGED <<pc, run>>
         ELSE Finish
      /\ UNCHANGED <<posts, gone, out, delivered, baseline, seeded, stops, served>>
  BY DEF Put, upstream, history
<1>3. /\ w = pending[1] /\ w \in Write /\ Tail(pending) \in Seq(Write)
      /\ Len(pending) \in Nat \ {0} /\ Len(Tail(pending)) = Len(pending) - 1
      /\ (Len(Tail(pending)) = 0 <=> Tail(pending) = <<>>)
      /\ \A i \in 1..Len(Tail(pending)) : Tail(pending)[i] = pending[i + 1]
  <2>1. /\ w = pending[1] /\ w \in Write /\ Tail(pending) \in Seq(Write)
        /\ Len(pending) \in Nat \ {0} /\ Len(Tail(pending)) = Len(pending) - 1
        /\ \A i \in 1..Len(Tail(pending)) : Tail(pending)[i] = pending[i + 1]
    BY <1>1, HeadTailProperties, EmptySeq
  <2>2. Len(Tail(pending)) = 0 <=> Tail(pending) = <<>>
    BY <2>1, EmptySeq
  <2> QED
    BY <2>1, <2>2
<1> HIDE DEF w
<1>4. /\ w.source \in Sources /\ w.state \in SourceStates /\ w.state.Initialized
      /\ 1 \in DOMAIN pending
  BY <1>1, <1>3 DEF PendingIsAccounted, Write
<1>5. \A s \in Sources : DeliveredIDs(s)' = DeliveredIDs(s) /\ Waiting(s)' = Waiting(s)
                          /\ Waiting(s) = {}
  BY <1>1, <1>2 DEF DeliveredIDs, Waiting
<1>6. disk' = [disk EXCEPT ![w.source] = w.state] /\ disk \in [Sources -> SourceStates]
  BY <1>1, <1>2 DEF StoreAgrees, TypeOK
<1>7. StoreAgrees'
  BY <1>1, <1>2, <1>4, <1>6 DEF StoreAgrees
<1>8. SeenIsAccounted'
  <2> SUFFICES ASSUME NEW s \in Sources
               PROVE  Accounted(baseline'[s], Range(disk'[s].SeenIDs), DeliveredIDs(s)')
    BY DEF SeenIsAccounted
  <2>1. CASE s = w.source
    <3>1. Accounted(baseline[s], Range(w.state.SeenIDs), DeliveredIDs(s) \cup Waiting(s))
      BY <1>1, <1>3, <1>4, <2>1 DEF PendingIsAccounted
    <3>2. DeliveredIDs(s) \cup Waiting(s) = DeliveredIDs(s)'
      BY <1>5
    <3> QED
      BY <1>2, <1>6, <2>1, <3>1, <3>2
  <2>2. CASE s # w.source
    BY <1>1, <1>2, <1>5, <1>6, <2>2 DEF SeenIsAccounted
  <2> QED
    BY <2>1, <2>2
<1>9. PendingIsAccounted'
  <2> SUFFICES ASSUME NEW i \in DOMAIN pending'
               PROVE  /\ pending'[i].state.Initialized
                      /\ \A s \in Sources : pending'[i].source = s =>
                            Accounted(baseline'[s], Range(pending'[i].state.SeenIDs),
                                      DeliveredIDs(s)' \cup Waiting(s)')
    BY EntriesAccounted
  <2>1. i + 1 \in DOMAIN pending /\ pending'[i] = pending[i + 1]
    BY <1>1, <1>2, <1>3
  <2>2. /\ pending[i + 1].state.Initialized
        /\ \A s \in Sources : pending[i + 1].source = s =>
              Accounted(baseline[s], Range(pending[i + 1].state.SeenIDs),
                        DeliveredIDs(s) \cup Waiting(s))
    BY <1>1, <2>1 DEF PendingIsAccounted
  <2>3. /\ baseline' = baseline
        /\ \A s \in Sources :
              DeliveredIDs(s)' = DeliveredIDs(s) /\ Waiting(s)' = Waiting(s)
    BY <1>2, <1>5
  <2> QED
    BY <2>1, <2>2, <2>3
<1>10. /\ idx' \in DOMAIN Argv /\ cancelled' \in BOOLEAN /\ pc' \in PCs
       /\ prefetched' \in [Sources -> Seq(IDs)] /\ BucketsDescend'
       /\ BuffersMatchPC'
  <2>1. 1 \in DOMAIN Argv
    BY WatchAssumption
  <2>2. pending' = <<>> <=> Len(pending) = 1
    BY <1>2, <1>3
  <2>3. CASE ~AsJSON
    <3>1. /\ idx' \in DOMAIN Argv /\ cancelled' \in BOOLEAN
          /\ prefetched' \in [Sources -> Seq(IDs)] /\ BucketsDescend'
          /\ pc' \in {"source", "down", "idle"}
      BY <1>1, <1>2, <2>3, NextSourceMoves
    <3>2. pending' = <<>> /\ out' = <<>>
      BY <1>1, <1>2, <1>3, <2>2, <2>3 DEF BuffersMatchPC
    <3> QED
      BY <3>1, <3>2 DEF BuffersMatchPC, PCs
  <2>4. CASE AsJSON /\ Len(pending) > 1
    <3>1. UNCHANGED <<pc, idx, cancelled, prefetched>>
      BY <1>2, <2>4 DEF run
    <3>2. pc' = "put" /\ out' = <<>> /\ pending' # <<>>
      BY <1>1, <1>2, <1>3, <2>2, <2>4, <3>1
    <3>3. BuffersMatchPC'
      BY <2>4, <3>2 DEF BuffersMatchPC
    <3> QED
      BY <1>1, <3>1, <3>3 DEF TypeOK, BucketsDescend
  <2>5. CASE AsJSON /\ ~(Len(pending) > 1)
    <3>1. pc' = "down" /\ idx' = 1 /\ cancelled' = FALSE /\ prefetched' = NoBuckets
      BY <1>2, <2>5 DEF Finish
    <3>2. pending' = <<>> /\ out' = <<>>
      BY <1>1, <1>2, <1>3, <2>2, <2>5
    <3>3. BuffersMatchPC' /\ pc' \in PCs
      BY <3>1, <3>2 DEF BuffersMatchPC, PCs
    <3> QED
      BY <2>1, <3>1, <3>3, EmptyBuckets
  <2> QED
    BY <2>3, <2>4, <2>5
<1>11. TypeOK'
  <2>1. disk' \in [Sources -> SourceStates] /\ mem' \in [Sources -> SourceStates]
    BY <1>2, <1>4, <1>6
  <2> QED
    BY <1>1, <1>2, <1>3, <1>10, <2>1 DEF TypeOK, Write
<1> QED
  BY <1>7, <1>8, <1>9, <1>10, <1>11 DEF IInv

-----------------------------------------------------------------------------
(* Steps that touch neither the deliveries nor what is remembered. *)

(* A step that changes neither the deliveries nor the stored and buffered  *)
(* states keeps what is said of them.                                      *)
LEMMA QuietPreserves ==
    ASSUME IInv,
           UNCHANGED <<disk, delivered, baseline>>,
           mem' = disk',
           \/ UNCHANGED <<out, pending>>
           \/ out' = <<>> /\ pending' = <<>>
    PROVE  StoreAgrees' /\ PendingIsAccounted' /\ SeenIsAccounted'
<1>1. StoreAgrees /\ PendingIsAccounted /\ SeenIsAccounted
  BY DEF IInv
<1>2. StoreAgrees'
  BY <1>1 DEF StoreAgrees
<1>3. \A s \in Sources : DeliveredIDs(s)' = DeliveredIDs(s)
  BY DEF DeliveredIDs
<1>4. SeenIsAccounted'
  BY <1>1, <1>3 DEF SeenIsAccounted
<1>5. PendingIsAccounted'
  <2>1. CASE UNCHANGED <<out, pending>>
    <3>1. \A s \in Sources : Waiting(s)' = Waiting(s)
      BY <2>1 DEF Waiting
    <3> QED
      BY <1>1, <1>3, <2>1, <3>1, EntriesAccounted DEF PendingIsAccounted
  <2>2. CASE out' = <<>> /\ pending' = <<>>
    <3>1. DOMAIN pending' = {}
      BY <2>2
    <3> QED
      BY <3>1, EntriesAccounted
  <2> QED
    BY <2>1, <2>2
<1> QED
  BY <1>2, <1>4, <1>5

(* The upstream may post and delete at any time. *)
LEMMA UpstreamPreserves ==
    ASSUME IInv,
           (\E s \in Sources : Post(s)) \/ (\E id \in DOMAIN posts \ gone : Delete(id))
    PROVE  IInv'
<1>1. TypeOK /\ BuffersMatchPC /\ BucketsDescend /\ mem = disk
  BY DEF IInv, StoreAgrees
<1>2. UNCHANGED <<disk, mem, pc, idx, cancelled, prefetched, out, pending,
                  delivered, baseline, seeded, stops, served>>
  BY DEF Post, Delete, store, run, buffers, history
<1>3. posts' \in Seq(Sources) /\ Len(posts') =< MaxPosts /\ gone' \subseteq IDs
  <2>0. posts \in Seq(Sources) /\ Len(posts) =< MaxPosts /\ gone \subseteq IDs
        /\ MaxPosts \in Nat /\ Len(posts) \in Nat /\ DOMAIN posts = 1..Len(posts)
    BY <1>1, IDsFinite DEF TypeOK
  <2>1. ASSUME NEW s \in Sources, Post(s)
        PROVE  posts' \in Seq(Sources) /\ Len(posts') =< MaxPosts /\ gone' \subseteq IDs
    <3>1. posts' = Append(posts, s) /\ Len(posts) < MaxPosts /\ gone' = gone
      BY <2>1 DEF Post
    <3> QED
      BY <2>0, <3>1
  <2>2. ASSUME NEW id \in DOMAIN posts \ gone, Delete(id)
        PROVE  posts' \in Seq(Sources) /\ Len(posts') =< MaxPosts /\ gone' \subseteq IDs
    <3>1. posts' = posts /\ gone' = gone \cup {id}
      BY <2>2 DEF Delete
    <3>2. id \in IDs
      BY <2>0 DEF IDs
    <3> QED
      BY <2>0, <3>1, <3>2
  <2> QED
    BY <2>1, <2>2
<1>4. TypeOK'
  BY <1>1, <1>2, <1>3 DEF TypeOK
<1>5. BuffersMatchPC' /\ BucketsDescend'
  BY <1>1, <1>2 DEF BuffersMatchPC, BucketsDescend
<1>6. StoreAgrees' /\ PendingIsAccounted' /\ SeenIsAccounted'
  BY <1>1, <1>2, QuietPreserves
<1> QED
  BY <1>4, <1>5, <1>6 DEF IInv

(* A process that starts, ends or is interrupted. *)
LEMMA LifecyclePreserves ==
    ASSUME IInv, Open \/ Crash \/ Cancel \/ GracefulExit \/ WriteFails
    PROVE  IInv'
<1>1. TypeOK /\ BuffersMatchPC /\ BucketsDescend /\ mem = disk
  BY DEF IInv, StoreAgrees
<1>2. /\ UNCHANGED <<posts, gone, disk, delivered, baseline, seeded, served>>
      /\ mem' = disk'
  BY <1>1 DEF Open, Crash, Cancel, GracefulExit, WriteFails, upstream, store, history
<1>3. stops' \in 0..MaxStops
  <2>1. stops \in 0..MaxStops /\ MaxStops \in Nat
    BY <1>1, WatchAssumption DEF TypeOK
  <2>2. stops' = stops \/ (stops < MaxStops /\ stops' = stops + 1)
    BY DEF Open, Crash, Cancel, GracefulExit, WriteFails, history, Stop
  <2> QED
    BY <2>1, <2>2
<1>4. CASE Open \/ Cancel
  <2>1. /\ UNCHANGED <<idx, prefetched, out, pending>>
        /\ cancelled' \in BOOLEAN
        /\ pc' = pc \/ (pc = "down" /\ pc' = "prefetch")
    BY <1>1, <1>4 DEF Open, Cancel, run, buffers, TypeOK
  <2>2. BuffersMatchPC' /\ BucketsDescend'
    BY <1>1, <2>1 DEF BuffersMatchPC, BucketsDescend
  <2>3. TypeOK'
    BY <1>1, <1>2, <1>3, <2>1 DEF TypeOK, PCs
  <2>4. StoreAgrees' /\ PendingIsAccounted' /\ SeenIsAccounted'
    BY <1>2, <2>1, QuietPreserves
  <2> QED
    BY <2>2, <2>3, <2>4 DEF IInv
<1>5. CASE Crash \/ GracefulExit \/ WriteFails
  <2>1. /\ pc' = "down" /\ idx' = 1 /\ cancelled' = FALSE /\ prefetched' = NoBuckets
        /\ out' = <<>> /\ pending' = <<>>
    BY <1>5 DEF Crash, GracefulExit, WriteFails, Exit, Finish
  <2>2. 1 \in DOMAIN Argv
    BY WatchAssumption
  <2>3. prefetched' \in [Sources -> Seq(IDs)] /\ BucketsDescend'
    BY <2>1, EmptyBuckets
  <2>4. BuffersMatchPC'
    BY <2>1 DEF BuffersMatchPC
  <2>5. TypeOK'
    <3>1. /\ out' \in Seq([source : Sources, id : IDs])
          /\ pending' \in Seq([source : Sources, state : SourceStates])
      BY <2>1
    <3>2. pc' \in PCs /\ cancelled' \in BOOLEAN
      BY <2>1 DEF PCs
    <3>3. idx' \in DOMAIN Argv
      BY <2>1, <2>2
    <3>4. mem' \in [Sources -> SourceStates]
      BY <1>1, <1>2 DEF TypeOK
    <3> QED
      BY <1>1, <1>2, <1>3, <2>3, <3>1, <3>2, <3>3, <3>4 DEF TypeOK
  <2>6. StoreAgrees' /\ PendingIsAccounted' /\ SeenIsAccounted'
    BY <1>2, <2>1, QuietPreserves
  <2> QED
    BY <2>3, <2>4, <2>5, <2>6 DEF IInv
<1> QED
  BY <1>4, <1>5

(* The beginnings of a cycle. *)
LEMMA CyclePreserves ==
    ASSUME IInv, PrefetchMerged \/ Tick
    PROVE  IInv'
<1>1. TypeOK /\ BuffersMatchPC /\ BucketsDescend /\ mem = disk
  BY DEF IInv, StoreAgrees
<1>2. /\ UNCHANGED <<posts, gone, disk, mem, cancelled, out, pending,
                     delivered, baseline, seeded, stops, served>>
      /\ pc \in {"prefetch", "idle"} /\ pc' \in {"prefetch", "source"}
  BY DEF PrefetchMerged, Tick, upstream, store, buffers, history
<1>3. idx' \in DOMAIN Argv
  BY <1>1, WatchAssumption DEF PrefetchMerged, Tick, TypeOK
<1>4. ASSUME prefetched' = MergedBuckets
      PROVE  prefetched' \in [Sources -> Seq(IDs)] /\ BucketsDescend'
  <2> DEFINE all  == Feed(Batch)
             size == PageSize["rss"]
             feed == Scan(all, size, {p \in Pages :
                              MergedStop(mem, Batch, posts, PageIDs(all, size, p))})
             Of(s) == {i \in DOMAIN feed : posts[feed[i]] = s}
  <2>1. all \in Seq(IDs) /\ Descending(all)
    BY <1>1, FeedDescending
  <2>2. MergedBuckets = [s \in Sources |-> Keep(feed, Of(s))]
    BY DEF MergedBuckets
  <2> HIDE DEF all
  <2>4. feed \in Seq(IDs) /\ Descending(feed)
    BY <2>1, ScanDescending
  <2>5. \A s \in Sources : Of(s) \in SUBSET (DOMAIN feed)
    OBVIOUS
  <2> HIDE DEF feed, Of
  <2>6. \A s \in Sources : Keep(feed, Of(s)) \in Seq(IDs) /\ Descending(Keep(feed, Of(s)))
    BY <2>4, <2>5, KeepDescending
  <2> QED
    BY <1>4, <2>2, <2>6 DEF BucketsDescend
<1>5. prefetched' \in [Sources -> Seq(IDs)] /\ BucketsDescend'
  <2>1. prefetched' = MergedBuckets \/ prefetched' = NoBuckets
    BY DEF PrefetchMerged, Tick
  <2> QED
    BY <1>4, <2>1, EmptyBuckets
<1>6. TypeOK'
  BY <1>1, <1>2, <1>3, <1>5 DEF TypeOK, PCs
<1>7. BuffersMatchPC'
  BY <1>1, <1>2 DEF BuffersMatchPC
<1>8. StoreAgrees' /\ PendingIsAccounted' /\ SeenIsAccounted'
  BY <1>1, <1>2, QuietPreserves
<1> QED
  BY <1>5, <1>6, <1>7, <1>8 DEF IInv

-----------------------------------------------------------------------------
(* The inductive invariant. *)

(* Nothing is remembered or buffered in an initial state. *)
LEMMA InitEstablishes == Init => IInv
<1> SUFFICES ASSUME Init PROVE IInv
  OBVIOUS
<1>1. OldPosts \in Nat /\ MaxPosts \in Nat /\ OldPosts =< MaxPosts /\ MaxStops \in Nat
      /\ 1 \in DOMAIN Argv
  BY WatchAssumption
<1>2. posts \in Seq(Sources) /\ Len(posts) =< MaxPosts
  <2>1. PICK n \in 0..OldPosts : posts \in [1..n -> Sources]
    BY DEF Init
  <2>2. n \in Nat /\ n =< MaxPosts
    BY <1>1, <2>1
  <2> QED
    BY <2>1, <2>2
<1>3. ZeroState \in SourceStates /\ ~ZeroState.Initialized /\ ZeroState.SeenIDs = <<>>
  BY DEF ZeroState, SourceStates
<1>4. TypeOK
  <2>0. idx \in DOMAIN Argv
    BY <1>1 DEF Init
  <2>1. /\ gone \subseteq IDs /\ pc \in PCs
        /\ cancelled \in BOOLEAN /\ served \in BOOLEAN
    BY DEF Init, PCs
  <2>5. stops \in 0..MaxStops
    <3>1. stops = 0
      BY DEF Init
    <3> QED
      BY <1>1, <3>1
  <2>2. /\ disk \in [Sources -> SourceStates] /\ mem \in [Sources -> SourceStates]
        /\ prefetched \in [Sources -> Seq(IDs)]
    BY <1>3 DEF Init, NoBuckets
  <2>3. /\ out \in Seq([source : Sources, id : IDs])
        /\ pending \in Seq([source : Sources, state : SourceStates])
    BY DEF Init
  <2>4. /\ delivered \in [Sources -> [IDs -> Nat]]
        /\ baseline \in [Sources -> 0..MaxPosts]
        /\ seeded \in [Sources -> SUBSET IDs]
    BY <1>1 DEF Init
  <2> QED
    BY <1>2, <2>0, <2>1, <2>2, <2>3, <2>4, <2>5 DEF TypeOK
<1>5. BuffersMatchPC
  BY DEF Init, BuffersMatchPC
<1>6. StoreAgrees
  BY <1>3 DEF Init, StoreAgrees
<1>7. BucketsDescend
  BY DEF Init, NoBuckets, BucketsDescend, Descending
<1>8. PendingIsAccounted
  BY DEF Init, PendingIsAccounted
<1>9. SeenIsAccounted
  BY <1>3 DEF Init, SeenIsAccounted, Accounted, Range
<1> QED
  BY <1>4, <1>5, <1>6, <1>7, <1>8, <1>9 DEF IInv

(* Every step of the process or its environment keeps the invariant. *)
LEMMA StepPreserves == IInv /\ [Next]_vars => IInv'
<1> SUFFICES ASSUME IInv, [Next]_vars PROVE IInv'
  OBVIOUS
<1>1. CASE (\E s \in Sources : Post(s)) \/ (\E id \in DOMAIN posts \ gone : Delete(id))
  BY <1>1, UpstreamPreserves
<1>2. CASE Open \/ Crash \/ Cancel \/ GracefulExit \/ WriteFails
  BY <1>2, LifecyclePreserves
<1>3. CASE PrefetchMerged \/ Tick
  BY <1>3, CyclePreserves
<1>4. CASE \E s \in Sources : Fetch(s)
  BY <1>4, FetchPreserves
<1>5. CASE WriteRecord
  BY <1>5, WriteRecordPreserves
<1>6. CASE WriteDocument
  BY <1>6, WriteDocumentPreserves
<1>7. CASE Put
  BY <1>7, PutPreserves
<1>8. CASE UNCHANGED vars
  <2>1. UNCHANGED <<posts, gone, disk, mem, pc, idx, cancelled, prefetched, out,
                    pending, delivered, baseline, seeded, stops, served>>
    BY <1>8 DEF vars, upstream, store, run, buffers, history
  <2>2. TypeOK' /\ BuffersMatchPC' /\ BucketsDescend'
    BY <2>1 DEF IInv, TypeOK, BuffersMatchPC, BucketsDescend
  <2>3. mem' = disk'
    BY <2>1 DEF IInv, StoreAgrees
  <2>4. StoreAgrees' /\ PendingIsAccounted' /\ SeenIsAccounted'
    BY <2>1, <2>3, QuietPreserves
  <2> QED
    BY <2>2, <2>4 DEF IInv
<1> QED
  BY <1>1, <1>2, <1>3, <1>4, <1>5, <1>6, <1>7, <1>8 DEF Next, Environment, Process

(* The invariant holds of every behaviour: the step from one point of the  *)
(* cycle to the next needs its parts about the program counter, the store  *)
(* and the buffered writes (watch.go run and runCycle).                    *)
THEOREM Invariance == Spec => []IInv
<1>1. Init => IInv
  BY InitEstablishes
<1>2. IInv /\ [Next]_vars => IInv'
  BY StepPreserves
<1> QED
  BY <1>1, <1>2, PTL DEF Spec

(* Every variable keeps its type: in particular whatever is persisted is a *)
(* well-formed seen.json entry (seen.go SourceState).                      *)
THEOREM TypeCorrect == Spec => []TypeOK
<1>1. IInv => TypeOK
  BY DEF IInv
<1> QED
  BY <1>1, Invariance, PTL

(* Whatever the sources, the flags, the limits and the interruptions, a    *)
(* tweet seen.json remembers was delivered, or is history, or lost its     *)
(* place to MaxNew newer deliveries (watch.go runCycle, engine.go Select). *)
THEOREM NothingIsLostSilently == Spec => []SeenIsAccounted
<1>1. IInv => SeenIsAccounted
  BY DEF IInv
<1> QED
  BY <1>1, Invariance, PTL

(* The state writes a process holds back until its records are out are     *)
(* accounted for by those records (watch.go onceJSON).                     *)
THEOREM DeferredWritesAreSafe == Spec => []PendingIsAccounted
<1>1. IInv => PendingIsAccounted
  BY DEF IInv
<1> QED
  BY <1>1, Invariance, PTL

(* Every entry of a list has a first copy. *)
LEMMA FirstCopiesCover ==
    ASSUME NEW T, NEW s \in Seq(T), NEW i \in DOMAIN s
    PROVE  \E j \in FirstCopies(s) : s[j] = s[i]
<1> DEFINE I == {k \in DOMAIN s : s[k] = s[i]}
<1>1. I \in SUBSET (1..Len(s)) /\ Len(s) \in Nat /\ i \in I
  OBVIOUS
<1>2. PICK j \in I : \A k \in I : j =< k
  <2> HIDE DEF I
  <2> QED
    BY <1>1, FirstPosition
<1>3. j \in DOMAIN s /\ s[j] = s[i] /\ j \in Nat /\ DOMAIN s = 1..Len(s)
  BY <1>2
<1>4. ASSUME NEW k \in 1..(j - 1), s[k] = s[j]
      PROVE  FALSE
  <2>1. k \in DOMAIN s /\ k \in Int /\ k < j
    BY <1>1, <1>3
  <2>2. k \in I
    BY <1>3, <1>4, <2>1
  <2> QED
    BY <1>2, <1>3, <2>1, <2>2
<1> QED
  BY <1>3, <1>4 DEF FirstCopies

(* MergeSeen forgets an id only when the list is full (seen.go MergeSeen). *)
LEMMA MergeSeenCovers ==
    ASSUME NEW T, NEW newIDs \in Seq(T), NEW oldIDs \in Seq(T),
           EmptyID \notin Range(newIDs) \cup Range(oldIDs)
    PROVE  LET merged == Range(MergeSeen(newIDs, oldIDs))
           IN  /\ IsFiniteSet(merged) /\ Cardinality(merged) =< SeenLimit
               /\ \/ Range(newIDs) \cup Range(oldIDs) \subseteq merged
                  \/ Cardinality(merged) = SeenLimit
<1> DEFINE all  == newIDs \o oldIDs
           I    == {i \in FirstCopies(all) : all[i] # EmptyID}
           kept == Keep(all, I)
           list == MergeSeen(newIDs, oldIDs)
<1>1. all \in Seq(T) /\ Range(all) = Range(newIDs) \cup Range(oldIDs)
  BY ConcatProperties, RangeConcatenation
<1>2. list \in Seq(T) /\ Distinct(list) /\ Len(list) =< SeenLimit
  BY MergeSeenProperties
<1>3. IsFiniteSet(Range(list)) /\ Cardinality(Range(list)) = Len(list)
  BY <1>2, RangeFinite
<1>4. list = UpTo(kept, SeenLimit)
  BY DEF MergeSeen
<1> HIDE DEF all, list
<1>5. I \in SUBSET (DOMAIN all)
  BY DEF FirstCopies
<1>6. \A i \in DOMAIN all : \E j \in I : all[j] = all[i]
  <2> TAKE i \in DOMAIN all
  <2>1. PICK j \in FirstCopies(all) : all[j] = all[i]
    BY <1>1, FirstCopiesCover
  <2>2. all[i] # EmptyID
    BY <1>1 DEF Range
  <2> QED
    BY <2>1, <2>2
<1> HIDE DEF I
<1>7. kept \in Seq(T) /\ Range(kept) = {all[i] : i \in I}
  BY <1>1, <1>5, KeepProperties
<1>8. Range(all) \subseteq Range(kept)
  BY <1>6, <1>7 DEF Range
<1> HIDE DEF kept
<1>9. Range(list) = Range(kept) \/ Len(list) = SeenLimit
  BY <1>4, <1>7, UpToFills, SeenListAssumption
<1> QED
  BY <1>1, <1>2, <1>3, <1>8, <1>9 DEF list

(* Newest first is without copies. *)
LEMMA DescendingDistinct ==
    ASSUME NEW s \in Seq(IDs), Descending(s)
    PROVE  Distinct(s)
<1>1. \A i \in DOMAIN s : i \in Int /\ s[i] \in Int
  <2> TAKE i \in DOMAIN s
  <2>1. i \in Int /\ s[i] \in IDs
    BY ElementOfSeq
  <2>2. s[i] \in Nat
    BY <2>1, IDsFinite
  <2> QED
    BY <2>1, <2>2
<1>2. ASSUME NEW i \in DOMAIN s, NEW j \in DOMAIN s, s[i] = s[j]
      PROVE  i = j
  <2>1. ~(i < j) /\ ~(j < i)
    BY <1>1, <1>2 DEF Descending
  <2> QED
    BY <1>1, <2>1
<1> QED
  BY <1>2 DEF Distinct

(* No tweet is without an id: EmptyID stands for the empty string. *)
LEMMA IDsAreIDs == EmptyID \notin IDs
BY IDsFinite, WatchAssumption

(* What a state remembers is finitely many ids. *)
LEMMA SeenFinite ==
    ASSUME NEW state \in SourceStates
    PROVE  /\ state.SeenIDs \in Seq(IDs) /\ Range(state.SeenIDs) \subseteq IDs
           /\ IsFiniteSet(Range(state.SeenIDs)) /\ Cardinality(Range(state.SeenIDs)) \in Nat
<1>1. state.SeenIDs \in Seq(IDs)
  BY DEF SourceStates
<1> QED
  BY <1>1, RangeFinite, RangeOfSeq

(* The state of a round that commits ids contains them and what it         *)
(* contained, unless it is full.                                           *)
LEMMA AdvancedCovers ==
    ASSUME NEW ids \in Seq(IDs), NEW mark \in Seq(IDs), NEW prev \in SourceStates
    PROVE  LET seen == Range(Advanced(ids, prev, mark).SeenIDs)
           IN  /\ seen \subseteq Range(ids) \cup Range(prev.SeenIDs)
               /\ Cardinality(seen) =< SeenLimit
               /\ \/ Range(ids) \cup Range(prev.SeenIDs) \subseteq seen
                  \/ Cardinality(seen) = SeenLimit
<1>1. prev.SeenIDs \in Seq(IDs) /\ Range(prev.SeenIDs) \subseteq IDs
  BY SeenFinite
<1>2. Range(ids) \subseteq IDs
  BY RangeOfSeq
<1>3. EmptyID \notin Range(ids) \cup Range(prev.SeenIDs)
  BY <1>1, <1>2, IDsAreIDs
<1>4. Advanced(ids, prev, mark).SeenIDs = MergeSeen(ids, prev.SeenIDs)
  BY DEF Advanced
<1> QED
  BY <1>1, <1>3, <1>4, MergeSeenCovers, MergeSeenProperties

(* One round of the engine: it emits tweets it did not know, each of them  *)
(* once, and remembers them and what it knew, unless its list is full      *)
(* (engine.go Select).                                                     *)
Remembers(tweets, prev, res) ==
    /\ Distinct(res.Tweets)
    /\ Range(res.Tweets) \subseteq Range(tweets) \ Range(prev.SeenIDs)
    /\ Range(res.State.SeenIDs) \subseteq Range(tweets) \cup Range(prev.SeenIDs)
    /\ \/ res.State = prev /\ res.Tweets = <<>>
       \/ Cardinality(Range(res.State.SeenIDs)) =< SeenLimit
    /\ \/ Range(res.Tweets) \cup Range(prev.SeenIDs) \subseteq Range(res.State.SeenIDs)
       \/ Cardinality(Range(res.State.SeenIDs)) = SeenLimit

(* A turn that selects nothing remembers what it did before.               *)
LEMMA NothingRemembers ==
    ASSUME NEW tweets, NEW prev
    PROVE  Remembers(tweets, prev, Nothing(prev))
BY DEF Remembers, Nothing, Distinct, Range

(* What the engine selects is new to the previous state, and the state it  *)
(* returns remembers both, or is full (engine.go Select).                  *)
LEMMA SelectRemembers ==
    ASSUME NEW tweets \in Seq(IDs), Descending(tweets),
           NEW page \in Seq(IDs), Range(page) \subseteq Range(tweets),
           NEW prev \in SourceStates, NEW kind,
           ~prev.Initialized => prev.SeenIDs = <<>>
    PROVE  Remembers(tweets, prev, Select(tweets, page, prev, kind))
<1> DEFINE mark == CapWatermark(page)
           res  == Select(tweets, page, prev, kind)
<1>1. mark \in Seq(IDs) /\ Range(mark) \subseteq Range(tweets)
  BY CapWatermarkProperties
<1>2. Distinct(tweets)
  BY DescendingDistinct
<1>3. <<>> \in Seq(IDs) /\ Range(<<>>) = {} /\ Distinct(<<>>)
  BY DEF Range, Distinct
<1> HIDE DEF mark
<1>4. CASE ~prev.Initialized
  <2> DEFINE ids == NonEmptyIDs(tweets)
             I == {i \in DOMAIN tweets : tweets[i] # EmptyID}
  <2>1. res = FirstRun(tweets, mark, prev, kind)
    BY <1>4 DEF Select, mark
  <2>2. ids \in Seq(IDs) /\ Range(ids) = Range(tweets)
    <3>1. ids \in Seq(IDs) /\ Range(ids) = {tweets[i] : i \in I}
      BY KeepProperties DEF NonEmptyIDs
    <3>2. I = DOMAIN tweets
      <4>1. \A i \in DOMAIN tweets : tweets[i] \in IDs
        BY ElementOfSeq
      <4> QED
        BY <4>1, IDsAreIDs
    <3> QED
      BY <3>1, <3>2 DEF Range
  <2> HIDE DEF ids
  <2>3. CASE ids = <<>> /\ kind # "user"
    BY <2>1, <2>3, NothingRemembers DEF FirstRun, ids
  <2>4. CASE ~(ids = <<>> /\ kind # "user")
    <3> DEFINE state == Advanced(ids, prev, mark)
    <3>1. res.State = state
      BY <2>1, <2>4 DEF FirstRun, ids
    <3>2. res.Tweets = <<>> \/ res.Tweets = tweets
      BY <2>1, <2>4 DEF FirstRun, ids
    <3>3. Range(prev.SeenIDs) = {}
      BY <1>3, <1>4
    <3>4. /\ Range(state.SeenIDs) \subseteq Range(ids) \cup Range(prev.SeenIDs)
          /\ Cardinality(Range(state.SeenIDs)) =< SeenLimit
          /\ \/ Range(ids) \cup Range(prev.SeenIDs) \subseteq Range(state.SeenIDs)
             \/ Cardinality(Range(state.SeenIDs)) = SeenLimit
      BY <1>1, <2>2, AdvancedCovers
    <3> HIDE DEF state, res
    <3>5. Distinct(res.Tweets) /\ Range(res.Tweets) \subseteq Range(tweets)
      BY <1>2, <1>3, <3>2
    <3> QED
      BY <2>2, <3>1, <3>3, <3>4, <3>5 DEF Remembers, res
  <2> QED
    BY <2>3, <2>4
<1>5. CASE prev.Initialized /\ tweets = <<>>
  BY <1>5, NothingRemembers DEF Select
<1>6. CASE prev.Initialized /\ tweets # <<>> /\ MaxNew = 0
  <2> DEFINE state == Advanced(mark, prev, mark)
  <2>1. res.Tweets = <<>> /\ res.State = state
    BY <1>6 DEF Select, mark
  <2>2. /\ Range(state.SeenIDs) \subseteq Range(mark) \cup Range(prev.SeenIDs)
        /\ Cardinality(Range(state.SeenIDs)) =< SeenLimit
        /\ \/ Range(mark) \cup Range(prev.SeenIDs) \subseteq Range(state.SeenIDs)
           \/ Cardinality(Range(state.SeenIDs)) = SeenLimit
    BY <1>1, AdvancedCovers
  <2> HIDE DEF state, res
  <2> QED
    BY <1>1, <1>3, <2>1, <2>2 DEF Remembers, res
<1>7. CASE prev.Initialized /\ tweets # <<>> /\ MaxNew # 0
  <2> DEFINE I   == {i \in DOMAIN tweets : tweets[i] # EmptyID
                                            /\ tweets[i] \notin Range(prev.SeenIDs)}
             new == NewTweets(tweets, prev)
             top == UpTo(new, MaxNew)
             ids == IF KeepOverflow THEN top ELSE new
             state == Advanced(ids, prev, mark)
  <2>1. res = [Tweets |-> top, State |-> state]
    BY <1>7 DEF Select, EmitNew, mark
  <2>2. /\ new \in Seq(IDs) /\ Distinct(new)
        /\ Range(new) \subseteq Range(tweets) \ Range(prev.SeenIDs)
    <3>1. I \in SUBSET (DOMAIN tweets) /\ new = Keep(tweets, I)
      BY DEF NewTweets
    <3>2. /\ \A i \in I : tweets[i] \notin Range(prev.SeenIDs)
          /\ \A i, j \in I : tweets[i] = tweets[j] => i = j
      BY <1>2 DEF Distinct
    <3> HIDE DEF I, new
    <3>3. new \in Seq(IDs) /\ Range(new) = {tweets[i] : i \in I} /\ Distinct(new)
      BY <3>1, <3>2, KeepProperties, KeepDistinct
    <3> QED
      BY <3>1, <3>2, <3>3 DEF Range
  <2> HIDE DEF new
  <2>3. /\ top \in Seq(IDs) /\ Distinct(top) /\ Range(top) \subseteq Range(new)
    BY <2>2, IDsFinite, UpToProperties
  <2> HIDE DEF top
  <2>4. ids \in Seq(IDs) /\ Range(top) \subseteq Range(ids) /\ Range(ids) \subseteq Range(new)
    BY <2>2, <2>3
  <2> HIDE DEF ids
  <2>5. /\ Range(state.SeenIDs) \subseteq Range(ids) \cup Range(prev.SeenIDs)
        /\ Cardinality(Range(state.SeenIDs)) =< SeenLimit
        /\ \/ Range(ids) \cup Range(prev.SeenIDs) \subseteq Range(state.SeenIDs)
           \/ Cardinality(Range(state.SeenIDs)) = SeenLimit
    BY <1>1, <2>4, AdvancedCovers
  <2>6. res.Tweets = top /\ res.State = state
    BY <2>1
  <2> HIDE DEF state, res
  <2> QED
    BY <2>2, <2>3, <2>4, <2>5, <2>6 DEF Remembers, res
<1> QED
  BY <1>4, <1>5, <1>6, <1>7

-----------------------------------------------------------------------------
(* Whose tweets a fetch brings in. *)

(* What a source posted is finite and stays its own. *)
LEMMA OwnFinite ==
    ASSUME TypeOK, NEW s \in Sources
    PROVE  /\ Own(s) \subseteq IDs /\ IsFiniteSet(Own(s)) /\ Cardinality(Own(s)) \in Nat
           /\ Cardinality(Own(s)) =< MaxPosts
<1>1. DOMAIN posts = 1..Len(posts) /\ Len(posts) \in Nat /\ Len(posts) =< MaxPosts
      /\ MaxPosts \in Nat
  BY IDsFinite DEF TypeOK
<1>2. Own(s) \subseteq IDs
  BY <1>1 DEF Own, IDs
<1>3. IsFiniteSet(1..MaxPosts) /\ Cardinality(1..MaxPosts) = MaxPosts
  BY <1>1, FS_Interval
<1>4. IsFiniteSet(IDs) /\ Cardinality(IDs) = MaxPosts
  BY <1>3 DEF IDs
<1> QED
  BY <1>2, <1>4, FS_Subset, FS_CardinalityType

(* The upstream answers a source with its own tweets. *)
LEMMA FeedIsOwn ==
    ASSUME TypeOK, NEW S
    PROVE  \A id \in Range(Feed(S)) : id \in DOMAIN posts /\ posts[id] \in S
<1> DEFINE n == Len(posts)
           all == Countdown(n)
           I == {k \in DOMAIN all : posts[all[k]] \in S /\ all[k] \notin gone}
<1>1. n \in Nat /\ n =< MaxPosts /\ MaxPosts \in Nat /\ DOMAIN posts = 1..n
  BY WatchAssumption DEF TypeOK
<1>2. all \in Seq(IDs) /\ \A k \in DOMAIN all : all[k] \in 1..n
  <2>1. all = [k \in 1..n |-> n + 1 - k]
    BY DEF Countdown
  <2>2. \A k \in 1..n : n + 1 - k \in 1..n /\ n + 1 - k \in IDs
    BY <1>1 DEF IDs
  <2> QED
    BY <1>1, <2>1, <2>2, IsASeq
<1> HIDE DEF all
<1>3. I \in SUBSET (DOMAIN all) /\ \A k \in I : posts[all[k]] \in S
  OBVIOUS
<1>4. Feed(S) = Keep(all, I)
  BY DEF Feed, all
<1> HIDE DEF I
<1>5. Range(Feed(S)) = {all[k] : k \in I}
  BY <1>2, <1>3, <1>4, KeepProperties
<1> QED
  BY <1>1, <1>2, <1>3, <1>5

(* A filter and a scan bring in nothing of their own.                      *)
LEMMA KeepShrinks ==
    ASSUME NEW s \in Seq(IDs), NEW I \in SUBSET (DOMAIN s)
    PROVE  Range(Keep(s, I)) \subseteq Range(s)
<1>1. Range(Keep(s, I)) = {s[i] : i \in I}
  BY KeepProperties
<1> QED
  BY <1>1 DEF Range

(* So a reader's window shows nothing but the feed.                        *)
LEMMA ScanShrinks ==
    ASSUME NEW feed \in Seq(IDs), NEW size, NEW ends
    PROVE  Range(Scan(feed, size, ends)) \subseteq Range(feed)
BY KeepShrinks DEF Scan

(* A source's own fetch brings in its own tweets. *)
LEMMA TimelineIsOwn ==
    ASSUME TypeOK, NEW s \in Sources, NEW lane, NEW prev
    PROVE  Range(Timeline(s, lane, prev)) \subseteq Own(s)
<1>1. Feed({s}) \in Seq(IDs)
  BY FeedDescending
<1>2. Range(Timeline(s, lane, prev)) \subseteq Range(Feed({s}))
  BY <1>1, ScanShrinks DEF Timeline
<1>3. Range(Feed({s})) \subseteq Own(s)
  BY FeedIsOwn DEF Own
<1> QED
  BY <1>2, <1>3

(* A merged fetch is divided by author: every source is handed its own     *)
(* tweets (merged.go MergedTimeline).                                      *)
LEMMA BucketsAreOwn ==
    ASSUME TypeOK, NEW s \in Sources
    PROVE  Range(MergedBuckets[s]) \subseteq Own(s)
<1> DEFINE all  == Feed(Batch)
           size == PageSize["rss"]
           feed == Scan(all, size, {p \in Pages :
                            MergedStop(mem, Batch, posts, PageIDs(all, size, p))})
           Of(t) == {i \in DOMAIN feed : posts[feed[i]] = t}
<1>1. all \in Seq(IDs) /\ Descending(all)
  BY FeedDescending
<1>2. \A id \in Range(all) : id \in DOMAIN posts
  BY FeedIsOwn
<1>3. MergedBuckets[s] = Keep(feed, Of(s))
  BY DEF MergedBuckets
<1> HIDE DEF all
<1>4. feed \in Seq(IDs) /\ Range(feed) \subseteq Range(all)
  BY <1>1, ScanDescending, ScanShrinks
<1>5. Of(s) \in SUBSET (DOMAIN feed) /\ \A i \in Of(s) : posts[feed[i]] = s
  OBVIOUS
<1> HIDE DEF feed, Of
<1>6. Range(Keep(feed, Of(s))) = {feed[i] : i \in Of(s)}
  BY <1>4, <1>5, KeepProperties
<1>7. \A i \in Of(s) : feed[i] \in DOMAIN posts
  BY <1>2, <1>4, <1>5 DEF Range
<1> QED
  BY <1>3, <1>5, <1>6, <1>7 DEF Own

-----------------------------------------------------------------------------
(* What a state keeps of the one before it. *)

(* Forgetting only when full composes, as no list is longer than full.     *)
LEMMA ExtendsTransitive ==
    ASSUME NEW a \in SourceStates, NEW b \in SourceStates, NEW c \in SourceStates,
           Extends(b, a), Extends(c, b), Cardinality(Range(c.SeenIDs)) =< SeenLimit
    PROVE  Extends(c, a)
<1>1. /\ IsFiniteSet(Range(c.SeenIDs)) /\ Cardinality(Range(c.SeenIDs)) \in Nat
      /\ Cardinality(Range(b.SeenIDs)) \in Nat /\ SeenLimit \in Nat
  BY SeenFinite, SeenListAssumption
<1>2. ASSUME Range(b.SeenIDs) \subseteq Range(c.SeenIDs), Cardinality(Range(b.SeenIDs)) = SeenLimit
      PROVE  Cardinality(Range(c.SeenIDs)) = SeenLimit
  <2>1. Cardinality(Range(b.SeenIDs)) =< Cardinality(Range(c.SeenIDs))
    BY <1>1, <1>2, FS_Subset
  <2> QED
    BY <1>1, <1>2, <2>1
<1> QED
  BY <1>2 DEF Extends

(* A state that does not change forgets nothing.                           *)
LEMMA ExtendsItself ==
    ASSUME NEW a PROVE Extends(a, a)
BY DEF Extends

(* A list with room for everything its source posted is full only when it  *)
(* holds everything.                                                       *)
LEMMA FullIsAll ==
    ASSUME TypeOK, NEW s \in Sources, Fits(s), NEW state \in SourceStates,
           Range(state.SeenIDs) \subseteq Own(s), Cardinality(Range(state.SeenIDs)) = SeenLimit
    PROVE  Range(state.SeenIDs) = Own(s)
<1>1. IsFiniteSet(Own(s)) /\ Cardinality(Own(s)) \in Nat /\ SeenLimit \in Nat
  BY OwnFinite, SeenListAssumption
<1>2. Cardinality(Range(state.SeenIDs)) =< Cardinality(Own(s))
      /\ (Cardinality(Own(s)) = Cardinality(Range(state.SeenIDs)) => Own(s) = Range(state.SeenIDs))
  BY <1>1, FS_Subset
<1>3. Cardinality(Own(s)) =< SeenLimit
  BY DEF Fits
<1> QED
  BY <1>1, <1>2, <1>3

(* With room for all, a later state remembers what an earlier one did.     *)
LEMMA FitsExtends ==
    ASSUME TypeOK, NEW s \in Sources, Fits(s), NEW a \in SourceStates, NEW b \in SourceStates,
           Range(a.SeenIDs) \subseteq Own(s), Range(b.SeenIDs) \subseteq Own(s), Extends(b, a)
    PROVE  Range(a.SeenIDs) \subseteq Range(b.SeenIDs)
BY FullIsAll DEF Extends

(* Where every list has room for all posts, every source fits. *)
LEMMA RoomForAll ==
    ASSUME TypeOK, MaxPosts =< SeenLimit, NEW s \in Sources
    PROVE  Fits(s)
<1>1. Cardinality(Own(s)) \in Nat /\ Cardinality(Own(s)) =< MaxPosts
      /\ MaxPosts \in Nat /\ SeenLimit \in Nat
  BY OwnFinite, IDsFinite, SeenListAssumption
<1> QED
  BY <1>1 DEF Fits

-----------------------------------------------------------------------------
(* What a turn compares its fetch with. *)

(* PrevState of the state writes and the store that are given. *)
PrevOf(writes, held, s) ==
    LET buffered == {i \in DOMAIN writes : writes[i].source = s}
    IN  IF buffered = {} THEN held[s]
        ELSE LET last == CHOOSE i \in buffered : \A j \in buffered : j =< i
             IN  writes[last].state

(* The previous state is the store's or that of the last state write that  *)
(* waits for the source.                                                   *)
LEMMA PrevStateIs ==
    ASSUME NEW writes \in Seq(Write), NEW held, NEW s
    PROVE  \/ /\ \A i \in DOMAIN writes : writes[i].source # s
              /\ PrevOf(writes, held, s) = held[s]
           \/ \E last \in DOMAIN writes :
                 /\ writes[last].source = s
                 /\ \A i \in DOMAIN writes : writes[i].source = s => i =< last
                 /\ PrevOf(writes, held, s) = writes[last].state
<1> DEFINE buffered == {i \in DOMAIN writes : writes[i].source = s}
<1>1. CASE buffered = {}
  BY <1>1 DEF PrevOf
<1>2. CASE buffered # {}
  <2> DEFINE last == CHOOSE i \in buffered : \A j \in buffered : j =< i
  <2>1. buffered \in SUBSET (1..Len(writes)) /\ Len(writes) \in Nat
    OBVIOUS
  <2>2. \E i \in buffered : \A j \in buffered : j =< i
    <3> HIDE DEF buffered
    <3> QED
      BY <1>2, <2>1, LastPosition
  <2>3. last \in buffered /\ \A j \in buffered : j =< last
    BY <2>2
  <2>4. PrevOf(writes, held, s) = writes[last].state
    BY <1>2 DEF PrevOf
  <2> HIDE DEF last
  <2> QED
    BY <2>3, <2>4
<1> QED
  BY <1>1, <1>2

(* The last write of a source decides. *)
LEMMA PrevStateLast ==
    ASSUME NEW writes \in Seq(Write), NEW held, NEW s,
           NEW last \in DOMAIN writes, writes[last].source = s,
           \A i \in DOMAIN writes : writes[i].source = s => i =< last
    PROVE  PrevOf(writes, held, s) = writes[last].state
<1>1. PICK k \in DOMAIN writes :
        /\ writes[k].source = s
        /\ \A i \in DOMAIN writes : writes[i].source = s => i =< k
        /\ PrevOf(writes, held, s) = writes[k].state
  BY PrevStateIs
<1>2. k =< last /\ last =< k /\ k \in Int /\ last \in Int
  BY <1>1
<1> QED
  BY <1>1, <1>2

(* Without a buffered write the store speaks for the source.               *)
LEMMA PrevStateNone ==
    ASSUME NEW writes \in Seq(Write), NEW held, NEW s,
           \A i \in DOMAIN writes : writes[i].source # s
    PROVE  PrevOf(writes, held, s) = held[s]
BY PrevStateIs

(* The state a turn compares with, in a step and after it.                 *)
LEMMA PrevStateOf ==
    ASSUME NEW s
    PROVE  PrevState(s) = PrevOf(pending, mem, s) /\ PrevState(s)' = PrevOf(pending', mem', s)
BY DEF PrevState, PrevOf

(* What is known of the previous state of a turn. *)
LEMMA PrevStateKnown ==
    ASSUME IInv, DInv, NEW s \in Sources
    PROVE  /\ PrevState(s) \in SourceStates
           /\ Range(PrevState(s).SeenIDs) \subseteq Own(s)
           /\ Extends(PrevState(s), disk[s])
           /\ \A i \in DOMAIN pending :
                 pending[i].source = s => Extends(PrevState(s), pending[i].state)
           /\ ~PrevState(s).Initialized => PrevState(s).SeenIDs = <<>> /\ ~disk[s].Initialized
           /\ Fits(s) => Range(disk[s].SeenIDs) \subseteq Range(PrevState(s).SeenIDs)
<1>0. PrevState(s) = PrevOf(pending, mem, s)
  BY PrevStateOf
<1>1. TypeOK /\ mem = disk /\ HeldAreOwn /\ WritesExtend
      /\ disk[s] \in SourceStates /\ pending \in Seq(Write)
  BY DEF IInv, DInv, StoreAgrees, TypeOK, Write
<1>2. Range(disk[s].SeenIDs) \subseteq Own(s)
  BY <1>1 DEF HeldAreOwn
<1>3. /\ PrevState(s) \in SourceStates
      /\ ~PrevState(s).Initialized =>
            PrevState(s).SeenIDs = <<>> /\ \A i \in DOMAIN pending : pending[i].source # s
  BY PrevStateAccounted
<1>4. /\ Range(PrevState(s).SeenIDs) \subseteq Own(s)
      /\ Extends(PrevState(s), disk[s])
      /\ \A i \in DOMAIN pending :
            pending[i].source = s => Extends(PrevState(s), pending[i].state)
  <2>1. CASE \A i \in DOMAIN pending : pending[i].source # s
    <3>1. PrevState(s) = disk[s]
      BY <1>0, <1>1, <2>1, PrevStateNone
    <3> QED
      BY <1>2, <2>1, <3>1, ExtendsItself
  <2>2. CASE ~\A i \in DOMAIN pending : pending[i].source # s
    <3>1. PICK last \in DOMAIN pending :
            /\ pending[last].source = s
            /\ \A i \in DOMAIN pending : pending[i].source = s => i =< last
            /\ PrevState(s) = pending[last].state
      BY <1>0, <1>1, <2>2, PrevStateIs
    <3>2. Range(PrevState(s).SeenIDs) \subseteq Own(s) /\ Extends(PrevState(s), disk[s])
      BY <1>1, <3>1 DEF HeldAreOwn, WritesExtend
    <3>3. ASSUME NEW i \in DOMAIN pending, pending[i].source = s
          PROVE  Extends(PrevState(s), pending[i].state)
      <4>1. i =< last /\ i \in Int /\ last \in Int
        BY <1>1, <3>1, <3>3
      <4>2. i = last \/ i < last
        BY <4>1
      <4> QED
        BY <1>1, <3>1, <3>3, <4>2, ExtendsItself DEF WritesExtend
    <3> QED
      BY <3>2, <3>3
  <2> QED
    BY <2>1, <2>2
<1>5. ~PrevState(s).Initialized => ~disk[s].Initialized
  BY <1>0, <1>1, <1>3, PrevStateNone
<1>6. Fits(s) => Range(disk[s].SeenIDs) \subseteq Range(PrevState(s).SeenIDs)
  BY <1>1, <1>2, <1>3, <1>4, FitsExtends
<1> QED
  BY <1>3, <1>4, <1>5, <1>6

-----------------------------------------------------------------------------
(* The deliveries keep their promises over every step. *)

(* Posting takes nothing away from a source. *)
LEMMA PostsGrow ==
    ASSUME TypeOK, TypeOK', NEW s \in Sources,
           UNCHANGED posts \/ \E t \in Sources : posts' = Append(posts, t)
    PROVE  /\ Own(s) \subseteq Own(s)'
           /\ Fits(s)' => Fits(s)
<1>1. posts \in Seq(Sources)
  BY DEF TypeOK
<1>2. \A id \in DOMAIN posts : id \in DOMAIN posts' /\ posts'[id] = posts[id]
  <2>1. CASE UNCHANGED posts
    BY <2>1
  <2>2. CASE \E t \in Sources : posts' = Append(posts, t)
    BY <1>1, <2>2
  <2> QED
    BY <2>1, <2>2
<1>3. Own(s) \subseteq Own(s)'
  BY <1>2 DEF Own
<1>4. IsFiniteSet(Own(s)') /\ Cardinality(Own(s)') \in Nat /\ Cardinality(Own(s)) \in Nat
  <2>1. IsFiniteSet(Own(s)')
    <3>1. /\ posts' \in Seq(Sources) /\ Len(posts') \in Nat
      BY DEF TypeOK
    <3>2. Own(s)' \subseteq 1..Len(posts')
      BY <3>1 DEF Own
    <3>3. IsFiniteSet(1..Len(posts'))
      BY <3>1, FS_Interval
    <3> QED
      BY <3>2, <3>3, FS_Subset
  <2> QED
    BY <2>1, OwnFinite, FS_CardinalityType
<1>5. Cardinality(Own(s)) =< Cardinality(Own(s)')
  BY <1>3, <1>4, FS_Subset
<1> QED
  BY <1>3, <1>4, <1>5, SeenListAssumption DEF Fits

(* WritesExtend after a step, spelled out.                                 *)
LEMMA WritesExtendNext ==
    ASSUME \A s \in Sources : \A i \in DOMAIN pending' : pending'[i].source = s =>
              /\ Extends(pending'[i].state, disk'[s])
              /\ \A j \in DOMAIN pending' :
                    i < j /\ pending'[j].source = s => Extends(pending'[j].state, pending'[i].state)
    PROVE  WritesExtend'
BY DEF WritesExtend

(* Of steps that neither write nor persist. *)
LEMMA QuietKeeps ==
    ASSUME IInv, IInv', DInv,
           UNCHANGED <<disk, delivered, out, pending>>,
           UNCHANGED posts \/ \E t \in Sources : posts' = Append(posts, t),
           stops =< stops',
           \A s \in Sources : Range(prefetched'[s]) \subseteq Own(s)',
           TurnsInOrder',
           pc' \notin {"write", "put"} => pc \notin {"write", "put"}
    PROVE  DInv'
<1>1. /\ TypeOK /\ TypeOK' /\ mem = disk /\ mem' = disk'
      /\ HeldAreOwn /\ WritesExtend /\ RecordsFresh
      /\ \A s \in Sources : Fits(s) => PaidFor(s)
  BY DEF IInv, StoreAgrees, DInv
<1>2. \A s \in Sources : Own(s) \subseteq Own(s)' /\ (Fits(s)' => Fits(s))
  BY <1>1, PostsGrow
<1>3. out \in Seq(Record) /\ pending \in Seq(Write)
  BY <1>1 DEF TypeOK, Record, Write
<1>4. \A s \in Sources : DeliveredIDs(s)' = DeliveredIDs(s) /\ Waiting(s)' = Waiting(s)
  BY DEF DeliveredIDs, Waiting
<1>5. HeldAreOwn' /\ WritesExtend'
  <2>1. ASSUME NEW s \in Sources
        PROVE  /\ DeliveredIDs(s)' \cup Waiting(s)' \subseteq Own(s)'
               /\ Range(disk'[s].SeenIDs) \cup Range(prefetched'[s]) \subseteq Own(s)'
               /\ \A i \in DOMAIN pending' : pending'[i].source = s =>
                     Range(pending'[i].state.SeenIDs) \subseteq Own(s)'
    <3>1. /\ DeliveredIDs(s) \cup Waiting(s) \subseteq Own(s)
          /\ Range(disk[s].SeenIDs) \subseteq Own(s)
          /\ \A i \in DOMAIN pending : pending[i].source = s =>
                Range(pending[i].state.SeenIDs) \subseteq Own(s)
      BY <1>1 DEF HeldAreOwn
    <3>2. Own(s) \subseteq Own(s)' /\ Range(prefetched'[s]) \subseteq Own(s)'
      BY <1>2
    <3> QED
      BY <1>4, <3>1, <3>2
  <2>2. HeldAreOwn'
    BY <2>1 DEF HeldAreOwn
  <2>3. WritesExtend'
    BY <1>1, WritesExtendNext DEF WritesExtend
  <2> QED
    BY <2>2, <2>3
<1>6. RecordsFresh'
  <2>1. \A s \in Sources : Settled(s)' => Settled(s)
    BY <1>2 DEF Settled, NoRepeats
  <2> QED
    BY <1>1, <1>4, <2>1 DEF RecordsFresh
<1>7. ASSUME NEW s \in Sources, Fits(s)'
      PROVE  PaidFor(s)'
  <2>1. PaidFor(s)
    BY <1>1, <1>2, <1>7
  <2>2. PrevState(s)' = PrevState(s) /\ Waiting(s)' = Waiting(s)
    BY <1>1 DEF PrevState, Waiting
  <2>3. stops \in Nat /\ stops' \in Nat /\ \A id \in IDs : delivered[s][id] \in Nat
    BY <1>1, WatchAssumption DEF TypeOK
  <2>4. Waiting(s)' \subseteq Range(PrevState(s)'.SeenIDs)
    BY <2>1, <2>2 DEF PaidFor
  <2>5. ASSUME NEW id \in IDs
        PROVE  /\ delivered'[s][id] + (IF id \in Waiting(s)' THEN 1 ELSE 0)
                    =< stops' + (IF id \in Range(PrevState(s)'.SeenIDs) THEN 1 ELSE 0)
               /\ pc' \notin {"write", "put"} /\ id \notin Range(disk'[s].SeenIDs) =>
                    delivered'[s][id] =< stops'
    <3>1. /\ delivered[s][id] + (IF id \in Waiting(s) THEN 1 ELSE 0)
                    =< stops + (IF id \in Range(PrevState(s).SeenIDs) THEN 1 ELSE 0)
          /\ pc \notin {"write", "put"} /\ id \notin Range(disk[s].SeenIDs) =>
                    delivered[s][id] =< stops
      BY <2>1 DEF PaidFor
    <3> QED
      BY <2>2, <2>3, <3>1
  <2> QED
    BY <2>4, <2>5 DEF PaidFor
<1> QED
  BY <1>5, <1>6, <1>7 DEF DInv

(* Of interruptions and early exits: what is not remembered is paid for by *)
(* the stop, and a graceful exit leaves nothing of the kind.               *)
LEMMA ExitKeeps ==
    ASSUME IInv, IInv', DInv, Exit,
           UNCHANGED <<posts, disk, mem, delivered>>,
           stops' = stops + 1 \/ (stops' = stops /\ pc \notin {"write", "put"})
    PROVE  DInv'
<1>1. /\ TypeOK /\ TypeOK' /\ mem = disk /\ mem' = disk'
      /\ HeldAreOwn /\ \A s \in Sources : Fits(s) => PaidFor(s)
  BY DEF IInv, StoreAgrees, DInv
<1>2. pc' = "down" /\ prefetched' = NoBuckets /\ out' = <<>> /\ pending' = <<>>
  BY DEF Exit, Finish
<1>3. DOMAIN out' = {} /\ DOMAIN pending' = {}
  BY <1>2
<1>4. \A s \in Sources : Waiting(s)' = {} /\ DeliveredIDs(s)' = DeliveredIDs(s)
                          /\ Own(s)' = Own(s) /\ Range(prefetched'[s]) = {}
  BY <1>2, <1>3 DEF Waiting, DeliveredIDs, Own, NoBuckets, Range
<1>5. HeldAreOwn' /\ WritesExtend' /\ TurnsInOrder' /\ RecordsFresh'
  <2>1. HeldAreOwn'
    <3> SUFFICES ASSUME NEW s \in Sources
                 PROVE  /\ DeliveredIDs(s)' \cup Waiting(s)' \subseteq Own(s)'
                        /\ Range(disk'[s].SeenIDs) \cup Range(prefetched'[s]) \subseteq Own(s)'
                        /\ \A i \in DOMAIN pending' : pending'[i].source = s =>
                              Range(pending'[i].state.SeenIDs) \subseteq Own(s)'
      BY DEF HeldAreOwn
    <3>1. DeliveredIDs(s) \subseteq Own(s) /\ Range(disk[s].SeenIDs) \subseteq Own(s)
      BY <1>1 DEF HeldAreOwn
    <3> QED
      BY <1>3, <1>4, <3>1
  <2>2. WritesExtend'
    BY <1>3, WritesExtendNext
  <2> QED
    BY <1>2, <1>3, <1>4, <2>1, <2>2 DEF TurnsInOrder, RecordsFresh
<1>6. ASSUME NEW s \in Sources, Fits(s)'
      PROVE  PaidFor(s)'
  <2>1. PaidFor(s)
    <3>1. Fits(s)
      BY <1>4, <1>6 DEF Fits
    <3> QED
      BY <1>1, <3>1
  <2>2. PrevState(s)' = disk[s]
    BY <1>1, <1>3 DEF PrevState
  <2>3. stops \in Nat /\ stops' \in Nat /\ \A id \in IDs : delivered[s][id] \in Nat
    BY <1>1, WatchAssumption DEF TypeOK
  <2>4. ASSUME NEW id \in IDs
        PROVE  /\ delivered[s][id]
                    =< stops' + (IF id \in Range(disk[s].SeenIDs) THEN 1 ELSE 0)
               /\ id \notin Range(disk[s].SeenIDs) => delivered[s][id] =< stops'
    <3>1. /\ delivered[s][id] + (IF id \in Waiting(s) THEN 1 ELSE 0)
                    =< stops + (IF id \in Range(PrevState(s).SeenIDs) THEN 1 ELSE 0)
          /\ pc \notin {"write", "put"} /\ id \notin Range(disk[s].SeenIDs) =>
                    delivered[s][id] =< stops
      BY <2>1 DEF PaidFor
    <3>2. delivered[s][id] =< stops + 1
      BY <2>3, <3>1
    <3> QED
      BY <2>3, <3>1, <3>2
  <2>5. \A id \in IDs :
           delivered'[s][id] + (IF id \in Waiting(s)' THEN 1 ELSE 0) = delivered[s][id]
    BY <1>4, <2>3
  <2> QED
    BY <1>4, <2>2, <2>4, <2>5 DEF PaidFor
<1> QED
  BY <1>5, <1>6 DEF DInv

-----------------------------------------------------------------------------
(* Writing. *)

Copies(records, s, id) == {i \in DOMAIN records : records[i] = [source |-> s, id |-> id]}

(* Counting the copies of a tweet among some records.                      *)
LEMMA CopiesCounted ==
    ASSUME NEW records \in Seq(Record), NEW s, NEW id
    PROVE  LET n == Cardinality(Copies(records, s, id))
           IN  /\ n \in Nat
               /\ n = 0 <=> Copies(records, s, id) = {}
               /\ (\A i, j \in DOMAIN records :
                       records[i].source = s /\ records[j] = records[i] => i = j)
                    => n =< 1
<1> DEFINE C == Copies(records, s, id)
<1>1. C \subseteq 1..Len(records) /\ Len(records) \in Nat
  BY DEF Copies
<1>2. IsFiniteSet(1..Len(records))
  BY <1>1, FS_Interval
<1>3. IsFiniteSet(C) /\ Cardinality(C) \in Nat
  BY <1>1, <1>2, FS_Subset, FS_CardinalityType
<1>4. Cardinality(C) = 0 <=> C = {}
  BY <1>3, FS_EmptySet
<1>5. ASSUME \A i, j \in DOMAIN records :
                 records[i].source = s /\ records[j] = records[i] => i = j
      PROVE  Cardinality(C) =< 1
  <2>1. CASE C = {}
    BY <1>4, <2>1
  <2>2. CASE C # {}
    <3>1. PICK i \in C : TRUE
      BY <2>2
    <3>2. \A j \in C : j = i
      BY <1>5, <3>1 DEF Copies
    <3>3. C = {i}
      BY <3>1, <3>2
    <3>4. Cardinality({i}) = 1
      BY FS_Singleton
    <3> QED
      BY <3>3, <3>4
  <2> QED
    BY <2>1, <2>2
<1> QED
  BY <1>3, <1>4, <1>5

(* A bucket is used up or kept. *)
LEMMA BucketsStayOwn ==
    ASSUME HeldAreOwn, UNCHANGED posts,
           UNCHANGED prefetched \/ prefetched' = NoBuckets, NEW s \in Sources
    PROVE  Range(prefetched'[s]) \subseteq Own(s)'
<1>1. Own(s)' = Own(s) /\ Range(prefetched[s]) \subseteq Own(s)
  BY DEF HeldAreOwn, Own
<1>2. Range(NoBuckets[s]) = {}
  BY DEF NoBuckets, Range
<1> QED
  BY <1>1, <1>2

(* Of writing: a record that is out stops waiting, and nothing else        *)
(* changes for its source.                                                 *)
LEMMA WriteKeeps ==
    ASSUME IInv, IInv', DInv, NEW records \in Seq(Record), Deliver(records),
           UNCHANGED <<posts, disk, mem, pending, stops>>,
           UNCHANGED prefetched \/ prefetched' = NoBuckets,
           \A s \in Sources : \A id \in IDs :
              id \in Waiting(s)' \/ Copies(records, s, id) # {} => id \in Waiting(s),
           \A s \in Sources : Settled(s) =>
              /\ \A id \in IDs : id \in Waiting(s)' => Copies(records, s, id) = {}
              /\ \A id \in IDs : Cardinality(Copies(records, s, id)) =< 1
              /\ \A i, j \in DOMAIN out' : out'[i].source = s /\ out'[j] = out'[i] => j = i,
           TurnsInOrder',
           pc' \notin {"write", "put"} => pending = <<>>
    PROVE  DInv'
<1>1. /\ TypeOK /\ TypeOK' /\ mem = disk /\ mem' = disk'
      /\ HeldAreOwn /\ WritesExtend /\ RecordsFresh
      /\ \A s \in Sources : Fits(s) => PaidFor(s)
  BY DEF IInv, StoreAgrees, DInv
<1>2. \A s \in Sources : Own(s)' = Own(s) /\ Fits(s)' = Fits(s) /\ Settled(s)' = Settled(s)
                          /\ PrevState(s)' = PrevState(s)
  BY DEF Own, Fits, Settled, NoRepeats, PrevState
<1>3. \A s \in Sources : Range(prefetched'[s]) \subseteq Own(s)'
  BY <1>1, BucketsStayOwn
<1>4. \A s \in Sources : \A id \in IDs :
         /\ delivered[s][id] \in Nat /\ Cardinality(Copies(records, s, id)) \in Nat
         /\ delivered'[s][id] = delivered[s][id] + Cardinality(Copies(records, s, id))
         /\ (Cardinality(Copies(records, s, id)) = 0 <=> Copies(records, s, id) = {})
  <2>1. delivered' = [s \in Sources |-> [id \in IDs |->
                          delivered[s][id] + Cardinality(Copies(records, s, id))]]
    BY DEF Deliver, Copies
  <2> TAKE s \in Sources
  <2> TAKE id \in IDs
  <2>2. /\ Cardinality(Copies(records, s, id)) \in Nat
        /\ (Cardinality(Copies(records, s, id)) = 0 <=> Copies(records, s, id) = {})
    BY CopiesCounted
  <2>3. delivered[s][id] \in Nat
    BY <1>1 DEF TypeOK
  <2> QED
    BY <2>1, <2>2, <2>3
<1>5. \A s \in Sources : Waiting(s) \subseteq IDs /\ Waiting(s)' \subseteq Waiting(s)
  BY DEF Waiting
<1>6. HeldAreOwn'
  <2> SUFFICES ASSUME NEW s \in Sources
               PROVE  /\ DeliveredIDs(s)' \cup Waiting(s)' \subseteq Own(s)'
                      /\ Range(disk'[s].SeenIDs) \cup Range(prefetched'[s]) \subseteq Own(s)'
                      /\ \A i \in DOMAIN pending' : pending'[i].source = s =>
                            Range(pending'[i].state.SeenIDs) \subseteq Own(s)'
    BY DEF HeldAreOwn
  <2>1. /\ DeliveredIDs(s) \cup Waiting(s) \subseteq Own(s)
        /\ Range(disk[s].SeenIDs) \subseteq Own(s)
        /\ \A i \in DOMAIN pending : pending[i].source = s =>
              Range(pending[i].state.SeenIDs) \subseteq Own(s)
    BY <1>1 DEF HeldAreOwn
  <2>2. ASSUME NEW id \in DeliveredIDs(s)'
        PROVE  id \in DeliveredIDs(s) \cup Waiting(s)
    <3>1. id \in IDs /\ delivered'[s][id] > 0
      BY <2>2 DEF DeliveredIDs
    <3>2. delivered[s][id] > 0 \/ Copies(records, s, id) # {}
      BY <1>4, <3>1
    <3> QED
      BY <3>1, <3>2 DEF DeliveredIDs
  <2> QED
    BY <1>2, <1>3, <1>5, <2>1, <2>2
<1>7. WritesExtend'
  BY <1>1, WritesExtendNext DEF WritesExtend
<1>8. RecordsFresh'
  BY <1>1, <1>2, <1>5 DEF RecordsFresh
<1>9. ASSUME NEW s \in Sources, Fits(s)'
      PROVE  PaidFor(s)'
  <2>1. Settled(s) /\ PaidFor(s)
    BY <1>1, <1>2, <1>9 DEF Settled
  <2>2. stops \in Nat
    BY <1>1, WatchAssumption DEF TypeOK
  <2>3. ASSUME NEW id \in IDs
        PROVE  delivered'[s][id] + (IF id \in Waiting(s)' THEN 1 ELSE 0)
                  =< stops + (IF id \in Range(PrevState(s).SeenIDs) THEN 1 ELSE 0)
    <3>1. delivered[s][id] + (IF id \in Waiting(s) THEN 1 ELSE 0)
             =< stops + (IF id \in Range(PrevState(s).SeenIDs) THEN 1 ELSE 0)
      BY <2>1 DEF PaidFor
    <3>2. /\ delivered'[s][id] = delivered[s][id] + Cardinality(Copies(records, s, id))
          /\ delivered[s][id] \in Nat /\ Cardinality(Copies(records, s, id)) \in Nat
          /\ Cardinality(Copies(records, s, id)) =< 1
          /\ (Cardinality(Copies(records, s, id)) = 0 <=> Copies(records, s, id) = {})
      BY <1>4, <2>1
    <3>3. /\ id \in Waiting(s)' => Cardinality(Copies(records, s, id)) = 0 /\ id \in Waiting(s)
          /\ id \notin Waiting(s) => Cardinality(Copies(records, s, id)) = 0
      BY <1>5, <2>1, <3>2
    <3> QED
      BY <2>2, <3>1, <3>2, <3>3
  <2>4. pc' \notin {"write", "put"} => PrevState(s) = disk[s]
    BY <1>1 DEF PrevState
  <2>5. ASSUME NEW id \in IDs, pc' \notin {"write", "put"}, id \notin Range(disk[s].SeenIDs)
        PROVE  delivered'[s][id] =< stops
    <3>1. id \notin Range(PrevState(s).SeenIDs)
      BY <2>4, <2>5
    <3>2. delivered'[s][id] \in Nat
      BY <1>4
    <3> QED
      BY <2>2, <2>3, <3>1, <3>2
  <2>6. Waiting(s)' \subseteq Range(PrevState(s).SeenIDs)
    BY <1>5, <2>1 DEF PaidFor
  <2> QED
    BY <1>2, <2>3, <2>5, <2>6 DEF PaidFor
<1> QED
  BY <1>6, <1>7, <1>8, <1>9 DEF DInv

(* Going on to the next source keeps the merged buckets or drops them.     *)
LEMMA NextSourceKeeps ==
    ASSUME NextSource
    PROVE  UNCHANGED prefetched \/ prefetched' = NoBuckets
BY DEF NextSource, Finish, run

(* A streamed record is the first that waits. *)
LEMMA RecordWaited ==
    ASSUME IInv, WriteRecord
    PROVE  \A s \in Sources : \A id \in IDs :
              id \in Waiting(s)' \/ Copies(<<Head(out)>>, s, id) # {} => id \in Waiting(s)
<1> DEFINE h == Head(out)
           records == <<h>>
<1>1. /\ out \in Seq(Record) /\ out # <<>> /\ ~AsJSON
  BY DEF IInv, TypeOK, BuffersMatchPC, WriteRecord, Record
<1>2. /\ Deliver(records) /\ out' = Tail(out)
      /\ IF Len(out) > 1 THEN UNCHANGED <<pc, run>>
         ELSE IF pending # <<>> THEN pc' = "put" /\ UNCHANGED run
         ELSE NextSource
      /\ UNCHANGED <<posts, disk, mem, pending, stops>> /\ pc = "write"
  BY DEF WriteRecord, upstream, store
<1>3. /\ h = out[1] /\ Len(out) \in Nat \ {0} /\ Len(Tail(out)) = Len(out) - 1
      /\ Tail(out) \in Seq(Record) /\ h \in Record
      /\ \A i \in 1..Len(Tail(out)) : Tail(out)[i] = out[i + 1]
  BY <1>1, HeadTailProperties, EmptySeq, ElementOfSeq
<1> HIDE DEF h
<1>4. records \in Seq(Record) /\ DOMAIN records = {1} /\ records[1] = h
  BY <1>3
<1>5. \A i \in DOMAIN out' : i + 1 \in DOMAIN out /\ out'[i] = out[i + 1] /\ i + 1 # 1 /\ i \in Int
  BY <1>1, <1>2, <1>3
<1> HIDE DEF records
<1>6. ASSUME NEW s \in Sources, NEW id \in IDs,
             id \in Waiting(s)' \/ Copies(records, s, id) # {}
      PROVE  id \in Waiting(s)
  <2>1. \E i \in DOMAIN out : out[i] = [source |-> s, id |-> id]
    <3>1. CASE id \in Waiting(s)'
      BY <1>5, <3>1 DEF Waiting
    <3>2. CASE Copies(records, s, id) # {}
      <4>1. out[1] = [source |-> s, id |-> id] /\ 1 \in DOMAIN out
        BY <1>1, <1>3, <1>4, <3>2 DEF Copies
      <4> QED
        BY <4>1
    <3> QED
      BY <1>6, <3>1, <3>2
  <2> QED
    BY <2>1 DEF Waiting
<1> QED
  BY <1>6 DEF h, records

(* It is not remembered, and stops waiting. *)
LEMMA WriteRecordKeeps ==
    ASSUME IInv, IInv', DInv, WriteRecord
    PROVE  DInv'
<1> DEFINE h == Head(out)
           records == <<h>>
<1>1. /\ out \in Seq(Record) /\ out # <<>> /\ ~AsJSON /\ RecordsFresh
  BY DEF IInv, DInv, TypeOK, BuffersMatchPC, WriteRecord, Record
<1>2. /\ Deliver(records) /\ out' = Tail(out)
      /\ IF Len(out) > 1 THEN UNCHANGED <<pc, run>>
         ELSE IF pending # <<>> THEN pc' = "put" /\ UNCHANGED run
         ELSE NextSource
      /\ UNCHANGED <<posts, disk, mem, pending, stops>> /\ pc = "write"
  BY DEF WriteRecord, upstream, store
<1>3. /\ h = out[1] /\ Len(out) \in Nat \ {0} /\ Len(Tail(out)) = Len(out) - 1
      /\ Tail(out) \in Seq(Record) /\ h \in Record
      /\ \A i \in 1..Len(Tail(out)) : Tail(out)[i] = out[i + 1]
  BY <1>1, HeadTailProperties, EmptySeq, ElementOfSeq
<1> HIDE DEF h
<1>4. records \in Seq(Record) /\ DOMAIN records = {1} /\ records[1] = h
  BY <1>3
<1>5. \A i \in DOMAIN out' : i + 1 \in DOMAIN out /\ out'[i] = out[i + 1] /\ i + 1 # 1 /\ i \in Int
  BY <1>1, <1>2, <1>3
<1> HIDE DEF records
<1>6. \A s \in Sources : \A id \in IDs :
         id \in Waiting(s)' \/ Copies(records, s, id) # {} => id \in Waiting(s)
  BY RecordWaited DEF h, records
<1>7. ASSUME NEW s \in Sources, Settled(s)
      PROVE  /\ \A id \in IDs : id \in Waiting(s)' => Copies(records, s, id) = {}
             /\ \A id \in IDs : Cardinality(Copies(records, s, id)) =< 1
             /\ \A i, j \in DOMAIN out' : out'[i].source = s /\ out'[j] = out'[i] => j = i
  <2>1. \A i, j \in DOMAIN out : out[i].source = s /\ out[j] = out[i] => j = i
    BY <1>1, <1>7 DEF RecordsFresh
  <2>2. ASSUME NEW id \in IDs, id \in Waiting(s)'
        PROVE  Copies(records, s, id) = {}
    <3>1. PICK i \in DOMAIN out' : out'[i] = [source |-> s, id |-> id]
      BY <2>2 DEF Waiting
    <3>2. i + 1 \in DOMAIN out /\ 1 \in DOMAIN out /\ out[i + 1].source = s /\ i + 1 # 1
          /\ out[i + 1] = [source |-> s, id |-> id]
      BY <1>1, <1>3, <1>5, <3>1
    <3>3. out[1] # [source |-> s, id |-> id]
      BY <2>1, <3>2
    <3> QED
      BY <1>3, <1>4, <3>3 DEF Copies
  <2>3. \A id \in IDs : Cardinality(Copies(records, s, id)) =< 1
    BY <1>4, CopiesCounted
  <2>4. ASSUME NEW i \in DOMAIN out', NEW j \in DOMAIN out', out'[i].source = s, out'[j] = out'[i]
        PROVE  j = i
    <3>1. j + 1 = i + 1 /\ i \in Int /\ j \in Int
      BY <1>5, <2>1, <2>4
    <3> QED
      BY <3>1
  <2> QED
    BY <2>2, <2>3, <2>4
<1>8. /\ UNCHANGED prefetched \/ prefetched' = NoBuckets
      /\ pc' \notin {"write", "put"} => pending = <<>>
  BY <1>2, NextSourceKeeps DEF run
<1>9. TurnsInOrder'
  BY <1>1 DEF TurnsInOrder
<1> QED
  BY <1>2, <1>4, <1>6, <1>7, <1>8, <1>9, WriteKeeps

(* A document is all that waits. *)
LEMMA WriteDocumentKeeps ==
    ASSUME IInv, IInv', DInv, WriteDocument
    PROVE  DInv'
<1>1. out \in Seq(Record) /\ RecordsFresh
  BY DEF IInv, DInv, TypeOK, Record
<1>2. /\ Deliver(out) /\ out' = <<>> /\ pc = "document"
      /\ IF pending # <<>> THEN pc' = "put" /\ UNCHANGED run
         ELSE Finish
      /\ UNCHANGED <<posts, disk, mem, pending, stops>>
  BY DEF WriteDocument, upstream, store
<1>3. DOMAIN out' = {}
  BY <1>2
<1>4. \A s \in Sources : \A id \in IDs :
         id \in Waiting(s)' \/ Copies(out, s, id) # {} => id \in Waiting(s)
  BY <1>3 DEF Waiting, Copies
<1>5. \A s \in Sources : Settled(s) =>
         /\ \A id \in IDs : id \in Waiting(s)' => Copies(out, s, id) = {}
         /\ \A id \in IDs : Cardinality(Copies(out, s, id)) =< 1
         /\ \A i, j \in DOMAIN out' : out'[i].source = s /\ out'[j] = out'[i] => j = i
  <2> SUFFICES ASSUME NEW s \in Sources, Settled(s), NEW id \in IDs
               PROVE  Cardinality(Copies(out, s, id)) =< 1
    BY <1>3 DEF Waiting
  <2>1. \A i, j \in DOMAIN out : out[i].source = s /\ out[j] = out[i] => i = j
    BY <1>1 DEF RecordsFresh
  <2> QED
    BY <1>1, <2>1, CopiesCounted
<1>6. /\ UNCHANGED prefetched \/ prefetched' = NoBuckets
      /\ pc' \notin {"write", "put"} => pending = <<>>
      /\ pc' \in {"put", "down"}
  BY <1>2 DEF run, Finish
<1>7. TurnsInOrder'
  BY <1>6 DEF TurnsInOrder
<1> QED
  BY <1>1, <1>2, <1>4, <1>5, <1>6, <1>7, WriteKeeps

(* What a state write makes of the store is what the turns compared with   *)
(* before it was made.                                                     *)
LEMMA PutKeepsPrevState ==
    ASSUME IInv, IInv', Put, NEW s \in Sources
    PROVE  PrevState(s)' = PrevState(s)
<1> DEFINE w == Head(pending)
<1>0. PrevState(s) = PrevOf(pending, mem, s) /\ PrevState(s)' = PrevOf(pending', mem', s)
  BY PrevStateOf
<1>1. TypeOK /\ TypeOK' /\ pending # <<>> /\ pending \in Seq(Write)
      /\ mem \in [Sources -> SourceStates]
  BY DEF IInv, TypeOK, BuffersMatchPC, Put, Write
<1>2. mem' = [mem EXCEPT ![w.source] = w.state] /\ pending' = Tail(pending)
  BY DEF Put
<1>3. /\ w = pending[1] /\ w \in Write /\ Tail(pending) \in Seq(Write) /\ 1 \in DOMAIN pending
      /\ Len(pending) \in Nat \ {0} /\ Len(Tail(pending)) = Len(pending) - 1
      /\ \A i \in 1..Len(Tail(pending)) : Tail(pending)[i] = pending[i + 1]
  BY <1>1, HeadTailProperties, EmptySeq, ElementOfSeq
<1> HIDE DEF w
<1>4. /\ \A i \in DOMAIN pending' : i + 1 \in DOMAIN pending /\ pending'[i] = pending[i + 1]
      /\ \A i \in DOMAIN pending : i # 1 => i - 1 \in DOMAIN pending' /\ pending'[i - 1] = pending[i]
      /\ DOMAIN pending \subseteq Nat /\ DOMAIN pending' \subseteq Nat
  <2>1. DOMAIN pending' = 1..(Len(pending) - 1) /\ DOMAIN pending = 1..Len(pending)
    BY <1>1, <1>2, <1>3
  <2>2. \A i \in DOMAIN pending : i # 1 =>
            i - 1 \in 1..Len(Tail(pending)) /\ (i - 1) + 1 = i
    BY <1>3, <2>1
  <2> QED
    BY <1>2, <1>3, <2>1, <2>2
<1>7. pending' \in Seq(Write)
  BY <1>2, <1>3
<1>5. CASE \A i \in DOMAIN pending' : pending'[i].source # s
  <2>1. PrevState(s)' = mem'[s]
    BY <1>0, <1>5, <1>7, PrevStateNone
  <2>2. CASE w.source = s
    <3>1. mem'[s] = w.state
      BY <1>1, <1>2, <2>2
    <3>2. \A i \in DOMAIN pending : pending[i].source = s => i = 1
      BY <1>4, <1>5
    <3>3. PrevState(s) = pending[1].state
      <4>1. 1 \in DOMAIN pending /\ pending[1].source = s
        BY <1>3, <2>2
      <4>2. PICK last \in DOMAIN pending :
                pending[last].source = s /\ PrevState(s) = pending[last].state
        BY <1>0, <1>1, <4>1, PrevStateIs
      <4> QED
        BY <3>2, <4>2
    <3> QED
      BY <1>3, <2>1, <3>1, <3>3
  <2>3. CASE w.source # s
    <3>1. mem'[s] = mem[s]
      BY <1>1, <1>2, <2>3
    <3>2. \A i \in DOMAIN pending : pending[i].source # s
      BY <1>3, <1>4, <1>5, <2>3
    <3> QED
      BY <1>0, <1>1, <2>1, <3>1, <3>2, PrevStateNone
  <2> QED
    BY <2>2, <2>3
<1>6. CASE ~\A i \in DOMAIN pending' : pending'[i].source # s
  <2>2. PICK last \in DOMAIN pending' :
            /\ pending'[last].source = s
            /\ \A i \in DOMAIN pending' : pending'[i].source = s => i =< last
            /\ PrevState(s)' = pending'[last].state
    BY <1>0, <1>6, <1>7, PrevStateIs
  <2>3. last + 1 \in DOMAIN pending /\ pending[last + 1].source = s
        /\ PrevState(s)' = pending[last + 1].state
    BY <1>4, <2>2
  <2>4. \A i \in DOMAIN pending : pending[i].source = s => i =< last + 1
    <3> SUFFICES ASSUME NEW i \in DOMAIN pending, pending[i].source = s, i # 1
                 PROVE  i =< last + 1
      <4>1. last \in Nat
        BY <1>4, <2>2
      <4>2. 1 =< last + 1
        BY <4>1
      <4> QED
        BY <4>2
    <3>1. i - 1 \in DOMAIN pending' /\ pending'[i - 1].source = s
      BY <1>4
    <3>2. i - 1 =< last /\ i \in Nat /\ last \in Nat
      BY <1>4, <2>2, <3>1
    <3> QED
      BY <3>2
  <2> QED
    BY <1>0, <1>1, <2>3, <2>4, PrevStateLast
<1> QED
  BY <1>5, <1>6

(* A state write is persisted: the store moves on to what its source's     *)
(* later writes extend.                                                    *)
LEMMA PutKeeps ==
    ASSUME IInv, IInv', DInv, Put
    PROVE  DInv'
<1> DEFINE w == Head(pending)
<1>1. /\ TypeOK /\ TypeOK' /\ mem = disk /\ mem' = disk' /\ BuffersMatchPC
      /\ HeldAreOwn /\ WritesExtend /\ \A s \in Sources : Fits(s) => PaidFor(s)
      /\ pending # <<>> /\ pending \in Seq(Write) /\ disk \in [Sources -> SourceStates]
  BY DEF IInv, DInv, StoreAgrees, TypeOK, BuffersMatchPC, Put, Write
<1>2. /\ mem' = [mem EXCEPT ![w.source] = w.state] /\ pending' = Tail(pending)
      /\ IF ~AsJSON THEN NextSource
         ELSE IF Len(pending) > 1 THEN UNCHANGED <<pc, run>>
         ELSE Finish
      /\ UNCHANGED <<posts, out, delivered, stops>> /\ pc = "put" /\ out = <<>>
  BY <1>1 DEF Put, upstream, history, BuffersMatchPC
<1>3. /\ w = pending[1] /\ w \in Write /\ Tail(pending) \in Seq(Write) /\ 1 \in DOMAIN pending
      /\ Len(pending) \in Nat \ {0} /\ Len(Tail(pending)) = Len(pending) - 1
      /\ \A i \in 1..Len(Tail(pending)) : Tail(pending)[i] = pending[i + 1]
  BY <1>1, HeadTailProperties, EmptySeq, ElementOfSeq
<1>4. \A i \in DOMAIN pending' :
         i + 1 \in DOMAIN pending /\ pending'[i] = pending[i + 1] /\ i \in Nat /\ 1 < i + 1
  BY <1>1, <1>2, <1>3
<1> HIDE DEF w
<1>5. /\ w.source \in Sources
      /\ disk' = [disk EXCEPT ![w.source] = w.state]
  BY <1>1, <1>2, <1>3 DEF Write
<1>6. \A s \in Sources : /\ Own(s)' = Own(s) /\ DeliveredIDs(s)' = DeliveredIDs(s)
                         /\ Waiting(s) = {} /\ Waiting(s)' = {}
                         /\ Fits(s)' = Fits(s) /\ PrevState(s)' = PrevState(s)
  BY <1>2, PutKeepsPrevState DEF Own, DeliveredIDs, Waiting, Fits
<1>7. /\ UNCHANGED prefetched \/ prefetched' = NoBuckets
      /\ pc' \notin {"write", "put"} => pending' = <<>>
      /\ AsJSON => pc' \in {"put", "down"}
  <2>1. UNCHANGED prefetched \/ prefetched' = NoBuckets
    BY <1>2, NextSourceKeeps DEF run, Finish
  <2>2. AsJSON => pc' \in {"put", "down"}
    BY <1>2 DEF Finish
  <2>3. Len(pending) =< 1 => pending' = <<>>
    BY <1>2, <1>3, EmptySeq
  <2>4. ~AsJSON => Len(pending) =< 1
    BY <1>1 DEF BuffersMatchPC
  <2> QED
    BY <1>2, <1>3, <2>1, <2>2, <2>3, <2>4
<1>8. HeldAreOwn'
  <2> SUFFICES ASSUME NEW s \in Sources
               PROVE  /\ DeliveredIDs(s)' \cup Waiting(s)' \subseteq Own(s)'
                      /\ Range(disk'[s].SeenIDs) \cup Range(prefetched'[s]) \subseteq Own(s)'
                      /\ \A i \in DOMAIN pending' : pending'[i].source = s =>
                            Range(pending'[i].state.SeenIDs) \subseteq Own(s)'
    BY DEF HeldAreOwn
  <2>1. /\ DeliveredIDs(s) \subseteq Own(s)
        /\ Range(disk[s].SeenIDs) \subseteq Own(s)
        /\ \A i \in DOMAIN pending : pending[i].source = s =>
              Range(pending[i].state.SeenIDs) \subseteq Own(s)
    BY <1>1 DEF HeldAreOwn
  <2>2. Range(prefetched'[s]) \subseteq Own(s)'
    BY <1>1, <1>2, <1>7, BucketsStayOwn
  <2>3. Range(disk'[s].SeenIDs) \subseteq Own(s)
    <3>1. disk'[s] = disk[s] \/ (w.source = s /\ disk'[s] = w.state)
      BY <1>1, <1>5
    <3> QED
      BY <1>3, <2>1, <3>1
  <2> QED
    BY <1>4, <1>6, <2>1, <2>2, <2>3
<1>9. WritesExtend'
  <2> SUFFICES ASSUME NEW s \in Sources, NEW i \in DOMAIN pending', pending'[i].source = s
               PROVE  /\ Extends(pending'[i].state, disk'[s])
                      /\ \A j \in DOMAIN pending' : i < j /\ pending'[j].source = s =>
                            Extends(pending'[j].state, pending'[i].state)
    BY WritesExtendNext
  <2>1. i + 1 \in DOMAIN pending /\ pending[i + 1] = pending'[i]
    BY <1>4
  <2>2. Extends(pending'[i].state, disk'[s])
    <3>1. CASE w.source = s
      <4>1. disk'[s] = pending[1].state /\ pending[1].source = s
        BY <1>1, <1>3, <1>5, <3>1
      <4>2. Extends(pending[i + 1].state, pending[1].state)
        BY <1>1, <1>3, <1>4, <2>1, <4>1 DEF WritesExtend
      <4> QED
        BY <2>1, <4>1, <4>2
    <3>2. CASE w.source # s
      <4>1. disk'[s] = disk[s]
        BY <1>1, <1>5, <3>2
      <4>2. Extends(pending[i + 1].state, disk[s])
        BY <1>1, <2>1 DEF WritesExtend
      <4> QED
        BY <2>1, <4>1, <4>2
    <3> QED
      BY <3>1, <3>2
  <2>3. ASSUME NEW j \in DOMAIN pending', i < j, pending'[j].source = s
        PROVE  Extends(pending'[j].state, pending'[i].state)
    <3>1. /\ j + 1 \in DOMAIN pending /\ pending[j + 1] = pending'[j] /\ i + 1 < j + 1
      BY <1>4, <2>3
    <3>2. Extends(pending[j + 1].state, pending[i + 1].state)
      BY <1>1, <2>1, <2>3, <3>1 DEF WritesExtend
    <3> QED
      BY <2>1, <3>1, <3>2
  <2> QED
    BY <2>2, <2>3
<1>10. TurnsInOrder'
  BY <1>7 DEF TurnsInOrder
<1>11. RecordsFresh'
  <2>1. DOMAIN out' = {}
    BY <1>2
  <2> QED
    BY <1>6, <2>1 DEF RecordsFresh
<1>12. ASSUME NEW s \in Sources, Fits(s)'
       PROVE  PaidFor(s)'
  <2>1. PaidFor(s)
    BY <1>1, <1>6, <1>12
  <2>2. stops \in Nat /\ \A id \in IDs : delivered[s][id] \in Nat
    BY <1>1, WatchAssumption DEF TypeOK
  <2>3. pc' \notin {"write", "put"} => PrevState(s) = disk'[s]
    <3>1. pending' \in Seq(Write)
      BY <1>2, <1>3
    <3>2. PrevState(s)' = PrevOf(pending', mem', s)
      BY PrevStateOf
    <3>3. ASSUME pending' = <<>> PROVE PrevOf(pending', mem', s) = mem'[s]
      <4>1. \A i \in DOMAIN pending' : pending'[i].source # s
        BY <3>3
      <4> QED
        BY <3>1, <4>1, PrevStateNone
    <3> QED
      BY <1>1, <1>6, <1>7, <3>2, <3>3
  <2>4. \A id \in IDs :
           /\ delivered[s][id] + (IF id \in Waiting(s) THEN 1 ELSE 0)
                 =< stops + (IF id \in Range(PrevState(s).SeenIDs) THEN 1 ELSE 0)
           /\ id \notin Range(PrevState(s).SeenIDs) => delivered[s][id] =< stops
    <3> TAKE id \in IDs
    <3>1. delivered[s][id] + (IF id \in Waiting(s) THEN 1 ELSE 0)
                 =< stops + (IF id \in Range(PrevState(s).SeenIDs) THEN 1 ELSE 0)
      BY <2>1 DEF PaidFor
    <3> QED
      BY <1>6, <2>2, <3>1
  <2> QED
    BY <1>2, <1>6, <2>3, <2>4 DEF PaidFor
<1> QED
  BY <1>8, <1>9, <1>10, <1>11, <1>12 DEF DInv

(* What a turn does to the buffers: the engine's tweets wait behind the     *)
(* records, its state behind the state writes, where the next turn of the  *)
(* source compares with it.                                                *)
LEMMA RoundBuffers ==
    ASSUME IInv, IInv', DInv, NEW s \in Sources, pc = "source", Argv[idx] = s,
           NEW fetched \in Seq(IDs), Descending(fetched), Range(fetched) \subseteq Own(s),
           Round(s, fetched), NEW res,
           res = Select(Filtered(fetched), UpTo(Filtered(fetched), WatermarkLimit),
                        PrevState(s), Kind[s])
    PROVE  /\ Remembers(Filtered(fetched), PrevState(s), res)
           /\ res.Tweets \in Seq(IDs) /\ res.State \in SourceStates
           /\ res.State # PrevState(s) => res.State.Initialized
           /\ \A i \in DOMAIN out : i \in DOMAIN out' /\ out'[i] = out[i]
           /\ \A k \in 1..Len(res.Tweets) :
                 /\ Len(out) + k \in DOMAIN out'
                 /\ out'[Len(out) + k] = [source |-> s, id |-> res.Tweets[k]]
           /\ \A i \in DOMAIN out' : i \in DOMAIN out \/
                 \E k \in 1..Len(res.Tweets) :
                    i = Len(out) + k /\ out'[i] = [source |-> s, id |-> res.Tweets[k]]
           /\ \A t \in Sources :
                 Waiting(t)' = IF t = s THEN Waiting(s) \cup Range(res.Tweets) ELSE Waiting(t)
           /\ \A i \in DOMAIN pending : i \in DOMAIN pending' /\ pending'[i] = pending[i]
           /\ \A i \in DOMAIN pending' : i \in DOMAIN pending \/
                 /\ res.State # PrevState(s) /\ i = Len(pending) + 1
                 /\ pending'[i] = [source |-> s, state |-> res.State]
           /\ res.State # PrevState(s) => Len(pending) + 1 \in DOMAIN pending'
           /\ \A t \in Sources : PrevState(t)' = IF t = s THEN res.State ELSE PrevState(t)
<1> DEFINE tweets == Filtered(fetched)
           page   == UpTo(tweets, WatermarkLimit)
           prev   == PrevState(s)
           writes == IF res.State = prev THEN <<>>
                     ELSE <<[source |-> s, state |-> res.State]>>
           records == Records(s, res.Tweets)
           N == Range(res.Tweets)
<1>1. /\ TypeOK /\ TypeOK' /\ mem = disk /\ mem' = disk' /\ BuffersMatchPC
      /\ HeldAreOwn /\ WritesExtend /\ TurnsInOrder /\ RecordsFresh
      /\ \A t \in Sources : Fits(t) => PaidFor(t)
      /\ out \in Seq(Record) /\ pending \in Seq(Write) /\ disk \in [Sources -> SourceStates]
      /\ pending' \in Seq(Write)
  BY DEF IInv, DInv, StoreAgrees, TypeOK, Record, Write
<1>2. tweets \in Seq(IDs) /\ Descending(tweets) /\ Range(tweets) \subseteq Own(s)
  <2>1. Range(tweets) \subseteq Range(fetched)
    BY KeepShrinks DEF Filtered
  <2> QED
    BY <2>1, FilteredDescending
<1>3. page \in Seq(IDs) /\ Range(page) \subseteq Range(tweets)
  BY <1>2, UpToProperties, SeenListAssumption
<1>4. /\ prev \in SourceStates
      /\ Range(prev.SeenIDs) \subseteq Own(s)
      /\ Extends(prev, disk[s])
      /\ \A i \in DOMAIN pending : pending[i].source = s => Extends(prev, pending[i].state)
      /\ ~prev.Initialized => prev.SeenIDs = <<>>
      /\ Fits(s) => Range(disk[s].SeenIDs) \subseteq Range(prev.SeenIDs)
  BY PrevStateKnown
<1>5. /\ out' = out \o records
      /\ pending' = pending \o writes
      /\ IF AsJSON \/ (res.Tweets = <<>> /\ writes = <<>>)
         THEN NextSource
         ELSE pc' = (IF res.Tweets # <<>> THEN "write" ELSE "put") /\ UNCHANGED run
      /\ UNCHANGED <<posts, disk, mem, delivered, stops>>
  BY DEF Round, upstream, store
<1> HIDE DEF tweets, page
<1>6. prev = PrevState(s)
  OBVIOUS
<1> HIDE DEF prev
<1>7. Remembers(tweets, prev, res) /\ res.Tweets \in Seq(IDs) /\ res.State \in SourceStates
      /\ (res.State # prev => res.State.Initialized)
  <2>1. res = Select(tweets, page, prev, Kind[s])
    BY DEF tweets, page, prev
  <2> QED
    BY <1>2, <1>3, <1>4, <2>1, SelectRemembers, SelectTyped
<1>8. N \subseteq IDs
  BY <1>7, RangeOfSeq
<1>9. /\ DOMAIN records = 1..Len(res.Tweets) /\ DOMAIN res.Tweets = 1..Len(res.Tweets)
      /\ Len(res.Tweets) \in Nat /\ records \in Seq(Record)
      /\ \A k \in 1..Len(res.Tweets) : records[k] = [source |-> s, id |-> res.Tweets[k]]
  <2>1. records = [k \in 1..Len(res.Tweets) |-> [source |-> s, id |-> res.Tweets[k]]]
    BY <1>7 DEF Records
  <2>2. \A k \in 1..Len(res.Tweets) : [source |-> s, id |-> res.Tweets[k]] \in Record
    BY <1>7, ElementOfSeq DEF Record
  <2>3. Len(res.Tweets) \in Nat
    BY <1>7
  <2> HIDE DEF records
  <2> QED
    BY <2>1, <2>2, <2>3, <1>7
<1> HIDE DEF records
<1>10. /\ \A i \in DOMAIN out : i \in DOMAIN out' /\ out'[i] = out[i]
       /\ \A k \in 1..Len(res.Tweets) :
             Len(out) + k \in DOMAIN out' /\ out'[Len(out) + k] = [source |-> s, id |-> res.Tweets[k]]
       /\ \A i \in DOMAIN out' : i \in DOMAIN out \/
             \E k \in 1..Len(res.Tweets) :
                i = Len(out) + k /\ out'[i] = [source |-> s, id |-> res.Tweets[k]]
  <2>1. /\ out \in Seq(Record) /\ records \in Seq(Record) /\ Len(records) = Len(res.Tweets)
        /\ DOMAIN out = 1..Len(out) /\ Len(out) \in Nat
    BY <1>1, <1>9
  <2>2. /\ DOMAIN out' = 1..(Len(out) + Len(res.Tweets))
        /\ \A i \in 1..(Len(out) + Len(res.Tweets)) :
              out'[i] = IF i =< Len(out) THEN out[i] ELSE records[i - Len(out)]
    <3>1. Len(records) = Len(res.Tweets) /\ out' = out \o records
      BY <1>5, <2>1
    <3>2. out \in Seq(Record) /\ records \in Seq(Record)
      BY <2>1
    <3>3. /\ out \o records \in Seq(Record)
          /\ Len(out \o records) = Len(out) + Len(records)
          /\ \A i \in 1..(Len(out) + Len(records)) :
                (out \o records)[i] = IF i =< Len(out) THEN out[i] ELSE records[i - Len(out)]
      BY <3>2, ConcatProperties, Zenon
    <3> QED
      BY <2>1, <3>1, <3>3
  <2>3. \A k \in 1..Len(res.Tweets) :
            /\ Len(out) + k \in 1..(Len(out) + Len(res.Tweets))
            /\ ~(Len(out) + k =< Len(out)) /\ (Len(out) + k) - Len(out) = k
    BY <1>9, <2>1
  <2>4. \A i \in 1..(Len(out) + Len(res.Tweets)) : ~(i =< Len(out)) =>
            i - Len(out) \in 1..Len(res.Tweets) /\ i = Len(out) + (i - Len(out))
    BY <1>9, <2>1
  <2>5. \A i \in DOMAIN out' : i \in DOMAIN out \/
             \E k \in 1..Len(res.Tweets) :
                i = Len(out) + k /\ out'[i] = [source |-> s, id |-> res.Tweets[k]]
    <3> TAKE i \in DOMAIN out'
    <3>1. CASE i =< Len(out)
      BY <2>1, <2>2, <3>1
    <3>2. CASE ~(i =< Len(out))
      <4>1. i - Len(out) \in 1..Len(res.Tweets) /\ i = Len(out) + (i - Len(out))
            /\ out'[i] = records[i - Len(out)]
        BY <2>2, <2>4, <3>2
      <4> QED
        BY <1>9, <4>1
    <3> QED
      BY <3>1, <3>2
  <2>6. \A k \in 1..Len(res.Tweets) :
             Len(out) + k \in DOMAIN out' /\ out'[Len(out) + k] = [source |-> s, id |-> res.Tweets[k]]
    BY <1>9, <2>2, <2>3
  <2>7. \A i \in DOMAIN out : i \in DOMAIN out' /\ out'[i] = out[i]
    BY <1>9, <2>1, <2>2
  <2> QED
    BY <2>5, <2>6, <2>7
<1>11. \A t \in Sources :
          Waiting(t)' = IF t = s THEN Waiting(s) \cup N ELSE Waiting(t)
  <2> TAKE t \in Sources
  <2>2. ASSUME NEW id \in IDs
        PROVE  id \in Waiting(t)' <=> id \in Waiting(t) \/ (t = s /\ id \in N)
    <3>1. id \in Waiting(t) => id \in Waiting(t)'
      BY <1>10 DEF Waiting
    <3>2. t = s /\ id \in N => id \in Waiting(t)'
      <4> SUFFICES ASSUME t = s, id \in N PROVE id \in Waiting(t)'
        OBVIOUS
      <4>1. PICK k \in 1..Len(res.Tweets) : id = res.Tweets[k]
        BY <1>9 DEF Range
      <4> QED
        BY <1>10, <4>1 DEF Waiting
    <3>3. ASSUME id \in Waiting(t)', id \notin Waiting(t)
          PROVE  t = s /\ id \in N
      <4>1. PICK i \in DOMAIN out' : out'[i] = [source |-> t, id |-> id]
        BY <3>3 DEF Waiting
      <4>2. i \notin DOMAIN out
        BY <1>10, <3>3, <4>1 DEF Waiting
      <4>3. PICK k \in 1..Len(res.Tweets) : out'[i] = [source |-> s, id |-> res.Tweets[k]]
        BY <1>10, <4>2
      <4>4. s = t /\ id = res.Tweets[k]
        BY <4>1, <4>3
      <4> QED
        BY <1>9, <4>4 DEF Range
    <3> QED
      BY <3>1, <3>2, <3>3
  <2>3. Waiting(t) \subseteq IDs /\ Waiting(t)' \subseteq IDs
    BY DEF Waiting
  <2> QED
    BY <1>8, <2>2, <2>3
<1>12. /\ \A i \in DOMAIN pending : i \in DOMAIN pending' /\ pending'[i] = pending[i]
       /\ \A i \in DOMAIN pending' : i \in DOMAIN pending \/
             /\ res.State # prev /\ i = Len(pending) + 1
             /\ pending'[i] = [source |-> s, state |-> res.State]
       /\ res.State # prev => Len(pending) + 1 \in DOMAIN pending'
       /\ DOMAIN pending = 1..Len(pending) /\ Len(pending) \in Nat
  <2>1. CASE res.State = prev
    BY <1>1, <1>5, <2>1
  <2>2. CASE res.State # prev
    <3>1. /\ pending' = pending \o <<[source |-> s, state |-> res.State]>>
          /\ [source |-> s, state |-> res.State] \in Write
      BY <1>5, <1>7, <2>2 DEF Write
    <3> QED
      BY <1>1, <2>2, <3>1
  <2> QED
    BY <2>1, <2>2
<1>13. \A t \in Sources : PrevState(t)' = IF t = s THEN res.State ELSE PrevState(t)
  <2> TAKE t \in Sources
  <2>0. PrevState(t) = PrevOf(pending, mem, t) /\ PrevState(t)' = PrevOf(pending', mem, t)
    BY <1>5, PrevStateOf
  <2>1. CASE res.State = prev
    <3>1. pending' = pending
      BY <1>1, <1>5, <2>1
    <3> QED
      BY <1>6, <2>0, <2>1, <3>1
  <2>2. CASE res.State # prev /\ t = s
    <3>1. PICK last \in DOMAIN pending' :
             /\ pending'[last].source = s
             /\ \A i \in DOMAIN pending' : pending'[i].source = s => i =< last
             /\ PrevOf(pending', mem, s) = pending'[last].state
      <4>1. Len(pending) + 1 \in DOMAIN pending' /\ pending'[Len(pending) + 1].source = s
        BY <1>12, <2>2
      <4> QED
        BY <1>1, <4>1, PrevStateIs
    <3>2. last = Len(pending) + 1
      <4>1. Len(pending) + 1 \in DOMAIN pending' /\ pending'[Len(pending) + 1].source = s
        BY <1>12, <2>2
      <4>2. Len(pending) + 1 =< last
        BY <3>1, <4>1
      <4>3. \A i \in DOMAIN pending : ~(Len(pending) + 1 =< i)
        BY <1>12
      <4> QED
        BY <1>12, <3>1, <4>2, <4>3
    <3>3. pending'[last].state = res.State
      BY <1>12, <3>1, <3>2
    <3> QED
      BY <2>0, <2>2, <3>1, <3>3
  <2>3. CASE res.State # prev /\ t # s
    <3>1. \A i \in DOMAIN pending' : pending'[i].source = t =>
             i \in DOMAIN pending /\ pending[i].source = t /\ pending[i] = pending'[i]
      BY <1>12, <2>3
    <3>2. CASE \A i \in DOMAIN pending : pending[i].source # t
      <4>1. \A i \in DOMAIN pending' : pending'[i].source # t
        BY <3>1, <3>2
      <4>2. PrevOf(pending, mem, t) = mem[t]
        BY <1>1, <3>2, PrevStateNone
      <4>3. PrevOf(pending', mem, t) = mem[t]
        BY <1>1, <4>1, PrevStateNone
      <4> QED
        BY <2>0, <2>3, <4>2, <4>3
    <3>3. CASE ~\A i \in DOMAIN pending : pending[i].source # t
      <4>1. PICK last \in DOMAIN pending :
               /\ pending[last].source = t
               /\ \A i \in DOMAIN pending : pending[i].source = t => i =< last
               /\ PrevOf(pending, mem, t) = pending[last].state
        BY <1>1, <3>3, PrevStateIs
      <4>2. /\ last \in DOMAIN pending' /\ pending'[last].source = t
            /\ \A i \in DOMAIN pending' : pending'[i].source = t => i =< last
            /\ pending'[last].state = pending[last].state
        BY <1>12, <3>1, <4>1
      <4>3. PrevOf(pending', mem, t) = pending'[last].state
        <5>1. PICK k \in DOMAIN pending' :
                 /\ pending'[k].source = t
                 /\ \A i \in DOMAIN pending' : pending'[i].source = t => i =< k
                 /\ PrevOf(pending', mem, t) = pending'[k].state
          BY <1>1, <4>2, PrevStateIs
        <5>2. k =< last /\ last =< k /\ k \in Int /\ last \in Int
          BY <1>1, <4>2, <5>1
        <5> QED
          BY <5>1, <5>2
      <4> QED
        BY <2>0, <2>3, <4>1, <4>2, <4>3
    <3> QED
      BY <3>2, <3>3
  <2> QED
    BY <2>1, <2>2, <2>3
<1> QED
  BY <1>6, <1>7, <1>10, <1>11, <1>12, <1>13 DEF tweets

(* A turn: its records are new to the state it compared with, and the      *)
(* state it asks to persist remembers them.                                *)
LEMMA RoundKeeps ==
    ASSUME IInv, IInv', DInv, NEW s \in Sources, pc = "source", Argv[idx] = s,
           NEW fetched \in Seq(IDs), Descending(fetched), Range(fetched) \subseteq Own(s),
           Round(s, fetched)
    PROVE  DInv'
<1> DEFINE tweets == Filtered(fetched)
           page   == UpTo(tweets, WatermarkLimit)
           prev   == PrevState(s)
           res    == Select(tweets, page, prev, Kind[s])
           writes == IF res.State = prev THEN <<>>
                     ELSE <<[source |-> s, state |-> res.State]>>
           records == Records(s, res.Tweets)
           N == Range(res.Tweets)
<1>1. /\ TypeOK /\ TypeOK' /\ mem = disk /\ mem' = disk' /\ BuffersMatchPC
      /\ HeldAreOwn /\ WritesExtend /\ TurnsInOrder /\ RecordsFresh
      /\ \A t \in Sources : Fits(t) => PaidFor(t)
      /\ out \in Seq(Record) /\ pending \in Seq(Write) /\ disk \in [Sources -> SourceStates]
      /\ pending' \in Seq(Write)
  BY DEF IInv, DInv, StoreAgrees, TypeOK, Record, Write
<1>2. tweets \in Seq(IDs) /\ Descending(tweets) /\ Range(tweets) \subseteq Own(s)
  <2>1. Range(tweets) \subseteq Range(fetched)
    BY KeepShrinks DEF Filtered
  <2> QED
    BY <2>1, FilteredDescending
<1>3. page \in Seq(IDs) /\ Range(page) \subseteq Range(tweets)
  BY <1>2, UpToProperties, SeenListAssumption
<1>4. /\ prev \in SourceStates
      /\ Range(prev.SeenIDs) \subseteq Own(s)
      /\ Extends(prev, disk[s])
      /\ \A i \in DOMAIN pending : pending[i].source = s => Extends(prev, pending[i].state)
      /\ ~prev.Initialized => prev.SeenIDs = <<>>
      /\ Fits(s) => Range(disk[s].SeenIDs) \subseteq Range(prev.SeenIDs)
  BY PrevStateKnown
<1>5. /\ out' = out \o records
      /\ pending' = pending \o writes
      /\ IF AsJSON \/ (res.Tweets = <<>> /\ writes = <<>>)
         THEN NextSource
         ELSE pc' = (IF res.Tweets # <<>> THEN "write" ELSE "put") /\ UNCHANGED run
      /\ UNCHANGED <<posts, disk, mem, delivered, stops>>
  BY DEF Round, upstream, store
<1>6. prev = PrevState(s) /\ res = Select(tweets, page, prev, Kind[s])
  OBVIOUS
<1> HIDE DEF res
<1>7. Remembers(tweets, prev, res) /\ res.Tweets \in Seq(IDs) /\ res.State \in SourceStates
  BY <1>6, RoundBuffers
<1>10. /\ \A i \in DOMAIN out : i \in DOMAIN out' /\ out'[i] = out[i]
       /\ \A k \in 1..Len(res.Tweets) :
             Len(out) + k \in DOMAIN out' /\ out'[Len(out) + k] = [source |-> s, id |-> res.Tweets[k]]
       /\ \A i \in DOMAIN out' : i \in DOMAIN out \/
             \E k \in 1..Len(res.Tweets) :
                i = Len(out) + k /\ out'[i] = [source |-> s, id |-> res.Tweets[k]]
  BY <1>6, RoundBuffers
<1>12. /\ \A i \in DOMAIN pending : i \in DOMAIN pending' /\ pending'[i] = pending[i]
       /\ \A i \in DOMAIN pending' : i \in DOMAIN pending \/
             /\ res.State # prev /\ i = Len(pending) + 1
             /\ pending'[i] = [source |-> s, state |-> res.State]
       /\ res.State # prev => Len(pending) + 1 \in DOMAIN pending'
  BY <1>6, RoundBuffers
<1>13. \A t \in Sources : PrevState(t)' = IF t = s THEN res.State ELSE PrevState(t)
  BY <1>6, RoundBuffers
<1>21. \A t \in Sources :
          Waiting(t)' = IF t = s THEN Waiting(s) \cup N ELSE Waiting(t)
  BY <1>6, RoundBuffers
<1> HIDE DEF tweets, page, prev
<1>8. /\ Distinct(res.Tweets)
      /\ N \subseteq Own(s) \ Range(prev.SeenIDs) /\ N \subseteq IDs
      /\ Range(res.State.SeenIDs) \subseteq Own(s)
      /\ res.State = prev \/ Cardinality(Range(res.State.SeenIDs)) =< SeenLimit
      /\ Extends(res.State, prev)
      /\ Fits(s) => N \cup Range(prev.SeenIDs) \subseteq Range(res.State.SeenIDs)
  <2>1. /\ Distinct(res.Tweets)
        /\ N \subseteq Own(s) \ Range(prev.SeenIDs)
        /\ Range(res.State.SeenIDs) \subseteq Own(s)
        /\ (res.State = prev /\ res.Tweets = <<>>) \/ Cardinality(Range(res.State.SeenIDs)) =< SeenLimit
        /\ \/ N \cup Range(prev.SeenIDs) \subseteq Range(res.State.SeenIDs)
           \/ Cardinality(Range(res.State.SeenIDs)) = SeenLimit
    BY <1>2, <1>4, <1>7 DEF Remembers
  <2>2. Extends(res.State, prev)
    BY <2>1 DEF Extends
  <2>3. Fits(s) /\ Cardinality(Range(res.State.SeenIDs)) = SeenLimit
           => Range(res.State.SeenIDs) = Own(s)
    BY <1>1, <1>7, <2>1, FullIsAll
  <2>4. N \subseteq IDs
    BY <1>7, RangeOfSeq
  <2> QED
    BY <1>4, <2>1, <2>2, <2>3, <2>4
<1>9. /\ DOMAIN records = 1..Len(res.Tweets) /\ DOMAIN res.Tweets = 1..Len(res.Tweets)
      /\ Len(res.Tweets) \in Nat
      /\ DOMAIN pending = 1..Len(pending) /\ Len(pending) \in Nat
  BY <1>1, <1>7 DEF Records
<1> HIDE DEF records
<1>11. \A t \in Sources :
          /\ DeliveredIDs(t)' = DeliveredIDs(t) /\ Own(t)' = Own(t) /\ Fits(t)' = Fits(t)
          /\ Settled(t)' = Settled(t)
          /\ Waiting(t)' = IF t = s THEN Waiting(s) \cup N ELSE Waiting(t)
  BY <1>5, <1>21 DEF DeliveredIDs, Own, Fits, Settled, NoRepeats
<1> HIDE DEF writes
<1>14. /\ UNCHANGED prefetched \/ prefetched' = NoBuckets
       /\ AsJSON => NextSource
       /\ ~AsJSON => out = <<>> /\ pending = <<>>
  BY <1>1, <1>5, NextSourceKeeps DEF run, BuffersMatchPC
<1>15. HeldAreOwn'
  <2> SUFFICES ASSUME NEW t \in Sources
               PROVE  /\ DeliveredIDs(t)' \cup Waiting(t)' \subseteq Own(t)'
                      /\ Range(disk'[t].SeenIDs) \cup Range(prefetched'[t]) \subseteq Own(t)'
                      /\ \A i \in DOMAIN pending' : pending'[i].source = t =>
                            Range(pending'[i].state.SeenIDs) \subseteq Own(t)'
    BY DEF HeldAreOwn
  <2>1. /\ DeliveredIDs(t) \cup Waiting(t) \subseteq Own(t)
        /\ Range(disk[t].SeenIDs) \subseteq Own(t)
        /\ \A i \in DOMAIN pending : pending[i].source = t =>
              Range(pending[i].state.SeenIDs) \subseteq Own(t)
    BY <1>1 DEF HeldAreOwn
  <2>2. Range(prefetched'[t]) \subseteq Own(t)'
    BY <1>1, <1>5, <1>14, BucketsStayOwn
  <2>3. \A i \in DOMAIN pending' : pending'[i].source = t =>
            Range(pending'[i].state.SeenIDs) \subseteq Own(t)
    <3> TAKE i \in DOMAIN pending'
    <3>1. CASE i \in DOMAIN pending
      BY <1>12, <2>1, <3>1
    <3>2. CASE i \notin DOMAIN pending
      <4>1. pending'[i].source = s /\ pending'[i].state = res.State
        BY <1>12, <3>2
      <4> QED
        BY <1>8, <4>1
    <3> QED
      BY <3>1, <3>2
  <2>4. DeliveredIDs(t)' \cup Waiting(t)' \subseteq Own(t)
    <3>1. Waiting(t)' \subseteq Own(t)
      BY <1>8, <1>11, <2>1
    <3> QED
      BY <1>11, <2>1, <3>1
  <2> QED
    BY <1>5, <1>11, <2>1, <2>2, <2>3, <2>4
<1>16. WritesExtend'
  <2> SUFFICES ASSUME NEW t \in Sources, NEW i \in DOMAIN pending', pending'[i].source = t
               PROVE  /\ Extends(pending'[i].state, disk'[t])
                      /\ \A j \in DOMAIN pending' : i < j /\ pending'[j].source = t =>
                            Extends(pending'[j].state, pending'[i].state)
    BY WritesExtendNext
  <2>1. CASE i \in DOMAIN pending
    <3>1. pending'[i] = pending[i] /\ Extends(pending[i].state, disk[t])
      BY <1>1, <1>12, <2>1 DEF WritesExtend
    <3>2. ASSUME NEW j \in DOMAIN pending', i < j, pending'[j].source = t
          PROVE  Extends(pending'[j].state, pending'[i].state)
      <4>1. CASE j \in DOMAIN pending
        BY <1>1, <1>12, <2>1, <3>1, <3>2, <4>1 DEF WritesExtend
      <4>2. CASE j \notin DOMAIN pending
        <5>1. res.State # prev /\ pending'[j].source = s /\ pending'[j].state = res.State
          BY <1>12, <4>2
        <5>2. t = s /\ Extends(prev, pending[i].state)
          BY <1>4, <2>1, <3>1, <3>2, <5>1
        <5>3. Cardinality(Range(res.State.SeenIDs)) =< SeenLimit /\ Extends(res.State, prev)
          BY <1>8, <5>1
        <5>4. pending[i].state \in SourceStates
          <6>1. pending[i] \in Write
            BY <1>1, <2>1, ElementOfSeq
          <6> QED
            BY <6>1 DEF Write
        <5> QED
          BY <1>4, <1>7, <3>1, <5>1, <5>2, <5>3, <5>4, ExtendsTransitive
      <4> QED
        BY <4>1, <4>2
    <3> QED
      BY <1>5, <3>1, <3>2
  <2>2. CASE i \notin DOMAIN pending
    <3>1. /\ res.State # prev /\ i = Len(pending) + 1
          /\ pending'[i].source = s /\ pending'[i].state = res.State
      BY <1>12, <2>2
    <3>2. \A j \in DOMAIN pending' : ~(i < j)
      BY <1>12, <3>1
    <3>3. Extends(res.State, disk[s])
      <4>1. Cardinality(Range(res.State.SeenIDs)) =< SeenLimit /\ Extends(res.State, prev)
        BY <1>8, <3>1
      <4>2. disk[s] \in SourceStates
        BY <1>1
      <4> QED
        BY <1>4, <1>7, <4>1, <4>2, ExtendsTransitive
    <3> QED
      BY <1>5, <3>1, <3>2, <3>3
  <2> QED
    BY <2>1, <2>2
<1>17. TurnsInOrder'
  <2> SUFFICES ASSUME AsJSON, NoRepeats, pc' = "source", NEW k \in DOMAIN Argv, idx' =< k
               PROVE  /\ \A i \in DOMAIN out' : out'[i].source # Argv[k]
                      /\ \A i \in DOMAIN pending' : pending'[i].source # Argv[k]
    BY DEF TurnsInOrder, NoRepeats
  <2>1. idx \in DOMAIN Argv /\ idx \in Nat /\ k \in Nat
    <3>1. idx \in DOMAIN Argv
      BY <1>1 DEF TypeOK
    <3>2. DOMAIN Argv = 1..Len(Argv) /\ Len(Argv) \in Nat
      BY WatchAssumption
    <3> QED
      BY <3>1, <3>2
  <2>2. idx' = idx + 1
    BY <1>14 DEF NextSource
  <2>3. idx =< k /\ idx # k
    BY <2>1, <2>2
  <2>4. Argv[k] # s
    BY <2>1, <2>3 DEF NoRepeats
  <2>5. /\ \A i \in DOMAIN out : out[i].source # Argv[k]
        /\ \A i \in DOMAIN pending : pending[i].source # Argv[k]
    BY <1>1, <2>3 DEF TurnsInOrder
  <2>6. \A i \in DOMAIN out' : out'[i].source # Argv[k]
    <3> TAKE i \in DOMAIN out'
    <3>1. (i \in DOMAIN out /\ out'[i] = out[i]) \/ out'[i].source = s
      BY <1>10
    <3> QED
      BY <2>4, <2>5, <3>1
  <2>7. \A i \in DOMAIN pending' : pending'[i].source # Argv[k]
    <3> TAKE i \in DOMAIN pending'
    <3>1. (i \in DOMAIN pending /\ pending'[i] = pending[i]) \/ pending'[i].source = s
      BY <1>12
    <3> QED
      BY <2>4, <2>5, <3>1
  <2> QED
    BY <2>6, <2>7
<1>18. Settled(s) => /\ Range(disk[s].SeenIDs) \cap N = {}
                     /\ Waiting(s) \cap N = {}
  <2> SUFFICES ASSUME Settled(s)
               PROVE  Range(disk[s].SeenIDs) \cap N = {} /\ Waiting(s) \cap N = {}
    OBVIOUS
  <2>1. CASE Fits(s)
    <3>1. Waiting(s) \subseteq Range(prev.SeenIDs)
      BY <1>1, <1>6, <2>1 DEF PaidFor
    <3> QED
      BY <1>4, <1>8, <2>1, <3>1
  <2>2. CASE ~Fits(s)
    <3>1. /\ \A i \in DOMAIN out : out[i].source # s
          /\ \A i \in DOMAIN pending : pending[i].source # s
      <4>1. CASE ~AsJSON
        BY <1>14, <4>1
      <4>2. CASE AsJSON /\ NoRepeats
        <5>1. idx \in DOMAIN Argv /\ idx =< idx
          BY <1>1, WatchAssumption DEF TypeOK
        <5> QED
          BY <1>1, <4>2, <5>1 DEF TurnsInOrder
      <4> QED
        BY <2>2, <4>1, <4>2 DEF Settled
    <3>2. prev = disk[s]
      <4>1. PrevOf(pending, mem, s) = mem[s]
        BY <1>1, <3>1, PrevStateNone
      <4>2. PrevState(s) = PrevOf(pending, mem, s)
        BY PrevStateOf
      <4> QED
        BY <1>1, <1>6, <4>1, <4>2
    <3>3. Waiting(s) = {}
      BY <3>1 DEF Waiting
    <3> QED
      BY <1>8, <3>2, <3>3
  <2> QED
    BY <2>1, <2>2
<1>19. RecordsFresh'
  <2> SUFFICES ASSUME NEW t \in Sources, Settled(t)'
               PROVE  /\ Waiting(t)' \cap Range(disk'[t].SeenIDs) = {}
                      /\ \A i, j \in DOMAIN out' :
                            out'[i].source = t /\ out'[j] = out'[i] => j = i
    BY DEF RecordsFresh
  <2>1. /\ Settled(t) /\ Waiting(t) \cap Range(disk[t].SeenIDs) = {}
        /\ \A i, j \in DOMAIN out : out[i].source = t /\ out[j] = out[i] => j = i
    BY <1>1, <1>11 DEF RecordsFresh
  <2>2. Waiting(t)' \cap Range(disk'[t].SeenIDs) = {}
    BY <1>5, <1>11, <1>18, <2>1
  <2>3. ASSUME NEW i \in DOMAIN out, NEW j \in DOMAIN out', j \notin DOMAIN out,
               out'[i].source = t
        PROVE  out'[j] # out'[i]
    <3>1. out'[i] = out[i]
      BY <1>10
    <3>2. PICK k \in 1..Len(res.Tweets) : out'[j] = [source |-> s, id |-> res.Tweets[k]]
      BY <1>10, <2>3
    <3>3. res.Tweets[k] \in N
      BY <1>9 DEF Range
    <3>4. t = s => out[i] # [source |-> s, id |-> res.Tweets[k]]
      <4> SUFFICES ASSUME t = s, out[i] = [source |-> s, id |-> res.Tweets[k]]
                   PROVE  FALSE
        OBVIOUS
      <4>1. res.Tweets[k] \in Waiting(s)
        BY <1>8, <3>3 DEF Waiting
      <4> QED
        BY <1>18, <2>1, <3>3, <4>1
    <3> QED
      BY <2>3, <3>1, <3>2, <3>4
  <2>4. ASSUME NEW i \in DOMAIN out' \ DOMAIN out, NEW j \in DOMAIN out' \ DOMAIN out,
               out'[j] = out'[i]
        PROVE  j = i
    <3>1. PICK k \in 1..Len(res.Tweets) :
             i = Len(out) + k /\ out'[i] = [source |-> s, id |-> res.Tweets[k]]
      BY <1>10
    <3>2. PICK l \in 1..Len(res.Tweets) :
             j = Len(out) + l /\ out'[j] = [source |-> s, id |-> res.Tweets[l]]
      BY <1>10
    <3>3. res.Tweets[k] = res.Tweets[l]
      BY <2>4, <3>1, <3>2
    <3>4. k = l
      BY <1>8, <1>9, <3>3 DEF Distinct
    <3> QED
      BY <3>1, <3>2, <3>4
  <2>5. ASSUME NEW i \in DOMAIN out', NEW j \in DOMAIN out', out'[i].source = t, out'[j] = out'[i]
        PROVE  j = i
    <3>1. CASE i \in DOMAIN out /\ j \in DOMAIN out
      BY <1>10, <2>1, <2>5, <3>1
    <3>2. CASE i \in DOMAIN out /\ j \notin DOMAIN out
      BY <2>3, <2>5, <3>2
    <3>3. CASE i \notin DOMAIN out /\ j \in DOMAIN out
      <4>1. out'[j].source = t
        BY <2>5
      <4> QED
        BY <2>3, <2>5, <3>3, <4>1
    <3>4. CASE i \notin DOMAIN out /\ j \notin DOMAIN out
      BY <2>4, <2>5, <3>4
    <3> QED
      BY <3>1, <3>2, <3>3, <3>4
  <2> QED
    BY <2>2, <2>5
<1>20. ASSUME NEW t \in Sources, Fits(t)'
       PROVE  PaidFor(t)'
  <2>1. PaidFor(t) /\ Fits(t)
    BY <1>1, <1>11, <1>20
  <2>2. stops \in Nat /\ \A id \in IDs : delivered[t][id] \in Nat
    BY <1>1, WatchAssumption DEF TypeOK
  <2>3. Waiting(t)' \subseteq Range(PrevState(t)'.SeenIDs)
    <3>1. CASE t # s
      BY <1>11, <1>13, <2>1, <3>1 DEF PaidFor
    <3>2. CASE t = s
      <4>1. Waiting(s) \subseteq Range(prev.SeenIDs)
        BY <1>6, <2>1, <3>2 DEF PaidFor
      <4> QED
        BY <1>8, <1>11, <1>13, <2>1, <3>2, <4>1
    <3> QED
      BY <3>1, <3>2
  <2>4. ASSUME NEW id \in IDs
        PROVE  delivered[t][id] + (IF id \in Waiting(t)' THEN 1 ELSE 0)
                  =< stops + (IF id \in Range(PrevState(t)'.SeenIDs) THEN 1 ELSE 0)
    <3>1. delivered[t][id] + (IF id \in Waiting(t) THEN 1 ELSE 0)
             =< stops + (IF id \in Range(PrevState(t).SeenIDs) THEN 1 ELSE 0)
      BY <2>1 DEF PaidFor
    <3>2. CASE t # s
      BY <1>11, <1>13, <3>1, <3>2
    <3>3. CASE t = s
      <4>1. /\ id \in Range(prev.SeenIDs) => id \in Range(res.State.SeenIDs)
            /\ id \in N => id \in Range(res.State.SeenIDs) /\ id \notin Range(prev.SeenIDs)
            /\ id \in Waiting(s) => id \in Range(prev.SeenIDs)
        BY <1>6, <1>8, <2>1, <3>3 DEF PaidFor
      <4>2. delivered[t][id] + (IF id \in Waiting(s) THEN 1 ELSE 0)
               =< stops + (IF id \in Range(prev.SeenIDs) THEN 1 ELSE 0)
        BY <1>6, <3>1, <3>3
      <4>3. delivered[t][id] + (IF id \in Waiting(s) \cup N THEN 1 ELSE 0)
               =< stops + (IF id \in Range(res.State.SeenIDs) THEN 1 ELSE 0)
        <5> HIDE DEF N
        <5>1. CASE id \in N
          BY <2>2, <4>1, <4>2, <5>1
        <5>2. CASE id \notin N
          BY <2>2, <4>1, <4>2, <5>2
        <5> QED
          BY <5>1, <5>2
      <4> QED
        BY <1>11, <1>13, <3>3, <4>3
    <3> QED
      BY <3>2, <3>3
  <2>5. ASSUME NEW id \in IDs, id \notin Range(disk[t].SeenIDs)
        PROVE  delivered[t][id] =< stops
    BY <2>1, <2>5 DEF PaidFor
  <2> QED
    BY <1>5, <2>3, <2>4, <2>5 DEF PaidFor
<1> QED
  BY <1>15, <1>16, <1>17, <1>19, <1>20 DEF DInv

(* Every outcome of a source's fetch keeps the deliveries' promises.       *)
LEMMA FetchKeeps ==
    ASSUME IInv, IInv', DInv, NEW s \in Sources, Fetch(s)
    PROVE  DInv'
<1>1. TypeOK /\ TypeOK' /\ BucketsDescend /\ HeldAreOwn /\ TurnsInOrder
  BY DEF IInv, DInv
<1>2. CASE UsePrefetched(s)
  <2>1. prefetched[s] \in Seq(IDs) /\ Descending(prefetched[s])
        /\ Range(prefetched[s]) \subseteq Own(s)
    BY <1>1 DEF TypeOK, BucketsDescend, HeldAreOwn
  <2>2. pc = "source" /\ Argv[idx] = s /\ Round(s, prefetched[s])
    BY <1>2 DEF UsePrefetched, AtSource
  <2> QED
    BY <2>1, <2>2, RoundKeeps
<1>3. CASE FetchOK(s)
  <2>1. PICK lane \in Lanes[s] : Round(s, Timeline(s, lane, PrevState(s)))
    BY <1>3 DEF FetchOK
  <2>2. pc = "source" /\ Argv[idx] = s
    BY <1>3 DEF FetchOK, AtSource
  <2>3. /\ Timeline(s, lane, PrevState(s)) \in Seq(IDs)
        /\ Descending(Timeline(s, lane, PrevState(s)))
        /\ Range(Timeline(s, lane, PrevState(s))) \subseteq Own(s)
    BY <1>1, TimelineDescending, TimelineIsOwn
  <2> QED
    BY <2>1, <2>2, <2>3, RoundKeeps
<1>4. CASE FetchEmpty(s)
  <2>1. pc = "source" /\ Argv[idx] = s /\ Round(s, <<>>)
    BY <1>4 DEF FetchEmpty, AtSource
  <2>2. <<>> \in Seq(IDs) /\ Descending(<<>>) /\ Range(<<>>) \subseteq Own(s)
    BY DEF Descending, Range
  <2> QED
    BY <2>1, <2>2, RoundKeeps
<1>5. CASE FetchFails(s)
  <2>1. /\ pc = "source" /\ NextSource /\ Argv[idx] = s
        /\ UNCHANGED <<posts, disk, delivered, out, pending, stops>>
    BY <1>5 DEF FetchFails, AtSource, upstream, store, buffers
  <2>2. \A t \in Sources : Range(prefetched'[t]) \subseteq Own(t)'
    BY <1>1, <2>1, NextSourceKeeps, BucketsStayOwn
  <2>3. TurnsInOrder'
    <3> SUFFICES ASSUME AsJSON, NoRepeats, pc' = "source", NEW k \in DOMAIN Argv, idx' =< k
                 PROVE  /\ \A i \in DOMAIN out' : out'[i].source # Argv[k]
                        /\ \A i \in DOMAIN pending' : pending'[i].source # Argv[k]
      BY DEF TurnsInOrder, NoRepeats
    <3>1. idx \in DOMAIN Argv /\ DOMAIN Argv = 1..Len(Argv) /\ Len(Argv) \in Nat
      <4>1. idx \in DOMAIN Argv
        BY <1>1 DEF TypeOK
      <4> QED
        BY <4>1, WatchAssumption
    <3>2. idx' = idx + 1
      BY <2>1 DEF NextSource
    <3>3. idx =< k
      BY <3>1, <3>2
    <3> QED
      BY <1>1, <2>1, <3>3 DEF TurnsInOrder
  <2>4. stops =< stops'
    BY <1>1, <2>1, WatchAssumption DEF TypeOK
  <2> QED
    BY <2>1, <2>2, <2>3, <2>4, QuietKeeps
<1> QED
  BY <1>2, <1>3, <1>4, <1>5 DEF Fetch

(* The upstream, a start and the beginning of a cycle. *)
LEMMA EnvironmentKeeps ==
    ASSUME IInv, IInv', DInv,
           \/ \E s \in Sources : Post(s)
           \/ \E id \in DOMAIN posts \ gone : Delete(id)
           \/ Open \/ Cancel \/ PrefetchMerged \/ Tick
           \/ UNCHANGED vars
    PROVE  DInv'
<1>1. TypeOK /\ TypeOK' /\ BuffersMatchPC /\ HeldAreOwn /\ TurnsInOrder
  BY DEF IInv, DInv
<1>2. /\ UNCHANGED <<disk, delivered, out, pending>>
      /\ UNCHANGED posts \/ \E t \in Sources : posts' = Append(posts, t)
      /\ stops' = stops \/ stops' = stops + 1
  BY DEF Post, Delete, Open, Cancel, PrefetchMerged, Tick, vars, upstream, store, run,
         buffers, history, Stop
<1>3. stops =< stops'
  BY <1>1, <1>2, WatchAssumption DEF TypeOK
<1>4. \A s \in Sources : Own(s) \subseteq Own(s)'
  BY <1>1, <1>2, PostsGrow
<1>5. ASSUME NEW s \in Sources
      PROVE  Range(prefetched'[s]) \subseteq Own(s)'
  <2>1. \/ prefetched' = prefetched
        \/ prefetched' = NoBuckets
        \/ prefetched' = MergedBuckets
    BY DEF Post, Delete, Open, Cancel, PrefetchMerged, Tick, vars, run
  <2>2. Range(prefetched[s]) \subseteq Own(s) /\ Range(NoBuckets[s]) = {}
        /\ Range(MergedBuckets[s]) \subseteq Own(s)
    BY <1>1, BucketsAreOwn DEF HeldAreOwn, NoBuckets, Range
  <2> QED
    BY <1>4, <2>1, <2>2
<1>6. TurnsInOrder'
  <2>1. CASE pc' = pc /\ idx' = idx
    BY <1>1, <1>2, <2>1 DEF TurnsInOrder
  <2>2. CASE PrefetchMerged
    <3>1. out' = <<>> /\ pending' = <<>>
      BY <1>1, <1>2, <2>2 DEF PrefetchMerged, BuffersMatchPC
    <3>2. DOMAIN out' = {} /\ DOMAIN pending' = {}
      BY <3>1
    <3> QED
      BY <3>2 DEF TurnsInOrder
  <2>3. CASE Open \/ Tick
    BY <2>3 DEF Open, Tick, TurnsInOrder
  <2> QED
    BY <2>1, <2>2, <2>3 DEF Post, Delete, Cancel, vars, run
<1>7. pc' \notin {"write", "put"} => pc \notin {"write", "put"}
  BY DEF Post, Delete, Open, Cancel, PrefetchMerged, Tick, vars
<1> QED
  BY <1>2, <1>3, <1>5, <1>6, <1>7, QuietKeeps

(* So do a crash, a signal seen and a write that fails.                    *)
LEMMA InterruptionKeeps ==
    ASSUME IInv, IInv', DInv, Crash \/ GracefulExit \/ WriteFails
    PROVE  DInv'
<1>1. Exit /\ UNCHANGED <<posts, disk, mem, delivered>>
  BY DEF Crash, GracefulExit, WriteFails, upstream, store, history
<1>2. stops' = stops + 1 \/ (stops' = stops /\ pc \notin {"write", "put"})
  BY DEF Crash, GracefulExit, WriteFails, Stop, history
<1> QED
  BY <1>1, <1>2, ExitKeeps

(* Nothing has been delivered at first. *)
LEMMA InitDelivers == Init => DInv
<1> SUFFICES ASSUME Init PROVE DInv
  OBVIOUS
<1>1. /\ DOMAIN out = {} /\ DOMAIN pending = {} /\ stops = 0 /\ pc = "down"
      /\ out = <<>> /\ pending = <<>>
      /\ delivered = [s \in Sources |-> [id \in IDs |-> 0]]
      /\ disk = [s \in Sources |-> ZeroState] /\ mem = disk /\ prefetched = NoBuckets
  BY DEF Init
<1>2. \A s \in Sources : /\ Waiting(s) = {} /\ DeliveredIDs(s) = {}
                         /\ Range(disk[s].SeenIDs) = {} /\ Range(prefetched[s]) = {}
                         /\ PrevState(s) = disk[s]
  BY <1>1 DEF Waiting, DeliveredIDs, ZeroState, NoBuckets, Range, PrevState
<1>3. HeldAreOwn
  BY <1>1, <1>2 DEF HeldAreOwn
<1>4. WritesExtend /\ TurnsInOrder /\ RecordsFresh
  BY <1>1, <1>2 DEF WritesExtend, TurnsInOrder, RecordsFresh
<1>5. \A s \in Sources : PaidFor(s)
  BY <1>1, <1>2 DEF PaidFor
<1> QED
  BY <1>3, <1>4, <1>5 DEF DInv

(* So does every step.                                                     *)
LEMMA StepKeeps == IInv /\ IInv' /\ DInv /\ [Next]_vars => DInv'
<1> SUFFICES ASSUME IInv, IInv', DInv, [Next]_vars PROVE DInv'
  OBVIOUS
<1>1. CASE \/ \E s \in Sources : Post(s)
           \/ \E id \in DOMAIN posts \ gone : Delete(id)
           \/ Open \/ Cancel \/ PrefetchMerged \/ Tick
           \/ UNCHANGED vars
  BY <1>1, EnvironmentKeeps
<1>2. CASE Crash \/ GracefulExit \/ WriteFails
  BY <1>2, InterruptionKeeps
<1>3. CASE \E s \in Sources : Fetch(s)
  BY <1>3, FetchKeeps
<1>4. CASE WriteRecord
  BY <1>4, WriteRecordKeeps
<1>5. CASE WriteDocument
  BY <1>5, WriteDocumentKeeps
<1>6. CASE Put
  BY <1>6, PutKeeps
<1> QED
  BY <1>1, <1>2, <1>3, <1>4, <1>5, <1>6 DEF Next, Environment, Process

(* The invariant of the deliveries holds of every behaviour.               *)
THEOREM DeliveryInvariance == Spec => []DInv
<1>1. Init => DInv
  BY InitDelivers
<1>2. IInv /\ IInv' /\ DInv /\ [Next]_vars => DInv'
  BY StepKeeps
<1> QED
  BY <1>1, <1>2, Invariance, PTL DEF Spec

(* No source delivers or remembers another's tweets, whatever a merged     *)
(* fetch brings in (merged.go MergedTimeline).                             *)
THEOREM NoStrangers == Spec => []OnlyOwnTweets
<1>1. DInv => OnlyOwnTweets
  <2> SUFFICES ASSUME HeldAreOwn, NEW s \in Sources,
                      NEW id \in DeliveredIDs(s) \cup Range(disk[s].SeenIDs)
               PROVE  posts[id] = s
    BY DEF OnlyOwnTweets, DInv
  <2>1. id \in Own(s)
    BY DEF HeldAreOwn
  <2> QED
    BY <2>1 DEF Own
<1> QED
  BY <1>1, DeliveryInvariance, PTL

(* The bound on redelivery of the sources seen.json has room for. *)
PaidDeliveries ==
    \A s \in Sources : Fits(s) => \A id \in IDs : delivered[s][id] =< 1 + stops

(* While a source has posted no more than is remembered of it, a tweet is  *)
(* delivered again only after an interruption, whatever the flags and      *)
(* whatever the other sources do (watch.go runCycle, seen.go MergeSeen).   *)
THEOREM AtMostOncePerStop == Spec => []PaidDeliveries
<1>1. IInv /\ DInv => PaidDeliveries
  <2> SUFFICES ASSUME IInv, DInv, NEW s \in Sources, Fits(s), NEW id \in IDs
               PROVE  delivered[s][id] =< 1 + stops
    BY DEF PaidDeliveries
  <2>1. delivered[s][id] + (IF id \in Waiting(s) THEN 1 ELSE 0)
           =< stops + (IF id \in Range(PrevState(s).SeenIDs) THEN 1 ELSE 0)
    BY DEF DInv, PaidFor
  <2>2. stops \in Nat /\ delivered[s][id] \in Nat
    BY WatchAssumption DEF IInv, TypeOK
  <2> QED
    BY <2>1, <2>2
<1> QED
  BY <1>1, Invariance, DeliveryInvariance, PTL

(* With room for every post, that is so of all sources: cycles that run to *)
(* their end never emit a tweet twice (watch.go, rssStop and MergeSeen).   *)
THEOREM RedeliveryIsPaidFor ==
    ASSUME MaxPosts =< SeenLimit
    PROVE  Spec => []RedeliveryNeedsStop
<1>1. IInv /\ PaidDeliveries => RedeliveryNeedsStop
  <2>1. IInv => \A s \in Sources : Fits(s)
    BY RoomForAll DEF IInv
  <2> QED
    BY <2>1 DEF PaidDeliveries, RedeliveryNeedsStop
<1> QED
  BY <1>1, Invariance, AtMostOncePerStop, PTL

-----------------------------------------------------------------------------
(* The recorded history stays with the source. *)

(* A full state remembers no more than the limit, and a state that extends *)
(* a full one is full.                                                     *)
LEMMA FullStays ==
    ASSUME NEW old \in SourceStates, NEW new \in SourceStates, Extends(new, old),
           new = old \/ Cardinality(Range(new.SeenIDs)) =< SeenLimit
    PROVE  /\ Full(old) => Full(new)
           /\ \A ids : Holds(old, ids) => Holds(new, ids)
<1>1. /\ IsFiniteSet(Range(new.SeenIDs)) /\ Cardinality(Range(new.SeenIDs)) \in Nat
      /\ Cardinality(Range(old.SeenIDs)) \in Nat /\ SeenLimit \in Nat
  BY SeenFinite, SeenListAssumption
<1>2. ASSUME Full(old) PROVE Full(new)
  <2>1. CASE Range(old.SeenIDs) \subseteq Range(new.SeenIDs) /\ new # old
    <3>1. Cardinality(Range(old.SeenIDs)) =< Cardinality(Range(new.SeenIDs))
      BY <1>1, <2>1, FS_Subset
    <3>2. Cardinality(Range(new.SeenIDs)) =< SeenLimit
      BY <2>1
    <3> QED
      BY <1>1, <1>2, <3>1, <3>2 DEF Full
  <2> QED
    BY <1>2, <2>1 DEF Extends, Full
<1>3. \A ids : Holds(old, ids) => Holds(new, ids)
  BY <1>2 DEF Holds, Extends, Full
<1> QED
  BY <1>2, <1>3

(* A first turn emits nothing unless it is asked to include what exists,   *)
(* and its state holds all it has read (engine.go Select).                 *)
LEMMA FirstRunHolds ==
    ASSUME NEW tweets \in Seq(IDs), NEW page \in Seq(IDs),
           NEW prev \in SourceStates, ~prev.Initialized, NEW kind,
           NEW res, res = Select(tweets, page, prev, kind)
    PROVE  /\ ~res.State.Initialized => res.Tweets = <<>>
           /\ ~IncludeExisting => res.Tweets = <<>>
           /\ res.State.Initialized => Holds(res.State, Range(tweets))
<1> DEFINE mark == CapWatermark(page)
           ids  == NonEmptyIDs(tweets)
<1>1. mark \in Seq(IDs)
  BY CapWatermarkProperties
<1>2. ids \in Seq(IDs) /\ Range(ids) = Range(tweets)
  <2> DEFINE I == {i \in DOMAIN tweets : tweets[i] # EmptyID}
  <2>1. ids \in Seq(IDs) /\ Range(ids) = {tweets[i] : i \in I}
    BY KeepProperties DEF NonEmptyIDs
  <2>2. \A i \in DOMAIN tweets : tweets[i] \in IDs
    BY ElementOfSeq
  <2>3. I = DOMAIN tweets
    BY <2>2, IDsAreIDs
  <2> QED
    BY <2>1, <2>3 DEF Range
<1>3. res = FirstRun(tweets, mark, prev, kind)
  BY DEF Select, mark
<1>4. Holds(Advanced(ids, prev, mark), Range(tweets)) /\ Advanced(ids, prev, mark).Initialized
  <2>1. \/ Range(ids) \cup Range(prev.SeenIDs) \subseteq Range(Advanced(ids, prev, mark).SeenIDs)
        \/ Cardinality(Range(Advanced(ids, prev, mark).SeenIDs)) = SeenLimit
    <3> HIDE DEF ids, mark
    <3> QED
      BY <1>1, <1>2, AdvancedCovers
  <2>2. Advanced(ids, prev, mark).Initialized
    BY DEF Advanced
  <2> QED
    BY <1>2, <2>1, <2>2 DEF Holds, Full
<1>5. \/ res = Nothing(prev)
      \/ /\ res.State = Advanced(ids, prev, mark)
         /\ ~IncludeExisting => res.Tweets = <<>>
  BY <1>3 DEF FirstRun
<1> HIDE DEF ids, mark
<1> QED
  BY <1>4, <1>5 DEF Nothing

(* What the state a turn compares with holds. *)
LEMMA PrevStateHolds ==
    ASSUME IInv, HistoryHeld, NEW s \in Sources
    PROVE  PrevState(s).Initialized => Holds(PrevState(s), seeded[s])
<1>1. pending \in Seq(Write) /\ mem = disk /\ PrevState(s) = PrevOf(pending, mem, s)
  BY PrevStateOf DEF IInv, TypeOK, StoreAgrees, Write
<1>2. \/ PrevState(s) = disk[s]
      \/ \E i \in DOMAIN pending : pending[i].source = s /\ PrevState(s) = pending[i].state
  BY <1>1, PrevStateIs
<1> QED
  BY <1>2 DEF HistoryHeld

(* HistoryHeld after a step, spelled out. *)
LEMMA HistoryHeldNext ==
    ASSUME \A s \in Sources :
              /\ IncludeExisting => seeded'[s] = {}
              /\ disk'[s].Initialized => Holds(disk'[s], seeded'[s])
              /\ \A i \in DOMAIN pending' :
                    pending'[i].source = s => Holds(pending'[i].state, seeded'[s])
              /\ Waiting(s)' \cap seeded'[s] # {} => Full(PrevState(s)')
              /\ ~PrevState(s)'.Initialized => Waiting(s)' = {}
    PROVE  HistoryHeld'
BY DEF HistoryHeld, Holds, Full

(* A turn leaves the history with its source: a first turn records it and  *)
(* any later one emits what its state has let go of only if it was full.   *)
LEMMA RoundHolds ==
    ASSUME IInv, IInv', DInv, HistoryHeld, NEW s \in Sources, pc = "source", Argv[idx] = s,
           NEW fetched \in Seq(IDs), Descending(fetched), Range(fetched) \subseteq Own(s),
           Round(s, fetched)
    PROVE  HistoryHeld'
<1> DEFINE tweets == Filtered(fetched)
           page   == UpTo(tweets, WatermarkLimit)
           prev   == PrevState(s)
           res    == Select(tweets, page, prev, Kind[s])
<1>1. /\ NoteBaseline(s, prev, tweets) /\ UNCHANGED <<disk, mem>>
      /\ seeded \in [Sources -> SUBSET IDs] /\ mem = disk
  BY DEF Round, store, IInv, TypeOK, StoreAgrees
<1>2. tweets \in Seq(IDs) /\ page \in Seq(IDs)
  <2>1. tweets \in Seq(IDs)
    BY FilteredDescending
  <2> HIDE DEF tweets
  <2> QED
    BY <2>1, UpToProperties, SeenListAssumption
<1>3. prev = PrevState(s) /\ res = Select(tweets, page, prev, Kind[s])
  OBVIOUS
<1> HIDE DEF res
<1>4. /\ Remembers(tweets, prev, res)
      /\ res.Tweets \in Seq(IDs) /\ res.State \in SourceStates
      /\ res.State # prev => res.State.Initialized
      /\ \A i \in DOMAIN pending : i \in DOMAIN pending' /\ pending'[i] = pending[i]
      /\ \A i \in DOMAIN pending' : i \in DOMAIN pending \/
            /\ res.State # prev /\ i = Len(pending) + 1
            /\ pending'[i] = [source |-> s, state |-> res.State]
      /\ \A t \in Sources :
            /\ Waiting(t)' = IF t = s THEN Waiting(s) \cup Range(res.Tweets) ELSE Waiting(t)
            /\ PrevState(t)' = IF t = s THEN res.State ELSE PrevState(t)
  BY <1>3, RoundBuffers
<1> HIDE DEF tweets, page, prev
<1>5. \A t \in Sources :
         seeded'[t] = IF t = s /\ ~prev.Initialized /\ ~IncludeExisting
                      THEN Range(tweets) ELSE seeded[t]
  BY <1>1 DEF NoteBaseline
<1>6. ASSUME NEW t \in Sources, t # s
      PROVE  /\ IncludeExisting => seeded'[t] = {}
             /\ disk'[t].Initialized => Holds(disk'[t], seeded'[t])
             /\ \A i \in DOMAIN pending' :
                   pending'[i].source = t => Holds(pending'[i].state, seeded'[t])
             /\ Waiting(t)' \cap seeded'[t] # {} => Full(PrevState(t)')
             /\ ~PrevState(t)'.Initialized => Waiting(t)' = {}
  <2>1. /\ seeded'[t] = seeded[t] /\ Waiting(t)' = Waiting(t) /\ PrevState(t)' = PrevState(t)
        /\ disk'[t] = disk[t]
    BY <1>1, <1>4, <1>5, <1>6
  <2>2. \A i \in DOMAIN pending' :
            pending'[i].source = t => i \in DOMAIN pending /\ pending'[i] = pending[i]
    BY <1>4, <1>6
  <2> QED
    BY <2>1, <2>2 DEF HistoryHeld
<1>7. /\ IncludeExisting => seeded[s] = {}
      /\ disk[s].Initialized => Holds(disk[s], seeded[s])
      /\ \A i \in DOMAIN pending : pending[i].source = s => Holds(pending[i].state, seeded[s])
      /\ Waiting(s) \cap seeded[s] # {} => Full(prev)
      /\ ~prev.Initialized => Waiting(s) = {}
      /\ prev.Initialized => Holds(prev, seeded[s])
  BY <1>3, PrevStateHolds DEF HistoryHeld
<1>8. /\ prev \in SourceStates
      /\ ~prev.Initialized => ~disk[s].Initialized /\ \A i \in DOMAIN pending : pending[i].source # s
  BY <1>3, PrevStateKnown, PrevStateAccounted
<1>9. CASE ~prev.Initialized
  <2>1. /\ ~res.State.Initialized => res.Tweets = <<>>
        /\ ~IncludeExisting => res.Tweets = <<>>
        /\ res.State.Initialized => Holds(res.State, Range(tweets))
    BY <1>2, <1>3, <1>8, <1>9, FirstRunHolds
  <2>2. res.Tweets = <<>> => Range(res.Tweets) = {}
    BY DEF Range
  <2>3. IncludeExisting => seeded'[s] = {}
    BY <1>5, <1>7
  <2>4. Holds(res.State, {})
    BY DEF Holds
  <2>5. res.State.Initialized => Holds(res.State, seeded'[s])
    BY <1>5, <1>9, <2>1, <2>3, <2>4
  <2>6. \A i \in DOMAIN pending' :
            pending'[i].source = s => pending'[i].state = res.State /\ res.State.Initialized
    BY <1>4, <1>8, <1>9
  <2>7. Waiting(s)' = Range(res.Tweets) /\ PrevState(s)' = res.State /\ disk'[s] = disk[s]
    BY <1>1, <1>4, <1>7, <1>9
  <2>8. Waiting(s)' \cap seeded'[s] = {}
    BY <2>1, <2>2, <2>3, <2>7
  <2> QED
    BY <1>6, <1>8, <1>9, <2>1, <2>2, <2>3, <2>5, <2>6, <2>7, <2>8, HistoryHeldNext
<1>10. CASE prev.Initialized
  <2>1. Extends(res.State, prev) /\ (res.State = prev \/ Cardinality(Range(res.State.SeenIDs)) =< SeenLimit)
        /\ Range(res.Tweets) \cap Range(prev.SeenIDs) = {}
    BY <1>4 DEF Remembers, Extends
  <2>2. (Full(prev) => Full(res.State)) /\ Holds(res.State, seeded[s])
    BY <1>4, <1>7, <1>8, <1>10, <2>1, FullStays
  <2>3. seeded'[s] = seeded[s] /\ disk'[s] = disk[s]
    BY <1>1, <1>5, <1>10
  <2>4. Waiting(s)' = Waiting(s) \cup Range(res.Tweets) /\ PrevState(s)' = res.State
    BY <1>4
  <2>5. Range(res.Tweets) \cap seeded[s] # {} => Full(prev)
    BY <1>7, <1>10, <2>1 DEF Holds
  <2>6. Waiting(s)' \cap seeded'[s] # {} => Full(PrevState(s)')
    BY <1>7, <2>2, <2>3, <2>4, <2>5
  <2>7. PrevState(s)'.Initialized
    BY <1>4, <1>10, <2>4
  <2>8. \A i \in DOMAIN pending' :
            pending'[i].source = s => Holds(pending'[i].state, seeded'[s])
    BY <1>4, <1>7, <2>2, <2>3
  <2> QED
    BY <1>6, <1>7, <2>3, <2>6, <2>7, <2>8, HistoryHeldNext
<1> QED
  BY <1>9, <1>10

(* Steps that leave the buffers, the file and the history alone.           *)
LEMMA QuietHolds ==
    ASSUME IInv, IInv', HistoryHeld, UNCHANGED <<disk, out, pending, seeded>>
    PROVE  HistoryHeld'
<1>1. mem = disk /\ mem' = disk'
  BY DEF IInv, StoreAgrees
<1>2. \A s \in Sources : PrevState(s)' = PrevState(s) /\ Waiting(s)' = Waiting(s)
  BY <1>1 DEF PrevState, Waiting
<1> QED
  BY <1>2, HistoryHeldNext DEF HistoryHeld

(* Exits, which drop both buffers.                                         *)
LEMMA ExitHolds ==
    ASSUME IInv, IInv', HistoryHeld, Exit, UNCHANGED <<disk, seeded>>
    PROVE  HistoryHeld'
<1>1. DOMAIN out' = {} /\ DOMAIN pending' = {}
  BY DEF Exit
<1>2. \A s \in Sources : Waiting(s)' = {}
  BY <1>1 DEF Waiting
<1> QED
  BY <1>1, <1>2, HistoryHeldNext DEF HistoryHeld

(* Writes, which only make fewer records wait.                             *)
LEMMA WriteHolds ==
    ASSUME HistoryHeld, WriteRecord \/ WriteDocument,
           \A s \in Sources : Waiting(s)' \subseteq Waiting(s)
    PROVE  HistoryHeld'
<1>1. UNCHANGED <<disk, mem, pending, seeded>>
  BY DEF WriteRecord, WriteDocument, store
<1>2. \A s \in Sources : PrevState(s)' = PrevState(s)
  BY <1>1 DEF PrevState
<1>3. ASSUME NEW s \in Sources
      PROVE  /\ IncludeExisting => seeded'[s] = {}
             /\ disk'[s].Initialized => Holds(disk'[s], seeded'[s])
             /\ \A i \in DOMAIN pending' :
                   pending'[i].source = s => Holds(pending'[i].state, seeded'[s])
             /\ Waiting(s)' \cap seeded'[s] # {} => Full(PrevState(s)')
             /\ ~PrevState(s)'.Initialized => Waiting(s)' = {}
  <2>1. /\ IncludeExisting => seeded[s] = {}
        /\ disk[s].Initialized => Holds(disk[s], seeded[s])
        /\ \A i \in DOMAIN pending : pending[i].source = s => Holds(pending[i].state, seeded[s])
        /\ Waiting(s) \cap seeded[s] # {} => Full(PrevState(s))
        /\ ~PrevState(s).Initialized => Waiting(s) = {}
    BY DEF HistoryHeld
  <2>2. Waiting(s)' \subseteq Waiting(s) /\ PrevState(s)' = PrevState(s)
    BY <1>2
  <2> QED
    BY <1>1, <2>1, <2>2
<1> QED
  BY <1>3, HistoryHeldNext

(* State writes, which move what is held from the buffer to the file.      *)
LEMMA PutHolds ==
    ASSUME IInv, IInv', HistoryHeld, Put
    PROVE  HistoryHeld'
<1> DEFINE w == Head(pending)
<1>1. /\ pending # <<>> /\ pending \in Seq(Write) /\ out = <<>> /\ mem = disk
      /\ disk \in [Sources -> SourceStates]
  BY DEF IInv, StoreAgrees, TypeOK, BuffersMatchPC, Put, Write
<1>2. /\ mem' = [mem EXCEPT ![w.source] = w.state] /\ disk' = mem' /\ pending' = Tail(pending)
      /\ UNCHANGED <<out, seeded>>
  BY DEF Put, history
<1>3. /\ w = pending[1] /\ w \in Write /\ 1 \in DOMAIN pending
      /\ Tail(pending) \in Seq(Write)
      /\ Len(pending) \in Nat \ {0} /\ Len(Tail(pending)) = Len(pending) - 1
      /\ \A i \in 1..Len(Tail(pending)) : Tail(pending)[i] = pending[i + 1]
  BY <1>1, HeadTailProperties, EmptySeq, ElementOfSeq
<1>4. \A i \in DOMAIN pending' : i + 1 \in DOMAIN pending /\ pending'[i] = pending[i + 1]
  BY <1>1, <1>2, <1>3
<1> HIDE DEF w
<1>5. \A s \in Sources : disk'[s] = IF s = w.source THEN w.state ELSE disk[s]
  BY <1>1, <1>2
<1>6. DOMAIN out = {} /\ DOMAIN out' = {}
  BY <1>1, <1>2
<1>7. \A s \in Sources : Waiting(s) = {} /\ Waiting(s)' = {}
  BY <1>6 DEF Waiting
<1>8. ASSUME NEW s \in Sources
      PROVE  /\ IncludeExisting => seeded'[s] = {}
             /\ disk'[s].Initialized => Holds(disk'[s], seeded'[s])
             /\ \A i \in DOMAIN pending' :
                   pending'[i].source = s => Holds(pending'[i].state, seeded'[s])
  <2>1. /\ IncludeExisting => seeded[s] = {}
        /\ disk[s].Initialized => Holds(disk[s], seeded[s])
        /\ \A i \in DOMAIN pending : pending[i].source = s => Holds(pending[i].state, seeded[s])
    BY DEF HistoryHeld
  <2> QED
    BY <1>2, <1>3, <1>4, <1>5, <2>1
<1> QED
  BY <1>7, <1>8, HistoryHeldNext

(* Nothing is written that did not wait. *)
LEMMA WritesWaited ==
    ASSUME IInv, WriteRecord \/ WriteDocument, NEW s \in Sources
    PROVE  /\ Waiting(s)' \subseteq Waiting(s)
           /\ \A id \in IDs : delivered'[s][id] # delivered[s][id] => id \in Waiting(s)
<1>1. out \in Seq(Record) /\ delivered \in [Sources -> [IDs -> Nat]]
  BY DEF IInv, TypeOK, Record
<1>2. ASSUME NEW records \in Seq(Record), Deliver(records),
             NEW id \in IDs, Copies(records, s, id) = {}
      PROVE  delivered'[s][id] = delivered[s][id]
  <2>1. delivered'[s][id] = delivered[s][id] + Cardinality(Copies(records, s, id))
    BY <1>2 DEF Deliver, Copies
  <2>2. Cardinality(Copies(records, s, id)) = 0
    BY <1>2, CopiesCounted
  <2> QED
    BY <1>1, <2>1, <2>2
<1>3. CASE WriteRecord
  <2>1. \A t \in Sources : \A id \in IDs :
            id \in Waiting(t)' \/ Copies(<<Head(out)>>, t, id) # {} => id \in Waiting(t)
    BY <1>3, RecordWaited
  <2>2. <<Head(out)>> \in Seq(Record) /\ Deliver(<<Head(out)>>)
    <3>1. out # <<>> /\ Deliver(<<Head(out)>>)
      BY <1>3 DEF WriteRecord, IInv, BuffersMatchPC
    <3>2. Head(out) = out[1] /\ 1 \in DOMAIN out
      BY <1>1, <3>1, EmptySeq
    <3>3. out[1] \in Record
      BY <1>1, <3>2, ElementOfSeq
    <3> QED
      BY <3>1, <3>2, <3>3
  <2>3. Waiting(s)' \subseteq IDs
    BY DEF Waiting
  <2> QED
    BY <1>2, <2>1, <2>2, <2>3
<1>4. CASE WriteDocument
  <2>1. DOMAIN out' = {} /\ Deliver(out)
    BY <1>4 DEF WriteDocument
  <2>2. \A id \in IDs : Copies(out, s, id) # {} => id \in Waiting(s)
    BY DEF Copies, Waiting
  <2>3. Waiting(s)' = {}
    BY <2>1 DEF Waiting
  <2> QED
    BY <1>1, <1>2, <2>1, <2>2, <2>3
<1> QED
  BY <1>3, <1>4

(* So every step leaves the history with its source.                       *)
LEMMA StepHolds == IInv /\ IInv' /\ DInv /\ HistoryHeld /\ [Next]_vars => HistoryHeld'
<1> SUFFICES ASSUME IInv, IInv', DInv, HistoryHeld, [Next]_vars PROVE HistoryHeld'
  OBVIOUS
<1>1. CASE \/ \E s \in Sources : Post(s)
           \/ \E id \in DOMAIN posts \ gone : Delete(id)
           \/ Open \/ Cancel \/ PrefetchMerged \/ Tick
           \/ \E s \in Sources : FetchFails(s)
           \/ UNCHANGED vars
  <2>1. UNCHANGED <<disk, out, pending, seeded>>
    BY <1>1 DEF Post, Delete, Open, Cancel, PrefetchMerged, Tick, FetchFails, vars, upstream,
                store, buffers, history
  <2> QED
    BY <2>1, QuietHolds
<1>2. CASE Crash \/ GracefulExit \/ WriteFails
  <2>1. Exit /\ UNCHANGED <<disk, seeded>>
    BY <1>2 DEF Crash, GracefulExit, WriteFails, store, history
  <2> QED
    BY <2>1, ExitHolds
<1>3. ASSUME NEW s \in Sources, Fetch(s), ~FetchFails(s) PROVE HistoryHeld'
  <2>1. TypeOK /\ BucketsDescend /\ HeldAreOwn
    BY DEF IInv, DInv
  <2>2. PICK fetched : /\ fetched \in Seq(IDs) /\ Descending(fetched)
                       /\ Range(fetched) \subseteq Own(s) /\ Round(s, fetched)
    <3>1. CASE UsePrefetched(s)
      BY <2>1, <3>1 DEF UsePrefetched, TypeOK, BucketsDescend, HeldAreOwn
    <3>2. CASE FetchOK(s)
      BY <2>1, <3>2, TimelineDescending, TimelineIsOwn DEF FetchOK
    <3>3. CASE FetchEmpty(s)
      <4>1. <<>> \in Seq(IDs) /\ Descending(<<>>) /\ Range(<<>>) \subseteq Own(s)
        BY EmptySeq DEF Descending, Range
      <4>2. Round(s, <<>>)
        BY <3>3 DEF FetchEmpty
      <4> QED
        BY <4>1, <4>2
    <3> QED
      BY <1>3, <3>1, <3>2, <3>3 DEF Fetch
  <2>3. pc = "source" /\ Argv[idx] = s
    BY <1>3 DEF Fetch, UsePrefetched, FetchOK, FetchEmpty, AtSource
  <2> QED
    BY <2>2, <2>3, RoundHolds
<1>4. CASE WriteRecord \/ WriteDocument
  BY <1>4, WritesWaited, WriteHolds
<1>5. CASE Put
  BY <1>5, PutHolds
<1> QED
  BY <1>1, <1>2, <1>3, <1>4, <1>5 DEF Next, Environment, Process, Fetch

(* What a source's first run has read is never delivered, whatever readers,*)
(* page sizes, merged feeds and deletions make of the later fetches, until *)
(* the list that remembers it is full (engine.go Select, seen.go           *)
(* MergeSeen).                                                             *)
THEOREM HistoryIsSilent == Spec => HistoryStaysSilent
<1>1. Init => HistoryHeld
  <2> SUFFICES ASSUME Init PROVE HistoryHeld
    OBVIOUS
  <2>1. /\ DOMAIN out = {} /\ DOMAIN pending = {}
        /\ disk = [s \in Sources |-> ZeroState] /\ seeded = [s \in Sources |-> {}]
    BY DEF Init
  <2>2. \A s \in Sources : Waiting(s) = {} /\ ~disk[s].Initialized
    BY <2>1 DEF Waiting, ZeroState
  <2> QED
    BY <2>1, <2>2 DEF HistoryHeld
<1>2. IInv /\ HistoryHeld /\ [Next]_vars =>
         [\A s \in Sources : \A id \in seeded[s] :
             delivered'[s][id] > delivered[s][id] => Full(PrevState(s))]_vars
  <2> SUFFICES ASSUME IInv, HistoryHeld, Next, NEW s \in Sources, NEW id \in seeded[s],
                      delivered'[s][id] > delivered[s][id]
               PROVE  Full(PrevState(s))
    OBVIOUS
  <2>1. delivered \in [Sources -> [IDs -> Nat]] /\ id \in IDs
    BY DEF IInv, TypeOK
  <2>2. delivered'[s][id] # delivered[s][id]
    BY <2>1
  <2>3. WriteRecord \/ WriteDocument
    <3> SUFFICES ASSUME ~(WriteRecord \/ WriteDocument) PROVE delivered' = delivered
      BY <2>2
    <3> QED
      BY DEF Next, Environment, Process, Fetch, Post, Delete, Crash, Cancel, WriteFails, Open,
             PrefetchMerged, GracefulExit, UsePrefetched, FetchOK, FetchEmpty, FetchFails,
             Round, Put, Tick, history
  <2>4. id \in Waiting(s)
    BY <2>1, <2>2, <2>3, WritesWaited
  <2> QED
    BY <2>4 DEF HistoryHeld
<1> QED
  BY <1>1, <1>2, StepHolds, Invariance, DeliveryInvariance, PTL DEF Spec, HistoryStaysSilent

-----------------------------------------------------------------------------
(* Watch implements Subscription. *)

(* What the abstract specification sees. *)
Recorded   == [s \in Sources |-> disk[s].Initialized]
Remembered == [s \in Sources |-> Range(disk[s].SeenIDs)]
Observed   == <<Recorded, Remembered, delivered, baseline>>

(* A document that comes back to no source, or has room, settles all.      *)
LEMMA AllSettled ==
    ASSUME TypeOK, DocumentFits, NEW s \in Sources
    PROVE  Settled(s)
BY RoomForAll DEF DocumentFits, Settled

(* Nothing recorded, nothing delivered.                                    *)
LEMMA InitPromised == Init => Promise!Init
<1> SUFFICES ASSUME Init PROVE Promise!Init
  OBVIOUS
<1>1. /\ disk = [s \in Sources |-> ZeroState]
      /\ delivered = [s \in Sources |-> [id \in IDs |-> 0]]
      /\ baseline = [s \in Sources |-> 0]
  BY DEF Init
<1>2. \A s \in Sources : disk[s].Initialized = FALSE /\ Range(disk[s].SeenIDs) = {}
  BY <1>1 DEF ZeroState, Range
<1> QED
  BY <1>1, <1>2 DEF Promise!Init

(* A first turn looks back at the history; any other leaves no trace       *)
(* outside the process.                                                    *)
LEMMA RoundPromised ==
    ASSUME IInv, DInv, NEW s \in Sources,
           NEW fetched \in Seq(IDs), Descending(fetched), Round(s, fetched)
    PROVE  Promise!LookBack(s) \/ UNCHANGED Observed
<1> DEFINE tweets == Filtered(fetched)
           prev   == PrevState(s)
<1>1. tweets \in Seq(IDs)
  BY FilteredDescending
<1>2. ~prev.Initialized => ~disk[s].Initialized
  BY PrevStateKnown
<1>3. NoteBaseline(s, prev, tweets) /\ UNCHANGED <<disk, delivered>>
  BY DEF Round, store
<1> HIDE DEF prev, tweets
<1>4. CASE ~prev.Initialized /\ ~IncludeExisting
  <2> DEFINE newest == IF tweets = <<>> THEN 0 ELSE tweets[1]
  <2>1. baseline' = [baseline EXCEPT ![s] = newest]
    BY <1>3, <1>4 DEF NoteBaseline
  <2>2. newest \in IDs \cup {0}
    <3>1. tweets # <<>> => 1 \in 1..Len(tweets)
      BY <1>1
    <3> QED
      BY <1>1, <3>1, ElementOfSeq
  <2> HIDE DEF newest
  <2>3. Promise!LookBack(s)
    BY <1>2, <1>3, <1>4, <2>1, <2>2 DEF Promise!LookBack
  <2> QED
    BY <2>3
<1>5. CASE ~(~prev.Initialized /\ ~IncludeExisting)
  BY <1>3, <1>5 DEF NoteBaseline, Observed, Recorded, Remembered
<1> QED
  BY <1>4, <1>5

(* Records that are written together are tweets that are not remembered,   *)
(* each of them once.                                                      *)
LEMMA WritePromised ==
    ASSUME IInv, DInv, NEW records \in Seq(Record), Deliver(records),
           UNCHANGED <<disk, baseline>>,
           \A s \in Sources : \A id \in IDs :
              /\ Copies(records, s, id) # {} => id \notin Range(disk[s].SeenIDs)
              /\ Cardinality(Copies(records, s, id)) =< 1
    PROVE  Promise!Deliver
<1> DEFINE tweets == [s \in Sources |-> {id \in IDs : Copies(records, s, id) # {}}]
<1>1. tweets \in [Sources -> SUBSET IDs]
  OBVIOUS
<1>2. \A s \in Sources : tweets[s] \cap Range(disk[s].SeenIDs) = {}
  OBVIOUS
<1>3. \A s \in Sources : \A id \in IDs :
         Cardinality(Copies(records, s, id)) = IF id \in tweets[s] THEN 1 ELSE 0
  <2> TAKE s \in Sources
  <2> TAKE id \in IDs
  <2>1. /\ Cardinality(Copies(records, s, id)) \in Nat
        /\ Cardinality(Copies(records, s, id)) = 0 <=> Copies(records, s, id) = {}
        /\ Cardinality(Copies(records, s, id)) =< 1
    BY CopiesCounted
  <2>2. id \in tweets[s] <=> Copies(records, s, id) # {}
    OBVIOUS
  <2> HIDE DEF tweets
  <2> QED
    BY <2>1, <2>2
<1> HIDE DEF tweets
<1>4. delivered' = [s \in Sources |-> [id \in IDs |->
                       delivered[s][id] + (IF id \in tweets[s] THEN 1 ELSE 0)]]
  <2>1. delivered' = [s \in Sources |-> [id \in IDs |->
                          delivered[s][id] + Cardinality(Copies(records, s, id))]]
    BY DEF Deliver, Copies
  <2> QED
    BY <1>3, <2>1
<1> QED
  BY <1>1, <1>2, <1>4 DEF Promise!Deliver

(* A state write remembers what may be remembered, and forgets only when   *)
(* the list is full.                                                       *)
LEMMA PutPromised ==
    ASSUME IInv, IInv', DInv, Put
    PROVE  \E s \in Sources : Promise!Remember(s)
<1> DEFINE w == Head(pending)
<1>1. /\ TypeOK /\ mem = disk /\ PendingIsAccounted /\ WritesExtend /\ SeenIsAccounted'
      /\ pending # <<>> /\ pending \in Seq(Write) /\ disk \in [Sources -> SourceStates]
  BY DEF IInv, DInv, StoreAgrees, TypeOK, BuffersMatchPC, Put, Write
<1>2. /\ w = pending[1] /\ w \in Write /\ 1 \in DOMAIN pending
  BY <1>1, HeadTailProperties, EmptySeq, ElementOfSeq
<1>3. /\ disk' = [disk EXCEPT ![w.source] = w.state] /\ UNCHANGED <<delivered, baseline>>
  BY <1>1 DEF Put, history
<1> HIDE DEF w
<1>4. PICK s \in Sources : s = w.source
  BY <1>2 DEF Write
<1>5. PICK new \in SourceStates : new = w.state /\ new.Initialized
  BY <1>1, <1>2 DEF Write, PendingIsAccounted
<1> DEFINE ids == Range(new.SeenIDs)
<1>6. disk' = [disk EXCEPT ![s] = new]
  BY <1>3, <1>4, <1>5
<1>7. disk'[s] = new /\ \A t \in Sources : t # s => disk'[t] = disk[t]
  BY <1>1, <1>6
<1>8. Extends(new, disk[s])
  BY <1>1, <1>2, <1>4, <1>5 DEF WritesExtend
<1>9. ids \in SUBSET IDs
  BY SeenFinite
<1>10. \A id \in ids : id \in DeliveredIDs(s) \/ Excused(baseline[s], id, DeliveredIDs(s))
  <2>1. Accounted(baseline'[s], Range(disk'[s].SeenIDs), DeliveredIDs(s)')
    BY <1>1 DEF SeenIsAccounted
  <2>2. DeliveredIDs(s)' = DeliveredIDs(s) /\ baseline' = baseline
    BY <1>3 DEF DeliveredIDs
  <2> QED
    BY <1>7, <2>1, <2>2 DEF Accounted
<1>11. \A id \in ids : Promise!MayRemember(s, id)
  BY <1>10 DEF Promise!MayRemember, Excused, DeliveredIDs,
               Promise!Cardinality, Promise!IsFiniteSet, Cardinality, IsFiniteSet
<1>12. Range(disk[s].SeenIDs) \subseteq ids \/ Promise!Cardinality(ids) = SeenLimit
  BY <1>8 DEF Extends, Promise!Cardinality, Promise!IsFiniteSet, Cardinality, IsFiniteSet
<1>13. /\ \A t \in Sources : Range(disk'[t].SeenIDs) = IF t = s THEN ids ELSE Range(disk[t].SeenIDs)
       /\ \A t \in Sources : disk'[t].Initialized = IF t = s THEN TRUE ELSE disk[t].Initialized
  BY <1>5, <1>7 DEF SourceStates
<1> HIDE DEF ids
<1>14. /\ Remembered' = [Remembered EXCEPT ![s] = ids]
       /\ Recorded' = [Recorded EXCEPT ![s] = TRUE]
  BY <1>13 DEF Remembered, Recorded
<1>15. Promise!Remember(s)
  BY <1>3, <1>9, <1>11, <1>12, <1>14 DEF Promise!Remember, Remembered, Recorded
<1> QED
  BY <1>15

(* Every step of Watch is a step of Subscription, or is not observed.      *)
LEMMA StepPromised ==
    ASSUME DocumentFits, IInv, IInv', DInv, [Next]_vars
    PROVE  Promise!Next \/ UNCHANGED Observed
<1>1. TypeOK /\ RecordsFresh /\ BucketsDescend /\ out \in Seq(Record)
  BY DEF IInv, DInv, TypeOK, Record
<1>2. \A s \in Sources :
         /\ Waiting(s) \cap Range(disk[s].SeenIDs) = {}
         /\ \A i, j \in DOMAIN out : out[i].source = s /\ out[j] = out[i] => j = i
  BY <1>1, AllSettled DEF RecordsFresh
<1>3. CASE WriteRecord
  <2>1. /\ out # <<>> /\ Deliver(<<Head(out)>>) /\ UNCHANGED <<disk, baseline>>
    BY <1>3 DEF IInv, BuffersMatchPC, WriteRecord, store
  <2>2. Head(out) = out[1] /\ out[1] \in Record /\ 1 \in DOMAIN out
        /\ <<Head(out)>> \in Seq(Record)
    BY <1>1, <2>1, HeadTailProperties, EmptySeq, ElementOfSeq
  <2>3. ASSUME NEW s \in Sources, NEW id \in IDs
        PROVE  /\ Copies(<<Head(out)>>, s, id) # {} => id \notin Range(disk[s].SeenIDs)
               /\ Cardinality(Copies(<<Head(out)>>, s, id)) =< 1
    <3> DEFINE records == <<Head(out)>>
    <3>1. DOMAIN records = {1} /\ records[1] = out[1] /\ records \in Seq(Record)
      BY <2>2
    <3> HIDE DEF records
    <3>2. Copies(records, s, id) # {} => id \in Waiting(s)
      BY <2>2, <3>1 DEF Copies, Waiting
    <3>3. Cardinality(Copies(records, s, id)) =< 1
      BY <3>1, CopiesCounted
    <3> QED
      BY <1>2, <3>2, <3>3 DEF records
  <2>4. Promise!Deliver
    BY <2>1, <2>2, <2>3, WritePromised
  <2> QED
    BY <2>4 DEF Promise!Next
<1>4. CASE WriteDocument
  <2>1. Deliver(out) /\ UNCHANGED <<disk, baseline>>
    BY <1>4 DEF WriteDocument, store
  <2>2. ASSUME NEW s \in Sources, NEW id \in IDs
        PROVE  /\ Copies(out, s, id) # {} => id \notin Range(disk[s].SeenIDs)
               /\ Cardinality(Copies(out, s, id)) =< 1
    <3>1. Copies(out, s, id) # {} => id \in Waiting(s)
      BY DEF Copies, Waiting
    <3>2. Cardinality(Copies(out, s, id)) =< 1
      BY <1>1, <1>2, CopiesCounted
    <3> QED
      BY <1>2, <3>1, <3>2
  <2>3. Promise!Deliver
    BY <1>1, <2>1, <2>2, WritePromised
  <2> QED
    BY <2>3 DEF Promise!Next
<1>5. CASE Put
  BY <1>5, PutPromised DEF Promise!Next
<1>6. ASSUME NEW s \in Sources, Fetch(s)
      PROVE  Promise!Next \/ UNCHANGED Observed
  <2>1. CASE FetchFails(s)
    BY <2>1 DEF FetchFails, store, Observed, Recorded, Remembered
  <2>2. CASE ~FetchFails(s)
    <3>1. PICK fetched : fetched \in Seq(IDs) /\ Descending(fetched) /\ Round(s, fetched)
      <4>1. CASE UsePrefetched(s)
        BY <1>1, <4>1 DEF UsePrefetched, TypeOK, BucketsDescend
      <4>2. CASE FetchOK(s)
        BY <1>1, <4>2, TimelineDescending DEF FetchOK
      <4>3. CASE FetchEmpty(s)
        <5>1. <<>> \in Seq(IDs) /\ Descending(<<>>)
          BY EmptySeq DEF Descending
        <5>2. Round(s, <<>>)
          BY <4>3 DEF FetchEmpty
        <5> QED
          BY <5>1, <5>2
      <4> QED
        BY <1>6, <2>2, <4>1, <4>2, <4>3 DEF Fetch
    <3>2. Promise!LookBack(s) \/ UNCHANGED Observed
      BY <3>1, RoundPromised
    <3> QED
      BY <3>2 DEF Promise!Next
  <2> QED
    BY <2>1, <2>2
<1>7. CASE \/ Environment \/ Open \/ PrefetchMerged \/ GracefulExit \/ Tick \/ UNCHANGED vars
  <2>1. UNCHANGED <<disk, delivered, baseline>>
    BY <1>7 DEF Environment, Post, Delete, Crash, Cancel, WriteFails, Open, PrefetchMerged,
                GracefulExit, Tick, vars, store, history
  <2> QED
    BY <2>1 DEF Observed, Recorded, Remembered
<1> QED
  BY <1>3, <1>4, <1>5, <1>6, <1>7 DEF Next, Process

(* Whatever is fetched, filtered, capped, merged, interrupted or written   *)
(* in one document, the consumer and seen.json see the subscription that   *)
(* Subscription describes: no delivery of a remembered tweet, none twice   *)
(* in one write, and no tweet remembered that was not delivered or excused *)
(* (watch.go run and runCycle).                                            *)
THEOREM ImplementsSubscription ==
    ASSUME DocumentFits
    PROVE  Spec => KeepsPromise
<1>1. Init => Promise!Init
  BY InitPromised
<1>2. IInv /\ IInv' /\ DInv /\ [Next]_vars => [Promise!Next]_(Promise!vars)
  <2>1. UNCHANGED Observed => UNCHANGED Promise!vars
    BY DEF Observed, Promise!vars, Recorded, Remembered
  <2> QED
    BY <2>1, StepPromised
<1> QED
  BY <1>1, <1>2, Invariance, DeliveryInvariance, PTL DEF Spec, KeepsPromise, Promise!Spec
=============================================================================
