---------------------------- MODULE WatchEngine ----------------------------
(***************************************************************************)
(* internal/watch/engine.go: the pure selection of one polling round.      *)
(* Select looks at what a fetch returned and at what the source remembers, *)
(* and answers the tweets to emit and the state to persist after they have *)
(* been delivered.  A tweet is its id: no rule of the engine reads another *)
(* field.                                                                  *)
(***************************************************************************)
EXTENDS SeenList

CONSTANTS
    MaxNew,             \* --max-new: emitted tweets per source and round
    KeepOverflow,       \* --max-new-overflow keep
    IncludeExisting     \* --include-existing

ASSUME WatchEngineAssumption ==
    /\ MaxNew \in Nat
    /\ KeepOverflow \in BOOLEAN
    /\ IncludeExisting \in BOOLEAN

-----------------------------------------------------------------------------
(* What the store answers for a source it does not hold. *)
ZeroState == [Initialized |-> FALSE, SeenIDs |-> <<>>, WatermarkIDs |-> <<>>]

(* The ids of a fetch that are ids at all. *)
NonEmptyIDs(fetched) == Keep(fetched, {i \in DOMAIN fetched : fetched[i] # EmptyID})

(* The state of a round that commits to newIDs. *)
Advanced(newIDs, prev, watermark) ==
    [Initialized  |-> TRUE,
     SeenIDs      |-> MergeSeen(newIDs, prev.SeenIDs),
     WatermarkIDs |-> watermark]

Nothing(prev) == [Tweets |-> <<>>, State |-> prev]

(* Faulty variants of the selection rules below: the first run records no  *)
(* more than the cap, known ids are new again, a kept overflow is sealed,  *)
(* a dropped overflow is not.                                              *)
FirstRunCapped(fetched, watermark, prev, kind) ==
    [Tweets |-> <<>>,
     State  |-> Advanced(UpTo(NonEmptyIDs(fetched), MaxNew), prev, watermark)]

NewTweetsForgetful(fetched, prev) == NonEmptyIDs(fetched)

EmitNewSealsAll(fetched, watermark, prev) ==
    LET known     == Range(prev.SeenIDs)
        newTweets == Keep(fetched, {i \in DOMAIN fetched : fetched[i] \notin known})
    IN  [Tweets |-> UpTo(newTweets, MaxNew), State |-> Advanced(newTweets, prev, watermark)]

EmitNewSealsEmitted(fetched, watermark, prev) ==
    LET known   == Range(prev.SeenIDs)
        emitted == UpTo(Keep(fetched, {i \in DOMAIN fetched : fetched[i] \notin known}),
                        MaxNew)
    IN  [Tweets |-> emitted, State |-> Advanced(emitted, prev, watermark)]

(* The first run of a source records its fetch and emits it only on        *)
(* request; an empty first fetch initializes a user source and no other.   *)
FirstRun(fetched, watermark, prev, kind) ==
    LET seedIDs == NonEmptyIDs(fetched)
    IN  IF seedIDs = <<>> /\ kind # "user"
        THEN Nothing(prev)
        ELSE [Tweets |-> IF IncludeExisting /\ seedIDs # <<>> THEN fetched ELSE <<>>,
              State  |-> Advanced(seedIDs, prev, watermark)]

(* The ids of a fetch the source has not seen, in fetch order.  Copies     *)
(* inside one fetch are all kept.                                          *)
NewTweets(fetched, prev) ==
    Keep(fetched, {i \in DOMAIN fetched :
                      fetched[i] # EmptyID /\ fetched[i] \notin Range(prev.SeenIDs)})

(* A capped round: the newest MaxNew new tweets are emitted, and the ids   *)
(* beyond the cap are committed too unless overflow is kept.               *)
EmitNew(fetched, watermark, prev) ==
    LET newTweets == NewTweets(fetched, prev)
        emitted   == UpTo(newTweets, MaxNew)
        committed == IF KeepOverflow THEN emitted ELSE newTweets
    IN  [Tweets |-> emitted, State |-> Advanced(committed, prev, watermark)]

Select(fetched, firstPageIDs, prev, kind) ==
    LET watermark == CapWatermark(firstPageIDs)
    IN  IF ~prev.Initialized THEN FirstRun(fetched, watermark, prev, kind)
        ELSE IF fetched = <<>> THEN Nothing(prev)
        ELSE IF MaxNew = 0
             THEN [Tweets |-> <<>>, State |-> Advanced(watermark, prev, watermark)]
             ELSE EmitNew(fetched, watermark, prev)

=============================================================================
