------------------------------ MODULE MCWatch -------------------------------
(* Small subscriptions for TLC. *)
EXTENDS Watch

CONSTANTS a, b

MCSources == {a, b}
MCArgv == <<a, b>>
MCArgvABA == <<a, b, a>>
MCAllUsers == [s \in Sources |-> "user"]
MCUserAndTag == [s \in Sources |-> IF s = a THEN "user" ELSE "tag"]
MCNitterUsers == [s \in Sources |-> {"rss", "html"}]
MCMixLanes == [s \in Sources |-> LaneNames]
MCPageOne == [l \in LaneNames |-> 1]
MCPageFour == [l \in LaneNames |-> IF l = "rss" THEN 4 ELSE 2]
MCPagesDiffer == [l \in LaneNames |-> IF l = "fx" THEN 2 ELSE 1]

-----------------------------------------------------------------------------
(* The list operations of seen.go, which SeenList defines by position,     *)
(* against the loops of the source: ids are taken from the front and       *)
(* appended unless they are refused or already there, until the list is    *)
(* full.                                                                   *)
RECURSIVE Collect(_, _, _, _)
Collect(ids, got, limit, refused) ==
    IF ids = <<>> \/ Len(got) >= limit THEN got
    ELSE LET id == Head(ids)
         IN  Collect(Tail(ids),
                     IF id \in refused \cup Range(got) THEN got ELSE Append(got, id),
                     limit, refused)

(* All lists of at most three ids, the empty and the non-numeric one among *)
(* them, in any order and number.                                          *)
ShortLists == UNION {[1..n -> {1, 2, 3, 4, EmptyID} \cup NonNumericIDs] : n \in 0..3}

(* MergeSeen and CapWatermark compute what the loops of seen.go compute,   *)
(* for all that the store holds of a source when a cycle begins: the limit *)
(* is looked at after an append, and the second loop of MergeSeen goes on  *)
(* where the first one ended.                                              *)
MatchesLoops ==
    pc = "prefetch" =>
        \A s \in Sources : \A new \in ShortLists :
            /\ MergeSeen(new, mem[s].SeenIDs) =
                  Collect(mem[s].SeenIDs, Collect(new, <<>>, SeenLimit, {EmptyID}),
                          SeenLimit, {EmptyID})
            /\ CapWatermark(new) =
                  Collect(new, <<>>, WatermarkLimit, {EmptyID} \cup NonNumericIDs)
=============================================================================
