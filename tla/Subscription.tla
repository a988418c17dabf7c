---------------------------- MODULE Subscription ----------------------------
(***************************************************************************)
(* What `nitter watch` promises the consumer of its output, without        *)
(* fetching, paging, queues or files: tweets are delivered at least once,  *)
(* a tweet is remembered only after it has been delivered or excused, and  *)
(* a remembered tweet is not delivered.  Watch implements it.              *)
(***************************************************************************)
EXTENDS Integers, FiniteSets

CONSTANTS
    Sources,        \* the subscribed sources
    IDs,            \* tweet ids, larger is newer
    SeenLimit,      \* ids remembered per source
    MaxNew,         \* deliveries of a source per round
    KeepOverflow    \* overflow is delivered later instead of dropped

VARIABLES
    recorded,       \* recorded[s]: the first run of s has been persisted
    remembered,     \* remembered[s]: the ids s has persisted
    delivered,      \* delivered[s][id]: deliveries so far
    baseline        \* baseline[s]: newest id the first run of s recorded

vars == <<recorded, remembered, delivered, baseline>>

Init ==
    /\ recorded = [s \in Sources |-> FALSE]
    /\ remembered = [s \in Sources |-> {}]
    /\ delivered = [s \in Sources |-> [id \in IDs |-> 0]]
    /\ baseline = [s \in Sources |-> 0]

(* An unrecorded source looks at its history. *)
LookBack(s) ==
    /\ ~recorded[s]
    /\ \E newest \in IDs \cup {0} : baseline' = [baseline EXCEPT ![s] = newest]
    /\ UNCHANGED <<recorded, remembered, delivered>>

(* Some tweets, none of them remembered, are delivered together. *)
Deliver ==
    /\ \E tweets \in [Sources -> SUBSET IDs] :
          /\ \A s \in Sources : tweets[s] \cap remembered[s] = {}
          /\ delivered' = [s \in Sources |-> [id \in IDs |->
                 delivered[s][id] + (IF id \in tweets[s] THEN 1 ELSE 0)]]
    /\ UNCHANGED <<recorded, remembered, baseline>>

(* A tweet that may be remembered: delivered, history, or overflow that    *)
(* MaxNew newer tweets were delivered in place of.                         *)
MayRemember(s, id) ==
    LET got == {other \in IDs : delivered[s][other] > 0}
    IN  \/ id \in got
        \/ id =< baseline[s]
        \/ /\ KeepOverflow => MaxNew = 0
           /\ Cardinality({other \in got : other > id}) >= MaxNew

(* A source persists a round; it forgets only what no longer fits. *)
Remember(s) ==
    /\ \E ids \in SUBSET IDs :
          /\ \A id \in ids \ remembered[s] : MayRemember(s, id)
          /\ remembered[s] \subseteq ids \/ Cardinality(ids) = SeenLimit
          /\ remembered' = [remembered EXCEPT ![s] = ids]
    /\ recorded' = [recorded EXCEPT ![s] = TRUE]
    /\ UNCHANGED <<delivered, baseline>>

Next ==
    \/ Deliver
    \/ \E s \in Sources : LookBack(s) \/ Remember(s)

Spec == Init /\ [][Next]_vars
=============================================================================
