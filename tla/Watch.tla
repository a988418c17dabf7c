------------------------------- MODULE Watch --------------------------------
(***************************************************************************)
(* `nitter watch` (internal/cli/commands/watch/watch.go) as one process    *)
(* over one seen.json and one upstream.                                    *)
(*                                                                         *)
(* The process goes through its sources in argv order.  For each it        *)
(* fetches the feed, filters, lets the engine select, writes the selected  *)
(* tweets one record at a time, and only then persists the source's new    *)
(* state.  With --once --json (AsJSON) the records and the state writes of *)
(* all sources are collected, the document is written at the end of the    *)
(* cycle, and the state writes follow it.  A fetch may fail, a write may   *)
(* fail, the process may be signalled or die between any two steps, and is *)
(* then started again.                                                     *)
(*                                                                         *)
(* Upstream ids are 1..MaxPosts in posting order over all sources, so that *)
(* the merged feed of several users interleaves their tweets.              *)
(***************************************************************************)
EXTENDS FeedScan

CONSTANTS
    Sources,        \* the subscribed sources
    Argv,           \* the sources in command-line order; one may repeat
    Kind,           \* Kind[s] \in {"user", "tag", "list"}
    Lanes,          \* Lanes[s]: the readers that may serve s
    PageSize,       \* PageSize[l]: ids per page of reader l
    Hidden,         \* ids the field filters drop
    NoReposts,      \* --no-reposts on a backend that may merge
    Once, AsJSON,   \* --once, --once --json
    OldPosts,       \* bound: posts that exist before the first run
    MaxPosts,       \* bound: posts in all
    MaxGone,        \* bound: posts deleted upstream
    MaxStops        \* bound: crashes, signals and failed writes

LaneNames == {"fx", "rss", "html"}

ASSUME WatchAssumption ==
    /\ Argv \in Seq(Sources) /\ Argv # <<>>
    /\ Kind \in [Sources -> {"user", "tag", "list"}]
    /\ Lanes \in [Sources -> SUBSET LaneNames]
    /\ PageSize \in [LaneNames -> Nat \ {0}]
    /\ EmptyID \notin Nat
    /\ {Once, AsJSON, NoReposts} \subseteq BOOLEAN
    /\ AsJSON => Once
    /\ {OldPosts, MaxPosts, MaxGone, MaxStops} \subseteq Nat
    /\ OldPosts =< MaxPosts

VARIABLES
    posts,          \* posts[id]: the source that posted id
    gone,           \* ids deleted upstream
    disk,           \* seen.json: the state persisted per source
    mem,            \* the store's copy in the running process
    pc,             \* what the process does next
    idx,            \* position in Argv
    cancelled,      \* the process has been signalled
    prefetched,     \* buckets of the cycle's merged fetch
    out,            \* records selected and not yet written
    pending,        \* state writes waiting for their records
    delivered,      \* delivered[s][id]: times a record was written
    baseline,       \* newest post the source's first run recorded
    seeded,         \* the ids it recorded
    stops,          \* crashes, signals and failed writes so far
    served          \* the last source was served its feed

upstream == <<posts, gone>>
store    == <<disk, mem>>
run      == <<idx, cancelled, prefetched>>
buffers  == <<out, pending>>
history  == <<delivered, baseline, seeded, stops, served>>
vars     == <<upstream, store, pc, run, buffers, history>>

IDs == 1..MaxPosts

SourceStates ==
    [Initialized : BOOLEAN, SeenIDs : Seq(IDs), WatermarkIDs : Seq(IDs)]

(* The process's program counter.  "prefetch", "source", "write", "put",   *)
(* "document" and "idle" are the points of the cycle between which another *)
(* actor can be observed; "down" is no process at all.                     *)
PCs == {"down", "prefetch", "source", "write", "put", "document", "idle"}

TypeOK ==
    /\ posts \in Seq(Sources) /\ Len(posts) =< MaxPosts
    /\ gone \subseteq IDs
    /\ disk \in [Sources -> SourceStates]
    /\ mem \in [Sources -> SourceStates]
    /\ pc \in PCs
    /\ idx \in DOMAIN Argv
    /\ cancelled \in BOOLEAN
    /\ prefetched \in [Sources -> Seq(IDs)]
    /\ out \in Seq([source : Sources, id : IDs])
    /\ pending \in Seq([source : Sources, state : SourceStates])
    /\ delivered \in [Sources -> [IDs -> Nat]]
    /\ baseline \in [Sources -> 0..MaxPosts]
    /\ seeded \in [Sources -> SUBSET IDs]
    /\ stops \in 0..MaxStops
    /\ served \in BOOLEAN

-----------------------------------------------------------------------------
(* The upstream. *)

(* What the upstream holds of a set of sources, newest first. *)
Feed(S) ==
    LET all == Countdown(Len(posts))
    IN  Keep(all, {k \in DOMAIN all : posts[all[k]] \in S /\ all[k] \notin gone})

(* Only the RSS reader of a user timeline is given the stop predicate. *)
Timeline(s, lane, prev) ==
    LET feed == Feed({s})
        size == PageSize[lane]
    IN  Scan(feed, size,
             {p \in Pages : /\ lane = "rss" /\ Kind[s] = "user"
                            /\ RSSStop(prev, PageIDs(feed, size, p))})

(* The field filters of internal/cli/tweetfilter. *)
Filtered(tweets) == Keep(tweets, {i \in DOMAIN tweets : tweets[i] \notin Hidden})

Post(s) ==
    /\ Len(posts) < MaxPosts
    /\ posts' = Append(posts, s)
    /\ UNCHANGED <<gone, store, pc, run, buffers, history>>

Delete(id) ==
    /\ Cardinality(gone) < MaxGone
    /\ gone' = gone \cup {id}
    /\ UNCHANGED <<posts, store, pc, run, buffers, history>>

-----------------------------------------------------------------------------
(* Starting, ending and interrupting the process. *)

NoBuckets == [s \in Sources |-> <<>>]

(* The process ends; whatever it held in memory is dropped with it. *)
Finish == pc' = "down" /\ idx' = 1 /\ cancelled' = FALSE /\ prefetched' = NoBuckets

Exit == Finish /\ out' = <<>> /\ pending' = <<>>

(* The next scheduled run: seen.Open loads the file. *)
Open ==
    /\ pc = "down"
    /\ mem' = disk
    /\ pc' = "prefetch"
    /\ UNCHANGED <<upstream, disk, run, buffers, history>>

(* An interruption, of which there are at most MaxStops. *)
Stop ==
    /\ stops < MaxStops
    /\ stops' = stops + 1

Crash ==
    /\ pc # "down"
    /\ Stop
    /\ Exit
    /\ UNCHANGED <<upstream, store, delivered, baseline, seeded, served>>

(* SIGINT and SIGTERM only set the context; the process sees it later. *)
Cancel ==
    /\ pc # "down" /\ ~cancelled
    /\ Stop
    /\ cancelled' = TRUE
    /\ UNCHANGED <<upstream, store, pc, idx, prefetched, buffers, delivered, baseline, seeded, served>>

(* Where the context is looked at: before a source and after the cycle (a  *)
(* collected document is dropped with its state writes), and while idle.   *)
GracefulExit ==
    /\ cancelled
    /\ pc \in {"source", "document", "idle"}
    /\ Exit
    /\ UNCHANGED <<upstream, store, history>>

-----------------------------------------------------------------------------
(* The cycle. *)

(* The merged RSS request covers the user sources when reposts are         *)
(* filtered and there are at least two; it may fail, and an empty bucket   *)
(* leaves its source to a fetch of its own.                                *)
Batch == {s \in Range(Argv) : Kind[s] = "user"}

Mergeable ==
    NoReposts /\ Cardinality({i \in DOMAIN Argv : Argv[i] \in Batch}) >= 2

(* Faulty variant: every member is handed the whole merged feed. *)
UnsortedBuckets ==
    LET feed == Scan(Feed(Batch), PageSize["rss"], {})
    IN  [s \in Sources |-> feed]

MergedBuckets ==
    LET all  == Feed(Batch)
        size == PageSize["rss"]
        feed == Scan(all, size,
                     {p \in Pages : MergedStop(mem, Batch, posts, PageIDs(all, size, p))})
    IN  [s \in Sources |-> Keep(feed, {i \in DOMAIN feed : posts[feed[i]] = s})]

PrefetchMerged ==
    /\ pc = "prefetch"
    /\ pc' = "source"
    /\ \/ prefetched' = NoBuckets
       \/ Mergeable /\ ~cancelled /\ prefetched' = MergedBuckets
    /\ UNCHANGED <<upstream, store, idx, cancelled, buffers, history>>

(* Faulty variant: the buffered state writes are not looked at. *)
PrevStateStored(s) == mem[s]

(* What the cycle holds as a source's previous state: a buffered state     *)
(* write of an earlier occurrence of the source comes before the store's.  *)
PrevState(s) ==
    LET buffered == {i \in DOMAIN pending : pending[i].source = s}
    IN  IF buffered = {} THEN mem[s]
        ELSE LET last == CHOOSE i \in buffered : \A j \in buffered : j =< i
             IN  pending[last].state

(* Faulty variant: the last source has a successor. *)
NextSourceOneMore ==
    IF idx =< Len(Argv)
    THEN pc' = "source" /\ idx' = idx + 1 /\ UNCHANGED <<cancelled, prefetched>>
    ELSE pc' = "idle" /\ UNCHANGED run

(* After a source: the next one, or the end of the cycle, where a run with *)
(* --once is over unless it still has its document to write.               *)
NextSource ==
    IF idx < Len(Argv)
    THEN /\ pc' = "source" /\ idx' = idx + 1
         /\ UNCHANGED <<cancelled, prefetched>>
    ELSE IF AsJSON
    THEN pc' = "document" /\ UNCHANGED run
    ELSE IF Once
    THEN Finish
    ELSE pc' = "idle" /\ UNCHANGED run

Records(s, tweets) == [k \in DOMAIN tweets |-> [source |-> s, id |-> tweets[k]]]

(* A first run that recorded something knows every post up to its newest   *)
(* and has read those the filters let through; one that found nothing has  *)
(* no history.                                                             *)
NoteBaseline(s, prev, tweets) ==
    IF ~prev.Initialized /\ ~IncludeExisting
    THEN /\ baseline' = [baseline EXCEPT ![s] = IF tweets = <<>> THEN 0 ELSE tweets[1]]
         /\ seeded' = [seeded EXCEPT ![s] = Range(tweets)]
    ELSE UNCHANGED <<baseline, seeded>>

(* Faulty variants of a source's turn: the state is persisted before the   *)
(* records are written, and a document starts anew with every source.      *)
RoundPersistsFirst(s, fetched) ==
    LET tweets  == Filtered(fetched)
        prev    == PrevState(s)
        res     == Select(tweets, UpTo(tweets, WatermarkLimit), prev, Kind[s])
    IN  /\ out' = out \o Records(s, res.Tweets)
        /\ pending' = <<[source |-> s, state |-> res.State]>>
        /\ pc' = "put"
        /\ NoteBaseline(s, prev, tweets)
        /\ UNCHANGED <<upstream, store, run, delivered, stops>>

RoundRestartsDocument(s, fetched) ==
    LET tweets  == Filtered(fetched)
        prev    == PrevState(s)
        res     == Select(tweets, UpTo(tweets, WatermarkLimit), prev, Kind[s])
    IN  /\ out' = Records(s, res.Tweets)
        /\ pending' = Append(pending, [source |-> s, state |-> res.State])
        /\ NoteBaseline(s, prev, tweets)
        /\ NextSource
        /\ UNCHANGED <<upstream, store, delivered, stops>>

(* One source with a successful fetch: filter, select, buffer the records  *)
(* and, if the state changed, its write.  Streaming modes go on to write   *)
(* them; a collected document waits for the end of the cycle.              *)
Round(s, fetched) ==
    LET tweets  == Filtered(fetched)
        prev    == PrevState(s)
        res     == Select(tweets, UpTo(tweets, WatermarkLimit), prev, Kind[s])
        writes  == IF res.State = prev THEN <<>>
                   ELSE <<[source |-> s, state |-> res.State]>>
    IN  /\ out' = out \o Records(s, res.Tweets)
        /\ pending' = pending \o writes
        /\ NoteBaseline(s, prev, tweets)
        /\ IF AsJSON \/ (res.Tweets = <<>> /\ writes = <<>>)
           THEN NextSource
           ELSE pc' = (IF res.Tweets # <<>> THEN "write" ELSE "put") /\ UNCHANGED run
        /\ UNCHANGED <<upstream, store, delivered, stops>>

AtSource(s) == pc = "source" /\ ~cancelled /\ Argv[idx] = s

UsePrefetched(s) ==
    /\ AtSource(s)
    /\ prefetched[s] # <<>>
    /\ Round(s, prefetched[s])
    /\ served' = TRUE

FetchOK(s) ==
    /\ AtSource(s)
    /\ prefetched[s] = <<>>
    /\ \E lane \in Lanes[s] : Round(s, Timeline(s, lane, PrevState(s)))
    /\ served' = TRUE

(* A reader may answer successfully with nothing. *)
FetchEmpty(s) ==
    /\ AtSource(s)
    /\ prefetched[s] = <<>>
    /\ Round(s, <<>>)
    /\ served' = FALSE

(* A failed fetch is reported and the source's state left alone. *)
FetchFails(s) ==
    /\ AtSource(s)
    /\ prefetched[s] = <<>>
    /\ NextSource
    /\ served' = FALSE
    /\ UNCHANGED <<upstream, store, buffers, delivered, baseline, seeded, stops>>

Deliver(records) ==
    delivered' = [s \in Sources |-> [id \in IDs |->
        delivered[s][id] + Cardinality({i \in DOMAIN records :
                                records[i] = [source |-> s, id |-> id]})]]

(* emitTweets writes one record after the other. *)
WriteRecord ==
    /\ pc = "write"
    /\ Deliver(<<Head(out)>>)
    /\ out' = Tail(out)
    /\ IF Len(out) > 1 THEN UNCHANGED <<pc, run>>
       ELSE IF pending # <<>> THEN pc' = "put" /\ UNCHANGED run
       ELSE NextSource
    /\ UNCHANGED <<upstream, store, pending, baseline, seeded, stops, served>>

(* store.Put: the file is replaced whole and the copy in memory follows.   *)
(* The buffered writes of a document are applied one by one.               *)
Put ==
    /\ pc = "put"
    /\ LET write == Head(pending)
       IN  /\ mem' = [mem EXCEPT ![write.source] = write.state]
           /\ disk' = mem'
    /\ pending' = Tail(pending)
    /\ IF ~AsJSON THEN NextSource
       ELSE IF Len(pending) > 1 THEN UNCHANGED <<pc, run>>
       ELSE Finish
    /\ UNCHANGED <<upstream, out, history>>

(* --once --json: the whole document in one write. *)
WriteDocument ==
    /\ pc = "document" /\ ~cancelled
    /\ Deliver(out)
    /\ out' = <<>>
    /\ IF pending # <<>> THEN pc' = "put" /\ UNCHANGED run
       ELSE Finish
    /\ UNCHANGED <<upstream, store, pending, baseline, seeded, stops, served>>

(* A record, a document or a state write that fails ends the run.  A       *)
(* failed Put leaves the file and the copy in memory as they were.         *)
WriteFails ==
    /\ pc \in {"write", "document", "put"}
    /\ Stop
    /\ Exit
    /\ UNCHANGED <<upstream, store, delivered, baseline, seeded, served>>

(* The select of the resident loop may pick the ticker although the        *)
(* context is done: the next cycle then ends before its first source.      *)
Tick ==
    /\ pc = "idle"
    /\ pc' = "prefetch" /\ idx' = 1 /\ prefetched' = NoBuckets
    /\ UNCHANGED <<upstream, store, cancelled, buffers, history>>

-----------------------------------------------------------------------------
Init ==
    /\ posts \in UNION {[1..n -> Sources] : n \in 0..OldPosts}
    /\ gone = {}
    /\ disk = [s \in Sources |-> ZeroState]
    /\ mem = disk
    /\ pc = "down"
    /\ idx = 1 /\ cancelled = FALSE /\ prefetched = NoBuckets
    /\ out = <<>> /\ pending = <<>>
    /\ delivered = [s \in Sources |-> [id \in IDs |-> 0]]
    /\ baseline = [s \in Sources |-> 0]
    /\ seeded = [s \in Sources |-> {}]
    /\ stops = 0 /\ served = FALSE

Fetch(s) == UsePrefetched(s) \/ FetchOK(s) \/ FetchEmpty(s) \/ FetchFails(s)

Environment ==
    \/ \E s \in Sources : Post(s)
    \/ \E id \in DOMAIN posts \ gone : Delete(id)
    \/ Crash \/ Cancel \/ WriteFails

Process ==
    \/ Open \/ PrefetchMerged \/ GracefulExit
    \/ \E s \in Sources : Fetch(s)
    \/ WriteRecord \/ Put \/ WriteDocument
    \/ Tick

Next == Environment \/ Process

Spec == Init /\ [][Next]_vars

(* The scheduler keeps starting the process and the process keeps taking   *)
(* steps; the upstream may fail any number of fetches but not all of them. *)
(* Fairness is stated on what the steps of Process change: outside "write" *)
(* and "put" they move pc or idx, and there they consume a buffer.         *)
Moves == pc' \in PCs /\ idx' \in DOMAIN Argv

Fairness ==
    /\ WF_<<pc, idx>>(pc \notin {"write", "put"} /\ Moves)
    /\ WF_out(pc = "write" /\ out' = Tail(out))
    /\ WF_pending(pc = "put" /\ pending' = Tail(pending))
    /\ \A s \in Sources : SF_<<pc, idx>>(AtSource(s) /\ served' = TRUE /\ Moves)

FairSpec == Spec /\ Fairness

-----------------------------------------------------------------------------
(* Properties. *)

DeliveredIDs(s) == {id \in IDs : delivered[s][id] > 0}

(* An id a source may remember without ever having been delivered: it was  *)
(* there at the first run, or it lost its place to MaxNew newer tweets in  *)
(* a round that does not keep its overflow (MaxNew = 0 seals in any case). *)
Excused(base, id, got) ==
    \/ id =< base
    \/ /\ KeepOverflow => MaxNew = 0
       /\ Cardinality({newer \in got : newer > id}) >= MaxNew

Accounted(base, ids, got) == \A id \in ids : id \in got \/ Excused(base, id, got)

(* Produce first, persist after (watch.go runCycle): whatever point a run  *)
(* is interrupted at, seen.json never holds a tweet the consumer was not   *)
(* given, except history and overflow.  Nothing is lost silently.          *)
SeenIsAccounted ==
    \A s \in Sources :
        Accounted(baseline[s], Range(disk[s].SeenIDs), DeliveredIDs(s))

(* The state writes a process still holds are accounted for by the records *)
(* it writes before them (watch.go pendingPut): persisting them after the  *)
(* last record is out loses nothing, in whatever order they are applied.   *)
Waiting(s) ==
    {id \in IDs : \E i \in DOMAIN out : out[i] = [source |-> s, id |-> id]}

PendingIsAccounted ==
    \A i \in DOMAIN pending :
        /\ pending[i].state.Initialized
        /\ \A s \in Sources :
              pending[i].source = s =>
                  Accounted(baseline[s], Range(pending[i].state.SeenIDs),
                            DeliveredIDs(s) \cup Waiting(s))

(* The state remembers as many ids as it can (seen.go MergeSeen).          *)
Full(state) == Cardinality(Range(state.SeenIDs)) = SeenLimit

(* What the first run of a source has read and recorded is never delivered *)
(* (engine.go Select), although later fetches read other windows: another  *)
(* reader with larger pages, another budget in a merged feed, a deletion   *)
(* that lets older posts move up.  Only a remembered list that is full     *)
(* (seen.go MergeSeen) may have let go of it.                              *)
HistoryStaysSilent ==
    [][\A s \in Sources : \A id \in seeded[s] :
          delivered'[s][id] > delivered[s][id] => Full(PrevState(s))]_vars

(* Every delivery beyond the first is paid for by an interruption: cycles  *)
(* that run to their end never emit a tweet twice (watch.go, rssStop and   *)
(* MergeSeen).                                                             *)
RedeliveryNeedsStop ==
    \A s \in Sources : \A id \in IDs : delivered[s][id] =< 1 + stops

(* Each source delivers and remembers its own tweets only, although a      *)
(* merged fetch brings in those of several (merged.go MergedTimeline).     *)
OnlyOwnTweets ==
    \A s \in Sources :
        \A id \in DeliveredIDs(s) \cup Range(disk[s].SeenIDs) : posts[id] = s

(* A source's backlog drains under the keep policy (engine.go              *)
(* KeepOverflow): a tweet posted after the first run that stays upstream   *)
(* and passes the filters is delivered in the end.                         *)
Posted(s, id) ==
    id \in DOMAIN posts /\ posts[id] = s /\ id > baseline[s] /\ disk[s].Initialized

Deliverable(s, id) == Posted(s, id) /\ id \notin Hidden

BacklogDrains ==
    \A s \in Sources : \A id \in IDs :
        Deliverable(s, id) ~> (delivered[s][id] > 0 \/ id \in gone)

(* So many newer tweets of the source have come that some reader of it had *)
(* no page left for this one.                                              *)
OutOfReach(s, id) ==
    LET newer == {later \in DOMAIN posts : posts[later] = s /\ later > id}
    IN  \E lane \in Lanes[s] : Cardinality(newer) >= MaxPages * PageSize[lane]

(* Under the drop policy the same tweet is settled: it is remembered in    *)
(* the end, delivered or sealed behind MaxNew newer ones, so that the scan *)
(* boundary may pass it (engine.go Select, watch.go rssStop).  Only a      *)
(* burst may put it out of reach.                                          *)
BacklogSettles ==
    \A s \in Sources : \A id \in IDs :
        Deliverable(s, id) ~>
            (id \in Range(disk[s].SeenIDs) \/ id \in gone \/ OutOfReach(s, id))

-----------------------------------------------------------------------------
(* The inductive invariant behind TypeOK and SeenIsAccounted. *)

Descending(ids) == \A i, j \in DOMAIN ids : i < j => ids[i] > ids[j]

(* What the buffers hold at each point of the cycle. *)
BuffersMatchPC ==
    /\ pc \in {"down", "prefetch", "idle"} => out = <<>> /\ pending = <<>>
    /\ pc = "source" /\ ~AsJSON => out = <<>> /\ pending = <<>>
    /\ pc = "write" => out # <<>> /\ ~AsJSON
    /\ pc = "put" => out = <<>> /\ pending # <<>>
    /\ pc = "document" => AsJSON
    /\ ~AsJSON => Len(pending) =< 1

(* The process and the file agree, and an unrecorded source is empty. *)
StoreAgrees ==
    /\ mem = disk
    /\ \A s \in Sources : ~disk[s].Initialized => disk[s].SeenIDs = <<>>

BucketsDescend == \A s \in Sources : Descending(prefetched[s])

IInv ==
    /\ TypeOK
    /\ BuffersMatchPC
    /\ StoreAgrees
    /\ BucketsDescend
    /\ PendingIsAccounted
    /\ SeenIsAccounted

-----------------------------------------------------------------------------
(* What the deliveries keep, for the proofs of OnlyOwnTweets,              *)
(* RedeliveryNeedsStop and KeepsPromise.                                   *)
Own(s) == {id \in DOMAIN posts : posts[id] = s}

(* The source has not posted more than is remembered of it. *)
Fits(s) == Cardinality(Own(s)) =< SeenLimit

NoRepeats == \A i, j \in DOMAIN Argv : Argv[i] = Argv[j] => i = j

(* Where the previous state of a turn tells all that waits to be written:  *)
(* a document that comes back to a source needs a list that holds it all.  *)
Settled(s) == ~AsJSON \/ NoRepeats \/ Fits(s)

DocumentFits == ~AsJSON \/ NoRepeats \/ MaxPosts =< SeenLimit

HeldAreOwn ==
    \A s \in Sources :
        /\ DeliveredIDs(s) \cup Waiting(s) \subseteq Own(s)
        /\ Range(disk[s].SeenIDs) \cup Range(prefetched[s]) \subseteq Own(s)
        /\ \A i \in DOMAIN pending :
              pending[i].source = s => Range(pending[i].state.SeenIDs) \subseteq Own(s)

(* A state forgets an id only when it is full. *)
Extends(new, old) ==
    \/ Range(old.SeenIDs) \subseteq Range(new.SeenIDs)
    \/ Cardinality(Range(new.SeenIDs)) = SeenLimit

WritesExtend ==
    \A s \in Sources : \A i \in DOMAIN pending : pending[i].source = s =>
        /\ Extends(pending[i].state, disk[s])
        /\ \A j \in DOMAIN pending :
              i < j /\ pending[j].source = s => Extends(pending[j].state, pending[i].state)

(* Nothing waits for a source whose only turn is to come. *)
TurnsInOrder ==
    AsJSON /\ NoRepeats /\ pc = "source" =>
        \A k \in DOMAIN Argv : idx =< k =>
            /\ \A i \in DOMAIN out : out[i].source # Argv[k]
            /\ \A i \in DOMAIN pending : pending[i].source # Argv[k]

RecordsFresh ==
    \A s \in Sources : Settled(s) =>
        /\ Waiting(s) \cap Range(disk[s].SeenIDs) = {}
        /\ \A i, j \in DOMAIN out : out[i].source = s /\ out[j] = out[i] => j = i

(* A delivery that is not yet remembered has been paid for, or its state   *)
(* write is on the way.                                                    *)
PaidFor(s) ==
    /\ Waiting(s) \subseteq Range(PrevState(s).SeenIDs)
    /\ \A id \in IDs :
          /\ delivered[s][id] + (IF id \in Waiting(s) THEN 1 ELSE 0)
                =< stops + (IF id \in Range(PrevState(s).SeenIDs) THEN 1 ELSE 0)
          /\ pc \notin {"write", "put"} /\ id \notin Range(disk[s].SeenIDs) =>
                delivered[s][id] =< stops

DInv ==
    /\ HeldAreOwn
    /\ WritesExtend
    /\ TurnsInOrder
    /\ RecordsFresh
    /\ \A s \in Sources : Fits(s) => PaidFor(s)

-----------------------------------------------------------------------------
(* Where the recorded history is, for the proof of HistoryStaysSilent: in  *)
(* every state the source has or will have, unless that state is full.     *)
Holds(state, ids) == ids \subseteq Range(state.SeenIDs) \/ Full(state)

HistoryHeld ==
    \A s \in Sources :
        /\ IncludeExisting => seeded[s] = {}
        /\ disk[s].Initialized => Holds(disk[s], seeded[s])
        /\ \A i \in DOMAIN pending :
              pending[i].source = s => Holds(pending[i].state, seeded[s])
        /\ Waiting(s) \cap seeded[s] # {} => Full(PrevState(s))
        /\ ~PrevState(s).Initialized => Waiting(s) = {}

-----------------------------------------------------------------------------
(* Refinement: what the consumer and seen.json can observe is a behaviour  *)
(* of the abstract subscription.                                           *)
Promise == INSTANCE Subscription WITH
    recorded   <- [s \in Sources |-> disk[s].Initialized],
    remembered <- [s \in Sources |-> Range(disk[s].SeenIDs)]

(* Delivery is at least once, never of a remembered tweet, never twice in  *)
(* one document, and state follows delivery (watch.go run and runCycle).   *)
KeepsPromise == Promise!Spec
=============================================================================
