------------------------------ MODULE FxClient ------------------------------
(***************************************************************************)
(* The FxTwitter client (internal/fxtwitter): one fetch is one request, or *)
(* a scan that follows the cursor of each page, or the two requests of     *)
(* FetchQuotes.  The upstream answers each request as it likes.            *)
(*                                                                         *)
(* A body is the places an endpoint may put its answer, in the order the   *)
(* decoder looks at them.                                                  *)
(***************************************************************************)
EXTENDS Positions

CONSTANTS
    Cursors,     \* the cursors an upstream hands out
    NoCursor,    \* the empty cursor
    Absent,      \* a key that is not there
    Pages,       \* bodies of the endpoints that list something
    Counts       \* bodies of a status, as far as its quotes are counted

(* A status as the upstream spells it: the spellings of each field, in the *)
(* order they are tried.                                                   *)
RawTweets == [ids     : Seq(Nat),
              texts   : Seq(BOOLEAN),
              media   : [all : Nat, photos : Nat, videos : Nat],
              reposts : SUBSET {"is_retweet", "retweet", "retweeted_status", "reposted_by"},
              replies : Seq(BOOLEAN)]
RawItems  == [tweet : RawTweets \cup {Absent}, flat : RawTweets]
Bodies    == [lists : Seq(Seq(RawItems)), cursors : Seq(Cursors \cup {NoCursor})]

ASSUME FxClientAssumption ==
    /\ NoCursor \notin Cursors
    /\ Absent \notin RawTweets
    /\ Pages \subseteq Bodies
    /\ Counts \subseteq Seq(Nat \cup {Absent})

Tweets == [id : Nat, text : BOOLEAN, media : Nat, repost : BOOLEAN, reply : BOOLEAN]

(* The first of several spellings that says something. *)
FirstOf(s, nothing) ==
    IF \E i \in DOMAIN s : s[i] # nothing
    THEN s[CHOOSE i \in DOMAIN s : /\ s[i] # nothing
                                   /\ \A j \in 1..(i - 1) : s[j] = nothing]
    ELSE nothing

Resolve(item) == IF item.tweet # Absent THEN item.tweet ELSE item.flat

ToSDK(raw) ==
    [id     |-> FirstOf(raw.ids, 0),
     text   |-> FirstOf(raw.texts, FALSE),
     media  |-> IF raw.media.all > 0 THEN raw.media.all ELSE raw.media.photos + raw.media.videos,
     repost |-> raw.reposts # {},
     reply  |-> FirstOf(raw.replies, FALSE)]

(* An account: its id and whether it has a handle.  A topic has a name     *)
(* instead of the id.                                                      *)
ToSDKProfile(raw) ==
    [id |-> FirstOf(raw.ids, 0), text |-> FirstOf(raw.texts, FALSE),
     media |-> 0, repost |-> FALSE, reply |-> FALSE]

Decode(raw) == [i \in DOMAIN raw |-> ToSDK(Resolve(raw[i]))]

Items(body) == Decode(FirstOf(body.lists, <<>>))

Users(body) ==
    LET raw == FirstOf(body.lists, <<>>)
    IN  [i \in DOMAIN raw |-> ToSDKProfile(raw[i].flat)]

(* A conversation keeps its replies apart, in the last place. *)
Replies(body) == Decode(IF body.lists = <<>> THEN <<>> ELSE body.lists[Len(body.lists)])

CursorValue(body) == FirstOf(body.cursors, NoCursor)

(* quotesProbe.count: a status may carry its count in three places. *)
QuoteCount(counts) == FirstOf(counts, Absent)

Blank(tweet) == tweet.id = 0 /\ ~tweet.text /\ tweet.media = 0

-----------------------------------------------------------------------------
(* Errors: the kind, and whether the chain holds a context's error.        *)
Error(kind, gaveUp) == [kind |-> kind, gaveUp |-> gaveUp]
Kinds   == {"none", "notfound", "unavailable", "malformed", "canceled", "chooser"}
Errors  == [kind : Kinds, gaveUp : BOOLEAN]
NoError == Error("none", FALSE)

(* What can become of a request instead of a body that decodes.  http404   *)
(* and http500 are statuses, code404 and code500 the codes inside a body.  *)
Faults == {"unreachable", "timeout", "http404", "http500",
           "torn", "stalled", "code404", "code500", "garbled"}

FailureUnclassified(fault, cancelled) == Error(fault, FALSE)    \* Faulty variant.

(* doGet, and the decoding each fetch does next. *)
Failure(fault, cancelled) ==
    CASE fault \in {"unreachable", "timeout"} /\ cancelled -> Error("canceled", TRUE)
      [] fault = "unreachable" /\ ~cancelled    -> Error("unavailable", FALSE)
      [] fault = "timeout" /\ ~cancelled        -> Error("unavailable", TRUE)
      [] fault \in {"http404", "code404"}       -> Error("notfound", FALSE)
      [] fault \in {"http500", "code500"}       -> Error("unavailable", FALSE)
      [] fault \in {"torn", "garbled"}          -> Error("malformed", FALSE)
      [] fault = "stalled"                      -> Error("malformed", TRUE)

-----------------------------------------------------------------------------
VARIABLES
    fx,         \* the fetch in progress
    asked,      \* the cursors of its page requests, in order
    faults      \* the faults it met that nothing has explained

fxVars == <<fx, asked, faults>>

Ops == {"timeline", "usermedia", "search", "quotes", "users", "followers", "following",
        "typeahead", "thread", "conversation", "trends", "status", "profile"}

FxTypeOK ==
    /\ fx \in [op : Ops, count : Nat, budget : Int,
               state : {"off", "page", "probe", "done"},
               cursor : Cursors \cup {NoCursor}, visited : SUBSET (Cursors \cup {NoCursor}),
               fetched : Nat, items : Seq(Tweets), error : Errors]
    /\ asked \in Seq(Cursors \cup {NoCursor})
    /\ faults \subseteq Faults

FxIdle ==
    [op |-> "status", count |-> 1, budget |-> 1, state |-> "off", cursor |-> NoCursor,
     visited |-> {}, fetched |-> 0, items |-> <<>>, error |-> NoError]

FxInit == fx = FxIdle /\ asked = <<>> /\ faults = {}

FxDone(items, error) ==
    fx' = [fx EXCEPT !.state = "done", !.items = items, !.error = error]

(* The arguments are valid: every command has checked them, and the        *)
(* cursor to start with is empty in all of them.                           *)
PagesLimit(maxPages) == IF maxPages = 0 THEN 5 ELSE maxPages

FxBegin(op, count, maxPages) ==
    /\ fx.state = "off"
    /\ fx' = [FxIdle EXCEPT !.op = op, !.count = count, !.state = "page",
                            !.budget = PagesLimit(maxPages)]
    /\ UNCHANGED <<asked, faults>>

Ask == asked' = Append(asked, fx.cursor)

StallsOnRepeat(last) == last \in {NoCursor, fx.cursor}   \* Faulty variant.

(* The loop of FetchUserTimeline: a cursor that is empty or was seen in    *)
(* this scan ends it, so do enough tweets and the budget.                  *)
Stalls(last) == last = NoCursor \/ last \in fx.visited

ScanPage(body) ==
    LET items == Items(body)
        last  == CursorValue(body)
        got   == UpTo(fx.items \o Only(items, LAMBDA t : ~Blank(t)), fx.count)
        ends  == \/ items = <<>>
                 \/ Stalls(last)
                 \/ Len(got) >= fx.count
                 \/ fx.budget >= 0 /\ fx.fetched + 1 >= fx.budget
    IN  fx' = [fx EXCEPT !.items   = got,
                        !.fetched = @ + 1,
                        !.cursor  = last,
                        !.visited = @ \cup {last},
                        !.state   = IF ends THEN "done" ELSE "page"]

FetchUserTimeline(body) == fx.op = "timeline" /\ ScanPage(body)
FetchUserMedia(body)    == fx.op = "usermedia" /\ ScanPage(body)

(* One request; what it lists is cut at the limit, if the fetch has one.   *)
(* A topic without a name is left out.                                     *)
SearchTweets(body)       == fx.op = "search" /\ FxDone(UpTo(Items(body), fx.count), NoError)
FetchQuotes(body)        == fx.op = "quotes" /\ FxDone(UpTo(Items(body), fx.count), NoError)
SearchUsers(body)        == fx.op = "users" /\ FxDone(UpTo(Users(body), fx.count), NoError)
FetchFollowers(body)     == fx.op = "followers" /\ FxDone(UpTo(Users(body), fx.count), NoError)
FetchUserFollowing(body) == fx.op = "following" /\ FxDone(UpTo(Users(body), fx.count), NoError)
FetchTypeahead(body)     == fx.op = "typeahead" /\ FxDone(UpTo(Users(body), fx.count), NoError)
FetchThread(body)        == fx.op = "thread" /\ FxDone(Items(body), NoError)
FetchConversation(body)  == fx.op = "conversation" /\ FxDone(Replies(body), NoError)
FetchTrends(body)        ==
    fx.op = "trends" /\ FxDone(Only(Users(body), LAMBDA t : t.id # 0), NoError)

(* A status without an id, or a profile without id and handle, was not     *)
(* found.                                                                  *)
Single(found) == FxDone(found, IF found = <<>> THEN Error("notfound", FALSE) ELSE NoError)

FetchStatus(body) ==
    fx.op = "status" /\ Single(Only(UpTo(Items(body), 1), LAMBDA t : t.id # 0))

FetchUserProfile(body) ==
    fx.op = "profile" /\ Single(Only(UpTo(Users(body), 1), LAMBDA t : t.id # 0 \/ t.text))

FxBody ==
    /\ fx.state = "page"
    /\ \E body \in Pages :
          \/ FetchUserTimeline(body) \/ FetchUserMedia(body)
          \/ SearchTweets(body) \/ FetchQuotes(body) \/ SearchUsers(body)
          \/ FetchFollowers(body) \/ FetchUserFollowing(body) \/ FetchTypeahead(body)
          \/ FetchThread(body) \/ FetchConversation(body) \/ FetchTrends(body)
          \/ FetchStatus(body) \/ FetchUserProfile(body)
    /\ Ask
    /\ UNCHANGED faults

\* Faulty variant.
PageFailsKept(error) == FxDone(fx.items, IF fx.items = <<>> THEN error ELSE NoError)

(* A page that fails takes the pages before it with it. *)
PageFails(error) ==
    IF fx.op = "quotes" /\ error.kind = "notfound"
    THEN fx' = [fx EXCEPT !.state = "probe", !.error = error]
    ELSE FxDone(<<>>, error)

FxFault(cancelled) ==
    /\ fx.state = "page"
    /\ \E fault \in Faults :
          /\ PageFails(Failure(fault, cancelled))
          /\ faults' = faults \cup {fault}
    /\ Ask

(* statusQuoteCount: a 404 of the quotes of a status means that it has     *)
(* none when the status itself says so, and only then.                     *)
Probe ==
    /\ fx.state = "probe"
    /\ \/ \E counts \in Counts :
             /\ FxDone(<<>>, IF QuoteCount(counts) = 0 THEN NoError ELSE fx.error)
             /\ faults' = IF QuoteCount(counts) = 0 THEN {} ELSE faults
       \/ FxDone(<<>>, fx.error) /\ UNCHANGED faults
    /\ UNCHANGED asked

FxStep(cancelled) == FxBody \/ FxFault(cancelled) \/ Probe
=============================================================================
