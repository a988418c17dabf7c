---------------------------- MODULE FetchProofs ----------------------------
(***************************************************************************)
(* The safety properties of Fetch hold for every set of invocations and    *)
(* every upstream.  IInv is inductive: the cursor a scan will ask for next *)
(* was not asked for, since it is new among the cursors the scan has seen; *)
(* and a command that has an answer has no fault left to report.           *)
(***************************************************************************)
EXTENDS Fetch, PositionsProofs

(* The first spelling that says something is one of the spellings          *)
(* (models.go, the fallbacks of every decoder).                            *)
LEMMA FirstOfType ==
    ASSUME NEW T, NEW s \in Seq(T), NEW nothing
    PROVE  FirstOf(s, nothing) \in T \cup {nothing}
<1>1. CASE \E i \in DOMAIN s : s[i] # nothing
    <2> DEFINE First(i) == /\ s[i] # nothing
                           /\ \A j \in 1..(i - 1) : s[j] = nothing
               I == {i \in DOMAIN s : s[i] # nothing}
    <2>1. \E i \in DOMAIN s : First(i)
        <3>1. I \in SUBSET (1..Len(s)) /\ I # {} /\ Len(s) \in Nat
            BY <1>1
        <3>2. PICK i \in I : \A j \in I : i =< j
            BY <3>1, FirstPosition
        <3>3. \A j \in 1..(i - 1) : j \in DOMAIN s
            BY <3>2
        <3> QED BY <3>2, <3>3
    <2>2. (CHOOSE i \in DOMAIN s : First(i)) \in DOMAIN s
        BY <2>1
    <2> QED BY <1>1, <2>2 DEF FirstOf
<1>2. CASE ~\E i \in DOMAIN s : s[i] # nothing
    BY <1>2 DEF FirstOf
<1> QED BY <1>1, <1>2

(* A status is decoded into a tweet, whatever it leaves out                *)
(* (models.go:267).                                                        *)
LEMMA ToSDKType ==
    ASSUME NEW raw \in RawTweets
    PROVE  ToSDK(raw) \in Tweets /\ ToSDKProfile(raw) \in Tweets
<1>1. FirstOf(raw.ids, 0) \in Nat
    <2>1. raw.ids \in Seq(Nat)
        BY DEF RawTweets
    <2> QED BY <2>1, FirstOfType
<1>2. FirstOf(raw.texts, FALSE) \in BOOLEAN
    <2>1. raw.texts \in Seq(BOOLEAN)
        BY DEF RawTweets
    <2> QED BY <2>1, FirstOfType
<1>3. FirstOf(raw.replies, FALSE) \in BOOLEAN
    <2>1. raw.replies \in Seq(BOOLEAN)
        BY DEF RawTweets
    <2> QED BY <2>1, FirstOfType
<1>4. /\ raw.media.all \in Nat
      /\ raw.media.photos + raw.media.videos \in Nat
    BY DEF RawTweets
<1> QED BY <1>1, <1>2, <1>3, <1>4 DEF ToSDK, ToSDKProfile, Tweets

(* A list of a body is decoded entry by entry (models.go:209).             *)
LEMMA DecodeType ==
    ASSUME NEW raw \in Seq(RawItems)
    PROVE  Decode(raw) \in Seq(Tweets)
<1>1. \A i \in DOMAIN raw : Resolve(raw[i]) \in RawTweets
    <2>1. \A i \in DOMAIN raw : raw[i] \in RawItems
        OBVIOUS
    <2>2. \A item \in RawItems : Resolve(item) \in RawTweets
        BY DEF RawItems, Resolve
    <2> QED BY <2>1, <2>2
<1>2. \A i \in DOMAIN raw : ToSDK(Resolve(raw[i])) \in Tweets
    BY <1>1, ToSDKType
<1> QED BY <1>2 DEF Decode

(* What the decoders of a body return (models.go:412, 449, 526).           *)
LEMMA BodyType ==
    ASSUME NEW body \in Bodies
    PROVE  /\ Items(body) \in Seq(Tweets)
           /\ Users(body) \in Seq(Tweets)
           /\ Replies(body) \in Seq(Tweets)
           /\ CursorValue(body) \in Cursors \cup {NoCursor}
<1>1. body.lists \in Seq(Seq(RawItems)) /\ body.cursors \in Seq(Cursors \cup {NoCursor})
    BY DEF Bodies
<1>2. FirstOf(body.lists, <<>>) \in Seq(RawItems)
    <2>1. FirstOf(body.lists, <<>>) \in Seq(RawItems) \cup {<<>>}
        BY <1>1, FirstOfType
    <2>2. <<>> \in Seq(RawItems)
        OBVIOUS
    <2> QED BY <2>1, <2>2
<1>3. Items(body) \in Seq(Tweets)
    BY <1>2, DecodeType DEF Items
<1>4. Users(body) \in Seq(Tweets)
    <2> DEFINE raw == FirstOf(body.lists, <<>>)
    <2>1. raw \in Seq(RawItems)
        BY <1>2
    <2> HIDE DEF raw
    <2>2. \A i \in DOMAIN raw : raw[i] \in RawItems
        BY <2>1
    <2>3. \A item \in RawItems : ToSDKProfile(item.flat) \in Tweets
        BY ToSDKType DEF RawItems
    <2>4. \A i \in DOMAIN raw : ToSDKProfile(raw[i].flat) \in Tweets
        BY <2>2, <2>3
    <2> QED BY <2>1, <2>4 DEF Users, raw
<1>5. Replies(body) \in Seq(Tweets)
    <2>1. body.lists # <<>> => body.lists[Len(body.lists)] \in Seq(RawItems)
        BY <1>1
    <2>2. (IF body.lists = <<>> THEN <<>> ELSE body.lists[Len(body.lists)]) \in Seq(RawItems)
        BY <2>1
    <2> QED BY <2>2, DecodeType DEF Replies
<1>6. CursorValue(body) \in Cursors \cup {NoCursor}
    BY <1>1, FirstOfType DEF CursorValue
<1> QED BY <1>3, <1>4, <1>5, <1>6

(* A command names a fetch of the client (the run functions).              *)
LEMMA CommandType ==
    /\ Command.op \in Ops
    /\ Command.lane \in {"both", "fx", "nitter", "probe"}
    /\ FirstLane \in {"fx", "nitter", "probe"}
<1>1. Command.op \in Ops /\ Command.lane \in {"both", "fx", "nitter", "probe"}
    BY DEF Command, Reads, User, Search, Accounts, List, Get, Thread, Quotes,
       Comments, Followers, Following, Profile, Trends, Typeahead, Instances,
       Ops
<1> QED BY <1>1 DEF FirstLane

(* What a command keeps of an answer is tweets of the answer               *)
(* (tweetfilter.go:44).                                                    *)
LEMMA FinishedType ==
    ASSUME NEW tweets \in Seq(Tweets), job.limit \in Nat
    PROVE  Finished(tweets) \in Seq(Tweets)
<1>1. Apply(tweets) \in Seq(Tweets)
    BY KeepProperties DEF Apply, Only
<1> DEFINE filtered == IF Command.filtered THEN Apply(tweets) ELSE tweets
<1>2. filtered \in Seq(Tweets)
    BY <1>1
<1> HIDE DEF filtered
<1>3. UpTo(filtered, job.limit) \in Seq(Tweets)
    BY <1>2, UpToProperties
<1> QED BY <1>2, <1>3 DEF Finished, filtered

-----------------------------------------------------------------------------
(* The invariant of the client.                                            *)
FxInv == FxTypeOK /\ ScanState /\ NoPageTwice /\ job \in JobType

(* One more page: its cursor is none of those before it (client.go:282).   *)
LEMMA AskOnce ==
    ASSUME FxInv, fx.state = "page", Ask, job' = job
    PROVE  /\ NoPageTwice'
           /\ Len(asked') = Len(asked) + 1
           /\ Range(asked') = Range(asked) \cup {fx.cursor}
           /\ asked' \in Seq(Cursors \cup {NoCursor})
<1> USE DEF FxInv
<1> DEFINE T == Cursors \cup {NoCursor}
<1>1. asked \in Seq(T) /\ fx.cursor \in T /\ asked' = Append(asked, fx.cursor)
    BY DEF FxTypeOK, Ask
<1>2. fx.cursor \notin Range(asked)
    BY DEF ScanState
<1>3. /\ asked' \in Seq(T) /\ Len(asked') = Len(asked) + 1
      /\ DOMAIN asked = 1..Len(asked) /\ Len(asked) \in Nat
      /\ DOMAIN asked' = 1..Len(asked')
      /\ \A i \in DOMAIN asked : asked'[i] = asked[i]
      /\ asked'[Len(asked')] = fx.cursor
    BY <1>1
<1> HIDE DEF T
<1>4. Range(asked') = Range(asked) \cup {fx.cursor}
    <2>1. \A i \in DOMAIN asked' : i \in DOMAIN asked \/ i = Len(asked')
        BY <1>3
    <2>2. \A i \in DOMAIN asked : i \in DOMAIN asked'
        BY <1>3
    <2>3. Len(asked') \in DOMAIN asked'
        BY <1>3
    <2> QED BY <1>3, <2>1, <2>2, <2>3 DEF Range
<1>5. \A i, j \in DOMAIN asked' : i # j => asked'[i] # asked'[j]
    <2>1. \A i \in DOMAIN asked : asked[i] # fx.cursor
        BY <1>2 DEF Range
    <2>2. \A i \in DOMAIN asked' : i \in DOMAIN asked \/ i = Len(asked')
        BY <1>3
    <2>3. \A i, j \in DOMAIN asked : i # j => asked[i] # asked[j]
        BY DEF NoPageTwice
    <2> QED BY <1>3, <2>1, <2>2, <2>3
<1>6. Len(asked') =< job.maxPages
    <2>1. /\ Len(asked) = fx.fetched /\ fx.fetched < fx.budget
          /\ fx.budget = job.maxPages
        BY DEF ScanState
    <2>2. job.maxPages \in Nat
        BY DEF JobType
    <2> QED BY <1>3, <2>1, <2>2
<1> QED BY <1>3, <1>4, <1>5, <1>6 DEF NoPageTwice, T

(* A fetch that ends: its items and its error, if every fault is explained *)
(* when there is none.                                                     *)
LEMMA FxDoneKeeps ==
    ASSUME FxInv, NEW items \in Seq(Tweets), NEW err \in Errors,
           FxDone(items, err), job' = job, NoPageTwice',
           asked' \in Seq(Cursors \cup {NoCursor}),
           faults' \subseteq Faults, err = NoError => faults' = {}
    PROVE  FxInv'
<1>1. FxTypeOK' /\ fx'.state = "done" /\ fx'.error = err
    BY DEF FxInv, FxTypeOK, FxDone
<1> QED BY <1>1 DEF FxInv, ScanState

(* The loop of the scans (client.go:270).                                  *)
LEMMA ScanPageKeeps ==
    ASSUME FxInv, fx.state = "page", NEW body \in Bodies, ScanPage(body),
           Ask, faults' = faults, job' = job
    PROVE  FxInv'
<1> USE DEF FxInv
<1> DEFINE items == Items(body)
           last  == CursorValue(body)
           all   == fx.items \o Only(items, LAMBDA t : ~Blank(t))
           got   == UpTo(all, fx.count)
           ends  == \/ items = <<>>
                    \/ Stalls(last)
                    \/ Len(got) >= fx.count
                    \/ fx.budget >= 0 /\ fx.fetched + 1 >= fx.budget
<1>1. items \in Seq(Tweets) /\ last \in Cursors \cup {NoCursor}
    BY BodyType
<1>2. got \in Seq(Tweets)
    <2>1. Only(items, LAMBDA t : ~Blank(t)) \in Seq(Tweets)
        BY <1>1, KeepProperties DEF Only
    <2>2. fx.items \in Seq(Tweets) /\ fx.count \in Nat
        BY DEF FxTypeOK
    <2>3. all \in Seq(Tweets)
        BY <2>1, <2>2
    <2> HIDE DEF all
    <2> QED BY <2>2, <2>3, UpToProperties
<1>3. fx' = [fx EXCEPT !.items   = got,
                       !.fetched = @ + 1,
                       !.cursor  = last,
                       !.visited = @ \cup {last},
                       !.state   = IF ends THEN "done" ELSE "page"]
    BY DEF ScanPage
<1> HIDE DEF items, last, got
<1>4. ~ends => ~Stalls(last) /\ fx.fetched + 1 < fx.budget
    <2>1. fx.fetched \in Nat /\ fx.budget \in Int /\ fx.fetched < fx.budget
        BY DEF FxTypeOK, ScanState
    <2> QED BY <2>1
<1> HIDE DEF ends
<1>5. FxTypeOK'
    <2>1. asked' \in Seq(Cursors \cup {NoCursor}) /\ faults' \subseteq Faults
        BY AskOnce DEF FxTypeOK
    <2>2. /\ fx.fetched + 1 \in Nat
          /\ fx.visited \cup {last} \in SUBSET (Cursors \cup {NoCursor})
          /\ (IF ends THEN "done" ELSE "page") \in {"off", "page", "probe", "done"}
        BY <1>1 DEF FxTypeOK
    <2> QED BY <1>1, <1>2, <1>3, <2>1, <2>2 DEF FxTypeOK
<1>6. /\ fx'.budget = fx.budget /\ fx'.fetched = fx.fetched + 1
      /\ fx'.cursor = last /\ fx'.visited = fx.visited \cup {last}
      /\ fx'.state = IF ends THEN "done" ELSE "page"
      /\ fx'.error = fx.error
    BY <1>3 DEF FxTypeOK
<1>7. faults = {} /\ faults' = {}
    BY DEF ScanState
<1>8. CASE ends
    BY <1>5, <1>6, <1>7, <1>8, AskOnce DEF ScanState
<1>9. CASE ~ends
    <2>1. fx'.state = "page" /\ last # NoCursor /\ last \notin fx.visited
        BY <1>4, <1>6, <1>9 DEF Stalls
    <2>2. /\ Len(asked') = fx'.fetched /\ fx'.fetched < fx'.budget
          /\ fx'.budget = job'.maxPages
        BY <1>4, <1>6, <1>9, AskOnce DEF ScanState
    <2>3. /\ Range(asked') \cup {fx'.cursor} \subseteq fx'.visited \cup {NoCursor}
          /\ fx'.cursor \notin Range(asked')
        BY <1>6, <2>1, AskOnce DEF ScanState
    <2> QED BY <1>5, <1>7, <2>1, <2>2, <2>3, AskOnce DEF ScanState
<1> QED BY <1>8, <1>9

(* Every page an upstream answers keeps the invariant (client.go, the      *)
(* Fetch functions).                                                       *)
LEMMA FxBodyKeeps ==
    ASSUME FxInv, FxBody, job' = job
    PROVE  FxInv'
<1>1. PICK body \in Pages :
          \/ FetchUserTimeline(body) \/ FetchUserMedia(body)
          \/ SearchTweets(body) \/ FetchQuotes(body) \/ SearchUsers(body)
          \/ FetchFollowers(body) \/ FetchUserFollowing(body) \/ FetchTypeahead(body)
          \/ FetchThread(body) \/ FetchConversation(body) \/ FetchTrends(body)
          \/ FetchStatus(body) \/ FetchUserProfile(body)
    BY DEF FxBody
<1>2. fx.state = "page" /\ Ask /\ faults' = faults
    BY DEF FxBody
<1>3. body \in Bodies
    BY FxClientAssumption
<1>4. fx.count \in Nat /\ faults = {}
    BY <1>2 DEF FxInv, FxTypeOK, ScanState
<1> DEFINE items == Items(body)
           users == Users(body)
<1>5. /\ items \in Seq(Tweets) /\ users \in Seq(Tweets)
      /\ Replies(body) \in Seq(Tweets)
    BY <1>3, BodyType
<1> HIDE DEF items, users
<1>6. /\ UpTo(items, fx.count) \in Seq(Tweets) /\ UpTo(users, fx.count) \in Seq(Tweets)
      /\ UpTo(items, 1) \in Seq(Tweets) /\ UpTo(users, 1) \in Seq(Tweets)
    BY <1>4, <1>5, UpToProperties
<1>7. /\ Only(users, LAMBDA t : t.id # 0) \in Seq(Tweets)
      /\ Only(UpTo(items, 1), LAMBDA t : t.id # 0) \in Seq(Tweets)
      /\ Only(UpTo(users, 1), LAMBDA t : t.id # 0 \/ t.text) \in Seq(Tweets)
    BY <1>5, <1>6, KeepProperties DEF Only
<1>8. ASSUME NEW found \in Seq(Tweets), NEW err \in Errors, FxDone(found, err)
      PROVE  FxInv'
    BY <1>2, <1>4, <1>8, AskOnce, FxDoneKeeps
<1>9. NoError \in Errors /\ Error("notfound", FALSE) \in Errors
    BY DEF NoError, Error, Errors, Kinds
<1>10. CASE FetchUserTimeline(body) \/ FetchUserMedia(body)
    BY <1>2, <1>3, <1>10, ScanPageKeeps DEF FetchUserTimeline, FetchUserMedia
<1>11. CASE \/ SearchTweets(body) \/ FetchQuotes(body) \/ SearchUsers(body)
            \/ FetchFollowers(body) \/ FetchUserFollowing(body) \/ FetchTypeahead(body)
    BY <1>6, <1>8, <1>9, <1>11
       DEF SearchTweets, FetchQuotes, SearchUsers, FetchFollowers,
           FetchUserFollowing, FetchTypeahead, items, users
<1>12. CASE FetchThread(body) \/ FetchConversation(body) \/ FetchTrends(body)
    BY <1>5, <1>7, <1>8, <1>9, <1>12
       DEF FetchThread, FetchConversation, FetchTrends, items, users
<1>13. CASE FetchStatus(body) \/ FetchUserProfile(body)
    BY <1>7, <1>8, <1>9, <1>13
       DEF FetchStatus, FetchUserProfile, Single, items, users
<1> QED BY <1>1, <1>10, <1>11, <1>12, <1>13

(* A fault has a kind, and one that says so (client.go:114).               *)
LEMMA FailureType ==
    ASSUME NEW fault \in Faults, NEW gone \in BOOLEAN
    PROVE  Failure(fault, gone) \in Errors /\ Failure(fault, gone) # NoError
BY DEF Failure, Faults, Error, Errors, Kinds, NoError

(* Every step of the client (client.go).                                   *)
LEMMA FxStepKeeps ==
    ASSUME FxInv, NEW gone \in BOOLEAN, FxStep(gone), job' = job
    PROVE  FxInv'
<1>1. CASE FxBody
    BY <1>1, FxBodyKeeps
<1>2. CASE FxFault(gone)
    <2>1. PICK fault \in Faults :
              /\ PageFails(Failure(fault, gone))
              /\ faults' = faults \cup {fault}
        BY <1>2 DEF FxFault
    <2> DEFINE err == Failure(fault, gone)
    <2>2. err \in Errors /\ err # NoError
        BY FailureType
    <2>3. fx.state = "page" /\ Ask
        BY <1>2 DEF FxFault
    <2>4. faults' \subseteq Faults
        BY <2>1 DEF FxInv, FxTypeOK
    <2> HIDE DEF err
    <2>5. CASE FxDone(<<>>, err)
        <3>1. <<>> \in Seq(Tweets)
            OBVIOUS
        <3> QED BY <2>2, <2>3, <2>4, <2>5, <3>1, AskOnce, FxDoneKeeps
    <2>6. CASE fx' = [fx EXCEPT !.state = "probe", !.error = err]
        <3>1. FxTypeOK' /\ fx'.state = "probe" /\ fx'.error = err
            BY <2>2, <2>3, <2>4, <2>6, AskOnce DEF FxInv, FxTypeOK
        <3> QED BY <2>2, <2>3, <3>1, AskOnce DEF FxInv, ScanState
    <2> QED BY <2>1, <2>5, <2>6 DEF PageFails, err
<1>3. CASE Probe
    <2>1. /\ fx.state = "probe" /\ asked' = asked
          /\ faults' \subseteq Faults
          /\ \E err \in {NoError, fx.error} :
                FxDone(<<>>, err) /\ (err = NoError => faults' = {})
        BY <1>3 DEF Probe, FxInv, FxTypeOK, ScanState
    <2>2. PICK err \in {NoError, fx.error} :
              FxDone(<<>>, err) /\ (err = NoError => faults' = {})
        BY <2>1
    <2>3. err \in Errors /\ <<>> \in Seq(Tweets)
        <3>1. NoError \in Errors
            BY DEF NoError, Error, Errors, Kinds
        <3>2. fx.error \in Errors
            BY DEF FxInv, FxTypeOK
        <3> QED BY <2>2, <3>1, <3>2
    <2>4. NoPageTwice' /\ asked' \in Seq(Cursors \cup {NoCursor})
        BY <2>1 DEF FxInv, NoPageTwice, FxTypeOK
    <2> QED BY <2>1, <2>2, <2>3, <2>4, FxDoneKeeps
<1> QED BY <1>1, <1>2, <1>3 DEF FxStep

-----------------------------------------------------------------------------
(* An invocation stays what it is.                                         *)
LEMMA JobKept ==
    ASSUME job' = job
    PROVE  Command' = Command /\ Backend' = Backend /\ FirstLane' = FirstLane
<1>1. Command' = Command /\ Backend' = Backend
    BY DEF Command, Backend, Reads, User, Search, Accounts, List, Get, Thread,
       Quotes, Comments, Followers, Following, Profile, Trends, Typeahead,
       Instances
<1> QED BY <1>1 DEF FirstLane

(* A command that has just begun satisfies the invariant.                  *)
LEMMA InitInvariant == Init => IInv
<1> SUFFICES ASSUME Init PROVE IInv
    OBVIOUS
<1>1. NoError \in Errors
    BY DEF NoError, Error, Errors, Kinds
<1>2. FxTypeOK /\ fx.state = "off"
    BY <1>1 DEF Init, FxInit, FxIdle, FxTypeOK, Ops
<1>3. TypeOK
    <2>1. <<>> \in Seq(Tweets)
        OBVIOUS
    <2>2. /\ error \in Errors /\ cause \in Errors /\ out \in Seq(Tweets)
          /\ job \in Jobs /\ pc = "start" /\ cancelled = FALSE /\ lanes = {}
          /\ written = 0 /\ pipe = "open" /\ exit = -1
        BY <1>1, <2>1 DEF Init
    <2> QED BY <1>2, <2>2 DEF TypeOK
<1>4. job \in JobType
    BY FetchAssumption DEF Init
<1>5. NoPageTwice
    BY <1>4 DEF Init, FxInit, NoPageTwice, JobType
<1> QED BY <1>2, <1>3, <1>5
       DEF Init, FxInit, IInv, ScanState, CommandState, LanesTaken, ExitTellsTruth

(* Every step of the command keeps it (client.go, the dispatchers, and the *)
(* run functions).                                                         *)
LEMMA StepInvariant == IInv /\ [Next]_vars => IInv'
<1> SUFFICES ASSUME IInv, [Next]_vars PROVE IInv'
    OBVIOUS
<1> USE DEF IInv
<1>1. FxInv
    BY FetchAssumption DEF TypeOK, FxInv
<1>2. NoError \in Errors /\ job.limit \in Nat
    BY <1>1 DEF NoError, Error, Errors, Kinds, FxInv, JobType
<1>3. job' = job
    BY DEF Next, vars, fxVars, RefuseArguments, RefuseSettings, Begin, FxTurn,
       FxAnswers, FxFails, NitterAnswers, NitterFails, TestInstance, ProbesEnd,
       WriteRecord, WriteFails, Printed, PrintRows, Cancel, PipeBreaks
<1>4. Command' = Command /\ Backend' = Backend /\ FirstLane' = FirstLane
    BY <1>3, JobKept
<1>5. fxVars' = fxVars => (FxTypeOK /\ ScanState /\ NoPageTwice)'
    BY <1>3 DEF fxVars, TypeOK, FxTypeOK, ScanState, NoPageTwice
<1>6. CASE UNCHANGED vars
    <2>1. /\ fxVars' = fxVars /\ faults' = faults /\ fx' = fx
          /\ UNCHANGED <<pc, cancelled, lanes, error, cause, out, written, pipe, exit>>
        BY <1>6 DEF vars, fxVars
    <2> QED BY <1>3, <1>4, <1>5, <2>1
           DEF TypeOK, CommandState, LanesTaken, ExitTellsTruth, Units
<1>7. CASE RefuseArguments \/ RefuseSettings
    <2>1. /\ pc = "start" /\ pc' = "done" /\ exit' \in {1, 2}
          /\ lanes = {} /\ written = 0 /\ error = NoError
          /\ UNCHANGED <<fxVars, cancelled, lanes, error, cause, out, written, pipe>>
        BY <1>7 DEF RefuseArguments, RefuseSettings, End, CommandState
    <2>2. TypeOK'
        BY <1>3, <1>5, <2>1 DEF TypeOK
    <2>3. CommandState' /\ LanesTaken' /\ ExitTellsTruth'
        BY <1>3, <1>4, <2>1 DEF CommandState, LanesTaken, ExitTellsTruth
    <2> QED BY <1>5, <2>1, <2>2, <2>3
<1>8. CASE Begin
    <2>1. FirstLane \in {"fx", "nitter", "probe"}
        BY CommandType
    <2>2. CASE FirstLane = "fx"
        <3>1. /\ FxBegin(Command.op, job.limit, job.maxPages)
              /\ pc = "start" /\ pc' = "fx" /\ lanes' = {"fx"}
              /\ asked = <<>> /\ faults = {}
              /\ UNCHANGED <<cancelled, error, cause, out, written, pipe, exit>>
            BY <1>8, <2>2 DEF Begin, Goto, CommandState, ScanState
        <3>2. job.maxPages \in Nat \ {0} /\ Command.op \in Ops
            BY <1>1, CommandType DEF FxInv, JobType
        <3>3. /\ fx' = [FxIdle EXCEPT !.op = Command.op, !.count = job.limit,
                                      !.state = "page", !.budget = job.maxPages]
              /\ asked' = <<>> /\ faults' = {}
            BY <3>1, <3>2 DEF FxBegin, PagesLimit
        <3>4. /\ fx'.state = "page" /\ fx'.fetched = 0 /\ fx'.budget = job.maxPages
              /\ fx'.cursor = NoCursor /\ fx'.visited = {}
            BY <3>3 DEF FxIdle
        <3>5. FxTypeOK'
            <4>1. <<>> \in Seq(Tweets) /\ <<>> \in Seq(Cursors \cup {NoCursor})
                OBVIOUS
            <4>2. FxIdle \in [op : Ops, count : Nat, budget : Int,
                              state : {"off", "page", "probe", "done"},
                              cursor : Cursors \cup {NoCursor},
                              visited : SUBSET (Cursors \cup {NoCursor}),
                              fetched : Nat, items : Seq(Tweets), error : Errors]
                BY <1>2, <4>1 DEF FxIdle, Ops
            <4>3. job.maxPages \in Int
                BY <3>2
            <4> QED BY <1>2, <3>2, <3>3, <4>1, <4>2, <4>3 DEF FxTypeOK
        <3>6. ScanState' /\ NoPageTwice'
            BY <1>3, <3>2, <3>3, <3>4 DEF ScanState, NoPageTwice, Range
        <3> QED BY <1>3, <1>4, <2>2, <3>1, <3>3, <3>5, <3>6
               DEF TypeOK, CommandState, LanesTaken, ExitTellsTruth, FirstLane
    <2>3. CASE FirstLane # "fx"
        <3>1. /\ pc = "start" /\ pc' = FirstLane /\ lanes' = {FirstLane}
              /\ fxVars' = fxVars
              /\ UNCHANGED <<cancelled, error, cause, out, written, pipe, exit>>
            BY <1>8, <2>3 DEF Begin, Goto
        <3>2. FirstLane = "probe" => Command.lane = "probe"
            BY DEF FirstLane
        <3>3. Command.lane = "both" => FirstLane = "nitter" /\ Backend = "nitter"
            BY <2>3 DEF FirstLane
        <3> QED BY <1>3, <1>4, <1>5, <2>1, <2>3, <3>1, <3>2, <3>3
               DEF fxVars, TypeOK, CommandState, ScanState, LanesTaken, ExitTellsTruth
    <2> QED BY <2>2, <2>3
<1>9. CASE FxTurn
    <2>1. /\ pc = "fx" /\ FxStep(cancelled)
          /\ UNCHANGED <<pc, cancelled, lanes, error, cause, out, written, pipe, exit>>
        BY <1>9 DEF FxTurn
    <2>2. FxInv'
        BY <1>1, <1>3, <2>1, FxStepKeeps DEF TypeOK
    <2> QED BY <1>3, <1>4, <2>1, <2>2
           DEF FxInv, TypeOK, CommandState, LanesTaken, ExitTellsTruth, Units
<1>10. CASE FxAnswers
    <2>1. /\ pc = "fx" /\ fx.state = "done" /\ fx.error = NoError /\ pc' = "print"
          /\ UNCHANGED <<fxVars, cancelled, lanes, error, cause, written, pipe, exit>>
        BY <1>10 DEF FxAnswers, Goto
    <2>2. PICK tweets \in IF job.cmd = "user" THEN TimelineFx ELSE {fx.items} :
              out' = Finished(tweets)
        BY <1>10 DEF FxAnswers
    <2>3. fx.items \in Seq(Tweets)
        BY DEF TypeOK, FxTypeOK
    <2>4. tweets \in Seq(Tweets)
        <3> DEFINE kept == Only(fx.items, LAMBDA t : job.replies \/ ~t.reply)
        <3>1. kept \in Seq(Tweets)
            BY <2>3, KeepProperties DEF Only
        <3> HIDE DEF kept
        <3>2. \A t \in Sorted(kept) : t \in Seq(Tweets)
            BY <3>1 DEF Sorted, Orders
        <3> QED BY <2>2, <2>3, <3>2 DEF TimelineFx, kept
    <2>5. out' \in Seq(Tweets)
        BY <1>2, <2>2, <2>4, FinishedType
    <2>6. faults = {} /\ faults' = faults
        BY <2>1 DEF ScanState, fxVars
    <2> QED BY <1>3, <1>4, <1>5, <2>1, <2>5, <2>6
           DEF TypeOK, CommandState, LanesTaken, ExitTellsTruth
<1>11. CASE FxFails
    <2>1. /\ pc = "fx" /\ fx.error # NoError
          /\ UNCHANGED <<fxVars, cancelled, cause, out, written, pipe>>
        BY <1>11 DEF FxFails
    <2>2. fx' = fx /\ lanes = {"fx"} /\ FirstLane = "fx" /\ exit = -1 /\ error = NoError
        BY <2>1 DEF fxVars, CommandState
    <2>3. CASE FallsBack
        <3>1. pc' = "nitter" /\ lanes' = {"fx", "nitter"} /\ UNCHANGED <<error, exit>>
            BY <1>11, <2>2, <2>3 DEF FxFails, Goto
        <3>2. Command.lane = "both" /\ Backend = "mix" /\ ~fx.error.gaveUp
            BY <2>3 DEF FallsBack
        <3>3. error'.kind # "chooser" /\ error' = NoError
            BY <2>2, <3>1 DEF NoError, Error
        <3>4. LanesTaken'
            BY <1>4, <2>1, <2>2, <3>1, <3>2, <3>3 DEF LanesTaken
        <3>5. CommandState' /\ ExitTellsTruth'
            BY <1>3, <1>4, <2>1, <2>2, <3>1, <3>2 DEF CommandState, ExitTellsTruth
        <3>6. TypeOK'
            BY <1>3, <1>5, <2>1, <3>1 DEF TypeOK
        <3> QED BY <1>5, <2>1, <3>4, <3>5, <3>6
    <2>4. CASE ~FallsBack
        <3>1. pc' = "done" /\ exit' = 1 /\ error' = fx.error /\ lanes' = lanes
            BY <1>11, <2>4 DEF FxFails, End
        <3>2. fx.error \in Errors
            BY DEF TypeOK, FxTypeOK
        <3> QED BY <1>3, <1>4, <1>5, <2>1, <2>2, <2>4, <3>1, <3>2
               DEF TypeOK, CommandState, LanesTaken, ExitTellsTruth, FallsBack
    <2> QED BY <2>3, <2>4
<1>12. CASE NitterAnswers
    <2>1. /\ pc = "nitter" /\ pc' = "print"
          /\ UNCHANGED <<fxVars, cancelled, lanes, error, cause, written, pipe, exit>>
        BY <1>12 DEF NitterAnswers, Goto
    <2>2. PICK tweets \in Feeds : out' = Finished(UpTo(tweets, job.limit))
        BY <1>12 DEF NitterAnswers
    <2>3. out' \in Seq(Tweets)
        BY <1>2, <2>2, FetchAssumption, UpToProperties, FinishedType
    <2>4. fx' = fx /\ error' = error /\ cause' = cause /\ lanes' = lanes
        BY <2>1 DEF fxVars
    <2>5. LanesTaken'
        BY <1>4, <2>1, <2>4 DEF LanesTaken
    <2>6. CommandState' /\ ExitTellsTruth'
        BY <1>3, <1>4, <2>1, <2>4 DEF CommandState, ExitTellsTruth
    <2>7. TypeOK'
        BY <1>3, <1>5, <2>1, <2>3 DEF TypeOK
    <2> QED BY <1>5, <2>1, <2>5, <2>6, <2>7
<1>13. CASE NitterFails
    <2>1. /\ pc = "nitter" /\ pc' = "done" /\ exit' = 1
          /\ UNCHANGED <<fxVars, cancelled, lanes, out, written, pipe>>
        BY <1>13 DEF NitterFails, End
    <2>2. PICK kind \in Kinds \ {"none"} :
              /\ error' = Error(kind, kind = "canceled")
              /\ cause' = IF kind = "chooser" THEN fx.error ELSE NoError
        BY <1>13 DEF NitterFails
    <2>3. error' \in Errors /\ error'.kind = kind
        BY <2>2 DEF Error, Errors
    <2>4. cause' \in Errors
        BY <1>2, <2>2 DEF TypeOK, FxTypeOK
    <2>5. fx' = fx /\ "nitter" \in lanes' /\ exit' = 1
        BY <2>1 DEF fxVars, CommandState
    <2>6. LanesTaken'
        <3>1. error'.kind = "chooser" => cause' = fx'.error
            BY <2>2, <2>3, <2>5
        <3>2. Command.lane = "both" => \/ Backend = "nitter" /\ "fx" \notin lanes
                                       \/ /\ Backend = "mix"
                                          /\ fx.error # NoError /\ ~fx.error.gaveUp
            BY <2>1 DEF CommandState, LanesTaken
        <3> QED BY <1>4, <2>1, <2>5, <3>1, <3>2 DEF LanesTaken
    <2>7. CommandState' /\ ExitTellsTruth'
        BY <1>3, <1>4, <2>1, <2>5 DEF CommandState, ExitTellsTruth
    <2>8. TypeOK'
        BY <1>3, <1>5, <2>1, <2>3, <2>4 DEF TypeOK
    <2> QED BY <1>5, <2>1, <2>6, <2>7, <2>8
<1>14. CASE TestInstance
    <2>1. /\ pc = "probe" /\ lanes = {"probe"} /\ written = 0 /\ out \in Seq(Tweets)
          /\ UNCHANGED <<fxVars, cancelled, lanes, error, cause, written, pipe>>
        BY <1>14 DEF TestInstance, CommandState, TypeOK
    <2>2. CASE out' = Append(out, Report(Len(out) + 1)) /\ UNCHANGED <<pc, exit>>
        <3>1. Report(Len(out) + 1) \in Tweets
            BY <2>1 DEF Report, Tweets
        <3>2. out' \in Seq(Tweets)
            BY <2>1, <2>2, <3>1
        <3> QED BY <1>3, <1>4, <1>5, <2>1, <2>2, <3>2
               DEF fxVars, TypeOK, CommandState, LanesTaken, ExitTellsTruth
    <2>3. CASE pc' = "done" /\ exit' = 2 /\ out' = out
        BY <1>3, <1>4, <1>5, <2>1, <2>3
           DEF fxVars, TypeOK, CommandState, LanesTaken, ExitTellsTruth
    <2> QED BY <1>14, <2>2, <2>3 DEF TestInstance, End
<1>15. CASE ProbesEnd
    <2>1. /\ pc = "probe" /\ Command.lane = "probe" /\ faults = {} /\ faults' = faults
          /\ UNCHANGED <<fxVars, cancelled, lanes, cause, out, written, pipe>>
        BY <1>15 DEF ProbesEnd, CommandState, fxVars
    <2>2. \/ pc' = "done" /\ exit' = 1 /\ error' = Error("canceled", TRUE)
          \/ pc' = "print" /\ UNCHANGED <<exit, error>>
        BY <1>15 DEF ProbesEnd, End, Goto
    <2>3. Error("canceled", TRUE) \in Errors
        BY DEF Error, Errors, Kinds
    <2>4. CASE pc' = "done" /\ exit' = 1 /\ error' = Error("canceled", TRUE)
        <3>1. TypeOK'
            BY <1>3, <1>5, <2>1, <2>3, <2>4 DEF TypeOK
        <3>2. CommandState' /\ LanesTaken' /\ ExitTellsTruth'
            BY <1>3, <1>4, <2>1, <2>4 DEF CommandState, LanesTaken, ExitTellsTruth
        <3> QED BY <1>5, <2>1, <3>1, <3>2
    <2>5. CASE pc' = "print" /\ UNCHANGED <<exit, error>>
        BY <1>3, <1>4, <1>5, <2>1, <2>5
           DEF TypeOK, CommandState, LanesTaken, ExitTellsTruth
    <2> QED BY <2>2, <2>4, <2>5
<1>16. CASE WriteRecord
    <2>1. /\ pc = "print" /\ written' = written + 1 /\ exit = -1
          /\ UNCHANGED <<fxVars, pc, cancelled, lanes, error, cause, out, pipe, exit>>
        BY <1>16 DEF WriteRecord, CommandState
    <2> QED BY <1>3, <1>4, <1>5, <2>1
           DEF fxVars, TypeOK, CommandState, LanesTaken, ExitTellsTruth
<1>17. CASE WriteFails \/ Printed \/ PrintRows
    <2>1. /\ pc = "print" /\ pc' = "done" /\ exit' \in {0, 1} /\ written' \in Nat
          /\ UNCHANGED <<fxVars, cancelled, lanes, error, cause, out, pipe>>
        <3>1. Units \in Nat
            BY DEF Units, TypeOK
        <3> QED BY <1>17, <3>1 DEF WriteFails, Printed, PrintRows, End, TypeOK
    <2>2. exit' = 0 => \/ written' = Units'
                       \/ pipe' = "closed" /\ job'.mode = "ndjson"
                       \/ job'.mode = "human"
        BY <1>3, <1>17 DEF WriteFails, Printed, PrintRows, End, Units
    <2>3. "nitter" \in lanes' \/ faults' = {}
        BY <2>1 DEF CommandState, fxVars
    <2>4. fx' = fx /\ error' = error /\ cause' = cause /\ lanes' = lanes
        BY <2>1 DEF fxVars
    <2>5. LanesTaken'
        BY <1>4, <2>1, <2>4 DEF LanesTaken
    <2>6. CommandState' /\ ExitTellsTruth'
        BY <1>3, <1>4, <2>1, <2>2, <2>3, <2>4 DEF CommandState, ExitTellsTruth
    <2>7. TypeOK'
        BY <1>3, <1>5, <2>1 DEF TypeOK
    <2> QED BY <1>5, <2>1, <2>5, <2>6, <2>7
<1>18. CASE Cancel \/ PipeBreaks
    <2>1. /\ exit = -1 /\ cancelled' \in BOOLEAN /\ (cancelled => cancelled')
          /\ pipe' \in {"open", "closed", "full"}
          /\ UNCHANGED <<fxVars, pc, lanes, error, cause, out, written, exit>>
        BY <1>18 DEF Cancel, PipeBreaks, TypeOK
    <2> QED BY <1>3, <1>4, <1>5, <2>1
           DEF fxVars, TypeOK, CommandState, LanesTaken, ExitTellsTruth
<1> QED BY <1>6, <1>7, <1>8, <1>9, <1>10, <1>11, <1>12, <1>13, <1>14, <1>15,
           <1>16, <1>17, <1>18 DEF Next

-----------------------------------------------------------------------------
(* IInv holds of every reachable state.                                    *)
THEOREM FetchInvariant == Spec => []IInv
BY InitInvariant, StepInvariant, PTL DEF Spec

(* The state keeps its shape (client.go, the run functions).               *)
THEOREM TypeCorrect == Spec => []TypeOK
<1>1. IInv => TypeOK
    BY DEF IInv
<1> QED BY <1>1, FetchInvariant, PTL

(* A scan never follows cursors in a circle, of any length, and keeps to   *)
(* --max-pages, whatever the upstream answers (client.go:282).             *)
THEOREM ScansEnd == Spec => []NoPageTwice
<1>1. IInv => NoPageTwice
    BY DEF IInv
<1> QED BY <1>1, FetchInvariant, PTL

(* A lane the settings rule out is never asked, and mix asks the instances *)
(* exactly when the fast lane failed and nobody gave up, a time-out being  *)
(* taken for that (client.go:316, 456, 554).                               *)
THEOREM LanesAsSet == Spec => []LanesTaken
<1>1. IInv => LanesTaken
    BY DEF IInv
<1> QED BY <1>1, FetchInvariant, PTL

(* Exit 0 is never a fault that looks like a short answer, and exit 2      *)
(* never a fetch (the run functions).                                      *)
THEOREM ExitIsTrue == Spec => []ExitTellsTruth
<1>1. IInv => ExitTellsTruth
    BY DEF IInv
<1> QED BY <1>1, FetchInvariant, PTL
=============================================================================
