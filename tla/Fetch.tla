------------------------------- MODULE Fetch --------------------------------
(***************************************************************************)
(* A command that reads: its arguments and settings, the lane its fetch    *)
(* takes (internal/cli/client), what it makes of the answer, and what      *)
(* reaches its standard output and its exit status.                        *)
(*                                                                         *)
(* The FxTwitter lane is FxClient.  The Nitter lane is one step: a timeline*)
(* or an error of the rotation (the module Rotation has its loop).         *)
(***************************************************************************)
EXTENDS FxClient

CONSTANTS
    Jobs,       \* the invocations
    Feeds       \* what the Nitter lane answers

Modes   == {"human", "json", "ndjson"}
Filters == {"none", "noreposts", "media"}
JobType == [cmd : STRING, backend : {"mix", "fx"}, pinned : BOOLEAN, mode : Modes,
            limit : Nat \ {0}, maxPages : Nat \ {0}, replies : BOOLEAN, filter : Filters]

ASSUME FetchAssumption == Jobs \subseteq JobType /\ Feeds \subseteq Seq(Tweets)

VARIABLES
    job,        \* the invocation; no step changes it
    pc,         \* what the command does next
    cancelled,  \* SIGINT or SIGTERM has cancelled its context
    lanes,      \* the lanes it has asked
    error,      \* the error it reports
    cause,      \* the FxTwitter error a refusal of the rotation carries
    out,        \* the records it prints
    written,    \* how much of them is on the standard output
    pipe,       \* "open", "closed" by its reader, or "full"
    exit        \* the exit status, -1 while it runs

vars == <<fxVars, job, pc, cancelled, lanes, error, cause, out, written, pipe, exit>>

TypeOK ==
    /\ FxTypeOK
    /\ job \in Jobs
    /\ pc \in {"start", "fx", "nitter", "probe", "print", "done"}
    /\ cancelled \in BOOLEAN
    /\ lanes \subseteq {"fx", "nitter", "probe"}
    /\ error \in Errors /\ cause \in Errors
    /\ out \in Seq(Tweets)
    /\ written \in Nat
    /\ pipe \in {"open", "closed", "full"}
    /\ exit \in {-1, 0, 1, 2}

-----------------------------------------------------------------------------
(* The commands: the lanes that can serve one, its FxTwitter fetch,        *)
(* whether the field filters apply and whether it cuts the answer itself.  *)
Reads(lane, op, filtered, cuts) ==
    [lane |-> lane, op |-> op, filtered |-> filtered, cuts |-> cuts]

User      == Reads("both", IF job.filter = "media" THEN "usermedia" ELSE "timeline", TRUE, FALSE)
Search    == Reads("both", "search", TRUE, FALSE)
Accounts  == Reads("fx", "users", FALSE, FALSE)
List      == Reads("nitter", "timeline", TRUE, FALSE)
Get       == Reads("both", "status", FALSE, FALSE)
Thread    == Reads("fx", "thread", FALSE, FALSE)
Quotes    == Reads("fx", "quotes", TRUE, TRUE)
Comments  == Reads("fx", "conversation", FALSE, TRUE)
Followers == Reads("fx", "followers", FALSE, FALSE)
Following == Reads("fx", "following", FALSE, FALSE)
Profile   == Reads("fx", "profile", FALSE, FALSE)
Trends    == Reads("fx", "trends", FALSE, TRUE)
Typeahead == Reads("fx", "typeahead", FALSE, FALSE)
Instances == Reads("probe", "status", FALSE, FALSE)

Command ==
    CASE job.cmd = "user"      -> User
      [] job.cmd = "search"    -> Search
      [] job.cmd = "accounts"  -> Accounts
      [] job.cmd = "list"      -> List
      [] job.cmd = "get"       -> Get
      [] job.cmd = "thread"    -> Thread
      [] job.cmd = "quotes"    -> Quotes
      [] job.cmd = "comments"  -> Comments
      [] job.cmd = "followers" -> Followers
      [] job.cmd = "following" -> Following
      [] job.cmd = "profile"   -> Profile
      [] job.cmd = "trends"    -> Trends
      [] job.cmd = "typeahead" -> Typeahead
      [] OTHER                 -> Instances

Apply(tweets) ==
    Only(tweets, LAMBDA t : /\ job.filter = "noreposts" => ~t.repost
                            /\ job.filter = "media" => t.media > 0)

Finished(tweets) ==
    LET filtered == IF Command.filtered THEN Apply(tweets) ELSE tweets
    IN  IF Command.cuts THEN UpTo(filtered, job.limit) ELSE filtered

-----------------------------------------------------------------------------
Goto(place) == pc' = place

End(status) == pc' = "done" /\ exit' = status

(* The checks of a command before it loads anything: flags, handle, id,    *)
(* query, --json with --ndjson.                                            *)
RefuseArguments ==
    /\ pc = "start"
    /\ End(2)
    /\ UNCHANGED <<fxVars, job, cancelled, lanes, error, cause, out, written, pipe>>

(* LoadEffectiveSettings: an invalid value is a usage error, a document    *)
(* that cannot be read is not.                                             *)
RefuseSettings ==
    /\ pc = "start"
    /\ \E status \in {1, 2} : End(status)
    /\ UNCHANGED <<fxVars, job, cancelled, lanes, error, cause, out, written, pipe>>

(* Build: --instance replaces the instances and forces their lane. *)
Backend == IF job.pinned THEN "nitter" ELSE job.backend

FirstLane ==
    IF Command.lane = "both" THEN IF Backend = "nitter" THEN "nitter" ELSE "fx" ELSE Command.lane

Begin ==
    /\ pc = "start"
    /\ lanes' = {FirstLane}
    /\ IF FirstLane = "fx"
       THEN FxBegin(Command.op, job.limit, job.maxPages) /\ Goto("fx")
       ELSE UNCHANGED fxVars /\ Goto(FirstLane)
    /\ UNCHANGED <<job, cancelled, error, cause, out, written, pipe, exit>>

FxTurn ==
    /\ pc = "fx"
    /\ FxStep(cancelled)
    /\ UNCHANGED <<job, pc, cancelled, lanes, error, cause, out, written, pipe, exit>>

(* timelineFx: replies are dropped after the cut at the limit, and the     *)
(* rest is put in the order of the ids, newest first.                      *)
Orders(tweets) ==
    {p \in [DOMAIN tweets -> DOMAIN tweets] : \A i, j \in DOMAIN tweets :
        i < j => \/ tweets[p[i]].id > tweets[p[j]].id
                 \/ tweets[p[i]].id = tweets[p[j]].id /\ p[i] < p[j]}

Sorted(tweets) == {[i \in DOMAIN tweets |-> tweets[p[i]]] : p \in Orders(tweets)}

TimelineFx == Sorted(Only(fx.items, LAMBDA t : job.replies \/ ~t.reply))

FxAnswers ==
    /\ pc = "fx"
    /\ fx.state = "done"
    /\ fx.error = NoError
    /\ \E tweets \in IF job.cmd = "user" THEN TimelineFx ELSE {fx.items} : out' = Finished(tweets)
    /\ Goto("print")
    /\ UNCHANGED <<fxVars, job, cancelled, lanes, error, cause, written, pipe, exit>>

FallsBackOnOutage ==    \* Faulty variant.
    Command.lane = "both" /\ Backend = "mix" /\ fx.error.kind = "unavailable"

(* The dispatchers of timelines, searches and statuses: an error that is   *)
(* not the caller's own giving up sends mix to the instances.              *)
FallsBack ==
    /\ Command.lane = "both"
    /\ Backend = "mix"
    /\ ~cancelled
    /\ ~fx.error.gaveUp

FxFails ==
    /\ pc = "fx"
    /\ fx.state = "done"
    /\ fx.error # NoError
    /\ IF FallsBack
       THEN /\ Goto("nitter")
            /\ lanes' = lanes \cup {"nitter"}
            /\ UNCHANGED <<error, exit>>
       ELSE End(1) /\ error' = fx.error /\ UNCHANGED lanes
    /\ UNCHANGED <<fxVars, job, cancelled, cause, out, written, pipe>>

NitterAnswers ==
    /\ pc = "nitter"
    /\ \E tweets \in Feeds :
          /\ job.cmd = "get" => tweets # <<>>
          /\ out' = Finished(UpTo(tweets, job.limit))
    /\ Goto("print")
    /\ UNCHANGED <<fxVars, job, cancelled, lanes, error, cause, written, pipe, exit>>

(* withFxCause: a refusal of the rotation says nothing of why the fast     *)
(* lane was left, so it takes that error along.                            *)
NitterFails ==
    /\ pc = "nitter"
    /\ \E kind \in Kinds \ {"none"} :
          /\ kind = "canceled" => cancelled
          /\ error' = Error(kind, kind = "canceled")
          /\ cause' = IF kind = "chooser" THEN fx.error ELSE NoError
    /\ End(1)
    /\ UNCHANGED <<fxVars, job, cancelled, lanes, out, written, pipe>>

(* instances test: job.limit instances are probed one after the other.  A  *)
(* report, known by the number of its instance, says what failed, and only *)
(* an address that is none ends the run.                                   *)
Report(i) == [id |-> i, text |-> TRUE, media |-> 0, repost |-> FALSE, reply |-> FALSE]

TestInstance ==
    /\ pc = "probe"
    /\ Len(out) < job.limit
    /\ ~cancelled
    /\ \/ out' = Append(out, Report(Len(out) + 1)) /\ UNCHANGED <<pc, exit>>
       \/ End(2) /\ UNCHANGED out
    /\ UNCHANGED <<fxVars, job, cancelled, lanes, error, cause, written, pipe>>

ProbesEnd ==
    /\ pc = "probe"
    /\ IF Len(out) < job.limit
       THEN cancelled /\ End(1) /\ error' = Error("canceled", TRUE)
       ELSE Goto("print") /\ UNCHANGED <<exit, error>>
    /\ UNCHANGED <<fxVars, job, cancelled, lanes, cause, out, written, pipe>>

-----------------------------------------------------------------------------
(* Output.  NDJSON writes record by record, JSON one document, and the     *)
(* rows for people are written without a look at the errors.               *)
Units == IF job.mode = "json" THEN 1 ELSE Len(out)

WriteRecord ==
    /\ pc = "print"
    /\ job.mode # "human"
    /\ written < Units
    /\ pipe = "open"
    /\ written' = written + 1
    /\ UNCHANGED <<fxVars, job, pc, cancelled, lanes, error, cause, out, pipe, exit>>

(* A reader that has hung up is no failure of an NDJSON run. *)
WriteFails ==
    /\ pc = "print"
    /\ job.mode # "human"
    /\ written < Units
    /\ pipe # "open"
    /\ End(IF job.mode = "ndjson" /\ pipe = "closed" THEN 0 ELSE 1)
    /\ UNCHANGED <<fxVars, job, cancelled, lanes, error, cause, out, written, pipe>>

Printed ==
    /\ pc = "print"
    /\ job.mode # "human"
    /\ written = Units
    /\ End(0)
    /\ UNCHANGED <<fxVars, job, cancelled, lanes, error, cause, out, written, pipe>>

PrintRows ==
    /\ pc = "print"
    /\ job.mode = "human"
    /\ \E n \in 0..Units : (pipe = "open" => n = Units) /\ written' = n
    /\ End(0)
    /\ UNCHANGED <<fxVars, job, cancelled, lanes, error, cause, out, pipe>>

-----------------------------------------------------------------------------
(* The surroundings. *)
Cancel ==
    /\ exit = -1
    /\ ~cancelled
    /\ cancelled' = TRUE
    /\ UNCHANGED <<fxVars, job, pc, lanes, error, cause, out, written, pipe, exit>>

PipeBreaks ==
    /\ exit = -1
    /\ pipe = "open"
    /\ pipe' \in {"closed", "full"}
    /\ UNCHANGED <<fxVars, job, pc, cancelled, lanes, error, cause, out, written, exit>>

Init ==
    /\ FxInit
    /\ job \in Jobs
    /\ pc = "start"
    /\ cancelled = FALSE
    /\ lanes = {}
    /\ error = NoError
    /\ cause = NoError
    /\ out = <<>>
    /\ written = 0
    /\ pipe = "open"
    /\ exit = -1

Next ==
    \/ RefuseArguments \/ RefuseSettings \/ Begin
    \/ FxTurn \/ FxAnswers \/ FxFails
    \/ NitterAnswers \/ NitterFails \/ TestInstance \/ ProbesEnd
    \/ WriteRecord \/ WriteFails \/ Printed \/ PrintRows
    \/ Cancel \/ PipeBreaks

Spec == Init /\ [][Next]_vars

-----------------------------------------------------------------------------
(* A scan asks for no page twice, whatever cursors the upstream hands out, *)
(* in a cycle of any length, and for no more pages than --max-pages.       *)
(* (client.go:282, the cursors seen in this scan)                          *)
NoPageTwice ==
    /\ \A i, j \in DOMAIN asked : i # j => asked[i] # asked[j]
    /\ Len(asked) =< job.maxPages

(* --instance and the configured backend hold: what the setting rules out  *)
(* is not asked.  A mix fetch turns to the instances after the fast lane   *)
(* has failed, and only for a failure that nobody's giving up explains; it *)
(* fails without having asked them only for one that giving up does.  A    *)
(* refusal of the rotation names the FxTwitter error.  A request's own     *)
(* time-out counts as giving up here, which is the code's word and not its *)
(* documents': FallsBackOnFailure has theirs.                              *)
(* (client.go:316, 456, 554: the three dispatchers)                        *)
LanesTaken ==
    Command.lane = "both" =>
        /\ Backend = "nitter" => "fx" \notin lanes
        /\ Backend = "fx" => "nitter" \notin lanes
        /\ Backend = "mix" /\ "nitter" \in lanes =>
              /\ fx.error # NoError /\ ~fx.error.gaveUp
              /\ error.kind = "chooser" => cause = fx.error
        /\ Backend = "mix" /\ error # NoError =>
              "nitter" \in lanes \/ cancelled \/ fx.error.gaveUp

(* Documented (cli-reference.md, nitter user and Data flow): mix falls     *)
(* back to the instances when the fast lane fails, unless its caller has   *)
(* given up.                                                               *)
FallsBackOnFailure ==
    Command.lane = "both" /\ Backend = "mix" /\ error # NoError =>
        "nitter" \in lanes \/ cancelled

(* The exit status tells the truth.  0: all that was fetched is on the     *)
(* output, or its reader hung up, or it was rows for a person; and nothing *)
(* failed on the way that would make the answer shorter than it is, so an  *)
(* empty answer is one the upstream gave.  2: nothing was asked, but by    *)
(* the instances test, which finds out about an address when its turn is.  *)
(* (the run functions of the commands; FetchQuotes and its 404)            *)
ExitTellsTruth ==
    /\ exit = 0 =>
          /\ \/ written = Units
             \/ pipe = "closed" /\ job.mode = "ndjson"
             \/ job.mode = "human"
          /\ "nitter" \in lanes \/ faults = {}
    /\ exit = 2 => written = 0 /\ (lanes = {} \/ lanes = {"probe"})

-----------------------------------------------------------------------------
(* What the fetch knows of its scan: the next cursor was not asked for,    *)
(* and a fetch that ends well has explained every fault.                   *)
ScanState ==
    /\ fx.state = "off" => asked = <<>> /\ faults = {}
    /\ fx.state = "page" =>
          /\ Len(asked) = fx.fetched /\ fx.fetched < fx.budget /\ fx.budget = job.maxPages
          /\ Range(asked) \cup {fx.cursor} \subseteq fx.visited \cup {NoCursor}
          /\ fx.cursor \notin Range(asked)
          /\ faults = {}
    /\ fx.state = "probe" => fx.error # NoError
    /\ fx.state = "done" /\ fx.error = NoError => faults = {}

(* What each place of the command has behind it. *)
CommandState ==
    /\ pc # "done" => exit = -1 /\ error = NoError
    /\ pc \notin {"print", "done"} => written = 0
    /\ pc = "start" => lanes = {} /\ fx.state = "off"
    /\ pc = "fx" => lanes = {"fx"} /\ FirstLane = "fx"
    /\ pc = "nitter" =>
          /\ "nitter" \in lanes
          /\ Command.lane = "both" =>
                Backend = "nitter"
                \/ (Backend = "mix" /\ fx.error # NoError /\ ~fx.error.gaveUp)
    /\ pc = "probe" => lanes = {"probe"} /\ Command.lane = "probe" /\ faults = {}
    /\ pc = "print" => "nitter" \in lanes \/ faults = {}

IInv ==
    /\ TypeOK /\ ScanState /\ CommandState
    /\ NoPageTwice /\ LanesTaken /\ ExitTellsTruth
=============================================================================
