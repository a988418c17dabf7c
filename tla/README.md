# nitter-cli, specified

TLA+ models of [nitter-cli](../src/README.md), the model-checking runs over small instances of them, and
machine-checked proofs of what matters most. Every definition is translated from the Go source; `PROJECT.json`
names the lines behind each one (`map`), the runs, the deliberately faulty variants each property is tried
against (`mutants`), the places where code and documentation disagree (`findings`), what is hard to test in this
code (`hazards`) and the theorems.

Tools: `tlc -config <run>.cfg <module>` checks a run, `tlapm <module>.tla` checks the proofs of a module.

## 1. The system

nitter-cli reads Nitter instances (RSS and HTML) and the FxTwitter API, prints tweets, downloads media, and polls
sources for new tweets (`nitter watch`). It is a short-lived process except for the resident `watch`; what
outlives a process is a handful of files.

| Component | State | Operations | Interacts with |
|---|---|---|---|
| seen store `storage/seen` | `seen.json` and its copy in memory, per source: initialized, seen ids (at most 300), watermark (at most 20) | Open, Get, Put, Delete, Clear, MergeSeen, CapWatermark | watch, `nitter seen`; any number of processes share the file |
| selection engine `watch/engine.go` | none (pure) | Select: first run, empty fetch, `MaxNew = 0`, cap, drop or keep | watch, seen store |
| watch command `commands/watch` | position in the cycle, merged buckets, records and state writes of a `--once --json` document, the signal context | run, runCycle, prefetchMerged, fetchSource, emitTweets | all of the above, the readers, stdout |
| field filters `cli/tweetfilter` | none | Apply | watch, read commands |
| timeline readers `nitter/appapi` | none | scanRSS, timelineHTML, MergedTimeline, Search, ListTimeline, withInstance | transport, rotation, parsers |
| fetch dispatch `cli/client` | none | mix / fx / nitter choice, fallback, the cause a refusal carries | readers, FxTwitter client |
| instance rotation `sdk/chooser.go` | cooldown instant per instance (mutex) | Pick, markSuccess, markFailure | readers, possibly concurrent |
| HTTP transport `protocol/httpx` | start of the last call (mutex) | Get with retries, Retry-After, pacing | everything that fetches |
| FxTwitter client `fxtwitter` | the cursors seen in one scan | paged fetches with a cursor guard, single requests, the count behind an empty quotes answer | dispatch |
| HTML and RSS parsers | none | decoding | readers |
| media resolution, selection | none | strategy chain, choice of a variant, plan of files with fallback links | downloader |
| downloader, `download` command | files in a directory, temporary files, names used by a reference | exists check, fetch to a temporary file, publish, report, clean | media resolution; any number of processes share the directory |
| settings, circles, profiles `config` | `config.toml`, `circles.toml`, `profiles.toml` | publish the baseline, load, change, replace | config, circle, watch; a person edits them |
| seen, circle and config commands | none | clear; add, remove, refresh; set, unset | the documents, the readers |
| self update `update` | the executable, its `.old` backup, a staged file per process | look up, compare, ask, download, verify, replace, clean up | the file system, other updates |
| read commands, pipeline, results | none | one fetch, filters and cuts, one print, exit code | dispatch, stdout |
| release tools | none | CI maintenance | - |

What is hard, and where the properties of this project aim:

* **watch**: the order of "deliver, then remember" under crashes, signals and failed writes at every point; what a
  scan that stops early may leave behind; the cap and its overflow; one source named twice; a merged fetch over
  members that are caught up to different points; a remembered list that is full; readers with different windows.
* **seen store, settings**: several processes and a person over one document, with failures and stops between load and
  replace.
* **rotation and transport**: cooldowns, retries and time-outs racing each other.
* **FxTwitter client, dispatch, read commands**: cursors that run in a circle, which error may fall back to another lane, an
  empty answer that is none, an exit code that has to tell all of this apart.
* **downloader, update**: several steps on the file system with a crash or another process between them; batches
  with partial failures, names that collide late, archives and versions that are not what they say.

What makes each correct, in a sentence: *watch* delivers every tweet posted after the first run at least once or
seals it behind newer ones, never forgets that order, and repeats nothing unless interrupted; the *store* is always
a whole document and never goes back; *rotation* tries every instance that may be tried, once; the *transport* keeps
its pace and its attempt budget; a *scan* asks for no page twice; a *read command* says with exit 0 that nothing was lost on the
way; the *downloader* never leaves a partial file under a final name and reports every file once; the *installer*
always leaves a whole executable and puts only a verified, newer one in its place; a rewritten *document* loses nothing but to somebody it overlaps with.

## 2. Modules and plan

In the order they were written, most important behaviour first:

| Module | Models | Uses |
|---|---|---|
| `Positions` | keeping and cutting a list by position, as the loops over slices do | - |
| `SeenList` | MergeSeen and CapWatermark of seen.go, by position instead of by loop | Positions |
| `WatchEngine` | Select of engine.go | SeenList |
| `FeedScan` | what a fetch reads: pages, budget, the stop predicates | WatchEngine |
| `Watch` | the watch process over one seen.json and one upstream | FeedScan |
| `Subscription` | abstract: what watch promises its consumer | - |
| `Transport` | the HTTP client: pacing, retries, 429, streaming download, shared by several callers | - |
| `Rotation` | the Chooser and the loop over it (withInstance), shared by several callers | - |
| `Documents` | the files under `~/.nitter-cli` and the commands that rewrite them | - |
| `FxClient` | the FxTwitter client: its errors, scans and single requests | Positions |
| `Fetch` | the read commands: lane, fallback, filters, output, exit code | FxClient |
| `MediaPlan` | what the providers' answers make of a status, and the files planned from it | Positions |
| `Download` | `download`, `download --clean-temp` and `media` by processes over one directory | MediaPlan |
| `Semver` | the order of versions | - |
| `Update` | `update` by processes over one installation, Unix and Windows | Semver |
| `MCWatch`, `MCTransport`, `MCRotation`, `MCDocuments`, `MCFetch`, `MCDownload`, `MCUpdate` | small instances for TLC | the module each is named after |
| `PositionsProofs`, `WatchProofs` | proofs about lists, and about Select and the watch | Watch |
| `TransportProofs`, `RotationProofs`, `DocumentsProofs` | proofs | Transport, Rotation, Documents |
| `FetchProofs`, `DownloadProofs`, `UpdateProofs` | proofs, all citing `PositionsProofs` | Fetch, Download, Update |

The models meet where the components do. `Fetch` runs `FxClient` step by step and takes the Nitter lane as one step
with the outcomes `Rotation` leaves open; `Watch` takes a fetch that succeeds, answers nothing or fails; `Download` takes
a transfer that completes or fails at any byte, which is what `Transport` says of a streamed body.

Left of the plan: `RedeliveryNeedsStop` with a list that forgets, for readers of one window no larger than the list; the
readers whose models TLC runs without a theorem of their own (`FeedScan`'s pages and `SeenList`'s loops, see section 10).

## 3. The watch model

`Watch` is one process, its upstream and its file.

* **Upstream**: `posts` is the sequence of posts, `posts[id]` the source that posted `id`; `gone` are deleted ids.
  Ids grow with time over all sources, so `Feed(S)` (newest first) is a single feed or a merged one. Which reader
  serves a source is any of `Lanes[s]`, and each reader has its page size: the RSS reader of a user timeline is
  given the stop predicate, the HTML and FxTwitter readers are not (`Timeline`). One merged batch stands for
  the batches of MergedBatches.
* **Process**: `pc` names the points of a cycle between which another actor can be observed; `idx` is the position
  in `Argv`. `PrefetchMerged`, then per source one of `UsePrefetched`, `FetchOK`, `FetchEmpty`, `FetchFails`; a
  successful fetch is a `Round` (filter, select, buffer). `WriteRecord` writes the buffered records one at a time
  and `Put` persists afterwards; with `--once --json` rounds only append to the buffers, `WriteDocument` writes all
  records at once and the `Put`s follow in order. `Tick`, `GracefulExit`, `Finish` and `Open` are the resident loop
  and the scheduler that starts the process again.
* **Interruptions**: `Crash` anywhere, `Cancel` (SIGINT, SIGTERM) which the code sees only where it looks at the
  context, `WriteFails` (a broken pipe, a full disk, a failed Put; the store keeps file and memory as they were).
  An error report that cannot be written ends the run with nothing else changed, as `Crash` does at that point.
  Together at most `MaxStops`.
* **History variables**: `delivered[s][id]` counts, `baseline[s]` is the newest post the first run recorded and `seeded[s]`
  all that it recorded, `served` says whether the last source got its feed (for fairness).

Left out: formatting, flag parsing, error texts, `UpdatedAt`, the blanks that CapWatermark trims off an id (`seen.go:290`), and the HTTP layer below a reader (a fetch succeeds,
answers nothing or fails). A reader is atomic: it returns all pages or fails (scanRSS, timelineHTML and
FetchUserTimeline drop what they have when a page fails), and posts that appear between two pages are not modelled.
Feeds are newest first, as firstPageIDs says; a pinned post on an HTML timeline would not be.

## 4. The transport and the rotation

`Transport` is one httpx client and its callers. A call is `Call`, `PaceAtOnce` or `PaceSleep` and `PaceDone`, and
then rounds of `Send`, an answer and a wait; `send` and `DownloadMeta` are the same loop and differ in what a good
answer leads to (`kind`). Time is in ticks: a sleep is its remaining ticks, and the last start of a call is an age
that stops counting at the interval, because `pace` compares it with nothing else. `paceMu` is held over the sleep,
as the code's deferred unlock does; a caller that waits for the mutex does not look at its context there. When a
timer has run out and the context is done the select of `sleepContext` may take either branch, so both actions are
enabled. What a 429 carries is a usable Retry-After (also 0: an HTTP date in the past) or none. A request lasts any
number of ticks. `sent`, `failed` and `streams` are history variables. Options pass through `Option`,
which is what `Build` and `New` make of a configured value together.

`Rotation` is one Chooser and its callers, each going through its list of work and then pausing, as a cycle of watch
does. An instance is its place in the configuration order, cooldowns are counted in ticks, and the Chooser's three
operations are atomic because of its mutex; what happens between them is up to the scheduler. Instances go down and
come back at most `MaxOutages` times; work in `Missing` fails everywhere. An attempt succeeds only at an instance that is
up, and lasts at most `MaxAttempt` ticks. `sick` is a history variable: the last mark the instance was given. The
instances are assumed to have different addresses.

## 5. The documents

`Documents` is `seen.json`, `circles.toml`, `profiles.toml` and `config.toml`, processes that each run one of the eight
commands that rewrite one, and a person. A document is `form` (missing, whole, partial, malformed) and `data`, a stamp
per entry and part: commands write the machine part (a source's state, a membership, a profile's facts, a setting),
a person the hand part (judgement, array tables) and the memberships. Stamps only tell changes apart.

A command is `Start`, the baseline (`SeedFound`, or `SeedStage`, `Fill`, `SeedLink`), `Load` or `LoadFails`, its change
(`Put`, `Forget`, `Add`, `Configure`, `Merge`), and the atomic write: `Stage`, `Fill`, `Publish`. The three writers of the
code (two `writeFileAtomic`, `EnsureDefaultConfigFile`) differ in what publishes: a rename replaces, a link does
not. A watch opens the store once and puts again and again (`GoesOn`); `circle refresh` reads the roster and the
profiles before `Fetch`, `circle add` saves the roster, fetches, and only then reads the profiles. `PutFails` and
`WriteFails` stand for a failure of any step of a write, `Stop` for a kill at any point. `Edit`, `Break` and `Lose` are
the person. `overtaken` is a history variable: the processes whose document somebody has replaced since they
read or wrote it.

Left out: one circle stands for all, matching of names and case, unknown fields of circles and profiles (both are
decoded into structs and written back without them, as the documentation says of profiles), the modes of files, fsync of
directories. The staging file of a killed process stays on disk and nobody reads it; `temp` is the one a process has.
A configuration that is malformed stops a watch and the fetch of a profile; other invalid values of it are not told apart.

## 6. Reading

`FxClient` is one fetch of the FxTwitter client. A scan is `FxBegin` and then one `FxBody` or `FxFault` per request; `fx` holds
the loop's variables (cursor, visited cursors, pages fetched, items). A body is what its decoder tells apart: the
lists it may carry under several names, of which the first present counts (`FirstOf`), a cursor, and statuses that may
be wrapped, unusable, reposts or replies (`Resolve`, `ToSDK`, `Blank`). `Stalls` is the cursor guard. The upstream is any
sequence of `Pages`, with cursors of its choosing. Quotes answer 404 for "none" as well as for "not now", so
`Probe` asks for the count of the status after such an answer. `Failure` classifies what went wrong, and remembers whether it looks like the caller's giving up.
`asked` (the cursors sent) and `faults` (failures not explained by a legitimate empty answer) are history variables.

`Fetch` is one command line: `Command` is the table of the read commands (lane, FxTwitter operation, whether it filters
and cuts), `RefuseArguments` and `RefuseSettings` its early ends, `Begin` the choice of the lane. `FxAnswers` filters, sorts
and cuts (`TimelineFx`, `Finished`), `FxFails` falls back or ends, `NitterAnswers` and `NitterFails` are the other lane,
`TestInstance` the probes of `instances test`. `WriteRecord`, `WriteFails`, `Printed`, `PrintRows` are the output modes.
`Cancel` and `PipeBreaks` (a reader that hangs up, a full disk) come at any point.

Left out: wording, time stamps, the endpoint's own parameters, the cursor argument (every command starts without one) and the cursor
a fetch returns (every command drops it). The reader of a broken pipe is modelled as the code sees it (`EPIPE`); on Unix
the Go runtime ends the program by SIGPIPE when it is the standard output that breaks, before the code gets there.

## 7. Downloading

`MediaPlan` is pure: per provider what its answer yields (`ResolveFx`, `ResolveXdown`, `ResolveNitter`), the normal form of
all of them (`Finalize`: https, one of each link, a variant chosen by quality), and `PlanDownload`: a cover, a converged
video with its chain of fallback links (`PlanConverged`), or images.

`Download` runs one command per process in one directory. A reference is `TakeRef`, `ResolveStatus` (one provider after
the other until one has media), and per planned file `Target` (a name from the templates, made unused within the
reference), `Fetch` (the look for an existing file, the temporary file), `StreamTo` (done, or broken off), `Compare` (the look
that has to wait for the response's type) and `Publish` (sync, close, rename). `LinkFails` goes on to the next link of the chain,
`Exists` refuses or skips, `Row` and `Report` are what the user is told, `Finish` the end of the run. `SweepBegin`, `Sweep`
and `SweepEnd` are clean-temp: a temporary file is old when it was last written before the window, which the model
keeps as the set of cleaning processes that began after the write (`older`). `Kill`, `Cancel` and `PipeBreaks` come at any point; `due`,
`rows` and `reports` record what was planned, told as done and told as failed.

Left out: the text of names (a name is the fields its template prints, whether it has text of its own, an extension and the
number that avoids a collision), a failing removal of the process's own temporary file (`downloader.go:214` ignores it; then
the file stays, and the part of `FilesWhole` about temporary files does not hold), modes, hashes and sizes, the removal of empty directories by clean-temp, references read from the standard
input, and `media --probe`. Handles are validated before they name a directory.

## 8. Updating

`Semver` is Compare of semver.go. `Update` is a directory with the executable, its backup and a staged file per process,
and processes that run `update`: `CleanupPendingUpdate`, `Flags`, `Lookup`, `Report`, `AskToInstall`, `Download` (assets, checksums,
archive), `Stage`, `VerifyStagedVersion`, and the replacement, which is one rename on Unix and on Windows
`MoveFile` or the two renames of `ReplaceFileW`, with a stop possible between them. A program that runs holds on to its
file on Windows (`Locked`). A scenario says which system, how it was installed, which commands run, and which
releases there are, now and later (`Publish`); a release carries what may be wrong with it. `Kill` comes at any point.

Left out: parsing of versions, archives and checksum files, the proxy, the wire format of the API, and crashes of the
machine: a process may be killed, the disk keeps what was renamed (the installer does not sync).

## 9. Runs

The watch runs are two sources over four posts and two interruptions (`watch_stream`) or three posts, a deletion and one
interruption (`watch_once`), with `MaxNew = 1` and pages of one, two or four posts. Four posts suffice for: one of history,
one emitted, one over the cap, one newer than both; two pages suffice for a stop predicate to fire before the budget ends.
In `watch_stream` the FxTwitter reader's window is twice that of the others, so that a source with three posts at its first
run is served later by a reader that looks behind the first one's window, and a burst can run out of a window. In
`watch_once` the windows cover all posts, so that the overflow is what the process leaves behind and not what the upstream
hides. The memory of both holds all posts; a full one is limited by what is said below.

| Run | Shows |
|---|---|
| `watch_stream` | resident mode, drop policy, readers with two windows, a filtered id: types, nothing lost silently, no repetition without interruption, recorded history silent, every new tweet within reach delivered or sealed in the end, implements `Subscription` |
| `watch_once` | `--once --json` with `--include-existing` and keep, over two users and the merged feed, one of them named twice, a filtered id and a deletion: deferred writes are covered, own tweets only, implements `Subscription`; liveness: the overflow is delivered; and the positional list operations compute what the loops compute |
| `transport` | two callers, one retry, an interval of two ticks: calls are spaced, attempts are bounded and used, one body per download; liveness: every call ends, whoever gives up in the pacing sleep |
| `rotation` | two callers, two instances, an attempt shorter than the cooldown: a failed call has tried everybody it could, a refusal has a reason; liveness: failover serves again and again, every call ends |
| `documents` | two of all eight commands, a person, failures and stops anywhere: whole documents, no staging file left, current copies, no loss without an overlap, no baseline over a configuration |
| `fetch` | every read command, backend and output mode over pages whose cursors repeat and run in a circle, every fault, cancellation and a failing output: no page twice, only the lanes that are set, a truthful exit code |
| `download` | two processes in one directory, downloads against each other, against media and against clean-temp: whole files, every file told once, nothing replaced that was seen, every link tried |
| `update` | three overlapping updates with a release that appears, on both systems; single runs against damaged releases; all triples of the versions: a whole executable at any time, only what was verified and newer gets in, the highest version is chosen |

Two callers are enough for the transport: the mutex has one holder and one who waits, and the counters belong to a
call. One retry and one 429 interleave in every order. A cooldown of three ticks outlasts the attempts at both instances and
may run out before the other caller's next one. A client or a rotation has no state that grows, so no other bound is needed than
`MaxOutages`. Two commands (`MaxRuns`), two changes after the first state (`MaxStamp = 3`) and two names are what one
overlap needs: two that load, each changing the same entry or another, or one of them and a person.

Five kinds of page, two cursors and up to four pages are what a scan needs to repeat a cursor, to go round a circle of
two, to run out and to spend its budget. Two processes are what two looks and two renames need; the batches of
`MCDownload` are chosen so that two files of one reference can meet on one name, a reference is given twice, a video has a
larger, a smaller and a playlist link, and clean-temp runs beside a download with and without a window. Three updates
are what a cleanup needs that overlaps with a replacement that overlaps with another one. The versions are semver.org's
precedence list with two later ones; `MaxUint = 10` makes one number of the list, 11, too long to be read, and no other is
read as the same. `ListInOrder` of `MCUpdate` lets TLC check that `Higher` ranks that list as it is written.

Runs that find a disagreement between the code and what its documents say (details under `findings`):

| Run | Disagreement |
|---|---|
| `transport_noretry` | `retry_attempts = 0` makes two retries |
| `transport_budget` | the wait for a 429 costs the call one of its network retries, from which a comment calls it independent |
| `fetch_timeout` | a time-out of the FxTwitter request ends a mix command that was promised a fallback |
| `documents_judgement` | `circle refresh` overwrites the judgement that was recorded while it fetched |

Further limits of the properties, seen with other constants than the listed runs use:

* The first run of a source may be served by a reader with a smaller window than a later one, alone (mix mode) or
  through the merged feed, whose budget the members share; what lies behind the first window is then emitted as new.
  `HistoryStaysSilent` speaks of what the first run has read and recorded, and of that it holds whatever the windows are,
  while the list is not full.
* `MergeSeen` puts new ids in front of remembered ones in the order they were fetched, not in the order they were posted. With
  readers of different windows a full list may so forget an id that the larger window still shows, and it is delivered again
  (five posts of one source, a list of four, windows of two and four); so is a forgotten id that a deletion moves back
  into the window (a list and a window of two). `RedeliveryNeedsStop` is checked where the list holds all posts; with one window no larger than the
  list TLC finds no repetition either (lists and windows of two, four posts).
* A burst larger than a reader's window leaves tweets out of reach, also if deletions bring them back into it later, because
  the scan then stops at the newer page that is known. `BacklogSettles` excepts them.
* A member's tweet that lies behind a merged page without news is not reached as long as the merged feed works, so
  `BacklogSettles` is checked without merging.
* `pace` records the start of a call, not of its retries, so `CallsSpaced` speaks of calls; `BudgetIsUsed` counts requests,
  not failures, which is what `transport_budget` is about.
* When the attempts at all instances but two last as long as the cooldown, Pick repeats an instance before the others
  were tried and the call fails early (`timeline.go:139` against its comment). `AllAttempted` is therefore proved for
  `(N - 2) * MaxAttempt < Cooldown`; with four instances, attempts of one tick and a cooldown of two TLC finds the
  early failure, with a cooldown of three it finds none. With a disabled cooldown Pick offers the first instance again and
  again, and a failed call has attempted no other, although the comment says "Every configured instance has been
  attempted (a disabled cooldown makes Pick repeat)"; it does end, and `CallsEnd` holds then too. The success of another
  caller ends a cooldown to the same effect, and the property allows for that.
* `LoadCircles` takes a malformed file for an empty one (`circles.go:80`) and the next `circle add` writes that back
  over it, so the part of `LossNeedsOverlap` about malformed documents leaves `circles.toml` out.
* On the RSS lane keep does not drain: the stop predicate ends the scan at the page that was just emitted
  (`watch.go:609`), although `engine.go:79-82` and `docs/en/cli-reference.md:802-805` say that later cycles deliver the
  excess. `BacklogDrains` is checked on the HTML lane and with RSS pages that hold the whole overflow.
* Every error but the caller's own giving up cools an instance, the 404 of a missing user too (`timeline.go:154`; the
  documentation speaks of 429 and network errors, `docs/en/cli-reference.md:659`), so one missing source starves those behind
  it while all instances are up. `Served` is checked for work that some instance has.
* `LanesTaken` takes a time-out of the FxTwitter request for giving up, as the code does; `fetch_timeout` is about that. Rows for people
  are written without a look at errors, so exit 0 does not speak of them. `instances test` finds an
  invalid configured address only after it has probed those before it.
* With `--on-exists overwrite` two files of one reference whose names become the same with the response's type
  overwrite each other (`docs/en/cli-reference.md:524` promises a "-2"); without it the second is refused. Two
  processes that both looked before either renamed both publish; `KeepsWhatItSaw` says that this is what it takes.
* A cancelled batch tells nothing of the files it has already written when its mode is for people or JSON, and a broken
  pipe ends an NDJSON download with exit 0 although references failed before. `RefsAccounted` excepts both. clean-temp
  counts a file that vanished as a failure; with a window of zero it takes the temporary file of a running download, whose
  rename then fails.
* The cleanup of a backup runs in `update` only (`update.go:106`), where the comment at `replace_windows.go:59-61` speaks of every command
  start; `update --check` on Windows therefore removes a file. Two updates side by side on Unix may put the older of
  two new releases over the newer; on Windows the backup refuses the second. The backup is not found behind some symlinks,
  and every later update then refuses. The staged file of a killed update stays.
  Numeric identifiers beyond 64 bits are all read as the largest number (`semver.go:182-183` drops the error) and compare
  equal, so a lookup over prereleases that are numbered that way may miss the newest; only the first page of releases is looked at.
* What one process overwrites of another's is lost, in `seen.json` too (`docs/en/cli-reference.md:847-849` says so);
  `LossNeedsOverlap` promises nothing to those who overlap.

**Deadlock** is checked in the runs of `Watch`, `Transport` and `Rotation`: the scheduler can always start the process again, a
client can always be called. Commands that read, rewrite a document, download or update end, and nothing says that
another one follows.

**Fairness** (`FairSpec`). The process takes steps (weak fairness of each kind of step: it is one goroutine in a
loop with a ticker, and a scheduler restarts it); and a source whose turn comes again and again is served its feed
again and again (strong fairness of a successful fetch): a fetch may fail any finite number of times, and with an
upstream that never answers nothing is promised. Interruptions are bounded, so they need no fairness.
In `Transport` timers run and requests end (each has a time-out), and pacing is strongly fair, because Go's mutex
hands itself to a waiter that starves. In `Rotation` time passes and callers go on; giving up is never forced, and
`Served` promises nothing to a caller that gives up again and again. `Documents` has no fairness and no liveness
property: a command may be killed anywhere. The same holds for `Fetch`, `Download` and `Update`, whose loops are bounded by
properties of safety (`NoPageTwice`) or by the length of a list.

## 10. Proofs

The theorems hold for every choice of the constants that satisfies the assumptions of the modules
(`SeenListAssumption`, `WatchEngineAssumption`, `FeedScanAssumption`, `WatchAssumption`, `TransportAssumption`,
`RotationAssumption`, `DocumentsAssumption`, `FxClientAssumption`, `FetchAssumption`, `MediaAssumption`,
`DownloadAssumption`, `SemverAssumption`, `UpdateAssumption`): any sources, argument list, limits, page sizes, flags, number
of posts and interruptions; any callers, options, intervals, instances and cooldowns; any processes, commands and names; any
pages, cursors and invocations; any links, answers and batches; any releases, installers and scenarios. TLC evaluates the
assumptions in the runs of the modules. They say what the decoders yield (that answers, pages and releases are of their types), that
limits are numbers, and what the commands check before they start.

Five theorems need more, and say so:

| Theorem | Hypothesis | Why |
|---|---|---|
| `RedeliveryIsPaidFor` | `MaxPosts =< SeenLimit` | an id that fell out of the list is new again; `AtMostOncePerStop` says the same without it, of each source that fits |
| `ImplementsSubscription` | `DocumentFits`: no JSON document, or no source twice in argv, or `MaxPosts =< SeenLimit` | a source that comes back in one document after its list has overflowed repeats a tweet |
| `EverybodyAttempted` | `(N - 2) * MaxAttempt < Cooldown` | otherwise a cooldown ends during the call, see section 9 |
| `OnlyVerifiedInstalled`, `HighestIsChosen` | `NumbersReadApart`: no two different numbers of the versions in play are both read as the largest one | with two such numbers `Compare` says equal where semver.org does not; otherwise it computes the order, which is `CompareIsPrecedence` |

* `PositionsProofs`: what `Keep`, `UpTo` and `Only` return, by ranks of positions and the cardinality of their prefixes: order,
  length, what is kept, that a list cut by `UpTo` is full or complete; that a list of lists that is joined has each
  entry of each list; that a set of positions has a first one. These replace induction over lists everywhere else.
* `WatchProofs`, first half. `MergeSeenProperties`: the merged list is typed, bounded by SeenLimit, free of empty ids and
  copies, and invents nothing. Every fetch is newest first whatever lane serves it (`TimelineDescending`); then
  `SelectAccounted`: if the previous state is accounted for by what was delivered, the state `Select` returns is
  accounted for once the selected tweets are delivered. The argument for the dropped overflow needs the order: what
  lies beyond the cap is older than the `MaxNew` tweets that are emitted (`OverflowOvertaken`).
  `IInv` is inductive. `SeenIsAccounted` alone is not: a `Put` writes what `pending` holds, so
  `PendingIsAccounted` says that everything waiting to be persisted is covered by deliveries and by the records
  that are written before it, `BuffersMatchPC` that no record waits when `Put` happens, `StoreAgrees` that the
  previous state the next round reads is the persisted one, and `BucketsDescend` that merged buckets are newest
  first. Theorems: `TypeCorrect`, `NothingIsLostSilently`, `DeferredWritesAreSafe`.
* `WatchProofs`, second half. `DInv` is what deliveries keep. `HeldAreOwn`: whatever is delivered, waiting, remembered or
  prefetched for a source is its own (a merged fetch is divided by author before anything else). `WritesExtend`: a
  state forgets only when it is full, along every chain of writes that wait for one source. `TurnsInOrder` and `RecordsFresh`: no
  record waits that the persisted state remembers, and none waits twice. `PaidFor`, for the sources that fit: the
  deliveries of a tweet, with the one that waits, are at most the interruptions, and one more while it is
  remembered. An interruption between `Write` and `Put` pays for the delivery it repeats; a round that ends turns the
  payment into memory. `HistoryHeld` says that what the first run recorded is in
  every state the source has or will have, unless that state is full. Theorems: `NoStrangers`, `AtMostOncePerStop`,
  `RedeliveryIsPaidFor`, `HistoryIsSilent`, and `ImplementsSubscription`:
  `InitPromised` maps the initial states; `StepPromised` maps `WriteRecord` and `WriteDocument` to a delivery, `Put` to a
  remembering, the first round of a source to its look back, and every other step to a stutter.
* `TransportProofs`: the safety properties are not inductive alone. `CountsMatch` ties the requests sent to the loop
  counter at every point of the loop and bounds the counter by the budget plus the one wait for a 429; `PaceCovered`
  says that whoever sleeps in `pace` holds the mutex and sleeps until the interval is full. A call that ends as exhausted has sent what
  its counter allows, and a download that was streamed has had one body. Theorems:
  `TransportTypes`, `NoRetryStorm`, `ExhaustedIsSpent`, `OneBody`, `PaceIsKept`.
* `RotationProofs`: `CoolingIsSick`, that a cooling instance's last mark is a failure, is inductive with the types; a
  refusal finds every instance cooling. `MarksHold` measures a call: what it has tried either was put back by the success of another caller, or still
  cools, by the cooldown less one attempt for every instance tried since (`Remains`). While somebody is left to try, that is
  more than nothing, so Pick does not return to what was tried. Theorems:
  `RotationTypes`, `Refusals`, `EverybodyAttempted`.
* `DocumentsProofs`: `IInv` adds to the types two facts that meet in `Publish`. `CopyHeld` says that a process that read a
  document and was not overtaken still has what the file says, through the whole write; `NextAgrees` that what
  is about to be published differs from the copy in the entries the command is about. A step of another process
  either leaves the document alone or makes every holder overtaken (`StepCopy`), and leaves everybody else's copy alone
  (`OthersUntouched`). Theorems: `DocumentTypes`, `WholeDocuments`, `CurrentCopies`, and as action properties
  `NoLossWithoutOverlap` and `SeedKeeps`.
* `FetchProofs`: `ScanState` says that the next cursor is among the visited ones and was not sent before, and that a fetch that
  ends well has explained every fault; `CommandState` what lies behind each place of the command (which lanes, whether
  anything was written). They are inductive together with the types, and the types need the lemmas on `Only` and `UpTo`,
  because what a page adds is filtered and cut. Theorems: `TypeCorrect`, `ScansEnd`, `LanesAsSet`, `ExitIsTrue`.
* `DownloadProofs`, first half, is about the directory. `DirState` says that a file in it either has a name and is whole or is the temporary
  file of the process that writes it (or that was killed), whole from `Compare` on; `TaskState` that who is about to
  rename without force did not see the target at its last look. A step of another process touches its own
  temporary file only, but for clean-temp, which may take anybody's. Theorems: `FilesStayWhole` and, as an action property,
  `KeepsFiles`.
* `DownloadProofs`, second half, is about the batch, and begins with what the planning computes for any answers of the services:
  candidates, ranked variants and planned files are of their types, and the chain of a video begins with the link that was chosen and holds
  every other link to it that is no playlist, once, and no playlist at all (`PlanProperties`). `BatchInv` says that a process that works on a file works on a plan of the media it
  found (`PlanState`), and keeps the books (`Ledger`): what is done, reported as failed, and not yet reached make up
  what is due, a file is on one side only, and the count is that of the references that are settled and failed, and one
  more while the current one has failed. Each step moves one file or one reference from what is not reached to
  one side. Theorems: `BooksBalance`, `DownloadTypes`, `AllAccounted`, `TriesEveryLink`.
* `UpdateProofs`: `IInv` joins three things. `Informed`: what an installer was told was on the page, usable, newer than the image
  it runs, and what consent it had. `StagedFor`: the staged file of an installer past its checks is whole, its own, and of
  the release it was told of. `PlacesHold`: only whole programs have one of the two names, and on Windows the one a
  process was started from keeps one of them while the process lives: the system's hold on it stops the
  cleanup and a second backup. Theorems: `TypeCorrect`, `AlwaysAProgram`, `OnlyVerifiedInstalled`, `HighestIsChosen`. At the
  end the order of versions: numbers and identifiers are in order (`NumbersInOrder`, `IdentifiersInOrder`); two lists compared by
  their first difference are, if their entries are (`DecidesOn`: of two first differences the earlier decides, and where a
  list ends before it the length does); so `CompareIsOrder`, without which `Lookup`'s "one that none outranks" would not be what the loop of
  `Check` finds, and `SomeIsHighest`: of a finite page the release that outranks most. `Higher` is the order as semver.org words it,
  written without a comparison function; `CompareIsPrecedence` shows that `Compare` decides it, identifier by identifier and list
  by list, and the two theorems about lookup and installation rest on that.

Only model-checked: the liveness properties (liveness and ENABLED are out of the proof system's reach);
and `MatchesLoops`, the equality of the list operations with the loops of the source, which needs induction over data.

## 11. Not modelled

* HTML and RSS parsers, formatting of records and error envelopes, TOML, archives and version strings: pure decoding
  and encoding without state or order of steps, tested by the repository's fixtures.
* `media --probe` (`media/probe.go`): one ranged request per link, whose failure is ignored and whose result fills two fields
  of a record.
* Release tools: they run in CI and are not part of the program.
* The wording of flags and help, references read from the standard input, the removal of empty directories.
