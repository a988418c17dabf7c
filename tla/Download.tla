------------------------------ MODULE Download ------------------------------
(***************************************************************************)
(* The commands over media: download, its maintenance mode --clean-temp,   *)
(* and media, run by processes that share an output directory.             *)
(*                                                                         *)
(* A file gets its name by a rename; until then it is a temporary file of  *)
(* its process in the same directory.  A process may be killed at any      *)
(* step.                                                                   *)
(***************************************************************************)
EXTENDS MediaPlan

CONSTANTS
    Procs,      \* the processes
    Batches,    \* the invocations they run side by side
    Answers,    \* what the service of each strategy may answer
    OldFiles,   \* the paths of the directory taken before
    Nobody      \* who wrote those

Fields  == {"id", "seq", "user", "kind", "text"}
JobType == [command : {"download", "media", "clean"}, mode : {"human", "json", "ndjson"},
            refs : Seq([id : STRING, user : STRING]), strategies : Seq(Strategies),
            quality : Qualities, kind : Kinds \cup {"any", "cover"},
            onExists : {"refuse", "skip", "overwrite"},
            filename : SUBSET Fields, directory : SUBSET {"id", "user", "kind", "text"},
            everything : BOOLEAN]

ASSUME DownloadAssumption ==
    /\ Batches \subseteq [Procs -> JobType]
    /\ \A strategy \in Strategies : Answers[strategy] \subseteq AnswerType[strategy]
    /\ Nobody \notin Procs
    /\ \A path \in OldFiles : "temp" \notin DOMAIN path
    /\ {".jpg", ".mp4"} \subseteq Exts

VARIABLES
    job,        \* the invocation of each process; no step changes it
    task,       \* where each process is in it
    dir,        \* the files of the directory, by path
    due,        \* what each has taken on: <<i, 0>> the i-th reference, <<i, n>> its n-th file
    rows,       \* what of it it lists as done
    reports,    \* what of it it reports as failed
    cancelled,  \* the processes a signal has cancelled
    pipe,       \* the standard output of each: "open", "closed" or "full"
    exit        \* the exit status of each: -1 while it runs, -9 when it was killed

vars == <<job, task, dir, due, rows, reports, cancelled, pipe, exit>>

(* A path below the output directory.  The parts of a name that its        *)
(* template leaves out are empty; ext is its end, nth the suffix that      *)
(* keeps it apart from an earlier one.                                     *)
Path(folder, name) == [folder |-> folder, name |-> name]
Temp(p)            == [temp |-> p]

(* A file: its writer, the link it came from, whether all of it is there,  *)
(* and the processes that have begun to clean since its last write.        *)
Content(by, link, whole, older) ==
    [by |-> by, link |-> link, whole |-> whole, older |-> older]

TypeOK ==
    /\ job \in Batches
    /\ DOMAIN task = Procs
    /\ \A p \in Procs :
          /\ task[p].pc \in {"start", "ref", "resolve", "target", "fetch", "stream",
                             "compare", "publish", "skip", "row", "print", "sweep", "done"}
          /\ task[p].pc \in {"target", "fetch", "stream", "compare", "publish", "skip", "row"} =>
                /\ task[p].file \in DOMAIN task[p].plan
                /\ task[p].next \in DOMAIN task[p].plan[task[p].file].chain
    /\ \A path \in DOMAIN dir : DOMAIN dir[path] = {"by", "link", "whole", "older"}
    /\ DOMAIN due = Procs /\ DOMAIN rows = Procs /\ DOMAIN reports = Procs
    /\ \A p \in Procs : rows[p] \cup reports[p] \subseteq due[p]
    /\ cancelled \subseteq Procs
    /\ pipe \in [Procs -> {"open", "closed", "full"}]
    /\ exit \in [Procs -> {-9, -1, 0, 1, 2}]

-----------------------------------------------------------------------------
(* The files that have a name. *)
Named == {f \in DOMAIN dir : "temp" \notin DOMAIN f}

Running(p, place) == exit[p] = -1 /\ task[p].pc = place

Goto(p, t) == task' = [task EXCEPT ![p] = t]

End(p, status) ==
    /\ exit' = [exit EXCEPT ![p] = status]
    /\ Goto(p, [task[p] EXCEPT !.pc = "done"])

Write(path, content) ==
    dir' = [f \in DOMAIN dir \cup {path} |-> IF f = path THEN content ELSE dir[f]]

Remove(path) == dir' = [f \in DOMAIN dir \ {path} |-> dir[f]]

(* What is left of a task when it goes to the next reference or file. *)
Idle(p) ==
    [pc |-> "start", ref |-> 1, strategy |-> 1, res |-> <<>>, plan |-> <<>>, file |-> 1,
     next |-> 1, path |-> Temp(p), there |-> {}, used |-> {}, left |-> {},
     failed |-> 0, refFailed |-> FALSE]

NextRef(p, t) ==
    [Idle(p) EXCEPT !.pc = "ref", !.ref = t.ref + 1,
                    !.failed = IF t.refFailed THEN t.failed + 1 ELSE t.failed]

\* Faulty variant.
NextFileOneMore(p, t) ==
    IF t.file =< Len(t.plan)
    THEN [t EXCEPT !.pc = "target", !.file = @ + 1, !.next = 1,
                   !.path = Temp(p), !.there = {}]
    ELSE NextRef(p, t)

NextFile(p, t) ==
    IF t.file < Len(t.plan)
    THEN [t EXCEPT !.pc = "target", !.file = @ + 1, !.next = 1,
                   !.path = Temp(p), !.there = {}]
    ELSE NextRef(p, t)

(* A record on the NDJSON stream, written as soon as it is known.  Its     *)
(* reader may have hung up, which only a failed reference of the media     *)
(* command minds.                                                          *)
Heard(p) == job[p].mode # "ndjson" \/ pipe[p] = "open"

Say(p, failure, t) ==
    IF Heard(p)
    THEN Goto(p, t) /\ UNCHANGED exit
    ELSE End(p, IF pipe[p] = "closed" /\ ~(failure /\ job[p].command = "media") THEN 0 ELSE 1)

Report(p, what, t) ==
    /\ reports' = [reports EXCEPT ![p] = @ \cup {what}]
    /\ Say(p, TRUE, t)

FailingUncounted(t) == t      \* Faulty variant.

Failing(t) == [t EXCEPT !.refFailed = TRUE]

-----------------------------------------------------------------------------
(* The batch.  Flags, references and settings are looked at first, and the *)
(* output directory is made.                                               *)
Refuse(p) ==
    /\ Running(p, "start")
    /\ \E status \in {1, 2} : End(p, status)
    /\ UNCHANGED <<job, dir, due, rows, reports, cancelled, pipe>>

Begin(p) ==
    /\ Running(p, "start")
    /\ job[p].command # "clean"
    /\ due' = [due EXCEPT ![p] = {<<i, 0>> : i \in DOMAIN job[p].refs}]
    /\ Goto(p, [task[p] EXCEPT !.pc = "ref"])
    /\ UNCHANGED <<job, dir, rows, reports, cancelled, pipe, exit>>

TakeRef(p) ==
    /\ Running(p, "ref")
    /\ IF task[p].ref > Len(job[p].refs)
       THEN Goto(p, [task[p] EXCEPT !.pc = "print"]) /\ UNCHANGED exit
       ELSE IF p \in cancelled
       THEN End(p, 1)
       ELSE Goto(p, [task[p] EXCEPT !.pc = "resolve"]) /\ UNCHANGED exit
    /\ UNCHANGED <<job, dir, due, rows, reports, cancelled, pipe>>

(* One reference with its media: the media command lists them, the         *)
(* download command plans its files.                                       *)
Resolved(p, res) ==
    LET t    == task[p]
        plan == PlanDownload(res, job[p].quality, job[p].kind)
        done == [rows EXCEPT ![p] = @ \cup {<<t.ref, 0>>}]
    IN  IF job[p].command = "media"
        THEN /\ rows' = IF Heard(p) THEN done ELSE rows
             /\ Say(p, FALSE, NextRef(p, t))
             /\ UNCHANGED <<due, reports>>
        ELSE IF ~plan.ok
        THEN Report(p, <<t.ref, 0>>, NextRef(p, Failing(t))) /\ UNCHANGED <<due, rows>>
        ELSE IF plan.files = <<>>
        THEN rows' = done /\ Goto(p, NextRef(p, t)) /\ UNCHANGED <<due, reports, exit>>
        ELSE /\ rows' = done
             /\ due' = [due EXCEPT ![p] = @ \cup {<<t.ref, n>> : n \in DOMAIN plan.files}]
             /\ Goto(p, [t EXCEPT !.pc = "target", !.res = res, !.plan = plan.files])
             /\ UNCHANGED <<reports, exit>>

(* ResolveStatus: the first strategy that finds media; one that fails or   *)
(* finds none makes place for the next.                                    *)
ResolveStatus(p) ==
    LET t     == task[p]
        order == job[p].strategies
    IN  /\ Running(p, "resolve")
        /\ IF p \in cancelled \/ t.strategy > Len(order)
           THEN Report(p, <<t.ref, 0>>, NextRef(p, Failing(t))) /\ UNCHANGED <<due, rows>>
           ELSE \/ /\ Goto(p, [t EXCEPT !.strategy = @ + 1])
                   /\ UNCHANGED <<due, rows, reports, exit>>
                \/ \E body \in Answers[order[t.strategy]] :
                      LET res == ResolveOne(order[t.strategy], body, job[p].quality)
                      IN  res # <<>> /\ Resolved(p, res)
        /\ UNCHANGED <<job, dir, cancelled, pipe>>

-----------------------------------------------------------------------------
(* Names. *)
Part(field, fields, value, nothing) == IF field \in fields THEN value ELSE nothing

(* A template with no part at all is none: all goes to one directory.      *)
Folder(p, t) ==
    LET ref == job[p].refs[t.ref]
    IN  [id   |-> Part("id", job[p].directory, ref.id, ""),
         user |-> Part("user", job[p].directory, ref.user, ""),
         kind |-> Part("kind", job[p].directory, t.plan[t.file].kind, ""),
         text |-> "text" \in job[p].directory]

Render(fields, ref, n, file) ==
    [id   |-> Part("id", fields, ref.id, ""),     seq  |-> Part("seq", fields, n, -1),
     user |-> Part("user", fields, ref.user, ""), kind |-> Part("kind", fields, file.kind, ""),
     text |-> "text" \in fields, ext |-> file.ext, nth |-> 1]

(* A cover has a name of its own.  A template that renders nothing gives   *)
(* way to the default one.                                                 *)
FilenameFor(p, t) ==
    LET file  == t.plan[t.file]
        ref   == job[p].refs[t.ref]
        blank == /\ job[p].filename \subseteq {"user"}
                 /\ "user" \in job[p].filename => ref.user = ""
                 /\ file.ext = NoExt
    IN  IF file.kind = "cover" THEN Render({"id", "kind"}, ref, 0, file)
        ELSE Render(IF blank THEN {"id", "seq"} ELSE job[p].filename, ref, t.file, file)

(* Two files of one reference get different names, as far as they are      *)
(* known: the end of one may only come with the response.                  *)
Unused(name, used) ==
    IF name \notin used THEN name
    ELSE LET Nth(n) == [name EXCEPT !.nth = n]
             free   == {n \in 2..(Cardinality(used) + 2) : Nth(n) \notin used}
         IN  Nth(CHOOSE n \in free : \A m \in free : n =< m)

ExtKnown(t) == t.plan[t.file].ext # NoExt

Target(p) ==
    LET t    == task[p]
        name == Unused(FilenameFor(p, t), t.used)
    IN  /\ Running(p, "target")
        /\ \/ /\ job[p].directory # {}
              /\ Report(p, <<t.ref, t.file>>, NextFile(p, Failing(t)))
           \/ /\ Goto(p, [t EXCEPT !.pc = "fetch", !.path = Path(Folder(p, t), name),
                                   !.used = @ \cup {name}])
              /\ UNCHANGED <<reports, exit>>
        /\ UNCHANGED <<job, dir, due, rows, cancelled, pipe>>

-----------------------------------------------------------------------------
(* The downloader: one link of a file at a time. *)
Link(t) == t.plan[t.file].chain[t.next]

Forced(p) == job[p].onExists = "overwrite"

(* Its own temporary file can be removed.                                  *)
Discard(p) == Remove(Temp(p))

(* This link fails: the next one of the chain, or the file has failed. *)
LinkFails(p) ==
    LET t == task[p]
    IN  IF t.next < Len(t.plan[t.file].chain)
        THEN Goto(p, [t EXCEPT !.pc = "fetch", !.next = @ + 1]) /\ UNCHANGED <<reports, exit>>
        ELSE Report(p, <<t.ref, t.file>>, NextFile(p, Failing(t)))

(* The file is there: no other link is tried. *)
Exists(p) ==
    LET t == task[p]
    IN  IF job[p].onExists = "skip"
        THEN Goto(p, [t EXCEPT !.pc = "skip"]) /\ UNCHANGED <<reports, exit>>
        ELSE Report(p, <<t.ref, t.file>>, NextFile(p, Failing(t)))

(* FetchToFile looks for the file before it downloads.  FetchToFileAuto    *)
(* does not know its name yet.                                             *)
Fetch(p) ==
    LET t == task[p]
    IN  /\ Running(p, "fetch")
        /\ IF p \notin cancelled /\ ExtKnown(t) /\ ~Forced(p) /\ t.path \in DOMAIN dir
           THEN Exists(p) /\ UNCHANGED dir
           ELSE \/ LinkFails(p) /\ UNCHANGED dir
                \/ /\ p \notin cancelled
                   /\ Write(Temp(p), Content(p, Link(t), FALSE, {}))
                   /\ Goto(p, [t EXCEPT !.pc = "stream", !.there = Named])
                   /\ UNCHANGED <<reports, exit>>
        /\ UNCHANGED <<job, due, rows, cancelled, pipe>>

ExtFromContentType(t, type) ==
    IF type # NoExt THEN type
    ELSE IF t.plan[t.file].kind \in {"video", "gif"} THEN ".mp4" ELSE ".jpg"

(* Writing goes on when the temporary file has been removed. *)
StreamTo(p) ==
    LET t == task[p]
    IN  /\ Running(p, "stream")
        /\ \/ /\ dir' = [f \in DOMAIN dir |->
                           IF f = Temp(p) THEN Content(p, Link(t), TRUE, {}) ELSE dir[f]]
              /\ IF ExtKnown(t)
                 THEN Goto(p, [t EXCEPT !.pc = "publish"])
                 ELSE \E type \in Exts \cup {NoExt} :
                        Goto(p, [t EXCEPT !.pc = "compare",
                                          !.path.name.ext = ExtFromContentType(t, type)])
              /\ UNCHANGED <<reports, exit>>
           \/ Discard(p) /\ LinkFails(p)
        /\ UNCHANGED <<job, due, rows, cancelled, pipe>>

\* Faulty variant.
CompareTooSoon(p) ==
    /\ Running(p, "compare")
    /\ Goto(p, [task[p] EXCEPT !.pc = "publish"])
    /\ UNCHANGED <<job, dir, due, rows, reports, cancelled, pipe, exit>>

(* FetchToFileAuto looks for the file when it knows its name. *)
Compare(p) ==
    LET t == task[p]
    IN  /\ Running(p, "compare")
        /\ IF ~Forced(p) /\ t.path \in DOMAIN dir
           THEN Discard(p) /\ Exists(p)
           ELSE \/ ~Forced(p) /\ Discard(p) /\ LinkFails(p)
                \/ /\ Goto(p, [t EXCEPT !.pc = "publish", !.there = Named])
                   /\ UNCHANGED <<dir, reports, exit>>
        /\ UNCHANGED <<job, due, rows, cancelled, pipe>>

\* Faulty variant.
PublishDirty(p) ==
    LET t == task[p]
    IN  /\ Running(p, "publish")
        /\ \/ /\ Temp(p) \in DOMAIN dir
              /\ dir' = [f \in (DOMAIN dir \ {Temp(p)}) \cup {t.path} |->
                           IF f = t.path THEN dir[Temp(p)] ELSE dir[f]]
              /\ Goto(p, [t EXCEPT !.pc = "row"])
              /\ UNCHANGED <<reports, exit>>
           \/ UNCHANGED dir /\ LinkFails(p)
        /\ UNCHANGED <<job, due, rows, cancelled, pipe>>

(* Sync, close and rename. *)
Publish(p) ==
    LET t == task[p]
    IN  /\ Running(p, "publish")
        /\ \/ /\ Temp(p) \in DOMAIN dir
              /\ dir' = [f \in (DOMAIN dir \ {Temp(p)}) \cup {t.path} |->
                           IF f = t.path THEN dir[Temp(p)] ELSE dir[f]]
              /\ Goto(p, [t EXCEPT !.pc = "row"])
              /\ UNCHANGED <<reports, exit>>
           \/ Discard(p) /\ LinkFails(p)
        /\ UNCHANGED <<job, due, rows, cancelled, pipe>>

(* skipRecord looks at the file once more, for its size. *)
SkipRecord(p) ==
    LET t == task[p]
    IN  /\ Running(p, "skip")
        /\ \/ /\ t.path \in DOMAIN dir
              /\ Goto(p, [t EXCEPT !.pc = "row"])
              /\ UNCHANGED <<reports, exit>>
           \/ Report(p, <<t.ref, t.file>>, NextFile(p, Failing(t)))
        /\ UNCHANGED <<job, dir, due, rows, cancelled, pipe>>

Row(p) ==
    LET t == task[p]
    IN  /\ Running(p, "row")
        /\ rows' = IF Heard(p) THEN [rows EXCEPT ![p] = @ \cup {<<t.ref, t.file>>}] ELSE rows
        /\ Say(p, FALSE, NextFile(p, t))
        /\ UNCHANGED <<job, dir, due, reports, cancelled, pipe>>

(* The rows for a person and the one JSON document come last. *)
Finish(p) ==
    LET said == \/ job[p].mode = "ndjson"
                \/ pipe[p] = "open"
                \/ /\ job[p].mode = "human"
                   /\ \A r \in rows[p] : r[2] = 0 /\ job[p].command = "download"
    IN  /\ Running(p, "print")
        /\ End(p, IF said /\ task[p].failed = 0 THEN 0 ELSE 1)
        /\ UNCHANGED <<job, dir, due, rows, reports, cancelled, pipe>>

-----------------------------------------------------------------------------
(* download --clean-temp: what was last written before it began, and long  *)
(* enough ago.  A window of 0s takes everything.                           *)
SweepBegin(p) ==
    /\ Running(p, "start")
    /\ job[p].command = "clean"
    /\ dir' = [f \in DOMAIN dir |-> [dir[f] EXCEPT !.older = @ \cup {p}]]
    /\ Goto(p, [task[p] EXCEPT
          !.pc = "sweep",
          !.left = {f \in DOMAIN dir : job[p].everything \/ dir[f].by = Nobody}])
    /\ UNCHANGED <<job, due, rows, reports, cancelled, pipe, exit>>

Sweep(p) ==
    LET t == task[p]
    IN  /\ Running(p, "sweep")
        /\ \E f \in t.left :
              LET met == [t EXCEPT !.left = @ \ {f}]
                  bad == [met EXCEPT !.failed = @ + 1]
              IN  IF f \notin DOMAIN dir
                  THEN Goto(p, bad) /\ UNCHANGED dir
                  ELSE IF p \notin dir[f].older
                  THEN Goto(p, met) /\ UNCHANGED dir
                  ELSE \/ Remove(f) /\ Goto(p, met)
                       \/ Goto(p, bad) /\ UNCHANGED dir
        /\ UNCHANGED <<job, due, rows, reports, cancelled, pipe, exit>>

SweepEnd(p) ==
    /\ Running(p, "sweep")
    /\ task[p].left = {}
    /\ End(p, IF task[p].failed > 0 THEN 1 ELSE 0)
    /\ UNCHANGED <<job, dir, due, rows, reports, cancelled, pipe>>

-----------------------------------------------------------------------------
(* A cleaning process looks neither at its context nor at its output. *)
Cancel(p) ==
    /\ exit[p] = -1 /\ p \notin cancelled /\ job[p].command # "clean"
    /\ cancelled' = cancelled \cup {p}
    /\ UNCHANGED <<job, task, dir, due, rows, reports, pipe, exit>>

PipeBreaks(p) ==
    /\ exit[p] = -1 /\ pipe[p] = "open" /\ job[p].command # "clean"
    /\ \E end \in {"closed", "full"} : pipe' = [pipe EXCEPT ![p] = end]
    /\ UNCHANGED <<job, task, dir, due, rows, reports, cancelled, exit>>

Kill(p) ==
    /\ exit[p] = -1
    /\ End(p, -9)
    /\ UNCHANGED <<job, dir, due, rows, reports, cancelled, pipe>>

Init ==
    /\ job \in Batches
    /\ task = [p \in Procs |-> Idle(p)]
    /\ dir = [f \in OldFiles |-> Content(Nobody, NoLink, TRUE, {})]
    /\ due = [p \in Procs |-> {}]
    /\ rows = [p \in Procs |-> {}]
    /\ reports = [p \in Procs |-> {}]
    /\ cancelled = {}
    /\ pipe = [p \in Procs |-> "open"]
    /\ exit = [p \in Procs |-> -1]

Next ==
    \E p \in Procs :
        \/ Refuse(p) \/ Begin(p) \/ TakeRef(p) \/ ResolveStatus(p)
        \/ Target(p) \/ Fetch(p) \/ StreamTo(p) \/ Compare(p) \/ Publish(p)
        \/ SkipRecord(p) \/ Row(p) \/ Finish(p)
        \/ SweepBegin(p) \/ Sweep(p) \/ SweepEnd(p)
        \/ Cancel(p) \/ PipeBreaks(p) \/ Kill(p)

Spec == Init /\ [][Next]_vars

-----------------------------------------------------------------------------
(* What has a name is whole, whatever became of the process that wrote it; *)
(* and a process that ends by itself leaves no temporary file, on any of   *)
(* its error paths.  (downloader.go: FetchToFile, FetchToFileAuto)         *)
FilesWhole ==
    \A f \in DOMAIN dir :
        \/ dir[f].whole /\ f \in Named
        \/ \E p \in Procs : f = Temp(p) /\ exit[p] \in {-1, -9}

(* Without --on-exists overwrite a file is replaced only when it was not   *)
(* there at the last look, so by its own process never: two files of a     *)
(* batch whose names come to be the same, by the type of a response or a   *)
(* reference given twice, do not cost one of them.  Only a cleaning        *)
(* process removes a file.  (downloader.go:195 and 296, templates.go:340)  *)
KeepsWhatItSaw ==
    [][\A f \in Named :
          \/ f \in Named' /\ [dir'[f] EXCEPT !.older = {}] = [dir[f] EXCEPT !.older = {}]
          \/ \E p \in Procs :
                IF f \in Named'
                THEN dir'[f].by = p /\ (Forced(p) \/ f \notin task[p].there)
                ELSE job[p].command = "clean" /\ f \in task[p].left]_vars

(* Each reference, and each file planned for it, ends up done or failed,   *)
(* and not both; the exit status and the count in the summary tell how     *)
(* many failed.  What a batch may leave open is what it was cancelled in,  *)
(* or could not write.  (download.go: runBatch; media.go: run)             *)
RefsAccounted ==
    \A p \in Procs :
        /\ rows[p] \cap reports[p] = {}
        /\ exit[p] = 0 =>
              \/ due[p] = rows[p]
              \/ pipe[p] = "closed" /\ job[p].mode = "ndjson"
        /\ exit[p] = 1 /\ pipe[p] = "open" /\ p \notin cancelled /\ due[p] # {} =>
              /\ due[p] = rows[p] \cup reports[p]
              /\ task[p].failed = Cardinality({r[1] : r \in reports[p]})
              /\ task[p].failed > 0

(* The links that lead to the moving media of a status. *)
LinksOf(p) ==
    {link \in Links :
        \E i \in DOMAIN task[p].res :
            LET m == task[p].res[i]
            IN  /\ Moving(m) /\ job[p].kind \in {"any", m.kind}
                /\ ~link.playlist
                /\ \/ \E k \in DOMAIN m.variants : m.variants[k].url = link /\ ~m.variants[k].hls
                   \/ m.variants = <<>> /\ m.url = link}

(* A video is reported as failed only when every link to it has been       *)
(* tried, each once and none that leads to a playlist; unless its file     *)
(* exists or the batch was cancelled.  (selection.go: planConverged,       *)
(* fallbackChain; download.go: fetchFile)                                  *)
ChainExhausted ==
    [][\A p \in Procs :
          LET t     == task[p]
              chain == t.plan[t.file].chain
          IN  (/\ t.pc \in {"fetch", "stream", "compare", "publish"}
               /\ reports'[p] # reports[p]
               /\ p \notin cancelled
               /\ Forced(p) \/ t.path \notin DOMAIN dir
               /\ t.plan[t.file].kind \in {"video", "gif"})
              => /\ t.next = Len(chain)
                 /\ LinksOf(p) \subseteq Range(chain)
                 /\ \A i, j \in DOMAIN chain : i # j => chain[i] # chain[j]
                 /\ \A i \in DOMAIN chain : ~Playlist(chain[i])]_vars

-----------------------------------------------------------------------------
(* What the steps keep, for the proofs: the shape of the records, ...      *)
IsTask(t) ==
    DOMAIN t = {"pc", "ref", "strategy", "res", "plan", "file", "next", "path", "there",
                "used", "left", "failed", "refFailed"}

IsPath(f)    == f = Path(f.folder, f.name)
IsContent(c) == DOMAIN c = {"by", "link", "whole", "older"}

(* ... that a process knows the path of its file, that it was not there   *)
(* at the last look, that only clean-temp removes what has a name, ...     *)
Fits(p, t) ==
    /\ IsTask(t)
    /\ t.pc \in {"fetch", "stream", "compare", "publish", "skip", "row"} => IsPath(t.path)
    /\ t.pc = "publish" \/ (t.pc = "stream" /\ ExtKnown(t)) =>
          Forced(p) \/ t.path \notin t.there
    /\ t.pc = "sweep" => job[p].command = "clean"

TaskState == \A p \in Procs : Fits(p, task[p])

(* ... and what the directory holds: whole files, and the temporary ones   *)
(* of processes that write one, whole when it is about to be renamed.      *)
DirState ==
    \A f \in DOMAIN dir :
        /\ IsContent(dir[f])
        /\ f \in Named => dir[f].whole
        /\ f \notin Named =>
              \E p \in Procs :
                  /\ f = Temp(p)
                  /\ dir[f].by = p
                  /\ \/ exit[p] = -9
                     \/ exit[p] = -1 /\ task[p].pc \in {"stream", "compare", "publish"}
                  /\ task[p].pc \in {"compare", "publish"} => dir[f].whole

IInv ==
    /\ task \in [Procs -> {task[p] : p \in Procs}]
    /\ exit \in [Procs -> {-9, -1, 0, 1, 2}]
    /\ TaskState
    /\ DirState

-----------------------------------------------------------------------------
(* What the steps keep of a batch, for the proofs of TypeOK,               *)
(* RefsAccounted and ChainExhausted: the plan a process works on is that   *)
(* of the media it found, ...                                              *)
FilePCs == {"target", "fetch", "stream", "compare", "publish", "skip", "row"}
TaskPCs == FilePCs \cup {"start", "ref", "resolve", "print", "sweep", "done"}

PlanState(p, t) ==
    t.pc \in FilePCs =>
        /\ t.res \in Seq(EntryType(LinkType))
        /\ PlanDownload(t.res, job[p].quality, job[p].kind).ok
        /\ t.plan = PlanDownload(t.res, job[p].quality, job[p].kind).files
        /\ t.file \in DOMAIN t.plan
        /\ t.next \in DOMAIN t.plan[t.file].chain

(* ... and the references and files that are neither done nor failed are   *)
(* those it has not come to, and a reference with a failure is counted     *)
(* when it is left.  Of n references, d are due, w done and r reported.    *)
Failed(r) == {x[1] : x \in r}

Account(n, d, w, r, t) ==
    LET open      == d \ (w \cup r)
        From(i)   == {<<a, 0>> : a \in i..n}
        Before(i) == \A x \in w \cup r : x[1] < i
    IN  /\ t.pc \in {"start", "sweep"} => d = {}
        /\ t.pc \in {"start", "ref", "resolve"} =>
              /\ t.ref \in 1..(n + 1)
              /\ t.strategy \in Nat \ {0} /\ t.file = 1 /\ t.next = 1
              /\ t.failed = Cardinality(Failed(r)) /\ ~t.refFailed
        /\ t.pc \in {"ref", "resolve"} => open = From(t.ref) /\ Before(t.ref)
        /\ t.pc = "start" => t.ref = 1
        /\ t.pc = "resolve" => t.ref =< n
        /\ t.pc \in FilePCs =>
              /\ t.ref \in 1..n
              /\ open = From(t.ref + 1) \cup {<<t.ref, k>> : k \in t.file..Len(t.plan)}
              /\ Before(t.ref + 1)
              /\ t.failed = Cardinality(Failed(r) \ {t.ref})
              /\ t.refFailed <=> t.ref \in Failed(r)
        /\ t.pc = "print" => open = {} /\ t.failed = Cardinality(Failed(r))

Ledger(n, d, w, r) ==
    /\ w \cup r \subseteq d
    /\ w \cap r = {}
    /\ d \subseteq (1..n) \X Nat

Books(p, d, w, r, t, status) ==
    /\ Ledger(Len(job[p].refs), d, w, r)
    /\ status = -1 => Account(Len(job[p].refs), d, w, r, t)
    /\ status = 0 => d = w \/ (pipe[p] = "closed" /\ job[p].mode = "ndjson")
    /\ status = 1 =>
          \/ pipe[p] # "open" \/ p \in cancelled \/ d = {}
          \/ d = w \cup r /\ t.failed = Cardinality(Failed(r)) /\ t.failed > 0

BatchInv ==
    /\ job \in Batches
    /\ due \in [Procs -> SUBSET (Nat \X Nat)]
    /\ rows \in [Procs -> SUBSET (Nat \X Nat)]
    /\ reports \in [Procs -> SUBSET (Nat \X Nat)]
    /\ cancelled \subseteq Procs
    /\ pipe \in [Procs -> {"open", "closed", "full"}]
    /\ \A p \in Procs :
          /\ task[p].pc \in TaskPCs
          /\ PlanState(p, task[p])
          /\ Books(p, due[p], rows[p], reports[p], task[p], exit[p])
=============================================================================
