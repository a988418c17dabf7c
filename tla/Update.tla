------------------------------- MODULE Update -------------------------------
(***************************************************************************)
(* nitter update (internal/update and its command): processes that look    *)
(* for a newer release and put it in the place of the executable they were *)
(* started from, side by side, and that may be killed at any step.         *)
(*                                                                         *)
(* On Windows a running executable can be renamed, but neither removed nor *)
(* overwritten, and the replacement is two renames that may stop between.  *)
(***************************************************************************)
EXTENDS Semver, FiniteSets

CONSTANTS
    Procs,          \* the processes, each one run of the command at most
    Nobody,         \* who wrote the first executable
    Scenarios,      \* the invocations, and what they find (ScenarioType)
    Versions        \* what the tags and the programs may say

Sources == {"development", "unknown", "go install", "archive"}

(* A release: what its assets are, and what arrives when they are fetched. *)
(* A body is known by its digest; entries are the files of the wanted name *)
(* in it, with the version they report.                                    *)
Bodies   == [digest : STRING, entries : Seq([regular : BOOLEAN, version : Versions])]
Releases == [tag : Versions, draft : BOOLEAN, prerelease : BOOLEAN,
             urls : {"official", "foreign", "missing"},
             sums : {"listed", "unlisted", "malformed"},
             digest : STRING, bodies : SUBSET Bodies]

JobType == [check : BOOLEAN, prerelease : BOOLEAN, json : BOOLEAN, confirm : BOOLEAN,
            tty : BOOLEAN]

ScenarioType == [windows : BOOLEAN, source : Sources, current : Versions,
                 jobs : UNION {[S -> JobType] : S \in SUBSET Procs},
                 page : SUBSET Releases, later : SUBSET Releases]

ASSUME UpdateAssumption ==
    /\ Scenarios \subseteq ScenarioType
    /\ Versions \subseteq ParsedVersions
    /\ Nobody \notin Procs

VARIABLES
    world,      \* the scenario; no step changes it
    page,       \* the releases on the first page of the API
    files,      \* the directory of the executable, by path
    task,       \* where each process is
    exit        \* its exit status: -1 before it ends, -9 when it was killed

vars == <<world, page, files, task, exit>>

Exe       == [name |-> "exe", of |-> Nobody]
Old       == [name |-> "old", of |-> Nobody]
Staged(p) == [name |-> "stage", of |-> p]

(* An executable: who wrote it from which archive, its version, and        *)
(* whether all of it is there.                                             *)
Binary(by, digest, version, whole) ==
    [by |-> by, digest |-> digest, version |-> version, whole |-> whole]

NoRelease == [tag |-> Invalid]

Idle(image) == [pc |-> "off", image |-> image, latest |-> NoRelease, outdated |-> FALSE]

Places == {"off", "cleanup", "flags", "lookup", "report", "consent", "download", "stage",
           "verify", "replace", "swap", "move", "installed", "done"}

TypeOK ==
    /\ page \subseteq world.page \cup world.later
    /\ DOMAIN files \subseteq {Exe, Old} \cup {Staged(p) : p \in Procs}
    /\ \A f \in DOMAIN files : files[f].by \in Procs \cup {Nobody} /\ files[f].whole \in BOOLEAN
    /\ ~world.windows => Old \notin DOMAIN files
    /\ \A p \in Procs :
          /\ task[p].pc \in Places
          /\ task[p].pc \in Places \ {"off", "cleanup", "flags", "lookup", "report", "done"} =>
                task[p].outdated /\ task[p].latest \in page
    /\ exit \in [Procs -> {-9, -1, 0, 1, 2}]

-----------------------------------------------------------------------------
Alive(p) == exit[p] = -1 /\ task[p].pc # "off"

At(p, place) == exit[p] = -1 /\ task[p].pc = place

Goto(p, place) == task' = [task EXCEPT ![p].pc = place]

End(p, status) ==
    /\ exit' = [exit EXCEPT ![p] = status]
    /\ Goto(p, "done")

Without(paths) == [f \in DOMAIN files \ paths |-> files[f]]

Put(path, binary) ==
    [f \in DOMAIN files \cup {path} |-> IF f = path THEN binary ELSE files[f]]

Rename(from, to) ==
    [f \in (DOMAIN files \ {from}) \cup {to} |-> IF f = to THEN files[from] ELSE files[f]]

(* The system holds on to the file a process was started from. *)
Locked(path) == \E p \in Procs : Alive(p) /\ files[path].by = task[p].image.by

(* An error after staging: the deferred removal takes the staged file. *)
Fails(p) ==
    /\ files' = Without({Staged(p)})
    /\ End(p, 1)

-----------------------------------------------------------------------------
Start(p) ==
    /\ At(p, "off") /\ p \in DOMAIN world.jobs
    /\ Exe \in DOMAIN files
    /\ task' = [task EXCEPT ![p] = [Idle(files[Exe]) EXCEPT !.pc = "cleanup"]]
    /\ UNCHANGED <<world, page, files, exit>>

(* Whether the backup is found depends on the links the program was        *)
(* started through; what cannot be removed stays.                          *)
CleanupPendingUpdate(p) ==
    /\ At(p, "cleanup")
    /\ \/ /\ world.windows /\ Old \in DOMAIN files /\ ~Locked(Old)
          /\ files' = Without({Old})
       \/ UNCHANGED files
    /\ Goto(p, "flags")
    /\ UNCHANGED <<world, page, exit>>

Misused(job) ==
    IF job.check THEN job.confirm ELSE job.json \/ job.prerelease

Flags(p) ==
    /\ At(p, "flags")
    /\ IF Misused(world.jobs[p]) THEN End(p, 2)
       ELSE IF world.source = "development" THEN End(p, 0)
       ELSE Goto(p, "lookup") /\ UNCHANGED exit
    /\ UNCHANGED <<world, page, files>>

(* The settings or the proxy are refused, or the service has no answer. *)
Refuse(p) ==
    /\ exit[p] = -1 /\ task[p].pc \in {"lookup", "consent"}
    /\ \E status \in {1, 2} : End(p, status)
    /\ UNCHANGED <<world, page, files>>

Candidates(releases, includePrerelease) ==
    {r \in releases : ~r.draft /\ (r.prerelease => includePrerelease) /\ r.tag.valid}

(* Check: the highest version, not the latest date; of equals, any. *)
Lookup(p) ==
    LET usable == Candidates(page, world.jobs[p].prerelease)
    IN  /\ At(p, "lookup")
        /\ IF usable = {}
           THEN End(p, 1)
           ELSE \E r \in usable :
                   /\ \A other \in usable : Compare(other.tag, r.tag) =< 0
                   /\ task' = [task EXCEPT ![p].pc = "report", ![p].latest = r,
                        ![p].outdated = Compare(r.tag, task[p].image.version) > 0]
                   /\ UNCHANGED exit
        /\ UNCHANGED <<world, page, files>>

\* Faulty variant.
ReportReinstalls(p) ==
    LET job == world.jobs[p]
    IN  /\ At(p, "report")
        /\ \/ job.check /\ End(p, 0)
           \/ /\ ~job.check
              /\ IF world.source = "archive" THEN Goto(p, "consent") /\ UNCHANGED exit
                 ELSE End(p, 1)
        /\ UNCHANGED <<world, page, files>>

(* The comparison is all that --check reports; its JSON may fail to be     *)
(* written.                                                                *)
Report(p) ==
    LET job == world.jobs[p]
    IN  /\ At(p, "report")
        /\ \/ job.check /\ End(p, 0)
           \/ job.check /\ job.json /\ End(p, 1)
           \/ ~job.check /\ ~task[p].outdated /\ End(p, 0)
           \/ /\ ~job.check /\ task[p].outdated
              /\ IF world.source = "archive" THEN Goto(p, "consent") /\ UNCHANGED exit
                 ELSE End(p, 1)
        /\ UNCHANGED <<world, page, files>>

(* Only a terminal is asked; nothing is read from a pipe. *)
AskToInstall(p) ==
    LET job == world.jobs[p]
    IN  /\ At(p, "consent")
        /\ \/ /\ job.confirm \/ job.tty
              /\ Goto(p, "download") /\ UNCHANGED exit
           \/ ~job.confirm /\ End(p, 0)
           \/ ~job.confirm /\ job.tty /\ End(p, 1)
        /\ UNCHANGED <<world, page, files>>

-----------------------------------------------------------------------------
(* Install. *)
DownloadUnchecked(p) ==             \* Faulty variant.
    LET rel == task[p].latest
    IN  /\ At(p, "download")
        /\ \/ End(p, 1) /\ UNCHANGED files
           \/ \E body \in rel.bodies :
                 /\ Len(body.entries) = 1 /\ body.entries[1].regular
                 /\ files' = Put(Staged(p), Binary(p, body.digest, body.entries[1].version, FALSE))
                 /\ Goto(p, "stage") /\ UNCHANGED exit
        /\ UNCHANGED <<world, page>>

(* Both assets come from the official place, the archive is the one the    *)
(* checksums list, and there is one regular file of the name in it; only   *)
(* then is a file made beside the executable.                              *)
Download(p) ==
    LET rel == task[p].latest
    IN  /\ At(p, "download")
        /\ \/ End(p, 1) /\ UNCHANGED files
           \/ \E body \in rel.bodies :
                 /\ rel.urls = "official" /\ rel.sums = "listed"
                 /\ body.digest = rel.digest
                 /\ Len(body.entries) = 1 /\ body.entries[1].regular
                 /\ files' = Put(Staged(p), Binary(p, body.digest, body.entries[1].version, FALSE))
                 /\ Goto(p, "stage") /\ UNCHANGED exit
        /\ UNCHANGED <<world, page>>

Stage(p) ==
    /\ At(p, "stage")
    /\ \/ /\ files' = [files EXCEPT ![Staged(p)].whole = TRUE]
          /\ Goto(p, "verify") /\ UNCHANGED exit
       \/ Fails(p)
    /\ UNCHANGED <<world, page>>

(* The staged program is run, and has to report the version of the tag.    *)
(* On Windows a first look for the executable decides how to replace it.   *)
VerifyStagedVersion(p) ==
    /\ At(p, "verify")
    /\ \/ /\ files[Staged(p)].version = task[p].latest.tag
          /\ Goto(p, "replace") /\ UNCHANGED <<files, exit>>
       \/ Fails(p)
    /\ UNCHANGED <<world, page>>

\* Faulty variant.
ReplaceUnixCopies(p) ==
    /\ At(p, "replace") /\ ~world.windows
    /\ \/ files' = Put(Exe, [files[Staged(p)] EXCEPT !.whole = FALSE]) /\ Goto(p, "installed")
          /\ UNCHANGED exit
       \/ Fails(p)
    /\ UNCHANGED <<world, page>>

ReplaceUnix(p) ==
    /\ At(p, "replace") /\ ~world.windows
    /\ \/ files' = Rename(Staged(p), Exe) /\ Goto(p, "installed") /\ UNCHANGED exit
       \/ Fails(p)
    /\ UNCHANGED <<world, page>>

(* A plain move where there is no executable, a refusal where there is a   *)
(* backup, and otherwise ReplaceFileW.                                     *)
ReplaceWindows(p) ==
    /\ At(p, "replace") /\ world.windows
    /\ \/ /\ Goto(p, IF Exe \notin DOMAIN files THEN "move" ELSE "swap")
          /\ Exe \in DOMAIN files => Old \notin DOMAIN files
          /\ UNCHANGED <<files, exit>>
       \/ Fails(p)
    /\ UNCHANGED <<world, page>>

(* MoveFileEx, or the second rename of ReplaceFileW: not over a file.      *)
MoveFile(p) ==
    /\ At(p, "move")
    /\ \/ /\ Exe \notin DOMAIN files
          /\ files' = Rename(Staged(p), Exe) /\ Goto(p, "installed") /\ UNCHANGED exit
       \/ Fails(p)
    /\ UNCHANGED <<world, page>>

(* Its first one makes the backup, over an earlier one if need be.         *)
ReplaceFileW(p) ==
    /\ At(p, "swap")
    /\ \/ /\ Exe \in DOMAIN files
          /\ Old \in DOMAIN files => ~Locked(Old)
          /\ files' = Rename(Exe, Old) /\ Goto(p, "move") /\ UNCHANGED exit
       \/ Fails(p)
    /\ UNCHANGED <<world, page>>

Installed(p) ==
    /\ At(p, "installed")
    /\ End(p, 0)
    /\ UNCHANGED <<world, page, files>>

-----------------------------------------------------------------------------
(* Nothing removes the staged file of a process that is killed. *)
Kill(p) ==
    /\ Alive(p)
    /\ End(p, -9)
    /\ UNCHANGED <<world, page, files>>

Publish ==
    /\ \E r \in world.later \ page : page' = page \cup {r}
    /\ UNCHANGED <<world, files, task, exit>>

Init ==
    /\ world \in Scenarios
    /\ page = world.page
    /\ files = [f \in {Exe} |-> Binary(Nobody, "first", world.current, TRUE)]
    /\ task = [p \in Procs |-> Idle(Binary(Nobody, "first", world.current, TRUE))]
    /\ exit = [p \in Procs |-> -1]

Next ==
    \/ \E p \in Procs :
          \/ Start(p) \/ CleanupPendingUpdate(p) \/ Flags(p) \/ Refuse(p) \/ Lookup(p)
          \/ Report(p) \/ AskToInstall(p) \/ Download(p) \/ Stage(p) \/ VerifyStagedVersion(p)
          \/ ReplaceUnix(p) \/ ReplaceWindows(p) \/ ReplaceFileW(p) \/ MoveFile(p)
          \/ Installed(p) \/ Kill(p)
    \/ Publish

Spec == Init /\ [][Next]_vars

-----------------------------------------------------------------------------
(* However updates overlap, fail or are killed, a whole program is in its  *)
(* place, or, on Windows only, beside it as the backup: a later cleanup    *)
(* never takes the only copy.  (replace_windows.go, replace_unix.go)       *)
BinarySurvives ==
    \/ Exe \in DOMAIN files /\ files[Exe].whole
    \/ /\ world.windows /\ Exe \notin DOMAIN files
       /\ Old \in DOMAIN files /\ files[Old].whole

(* The program in place only changes to a whole one of the release that    *)
(* its installer was told of, from the archive the checksums list, newer   *)
(* than the one the installer was started from, with consent, and never    *)
(* where go install put it.  (install.go: Install; update.go: runInstall)  *)
InstallsVerified ==
    [][\A p \in Procs :
          LET new == files'[Exe]
              job == world.jobs[p]
              rel == task[p].latest
          IN  /\ Exe \in DOMAIN files'
              /\ new.by = p
              /\ Exe \in DOMAIN files => files[Exe].by # p
              => /\ new.whole
                 /\ new.version = rel.tag
                 /\ new.digest = rel.digest
                 /\ Higher(rel.tag, task[p].image.version)
                 /\ ~rel.draft /\ ~rel.prerelease
                 /\ ~job.check /\ (job.confirm \/ job.tty) /\ world.source = "archive"]_vars

(* A lookup ends with a release that no usable one on the page outranks,   *)
(* and says "outdated" exactly when it outranks the running version; the   *)
(* order is the one that semver.org spells out.  (semver.go: Compare;      *)
(* release.go: Check)                                                      *)
LatestIsHighest ==
    [][\A p \in Procs :
          At(p, "lookup") /\ task'[p].pc = "report" =>
            LET latest == task'[p].latest
            IN  /\ latest \in page /\ ~latest.draft
                /\ \A r \in page :
                      \/ r.draft \/ ~r.tag.valid
                      \/ r.prerelease /\ ~world.jobs[p].prerelease
                      \/ ~Higher(r.tag, latest.tag)
                /\ task'[p].outdated <=>
                      Higher(latest.tag, task[p].image.version)]_vars

-----------------------------------------------------------------------------
(* What the steps keep, for the proofs. *)
Binaries == [by : Procs \cup {Nobody}, digest : STRING \cup {"first"}, version : Versions,
             whole : BOOLEAN]

Tasks == [pc : Places, image : Binaries, latest : Releases \cup {NoRelease},
          outdated : BOOLEAN]

Installing == {"consent", "download", "stage", "verify", "replace", "swap", "move", "installed"}

(* What a process was told before it comes to where it is: the flags, the  *)
(* release and whether it is newer, the consent.                           *)
Informed(p) ==
    LET t   == task[p]
        job == world.jobs[p]
    IN  /\ t.pc \notin {"off", "done"} => p \in DOMAIN world.jobs
        /\ t.pc \in {"lookup", "report"} \cup Installing => ~Misused(job)
        /\ t.pc \in {"report"} \cup Installing =>
              /\ t.latest \in Candidates(page, job.prerelease)
              /\ t.outdated <=> Compare(t.latest.tag, t.image.version) > 0
        /\ t.pc \in Installing => t.outdated /\ ~job.check /\ world.source = "archive"
        /\ t.pc \in Installing \ {"consent"} => job.confirm \/ job.tty

(* The staged file is its process's own, and is what each place has made   *)
(* sure of.                                                                *)
StagedFor(p) ==
    LET t == task[p]
    IN  /\ t.pc \in {"stage", "verify", "replace", "swap", "move"} =>
              /\ Staged(p) \in DOMAIN files
              /\ files[Staged(p)].by = p
              /\ files[Staged(p)].digest = t.latest.digest
        /\ t.pc \in {"verify", "replace", "swap", "move"} => files[Staged(p)].whole
        /\ t.pc \in {"replace", "swap", "move"} => files[Staged(p)].version = t.latest.tag
        /\ t.pc \in {"swap", "move"} => world.windows

(* Only whole programs have one of the two names, and on Windows the one a *)
(* process runs from keeps one of them: the system's hold on it stops the  *)
(* cleanup and a second backup.                                            *)
PlacesHold ==
    /\ \A f \in {Exe, Old} \cap DOMAIN files : files[f].whole
    /\ ~world.windows => Exe \in DOMAIN files
    /\ world.windows =>
          \A p \in Procs :
             Alive(p) => \E f \in {Exe, Old} \cap DOMAIN files : files[f].by = task[p].image.by
    /\ BinarySurvives

IInv ==
    /\ TypeOK
    /\ world \in Scenarios
    /\ files \in [DOMAIN files -> Binaries]
    /\ task \in [Procs -> Tasks]
    /\ \A p \in Procs : Informed(p) /\ StagedFor(p)
    /\ PlacesHold
=============================================================================
