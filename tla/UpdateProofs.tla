---------------------------- MODULE UpdateProofs ----------------------------
(***************************************************************************)
(* nitter update, for any number of installers, releases and scenarios:    *)
(* a program survives, and only what was verified is put in its place.     *)
(* And what the choice of the newest rests on: versions are in an order.   *)
(***************************************************************************)
EXTENDS Update, PositionsProofs

(* Every path has a name of its own. *)
LEMMA Paths ==
    /\ Exe # Old
    /\ \A p \in Procs : Staged(p) # Exe /\ Staged(p) # Old
    /\ \A p, q \in Procs : p # q => Staged(p) # Staged(q)
BY DEF Exe, Old, Staged

(* What a scenario is made of. *)
LEMMA WorldFits ==
    ASSUME IInv
    PROVE  /\ world.windows \in BOOLEAN /\ world.source \in Sources
           /\ world.page \cup world.later \subseteq Releases
           /\ page \subseteq Releases
           /\ \A p \in DOMAIN world.jobs : p \in Procs /\ world.jobs[p] \in JobType
<1>1. world \in ScenarioType
  BY UpdateAssumption DEF IInv
<1>2. PICK S \in SUBSET Procs : world.jobs \in [S -> JobType]
  BY <1>1 DEF ScenarioType
<1>3. page \subseteq world.page \cup world.later
  BY DEF IInv, TypeOK
<1> QED
  BY <1>1, <1>2, <1>3 DEF ScenarioType

(* What a process has been told stays true of it when it does not move:    *)
(* the world does not change and the page only grows.                      *)
LEMMA StillInformed ==
    ASSUME IInv, NEW p \in Procs, task'[p] = task[p], world' = world, page \subseteq page'
    PROVE  Informed(p)'
BY DEF IInv, Informed, Candidates

(* The staged file of a process that does not move stays, if nobody        *)
(* touches it.                                                             *)
LEMMA StillStaged ==
    ASSUME IInv, NEW p \in Procs, task'[p] = task[p], world' = world,
           Staged(p) \in DOMAIN files =>
              Staged(p) \in DOMAIN files' /\ files'[Staged(p)] = files[Staged(p)]
    PROVE  StagedFor(p)'
<1> DEFINE f == Staged(p)
<1>1. StagedFor(p)
  BY DEF IInv
<1>2. Staged(p)' = Staged(p)
  BY DEF Staged
<1> QED
  BY <1>1, <1>2 DEF StagedFor

(* A step that leaves the directory alone and starts nobody. *)
LEMMA QuietPlaces ==
    ASSUME IInv, files' = files, world' = world,
           \A q \in Procs : Alive(q)' => Alive(q) /\ task'[q].image = task[q].image
    PROVE  PlacesHold'
<1>1. PlacesHold
  BY DEF IInv
<1>2. Exe' = Exe /\ Old' = Old
  BY DEF Exe, Old
<1> QED
  BY <1>1, <1>2 DEF PlacesHold, BinarySurvives

(* A step that only moves one process on, to a place it is fit for. *)
LEMMA QuietStep ==
    ASSUME IInv, NEW p \in Procs, UNCHANGED <<world, page, files>>,
           NEW t \in Tasks, task' = [task EXCEPT ![p] = t],
           exit' \in [Procs -> {-9, -1, 0, 1, 2}],
           \A q \in Procs : Alive(q)' => Alive(q) /\ task'[q].image = task[q].image,
           Informed(p)', StagedFor(p)'
    PROVE  IInv'
<1>1. task' \in [Procs -> Tasks] /\ \A q \in Procs : q # p => task'[q] = task[q]
  BY DEF IInv
<1>2. \A q \in Procs : Informed(q)' /\ StagedFor(q)'
  <2>1. TAKE q \in Procs
  <2>2. CASE q = p
    BY <2>2
  <2>3. CASE q # p
    BY <1>1, <2>3, StillInformed, StillStaged
  <2> QED
    BY <2>2, <2>3
<1>3. PlacesHold'
  BY QuietPlaces
<1>4. TypeOK'
  <2>1. \A q \in Procs : /\ task'[q].pc \in Places
                         /\ task'[q].pc \in Installing => task'[q].outdated /\ task'[q].latest \in page'
    <3>1. TAKE q \in Procs
    <3>2. task'[q].pc \in Places
      BY <1>1 DEF Tasks
    <3> QED
      BY <3>2, <1>2 DEF Informed, Candidates
  <2>2. Places \ {"off", "cleanup", "flags", "lookup", "report", "done"} = Installing
    BY DEF Places, Installing
  <2>3. TypeOK
    BY DEF IInv
  <2>4. Exe' = Exe /\ Old' = Old /\ \A q \in Procs : Staged(q)' = Staged(q)
    BY DEF Exe, Old, Staged
  <2> QED
    BY <2>1, <2>2, <2>3, <2>4 DEF TypeOK
<1> QED
  BY <1>1, <1>2, <1>3, <1>4 DEF IInv

(* A process that ends has nothing left to be fit for. *)
LEMMA EndKeeps ==
    ASSUME IInv, NEW p \in Procs, NEW status \in {-9, 0, 1, 2}, End(p, status),
           UNCHANGED <<world, page, files>>
    PROVE  IInv'
<1> DEFINE t == [task[p] EXCEPT !.pc = "done"]
<1>1. t \in Tasks
  BY DEF IInv, Tasks, Places
<1>2. task' = [task EXCEPT ![p] = t] /\ task'[p] = t
  BY DEF End, Goto, IInv
<1>3. exit' \in [Procs -> {-9, -1, 0, 1, 2}] /\ exit' = [exit EXCEPT ![p] = status]
  BY DEF End, IInv, TypeOK
<1>4. \A q \in Procs : Alive(q)' => Alive(q) /\ task'[q].image = task[q].image
  BY <1>2, <1>3 DEF Alive, IInv, TypeOK
<1>5. t.pc = "done"
  BY DEF IInv, Tasks
<1>6. Informed(p)' /\ StagedFor(p)'
  BY <1>2, <1>5 DEF Informed, StagedFor, Installing
<1> HIDE DEF t
<1> QED
  BY <1>1, <1>2, <1>3, <1>4, <1>6, QuietStep

(* A process that goes on to a place it is fit for. *)
LEMMA GotoKeeps ==
    ASSUME IInv, NEW p \in Procs, Alive(p), NEW place \in Places, Goto(p, place),
           UNCHANGED <<world, page, files, exit>>,
           Informed(p)', StagedFor(p)'
    PROVE  IInv'
<1> DEFINE t == [task[p] EXCEPT !.pc = place]
<1>1. t \in Tasks
  BY DEF IInv, Tasks
<1>2. task' = [task EXCEPT ![p] = t] /\ task'[p] = t
  BY DEF Goto, IInv
<1>3. exit' \in [Procs -> {-9, -1, 0, 1, 2}]
  BY DEF IInv, TypeOK
<1>4. \A q \in Procs : Alive(q)' => Alive(q) /\ task'[q].image = task[q].image
  BY <1>2 DEF Alive, IInv, Tasks
<1> HIDE DEF t
<1> QED
  BY <1>1, <1>2, <1>3, <1>4, QuietStep

(* The flags are judged before anything is looked up. *)
LEMMA FlagsKeeps ==
    ASSUME IInv, NEW p \in Procs, Flags(p)
    PROVE  IInv'
<1>1. CASE \E status \in {0, 2} : End(p, status)
  BY <1>1, EndKeeps DEF Flags
<1>2. CASE /\ ~Misused(world.jobs[p])
           /\ Goto(p, "lookup") /\ UNCHANGED exit
  <2>1. Informed(p) /\ task[p].pc = "flags" /\ Alive(p)
    BY DEF Flags, At, Alive, IInv
  <2>2. task'[p] = [task[p] EXCEPT !.pc = "lookup"] /\ task'[p].pc = "lookup"
    BY <1>2 DEF Goto, IInv, Tasks
  <2>3. Informed(p)'
    BY <1>2, <2>1, <2>2 DEF Informed, Installing, Flags, Misused
  <2>4. StagedFor(p)'
    BY <2>2 DEF StagedFor
  <2> QED
    BY <1>2, <2>1, <2>3, <2>4, GotoKeeps DEF Flags, Places
<1> QED
  BY <1>1, <1>2 DEF Flags

(* Check answers with a usable release and the verdict of the comparison. *)
LEMMA LookupKeeps ==
    ASSUME IInv, NEW p \in Procs, Lookup(p)
    PROVE  IInv'
<1> DEFINE usable == Candidates(page, world.jobs[p].prerelease)
<1>1. CASE usable = {}
  BY <1>1, EndKeeps DEF Lookup
<1>2. CASE usable # {}
  <2>1. PICK r \in usable :
           /\ task' = [task EXCEPT ![p].pc = "report", ![p].latest = r,
                         ![p].outdated = Compare(r.tag, task[p].image.version) > 0]
           /\ UNCHANGED exit
    BY <1>2 DEF Lookup
  <2> DEFINE verdict == Compare(r.tag, task[p].image.version) > 0
             t == [task[p] EXCEPT !.pc = "report", !.latest = r, !.outdated = verdict]
  <2>2. r \in Releases /\ r \in page
    BY WorldFits DEF Candidates
  <2>3. verdict \in BOOLEAN
    OBVIOUS
  <2>4. task[p] \in Tasks /\ task[p].pc = "lookup" /\ Alive(p) /\ Informed(p)
    BY DEF IInv, Lookup, At, Alive
  <2> HIDE DEF verdict
  <2>5. t \in Tasks
    BY <2>2, <2>3, <2>4 DEF Tasks, Places
  <2>6. task' = [task EXCEPT ![p] = t] /\ task'[p] = t
    BY <2>1 DEF IInv, verdict
  <2>7. t.pc = "report" /\ t.latest = r /\ t.outdated = verdict /\ t.image = task[p].image
    BY <2>4 DEF Tasks
  <2> HIDE DEF t
  <2>8. task'[p].outdated <=> Compare(task'[p].latest.tag, task'[p].image.version) > 0
    BY <2>6, <2>7 DEF verdict
  <2>9. Informed(p)'
    <3>1. world' = world /\ page' = page
      BY DEF Lookup
    <3>2. task'[p].pc = "report" /\ task'[p].latest \in Candidates(page, world.jobs[p].prerelease)
      BY <2>6, <2>7
    <3>3. p \in DOMAIN world.jobs /\ ~Misused(world.jobs[p])
      BY <2>4 DEF Informed
    <3> QED
      BY <3>1, <3>2, <3>3, <2>8 DEF Informed, Installing, Misused, Candidates
  <2>10. StagedFor(p)'
    BY <2>6, <2>7 DEF StagedFor
  <2>11. \A q \in Procs : Alive(q)' => Alive(q) /\ task'[q].image = task[q].image
    BY <2>1, <2>4, <2>6, <2>7 DEF Alive, IInv
  <2>12. exit' \in [Procs -> {-9, -1, 0, 1, 2}]
    BY <2>1 DEF IInv, TypeOK
  <2> QED
    BY <2>5, <2>6, <2>9, <2>10, <2>11, <2>12, QuietStep DEF Lookup
<1> QED
  BY <1>1, <1>2

(* Only what is newer, unpacked from an archive and wanted goes on. *)
LEMMA ReportKeeps ==
    ASSUME IInv, NEW p \in Procs, Report(p)
    PROVE  IInv'
<1>1. CASE \E status \in {0, 1} : End(p, status)
  BY <1>1, EndKeeps DEF Report
<1>2. CASE /\ ~world.jobs[p].check /\ task[p].outdated /\ world.source = "archive"
           /\ Goto(p, "consent") /\ UNCHANGED exit
  <2>1. Informed(p) /\ task[p].pc = "report" /\ Alive(p)
    BY DEF Report, At, Alive, IInv
  <2>2. task'[p] = [task[p] EXCEPT !.pc = "consent"] /\ task'[p].pc = "consent"
    BY <1>2 DEF Goto, IInv, Tasks
  <2>3. /\ task'[p].latest = task[p].latest /\ task'[p].image = task[p].image
        /\ task'[p].outdated = task[p].outdated
    BY <2>2 DEF IInv, Tasks
  <2>4. Informed(p)'
    BY <1>2, <2>1, <2>2, <2>3 DEF Informed, Installing, Report, Misused, Candidates
  <2>5. StagedFor(p)'
    BY <2>2 DEF StagedFor
  <2> QED
    BY <1>2, <2>1, <2>4, <2>5, GotoKeeps DEF Report, Places
<1> QED
  BY <1>1, <1>2 DEF Report

(* Nothing is fetched without consent. *)
LEMMA AskToInstallKeeps ==
    ASSUME IInv, NEW p \in Procs, AskToInstall(p)
    PROVE  IInv'
<1>1. CASE \E status \in {0, 1} : End(p, status)
  BY <1>1, EndKeeps DEF AskToInstall
<1>2. CASE /\ world.jobs[p].confirm \/ world.jobs[p].tty
           /\ Goto(p, "download") /\ UNCHANGED exit
  <2>1. Informed(p) /\ task[p].pc = "consent" /\ Alive(p)
    BY DEF AskToInstall, At, Alive, IInv
  <2>2. task'[p] = [task[p] EXCEPT !.pc = "download"] /\ task'[p].pc = "download"
    BY <1>2 DEF Goto, IInv, Tasks
  <2>3. /\ task'[p].latest = task[p].latest /\ task'[p].image = task[p].image
        /\ task'[p].outdated = task[p].outdated
    BY <2>2 DEF IInv, Tasks
  <2>4. Informed(p)'
    BY <1>2, <2>1, <2>2, <2>3 DEF Informed, Installing, AskToInstall, Misused, Candidates
  <2>5. StagedFor(p)'
    BY <2>2 DEF StagedFor
  <2> QED
    BY <1>2, <2>1, <2>4, <2>5, GotoKeeps DEF AskToInstall, Places
<1> QED
  BY <1>1, <1>2 DEF AskToInstall

(* What a removal, a new file and a rename leave in the directory. *)
LEMMA WithoutFits ==
    ASSUME NEW paths, files \in [DOMAIN files -> Binaries], files' = Without(paths)
    PROVE  /\ files' \in [DOMAIN files' -> Binaries]
           /\ DOMAIN files' = DOMAIN files \ paths
           /\ \A f \in DOMAIN files' : files'[f] = files[f]
BY DEF Without

LEMMA PutFits ==
    ASSUME NEW path, NEW binary \in Binaries, files \in [DOMAIN files -> Binaries],
           files' = Put(path, binary)
    PROVE  /\ files' \in [DOMAIN files' -> Binaries]
           /\ DOMAIN files' = DOMAIN files \cup {path}
           /\ files'[path] = binary
           /\ \A f \in DOMAIN files : f # path => files'[f] = files[f]
BY DEF Put

LEMMA RenameFits ==
    ASSUME NEW to, NEW from \in DOMAIN files, to # from,
           files \in [DOMAIN files -> Binaries], files' = Rename(from, to)
    PROVE  /\ files' \in [DOMAIN files' -> Binaries]
           /\ DOMAIN files' = (DOMAIN files \ {from}) \cup {to}
           /\ files'[to] = files[from]
           /\ \A f \in DOMAIN files \ {from} : f # to => files'[f] = files[f]
BY DEF Rename

(* A step of one process in the directory: what it touches is its own      *)
(* staged file or one of the two places, and no other process starts.      *)
LEMMA FileStep ==
    ASSUME IInv, NEW p \in Procs, UNCHANGED <<world, page>>,
           NEW place \in Places, Goto(p, place),
           exit' \in [Procs -> {-9, -1, 0, 1, 2}],
           files' \in [DOMAIN files' -> Binaries],
           DOMAIN files' \subseteq {Exe, Old} \cup {Staged(q) : q \in Procs},
           ~world.windows => Old \notin DOMAIN files',
           \A q \in Procs : q # p /\ Staged(q) \in DOMAIN files =>
              Staged(q) \in DOMAIN files' /\ files'[Staged(q)] = files[Staged(q)],
           Informed(p)', StagedFor(p)', PlacesHold'
    PROVE  IInv'
<1>1. task' \in [Procs -> Tasks] /\ \A q \in Procs : q # p => task'[q] = task[q]
  BY DEF IInv, Goto, Tasks
<1>2. \A q \in Procs : Informed(q)' /\ StagedFor(q)'
  <2>1. TAKE q \in Procs
  <2>2. CASE q = p
    BY <2>2
  <2>3. CASE q # p
    BY <1>1, <2>3, StillInformed, StillStaged
  <2> QED
    BY <2>2, <2>3
<1>3. TypeOK'
  <2>1. \A q \in Procs : /\ task'[q].pc \in Places
                         /\ task'[q].pc \in Installing => task'[q].outdated /\ task'[q].latest \in page'
    <3>1. TAKE q \in Procs
    <3>2. task'[q].pc \in Places
      BY <1>1 DEF Tasks
    <3> QED
      BY <3>2, <1>2 DEF Informed, Candidates
  <2>2. Places \ {"off", "cleanup", "flags", "lookup", "report", "done"} = Installing
    BY DEF Places, Installing
  <2>3. TypeOK
    BY DEF IInv
  <2>4. Exe' = Exe /\ Old' = Old /\ \A q \in Procs : Staged(q)' = Staged(q)
    BY DEF Exe, Old, Staged
  <2>5. \A f \in DOMAIN files' : files'[f].by \in Procs \cup {Nobody} /\ files'[f].whole \in BOOLEAN
    BY DEF Binaries
  <2>6. page' \subseteq world'.page \cup world'.later
    BY <2>3 DEF TypeOK
  <2> QED
    BY <2>1, <2>2, <2>4, <2>5, <2>6 DEF TypeOK
<1> QED
  BY <1>1, <1>2, <1>3 DEF IInv

(* A step that leaves the two places alone. *)
LEMMA SamePlaces ==
    ASSUME IInv, world' = world,
           \A f \in {Exe, Old} : /\ f \in DOMAIN files' <=> f \in DOMAIN files
                                 /\ f \in DOMAIN files => files'[f] = files[f],
           \A q \in Procs : Alive(q)' => Alive(q) /\ task'[q].image = task[q].image
    PROVE  PlacesHold'
<1>1. PlacesHold
  BY DEF IInv
<1>2. Exe' = Exe /\ Old' = Old
  BY DEF Exe, Old
<1>3. \A f \in {Exe, Old} \cap DOMAIN files' : files'[f].whole
  BY <1>1 DEF PlacesHold
<1>4. ~world'.windows => Exe \in DOMAIN files'
  BY <1>1 DEF PlacesHold
<1>5. ASSUME world.windows, NEW q \in Procs, Alive(q)'
      PROVE  \E f \in {Exe, Old} \cap DOMAIN files' : files'[f].by = task'[q].image.by
  BY <1>1, <1>5 DEF PlacesHold
<1>6. BinarySurvives'
  BY <1>1, <1>2 DEF PlacesHold, BinarySurvives
<1> QED
  BY <1>2, <1>3, <1>4, <1>5, <1>6 DEF PlacesHold

(* Nobody starts where a process only goes on, or ends. *)
LEMMA NobodyStarts ==
    ASSUME IInv, NEW p \in Procs, Alive(p), NEW place \in Places, Goto(p, place),
           exit' = exit \/ \E status \in {-9, 0, 1, 2} : exit' = [exit EXCEPT ![p] = status]
    PROVE  /\ exit' \in [Procs -> {-9, -1, 0, 1, 2}]
           /\ \A q \in Procs : Alive(q)' => Alive(q) /\ task'[q].image = task[q].image
           /\ task'[p].pc = place /\ task'[p].image = task[p].image
           /\ task'[p].latest = task[p].latest /\ task'[p].outdated = task[p].outdated
<1>1. exit \in [Procs -> {-9, -1, 0, 1, 2}] /\ task \in [Procs -> Tasks]
  BY DEF IInv, TypeOK
<1>2. exit' \in [Procs -> {-9, -1, 0, 1, 2}] /\ \A q \in Procs : exit'[q] = -1 => exit[q] = -1
  BY <1>1
<1>3. \A q \in Procs : /\ q # p => task'[q] = task[q]
                       /\ task'[q].image = task[q].image
  BY <1>1 DEF Goto, Tasks
<1>4. /\ task'[p].pc = place
      /\ task'[p].latest = task[p].latest /\ task'[p].outdated = task[p].outdated
  BY <1>1 DEF Goto, Tasks
<1> QED
  BY <1>2, <1>3, <1>4 DEF Alive

(* An error after staging takes the staged file along. *)
LEMMA FailsKeeps ==
    ASSUME IInv, NEW p \in Procs, Alive(p), Fails(p), UNCHANGED <<world, page>>
    PROVE  IInv'
<1>1. /\ files \in [DOMAIN files -> Binaries]
      /\ DOMAIN files \subseteq {Exe, Old} \cup {Staged(q) : q \in Procs}
      /\ ~world.windows => Old \notin DOMAIN files
  BY DEF IInv, TypeOK
<1>2. /\ files' \in [DOMAIN files' -> Binaries]
      /\ DOMAIN files' = DOMAIN files \ {Staged(p)}
      /\ \A f \in DOMAIN files' : files'[f] = files[f]
  BY <1>1, WithoutFits DEF Fails
<1>3. Goto(p, "done") /\ exit' = [exit EXCEPT ![p] = 1] /\ "done" \in Places
  BY DEF Fails, End, Places
<1>4. /\ exit' \in [Procs -> {-9, -1, 0, 1, 2}]
      /\ \A q \in Procs : Alive(q)' => Alive(q) /\ task'[q].image = task[q].image
      /\ task'[p].pc = "done"
  BY <1>3, NobodyStarts
<1>5. Informed(p)' /\ StagedFor(p)'
  BY <1>4 DEF Informed, StagedFor, Installing
<1>6. PlacesHold'
  BY <1>2, <1>4, Paths, SamePlaces
<1> QED
  BY <1>1, <1>2, <1>3, <1>4, <1>5, <1>6, Paths, FileStep

(* The place a process was started from is the place in use. *)
LEMMA StartKeeps ==
    ASSUME IInv, NEW p \in Procs, Start(p)
    PROVE  IInv'
<1> DEFINE t == [Idle(files[Exe]) EXCEPT !.pc = "cleanup"]
<1>1. /\ files[Exe] \in Binaries /\ task \in [Procs -> Tasks]
      /\ exit \in [Procs -> {-9, -1, 0, 1, 2}]
  BY DEF IInv, Start, TypeOK
<1>2. /\ t \in Tasks /\ t.pc = "cleanup" /\ t.image = files[Exe]
  BY <1>1 DEF Tasks, Idle, Places
<1>3. task' = [task EXCEPT ![p] = t] /\ UNCHANGED <<world, page, files, exit>>
  BY DEF Start
<1> HIDE DEF t
<1>4. /\ task' \in [Procs -> Tasks] /\ task'[p] = t
      /\ \A q \in Procs : q # p => task'[q] = task[q]
  BY <1>1, <1>2, <1>3
<1>5. \A q \in Procs : Informed(q)' /\ StagedFor(q)'
  <2>1. TAKE q \in Procs
  <2>2. CASE q = p
    <3>1. p \in DOMAIN world'.jobs
      BY <1>3 DEF Start
    <3> QED
      BY <1>2, <1>4, <2>2, <3>1 DEF Informed, StagedFor, Installing
  <2>3. CASE q # p
    BY <1>3, <1>4, <2>3, StillInformed, StillStaged
  <2> QED
    BY <2>2, <2>3
<1>6. Exe' = Exe /\ Old' = Old /\ \A q \in Procs : Staged(q)' = Staged(q)
  BY DEF Exe, Old, Staged
<1>7. TypeOK'
  <2>1. \A q \in Procs : /\ task'[q].pc \in Places
                         /\ task'[q].pc \in Installing => task'[q].outdated /\ task'[q].latest \in page'
    <3>1. TAKE q \in Procs
    <3>2. task'[q].pc \in Places
      BY <1>4 DEF Tasks
    <3> QED
      BY <3>2, <1>5 DEF Informed, Candidates
  <2>2. Places \ {"off", "cleanup", "flags", "lookup", "report", "done"} = Installing
    BY DEF Places, Installing
  <2>3. TypeOK
    BY DEF IInv
  <2> QED
    BY <1>3, <1>6, <2>1, <2>2, <2>3 DEF TypeOK
<1>8. PlacesHold'
  <2>1. PlacesHold /\ Exe \in DOMAIN files
    BY DEF IInv, Start
  <2>2. ASSUME world.windows, NEW q \in Procs, Alive(q)'
        PROVE  \E f \in {Exe, Old} \cap DOMAIN files : files[f].by = task'[q].image.by
    <3>1. CASE q = p
      BY <1>2, <1>4, <2>1, <3>1
    <3>2. CASE q # p
      BY <1>3, <1>4, <2>1, <2>2, <3>2 DEF PlacesHold, Alive
    <3> QED
      BY <3>1, <3>2
  <2> QED
    BY <1>3, <1>6, <2>1, <2>2 DEF PlacesHold, BinarySurvives
<1> QED
  BY <1>3, <1>4, <1>5, <1>7, <1>8 DEF IInv

(* The cleanup only removes a backup that no process runs from; its own is *)
(* one of them, so the executable is in its place.                         *)
LEMMA CleanupKeeps ==
    ASSUME IInv, NEW p \in Procs, CleanupPendingUpdate(p)
    PROVE  IInv'
<1>1. /\ Informed(p) /\ task[p].pc = "cleanup" /\ Alive(p) /\ PlacesHold
      /\ Goto(p, "flags") /\ UNCHANGED <<world, page, exit>> /\ "flags" \in Places
  BY DEF CleanupPendingUpdate, At, Alive, IInv, Places
<1>2. /\ exit' \in [Procs -> {-9, -1, 0, 1, 2}]
      /\ \A q \in Procs : Alive(q)' => Alive(q) /\ task'[q].image = task[q].image
      /\ task'[p].pc = "flags"
  BY <1>1, NobodyStarts
<1>3. Informed(p)' /\ StagedFor(p)'
  BY <1>1, <1>2 DEF Informed, StagedFor, Installing
<1>4. CASE UNCHANGED files
  BY <1>1, <1>3, <1>4, GotoKeeps
<1>5. CASE /\ world.windows /\ Old \in DOMAIN files /\ ~Locked(Old)
           /\ files' = Without({Old})
  <2>1. /\ files \in [DOMAIN files -> Binaries]
        /\ DOMAIN files \subseteq {Exe, Old} \cup {Staged(q) : q \in Procs}
    BY DEF IInv, TypeOK
  <2>2. /\ files' \in [DOMAIN files' -> Binaries]
        /\ DOMAIN files' = DOMAIN files \ {Old}
        /\ \A f \in DOMAIN files' : files'[f] = files[f]
    BY <1>5, <2>1, WithoutFits
  <2>3. \A q \in Procs : Alive(q) => Exe \in DOMAIN files /\ files[Exe].by = task[q].image.by
    BY <1>1, <1>5 DEF PlacesHold, Locked
  <2>4. Exe \in DOMAIN files' /\ files'[Exe] = files[Exe] /\ files[Exe].whole
    BY <1>1, <2>2, <2>3, Paths DEF PlacesHold
  <2>5. Exe' = Exe /\ Old' = Old
    BY DEF Exe, Old
  <2>6. \A f \in {Exe, Old} \cap DOMAIN files' : f = Exe
    BY <2>2
  <2>7. \A q \in Procs : Alive(q)' => files'[Exe].by = task'[q].image.by
    BY <1>2, <2>3, <2>4
  <2>8. PlacesHold'
    BY <2>4, <2>5, <2>6, <2>7 DEF PlacesHold, BinarySurvives
  <2> QED
    BY <1>1, <1>2, <1>3, <2>1, <2>2, <2>8, Paths, FileStep
<1> QED
  BY <1>4, <1>5 DEF CleanupPendingUpdate

(* What is staged has the digest that the release lists. *)
LEMMA DownloadKeeps ==
    ASSUME IInv, NEW p \in Procs, Download(p)
    PROVE  IInv'
<1>1. /\ Informed(p) /\ task[p].pc = "download" /\ Alive(p)
      /\ UNCHANGED <<world, page>> /\ "stage" \in Places
  BY DEF Download, At, Alive, IInv, Places
<1>2. CASE End(p, 1) /\ UNCHANGED files
  BY <1>1, <1>2, EndKeeps
<1>3. CASE \E body \in task[p].latest.bodies :
              /\ body.digest = task[p].latest.digest
              /\ Len(body.entries) = 1
              /\ files' = Put(Staged(p), Binary(p, body.digest, body.entries[1].version, FALSE))
              /\ Goto(p, "stage") /\ UNCHANGED exit
  <2>1. PICK body \in task[p].latest.bodies :
              /\ body.digest = task[p].latest.digest
              /\ Len(body.entries) = 1
              /\ files' = Put(Staged(p), Binary(p, body.digest, body.entries[1].version, FALSE))
              /\ Goto(p, "stage") /\ UNCHANGED exit
    BY <1>3
  <2> DEFINE binary == Binary(p, body.digest, body.entries[1].version, FALSE)
  <2>2. task[p].latest \in Releases
    BY <1>1, WorldFits DEF Informed, Candidates, Installing
  <2>3. body \in Bodies
    BY <2>2 DEF Releases
  <2>4. binary \in Binaries /\ binary.by = p /\ binary.digest = task[p].latest.digest
    <3> DEFINE entry == [regular : BOOLEAN, version : Versions]
    <3>1. body.entries \in Seq(entry) /\ body.digest \in STRING
      BY <2>3 DEF Bodies
    <3> HIDE DEF entry
    <3>2. body.entries[1] \in entry
      BY <2>1, <3>1
    <3>3. body.entries[1].version \in Versions
      BY <3>2 DEF entry
    <3> QED
      BY <2>1, <3>1, <3>3 DEF Binaries, Binary
  <2> HIDE DEF binary
  <2>5. /\ files \in [DOMAIN files -> Binaries]
        /\ DOMAIN files \subseteq {Exe, Old} \cup {Staged(q) : q \in Procs}
        /\ ~world.windows => Old \notin DOMAIN files
    BY DEF IInv, TypeOK
  <2>6. /\ files' \in [DOMAIN files' -> Binaries]
        /\ DOMAIN files' = DOMAIN files \cup {Staged(p)}
        /\ files'[Staged(p)] = binary
        /\ \A f \in DOMAIN files : f # Staged(p) => files'[f] = files[f]
    BY <2>1, <2>4, <2>5, PutFits DEF binary
  <2>7. /\ exit' \in [Procs -> {-9, -1, 0, 1, 2}]
        /\ \A q \in Procs : Alive(q)' => Alive(q) /\ task'[q].image = task[q].image
        /\ task'[p].pc = "stage" /\ task'[p].image = task[p].image
        /\ task'[p].latest = task[p].latest /\ task'[p].outdated = task[p].outdated
    BY <1>1, <2>1, NobodyStarts
  <2>8. Informed(p)'
    BY <1>1, <2>7 DEF Informed, Installing, Misused, Candidates
  <2>9. StagedFor(p)'
    <3>1. Staged(p)' = Staged(p)
      BY DEF Staged
    <3> QED
      BY <2>4, <2>6, <2>7, <3>1 DEF StagedFor
  <2>10. PlacesHold'
    BY <1>1, <2>6, <2>7, Paths, SamePlaces
  <2> QED
    BY <1>1, <2>1, <2>5, <2>6, <2>7, <2>8, <2>9, <2>10, Paths, FileStep
<1> QED
  BY <1>2, <1>3 DEF Download

(* A staged file is used when all of it is written. *)
LEMMA StageKeeps ==
    ASSUME IInv, NEW p \in Procs, Stage(p)
    PROVE  IInv'
<1>1. /\ Informed(p) /\ StagedFor(p) /\ task[p].pc = "stage" /\ Alive(p)
      /\ UNCHANGED <<world, page>> /\ "verify" \in Places
  BY DEF Stage, At, Alive, IInv, Places
<1>2. CASE Fails(p)
  BY <1>1, <1>2, FailsKeeps
<1>3. CASE /\ files' = [files EXCEPT ![Staged(p)].whole = TRUE]
           /\ Goto(p, "verify") /\ UNCHANGED exit
  <2>1. /\ files \in [DOMAIN files -> Binaries]
        /\ DOMAIN files \subseteq {Exe, Old} \cup {Staged(q) : q \in Procs}
        /\ ~world.windows => Old \notin DOMAIN files
        /\ Staged(p) \in DOMAIN files
        /\ files[Staged(p)].by = p /\ files[Staged(p)].digest = task[p].latest.digest
    BY <1>1 DEF IInv, TypeOK, StagedFor
  <2>2. /\ files' \in [DOMAIN files' -> Binaries]
        /\ DOMAIN files' = DOMAIN files
        /\ files'[Staged(p)].whole
        /\ files'[Staged(p)].by = files[Staged(p)].by
        /\ files'[Staged(p)].digest = files[Staged(p)].digest
        /\ \A f \in DOMAIN files : f # Staged(p) => files'[f] = files[f]
    BY <1>3, <2>1 DEF Binaries
  <2>3. /\ exit' \in [Procs -> {-9, -1, 0, 1, 2}]
        /\ \A q \in Procs : Alive(q)' => Alive(q) /\ task'[q].image = task[q].image
        /\ task'[p].pc = "verify" /\ task'[p].image = task[p].image
        /\ task'[p].latest = task[p].latest /\ task'[p].outdated = task[p].outdated
    BY <1>1, <1>3, NobodyStarts
  <2>4. Informed(p)'
    BY <1>1, <2>3 DEF Informed, Installing, Misused, Candidates
  <2>5. StagedFor(p)'
    <3>1. Staged(p)' = Staged(p)
      BY DEF Staged
    <3> QED
      BY <2>1, <2>2, <2>3, <3>1 DEF StagedFor
  <2>6. PlacesHold'
    BY <1>1, <2>2, <2>3, Paths, SamePlaces
  <2> QED
    BY <1>1, <1>3, <2>1, <2>2, <2>3, <2>4, <2>5, <2>6, Paths, FileStep
<1> QED
  BY <1>2, <1>3 DEF Stage

(* A staged program that reports another version is not put in place. *)
LEMMA VerifyKeeps ==
    ASSUME IInv, NEW p \in Procs, VerifyStagedVersion(p)
    PROVE  IInv'
<1>1. /\ Informed(p) /\ StagedFor(p) /\ task[p].pc = "verify" /\ Alive(p)
      /\ UNCHANGED <<world, page>> /\ "replace" \in Places
  BY DEF VerifyStagedVersion, At, Alive, IInv, Places
<1>2. CASE Fails(p)
  BY <1>1, <1>2, FailsKeeps
<1>3. CASE /\ files[Staged(p)].version = task[p].latest.tag
           /\ Goto(p, "replace") /\ UNCHANGED <<files, exit>>
  <2>1. /\ task'[p].pc = "replace" /\ task'[p].image = task[p].image
        /\ task'[p].latest = task[p].latest /\ task'[p].outdated = task[p].outdated
    BY <1>1, <1>3, NobodyStarts
  <2>2. Informed(p)'
    BY <1>1, <2>1 DEF Informed, Installing, Misused, Candidates
  <2>3. StagedFor(p)'
    <3>1. Staged(p)' = Staged(p)
      BY DEF Staged
    <3> QED
      BY <1>1, <1>3, <2>1, <3>1 DEF StagedFor
  <2> QED
    BY <1>1, <1>3, <2>2, <2>3, GotoKeeps
<1> QED
  BY <1>2, <1>3 DEF VerifyStagedVersion

(* The look for the executable changes nothing. *)
LEMMA ReplaceWindowsKeeps ==
    ASSUME IInv, NEW p \in Procs, ReplaceWindows(p)
    PROVE  IInv'
<1>1. /\ Informed(p) /\ StagedFor(p) /\ task[p].pc = "replace" /\ Alive(p) /\ world.windows
      /\ UNCHANGED <<world, page>>
  BY DEF ReplaceWindows, At, Alive, IInv
<1>2. CASE Fails(p)
  BY <1>1, <1>2, FailsKeeps
<1>3. CASE \E place \in {"move", "swap"} : Goto(p, place) /\ UNCHANGED <<files, exit>>
  <2>1. PICK place \in {"move", "swap"} : Goto(p, place) /\ UNCHANGED <<files, exit>>
    BY <1>3
  <2>2. place \in Places
    BY DEF Places
  <2>3. /\ task'[p].pc = place /\ task'[p].image = task[p].image
        /\ task'[p].latest = task[p].latest /\ task'[p].outdated = task[p].outdated
    BY <1>1, <2>1, <2>2, NobodyStarts
  <2>4. Informed(p)'
    BY <1>1, <2>1, <2>3 DEF Informed, Installing, Misused, Candidates
  <2>5. StagedFor(p)'
    <3>1. Staged(p)' = Staged(p)
      BY DEF Staged
    <3> QED
      BY <1>1, <2>1, <2>3, <3>1 DEF StagedFor
  <2> QED
    BY <1>1, <2>1, <2>2, <2>4, <2>5, GotoKeeps
<1> QED
  BY <1>2, <1>3 DEF ReplaceWindows

(* A rename puts the verified file in the place of the executable: where   *)
(* renames replace, or where there is nothing to replace.                  *)
LEMMA InstallKeeps ==
    ASSUME IInv, NEW p \in Procs, Alive(p), UNCHANGED <<world, page, exit>>,
           task[p].pc \in {"replace", "move"},
           world.windows => Exe \notin DOMAIN files,
           files' = Rename(Staged(p), Exe), Goto(p, "installed")
    PROVE  IInv'
<1>1. Informed(p) /\ StagedFor(p) /\ PlacesHold /\ "installed" \in Places
  BY DEF IInv, Places
<1>2. /\ files \in [DOMAIN files -> Binaries]
      /\ DOMAIN files \subseteq {Exe, Old} \cup {Staged(q) : q \in Procs}
      /\ ~world.windows => Old \notin DOMAIN files
      /\ Staged(p) \in DOMAIN files /\ files[Staged(p)].whole
  BY <1>1 DEF IInv, TypeOK, StagedFor
<1>3. /\ files' \in [DOMAIN files' -> Binaries]
      /\ DOMAIN files' = (DOMAIN files \ {Staged(p)}) \cup {Exe}
      /\ files'[Exe] = files[Staged(p)]
      /\ \A f \in DOMAIN files \ {Staged(p)} : f # Exe => files'[f] = files[f]
  BY <1>2, Paths, RenameFits
<1>4. /\ exit' \in [Procs -> {-9, -1, 0, 1, 2}]
      /\ \A q \in Procs : Alive(q)' => Alive(q) /\ task'[q].image = task[q].image
      /\ task'[p].pc = "installed" /\ task'[p].image = task[p].image
      /\ task'[p].latest = task[p].latest /\ task'[p].outdated = task[p].outdated
  BY <1>1, NobodyStarts
<1>5. Informed(p)'
  BY <1>1, <1>4 DEF Informed, Installing, Misused, Candidates
<1>6. StagedFor(p)'
  BY <1>4 DEF StagedFor
<1>7. Old \in DOMAIN files' <=> Old \in DOMAIN files
  BY <1>3, Paths
<1>8. Old \in DOMAIN files => files'[Old] = files[Old]
  BY <1>3, Paths
<1>9. PlacesHold'
  <2>1. Exe' = Exe /\ Old' = Old /\ Exe \in DOMAIN files' /\ files'[Exe].whole
    BY <1>2, <1>3 DEF Exe, Old
  <2>2. \A f \in {Exe, Old} \cap DOMAIN files' : files'[f].whole
    BY <1>1, <1>7, <1>8, <2>1 DEF PlacesHold
  <2>3. ASSUME world.windows, NEW q \in Procs, Alive(q)'
        PROVE  \E f \in {Exe, Old} \cap DOMAIN files' : files'[f].by = task'[q].image.by
    <3>1. Alive(q) /\ task'[q].image = task[q].image
      BY <1>4, <2>3
    <3>2. PICK f \in {Exe, Old} \cap DOMAIN files : files[f].by = task[q].image.by
      BY <1>1, <2>3, <3>1 DEF PlacesHold
    <3>3. f = Old
      BY <2>3, <3>2
    <3> QED
      BY <1>7, <1>8, <3>1, <3>2, <3>3
  <2> QED
    BY <2>1, <2>2, <2>3 DEF PlacesHold, BinarySurvives
<1>10. DOMAIN files' \subseteq {Exe, Old} \cup {Staged(q) : q \in Procs}
  BY <1>2, <1>3
<1> QED
  BY <1>1, <1>2, <1>3, <1>4, <1>5, <1>6, <1>7, <1>9, <1>10, Paths, FileStep

LEMMA ReplaceUnixKeeps ==
    ASSUME IInv, NEW p \in Procs, ReplaceUnix(p)
    PROVE  IInv'
<1>1. Alive(p) /\ task[p].pc = "replace" /\ ~world.windows /\ UNCHANGED <<world, page>>
  BY DEF ReplaceUnix, At, Alive
<1> QED
  BY <1>1, FailsKeeps, InstallKeeps DEF ReplaceUnix

LEMMA MoveFileKeeps ==
    ASSUME IInv, NEW p \in Procs, MoveFile(p)
    PROVE  IInv'
<1>1. Alive(p) /\ task[p].pc = "move" /\ UNCHANGED <<world, page>>
  BY DEF MoveFile, At, Alive
<1> QED
  BY <1>1, FailsKeeps, InstallKeeps DEF MoveFile

(* The executable becomes the backup only when no process runs from the    *)
(* backup it takes the place of: all of them run from the executable.      *)
LEMMA ReplaceFileWKeeps ==
    ASSUME IInv, NEW p \in Procs, ReplaceFileW(p)
    PROVE  IInv'
<1>1. /\ Informed(p) /\ StagedFor(p) /\ task[p].pc = "swap" /\ Alive(p) /\ PlacesHold
      /\ UNCHANGED <<world, page>> /\ "move" \in Places
  BY DEF ReplaceFileW, At, Alive, IInv, Places
<1>2. CASE Fails(p)
  BY <1>1, <1>2, FailsKeeps
<1>3. CASE /\ Exe \in DOMAIN files
           /\ Old \in DOMAIN files => ~Locked(Old)
           /\ files' = Rename(Exe, Old) /\ Goto(p, "move") /\ UNCHANGED exit
  <2>1. /\ files \in [DOMAIN files -> Binaries]
        /\ DOMAIN files \subseteq {Exe, Old} \cup {Staged(q) : q \in Procs}
        /\ world.windows /\ files[Exe].whole
    BY <1>1, <1>3 DEF IInv, TypeOK, StagedFor, PlacesHold
  <2>2. /\ files' \in [DOMAIN files' -> Binaries]
        /\ DOMAIN files' = (DOMAIN files \ {Exe}) \cup {Old}
        /\ files'[Old] = files[Exe]
        /\ \A f \in DOMAIN files \ {Exe} : f # Old => files'[f] = files[f]
    BY <1>3, <2>1, Paths, RenameFits
  <2>3. /\ exit' \in [Procs -> {-9, -1, 0, 1, 2}]
        /\ \A q \in Procs : Alive(q)' => Alive(q) /\ task'[q].image = task[q].image
        /\ task'[p].pc = "move" /\ task'[p].image = task[p].image
        /\ task'[p].latest = task[p].latest /\ task'[p].outdated = task[p].outdated
    BY <1>1, <1>3, NobodyStarts
  <2>4. Informed(p)'
    BY <1>1, <2>3 DEF Informed, Installing, Misused, Candidates
  <2>5. \A q \in Procs : Staged(q) \in DOMAIN files =>
              Staged(q) \in DOMAIN files' /\ files'[Staged(q)] = files[Staged(q)]
    BY <2>2, Paths
  <2>6. StagedFor(p)'
    <3>1. Staged(p)' = Staged(p)
      BY DEF Staged
    <3>2. /\ Staged(p) \in DOMAIN files
          /\ files[Staged(p)].by = p /\ files[Staged(p)].digest = task[p].latest.digest
          /\ files[Staged(p)].whole /\ files[Staged(p)].version = task[p].latest.tag
      BY <1>1 DEF StagedFor
    <3> QED
      BY <1>1, <2>1, <2>3, <2>5, <3>1, <3>2 DEF StagedFor
  <2>7. \A q \in Procs : Alive(q) => files[Exe].by = task[q].image.by
    BY <1>1, <1>3, <2>1 DEF PlacesHold, Locked
  <2>8. Exe' = Exe /\ Old' = Old /\ Exe \notin DOMAIN files' /\ Old \in DOMAIN files'
    BY <2>2, Paths DEF Exe, Old
  <2>9. \A q \in Procs : Alive(q)' => files'[Old].by = task'[q].image.by
    BY <2>2, <2>3, <2>7
  <2>10. PlacesHold'
    BY <1>1, <2>1, <2>2, <2>8, <2>9 DEF PlacesHold, BinarySurvives
  <2>11. DOMAIN files' \subseteq {Exe, Old} \cup {Staged(q) : q \in Procs}
    BY <2>1, <2>2
  <2> QED
    BY <1>1, <1>3, <2>1, <2>2, <2>3, <2>4, <2>5, <2>6, <2>10, <2>11, FileStep
<1> QED
  BY <1>2, <1>3 DEF ReplaceFileW

(* A release that comes out leaves what others were told as it was. *)
LEMMA PublishKeeps ==
    ASSUME IInv, Publish
    PROVE  IInv'
<1>1. page \subseteq page' /\ page' \subseteq world.page \cup world.later
  BY DEF IInv, TypeOK, Publish
<1>2. \A q \in Procs : Informed(q)' /\ StagedFor(q)'
  BY <1>1, StillInformed, StillStaged DEF Publish
<1>3. PlacesHold'
  BY QuietPlaces DEF Publish, Alive
<1>4. Exe' = Exe /\ Old' = Old /\ \A q \in Procs : Staged(q)' = Staged(q)
  BY DEF Exe, Old, Staged
<1> QED
  BY <1>1, <1>2, <1>3, <1>4 DEF IInv, TypeOK, Publish

LEMMA InitEstablishes ==
    ASSUME Init
    PROVE  IInv
<1> DEFINE first == Binary(Nobody, "first", world.current, TRUE)
<1>1. world \in ScenarioType
  BY UpdateAssumption DEF Init
<1>2. first \in Binaries /\ first.whole /\ first.by = Nobody
  <2>1. world.current \in Versions
    BY <1>1 DEF ScenarioType
  <2>2. first = [by |-> Nobody, digest |-> "first", version |-> world.current, whole |-> TRUE]
    BY DEF Binary
  <2> HIDE DEF first
  <2> QED
    BY <2>1, <2>2 DEF Binaries
<1>3. /\ files = [f \in {Exe} |-> first] /\ task = [p \in Procs |-> Idle(first)]
      /\ page = world.page /\ exit = [p \in Procs |-> -1]
  BY DEF Init
<1> HIDE DEF first
<1>4. Idle(first) \in Tasks /\ Idle(first).pc = "off"
  BY <1>2 DEF Tasks, Idle, Places
<1>5. files \in [DOMAIN files -> Binaries] /\ DOMAIN files = {Exe} /\ files[Exe] = first
  BY <1>2, <1>3
<1>6. task \in [Procs -> Tasks] /\ \A p \in Procs : task[p].pc = "off"
  BY <1>3, <1>4
<1>7. TypeOK
  BY <1>2, <1>3, <1>5, <1>6, Paths DEF TypeOK, Places
<1>8. \A p \in Procs : Informed(p) /\ StagedFor(p)
  BY <1>6 DEF Informed, StagedFor, Installing
<1>9. PlacesHold
  BY <1>2, <1>5, <1>6, Paths DEF PlacesHold, BinarySurvives, Alive
<1> QED
  BY <1>5, <1>6, <1>7, <1>8, <1>9 DEF IInv, Init

LEMMA StepPreserves ==
    ASSUME IInv, [Next]_vars
    PROVE  IInv'
<1>1. CASE \E p \in Procs :
              \/ Start(p) \/ CleanupPendingUpdate(p) \/ Flags(p) \/ Lookup(p) \/ Report(p)
              \/ AskToInstall(p) \/ Download(p) \/ Stage(p) \/ VerifyStagedVersion(p)
              \/ ReplaceUnix(p) \/ ReplaceWindows(p) \/ ReplaceFileW(p) \/ MoveFile(p)
  BY <1>1, StartKeeps, CleanupKeeps, FlagsKeeps, LookupKeeps, ReportKeeps, AskToInstallKeeps,
     DownloadKeeps, StageKeeps, VerifyKeeps, ReplaceUnixKeeps, ReplaceWindowsKeeps,
     ReplaceFileWKeeps, MoveFileKeeps
<1>2. CASE \E p \in Procs : Refuse(p) \/ Installed(p) \/ Kill(p)
  BY <1>2, EndKeeps DEF Refuse, Installed, Kill
<1>3. CASE Publish
  BY <1>3, PublishKeeps
<1>4. CASE UNCHANGED vars
  <2>1. \A p \in Procs : Informed(p)' /\ StagedFor(p)'
    BY <1>4, StillInformed, StillStaged DEF vars
  <2>2. PlacesHold'
    BY <1>4, QuietPlaces DEF vars, Alive
  <2>3. Exe' = Exe /\ Old' = Old /\ \A q \in Procs : Staged(q)' = Staged(q)
    BY DEF Exe, Old, Staged
  <2> QED
    BY <1>4, <2>1, <2>2, <2>3 DEF vars, IInv, TypeOK
<1> QED
  BY <1>1, <1>2, <1>3, <1>4 DEF Next

-----------------------------------------------------------------------------
(* However many installers overlap, fail or are killed at any step, on     *)
(* either system: no backup is removed or replaced that is the only copy.  *)
THEOREM UpdateInvariant == Spec => []IInv
<1>1. Init => IInv
  BY InitEstablishes
<1>2. IInv /\ [Next]_vars => IInv'
  BY StepPreserves
<1> QED
  BY <1>1, <1>2, PTL DEF Spec

(* Every variable keeps its type, and only what is newer and on the page   *)
(* is fetched.                                                             *)
THEOREM TypeCorrect == Spec => []TypeOK
<1>1. IInv => TypeOK
  BY DEF IInv
<1> QED
  BY <1>1, UpdateInvariant, PTL

(* A whole program is in its place, or on Windows beside it, after every   *)
(* step of every installer.  (replace_windows.go, replace_unix.go)         *)
THEOREM AlwaysAProgram == Spec => []BinarySurvives
<1>1. IInv => BinarySurvives
  BY DEF IInv, PlacesHold
<1> QED
  BY <1>1, UpdateInvariant, PTL

-----------------------------------------------------------------------------
(* Whatever it is given, Compare answers with -1, 0 or 1. *)
LEMMA CompareRange ==
    \A a, b : Compare(a, b) \in {-1, 0, 1}
<1>1. \A x, y : CompareNumbers(x, y) \in {-1, 0, 1}
  BY DEF CompareNumbers
<1>2. \A x, y : CompareIdentifiers(x, y) \in {-1, 0, 1}
  BY <1>1 DEF CompareIdentifiers
<1>3. \A a, b : ComparePrerelease(a, b) \in {-1, 0, 1}
  <2>1. TAKE a, b
  <2> DEFINE both == {i \in DOMAIN a \cap DOMAIN b : CompareIdentifiers(a[i], b[i]) # 0}
             i == CHOOSE i \in both : \A j \in both : i =< j
  <2>2. ComparePrerelease(a, b) =
          IF a = <<>> \/ b = <<>>
          THEN CompareNumbers(Len(b), Len(a))
          ELSE IF both = {} THEN CompareNumbers(Len(a), Len(b))
               ELSE CompareIdentifiers(a[i], b[i])
    BY DEF ComparePrerelease, AtFirstDifference
  <2> HIDE DEF both, i
  <2> QED
    BY <1>1, <1>2, <2>2
<1>4. TAKE a, b
<1> DEFINE both == {i \in DOMAIN a.core \cap DOMAIN b.core : CompareNumbers(a.core[i], b.core[i]) # 0}
           i == CHOOSE i \in both : \A j \in both : i =< j
<1>5. Compare(a, b) =
        IF a.valid /\ b.valid
        THEN IF both = {} THEN ComparePrerelease(a.identifiers, b.identifiers)
             ELSE CompareNumbers(a.core[i], b.core[i])
        ELSE IF a.valid THEN 1 ELSE IF b.valid THEN -1 ELSE 0
  BY DEF Compare, AtFirstDifference
<1> HIDE DEF both, i
<1> QED
  BY <1>1, <1>3, <1>5

-----------------------------------------------------------------------------
(* The order of versions (internal/update/semver.go), for versions of any  *)
(* numbers and identifiers.                                                *)

Signs == {-1, 0, 1}

(* How three values of a comparison fit together if it is an order.        *)
Chained(xy, yz, xz) ==
    xy =< 0 /\ yz =< 0 => xz =< 0 /\ (xz = 0 => xy = 0 /\ yz = 0)

(* What a comparison says of two things turned round.                      *)
Opposed(xy, yx) == xy = -yx

(* A comparison, as a table, that is an order of T.                        *)
OrderOf(T, F) ==
    /\ F \in [T -> [T -> Signs]]
    /\ \A x, y \in T : F[x][y] = -F[y][x]
    /\ \A x, y, z \in T : Chained(F[x][y], F[y][z], F[x][z])

(* The outcome of comparing two lists place by place.                      *)
Decides(a, b, F, otherwise, d) ==
    \/ /\ d = otherwise
       /\ \A j \in DOMAIN a \cap DOMAIN b : F[a[j]][b[j]] = 0
    \/ \E i \in DOMAIN a \cap DOMAIN b :
          /\ d = F[a[i]][b[i]] /\ d # 0
          /\ \A j \in 1..(i - 1) : F[a[j]][b[j]] = 0

NumberOrder     == [x \in Nat |-> [y \in Nat |-> CompareNumbers(x, y)]]
IdentifierOrder == [x \in Identifiers |-> [y \in Identifiers |-> CompareIdentifiers(x, y)]]

(* Numbers are compared by their order.                                    *)
LEMMA NumbersInOrder == OrderOf(Nat, NumberOrder)
<1>1. \A x, y \in Nat : NumberOrder[x][y] = CompareNumbers(x, y)
  BY DEF NumberOrder
<1>2. NumberOrder \in [Nat -> [Nat -> Signs]]
  BY DEF NumberOrder, CompareNumbers, Signs
<1>3. \A x, y \in Nat : CompareNumbers(x, y) = -CompareNumbers(y, x)
  BY DEF CompareNumbers
<1>4. \A x, y, z \in Nat :
        Chained(CompareNumbers(x, y), CompareNumbers(y, z), CompareNumbers(x, z))
  BY DEF CompareNumbers, Chained
<1> QED
  BY <1>1, <1>2, <1>3, <1>4 DEF OrderOf

(* Identifiers are: numbers by their value, before all words.  Two numbers *)
(* too long to be read count as equal.                                     *)
LEMMA IdentifiersInOrder == OrderOf(Identifiers, IdentifierOrder)
<1>1. \A x, y \in Identifiers : IdentifierOrder[x][y] = CompareIdentifiers(x, y)
  BY DEF IdentifierOrder
<1>2. \A x \in Identifiers : x.numeric \in BOOLEAN /\ x.value \in Nat /\ ParseUint(x) \in Nat
  BY SemverAssumption DEF Identifiers, ParseUint
<1>3. \A x, y \in Nat : CompareNumbers(x, y) \in Signs /\ CompareNumbers(x, y) = -CompareNumbers(y, x)
  BY DEF CompareNumbers, Signs
<1>4. \A x, y, z \in Nat :
        Chained(CompareNumbers(x, y), CompareNumbers(y, z), CompareNumbers(x, z))
  BY DEF CompareNumbers, Chained
<1>5. \A x, y \in Identifiers :
        /\ CompareIdentifiers(x, y) \in Signs
        /\ CompareIdentifiers(x, y) = -CompareIdentifiers(y, x)
  BY <1>2, <1>3 DEF CompareIdentifiers, Signs
<1>6. ASSUME NEW x \in Identifiers, NEW y \in Identifiers, NEW z \in Identifiers
      PROVE  Chained(CompareIdentifiers(x, y), CompareIdentifiers(y, z), CompareIdentifiers(x, z))
  <2>1. CASE x.numeric = y.numeric /\ y.numeric = z.numeric
    BY <1>2, <1>4, <2>1 DEF CompareIdentifiers
  <2>2. CASE x.numeric # y.numeric \/ y.numeric # z.numeric
    <3> DEFINE xy == CompareIdentifiers(x, y)
               yz == CompareIdentifiers(y, z)
               xz == CompareIdentifiers(x, z)
    <3>1. x.numeric # y.numeric => xy = IF x.numeric THEN -1 ELSE 1
      BY DEF CompareIdentifiers
    <3>2. y.numeric # z.numeric => yz = IF y.numeric THEN -1 ELSE 1
      BY DEF CompareIdentifiers
    <3>3. x.numeric # z.numeric => xz = IF x.numeric THEN -1 ELSE 1
      BY DEF CompareIdentifiers
    <3> HIDE DEF xy, yz, xz
    <3>4. Chained(xy, yz, xz)
      BY <1>2, <2>2, <3>1, <3>2, <3>3 DEF Chained
    <3> QED
      BY <3>4 DEF xy, yz, xz
  <2> QED
    BY <2>1, <2>2
<1>7. IdentifierOrder \in [Identifiers -> [Identifiers -> Signs]]
  BY <1>5 DEF IdentifierOrder
<1> QED
  BY <1>1, <1>5, <1>6, <1>7 DEF OrderOf

(* What comes before a place both lists have. *)
LEMMA PlacesBefore ==
    ASSUME NEW l \in Nat, NEW m \in Nat, NEW n \in 1..l, n \in 1..m, NEW j \in 1..(n - 1)
    PROVE  j \in 1..l /\ j \in 1..m /\ ~(n =< j)
OBVIOUS

(* The first place at which two lists differ decides, if there is one.     *)
LEMMA FirstDecides ==
    ASSUME NEW T, NEW F, NEW a \in Seq(T), NEW b \in Seq(T), NEW otherwise, NEW d,
           LET both == {i \in DOMAIN a \cap DOMAIN b : F[a[i]][b[i]] # 0}
               i == CHOOSE i \in both : \A j \in both : i =< j
           IN  d = IF both = {} THEN otherwise ELSE F[a[i]][b[i]]
    PROVE  Decides(a, b, F, otherwise, d)
<1> DEFINE both == {i \in DOMAIN a \cap DOMAIN b : F[a[i]][b[i]] # 0}
           i == CHOOSE i \in both : \A j \in both : i =< j
<1>1. CASE both = {}
  BY <1>1 DEF Decides
<1>2. CASE both # {}
  <2>1. Len(a) \in Nat /\ Len(b) \in Nat /\ DOMAIN a = 1..Len(a) /\ DOMAIN b = 1..Len(b)
    OBVIOUS
  <2>2. both \in SUBSET (1..Len(a))
    BY <2>1
  <2>3. \E k \in both : \A j \in both : k =< j
    BY <1>2, <2>1, <2>2, FirstPosition
  <2>4. i \in both /\ \A j \in both : i =< j
    BY <2>3
  <2>5. PICK n \in both : d = F[a[n]][b[n]] /\ \A j \in both : n =< j
    BY <1>2, <2>4
  <2>6. n \in 1..Len(a) /\ n \in 1..Len(b)
    BY <2>1
  <2>8. F[a[n]][b[n]] # 0
    OBVIOUS
  <2>7. ASSUME NEW j \in 1..(n - 1) PROVE F[a[j]][b[j]] = 0
    <3>1. j \in 1..Len(a) /\ j \in 1..Len(b) /\ ~(n =< j)
      BY <2>1, <2>6, PlacesBefore, Zenon
    <3>2. j \notin both
      BY <2>5, <3>1
    <3> QED
      BY <2>1, <3>1, <3>2
  <2> QED
    BY <2>1, <2>5, <2>6, <2>7, <2>8 DEF Decides
<1> QED
  BY <1>1, <1>2

(* Turning the lists round turns the outcome round.                        *)
LEMMA DecidesBack ==
    ASSUME NEW T, NEW F, OrderOf(T, F), NEW a \in Seq(T), NEW b \in Seq(T),
           NEW oab \in Signs, NEW oba \in Signs, Opposed(oab, oba),
           NEW ab, NEW ba, Decides(a, b, F, oab, ab), Decides(b, a, F, oba, ba)
    PROVE  ab \in Signs /\ Opposed(ab, ba)
<1>0. oab = -oba
  BY DEF Opposed
<1>1. /\ Len(a) \in Nat /\ Len(b) \in Nat /\ DOMAIN a = 1..Len(a) /\ DOMAIN b = 1..Len(b)
      /\ \A i \in DOMAIN a : a[i] \in T
      /\ \A i \in DOMAIN b : b[i] \in T
  OBVIOUS
<1>2. \A i \in DOMAIN a \cap DOMAIN b :
        F[a[i]][b[i]] \in Signs /\ F[b[i]][a[i]] \in Signs /\ F[a[i]][b[i]] = -F[b[i]][a[i]]
  BY <1>1 DEF OrderOf
<1>3. CASE \A j \in DOMAIN a \cap DOMAIN b : F[a[j]][b[j]] = 0
  <2>1. \A j \in DOMAIN b \cap DOMAIN a : F[b[j]][a[j]] = 0
    BY <1>2, <1>3 DEF Signs
  <2>2. ab = oab
    BY <1>3 DEF Decides
  <2>3. ba = oba
    BY <2>1 DEF Decides
  <2> QED
    BY <1>0, <2>2, <2>3
<1>4. ASSUME NEW k \in DOMAIN a \cap DOMAIN b, F[a[k]][b[k]] # 0
      PROVE  ab \in Signs /\ ab = -ba
  <2>1. PICK i \in DOMAIN a \cap DOMAIN b :
           /\ ab = F[a[i]][b[i]] /\ ab # 0
           /\ \A j \in 1..(i - 1) : F[a[j]][b[j]] = 0
    BY <1>4 DEF Decides
  <2>2. F[b[k]][a[k]] # 0
    BY <1>2, <1>4 DEF Signs
  <2>3. PICK m \in DOMAIN b \cap DOMAIN a :
           /\ ba = F[b[m]][a[m]] /\ ba # 0
           /\ \A j \in 1..(m - 1) : F[b[j]][a[j]] = 0
    BY <1>4, <2>2 DEF Decides
  <2>4. F[a[m]][b[m]] # 0 /\ F[b[i]][a[i]] # 0
    BY <1>2, <2>1, <2>3 DEF Signs
  <2>5. ~(i < m) /\ ~(m < i)
    BY <1>1, <2>1, <2>3, <2>4
  <2>6. i = m
    BY <1>1, <2>5
  <2> QED
    BY <1>2, <2>1, <2>3, <2>6
<1> QED
  BY <1>3, <1>4 DEF Opposed

(* The order of lists that two lists and their lengths compose to.         *)
LEMMA DecidesOn ==
    ASSUME NEW T, NEW F, OrderOf(T, F),
           NEW a \in Seq(T), NEW b \in Seq(T), NEW c \in Seq(T),
           NEW oab \in Signs, NEW obc \in Signs, NEW oac \in Signs,
           Chained(oab, obc, oac),
           oab =< 0 => Len(a) =< Len(b),
           obc =< 0 => Len(b) =< Len(c),
           Len(a) < Len(c) => oac < 0,
           NEW ab, NEW bc, NEW ac,
           Decides(a, b, F, oab, ab), Decides(b, c, F, obc, bc), Decides(a, c, F, oac, ac)
    PROVE  Chained(ab, bc, ac)
<1> SUFFICES ASSUME ab =< 0, bc =< 0
             PROVE  ac =< 0 /\ (ac = 0 => ab = 0 /\ bc = 0)
  BY DEF Chained
<1> DEFINE la == Len(a)
           lb == Len(b)
           lc == Len(c)
           AB(i) == F[a[i]][b[i]]
           BC(i) == F[b[i]][c[i]]
           AC(i) == F[a[i]][c[i]]
<1>1. /\ la \in Nat /\ lb \in Nat /\ lc \in Nat
      /\ DOMAIN a = 1..la /\ DOMAIN b = 1..lb /\ DOMAIN c = 1..lc
      /\ \A i \in 1..la : a[i] \in T
      /\ \A i \in 1..lb : b[i] \in T
      /\ \A i \in 1..lc : c[i] \in T
  OBVIOUS
<1>2. /\ \A i \in 1..la : i \in 1..lb => AB(i) \in Signs
      /\ \A i \in 1..lb : i \in 1..lc => BC(i) \in Signs
      /\ \A i \in 1..la : i \in 1..lc => AC(i) \in Signs
      /\ \A i \in 1..la : i \in 1..lb /\ i \in 1..lc => Chained(AB(i), BC(i), AC(i))
      /\ \A i \in 1..la : i \in 1..lb /\ i \in 1..lc /\ AB(i) = 0 /\ BC(i) = 0 => AC(i) = 0
  <2>1. \A x, y, z \in T : F[x][y] = 0 /\ F[y][z] = 0 => F[x][z] = 0
    BY DEF OrderOf, Chained, Signs
  <2> QED
    BY <1>1, <2>1 DEF OrderOf
<1>3. \/ ab = oab /\ \A j \in 1..la : j \in 1..lb => AB(j) = 0
      \/ \E i \in 1..la : i \in 1..lb /\ ab = AB(i) /\ ab # 0 /\ \A j \in 1..(i - 1) : AB(j) = 0
  BY <1>1 DEF Decides
<1>4. \/ bc = obc /\ \A j \in 1..lb : j \in 1..lc => BC(j) = 0
      \/ \E i \in 1..lb : i \in 1..lc /\ bc = BC(i) /\ bc # 0 /\ \A j \in 1..(i - 1) : BC(j) = 0
  BY <1>1 DEF Decides
<1>5. \/ ac = oac /\ \A j \in 1..la : j \in 1..lc => AC(j) = 0
      \/ \E i \in 1..la : i \in 1..lc /\ ac = AC(i) /\ ac # 0 /\ \A j \in 1..(i - 1) : AC(j) = 0
  BY <1>1 DEF Decides
<1> HIDE DEF la, lb, lc, AB, BC, AC
<1>6. oab =< 0 => la =< lb
  BY DEF la, lb
<1>7. obc =< 0 => lb =< lc
  BY DEF lb, lc
<1>8. la < lc => oac < 0
  BY DEF la, lc
<1>9. ASSUME NEW m \in 1..la, m \in 1..lc, AC(m) < 0, \A j \in 1..(m - 1) : AC(j) = 0
      PROVE  ac < 0
  <2>1. PICK i \in 1..la : i \in 1..lc /\ ac = AC(i) /\ ac # 0 /\ \A j \in 1..(i - 1) : AC(j) = 0
    BY <1>5, <1>9
  <2>2. ~(i < m) /\ ~(m < i)
    BY <1>1, <1>9, <2>1
  <2>3. i = m
    BY <1>1, <2>2
  <2> QED
    BY <1>9, <2>1, <2>3
<1>10. CASE ab = oab /\ (\A j \in 1..la : j \in 1..lb => AB(j) = 0)
            /\ bc = obc /\ (\A j \in 1..lb : j \in 1..lc => BC(j) = 0)
  <2>1. la =< lb /\ lb =< lc
    BY <1>6, <1>7, <1>10
  <2>2. \A j \in 1..la : j \in 1..lb /\ j \in 1..lc
    BY <1>1, <2>1
  <2>3. \A j \in 1..la : AC(j) = 0
    BY <1>2, <1>10, <2>2
  <2>4. ac = oac
    BY <1>5, <2>3
  <2> QED
    BY <1>10, <2>4 DEF Chained
<1>11. ASSUME NEW i \in 1..la, i \in 1..lb, ab = AB(i), ab # 0, \A j \in 1..(i - 1) : AB(j) = 0,
              bc = obc, \A j \in 1..lb : j \in 1..lc => BC(j) = 0
       PROVE  ac < 0
  <2>1. i \in 1..lc /\ lb =< lc
    BY <1>1, <1>7, <1>11
  <2>2. /\ BC(i) = 0 /\ AB(i) < 0 /\ Chained(AB(i), BC(i), AC(i))
        /\ AB(i) \in Signs /\ AC(i) \in Signs
    BY <1>1, <1>2, <1>11, <2>1 DEF Signs
  <2>3. AC(i) < 0
    BY <2>2 DEF Chained, Signs
  <2>4. \A j \in 1..(i - 1) : j \in 1..la /\ j \in 1..lb /\ j \in 1..lc
    BY <1>1, <1>11, <2>1
  <2>5. \A j \in 1..(i - 1) : AC(j) = 0
    BY <1>2, <1>11, <2>4
  <2> QED
    BY <1>9, <1>11, <2>1, <2>3, <2>5
<1>12. ASSUME ab = oab, \A j \in 1..la : j \in 1..lb => AB(j) = 0,
              NEW k \in 1..lb, k \in 1..lc, bc = BC(k), bc # 0, \A j \in 1..(k - 1) : BC(j) = 0
       PROVE  ac < 0
  <2>1. la =< lb
    BY <1>6, <1>12
  <2>2. CASE k =< la
    <3>1. k \in 1..la
      BY <1>1, <1>12, <2>2
    <3>2. /\ AB(k) = 0 /\ BC(k) < 0 /\ Chained(AB(k), BC(k), AC(k))
          /\ BC(k) \in Signs /\ AC(k) \in Signs
      BY <1>1, <1>2, <1>12, <3>1 DEF Signs
    <3>3. AC(k) < 0
      BY <3>2 DEF Chained, Signs
    <3>4. \A j \in 1..(k - 1) : j \in 1..la /\ j \in 1..lb /\ j \in 1..lc
      BY <1>1, <1>12, <3>1
    <3>5. \A j \in 1..(k - 1) : AC(j) = 0
      BY <1>2, <1>12, <3>4
    <3> QED
      BY <1>9, <1>12, <3>1, <3>3, <3>5
  <2>3. CASE la < k
    <3>1. \A j \in 1..la : j \in 1..lb /\ j \in 1..lc /\ j \in 1..(k - 1)
      BY <1>1, <1>12, <2>1, <2>3
    <3>2. \A j \in 1..la : AC(j) = 0
      BY <1>2, <1>12, <3>1
    <3>3. ac = oac
      BY <1>5, <3>2
    <3>4. la < lc
      BY <1>1, <1>12, <2>3
    <3> QED
      BY <1>8, <3>3, <3>4
  <2> QED
    BY <1>1, <1>12, <2>2, <2>3
<1>13. ASSUME NEW i \in 1..la, i \in 1..lb, ab = AB(i), ab # 0, \A j \in 1..(i - 1) : AB(j) = 0,
              NEW k \in 1..lb, k \in 1..lc, bc = BC(k), bc # 0, \A j \in 1..(k - 1) : BC(j) = 0
       PROVE  ac < 0
  <2> DEFINE m == IF i =< k THEN i ELSE k
  <2>1. m \in 1..la /\ m \in 1..lb /\ m \in 1..lc /\ (m = i \/ m < i) /\ (m = k \/ m < k) /\ (m = i \/ m = k)
    BY <1>1, <1>13
  <2> HIDE DEF m
  <2>2. AB(m) =< 0 /\ BC(m) =< 0 /\ (AB(m) # 0 \/ BC(m) # 0)
    <3>1. m < i => AB(m) = 0
      BY <1>1, <1>13, <2>1
    <3>2. m < k => BC(m) = 0
      BY <1>1, <1>13, <2>1
    <3> QED
      BY <1>13, <2>1, <3>1, <3>2
  <2>3. AC(m) < 0
    <3>1. Chained(AB(m), BC(m), AC(m)) /\ AC(m) \in Signs
      BY <1>2, <2>1
    <3> QED
      BY <2>2, <3>1 DEF Chained, Signs
  <2>4. \A j \in 1..(m - 1) : /\ j \in 1..la /\ j \in 1..lb /\ j \in 1..lc
                              /\ j \in 1..(i - 1) /\ j \in 1..(k - 1)
    BY <1>1, <1>13, <2>1
  <2>5. \A j \in 1..(m - 1) : AC(j) = 0
    BY <1>2, <1>13, <2>4
  <2> QED
    BY <1>9, <2>1, <2>3, <2>5
<1> QED
  <2>1. ac < 0 => ac =< 0 /\ ac # 0
    <3>1. ac \in Signs
      BY <1>2, <1>5
    <3> QED
      BY <3>1 DEF Signs
  <2> QED
    BY <1>3, <1>4, <1>10, <1>11, <1>12, <1>13, <2>1

(* What the lengths say when a list may be empty: an empty one is the      *)
(* highest.                                                                *)
LEMMA LengthsInOrder ==
    \A x, y, z \in Nat :
        /\ CompareNumbers(x, y) \in Signs
        /\ Opposed(CompareNumbers(x, y), CompareNumbers(y, x))
        /\ Chained(CompareNumbers(x, y), CompareNumbers(y, z), CompareNumbers(x, z))
        /\ CompareNumbers(x, y) =< 0 <=> x =< y
        /\ CompareNumbers(x, y) < 0 <=> x < y
BY DEF CompareNumbers, Chained, Opposed, Signs

(* Lists of identifiers that are not empty are compared place by place.    *)
LEMMA PrereleaseDecides ==
    ASSUME NEW a \in Seq(Identifiers), NEW b \in Seq(Identifiers), a # <<>>, b # <<>>
    PROVE  Decides(a, b, IdentifierOrder, CompareNumbers(Len(a), Len(b)), ComparePrerelease(a, b))
<1> DEFINE both == {i \in DOMAIN a \cap DOMAIN b : CompareIdentifiers(a[i], b[i]) # 0}
           i == CHOOSE i \in both : \A j \in both : i =< j
           ordered == {m \in DOMAIN a \cap DOMAIN b : IdentifierOrder[a[m]][b[m]] # 0}
           k == CHOOSE m \in ordered : \A j \in ordered : m =< j
<1>1. ComparePrerelease(a, b) =
        IF both = {} THEN CompareNumbers(Len(a), Len(b)) ELSE CompareIdentifiers(a[i], b[i])
  BY DEF ComparePrerelease, AtFirstDifference
<1>2. \A j \in DOMAIN a \cap DOMAIN b :
        CompareIdentifiers(a[j], b[j]) = IdentifierOrder[a[j]][b[j]]
  <2>1. \A j \in DOMAIN a \cap DOMAIN b : a[j] \in Identifiers /\ b[j] \in Identifiers
    OBVIOUS
  <2> QED
    BY <2>1 DEF IdentifierOrder
<1>3. both = ordered
  BY <1>2
<1>4. both # {} => i \in both
  <2>1. both \in SUBSET (1..Len(a)) /\ Len(a) \in Nat
    OBVIOUS
  <2> QED
    BY <2>1, FirstPosition
<1>5. both # {} => i \in DOMAIN a \cap DOMAIN b
  BY <1>4
<1>6. i = k
  BY <1>3
<1> HIDE DEF both, ordered, i, k
<1>7. ComparePrerelease(a, b) =
        IF ordered = {} THEN CompareNumbers(Len(a), Len(b)) ELSE IdentifierOrder[a[k]][b[k]]
  BY <1>1, <1>2, <1>3, <1>5, <1>6
<1> QED
  BY <1>7, FirstDecides DEF ordered, k

(* Prereleases are in order: a version without one after those with one.   *)
LEMMA PrereleasesInOrder ==
    ASSUME NEW a \in Seq(Identifiers), NEW b \in Seq(Identifiers), NEW c \in Seq(Identifiers)
    PROVE  /\ ComparePrerelease(a, b) \in Signs
           /\ Opposed(ComparePrerelease(a, b), ComparePrerelease(b, a))
           /\ Chained(ComparePrerelease(a, b), ComparePrerelease(b, c), ComparePrerelease(a, c))
<1>1. ASSUME NEW u \in Seq(Identifiers), NEW v \in Seq(Identifiers)
      PROVE  /\ ComparePrerelease(u, v) \in Signs
             /\ Opposed(ComparePrerelease(u, v), ComparePrerelease(v, u))
  <2>1. Len(u) \in Nat /\ Len(v) \in Nat
    OBVIOUS
  <2>2. CASE u = <<>> \/ v = <<>>
    <3>1. /\ ComparePrerelease(u, v) = CompareNumbers(Len(v), Len(u))
          /\ ComparePrerelease(v, u) = CompareNumbers(Len(u), Len(v))
      BY <2>2 DEF ComparePrerelease
    <3> QED
      BY <2>1, <3>1, LengthsInOrder
  <2>3. CASE u # <<>> /\ v # <<>>
    <3>1. /\ Decides(u, v, IdentifierOrder, CompareNumbers(Len(u), Len(v)), ComparePrerelease(u, v))
          /\ Decides(v, u, IdentifierOrder, CompareNumbers(Len(v), Len(u)), ComparePrerelease(v, u))
      BY <2>3, PrereleaseDecides
    <3>2. /\ CompareNumbers(Len(u), Len(v)) \in Signs /\ CompareNumbers(Len(v), Len(u)) \in Signs
          /\ Opposed(CompareNumbers(Len(u), Len(v)), CompareNumbers(Len(v), Len(u)))
      BY <2>1, LengthsInOrder
    <3> QED
      BY <3>1, <3>2, IdentifiersInOrder, DecidesBack
  <2> QED
    BY <2>2, <2>3
<1>2. /\ Len(a) \in Nat /\ Len(b) \in Nat /\ Len(c) \in Nat
      /\ a = <<>> <=> Len(a) = 0
      /\ b = <<>> <=> Len(b) = 0
      /\ c = <<>> <=> Len(c) = 0
  OBVIOUS
<1>3. CASE a # <<>> /\ b # <<>> /\ c # <<>>
  <2> DEFINE oab == CompareNumbers(Len(a), Len(b))
             obc == CompareNumbers(Len(b), Len(c))
             oac == CompareNumbers(Len(a), Len(c))
  <2>1. /\ Decides(a, b, IdentifierOrder, oab, ComparePrerelease(a, b))
        /\ Decides(b, c, IdentifierOrder, obc, ComparePrerelease(b, c))
        /\ Decides(a, c, IdentifierOrder, oac, ComparePrerelease(a, c))
    BY <1>3, PrereleaseDecides
  <2>2. /\ oab \in Signs /\ obc \in Signs /\ oac \in Signs /\ Chained(oab, obc, oac)
        /\ oab =< 0 => Len(a) =< Len(b)
        /\ obc =< 0 => Len(b) =< Len(c)
        /\ Len(a) < Len(c) => oac < 0
    BY <1>2, LengthsInOrder
  <2> HIDE DEF oab, obc, oac
  <2>3. Chained(ComparePrerelease(a, b), ComparePrerelease(b, c), ComparePrerelease(a, c))
    BY <2>1, <2>2, IdentifiersInOrder, DecidesOn
  <2> QED
    BY <1>1, <2>3
<1>4. CASE a = <<>> \/ b = <<>> \/ c = <<>>
  <2> DEFINE ab == ComparePrerelease(a, b)
             bc == ComparePrerelease(b, c)
             ac == ComparePrerelease(a, c)
  <2>1. /\ a = <<>> \/ b = <<>> => ab = CompareNumbers(Len(b), Len(a))
        /\ b = <<>> \/ c = <<>> => bc = CompareNumbers(Len(c), Len(b))
        /\ a = <<>> \/ c = <<>> => ac = CompareNumbers(Len(c), Len(a))
    BY DEF ComparePrerelease
  <2>2. ab \in Signs /\ bc \in Signs /\ ac \in Signs
    BY <1>1
  <2> HIDE DEF ab, bc, ac
  <2>3. Chained(ab, bc, ac)
    BY <1>2, <1>4, <2>1, <2>2 DEF Chained, CompareNumbers, Signs
  <2> QED
    BY <1>1, <2>3 DEF ab, bc, ac
<1> QED
  BY <1>3, <1>4

(* Two valid versions are compared by their numbers first.                 *)
LEMMA CoreDecides ==
    ASSUME NEW u \in ParsedVersions, NEW v \in ParsedVersions, u.valid, v.valid
    PROVE  Decides(u.core, v.core, NumberOrder,
                   ComparePrerelease(u.identifiers, v.identifiers), Compare(u, v))
<1> DEFINE otherwise == ComparePrerelease(u.identifiers, v.identifiers)
           both == {i \in DOMAIN u.core \cap DOMAIN v.core : CompareNumbers(u.core[i], v.core[i]) # 0}
           i == CHOOSE i \in both : \A j \in both : i =< j
           ordered == {m \in DOMAIN u.core \cap DOMAIN v.core : NumberOrder[u.core[m]][v.core[m]] # 0}
           k == CHOOSE m \in ordered : \A j \in ordered : m =< j
<1>1. Compare(u, v) = IF both = {} THEN otherwise ELSE CompareNumbers(u.core[i], v.core[i])
  BY DEF Compare, AtFirstDifference
<1>2. u.core \in Seq(Nat) /\ v.core \in Seq(Nat)
  BY DEF ParsedVersions
<1>3. \A j \in DOMAIN u.core \cap DOMAIN v.core :
        CompareNumbers(u.core[j], v.core[j]) = NumberOrder[u.core[j]][v.core[j]]
  <2>1. \A j \in DOMAIN u.core \cap DOMAIN v.core : u.core[j] \in Nat /\ v.core[j] \in Nat
    BY <1>2
  <2> QED
    BY <2>1 DEF NumberOrder
<1>4. both = ordered
  BY <1>3
<1>5. both # {} => i \in both
  <2>1. both \in SUBSET (1..Len(u.core)) /\ Len(u.core) \in Nat
    BY <1>2
  <2> QED
    BY <2>1, FirstPosition
<1>6. both # {} => i \in DOMAIN u.core \cap DOMAIN v.core
  BY <1>5
<1>7. i = k
  BY <1>4
<1> HIDE DEF both, ordered, i, k
<1>8. Compare(u, v) = IF ordered = {} THEN otherwise ELSE NumberOrder[u.core[k]][v.core[k]]
  BY <1>1, <1>3, <1>4, <1>6, <1>7
<1> QED
  BY <1>2, <1>8, FirstDecides DEF ordered, k

(* Compare is an order of all versions, up to what it calls equal: any two *)
(* can be compared, turning them round turns the answer round, and what is *)
(* not above something is not above what that is not above.  A loop that   *)
(* keeps the higher of two ends with the highest, in whatever order the    *)
(* page lists them.  (semver.go: Compare; update.go: Check)                *)
THEOREM CompareIsOrder ==
    ASSUME NEW u \in ParsedVersions, NEW v \in ParsedVersions, NEW w \in ParsedVersions
    PROVE  /\ Compare(u, v) \in Signs
           /\ Opposed(Compare(u, v), Compare(v, u))
           /\ Chained(Compare(u, v), Compare(v, w), Compare(u, w))
<1>1. \A x \in ParsedVersions :
        /\ x.valid \in BOOLEAN /\ x.identifiers \in Seq(Identifiers)
        /\ x.core \in Seq(Nat) /\ Len(x.core) = 3
  BY DEF ParsedVersions
<1>2. \A x, y \in ParsedVersions :
        ~x.valid \/ ~y.valid => Compare(x, y) = IF x.valid THEN 1 ELSE IF y.valid THEN -1 ELSE 0
  BY DEF Compare
<1>3. ASSUME NEW x \in ParsedVersions, NEW y \in ParsedVersions
      PROVE  Compare(x, y) \in Signs /\ Opposed(Compare(x, y), Compare(y, x))
  <2>1. CASE x.valid /\ y.valid
    <3> DEFINE oxy == ComparePrerelease(x.identifiers, y.identifiers)
               oyx == ComparePrerelease(y.identifiers, x.identifiers)
    <3>1. oxy \in Signs /\ oyx \in Signs /\ Opposed(oxy, oyx)
      BY <1>1, PrereleasesInOrder
    <3>2. /\ Decides(x.core, y.core, NumberOrder, oxy, Compare(x, y))
          /\ Decides(y.core, x.core, NumberOrder, oyx, Compare(y, x))
      BY <2>1, CoreDecides
    <3> HIDE DEF oxy, oyx
    <3> QED
      BY <1>1, <3>1, <3>2, NumbersInOrder, DecidesBack
  <2>2. CASE ~x.valid \/ ~y.valid
    BY <1>1, <1>2, <2>2 DEF Opposed, Signs
  <2> QED
    BY <2>1, <2>2
<1>4. Chained(Compare(u, v), Compare(v, w), Compare(u, w))
  <2>1. CASE u.valid /\ v.valid /\ w.valid
    <3> DEFINE ouv == ComparePrerelease(u.identifiers, v.identifiers)
               ovw == ComparePrerelease(v.identifiers, w.identifiers)
               ouw == ComparePrerelease(u.identifiers, w.identifiers)
    <3>1. ouv \in Signs /\ ovw \in Signs /\ ouw \in Signs /\ Chained(ouv, ovw, ouw)
      BY <1>1, PrereleasesInOrder
    <3>2. /\ Decides(u.core, v.core, NumberOrder, ouv, Compare(u, v))
          /\ Decides(v.core, w.core, NumberOrder, ovw, Compare(v, w))
          /\ Decides(u.core, w.core, NumberOrder, ouw, Compare(u, w))
      BY <2>1, CoreDecides
    <3> HIDE DEF ouv, ovw, ouw
    <3>3. /\ u.core \in Seq(Nat) /\ v.core \in Seq(Nat) /\ w.core \in Seq(Nat)
          /\ Len(u.core) = 3 /\ Len(v.core) = 3 /\ Len(w.core) = 3
      BY <1>1
    <3>4. /\ ouv =< 0 => Len(u.core) =< Len(v.core)
          /\ ovw =< 0 => Len(v.core) =< Len(w.core)
          /\ Len(u.core) < Len(w.core) => ouw < 0
      BY <3>3
    <3> QED
      BY <3>1, <3>2, <3>3, <3>4, NumbersInOrder, DecidesOn
  <2>2. CASE ~(u.valid /\ v.valid /\ w.valid)
    <3> DEFINE uv == Compare(u, v)
               vw == Compare(v, w)
               uw == Compare(u, w)
    <3>1. uv \in Signs /\ vw \in Signs /\ uw \in Signs
      BY <1>3
    <3>2. /\ ~u.valid \/ ~v.valid => uv = IF u.valid THEN 1 ELSE IF v.valid THEN -1 ELSE 0
          /\ ~v.valid \/ ~w.valid => vw = IF v.valid THEN 1 ELSE IF w.valid THEN -1 ELSE 0
          /\ ~u.valid \/ ~w.valid => uw = IF u.valid THEN 1 ELSE IF w.valid THEN -1 ELSE 0
      BY <1>2
    <3> HIDE DEF uv, vw, uw
    <3>3. Chained(uv, vw, uw)
      BY <2>2, <3>1, <3>2 DEF Chained, Signs
    <3> QED
      BY <3>3 DEF uv, vw, uw
  <2> QED
    BY <2>1, <2>2
<1> QED
  BY <1>3, <1>4

(* Where a comparison by places is above zero, if it is zero on equals     *)
(* only.                                                                   *)
LEMMA DecidesUp ==
    ASSUME NEW T, NEW F, NEW a \in Seq(T), NEW b \in Seq(T),
           NEW otherwise, NEW d, Decides(a, b, F, otherwise, d),
           \A i \in DOMAIN a \cap DOMAIN b :
              F[a[i]][b[i]] \in Signs /\ (F[a[i]][b[i]] = 0 <=> a[i] = b[i])
    PROVE  d > 0 <=> \/ otherwise > 0 /\ \A j \in DOMAIN a \cap DOMAIN b : a[j] = b[j]
                     \/ \E i \in DOMAIN a \cap DOMAIN b : Agree(a, b, i - 1) /\ F[a[i]][b[i]] > 0
<1> DEFINE AB(i) == F[a[i]][b[i]]
           both == DOMAIN a \cap DOMAIN b
<1>1. /\ both \subseteq Nat \ {0}
      /\ \A i \in both : \A j \in 1..(i - 1) : j \in both
  <2>1. Len(a) \in Nat /\ Len(b) \in Nat /\ DOMAIN a = 1..Len(a) /\ DOMAIN b = 1..Len(b)
    OBVIOUS
  <2> QED
    BY <2>1
<1>2. \A i \in both : AB(i) \in Signs /\ (AB(i) = 0 <=> a[i] = b[i])
  OBVIOUS
<1>3. \/ d = otherwise /\ \A j \in both : AB(j) = 0
      \/ \E i \in both : d = AB(i) /\ d # 0 /\ \A j \in 1..(i - 1) : AB(j) = 0
  BY DEF Decides
<1>4. \A i \in both : Agree(a, b, i - 1) <=> \A j \in 1..(i - 1) : AB(j) = 0
  BY <1>1, <1>2 DEF Agree
<1> HIDE DEF AB, both
<1>5. CASE d = otherwise /\ \A j \in both : AB(j) = 0
  BY <1>2, <1>5 DEF AB, both
<1>6. ASSUME NEW i \in both, d = AB(i), d # 0, \A j \in 1..(i - 1) : AB(j) = 0
      PROVE  d > 0 <=> \/ otherwise > 0 /\ \A j \in both : a[j] = b[j]
                       \/ \E k \in both : Agree(a, b, k - 1) /\ AB(k) > 0
  <2>1. a[i] # b[i] /\ Agree(a, b, i - 1)
    BY <1>2, <1>4, <1>6
  <2>2. ASSUME NEW k \in both, Agree(a, b, k - 1), AB(k) > 0
        PROVE  k = i
    <3>1. AB(k) # 0 /\ \A j \in 1..(k - 1) : AB(j) = 0
      BY <1>2, <1>4, <2>2 DEF Signs
    <3>2. ~(i < k) /\ ~(k < i)
      BY <1>1, <1>6, <3>1
    <3> QED
      BY <1>1, <3>2
  <2> QED
    BY <1>6, <2>1, <2>2
<1> QED
  BY <1>3, <1>5, <1>6 DEF AB, both

(* Identifiers that are read apart are ranked as semver.org ranks them.    *)
LEMMA IdentifiersRanked ==
    ASSUME NEW x \in Identifiers, NEW y \in Identifiers,
           x.numeric /\ y.numeric /\ ParseUint(x) = ParseUint(y) => x.value = y.value
    PROVE  /\ CompareIdentifiers(x, y) \in Signs
           /\ CompareIdentifiers(x, y) = 0 <=> x = y
           /\ CompareIdentifiers(x, y) > 0 <=> HigherIdentifier(x, y)
<1>1. /\ x.numeric \in BOOLEAN /\ y.numeric \in BOOLEAN /\ x.value \in Nat /\ y.value \in Nat
      /\ x = y <=> x.numeric = y.numeric /\ x.value = y.value
  BY DEF Identifiers
<1>2. \A m, n \in Nat : /\ CompareNumbers(m, n) \in Signs
                        /\ CompareNumbers(m, n) = 0 <=> m = n
                        /\ CompareNumbers(m, n) > 0 <=> m > n
  BY DEF CompareNumbers, Signs
<1>3. CASE x.numeric # y.numeric
  BY <1>1, <1>3 DEF CompareIdentifiers, HigherIdentifier, Signs
<1>4. CASE x.numeric = y.numeric /\ ~x.numeric
  BY <1>1, <1>2, <1>4 DEF CompareIdentifiers, HigherIdentifier
<1>5. CASE x.numeric /\ y.numeric
  <2>1. ParseUint(x) \in Nat /\ ParseUint(y) \in Nat
    BY <1>1, SemverAssumption DEF ParseUint
  <2>2. ParseUint(x) = ParseUint(y) <=> x.value = y.value
    BY <1>5 DEF ParseUint
  <2>3. ParseUint(x) > ParseUint(y) <=> x.value > y.value
    BY <1>1, <2>1, <2>2, SemverAssumption DEF ParseUint
  <2>4. CompareIdentifiers(x, y) = CompareNumbers(ParseUint(x), ParseUint(y))
    BY <1>5 DEF CompareIdentifiers
  <2> QED
    BY <1>1, <1>2, <1>5, <2>1, <2>2, <2>3, <2>4 DEF HigherIdentifier
<1> QED
  BY <1>1, <1>3, <1>4, <1>5

(* And so are the lists of them. *)
LEMMA PrereleasesRanked ==
    ASSUME NEW a \in Seq(Identifiers), NEW b \in Seq(Identifiers),
           \A i \in DOMAIN a, j \in DOMAIN b :
              a[i].numeric /\ b[j].numeric /\ ParseUint(a[i]) = ParseUint(b[j])
                 => a[i].value = b[j].value
    PROVE  /\ ComparePrerelease(a, b) \in Signs
           /\ ComparePrerelease(a, b) > 0 <=> HigherPrerelease(a, b)
<1>1. /\ Len(a) \in Nat /\ Len(b) \in Nat /\ DOMAIN a = 1..Len(a) /\ DOMAIN b = 1..Len(b)
      /\ a = <<>> <=> Len(a) = 0
      /\ b = <<>> <=> Len(b) = 0
  OBVIOUS
<1>2. ComparePrerelease(a, b) \in Signs
  BY PrereleasesInOrder
<1>3. \A m, n \in Nat : CompareNumbers(m, n) > 0 <=> m > n
  BY DEF CompareNumbers
<1>4. CASE a = <<>> \/ b = <<>>
  <2>1. ComparePrerelease(a, b) = CompareNumbers(Len(b), Len(a))
    BY <1>4 DEF ComparePrerelease
  <2>2. ComparePrerelease(a, b) > 0 <=> Len(b) > Len(a)
    BY <1>1, <1>3, <2>1
  <2>3. Len(b) > Len(a) <=> b # <<>> /\ a = <<>>
    BY <1>1, <1>4
  <2>4. HigherPrerelease(a, b) <=> b # <<>> /\ a = <<>>
    BY <1>4 DEF HigherPrerelease
  <2> QED
    BY <1>2, <2>2, <2>3, <2>4
<1>5. CASE a # <<>> /\ b # <<>>
  <2> DEFINE both == DOMAIN a \cap DOMAIN b
  <2>1. \A i \in both : /\ IdentifierOrder[a[i]][b[i]] = CompareIdentifiers(a[i], b[i])
                        /\ CompareIdentifiers(a[i], b[i]) \in Signs
                        /\ CompareIdentifiers(a[i], b[i]) = 0 <=> a[i] = b[i]
                        /\ CompareIdentifiers(a[i], b[i]) > 0 <=> HigherIdentifier(a[i], b[i])
    <3> TAKE i \in both
    <3>1. a[i] \in Identifiers /\ b[i] \in Identifiers
      OBVIOUS
    <3>2. IdentifierOrder[a[i]][b[i]] = CompareIdentifiers(a[i], b[i])
      BY <3>1 DEF IdentifierOrder
    <3>3. a[i].numeric /\ b[i].numeric /\ ParseUint(a[i]) = ParseUint(b[i])
             => a[i].value = b[i].value
      OBVIOUS
    <3> QED
      BY <3>1, <3>2, <3>3, IdentifiersRanked
  <2>2. Decides(a, b, IdentifierOrder, CompareNumbers(Len(a), Len(b)), ComparePrerelease(a, b))
    BY <1>5, PrereleaseDecides
  <2>3. \A i \in both : /\ IdentifierOrder[a[i]][b[i]] \in Signs
                        /\ IdentifierOrder[a[i]][b[i]] = 0 <=> a[i] = b[i]
    BY <2>1
  <2>4. ComparePrerelease(a, b) > 0 <=>
           \/ CompareNumbers(Len(a), Len(b)) > 0 /\ \A j \in both : a[j] = b[j]
           \/ \E i \in both : Agree(a, b, i - 1) /\ IdentifierOrder[a[i]][b[i]] > 0
    BY <2>2, <2>3, DecidesUp
  <2>5. CompareNumbers(Len(a), Len(b)) > 0 /\ (\A j \in both : a[j] = b[j])
           <=> Len(a) > Len(b) /\ Agree(a, b, Len(b))
    <3>1. Len(a) > Len(b) => both = 1..Len(b)
      BY <1>1
    <3>2. CompareNumbers(Len(a), Len(b)) > 0 <=> Len(a) > Len(b)
      BY <1>1, <1>3
    <3> HIDE DEF both
    <3> QED
      BY <3>1, <3>2 DEF Agree
  <2>6. ComparePrerelease(a, b) > 0 <=>
           \/ Len(a) > Len(b) /\ Agree(a, b, Len(b))
           \/ \E i \in both : Agree(a, b, i - 1) /\ HigherIdentifier(a[i], b[i])
    BY <2>1, <2>4, <2>5
  <2> QED
    BY <1>2, <1>5, <2>6 DEF HigherPrerelease
<1> QED
  BY <1>4, <1>5

(* For versions of any numbers and identifiers, Compare is the precedence  *)
(* that section 11 of semver.org defines, as long as numbers that differ   *)
(* are not read as the same.  (semver.go: compareParsed)                   *)
THEOREM CompareIsPrecedence ==
    ASSUME NEW v \in ParsedVersions, NEW w \in ParsedVersions, ReadApart(v, w)
    PROVE  Compare(v, w) > 0 <=> Higher(v, w)
<1>1. \A x \in ParsedVersions :
        /\ x.valid \in BOOLEAN /\ x.identifiers \in Seq(Identifiers)
        /\ x.core \in Seq(Nat) /\ Len(x.core) = 3
  BY DEF ParsedVersions
<1>2. CASE ~v.valid \/ ~w.valid
  BY <1>1, <1>2 DEF Compare, Higher
<1>3. CASE v.valid /\ w.valid
  <2> DEFINE otherwise == ComparePrerelease(v.identifiers, w.identifiers)
             a == v.core
             b == w.core
  <2>1. otherwise > 0 <=> HigherPrerelease(v.identifiers, w.identifiers)
    BY <1>1, PrereleasesRanked DEF ReadApart
  <2>2. /\ a \in Seq(Nat) /\ b \in Seq(Nat) /\ Len(a) = 3 /\ Len(b) = 3
        /\ DOMAIN a = 1..3 /\ DOMAIN b = 1..3
    BY <1>1
  <2>3. Decides(a, b, NumberOrder, otherwise, Compare(v, w))
    BY <1>3, CoreDecides
  <2> HIDE DEF otherwise, a, b
  <2>4. \A i \in DOMAIN a \cap DOMAIN b : /\ NumberOrder[a[i]][b[i]] \in Signs
                                          /\ NumberOrder[a[i]][b[i]] = 0 <=> a[i] = b[i]
                                          /\ NumberOrder[a[i]][b[i]] > 0 <=> a[i] > b[i]
    <3> TAKE i \in DOMAIN a \cap DOMAIN b
    <3>1. a[i] \in Nat /\ b[i] \in Nat
      BY <2>2, ElementOfSeq
    <3> QED
      BY <3>1 DEF NumberOrder, CompareNumbers, Signs
  <2>5. Compare(v, w) > 0 <=>
           \/ otherwise > 0 /\ \A j \in DOMAIN a \cap DOMAIN b : a[j] = b[j]
           \/ \E i \in DOMAIN a \cap DOMAIN b : Agree(a, b, i - 1) /\ NumberOrder[a[i]][b[i]] > 0
    BY <2>2, <2>3, <2>4, DecidesUp
  <2>6. DOMAIN a \cap DOMAIN b = 1..3
    BY <2>2
  <2>7. (\A j \in 1..3 : a[j] = b[j]) <=> a = b
    BY <2>2
  <2>8. Compare(v, w) > 0 <=>
           \/ a = b /\ HigherPrerelease(v.identifiers, w.identifiers)
           \/ \E i \in 1..3 : Agree(a, b, i - 1) /\ a[i] > b[i]
    BY <2>1, <2>4, <2>5, <2>6, <2>7
  <2> QED
    BY <1>3, <2>8 DEF Higher, a, b
<1> QED
  BY <1>2, <1>3

(* No two numbers of the scenarios' versions are read as the same, as only *)
(* numbers of twenty and more digits are.                                  *)
NumbersReadApart == \A v, w \in Versions : ReadApart(v, w)

(* Where no two versions are told as the same by mistake, that holds of    *)
(* the scenarios.                                                          *)
LEMMA VersionsRanked ==
    ASSUME NumbersReadApart, NEW v \in Versions, NEW w \in Versions
    PROVE  Compare(v, w) > 0 <=> Higher(v, w)
BY CompareIsPrecedence, UpdateAssumption DEF NumbersReadApart

(* Every finite set of releases has one that no other outranks: the one    *)
(* that most do not outrank.  (update.go: Check)                           *)
THEOREM SomeIsHighest ==
    ASSUME NEW S, IsFiniteSet(S), S # {}, \A r \in S : r.tag \in ParsedVersions
    PROVE  \E r \in S : \A other \in S : Compare(other.tag, r.tag) =< 0
<1> DEFINE Below(r) == {x \in S : Compare(x.tag, r.tag) =< 0}
           n == Cardinality(S)
           Gap(r) == n - Cardinality(Below(r)) + 1
           gaps == {Gap(r) : r \in S}
<1>1. n \in Nat
  BY FS_CardinalityType
<1>2. ASSUME NEW r \in S
      PROVE  Cardinality(Below(r)) \in Nat /\ Cardinality(Below(r)) =< n /\ IsFiniteSet(Below(r))
  <2>1. Below(r) \in SUBSET S
    OBVIOUS
  <2>2. IsFiniteSet(Below(r)) /\ Cardinality(Below(r)) =< n
    BY <2>1, FS_Subset
  <2> QED
    BY <2>2, FS_CardinalityType
<1>3. gaps \in SUBSET (1..(n + 1)) /\ n + 1 \in Nat
  <2>1. ASSUME NEW r \in S PROVE Gap(r) \in 1..(n + 1)
    <3> HIDE DEF Below, n
    <3> QED
      BY <1>1, <1>2
  <2>2. n + 1 \in Nat
    BY <1>1
  <2> HIDE DEF Gap, n
  <2> QED
    BY <2>1, <2>2
<1>4. PICK g \in gaps : \A h \in gaps : g =< h
  <2>1. gaps # {}
    OBVIOUS
  <2> HIDE DEF gaps, n
  <2> QED
    BY <1>3, <2>1, FirstPosition
<1>5. PICK r \in S : g = Gap(r)
  OBVIOUS
<1>6. \A o \in S : Cardinality(Below(o)) =< Cardinality(Below(r))
  <2>1. TAKE o \in S
  <2>2. Gap(r) =< Gap(o)
    BY <1>4, <1>5
  <2> HIDE DEF n, Below
  <2> QED
    BY <1>1, <1>2, <2>2
<1>7. ASSUME NEW o \in S, ~(Compare(o.tag, r.tag) =< 0)
      PROVE  FALSE
  <2>1. Compare(r.tag, o.tag) =< 0 /\ Compare(o.tag, r.tag) \in Signs
    <3>1. /\ Opposed(Compare(r.tag, o.tag), Compare(o.tag, r.tag))
          /\ Compare(o.tag, r.tag) \in Signs /\ Compare(r.tag, o.tag) \in Signs
      BY CompareIsOrder
    <3> QED
      BY <1>7, <3>1 DEF Opposed, Signs
  <2>2. Below(r) \subseteq Below(o)
    <3>1. SUFFICES ASSUME NEW x \in Below(r) PROVE x \in Below(o)
      OBVIOUS
    <3>2. Chained(Compare(x.tag, r.tag), Compare(r.tag, o.tag), Compare(x.tag, o.tag))
      BY CompareIsOrder
    <3> QED
      BY <2>1, <3>2 DEF Chained
  <2>3. Compare(o.tag, o.tag) =< 0
    <3>1. Opposed(Compare(o.tag, o.tag), Compare(o.tag, o.tag)) /\ Compare(o.tag, o.tag) \in Signs
      BY CompareIsOrder
    <3> QED
      BY <3>1 DEF Opposed, Signs
  <2>4. o \in Below(o) /\ o \notin Below(r)
    BY <1>7, <2>3
  <2> HIDE DEF Below
  <2>5. Below(r) # Below(o)
    BY <2>4
  <2>6. Cardinality(Below(r)) < Cardinality(Below(o))
    BY <1>2, <2>2, <2>5, FS_Subset
  <2> QED
    BY <1>2, <1>6, <2>6
<1> QED
  BY <1>7

-----------------------------------------------------------------------------
(* What is installed and what is chosen. *)

(* Only the two renames give the executable another file.  (replace_*.go)  *)
LEMMA OnlyInstalls ==
    ASSUME IInv, Next, Exe \in DOMAIN files'
    PROVE  \/ Exe \in DOMAIN files /\ files'[Exe] = files[Exe]
           \/ \E q \in Procs : /\ task[q].pc \in {"replace", "move"} /\ UNCHANGED world
                               /\ files'[Exe] = files[Staged(q)]
<1>1. files \in [DOMAIN files -> Binaries]
  BY DEF IInv
<1>2. CASE UNCHANGED files
  BY <1>2
<1>3. ASSUME NEW p \in Procs, NEW paths, files' = Without(paths)
      PROVE  Exe \in DOMAIN files /\ files'[Exe] = files[Exe]
  BY <1>1, <1>3, WithoutFits
<1>4. CASE \E p \in Procs : Fails(p) \/ CleanupPendingUpdate(p)
  BY <1>2, <1>3, <1>4 DEF Fails, CleanupPendingUpdate
<1>5. ASSUME NEW p \in Procs, Download(p)
      PROVE  Exe \in DOMAIN files /\ files'[Exe] = files[Exe]
  <2>1. CASE UNCHANGED files
    BY <2>1
  <2>2. CASE \E binary : files' = Put(Staged(p), binary)
    <3>1. PICK binary : files' = Put(Staged(p), binary)
      BY <2>2
    <3>2. DOMAIN files' = DOMAIN files \cup {Staged(p)}
      BY <3>1 DEF Put
    <3>3. Exe # Staged(p)
      BY Paths
    <3>4. Exe \in DOMAIN files
      BY <3>2, <3>3
    <3> QED
      BY <3>1, <3>3, <3>4 DEF Put
  <2> QED
    BY <1>5, <2>1, <2>2 DEF Download
<1>6. ASSUME NEW p \in Procs, Stage(p), ~Fails(p)
      PROVE  Exe \in DOMAIN files /\ files'[Exe] = files[Exe]
  <2>1. files' = [files EXCEPT ![Staged(p)].whole = TRUE] /\ Staged(p) # Exe
    BY <1>6, Paths DEF Stage
  <2> QED
    BY <1>1, <2>1
<1>7. ASSUME NEW p \in Procs, ReplaceUnix(p) \/ MoveFile(p), ~Fails(p)
      PROVE  /\ task[p].pc \in {"replace", "move"} /\ UNCHANGED world
             /\ files'[Exe] = files[Staged(p)]
  <2>1. /\ task[p].pc \in {"replace", "move"} /\ UNCHANGED world
        /\ files' = Rename(Staged(p), Exe)
    BY <1>7 DEF ReplaceUnix, MoveFile, At
  <2> QED
    BY <2>1 DEF Rename
<1>8. ASSUME NEW p \in Procs, ReplaceFileW(p), ~Fails(p)
      PROVE  FALSE
  <2>1. files' = Rename(Exe, Old)
    BY <1>8 DEF ReplaceFileW
  <2> QED
    BY <2>1, Paths DEF Rename
<1>9. ASSUME NEW p \in Procs,
             \/ Start(p) \/ Flags(p) \/ Refuse(p) \/ Lookup(p) \/ Report(p) \/ AskToInstall(p)
             \/ (VerifyStagedVersion(p) \/ ReplaceWindows(p)) /\ ~Fails(p)
             \/ Installed(p) \/ Kill(p)
      PROVE  UNCHANGED files
  BY <1>9 DEF Start, Flags, Refuse, Lookup, Report, AskToInstall, VerifyStagedVersion,
              ReplaceWindows, Installed, Kill
<1> QED
  BY <1>2, <1>4, <1>5, <1>6, <1>7, <1>8, <1>9 DEF Next, Publish

(* Where numbers are read apart, the executable only becomes a whole       *)
(* program of a release that its installer looked up, verified against the *)
(* checksums, above its own version in the order of semver.org, with       *)
(* consent, from an archive.  (install.go: Install; update.go: runInstall) *)
THEOREM OnlyVerifiedInstalled ==
    ASSUME NumbersReadApart
    PROVE  Spec => InstallsVerified
<1> DEFINE Verified ==
      \A p \in Procs :
          LET new == files'[Exe]
              job == world.jobs[p]
              rel == task[p].latest
          IN  /\ Exe \in DOMAIN files'
              /\ new.by = p
              /\ Exe \in DOMAIN files => files[Exe].by # p
              => /\ new.whole
                 /\ new.version = rel.tag
                 /\ new.digest = rel.digest
                 /\ Higher(rel.tag, task[p].image.version)
                 /\ ~rel.draft /\ ~rel.prerelease
                 /\ ~job.check /\ (job.confirm \/ job.tty) /\ world.source = "archive"
<1>1. IInv /\ [Next]_vars => [Verified]_vars
  <2> SUFFICES ASSUME IInv, Next, NEW p \in Procs,
                      Exe \in DOMAIN files', files'[Exe].by = p,
                      Exe \in DOMAIN files => files[Exe].by # p
               PROVE  LET new == files'[Exe]
                          job == world.jobs[p]
                          rel == task[p].latest
                      IN  /\ new.whole
                          /\ new.version = rel.tag
                          /\ new.digest = rel.digest
                          /\ Higher(rel.tag, task[p].image.version)
                          /\ ~rel.draft /\ ~rel.prerelease
                          /\ ~job.check /\ (job.confirm \/ job.tty) /\ world.source = "archive"
    OBVIOUS
  <2>1. PICK q \in Procs : task[q].pc \in {"replace", "move"} /\ files'[Exe] = files[Staged(q)]
    BY OnlyInstalls
  <2>2. Informed(q) /\ StagedFor(q)
    BY DEF IInv
  <2>3. q = p
    BY <2>1, <2>2 DEF StagedFor
  <2>4. /\ files'[Exe].whole /\ files'[Exe].version = task[p].latest.tag
        /\ files'[Exe].digest = task[p].latest.digest
    BY <2>1, <2>2, <2>3 DEF StagedFor
  <2>5. /\ ~Misused(world.jobs[p]) /\ ~world.jobs[p].check
        /\ task[p].latest \in Candidates(page, world.jobs[p].prerelease)
        /\ Compare(task[p].latest.tag, task[p].image.version) > 0
        /\ world.jobs[p].confirm \/ world.jobs[p].tty
        /\ world.source = "archive"
    BY <2>1, <2>2, <2>3 DEF Informed, Installing
  <2>6. ~task[p].latest.draft /\ ~task[p].latest.prerelease
    BY <2>5 DEF Misused, Candidates
  <2>7. task[p].latest.tag \in Versions /\ task[p].image.version \in Versions
    <3>1. task[p].latest \in Releases
      BY <2>5, WorldFits DEF Candidates
    <3>2. task[p] \in Tasks
      BY DEF IInv
    <3> QED
      BY <3>1, <3>2 DEF Tasks, Releases, Binaries
  <2> QED
    BY <2>4, <2>5, <2>6, <2>7, VersionsRanked
<1> QED
  BY <1>1, UpdateInvariant, PTL DEF Spec, InstallsVerified

(* Only Check takes a process from its lookup to its report. *)
LEMMA OnlyLookup ==
    ASSUME IInv, Next, NEW p \in Procs, At(p, "lookup"), task'[p].pc = "report"
    PROVE  Lookup(p)
<1>1. task \in [Procs -> Tasks] /\ task[p].pc = "lookup"
  BY DEF At, IInv
<1>2. ASSUME NEW q \in Procs, q # p, NEW t, task' = [task EXCEPT ![q] = t]
      PROVE  FALSE
  BY <1>1, <1>2
<1>3. ASSUME NEW q \in Procs, NEW place, Goto(q, place), place # "report"
      PROVE  FALSE
  <2>1. task'[p].pc = IF q = p THEN place ELSE "lookup"
    BY <1>1, <1>3 DEF Goto, Tasks
  <2> QED
    BY <1>3, <2>1
<1>4. ~Publish
  BY <1>1 DEF Publish
<1>5. PICK q \in Procs :
          \/ Start(q) \/ CleanupPendingUpdate(q) \/ Flags(q) \/ Refuse(q) \/ Lookup(q)
          \/ Report(q) \/ AskToInstall(q) \/ Download(q) \/ Stage(q) \/ VerifyStagedVersion(q)
          \/ ReplaceUnix(q) \/ ReplaceWindows(q) \/ ReplaceFileW(q) \/ MoveFile(q)
          \/ Installed(q) \/ Kill(q)
  BY <1>4 DEF Next
<1>6. CASE Start(q)
  <2>1. q # p
    BY <1>1, <1>6 DEF Start, At
  <2> QED
    BY <1>2, <1>6, <2>1 DEF Start
<1>7. CASE Lookup(q)
  <2>1. CASE \E status : End(q, status)
    BY <1>3, <2>1 DEF End
  <2>2. CASE \E r : task' = [task EXCEPT ![q].pc = "report", ![q].latest = r,
                           ![q].outdated = Compare(r.tag, task[q].image.version) > 0]
    <3>1. PICK r : task' = [task EXCEPT ![q].pc = "report", ![q].latest = r,
                           ![q].outdated = Compare(r.tag, task[q].image.version) > 0]
      BY <2>2
    <3>2. q # p => task'[p] = task[p]
      BY <1>1, <3>1
    <3> QED
      BY <1>1, <1>7, <3>2
  <2> QED
    BY <1>7, <2>1, <2>2 DEF Lookup
<1>8. CASE \/ CleanupPendingUpdate(q) \/ Flags(q) \/ Refuse(q)
           \/ Report(q) \/ AskToInstall(q) \/ Download(q) \/ Stage(q) \/ VerifyStagedVersion(q)
           \/ ReplaceUnix(q) \/ ReplaceWindows(q) \/ ReplaceFileW(q) \/ MoveFile(q)
           \/ Installed(q) \/ Kill(q)
  <2> DEFINE Moves == \E place \in Places \ {"report"} : Goto(q, place)
  <2>1. \A status : End(q, status) => Moves
    BY DEF End, Places
  <2>2. Fails(q) => Moves
    BY <2>1 DEF Fails
  <2>3. CASE CleanupPendingUpdate(q) \/ Flags(q) \/ Report(q) \/ AskToInstall(q)
    <3>1. \A place \in {"flags", "lookup", "consent", "download"} : Goto(q, place) => Moves
      BY DEF Places
    <3> HIDE DEF Moves
    <3> QED
      BY <1>3, <2>1, <2>3, <3>1 DEF CleanupPendingUpdate, Flags, Report, AskToInstall, Moves
  <2>4. CASE Refuse(q) \/ Installed(q) \/ Kill(q)
    BY <1>3, <2>1, <2>4 DEF Refuse, Installed, Kill
  <2>5. CASE Download(q) \/ Stage(q) \/ VerifyStagedVersion(q)
    <3>1. \A place \in {"stage", "verify", "replace"} : Goto(q, place) => Moves
      BY DEF Places
    <3> HIDE DEF Moves
    <3> QED
      BY <1>3, <2>1, <2>2, <2>5, <3>1 DEF Download, Stage, VerifyStagedVersion, Moves
  <2>6. CASE ReplaceUnix(q) \/ ReplaceWindows(q) \/ ReplaceFileW(q) \/ MoveFile(q)
    <3>1. \A place \in {"swap", "move", "installed"} : Goto(q, place) => Moves
      BY DEF Places
    <3> HIDE DEF Moves
    <3> QED
      BY <1>3, <2>2, <2>6, <3>1
         DEF ReplaceUnix, ReplaceWindows, ReplaceFileW, MoveFile, Moves
  <2> QED
    BY <1>8, <2>3, <2>4, <2>5, <2>6
<1> QED
  BY <1>5, <1>6, <1>7, <1>8

(* Of any number of releases of any versions, whatever the order of the    *)
(* page, no usable one is above the one that Check answers with in the     *)
(* order of semver.org, and the running program is called outdated exactly *)
(* when the answer is above it.  (semver.go: Compare; release.go: Check)   *)
THEOREM HighestIsChosen ==
    ASSUME NumbersReadApart
    PROVE  Spec => LatestIsHighest
<1> DEFINE Highest ==
      \A p \in Procs :
          At(p, "lookup") /\ task'[p].pc = "report" =>
            LET latest == task'[p].latest
            IN  /\ latest \in page /\ ~latest.draft
                /\ \A r \in page :
                      \/ r.draft \/ ~r.tag.valid
                      \/ r.prerelease /\ ~world.jobs[p].prerelease
                      \/ ~Higher(r.tag, latest.tag)
                /\ task'[p].outdated <=>
                      Higher(latest.tag, task[p].image.version)
<1>1. IInv /\ [Next]_vars => [Highest]_vars
  <2> SUFFICES ASSUME IInv, Next, NEW p \in Procs, At(p, "lookup"), task'[p].pc = "report"
               PROVE  LET latest == task'[p].latest
                      IN  /\ latest \in page /\ ~latest.draft
                          /\ \A r \in page :
                                \/ r.draft \/ ~r.tag.valid
                                \/ r.prerelease /\ ~world.jobs[p].prerelease
                                \/ ~Higher(r.tag, latest.tag)
                          /\ task'[p].outdated <=>
                                Higher(latest.tag, task[p].image.version)
    OBVIOUS
  <2> DEFINE usable == Candidates(page, world.jobs[p].prerelease)
             latest == task'[p].latest
  <2>1. Lookup(p)
    BY OnlyLookup
  <2>2. task \in [Procs -> Tasks] /\ task[p] \in Tasks
    BY DEF IInv
  <2>3. ASSUME End(p, 1)
        PROVE  FALSE
    BY <2>2, <2>3 DEF End, Goto, Tasks
  <2>4. PICK r \in usable :
           /\ \A other \in usable : Compare(other.tag, r.tag) =< 0
           /\ task' = [task EXCEPT ![p].pc = "report", ![p].latest = r,
                         ![p].outdated = Compare(r.tag, task[p].image.version) > 0]
    BY <2>1, <2>3 DEF Lookup
  <2>5. latest = r /\ task'[p].outdated = (Compare(r.tag, task[p].image.version) > 0)
    BY <2>2, <2>4 DEF Tasks
  <2>6. \A x \in page : x.tag \in Versions
    BY WorldFits DEF Releases
  <2>7. task[p].image.version \in Versions
    BY <2>2 DEF Tasks, Binaries
  <2>8. r \in page /\ ~r.draft
    BY <2>4 DEF Candidates
  <2>9. ASSUME NEW x \in page, x \in usable
        PROVE  ~Higher(x.tag, r.tag)
    <3>1. Compare(x.tag, r.tag) =< 0 /\ Compare(x.tag, r.tag) \in {-1, 0, 1}
      BY <2>4, <2>9, CompareRange
    <3>2. ~(Compare(x.tag, r.tag) > 0)
      BY <3>1
    <3> QED
      BY <2>6, <2>8, <3>2, VersionsRanked
  <2>10. task'[p].outdated <=> Higher(r.tag, task[p].image.version)
    BY <2>5, <2>6, <2>7, <2>8, VersionsRanked
  <2>11. \A x \in page : \/ x \in usable \/ x.draft \/ ~x.tag.valid
                         \/ x.prerelease /\ ~world.jobs[p].prerelease
    BY DEF Candidates
  <2> HIDE DEF usable
  <2> QED
    BY <2>5, <2>8, <2>9, <2>10, <2>11
<1> QED
  BY <1>1, UpdateInvariant, PTL DEF Spec, LatestIsHighest
=============================================================================
