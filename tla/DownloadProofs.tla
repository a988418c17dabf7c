--------------------------- MODULE DownloadProofs ---------------------------
(***************************************************************************)
(* The theorems of Download.  First the directory: every step of a process *)
(* lands on a task of the right shape, and does one of four things to the  *)
(* files; what the plans are does not matter for that.  Then the media:    *)
(* what the strategies find, and which links a plan tries.  Then the       *)
(* accounts of a batch, step by step.                                      *)
(***************************************************************************)
EXTENDS Download, PositionsProofs

Writing == {"stream", "compare", "publish"}

(* What a step of p leaves behind, outside of the directory. *)
Lands(p, t) ==
    /\ job' = job
    /\ task' = [task EXCEPT ![p] = t]
    /\ \/ exit' = exit
       \/ \E s \in {-9, 0, 1, 2} : exit' = [exit EXCEPT ![p] = s]

-----------------------------------------------------------------------------
(* A temporary path has one owner, and no file with a name has one. *)
LEMMA TempIsOwn ==
    /\ \A p, q : Temp(p) = Temp(q) => p = q
    /\ \A p : "temp" \in DOMAIN Temp(p)
    /\ \A f : IsPath(f) => "temp" \notin DOMAIN f
<1>1. \A p, q : Temp(p) = Temp(q) => p = q
  <2> SUFFICES ASSUME NEW p, NEW q, Temp(p) = Temp(q) PROVE p = q
    OBVIOUS
  <2>1. Temp(p).temp = p /\ Temp(q).temp = q
    BY DEF Temp
  <2> QED
    BY <2>1
<1>2. \A p : "temp" \in DOMAIN Temp(p)
  BY DEF Temp
<1>3. ASSUME NEW f, IsPath(f) PROVE "temp" \notin DOMAIN f
  <2>1. DOMAIN Path(f.folder, f.name) = {"folder", "name"}
    BY DEF Path
  <2> QED
    BY <1>3, <2>1 DEF IsPath
<1> QED
  BY <1>1, <1>2, <1>3

(* The tasks a process goes on with have the shape of one. *)
LEMMA TasksFit ==
    ASSUME NEW p, NEW t, IsTask(t)
    PROVE  /\ Fits(p, Idle(p))
           /\ Fits(p, NextRef(p, t))
           /\ Fits(p, NextFile(p, t))
           /\ IsTask(Failing(t))
           /\ Fits(p, [t EXCEPT !.pc = "done"])
           /\ Fits(p, [t EXCEPT !.pc = "ref"])
           /\ Fits(p, [t EXCEPT !.pc = "print"])
           /\ Fits(p, [t EXCEPT !.pc = "resolve"])
<1>1. Fits(p, Idle(p))
  BY DEF Fits, IsTask, Idle
<1>2. Fits(p, NextRef(p, t))
  BY DEF Fits, IsTask, NextRef, Idle
<1>3. Fits(p, NextFile(p, t))
  <2>1. CASE t.file < Len(t.plan)
    BY <2>1 DEF Fits, IsTask, NextFile
  <2>2. CASE ~(t.file < Len(t.plan))
    BY <1>2, <2>2 DEF NextFile
  <2> QED
    BY <2>1, <2>2
<1>4. IsTask(Failing(t))
  BY DEF IsTask, Failing
<1>5. \A pc \in {"done", "ref", "print", "resolve"} : Fits(p, [t EXCEPT !.pc = pc])
  BY DEF Fits, IsTask
<1> QED
  BY <1>1, <1>2, <1>3, <1>4, <1>5

(* A step that lands on a task of the right shape keeps all of the tasks. *)
LEMMA TasksStay ==
    ASSUME IInv, NEW p \in Procs, NEW t, Lands(p, t), Fits(p, t)
    PROVE  /\ task' \in [Procs -> {task'[q] : q \in Procs}]
           /\ exit' \in [Procs -> {-9, -1, 0, 1, 2}]
           /\ TaskState'
           /\ task'[p] = t
           /\ \A q \in Procs : q # p => task'[q] = task[q] /\ exit'[q] = exit[q]
           /\ exit'[p] \in {exit[p], -9, 0, 1, 2}
<1> USE DEF IInv
<1>1. /\ task'[p] = t
      /\ \A q \in Procs : q # p => task'[q] = task[q]
      /\ task' \in [Procs -> {task'[q] : q \in Procs}]
  BY DEF Lands
<1>2. /\ exit' \in [Procs -> {-9, -1, 0, 1, 2}]
      /\ \A q \in Procs : q # p => exit'[q] = exit[q]
      /\ exit'[p] \in {exit[p], -9, 0, 1, 2}
  BY DEF Lands
<1>3. ASSUME NEW q \in Procs PROVE Fits(q, task[q])'
  <2>1. Fits(q, task'[q])
    BY <1>1 DEF TaskState
  <2> QED
    BY <2>1 DEF Lands, Fits, Forced, ExtKnown
<1> QED
  BY <1>1, <1>2, <1>3 DEF TaskState

-----------------------------------------------------------------------------
(* What the directory says of one file, read from DirState. *)
LEMMA FileFacts ==
    ASSUME IInv, NEW f \in DOMAIN dir
    PROVE  /\ IsContent(dir[f])
           /\ f \in Named <=> "temp" \notin DOMAIN f
           /\ f \in Named => dir[f].whole
           /\ \A p \in Procs : f = Temp(p) =>
                 /\ dir[f].by = p
                 /\ \/ exit[p] = -9
                    \/ exit[p] = -1 /\ task[p].pc \in Writing
                 /\ task[p].pc \in {"compare", "publish"} => dir[f].whole
<1>1. ASSUME NEW p \in Procs, f = Temp(p)
      PROVE  /\ dir[f].by = p
             /\ \/ exit[p] = -9
                \/ exit[p] = -1 /\ task[p].pc \in Writing
             /\ task[p].pc \in {"compare", "publish"} => dir[f].whole
  <2>1. f \notin Named
    BY <1>1, TempIsOwn DEF Named
  <2>2. PICK q \in Procs :
            /\ f = Temp(q)
            /\ dir[f].by = q
            /\ \/ exit[q] = -9
               \/ exit[q] = -1 /\ task[q].pc \in Writing
            /\ task[q].pc \in {"compare", "publish"} => dir[f].whole
    BY <2>1 DEF IInv, DirState, Writing
  <2>3. q = p
    BY <1>1, <2>2, TempIsOwn
  <2> QED
    BY <2>2, <2>3
<1> QED
  BY <1>1 DEF IInv, DirState, Named

(* A step that only takes files away keeps what DirState says, as long as  *)
(* the temporary file of its process goes with them or stays in use.       *)
LEMMA DirShrinks ==
    ASSUME IInv, NEW p \in Procs, NEW t, Lands(p, t), Fits(p, t),
           DOMAIN dir' \subseteq DOMAIN dir,
           \A f \in DOMAIN dir' : dir'[f] = dir[f],
           \/ Temp(p) \notin DOMAIN dir'
           \/ exit[p] = -1 /\ task[p].pc \notin Writing
           \/ exit'[p] = -9 /\ t.pc = "done"
           \/ /\ exit' = exit
              /\ t.pc \in Writing
              /\ t.pc = "stream" \/ task[p].pc \in {"compare", "publish"}
    PROVE  DirState'
<1>1. SUFFICES ASSUME NEW f \in DOMAIN dir'
               PROVE  /\ IsContent(dir'[f])
                      /\ f \in Named' => dir'[f].whole
                      /\ f \notin Named' =>
                            \E q \in Procs :
                                /\ f = Temp(q)
                                /\ dir'[f].by = q
                                /\ \/ exit'[q] = -9
                                   \/ exit'[q] = -1 /\ task'[q].pc \in Writing
                                /\ task'[q].pc \in {"compare", "publish"} => dir'[f].whole
  BY DEF DirState, IsContent, Writing
<1>2. f \in DOMAIN dir /\ dir'[f] = dir[f] /\ (f \in Named' <=> f \in Named)
  BY DEF Named
<1>3. IsContent(dir'[f]) /\ (f \in Named' => dir'[f].whole)
  BY <1>2, FileFacts
<1>4. ASSUME f \notin Named'
      PROVE  \E q \in Procs :
                 /\ f = Temp(q)
                 /\ dir'[f].by = q
                 /\ \/ exit'[q] = -9
                    \/ exit'[q] = -1 /\ task'[q].pc \in Writing
                 /\ task'[q].pc \in {"compare", "publish"} => dir'[f].whole
  <2>1. PICK q \in Procs : f = Temp(q)
    BY <1>2, <1>4 DEF IInv, DirState
  <2>2. /\ dir[f].by = q
        /\ exit[q] = -9 \/ (exit[q] = -1 /\ task[q].pc \in Writing)
        /\ task[q].pc \in {"compare", "publish"} => dir[f].whole
    BY <1>2, <2>1, FileFacts
  <2>3. CASE q # p
    BY <1>2, <2>1, <2>2, <2>3, TasksStay
  <2>4. CASE q = p
    <3>1. task'[p] = t
      BY TasksStay
    <3>2. exit'[p] = -9 \/ (exit'[p] = -1 /\ t.pc \in Writing)
      <4>1. CASE exit[p] = -9
        BY <2>1, <2>2, <2>4, <4>1, <3>1 DEF Lands, IInv
      <4>2. CASE exit[p] = -1 /\ task[p].pc \in Writing
        BY <2>1, <2>2, <2>4, <4>2 DEF Writing
      <4> QED
        BY <2>2, <2>4, <4>1, <4>2
    <3>3. t.pc \in {"compare", "publish"} => dir'[f].whole
      BY <1>2, <2>1, <2>2, <2>4 DEF Writing
    <3> QED
      BY <1>2, <2>1, <2>2, <2>4, <3>1, <3>2, <3>3
  <2> QED
    BY <2>3, <2>4
<1> QED
  BY <1>3, <1>4

-----------------------------------------------------------------------------
(* What the directory has to be after a step, file by file. *)
Held(f) ==
    /\ IsContent(dir[f])
    /\ f \in Named => dir[f].whole
    /\ f \notin Named =>
          \E p \in Procs :
              /\ f = Temp(p)
              /\ dir[f].by = p
              /\ \/ exit[p] = -9
                 \/ exit[p] = -1 /\ task[p].pc \in {"stream", "compare", "publish"}
              /\ task[p].pc \in {"compare", "publish"} => dir[f].whole

(* What no step of another process changes stays held. *)
LEMMA OthersHeld ==
    ASSUME IInv, NEW p \in Procs, NEW t, Lands(p, t), Fits(p, t),
           NEW f \in DOMAIN dir \cap DOMAIN dir', dir'[f] = dir[f], f # Temp(p)
    PROVE  Held(f)'
<1>1. IsContent(dir'[f]) /\ (f \in Named' <=> f \in Named) /\ (f \in Named' => dir'[f].whole)
  BY FileFacts DEF Named
<1>2. ASSUME f \notin Named'
      PROVE  \E q \in Procs :
                 /\ f = Temp(q)
                 /\ dir'[f].by = q
                 /\ exit'[q] = -9 \/ (exit'[q] = -1 /\ task'[q].pc \in Writing)
                 /\ task'[q].pc \in {"compare", "publish"} => dir'[f].whole
  <2>1. PICK q \in Procs : f = Temp(q)
    BY <1>1, <1>2 DEF IInv, DirState
  <2>2. /\ dir[f].by = q
        /\ exit[q] = -9 \/ (exit[q] = -1 /\ task[q].pc \in Writing)
        /\ task[q].pc \in {"compare", "publish"} => dir[f].whole
    BY <2>1, FileFacts
  <2>3. q # p
    BY <2>1
  <2> QED
    BY <2>1, <2>2, <2>3, TasksStay
<1> QED
  BY <1>1, <1>2 DEF Held, IsContent, Writing

(* What a step says, a link that fails and a file that is there all lead   *)
(* to a task of the right shape.                                           *)
LEMMA SayLands ==
    ASSUME IInv, NEW p \in Procs, NEW failure \in BOOLEAN, NEW t, Fits(p, t), Say(p, failure, t),
           job' = job
    PROVE  \E u : Lands(p, u) /\ Fits(p, u)
<1>1. IsTask(task[p])
  BY DEF IInv, TaskState, Fits
<1>2. CASE Goto(p, t) /\ UNCHANGED exit
  BY <1>2 DEF Lands, Goto
<1>3. ASSUME NEW s \in {0, 1}, End(p, s)
      PROVE  Lands(p, [task[p] EXCEPT !.pc = "done"]) /\ Fits(p, [task[p] EXCEPT !.pc = "done"])
  BY <1>1, <1>3, TasksFit DEF Lands, End, Goto
<1> QED
  BY <1>2, <1>3 DEF Say

LEMMA ReportLands ==
    ASSUME IInv, NEW p \in Procs, NEW what, NEW t, Fits(p, t), Report(p, what, t), job' = job
    PROVE  \E u : Lands(p, u) /\ Fits(p, u)
BY SayLands DEF Report

LEMMA LinkFailsLands ==
    ASSUME IInv, NEW p \in Procs, LinkFails(p), job' = job,
           task[p].pc \in {"fetch", "stream", "compare", "publish"}
    PROVE  \E u : Lands(p, u) /\ Fits(p, u)
<1>1. IsTask(task[p]) /\ IsPath(task[p].path)
  BY DEF IInv, TaskState, Fits
<1>2. CASE Goto(p, [task[p] EXCEPT !.pc = "fetch", !.next = @ + 1]) /\ UNCHANGED <<reports, exit>>
  <2>1. Fits(p, [task[p] EXCEPT !.pc = "fetch", !.next = @ + 1])
    BY <1>1 DEF Fits, IsTask
  <2> QED
    BY <1>2, <2>1 DEF Lands, Goto
<1>3. CASE Report(p, <<task[p].ref, task[p].file>>, NextFile(p, Failing(task[p])))
  BY <1>1, <1>3, TasksFit, ReportLands
<1> QED
  BY <1>2, <1>3 DEF LinkFails

LEMMA ExistsLands ==
    ASSUME IInv, NEW p \in Procs, Exists(p), job' = job,
           task[p].pc \in {"fetch", "compare"}
    PROVE  \E u : Lands(p, u) /\ Fits(p, u)
<1>1. IsTask(task[p]) /\ IsPath(task[p].path)
  BY DEF IInv, TaskState, Fits
<1>2. CASE Goto(p, [task[p] EXCEPT !.pc = "skip"]) /\ UNCHANGED <<reports, exit>>
  <2>1. Fits(p, [task[p] EXCEPT !.pc = "skip"])
    BY <1>1 DEF Fits, IsTask
  <2> QED
    BY <1>2, <2>1 DEF Lands, Goto
<1>3. CASE Report(p, <<task[p].ref, task[p].file>>, NextFile(p, Failing(task[p])))
  BY <1>1, <1>3, TasksFit, ReportLands
<1> QED
  BY <1>2, <1>3 DEF Exists

-----------------------------------------------------------------------------
(* The steps that leave the directory alone, and are taken by a process    *)
(* that has no temporary file.                                             *)
Quiet(p) ==
    \/ Refuse(p) \/ Begin(p) \/ TakeRef(p) \/ ResolveStatus(p) \/ Target(p)
    \/ SkipRecord(p) \/ Row(p) \/ Finish(p) \/ SweepEnd(p)

LEMMA ResolvedLands ==
    ASSUME IInv, NEW p \in Procs, NEW res, Resolved(p, res), job' = job
    PROVE  \E u : Lands(p, u) /\ Fits(p, u)
<1> DEFINE t    == task[p]
           plan == PlanDownload(res, job[p].quality, job[p].kind)
<1>1. IsTask(t) /\ IsTask(Failing(t))
  BY TasksFit DEF IInv, TaskState, Fits
<1>2. CASE Say(p, FALSE, NextRef(p, t))
  BY <1>1, <1>2, TasksFit, SayLands
<1>3. CASE Report(p, <<t.ref, 0>>, NextRef(p, Failing(t)))
  BY <1>1, <1>3, TasksFit, ReportLands
<1>4. CASE Goto(p, NextRef(p, t)) /\ exit' = exit
  BY <1>1, <1>4, TasksFit DEF Lands, Goto
<1>5. CASE Goto(p, [t EXCEPT !.pc = "target", !.res = res, !.plan = plan.files]) /\ exit' = exit
  <2>1. Fits(p, [t EXCEPT !.pc = "target", !.res = res, !.plan = plan.files])
    BY <1>1 DEF Fits, IsTask
  <2> QED
    BY <1>5, <2>1 DEF Lands, Goto
<1> HIDE DEF plan
<1> QED
  BY <1>2, <1>3, <1>4, <1>5 DEF Resolved, plan

LEMMA QuietLands ==
    ASSUME IInv, NEW p \in Procs, Quiet(p)
    PROVE  /\ \E t : Lands(p, t) /\ Fits(p, t)
           /\ UNCHANGED dir
           /\ exit[p] = -1
           /\ task[p].pc \notin Writing
<1> DEFINE t == task[p]
<1>1. IsTask(t) /\ IsTask(Failing(t))
  BY TasksFit DEF IInv, TaskState, Fits
<1>2. ASSUME NEW s \in {0, 1, 2}, End(p, s), job' = job PROVE \E u : Lands(p, u) /\ Fits(p, u)
  BY <1>1, <1>2, TasksFit DEF Lands, End, Goto
<1>3. CASE Refuse(p)
  BY <1>2, <1>3 DEF Refuse, Running, Writing
<1>4. CASE Begin(p)
  BY <1>1, <1>4, TasksFit DEF Begin, Running, Writing, Lands, Goto
<1>5. CASE TakeRef(p)
  <2>1. CASE End(p, 1)
    BY <1>2, <1>5, <2>1 DEF TakeRef, Running, Writing
  <2>2. ASSUME NEW pc \in {"print", "resolve"}, Goto(p, [t EXCEPT !.pc = pc]), exit' = exit
        PROVE  \E u : Lands(p, u) /\ Fits(p, u)
    <3>1. Fits(p, [t EXCEPT !.pc = pc])
      BY <1>1, TasksFit
    <3> QED
      BY <1>5, <2>2, <3>1 DEF TakeRef, Lands, Goto
  <2> QED
    BY <1>5, <2>1, <2>2 DEF TakeRef, Running, Writing
<1>6. CASE ResolveStatus(p)
  <2>1. CASE Report(p, <<t.ref, 0>>, NextRef(p, Failing(t)))
    BY <1>1, <1>6, <2>1, TasksFit, ReportLands DEF ResolveStatus, Running, Writing
  <2>2. CASE Goto(p, [t EXCEPT !.strategy = @ + 1]) /\ exit' = exit
    <3>1. Fits(p, [t EXCEPT !.strategy = @ + 1])
      BY <1>1, <1>6 DEF Fits, IsTask, ResolveStatus, Running
    <3> QED
      BY <1>6, <2>2, <3>1 DEF ResolveStatus, Running, Writing, Lands, Goto
  <2>3. ASSUME NEW res, Resolved(p, res) PROVE \E u : Lands(p, u) /\ Fits(p, u)
    BY <1>6, <2>3, ResolvedLands DEF ResolveStatus
  <2> QED
    BY <1>6, <2>1, <2>2, <2>3 DEF ResolveStatus, Running, Writing
<1>7. CASE Target(p)
  <2> DEFINE name == Unused(FilenameFor(p, t), t.used)
             next == [t EXCEPT !.pc = "fetch", !.path = Path(Folder(p, t), name),
                               !.used = @ \cup {name}]
  <2>1. CASE Report(p, <<t.ref, t.file>>, NextFile(p, Failing(t)))
    BY <1>1, <1>7, <2>1, TasksFit, ReportLands DEF Target, Running, Writing
  <2>2. CASE Goto(p, next) /\ exit' = exit
    <3>1. IsPath(Path(Folder(p, t), name))
      BY DEF IsPath, Path
    <3>2. Fits(p, next)
      BY <1>1, <3>1 DEF Fits, IsTask
    <3> QED
      BY <1>7, <2>2, <3>2 DEF Target, Running, Writing, Lands, Goto
  <2> QED
    BY <1>7, <2>1, <2>2 DEF Target, Running, Writing
<1>8. CASE SkipRecord(p)
  <2>1. CASE Report(p, <<t.ref, t.file>>, NextFile(p, Failing(t)))
    BY <1>1, <1>8, <2>1, TasksFit, ReportLands DEF SkipRecord, Running, Writing
  <2>2. CASE Goto(p, [t EXCEPT !.pc = "row"]) /\ exit' = exit
    <3>1. Fits(p, [t EXCEPT !.pc = "row"])
      BY <1>1, <1>8 DEF Fits, IsTask, SkipRecord, Running, IInv, TaskState
    <3> QED
      BY <1>8, <2>2, <3>1 DEF SkipRecord, Running, Writing, Lands, Goto
  <2> QED
    BY <1>8, <2>1, <2>2 DEF SkipRecord, Running, Writing
<1>9. CASE Row(p)
  BY <1>1, <1>9, TasksFit, SayLands DEF Row, Running, Writing
<1>10. CASE Finish(p)
  BY <1>2, <1>10 DEF Finish, Running, Writing
<1>11. CASE SweepEnd(p)
  BY <1>2, <1>11 DEF SweepEnd, Running, Writing
<1> QED
  BY <1>3, <1>4, <1>5, <1>6, <1>7, <1>8, <1>9, <1>10, <1>11 DEF Quiet

-----------------------------------------------------------------------------
(* The steps that touch the directory.  A step that is one of the above    *)
(* and takes away no more than its own temporary file is not looked at     *)
(* again.                                                                  *)
LEMMA DiscardKeeps ==
    ASSUME IInv, NEW p \in Procs, NEW t, Lands(p, t), Fits(p, t), Discard(p)
    PROVE  DirState'
BY DirShrinks DEF Discard, Remove

LEMMA FetchKeeps ==
    ASSUME IInv, NEW p \in Procs, Fetch(p)
    PROVE  (\E t : Lands(p, t) /\ Fits(p, t)) /\ DirState'
<1> DEFINE t    == task[p]
           next == [t EXCEPT !.pc = "stream", !.there = Named]
<1>1. IsTask(t) /\ IsPath(t.path) /\ exit[p] = -1 /\ t.pc = "fetch" /\ job' = job
  BY DEF IInv, TaskState, Fits, Fetch, Running
<1>2. CASE UNCHANGED dir /\ (Exists(p) \/ LinkFails(p))
  <2>1. \E u : Lands(p, u) /\ Fits(p, u)
    BY <1>1, <1>2, ExistsLands, LinkFailsLands
  <2> QED
    BY <1>1, <1>2, <2>1, DirShrinks DEF Writing
<1>3. CASE /\ ~(p \notin cancelled /\ ExtKnown(t) /\ ~Forced(p) /\ t.path \in DOMAIN dir)
           /\ p \notin cancelled
           /\ Write(Temp(p), Content(p, Link(t), FALSE, {}))
           /\ Goto(p, next)
           /\ exit' = exit
  <2>1. IsTask(next) /\ next.pc = "stream" /\ next.path = t.path /\ next.there = Named
        /\ next.plan = t.plan /\ next.file = t.file
    BY <1>1 DEF IsTask
  <2>2. ExtKnown(next) => Forced(p) \/ next.path \notin next.there
    <3>1. ExtKnown(next) <=> ExtKnown(t)
      BY <2>1 DEF ExtKnown
    <3> QED
      BY <1>3, <2>1, <3>1 DEF Named
  <2>3. Fits(p, next)
    BY <1>1, <2>1, <2>2 DEF Fits
  <2>4. Lands(p, next)
    BY <1>1, <1>3 DEF Lands, Goto
  <2>5. ASSUME NEW f \in DOMAIN dir' PROVE Held(f)'
    <3>1. CASE f = Temp(p)
      <4>1. dir'[f] = Content(p, Link(t), FALSE, {})
        BY <1>3, <3>1 DEF Write
      <4>2. IsContent(dir'[f]) /\ dir'[f].by = p
        BY <4>1 DEF IsContent, Content
      <4>3. f \notin Named'
        BY <3>1, TempIsOwn DEF Named
      <4>4. task'[p].pc = "stream" /\ exit'[p] = -1
        BY <1>1, <1>3, <2>1, <2>3, <2>4, TasksStay
      <4> QED
        BY <3>1, <4>2, <4>3, <4>4 DEF Held
    <3>2. CASE f # Temp(p)
      BY <1>3, <2>3, <2>4, <3>2, OthersHeld DEF Write
    <3> QED
      BY <3>1, <3>2
  <2> QED
    BY <2>3, <2>4, <2>5 DEF DirState, Held
<1> QED
  BY <1>1, <1>2, <1>3 DEF Fetch

LEMMA StreamKeeps ==
    ASSUME IInv, NEW p \in Procs, StreamTo(p)
    PROVE  (\E t : Lands(p, t) /\ Fits(p, t)) /\ DirState'
<1> DEFINE t       == task[p]
           known   == [t EXCEPT !.pc = "publish"]
           next(x) == [t EXCEPT !.pc = "compare", !.path.name.ext = ExtFromContentType(t, x)]
<1>1. IsTask(t) /\ IsPath(t.path) /\ exit[p] = -1 /\ t.pc = "stream" /\ job' = job
  BY DEF IInv, TaskState, Fits, StreamTo, Running
<1>2. CASE Discard(p) /\ LinkFails(p)
  BY <1>1, <1>2, LinkFailsLands, DiscardKeeps
<1>3. CASE /\ dir' = [f \in DOMAIN dir |->
                        IF f = Temp(p) THEN Content(p, Link(t), TRUE, {}) ELSE dir[f]]
           /\ exit' = exit
           /\ \/ ExtKnown(t) /\ Goto(p, known)
              \/ \E type \in Exts \cup {NoExt} : Goto(p, next(type))
  <2>1. PICK u : /\ Goto(p, u)
                 /\ Fits(p, u)
                 /\ u.pc \in {"compare", "publish"}
    <3>1. CASE ExtKnown(t) /\ Goto(p, known)
      <4>1. Forced(p) \/ t.path \notin t.there
        BY <1>1, <3>1 DEF IInv, TaskState, Fits
      <4>2. Fits(p, known) /\ known.pc = "publish"
        BY <1>1, <4>1 DEF Fits, IsTask
      <4> QED
        BY <3>1, <4>2
    <3>2. ASSUME NEW type \in Exts \cup {NoExt}, Goto(p, next(type))
          PROVE  Fits(p, next(type)) /\ next(type).pc = "compare"
      <4> DEFINE path == [t.path EXCEPT !.name.ext = ExtFromContentType(t, type)]
      <4>1. IsPath(path)
        BY <1>1 DEF IsPath, Path
      <4>2. next(type) = [t EXCEPT !.pc = "compare", !.path = path]
        BY <1>1 DEF IsTask
      <4> HIDE DEF path
      <4> QED
        BY <1>1, <4>1, <4>2 DEF Fits, IsTask
    <3> QED
      BY <1>3, <3>1, <3>2
  <2>2. Lands(p, u)
    BY <1>1, <1>3, <2>1 DEF Lands, Goto
  <2>3. ASSUME NEW f \in DOMAIN dir' PROVE Held(f)'
    <3>1. CASE f = Temp(p)
      <4>1. dir'[f] = Content(p, Link(t), TRUE, {})
        BY <1>3, <3>1
      <4>2. IsContent(dir'[f]) /\ dir'[f].by = p /\ dir'[f].whole
        BY <4>1 DEF IsContent, Content
      <4>3. task'[p].pc \in {"compare", "publish"} /\ exit'[p] = -1
        BY <1>1, <1>3, <2>1, <2>2, TasksStay
      <4> QED
        BY <3>1, <4>2, <4>3 DEF Held
    <3>2. CASE f # Temp(p)
      BY <1>3, <2>1, <2>2, <3>2, OthersHeld
    <3> QED
      BY <3>1, <3>2
  <2> QED
    BY <2>1, <2>2, <2>3 DEF DirState, Held
<1> QED
  BY <1>1, <1>2, <1>3 DEF StreamTo

LEMMA CompareKeeps ==
    ASSUME IInv, NEW p \in Procs, Compare(p)
    PROVE  (\E t : Lands(p, t) /\ Fits(p, t)) /\ DirState'
<1> DEFINE t    == task[p]
           next == [t EXCEPT !.pc = "publish", !.there = Named]
<1>1. IsTask(t) /\ IsPath(t.path) /\ exit[p] = -1 /\ t.pc = "compare" /\ job' = job
  BY DEF IInv, TaskState, Fits, Compare, Running
<1>2. CASE Discard(p) /\ (Exists(p) \/ LinkFails(p))
  BY <1>1, <1>2, ExistsLands, LinkFailsLands, DiscardKeeps
<1>3. CASE /\ Forced(p) \/ t.path \notin DOMAIN dir
           /\ Goto(p, next)
           /\ UNCHANGED <<dir, exit>>
  <2>1. Fits(p, next) /\ next.pc = "publish"
    BY <1>1, <1>3 DEF Fits, IsTask, Named
  <2>2. Lands(p, next)
    BY <1>1, <1>3 DEF Lands, Goto
  <2> QED
    BY <1>1, <1>3, <2>1, <2>2, DirShrinks DEF Writing
<1> QED
  BY <1>1, <1>2, <1>3 DEF Compare

LEMMA PublishKeeps ==
    ASSUME IInv, NEW p \in Procs, Publish(p)
    PROVE  (\E t : Lands(p, t) /\ Fits(p, t)) /\ DirState'
<1> DEFINE t    == task[p]
           next == [t EXCEPT !.pc = "row"]
<1>1. IsTask(t) /\ IsPath(t.path) /\ exit[p] = -1 /\ t.pc = "publish" /\ job' = job
  BY DEF IInv, TaskState, Fits, Publish, Running
<1>2. CASE Discard(p) /\ LinkFails(p)
  BY <1>1, <1>2, LinkFailsLands, DiscardKeeps
<1>3. CASE /\ Temp(p) \in DOMAIN dir
           /\ dir' = [f \in (DOMAIN dir \ {Temp(p)}) \cup {t.path} |->
                        IF f = t.path THEN dir[Temp(p)] ELSE dir[f]]
           /\ Goto(p, next)
           /\ exit' = exit
  <2>1. Fits(p, next) /\ Lands(p, next)
    BY <1>1, <1>3 DEF Fits, IsTask, Lands, Goto
  <2>2. ASSUME NEW f \in DOMAIN dir' PROVE Held(f)'
    <3>1. CASE f = t.path
      <4>1. dir'[f] = dir[Temp(p)]
        BY <1>3, <3>1
      <4>2. IsContent(dir'[f]) /\ dir'[f].whole
        BY <1>1, <1>3, <4>1, FileFacts
      <4>3. f \in Named'
        BY <1>1, <3>1, TempIsOwn DEF Named
      <4> QED
        BY <4>2, <4>3 DEF Held
    <3>2. CASE f # t.path
      BY <1>3, <2>1, <3>2, OthersHeld
    <3> QED
      BY <3>1, <3>2
  <2> QED
    BY <2>1, <2>2 DEF DirState, Held
<1> QED
  BY <1>1, <1>2, <1>3 DEF Publish

LEMMA SweepKeeps ==
    ASSUME IInv, NEW p \in Procs, SweepBegin(p) \/ Sweep(p)
    PROVE  (\E t : Lands(p, t) /\ Fits(p, t)) /\ DirState'
<1> DEFINE t == task[p]
<1>1. /\ IsTask(t) /\ exit[p] = -1 /\ t.pc \in {"start", "sweep"} /\ job' = job /\ exit' = exit
      /\ Fits(p, t)
  BY DEF IInv, TaskState, Fits, SweepBegin, Sweep, Running
<1>2. ASSUME SweepBegin(p)
      PROVE  (\E u : Lands(p, u) /\ Fits(p, u)) /\ DirState'
  <2> DEFINE todo == {f \in DOMAIN dir : job[p].everything \/ dir[f].by = Nobody}
             next == [t EXCEPT !.pc = "sweep", !.left = todo]
  <2>1. Fits(p, next) /\ Lands(p, next) /\ next.pc = "sweep"
    <3> HIDE DEF todo
    <3> QED
      BY <1>1, <1>2 DEF Fits, IsTask, Lands, Goto, SweepBegin, todo
  <2>2. ASSUME NEW f \in DOMAIN dir' PROVE Held(f)'
    <3>1. f \in DOMAIN dir /\ dir'[f] = [dir[f] EXCEPT !.older = @ \cup {p}]
      BY <1>2 DEF SweepBegin
    <3>2. IsContent(dir'[f]) /\ dir'[f].by = dir[f].by /\ (dir'[f].whole <=> dir[f].whole)
      BY <3>1, FileFacts DEF IsContent
    <3>3. CASE f \in Named
      BY <3>1, <3>2, <3>3, FileFacts DEF Held, Named
    <3>4. CASE f \notin Named
      <4>1. PICK q \in Procs : f = Temp(q)
        BY <3>1, <3>4 DEF IInv, DirState
      <4>2. /\ dir[f].by = q
            /\ exit[q] = -9 \/ (exit[q] = -1 /\ task[q].pc \in Writing)
            /\ task[q].pc \in {"compare", "publish"} => dir[f].whole
        BY <3>1, <4>1, FileFacts
      <4>3. q # p
        BY <1>1, <4>2 DEF Writing
      <4>4. f \notin Named'
        BY <3>1, <3>4 DEF Named
      <4>5. task'[q] = task[q] /\ exit'[q] = exit[q]
        BY <2>1, <4>3, TasksStay
      <4> QED
        BY <3>2, <4>1, <4>2, <4>4, <4>5 DEF Held, Writing
    <3> QED
      BY <3>3, <3>4
  <2> QED
    BY <2>1, <2>2 DEF DirState, Held
<1>3. ASSUME Sweep(p)
      PROVE  (\E u : Lands(p, u) /\ Fits(p, u)) /\ DirState'
  <2>1. PICK f \in t.left :
            \/ Goto(p, [t EXCEPT !.left = @ \ {f}])
            \/ Goto(p, [[t EXCEPT !.left = @ \ {f}] EXCEPT !.failed = @ + 1])
    BY <1>3 DEF Sweep
  <2>2. DOMAIN dir' \subseteq DOMAIN dir /\ \A g \in DOMAIN dir' : dir'[g] = dir[g]
    BY <1>3 DEF Sweep, Remove
  <2>3. PICK u : Lands(p, u) /\ Fits(p, u)
    <3> DEFINE met == [t EXCEPT !.left = @ \ {f}]
               bad == [met EXCEPT !.failed = @ + 1]
    <3>1. Fits(p, met) /\ IsTask(met) /\ met.pc = t.pc
      BY <1>1, <1>3 DEF Fits, IsTask, Sweep, Running
    <3> HIDE DEF met
    <3>2. Fits(p, bad)
      BY <1>1, <1>3, <3>1 DEF Fits, IsTask, Sweep, Running
    <3>3. Goto(p, met) \/ Goto(p, bad)
      BY <2>1 DEF met
    <3> QED
      BY <1>1, <3>1, <3>2, <3>3 DEF Lands, Goto
  <2>4. t.pc \notin Writing
    BY <1>1 DEF Writing
  <2> QED
    BY <1>1, <2>2, <2>3, <2>4, DirShrinks
<1> QED
  BY <1>2, <1>3

LEMMA KillKeeps ==
    ASSUME IInv, NEW p \in Procs, Kill(p)
    PROVE  (\E t : Lands(p, t) /\ Fits(p, t)) /\ DirState'
<1> DEFINE t == [task[p] EXCEPT !.pc = "done"]
<1>1. IsTask(task[p])
  BY DEF IInv, TaskState, Fits
<1>2. Fits(p, t) /\ t.pc = "done"
  BY <1>1, TasksFit DEF IsTask
<1>3. Lands(p, t) /\ exit'[p] = -9
  BY DEF Kill, Lands, End, Goto, IInv
<1> QED
  BY <1>2, <1>3, DirShrinks DEF Kill

-----------------------------------------------------------------------------
(* The invariant. *)
LEMMA InitInvariant == Init => IInv
<1> SUFFICES ASSUME Init PROVE IInv
  OBVIOUS
<1>1. /\ task \in [Procs -> {task[p] : p \in Procs}]
      /\ exit \in [Procs -> {-9, -1, 0, 1, 2}]
  BY DEF Init
<1>2. ASSUME NEW p \in Procs PROVE Fits(p, task[p])
  BY DEF Init, Fits, IsTask, Idle
<1>3. ASSUME NEW f \in DOMAIN dir PROVE IsContent(dir[f]) /\ dir[f].whole /\ f \in Named
  BY DownloadAssumption DEF Init, Named, IsContent, Content
<1> QED
  BY <1>1, <1>2, <1>3 DEF IInv, TaskState, DirState

LEMMA StepInvariant == IInv /\ [Next]_vars => IInv'
<1> SUFFICES ASSUME IInv, [Next]_vars PROVE IInv'
  OBVIOUS
<1>1. CASE UNCHANGED vars
  BY <1>1 DEF vars, IInv, TaskState, DirState, Fits, Forced, ExtKnown, Named
<1>2. ASSUME NEW p \in Procs, NEW t, Lands(p, t), Fits(p, t), DirState' PROVE IInv'
  BY <1>2, TasksStay DEF IInv
<1>3. ASSUME NEW p \in Procs, Quiet(p) PROVE IInv'
  <2>1. PICK t : Lands(p, t) /\ Fits(p, t)
    BY <1>3, QuietLands
  <2>2. DirState'
    BY <1>3, <2>1, QuietLands, DirShrinks
  <2> QED
    BY <1>2, <2>1, <2>2
<1>4. ASSUME NEW p \in Procs, Cancel(p) \/ PipeBreaks(p) PROVE IInv'
  BY <1>4 DEF Cancel, PipeBreaks, IInv, TaskState, DirState, Fits, Forced, ExtKnown, Named
<1>5. ASSUME NEW p \in Procs,
             Fetch(p) \/ StreamTo(p) \/ Compare(p) \/ Publish(p) \/ SweepBegin(p) \/ Sweep(p)
             \/ Kill(p)
      PROVE  IInv'
  BY <1>2, <1>5, FetchKeeps, StreamKeeps, CompareKeeps, PublishKeeps, SweepKeeps, KillKeeps
<1> QED
  BY <1>1, <1>3, <1>4, <1>5 DEF Next, Quiet

(* However the processes interleave, end or are killed, the directory      *)
(* holds whole files and the temporary ones of their writers.              *)
THEOREM DownloadInvariant == Spec => []IInv
<1>1. Init => IInv
  BY InitInvariant
<1>2. IInv /\ [Next]_vars => IInv'
  BY StepInvariant
<1> QED
  BY <1>1, <1>2, PTL DEF Spec

(* What has a name is whole, and only a process that runs or was killed    *)
(* has a temporary file.  (downloader.go: FetchToFile, FetchToFileAuto)    *)
THEOREM FilesStayWhole == Spec => []FilesWhole
<1>1. IInv => FilesWhole
  BY DEF IInv, DirState, FilesWhole
<1> QED
  BY <1>1, DownloadInvariant, PTL

-----------------------------------------------------------------------------
(* What a step does to the files that have a name. *)
Keeps(f) == f \in Named' /\ [dir'[f] EXCEPT !.older = {}] = [dir[f] EXCEPT !.older = {}]

LEMMA Untouched ==
    ASSUME IInv, NEW f \in Named, f \in DOMAIN dir', dir'[f] = dir[f]
    PROVE  Keeps(f)
BY DEF Keeps, Named

LEMMA DiscardSpares ==
    ASSUME IInv, NEW p \in Procs, Discard(p), NEW f \in Named
    PROVE  Keeps(f)
<1>1. f # Temp(p)
  BY TempIsOwn DEF Named
<1> QED
  BY <1>1, Untouched DEF Discard, Remove, Named

(* Without --on-exists overwrite a file is replaced only when it was not   *)
(* there at the last look; nothing but clean-temp removes one.             *)
(* (downloader.go:195 and 296, clean.go: cleanTemp)                        *)
THEOREM KeepsFiles == Spec => KeepsWhatItSaw
<1> DEFINE Allowed(f) ==
        \/ Keeps(f)
        \/ \E p \in Procs :
              IF f \in Named'
              THEN dir'[f].by = p /\ (Forced(p) \/ f \notin task[p].there)
              ELSE job[p].command = "clean" /\ f \in task[p].left
<1>1. ASSUME IInv, [Next]_vars, NEW f \in Named PROVE Allowed(f)
  <2>1. CASE UNCHANGED dir
    BY <1>1, <2>1, Untouched DEF Named
  <2>2. ASSUME NEW p \in Procs, Discard(p) PROVE Allowed(f)
    BY <1>1, <2>2, DiscardSpares
  <2>3. ASSUME NEW p \in Procs, Fetch(p) PROVE Allowed(f)
    <3>1. CASE UNCHANGED dir
      BY <2>1, <3>1
    <3>2. CASE Write(Temp(p), Content(p, Link(task[p]), FALSE, {}))
      <4>1. f # Temp(p)
        BY TempIsOwn DEF Named
      <4> QED
        BY <1>1, <3>2, <4>1, Untouched DEF Write, Named
    <3> QED
      BY <2>3, <3>1, <3>2 DEF Fetch
  <2>4. ASSUME NEW p \in Procs, StreamTo(p) PROVE Allowed(f)
    <3>1. f # Temp(p)
      BY TempIsOwn DEF Named
    <3>2. CASE dir' = [g \in DOMAIN dir |->
                        IF g = Temp(p) THEN Content(p, Link(task[p]), TRUE, {}) ELSE dir[g]]
      BY <1>1, <3>1, <3>2, Untouched DEF Named
    <3> QED
      BY <2>2, <2>4, <3>2 DEF StreamTo
  <2>5. ASSUME NEW p \in Procs, Compare(p) PROVE Allowed(f)
    BY <2>1, <2>2, <2>5 DEF Compare
  <2>6. ASSUME NEW p \in Procs, Publish(p) PROVE Allowed(f)
    <3>1. CASE /\ Temp(p) \in DOMAIN dir
               /\ dir' = [g \in (DOMAIN dir \ {Temp(p)}) \cup {task[p].path} |->
                            IF g = task[p].path THEN dir[Temp(p)] ELSE dir[g]]
      <4>1. f # Temp(p)
        BY TempIsOwn DEF Named
      <4>2. CASE f = task[p].path
        <5>1. f \in Named' /\ dir'[f].by = p
          BY <1>1, <3>1, <4>2, FileFacts DEF Named
        <5>2. Forced(p) \/ f \notin task[p].there
          BY <1>1, <2>6, <4>2 DEF IInv, TaskState, Fits, Publish, Running
        <5> QED
          BY <5>1, <5>2
      <4>3. CASE f # task[p].path
        BY <1>1, <3>1, <4>1, <4>3, Untouched DEF Named
      <4> QED
        BY <4>2, <4>3
    <3> QED
      BY <2>2, <2>6, <3>1 DEF Publish
  <2>7. ASSUME NEW p \in Procs, SweepBegin(p) PROVE Allowed(f)
    <3>1. f \in DOMAIN dir' /\ dir'[f] = [dir[f] EXCEPT !.older = @ \cup {p}]
      BY <2>7 DEF SweepBegin, Named
    <3>2. DOMAIN dir[f] = {"by", "link", "whole", "older"}
      BY <1>1, FileFacts DEF IsContent, Named
    <3>3. [dir'[f] EXCEPT !.older = {}] = [dir[f] EXCEPT !.older = {}]
      BY <3>1, <3>2
    <3> QED
      <4>1. f \in Named'
        BY <3>1 DEF Named
      <4> QED
        BY <3>3, <4>1 DEF Keeps
  <2>8. ASSUME NEW p \in Procs, Sweep(p) PROVE Allowed(f)
    <3>1. PICK g \in task[p].left : UNCHANGED dir \/ Remove(g)
      BY <2>8 DEF Sweep
    <3>2. CASE Remove(g) /\ g = f
      <4>1. f \notin Named'
        BY <3>2 DEF Remove, Named
      <4>2. job[p].command = "clean"
        BY <1>1, <2>8 DEF Sweep, Running, IInv, TaskState, Fits
      <4> QED
        BY <3>1, <3>2, <4>1, <4>2
    <3>3. CASE Remove(g) /\ g # f
      BY <1>1, <3>3, Untouched DEF Remove, Named
    <3> QED
      BY <2>1, <3>1, <3>2, <3>3
  <2>9. ASSUME NEW p \in Procs, Quiet(p) \/ Cancel(p) \/ PipeBreaks(p) \/ Kill(p) PROVE Allowed(f)
    BY <1>1, <2>1, <2>9, QuietLands DEF Cancel, PipeBreaks, Kill
  <2>10. CASE UNCHANGED vars
    BY <2>1, <2>10 DEF vars
  <2> QED
    BY <1>1, <2>3, <2>4, <2>5, <2>6, <2>7, <2>8, <2>9, <2>10 DEF Next, Quiet
<1>2. IInv /\ [Next]_vars => \A f \in Named : Allowed(f)
  BY <1>1
<1>3. IInv /\ [Next]_vars =>
        [\A f \in Named :
          \/ f \in Named' /\ [dir'[f] EXCEPT !.older = {}] = [dir[f] EXCEPT !.older = {}]
          \/ \E p \in Procs :
                IF f \in Named'
                THEN dir'[f].by = p /\ (Forced(p) \/ f \notin task[p].there)
                ELSE job[p].command = "clean" /\ f \in task[p].left]_vars
  BY <1>2 DEF Keeps
<1> QED
  BY <1>3, DownloadInvariant, PTL DEF Spec, KeepsWhatItSaw

-----------------------------------------------------------------------------
(* The entries and links that the strategies work on. *)
LEMMA LinkFacts ==
    /\ NoLink \notin LinkType
    /\ \A link \in LinkOrNone : link # NoLink => link \in LinkType
    /\ \A link \in LinkOrNone : Https(link) => link \in LinkType
    /\ \A link \in LinkOrNone : \A q \in Qualities :
          /\ RewritePBSTier(link, q) \in LinkOrNone
          /\ link # NoLink => RewritePBSTier(link, q) # NoLink
<1>1. NoLink \notin LinkType /\ \A link \in LinkOrNone : link # NoLink => link \in LinkType
  BY MediaAssumption DEF LinkOrNone
<1>2. ASSUME NEW link \in LinkType, NEW q \in Qualities
      PROVE  RewritePBSTier(link, q) \in LinkType
  BY <1>2 DEF RewritePBSTier, LinkType
<1>3. ASSUME NEW link \in LinkOrNone, NEW q \in Qualities
      PROVE  /\ RewritePBSTier(link, q) \in LinkOrNone
             /\ link # NoLink => RewritePBSTier(link, q) # NoLink
  <2>1. CASE link = NoLink
    BY <2>1 DEF RewritePBSTier, LinkOrNone
  <2>2. CASE link # NoLink
    BY <1>1, <1>2, <2>2 DEF LinkOrNone
  <2> QED
    BY <2>1, <2>2
<1> QED
  BY <1>1, <1>3 DEF Https

(* FirstOfEach keeps one entry of each link. *)
LEMMA FirstOfEachProperties ==
    ASSUME NEW T, NEW entries \in Seq(T)
    PROVE  /\ FirstOfEach(entries) \in Seq(T)
           /\ Range(FirstOfEach(entries)) \subseteq Range(entries)
           /\ \A i, j \in DOMAIN FirstOfEach(entries) :
                 FirstOfEach(entries)[i].url = FirstOfEach(entries)[j].url => i = j
           /\ \A m \in Range(entries) : \E k \in Range(FirstOfEach(entries)) : k.url = m.url
<1> DEFINE I == {i \in DOMAIN entries : \A j \in 1..(i - 1) : entries[j].url # entries[i].url}
           kept == FirstOfEach(entries)
<1>1. kept = Keep(entries, I) /\ I \in SUBSET (DOMAIN entries)
  BY DEF FirstOfEach
<1>2. DOMAIN entries = 1..Len(entries) /\ Len(entries) \in Nat
  OBVIOUS
<1>3. \A i, j \in I : i < j => entries[i].url # entries[j].url
  BY <1>2
<1>4. ASSUME NEW m \in Range(entries) PROVE \E i \in I : entries[i].url = m.url
  <2> DEFINE S == {i \in DOMAIN entries : entries[i].url = m.url}
  <2>1. S # {} /\ S \in SUBSET (1..Len(entries))
    BY <1>2, <1>4 DEF Range
  <2>2. PICK i \in S : \A j \in S : i =< j
    <3> HIDE DEF S
    <3> QED
      BY <1>2, <2>1, FirstPosition
  <2>3. \A j \in 1..(i - 1) : entries[j].url # entries[i].url
    BY <1>2, <2>2
  <2> QED
    BY <2>2, <2>3
<1> HIDE DEF I, kept
<1>5. /\ kept \in Seq(T)
      /\ Range(kept) = {entries[i] : i \in I}
      /\ \A k, l \in DOMAIN kept : k < l =>
            \E i, j \in I : i < j /\ kept[k] = entries[i] /\ kept[l] = entries[j]
  BY <1>1, KeepProperties
<1>6. \A k, l \in DOMAIN kept : k < l => kept[k].url # kept[l].url
  BY <1>3, <1>5
<1>7. \A k, l \in DOMAIN kept : kept[k].url = kept[l].url => k = l
  <2>1. \A k \in DOMAIN kept : k \in Int
    BY <1>5
  <2> QED
    BY <1>6, <2>1
<1>8. Range(kept) \subseteq Range(entries)
  BY <1>1, <1>5 DEF Range
<1>9. \A m \in Range(entries) : \E k \in Range(kept) : k.url = m.url
  BY <1>4, <1>5
<1> QED
  BY <1>5, <1>7, <1>8, <1>9 DEF kept

(* A finite set in some order has a last element. *)
LEMMA LastInOrder ==
    ASSUME NEW P, IsFiniteSet(P), P # {}, NEW R,
           \A x, y \in P : <<x, y>> \in R \/ <<y, x>> \in R,
           \A x, y \in P : <<x, y>> \in R /\ <<y, x>> \in R => x = y,
           \A x, y, z \in P : <<x, y>> \in R /\ <<y, z>> \in R => <<x, z>> \in R
    PROVE  \E x \in P : \A y \in P : <<y, x>> \in R
<1> DEFINE c == Cardinality(P)
<1>1. c \in Nat /\ c # 0
  BY FS_CardinalityType, FS_EmptySet
<1>2. c \in 1..c
  <2> HIDE DEF c
  <2> QED
    BY <1>1
<1>3. PICK x \in P : Place(P, R, x) = c
  BY <1>2, OrderRank
<1>4. {y \in P : <<y, x>> \in R} = P
  <2> DEFINE Q == {y \in P : <<y, x>> \in R}
  <2>1. Q \subseteq P /\ Cardinality(Q) = Cardinality(P)
    BY <1>3 DEF Place
  <2> HIDE DEF Q
  <2>2. Q = P
    BY <2>1, FS_Subset
  <2> QED
    BY <2>2 DEF Q
<1> QED
  BY <1>4

(* Positions in the order of a number of each, and of equals the earlier   *)
(* position first, are in a total order.                                   *)
ByNumber(P, b) == {r \in P \X P : b[r[1]] < b[r[2]] \/ (b[r[1]] = b[r[2]] /\ r[1] =< r[2])}

(* The numbers that rank the entries of a pool are ordered.                *)
LEMMA NumbersOrder ==
    ASSUME NEW n \in Nat, NEW P \in SUBSET (1..n), NEW b \in [P -> Int]
    PROVE  LET R == ByNumber(P, b)
           IN  /\ IsFiniteSet(P)
               /\ \A x, y \in P : <<x, y>> \in R <=> b[x] < b[y] \/ (b[x] = b[y] /\ x =< y)
               /\ \A x, y \in P : <<x, y>> \in R \/ <<y, x>> \in R
               /\ \A x, y \in P : <<x, y>> \in R /\ <<y, x>> \in R => x = y
               /\ \A x, y, z \in P : <<x, y>> \in R /\ <<y, z>> \in R => <<x, z>> \in R
<1> DEFINE R == ByNumber(P, b)
<1>1. IsFiniteSet(P)
  <2>1. IsFiniteSet(1..n)
    BY FS_Interval
  <2> QED
    BY <2>1, FS_Subset
<1>2. \A x, y \in P : <<x, y>> \in R <=> b[x] < b[y] \/ (b[x] = b[y] /\ x =< y)
  BY DEF ByNumber
<1>3. \A x \in P : x \in Int /\ b[x] \in Int
  OBVIOUS
<1> HIDE DEF R
<1> QED
  BY <1>1, <1>2, <1>3 DEF R

(* SelectVariant picks one of the variants, whatever the quality. *)
LEMMA SelectVariantPicks ==
    ASSUME NEW T, NEW variants \in Seq(T), variants # <<>>, NEW quality,
           \A i \in DOMAIN variants : variants[i].bitrate \in Int
    PROVE  \E i \in DOMAIN variants : SelectVariant(variants, quality) = variants[i]
<1> DEFINE n == Len(variants)
           D == DOMAIN variants
           b == [i \in D |-> variants[i].bitrate]
           known == {i \in D : variants[i].bitrate > 0}
           Under(x) == Cardinality({j \in known : variants[j].bitrate < x})
           middle   == Cardinality(known) \div 2
           Wanted(i) ==
              IF quality = "low"
              THEN Under(variants[i].bitrate) = 0
              ELSE /\ Under(variants[i].bitrate) =< middle
                   /\ Under(variants[i].bitrate + 1) > middle
           Top(i) == \A j \in D :
                        \/ variants[j].bitrate < variants[i].bitrate
                        \/ variants[j].bitrate = variants[i].bitrate /\ j =< i
           First(i) == Wanted(i) /\ \A j \in known : Wanted(j) => i =< j
<1>1. n \in Nat /\ D = 1..n /\ D # {} /\ D \in SUBSET (1..n) /\ known \in SUBSET (1..n) /\ known \subseteq D
  BY EmptySeq
<1>2. \A i \in D : b[i] \in Int /\ b[i] = variants[i].bitrate
  OBVIOUS
<1>3. b \in [D -> Int] /\ [i \in known |-> b[i]] \in [known -> Int]
  BY <1>1, <1>2
<1>4. SelectVariant(variants, quality) =
         IF quality = "high" \/ known = {} THEN variants[CHOOSE i \in D : Top(i)]
         ELSE variants[CHOOSE i \in known : First(i)]
  BY DEF SelectVariant
<1>5. \E i \in D : Top(i)
  <2> DEFINE R == ByNumber(D, b)
  <2> HIDE DEF D, b, n
  <2>1. /\ IsFiniteSet(D)
        /\ \A x, y \in D : <<x, y>> \in R <=> b[x] < b[y] \/ (b[x] = b[y] /\ x =< y)
        /\ \A x, y \in D : <<x, y>> \in R \/ <<y, x>> \in R
        /\ \A x, y \in D : <<x, y>> \in R /\ <<y, x>> \in R => x = y
        /\ \A x, y, z \in D : <<x, y>> \in R /\ <<y, z>> \in R => <<x, z>> \in R
    <3>1. n \in Nat /\ D \in SUBSET (1..n) /\ b \in [D -> Int]
      BY <1>1, <1>3
    <3> QED
      BY <3>1, NumbersOrder
  <2> HIDE DEF R
  <2>2. PICK x \in D : \A y \in D : <<y, x>> \in R
    BY <1>1, <2>1, LastInOrder
  <2> QED
    BY <1>2, <2>1, <2>2
<1>6. ASSUME known # {} PROVE \E i \in known : Wanted(i)
  <2> DEFINE c == Cardinality(known)
             k == [i \in known |-> b[i]]
             R == ByNumber(known, k)
             Upto(x) == {y \in known : <<y, x>> \in R}
  <2>1. /\ IsFiniteSet(known)
        /\ \A x, y \in known : <<x, y>> \in R <=> k[x] < k[y] \/ (k[x] = k[y] /\ x =< y)
        /\ \A x, y \in known : <<x, y>> \in R \/ <<y, x>> \in R
        /\ \A x, y \in known : <<x, y>> \in R /\ <<y, x>> \in R => x = y
        /\ \A x, y, z \in known : <<x, y>> \in R /\ <<y, z>> \in R => <<x, z>> \in R
    <3> HIDE DEF known, b, n
    <3> QED
      BY <1>1, <1>3, NumbersOrder
  <2>2. \A i \in known : k[i] = variants[i].bitrate /\ k[i] \in Int /\ i \in Int
    BY <1>1, <1>2
  <2> HIDE DEF known, R, k, b, n, D
  <2>3. c \in Nat /\ c # 0
    BY <1>6, <2>1, FS_CardinalityType, FS_EmptySet
  <2>4. \A r \in 1..c : \E x \in known : Cardinality(Upto(x)) = r
    <3>1. \A r \in 1..c : \E x \in known : Place(known, R, x) = r
      BY <2>1, OrderRank
    <3>2. \A x \in known : Place(known, R, x) = Cardinality(Upto(x))
      BY DEF Place
    <3> HIDE DEF c, Upto
    <3> QED
      BY <3>1, <3>2
  <2>5. \A x \in known : \A m \in Int :
           LET S == {j \in known : variants[j].bitrate < m}
           IN  /\ IsFiniteSet(S) /\ Cardinality(S) \in Nat
               /\ m =< variants[x].bitrate => S \subseteq Upto(x) \ {x}
               /\ m > variants[x].bitrate => Upto(x) \subseteq S
    <3> TAKE x \in known
    <3> TAKE m \in Int
    <3> DEFINE S == {j \in known : variants[j].bitrate < m}
    <3>1. IsFiniteSet(S) /\ Cardinality(S) \in Nat
      <4>1. S \subseteq known
        OBVIOUS
      <4> HIDE DEF S
      <4> QED
        BY <2>1, <4>1, FS_Subset, FS_CardinalityType
    <3>2. m =< variants[x].bitrate => S \subseteq Upto(x) \ {x}
      BY <2>1, <2>2
    <3>3. m > variants[x].bitrate => Upto(x) \subseteq S
      BY <2>1, <2>2
    <3> QED
      BY <3>1, <3>2, <3>3
  <2>6. \A x \in known : /\ IsFiniteSet(Upto(x)) /\ Cardinality(Upto(x)) \in Nat
                          /\ Cardinality(Upto(x) \ {x}) = Cardinality(Upto(x)) - 1
                          /\ IsFiniteSet(Upto(x) \ {x})
    <3> TAKE x \in known
    <3>1. Upto(x) \subseteq known /\ x \in Upto(x)
      BY <2>1
    <3> HIDE DEF Upto
    <3> QED
      BY <2>1, <3>1, FS_Subset, FS_CardinalityType, FS_RemoveElement
  <2>7. \A x \in known : \A m \in Int :
           /\ Under(m) \in Nat
           /\ m =< variants[x].bitrate => Under(m) =< Cardinality(Upto(x)) - 1
           /\ m > variants[x].bitrate => Cardinality(Upto(x)) =< Under(m)
    <3> TAKE x \in known
    <3> TAKE m \in Int
    <3> DEFINE S == {j \in known : variants[j].bitrate < m}
    <3>1. /\ IsFiniteSet(S) /\ Cardinality(S) \in Nat
          /\ m =< variants[x].bitrate => S \subseteq Upto(x) \ {x}
          /\ m > variants[x].bitrate => Upto(x) \subseteq S
      BY <2>5
    <3>2. Under(m) = Cardinality(S)
      OBVIOUS
    <3> HIDE DEF S, Upto, Under
    <3>3. m =< variants[x].bitrate => Cardinality(S) =< Cardinality(Upto(x) \ {x})
      BY <2>6, <3>1, FS_Subset
    <3>4. m > variants[x].bitrate => Cardinality(Upto(x)) =< Cardinality(S)
      BY <3>1, FS_Subset
    <3> QED
      BY <2>6, <3>1, <3>2, <3>3, <3>4
  <2> HIDE DEF Upto, Under, c
  <2>8. CASE quality = "low"
    <3>1. PICK x \in known : Cardinality(Upto(x)) = 1
      BY <2>3, <2>4
    <3>2. variants[x].bitrate \in Int /\ variants[x].bitrate =< variants[x].bitrate
      BY <2>2
    <3>3. Under(variants[x].bitrate) = 0
      BY <2>7, <3>1, <3>2
    <3> QED
      BY <2>8, <3>3
  <2>9. CASE quality # "low"
    <3>1. middle = c \div 2
      BY DEF c
    <3>2. middle \in Nat /\ middle + 1 \in 1..c
      BY <2>3, <3>1
    <3> HIDE DEF middle
    <3>3. PICK x \in known : Cardinality(Upto(x)) = middle + 1
      BY <2>4, <3>2
    <3>4. variants[x].bitrate \in Int /\ variants[x].bitrate + 1 \in Int
          /\ variants[x].bitrate =< variants[x].bitrate
          /\ variants[x].bitrate + 1 > variants[x].bitrate
      BY <2>2
    <3>5. /\ Under(variants[x].bitrate) \in Nat
          /\ Under(variants[x].bitrate) =< Cardinality(Upto(x)) - 1
      BY <2>7, <3>4
    <3>6. /\ Under(variants[x].bitrate + 1) \in Nat
          /\ Cardinality(Upto(x)) =< Under(variants[x].bitrate + 1)
      BY <2>7, <3>4
    <3>7. /\ Under(variants[x].bitrate) =< middle
          /\ Under(variants[x].bitrate + 1) > middle
      BY <3>2, <3>3, <3>5, <3>6
    <3> QED
      BY <2>9, <3>7
  <2> QED
    BY <2>8, <2>9
<1>7. ASSUME known # {} PROVE \E i \in known : First(i)
  <2> DEFINE S == {i \in known : Wanted(i)}
  <2>1. S # {} /\ S \in SUBSET (1..n)
    BY <1>1, <1>6, <1>7
  <2>2. PICK i \in S : \A j \in S : i =< j
    <3> HIDE DEF S, n
    <3> QED
      BY <1>1, <2>1, FirstPosition
  <2> QED
    BY <2>2
<1> HIDE DEF Top, First, Wanted
<1> QED
  BY <1>1, <1>4, <1>5, <1>7

Entries == EntryType(LinkOrNone)
Media   == EntryType(LinkType)

(* The encodings that a player is offered over https become the pool of an *)
(* entry, and one of them its link (selection.go).                         *)
LEMMA ProjectTyped ==
    ASSUME NEW m \in Entries, NEW q \in Qualities
    PROVE  Project(m, q) \in Entries
<1> DEFINE I    == {i \in DOMAIN m.variants : Https(m.variants[i].url)}
           pool == Keep(m.variants, I)
           main == SelectVariant(pool, q).url
           top  == SelectVariant(pool, "high").url
<1>1. /\ m.kind \in Kinds /\ m.url \in LinkOrNone /\ m.variants \in Seq(VariantType)
      /\ m.fallback \in LinkOrNone /\ m.cover \in LinkOrNone
      /\ m.bitrate \in Int /\ m.poster \in BOOLEAN
      /\ DOMAIN m = {"kind", "url", "variants", "fallback", "cover", "bitrate", "poster"}
  BY DEF Entries, EntryType
<1>2. Project(m, q) =
         IF ~Moving(m)
         THEN [m EXCEPT !.url = RewritePBSTier(@, q)]
         ELSE IF pool = <<>>
         THEN [m EXCEPT !.variants = <<>>]
         ELSE [m EXCEPT !.url = main, !.variants = pool,
                        !.fallback = IF top # main THEN top ELSE @]
  BY DEF Project, Only
<1>3. I \in SUBSET (DOMAIN m.variants)
  OBVIOUS
<1> HIDE DEF I
<1>4. pool \in Seq(VariantType)
  BY <1>1, <1>3, KeepProperties
<1> HIDE DEF pool
<1>5. ASSUME pool # <<>> PROVE main \in LinkOrNone /\ top \in LinkOrNone
  <2>1. \A i \in DOMAIN pool : pool[i] \in VariantType
    BY <1>4
  <2>2. \A i \in DOMAIN pool : pool[i].bitrate \in Int /\ pool[i].url \in LinkOrNone
    BY <2>1 DEF VariantType
  <2>3. PICK i \in DOMAIN pool : SelectVariant(pool, q) = pool[i]
    BY <1>4, <1>5, <2>2, SelectVariantPicks
  <2>4. PICK j \in DOMAIN pool : SelectVariant(pool, "high") = pool[j]
    BY <1>4, <1>5, <2>2, SelectVariantPicks
  <2> QED
    BY <2>2, <2>3, <2>4
<1> HIDE DEF main, top
<1>6. CASE ~Moving(m)
  <2>1. RewritePBSTier(m.url, q) \in LinkOrNone
    BY <1>1, LinkFacts
  <2> QED
    BY <1>2, <1>6, <2>1 DEF Entries, EntryType
<1>7. CASE Moving(m) /\ pool = <<>>
  BY <1>2, <1>4, <1>7 DEF Entries, EntryType
<1>8. CASE Moving(m) /\ pool # <<>>
  BY <1>1, <1>2, <1>4, <1>5, <1>8 DEF Entries, EntryType
<1> QED
  BY <1>6, <1>7, <1>8

(* What a strategy passes on has links over https, each once. *)
LEMMA FinalizeTyped ==
    ASSUME NEW entries \in Seq(Entries), NEW q \in Qualities
    PROVE  Finalize(entries, q) \in Seq(Media)
<1> DEFINE all  == [i \in DOMAIN entries |-> Project(entries[i], q)]
           I    == {i \in DOMAIN all : Https(all[i].url)}
           some == Keep(all, I)
<1>1. Len(entries) \in Nat /\ DOMAIN entries = 1..Len(entries)
      /\ \A i \in DOMAIN entries : entries[i] \in Entries
  OBVIOUS
<1>2. \A i \in DOMAIN entries : Project(entries[i], q) \in Entries
  BY <1>1, ProjectTyped
<1>3. all \in Seq(Entries)
  BY <1>1, <1>2
<1>4. Finalize(entries, q) = FirstOfEach(some)
  BY DEF Finalize, Only
<1>5. I \in SUBSET (DOMAIN all) /\ \A i \in I : Https(all[i].url)
  OBVIOUS
<1> HIDE DEF all, I
<1>6. some \in Seq(Entries) /\ Range(some) = {all[i] : i \in I}
  BY <1>3, <1>5, KeepProperties
<1>7. \A m \in Range(some) : m \in Media
  <2>1. \A i \in I : all[i] \in Entries
    BY <1>3, <1>5
  <2>2. \A i \in I : all[i].url \in LinkType
    BY <1>5, <2>1, LinkFacts DEF Entries, EntryType
  <2>3. \A i \in I : all[i] \in Media
    BY <2>1, <2>2 DEF Entries, Media, EntryType
  <2> QED
    BY <1>6, <2>3
<1>8. some \in Seq(Media)
  BY <1>6, <1>7 DEF Range
<1> QED
  BY <1>4, <1>8, FirstOfEachProperties

(* So it is with what fxtwitter answers, ... *)
LEMMA FxTyped ==
    ASSUME NEW body \in AnswerType["fx"], NEW q \in Qualities
    PROVE  ResolveFx(body, q) \in Seq(Media)
<1> DEFINE items == IF body.tweet # <<>> THEN body.tweet[1] ELSE IF body.text THEN body.top ELSE <<>>
           Item == [type : Kinds, url : LinkOrNone, thumb : LinkOrNone,
                    variants : Seq(VariantType), info : Seq(VariantType)]
<1>1. body.tweet \in Seq(Seq(Item)) /\ body.top \in Seq(Item)
  BY DEF AnswerType, FxItems
<1>2. items \in Seq(Item)
  <2>1. body.tweet # <<>> => body.tweet[1] \in Seq(Item)
    <3>1. body.tweet # <<>> => 1 \in 1..Len(body.tweet)
      BY <1>1, EmptySeq
    <3> HIDE DEF Item
    <3> QED
      BY <1>1, <3>1, ElementOfSeq
  <2> HIDE DEF Item
  <2>2. <<>> \in Seq(Item)
    BY EmptySeq
  <2> QED
    BY <1>1, <2>1, <2>2
<1> HIDE DEF items
<1>3. ASSUME NEW i \in DOMAIN items PROVE FxCandidates(items)[i] \in Entries
  <2> DEFINE item == items[i]
             url  == IF item.url # NoLink THEN item.url ELSE item.thumb
             all  == IF item.variants = <<>> THEN item.info ELSE item.variants
             I    == {j \in DOMAIN all : all[j].url # NoLink}
             cover == IF Https(item.thumb) THEN item.thumb ELSE NoLink
  <2>1. /\ item.type \in Kinds /\ item.url \in LinkOrNone /\ item.thumb \in LinkOrNone
        /\ item.variants \in Seq(VariantType) /\ item.info \in Seq(VariantType)
    <3>1. item \in Item
      <4> HIDE DEF Item
      <4> QED
        BY <1>2, <1>3
    <3> HIDE DEF item
    <3> QED
      BY <3>1
  <2>2. FxCandidates(items)[i] =
           IF item.type = "image"
           THEN Entry("image", url, <<>>, NoLink, NoLink, 0)
           ELSE Entry(item.type, url, Keep(all, I), NoLink, cover, 0)
    BY DEF FxCandidates, Only
  <2>3. url \in LinkOrNone /\ cover \in LinkOrNone /\ NoLink \in LinkOrNone
    BY <2>1 DEF LinkOrNone
  <2>4. all \in Seq(VariantType) /\ I \in SUBSET (DOMAIN all)
    BY <2>1
  <2> HIDE DEF item, url, all, I, cover
  <2>5. Keep(all, I) \in Seq(VariantType) /\ <<>> \in Seq(VariantType)
    BY <2>4, KeepProperties, EmptySeq
  <2>6. 0 \in Int /\ FALSE \in BOOLEAN /\ "image" \in Kinds
    BY DEF Kinds
  <2> QED
    BY <2>1, <2>2, <2>3, <2>5, <2>6 DEF Entry, Entries, EntryType
<1>4. FxCandidates(items) \in Seq(Entries)
  <2>1. Len(items) \in Nat /\ DOMAIN items = 1..Len(items)
    BY <1>2
  <2>2. DOMAIN FxCandidates(items) = DOMAIN items
        /\ FxCandidates(items) = [i \in DOMAIN items |-> FxCandidates(items)[i]]
    BY DEF FxCandidates
  <2>3. FxCandidates(items) \in [1..Len(items) -> Entries]
    BY <1>3, <2>1, <2>2
  <2> QED
    BY <2>1, <2>3
<1> QED
  BY <1>4, FinalizeTyped DEF ResolveFx, items

(* ... with the page of a user's own instance, whose links may be http, ... *)
LEMMA NitterTyped ==
    ASSUME NEW body \in AnswerType["nitter"], NEW q \in Qualities
    PROVE  ResolveNitter(body, q) \in Seq(Media)
<1> DEFINE Item == [kind : Kinds, url : LinkOrNone]
           made(m) == Entry(m.kind,
                            IF m.kind = "image" THEN RewritePBSTier(m.url, q) ELSE m.url,
                            <<>>, NoLink, NoLink, 0)
           all  == [i \in DOMAIN body.media |-> made(body.media[i])]
           I    == {i \in DOMAIN all : all[i].url # NoLink}
           some == Keep(all, I)
<1>1. body.media \in Seq(Item)
  BY DEF AnswerType
<1>2. ASSUME NEW m \in Item PROVE made(m) \in Entries
  <2>1. m.kind \in Kinds /\ m.url \in LinkOrNone /\ RewritePBSTier(m.url, q) \in LinkOrNone
    BY LinkFacts
  <2>2. <<>> \in Seq(VariantType) /\ NoLink \in LinkOrNone
    BY EmptySeq DEF LinkOrNone
  <2> QED
    BY <2>1, <2>2 DEF Entry, Entries, EntryType
<1> HIDE DEF Item, made
<1>3. /\ Len(body.media) \in Nat /\ DOMAIN body.media = 1..Len(body.media)
      /\ \A i \in DOMAIN body.media : body.media[i] \in Item
  BY <1>1
<1>4. \A i \in DOMAIN body.media : made(body.media[i]) \in Entries
  BY <1>2, <1>3
<1>5. all \in Seq(Entries)
  BY <1>3, <1>4
<1>6. ResolveNitter(body, q) = FirstOfEach(some)
  BY DEF ResolveNitter, Only, made
<1>7. I \in SUBSET (DOMAIN all) /\ \A i \in I : all[i].url # NoLink
  OBVIOUS
<1> HIDE DEF all, I
<1>8. some \in Seq(Entries) /\ Range(some) = {all[i] : i \in I}
  BY <1>5, <1>7, KeepProperties
<1>9. \A m \in Range(some) : m \in Media
  <2>1. \A i \in I : all[i] \in Entries
    BY <1>5, <1>7
  <2>2. \A i \in I : all[i].url \in LinkType
    BY <1>7, <2>1, LinkFacts DEF Entries, EntryType
  <2>3. \A i \in I : all[i] \in Media
    BY <2>1, <2>2 DEF Entries, Media, EntryType
  <2> QED
    BY <1>8, <2>3
<1>10. some \in Seq(Media)
  BY <1>8, <1>9 DEF Range
<1> QED
  BY <1>6, <1>10, FirstOfEachProperties

(* ... and with the buttons of xdown, a cover among them. *)
LEMMA XdownTyped ==
    ASSUME NEW body \in AnswerType["xdown"], NEW q \in Qualities
    PROVE  ResolveXdown(body, q) \in Seq(Media)
<1> DEFINE Button == [label : Kinds \cup {"none"}, suffix : Kinds \cup {"none"},
                      download : BOOLEAN, href : LinkOrNone, direct : LinkOrNone,
                      height : Int, poster : BOOLEAN]
           I     == {i \in DOMAIN body.buttons :
                       /\ body.buttons[i].download
                       /\ body.buttons[i].href # NoLink
                       /\ XdownDetectKind(body.buttons[i]) # "none"}
           shown == Keep(body.buttons, I)
           e(b)  == IF Https(b.direct)
                    THEN Entry(XdownDetectKind(b), b.direct, <<>>, b.href, NoLink, b.height)
                    ELSE Entry(XdownDetectKind(b), b.href, <<>>, NoLink, NoLink, b.height)
           made(b) == [e(b) EXCEPT !.poster = b.poster]
           found == [i \in DOMAIN shown |-> made(shown[i])]
<1>1. body.buttons \in Seq(Button)
  BY DEF AnswerType
<1>2. XdownCandidates(body.buttons) = found
  BY DEF XdownCandidates, Only
<1>3. I \in SUBSET (DOMAIN body.buttons)
      /\ \A i \in I : XdownDetectKind(body.buttons[i]) # "none"
  OBVIOUS
<1> HIDE DEF I
<1>4. shown \in Seq(Button) /\ Range(shown) = {body.buttons[i] : i \in I}
  <2> HIDE DEF Button
  <2> QED
    BY <1>1, <1>3, KeepProperties
<1>5. \A i \in DOMAIN shown : shown[i] \in Button /\ XdownDetectKind(shown[i]) # "none"
  <2> HIDE DEF Button, shown
  <2>1. \A i \in DOMAIN shown : shown[i] \in Range(shown)
    BY DEF Range
  <2> QED
    BY <1>3, <1>4, <2>1
<1> HIDE DEF shown
<1>6. ASSUME NEW b \in Button, XdownDetectKind(b) # "none" PROVE made(b) \in Entries
  <2>1. XdownDetectKind(b) \in Kinds
    BY <1>6 DEF XdownDetectKind
  <2>2. /\ <<>> \in Seq(VariantType) /\ NoLink \in LinkOrNone
        /\ b.direct \in LinkOrNone /\ b.href \in LinkOrNone /\ b.height \in Int
        /\ b.poster \in BOOLEAN
    BY EmptySeq DEF LinkOrNone
  <2> QED
    BY <2>1, <2>2 DEF Entry, Entries, EntryType
<1> HIDE DEF Button, made
<1>7. \A i \in DOMAIN shown : made(shown[i]) \in Entries
  BY <1>5, <1>6
<1>8. found \in Seq(Entries)
  <2>1. Len(shown) \in Nat /\ DOMAIN shown = 1..Len(shown)
    BY <1>4
  <2> QED
    BY <1>7, <2>1
<1> HIDE DEF found
<1>9. Finalize(found, q) \in Seq(Media)
  BY <1>8, FinalizeTyped
<1>10. ASSUME NEW s \in Seq(Media) PROVE ApplyXdownCover(s) \in Seq(Media)
  <2> DEFINE J       == {i \in DOMAIN s : s[i].poster /\ ~Moving(s[i])}
             posters == Keep(s, J)
             put(m)  == IF posters # <<>> /\ Moving(m) THEN [m EXCEPT !.cover = posters[1].url] ELSE m
  <2>1. ApplyXdownCover(s) = [i \in DOMAIN s |-> put(s[i])]
    BY DEF ApplyXdownCover, Only
  <2>2. posters \in Seq(Media)
    <3>1. J \in SUBSET (DOMAIN s)
      OBVIOUS
    <3> HIDE DEF J
    <3> QED
      BY <3>1, KeepProperties
  <2> HIDE DEF posters
  <2>3. posters # <<>> => posters[1].url \in LinkOrNone
    <3>1. posters # <<>> => 1 \in 1..Len(posters)
      BY <2>2, EmptySeq
    <3>2. posters # <<>> => posters[1] \in Media
      BY <2>2, <3>1, ElementOfSeq
    <3> QED
      BY <3>2 DEF Media, EntryType, LinkOrNone
  <2>4. \A m \in Media : put(m) \in Media
    BY <2>3 DEF Media, EntryType
  <2> HIDE DEF put
  <2>5. Len(s) \in Nat /\ DOMAIN s = 1..Len(s) /\ \A i \in DOMAIN s : s[i] \in Media
    BY <1>10
  <2> QED
    BY <2>1, <2>4, <2>5
<1>11. <<>> \in Seq(Media)
  BY EmptySeq
<1> QED
  BY <1>2, <1>9, <1>10, <1>11 DEF ResolveXdown

(* So what any strategy makes of an answer is a list of entries with links. *)
LEMMA ResolveTyped ==
    ASSUME NEW strategy \in Strategies, NEW body \in Answers[strategy], NEW q \in Qualities
    PROVE  ResolveOne(strategy, body, q) \in Seq(Media)
<1>1. body \in AnswerType[strategy]
  BY DownloadAssumption
<1>2. CASE strategy = "fx"
  BY <1>1, <1>2, FxTyped DEF ResolveOne
<1>3. CASE strategy = "nitter"
  BY <1>1, <1>3, NitterTyped DEF ResolveOne
<1>4. CASE strategy = "xdown"
  BY <1>1, <1>4, XdownTyped DEF ResolveOne
<1> QED
  BY <1>2, <1>3, <1>4 DEF Strategies

-----------------------------------------------------------------------------
(* The links that lead to the moving media among some entries, as far as   *)
(* they can be downloaded.                                                 *)
Leads(m, link) ==
    /\ ~link.playlist
    /\ \/ \E k \in DOMAIN m.variants : m.variants[k].url = link /\ ~m.variants[k].hls
       \/ m.variants = <<>> /\ m.url = link

(* Downloads has an entry for each of them.                                *)
LEMMA DownloadsProperties ==
    ASSUME NEW m \in Media
    PROVE  /\ Downloads(m) \in Seq(Media)
           /\ \A link \in LinkType : Leads(m, link) => \E d \in Range(Downloads(m)) : d.url = link
           /\ \A d \in Range(Downloads(m)) : d.kind = m.kind /\ ~Playlist(d.url)
<1> DEFINE own == Variant(m.url, m.bitrate, FALSE)
           all == IF m.variants # <<>> THEN m.variants ELSE <<own>>
           I   == {i \in DOMAIN all : all[i].url # NoLink /\ ~all[i].hls /\ ~Playlist(all[i].url)}
           ok  == Keep(all, I)
           made(v) == Entry(m.kind, v.url, <<>>, m.fallback, NoLink, v.bitrate)
<1>1. /\ m.kind \in Kinds /\ m.url \in LinkType /\ m.variants \in Seq(VariantType)
      /\ m.fallback \in LinkOrNone /\ m.bitrate \in Int
  BY DEF Media, EntryType
<1>2. own \in VariantType
  BY <1>1 DEF Variant, VariantType, LinkOrNone
<1>3. all \in Seq(VariantType)
  <2> HIDE DEF own
  <2> QED
    BY <1>1, <1>2
<1>4. Downloads(m) = [i \in DOMAIN ok |-> made(ok[i])]
  BY DEF Downloads, Only
<1>5. /\ I \in SUBSET (DOMAIN all)
      /\ \A i \in DOMAIN all : i \in I <=> all[i].url # NoLink /\ ~all[i].hls /\ ~Playlist(all[i].url)
  OBVIOUS
<1>6. ASSUME NEW link \in LinkType, Leads(m, link)
      PROVE  \E i \in DOMAIN all : all[i].url = link /\ ~all[i].hls
  <2>1. CASE m.variants = <<>>
    <3>1. m.url = link
      BY <1>6, <2>1 DEF Leads
    <3>2. all = <<own>> /\ 1 \in DOMAIN <<own>> /\ <<own>>[1] = own
      BY <2>1
    <3> QED
      BY <3>1, <3>2 DEF Variant
  <2>2. CASE m.variants # <<>>
    BY <1>6, <2>2 DEF Leads
  <2> QED
    BY <2>1, <2>2
<1> HIDE DEF all, I
<1>7. /\ ok \in Seq(VariantType)
      /\ Range(ok) = {all[i] : i \in I}
  BY <1>3, <1>5, KeepProperties
<1> HIDE DEF ok
<1>8. Len(ok) \in Nat /\ DOMAIN ok = 1..Len(ok)
      /\ \A i \in DOMAIN ok : ok[i] \in VariantType /\ \E j \in I : ok[i] = all[j]
  BY <1>7 DEF Range
<1>9. ASSUME NEW i \in DOMAIN ok PROVE made(ok[i]) \in Media
  <2>1. ok[i].url # NoLink /\ ok[i].url \in LinkOrNone /\ ok[i].bitrate \in Int
    BY <1>5, <1>8 DEF VariantType
  <2>2. ok[i].url \in LinkType
    BY <2>1, LinkFacts
  <2>3. <<>> \in Seq(VariantType) /\ NoLink \in LinkOrNone
    BY EmptySeq DEF LinkOrNone
  <2> QED
    BY <1>1, <2>1, <2>2, <2>3 DEF Entry, Media, EntryType
<1>10. \A v : made(v).kind = m.kind /\ made(v).url = v.url
  BY DEF Entry
<1> HIDE DEF made
<1>11. Downloads(m) \in Seq(Media)
  BY <1>4, <1>8, <1>9
<1>12. \A d \in Range(Downloads(m)) : d.kind = m.kind /\ ~Playlist(d.url)
  BY <1>4, <1>5, <1>8, <1>10 DEF Range
<1>13. ASSUME NEW link \in LinkType, Leads(m, link)
       PROVE  \E d \in Range(Downloads(m)) : d.url = link
  <2>1. PICK i \in DOMAIN all : all[i].url = link /\ ~all[i].hls
    BY <1>6, <1>13
  <2>2. ~Playlist(link) /\ link # NoLink
    BY <1>13, LinkFacts DEF Leads, Playlist
  <2>3. i \in I
    BY <1>5, <2>1, <2>2
  <2>4. all[i] \in Range(ok)
    BY <1>7, <2>3
  <2>5. PICK k \in DOMAIN ok : ok[k] = all[i]
    BY <2>4 DEF Range
  <2>6. made(ok[k]) \in Range(Downloads(m))
    BY <1>4, <2>5 DEF Range
  <2> QED
    BY <1>10, <2>1, <2>5, <2>6
<1> QED
  BY <1>11, <1>12, <1>13

(* The pool has one entry for each of them, and for each only one.         *)
LEMMA VideoPoolProperties ==
    ASSUME NEW entries \in Seq(Media)
    PROVE  /\ VideoPool(entries) \in Seq(Media)
           /\ \A i, j \in DOMAIN VideoPool(entries) :
                 VideoPool(entries)[i].url = VideoPool(entries)[j].url => i = j
           /\ \A m \in Range(entries) : \A link \in LinkType :
                 Moving(m) /\ Leads(m, link) => \E d \in Range(VideoPool(entries)) : d.url = link
           /\ \A d \in Range(VideoPool(entries)) : ~Playlist(d.url)
<1> DEFINE I      == {i \in DOMAIN entries : Moving(entries[i])}
           moving == Keep(entries, I)
           lists  == [i \in DOMAIN moving |-> Downloads(moving[i])]
           pool   == VideoPool(entries)
<1>1. pool = FirstOfEach(Joined(lists))
  BY DEF VideoPool, Only
<1>2. I \in SUBSET (DOMAIN entries)
  OBVIOUS
<1>3. \A i \in DOMAIN entries : Moving(entries[i]) => i \in I
  OBVIOUS
<1> HIDE DEF I
<1>4. moving \in Seq(Media) /\ Range(moving) = {entries[i] : i \in I}
  BY <1>2, KeepProperties
<1> HIDE DEF moving
<1>5. Len(moving) \in Nat /\ DOMAIN moving = 1..Len(moving)
      /\ \A i \in DOMAIN moving : moving[i] \in Media
  BY <1>4
<1>6. \A i \in DOMAIN moving : Downloads(moving[i]) \in Seq(Media)
  BY <1>5, DownloadsProperties
<1>7. lists \in Seq(Seq(Media))
  BY <1>5, <1>6
<1>8. DOMAIN lists = DOMAIN moving /\ \A i \in DOMAIN moving : lists[i] = Downloads(moving[i])
  OBVIOUS
<1> HIDE DEF lists, pool
<1>9. /\ Joined(lists) \in Seq(Media)
      /\ Range(Joined(lists)) = UNION {Range(lists[i]) : i \in DOMAIN lists}
  BY <1>7, JoinedProperties
<1>10. /\ pool \in Seq(Media)
       /\ Range(pool) \subseteq Range(Joined(lists))
       /\ \A i, j \in DOMAIN pool : pool[i].url = pool[j].url => i = j
       /\ \A m \in Range(Joined(lists)) : \E k \in Range(pool) : k.url = m.url
  BY <1>1, <1>9, FirstOfEachProperties
<1>11. ASSUME NEW m \in Range(entries), NEW link \in LinkType, Moving(m), Leads(m, link)
       PROVE  \E d \in Range(pool) : d.url = link
  <2>1. PICK i \in DOMAIN entries : m = entries[i]
    BY <1>11 DEF Range
  <2>2. m \in Range(moving)
    BY <1>3, <1>4, <1>11, <2>1
  <2>3. PICK k \in DOMAIN moving : moving[k] = m
    BY <2>2 DEF Range
  <2>4. m \in Media
    BY <1>5, <2>3
  <2>5. PICK d \in Range(Downloads(m)) : d.url = link
    BY <1>11, <2>4, DownloadsProperties
  <2>6. d \in Range(Joined(lists))
    BY <1>8, <1>9, <2>3, <2>5
  <2> QED
    BY <1>10, <2>5, <2>6
<1>12. ASSUME NEW d \in Range(pool) PROVE ~Playlist(d.url)
  <2>1. PICK i \in DOMAIN lists : d \in Range(lists[i])
    BY <1>9, <1>10, <1>12
  <2>2. d \in Range(Downloads(moving[i])) /\ moving[i] \in Media
    BY <1>5, <1>8, <2>1
  <2> QED
    BY <2>2, DownloadsProperties
<1> QED
  BY <1>10, <1>11, <1>12 DEF pool

(* The order of rank is another order of the same entries.                 *)
LEMMA DescendingProperties ==
    ASSUME NEW pool \in Seq(Media)
    PROVE  LET down == DescendingByRank(pool)
           IN  /\ down \in Seq(Media)
               /\ Range(down) = Range(pool)
               /\ (\A i, j \in DOMAIN pool : pool[i].url = pool[j].url => i = j)
                     => \A k, l \in DOMAIN down : down[k].url = down[l].url => k = l
<1> DEFINE n == Len(pool)
           D == DOMAIN pool
           b == [i \in D |-> -pool[i].bitrate]
           R == ByNumber(D, b)
           Ahead(i, j) == \/ pool[i].bitrate > pool[j].bitrate
                          \/ pool[i].bitrate = pool[j].bitrate /\ i =< j
           At(k) == CHOOSE i \in D : Cardinality({j \in D : Ahead(j, i)}) = k
           down == DescendingByRank(pool)
<1>1. down = [k \in D |-> pool[At(k)]]
  BY DEF DescendingByRank
<1>2. n \in Nat /\ D = 1..n /\ \A i \in D : pool[i] \in Media
  OBVIOUS
<1>3. \A i \in D : pool[i].bitrate \in Int /\ b[i] \in Int /\ b[i] = -pool[i].bitrate
  BY <1>2 DEF Media, EntryType
<1>4. b \in [D -> Int] /\ D \in SUBSET (1..n)
  BY <1>2, <1>3
<1>5. Cardinality(D) = n
  <2> HIDE DEF n, D
  <2> QED
    BY <1>2, FS_Interval
<1> HIDE DEF b, D, n, down
<1>6. /\ IsFiniteSet(D)
      /\ \A x, y \in D : <<x, y>> \in R <=> b[x] < b[y] \/ (b[x] = b[y] /\ x =< y)
      /\ \A x, y \in D : <<x, y>> \in R \/ <<y, x>> \in R
      /\ \A x, y \in D : <<x, y>> \in R /\ <<y, x>> \in R => x = y
      /\ \A x, y, z \in D : <<x, y>> \in R /\ <<y, z>> \in R => <<x, z>> \in R
  <2>1. n \in Nat /\ D \in SUBSET (1..n) /\ b \in [D -> Int]
    BY <1>2, <1>4
  <2> QED
    BY <2>1, NumbersOrder
<1> HIDE DEF R
<1>7. \A x, y \in D : <<x, y>> \in R <=> Ahead(x, y)
  <2> TAKE x \in D
  <2> TAKE y \in D
  <2> DEFINE u == pool[x].bitrate
             v == pool[y].bitrate
  <2>1. u \in Int /\ v \in Int /\ b[x] = -u /\ b[y] = -v
    BY <1>3
  <2> HIDE DEF u, v
  <2>2. /\ b[x] < b[y] <=> u > v
        /\ b[x] = b[y] <=> u = v
    BY <2>1
  <2>3. <<x, y>> \in R <=> b[x] < b[y] \/ (b[x] = b[y] /\ x =< y)
    BY <1>6
  <2> QED
    BY <2>2, <2>3 DEF u, v
<1>8. \A i \in D : Place(D, R, i) = Cardinality({j \in D : Ahead(j, i)})
  <2> TAKE i \in D
  <2>1. {y \in D : <<y, i>> \in R} = {j \in D : Ahead(j, i)}
    BY <1>7
  <2> QED
    BY <2>1 DEF Place
<1> HIDE DEF Ahead
<1>9. /\ \A x \in D : Place(D, R, x) \in 1..Cardinality(D)
      /\ \A k \in 1..Cardinality(D) : \E x \in D : Place(D, R, x) = k
      /\ \A x, y \in D : Place(D, R, x) = Place(D, R, y) => x = y
  BY <1>6, OrderRank
<1>10. ASSUME NEW k \in D PROVE At(k) \in D /\ Place(D, R, At(k)) = k
  <2>1. PICK x \in D : Place(D, R, x) = k
    <3>1. k \in 1..Cardinality(D)
      BY <1>2, <1>5
    <3> QED
      BY <1>9, <3>1
  <2>2. \E i \in D : Cardinality({j \in D : Ahead(j, i)}) = k
    BY <1>8, <2>1
  <2>3. At(k) \in D /\ Cardinality({j \in D : Ahead(j, At(k))}) = k
    BY <2>2
  <2> QED
    BY <1>8, <2>3
<1>11. ASSUME NEW i \in D PROVE \E k \in D : At(k) = i
  <2>1. Place(D, R, i) \in D
    BY <1>2, <1>5, <1>9
  <2>2. At(Place(D, R, i)) = i
    BY <1>9, <1>10, <2>1
  <2> QED
    BY <2>1, <2>2
<1> HIDE DEF At
<1>12. DOMAIN down = D /\ \A k \in D : down[k] = pool[At(k)]
  BY <1>1
<1>13. down \in Seq(Media)
  <2>1. \A k \in D : pool[At(k)] \in Media
    BY <1>2, <1>10
  <2> QED
    BY <1>1, <1>2, <2>1
<1>14. Range(down) = Range(pool)
  <2>1. Range(down) = {pool[At(k)] : k \in D}
    BY <1>12 DEF Range
  <2>2. Range(pool) = {pool[i] : i \in D}
    BY DEF Range, D
  <2> QED
    BY <1>10, <1>11, <2>1, <2>2
<1>15. ASSUME \A i, j \in D : pool[i].url = pool[j].url => i = j,
              NEW k \in D, NEW l \in D, down[k].url = down[l].url
       PROVE  k = l
  <2>1. At(k) = At(l)
    BY <1>10, <1>12, <1>15
  <2> QED
    BY <1>10, <2>1
<1>16. (\A i, j \in D : pool[i].url = pool[j].url => i = j)
          => \A k, l \in D : down[k].url = down[l].url => k = l
  BY <1>15
<1> QED
  BY <1>12, <1>13, <1>14, <1>16 DEF D, down

(* A link and what it falls back to are two links, or one. *)
LEMMA FallbackChainTyped ==
    ASSUME NEW main \in LinkType, NEW fallback \in LinkOrNone
    PROVE  /\ FallbackChain(main, fallback) \in Seq(LinkType)
           /\ FallbackChain(main, fallback) # <<>>
           /\ Distinct(FallbackChain(main, fallback))
           /\ main \in Range(FallbackChain(main, fallback))
           /\ ~Playlist(main) => \A link \in Range(FallbackChain(main, fallback)) : ~Playlist(link)
<1>1. CASE fallback \in {NoLink, main} \/ Playlist(fallback)
  <2>1. FallbackChain(main, fallback) = <<main>>
    BY <1>1 DEF FallbackChain
  <2>2. DOMAIN <<main>> = {1} /\ <<main>>[1] = main
    OBVIOUS
  <2> QED
    BY <2>1, <2>2 DEF Distinct, Range
<1>2. CASE ~(fallback \in {NoLink, main} \/ Playlist(fallback))
  <2>1. FallbackChain(main, fallback) = <<main, fallback>> /\ main # fallback
    BY <1>2 DEF FallbackChain
  <2>2. /\ DOMAIN <<main, fallback>> = {1, 2} /\ <<main, fallback>>[1] = main
        /\ <<main, fallback>>[2] = fallback /\ fallback \in LinkType
    BY <1>2, LinkFacts
  <2>3. \A link \in Range(FallbackChain(main, fallback)) : link \in {main, fallback}
    BY <2>1, <2>2 DEF Range
  <2>4. ~Playlist(main) => \A link \in Range(FallbackChain(main, fallback)) : ~Playlist(link)
    BY <1>2, <2>3
  <2> QED
    BY <2>1, <2>2, <2>4 DEF Distinct, Range
<1> QED
  BY <1>1, <1>2

(* A file takes its extension from the first link of its chain.            *)
LEMMA FileTyped ==
    ASSUME NEW kind \in Kinds \cup {"cover"}, NEW chain \in Seq(LinkType), chain # <<>>
    PROVE  File(kind, chain) \in FileType /\ File(kind, chain).kind = kind
           /\ File(kind, chain).chain = chain
<1>1. chain[1] \in LinkType
  <2>1. 1 \in 1..Len(chain)
    BY EmptySeq
  <2> QED
    BY <2>1, ElementOfSeq
<1>2. chain[1].ext \in Exts \cup {NoExt}
  BY <1>1 DEF LinkType
<1> QED
  BY <1>2 DEF File, FileType

(* The chain of a video tries every link of its pool, each once.           *)
LEMMA ConvergedProperties ==
    ASSUME NEW pool \in Seq(Media), pool # <<>>, NEW q \in Qualities,
           \A i, j \in DOMAIN pool : pool[i].url = pool[j].url => i = j,
           \A d \in Range(pool) : ~Playlist(d.url)
    PROVE  LET file == PlanConverged(pool, q)
           IN  /\ file \in FileType
               /\ file.chain # <<>>
               /\ Distinct(file.chain)
               /\ \A i \in DOMAIN file.chain : ~Playlist(file.chain[i])
               /\ \A m \in Range(pool) : m.url \in Range(file.chain)
<1> DEFINE winner == SelectVariant(pool, q)
           first  == FallbackChain(winner.url, winner.fallback)
           down   == DescendingByRank(pool)
           I      == {i \in DOMAIN down : down[i].url \notin Range(first)}
           rest   == Keep(down, I)
           urls   == [i \in DOMAIN rest |-> rest[i].url]
           chain  == first \o urls
<1>1. PlanConverged(pool, q) = File(winner.kind, chain)
  BY DEF PlanConverged, Only
<1>2. winner \in Media /\ winner \in Range(pool)
  <2>1. \A i \in DOMAIN pool : pool[i] \in Media
    OBVIOUS
  <2>2. \A i \in DOMAIN pool : pool[i].bitrate \in Int
    BY <2>1 DEF Media, EntryType
  <2>3. \E i \in DOMAIN pool : winner = pool[i]
    BY <2>2, SelectVariantPicks
  <2> QED
    BY <2>1, <2>3 DEF Range
<1>3. winner.kind \in Kinds /\ winner.url \in LinkType /\ winner.fallback \in LinkOrNone
  BY <1>2 DEF Media, EntryType
<1>4. /\ first \in Seq(LinkType) /\ first # <<>> /\ Distinct(first)
      /\ \A link \in Range(first) : ~Playlist(link)
  BY <1>2, <1>3, FallbackChainTyped
<1>5. /\ down \in Seq(Media)
      /\ Range(down) = Range(pool)
      /\ \A k, l \in DOMAIN down : down[k].url = down[l].url => k = l
  BY DescendingProperties
<1>6. /\ I \in SUBSET (DOMAIN down)
      /\ \A i \in DOMAIN down : i \in I <=> down[i].url \notin Range(first)
  OBVIOUS
<1> HIDE DEF I, first, down, winner
<1>7. /\ rest \in Seq(Media)
      /\ Range(rest) = {down[i] : i \in I}
      /\ \A k, l \in DOMAIN rest : k < l =>
            \E i, j \in I : i < j /\ rest[k] = down[i] /\ rest[l] = down[j]
  BY <1>5, <1>6, KeepProperties
<1> HIDE DEF rest
<1>8. /\ Len(rest) \in Nat /\ DOMAIN rest = 1..Len(rest)
      /\ \A k \in DOMAIN rest : rest[k] \in Media /\ rest[k] \in Range(rest)
  BY <1>7 DEF Range
<1>9. \A k \in DOMAIN rest : rest[k].url \in LinkType
  BY <1>8 DEF Media, EntryType
<1>10. urls \in Seq(LinkType) /\ DOMAIN urls = DOMAIN rest /\ Len(urls) = Len(rest)
       /\ \A k \in DOMAIN rest : urls[k] = rest[k].url
  BY <1>8, <1>9
<1> HIDE DEF urls
<1>11. \A k, l \in DOMAIN rest : k < l => urls[k] # urls[l]
  <2> TAKE k \in DOMAIN rest
  <2> TAKE l \in DOMAIN rest
  <2> HAVE k < l
  <2>1. PICK i \in I, j \in I : i < j /\ rest[k] = down[i] /\ rest[l] = down[j]
    BY <1>7
  <2>2. i # j /\ i \in DOMAIN down /\ j \in DOMAIN down
    BY <1>5, <1>6, <2>1
  <2>3. down[i].url # down[j].url
    BY <1>5, <2>2
  <2> QED
    BY <1>10, <2>1, <2>3
<1>12. \A k \in DOMAIN rest : urls[k] \notin Range(first)
  <2> TAKE k \in DOMAIN rest
  <2>1. PICK i \in I : rest[k] = down[i]
    BY <1>7, <1>8
  <2> QED
    BY <1>6, <1>10, <2>1
<1>13. /\ chain \in Seq(LinkType) /\ Len(chain) = Len(first) + Len(urls)
       /\ \A k \in 1..Len(chain) : chain[k] = IF k =< Len(first) THEN first[k] ELSE urls[k - Len(first)]
  <2>1. first \in Seq(LinkType) /\ urls \in Seq(LinkType)
    BY <1>4, <1>10
  <2>2. /\ first \o urls \in Seq(LinkType)
        /\ Len(first \o urls) = Len(first) + Len(urls)
        /\ \A k \in 1..(Len(first) + Len(urls)) :
              (first \o urls)[k] = IF k =< Len(first) THEN first[k] ELSE urls[k - Len(first)]
    BY <2>1, ConcatProperties, Zenon
  <2> QED
    BY <2>2
<1>14. Len(first) \in Nat /\ DOMAIN first = 1..Len(first) /\ Len(first) > 0
       /\ Len(urls) \in Nat /\ DOMAIN urls = 1..Len(urls)
       /\ DOMAIN chain = 1..Len(chain)
  <2>1. Len(first) \in Nat /\ DOMAIN first = 1..Len(first) /\ Len(first) > 0
    BY <1>4, EmptySeq
  <2> QED
    BY <1>10, <1>13, <2>1
<1> HIDE DEF chain
<1>15. chain # <<>>
  BY <1>13, <1>14, EmptySeq
<1>16. ASSUME NEW k \in DOMAIN chain, NEW l \in DOMAIN chain, k < l PROVE chain[k] # chain[l]
  <2>0. k \in Int /\ l \in Int /\ k \in 1..Len(chain) /\ l \in 1..Len(chain)
    BY <1>13, <1>14
  <2>1. CASE l =< Len(first)
    <3>1. k \in DOMAIN first /\ l \in DOMAIN first /\ chain[k] = first[k] /\ chain[l] = first[l]
      BY <1>13, <1>14, <1>16, <2>0, <2>1
    <3> QED
      BY <1>4, <1>16, <2>0, <3>1 DEF Distinct
  <2>2. CASE k =< Len(first) /\ ~(l =< Len(first))
    <3>1. k \in DOMAIN first /\ chain[k] = first[k]
      BY <1>13, <1>14, <2>0, <2>2
    <3>2. l - Len(first) \in DOMAIN urls /\ chain[l] = urls[l - Len(first)]
      BY <1>13, <1>14, <2>0, <2>2
    <3>3. chain[k] \in Range(first)
      BY <3>1 DEF Range
    <3> QED
      BY <1>10, <1>12, <3>2, <3>3
  <2>3. CASE ~(k =< Len(first))
    <3>1. k - Len(first) \in DOMAIN urls /\ chain[k] = urls[k - Len(first)]
      BY <1>13, <1>14, <2>0, <2>3
    <3>2. l - Len(first) \in DOMAIN urls /\ chain[l] = urls[l - Len(first)]
      BY <1>13, <1>14, <1>16, <2>0, <2>3
    <3>3. k - Len(first) < l - Len(first)
      BY <1>14, <1>16, <2>0
    <3> QED
      BY <1>10, <1>11, <3>1, <3>2, <3>3
  <2> QED
    BY <2>1, <2>2, <2>3
<1>17. Distinct(chain)
  <2>1. \A k \in DOMAIN chain : k \in Int
    BY <1>14
  <2> QED
    BY <1>16, <2>1 DEF Distinct
<1>18. ASSUME NEW m \in Range(pool) PROVE m.url \in Range(chain)
  <2>1. PICK i \in DOMAIN down : m = down[i]
    BY <1>5, <1>18 DEF Range
  <2>2. CASE m.url \in Range(first)
    <3>1. PICK k \in DOMAIN first : first[k] = m.url
      BY <2>2 DEF Range
    <3>2. k \in DOMAIN chain /\ chain[k] = m.url
      BY <1>13, <1>14, <3>1
    <3> QED
      BY <3>2 DEF Range
  <2>3. CASE m.url \notin Range(first)
    <3>1. i \in I
      BY <1>6, <2>1, <2>3
    <3>2. m \in Range(rest)
      BY <1>7, <2>1, <3>1
    <3>3. PICK k \in DOMAIN rest : rest[k] = m
      BY <3>2 DEF Range
    <3>4. k \in 1..Len(urls) /\ urls[k] = m.url
      BY <1>8, <1>10, <3>3
    <3>5. k + Len(first) \in 1..Len(chain) /\ ~(k + Len(first) =< Len(first))
          /\ (k + Len(first)) - Len(first) = k
      BY <1>13, <1>14, <3>4
    <3>6. chain[k + Len(first)] = m.url
      BY <1>13, <3>4, <3>5
    <3> QED
      BY <1>14, <3>5, <3>6 DEF Range
  <2> QED
    BY <2>2, <2>3
<1>19. ASSUME NEW k \in DOMAIN chain PROVE ~Playlist(chain[k])
  <2>0. k \in Int /\ k \in 1..Len(chain)
    BY <1>13, <1>14
  <2>1. CASE k =< Len(first)
    <3>1. k \in DOMAIN first /\ chain[k] = first[k]
      BY <1>13, <1>14, <2>0, <2>1
    <3>2. chain[k] \in Range(first)
      BY <3>1 DEF Range
    <3> QED
      BY <1>4, <3>2
  <2>2. CASE ~(k =< Len(first))
    <3>1. k - Len(first) \in DOMAIN rest /\ chain[k] = rest[k - Len(first)].url
      BY <1>10, <1>13, <1>14, <2>0, <2>2
    <3>2. rest[k - Len(first)] \in Range(rest)
      BY <1>8, <3>1
    <3>3. PICK i \in I : rest[k - Len(first)] = down[i]
      BY <1>7, <3>2
    <3>4. rest[k - Len(first)] \in Range(down)
      BY <1>6, <3>3 DEF Range
    <3> QED
      BY <1>5, <3>1, <3>4
  <2> QED
    BY <2>1, <2>2
<1>20. File(winner.kind, chain) \in FileType /\ File(winner.kind, chain).chain = chain
  BY <1>3, <1>13, <1>15, FileTyped
<1> QED
  BY <1>1, <1>15, <1>17, <1>18, <1>19, <1>20

(* A list of one, and of files, for the plans. *)
LEMMA CoverPlanned ==
    ASSUME NEW res \in Seq(Media), PlanCover(res).ok
    PROVE  \E chain \in Seq(LinkType) :
              chain # <<>> /\ PlanCover(res).files = <<File("cover", chain)>>
<1> DEFINE I == {i \in DOMAIN res : Moving(res[i]) /\ res[i].cover # NoLink}
           covers == Keep(res, I)
<1>1. PlanCover(res) = IF covers = <<>> THEN NoPlan
                       ELSE Plan(<<File("cover", <<covers[1].cover>>)>>)
  BY DEF PlanCover, Only
<1>2. I \in SUBSET (DOMAIN res) /\ \A i \in I : res[i].cover # NoLink
  OBVIOUS
<1> HIDE DEF I
<1>3. covers \in Seq(Media) /\ Range(covers) = {res[i] : i \in I}
  BY <1>2, KeepProperties
<1> HIDE DEF covers
<1>4. covers # <<>> /\ PlanCover(res).files = <<File("cover", <<covers[1].cover>>)>>
  BY <1>1 DEF NoPlan, Plan
<1>5. 1 \in DOMAIN covers /\ covers[1] \in Media
  <2>1. 1 \in 1..Len(covers)
    BY <1>3, <1>4, EmptySeq
  <2> QED
    BY <1>3, <2>1, ElementOfSeq
<1>6. covers[1] \in Range(covers)
  BY <1>5 DEF Range
<1>7. covers[1].cover # NoLink /\ covers[1].cover \in LinkOrNone
  BY <1>2, <1>3, <1>5, <1>6 DEF Media, EntryType
<1>8. covers[1].cover \in LinkType
  BY <1>7, LinkFacts
<1>9. <<covers[1].cover>> \in Seq(LinkType) /\ <<covers[1].cover>> # <<>>
  BY <1>8
<1> QED
  BY <1>4, <1>9

(* Every picture becomes a file of its own.                                *)
LEMMA ImagesPlanned ==
    ASSUME NEW res \in Seq(Media)
    PROVE  /\ PlanImages(res) \in Seq(FileType)
           /\ \A i \in DOMAIN PlanImages(res) :
                 PlanImages(res)[i].kind = "image" /\ PlanImages(res)[i].chain # <<>>
<1> DEFINE I == {i \in DOMAIN res : ~Moving(res[i])}
           images == Keep(res, I)
           chain(m) == FallbackChain(m.url, m.fallback)
<1>1. PlanImages(res) = [i \in DOMAIN images |-> File("image", chain(images[i]))]
  BY DEF PlanImages, Only
<1>2. I \in SUBSET (DOMAIN res)
  OBVIOUS
<1> HIDE DEF I
<1>3. images \in Seq(Media)
  BY <1>2, KeepProperties
<1> HIDE DEF images
<1>4. \A m \in Media : chain(m) \in Seq(LinkType) /\ chain(m) # <<>>
  <2> TAKE m \in Media
  <2>1. m.url \in LinkType /\ m.fallback \in LinkOrNone
    BY DEF Media, EntryType
  <2> QED
    BY <2>1, FallbackChainTyped
<1> HIDE DEF chain
<1>5. \A m \in Media : /\ File("image", chain(m)) \in FileType
                       /\ File("image", chain(m)).kind = "image"
                       /\ File("image", chain(m)).chain # <<>>
  BY <1>4, FileTyped DEF Kinds
<1>6. /\ Len(images) \in Nat /\ DOMAIN images = 1..Len(images)
      /\ \A i \in DOMAIN images : images[i] \in Media
  BY <1>3
<1>7. /\ DOMAIN PlanImages(res) = DOMAIN images
      /\ \A i \in DOMAIN images : PlanImages(res)[i] = File("image", chain(images[i]))
  BY <1>1
<1>8. PlanImages(res) \in Seq(FileType)
  BY <1>1, <1>5, <1>6
<1> QED
  BY <1>5, <1>6, <1>7, <1>8

(* What a kind leaves of the entries. *)
Chosen(res, kind) == IF kind = "any" THEN res ELSE Only(res, LAMBDA m : m.kind = kind)

(* It keeps those of that kind, and no others.                             *)
LEMMA ChosenProperties ==
    ASSUME NEW res \in Seq(Media), NEW kind
    PROVE  /\ Chosen(res, kind) \in Seq(Media)
           /\ \A m \in Range(res) : kind \in {"any", m.kind} => m \in Range(Chosen(res, kind))
<1> DEFINE I == {i \in DOMAIN res : res[i].kind = kind}
           some == Keep(res, I)
<1>1. Only(res, LAMBDA m : m.kind = kind) = some
  BY DEF Only
<1>2. I \in SUBSET (DOMAIN res) /\ \A i \in DOMAIN res : res[i].kind = kind => i \in I
  OBVIOUS
<1> HIDE DEF I
<1>3. some \in Seq(Media) /\ Range(some) = {res[i] : i \in I}
  BY <1>2, KeepProperties
<1> HIDE DEF some
<1>4. \A m \in Range(res) : m.kind = kind => m \in Range(some)
  BY <1>2, <1>3 DEF Range
<1> QED
  BY <1>1, <1>3, <1>4 DEF Chosen

(* Every plan is a list of files with links to try.  A video is one file   *)
(* whose chain holds every link that leads to it, each once.               *)
LEMMA PlanProperties ==
    ASSUME NEW res \in Seq(Media), NEW q \in Qualities, NEW kind,
           PlanDownload(res, q, kind).ok
    PROVE  LET files == PlanDownload(res, q, kind).files
           IN  /\ files \in Seq(FileType)
               /\ \A i \in DOMAIN files : files[i].chain # <<>>
               /\ \A i \in DOMAIN files : files[i].kind \in {"video", "gif"} =>
                     /\ Distinct(files[i].chain)
                     /\ \A k \in DOMAIN files[i].chain : ~Playlist(files[i].chain[k])
                     /\ \A m \in Range(res) : \A link \in LinkType :
                           Moving(m) /\ kind \in {"any", m.kind} /\ Leads(m, link)
                              => link \in Range(files[i].chain)
<1> DEFINE plan == PlanDownload(res, q, kind)
           left == Chosen(res, kind)
           pool == VideoPool(left)
           Good(files) ==
              /\ files \in Seq(FileType)
              /\ \A i \in DOMAIN files : files[i].chain # <<>>
              /\ \A i \in DOMAIN files : files[i].kind \in {"video", "gif"} =>
                     /\ Distinct(files[i].chain)
                     /\ \A k \in DOMAIN files[i].chain : ~Playlist(files[i].chain[k])
                     /\ \A m \in Range(res) : \A link \in LinkType :
                           Moving(m) /\ kind \in {"any", m.kind} /\ Leads(m, link)
                              => link \in Range(files[i].chain)
<1>1. plan = IF res = <<>> THEN NoPlan
             ELSE IF kind = "cover" THEN PlanCover(res)
             ELSE IF pool # <<>> THEN Plan(<<PlanConverged(pool, q)>>)
             ELSE IF \E i \in DOMAIN left : Moving(left[i]) THEN NoPlan
             ELSE Plan(PlanImages(left))
  BY DEF PlanDownload, Chosen
<1> HIDE DEF plan, left, pool
<1>2. /\ left \in Seq(Media)
      /\ \A m \in Range(res) : kind \in {"any", m.kind} => m \in Range(left)
  BY ChosenProperties DEF left
<1>3. ~NoPlan.ok /\ \A files : Plan(files).files = files
  BY DEF NoPlan, Plan
<1>4. plan.ok
  BY DEF plan
<1>5. ASSUME NEW file \in FileType, file.chain # <<>>,
             file.kind \in {"video", "gif"} =>
                /\ Distinct(file.chain)
                /\ \A k \in DOMAIN file.chain : ~Playlist(file.chain[k])
                /\ \A m \in Range(res) : \A link \in LinkType :
                      Moving(m) /\ kind \in {"any", m.kind} /\ Leads(m, link)
                         => link \in Range(file.chain)
      PROVE  Good(<<file>>)
  <2>1. <<file>> \in Seq(FileType)
    <3> HIDE DEF Good
    <3> QED
      OBVIOUS
  <2>2. DOMAIN <<file>> = {1} /\ <<file>>[1] = file
    OBVIOUS
  <2> QED
    BY <1>5, <2>1, <2>2
<1> HIDE DEF Good
<1>6. ASSUME plan = PlanCover(res) PROVE Good(plan.files)
  <2>1. PICK chain \in Seq(LinkType) : chain # <<>> /\ plan.files = <<File("cover", chain)>>
    BY <1>4, <1>6, CoverPlanned
  <2>2. File("cover", chain) \in FileType /\ File("cover", chain).kind = "cover"
        /\ File("cover", chain).chain = chain
    BY <2>1, FileTyped
  <2> QED
    BY <1>5, <2>1, <2>2
<1>7. ASSUME pool # <<>> /\ plan = Plan(<<PlanConverged(pool, q)>>) PROVE Good(plan.files)
  <2>1. /\ pool \in Seq(Media)
        /\ \A i, j \in DOMAIN pool : pool[i].url = pool[j].url => i = j
        /\ \A m \in Range(left) : \A link \in LinkType :
                 Moving(m) /\ Leads(m, link) => \E d \in Range(pool) : d.url = link
        /\ \A d \in Range(pool) : ~Playlist(d.url)
    BY <1>2, VideoPoolProperties DEF pool
  <2> DEFINE file == PlanConverged(pool, q)
  <2>2. /\ file \in FileType /\ file.chain # <<>> /\ Distinct(file.chain)
        /\ \A k \in DOMAIN file.chain : ~Playlist(file.chain[k])
        /\ \A m \in Range(pool) : m.url \in Range(file.chain)
    BY <1>7, <2>1, ConvergedProperties
  <2> HIDE DEF file
  <2>3. \A m \in Range(res) : \A link \in LinkType :
           Moving(m) /\ kind \in {"any", m.kind} /\ Leads(m, link) => link \in Range(file.chain)
    BY <1>2, <2>1, <2>2
  <2>4. Good(<<file>>)
    BY <1>5, <2>2, <2>3
  <2> QED
    BY <1>3, <1>7, <2>4 DEF file
<1>8. ASSUME plan = Plan(PlanImages(left)) PROVE Good(plan.files)
  <2>1. /\ PlanImages(left) \in Seq(FileType)
        /\ \A i \in DOMAIN PlanImages(left) :
                 PlanImages(left)[i].kind = "image" /\ PlanImages(left)[i].chain # <<>>
    BY <1>2, ImagesPlanned
  <2>2. Good(PlanImages(left))
    BY <2>1 DEF Good
  <2> QED
    BY <1>3, <1>8, <2>2
<1>9. Good(plan.files)
  BY <1>1, <1>3, <1>4, <1>6, <1>7, <1>8
<1> QED
  BY <1>9 DEF Good, plan

-----------------------------------------------------------------------------
(* The references that failed are few enough to be counted.                *)
LEMMA FailedFinite ==
    ASSUME NEW n \in Nat, NEW d, NEW w, NEW r, Ledger(n, d, w, r)
    PROVE  /\ IsFiniteSet(Failed(r)) /\ Failed(r) \subseteq 1..n
           /\ Cardinality(Failed(r)) \in Nat
           /\ Cardinality(Failed(r)) = 0 => r = {}
<1>1. \A x \in r : x[1] \in 1..n
  BY DEF Ledger
<1>2. Failed(r) \subseteq 1..n
  BY <1>1 DEF Failed
<1>3. IsFiniteSet(1..n)
  BY FS_Interval
<1>4. IsFiniteSet(Failed(r))
  BY <1>2, <1>3, FS_Subset
<1>5. Failed(r) = {} => r = {}
  BY DEF Failed
<1> QED
  BY <1>2, <1>4, <1>5, FS_CardinalityType, FS_EmptySet

(* A set with one element more, if so. *)
Plus(s, x, so) == IF so THEN s \cup {x} ELSE s

(* One reference more that failed, or none.                                *)
LEMMA FailedGrows ==
    ASSUME NEW r, IsFiniteSet(Failed(r)), NEW i, NEW x, x[1] = i,
           NEW so \in BOOLEAN, NEW more, more = Plus(r, x, so)
    PROVE  /\ Failed(more) \ {i} = Failed(r) \ {i}
           /\ i \in Failed(more) <=> so \/ i \in Failed(r)
           /\ i \in Failed(more) => Cardinality(Failed(more)) = Cardinality(Failed(r) \ {i}) + 1
           /\ i \notin Failed(more) => Cardinality(Failed(more)) = Cardinality(Failed(r) \ {i})
<1> DEFINE S == Failed(r)
<1>1. Failed(more) = IF so THEN S \cup {i} ELSE S
  <2>1. CASE so
    <3>1. more = r \cup {x}
      BY <2>1 DEF Plus
    <3>2. \A a : a \in Failed(more) <=> a \in Failed(r) \/ a = i
      BY <3>1 DEF Failed
    <3> QED
      BY <2>1, <3>2
  <2>2. CASE ~so
    BY <2>2 DEF Plus
  <2> QED
    BY <2>1, <2>2
<1>2. IsFiniteSet(S) /\ IsFiniteSet(S \ {i})
  <2>1. IsFiniteSet(S)
    OBVIOUS
  <2> HIDE DEF S
  <2> QED
    BY <2>1, FS_Subset
<1> HIDE DEF S
<1>3. (S \cup {i}) \ {i} = S \ {i} /\ (S \ {i}) \cup {i} = S \cup {i} /\ i \notin S \ {i}
  OBVIOUS
<1>4. Cardinality(S \cup {i}) = Cardinality(S \ {i}) + 1
  BY <1>2, <1>3, FS_AddElement
<1>5. i \in S => S \cup {i} = S
  OBVIOUS
<1>6. i \notin S => S \ {i} = S
  OBVIOUS
<1>7. i \in S \cup {i}
  OBVIOUS
<1>8. CASE so
  BY <1>1, <1>3, <1>4, <1>7, <1>8 DEF S
<1>9. CASE ~so
  BY <1>1, <1>4, <1>5, <1>6, <1>9 DEF S
<1> QED
  BY <1>8, <1>9

(* The account of a batch at its beginning, and between two references.    *)
LEMMA AccountOpens ==
    ASSUME NEW p, NEW n \in Nat, NEW w, NEW r, Ledger(n, {}, w, r), NEW t, IsTask(t),
           t.pc = "start", Account(n, {}, w, r, t)
    PROVE  LET d == {<<i, 0>> : i \in 1..n}
           IN  Ledger(n, d, w, r) /\ Account(n, d, w, r, [t EXCEPT !.pc = "ref"])
<1> DEFINE d == {<<i, 0>> : i \in 1..n}
           u == [t EXCEPT !.pc = "ref"]
<1>1. w = {} /\ r = {}
  BY DEF Ledger
<1>2. /\ u.pc = "ref" /\ u.ref = t.ref /\ u.file = t.file /\ u.next = t.next
      /\ u.strategy = t.strategy
      /\ u.failed = t.failed /\ u.refFailed = t.refFailed
  BY DEF IsTask
<1>3. Ledger(n, d, w, r)
  BY <1>1 DEF Ledger
<1>4. d \ (w \cup r) = {<<a, 0>> : a \in 1..n}
  BY <1>1
<1> HIDE DEF d, u
<1>5. Account(n, d, w, r, u)
  BY <1>1, <1>2, <1>4 DEF Account, FilePCs
<1> QED
  BY <1>3, <1>5 DEF d, u

(* An account stays in order while a batch goes on with what it is at.     *)
LEMMA AccountGoesOn ==
    ASSUME NEW n \in Nat, NEW d, NEW w, NEW r, Ledger(n, d, w, r), NEW t, IsTask(t),
           Account(n, d, w, r, t)
    PROVE  /\ t.pc = "ref" /\ t.ref > n => Account(n, d, w, r, [t EXCEPT !.pc = "print"])
           /\ t.pc = "ref" /\ ~(t.ref > n) => Account(n, d, w, r, [t EXCEPT !.pc = "resolve"])
           /\ t.pc = "resolve" => Account(n, d, w, r, [t EXCEPT !.strategy = @ + 1])
           /\ t.pc \in FilePCs =>
                 \A u : /\ u.pc \in FilePCs
                        /\ u.ref = t.ref /\ u.file = t.file /\ u.plan = t.plan
                        /\ u.failed = t.failed /\ u.refFailed = t.refFailed
                        => Account(n, d, w, r, u)
<1>1. ASSUME t.pc = "ref", t.ref > n PROVE Account(n, d, w, r, [t EXCEPT !.pc = "print"])
  <2> DEFINE u == [t EXCEPT !.pc = "print"]
  <2>1. u.pc = "print" /\ u.failed = t.failed
    BY DEF IsTask
  <2>2. t.failed = Cardinality(Failed(r)) /\ t.ref \in 1..(n + 1)
        /\ d \ (w \cup r) = {<<a, 0>> : a \in t.ref..n}
    BY <1>1 DEF Account
  <2>3. t.ref..n = {}
    BY <1>1, <2>2
  <2>4. d \ (w \cup r) = {}
    BY <2>2, <2>3
  <2> HIDE DEF u
  <2> QED
    BY <2>1, <2>2, <2>4 DEF Account, FilePCs, u
<1>2. ASSUME t.pc = "ref", ~(t.ref > n) PROVE Account(n, d, w, r, [t EXCEPT !.pc = "resolve"])
  <2> DEFINE u == [t EXCEPT !.pc = "resolve"]
  <2>1. /\ u.pc = "resolve" /\ u.ref = t.ref /\ u.file = t.file /\ u.next = t.next
        /\ u.strategy = t.strategy
        /\ u.failed = t.failed /\ u.refFailed = t.refFailed
    BY DEF IsTask
  <2>2. t.ref =< n
    BY <1>2 DEF Account
  <2> HIDE DEF u
  <2>3. Account(n, d, w, r, u)
    BY <1>2, <2>1, <2>2 DEF Account, FilePCs
  <2> QED
    BY <2>3 DEF u
<1>3. ASSUME t.pc = "resolve" PROVE Account(n, d, w, r, [t EXCEPT !.strategy = @ + 1])
  <2> DEFINE u == [t EXCEPT !.strategy = @ + 1]
  <2>1. /\ u.pc = t.pc /\ u.ref = t.ref /\ u.file = t.file /\ u.next = t.next
        /\ u.strategy = t.strategy + 1 /\ u.failed = t.failed /\ u.refFailed = t.refFailed
    BY DEF IsTask
  <2>3. t.strategy + 1 \in Nat \ {0}
    <3>1. t.strategy \in Nat \ {0}
      BY <1>3 DEF Account
    <3> QED
      BY <3>1
  <2> HIDE DEF u
  <2>2. Account(n, d, w, r, u)
    BY <1>3, <2>1, <2>3 DEF Account, FilePCs
  <2> QED
    BY <2>2 DEF u
<1>4. ASSUME t.pc \in FilePCs, NEW u, u.pc \in FilePCs,
             u.ref = t.ref, u.file = t.file, u.plan = t.plan,
             u.failed = t.failed, u.refFailed = t.refFailed
      PROVE  Account(n, d, w, r, u)
  BY <1>4 DEF Account, FilePCs
<1> QED
  BY <1>1, <1>2, <1>3, <1>4

(* What a task goes on with. *)
LEMMA NextFields ==
    ASSUME NEW p, NEW t, IsTask(t)
    PROVE  /\ NextRef(p, t).pc = "ref" /\ NextRef(p, t).ref = t.ref + 1
           /\ NextRef(p, t).strategy = 1 /\ NextRef(p, t).file = 1
           /\ NextRef(p, t).next = 1 /\ ~NextRef(p, t).refFailed
           /\ NextRef(p, t).failed = IF t.refFailed THEN t.failed + 1 ELSE t.failed
           /\ t.file < Len(t.plan) =>
                 /\ NextFile(p, t).pc = "target" /\ NextFile(p, t).ref = t.ref
                 /\ NextFile(p, t).file = t.file + 1 /\ NextFile(p, t).next = 1
                 /\ NextFile(p, t).plan = t.plan /\ NextFile(p, t).res = t.res
                 /\ NextFile(p, t).failed = t.failed /\ NextFile(p, t).refFailed = t.refFailed
           /\ ~(t.file < Len(t.plan)) => NextFile(p, t) = NextRef(p, t)
<1>1. /\ NextRef(p, t).pc = "ref" /\ NextRef(p, t).ref = t.ref + 1
      /\ NextRef(p, t).strategy = 1 /\ NextRef(p, t).file = 1
      /\ NextRef(p, t).next = 1 /\ ~NextRef(p, t).refFailed
      /\ NextRef(p, t).failed = IF t.refFailed THEN t.failed + 1 ELSE t.failed
  BY DEF NextRef, Idle
<1>2. t.file < Len(t.plan) =>
         /\ NextFile(p, t).pc = "target" /\ NextFile(p, t).ref = t.ref
         /\ NextFile(p, t).file = t.file + 1 /\ NextFile(p, t).next = 1
         /\ NextFile(p, t).plan = t.plan /\ NextFile(p, t).res = t.res
         /\ NextFile(p, t).failed = t.failed /\ NextFile(p, t).refFailed = t.refFailed
  BY DEF NextFile, IsTask
<1>3. ~(t.file < Len(t.plan)) => NextFile(p, t) = NextRef(p, t)
  BY DEF NextFile
<1> QED
  BY <1>1, <1>2, <1>3

(* A reference is settled: it has no media, or cannot be resolved.         *)
LEMMA AccountSettlesRef ==
    ASSUME NEW p, NEW n \in Nat, NEW d, NEW w, NEW r, Ledger(n, d, w, r), NEW t, IsTask(t),
           t.pc = "resolve", Account(n, d, w, r, t),
           NEW bad \in BOOLEAN, NEW u, u = (IF bad THEN Failing(t) ELSE t),
           NEW ww, ww = Plus(w, <<t.ref, 0>>, ~bad),
           NEW rr, rr = Plus(r, <<t.ref, 0>>, bad)
    PROVE  Ledger(n, d, ww, rr) /\ Account(n, d, ww, rr, NextRef(p, u))
<1> DEFINE x == <<t.ref, 0>>
           open == d \ (w \cup r)
           v == NextRef(p, u)
<1>1. /\ t.ref \in 1..n /\ t.ref \in Int /\ t.ref + 1 \in 1..(n + 1)
      /\ open = {<<a, 0>> : a \in t.ref..n}
      /\ t.failed = Cardinality(Failed(r)) /\ ~t.refFailed
      /\ \A y \in w \cup r : y[1] < t.ref
  BY DEF Account
<1>2. x \in open
  <2>1. t.ref \in t.ref..n
    BY <1>1
  <2> QED
    BY <1>1, <2>1
<1>3. ww \cup rr = (w \cup r) \cup {x}
  <2> HIDE DEF x
  <2>1. CASE bad
    BY <2>1 DEF x, Plus
  <2>2. CASE ~bad
    BY <2>2 DEF x, Plus
  <2> QED
    BY <2>1, <2>2
<1>4. Ledger(n, d, ww, rr)
  <2> HIDE DEF x
  <2>1. CASE bad
    <3>1. ww = w /\ rr = r \cup {x}
      BY <2>1 DEF x, Plus
    <3> QED
      BY <1>2, <3>1 DEF Ledger
  <2>2. CASE ~bad
    <3>1. ww = w \cup {x} /\ rr = r
      BY <2>2 DEF x, Plus
    <3> QED
      BY <1>2, <3>1 DEF Ledger
  <2> QED
    BY <2>1, <2>2
<1>5. open \ {x} = {<<a, 0>> : a \in (t.ref + 1)..n}
  <2>1. \A a : a \in (t.ref + 1)..n <=> a \in t.ref..n /\ a # t.ref
    BY <1>1
  <2> QED
    BY <1>1, <2>1
<1>6. \A y \in w \cup r : y[1] \in 1..n /\ y[1] < t.ref /\ y[1] # t.ref
  <2>1. \A y \in w \cup r : y[1] \in 1..n
    BY DEF Ledger
  <2> QED
    BY <1>1, <2>1
<1>7. \A y \in ww \cup rr : y[1] < t.ref + 1
  <2>1. x[1] < t.ref + 1
    BY <1>1
  <2> HIDE DEF x
  <2> QED
    BY <1>1, <1>3, <1>6, <2>1
<1>8. Failed(r) \ {t.ref} = Failed(r) /\ t.ref \notin Failed(r)
  BY <1>6 DEF Failed
<1>9. /\ t.ref \in Failed(rr) <=> bad
      /\ t.ref \in Failed(rr) => Cardinality(Failed(rr)) = Cardinality(Failed(r)) + 1
      /\ t.ref \notin Failed(rr) => Cardinality(Failed(rr)) = Cardinality(Failed(r))
  <2>0. IsFiniteSet(Failed(r))
    BY FailedFinite
  <2>1. x[1] = t.ref /\ rr = Plus(r, x, bad)
    OBVIOUS
  <2> HIDE DEF x
  <2>2. /\ t.ref \in Failed(rr) <=> bad \/ t.ref \in Failed(r)
        /\ t.ref \in Failed(rr) => Cardinality(Failed(rr)) = Cardinality(Failed(r) \ {t.ref}) + 1
        /\ t.ref \notin Failed(rr) => Cardinality(Failed(rr)) = Cardinality(Failed(r) \ {t.ref})
    BY <2>0, <2>1, FailedGrows
  <2> QED
    BY <1>8, <2>2
<1>10. IsTask(u) /\ u.ref = t.ref /\ u.failed = t.failed /\ (u.refFailed <=> bad)
  BY <1>1 DEF Failing, IsTask
<1>11. d \ (ww \cup rr) = open \ {x}
  <2> HIDE DEF x
  <2> QED
    BY <1>3
<1> HIDE DEF x, open
<1>12. /\ v.pc = "ref" /\ v.ref = t.ref + 1 /\ v.strategy = 1
       /\ v.file = 1 /\ v.next = 1 /\ ~v.refFailed
       /\ v.failed = IF bad THEN t.failed + 1 ELSE t.failed
  BY <1>10, NextFields
<1> HIDE DEF v
<1>13. d \ (ww \cup rr) = {<<a, 0>> : a \in v.ref..n}
  BY <1>5, <1>11, <1>12
<1>14. v.failed = Cardinality(Failed(rr)) /\ v.ref \in 1..(n + 1)
  BY <1>1, <1>9, <1>12
<1>15. \A y \in ww \cup rr : y[1] < v.ref
  BY <1>7, <1>12
<1>16. Account(n, d, ww, rr, v)
  BY <1>12, <1>13, <1>14, <1>15 DEF Account, FilePCs
<1> QED
  BY <1>4, <1>16 DEF v

(* A reference is done with a plan of m files: they are what is open next. *)
LEMMA AccountPlans ==
    ASSUME NEW n \in Nat, NEW d, NEW w, NEW r, Ledger(n, d, w, r), NEW t, IsTask(t),
           t.pc = "resolve", Account(n, d, w, r, t),
           NEW m \in Nat, NEW u,
           u.pc = "target", u.ref = t.ref, u.file = t.file, u.failed = t.failed,
           u.refFailed = t.refFailed, Len(u.plan) = m,
           NEW dd, dd = d \cup {<<t.ref, k>> : k \in 1..m}
    PROVE  /\ Ledger(n, dd, w \cup {<<t.ref, 0>>}, r)
           /\ Account(n, dd, w \cup {<<t.ref, 0>>}, r, u)
<1> DEFINE x == <<t.ref, 0>>
           ww == w \cup {x}
           files == {<<t.ref, k>> : k \in 1..m}
           open == d \ (w \cup r)
<1>1. /\ t.ref \in 1..n /\ t.ref \in Int /\ t.file = 1
      /\ open = {<<a, 0>> : a \in t.ref..n}
      /\ t.failed = Cardinality(Failed(r)) /\ ~t.refFailed
      /\ \A y \in w \cup r : y[1] < t.ref
  BY DEF Account
<1>2. x \in open
  <2>1. t.ref \in t.ref..n
    BY <1>1
  <2> QED
    BY <1>1, <2>1
<1>3. files \subseteq (1..n) \X Nat /\ \A y \in files : y[1] = t.ref /\ y[2] # 0
  BY <1>1
<1>4. Ledger(n, dd, ww, r)
  <2>1. dd \subseteq (1..n) \X Nat
    BY <1>3 DEF Ledger
  <2>2. ww \cup r \subseteq dd /\ ww \cap r = {}
    <3> HIDE DEF files, x
    <3>1. dd = d \cup files /\ x \in d /\ x \notin r
      BY <1>2 DEF files
    <3> QED
      BY <3>1 DEF Ledger
  <2> QED
    BY <2>1, <2>2 DEF Ledger
<1>5. open \ {x} = {<<a, 0>> : a \in (t.ref + 1)..n}
  <2>1. \A a : a \in (t.ref + 1)..n <=> a \in t.ref..n /\ a # t.ref
    BY <1>1
  <2> QED
    BY <1>1, <2>1
<1>6. \A y \in w \cup r : y[1] \in 1..n /\ y[1] < t.ref /\ y[1] # t.ref
  <2>1. \A y \in w \cup r : y[1] \in 1..n
    BY DEF Ledger
  <2> QED
    BY <1>1, <2>1
<1>7. files \cap (ww \cup r) = {}
  <2>1. x \notin files
    BY <1>3
  <2> HIDE DEF files, x
  <2> QED
    BY <1>3, <1>6, <2>1
<1>8. dd \ (ww \cup r) = {<<a, 0>> : a \in (t.ref + 1)..n} \cup files
  <2> HIDE DEF files, x
  <2>1. dd = d \cup files
    BY DEF files
  <2>2. dd \ (ww \cup r) = (open \ {x}) \cup files
    BY <1>7, <2>1
  <2> QED
    BY <1>5, <2>2
<1>9. \A y \in ww \cup r : y[1] < u.ref + 1
  <2>1. x[1] < t.ref + 1
    BY <1>1
  <2> HIDE DEF x
  <2> QED
    BY <1>1, <1>6, <2>1
<1>10. t.ref \notin Failed(r)
  BY <1>6 DEF Failed
<1>11. Failed(r) \ {t.ref} = Failed(r)
  BY <1>10
<1>12. 1..m = u.file..Len(u.plan)
  BY <1>1
<1> HIDE DEF x, open, ww
<1>13. dd \ (ww \cup r) = {<<a, 0>> : a \in (u.ref + 1)..n} \cup {<<u.ref, k>> : k \in u.file..Len(u.plan)}
  BY <1>8, <1>12
<1> HIDE DEF files
<1>14. Account(n, dd, ww, r, u)
  BY <1>1, <1>9, <1>10, <1>11, <1>13 DEF Account, FilePCs
<1> QED
  BY <1>4, <1>14 DEF ww, x

(* A file is settled, one way or the other, and the next of its reference  *)
(* or the next reference comes.                                            *)
LEMMA AccountSettlesFile ==
    ASSUME NEW p, NEW n \in Nat, NEW d, NEW w, NEW r, Ledger(n, d, w, r), NEW t, IsTask(t),
           t.pc \in FilePCs, Account(n, d, w, r, t),
           Len(t.plan) \in Nat, t.file \in 1..Len(t.plan),
           NEW bad \in BOOLEAN, NEW u, u = (IF bad THEN Failing(t) ELSE t),
           NEW ww, ww = Plus(w, <<t.ref, t.file>>, ~bad),
           NEW rr, rr = Plus(r, <<t.ref, t.file>>, bad)
    PROVE  Ledger(n, d, ww, rr) /\ Account(n, d, ww, rr, NextFile(p, u))
<1> DEFINE x == <<t.ref, t.file>>
           open == d \ (w \cup r)
           later == {<<a, 0>> : a \in (t.ref + 1)..n}
           v == NextFile(p, u)
<1>1. /\ t.ref \in 1..n /\ t.ref \in Int /\ t.ref + 1 \in 1..(n + 1) /\ t.file \in Int
      /\ open = later \cup {<<t.ref, k>> : k \in t.file..Len(t.plan)}
      /\ t.failed = Cardinality(Failed(r) \ {t.ref})
      /\ t.refFailed <=> t.ref \in Failed(r)
      /\ \A y \in w \cup r : y[1] < t.ref + 1
  BY DEF Account
<1>2. x \in open
  <2>1. t.file \in t.file..Len(t.plan)
    BY <1>1
  <2> QED
    BY <1>1, <2>1
<1>3. ww \cup rr = (w \cup r) \cup {x}
  <2> HIDE DEF x
  <2>1. CASE bad
    BY <2>1 DEF x, Plus
  <2>2. CASE ~bad
    BY <2>2 DEF x, Plus
  <2> QED
    BY <2>1, <2>2
<1>4. Ledger(n, d, ww, rr)
  <2> HIDE DEF x
  <2>1. CASE bad
    <3>1. ww = w /\ rr = r \cup {x}
      BY <2>1 DEF x, Plus
    <3> QED
      BY <1>2, <3>1 DEF Ledger
  <2>2. CASE ~bad
    <3>1. ww = w \cup {x} /\ rr = r
      BY <2>2 DEF x, Plus
    <3> QED
      BY <1>2, <3>1 DEF Ledger
  <2> QED
    BY <2>1, <2>2
<1>5. open \ {x} = later \cup {<<t.ref, k>> : k \in (t.file + 1)..Len(t.plan)}
  <2>1. \A k : k \in (t.file + 1)..Len(t.plan) <=> k \in t.file..Len(t.plan) /\ k # t.file
    BY <1>1
  <2>2. {<<t.ref, k>> : k \in (t.file + 1)..Len(t.plan)} = {<<t.ref, k>> : k \in t.file..Len(t.plan)} \ {x}
    BY <2>1
  <2>3. x \notin later
    BY <1>1
  <2> HIDE DEF x, later, open
  <2> QED
    BY <1>1, <2>2, <2>3
<1>6. d \ (ww \cup rr) = open \ {x}
  <2> HIDE DEF x
  <2> QED
    BY <1>3
<1>7. \A y \in ww \cup rr : y[1] < t.ref + 1
  <2>1. x[1] < t.ref + 1
    BY <1>1
  <2> HIDE DEF x
  <2> QED
    BY <1>1, <1>3, <2>1
<1>8. /\ Failed(rr) \ {t.ref} = Failed(r) \ {t.ref}
      /\ u.refFailed <=> t.ref \in Failed(rr)
      /\ t.ref \in Failed(rr) => Cardinality(Failed(rr)) = Cardinality(Failed(r) \ {t.ref}) + 1
      /\ t.ref \notin Failed(rr) => Cardinality(Failed(rr)) = Cardinality(Failed(r) \ {t.ref})
  <2>1. x[1] = t.ref /\ rr = Plus(r, x, bad)
    OBVIOUS
  <2>0. IsFiniteSet(Failed(r))
    BY FailedFinite
  <2> HIDE DEF x
  <2>2. /\ Failed(rr) \ {t.ref} = Failed(r) \ {t.ref}
        /\ t.ref \in Failed(rr) <=> bad \/ t.ref \in Failed(r)
        /\ t.ref \in Failed(rr) => Cardinality(Failed(rr)) = Cardinality(Failed(r) \ {t.ref}) + 1
        /\ t.ref \notin Failed(rr) => Cardinality(Failed(rr)) = Cardinality(Failed(r) \ {t.ref})
    BY <2>0, <2>1, FailedGrows
  <2>3. u.refFailed <=> bad \/ t.refFailed
    BY DEF Failing, IsTask
  <2> QED
    BY <1>1, <2>2, <2>3
<1>9. /\ u.ref = t.ref /\ u.file = t.file /\ u.plan = t.plan /\ u.failed = t.failed
      /\ IsTask(u)
  BY DEF Failing, IsTask
<1> HIDE DEF x, open
<1>10. CASE t.file < Len(t.plan)
  <2>2. /\ v.pc = "target" /\ v.ref = t.ref /\ v.file = t.file + 1 /\ v.plan = t.plan
        /\ v.failed = t.failed /\ v.refFailed = u.refFailed
    BY <1>9, <1>10, NextFields
  <2> HIDE DEF v, later
  <2>3. d \ (ww \cup rr) = {<<a, 0>> : a \in (v.ref + 1)..n} \cup {<<v.ref, k>> : k \in v.file..Len(v.plan)}
    BY <1>5, <1>6, <2>2 DEF later
  <2>4. Account(n, d, ww, rr, v)
    BY <1>1, <1>7, <1>8, <2>2, <2>3 DEF Account, FilePCs
  <2> QED
    BY <1>4, <2>4 DEF v
<1>11. CASE ~(t.file < Len(t.plan))
  <2>2. /\ v.pc = "ref" /\ v.ref = t.ref + 1 /\ v.strategy = 1
        /\ v.file = 1 /\ v.next = 1 /\ ~v.refFailed
        /\ v.failed = IF u.refFailed THEN t.failed + 1 ELSE t.failed
    BY <1>9, <1>11, NextFields
  <2> HIDE DEF v
  <2>3. (t.file + 1)..Len(t.plan) = {}
    BY <1>1, <1>11
  <2>4. d \ (ww \cup rr) = {<<a, 0>> : a \in v.ref..n}
    <3>1. d \ (ww \cup rr) = later
      BY <1>5, <1>6, <2>3
    <3> QED
      BY <2>2, <3>1
  <2>5. v.failed = Cardinality(Failed(rr))
    BY <1>1, <1>8, <2>2
  <2>6. \A y \in ww \cup rr : y[1] < v.ref
    BY <1>7, <2>2
  <2> HIDE DEF later
  <2>7. Account(n, d, ww, rr, v)
    BY <1>1, <2>2, <2>4, <2>5, <2>6 DEF Account, FilePCs
  <2> QED
    BY <1>4, <2>7 DEF v
<1> QED
  BY <1>10, <1>11

-----------------------------------------------------------------------------
(* So a reference that is settled, as done or as failed, leaves an account *)
(* in order.                                                               *)
LEMMA RefSettled ==
    ASSUME NEW p, NEW n \in Nat, NEW d, NEW w, NEW r, Ledger(n, d, w, r), NEW t, IsTask(t),
           t.pc = "resolve", Account(n, d, w, r, t)
    PROVE  /\ Ledger(n, d, w \cup {<<t.ref, 0>>}, r)
           /\ Account(n, d, w \cup {<<t.ref, 0>>}, r, NextRef(p, t))
           /\ Ledger(n, d, w, r \cup {<<t.ref, 0>>})
           /\ Account(n, d, w, r \cup {<<t.ref, 0>>}, NextRef(p, Failing(t)))
<1>1. ASSUME NEW bad \in BOOLEAN
      PROVE  LET u  == IF bad THEN Failing(t) ELSE t
                 ww == Plus(w, <<t.ref, 0>>, ~bad)
                 rr == Plus(r, <<t.ref, 0>>, bad)
             IN  Ledger(n, d, ww, rr) /\ Account(n, d, ww, rr, NextRef(p, u))
  BY AccountSettlesRef
<1>2. Ledger(n, d, w \cup {<<t.ref, 0>>}, r) /\ Account(n, d, w \cup {<<t.ref, 0>>}, r, NextRef(p, t))
  <2>1. /\ Ledger(n, d, Plus(w, <<t.ref, 0>>, ~FALSE), Plus(r, <<t.ref, 0>>, FALSE))
        /\ Account(n, d, Plus(w, <<t.ref, 0>>, ~FALSE), Plus(r, <<t.ref, 0>>, FALSE),
                   NextRef(p, IF FALSE THEN Failing(t) ELSE t))
    BY <1>1, FALSE \in BOOLEAN, Zenon
  <2>2. Plus(w, <<t.ref, 0>>, ~FALSE) = w \cup {<<t.ref, 0>>} /\ Plus(r, <<t.ref, 0>>, FALSE) = r
    BY DEF Plus
  <2> QED
    BY <2>1, <2>2, Zenon
<1>3. /\ Ledger(n, d, w, r \cup {<<t.ref, 0>>})
      /\ Account(n, d, w, r \cup {<<t.ref, 0>>}, NextRef(p, Failing(t)))
  <2>1. /\ Ledger(n, d, Plus(w, <<t.ref, 0>>, ~TRUE), Plus(r, <<t.ref, 0>>, TRUE))
        /\ Account(n, d, Plus(w, <<t.ref, 0>>, ~TRUE), Plus(r, <<t.ref, 0>>, TRUE),
                   NextRef(p, IF TRUE THEN Failing(t) ELSE t))
    BY <1>1, TRUE \in BOOLEAN, Zenon
  <2>2. Plus(r, <<t.ref, 0>>, TRUE) = r \cup {<<t.ref, 0>>} /\ Plus(w, <<t.ref, 0>>, ~TRUE) = w
    BY DEF Plus
  <2> QED
    BY <2>1, <2>2, Zenon
<1> QED
  BY <1>2, <1>3

(* The same for a file.                                                    *)
LEMMA FileSettled ==
    ASSUME NEW p, NEW n \in Nat, NEW d, NEW w, NEW r, Ledger(n, d, w, r), NEW t, IsTask(t),
           t.pc \in FilePCs, Account(n, d, w, r, t),
           Len(t.plan) \in Nat, t.file \in 1..Len(t.plan)
    PROVE  /\ Ledger(n, d, w \cup {<<t.ref, t.file>>}, r)
           /\ Account(n, d, w \cup {<<t.ref, t.file>>}, r, NextFile(p, t))
           /\ Ledger(n, d, w, r \cup {<<t.ref, t.file>>})
           /\ Account(n, d, w, r \cup {<<t.ref, t.file>>}, NextFile(p, Failing(t)))
<1> DEFINE x == <<t.ref, t.file>>
<1>1. ASSUME NEW bad \in BOOLEAN
      PROVE  LET u  == IF bad THEN Failing(t) ELSE t
                 ww == Plus(w, x, ~bad)
                 rr == Plus(r, x, bad)
             IN  Ledger(n, d, ww, rr) /\ Account(n, d, ww, rr, NextFile(p, u))
  BY AccountSettlesFile
<1> HIDE DEF x
<1>2. Ledger(n, d, w \cup {x}, r) /\ Account(n, d, w \cup {x}, r, NextFile(p, t))
  <2>1. /\ Ledger(n, d, Plus(w, x, ~FALSE), Plus(r, x, FALSE))
        /\ Account(n, d, Plus(w, x, ~FALSE), Plus(r, x, FALSE),
                   NextFile(p, IF FALSE THEN Failing(t) ELSE t))
    BY <1>1, FALSE \in BOOLEAN, Zenon
  <2>2. Plus(w, x, ~FALSE) = w \cup {x} /\ Plus(r, x, FALSE) = r
    BY DEF Plus
  <2> QED
    BY <2>1, <2>2, Zenon
<1>3. Ledger(n, d, w, r \cup {x}) /\ Account(n, d, w, r \cup {x}, NextFile(p, Failing(t)))
  <2>1. /\ Ledger(n, d, Plus(w, x, ~TRUE), Plus(r, x, TRUE))
        /\ Account(n, d, Plus(w, x, ~TRUE), Plus(r, x, TRUE),
                   NextFile(p, IF TRUE THEN Failing(t) ELSE t))
    BY <1>1, TRUE \in BOOLEAN, Zenon
  <2>2. Plus(r, x, TRUE) = r \cup {x} /\ Plus(w, x, ~TRUE) = w
    BY DEF Plus
  <2> QED
    BY <2>1, <2>2, Zenon
<1> QED
  BY <1>2, <1>3 DEF x

-----------------------------------------------------------------------------
(* What a batch is made of. *)
LEMMA JobFacts ==
    ASSUME BatchInv, NEW p \in Procs
    PROVE  /\ Len(job[p].refs) \in Nat /\ DOMAIN job[p].refs = 1..Len(job[p].refs)
           /\ job[p].quality \in Qualities
           /\ job[p].strategies \in Seq(Strategies)
           /\ job[p].command \in {"download", "media", "clean"}
           /\ job[p].mode \in {"human", "json", "ndjson"}
<1>1. job \in [Procs -> JobType]
  BY DownloadAssumption DEF BatchInv
<1>2. job[p] \in JobType
  BY <1>1
<1>3. job[p].refs \in Seq([id : STRING, user : STRING])
  BY <1>2 DEF JobType
<1> QED
  BY <1>2, <1>3 DEF JobType

(* What a process that is at a file knows of its plan. *)
LEMMA PlanFacts ==
    ASSUME BatchInv, NEW p \in Procs, NEW t, t.pc \in FilePCs, PlanState(p, t)
    PROVE  /\ t.plan \in Seq(FileType) /\ Len(t.plan) \in Nat
           /\ DOMAIN t.plan = 1..Len(t.plan) /\ t.file \in 1..Len(t.plan)
           /\ \A i \in 1..Len(t.plan) : t.plan[i].chain \in Seq(LinkType)
           /\ \A i \in 1..Len(t.plan) : 1 \in DOMAIN t.plan[i].chain
           /\ Len(t.plan[t.file].chain) \in Nat
           /\ DOMAIN t.plan[t.file].chain = 1..Len(t.plan[t.file].chain)
           /\ t.next \in 1..Len(t.plan[t.file].chain)
<1>1. /\ t.res \in Seq(Media)
      /\ PlanDownload(t.res, job[p].quality, job[p].kind).ok
      /\ t.plan = PlanDownload(t.res, job[p].quality, job[p].kind).files
      /\ t.file \in DOMAIN t.plan
      /\ t.next \in DOMAIN t.plan[t.file].chain
  BY DEF PlanState, Media
<1>2. t.plan \in Seq(FileType) /\ \A i \in DOMAIN t.plan : t.plan[i].chain # <<>>
  BY <1>1, JobFacts, PlanProperties
<1>3. Len(t.plan) \in Nat /\ DOMAIN t.plan = 1..Len(t.plan)
      /\ \A i \in DOMAIN t.plan : t.plan[i] \in FileType
  BY <1>2
<1>4. \A i \in 1..Len(t.plan) : t.plan[i].chain \in Seq(LinkType)
  BY <1>3 DEF FileType
<1>5. \A i \in 1..Len(t.plan) : 1 \in DOMAIN t.plan[i].chain
  <2> TAKE i \in 1..Len(t.plan)
  <2>1. t.plan[i].chain \in Seq(LinkType) /\ t.plan[i].chain # <<>>
    BY <1>2, <1>3, <1>4
  <2> QED
    BY <2>1, EmptySeq
<1>6. t.plan[t.file].chain \in Seq(LinkType)
  BY <1>1, <1>3, <1>4
<1>7. /\ Len(t.plan[t.file].chain) \in Nat
      /\ DOMAIN t.plan[t.file].chain = 1..Len(t.plan[t.file].chain)
  BY <1>6
<1> QED
  BY <1>1, <1>2, <1>3, <1>4, <1>5, <1>7

-----------------------------------------------------------------------------
(* A step of p that leaves it with a task, a balance and a status.         *)
Leaves(p, d, w, r, t, s) ==
    /\ job' = job /\ cancelled' = cancelled /\ pipe' = pipe
    /\ due' = [due EXCEPT ![p] = d]
    /\ rows' = [rows EXCEPT ![p] = w]
    /\ reports' = [reports EXCEPT ![p] = r]
    /\ task' = [task EXCEPT ![p] = t]
    /\ exit' = [exit EXCEPT ![p] = s]

(* What a process does not change stays as it was. *)
LEMMA SameAsBefore ==
    ASSUME IInv, BatchInv, NEW p \in Procs
    PROVE  /\ due = [due EXCEPT ![p] = due[p]]
           /\ rows = [rows EXCEPT ![p] = rows[p]]
           /\ reports = [reports EXCEPT ![p] = reports[p]]
           /\ task = [task EXCEPT ![p] = task[p]]
           /\ exit = [exit EXCEPT ![p] = exit[p]]
<1>1. \A f, S : f \in [Procs -> S] => f = [f EXCEPT ![p] = f[p]]
  OBVIOUS
<1>2. /\ due \in [Procs -> SUBSET (Nat \X Nat)]
      /\ rows \in [Procs -> SUBSET (Nat \X Nat)]
      /\ reports \in [Procs -> SUBSET (Nat \X Nat)]
      /\ task \in [Procs -> {task[q] : q \in Procs}]
      /\ exit \in [Procs -> {-9, -1, 0, 1, 2}]
  BY DEF BatchInv, IInv
<1> QED
  BY <1>1, <1>2

(* The accounts of the others stay in order, ...                           *)
LEMMA OthersBooks ==
    ASSUME NEW q, NEW d, NEW w, NEW r, NEW t, NEW s, PlanState(q, t), Books(q, d, w, r, t, s),
           job' = job, s = -1 \/ (pipe'[q] = pipe[q] /\ (q \in cancelled' <=> q \in cancelled))
    PROVE  PlanState(q, t)' /\ Books(q, d, w, r, t, s)'
<1>1. PlanState(q, t)'
  BY DEF PlanState
<1>2. Books(q, d, w, r, t, s)'
  <2>1. CASE s = -1
    BY <2>1 DEF Books
  <2>2. CASE pipe'[q] = pipe[q] /\ (q \in cancelled' <=> q \in cancelled)
    BY <2>2 DEF Books
  <2> QED
    BY <2>1, <2>2
<1> QED
  BY <1>1, <1>2

(* ... so it is enough to look at those of the process that takes a step.  *)
LEMMA StepBalances ==
    ASSUME IInv, BatchInv, NEW p \in Procs, NEW d, NEW w, NEW r, NEW t, NEW s,
           Leaves(p, d, w, r, t, s),
           t.pc \in TaskPCs, PlanState(p, t), Books(p, d, w, r, t, s)
    PROVE  BatchInv'
<1>1. d \in SUBSET (Nat \X Nat) /\ w \in SUBSET (Nat \X Nat) /\ r \in SUBSET (Nat \X Nat)
  <2>1. Len(job[p].refs) \in Nat
    BY JobFacts
  <2>2. d \subseteq (1..Len(job[p].refs)) \X Nat /\ w \subseteq d /\ r \subseteq d
    BY DEF Books, Ledger
  <2>3. (1..Len(job[p].refs)) \X Nat \subseteq Nat \X Nat
    BY <2>1
  <2> QED
    BY <2>2, <2>3
<1>2. /\ job' \in Batches
      /\ due' \in [Procs -> SUBSET (Nat \X Nat)]
      /\ rows' \in [Procs -> SUBSET (Nat \X Nat)]
      /\ reports' \in [Procs -> SUBSET (Nat \X Nat)]
      /\ cancelled' \subseteq Procs
      /\ pipe' \in [Procs -> {"open", "closed", "full"}]
  BY <1>1 DEF Leaves, BatchInv
<1>3. ASSUME NEW q \in Procs
      PROVE  \E dd, ww, rr, tt, ss :
                /\ dd = due'[q] /\ ww = rows'[q] /\ rr = reports'[q]
                /\ tt = task'[q] /\ ss = exit'[q]
                /\ tt.pc \in TaskPCs /\ PlanState(q, tt) /\ Books(q, dd, ww, rr, tt, ss)
  <2>1. CASE q = p
    <3>1. /\ due'[q] = d /\ rows'[q] = w /\ reports'[q] = r /\ task'[q] = t /\ exit'[q] = s
      BY <2>1 DEF Leaves, BatchInv, IInv
    <3> QED
      BY <2>1, <3>1
  <2>2. CASE q # p
    <3>1. /\ due'[q] = due[q] /\ rows'[q] = rows[q] /\ reports'[q] = reports[q]
          /\ task'[q] = task[q] /\ exit'[q] = exit[q]
      BY <2>2 DEF Leaves, BatchInv, IInv
    <3>2. /\ task[q].pc \in TaskPCs /\ PlanState(q, task[q])
          /\ Books(q, due[q], rows[q], reports[q], task[q], exit[q])
      BY DEF BatchInv
    <3> QED
      BY <3>1, <3>2
  <2> QED
    BY <2>1, <2>2
<1>4. ASSUME NEW q \in Procs
      PROVE  /\ task'[q].pc \in TaskPCs
             /\ PlanState(q, task[q])'
             /\ Books(q, due[q], rows[q], reports[q], task[q], exit[q])'
  <2>1. PICK dd, ww, rr, tt, ss :
            /\ dd = due'[q] /\ ww = rows'[q] /\ rr = reports'[q]
            /\ tt = task'[q] /\ ss = exit'[q]
            /\ tt.pc \in TaskPCs /\ PlanState(q, tt) /\ Books(q, dd, ww, rr, tt, ss)
    BY <1>3
  <2>2. PlanState(q, tt)' /\ Books(q, dd, ww, rr, tt, ss)'
    BY <2>1, OthersBooks DEF Leaves
  <2>3. PlanState(q, task[q])'
    BY <2>1, <2>2 DEF PlanState
  <2>4. Books(q, due[q], rows[q], reports[q], task[q], exit[q])'
    BY <2>1, <2>2 DEF Books
  <2> QED
    BY <2>1, <2>3, <2>4
<1> QED
  BY <1>2, <1>4 DEF BatchInv

(* The accounts of a process that runs. *)
LEMMA RunningBooks ==
    ASSUME IInv, BatchInv, NEW p \in Procs, exit[p] = -1
    PROVE  /\ IsTask(task[p]) /\ task[p].pc \in TaskPCs /\ PlanState(p, task[p])
           /\ Len(job[p].refs) \in Nat
           /\ Ledger(Len(job[p].refs), due[p], rows[p], reports[p])
           /\ Account(Len(job[p].refs), due[p], rows[p], reports[p], task[p])
<1>1. IsTask(task[p])
  BY DEF IInv, TaskState, Fits
<1>2. /\ task[p].pc \in TaskPCs /\ PlanState(p, task[p])
      /\ Books(p, due[p], rows[p], reports[p], task[p], exit[p])
  BY DEF BatchInv
<1> QED
  BY <1>1, <1>2, JobFacts DEF Books

(* A process that ends. *)
LEMMA EndBalances ==
    ASSUME IInv, BatchInv, NEW p \in Procs, NEW s \in {-9, 0, 1, 2}, End(p, s),
           NEW d, NEW w, NEW r, Books(p, d, w, r, task[p], s),
           job' = job, cancelled' = cancelled, pipe' = pipe,
           due' = [due EXCEPT ![p] = d], rows' = [rows EXCEPT ![p] = w],
           reports' = [reports EXCEPT ![p] = r]
    PROVE  BatchInv'
<1> DEFINE t == [task[p] EXCEPT !.pc = "done"]
<1>1. IsTask(task[p])
  BY DEF IInv, TaskState, Fits
<1>2. t.pc = "done" /\ t.failed = task[p].failed
  BY <1>1 DEF IsTask
<1>3. Leaves(p, d, w, r, t, s)
  BY DEF Leaves, End, Goto
<1> HIDE DEF t
<1>4. t.pc \in TaskPCs /\ PlanState(p, t)
  BY <1>2 DEF TaskPCs, FilePCs, PlanState
<1>5. Books(p, d, w, r, t, s)
  BY <1>2 DEF Books
<1> QED
  BY <1>3, <1>4, <1>5, StepBalances

(* A process that goes on, with its accounts in order. *)
LEMMA GotoBalances ==
    ASSUME IInv, BatchInv, NEW p \in Procs, exit[p] = -1,
           NEW t, Goto(p, t), exit' = exit,
           t.pc \in TaskPCs, PlanState(p, t),
           NEW d, NEW w, NEW r, Ledger(Len(job[p].refs), d, w, r),
           Account(Len(job[p].refs), d, w, r, t),
           job' = job, cancelled' = cancelled, pipe' = pipe,
           due' = [due EXCEPT ![p] = d], rows' = [rows EXCEPT ![p] = w],
           reports' = [reports EXCEPT ![p] = r]
    PROVE  BatchInv'
<1>1. Books(p, d, w, r, t, -1)
  BY DEF Books
<1>2. Leaves(p, d, w, r, t, -1)
  BY SameAsBefore DEF Leaves, Goto
<1> QED
  BY <1>1, <1>2, StepBalances

(* It says what it has done, and goes on when it is heard. *)
LEMMA SayBalances ==
    ASSUME IInv, BatchInv, NEW p \in Procs, exit[p] = -1,
           NEW failure \in BOOLEAN, NEW t, Say(p, failure, t), t.pc \in TaskPCs, PlanState(p, t),
           NEW d, NEW w, NEW r, Ledger(Len(job[p].refs), d, w, r),
           Heard(p) => Account(Len(job[p].refs), d, w, r, t),
           job' = job, cancelled' = cancelled, pipe' = pipe,
           due' = [due EXCEPT ![p] = d], rows' = [rows EXCEPT ![p] = w],
           reports' = [reports EXCEPT ![p] = r]
    PROVE  BatchInv'
<1>1. CASE Heard(p)
  BY <1>1, GotoBalances DEF Say
<1>2. CASE ~Heard(p)
  <2>1. job[p].mode = "ndjson" /\ pipe[p] # "open"
    BY <1>2 DEF Heard
  <2>2. CASE End(p, 0) /\ pipe[p] = "closed"
    <3>1. Books(p, d, w, r, task[p], 0)
      BY <2>1, <2>2 DEF Books
    <3> QED
      BY <2>2, <3>1, EndBalances
  <2>3. CASE End(p, 1)
    <3>1. Books(p, d, w, r, task[p], 1)
      BY <2>1 DEF Books
    <3> QED
      BY <2>3, <3>1, EndBalances
  <2> QED
    BY <1>2, <2>2, <2>3 DEF Say
<1> QED
  BY <1>1, <1>2

(* It reports a failure, and goes on when it is heard.                     *)
LEMMA ReportBalances ==
    ASSUME IInv, BatchInv, NEW p \in Procs, exit[p] = -1,
           NEW x, NEW t, Report(p, x, t), t.pc \in TaskPCs, PlanState(p, t),
           Ledger(Len(job[p].refs), due[p], rows[p], reports[p] \cup {x}),
           Account(Len(job[p].refs), due[p], rows[p], reports[p] \cup {x}, t),
           job' = job, cancelled' = cancelled, pipe' = pipe, due' = due, rows' = rows
    PROVE  BatchInv'
<1>1. due' = [due EXCEPT ![p] = due[p]] /\ rows' = [rows EXCEPT ![p] = rows[p]]
  BY SameAsBefore
<1>2. reports' = [reports EXCEPT ![p] = reports[p] \cup {x}] /\ Say(p, TRUE, t)
  BY DEF Report
<1> QED
  BY <1>1, <1>2, SayBalances

(* A file that has failed, and one that is done, make place for the next.  *)
LEMMA NextFilePlanned ==
    ASSUME BatchInv, NEW p \in Procs, NEW t, IsTask(t), t.pc \in FilePCs, PlanState(p, t)
    PROVE  /\ NextFile(p, t).pc \in TaskPCs /\ PlanState(p, NextFile(p, t))
           /\ NextFile(p, Failing(t)).pc \in TaskPCs /\ PlanState(p, NextFile(p, Failing(t)))
<1>1. ASSUME NEW u, IsTask(u), u.plan = t.plan, u.res = t.res, u.file = t.file
      PROVE  NextFile(p, u).pc \in TaskPCs /\ PlanState(p, NextFile(p, u))
  <2> DEFINE v == NextFile(p, u)
  <2>1. CASE t.file < Len(t.plan)
    <3>1. /\ v.pc = "target" /\ v.file = t.file + 1 /\ v.next = 1
          /\ v.plan = t.plan /\ v.res = t.res
      BY <1>1, <2>1, NextFields
    <3>2. t.file + 1 \in 1..Len(t.plan)
      BY <2>1, PlanFacts
    <3> HIDE DEF v
    <3>3. v.file \in DOMAIN v.plan /\ v.next \in DOMAIN v.plan[v.file].chain
      BY <3>1, <3>2, PlanFacts
    <3>4. v.pc \in TaskPCs /\ PlanState(p, v)
      BY <3>1, <3>3 DEF PlanState, TaskPCs, FilePCs
    <3> QED
      BY <3>4 DEF v
  <2>2. CASE ~(t.file < Len(t.plan))
    <3>1. v.pc = "ref"
      BY <1>1, <2>2, NextFields
    <3> QED
      BY <3>1 DEF PlanState, TaskPCs, FilePCs
  <2> QED
    BY <2>1, <2>2
<1>2. IsTask(Failing(t)) /\ Failing(t).plan = t.plan /\ Failing(t).res = t.res /\ Failing(t).file = t.file
  BY DEF IsTask, Failing
<1> QED
  BY <1>1, <1>2

(* A file has failed: it is reported, and the next comes.                  *)
LEMMA FileFails ==
    ASSUME IInv, BatchInv, NEW p \in Procs, exit[p] = -1, task[p].pc \in FilePCs,
           Report(p, <<task[p].ref, task[p].file>>, NextFile(p, Failing(task[p]))),
           job' = job, cancelled' = cancelled, pipe' = pipe, due' = due, rows' = rows
    PROVE  BatchInv'
<1> DEFINE t == task[p]
           n == Len(job[p].refs)
           x == <<t.ref, t.file>>
<1>1. /\ IsTask(t) /\ PlanState(p, t) /\ n \in Nat
      /\ Ledger(n, due[p], rows[p], reports[p]) /\ Account(n, due[p], rows[p], reports[p], t)
  BY RunningBooks
<1>2. Len(t.plan) \in Nat /\ t.file \in 1..Len(t.plan)
  BY <1>1, PlanFacts
<1> HIDE DEF n
<1>3. /\ Ledger(n, due[p], rows[p], reports[p] \cup {x})
      /\ Account(n, due[p], rows[p], reports[p] \cup {x}, NextFile(p, Failing(t)))
  BY <1>1, <1>2, FileSettled
<1>4. NextFile(p, Failing(t)).pc \in TaskPCs /\ PlanState(p, NextFile(p, Failing(t)))
  BY <1>1, NextFilePlanned
<1> QED
  BY <1>3, <1>4, ReportBalances DEF n

(* A step within one file. *)
LEMMA FileGoesOn ==
    ASSUME IInv, BatchInv, NEW p \in Procs, exit[p] = -1, task[p].pc \in FilePCs,
           NEW u, Goto(p, u), u.pc \in FilePCs,
           u.res = task[p].res, u.plan = task[p].plan, u.ref = task[p].ref,
           u.file = task[p].file, u.failed = task[p].failed, u.refFailed = task[p].refFailed,
           u.next \in DOMAIN task[p].plan[task[p].file].chain,
           UNCHANGED <<job, due, rows, reports, cancelled, pipe, exit>>
    PROVE  BatchInv'
<1> DEFINE t == task[p]
           n == Len(job[p].refs)
<1>1. /\ IsTask(t) /\ PlanState(p, t) /\ n \in Nat
      /\ Ledger(n, due[p], rows[p], reports[p]) /\ Account(n, due[p], rows[p], reports[p], t)
  BY RunningBooks
<1>2. u.pc \in TaskPCs /\ PlanState(p, u)
  BY <1>1 DEF TaskPCs, PlanState
<1>3. Account(n, due[p], rows[p], reports[p], u)
  BY <1>1, AccountGoesOn
<1>4. /\ due' = [due EXCEPT ![p] = due[p]] /\ rows' = [rows EXCEPT ![p] = rows[p]]
      /\ reports' = [reports EXCEPT ![p] = reports[p]]
  BY SameAsBefore
<1>5. job' = job /\ cancelled' = cancelled /\ pipe' = pipe /\ exit' = exit
  OBVIOUS
<1>6. Leaves(p, due[p], rows[p], reports[p], u, -1)
  BY <1>4, <1>5, SameAsBefore DEF Leaves, Goto
<1>7. Books(p, due[p], rows[p], reports[p], u, -1)
  BY <1>1, <1>3 DEF Books
<1> QED
  BY <1>2, <1>6, <1>7, StepBalances

(* A step that settles nothing. *)
LEMMA QuietEnd ==
    ASSUME IInv, BatchInv, NEW p \in Procs, NEW s \in {-9, 0, 1, 2}, End(p, s),
           Books(p, due[p], rows[p], reports[p], task[p], s),
           UNCHANGED <<job, due, rows, reports, cancelled, pipe>>
    PROVE  BatchInv'
<1>1. /\ due' = [due EXCEPT ![p] = due[p]] /\ rows' = [rows EXCEPT ![p] = rows[p]]
      /\ reports' = [reports EXCEPT ![p] = reports[p]]
  BY SameAsBefore
<1>2. job' = job /\ cancelled' = cancelled /\ pipe' = pipe
  OBVIOUS
<1> DEFINE t == [task[p] EXCEPT !.pc = "done"]
<1>3. IsTask(task[p])
  BY DEF IInv, TaskState, Fits
<1>4. t.pc = "done" /\ t.failed = task[p].failed
  BY <1>3 DEF IsTask
<1>5. Leaves(p, due[p], rows[p], reports[p], t, s)
  BY <1>1, <1>2 DEF Leaves, End, Goto
<1> HIDE DEF t
<1>6. t.pc \in TaskPCs /\ PlanState(p, t)
  BY <1>4 DEF TaskPCs, FilePCs, PlanState
<1>7. Books(p, due[p], rows[p], reports[p], t, s)
  BY <1>4 DEF Books
<1> QED
  BY <1>5, <1>6, <1>7, StepBalances

(* A step that settles nothing and ends nothing.                           *)
LEMMA QuietGoto ==
    ASSUME IInv, BatchInv, NEW p \in Procs, exit[p] = -1, NEW u, Goto(p, u),
           u.pc \in TaskPCs, PlanState(p, u),
           Account(Len(job[p].refs), due[p], rows[p], reports[p], u),
           UNCHANGED <<job, due, rows, reports, cancelled, pipe, exit>>
    PROVE  BatchInv'
<1>1. /\ due' = [due EXCEPT ![p] = due[p]] /\ rows' = [rows EXCEPT ![p] = rows[p]]
      /\ reports' = [reports EXCEPT ![p] = reports[p]]
  BY SameAsBefore
<1>2. job' = job /\ cancelled' = cancelled /\ pipe' = pipe /\ exit' = exit
  OBVIOUS
<1>3. Leaves(p, due[p], rows[p], reports[p], u, -1)
  BY <1>1, <1>2, SameAsBefore DEF Leaves, Goto
<1>4. Books(p, due[p], rows[p], reports[p], u, -1)
  BY RunningBooks DEF Books
<1> QED
  BY <1>3, <1>4, StepBalances

-----------------------------------------------------------------------------
(* The steps, one by one. *)
LEMMA RefuseBalances ==
    ASSUME IInv, BatchInv, NEW p \in Procs, Refuse(p)
    PROVE  BatchInv'
<1>1. PICK s \in {1, 2} : End(p, s)
  BY DEF Refuse
<1>2. exit[p] = -1 /\ task[p].pc = "start"
      /\ UNCHANGED <<job, due, rows, reports, cancelled, pipe>>
  BY DEF Refuse, Running
<1>3. due[p] = {} /\ Ledger(Len(job[p].refs), due[p], rows[p], reports[p])
  BY <1>2, RunningBooks DEF Account
<1>4. Books(p, due[p], rows[p], reports[p], task[p], s)
  BY <1>1, <1>3 DEF Books
<1> QED
  BY <1>1, <1>2, <1>4, QuietEnd

(* Begin: every reference is due.                                          *)
LEMMA BeginBalances ==
    ASSUME IInv, BatchInv, NEW p \in Procs, Begin(p)
    PROVE  BatchInv'
<1> DEFINE n == Len(job[p].refs)
           d == {<<i, 0>> : i \in 1..n}
           u == [task[p] EXCEPT !.pc = "ref"]
<1>1. exit[p] = -1 /\ task[p].pc = "start" /\ Goto(p, u)
      /\ due' = [due EXCEPT ![p] = {<<i, 0>> : i \in DOMAIN job[p].refs}]
      /\ UNCHANGED <<job, rows, reports, cancelled, pipe, exit>>
  BY DEF Begin, Running
<1>2. /\ IsTask(task[p]) /\ n \in Nat /\ DOMAIN job[p].refs = 1..n
      /\ Ledger(n, due[p], rows[p], reports[p])
      /\ Account(n, due[p], rows[p], reports[p], task[p])
  BY <1>1, RunningBooks, JobFacts
<1>3. due[p] = {}
  BY <1>1, <1>2 DEF Account
<1>4. due' = [due EXCEPT ![p] = d]
  BY <1>1, <1>2
<1>5. Ledger(n, d, rows[p], reports[p]) /\ Account(n, d, rows[p], reports[p], u)
  BY <1>1, <1>2, <1>3, AccountOpens
<1>6. u.pc \in TaskPCs /\ PlanState(p, u)
  BY <1>2 DEF IsTask, TaskPCs, FilePCs, PlanState
<1> HIDE DEF d, u
<1>7. Leaves(p, d, rows[p], reports[p], u, -1)
  BY <1>1, <1>4, SameAsBefore DEF Leaves, Goto
<1>8. Books(p, d, rows[p], reports[p], u, -1)
  BY <1>5 DEF Books
<1> QED
  BY <1>6, <1>7, <1>8, StepBalances

(* TakeRef: the next reference, or none, or the batch is cancelled.        *)
LEMMA TakeRefBalances ==
    ASSUME IInv, BatchInv, NEW p \in Procs, TakeRef(p)
    PROVE  BatchInv'
<1> DEFINE n == Len(job[p].refs)
           t == task[p]
<1>1. exit[p] = -1 /\ t.pc = "ref" /\ UNCHANGED <<job, due, rows, reports, cancelled, pipe>>
  BY DEF TakeRef, Running
<1>2. /\ IsTask(t) /\ n \in Nat
      /\ Ledger(n, due[p], rows[p], reports[p]) /\ Account(n, due[p], rows[p], reports[p], t)
  BY <1>1, RunningBooks
<1>3. CASE t.ref > n /\ Goto(p, [t EXCEPT !.pc = "print"]) /\ exit' = exit
  <2> DEFINE u == [t EXCEPT !.pc = "print"]
  <2>1. Account(n, due[p], rows[p], reports[p], u)
    BY <1>1, <1>2, <1>3, AccountGoesOn
  <2>2. u.pc \in TaskPCs /\ PlanState(p, u)
    BY <1>2 DEF IsTask, TaskPCs, FilePCs, PlanState
  <2> HIDE DEF u
  <2>3. Goto(p, u) /\ UNCHANGED <<job, due, rows, reports, cancelled, pipe, exit>>
    BY <1>1, <1>3 DEF u
  <2> QED
    BY <1>1, <2>1, <2>2, <2>3, QuietGoto
<1>4. CASE p \in cancelled /\ End(p, 1)
  <2>1. Books(p, due[p], rows[p], reports[p], task[p], 1)
    BY <1>2, <1>4 DEF Books
  <2> QED
    BY <1>1, <1>4, <2>1, QuietEnd
<1>5. CASE ~(t.ref > n) /\ Goto(p, [t EXCEPT !.pc = "resolve"]) /\ exit' = exit
  <2> DEFINE u == [t EXCEPT !.pc = "resolve"]
  <2>1. Account(n, due[p], rows[p], reports[p], u)
    BY <1>1, <1>2, <1>5, AccountGoesOn
  <2>2. u.pc \in TaskPCs /\ PlanState(p, u)
    BY <1>2 DEF IsTask, TaskPCs, FilePCs, PlanState
  <2> HIDE DEF u
  <2>3. Goto(p, u) /\ UNCHANGED <<job, due, rows, reports, cancelled, pipe, exit>>
    BY <1>1, <1>5 DEF u
  <2> QED
    BY <1>1, <2>1, <2>2, <2>3, QuietGoto
<1> QED
  BY <1>3, <1>4, <1>5 DEF TakeRef

(* LinkFails: another link, or the file has failed.                        *)
LEMMA LinkFailsBalances ==
    ASSUME IInv, BatchInv, NEW p \in Procs, exit[p] = -1, task[p].pc \in FilePCs, LinkFails(p),
           job' = job, cancelled' = cancelled, pipe' = pipe, due' = due, rows' = rows
    PROVE  BatchInv'
<1> DEFINE t == task[p]
           u == [t EXCEPT !.pc = "fetch", !.next = @ + 1]
<1>1. IsTask(t) /\ PlanState(p, t)
  BY RunningBooks
<1>2. CASE t.next < Len(t.plan[t.file].chain) /\ Goto(p, u) /\ UNCHANGED <<reports, exit>>
  <2>1. /\ u.pc = "fetch" /\ u.next = t.next + 1 /\ u.res = t.res /\ u.plan = t.plan
        /\ u.ref = t.ref /\ u.file = t.file /\ u.failed = t.failed /\ u.refFailed = t.refFailed
    BY <1>1 DEF IsTask
  <2>2. t.next + 1 \in DOMAIN t.plan[t.file].chain
    BY <1>1, <1>2, PlanFacts
  <2> HIDE DEF u
  <2>3. u.pc \in FilePCs /\ u.next \in DOMAIN t.plan[t.file].chain
    BY <2>1, <2>2 DEF FilePCs
  <2> QED
    BY <1>2, <2>1, <2>3, FileGoesOn
<1>3. CASE Report(p, <<t.ref, t.file>>, NextFile(p, Failing(t)))
  BY <1>3, FileFails
<1> QED
  BY <1>2, <1>3 DEF LinkFails

(* Exists: the file is skipped, or has failed.                             *)
LEMMA ExistsBalances ==
    ASSUME IInv, BatchInv, NEW p \in Procs, exit[p] = -1, task[p].pc \in FilePCs, Exists(p),
           job' = job, cancelled' = cancelled, pipe' = pipe, due' = due, rows' = rows
    PROVE  BatchInv'
<1> DEFINE t == task[p]
           u == [t EXCEPT !.pc = "skip"]
<1>1. IsTask(t) /\ PlanState(p, t)
  BY RunningBooks
<1>2. CASE Goto(p, u) /\ UNCHANGED <<reports, exit>>
  <2>1. /\ u.pc = "skip" /\ u.next = t.next /\ u.res = t.res /\ u.plan = t.plan
        /\ u.ref = t.ref /\ u.file = t.file /\ u.failed = t.failed /\ u.refFailed = t.refFailed
    BY <1>1 DEF IsTask
  <2> HIDE DEF u
  <2>2. u.pc \in FilePCs /\ u.next \in DOMAIN t.plan[t.file].chain
    BY <1>1, <2>1, PlanFacts DEF FilePCs
  <2> QED
    BY <1>2, <2>1, <2>2, FileGoesOn
<1>3. CASE Report(p, <<t.ref, t.file>>, NextFile(p, Failing(t)))
  BY <1>3, FileFails
<1> QED
  BY <1>2, <1>3 DEF Exists

-----------------------------------------------------------------------------
(* A reference that cannot be resolved, or whose media make no plan.       *)
LEMMA RefFails ==
    ASSUME IInv, BatchInv, NEW p \in Procs, exit[p] = -1, task[p].pc = "resolve",
           Report(p, <<task[p].ref, 0>>, NextRef(p, Failing(task[p]))),
           job' = job, cancelled' = cancelled, pipe' = pipe, due' = due, rows' = rows
    PROVE  BatchInv'
<1> DEFINE t == task[p]
           n == Len(job[p].refs)
           x == <<t.ref, 0>>
           v == NextRef(p, Failing(t))
<1>1. /\ IsTask(t) /\ n \in Nat
      /\ Ledger(n, due[p], rows[p], reports[p]) /\ Account(n, due[p], rows[p], reports[p], t)
  BY RunningBooks
<1>2. /\ Ledger(n, due[p], rows[p], reports[p] \cup {x})
      /\ Account(n, due[p], rows[p], reports[p] \cup {x}, v)
  BY <1>1, RefSettled
<1>3. v.pc = "ref"
  BY DEF NextRef, Idle
<1>4. v.pc \in TaskPCs /\ PlanState(p, v)
  BY <1>3 DEF TaskPCs, FilePCs, PlanState
<1> HIDE DEF n, v
<1> QED
  BY <1>2, <1>4, ReportBalances DEF n, v

(* A reference with its media: all four ways it goes on from there.        *)
LEMMA ResolvedBalances ==
    ASSUME IInv, BatchInv, NEW p \in Procs, exit[p] = -1, task[p].pc = "resolve",
           NEW res \in Seq(Media), Resolved(p, res),
           job' = job, cancelled' = cancelled, pipe' = pipe
    PROVE  BatchInv'
<1> DEFINE t    == task[p]
           n    == Len(job[p].refs)
           x    == <<t.ref, 0>>
           plan == PlanDownload(res, job[p].quality, job[p].kind)
           v    == NextRef(p, t)
           w    == rows[p] \cup {x}
<1>1. /\ IsTask(t) /\ n \in Nat
      /\ Ledger(n, due[p], rows[p], reports[p]) /\ Account(n, due[p], rows[p], reports[p], t)
  BY RunningBooks
<1>2. Ledger(n, due[p], w, reports[p]) /\ Account(n, due[p], w, reports[p], v)
  BY <1>1, RefSettled
<1>3. v.pc = "ref"
  BY DEF NextRef, Idle
<1>4. v.pc \in TaskPCs /\ PlanState(p, v)
  BY <1>3 DEF TaskPCs, FilePCs, PlanState
<1>5. /\ due = [due EXCEPT ![p] = due[p]] /\ rows = [rows EXCEPT ![p] = rows[p]]
      /\ reports = [reports EXCEPT ![p] = reports[p]] /\ exit = [exit EXCEPT ![p] = exit[p]]
  BY SameAsBefore
<1> HIDE DEF n, v
<1>6. CASE /\ rows' = IF Heard(p) THEN [rows EXCEPT ![p] = w] ELSE rows
           /\ Say(p, FALSE, v)
           /\ due' = due /\ reports' = reports
  <2>1. CASE Heard(p)
    <3>1. Goto(p, v) /\ exit' = exit
      BY <1>6, <2>1 DEF Say
    <3>2. /\ rows' = [rows EXCEPT ![p] = w] /\ due' = [due EXCEPT ![p] = due[p]]
          /\ reports' = [reports EXCEPT ![p] = reports[p]]
      BY <1>5, <1>6, <2>1
    <3> HIDE DEF w
    <3>3. Books(p, due[p], w, reports[p], v, -1)
      BY <1>2 DEF Books, n
    <3>4. Leaves(p, due[p], w, reports[p], v, -1)
      BY <1>5, <3>1, <3>2 DEF Leaves, Goto
    <3> QED
      BY <1>4, <3>3, <3>4, StepBalances
  <2>2. CASE ~Heard(p)
    <3>1. rows' = rows
      BY <1>6, <2>2
    <3>2. /\ rows' = [rows EXCEPT ![p] = rows[p]] /\ due' = [due EXCEPT ![p] = due[p]]
          /\ reports' = [reports EXCEPT ![p] = reports[p]]
      BY <1>5, <1>6, <3>1
    <3>3. Say(p, FALSE, v) /\ FALSE \in BOOLEAN
      BY <1>6
    <3> QED
      BY <1>1, <1>4, <2>2, <3>2, <3>3, SayBalances DEF n
  <2> QED
    BY <2>1, <2>2
<1>7. CASE Report(p, x, NextRef(p, Failing(t))) /\ due' = due /\ rows' = rows
  BY <1>7, RefFails
<1>8. CASE /\ rows' = [rows EXCEPT ![p] = w] /\ Goto(p, v)
           /\ due' = due /\ reports' = reports /\ exit' = exit
  <2>1. due' = [due EXCEPT ![p] = due[p]] /\ reports' = [reports EXCEPT ![p] = reports[p]]
    BY <1>5, <1>8
  <2> HIDE DEF w
  <2>2. Books(p, due[p], w, reports[p], v, -1)
    BY <1>2 DEF Books, n
  <2>3. Leaves(p, due[p], w, reports[p], v, -1)
    BY <1>5, <1>8, <2>1 DEF Leaves, Goto
  <2> QED
    BY <1>4, <2>2, <2>3, StepBalances
<1>9. CASE /\ job[p].command # "media" /\ plan.ok /\ plan.files # <<>>
           /\ rows' = [rows EXCEPT ![p] = w]
           /\ due' = [due EXCEPT ![p] = @ \cup {<<t.ref, k>> : k \in DOMAIN plan.files}]
           /\ Goto(p, [t EXCEPT !.pc = "target", !.res = res, !.plan = plan.files])
           /\ reports' = reports /\ exit' = exit
  <2> DEFINE u == [t EXCEPT !.pc = "target", !.res = res, !.plan = plan.files]
             m == Len(plan.files)
             d == due[p] \cup {<<t.ref, k>> : k \in 1..m}
  <2>1. plan.files \in Seq(FileType) /\ \A i \in DOMAIN plan.files : plan.files[i].chain # <<>>
    BY <1>9, JobFacts, PlanProperties
  <2>2. t.file = 1 /\ t.next = 1
    BY <1>1 DEF Account
  <2>3. /\ u.pc = "target" /\ u.res = res /\ u.plan = plan.files /\ u.ref = t.ref
        /\ u.file = 1 /\ u.next = 1 /\ u.failed = t.failed /\ u.refFailed = t.refFailed
    BY <1>1, <2>2 DEF IsTask
  <2>4. Goto(p, u) /\ due' = [due EXCEPT ![p] = @ \cup {<<t.ref, k>> : k \in DOMAIN plan.files}]
    BY <1>9
  <2>5. res \in Seq(EntryType(LinkType)) /\ plan.ok /\ plan.files # <<>>
    BY <1>9 DEF Media
  <2> HIDE DEF u
  <2>6. u.plan = PlanDownload(u.res, job[p].quality, job[p].kind).files
        /\ PlanDownload(u.res, job[p].quality, job[p].kind).ok
    BY <2>3, <2>5
  <2> HIDE DEF plan
  <2>7. m \in Nat /\ DOMAIN plan.files = 1..m /\ 1 \in DOMAIN plan.files
        /\ \A i \in DOMAIN plan.files : plan.files[i] \in FileType
    BY <2>1, <2>5, EmptySeq
  <2>8. 1 \in DOMAIN plan.files[1].chain
    <3>1. plan.files[1].chain \in Seq(LinkType) /\ plan.files[1].chain # <<>>
      BY <2>1, <2>7 DEF FileType
    <3> QED
      BY <3>1, EmptySeq
  <2>9. u.file \in DOMAIN u.plan /\ u.next \in DOMAIN u.plan[u.file].chain
    BY <2>3, <2>7, <2>8
  <2>10. u.pc \in TaskPCs /\ PlanState(p, u)
    BY <2>3, <2>5, <2>6, <2>9 DEF PlanState, TaskPCs, FilePCs
  <2>11. Len(u.plan) = m /\ u.file = t.file
    BY <2>2, <2>3
  <2>12. due' = [due EXCEPT ![p] = d]
    BY <2>4, <2>7
  <2> HIDE DEF m
  <2>13. Ledger(n, d, w, reports[p]) /\ Account(n, d, w, reports[p], u)
    BY <1>1, <2>3, <2>7, <2>11, AccountPlans
  <2> HIDE DEF d, w
  <2>14. Books(p, d, w, reports[p], u, -1)
    BY <2>13 DEF Books, n
  <2>15. reports' = [reports EXCEPT ![p] = reports[p]]
    BY <1>5, <1>9
  <2>16. Leaves(p, d, w, reports[p], u, -1)
    BY <1>5, <1>9, <2>4, <2>12, <2>15 DEF Leaves, Goto
  <2> QED
    BY <2>10, <2>14, <2>16, StepBalances
<1> HIDE DEF plan
<1> QED
  BY <1>6, <1>7, <1>8, <1>9 DEF Resolved, plan, v

(* ResolveStatus: another strategy, or what one has found.                 *)
LEMMA ResolveStatusBalances ==
    ASSUME IInv, BatchInv, NEW p \in Procs, ResolveStatus(p)
    PROVE  BatchInv'
<1> DEFINE t == task[p]
           n == Len(job[p].refs)
           order == job[p].strategies
           u == [t EXCEPT !.strategy = @ + 1]
<1>1. exit[p] = -1 /\ t.pc = "resolve" /\ UNCHANGED <<job, dir, cancelled, pipe>>
  BY DEF ResolveStatus, Running
<1>2. /\ IsTask(t) /\ n \in Nat
      /\ Ledger(n, due[p], rows[p], reports[p]) /\ Account(n, due[p], rows[p], reports[p], t)
  BY <1>1, RunningBooks
<1>3. CASE Report(p, <<t.ref, 0>>, NextRef(p, Failing(t))) /\ UNCHANGED <<due, rows>>
  BY <1>1, <1>3, RefFails
<1>4. CASE Goto(p, u) /\ UNCHANGED <<due, rows, reports, exit>>
  <2>1. Account(n, due[p], rows[p], reports[p], u)
    BY <1>1, <1>2, AccountGoesOn
  <2>2. u.pc = "resolve"
    BY <1>1, <1>2 DEF IsTask
  <2> HIDE DEF u
  <2>3. u.pc \in TaskPCs /\ PlanState(p, u)
    BY <2>2 DEF TaskPCs, FilePCs, PlanState
  <2>4. UNCHANGED <<job, due, rows, reports, cancelled, pipe, exit>>
    BY <1>1, <1>4
  <2> QED
    BY <1>1, <1>4, <2>1, <2>3, <2>4, QuietGoto
<1>5. CASE /\ ~(p \in cancelled \/ t.strategy > Len(order))
           /\ \E body \in Answers[order[t.strategy]] :
                 Resolved(p, ResolveOne(order[t.strategy], body, job[p].quality))
  <2>1. PICK body \in Answers[order[t.strategy]] :
            Resolved(p, ResolveOne(order[t.strategy], body, job[p].quality))
    BY <1>5
  <2>2. order \in Seq(Strategies) /\ job[p].quality \in Qualities
    BY JobFacts
  <2>3. t.strategy \in Nat \ {0}
    BY <1>1, <1>2 DEF Account
  <2>4. order[t.strategy] \in Strategies
    <3>1. t.strategy \in 1..Len(order)
      BY <1>5, <2>2, <2>3
    <3> QED
      BY <2>2, <3>1, ElementOfSeq
  <2>5. ResolveOne(order[t.strategy], body, job[p].quality) \in Seq(Media)
    BY <2>1, <2>2, <2>4, ResolveTyped
  <2> QED
    BY <1>1, <2>1, <2>5, ResolvedBalances
<1> QED
  BY <1>3, <1>4, <1>5 DEF ResolveStatus

(* Target: a file gets its name, or has none.                              *)
LEMMA TargetBalances ==
    ASSUME IInv, BatchInv, NEW p \in Procs, Target(p)
    PROVE  BatchInv'
<1> DEFINE t    == task[p]
           name == Unused(FilenameFor(p, t), t.used)
           u    == [t EXCEPT !.pc = "fetch", !.path = Path(Folder(p, t), name),
                             !.used = @ \cup {name}]
<1>1. exit[p] = -1 /\ t.pc = "target" /\ UNCHANGED <<job, dir, due, rows, cancelled, pipe>>
  BY DEF Target, Running
<1>2. IsTask(t) /\ PlanState(p, t) /\ t.pc \in FilePCs
  BY <1>1, RunningBooks DEF FilePCs
<1>3. CASE Report(p, <<t.ref, t.file>>, NextFile(p, Failing(t)))
  BY <1>1, <1>2, <1>3, FileFails
<1>4. CASE Goto(p, u) /\ UNCHANGED <<reports, exit>>
  <2>1. /\ u.pc = "fetch" /\ u.next = t.next /\ u.res = t.res /\ u.plan = t.plan
        /\ u.ref = t.ref /\ u.file = t.file /\ u.failed = t.failed /\ u.refFailed = t.refFailed
    BY <1>2 DEF IsTask
  <2> HIDE DEF u
  <2>2. u.pc \in FilePCs /\ u.next \in DOMAIN t.plan[t.file].chain
    BY <1>2, <2>1, PlanFacts DEF FilePCs
  <2>3. UNCHANGED <<job, due, rows, reports, cancelled, pipe, exit>>
    BY <1>1, <1>4
  <2> QED
    BY <1>1, <1>2, <1>4, <2>1, <2>2, <2>3, FileGoesOn
<1> QED
  BY <1>3, <1>4 DEF Target

(* FetchToFile and FetchToFileAuto up to the first byte.                   *)
LEMMA FetchBalances ==
    ASSUME IInv, BatchInv, NEW p \in Procs, Fetch(p)
    PROVE  BatchInv'
<1> DEFINE t == task[p]
           u == [t EXCEPT !.pc = "stream", !.there = Named]
<1>1. exit[p] = -1 /\ t.pc = "fetch"
      /\ job' = job /\ due' = due /\ rows' = rows /\ cancelled' = cancelled /\ pipe' = pipe
  BY DEF Fetch, Running
<1>2. IsTask(t) /\ PlanState(p, t) /\ t.pc \in FilePCs
  BY <1>1, RunningBooks DEF FilePCs
<1>3. CASE Exists(p)
  BY <1>1, <1>2, <1>3, ExistsBalances
<1>4. CASE LinkFails(p)
  BY <1>1, <1>2, <1>4, LinkFailsBalances
<1>5. CASE Goto(p, u) /\ UNCHANGED <<reports, exit>>
  <2>1. /\ u.pc = "stream" /\ u.next = t.next /\ u.res = t.res /\ u.plan = t.plan
        /\ u.ref = t.ref /\ u.file = t.file /\ u.failed = t.failed /\ u.refFailed = t.refFailed
    BY <1>2 DEF IsTask
  <2> HIDE DEF u
  <2>2. u.pc \in FilePCs /\ u.next \in DOMAIN t.plan[t.file].chain
    BY <1>2, <2>1, PlanFacts DEF FilePCs
  <2>3. UNCHANGED <<job, due, rows, reports, cancelled, pipe, exit>>
    BY <1>1, <1>5
  <2> QED
    BY <1>1, <1>2, <1>5, <2>1, <2>2, <2>3, FileGoesOn
<1> QED
  BY <1>3, <1>4, <1>5 DEF Fetch

(* The body, to its end or not.                                            *)
LEMMA StreamBalances ==
    ASSUME IInv, BatchInv, NEW p \in Procs, StreamTo(p)
    PROVE  BatchInv'
<1> DEFINE t == task[p]
           u == [t EXCEPT !.pc = "publish"]
           named(type) == [t EXCEPT !.pc = "compare",
                                    !.path.name.ext = ExtFromContentType(t, type)]
<1>1. exit[p] = -1 /\ t.pc = "stream"
      /\ job' = job /\ due' = due /\ rows' = rows /\ cancelled' = cancelled /\ pipe' = pipe
  BY DEF StreamTo, Running
<1>2. IsTask(t) /\ PlanState(p, t) /\ t.pc \in FilePCs
  BY <1>1, RunningBooks DEF FilePCs
<1>3. CASE LinkFails(p)
  BY <1>1, <1>2, <1>3, LinkFailsBalances
<1>4. ASSUME NEW v, Goto(p, v), reports' = reports, exit' = exit, v.pc \in FilePCs,
             v.next = t.next, v.res = t.res, v.plan = t.plan,
             v.ref = t.ref, v.file = t.file, v.failed = t.failed, v.refFailed = t.refFailed
      PROVE  BatchInv'
  <2>1. v.next \in DOMAIN t.plan[t.file].chain
    BY <1>2, <1>4, PlanFacts
  <2>2. UNCHANGED <<job, due, rows, reports, cancelled, pipe, exit>>
    BY <1>1, <1>4
  <2> QED
    BY <1>1, <1>2, <1>4, <2>1, <2>2, FileGoesOn
<1>5. CASE Goto(p, u) /\ UNCHANGED <<reports, exit>>
  <2>1. /\ u.pc \in FilePCs /\ u.next = t.next /\ u.res = t.res /\ u.plan = t.plan
        /\ u.ref = t.ref /\ u.file = t.file /\ u.failed = t.failed /\ u.refFailed = t.refFailed
    BY <1>2 DEF IsTask, FilePCs
  <2> HIDE DEF u
  <2> QED
    BY <1>4, <1>5, <2>1
<1>6. ASSUME NEW type, Goto(p, named(type)), reports' = reports, exit' = exit PROVE BatchInv'
  <2> DEFINE v == named(type)
  <2>1. /\ v.pc \in FilePCs /\ v.next = t.next /\ v.res = t.res /\ v.plan = t.plan
        /\ v.ref = t.ref /\ v.file = t.file /\ v.failed = t.failed /\ v.refFailed = t.refFailed
    BY <1>2 DEF IsTask, FilePCs
  <2>2. Goto(p, v)
    BY <1>6
  <2> HIDE DEF v
  <2> QED
    BY <1>4, <1>6, <2>1, <2>2
<1>7. \/ LinkFails(p)
      \/ Goto(p, u) /\ UNCHANGED <<reports, exit>>
      \/ \E type \in Exts \cup {NoExt} : Goto(p, named(type)) /\ UNCHANGED <<reports, exit>>
  BY DEF StreamTo
<1> QED
  BY <1>3, <1>5, <1>6, <1>7

(* FetchToFileAuto's second look.                                          *)
LEMMA CompareBalances ==
    ASSUME IInv, BatchInv, NEW p \in Procs, Compare(p)
    PROVE  BatchInv'
<1> DEFINE t == task[p]
           u == [t EXCEPT !.pc = "publish", !.there = Named]
<1>1. exit[p] = -1 /\ t.pc = "compare"
      /\ job' = job /\ due' = due /\ rows' = rows /\ cancelled' = cancelled /\ pipe' = pipe
  BY DEF Compare, Running
<1>2. IsTask(t) /\ PlanState(p, t) /\ t.pc \in FilePCs
  BY <1>1, RunningBooks DEF FilePCs
<1>3. CASE Exists(p)
  BY <1>1, <1>2, <1>3, ExistsBalances
<1>4. CASE LinkFails(p)
  BY <1>1, <1>2, <1>4, LinkFailsBalances
<1>5. CASE Goto(p, u) /\ UNCHANGED <<reports, exit>>
  <2>1. /\ u.pc = "publish" /\ u.next = t.next /\ u.res = t.res /\ u.plan = t.plan
        /\ u.ref = t.ref /\ u.file = t.file /\ u.failed = t.failed /\ u.refFailed = t.refFailed
    BY <1>2 DEF IsTask
  <2> HIDE DEF u
  <2>2. u.pc \in FilePCs /\ u.next \in DOMAIN t.plan[t.file].chain
    BY <1>2, <2>1, PlanFacts DEF FilePCs
  <2>3. UNCHANGED <<job, due, rows, reports, cancelled, pipe, exit>>
    BY <1>1, <1>5
  <2> QED
    BY <1>1, <1>2, <1>5, <2>1, <2>2, <2>3, FileGoesOn
<1>6. Exists(p) \/ LinkFails(p) \/ (Goto(p, u) /\ UNCHANGED <<reports, exit>>)
  BY DEF Compare
<1> QED
  BY <1>3, <1>4, <1>5, <1>6

(* The rename, and the size of a file that was there.                      *)
LEMMA PublishBalances ==
    ASSUME IInv, BatchInv, NEW p \in Procs, Publish(p) \/ SkipRecord(p)
    PROVE  BatchInv'
<1> DEFINE t == task[p]
           u == [t EXCEPT !.pc = "row"]
<1>1. exit[p] = -1 /\ t.pc \in {"publish", "skip"}
      /\ job' = job /\ due' = due /\ rows' = rows /\ cancelled' = cancelled /\ pipe' = pipe
  BY DEF Publish, SkipRecord, Running
<1>2. IsTask(t) /\ PlanState(p, t) /\ t.pc \in FilePCs
  BY <1>1, RunningBooks DEF FilePCs
<1>3. CASE LinkFails(p)
  BY <1>1, <1>2, <1>3, LinkFailsBalances
<1>4. CASE Report(p, <<t.ref, t.file>>, NextFile(p, Failing(t)))
  BY <1>1, <1>2, <1>4, FileFails
<1>5. CASE Goto(p, u) /\ UNCHANGED <<reports, exit>>
  <2>1. /\ u.pc = "row" /\ u.next = t.next /\ u.res = t.res /\ u.plan = t.plan
        /\ u.ref = t.ref /\ u.file = t.file /\ u.failed = t.failed /\ u.refFailed = t.refFailed
    BY <1>2 DEF IsTask
  <2> HIDE DEF u
  <2>2. u.pc \in FilePCs /\ u.next \in DOMAIN t.plan[t.file].chain
    BY <1>2, <2>1, PlanFacts DEF FilePCs
  <2>3. UNCHANGED <<job, due, rows, reports, cancelled, pipe, exit>>
    BY <1>1, <1>5
  <2> QED
    BY <1>1, <1>2, <1>5, <2>1, <2>2, <2>3, FileGoesOn
<1>6. \/ LinkFails(p) \/ Report(p, <<t.ref, t.file>>, NextFile(p, Failing(t)))
      \/ (Goto(p, u) /\ UNCHANGED <<reports, exit>>)
  BY DEF Publish, SkipRecord
<1> QED
  BY <1>3, <1>4, <1>5, <1>6

(* A file is done, and said to be.                                         *)
LEMMA RowBalances ==
    ASSUME IInv, BatchInv, NEW p \in Procs, Row(p)
    PROVE  BatchInv'
<1> DEFINE t == task[p]
           n == Len(job[p].refs)
           x == <<t.ref, t.file>>
           v == NextFile(p, t)
           w == rows[p] \cup {x}
<1>1. /\ exit[p] = -1 /\ t.pc = "row"
      /\ rows' = IF Heard(p) THEN [rows EXCEPT ![p] = w] ELSE rows
      /\ Say(p, FALSE, v)
      /\ job' = job /\ due' = due /\ reports' = reports /\ cancelled' = cancelled /\ pipe' = pipe
  BY DEF Row, Running
<1>2. /\ IsTask(t) /\ PlanState(p, t) /\ t.pc \in FilePCs /\ n \in Nat
      /\ Ledger(n, due[p], rows[p], reports[p]) /\ Account(n, due[p], rows[p], reports[p], t)
  BY <1>1, RunningBooks DEF FilePCs
<1>3. Len(t.plan) \in Nat /\ t.file \in 1..Len(t.plan)
  BY <1>2, PlanFacts
<1> HIDE DEF n
<1>4. Ledger(n, due[p], w, reports[p]) /\ Account(n, due[p], w, reports[p], v)
  BY <1>2, <1>3, FileSettled
<1>5. v.pc \in TaskPCs /\ PlanState(p, v)
  BY <1>2, NextFilePlanned
<1>6. /\ due = [due EXCEPT ![p] = due[p]] /\ rows = [rows EXCEPT ![p] = rows[p]]
      /\ reports = [reports EXCEPT ![p] = reports[p]] /\ exit = [exit EXCEPT ![p] = exit[p]]
  BY SameAsBefore
<1> HIDE DEF v
<1>7. CASE Heard(p)
  <2>1. Goto(p, v) /\ exit' = exit
    BY <1>1, <1>7 DEF Say
  <2>2. /\ rows' = [rows EXCEPT ![p] = w] /\ due' = [due EXCEPT ![p] = due[p]]
        /\ reports' = [reports EXCEPT ![p] = reports[p]]
    BY <1>1, <1>6, <1>7
  <2> HIDE DEF w
  <2>3. Books(p, due[p], w, reports[p], v, -1)
    BY <1>4 DEF Books, n
  <2>4. Leaves(p, due[p], w, reports[p], v, -1)
    BY <1>1, <1>6, <2>1, <2>2 DEF Leaves, Goto
  <2> QED
    BY <1>5, <2>3, <2>4, StepBalances
<1>8. CASE ~Heard(p)
  <2>1. rows' = rows
    BY <1>1, <1>8
  <2>2. /\ rows' = [rows EXCEPT ![p] = rows[p]] /\ due' = [due EXCEPT ![p] = due[p]]
        /\ reports' = [reports EXCEPT ![p] = reports[p]]
    BY <1>1, <1>6, <2>1
  <2>3. /\ Say(p, FALSE, v) /\ FALSE \in BOOLEAN /\ exit[p] = -1
        /\ job' = job /\ cancelled' = cancelled /\ pipe' = pipe
    BY <1>1
  <2>4. Ledger(Len(job[p].refs), due[p], rows[p], reports[p])
    BY <1>2 DEF n
  <2> HIDE DEF w, x, t
  <2> QED
    BY <1>5, <1>8, <2>2, <2>3, <2>4, SayBalances
<1> QED
  BY <1>7, <1>8

(* The last line: with exit status 0 nothing is reported, and all that was *)
(* due is listed.                                                          *)
LEMMA FinishBalances ==
    ASSUME IInv, BatchInv, NEW p \in Procs, Finish(p)
    PROVE  BatchInv'
<1> DEFINE t == task[p]
           n == Len(job[p].refs)
<1>1. PICK said \in BOOLEAN :
          /\ End(p, IF said /\ t.failed = 0 THEN 0 ELSE 1)
          /\ said \/ pipe[p] # "open"
  BY DEF Finish
<1>2. /\ exit[p] = -1 /\ t.pc = "print" /\ UNCHANGED <<job, due, rows, reports, cancelled, pipe>>
  BY DEF Finish, Running
<1>3. /\ n \in Nat /\ Ledger(n, due[p], rows[p], reports[p])
      /\ Account(n, due[p], rows[p], reports[p], t)
  BY <1>2, RunningBooks
<1>4. due[p] \ (rows[p] \cup reports[p]) = {} /\ t.failed = Cardinality(Failed(reports[p]))
  BY <1>2, <1>3 DEF Account, FilePCs
<1>5. due[p] = rows[p] \cup reports[p]
  BY <1>3, <1>4 DEF Ledger
<1>6. Cardinality(Failed(reports[p])) \in Nat
      /\ (Cardinality(Failed(reports[p])) = 0 => reports[p] = {})
  BY <1>3, FailedFinite
<1>7. CASE End(p, 0) /\ t.failed = 0
  <2>1. Books(p, due[p], rows[p], reports[p], t, 0)
    BY <1>3, <1>4, <1>5, <1>6, <1>7 DEF Books
  <2> QED
    BY <1>2, <1>7, <2>1, QuietEnd
<1>8. CASE End(p, 1) /\ ~(said /\ t.failed = 0)
  <2>1. pipe[p] # "open" \/ t.failed > 0
    BY <1>1, <1>4, <1>6, <1>8
  <2>2. Books(p, due[p], rows[p], reports[p], t, 1)
    BY <1>3, <1>4, <1>5, <2>1 DEF Books
  <2> QED
    BY <1>2, <1>8, <2>2, QuietEnd
<1> QED
  BY <1>1, <1>7, <1>8

(* download --clean-temp has nothing due.                                  *)
LEMMA SweepBalances ==
    ASSUME IInv, BatchInv, NEW p \in Procs, SweepBegin(p) \/ Sweep(p) \/ SweepEnd(p)
    PROVE  BatchInv'
<1> DEFINE t == task[p]
           n == Len(job[p].refs)
<1>1. /\ exit[p] = -1 /\ t.pc \in {"start", "sweep"}
      /\ UNCHANGED <<job, due, rows, reports, cancelled, pipe>>
  BY DEF SweepBegin, Sweep, SweepEnd, Running
<1>2. /\ IsTask(t) /\ n \in Nat /\ Ledger(n, due[p], rows[p], reports[p])
      /\ Account(n, due[p], rows[p], reports[p], t)
  BY <1>1, RunningBooks
<1>3. due[p] = {}
  BY <1>1, <1>2 DEF Account
<1>4. rows[p] = {}
  BY <1>2, <1>3 DEF Ledger
<1>5. ASSUME NEW u, Goto(p, u), exit' = exit, u.pc = "sweep" PROVE BatchInv'
  <2>1. Account(n, due[p], rows[p], reports[p], u)
    BY <1>3, <1>5 DEF Account, FilePCs
  <2>2. u.pc \in TaskPCs /\ PlanState(p, u)
    BY <1>5 DEF TaskPCs, FilePCs, PlanState
  <2>3. UNCHANGED <<job, due, rows, reports, cancelled, pipe, exit>>
    BY <1>1, <1>5
  <2> QED
    BY <1>1, <1>5, <2>1, <2>2, <2>3, QuietGoto
<1>6. ASSUME NEW s \in {0, 1}, End(p, s) PROVE BatchInv'
  <2>1. Books(p, due[p], rows[p], reports[p], t, s)
    BY <1>2, <1>3, <1>4, <1>6 DEF Books
  <2> QED
    BY <1>1, <1>6, <2>1, QuietEnd
<1>7. CASE SweepBegin(p)
  <2> DEFINE u == [t EXCEPT !.pc = "sweep",
                            !.left = {f \in DOMAIN dir : job[p].everything \/ dir[f].by = Nobody}]
  <2>1. Goto(p, u) /\ exit' = exit
    BY <1>7 DEF SweepBegin
  <2>2. u.pc = "sweep"
    BY <1>2 DEF IsTask
  <2> HIDE DEF u
  <2> QED
    BY <1>5, <2>1, <2>2
<1>8. CASE Sweep(p)
  <2>1. t.pc = "sweep" /\ exit' = exit
    BY <1>8 DEF Sweep, Running
  <2>2. PICK f \in t.left :
            \/ Goto(p, [t EXCEPT !.left = @ \ {f}])
            \/ Goto(p, [[t EXCEPT !.left = @ \ {f}] EXCEPT !.failed = @ + 1])
    BY <1>8 DEF Sweep
  <2>3. /\ [t EXCEPT !.left = @ \ {f}].pc = "sweep"
        /\ [[t EXCEPT !.left = @ \ {f}] EXCEPT !.failed = @ + 1].pc = "sweep"
    BY <1>2, <2>1 DEF IsTask
  <2> QED
    BY <1>5, <2>1, <2>2, <2>3
<1>9. CASE SweepEnd(p)
  BY <1>6, <1>9 DEF SweepEnd
<1> QED
  BY <1>7, <1>8, <1>9

(* A process is killed.                                                    *)
LEMMA KillBalances ==
    ASSUME IInv, BatchInv, NEW p \in Procs, Kill(p)
    PROVE  BatchInv'
<1>1. exit[p] = -1 /\ End(p, -9) /\ UNCHANGED <<job, due, rows, reports, cancelled, pipe>>
  BY DEF Kill
<1>2. Ledger(Len(job[p].refs), due[p], rows[p], reports[p])
  BY <1>1, RunningBooks
<1>3. Books(p, due[p], rows[p], reports[p], task[p], -9)
  BY <1>2 DEF Books
<1> QED
  BY <1>1, <1>3, QuietEnd

(* A signal, or a reader that hangs up: it bears on processes that run.    *)
LEMMA OutsideBalances ==
    ASSUME IInv, BatchInv, NEW p \in Procs, Cancel(p) \/ PipeBreaks(p)
    PROVE  BatchInv'
<1>1. /\ exit[p] = -1
      /\ UNCHANGED <<job, task, dir, due, rows, reports, exit>>
      /\ cancelled' \subseteq Procs
      /\ pipe' \in [Procs -> {"open", "closed", "full"}]
      /\ \A q \in Procs : q # p => pipe'[q] = pipe[q] /\ (q \in cancelled' <=> q \in cancelled)
  BY DEF Cancel, PipeBreaks, BatchInv
<1>2. ASSUME NEW q \in Procs
      PROVE  /\ task'[q].pc \in TaskPCs
             /\ PlanState(q, task[q])'
             /\ Books(q, due[q], rows[q], reports[q], task[q], exit[q])'
  <2>1. /\ task[q].pc \in TaskPCs /\ PlanState(q, task[q])
        /\ Books(q, due[q], rows[q], reports[q], task[q], exit[q])
    BY DEF BatchInv
  <2>2. PICK dd, ww, rr, tt, ss :
            /\ dd = due[q] /\ ww = rows[q] /\ rr = reports[q] /\ tt = task[q] /\ ss = exit[q]
    OBVIOUS
  <2>3. dd = due'[q] /\ ww = rows'[q] /\ rr = reports'[q] /\ tt = task'[q] /\ ss = exit'[q]
    BY <1>1, <2>2
  <2>4. PlanState(q, tt) /\ Books(q, dd, ww, rr, tt, ss)
    BY <2>1, <2>2
  <2>5. ss = -1 \/ (pipe'[q] = pipe[q] /\ (q \in cancelled' <=> q \in cancelled))
    BY <1>1, <2>2
  <2>6. PlanState(q, tt)' /\ Books(q, dd, ww, rr, tt, ss)'
    BY <1>1, <2>4, <2>5, OthersBooks
  <2>7. PlanState(q, task[q])'
    BY <2>3, <2>6 DEF PlanState
  <2>8. Books(q, due[q], rows[q], reports[q], task[q], exit[q])'
    BY <2>3, <2>6 DEF Books
  <2> QED
    BY <1>1, <2>1, <2>7, <2>8
<1>3. /\ job' \in Batches
      /\ due' \in [Procs -> SUBSET (Nat \X Nat)]
      /\ rows' \in [Procs -> SUBSET (Nat \X Nat)]
      /\ reports' \in [Procs -> SUBSET (Nat \X Nat)]
  BY <1>1 DEF BatchInv
<1> QED
  BY <1>1, <1>2, <1>3 DEF BatchInv

(* Nothing is due at first, ...                                            *)
LEMMA InitBatch == Init => BatchInv
<1> SUFFICES ASSUME Init PROVE BatchInv
  OBVIOUS
<1>1. /\ job \in Batches
      /\ due \in [Procs -> SUBSET (Nat \X Nat)]
      /\ rows \in [Procs -> SUBSET (Nat \X Nat)]
      /\ reports \in [Procs -> SUBSET (Nat \X Nat)]
      /\ cancelled \subseteq Procs
      /\ pipe \in [Procs -> {"open", "closed", "full"}]
  BY DEF Init
<1>2. ASSUME NEW p \in Procs
      PROVE  /\ task[p].pc \in TaskPCs
             /\ PlanState(p, task[p])
             /\ Books(p, due[p], rows[p], reports[p], task[p], exit[p])
  <2> DEFINE n == Len(job[p].refs)
  <2>1. /\ due[p] = {} /\ rows[p] = {} /\ reports[p] = {} /\ exit[p] = -1
        /\ task[p].pc = "start" /\ task[p].ref = 1 /\ task[p].strategy = 1
        /\ task[p].file = 1 /\ task[p].next = 1 /\ task[p].failed = 0 /\ ~task[p].refFailed
    BY DEF Init, Idle
  <2>2. n \in Nat
    <3>1. job[p] \in JobType
      BY <1>1, DownloadAssumption
    <3>2. job[p].refs \in Seq([id : STRING, user : STRING])
      BY <3>1 DEF JobType
    <3> QED
      BY <3>2
  <2>3. Cardinality(Failed(reports[p])) = 0
    <3>1. Failed(reports[p]) = {}
      BY <2>1 DEF Failed
    <3> QED
      BY <3>1, FS_EmptySet
  <2> HIDE DEF n
  <2>4. 1 \in 1..(n + 1)
    BY <2>2
  <2>5. Ledger(n, due[p], rows[p], reports[p])
    BY <2>1 DEF Ledger
  <2>6. Account(n, due[p], rows[p], reports[p], task[p])
    BY <2>1, <2>3, <2>4 DEF Account, FilePCs
  <2> QED
    BY <2>1, <2>5, <2>6 DEF Books, PlanState, TaskPCs, FilePCs, n
<1> QED
  BY <1>1, <1>2 DEF BatchInv

(* ... and every step keeps the books in order.                            *)
LEMMA StepBatch == IInv /\ BatchInv /\ [Next]_vars => BatchInv'
<1> SUFFICES ASSUME IInv, BatchInv, [Next]_vars PROVE BatchInv'
  OBVIOUS
<1>1. CASE UNCHANGED vars
  BY <1>1 DEF vars, BatchInv, PlanState, Books
<1>2. ASSUME NEW p \in Procs,
             \/ Refuse(p) \/ Begin(p) \/ TakeRef(p) \/ ResolveStatus(p)
             \/ Target(p) \/ Fetch(p) \/ StreamTo(p) \/ Compare(p) \/ Publish(p)
             \/ SkipRecord(p) \/ Row(p) \/ Finish(p)
             \/ SweepBegin(p) \/ Sweep(p) \/ SweepEnd(p)
             \/ Cancel(p) \/ PipeBreaks(p) \/ Kill(p)
      PROVE  BatchInv'
  BY <1>2, RefuseBalances, BeginBalances, TakeRefBalances, ResolveStatusBalances,
     TargetBalances, FetchBalances, StreamBalances, CompareBalances, PublishBalances,
     RowBalances, FinishBalances, SweepBalances, KillBalances, OutsideBalances
<1> QED
  BY <1>1, <1>2 DEF Next

(* However the processes interleave and end, each works on the plan of     *)
(* what it has found, and what it has settled and what it has not come to  *)
(* make up what is due.                                                    *)
THEOREM BooksBalance == Spec => []BatchInv
<1>1. Init => BatchInv
  BY InitBatch
<1>2. IInv /\ BatchInv /\ [Next]_vars => BatchInv'
  BY StepBatch
<1> QED
  BY <1>1, <1>2, DownloadInvariant, PTL DEF Spec

(* The types.  A file that is being fetched is one of its plan, and the    *)
(* link one of its chain.                                                  *)
THEOREM DownloadTypes == Spec => []TypeOK
<1>1. IInv /\ BatchInv => TypeOK
  <2> SUFFICES ASSUME IInv, BatchInv PROVE TypeOK
    OBVIOUS
  <2>1. ASSUME NEW p \in Procs
        PROVE  /\ task[p].pc \in TaskPCs
               /\ task[p].pc \in FilePCs =>
                    /\ task[p].file \in DOMAIN task[p].plan
                    /\ task[p].next \in DOMAIN task[p].plan[task[p].file].chain
               /\ rows[p] \cup reports[p] \subseteq due[p]
    BY DEF BatchInv, PlanState, Books, Ledger
  <2>2. DOMAIN task = Procs /\ exit \in [Procs -> {-9, -1, 0, 1, 2}]
    BY DEF IInv
  <2>3. DOMAIN due = Procs /\ DOMAIN rows = Procs /\ DOMAIN reports = Procs
    BY DEF BatchInv
  <2>4. \A path \in DOMAIN dir : DOMAIN dir[path] = {"by", "link", "whole", "older"}
    BY DEF IInv, DirState, IsContent
  <2>5. job \in Batches /\ cancelled \subseteq Procs
        /\ pipe \in [Procs -> {"open", "closed", "full"}]
    BY DEF BatchInv
  <2> QED
    BY <2>1, <2>2, <2>3, <2>4, <2>5 DEF TypeOK, TaskPCs, FilePCs
<1> QED
  BY <1>1, BooksBalance, DownloadInvariant, PTL

(* Each reference, and each file planned for it, ends up done or failed    *)
(* and not both, in a batch that was neither cancelled nor cut off; and    *)
(* exit status 0 means that nothing failed.  (download.go: runBatch;       *)
(* media.go: run)                                                          *)
THEOREM AllAccounted == Spec => []RefsAccounted
<1>1. BatchInv => RefsAccounted
  <2> SUFFICES ASSUME BatchInv, NEW p \in Procs
               PROVE  /\ rows[p] \cap reports[p] = {}
                      /\ exit[p] = 0 =>
                            \/ due[p] = rows[p]
                            \/ pipe[p] = "closed" /\ job[p].mode = "ndjson"
                      /\ exit[p] = 1 /\ pipe[p] = "open" /\ p \notin cancelled /\ due[p] # {} =>
                            /\ due[p] = rows[p] \cup reports[p]
                            /\ task[p].failed = Cardinality({r[1] : r \in reports[p]})
                            /\ task[p].failed > 0
    BY DEF RefsAccounted
  <2>1. Books(p, due[p], rows[p], reports[p], task[p], exit[p])
    BY DEF BatchInv
  <2> QED
    BY <2>1 DEF Books, Ledger, Failed
<1> QED
  BY <1>1, BooksBalance, PTL

(* Who reports, and when: a file that is being fetched is given up because *)
(* its last link has failed, unless it exists or the batch is cancelled.   *)
LEMMA OwnReports ==
    ASSUME IInv, BatchInv, [Next]_vars, NEW p \in Procs, reports'[p] # reports[p],
           task[p].pc \in {"fetch", "stream", "compare", "publish"}, p \notin cancelled,
           Forced(p) \/ task[p].path \notin DOMAIN dir
    PROVE  task[p].next = Len(task[p].plan[task[p].file].chain)
<1> DEFINE t == task[p]
           chain == t.plan[t.file].chain
<1>1. t.pc \in FilePCs /\ PlanState(p, t)
  BY DEF BatchInv, FilePCs
<1>2. t.next \in 1..Len(chain) /\ Len(chain) \in Nat
  BY <1>1, PlanFacts
<1>3. ASSUME LinkFails(p) PROVE ~(t.next < Len(chain))
  BY <1>3 DEF LinkFails
<1>4. ~Exists(p) \/ (~Forced(p) => t.path \notin DOMAIN dir)
  OBVIOUS
<1>5. ASSUME NEW q \in Procs,
             \/ Refuse(q) \/ Begin(q) \/ TakeRef(q) \/ ResolveStatus(q)
             \/ Target(q) \/ SkipRecord(q) \/ Row(q) \/ Finish(q)
             \/ SweepBegin(q) \/ Sweep(q) \/ SweepEnd(q)
             \/ Cancel(q) \/ PipeBreaks(q) \/ Kill(q)
      PROVE  ~(t.next < Len(chain))
  <2>1. CASE reports' = reports
    BY <2>1
  <2>2. ASSUME NEW x, reports' = [reports EXCEPT ![q] = @ \cup {x}],
               task[q].pc \in {"resolve", "target", "skip"}
        PROVE  FALSE
    <3>1. q # p
      BY <2>2
    <3> QED
      BY <2>2, <3>1
  <2>3. CASE ResolveStatus(q)
    <3>1. task[q].pc = "resolve"
      BY <2>3 DEF ResolveStatus, Running
    <3>2. reports' = reports \/ reports' = [reports EXCEPT ![q] = @ \cup {<<task[q].ref, 0>>}]
      BY <2>3 DEF ResolveStatus, Resolved, Report
    <3> QED
      BY <2>1, <2>2, <3>1, <3>2
  <2>4. CASE Target(q) \/ SkipRecord(q)
    <3>1. task[q].pc \in {"target", "skip"}
      BY <2>4 DEF Target, SkipRecord, Running
    <3>2. reports' = reports
          \/ reports' = [reports EXCEPT ![q] = @ \cup {<<task[q].ref, task[q].file>>}]
      BY <2>4 DEF Target, SkipRecord, Report
    <3> QED
      BY <2>1, <2>2, <3>1, <3>2
  <2>5. CASE ~(ResolveStatus(q) \/ Target(q) \/ SkipRecord(q))
    <3>1. reports' = reports
      BY <1>5, <2>5 DEF Refuse, Begin, TakeRef, Row, Finish, SweepBegin, Sweep, SweepEnd,
                        Cancel, PipeBreaks, Kill
    <3> QED
      BY <2>1, <3>1
  <2> QED
    BY <2>3, <2>4, <2>5
<1>6. ASSUME NEW q \in Procs, Fetch(q) \/ StreamTo(q) \/ Compare(q) \/ Publish(q)
      PROVE  ~(t.next < Len(chain))
  <2>1. reports' = reports
        \/ reports' = [reports EXCEPT ![q] = @ \cup {<<task[q].ref, task[q].file>>}]
    BY <1>6 DEF Fetch, StreamTo, Compare, Publish, LinkFails, Exists, Report
  <2>2. q = p
    <3>1. DOMAIN reports = Procs
      BY DEF BatchInv
    <3> QED
      BY <2>1, <3>1
  <2>3. CASE LinkFails(p)
    BY <1>3, <2>3
  <2>4. CASE ~LinkFails(p)
    <3>1. \/ reports' = reports
          \/ Fetch(p) /\ p \notin cancelled /\ ~Forced(p) /\ t.path \in DOMAIN dir
          \/ Compare(p) /\ ~Forced(p) /\ t.path \in DOMAIN dir
      BY <1>6, <2>2, <2>4 DEF Fetch, StreamTo, Compare, Publish
    <3> QED
      BY <3>1
  <2> QED
    BY <2>3, <2>4
<1>7. CASE UNCHANGED vars
  BY <1>7 DEF vars
<1>8. ~(t.next < Len(chain))
  BY <1>5, <1>6, <1>7 DEF Next
<1> QED
  BY <1>2, <1>8

(* A video is reported as failed only when every link to it has been       *)
(* tried, each once and none that leads to a playlist.  (selection.go:     *)
(* planConverged, fallbackChain; download.go: fetchFile)                   *)
THEOREM TriesEveryLink == Spec => ChainExhausted
<1> DEFINE Exhausted(p) ==
              LET t     == task[p]
                  chain == t.plan[t.file].chain
              IN  (/\ t.pc \in {"fetch", "stream", "compare", "publish"}
                   /\ reports'[p] # reports[p]
                   /\ p \notin cancelled
                   /\ Forced(p) \/ t.path \notin DOMAIN dir
                   /\ t.plan[t.file].kind \in {"video", "gif"})
                  => /\ t.next = Len(chain)
                     /\ LinksOf(p) \subseteq Range(chain)
                     /\ \A i, j \in DOMAIN chain : i # j => chain[i] # chain[j]
                     /\ \A i \in DOMAIN chain : ~Playlist(chain[i])
<1>1. ASSUME IInv, BatchInv, [Next]_vars, NEW p \in Procs PROVE Exhausted(p)
  <2> DEFINE t     == task[p]
             chain == t.plan[t.file].chain
  <2> SUFFICES ASSUME /\ t.pc \in {"fetch", "stream", "compare", "publish"}
                      /\ reports'[p] # reports[p]
                      /\ p \notin cancelled
                      /\ Forced(p) \/ t.path \notin DOMAIN dir
                      /\ t.plan[t.file].kind \in {"video", "gif"}
               PROVE  /\ t.next = Len(chain)
                      /\ LinksOf(p) \subseteq Range(chain)
                      /\ \A i, j \in DOMAIN chain : i # j => chain[i] # chain[j]
                      /\ \A i \in DOMAIN chain : ~Playlist(chain[i])
    OBVIOUS
  <2>1. t.next = Len(chain)
    BY <1>1, OwnReports
  <2>2. t.pc \in FilePCs /\ PlanState(p, t)
    BY <1>1 DEF BatchInv, FilePCs
  <2>3. /\ t.res \in Seq(Media)
        /\ PlanDownload(t.res, job[p].quality, job[p].kind).ok
        /\ t.plan = PlanDownload(t.res, job[p].quality, job[p].kind).files
        /\ t.file \in DOMAIN t.plan
    BY <2>2 DEF PlanState, Media
  <2>4. job[p].quality \in Qualities
    BY <1>1, JobFacts
  <2>5. /\ Distinct(chain)
        /\ \A i \in DOMAIN chain : ~Playlist(chain[i])
        /\ \A m \in Range(t.res) : \A link \in LinkType :
              Moving(m) /\ job[p].kind \in {"any", m.kind} /\ Leads(m, link)
                 => link \in Range(chain)
    BY <2>3, <2>4, PlanProperties
  <2>6. ASSUME NEW link \in LinksOf(p) PROVE link \in Range(chain)
    <3>1. PICK i \in DOMAIN t.res :
              /\ Moving(t.res[i]) /\ job[p].kind \in {"any", t.res[i].kind}
              /\ Leads(t.res[i], link)
      BY <2>6 DEF LinksOf, Leads
    <3>2. link \in LinkType
      BY <2>6, MediaAssumption DEF LinksOf
    <3>3. t.res[i] \in Range(t.res)
      BY <3>1 DEF Range
    <3> QED
      BY <2>5, <3>1, <3>2, <3>3
  <2>7. \A i, j \in DOMAIN chain : i # j => chain[i] # chain[j]
    BY <2>5 DEF Distinct
  <2> QED
    BY <2>1, <2>5, <2>6, <2>7
<1>2. IInv /\ BatchInv /\ [Next]_vars => [\A p \in Procs : Exhausted(p)]_vars
  BY <1>1
<1>3. IInv /\ BatchInv /\ [Next]_vars =>
        [\A p \in Procs :
          LET t     == task[p]
              chain == t.plan[t.file].chain
          IN  (/\ t.pc \in {"fetch", "stream", "compare", "publish"}
               /\ reports'[p] # reports[p]
               /\ p \notin cancelled
               /\ Forced(p) \/ t.path \notin DOMAIN dir
               /\ t.plan[t.file].kind \in {"video", "gif"})
              => /\ t.next = Len(chain)
                 /\ LinksOf(p) \subseteq Range(chain)
                 /\ \A i, j \in DOMAIN chain : i # j => chain[i] # chain[j]
                 /\ \A i \in DOMAIN chain : ~Playlist(chain[i])]_vars
  BY <1>2
<1> QED
  BY <1>3, BooksBalance, DownloadInvariant, PTL DEF Spec, ChainExhausted
=============================================================================
