----------------------------- MODULE Documents -----------------------------
(***************************************************************************)
(* The files under ~/.nitter-cli and the commands that rewrite them:       *)
(* seen.json (internal/storage/seen), circles.toml, profiles.toml and      *)
(* config.toml (internal/config).  Every command loads a document whole,   *)
(* changes its copy and publishes the copy whole, through a staging file   *)
(* and a rename; no lock is held over the three, so processes and a person *)
(* with an editor overtake each other.                                     *)
(*                                                                         *)
(* A document is a function of entries.  What an entry holds is the stamp  *)
(* of the change that wrote it, 0 when it is absent.  The "machine" part   *)
(* of an entry is what commands write (a source's state, a membership, the *)
(* facts of a profile, a setting), the "hand" part what only a person does *)
(* (the judgement of a profile, the array tables of the configuration).    *)
(***************************************************************************)
EXTENDS Naturals

CONSTANTS
    Procs,          \* processes, each running one command after the other
    Commands,       \* the commands they may run
    Names,          \* sources, handles, configuration keys
    MaxStamp,       \* bound: changes by commands and by hand
    MaxRuns         \* bound: commands started

AllCommands == {"watch", "delete", "clear", "add", "remove", "refresh", "set", "unset"}

ASSUME DocumentsAssumption ==
    Commands \subseteq AllCommands /\ MaxStamp \in Nat \ {0} /\ MaxRuns \in Nat

Docs    == {"seen", "circles", "profiles", "config"}
Forms   == {"missing", "whole", "partial", "malformed"}
Entries == Names \X {"machine", "hand"}
Empty   == [e \in Entries |-> 0]

VARIABLES
    form, data,     \* the files; a file that is not whole has no entries
    now, runs,      \* changes and commands so far
    pc,             \* what a process does next
    cmd, scope,     \* its command, and the names its change is about
    doc, copy,      \* the document it works on, and what it read or wrote last
    next,           \* what it is about to publish
    temp,           \* its staging file
    overtaken       \* history: somebody has changed the document since then

files == <<form, data, now, runs>>
local == <<pc, cmd, scope, doc, copy, next, temp>>
vars  == <<files, local, overtaken>>

TypeOK ==
    /\ form \in [Docs -> Forms]
    /\ data \in [Docs -> [Entries -> 0..MaxStamp]]
    /\ now \in 0..MaxStamp /\ runs \in 0..MaxRuns
    /\ pc \in [Procs -> {"off", "seed", "load", "use", "fetch", "save"}]
    /\ cmd \in [Procs -> AllCommands \cup {"none"}]
    /\ scope \in [Procs -> SUBSET Names]
    /\ doc \in [Procs -> Docs]
    /\ copy \in [Procs -> [Entries -> 0..MaxStamp]]
    /\ next \in [Procs -> [Entries -> 0..MaxStamp]]
    /\ temp \in [Procs -> {"none", "partial", "whole"}]
    /\ overtaken \subseteq Procs

-----------------------------------------------------------------------------
(* The document a command opens first. *)
FirstDoc(c) ==
    IF c \in {"watch", "delete", "clear"} THEN "seen"
    ELSE IF c \in {"add", "remove", "refresh"} THEN "circles"
    ELSE "config"

Goto(p, there) == pc' = [pc EXCEPT ![p] = there]

(* Who has read d. *)
Holders(d) == {p \in Procs : doc[p] = d /\ pc[p] \in {"use", "fetch", "save"}}

(* p replaces the file of d: whoever else has read it has an old copy. *)
Replace(p, d, content) ==
    /\ form' = [form EXCEPT ![d] = "whole"]
    /\ data' = [data EXCEPT ![d] = content]
    /\ overtaken' = (overtaken \cup Holders(d)) \ {p}

(* The process ends; what it held is gone. *)
End(p) ==
    /\ Goto(p, "off")
    /\ cmd' = [cmd EXCEPT ![p] = "none"]
    /\ scope' = [scope EXCEPT ![p] = {}]
    /\ doc' = [doc EXCEPT ![p] = "seen"]
    /\ copy' = [copy EXCEPT ![p] = Empty]
    /\ next' = [next EXCEPT ![p] = Empty]
    /\ temp' = [temp EXCEPT ![p] = "none"]

Quit(p) == End(p) /\ overtaken' = overtaken \ {p} /\ UNCHANGED files

(* What the arguments name: nothing for commands that take it from a       *)
(* document, every source for a clear without --source.                    *)
Start(p, c, n) ==
    /\ pc[p] = "off"
    /\ runs < MaxRuns /\ runs' = runs + 1
    /\ Goto(p, "seed")
    /\ cmd' = [cmd EXCEPT ![p] = c]
    /\ scope' = [scope EXCEPT ![p] = IF c \in {"watch", "refresh"} THEN {}
                                     ELSE IF c = "clear" THEN Names ELSE {n}]
    /\ doc' = [doc EXCEPT ![p] = FirstDoc(c)]
    /\ UNCHANGED <<form, data, now, copy, next, temp, overtaken>>

-----------------------------------------------------------------------------
(* EnsureDefaultConfigFile: every command publishes the baseline first,    *)
(* unless there is a configuration.  The baseline sets no entry.           *)

SeedFound(p) ==
    /\ pc[p] = "seed" /\ temp[p] = "none" /\ form["config"] # "missing"
    /\ Goto(p, "load")
    /\ UNCHANGED <<files, cmd, scope, doc, copy, next, temp, overtaken>>

SeedStage(p) ==
    /\ pc[p] = "seed" /\ temp[p] = "none" /\ form["config"] = "missing"
    /\ temp' = [temp EXCEPT ![p] = "partial"]
    /\ UNCHANGED <<files, pc, cmd, scope, doc, copy, next, overtaken>>

(* Faulty variant: the baseline is renamed into place. *)
SeedRename(p) ==
    /\ pc[p] = "seed" /\ temp[p] = "whole"
    /\ Replace(p, "config", Empty)
    /\ temp' = [temp EXCEPT ![p] = "none"]
    /\ Goto(p, "load")
    /\ UNCHANGED <<now, runs, cmd, scope, doc, copy, next>>

(* A hard link does not replace: whoever came first has won. *)
SeedLink(p) ==
    /\ pc[p] = "seed" /\ temp[p] = "whole"
    /\ IF form["config"] = "missing" THEN Replace(p, "config", Empty)
                                     ELSE UNCHANGED <<form, data, overtaken>>
    /\ temp' = [temp EXCEPT ![p] = "none"]
    /\ Goto(p, "load")
    /\ UNCHANGED <<now, runs, cmd, scope, doc, copy, next>>

-----------------------------------------------------------------------------
(* Loading. *)

(* A missing file is an empty document.  A malformed one is an error, but  *)
(* for LoadCircles, which takes it for an empty one.  A watch reads its    *)
(* settings before it opens the store.                                     *)
Loadable(p) ==
    /\ form[doc[p]] # "malformed" \/ doc[p] = "circles"
    /\ cmd[p] = "watch" => form["config"] # "malformed"

LoadFails(p) == pc[p] = "load" /\ ~Loadable(p) /\ Quit(p)

Load(p) ==
    /\ pc[p] = "load" /\ Loadable(p)
    /\ ~(cmd[p] = "refresh" /\ doc[p] = "circles")
    /\ copy' = [copy EXCEPT ![p] = data[doc[p]]]
    /\ overtaken' = overtaken \ {p}
    /\ Goto(p, IF cmd[p] = "refresh" THEN "fetch" ELSE "use")
    /\ UNCHANGED <<files, cmd, scope, doc, next, temp>>

Members(content) == {n \in Names : content[<<n, "machine">>] # 0}

(* A refresh reads the members, and turns to their profiles. *)
LoadRoster(p) ==
    /\ pc[p] = "load" /\ cmd[p] = "refresh" /\ doc[p] = "circles"
    /\ IF Members(data["circles"]) = {} THEN Quit(p)
       ELSE /\ scope' = [scope EXCEPT ![p] = Members(data["circles"])]
            /\ doc' = [doc EXCEPT ![p] = "profiles"]
            /\ UNCHANGED <<files, pc, cmd, copy, next, temp, overtaken>>

-----------------------------------------------------------------------------
(* Changing the copy. *)

Save(p, content) ==
    /\ next' = [next EXCEPT ![p] = content]
    /\ Goto(p, "save")

Stamp == now < MaxStamp /\ now' = now + 1

(* The copy with what the command writes of some names. *)
With(p, names, stamp) ==
    [e \in Entries |-> IF e \in names \X {"machine"} THEN stamp ELSE copy[p][e]]

(* Faulty variant: memory has the state before the file does. *)
PutAtOnce(p, n) ==
    /\ pc[p] = "use" /\ cmd[p] = "watch"
    /\ Stamp
    /\ Save(p, With(p, {n}, now + 1))
    /\ copy' = [copy EXCEPT ![p] = With(p, {n}, now + 1)]
    /\ scope' = [scope EXCEPT ![p] = {n}]
    /\ UNCHANGED <<form, data, runs, cmd, doc, temp, overtaken>>

(* A resident watch remembers what it has delivered of a source, again and *)
(* again, on the one copy it opened.                                       *)
Put(p, n) ==
    /\ pc[p] = "use" /\ cmd[p] = "watch"
    /\ Stamp
    /\ Save(p, With(p, {n}, now + 1))
    /\ scope' = [scope EXCEPT ![p] = {n}]
    /\ UNCHANGED <<form, data, runs, cmd, doc, copy, temp, overtaken>>

(* seen clear and circle remove write nothing when nothing is there. *)
Forget(p) ==
    /\ pc[p] = "use" /\ cmd[p] \in {"delete", "clear", "remove"}
    /\ IF scope[p] \cap Members(copy[p]) = {} THEN Quit(p)
       ELSE /\ Save(p, With(p, scope[p], 0))
            /\ UNCHANGED <<files, cmd, scope, doc, copy, temp, overtaken>>

(* circle add writes the circle in any case, and fetches a new member.     *)
Add(p) ==
    /\ pc[p] = "use" /\ cmd[p] = "add" /\ doc[p] = "circles"
    /\ IF scope[p] \subseteq Members(copy[p])
       THEN UNCHANGED now /\ Save(p, copy[p]) /\ scope' = [scope EXCEPT ![p] = {}]
       ELSE Stamp /\ Save(p, With(p, scope[p], now + 1)) /\ UNCHANGED scope
    /\ UNCHANGED <<form, data, runs, cmd, doc, copy, temp, overtaken>>

(* config set and unset always write. *)
Configure(p) ==
    /\ pc[p] = "use" /\ cmd[p] \in {"set", "unset"}
    /\ IF cmd[p] = "set" THEN Stamp /\ Save(p, With(p, scope[p], now + 1))
                         ELSE UNCHANGED now /\ Save(p, With(p, scope[p], 0))
    /\ UNCHANGED <<form, data, runs, cmd, scope, doc, copy, temp, overtaken>>

(* The network: a refresh has loaded the profiles before it, circle add    *)
(* loads them afterwards.                                                  *)
Fetch(p) ==
    /\ pc[p] = "fetch" /\ form["config"] # "malformed"
    /\ IF cmd[p] = "refresh" THEN Goto(p, "use") /\ UNCHANGED doc
       ELSE Goto(p, "load") /\ doc' = [doc EXCEPT ![p] = "profiles"]
    /\ UNCHANGED <<files, cmd, scope, copy, next, temp, overtaken>>

(* No client, or nobody's profile was fetched. *)
FetchFails(p) == pc[p] = "fetch" /\ Quit(p)

(* Faulty variant: a fetched profile takes the place of the stored one. *)
MergedOver(p, fetched) ==
    [e \in Entries |-> IF e[1] \notin fetched THEN copy[p][e]
                       ELSE IF e[2] = "machine" THEN now + 1 ELSE 0]

(* Faulty variant: the sidecar is rebuilt from what was fetched. *)
MergedAlone(p, fetched) == [e \in fetched \X {"machine"} |-> now + 1]

(* Once for every profile that was fetched: judgement is carried over. *)
MergeProfileFacts(p, fetched) == With(p, fetched, now + 1)

(* A refresh keeps what it has of a member whose fetch has failed. *)
Merge(p) ==
    /\ pc[p] = "use" /\ doc[p] = "profiles"
    /\ Stamp
    /\ \E fetched \in SUBSET scope[p] \ {{}} : Save(p, MergeProfileFacts(p, fetched))
    /\ UNCHANGED <<form, data, runs, cmd, scope, doc, copy, temp, overtaken>>

-----------------------------------------------------------------------------
(* writeFileAtomic. *)

(* Faulty variant: the file is written in place. *)
StageInPlace(p) ==
    /\ pc[p] = "save" /\ temp[p] = "none"
    /\ temp' = [temp EXCEPT ![p] = "partial"]
    /\ form' = [form EXCEPT ![doc[p]] = "partial"]
    /\ data' = [data EXCEPT ![doc[p]] = Empty]
    /\ UNCHANGED <<now, runs, pc, cmd, scope, doc, copy, next, overtaken>>

Stage(p) ==
    /\ pc[p] = "save" /\ temp[p] = "none"
    /\ temp' = [temp EXCEPT ![p] = "partial"]
    /\ UNCHANGED <<files, pc, cmd, scope, doc, copy, next, overtaken>>

(* Written, synced and closed. *)
Fill(p) ==
    /\ temp[p] = "partial"
    /\ temp' = [temp EXCEPT ![p] = "whole"]
    /\ UNCHANGED <<files, pc, cmd, scope, doc, copy, next, overtaken>>

(* A watch goes on after a write, circle add turns to a new member's       *)
(* profile.                                                                *)
GoesOn(p) ==
    \/ cmd[p] = "watch"
    \/ cmd[p] = "add" /\ doc[p] = "circles" /\ scope[p] # {}

(* Renamed: now the file and the memory are the new state. *)
Publish(p) ==
    /\ pc[p] = "save" /\ temp[p] = "whole"
    /\ Replace(p, doc[p], next[p])
    /\ IF GoesOn(p)
       THEN /\ Goto(p, IF cmd[p] = "watch" THEN "use" ELSE "fetch")
            /\ copy' = [copy EXCEPT ![p] = next[p]]
            /\ next' = [next EXCEPT ![p] = Empty]
            /\ temp' = [temp EXCEPT ![p] = "none"]
            /\ UNCHANGED <<cmd, scope, doc>>
       ELSE End(p)
    /\ UNCHANGED <<now, runs>>

(* Faulty variant: a failing write leaves its staging file. *)
PutFailsDirty(p) ==
    /\ pc[p] = "save" /\ cmd[p] = "watch"
    /\ Goto(p, "use")
    /\ next' = [next EXCEPT ![p] = Empty]
    /\ UNCHANGED <<files, cmd, scope, doc, copy, temp, overtaken>>

(* Any step of a write may fail: the staging file goes, the document and   *)
(* the copy stay.  A resident watch goes on, everybody else ends.          *)
PutFails(p) ==
    /\ pc[p] = "save" /\ cmd[p] = "watch"
    /\ Goto(p, "use")
    /\ next' = [next EXCEPT ![p] = Empty]
    /\ temp' = [temp EXCEPT ![p] = "none"]
    /\ UNCHANGED <<files, cmd, scope, doc, copy, overtaken>>

WriteFails(p) ==
    /\ \/ pc[p] = "save" /\ cmd[p] # "watch"
       \/ pc[p] = "seed" /\ (temp[p] # "none" \/ form["config"] = "missing")
    /\ Quit(p)

-----------------------------------------------------------------------------
(* Killed or stopped at any point. *)
Stop(p) == pc[p] # "off" /\ Quit(p)

(* A person writes an entry, breaks a file or removes it. *)
ByHand(d) == IF d = "circles" THEN "machine" ELSE "hand"

Edited(d, f, content) ==
    /\ form' = [form EXCEPT ![d] = f]
    /\ data' = [data EXCEPT ![d] = content]
    /\ overtaken' = overtaken \cup Holders(d)
    /\ UNCHANGED <<local, runs>>

Edit(d, n) ==
    /\ d # "seen"
    /\ Stamp
    /\ Edited(d, "whole", [data[d] EXCEPT ![<<n, ByHand(d)>>] = now + 1])

Break(d) == Stamp /\ Edited(d, "malformed", Empty)

Lose(d) == Stamp /\ Edited(d, "missing", Empty)

-----------------------------------------------------------------------------
(* A fresh installation, or documents that hold something of everything. *)
Kept(d) == [e \in Entries |-> IF e[2] = "machine" \/ d \in {"profiles", "config"} THEN 1 ELSE 0]

Init ==
    /\ \/ form = [d \in Docs |-> "missing"] /\ data = [d \in Docs |-> Empty]
       \/ form = [d \in Docs |-> "whole"] /\ data = [d \in Docs |-> Kept(d)]
    /\ now = 1 /\ runs = 0
    /\ pc = [p \in Procs |-> "off"]
    /\ cmd = [p \in Procs |-> "none"] /\ scope = [p \in Procs |-> {}]
    /\ doc = [p \in Procs |-> "seen"]
    /\ copy = [p \in Procs |-> Empty] /\ next = [p \in Procs |-> Empty]
    /\ temp = [p \in Procs |-> "none"]
    /\ overtaken = {}

Step(p) ==
    \/ SeedFound(p) \/ SeedStage(p) \/ SeedLink(p)
    \/ LoadFails(p) \/ Load(p) \/ LoadRoster(p)
    \/ \E n \in Names : Put(p, n)
    \/ Forget(p) \/ Add(p) \/ Configure(p)
    \/ Fetch(p) \/ FetchFails(p) \/ Merge(p)
    \/ Stage(p) \/ Fill(p) \/ Publish(p) \/ PutFails(p) \/ WriteFails(p)
    \/ Stop(p)

Hand == \E d \in Docs : Break(d) \/ Lose(d) \/ \E n \in Names : Edit(d, n)

Next ==
    \/ \E p \in Procs, c \in Commands, n \in Names : Start(p, c, n)
    \/ \E p \in Procs : Step(p)
    \/ Hand

Spec == Init /\ [][Next]_vars

-----------------------------------------------------------------------------
(* Properties. *)

NoHalfDocument   == \A d \in Docs : form[d] # "partial"
StagingIsRemoved == \A p \in Procs : temp[p] # "none" => pc[p] \in {"seed", "save"}

(* Whoever opens a document, at whatever point another process was killed  *)
(* or has failed, finds no half of one; and a staging file lives no longer *)
(* than the write it belongs to, also when the write fails                 *)
(* (writeFileAtomic, EnsureDefaultConfigFile).                             *)
DocumentsWhole == NoHalfDocument /\ StagingIsRemoved

(* What a process holds is what the file says, unless somebody else has    *)
(* changed the file since; also after a write that failed, and after any   *)
(* number of them (persistLocked: "a failed write leaves both disk and     *)
(* memory at the previous state").                                         *)
CopyIsCurrent ==
    \A d \in Docs : \A p \in Holders(d) \ overtaken :
        pc[p] # "save" => copy[p] = data[d]

(* A published document differs from the one it replaces in what the       *)
(* command is about and nowhere else, judgement and unknown keys included, *)
(* and it never replaces a malformed one, unless somebody has overtaken    *)
(* the command; circles.toml is only promised the first (SaveKnown,        *)
(* MergeProfileFacts, Put, LoadCircles).                                   *)
Publishes(p) == pc[p] = "save" /\ pc'[p] # "save"

KeepsTheRest(p) ==
    /\ \A e \in Entries \ (scope[p] \X {"machine"}) : data'[doc[p]][e] = data[doc[p]][e]
    /\ doc[p] # "circles" /\ form[doc[p]] = "malformed" => UNCHANGED form

LossNeedsOverlap ==
    [][\A p \in Procs \ overtaken : Publishes(p) => KeepsTheRest(p)]_vars

(* The baseline never takes the place of a configuration, however late its *)
(* writer gets to it (EnsureDefaultConfigFile).                            *)
SeedKeepsConfig ==
    [][\A p \in Procs : pc[p] = "seed" /\ pc'[p] # "seed" /\ form["config"] # "missing"
          => UNCHANGED files]_vars

(* Behind them: who has read a document and was not overtaken has read     *)
(* what it says, and of the others only LoadCircles reads a malformed one; *)
(* what is about to be published is the copy with the command's change.    *)
Reads(p) == pc[p] \in {"use", "fetch", "save"} /\ p \notin overtaken

CopyHeld ==
    \A p \in Procs : Reads(p) =>
        /\ copy[p] = data[doc[p]]
        /\ doc[p] # "circles" => form[doc[p]] # "malformed"

Agrees(p) ==
    \A e \in Entries \ (scope[p] \X {"machine"}) : next[p][e] = copy[p][e]

NextAgrees == \A p \in Procs : pc[p] = "save" => Agrees(p)

IInv == TypeOK /\ NoHalfDocument /\ CopyHeld /\ NextAgrees /\ StagingIsRemoved

(* Documented (profiles.go, "never touches the judgement fields"; the      *)
(* reference, "judgement recorded there survives every refresh"): no       *)
(* command changes a recorded judgement.                                   *)
JudgementSurvives ==
    [][\A p \in Procs : Publishes(p) /\ form["profiles"] = "whole" => \A n \in Names :
          data'["profiles"][<<n, "hand">>] = data["profiles"][<<n, "hand">>]]_vars
=============================================================================
