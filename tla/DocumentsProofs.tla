--------------------------- MODULE DocumentsProofs ---------------------------
(***************************************************************************)
(* The safety properties of Documents hold for any processes, commands and *)
(* names, however often a person interferes.  IInv is inductive: a copy    *)
(* that nobody has overtaken is the document, and what is about to be      *)
(* published differs from the copy in the command's own entries only.      *)
(***************************************************************************)
EXTENDS Documents, TLAPS

(* What End leaves of a process is typed, and nothing is asked of it. *)
LEMMA EmptyTyped == Empty \in [Entries -> 0..MaxStamp]
BY DocumentsAssumption DEF Empty

(* A changed copy is typed, and differs from the copy in the names alone   *)
(* (Put, Delete, Clear, MergeProfileFacts, and the other edits of a map).  *)
LEMMA WithTyped ==
    ASSUME TypeOK, NEW p \in Procs, NEW names, NEW stamp \in 0..MaxStamp
    PROVE  /\ With(p, names, stamp) \in [Entries -> 0..MaxStamp]
           /\ \A e \in Entries \ (names \X {"machine"}) :
                 With(p, names, stamp)[e] = copy[p][e]
BY DEF With, TypeOK

(* A fresh installation and one with documents (Open, LoadProfiles ...). *)
LEMMA InitInvariant == Init => IInv
BY EmptyTyped, DocumentsAssumption
   DEF Init, IInv, TypeOK, NoHalfDocument, CopyHeld, Reads, NextAgrees,
       StagingIsRemoved, Docs, Forms, Kept, Empty

(* The types survive every step of a command. *)
LEMMA StepTypes ==
    ASSUME IInv, NEW p \in Procs, Step(p)
    PROVE  TypeOK'
<1> USE DEF IInv, TypeOK, Goto, files
<1>0. 0 \in 0..MaxStamp /\ (now < MaxStamp => now + 1 \in 0..MaxStamp)
    BY DocumentsAssumption
<1>1. CASE Quit(p)
    BY <1>1, EmptyTyped DEF Quit, End, Docs
<1>2. CASE SeedFound(p) \/ SeedStage(p) \/ Load(p) \/ Stage(p) \/ Fill(p)
    BY <1>2 DEF SeedFound, SeedStage, Load, Stage, Fill
<1>3. CASE SeedLink(p)
    BY <1>3, EmptyTyped DEF SeedLink, Replace, Holders, Docs, Forms
<1>4. CASE LoadRoster(p)
    <2>1. CASE Members(data["circles"]) = {}
        BY <1>1, <1>4, <2>1 DEF LoadRoster
    <2>2. CASE Members(data["circles"]) # {}
        <3>1. Members(data["circles"]) \in SUBSET Names /\ "profiles" \in Docs
            BY DEF Members, Docs
        <3>2. /\ scope' = [scope EXCEPT ![p] = Members(data["circles"])]
              /\ doc' = [doc EXCEPT ![p] = "profiles"]
              /\ UNCHANGED <<files, pc, cmd, copy, next, temp, overtaken>>
            BY <1>4, <2>2 DEF LoadRoster
        <3> QED BY <3>1, <3>2
    <2> QED BY <2>1, <2>2
<1>5. ASSUME NEW n \in Names, Put(p, n) PROVE TypeOK'
    <2>1. now + 1 \in 0..MaxStamp
        BY <1>0, <1>5 DEF Put, Stamp
    <2>2. With(p, {n}, now + 1) \in [Entries -> 0..MaxStamp]
        BY <2>1, WithTyped
    <2> QED BY <1>5, <2>1, <2>2 DEF Put, Save, Stamp
<1>6. CASE Forget(p)
    <2>1. With(p, scope[p], 0) \in [Entries -> 0..MaxStamp]
        BY <1>0, WithTyped
    <2>2. CASE scope[p] \cap Members(copy[p]) = {}
        BY <1>1, <1>6, <2>2 DEF Forget
    <2>3. CASE scope[p] \cap Members(copy[p]) # {}
        <3>1. /\ Save(p, With(p, scope[p], 0))
              /\ UNCHANGED <<files, cmd, scope, doc, copy, temp, overtaken>>
            BY <1>6, <2>3 DEF Forget
        <3> QED BY <2>1, <3>1 DEF Save
    <2> QED BY <2>2, <2>3
<1>7. CASE Add(p)
    <2>1. CASE scope[p] \subseteq Members(copy[p])
        BY <1>7, <2>1 DEF Add, Save
    <2>2. CASE ~(scope[p] \subseteq Members(copy[p]))
        <3>1. now + 1 \in 0..MaxStamp
            BY <1>0, <1>7, <2>2 DEF Add, Stamp
        <3>2. With(p, scope[p], now + 1) \in [Entries -> 0..MaxStamp]
            BY <3>1, WithTyped
        <3> QED BY <1>7, <2>2, <3>1, <3>2 DEF Add, Save, Stamp
    <2> QED BY <2>1, <2>2
<1>8. CASE Configure(p)
    <2>1. CASE cmd[p] = "set"
        <3>1. now + 1 \in 0..MaxStamp
            BY <1>0, <1>8, <2>1 DEF Configure, Stamp
        <3>2. With(p, scope[p], now + 1) \in [Entries -> 0..MaxStamp]
            BY <3>1, WithTyped
        <3>3. /\ now' = now + 1 /\ Save(p, With(p, scope[p], now + 1))
              /\ UNCHANGED <<form, data, runs, cmd, scope, doc, copy, temp, overtaken>>
            BY <1>8, <2>1 DEF Configure, Stamp
        <3> QED BY <3>1, <3>2, <3>3 DEF Save
    <2>2. CASE cmd[p] # "set"
        <3>1. With(p, scope[p], 0) \in [Entries -> 0..MaxStamp]
            BY <1>0, WithTyped
        <3> QED BY <1>8, <2>2, <3>1 DEF Configure, Save
    <2> QED BY <2>1, <2>2
<1>9. CASE Fetch(p)
    BY <1>9 DEF Fetch, Docs
<1>10. CASE Merge(p)
    <2>1. now + 1 \in 0..MaxStamp
        BY <1>0, <1>10 DEF Merge, Stamp
    <2>2. PICK fetched \in SUBSET scope[p] : Save(p, With(p, fetched, now + 1))
        BY <1>10 DEF Merge, MergeProfileFacts
    <2>3. With(p, fetched, now + 1) \in [Entries -> 0..MaxStamp]
        BY <2>1, WithTyped
    <2> QED BY <1>10, <2>1, <2>2, <2>3 DEF Merge, Save, Stamp
<1>11. CASE Publish(p)
    <2>1. Replace(p, doc[p], next[p]) /\ UNCHANGED <<now, runs>>
        BY <1>11 DEF Publish
    <2>2. /\ form' \in [Docs -> Forms]
          /\ data' \in [Docs -> [Entries -> 0..MaxStamp]]
          /\ overtaken' \subseteq Procs
        BY <2>1 DEF Replace, Holders, Forms
    <2>3. CASE GoesOn(p)
        <3>1. /\ Goto(p, IF cmd[p] = "watch" THEN "use" ELSE "fetch")
              /\ copy' = [copy EXCEPT ![p] = next[p]]
              /\ next' = [next EXCEPT ![p] = Empty]
              /\ temp' = [temp EXCEPT ![p] = "none"]
              /\ UNCHANGED <<cmd, scope, doc>>
            BY <1>11, <2>3 DEF Publish
        <3>2. pc' \in [Procs -> {"off", "seed", "load", "use", "fetch", "save"}]
            BY <3>1
        <3>3. copy' \in [Procs -> [Entries -> 0..MaxStamp]]
            BY <3>1
        <3>4. next' \in [Procs -> [Entries -> 0..MaxStamp]]
            BY <3>1, EmptyTyped
        <3>5. temp' \in [Procs -> {"none", "partial", "whole"}]
            BY <3>1
        <3> QED BY <2>1, <2>2, <3>1, <3>2, <3>3, <3>4, <3>5
    <2>4. CASE ~GoesOn(p)
        <3>1. End(p)
            BY <1>11, <2>4 DEF Publish
        <3>2. /\ copy' \in [Procs -> [Entries -> 0..MaxStamp]]
              /\ next' \in [Procs -> [Entries -> 0..MaxStamp]]
            BY <3>1, EmptyTyped DEF End
        <3>3. doc' \in [Procs -> Docs]
            BY <3>1 DEF End, Docs
        <3> QED BY <2>1, <2>2, <3>1, <3>2, <3>3 DEF End
    <2> QED BY <2>3, <2>4
<1>12. CASE PutFails(p)
    BY <1>12, EmptyTyped DEF PutFails
<1> QED BY <1>1, <1>2, <1>3, <1>4, <1>5, <1>6, <1>7, <1>8, <1>9, <1>10, <1>11, <1>12
        DEF Step, LoadFails, FetchFails, WriteFails, Stop

(* No step leaves half a document, or a staging file outside of a write    *)
(* (writeFileAtomic).                                                      *)
LEMMA StepForms ==
    ASSUME IInv, NEW p \in Procs, Step(p)
    PROVE  NoHalfDocument' /\ StagingIsRemoved'
<1> USE DEF IInv, TypeOK, NoHalfDocument, StagingIsRemoved, Goto, files
<1>1. CASE Quit(p)
    BY <1>1 DEF Quit, End
<1>2. CASE SeedFound(p) \/ SeedStage(p) \/ Load(p) \/ Stage(p) \/ Fill(p) \/ PutFails(p)
    BY <1>2 DEF SeedFound, SeedStage, Load, Stage, Fill, PutFails
<1>3. CASE SeedLink(p)
    BY <1>3 DEF SeedLink, Replace
<1>4. CASE LoadRoster(p)
    BY <1>1, <1>4 DEF LoadRoster
<1>5. ASSUME NEW n \in Names, Put(p, n) PROVE NoHalfDocument' /\ StagingIsRemoved'
    BY <1>5 DEF Put, Save
<1>6. CASE Forget(p)
    BY <1>1, <1>6 DEF Forget, Save
<1>7. CASE Add(p)
    BY <1>7 DEF Add, Save
<1>8. CASE Configure(p)
    BY <1>8 DEF Configure, Save
<1>9. CASE Fetch(p)
    BY <1>9 DEF Fetch
<1>10. CASE Merge(p)
    BY <1>10 DEF Merge, Save
<1>11. CASE Publish(p)
    <2>1. NoHalfDocument'
        BY <1>11 DEF Publish, Replace
    <2>2. \A q \in Procs \ {p} : temp'[q] = temp[q] /\ pc'[q] = pc[q]
        BY <1>11 DEF Publish, End
    <2>3. temp'[p] = "none"
        BY <1>11 DEF Publish, End
    <2> QED BY <2>1, <2>2, <2>3
<1> QED BY <1>1, <1>2, <1>3, <1>4, <1>5, <1>6, <1>7, <1>8, <1>9, <1>10, <1>11
        DEF Step, LoadFails, FetchFails, WriteFails, Stop

(* Whoever is not overtaken by the step still has what the file says       *)
(* (Load, Put, persistLocked).                                             *)
LEMMA StepCopy ==
    ASSUME IInv, NEW p \in Procs, Step(p)
    PROVE  CopyHeld'
<1> USE DEF IInv, TypeOK, CopyHeld, Reads, Goto, files
<1>1. CASE Quit(p)
    BY <1>1 DEF Quit, End
<1>2. CASE SeedFound(p) \/ SeedStage(p) \/ Stage(p) \/ Fill(p) \/ PutFails(p)
    BY <1>2 DEF SeedFound, SeedStage, Stage, Fill, PutFails
<1>3. CASE SeedLink(p)
    BY <1>3 DEF SeedLink, Replace, Holders, Docs
<1>4. CASE LoadRoster(p)
    BY <1>1, <1>4 DEF LoadRoster
<1>5. ASSUME NEW n \in Names, Put(p, n) PROVE CopyHeld'
    BY <1>5 DEF Put, Save
<1>6. CASE Forget(p)
    BY <1>1, <1>6 DEF Forget, Save
<1>7. CASE Add(p)
    BY <1>7 DEF Add, Save
<1>8. CASE Configure(p)
    BY <1>8 DEF Configure, Save
<1>9. CASE Fetch(p)
    BY <1>9 DEF Fetch
<1>10. CASE Merge(p)
    BY <1>10 DEF Merge, Save
<1>11. CASE Load(p)
    BY <1>11 DEF Load, Loadable
<1>12. CASE Publish(p)
    <2>1. Replace(p, doc[p], next[p])
        BY <1>12 DEF Publish
    <2>2. \A q \in Procs \ {p} : pc'[q] = pc[q] /\ copy'[q] = copy[q] /\ doc'[q] = doc[q]
        BY <1>12 DEF Publish, End
    <2>3. ASSUME NEW q \in Procs \ {p}, Reads(q)'
          PROVE  Reads(q) /\ doc[q] # doc[p]
        BY <2>1, <2>2, <2>3 DEF Replace, Holders
    <2>4. Reads(p)' => /\ copy'[p] = next[p] /\ doc'[p] = doc[p]
        BY <1>12 DEF Publish, End
    <2> QED BY <2>1, <2>2, <2>3, <2>4 DEF Replace
<1> QED BY <1>1, <1>2, <1>3, <1>4, <1>5, <1>6, <1>7, <1>8, <1>9, <1>10, <1>11, <1>12
        DEF Step, LoadFails, FetchFails, WriteFails, Stop

(* A command leaves the other processes alone. *)
LEMMA OthersUntouched ==
    ASSUME TypeOK, NEW p \in Procs, Step(p), NEW q \in Procs \ {p}
    PROVE  pc'[q] = pc[q] /\ next'[q] = next[q] /\ copy'[q] = copy[q] /\ scope'[q] = scope[q]
<1> USE DEF TypeOK, Goto, Save
<1>1. CASE Quit(p)
    BY <1>1 DEF Quit, End
<1>2. CASE SeedFound(p) \/ SeedStage(p) \/ SeedLink(p) \/ Load(p)
    BY <1>2 DEF SeedFound, SeedStage, SeedLink, Load
<1>3. CASE LoadRoster(p) \/ Forget(p)
    BY <1>1, <1>3 DEF LoadRoster, Forget
<1>4. CASE \E n \in Names : Put(p, n)
    BY <1>4 DEF Put
<1>5. CASE Add(p) \/ Configure(p) \/ Fetch(p) \/ Merge(p)
    BY <1>5 DEF Add, Configure, Fetch, Merge
<1>6. CASE Stage(p) \/ Fill(p) \/ PutFails(p)
    BY <1>6 DEF Stage, Fill, PutFails
<1>7. CASE Publish(p)
    BY <1>7 DEF Publish, End
<1> QED BY <1>1, <1>2, <1>3, <1>4, <1>5, <1>6, <1>7
        DEF Step, LoadFails, FetchFails, WriteFails, Stop

(* What a command is about to publish is its copy with its own change      *)
(* (Put, Delete, Clear, add, remove, MergeProfileFacts, SaveKnown).        *)
LEMMA StepNext ==
    ASSUME IInv, NEW p \in Procs, Step(p)
    PROVE  NextAgrees'
<1> SUFFICES ASSUME pc'[p] = "save" PROVE Agrees(p)'
    <2>1. ASSUME NEW q \in Procs \ {p}, pc'[q] = "save" PROVE Agrees(q)'
        BY <2>1, OthersUntouched DEF IInv, NextAgrees, Agrees
    <2> QED BY <2>1 DEF NextAgrees
<1>1. CASE pc[p] = "save"
    <2>1. UNCHANGED <<next, copy, scope>>
        BY <1>1 DEF IInv, TypeOK, Goto, Step, Quit, End, SeedFound, SeedStage, SeedLink,
           LoadFails, Load, LoadRoster, Put, Forget, Add, Configure, Fetch, FetchFails,
           Merge, Stage, Fill, Publish, PutFails, WriteFails, Stop
    <2> QED BY <1>1, <2>1 DEF IInv, NextAgrees, Agrees
<1>2. CASE pc[p] # "save"
    <2>1. \/ \E n \in Names : Put(p, n)
          \/ Forget(p) \/ Add(p) \/ Configure(p) \/ Merge(p)
        BY <1>2 DEF IInv, TypeOK, Goto, Step, Quit, End, SeedFound, SeedStage, SeedLink,
           LoadFails, Load, LoadRoster, Fetch, FetchFails, Stage, Fill, Publish, PutFails,
           WriteFails, Stop
    <2> USE DEF IInv, TypeOK, Goto, Agrees, Save
    <2>0. 0 \in 0..MaxStamp /\ (now < MaxStamp => now + 1 \in 0..MaxStamp)
        BY DocumentsAssumption
    <2>2. ASSUME NEW n \in Names, Put(p, n) PROVE Agrees(p)'
        <3>1. now + 1 \in 0..MaxStamp
            BY <2>0, <2>2 DEF Put, Stamp
        <3>2. \A e \in Entries \ ({n} \X {"machine"}) : With(p, {n}, now + 1)[e] = copy[p][e]
            BY <3>1, WithTyped
        <3>3. next'[p] = With(p, {n}, now + 1) /\ scope'[p] = {n} /\ copy' = copy
            BY <2>2 DEF Put
        <3> QED BY <3>2, <3>3
    <2>3. CASE Forget(p)
        <3>1. \A e \in Entries \ (scope[p] \X {"machine"}) : With(p, scope[p], 0)[e] = copy[p][e]
            BY <2>0, WithTyped
        <3>2. next'[p] = With(p, scope[p], 0) /\ UNCHANGED <<scope, copy>>
            BY <2>3 DEF Forget, Quit, End
        <3> QED BY <3>1, <3>2
    <2>4. CASE Add(p)
        <3>1. CASE scope[p] \subseteq Members(copy[p])
            BY <2>4, <3>1 DEF Add
        <3>2. CASE ~(scope[p] \subseteq Members(copy[p]))
            <4>1. now + 1 \in 0..MaxStamp
                BY <2>0, <2>4, <3>2 DEF Add, Stamp
            <4>2. \A e \in Entries \ (scope[p] \X {"machine"}) :
                     With(p, scope[p], now + 1)[e] = copy[p][e]
                BY <4>1, WithTyped
            <4>3. next'[p] = With(p, scope[p], now + 1) /\ UNCHANGED <<scope, copy>>
                BY <2>4, <3>2 DEF Add
            <4> QED BY <4>2, <4>3
        <3> QED BY <3>1, <3>2
    <2>5. CASE Configure(p)
        <3>1. PICK stamp \in 0..MaxStamp :
                 next'[p] = With(p, scope[p], stamp) /\ UNCHANGED <<scope, copy>>
            BY <2>0, <2>5 DEF Configure, Stamp
        <3>2. \A e \in Entries \ (scope[p] \X {"machine"}) :
                 With(p, scope[p], stamp)[e] = copy[p][e]
            BY WithTyped
        <3> QED BY <3>1, <3>2
    <2>6. CASE Merge(p)
        <3>1. now + 1 \in 0..MaxStamp
            BY <2>0, <2>6 DEF Merge, Stamp
        <3>2. PICK fetched \in SUBSET scope[p] :
                 next'[p] = With(p, fetched, now + 1) /\ UNCHANGED <<scope, copy>>
            BY <2>6 DEF Merge, MergeProfileFacts
        <3>3. \A e \in Entries \ (fetched \X {"machine"}) :
                 With(p, fetched, now + 1)[e] = copy[p][e]
            BY <3>1, WithTyped
        <3>4. fetched \X {"machine"} \subseteq scope[p] \X {"machine"}
            BY <3>2
        <3> QED BY <3>2, <3>3, <3>4
    <2> QED BY <2>1, <2>2, <2>3, <2>4, <2>5, <2>6
<1> QED BY <1>1, <1>2

(* A command begins with nothing of its own.                               *)
LEMMA StartInvariant ==
    ASSUME IInv, NEW p \in Procs, NEW c \in Commands, NEW n \in Names, Start(p, c, n)
    PROVE  IInv'
<1> USE DEF IInv, TypeOK, Start, Goto
<1>1. TypeOK'
    <2>1. runs + 1 \in 0..MaxRuns
        BY DocumentsAssumption
    <2>2. c \in AllCommands /\ FirstDoc(c) \in Docs
        BY DocumentsAssumption DEF FirstDoc, Docs
    <2> QED BY <2>1, <2>2
<1>2. NoHalfDocument' /\ StagingIsRemoved'
    BY DEF NoHalfDocument, StagingIsRemoved
<1>3. CopyHeld'
    BY DEF CopyHeld, Reads
<1>4. NextAgrees'
    BY DEF NextAgrees, Agrees
<1> QED BY <1>1, <1>2, <1>3, <1>4

(* A person overtakes whoever has read the document. *)
LEMMA HandInvariant == ASSUME IInv, Hand PROVE IInv'
<1> USE DEF IInv, TypeOK
<1>1. PICK d \in Docs, f \in Forms \ {"partial"}, content \in [Entries -> 0..MaxStamp] :
         Edited(d, f, content) /\ now' \in 0..MaxStamp
    <2>1. Stamp => now + 1 \in 0..MaxStamp
        BY DocumentsAssumption DEF Stamp
    <2>2. PICK d \in Docs : Break(d) \/ Lose(d) \/ \E n \in Names : Edit(d, n)
        BY DEF Hand
    <2>3. CASE Break(d) \/ Lose(d)
        BY <2>1, <2>3, EmptyTyped DEF Break, Lose, Forms, Stamp
    <2>4. ASSUME NEW n \in Names, Edit(d, n)
          PROVE  /\ Edited(d, "whole", [data[d] EXCEPT ![<<n, ByHand(d)>>] = now + 1])
                 /\ [data[d] EXCEPT ![<<n, ByHand(d)>>] = now + 1] \in [Entries -> 0..MaxStamp]
                 /\ now' \in 0..MaxStamp
        BY <2>1, <2>4 DEF Edit, Stamp
    <2>5. "whole" \in Forms \ {"partial"}
        BY DEF Forms
    <2> QED BY <2>2, <2>3, <2>4, <2>5
<1>2. UNCHANGED <<pc, cmd, scope, doc, copy, next, temp, runs>>
    BY <1>1 DEF Edited, local
<1>3. TypeOK'
    BY <1>1, <1>2 DEF Edited, Holders
<1>4. NoHalfDocument' /\ StagingIsRemoved'
    BY <1>1, <1>2 DEF Edited, NoHalfDocument, StagingIsRemoved
<1>5. CopyHeld'
    BY <1>1, <1>2 DEF Edited, CopyHeld, Reads, Holders
<1>6. NextAgrees'
    BY <1>2 DEF NextAgrees, Agrees
<1> QED BY <1>3, <1>4, <1>5, <1>6

LEMMA StepInvariant == IInv /\ [Next]_vars => IInv'
<1> SUFFICES ASSUME IInv, [Next]_vars PROVE IInv'
    OBVIOUS
<1>1. CASE UNCHANGED vars
    BY <1>1 DEF vars, files, local, IInv, TypeOK, NoHalfDocument, StagingIsRemoved, CopyHeld,
       Reads, NextAgrees, Agrees
<1>2. ASSUME NEW p \in Procs, NEW c \in Commands, NEW n \in Names, Start(p, c, n)
      PROVE  IInv'
    BY <1>2, StartInvariant
<1>3. ASSUME NEW p \in Procs, Step(p) PROVE IInv'
    BY <1>3, StepTypes, StepForms, StepCopy, StepNext DEF IInv
<1>4. CASE Hand
    BY <1>4, HandInvariant
<1> QED BY <1>1, <1>2, <1>3, <1>4 DEF Next

THEOREM InvariantHolds == Spec => []IInv
BY InitInvariant, StepInvariant, PTL DEF Spec

(* The documents and what the commands hold of them have their types       *)
(* (internal/storage/seen, internal/config).                               *)
THEOREM DocumentTypes == Spec => []TypeOK
<1>1. IInv => TypeOK
    BY DEF IInv
<1> QED BY <1>1, InvariantHolds, PTL

(* Nobody ever finds half a document, and no staging file outlives its     *)
(* write (writeFileAtomic).                                                *)
THEOREM WholeDocuments == Spec => []DocumentsWhole
<1>1. IInv => DocumentsWhole
    BY DEF IInv, DocumentsWhole
<1> QED BY <1>1, InvariantHolds, PTL

(* What a command holds is what the file says unless somebody changed the  *)
(* file since, also after failed writes (persistLocked).                   *)
THEOREM CurrentCopies == Spec => []CopyIsCurrent
<1>1. IInv => CopyIsCurrent
    BY DEF IInv, CopyHeld, Reads, CopyIsCurrent, Holders
<1> QED BY <1>1, InvariantHolds, PTL

(* Where a write is completed by its own process, the document is what it  *)
(* was but for the command's own entries.                                  *)
LEMMA StepPublishes ==
    ASSUME IInv, NEW p \in Procs, Step(p), p \notin overtaken, Publishes(p)
    PROVE  KeepsTheRest(p)
<1> USE DEF IInv, TypeOK, Publishes, KeepsTheRest
<1>1. Publish(p) \/ UNCHANGED files
    BY DEF Step, Quit, End, SeedFound, SeedStage, SeedLink, LoadFails, Load, LoadRoster, Put,
       Forget, Add, Configure, Fetch, FetchFails, Merge, Stage, Fill, PutFails, WriteFails, Stop
<1>2. CASE UNCHANGED files
    BY <1>2 DEF files
<1>3. CASE Publish(p)
    <2>1. data'[doc[p]] = next[p]
        BY <1>3 DEF Publish, Replace
    <2>2. copy[p] = data[doc[p]] /\ (doc[p] # "circles" => form[doc[p]] # "malformed")
        BY DEF CopyHeld, Reads
    <2>3. Agrees(p)
        BY DEF NextAgrees
    <2> QED BY <2>1, <2>2, <2>3 DEF Agrees
<1> QED BY <1>1, <1>2, <1>3

(* A published document differs from the one it replaces in the command's  *)
(* own entries only, unless somebody has overtaken the command (SaveKnown, *)
(* MergeProfileFacts, Put).                                                *)
THEOREM NoLossWithoutOverlap == Spec => LossNeedsOverlap
<1>1. ASSUME IInv, [Next]_vars, NEW p \in Procs \ overtaken, Publishes(p)
      PROVE  KeepsTheRest(p)
    <2>1. CASE UNCHANGED vars
        BY <1>1, <2>1 DEF vars, local, Publishes
    <2>2. ASSUME NEW q \in Procs, NEW c \in Commands, NEW n \in Names, Start(q, c, n)
          PROVE  FALSE
        BY <1>1, <2>2 DEF Start, Publishes, Goto, IInv, TypeOK
    <2>3. ASSUME NEW q \in Procs, Step(q) PROVE q = p
        BY <1>1, <2>3, OthersUntouched DEF Publishes, IInv
    <2>4. CASE Hand
        BY <1>1, <2>4 DEF Hand, Edit, Break, Lose, Edited, local, Publishes
    <2> QED BY <1>1, <2>1, <2>2, <2>3, <2>4, StepPublishes DEF Next
<1>2. IInv /\ [Next]_vars
      => [\A p \in Procs \ overtaken : Publishes(p) => KeepsTheRest(p)]_vars
    BY <1>1
<1> QED BY <1>2, InvariantHolds, PTL DEF Spec, LossNeedsOverlap

(* The baseline never takes the place of a configuration                   *)
(* (EnsureDefaultConfigFile).                                              *)
THEOREM SeedKeeps == Spec => SeedKeepsConfig
<1>1. ASSUME IInv, [Next]_vars, NEW p \in Procs,
             pc[p] = "seed", pc'[p] # "seed", form["config"] # "missing"
      PROVE  UNCHANGED files
    <2> USE DEF IInv, TypeOK, files
    <2>1. CASE UNCHANGED vars
        BY <2>1 DEF vars
    <2>2. ASSUME NEW q \in Procs, NEW c \in Commands, NEW n \in Names, Start(q, c, n)
          PROVE  FALSE
        BY <1>1, <2>2 DEF Start, Goto
    <2>3. ASSUME NEW q \in Procs, Step(q) PROVE UNCHANGED files
        <3>1. q = p
            BY <1>1, <2>3, OthersUntouched
        <3> QED BY <1>1, <2>3, <3>1 DEF Step, Goto, Quit, End, SeedFound, SeedStage, SeedLink,
               LoadFails, Load, LoadRoster, Put, Forget, Add, Configure, Fetch, FetchFails,
               Merge, Stage, Fill, Publish, PutFails, WriteFails, Stop
    <2>4. CASE Hand
        BY <1>1, <2>4 DEF Hand, Edit, Break, Lose, Edited, local
    <2> QED BY <1>1, <2>1, <2>2, <2>3, <2>4 DEF Next
<1>2. IInv /\ [Next]_vars
      => [\A p \in Procs : pc[p] = "seed" /\ pc'[p] # "seed" /\ form["config"] # "missing"
             => UNCHANGED files]_vars
    BY <1>1
<1> QED BY <1>2, InvariantHolds, PTL DEF Spec, SeedKeepsConfig
=============================================================================
