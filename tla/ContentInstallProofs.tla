------------------------- MODULE ContentInstallProofs -------------------------
(***************************************************************************)
(* Proofs that InstallInv, the inductive invariant of ContentInstall, is   *)
(* kept by every step, and of the properties it implies: for any number of *)
(* installers, artifacts, archives and requests, and without a bound on    *)
(* commands, kills, edits and cleanups.                                    *)
(***************************************************************************)
EXTENDS ContentInstall, FiniteSetTheorems, TLAPS

-----------------------------------------------------------------------------
(* Sequences and requests.                                                 *)

\* The loop over the selected artifacts takes the head and leaves the tail:
\* together they hold exactly what the sequence held.
LEMMA HeadAndTail ==
    ASSUME NEW s \in Seq(Artifacts), s # <<>>
    PROVE  /\ Head(s) \in Artifacts /\ Tail(s) \in Seq(Artifacts)
           /\ {s[k] : k \in DOMAIN s} =
                {Head(s)} \cup {Tail(s)[k] : k \in DOMAIN Tail(s)}
<1>1. Head(s) \in Artifacts /\ Tail(s) \in Seq(Artifacts)
  OBVIOUS
<1>2. ASSUME NEW k \in DOMAIN s, k # 1
      PROVE  k - 1 \in DOMAIN Tail(s) /\ Tail(s)[k - 1] = s[k]
  BY <1>2
<1>3. ASSUME NEW k \in DOMAIN Tail(s)
      PROVE  k + 1 \in DOMAIN s /\ Tail(s)[k] = s[k + 1]
  BY <1>3
<1>4. 1 \in DOMAIN s /\ s[1] = Head(s)
  OBVIOUS
<1>5. {s[k] : k \in DOMAIN s} \subseteq
        {Head(s)} \cup {Tail(s)[k] : k \in DOMAIN Tail(s)}
  BY <1>2, <1>4
<1>6. {Head(s)} \cup {Tail(s)[k] : k \in DOMAIN Tail(s)} \subseteq
        {s[k] : k \in DOMAIN s}
  BY <1>3, <1>4
<1> QED
  BY <1>1, <1>5, <1>6

\* The artifact a busy installer works on is one of those selected.
LEMMA BusyArtifact ==
    ASSUME InstallInv, NEW i \in Installers, pc[i] \in Busy
    PROVE  /\ todo[i] \in Seq(Artifacts) /\ todo[i] # <<>>
           /\ Current(i) \in Artifacts /\ ArtifactSound(i, Current(i))
<1>1. todo[i] \in Seq(Artifacts)
  BY DEF InstallInv, TypeOK, DataTypeOK
<1>2. todo[i] # <<>> /\ ArtifactSound(i, Current(i))
  BY DEF InstallInv, InstallerSound, CurrentSound
<1> QED
  BY <1>1, <1>2, HeadAndTail DEF Current

-----------------------------------------------------------------------------
(* What a step leaves alone for an installer that does not take it.        *)

SameCommand(j) ==
    /\ pc'[j] = pc[j] /\ outcome'[j] = outcome[j]
    /\ request'[j] = request[j] /\ todo'[j] = todo[j]
    /\ touched'[j] = touched[j]

Same(j) == SameCommand(j) /\ store'[j] = store[j] /\ fresh'[j] = fresh[j]

\* A step of i that changes no file and no record.
Steady(i) ==
    /\ UNCHANGED <<dest, receipt, payload, raced>>
    /\ workflow' \in {workflow, "curated"}
    /\ \A j \in Installers \ {i} : Same(j)
    /\ store'[i] \subseteq store[i] \cup receipt

LEMMA SameRequest ==
    ASSUME NEW j \in Installers, SameCommand(j)
    PROVE  Current(j)' = Current(j) /\ Selected(j)' = Selected(j)
           /\ Asked(j)' = Asked(j)
BY DEF SameCommand, Current, Selected, Asked

\* The others are not disturbed by a step that changes no file.
LEMMA SteadyOthers ==
    ASSUME InstallInv, NEW i \in Installers, Steady(i)
    PROVE  RecordsSound' /\ \A j \in Installers \ {i} : InstallerSound(j)'
<1>1. RecordsSound'
  BY DEF InstallInv, Steady, Same, RecordsSound, RecordSound
<1>2. ASSUME NEW j \in Installers, j # i
      PROVE  InstallerSound(j)'
  <2>1. Same(j) /\ InstallerSound(j) /\ SameCommand(j)
    BY <1>2 DEF InstallInv, Steady, Same
  <2>2. Current(j)' = Current(j) /\ Selected(j)' = Selected(j)
        /\ Asked(j)' = Asked(j)
    BY <2>1, SameRequest
  <2>3. StoreSound(j)'
    BY <2>1 DEF Same, SameCommand, InstallerSound, StoreSound, Steady
  <2>4. CurrentSound(j)'
    BY <2>1, <2>2 DEF Same, SameCommand, InstallerSound, CurrentSound,
       ArtifactSound, Steady
  <2>5. ProgressSound(j)'
    BY <2>1, <2>2 DEF Same, SameCommand, InstallerSound, ProgressSound, Steady
  <2> QED
    BY <2>3, <2>4, <2>5 DEF InstallerSound
<1> QED
  BY <1>1, <1>2

\* Under the lock an installer may change files: the others are outside, and
\* want only that no record is lost.
LEMMA HolderOthers ==
    ASSUME InstallInv, NEW i \in Installers, pc[i] \notin Outside,
           \A j \in Installers \ {i} : SameCommand(j),
           workflow' = workflow, receipt \subseteq receipt'
    PROVE  \A j \in Installers \ {i} : InstallerSound(j)'
<1> SUFFICES ASSUME NEW j \in Installers, j # i
             PROVE  InstallerSound(j)'
  OBVIOUS
<1>1. SameCommand(j) /\ InstallerSound(j)
  BY DEF InstallInv
<1>2. pc[j] \in Outside
  BY DEF InstallInv, LockSound
<1>3. Asked(j)' = Asked(j)
  BY <1>1, SameRequest
<1>4. StoreSound(j)' /\ CurrentSound(j)'
  BY <1>1, <1>2 DEF SameCommand, StoreSound, CurrentSound, Outside, Unentered,
     Busy
<1>5. ProgressSound(j)'
  BY <1>1, <1>2, <1>3 DEF SameCommand, InstallerSound, ProgressSound, Outside,
     Busy
<1> QED
  BY <1>4, <1>5 DEF InstallerSound

-----------------------------------------------------------------------------
(* Control.                                                                *)

LEMMA GotoControl ==
    ASSUME InstallInv, NEW i \in Installers, NEW l \in Stages, Goto(i, l),
           l \in Outside <=> pc[i] \in Outside
    PROVE  ControlTypeOK' /\ LockSound'
<1>1. pc \in [Installers -> Stages]
  BY DEF InstallInv, TypeOK, ControlTypeOK
<1>2. ControlTypeOK'
  BY <1>1 DEF InstallInv, TypeOK, ControlTypeOK, Goto
<1>3. LockSound'
  BY <1>1 DEF InstallInv, LockSound, Goto
<1> QED
  BY <1>2, <1>3

LEMMA LeaveControl ==
    ASSUME InstallInv, NEW i \in Installers,
           NEW r \in {"ok", "error", "killed"}, Leave(i, r)
    PROVE  ControlTypeOK' /\ LockSound'
<1>1. ControlTypeOK /\ LockSound
  BY DEF InstallInv, TypeOK
<1>2. ControlTypeOK'
  BY <1>1 DEF ControlTypeOK, Leave, Stages
<1>3. LockSound'
  BY <1>1, ArchiveAssumption DEF ControlTypeOK, LockSound, Leave, Outside
<1> QED
  BY <1>2, <1>3

\* An installer that moves leaves the others where they are.
LEMMA Moves ==
    ASSUME InstallInv, NEW i \in Installers, NEW l, Goto(i, l) \/ Leave(i, l)
    PROVE  \A j \in Installers \ {i} : pc'[j] = pc[j] /\ outcome'[j] = outcome[j]
BY DEF InstallInv, TypeOK, ControlTypeOK, Goto, Leave

\* StagingSound looks at the installers only through their stages.
LEMMA StagingKept ==
    ASSUME InstallInv, NEW i \in Installers,
           \A j \in Installers \ {i} : pc'[j] = pc[j],
           containers' \subseteq containers, marked' \subseteq marked,
           \/ pc'[i] \in Unentered \cup {"download"}
           \/ containers' = {}
           \/ pc[i] \notin Unentered \cup {"download"}
    PROVE  StagingSound'
BY DEF InstallInv, StagingSound

-----------------------------------------------------------------------------
(* Steps that end a command, and steps that change no file.                *)

\* A command that ends without success promises nothing.
LEMMA EndedSound ==
    ASSUME InstallInv, NEW i \in Installers, pc'[i] = "idle", outcome'[i] # "ok"
    PROVE  InstallerSound(i)'
BY DEF InstallerSound, StoreSound, CurrentSound, ProgressSound, Unentered, Busy

LEMMA LeaveInv ==
    ASSUME InstallInv, NEW i \in Installers, NEW r \in {"error", "killed"},
           Leave(i, r), Steady(i), DataTypeOK',
           containers' \subseteq containers, marked' \subseteq marked
    PROVE  InstallInv'
<1>1. ControlTypeOK' /\ LockSound'
  BY LeaveControl
<1>2. RecordsSound' /\ \A j \in Installers \ {i} : InstallerSound(j)'
  BY SteadyOthers
<1>3. pc'[i] = "idle" /\ outcome'[i] # "ok"
  BY DEF InstallInv, TypeOK, ControlTypeOK, Leave
<1>4. InstallerSound(i)'
  BY <1>3, EndedSound
<1>5. StagingSound'
  BY <1>3, Moves, StagingKept DEF Unentered
<1> QED
  BY <1>1, <1>2, <1>4, <1>5 DEF InstallInv, TypeOK

LEMMA GotoInv ==
    ASSUME InstallInv, NEW i \in Installers, NEW l \in Stages, Goto(i, l),
           l \in Outside <=> pc[i] \in Outside,
           Steady(i), DataTypeOK',
           containers' \subseteq containers, marked' \subseteq marked,
           \/ l \in Unentered \cup {"download"}
           \/ containers' = {}
           \/ pc[i] \notin Unentered \cup {"download"},
           InstallerSound(i)'
    PROVE  InstallInv'
<1>1. ControlTypeOK' /\ LockSound'
  BY GotoControl
<1>2. RecordsSound' /\ \A j \in Installers \ {i} : InstallerSound(j)'
  BY SteadyOthers
<1>3. pc'[i] = l
  BY DEF InstallInv, TypeOK, ControlTypeOK, Goto
<1>4. StagingSound'
  BY <1>3, Moves, StagingKept
<1> QED
  BY <1>1, <1>2, <1>4 DEF InstallInv, TypeOK

\* A step that changes nothing but the control.
Untouched == UNCHANGED <<content, staging, user, containers, memory, cleaner,
                         raced>>

LEMMA UntouchedSteady ==
    ASSUME InstallInv, NEW i \in Installers, NEW l, Goto(i, l) \/ Leave(i, l),
           Untouched
    PROVE  Steady(i) /\ DataTypeOK'
<1>1. \A j \in Installers \ {i} : Same(j)
  BY Moves DEF Untouched, Same, SameCommand, memory
<1>2. Steady(i)
  BY <1>1 DEF Untouched, Steady, content, staging, user, memory
<1>3. DataTypeOK'
  BY DEF InstallInv, TypeOK, DataTypeOK, Untouched, content, staging, user,
     memory
<1> QED
  BY <1>2, <1>3

LEMMA UntouchedLeave ==
    ASSUME InstallInv, NEW i \in Installers, Leave(i, "error"), Untouched
    PROVE  InstallInv'
<1>1. containers' = containers /\ marked' = marked
  BY DEF Untouched, staging
<1> QED
  BY <1>1, UntouchedSteady, LeaveInv

LEMMA UntouchedGoto ==
    ASSUME InstallInv, NEW i \in Installers, NEW l \in Stages, Goto(i, l),
           l \in Outside <=> pc[i] \in Outside, Untouched,
           \/ l \in Unentered \cup {"download"}
           \/ containers = {}
           \/ pc[i] \notin Unentered \cup {"download"},
           InstallerSound(i)'
    PROVE  InstallInv'
<1>1. containers' = containers /\ marked' = marked
  BY DEF Untouched, staging
<1> QED
  BY <1>1, UntouchedSteady, GotoInv

\* The installer itself, when only its stage changes.
LEMMA UntouchedSelf ==
    ASSUME InstallInv, NEW i \in Installers, NEW l \in Stages, Goto(i, l),
           Untouched
    PROVE  /\ pc'[i] = l /\ outcome'[i] = outcome[i]
           /\ Current(i)' = Current(i) /\ Selected(i)' = Selected(i)
           /\ Asked(i)' = Asked(i)
           /\ UNCHANGED <<dest, receipt, payload, raced, workflow, request, todo,
                          store, fresh, touched>>
<1>1. pc'[i] = l /\ outcome'[i] = outcome[i]
  BY DEF InstallInv, TypeOK, ControlTypeOK, Goto
<1>2. UNCHANGED <<dest, receipt, payload, raced, workflow, request, todo, store,
                  fresh, touched>>
  BY DEF Untouched, content, staging, user, memory
<1> QED
  BY <1>1, <1>2 DEF Current, Selected, Asked

-----------------------------------------------------------------------------
(* The commands up to the lock.                                            *)

LEMMA BeginSteady ==
    ASSUME InstallInv, NEW i \in Installers, NEW r \in Requests, Begin(i, r),
           Start(i) \/ Refuse(i) \/ (pc' = [pc EXCEPT ![i] = "workflow"]
                                     /\ outcome' = [outcome EXCEPT ![i] = None]),
           pack' \in {"none", "saved", "other"}
    PROVE  Steady(i) /\ TypeOK' /\ LockSound' /\ StagingSound'
           /\ request'[i] = r /\ todo'[i] = r.sel
<1>1. TypeOK /\ RequestOK(r)
  BY RequestsAssumption DEF InstallInv
<1>2. Steady(i)
  BY <1>1 DEF TypeOK, ControlTypeOK, DataTypeOK, Begin, Start, Refuse, Steady,
     Same, SameCommand, content, staging
<1>3. DataTypeOK'
  BY <1>1 DEF TypeOK, DataTypeOK, Begin, RequestOK, content, staging
<1>4. ControlTypeOK' /\ pc[i] = "idle" /\ pc'[i] \in {"idle", "plan", "workflow"}
  BY <1>1 DEF TypeOK, ControlTypeOK, Begin, Start, Refuse, Stages
<1>5. \A j \in Installers \ {i} : pc'[j] = pc[j]
  BY <1>2 DEF Steady, Same, SameCommand
<1>6. LockSound'
  BY <1>4, <1>5 DEF InstallInv, LockSound, Begin, Outside
<1>7. StagingSound'
  BY <1>4, <1>5, StagingKept DEF Begin, staging, Unentered
<1> QED
  BY <1>1, <1>2, <1>3, <1>4, <1>6, <1>7 DEF TypeOK, DataTypeOK, Begin

LEMMA StartInv ==
    ASSUME InstallInv, NEW i \in Installers, NEW r \in Requests, Begin(i, r),
           Start(i), pack' \in {"none", "saved", "other"}
    PROVE  InstallInv'
<1>1. Steady(i) /\ TypeOK' /\ LockSound' /\ StagingSound'
      /\ request'[i] = r /\ todo'[i] = r.sel
  BY BeginSteady
<1>2. pc'[i] = "plan" /\ outcome'[i] = None
  BY DEF InstallInv, TypeOK, ControlTypeOK, Start
<1>3. InstallerSound(i)'
  BY <1>1, <1>2, ArchiveAssumption DEF InstallerSound, StoreSound, CurrentSound,
     ProgressSound, Unentered, Busy
<1> QED
  BY <1>1, <1>3, SteadyOthers DEF InstallInv

LEMMA RefuseInv ==
    ASSUME InstallInv, NEW i \in Installers, NEW r \in Requests, Begin(i, r),
           Refuse(i), pack' \in {"none", "saved", "other"}
    PROVE  InstallInv'
<1>1. Steady(i) /\ TypeOK' /\ LockSound' /\ StagingSound'
  BY BeginSteady
<1>2. pc'[i] = "idle" /\ outcome'[i] # "ok"
  BY DEF InstallInv, TypeOK, ControlTypeOK, Refuse, Begin
<1> QED
  BY <1>1, <1>2, EndedSound, SteadyOthers DEF InstallInv

LEMMA InstallCommandInv ==
    ASSUME InstallInv, NEW i \in Installers, InstallCommand(i)
    PROVE  InstallInv'
<1>1. PICK r \in Requests : /\ Begin(i, r)
                            /\ IF Approved(r) THEN Start(i) ELSE Refuse(i)
                            /\ UNCHANGED pack
  BY DEF InstallCommand
<1>2. pack' \in {"none", "saved", "other"}
  BY <1>1 DEF InstallInv, TypeOK, DataTypeOK
<1> QED
  BY <1>1, <1>2, StartInv, RefuseInv

LEMMA ImportCommandInv ==
    ASSUME InstallInv, NEW i \in Installers, ImportCommand(i)
    PROVE  InstallInv'
<1>1. PICK r \in Requests :
        /\ Begin(i, r)
        /\ IF r.ack
           THEN /\ pack' = SavedPack
                /\ IF pack' = "saved" THEN Start(i) ELSE Refuse(i)
           ELSE Refuse(i) /\ UNCHANGED pack
  BY DEF ImportCommand
<1>2. pack' \in {"none", "saved", "other"}
  BY <1>1 DEF InstallInv, TypeOK, DataTypeOK, SavedPack
<1>3. Start(i) \/ Refuse(i)
  BY <1>1
<1> QED
  BY <1>1, <1>2, <1>3, StartInv, RefuseInv

LEMMA WorkflowsInstallInv ==
    ASSUME InstallInv, NEW i \in Installers, WorkflowsInstall(i)
    PROVE  InstallInv'
<1>1. PICK r \in Requests : /\ r.sel = <<>>
                            /\ Begin(i, r)
                            /\ pc' = [pc EXCEPT ![i] = "workflow"]
                            /\ outcome' = [outcome EXCEPT ![i] = None]
                            /\ UNCHANGED pack
  BY DEF WorkflowsInstall
<1>2. pack' \in {"none", "saved", "other"}
  BY <1>1 DEF InstallInv, TypeOK, DataTypeOK
<1>3. Steady(i) /\ TypeOK' /\ LockSound' /\ StagingSound' /\ request'[i] = r
  BY <1>1, <1>2, BeginSteady
<1>4. pc'[i] = "workflow" /\ outcome'[i] = None
  BY <1>1 DEF InstallInv, TypeOK, ControlTypeOK
<1>5. Asked(i)' = {}
  BY <1>1, <1>3 DEF Asked
<1>6. InstallerSound(i)'
  BY <1>1, <1>3, <1>4, <1>5, ArchiveAssumption DEF InstallerSound, StoreSound,
     CurrentSound, ProgressSound, Unentered, Busy
<1> QED
  BY <1>3, <1>6, SteadyOthers DEF InstallInv

LEMMA PlanInv ==
    ASSUME InstallInv, NEW i \in Installers, Plan(i)
    PROVE  InstallInv'
<1>1. pc[i] = "plan" /\ store' = [store EXCEPT ![i] = receipt]
      /\ UNCHANGED <<content, staging, user, containers, request, todo, fresh,
                     found, roots, touched, cleaner, bounds>>
  BY DEF Plan
<1>2. Leave(i, "error") \/ Goto(i, "lock")
  BY DEF Plan
<1>3. \A j \in Installers \ {i} : Same(j)
  BY <1>1, <1>2, Moves DEF InstallInv, TypeOK, DataTypeOK, Same, SameCommand
<1>4. Steady(i) /\ containers' = containers /\ marked' = marked
  BY <1>1, <1>3 DEF InstallInv, TypeOK, DataTypeOK, Steady, content, staging,
     user, bounds
<1>5. DataTypeOK'
  BY <1>1 DEF InstallInv, TypeOK, DataTypeOK, content, staging, user, bounds
<1>6. CASE Leave(i, "error")
  BY <1>4, <1>5, <1>6, LeaveInv
<1>7. CASE Goto(i, "lock")
  <2>1. pc'[i] = "lock" /\ outcome'[i] = outcome[i]
    BY <1>7 DEF InstallInv, TypeOK, ControlTypeOK, Goto
  <2>2. InstallerSound(i)'
    <3>1. ProgressSound(i)
      BY DEF InstallInv, InstallerSound
    <3>2. Asked(i)' = Asked(i)
      BY <1>1 DEF Asked
    <3>3. ProgressSound(i)'
      BY <1>1, <2>1, <3>1, <3>2 DEF ProgressSound, Busy, content, user
    <3> QED
      BY <2>1, <3>3 DEF InstallerSound, StoreSound, CurrentSound, Unentered, Busy
  <2> QED
    BY <1>1, <1>4, <1>5, <1>7, <2>2, GotoInv DEF Stages, Outside, Unentered
<1> QED
  BY <1>2, <1>6, <1>7

LEMMA AcquireInstallLockInv ==
    ASSUME InstallInv, NEW i \in Installers, AcquireInstallLock(i)
    PROVE  InstallInv'
<1>1. pc[i] = "lock" /\ Untouched
  BY DEF AcquireInstallLock, Untouched, bounds
<1>2. CASE Leave(i, "error")
  BY <1>1, <1>2, UntouchedLeave
<1>3. CASE /\ lock = None /\ lock' = i
           /\ pc' = [pc EXCEPT ![i] = "probe"] /\ UNCHANGED outcome
  <2>1. ControlTypeOK' /\ pc'[i] = "probe"
        /\ \A j \in Installers \ {i} : pc'[j] = pc[j]
    BY <1>3 DEF InstallInv, TypeOK, ControlTypeOK, Stages
  <2>2. LockSound'
    BY <1>3, <2>1, ArchiveAssumption DEF InstallInv, LockSound, Outside
  <2>3. Steady(i) /\ DataTypeOK' /\ containers' = containers /\ marked' = marked
    BY <1>1, <1>3, <2>1 DEF InstallInv, TypeOK, DataTypeOK, Untouched, Steady,
       Same, SameCommand, content, staging, user, memory
  <2>4. StagingSound'
    BY <2>1, <2>3, StagingKept DEF Unentered
  <2>5. Asked(i)' = Asked(i)
    BY <1>1 DEF Asked, Untouched, memory
  <2>6. InstallerSound(i)'
    BY <1>1, <1>3, <2>1, <2>5 DEF InstallInv, InstallerSound, StoreSound,
       CurrentSound, ProgressSound, Untouched, content, user, memory, Unentered,
       Busy
  <2> QED
    BY <2>1, <2>2, <2>3, <2>4, <2>6, SteadyOthers DEF InstallInv, TypeOK
<1> QED
  BY <1>2, <1>3 DEF AcquireInstallLock

LEMMA RequireNoDownloadersInv ==
    ASSUME InstallInv, NEW i \in Installers, RequireNoDownloaders(i)
    PROVE  InstallInv'
<1>1. pc[i] = "probe" /\ Untouched
  BY DEF RequireNoDownloaders, Untouched, bounds
<1>2. CASE Leave(i, "error")
  BY <1>1, <1>2, UntouchedLeave
<1>3. CASE containers = {} /\ Goto(i, "load")
  <2>1. "load" \in Stages
    BY DEF Stages
  <2>2. InstallerSound(i)'
    BY <1>1, <1>3, <2>1, UntouchedSelf DEF InstallInv, InstallerSound, StoreSound,
       CurrentSound, ProgressSound, Busy
  <2> QED
    BY <1>1, <1>3, <2>1, <2>2, UntouchedGoto DEF Outside
<1> QED
  BY <1>2, <1>3 DEF RequireNoDownloaders

LEMMA LoadStoreInv ==
    ASSUME InstallInv, NEW i \in Installers, LoadStore(i)
    PROVE  InstallInv'
<1>1. /\ pc[i] = "load" /\ Goto(i, "next")
      /\ store' = [store EXCEPT ![i] = receipt]
      /\ UNCHANGED <<content, staging, user, containers, request, todo, fresh,
                     roots, touched, cleaner, bounds>>
  BY DEF LoadStore
<1>2. \A j \in Installers \ {i} : Same(j)
  BY <1>1, Moves DEF InstallInv, TypeOK, DataTypeOK, Same, SameCommand
<1>3. Steady(i) /\ containers' = containers /\ marked' = marked
  BY <1>1, <1>2 DEF InstallInv, TypeOK, DataTypeOK, Steady, content, staging,
     user, bounds
<1>4. Selected(i) \subseteq Artifacts
  BY DEF InstallInv, TypeOK, DataTypeOK, Selected
<1>5. found' \in [Installers -> SUBSET Artifacts]
  BY <1>4 DEF InstallInv, TypeOK, DataTypeOK, LoadStore
<1>6. DataTypeOK'
  BY <1>1, <1>5 DEF InstallInv, TypeOK, DataTypeOK, content, staging, user, bounds
<1>7. pc'[i] = "next" /\ outcome'[i] = outcome[i] /\ store'[i] = receipt
  BY <1>1 DEF InstallInv, TypeOK, ControlTypeOK, DataTypeOK, Goto
<1>8. Asked(i)' = Asked(i) /\ Selected(i)' = Selected(i) /\ Asked(i) = Selected(i)
  BY <1>1 DEF Asked, Selected, InstallInv, InstallerSound, ProgressSound
<1>9. ProgressSound(i)'
  BY <1>1, <1>7, <1>8 DEF InstallInv, InstallerSound, ProgressSound, content,
     user, Busy
<1>10. InstallerSound(i)'
  BY <1>1, <1>7, <1>9 DEF InstallerSound, StoreSound, CurrentSound, content, Busy
<1> QED
  BY <1>1, <1>3, <1>6, <1>10, GotoInv DEF Stages, Outside, Unentered

-----------------------------------------------------------------------------
(* One artifact at a time.                                                 *)

\* A stage of the loop that is entered with the artifact's own facts; the rest
\* of what holds of the installer does not depend on which stage it is.
LEMMA BusySound ==
    ASSUME InstallInv, NEW i \in Installers, NEW l \in Busy,
           pc[i] = "next" \/ pc[i] \in Busy, pc'[i] = l,
           outcome'[i] = outcome[i], todo' = todo, request' = request,
           store'[i] = store[i], receipt' \subseteq receipt, workflow' = workflow,
           todo[i] # <<>>, outcome[i] = "ok" => receipt' = receipt,
           touched' = touched, ArtifactSound(i, Current(i))'
    PROVE  InstallerSound(i)'
<1>1. InstallerSound(i)
  BY DEF InstallInv
<1>2. Asked(i)' = Asked(i) /\ Selected(i)' = Selected(i)
  BY DEF Asked, Selected
<1>3. StoreSound(i)'
  BY <1>1 DEF InstallerSound, StoreSound, Unentered, Busy
<1>4. CurrentSound(i)'
  BY DEF CurrentSound
<1>5. ProgressSound(i)'
  BY <1>1, <1>2 DEF InstallerSound, ProgressSound, Busy
<1> QED
  BY <1>3, <1>4, <1>5 DEF InstallerSound

LEMMA UntouchedBusy ==
    ASSUME InstallInv, NEW i \in Installers, NEW l \in Busy \ {"download"},
           pc[i] \in Busy \ {"download"}, Goto(i, l), Untouched,
           ArtifactSound(i, Current(i))'
    PROVE  InstallInv'
<1>1. l \in Stages /\ (l \in Outside <=> pc[i] \in Outside)
      /\ pc[i] \notin Unentered \cup {"download"}
  BY DEF Busy, Stages, Outside, Unentered
<1>2. InstallerSound(i)'
  BY <1>1, UntouchedSelf, BusyArtifact, BusySound
<1> QED
  BY <1>1, <1>2, UntouchedGoto

LEMMA NextArtifactInv ==
    ASSUME InstallInv, NEW i \in Installers, NextArtifact(i)
    PROVE  InstallInv'
<1>1. /\ pc[i] = "next"
      /\ UNCHANGED <<content, staging, user, containers, request, store, found,
                     roots, touched, cleaner, bounds>>
  BY DEF NextArtifact
<1>2. containers' = containers /\ marked' = marked
      /\ UNCHANGED <<dest, receipt, payload, raced, workflow, store, request,
                     touched>>
  BY <1>1 DEF content, staging, user, bounds
<1>3. InstallerSound(i) /\ Asked(i)' = Asked(i) /\ todo[i] \in Seq(Artifacts)
  BY <1>1 DEF InstallInv, TypeOK, DataTypeOK, Asked
<1>4. CASE Leave(i, "error") /\ UNCHANGED <<todo, fresh>>
  <2>1. Untouched
    BY <1>1, <1>4 DEF Untouched, memory, bounds
  <2> QED
    BY <1>4, <2>1, UntouchedLeave
<1>5. CASE todo[i] = <<>> /\ Goto(i, "save") /\ UNCHANGED <<todo, fresh>>
  <2>1. Untouched /\ "save" \in Stages
    BY <1>1, <1>5 DEF Untouched, memory, bounds, Stages
  <2>2. Selected(i) = {}
    BY <1>5 DEF Selected
  <2>3. InstallerSound(i)'
    BY <1>1, <1>3, <1>5, <2>1, <2>2, UntouchedSelf DEF InstallerSound, StoreSound,
       CurrentSound, ProgressSound, Unentered, Busy
  <2> QED
    BY <1>1, <1>5, <2>1, <2>3, UntouchedGoto DEF Outside, Unentered
<1>6. CASE /\ todo[i] # <<>> /\ Current(i) \in store[i]
           /\ todo' = [todo EXCEPT ![i] = Tail(@)]
           /\ Goto(i, "next") /\ UNCHANGED fresh
  <2>1. \A j \in Installers \ {i} : Same(j)
    BY <1>1, <1>6, Moves DEF InstallInv, TypeOK, DataTypeOK, Same, SameCommand
  <2>2. Steady(i)
    BY <1>2, <2>1 DEF Steady
  <2>3. todo'[i] = Tail(todo[i]) /\ Tail(todo[i]) \in Seq(Artifacts)
        /\ todo' \in [Installers -> Seq(Artifacts)]
    BY <1>3, <1>6, HeadAndTail DEF InstallInv, TypeOK, DataTypeOK
  <2>4. DataTypeOK'
    BY <1>1, <1>6, <2>3 DEF InstallInv, TypeOK, DataTypeOK, content, staging,
       user, bounds
  <2>5. Selected(i) = {Current(i)} \cup Selected(i)'
    BY <1>3, <1>6, <2>3, HeadAndTail DEF Selected, Current
  <2>6. pc'[i] = "next" /\ outcome'[i] = outcome[i]
    BY <1>6 DEF InstallInv, TypeOK, ControlTypeOK, Goto
  <2>7. InstallerSound(i)'
    BY <1>1, <1>2, <1>3, <1>6, <2>5, <2>6 DEF InstallerSound, StoreSound,
       CurrentSound, ProgressSound, Busy
  <2> QED
    BY <1>1, <1>2, <1>6, <2>2, <2>4, <2>7, GotoInv DEF Stages, Outside, Unentered
<1>7. CASE /\ todo[i] # <<>> /\ fresh' = [fresh EXCEPT ![i] = TRUE]
           /\ Goto(i, "verify") /\ UNCHANGED todo
  <2>1. \A j \in Installers \ {i} : Same(j)
    BY <1>1, <1>7, Moves DEF InstallInv, TypeOK, DataTypeOK, Same, SameCommand
  <2>2. Steady(i)
    BY <1>2, <2>1 DEF Steady
  <2>3. DataTypeOK'
    BY <1>1, <1>7 DEF InstallInv, TypeOK, DataTypeOK, content, staging, user,
       bounds
  <2>4. pc'[i] = "verify" /\ outcome'[i] = outcome[i]
    BY <1>7 DEF InstallInv, TypeOK, ControlTypeOK, Goto
  <2>5. ArtifactSound(i, Current(i))'
    BY <2>4 DEF ArtifactSound
  <2>6. InstallerSound(i)'
    BY <1>1, <1>2, <1>7, <2>4, <2>5, BusySound DEF Busy
  <2> QED
    BY <1>1, <1>2, <1>7, <2>2, <2>3, <2>6, GotoInv DEF Stages, Outside, Unentered
<1>8. CASE todo[i] # <<>> /\ Goto(i, "stage") /\ UNCHANGED <<todo, fresh>>
  <2>1. Untouched /\ "stage" \in Stages
    BY <1>1, <1>8 DEF Untouched, memory, bounds, Stages
  <2>2. ArtifactSound(i, Current(i))'
    BY <1>8, <2>1, UntouchedSelf DEF ArtifactSound
  <2>3. InstallerSound(i)'
    BY <1>1, <1>2, <1>8, <2>1, <2>2, UntouchedSelf, BusySound DEF Busy
  <2> QED
    BY <1>1, <1>8, <2>1, <2>3, UntouchedGoto DEF Outside, Unentered
<1> QED
  BY <1>4, <1>5, <1>6, <1>7, <1>8 DEF NextArtifact, InspectArtifact, RightSize

LEMMA VerifyHashInv ==
    ASSUME InstallInv, NEW i \in Installers, VerifyHash(i)
    PROVE  InstallInv'
<1>1. pc[i] = "verify" /\ Untouched
  BY DEF VerifyHash, Untouched, bounds
<1>2. CASE Leave(i, "error")
  BY <1>1, <1>2, UntouchedLeave
<1>3. CASE dest[Current(i)] = "good" /\ Goto(i, "verified")
  <2>1. ArtifactSound(i, Current(i))'
    BY <1>1, <1>3, UntouchedSelf DEF ArtifactSound, Stages
  <2> QED
    BY <1>1, <1>3, <2>1, UntouchedBusy DEF Busy
<1> QED
  BY <1>2, <1>3 DEF VerifyHash

LEMMA VerifyIdentityInv ==
    ASSUME InstallInv, NEW i \in Installers, VerifyIdentity(i)
    PROVE  InstallInv'
<1>1. pc[i] = "verified" /\ Untouched
  BY DEF VerifyIdentity, Untouched, bounds
<1>2. CASE Leave(i, "error")
  BY <1>1, <1>2, UntouchedLeave
<1>3. CASE fresh[i] /\ Goto(i, "record")
  <2>1. dest[Current(i)] = "good"
    BY <1>1, <1>3, BusyArtifact DEF ArtifactSound, Busy
  <2>2. ArtifactSound(i, Current(i))'
    BY <1>1, <1>3, <2>1, UntouchedSelf DEF ArtifactSound, Stages
  <2> QED
    BY <1>1, <1>3, <2>2, UntouchedBusy DEF Busy
<1> QED
  BY <1>2, <1>3 DEF VerifyIdentity

\* A step of the lock's holder that may change files.
LEMMA HolderGoto ==
    ASSUME InstallInv, NEW i \in Installers, pc[i] \notin Outside,
           NEW l \in Stages \ Outside, Goto(i, l),
           UNCHANGED <<request, touched, workflow>>,
           \A j \in Installers \ {i} : todo'[j] = todo[j],
           receipt \subseteq receipt',
           DataTypeOK', StagingSound', RecordsSound', InstallerSound(i)'
    PROVE  InstallInv'
<1>1. ControlTypeOK' /\ LockSound'
  BY GotoControl
<1>2. \A j \in Installers \ {i} : InstallerSound(j)'
  BY Moves, HolderOthers DEF SameCommand
<1> QED
  BY <1>1, <1>2 DEF InstallInv, TypeOK

\* In the stages of staging no downloader runs.
LEMMA NoDownloader ==
    ASSUME InstallInv, NEW i \in Installers,
           pc[i] \notin Unentered \cup {"download"}
    PROVE  containers = {}
BY DEF InstallInv, StagingSound

LEMMA NoStaging ==
    ASSUME containers' = {}
    PROVE  StagingSound'
BY DEF StagingSound

\* The holder fills the staged payload of its artifact.
LEMMA PayloadFilled ==
    ASSUME InstallInv, NEW i \in Installers, pc[i] \in {"stage", "extract"},
           Goto(i, "label"), NEW v \in FileStates,
           payload' = [payload EXCEPT ![Current(i)] = v],
           mirror' \in [Artifacts -> {"none", "good", "wrong"}],
           UNCHANGED <<content, archive, marked, workflow, pack, containers,
                       memory, cleaner, bounds>>
    PROVE  InstallInv'
<1>1. pc[i] \in Busy /\ pc[i] \notin Outside
      /\ pc[i] \notin Unentered \cup {"download"}
  BY DEF Busy, Outside, Unentered
<1>2. DataTypeOK'
  BY DEF InstallInv, TypeOK, DataTypeOK, content, memory, bounds
<1>3. StagingSound'
  BY <1>1, NoDownloader, NoStaging
<1>4. RecordsSound'
  BY DEF InstallInv, RecordsSound, RecordSound, content, memory, bounds
<1>5. pc'[i] = "label" /\ outcome'[i] = outcome[i]
  BY DEF InstallInv, TypeOK, ControlTypeOK, Goto
<1>6. ArtifactSound(i, Current(i))'
  BY <1>5 DEF ArtifactSound
<1>7. UNCHANGED <<receipt, request, todo, touched, store>>
  BY DEF content, memory
<1>8. InstallerSound(i)'
  BY <1>1, <1>5, <1>6, <1>7, BusyArtifact, BusySound DEF Busy
<1> QED
  BY <1>1, <1>2, <1>3, <1>4, <1>7, <1>8, HolderGoto DEF Stages, Outside

LEMMA StageInv ==
    ASSUME InstallInv, NEW i \in Installers, Stage(i)
    PROVE  InstallInv'
<1>1. pc[i] = "stage"
      /\ UNCHANGED <<content, archive, marked, workflow, pack, memory, cleaner,
                     bounds>>
  BY DEF Stage
<1>2. Current(i) \in Artifacts /\ todo[i] # <<>>
  BY <1>1, BusyArtifact DEF Busy
<1>3. ASSUME NEW l \in {"label", "extract"}, Goto(i, l),
             UNCHANGED <<payload, mirror, containers>>
      PROVE  InstallInv'
  <2>1. Untouched
    BY <1>1, <1>3 DEF Untouched, staging, user, bounds
  <2>2. ArtifactSound(i, Current(i))'
    BY <1>3, <2>1, UntouchedSelf DEF ArtifactSound, Stages
  <2> QED
    BY <1>1, <1>3, <2>1, <2>2, UntouchedBusy DEF Busy
<1>4. CASE Materialize(i, Current(i)) /\ UNCHANGED containers
  <2>1. CASE Leave(i, "error") /\ UNCHANGED <<payload, mirror>>
    <3>1. Untouched
      BY <1>1, <1>4, <2>1 DEF Untouched, staging, user, bounds
    <3> QED
      BY <2>1, <3>1, UntouchedLeave
  <2>2. CASE /\ payload' = [payload EXCEPT ![Current(i)] = mirror[Current(i)]]
             /\ mirror' = IF request[i].mirror = "move"
                          THEN [mirror EXCEPT ![Current(i)] = "none"] ELSE mirror
             /\ Goto(i, "label")
    <3>1. mirror[Current(i)] \in FileStates
          /\ mirror' \in [Artifacts -> {"none", "good", "wrong"}]
      BY <1>2, <2>2 DEF InstallInv, TypeOK, DataTypeOK, FileStates
    <3> QED
      BY <1>1, <1>4, <2>2, <3>1, PayloadFilled
  <2> QED
    BY <1>4, <2>1, <2>2 DEF Materialize
<1>5. CASE /\ ~StagedDownloadReady(Current(i))
           /\ containers' = containers \cup {[by |-> i, of |-> Current(i)]}
           /\ Goto(i, "download") /\ UNCHANGED <<payload, mirror>>
  <2>1. containers = {} /\ pc[i] \notin Outside
    BY <1>1, NoDownloader DEF Unentered, Outside
  <2>2. pc'[i] = "download" /\ outcome'[i] = outcome[i]
    BY <1>5 DEF InstallInv, TypeOK, ControlTypeOK, Goto
  <2>3. DataTypeOK'
    BY <1>1, <1>2, <1>5 DEF InstallInv, TypeOK, DataTypeOK, Downloaders, content,
       memory, bounds
  <2>4. ArchiveOf[Current(i)] \notin marked
    BY <1>2, <1>5, ArchiveAssumption DEF StagedDownloadReady, InstallInv, TypeOK,
       DataTypeOK
  <2>5. \A j \in Installers : pc'[j] \in Unentered \cup {"download"}
    BY <1>1, <1>5, <2>2, Moves DEF InstallInv, LockSound, Outside, Unentered
  <2>6. StagingSound'
    BY <1>1, <1>5, <2>1, <2>4, <2>5 DEF StagingSound
  <2>7. RecordsSound'
    BY <1>1 DEF InstallInv, RecordsSound, RecordSound, content, memory, bounds
  <2>8. ArtifactSound(i, Current(i))'
    BY <2>2 DEF ArtifactSound
  <2>9. UNCHANGED <<receipt, request, todo, touched, store, workflow>>
    BY <1>1 DEF content, memory
  <2>10. InstallerSound(i)'
    BY <1>1, <1>2, <2>2, <2>8, <2>9, BusySound DEF Busy
  <2> QED
    BY <1>5, <2>1, <2>3, <2>6, <2>7, <2>9, <2>10, HolderGoto DEF Stages, Outside
<1> QED
  BY <1>3, <1>4, <1>5 DEF Stage

LEMMA DownloadedInv ==
    ASSUME InstallInv, NEW i \in Installers, Downloaded(i)
    PROVE  InstallInv'
<1>1. pc[i] = "downloaded"
      /\ UNCHANGED <<content, payload, archive, user, containers, memory, cleaner,
                     bounds>>
  BY DEF Downloaded
<1>2. Current(i) \in Artifacts /\ todo[i] # <<>>
  BY <1>1, BusyArtifact DEF Busy
<1>3. CASE Leave(i, "error") /\ UNCHANGED marked
  <2>1. Untouched
    BY <1>1, <1>3 DEF Untouched, staging, bounds
  <2> QED
    BY <1>3, <2>1, UntouchedLeave
<1>4. CASE Goto(i, "label") /\ UNCHANGED marked
  <2>1. Untouched
    BY <1>1, <1>4 DEF Untouched, staging, bounds
  <2>2. ArtifactSound(i, Current(i))'
    BY <1>4, <2>1, UntouchedSelf DEF ArtifactSound, Stages
  <2> QED
    BY <1>1, <1>4, <2>1, <2>2, UntouchedBusy DEF Busy
<1>5. CASE /\ ArchiveOf[Current(i)] # None
           /\ marked' = marked \cup {ArchiveOf[Current(i)]} /\ Goto(i, "extract")
  <2>1. DataTypeOK'
    BY <1>1, <1>2, <1>5, ArchiveAssumption DEF InstallInv, TypeOK, DataTypeOK,
       content, user, memory, bounds
  <2>2. StagingSound'
    BY <1>1, NoDownloader, NoStaging DEF Unentered
  <2>3. RecordsSound'
    BY <1>1 DEF InstallInv, RecordsSound, RecordSound, content, memory, bounds
  <2>4. pc'[i] = "extract" /\ outcome'[i] = outcome[i]
    BY <1>5 DEF InstallInv, TypeOK, ControlTypeOK, Goto
  <2>5. ArtifactSound(i, Current(i))'
    BY <2>4 DEF ArtifactSound
  <2>6. UNCHANGED <<receipt, request, todo, touched, store, workflow>>
    BY <1>1 DEF content, memory, user
  <2>7. InstallerSound(i)'
    BY <1>1, <1>2, <2>4, <2>5, <2>6, BusySound DEF Busy
  <2> QED
    BY <1>1, <1>5, <2>1, <2>2, <2>3, <2>6, <2>7, HolderGoto DEF Stages, Outside
<1> QED
  BY <1>3, <1>4, <1>5 DEF Downloaded, RecordArchiveCompletion

LEMMA ExtractInv ==
    ASSUME InstallInv, NEW i \in Installers, Extract(i)
    PROVE  InstallInv'
<1>1. pc[i] = "extract"
      /\ UNCHANGED <<content, archive, marked, user, containers, memory, cleaner,
                     bounds>>
  BY DEF Extract
<1>2. CASE Leave(i, "error") /\ UNCHANGED payload
  <2>1. Untouched
    BY <1>1, <1>2 DEF Untouched, staging, bounds
  <2> QED
    BY <1>2, <2>1, UntouchedLeave
<1>3. CASE payload' = [payload EXCEPT ![Current(i)] = "good"] /\ Goto(i, "label")
  <2>1. mirror' \in [Artifacts -> {"none", "good", "wrong"}]
    BY <1>1 DEF InstallInv, TypeOK, DataTypeOK, user
  <2>2. UNCHANGED <<workflow, pack>>
    BY <1>1 DEF user
  <2> QED
    BY <1>1, <1>3, <2>1, <2>2, PayloadFilled DEF FileStates
<1> QED
  BY <1>2, <1>3 DEF Extract

LEMMA LabelInv ==
    ASSUME InstallInv, NEW i \in Installers, Label(i)
    PROVE  InstallInv'
<1>1. pc[i] = "label"
      /\ UNCHANGED <<content, staging, user, containers, request, todo, store,
                     found, roots, touched, cleaner, bounds>>
  BY DEF Label
<1>2. CASE Leave(i, "error") /\ UNCHANGED fresh
  <2>1. Untouched
    BY <1>1, <1>2 DEF Untouched, memory, bounds
  <2> QED
    BY <1>2, <2>1, UntouchedLeave
<1>3. CASE fresh' = [fresh EXCEPT ![i] = TRUE] /\ Goto(i, "hash")
  <2>1. \A j \in Installers \ {i} : Same(j)
    BY <1>1, <1>3, Moves DEF InstallInv, TypeOK, DataTypeOK, Same, SameCommand
  <2>2. Steady(i) /\ containers' = containers /\ marked' = marked
    BY <1>1, <2>1 DEF Steady, content, staging, user, bounds
  <2>3. DataTypeOK'
    BY <1>1, <1>3 DEF InstallInv, TypeOK, DataTypeOK, content, staging, user,
       bounds
  <2>4. pc'[i] = "hash" /\ outcome'[i] = outcome[i]
    BY <1>3 DEF InstallInv, TypeOK, ControlTypeOK, Goto
  <2>5. ArtifactSound(i, Current(i))'
    BY <2>4 DEF ArtifactSound
  <2>6. InstallerSound(i)'
    BY <1>1, <2>4, <2>5, BusyArtifact, BusySound DEF Busy, content, user
  <2> QED
    BY <1>1, <1>3, <2>2, <2>3, <2>6, GotoInv DEF Stages, Outside, Unentered
<1> QED
  BY <1>2, <1>3 DEF Label

LEMMA HashInv ==
    ASSUME InstallInv, NEW i \in Installers, Hash(i)
    PROVE  InstallInv'
<1>1. pc[i] = "hash"
      /\ UNCHANGED <<content, archive, marked, user, containers, request, todo,
                     store, found, roots, touched, cleaner, bounds>>
  BY DEF Hash
<1>2. CASE payload[Current(i)] = "good" /\ Goto(i, "publish")
           /\ UNCHANGED <<payload, fresh>>
  <2>1. Untouched
    BY <1>1, <1>2 DEF Untouched, staging, memory, bounds
  <2>2. ArtifactSound(i, Current(i))'
    BY <1>2, <2>1, UntouchedSelf DEF ArtifactSound, Stages
  <2> QED
    BY <1>1, <1>2, <2>1, <2>2, UntouchedBusy DEF Busy
<1>3. CASE /\ payload' = [payload EXCEPT ![Current(i)] = "none"]
           /\ PayloadChanged({Current(i)}) /\ Leave(i, "error")
  <2>1. ControlTypeOK' /\ LockSound'
    BY <1>3, LeaveControl
  <2>2. DataTypeOK'
    BY <1>1, <1>3 DEF InstallInv, TypeOK, DataTypeOK, PayloadChanged, FileStates,
       content, user, bounds
  <2>3. StagingSound'
    BY <1>1, NoDownloader, NoStaging DEF Unentered
  <2>4. RecordsSound'
    BY <1>1 DEF InstallInv, RecordsSound, RecordSound, content, bounds
  <2>5. \A j \in Installers \ {i} : InstallerSound(j)'
    BY <1>1, <1>3, Moves, HolderOthers DEF SameCommand, Outside, content, user
  <2>6. pc'[i] = "idle" /\ outcome'[i] # "ok"
    BY <1>3 DEF InstallInv, TypeOK, ControlTypeOK, Leave
  <2> QED
    BY <2>1, <2>2, <2>3, <2>4, <2>5, <2>6, EndedSound DEF InstallInv, TypeOK
<1> QED
  BY <1>2, <1>3 DEF Hash

LEMMA PublishInv ==
    ASSUME InstallInv, NEW i \in Installers, Publish(i)
    PROVE  InstallInv'
<1>1. pc[i] = "publish" /\ Untouched
  BY DEF Publish, Untouched, bounds
<1>2. CASE Leave(i, "error")
  BY <1>1, <1>2, UntouchedLeave
<1>3. CASE fresh[i] /\ dest[Current(i)] = "none" /\ Goto(i, "rename")
  <2>1. payload[Current(i)] = "good"
    BY <1>1, <1>3, BusyArtifact DEF ArtifactSound, Busy
  <2>2. Current(i) \notin receipt /\ \A j \in Installers : Current(i) \notin store[j]
    BY <1>3 DEF InstallInv, RecordsSound, RecordSound, RightSize
  <2>3. ArtifactSound(i, Current(i))'
    BY <1>1, <1>3, <2>1, <2>2, UntouchedSelf DEF ArtifactSound, Stages
  <2> QED
    BY <1>1, <1>3, <2>3, UntouchedBusy DEF Busy
<1> QED
  BY <1>2, <1>3 DEF Publish

LEMMA RenameInv ==
    ASSUME InstallInv, NEW i \in Installers, Rename(i)
    PROVE  InstallInv'
<1> DEFINE a == Current(i)
<1>1. pc[i] = "rename"
      /\ UNCHANGED <<archive, marked, user, containers, request, todo, fresh,
                     found, roots, touched, cleaner, bounds>>
  BY DEF Rename
<1>2. a \in Artifacts /\ todo[i] # <<>> /\ ArtifactSound(i, a)
  BY <1>1, BusyArtifact DEF Busy
<1>3. CASE Leave(i, "error") /\ UNCHANGED <<dest, receipt, payload, store>>
  <2>1. Untouched
    BY <1>1, <1>3 DEF Untouched, content, staging, memory, bounds
  <2> QED
    BY <1>3, <2>1, UntouchedLeave
<1>4. CASE /\ dest' = [dest EXCEPT ![a] = payload[a]]
           /\ payload' = [payload EXCEPT ![a] = "none"]
           /\ receipt' = receipt \ {a}
           /\ store' = [j \in Installers |-> store[j] \ {a}]
           /\ Goto(i, "installed")
  <2> HIDE DEF a
  <2>1. receipt' = receipt /\ store' = store
    BY <1>1, <1>2, <1>4 DEF ArtifactSound, InstallInv, TypeOK, DataTypeOK
  <2>2. DataTypeOK'
    BY <1>1, <1>2, <1>4, <2>1 DEF InstallInv, TypeOK, DataTypeOK, FileStates,
       user, bounds
  <2>3. StagingSound'
    BY <1>1, NoDownloader, NoStaging DEF Unentered
  <2>4. RecordsSound'
    BY <1>1, <1>2, <1>4, <2>1 DEF InstallInv, RecordsSound, RecordSound,
       ArtifactSound, bounds
  <2>5. pc'[i] = "installed" /\ outcome'[i] = outcome[i]
    BY <1>4 DEF InstallInv, TypeOK, ControlTypeOK, Goto
  <2>6. Current(i)' = a
    BY <1>1 DEF a, Current
  <2>7. fresh'[i] => dest'[a] = "good"
    BY <1>1, <1>2, <1>4 DEF ArtifactSound, InstallInv, TypeOK, DataTypeOK
  <2>8. ArtifactSound(i, Current(i))'
    BY <2>5, <2>6, <2>7 DEF ArtifactSound
  <2>9. InstallerSound(i)'
    BY <1>1, <1>2, <2>1, <2>5, <2>8, BusySound DEF Busy, user
  <2> QED
    BY <1>1, <1>4, <2>1, <2>2, <2>3, <2>4, <2>9, HolderGoto DEF Stages, Outside,
       user
<1> QED
  BY <1>3, <1>4 DEF Rename

LEMMA CheckInstalledInv ==
    ASSUME InstallInv, NEW i \in Installers, CheckInstalled(i)
    PROVE  InstallInv'
<1>1. pc[i] = "installed"
      /\ UNCHANGED <<content, staging, user, containers, request, todo, store,
                     fresh, found, touched, cleaner, bounds>>
  BY DEF CheckInstalled
<1>2. Current(i) \in Artifacts /\ todo[i] # <<>> /\ ArtifactSound(i, Current(i))
  BY <1>1, BusyArtifact DEF Busy
<1>3. CASE Leave(i, "error") /\ UNCHANGED roots
  <2>1. Untouched
    BY <1>1, <1>3 DEF Untouched, memory, bounds
  <2> QED
    BY <1>3, <2>1, UntouchedLeave
<1>4. CASE /\ fresh[i] /\ Goto(i, "record")
           /\ roots' = [roots EXCEPT ![i] = @ \cup {StagingRoot(Current(i))}]
  <2>1. StagingRoot(Current(i)) \in Artifacts \cup Archives
    BY <1>2, ArchiveAssumption DEF StagingRoot
  <2>2. \A j \in Installers \ {i} : Same(j)
    BY <1>1, <1>4, Moves DEF Same, SameCommand
  <2>3. Steady(i) /\ containers' = containers /\ marked' = marked
    BY <1>1, <2>2 DEF Steady, content, staging, user, bounds
  <2>4. DataTypeOK'
    BY <1>1, <1>4, <2>1 DEF InstallInv, TypeOK, DataTypeOK, content, staging,
       user, bounds
  <2>5. pc'[i] = "record" /\ outcome'[i] = outcome[i]
    BY <1>4 DEF InstallInv, TypeOK, ControlTypeOK, Goto
  <2>6. dest[Current(i)] = "good" /\ Current(i)' = Current(i)
    BY <1>1, <1>2, <1>4 DEF ArtifactSound, Current
  <2>7. ArtifactSound(i, Current(i))'
    BY <1>1, <2>5, <2>6 DEF ArtifactSound, content
  <2>8. InstallerSound(i)'
    BY <1>1, <1>2, <2>5, <2>7, BusySound DEF Busy, content, user
  <2> QED
    BY <1>1, <1>4, <2>3, <2>4, <2>8, GotoInv DEF Stages, Outside, Unentered
<1> QED
  BY <1>3, <1>4 DEF CheckInstalled

LEMMA RecordInv ==
    ASSUME InstallInv, NEW i \in Installers, Record(i)
    PROVE  InstallInv'
<1> DEFINE a == Current(i)
<1>1. pc[i] = "record"
      /\ UNCHANGED <<content, staging, user, containers, request, fresh, found,
                     roots, touched, cleaner, bounds>>
  BY DEF Record
<1>2. a \in Artifacts /\ todo[i] # <<>> /\ ArtifactSound(i, a)
      /\ todo[i] \in Seq(Artifacts)
  BY <1>1, BusyArtifact DEF Busy
<1>3. CASE Leave(i, "error") /\ UNCHANGED <<store, todo>>
  <2>1. Untouched
    BY <1>1, <1>3 DEF Untouched, memory, bounds
  <2> QED
    BY <1>3, <2>1, UntouchedLeave
<1>4. CASE /\ dest[a] \in RightSize
           /\ store' = [store EXCEPT ![i] = @ \cup {a}]
           /\ todo' = [todo EXCEPT ![i] = Tail(@)]
           /\ Goto(i, "next")
  <2>1. Selected(i) = {a} \cup Selected(i)' /\ Tail(todo[i]) \in Seq(Artifacts)
    BY <1>2, <1>4, HeadAndTail DEF Selected, Current, InstallInv, TypeOK,
       DataTypeOK
  <2> HIDE DEF a
  <2>2. DataTypeOK'
    BY <1>1, <1>2, <1>4, <2>1 DEF InstallInv, TypeOK, DataTypeOK, content,
       staging, user, bounds
  <2>3. StagingSound'
    BY <1>1, NoDownloader, NoStaging DEF Unentered
  <2>4. a \notin raced => dest[a] = "good"
    BY <1>1, <1>2, <1>4 DEF ArtifactSound, RightSize
  <2>5. store'[i] = store[i] \cup {a} /\ \A j \in Installers \ {i} : store'[j] = store[j]
    BY <1>4 DEF InstallInv, TypeOK, DataTypeOK
  <2>6. RecordsSound'
    BY <1>1, <1>4, <2>4, <2>5 DEF InstallInv, RecordsSound, RecordSound, content,
       bounds
  <2>7. pc'[i] = "next" /\ outcome'[i] = outcome[i]
    BY <1>4 DEF InstallInv, TypeOK, ControlTypeOK, Goto
  <2>8. InstallerSound(i) /\ Asked(i)' = Asked(i)
    BY <1>1 DEF InstallInv, Asked
  <2>9. ProgressSound(i)'
    BY <1>1, <2>1, <2>5, <2>7, <2>8 DEF InstallerSound, ProgressSound, content,
       user, Busy
  <2>10. StoreSound(i)'
    BY <1>1, <2>5, <2>8 DEF InstallerSound, StoreSound, Unentered, content
  <2>11. InstallerSound(i)'
    BY <2>7, <2>9, <2>10 DEF InstallerSound, CurrentSound, Busy
  <2>12. \A j \in Installers \ {i} : todo'[j] = todo[j]
    BY <1>4 DEF InstallInv, TypeOK, DataTypeOK
  <2> QED
    BY <1>1, <1>4, <2>2, <2>3, <2>6, <2>11, <2>12, HolderGoto DEF Stages, Outside,
       content, user
<1> QED
  BY <1>3, <1>4 DEF Record

-----------------------------------------------------------------------------
(* After the loop.                                                         *)

LEMMA SaveInv ==
    ASSUME InstallInv, NEW i \in Installers, Save(i)
    PROVE  InstallInv'
<1>1. /\ pc[i] = "save" /\ Goto(i, "prune")
      /\ receipt' = {a \in store[i] : dest[a] # "none"}
      /\ UNCHANGED <<dest, staging, user, containers, memory, cleaner, bounds>>
  BY DEF Save
<1>2. receipt' = store[i] /\ receipt \subseteq store[i] /\ store[i] \subseteq Artifacts
  BY <1>1 DEF InstallInv, RecordsSound, RecordSound, RightSize, InstallerSound,
     StoreSound, Unentered, TypeOK, DataTypeOK
<1>3. DataTypeOK'
  BY <1>1, <1>2 DEF InstallInv, TypeOK, DataTypeOK, staging, user, memory, bounds
<1>4. StagingSound'
  BY <1>1, NoDownloader, NoStaging DEF Unentered
<1>5. RecordsSound'
  BY <1>1, <1>2 DEF InstallInv, RecordsSound, RecordSound, memory, bounds
<1>6. pc'[i] = "prune" /\ outcome'[i] = outcome[i]
  BY <1>1 DEF InstallInv, TypeOK, ControlTypeOK, Goto
<1>7. InstallerSound(i) /\ Asked(i)' = Asked(i) /\ UNCHANGED <<store, touched, request>>
  BY <1>1 DEF InstallInv, Asked, memory
<1>8. ProgressSound(i)'
  BY <1>1, <1>2, <1>6, <1>7 DEF InstallerSound, ProgressSound, Busy, user
<1>9. InstallerSound(i)'
  BY <1>2, <1>6, <1>7, <1>8 DEF InstallerSound, StoreSound, CurrentSound, Busy
<1> QED
  BY <1>1, <1>2, <1>3, <1>4, <1>5, <1>9, HolderGoto DEF Stages, Outside, user,
     memory

LEMMA PruneInv ==
    ASSUME InstallInv, NEW i \in Installers, Prune(i)
    PROVE  InstallInv'
<1>1. pc[i] = "prune"
      /\ UNCHANGED <<content, user, containers, request, todo, store, found,
                     touched, cleaner, bounds>>
  BY DEF Prune
<1>2. InstallerSound(i) /\ Asked(i)' = Asked(i)
  BY <1>1 DEF InstallInv, Asked
<1>3. StagingSound' /\ RecordsSound'
  BY <1>1, NoDownloader, NoStaging DEF Unentered, InstallInv, RecordsSound,
     RecordSound, content, bounds
<1>4. ASSUME NEW r \in roots[i], RemoveRoots({r}),
             roots' = [roots EXCEPT ![i] = @ \ {r}], Goto(i, "prune")
      PROVE  InstallInv'
  <2>1. DataTypeOK'
    BY <1>1, <1>4 DEF InstallInv, TypeOK, DataTypeOK, RemoveRoots, PayloadChanged,
       FileStates, content, user, bounds
  <2>2. pc'[i] = "prune" /\ outcome'[i] = outcome[i]
    BY <1>4 DEF InstallInv, TypeOK, ControlTypeOK, Goto
  <2>3. InstallerSound(i)'
    BY <1>1, <1>2, <2>2 DEF InstallerSound, StoreSound, CurrentSound,
       ProgressSound, Busy, content, user
  <2> QED
    BY <1>1, <1>3, <1>4, <2>1, <2>3, HolderGoto DEF Stages, Outside, content, user
<1>5. ASSUME UNCHANGED <<staging, roots, fresh>>
      PROVE  Untouched
  BY <1>1, <1>5 DEF Untouched, memory, bounds
<1>6. CASE request[i].import /\ Leave(i, "ok") /\ UNCHANGED <<staging, roots, fresh>>
  <2>1. ControlTypeOK' /\ LockSound'
    BY <1>6, LeaveControl
  <2>2. Steady(i) /\ DataTypeOK'
    BY <1>5, <1>6, UntouchedSteady
  <2>3. pc'[i] = "idle" /\ outcome'[i] = "ok"
    BY <1>6 DEF InstallInv, TypeOK, ControlTypeOK, Leave
  <2>4. InstallerSound(i)'
    BY <1>1, <1>2, <1>6, <2>3 DEF InstallerSound, StoreSound, CurrentSound,
       ProgressSound, Unentered, Busy, content
  <2> QED
    BY <1>3, <2>1, <2>2, <2>4, SteadyOthers DEF InstallInv, TypeOK
<1>7. CASE /\ pc' = [pc EXCEPT ![i] = "workflow"] /\ lock' = None
           /\ UNCHANGED <<outcome, staging, roots, fresh>>
  <2>1. Untouched
    BY <1>5, <1>7
  <2>2. ControlTypeOK' /\ pc'[i] = "workflow"
        /\ \A j \in Installers \ {i} : pc'[j] = pc[j]
    BY <1>7 DEF InstallInv, TypeOK, ControlTypeOK, Stages
  <2>3. LockSound'
    BY <1>1, <1>7, <2>2, ArchiveAssumption DEF InstallInv, LockSound, Outside
  <2>4. Steady(i) /\ DataTypeOK'
    BY <1>7, <2>1, <2>2 DEF InstallInv, TypeOK, DataTypeOK, Untouched, Steady,
       Same, SameCommand, content, staging, user, memory
  <2>5. InstallerSound(i)'
    BY <1>1, <1>2, <1>7, <2>2 DEF InstallerSound, StoreSound, CurrentSound,
       ProgressSound, Unentered, Busy, content, user
  <2> QED
    BY <1>3, <2>2, <2>3, <2>4, <2>5, SteadyOthers DEF InstallInv, TypeOK
<1> QED
  BY <1>4, <1>6, <1>7 DEF Prune

LEMMA CheckWorkflowInv ==
    ASSUME InstallInv, NEW i \in Installers, CheckWorkflow(i)
    PROVE  InstallInv'
<1>1. pc[i] = "workflow" /\ Untouched
  BY DEF CheckWorkflow, Untouched, bounds
<1>2. CASE Leave(i, "error")
  BY <1>1, <1>2, UntouchedLeave
<1>3. CASE workflow = "curated" /\ Leave(i, "ok")
  <2>1. ControlTypeOK' /\ LockSound'
    BY <1>3, LeaveControl
  <2>2. Steady(i) /\ DataTypeOK'
    BY <1>1, <1>3, UntouchedSteady
  <2>3. pc'[i] = "idle" /\ outcome'[i] = "ok"
    BY <1>3 DEF InstallInv, TypeOK, ControlTypeOK, Leave
  <2>4. StagingSound'
    BY <1>1, <1>3, <2>3, Moves, StagingKept DEF Unentered, Untouched, staging
  <2>5. Asked(i)' = Asked(i)
    BY <1>1 DEF Asked, Untouched, memory
  <2>6. InstallerSound(i)'
    BY <1>1, <1>3, <2>3, <2>5 DEF InstallInv, InstallerSound, StoreSound,
       CurrentSound, ProgressSound, Untouched, Unentered, Busy, content, user,
       memory
  <2> QED
    BY <2>1, <2>2, <2>4, <2>6, SteadyOthers DEF InstallInv, TypeOK
<1>4. ASSUME NEW l \in {"create", "replace"}, Goto(i, l),
             l = "replace" => request[i].force
      PROVE  InstallInv'
  <2>1. l \in Stages
    BY <1>4 DEF Stages
  <2>2. InstallerSound(i)'
    BY <1>1, <1>4, <2>1, UntouchedSelf DEF InstallInv, InstallerSound, StoreSound,
       CurrentSound, ProgressSound, Unentered, Busy
  <2> QED
    BY <1>1, <1>4, <2>1, <2>2, UntouchedGoto DEF Outside, Unentered
<1> QED
  BY <1>2, <1>3, <1>4 DEF CheckWorkflow

LEMMA WriteWorkflowInv ==
    ASSUME InstallInv, NEW i \in Installers, WriteWorkflow(i)
    PROVE  InstallInv'
<1>1. /\ pc[i] \in {"create", "replace"} /\ workflow' = "curated" /\ Leave(i, "ok")
      /\ UNCHANGED <<content, staging, mirror, pack, containers, memory, cleaner,
                     bounds>>
  BY DEF WriteWorkflow
<1>2. ControlTypeOK' /\ LockSound'
  BY <1>1, LeaveControl
<1>3. \A j \in Installers \ {i} : Same(j)
  BY <1>1, Moves DEF Same, SameCommand, memory
<1>4. Steady(i)
  BY <1>1, <1>3 DEF Steady, content, staging, memory, bounds
<1>5. DataTypeOK'
  BY <1>1 DEF InstallInv, TypeOK, DataTypeOK, content, staging, memory, bounds
<1>6. pc'[i] = "idle" /\ outcome'[i] = "ok"
  BY <1>1 DEF InstallInv, TypeOK, ControlTypeOK, Leave
<1>7. StagingSound'
  BY <1>1, <1>6, Moves, StagingKept DEF Unentered, staging
<1>8. Asked(i)' = Asked(i)
  BY <1>1 DEF Asked, memory
<1>9. InstallerSound(i)'
  BY <1>1, <1>6, <1>8 DEF InstallInv, InstallerSound, StoreSound, CurrentSound,
     ProgressSound, Unentered, Busy, content, memory
<1> QED
  BY <1>2, <1>4, <1>5, <1>7, <1>9, SteadyOthers DEF InstallInv, TypeOK

\* GiveUp and Kill: a command may end at any stage.
LEMMA StopInv ==
    ASSUME InstallInv, NEW i \in Installers, GiveUp(i) \/ Kill(i)
    PROVE  InstallInv'
<1>1. PICK r \in {"error", "killed"} : Leave(i, r)
  BY DEF GiveUp, Kill
<1>2. containers' \subseteq containers
      /\ UNCHANGED <<content, staging, user, memory, cleaner, raced>>
  BY DEF GiveUp, Kill, bounds
<1>3. \A j \in Installers \ {i} : Same(j)
  BY <1>1, <1>2, Moves DEF Same, SameCommand, memory
<1>4. Steady(i) /\ marked' = marked
  BY <1>2, <1>3 DEF Steady, content, staging, user, memory
<1>5. DataTypeOK'
  BY <1>2 DEF InstallInv, TypeOK, DataTypeOK, content, staging, user, memory
<1> QED
  BY <1>1, <1>2, <1>4, <1>5, LeaveInv

-----------------------------------------------------------------------------
(* The downloader container, other programs, and cleanup.                  *)

\* While a downloader writes, no installer looks at a staged file.
LEMMA WriteTargetSound ==
    ASSUME InstallInv, NEW c \in containers,
           NEW p \in {"partial", "good", "wrong"},
           NEW x \in {"partial", "good", "changed"}, WriteTarget(c, p, x)
    PROVE  /\ payload' \in [Artifacts -> FileStates]
           /\ archive' \in [Archives -> {"none", "partial", "good", "changed"}]
           /\ marked' \subseteq marked
           /\ fresh' \in [Installers -> BOOLEAN]
<1>1. DataTypeOK /\ c.of \in Artifacts
  BY DEF InstallInv, TypeOK, DataTypeOK, Downloaders
<1>2. CASE ArchiveOf[c.of] = None
  <2>1. /\ payload' = [payload EXCEPT ![c.of] = p] /\ PayloadChanged({c.of})
        /\ UNCHANGED <<archive, marked>>
    BY <1>2 DEF WriteTarget
  <2>2. fresh' \in [Installers -> BOOLEAN]
    BY <2>1 DEF PayloadChanged
  <2>3. payload' \in [Artifacts -> FileStates]
    BY <1>1, <2>1 DEF DataTypeOK, FileStates
  <2> QED
    BY <1>1, <2>1, <2>2, <2>3 DEF DataTypeOK
<1>3. CASE ArchiveOf[c.of] # None
  BY <1>1, <1>3 DEF DataTypeOK, WriteTarget
<1> QED
  BY <1>2, <1>3

\* An installer that waits, or has not entered, does not depend on staging.
LEMMA WaitingSound ==
    ASSUME InstallInv, NEW j \in Installers, SameCommand(j),
           pc[j] \in Unentered \cup {"download"},
           UNCHANGED <<receipt, workflow, store>>
    PROVE  InstallerSound(j)'
<1>1. InstallerSound(j)
  BY DEF InstallInv
<1>2. Selected(j)' = Selected(j) /\ Asked(j)' = Asked(j)
  BY SameRequest
<1>3. StoreSound(j)'
  BY <1>1 DEF SameCommand, InstallerSound, StoreSound
<1>4. CurrentSound(j)'
  BY <1>1 DEF SameCommand, InstallerSound, CurrentSound, ArtifactSound, Unentered,
     Busy
<1>5. ProgressSound(j)'
  BY <1>1, <1>2 DEF SameCommand, InstallerSound, ProgressSound
<1> QED
  BY <1>3, <1>4, <1>5 DEF InstallerSound

LEMMA DownloaderWritesInv ==
    ASSUME InstallInv, NEW c \in containers, DownloaderWrites(c)
    PROVE  InstallInv'
<1>1. /\ WriteTarget(c, "partial", "partial")
      /\ UNCHANGED <<content, user, containers, lock, pc, request, todo, store,
                     found, roots, touched, outcome, cleaner, bounds>>
  BY DEF DownloaderWrites
<1>2. /\ payload' \in [Artifacts -> FileStates]
      /\ archive' \in [Archives -> {"none", "partial", "good", "changed"}]
      /\ marked' \subseteq marked /\ fresh' \in [Installers -> BOOLEAN]
  BY <1>1, WriteTargetSound
<1>3. TypeOK'
  BY <1>1, <1>2 DEF InstallInv, TypeOK, ControlTypeOK, DataTypeOK, content, user,
     bounds
<1>4. LockSound' /\ RecordsSound'
  BY <1>1 DEF InstallInv, LockSound, RecordsSound, RecordSound, content, bounds
<1>5. StagingSound'
  BY <1>1, <1>2 DEF InstallInv, StagingSound
<1>6. \A j \in Installers : InstallerSound(j)'
  BY <1>1, WaitingSound DEF InstallInv, StagingSound, SameCommand, content, user
<1> QED
  BY <1>3, <1>4, <1>5, <1>6 DEF InstallInv

LEMMA DownloaderExitsInv ==
    ASSUME InstallInv, NEW c \in containers, DownloaderExits(c)
    PROVE  InstallInv'
<1>1. /\ containers' = containers \ {c}
      /\ UNCHANGED <<content, user, request, todo, store, found, roots, touched,
                     cleaner, bounds>>
  BY DEF DownloaderExits
<1>2. containers' = {} /\ c.by \in Installers
      /\ \A j \in Installers : pc[j] \in Unentered \cup {"download"}
  BY <1>1 DEF InstallInv, StagingSound, TypeOK, DataTypeOK, Downloaders
<1>3. StagingSound'
  BY <1>2, NoStaging
<1>4. RecordsSound'
  BY <1>1 DEF InstallInv, RecordsSound, RecordSound, content, bounds
<1>5. DataTypeOK'
  <2>1. CASE \E p \in RightSize, x \in {"good", "changed"} : WriteTarget(c, p, x)
    <3>1. /\ payload' \in [Artifacts -> FileStates]
          /\ archive' \in [Archives -> {"none", "partial", "good", "changed"}]
          /\ marked' \subseteq marked /\ fresh' \in [Installers -> BOOLEAN]
      BY <2>1, WriteTargetSound DEF RightSize
    <3> QED
      BY <1>1, <1>2, <3>1 DEF InstallInv, TypeOK, DataTypeOK, content, user, bounds
  <2>2. CASE UNCHANGED <<staging, fresh>>
    BY <1>1, <1>2, <2>2 DEF InstallInv, TypeOK, DataTypeOK, content, staging,
       user, bounds
  <2> QED
    BY <2>1, <2>2 DEF DownloaderExits
<1>6. ASSUME NEW j \in Installers, pc'[j] = pc[j], outcome'[j] = outcome[j]
      PROVE  InstallerSound(j)'
  BY <1>1, <1>2, <1>6, WaitingSound DEF SameCommand, content, user
<1>7. CASE UNCHANGED <<pc, lock, outcome>>
  <2>1. ControlTypeOK' /\ LockSound'
    BY <1>7 DEF InstallInv, TypeOK, ControlTypeOK, LockSound
  <2> QED
    BY <1>3, <1>4, <1>5, <1>6, <1>7, <2>1 DEF InstallInv, TypeOK
<1>8. CASE pc[c.by] = "download" /\ Leave(c.by, "error")
  <2>1. ControlTypeOK' /\ LockSound'
    BY <1>2, <1>8, LeaveControl
  <2>2. pc'[c.by] = "idle" /\ outcome'[c.by] # "ok"
    BY <1>2, <1>8 DEF InstallInv, TypeOK, ControlTypeOK, Leave
  <2>3. InstallerSound(c.by)'
    BY <1>2, <2>2, EndedSound
  <2>4. \A j \in Installers \ {c.by} : InstallerSound(j)'
    BY <1>2, <1>6, <1>8, Moves
  <2> QED
    BY <1>3, <1>4, <1>5, <2>1, <2>3, <2>4 DEF InstallInv, TypeOK
<1>9. CASE pc[c.by] = "download" /\ Goto(c.by, "downloaded")
  <2>1. ControlTypeOK' /\ LockSound'
    BY <1>2, <1>9, GotoControl DEF Stages, Outside
  <2>2. pc'[c.by] = "downloaded" /\ outcome'[c.by] = outcome[c.by]
    BY <1>2, <1>9 DEF InstallInv, TypeOK, ControlTypeOK, Goto
  <2>3. ArtifactSound(c.by, Current(c.by))'
    BY <2>2 DEF ArtifactSound
  <2>4. InstallerSound(c.by)'
    BY <1>1, <1>2, <1>9, <2>2, <2>3, BusyArtifact, BusySound DEF Busy, content,
       user
  <2>5. \A j \in Installers \ {c.by} : InstallerSound(j)'
    BY <1>2, <1>6, <1>9, Moves
  <2> QED
    BY <1>3, <1>4, <1>5, <2>1, <2>4, <2>5 DEF InstallInv, TypeOK
<1> QED
  BY <1>7, <1>8, <1>9 DEF DownloaderExits

\* Another program replaces or removes an installed file.
LEMMA EditDest ==
    ASSUME InstallInv, NEW a \in Artifacts, NEW v \in {"none", "wrong", "other"},
           dest' = [dest EXCEPT ![a] = v],
           raced' = IF InWindow(a) THEN raced \cup {a} ELSE raced,
           DestChanged({a}), Touch({a}), UNCHANGED user,
           UNCHANGED <<staging, containers, lock, pc, request, todo, found, roots,
                       outcome, cleaner>>
    PROVE  InstallInv'
<1>1. /\ receipt' = receipt \ {a}
      /\ \A j \in Installers : /\ store'[j] = store[j] \ {a}
                               /\ touched'[j] = touched[j] \cup {a}
                               /\ fresh'[j] => fresh[j]
                               /\ fresh'[j] /\ LooksAtDest(j) => Current(j) # a
  BY DEF DestChanged, Touch
<1>2. \A b \in Artifacts \ {a} : dest'[b] = dest[b]
  BY DEF InstallInv, TypeOK, DataTypeOK
<1>3. raced \subseteq raced' /\ (InWindow(a) => a \in raced')
  OBVIOUS
<1>4. TypeOK'
  BY DEF InstallInv, TypeOK, ControlTypeOK, DataTypeOK, DestChanged, Touch,
     FileStates, staging, user
<1>5. LockSound' /\ StagingSound'
  BY DEF InstallInv, LockSound, StagingSound, staging
<1>6. RecordsSound'
  BY <1>1, <1>2, <1>3 DEF InstallInv, RecordsSound, RecordSound, TypeOK,
     DataTypeOK
<1>7. ASSUME NEW j \in Installers
      PROVE  InstallerSound(j)'
  <2>1. Current(j)' = Current(j) /\ Selected(j)' = Selected(j)
        /\ Asked(j)' = Asked(j)
    BY DEF Current, Selected, Asked
  <2>2. InstallerSound(j)
    BY DEF InstallInv
  <2>3. StoreSound(j)'
    BY <1>1, <2>2 DEF InstallerSound, StoreSound
  <2>4. CurrentSound(j)'
    <3> SUFFICES ASSUME pc[j] \in Busy
                 PROVE  todo'[j] # <<>> /\ ArtifactSound(j, Current(j))'
      BY DEF CurrentSound
    <3>1. todo[j] # <<>> /\ Current(j) \in Artifacts
          /\ ArtifactSound(j, Current(j))
      BY BusyArtifact
    <3>2. pc[j] \in {"rename", "record"} /\ Current(j) = a => a \in raced'
      BY <1>3 DEF InWindow
    <3> QED
      BY <1>1, <1>2, <1>3, <2>1, <3>1, <3>2 DEF ArtifactSound, LooksAtDest,
         staging
  <2>5. ProgressSound(j)'
    BY <1>1, <2>1, <2>2 DEF InstallerSound, ProgressSound, user
  <2> QED
    BY <2>3, <2>4, <2>5 DEF InstallerSound
<1> QED
  BY <1>4, <1>5, <1>6, <1>7 DEF InstallInv

\* Another program changes a mirrored file, the pack or the workflow.
LEMMA EditElse ==
    ASSUME InstallInv,
           UNCHANGED <<content, staging, containers, lock, pc, request, todo, store,
                       fresh, found, roots, outcome, raced>>,
           DataTypeOK',
           \A j \in Installers : touched[j] \subseteq touched'[j],
           workflow' = workflow \/ \A j \in Installers : None \in touched'[j]
    PROVE  InstallInv'
<1>1. ControlTypeOK' /\ LockSound' /\ StagingSound' /\ RecordsSound'
  BY DEF InstallInv, TypeOK, ControlTypeOK, LockSound, StagingSound, RecordsSound,
     RecordSound, content, staging
<1>2. ASSUME NEW j \in Installers
      PROVE  InstallerSound(j)'
  <2>1. Current(j)' = Current(j) /\ Selected(j)' = Selected(j)
        /\ Asked(j)' = Asked(j)
    BY DEF Current, Selected, Asked
  <2>2. StoreSound(j)' /\ CurrentSound(j)'
    BY <2>1 DEF InstallInv, InstallerSound, StoreSound, CurrentSound,
       ArtifactSound, content, staging
  <2>3. ProgressSound(j)'
    BY <2>1 DEF InstallInv, InstallerSound, ProgressSound, content
  <2> QED
    BY <2>2, <2>3 DEF InstallerSound
<1> QED
  BY <1>1, <1>2 DEF InstallInv, TypeOK

LEMMA EditInv ==
    ASSUME InstallInv, Edit
    PROVE  InstallInv'
<1>1. UNCHANGED <<staging, containers, lock, pc, request, todo, found, roots,
                  outcome, cleaner, starts, kills>>
  BY DEF Edit
<1>2. CASE \E a \in Artifacts, v \in {"none", "wrong", "other"} :
             /\ dest' = [dest EXCEPT ![a] = v]
             /\ raced' = IF InWindow(a) THEN raced \cup {a} ELSE raced
             /\ DestChanged({a}) /\ Touch({a})
             /\ UNCHANGED user
  BY <1>1, <1>2, EditDest
<1>3. CASE \E a \in Artifacts :
             /\ mirror' = [mirror EXCEPT ![a] = "wrong"]
             /\ UNCHANGED <<content, store, fresh, touched, workflow, pack, raced>>
  <2>1. DataTypeOK'
    BY <1>1, <1>3 DEF InstallInv, TypeOK, DataTypeOK, content, staging
  <2> QED
    BY <1>1, <1>3, <2>1, EditElse
<1>4. CASE /\ workflow' = "modified" /\ Touch({None})
           /\ UNCHANGED <<content, store, fresh, pack, mirror, raced>>
  <2>1. DataTypeOK'
    BY <1>1, <1>4 DEF InstallInv, TypeOK, DataTypeOK, Touch, content, staging
  <2>2. \A j \in Installers : touched'[j] = touched[j] \cup {None}
    BY <1>4 DEF Touch
  <2> QED
    BY <1>1, <1>4, <2>1, <2>2, EditElse
<1>5. CASE /\ pack' = "other"
           /\ UNCHANGED <<content, store, fresh, touched, workflow, mirror, raced>>
  <2>1. DataTypeOK'
    BY <1>1, <1>5 DEF InstallInv, TypeOK, DataTypeOK, content, staging
  <2> QED
    BY <1>1, <1>5, <2>1, EditElse
<1> QED
  BY <1>2, <1>3, <1>4, <1>5 DEF Edit

LEMMA CleanupPlanInv ==
    ASSUME InstallInv, CleanupPlan
    PROVE  InstallInv'
<1>1. UNCHANGED <<content, staging, user, containers, lock, pc, memory, outcome,
                  raced>>
  BY DEF CleanupPlan
<1>2. cleaner' \in [scope: {"containers", "downloads", "data"},
                    names: SUBSET Downloaders]
  BY DEF CleanupPlan, ManagedContainers, InstallInv, TypeOK, DataTypeOK
<1>3. DataTypeOK'
  BY <1>1, <1>2 DEF InstallInv, TypeOK, DataTypeOK, content, staging, user, memory
<1> QED
  BY <1>1, <1>3, EditElse DEF user, memory

LEMMA CleanupContainersInv ==
    ASSUME InstallInv, CleanupContainers
    PROVE  InstallInv'
<1> DEFINE failed == {i \in {c.by : c \in containers \cap cleaner.names} :
                        pc[i] = "download"}
<1>1. /\ cleaner' = None /\ containers' \subseteq containers
      /\ pc' = [i \in Installers |-> IF i \in failed THEN "idle" ELSE pc[i]]
      /\ outcome' = [i \in Installers |->
                        IF i \in failed THEN "error" ELSE outcome[i]]
      /\ lock' = IF lock \in failed THEN None ELSE lock
      /\ UNCHANGED <<content, staging, user, memory, bounds>>
  BY DEF CleanupContainers
<1>2. \A i \in failed : pc[i] = "download" /\ i \in Installers
  BY DEF InstallInv, TypeOK, DataTypeOK, Downloaders
<1> HIDE DEF failed
<1>3. DataTypeOK'
  BY <1>1 DEF InstallInv, TypeOK, DataTypeOK, content, staging, user, memory,
     bounds
<1>4. ControlTypeOK'
  BY <1>1 DEF InstallInv, TypeOK, ControlTypeOK, Stages
<1>5. LockSound'
  BY <1>1, <1>2, ArchiveAssumption DEF InstallInv, LockSound, TypeOK,
     ControlTypeOK, Outside
<1>6. StagingSound'
  BY <1>1 DEF InstallInv, StagingSound, staging, Unentered
<1>7. RecordsSound'
  BY <1>1 DEF InstallInv, RecordsSound, RecordSound, content, memory, bounds
<1>8. ASSUME NEW j \in Installers
      PROVE  InstallerSound(j)'
  <2>1. CASE j \in failed
    <3>1. pc'[j] = "idle" /\ outcome'[j] # "ok"
      BY <1>1, <2>1
    <3> QED
      BY <3>1, EndedSound
  <2>2. CASE j \notin failed
    <3>1. SameCommand(j)
      BY <1>1, <2>2 DEF SameCommand, memory
    <3>2. Current(j)' = Current(j) /\ Selected(j)' = Selected(j)
          /\ Asked(j)' = Asked(j)
      BY <3>1, SameRequest
    <3> QED
      BY <1>1, <3>1, <3>2 DEF InstallInv, InstallerSound, StoreSound,
         CurrentSound, ArtifactSound, ProgressSound, SameCommand, content,
         staging, user, memory, bounds
  <2> QED
    BY <2>1, <2>2
<1> QED
  BY <1>3, <1>4, <1>5, <1>6, <1>7, <1>8 DEF InstallInv, TypeOK

LEMMA CleanupPathsInv ==
    ASSUME InstallInv, CleanupPaths
    PROVE  InstallInv'
<1>1. /\ cleaner' = None
      /\ UNCHANGED <<mirror, pack, containers, lock, pc, request, todo, found,
                     roots, outcome, bounds>>
  BY DEF CleanupPaths
<1>2. CASE UNCHANGED <<content, staging, workflow, store, fresh, touched>>
  <2>1. DataTypeOK'
    BY <1>1, <1>2 DEF InstallInv, TypeOK, DataTypeOK, content, staging, bounds
  <2> QED
    BY <1>1, <1>2, <2>1, EditElse DEF bounds
<1>3. ControlTypeOK' /\ LockSound'
  BY <1>1 DEF InstallInv, TypeOK, ControlTypeOK, LockSound
<1>4. ASSUME NEW j \in Installers
      PROVE  /\ Current(j)' = Current(j) /\ Selected(j)' = Selected(j)
             /\ Asked(j)' = Asked(j)
  BY <1>1 DEF Current, Selected, Asked
<1>5. CASE /\ RemoveRoots(Artifacts \cup Archives)
           /\ UNCHANGED <<content, workflow, store, touched>>
  <2>1. marked' \subseteq marked
    BY <1>5 DEF RemoveRoots
  <2>2. \A j \in Installers :
          /\ fresh'[j] => fresh[j]
          /\ LooksAtPayload(j) /\ Current(j) \in Artifacts => ~fresh'[j]
    <3>1. \A a \in Artifacts : StagingRoot(a) \in Artifacts \cup Archives
      BY ArchiveAssumption DEF StagingRoot
    <3> QED
      BY <1>5, <3>1 DEF RemoveRoots, PayloadChanged
  <2>3. DataTypeOK'
    <3>1. fresh' \in [Installers -> BOOLEAN]
      BY <1>5 DEF RemoveRoots, PayloadChanged
    <3>2. /\ payload' \in [Artifacts -> FileStates]
          /\ archive' \in [Archives -> {"none", "partial", "good", "changed"}]
      BY <1>5 DEF RemoveRoots, InstallInv, TypeOK, DataTypeOK, FileStates
    <3> QED
      BY <1>1, <1>5, <2>1, <3>1, <3>2 DEF InstallInv, TypeOK, DataTypeOK, content,
         bounds
  <2>4. StagingSound' /\ RecordsSound'
    BY <1>1, <1>5, <2>1 DEF InstallInv, StagingSound, RecordsSound, RecordSound,
       content, bounds
  <2>5. ASSUME NEW j \in Installers
        PROVE  InstallerSound(j)'
    <3>1. StoreSound(j)'
      BY <1>1, <1>5 DEF InstallInv, InstallerSound, StoreSound, content
    <3>2. CurrentSound(j)'
      <4> SUFFICES ASSUME pc[j] \in Busy
                   PROVE  todo'[j] # <<>> /\ ArtifactSound(j, Current(j))'
        BY <1>1 DEF CurrentSound
      <4>1. todo[j] # <<>> /\ Current(j) \in Artifacts
            /\ ArtifactSound(j, Current(j))
        BY BusyArtifact
      <4>2. pc[j] \in {"publish", "rename"} => ~fresh'[j]
        BY <2>2, <4>1 DEF LooksAtPayload
      <4>3. UNCHANGED <<pc, dest, receipt, raced, store, todo>>
        BY <1>1, <1>5 DEF content, bounds
      <4> QED
        BY <1>4, <2>2, <4>1, <4>2, <4>3 DEF ArtifactSound
    <3>3. ProgressSound(j)'
      BY <1>1, <1>4, <1>5 DEF InstallInv, InstallerSound, ProgressSound, content
    <3> QED
      BY <3>1, <3>2, <3>3 DEF InstallerSound
  <2> QED
    BY <1>3, <2>3, <2>4, <2>5 DEF InstallInv, TypeOK
<1>6. CASE /\ dest' = [a \in Artifacts |-> "none"]
           /\ payload' = [a \in Artifacts |-> "none"]
           /\ archive' = [x \in Archives |-> "none"]
           /\ marked' = {} /\ workflow' = "none" /\ receipt' = {}
           /\ store' = [i \in Installers |-> {}]
           /\ fresh' = [i \in Installers |-> FALSE]
           /\ Touch(Artifacts \cup {None})
  <2>1. \A j \in Installers :
          touched'[j] = touched[j] \cup Artifacts \cup {None}
    BY <1>6 DEF Touch
  <2>2. touched' \in [Installers -> SUBSET (Artifacts \cup {None})]
    BY <1>6 DEF Touch, InstallInv, TypeOK, DataTypeOK
  <2>3. DataTypeOK'
    BY <1>1, <1>6, <2>2 DEF InstallInv, TypeOK, DataTypeOK, FileStates, bounds
  <2>4. StagingSound' /\ RecordsSound'
    BY <1>1, <1>6 DEF InstallInv, StagingSound, RecordsSound, RecordSound
  <2>5. ASSUME NEW j \in Installers
        PROVE  InstallerSound(j)'
    <3>1. InstallerSound(j)
      BY DEF InstallInv
    <3>2. StoreSound(j)'
      BY <1>6 DEF StoreSound
    <3>3. CurrentSound(j)'
      <4> SUFFICES ASSUME pc[j] \in Busy
                   PROVE  todo'[j] # <<>> /\ ArtifactSound(j, Current(j))'
        BY <1>1 DEF CurrentSound
      <4>1. todo[j] # <<>> /\ Current(j) \in Artifacts
        BY BusyArtifact
      <4> QED
        BY <1>1, <1>4, <1>6, <4>1 DEF ArtifactSound
    <3>4. request[j] \in Requests => Asked(j) \subseteq Artifacts
      BY RequestsAssumption DEF RequestOK, Asked
    <3>5. ProgressSound(j)'
      BY <1>1, <1>4, <1>6, <2>1, <3>1, <3>4 DEF InstallerSound, ProgressSound, Busy
    <3> QED
      BY <3>2, <3>3, <3>5 DEF InstallerSound
  <2> QED
    BY <1>3, <2>3, <2>4, <2>5 DEF InstallInv, TypeOK
<1> QED
  BY <1>2, <1>5, <1>6 DEF CleanupPaths

-----------------------------------------------------------------------------
(* The invariant.                                                          *)

LEMMA InitInv == Init => InstallInv
<1> SUFFICES ASSUME Init
             PROVE  InstallInv
  OBVIOUS
<1>1. TypeOK
  BY DEF Init, TypeOK, ControlTypeOK, DataTypeOK, FileStates, Stages
<1>2. LockSound
  BY ArchiveAssumption DEF Init, LockSound, Outside
<1>3. StagingSound /\ RecordsSound
  BY DEF Init, StagingSound, RecordsSound, RecordSound
<1>4. ASSUME NEW i \in Installers
      PROVE  InstallerSound(i)
  BY ArchiveAssumption DEF Init, InstallerSound, StoreSound, CurrentSound,
     ProgressSound, Unentered, Busy
<1> QED
  BY <1>1, <1>2, <1>3, <1>4 DEF InstallInv

LEMMA StepInv ==
    ASSUME InstallInv, NEW i \in Installers, Step(i)
    PROVE  InstallInv'
BY InstallCommandInv, ImportCommandInv, WorkflowsInstallInv, PlanInv,
   AcquireInstallLockInv, RequireNoDownloadersInv, LoadStoreInv, NextArtifactInv,
   VerifyHashInv, VerifyIdentityInv, StageInv, DownloadedInv, ExtractInv, LabelInv,
   HashInv, PublishInv, RenameInv, CheckInstalledInv, RecordInv, SaveInv, PruneInv,
   CheckWorkflowInv, WriteWorkflowInv, StopInv DEF Step

LEMMA NextInv == InstallInv /\ [Next]_vars => InstallInv'
<1> SUFFICES ASSUME InstallInv, [Next]_vars
             PROVE  InstallInv'
  OBVIOUS
<1>1. CASE \E i \in Installers : Step(i)
  BY <1>1, StepInv
<1>2. CASE Others
  BY <1>2, DownloaderWritesInv, DownloaderExitsInv, StopInv, EditInv,
     CleanupPlanInv, CleanupContainersInv, CleanupPathsInv DEF Others
<1>3. CASE UNCHANGED vars
  <2>1. UNCHANGED <<content, staging, containers, lock, pc, request, todo, store,
                    fresh, found, roots, outcome, raced, workflow, touched>>
    BY <1>3 DEF vars, user, memory, bounds
  <2>2. DataTypeOK'
    BY <1>3 DEF InstallInv, TypeOK, DataTypeOK, vars, content, staging, user,
       memory, bounds
  <2> QED
    BY <2>1, <2>2, EditElse
<1> QED
  BY <1>1, <1>2, <1>3 DEF Next

\* The inductive invariant holds in every reachable state.
THEOREM InstallInvariant == Spec => []InstallInv
BY InitInv, NextInv, PTL DEF Spec

-----------------------------------------------------------------------------
(* What follows from it.                                                   *)

\* What the receipt vouches for is what the catalog names, for every order of
\* hashing, renaming, recording, killing, cleaning and editing: Store.Record
\* and RequireBundle trust an identity only while the bytes are the right ones.
THEOREM RecordsAreTrue == Spec => []ReadyIsGood
<1>1. InstallInv => ReadyIsGood
  BY DEF InstallInv, RecordsSound, RecordSound, ReadyIsGood, Ready,
     InspectArtifact, RightSize, TypeOK, DataTypeOK, FileStates
<1> QED
  BY <1>1, InstallInvariant, PTL

\* The lock and the look for downloaders that a killed launcher left behind
\* together keep every two writers out of staging/.
THEOREM StagingExclusive == Spec => []OneStagingWriter
<1>1. ASSUME InstallInv
      PROVE  OneStagingWriter
  <2>1. \A c, d \in containers : c = d
    BY <1>1 DEF InstallInv, StagingSound
  <2>2. Cardinality(containers) <= 1
    <3>1. CASE containers = {}
      BY <3>1, FS_EmptySet
    <3>2. CASE containers # {}
      <4>1. PICK c \in containers : TRUE
        BY <3>2
      <4>2. containers = {c}
        BY <2>1
      <4>3. Cardinality({c}) = 1
        BY FS_Singleton
      <4> QED
        BY <4>2, <4>3
    <3> QED
      BY <3>1, <3>2
  <2>3. containers # {} => \A i \in Installers :
          pc[i] \notin {"stage", "downloaded", "extract", "label", "hash",
                        "publish", "rename", "prune"}
    BY <1>1 DEF InstallInv, StagingSound, Unentered
  <2> QED
    BY <2>2, <2>3 DEF OneStagingWriter
<1> QED
  BY <1>1, InstallInvariant, PTL

\* `content install` reports success only for what stays installed, recorded
\* and with its workflow, whatever other commands do afterwards.
THEOREM SuccessIsLasting == Spec => []SuccessLasts
<1>1. ASSUME InstallInv
      PROVE  SuccessLasts
  <2> SUFFICES ASSUME NEW i \in Installers, outcome[i] = "ok"
               PROVE  ContentStatus(Asked(i) \ touched[i],
                          ~request[i].import /\ None \notin touched[i]) = "ready"
    BY DEF SuccessLasts, Asked
  <2>1. ProgressSound(i)
    BY <1>1 DEF InstallInv, InstallerSound
  <2>2. Asked(i) \subseteq receipt \cup touched[i]
        /\ (request[i].import \/ workflow = "curated" \/ None \in touched[i])
    BY <2>1 DEF ProgressSound
  <2>3. \A a \in receipt : Ready(a)
    BY <1>1 DEF InstallInv, RecordsSound, RecordSound, Ready, InspectArtifact,
       RightSize
  <2>4. \A a \in Asked(i) \ touched[i] : Ready(a)
    BY <2>2, <2>3
  <2>5. ~request[i].import /\ None \notin touched[i] => workflow = "curated"
    BY <2>2
  <2>6. ASSUME NEW S, NEW W \in BOOLEAN, \A a \in S : Ready(a),
               W => workflow = "curated"
        PROVE  ContentStatus(S, W) = "ready"
    BY <2>6 DEF ContentStatus
  <2> QED
    BY <2>4, <2>5, <2>6
<1> QED
  BY <1>1, InstallInvariant, PTL

\* Which steps of an installer write what the user keeps.
LEMMA StepWrites ==
    ASSUME NEW i \in Installers, Step(i)
    PROVE  /\ dest' = dest \/ Rename(i)
           /\ archive' = archive \/ \E r \in roots[i] : RemoveRoots({r})
           /\ workflow' = workflow \/ WriteWorkflow(i)
           /\ edits' = edits
<1>1. CASE InstallCommand(i) \/ ImportCommand(i) \/ WorkflowsInstall(i)
  BY <1>1 DEF InstallCommand, ImportCommand, WorkflowsInstall, Begin, content,
     staging
<1>2. CASE \/ Plan(i) \/ AcquireInstallLock(i) \/ RequireNoDownloaders(i)
           \/ LoadStore(i) \/ NextArtifact(i) \/ VerifyHash(i) \/ VerifyIdentity(i)
  BY <1>2 DEF Plan, AcquireInstallLock, RequireNoDownloaders, LoadStore,
     NextArtifact, VerifyHash, VerifyIdentity, content, staging, user, bounds
<1>3. CASE \/ Stage(i) \/ Downloaded(i) \/ Extract(i) \/ Label(i) \/ Hash(i)
           \/ Publish(i) \/ CheckInstalled(i) \/ Record(i)
  BY <1>3 DEF Stage, Downloaded, Extract, Label, Hash, Publish, CheckInstalled,
     Record, content, staging, user, bounds
<1>4. CASE Rename(i) \/ Save(i) \/ CheckWorkflow(i) \/ WriteWorkflow(i) \/ GiveUp(i)
  BY <1>4 DEF Rename, Save, CheckWorkflow, WriteWorkflow, GiveUp, content,
     staging, user, bounds
<1>5. CASE Prune(i)
  BY <1>5 DEF Prune, content, staging, user, bounds
<1> QED
  BY <1>1, <1>2, <1>3, <1>4, <1>5 DEF Step

\* Which steps of the rest of the world do.
LEMMA OthersWrite ==
    ASSUME Others
    PROVE  /\ dest' = dest \/ Edit \/ CleanupPaths
           /\ \/ archive' = archive \/ CleanupPaths
              \/ \E c \in containers : \E p, x : WriteTarget(c, p, x)
           /\ workflow' = workflow \/ Edit \/ CleanupPaths
           /\ edits' = edits \/ edits' = edits + 1
<1>1. ASSUME NEW c \in containers, DownloaderWrites(c) \/ DownloaderExits(c)
      PROVE  /\ UNCHANGED <<dest, workflow, edits>>
             /\ archive' = archive \/ \E p, x : WriteTarget(c, p, x)
  BY <1>1 DEF DownloaderWrites, DownloaderExits, content, staging, user, bounds
<1>2. ASSUME NEW i \in Installers, Kill(i)
      PROVE  UNCHANGED <<dest, archive, workflow, edits>>
  BY <1>2 DEF Kill, content, staging, user
<1>3. CASE CleanupPlan \/ CleanupContainers \/ CleanupPaths
  BY <1>3 DEF CleanupPlan, CleanupContainers, CleanupPaths, content, staging, user,
     bounds
<1>4. CASE Edit
  BY <1>4 DEF Edit, staging
<1> QED
  BY <1>1, <1>2, <1>3, <1>4 DEF Others

LEMMA EditsCount == Spec => [](edits \in Nat)
<1>1. Init => edits \in Nat
  BY DEF Init
<1>2. edits \in Nat /\ [Next]_vars => (edits \in Nat)'
  BY StepWrites, OthersWrite DEF Next, vars, bounds
<1> QED
  BY <1>1, <1>2, PTL DEF Spec

LEMMA DestKept ==
    ASSUME InstallInv, edits \in Nat, Next, NEW a \in Artifacts \ raced,
           dest[a] # "none", dest'[a] # dest[a]
    PROVE  edits' # edits \/ cleaner' # cleaner
<1>1. ASSUME NEW i \in Installers, Rename(i)
      PROVE  FALSE
  <2>1. pc[i] = "rename"
    BY <1>1 DEF Rename
  <2>2. Current(i) \in Artifacts /\ ArtifactSound(i, Current(i))
    BY <2>1, BusyArtifact DEF Busy
  <2>3. a # Current(i)
    BY <2>1, <2>2 DEF ArtifactSound
  <2> QED
    BY <1>1, <2>3 DEF Rename, InstallInv, TypeOK, DataTypeOK
<1>2. Edit => edits' # edits
  BY DEF Edit
<1>3. CleanupPaths => cleaner' # cleaner
  BY DEF CleanupPaths
<1> QED
  BY <1>1, <1>2, <1>3, StepWrites, OthersWrite DEF Next

LEMMA ArchiveKept ==
    ASSUME InstallInv, Next, NEW x \in marked
    PROVE  archive'[x] \in {archive[x], "none"}
<1>1. x \in Archives
  BY DEF InstallInv, TypeOK, DataTypeOK
<1>2. ASSUME NEW R, RemoveRoots(R)
      PROVE  archive'[x] \in {archive[x], "none"}
  BY <1>1, <1>2 DEF RemoveRoots
<1>3. CleanupPaths => archive'[x] \in {archive[x], "none"}
  BY <1>1, <1>2 DEF CleanupPaths, staging
<1>4. ASSUME NEW c \in containers, NEW p, NEW y, WriteTarget(c, p, y)
      PROVE  archive'[x] = archive[x]
  <2>1. ArchiveOf[c.of] # x
    BY DEF InstallInv, StagingSound
  <2> QED
    BY <1>4, <2>1 DEF WriteTarget, InstallInv, TypeOK, DataTypeOK
<1> QED
  BY <1>2, <1>3, <1>4, StepWrites, OthersWrite DEF Next

LEMMA WorkflowKept ==
    ASSUME InstallInv, Next, workflow = "modified", workflow' = "curated"
    PROVE  \E i \in Installers : pc[i] # "idle" /\ pc'[i] = "idle"
                                 /\ request[i].force
<1>1. ~Edit
  BY DEF Edit, user
<1>2. ~CleanupPaths
  BY DEF CleanupPaths
<1>3. PICK i \in Installers : WriteWorkflow(i)
  BY <1>1, <1>2, StepWrites, OthersWrite DEF Next
<1>4. pc[i] = "replace" /\ pc'[i] = "idle"
  BY <1>3 DEF WriteWorkflow, Leave, InstallInv, TypeOK, ControlTypeOK
<1>5. request[i].force
  BY <1>4 DEF InstallInv, InstallerSound, ProgressSound
<1> QED
  BY <1>4, <1>5

\* No command replaces an installed file, writes over a completed archive, or
\* replaces a modified workflow without --force.
THEOREM NothingIsLost == Spec => NothingLost
<1>1. ASSUME InstallInv, edits \in Nat, [Next]_vars
      PROVE  /\ [\A a \in Artifacts \ raced :
                    dest[a] # "none" /\ dest'[a] # dest[a] =>
                        edits' # edits \/ cleaner' # cleaner]_vars
             /\ [\A x \in marked : archive'[x] \in {archive[x], "none"}]_vars
             /\ [workflow = "modified" /\ workflow' = "curated" =>
                    \E i \in Installers : pc[i] # "idle" /\ pc'[i] = "idle"
                                          /\ request[i].force]_vars
  <2>1. CASE Next
    BY <1>1, <2>1, DestKept, ArchiveKept, WorkflowKept
  <2>2. CASE UNCHANGED vars
    BY <2>2
  <2> QED
    BY <1>1, <2>1, <2>2
<1> QED
  BY <1>1, InstallInvariant, EditsCount, PTL DEF Spec, NothingLost,
     NeverOverwritten, CompletedArchiveKept, ModifiedWorkflowKept

=============================================================================
