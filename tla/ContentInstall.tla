--------------------------- MODULE ContentInstall ---------------------------
(***************************************************************************)
(* `content install`, `content import` and `cleanup` over one data         *)
(* directory: content/install.go, content/inspect.go,                      *)
(* verification/store.go, and the commands of cli/commands_content.go and  *)
(* cli/commands_cleanup.go that drive them.                                *)
(*                                                                         *)
(* A file is what its size and its bytes are to its catalog entry: "none", *)
(* "good", "wrong" (the right size, other bytes), "partial" (another size  *)
(* while staged) or "other" (another size, or no regular file, at a        *)
(* destination).  File identities (device, inode, size, mtime, ctime) are  *)
(* not kept; what is kept is which remembered identity is still that of    *)
(* the file: a is in receipt when the record of a on disk describes the    *)
(* present file, in store[i] when the record in the memory of i does, and  *)
(* fresh[i] says that the file i looked at has not changed since.  Every   *)
(* change of a file clears them.                                           *)
(*                                                                         *)
(* An error return whose cause is the outside (a failing system call,      *)
(* Podman, a cancelled context, a declined prompt) is the action GiveUp.   *)
(***************************************************************************)
EXTENDS Integers, Sequences, FiniteSets

CONSTANTS
    Artifacts,     \* catalog artifacts
    Archives,      \* source archives with several members
    ArchiveOf,     \* the archive an artifact is a member of, or None
    Risky,         \* artifacts whose license is not verified
    Installers,    \* processes that run `content install` or `content import`
    Requests,      \* what a command line can ask for: see RequestOK
    None,
    MaxStarts, MaxKills,   \* bounds on invocations and kills
    MaxEdits               \* bound on edits and cleanups

RequestOK(r) ==
    /\ DOMAIN r = {"sel", "mirror", "ack", "force", "import"}
    /\ r.sel \in Seq(Artifacts)
    /\ r.mirror \in {"off", "copy", "move"}
    /\ r.ack \in BOOLEAN /\ r.force \in BOOLEAN /\ r.import \in BOOLEAN
    /\ r.import => Len(r.sel) = 1

ASSUME RequestsAssumption == \A r \in Requests : RequestOK(r)
ASSUME ArchiveAssumption ==
    /\ ArchiveOf \in [Artifacts -> Archives \cup {None}]
    /\ None \notin Artifacts \cup Archives \cup Installers
    /\ None \notin {"ok", "error", "killed"}

VARIABLES
    dest, receipt,              \* installed files; records that describe them
    payload, archive, marked,   \* staging; marked: .complete fits the archive
    mirror,                     \* the user's local mirror
    workflow, pack,             \* one curated workflow, the saved import pack
    containers,                 \* downloaders: [by, of]
    lock,                       \* holder of the install lock
    pc, request, todo, store, fresh, found, roots,   \* of each installer
    outcome, touched,           \* last result; what others changed since
                                \* (None stands for the workflow)
    cleaner,                    \* the cleanup command: None, or its plan
    raced,                      \* what others changed between two adjacent
                                \* system calls of an installer (history)
    starts, kills, edits

content == <<dest, receipt>>
staging == <<payload, archive, marked>>
user == <<mirror, workflow, pack>>
memory == <<request, todo, store, fresh, found, roots, touched>>
bounds == <<raced, starts, kills, edits>>
vars == <<content, staging, user, containers, lock, pc, memory, outcome,
          cleaner, bounds>>

Init ==
    /\ dest = [a \in Artifacts |-> "none"]
    /\ receipt = {}
    /\ payload = [a \in Artifacts |-> "none"]
    /\ archive = [x \in Archives |-> "none"]
    /\ marked = {}
    /\ mirror \in [Artifacts -> {"none", "good"}]
    /\ workflow = "none" /\ pack = "none"
    /\ containers = {} /\ lock = None
    /\ pc = [i \in Installers |-> "idle"]
    /\ request = [i \in Installers |-> None]
    /\ todo = [i \in Installers |-> <<>>]
    /\ store = [i \in Installers |-> {}]
    /\ fresh = [i \in Installers |-> FALSE]
    /\ found = [i \in Installers |-> {}]
    /\ roots = [i \in Installers |-> {}]
    /\ outcome = [i \in Installers |-> None]
    /\ touched = [i \in Installers |-> {}]
    /\ cleaner = None
    /\ raced = {} /\ starts = 0 /\ kills = 0 /\ edits = 0

-----------------------------------------------------------------------------
(* Files and records.                                                      *)

RightSize == {"good", "wrong"}

\* InspectArtifact without hashing, against a set of records.
InspectArtifact(records, a) ==
    IF dest[a] = "none" THEN "missing"
    ELSE IF dest[a] \notin RightSize THEN "mismatch"
    ELSE IF a \in records THEN "verified" ELSE "unverified"

\* RequireBundle: what every later run of an application accepts.
Ready(a) == InspectArtifact(receipt, a) = "verified"

\* contentStatus without --verify, for artifacts S and, if asked, the workflow.
ContentStatus(S, withWorkflow) ==
    IF /\ \A a \in S : Ready(a)
       /\ withWorkflow => workflow = "curated"
    THEN "ready"
    ELSE IF \A a \in S : dest[a] = "none" /\ ~Ready(a) THEN "missing"
    ELSE "partial"

\* The staging directory: one for each artifact, shared by an archive's members.
StagingRoot(a) == IF ArchiveOf[a] = None THEN a ELSE ArchiveOf[a]

StagedPayloadReady(a) == payload[a] \in RightSize

\* Only a transfer that completed, or a readable ZIP, is used again.
StagedDownloadReady(a) ==
    /\ ArchiveOf[a] # None
    /\ \/ ArchiveOf[a] \in marked
       \/ archive[ArchiveOf[a]] = "good"

Current(i) == Head(todo[i])
LooksAtDest(i) == pc[i] \in {"verify", "verified", "installed", "record"}
LooksAtPayload(i) == pc[i] \in {"hash", "publish", "rename"}

\* The files S below content/ changed: no remembered identity fits them.
DestChanged(S) ==
    /\ receipt' = receipt \ S
    /\ store' = [i \in Installers |-> store[i] \ S]
    /\ fresh' = [i \in Installers |-> fresh[i] /\
                    ~(LooksAtDest(i) /\ Current(i) \in S)]

PayloadChanged(S) ==
    fresh' = [i \in Installers |-> fresh[i] /\
                    ~(LooksAtPayload(i) /\ Current(i) \in S)]

\* The process returns; its lock goes with it.
Leave(i, result) ==
    /\ pc' = [pc EXCEPT ![i] = "idle"]
    /\ outcome' = [outcome EXCEPT ![i] = result]
    /\ lock' = IF lock = i THEN None ELSE lock

Goto(i, label) ==
    /\ pc' = [pc EXCEPT ![i] = label]
    /\ UNCHANGED <<lock, outcome>>

-----------------------------------------------------------------------------
(* The commands up to the lock.                                            *)

Begin(i, r) ==
    /\ pc[i] = "idle" /\ starts < MaxStarts
    /\ starts' = starts + 1
    /\ request' = [request EXCEPT ![i] = r]
    /\ todo' = [todo EXCEPT ![i] = r.sel]
    /\ store' = [store EXCEPT ![i] = {}]
    /\ fresh' = [fresh EXCEPT ![i] = FALSE]
    /\ found' = [found EXCEPT ![i] = {}]
    /\ roots' = [roots EXCEPT ![i] = {}]
    /\ touched' = [touched EXCEPT ![i] = {}]
    /\ UNCHANGED <<content, staging, mirror, workflow, containers, cleaner,
                   kills, edits, raced, lock>>

Start(i) ==
    /\ pc' = [pc EXCEPT ![i] = "plan"]
    /\ outcome' = [outcome EXCEPT ![i] = None]

Refuse(i) ==
    /\ outcome' = [outcome EXCEPT ![i] = "error"]
    /\ UNCHANGED pc

\* confirmContentApprovals: missing files with open licensing need an
\* acknowledgment.  A declined agreement or prompt is GiveUp.
Approved(r) ==
    r.ack \/ \A k \in DOMAIN r.sel : r.sel[k] \in Risky => dest[r.sel[k]] # "none"

\* contentInstall up to the call of Install; a dry run changes nothing.
InstallCommand(i) ==
    \E r \in Requests :
        /\ ~r.import /\ r.sel # <<>>
        /\ Begin(i, r)
        /\ IF Approved(r) THEN Start(i) ELSE Refuse(i)
        /\ UNCHANGED pack

\* contentWorkflows, install: the workflow alone, and no lock.
WorkflowsInstall(i) ==
    \E r \in Requests :
        /\ r.sel = <<>>
        /\ Begin(i, r)
        /\ pc' = [pc EXCEPT ![i] = "workflow"]
        /\ outcome' = [outcome EXCEPT ![i] = None]
        /\ UNCHANGED pack

\* saveImportPack creates the pack, or accepts it when its bytes are the same.
SavedPack == IF pack = "none" THEN "saved" ELSE pack

\* contentImport: the choice of one remote file is its request; it refuses
\* without an acknowledgment, and saves the pack before it installs.
ImportCommand(i) ==
    \E r \in Requests :
        /\ r.import
        /\ Begin(i, r)
        /\ IF r.ack
           THEN /\ pack' = SavedPack
                /\ IF pack' = "saved" THEN Start(i) ELSE Refuse(i)
           ELSE Refuse(i) /\ UNCHANGED pack

Selected(i) == {todo[i][k] : k \in DOMAIN todo[i]}

\* Plan, and the refusals Install derives from it.
Plan(i) ==
    /\ pc[i] = "plan"
    /\ LET state(a) == InspectArtifact(receipt, a)
           refused == \/ \E a \in Selected(i) : state(a) = "mismatch"
                      \/ ~Approved(request[i])
       IN  IF refused THEN Leave(i, "error") ELSE Goto(i, "lock")
    /\ store' = [store EXCEPT ![i] = receipt]
    /\ UNCHANGED <<content, staging, user, containers, request, todo, fresh,
                   found, roots, touched, cleaner, bounds>>

AcquireInstallLock(i) ==
    /\ pc[i] = "lock"
    /\ IF lock = None
       THEN /\ lock' = i
            /\ pc' = [pc EXCEPT ![i] = "probe"]
            /\ UNCHANGED outcome
       ELSE Leave(i, "error")
    /\ UNCHANGED <<content, staging, user, containers, memory, cleaner, bounds>>

\* Mutant: the lock alone is trusted.
RequireNoDownloaders_LockOnly(i) ==
    /\ pc[i] = "probe"
    /\ Goto(i, "load")
    /\ UNCHANGED <<content, staging, user, containers, memory, cleaner, bounds>>

\* A killed launcher drops its lock and may leave its container running.
RequireNoDownloaders(i) ==
    /\ pc[i] = "probe"
    /\ IF containers = {} THEN Goto(i, "load") ELSE Leave(i, "error")
    /\ UNCHANGED <<content, staging, user, containers, memory, cleaner, bounds>>

\* openMirror and find: only a file with exactly the artifact's bytes is taken.
MirrorMatch(i, a) ==
    /\ request[i].mirror # "off"
    /\ mirror[a] = "good"

\* Mutant: the receipt read for the plan is kept.
LoadStore_Planned(i) ==
    /\ pc[i] = "load"
    /\ Goto(i, "next")
    /\ UNCHANGED <<content, staging, user, containers, memory, cleaner, bounds>>

\* The receipt is read again under the lock, and the mirror is searched for
\* what is missing and not staged.
LoadStore(i) ==
    /\ pc[i] = "load"
    /\ store' = [store EXCEPT ![i] = receipt]
    /\ found' = [found EXCEPT ![i] =
                    {a \in Selected(i) :
                        /\ InspectArtifact(receipt, a) = "missing"
                        /\ ~StagedPayloadReady(a) /\ MirrorMatch(i, a)}]
    /\ Goto(i, "next")
    /\ UNCHANGED <<content, staging, user, containers, request, todo, fresh,
                   roots, touched, cleaner, bounds>>

-----------------------------------------------------------------------------
(* One artifact at a time.                                                 *)

\* The head of the loop: what is to be done for the next artifact.  An
\* unverified file is relabelled first; its identity is taken after that.
NextArtifact(i) ==
    /\ pc[i] = "next"
    /\ IF todo[i] = <<>>
       THEN Goto(i, "save") /\ UNCHANGED <<todo, fresh>>
       ELSE LET state == InspectArtifact(store[i], Current(i)) IN
            CASE state = "verified" ->
                    /\ todo' = [todo EXCEPT ![i] = Tail(@)]
                    /\ Goto(i, "next") /\ UNCHANGED fresh
              [] state = "unverified" ->
                    /\ fresh' = [fresh EXCEPT ![i] = TRUE]
                    /\ Goto(i, "verify") /\ UNCHANGED todo
              [] state = "missing" ->
                    Goto(i, "stage") /\ UNCHANGED <<todo, fresh>>
              [] OTHER ->
                    Leave(i, "error") /\ UNCHANGED <<todo, fresh>>
    /\ UNCHANGED <<content, staging, user, containers, request, store, found,
                   roots, touched, cleaner, bounds>>

\* VerifyArtifact reads the bytes ...
VerifyHash(i) ==
    /\ pc[i] = "verify"
    /\ IF dest[Current(i)] = "good" THEN Goto(i, "verified")
                                    ELSE Leave(i, "error")
    /\ UNCHANGED <<content, staging, user, containers, memory, cleaner, bounds>>

\* Mutant: the identity is not compared after hashing.
VerifyIdentity_Trusting(i) ==
    /\ pc[i] = "verified"
    /\ Goto(i, "record")
    /\ UNCHANGED <<content, staging, user, containers, memory, cleaner, bounds>>

\* ... and accepts them if the file is the one it started on.
VerifyIdentity(i) ==
    /\ pc[i] = "verified"
    /\ IF fresh[i] THEN Goto(i, "record") ELSE Leave(i, "error")
    /\ UNCHANGED <<content, staging, user, containers, memory, cleaner, bounds>>

\* materialize renames the mirror file, or publishes a complete copy of it; it
\* refuses a file that has gone.
Materialize(i, a) ==
    IF mirror[a] = "none"
    THEN Leave(i, "error") /\ UNCHANGED <<payload, mirror>>
    ELSE /\ payload' = [payload EXCEPT ![a] = mirror[a]]
         /\ mirror' = IF request[i].mirror = "move"
                      THEN [mirror EXCEPT ![a] = "none"] ELSE mirror
         /\ Goto(i, "label")

\* installMissing decides where the bytes come from.
Stage(i) ==
    /\ pc[i] = "stage"
    /\ LET a == Current(i) IN
       \/ /\ StagedPayloadReady(a)
          /\ Goto(i, "label") /\ UNCHANGED <<payload, mirror, containers>>
       \/ /\ ~StagedPayloadReady(a) /\ a \in found[i]
          /\ Materialize(i, a) /\ UNCHANGED containers
       \/ /\ ~StagedPayloadReady(a) /\ a \notin found[i] /\ StagedDownloadReady(a)
          /\ Goto(i, "extract") /\ UNCHANGED <<payload, mirror, containers>>
       \/ /\ ~StagedPayloadReady(a) /\ a \notin found[i] /\ ~StagedDownloadReady(a)
          /\ containers' = containers \cup {[by |-> i, of |-> a]}
          /\ Goto(i, "download") /\ UNCHANGED <<payload, mirror>>
    /\ UNCHANGED <<content, archive, marked, workflow, pack, memory, cleaner,
                   bounds>>

\* recordArchiveCompletion: the mark fits the archive, whatever it is worth.
RecordArchiveCompletion(i, x) ==
    IF archive[x] = "none"
    THEN Leave(i, "error") /\ UNCHANGED marked
    ELSE marked' = marked \cup {x} /\ Goto(i, "extract")

\* The download succeeded and its container is gone.
Downloaded(i) ==
    /\ pc[i] = "downloaded"
    /\ IF ArchiveOf[Current(i)] = None
       THEN Goto(i, "label") /\ UNCHANGED marked
       ELSE RecordArchiveCompletion(i, ArchiveOf[Current(i)])
    /\ UNCHANGED <<content, payload, archive, user, containers, memory, cleaner,
                   bounds>>

\* extractArchive writes a scratch file and renames it when it is complete.
Extract(i) ==
    /\ pc[i] = "extract"
    /\ LET a == Current(i) IN
       IF archive[ArchiveOf[a]] = "good"
       THEN payload' = [payload EXCEPT ![a] = "good"] /\ Goto(i, "label")
       ELSE Leave(i, "error") /\ UNCHANGED payload
    /\ UNCHANGED <<content, archive, marked, user, containers, memory, cleaner,
                   bounds>>

\* Size check, shared label, and the identity the bytes are hashed under.
Label(i) ==
    /\ pc[i] = "label"
    /\ IF StagedPayloadReady(Current(i))
       THEN fresh' = [fresh EXCEPT ![i] = TRUE] /\ Goto(i, "hash")
       ELSE Leave(i, "error") /\ UNCHANGED fresh
    /\ UNCHANGED <<content, staging, user, containers, request, todo, store,
                   found, roots, touched, cleaner, bounds>>

\* Rejected bytes are renamed out of the way.
Hash(i) ==
    /\ pc[i] = "hash"
    /\ LET a == Current(i) IN
       IF payload[a] = "good"
       THEN Goto(i, "publish") /\ UNCHANGED <<payload, fresh>>
       ELSE /\ payload' = [payload EXCEPT ![a] = "none"]
            /\ PayloadChanged({a})
            /\ Leave(i, "error")
    /\ UNCHANGED <<content, archive, marked, user, containers, request, todo,
                   store, found, roots, touched, cleaner, bounds>>

\* Mutant: the destination is not looked at again after the download.
Publish_Blind(i) ==
    /\ pc[i] = "publish"
    /\ IF fresh[i] THEN Goto(i, "rename") ELSE Leave(i, "error")
    /\ UNCHANGED <<content, staging, user, containers, memory, cleaner, bounds>>

\* The last look at both names before the rename.
Publish(i) ==
    /\ pc[i] = "publish"
    /\ IF fresh[i] /\ dest[Current(i)] = "none" THEN Goto(i, "rename")
                                                ELSE Leave(i, "error")
    /\ UNCHANGED <<content, staging, user, containers, memory, cleaner, bounds>>

Rename(i) ==
    /\ pc[i] = "rename"
    /\ LET a == Current(i) IN
       IF payload[a] = "none"
       THEN Leave(i, "error") /\ UNCHANGED <<dest, receipt, payload, store>>
       ELSE /\ dest' = [dest EXCEPT ![a] = payload[a]]
            /\ payload' = [payload EXCEPT ![a] = "none"]
            /\ receipt' = receipt \ {a}
            /\ store' = [j \in Installers |-> store[j] \ {a}]
            /\ Goto(i, "installed")
    /\ UNCHANGED <<archive, marked, user, containers, request, todo, fresh,
                   found, roots, touched, cleaner, bounds>>

\* The installed object is compared with the one that was hashed.
CheckInstalled(i) ==
    /\ pc[i] = "installed"
    /\ IF fresh[i] /\ dest[Current(i)] # "none"
       THEN /\ roots' = [roots EXCEPT ![i] = @ \cup {StagingRoot(Current(i))}]
            /\ Goto(i, "record")
       ELSE Leave(i, "error") /\ UNCHANGED roots
    /\ UNCHANGED <<content, staging, user, containers, request, todo, store,
                   fresh, found, touched, cleaner, bounds>>

\* Store.Record takes the identity the file has now, and wants its size only.
Record(i) ==
    /\ pc[i] = "record"
    /\ LET a == Current(i) IN
       IF dest[a] \in RightSize
       THEN /\ store' = [store EXCEPT ![i] = @ \cup {a}]
            /\ todo' = [todo EXCEPT ![i] = Tail(@)]
            /\ Goto(i, "next")
       ELSE Leave(i, "error") /\ UNCHANGED <<store, todo>>
    /\ UNCHANGED <<content, staging, user, containers, request, fresh, found,
                   roots, touched, cleaner, bounds>>

-----------------------------------------------------------------------------
(* After the loop.                                                         *)

\* Store.Save replaces the receipt by all the records in memory (it skips the
\* write when they are the ones it loaded).
Save(i) ==
    /\ pc[i] = "save"
    /\ receipt' = {a \in store[i] : dest[a] # "none"}
    /\ Goto(i, "prune")
    /\ UNCHANGED <<dest, staging, user, containers, memory, cleaner, bounds>>

RemoveRoots(R) ==
    /\ payload' = [a \in Artifacts |->
                    IF StagingRoot(a) \in R THEN "none" ELSE payload[a]]
    /\ archive' = [x \in Archives |-> IF x \in R THEN "none" ELSE archive[x]]
    /\ marked' = marked \ R
    /\ PayloadChanged({a \in Artifacts : StagingRoot(a) \in R})

\* Completed staging directories are removed one by one; then Install returns
\* and releases the lock.  The workflow is installed outside it.
Prune(i) ==
    /\ pc[i] = "prune"
    /\ \/ \E r \in roots[i] :
            /\ RemoveRoots({r})
            /\ roots' = [roots EXCEPT ![i] = @ \ {r}]
            /\ Goto(i, "prune")
       \/ /\ roots[i] = {}
          /\ IF request[i].import
             THEN Leave(i, "ok")
             ELSE /\ pc' = [pc EXCEPT ![i] = "workflow"]
                  /\ lock' = None
                  /\ UNCHANGED outcome
          /\ UNCHANGED <<staging, roots, fresh>>
    /\ UNCHANGED <<content, user, containers, request, todo, store, found,
                   touched, cleaner, bounds>>

\* installWorkflow: what is there decides whether, and how, it is written.
CheckWorkflow(i) ==
    /\ pc[i] = "workflow"
    /\ CASE workflow = "curated" -> Leave(i, "ok")
         [] workflow = "none" -> Goto(i, "create")
         [] OTHER -> IF request[i].force THEN Goto(i, "replace")
                                         ELSE Leave(i, "error")
    /\ UNCHANGED <<content, staging, user, containers, memory, cleaner, bounds>>

\* Policy Create links, and fails when the name was taken meanwhile.
WriteWorkflow(i) ==
    /\ \/ pc[i] = "create" /\ workflow = "none"
       \/ pc[i] = "replace"
    /\ workflow' = "curated"
    /\ Leave(i, "ok")
    /\ UNCHANGED <<content, staging, mirror, pack, containers, memory, cleaner,
                   bounds>>

\* An error return whose cause is outside the model.  During a download the
\* container is removed first, which may fail as well.
GiveUp(i) ==
    /\ pc[i] # "idle"
    /\ Leave(i, "error")
    /\ \/ UNCHANGED containers
       \/ pc[i] = "download" /\ containers' = {c \in containers : c.by # i}
    /\ UNCHANGED <<content, staging, user, memory, cleaner, bounds>>

-----------------------------------------------------------------------------
(* The downloader container, kills, other programs, and cleanup.           *)

WriteTarget(c, forPayload, forArchive) ==
    IF ArchiveOf[c.of] = None
    THEN /\ payload' = [payload EXCEPT ![c.of] = forPayload]
         /\ PayloadChanged({c.of})
         /\ UNCHANGED <<archive, marked>>
    ELSE /\ archive' = [archive EXCEPT ![ArchiveOf[c.of]] = forArchive]
         /\ marked' = marked \ {ArchiveOf[c.of]}
         /\ UNCHANGED <<payload, fresh>>

\* The container writes, whether or not its launcher still lives.
DownloaderWrites(c) ==
    /\ c \in containers
    /\ WriteTarget(c, "partial", "partial")
    /\ UNCHANGED <<content, user, containers, lock, pc, request, todo, store,
                   found, roots, touched, outcome, cleaner, bounds>>

\* It ends with a complete file, good or not, or fails; --rm removes it.
DownloaderExits(c) ==
    /\ c \in containers
    /\ containers' = containers \ {c}
    /\ LET waiting == pc[c.by] = "download" IN
       \/ /\ \E p \in RightSize, x \in {"good", "changed"} : WriteTarget(c, p, x)
          /\ IF waiting THEN Goto(c.by, "downloaded")
                        ELSE UNCHANGED <<pc, lock, outcome>>
       \/ /\ IF waiting THEN Leave(c.by, "error")
                        ELSE UNCHANGED <<pc, lock, outcome>>
          /\ UNCHANGED <<staging, fresh>>
    /\ UNCHANGED <<content, user, request, todo, store, found, roots, touched,
                   cleaner, bounds>>

Kill(i) ==
    /\ pc[i] # "idle" /\ kills < MaxKills
    /\ kills' = kills + 1
    /\ Leave(i, "killed")
    /\ UNCHANGED <<content, staging, user, containers, memory, cleaner, starts,
                   edits, raced>>

\* Between two adjacent system calls of an installer.
InWindow(a) == \E i \in Installers :
    pc[i] \in {"rename", "record"} /\ Current(i) = a

Touch(S) == touched' = [i \in Installers |-> touched[i] \cup S]

\* Another program of the user changes an installed or mirrored file, the
\* workflow or the pack.
Edit ==
    /\ edits < MaxEdits /\ edits' = edits + 1
    /\ \/ \E a \in Artifacts, v \in {"none", "wrong", "other"} :
            /\ v # dest[a]
            /\ dest' = [dest EXCEPT ![a] = v]
            /\ raced' = IF InWindow(a) THEN raced \cup {a} ELSE raced
            /\ DestChanged({a}) /\ Touch({a})
            /\ UNCHANGED user
       \/ \E a \in Artifacts :
            /\ mirror[a] = "good"
            /\ mirror' = [mirror EXCEPT ![a] = "wrong"]
            /\ UNCHANGED <<content, store, fresh, touched, workflow, pack, raced>>
       \/ /\ workflow' = "modified"
          /\ Touch({None})
          /\ UNCHANGED <<content, store, fresh, pack, mirror, raced>>
       \/ /\ pack' = "other"
          /\ UNCHANGED <<content, store, fresh, touched, workflow, mirror,
                         raced>>
    /\ UNCHANGED <<staging, containers, lock, pc, request, todo, found, roots,
                   outcome, cleaner, starts, kills>>

\* managedContainers("all"), of which this model has the downloaders.
ManagedContainers == containers

\* cleanup prints its plan and waits for a confirmation.  Only "downloads" and
\* "data" ask first whether managed containers exist; none takes the lock.
CleanupPlan ==
    /\ cleaner = None
    /\ edits < MaxEdits /\ edits' = edits + 1
    /\ \E scope \in {"containers", "downloads", "data"} :
        /\ scope = "containers" \/ ManagedContainers = {}
        /\ cleaner' = [scope |-> scope, names |-> ManagedContainers]
    /\ UNCHANGED <<content, staging, user, containers, lock, pc, memory, outcome,
                   raced, starts, kills>>

\* A launcher whose container is removed sees its download fail.
CleanupContainers ==
    /\ cleaner # None /\ cleaner.scope = "containers"
    /\ cleaner' = None
    /\ containers' = containers \ cleaner.names
    /\ LET cut == {c.by : c \in containers \cap cleaner.names}
           failed == {i \in cut : pc[i] = "download"}
       IN  /\ pc' = [i \in Installers |-> IF i \in failed THEN "idle" ELSE pc[i]]
           /\ outcome' = [i \in Installers |->
                            IF i \in failed THEN "error" ELSE outcome[i]]
           /\ lock' = IF lock \in failed THEN None ELSE lock
    /\ UNCHANGED <<content, staging, user, memory, bounds>>

\* cleanupPaths removes what it planned, or nothing when it is not confirmed.
CleanupPaths ==
    /\ cleaner # None /\ cleaner.scope # "containers"
    /\ cleaner' = None
    /\ \/ UNCHANGED <<content, staging, workflow, store, fresh, touched>>
       \/ /\ cleaner.scope = "downloads"
          /\ RemoveRoots(Artifacts \cup Archives)
          /\ UNCHANGED <<content, workflow, store, touched>>
       \/ /\ cleaner.scope = "data"
          /\ dest' = [a \in Artifacts |-> "none"]
          /\ payload' = [a \in Artifacts |-> "none"]
          /\ archive' = [x \in Archives |-> "none"]
          /\ marked' = {} /\ workflow' = "none"
          /\ receipt' = {}
          /\ store' = [i \in Installers |-> {}]
          /\ fresh' = [i \in Installers |-> FALSE]
          /\ Touch(Artifacts \cup {None})
    /\ UNCHANGED <<mirror, pack, containers, lock, pc, request, todo, found,
                   roots, outcome, bounds>>

Step(i) ==
    \/ InstallCommand(i) \/ ImportCommand(i) \/ WorkflowsInstall(i)
    \/ Plan(i) \/ AcquireInstallLock(i) \/ RequireNoDownloaders(i)
    \/ LoadStore(i) \/ NextArtifact(i) \/ VerifyHash(i) \/ VerifyIdentity(i)
    \/ Stage(i) \/ Downloaded(i) \/ Extract(i) \/ Label(i) \/ Hash(i)
    \/ Publish(i) \/ Rename(i) \/ CheckInstalled(i) \/ Record(i) \/ Save(i)
    \/ Prune(i) \/ CheckWorkflow(i) \/ WriteWorkflow(i) \/ GiveUp(i)

Others ==
    \/ \E c \in containers : DownloaderWrites(c) \/ DownloaderExits(c)
    \/ \E i \in Installers : Kill(i)
    \/ Edit \/ CleanupPlan \/ CleanupContainers \/ CleanupPaths

Next == (\E i \in Installers : Step(i)) \/ Others

Spec == Init /\ [][Next]_vars

-----------------------------------------------------------------------------
(* Properties.                                                             *)

\* What the receipt vouches for is what the catalog names: no order of
\* hashing, renaming, recording, killing, cleaning and editing leaves a record
\* that fits a file with other bytes (RequireBundle trusts the record alone),
\* unless the file was changed between the comparison and the record.
ReadyIsGood == \A a \in Artifacts \ raced : Ready(a) => dest[a] = "good"

\* At most one container writes below staging/, and nobody else works there
\* while it runs, also after its launcher was killed and the command repeated.
OneStagingWriter ==
    /\ Cardinality(containers) <= 1
    /\ containers # {} => \A i \in Installers :
        pc[i] \notin {"stage", "downloaded", "extract", "label", "hash",
                     "publish", "rename", "prune"}

\* An installation that reported success left everything it was asked for
\* installed and recorded, its workflow included, so that `content status`
\* says "ready"; no later or concurrent installation undoes that.  What the
\* user, or a cleanup, touched since is excused.
SuccessLasts ==
    \A i \in Installers : outcome[i] = "ok" =>
        LET asked == {request[i].sel[n] : n \in DOMAIN request[i].sel}
        IN  ContentStatus(asked \ touched[i],
                          ~request[i].import /\ None \notin touched[i]) = "ready"

\* A file at a destination is never replaced or removed by an installation,
\* unless it appeared between the last look at the destination and the rename.
NeverOverwritten ==
    [][\A a \in Artifacts \ raced : dest[a] # "none" /\ dest'[a] # dest[a] =>
            edits' # edits \/ cleaner' # cleaner]_vars

\* A completed archive stays for review: it may be pruned or cleaned up, but
\* no downloader writes over it, however often the installation is repeated.
CompletedArchiveKept ==
    [][\A x \in marked : archive'[x] \in {archive[x], "none"}]_vars

\* A workflow the user modified is replaced only by a command with --force.
ModifiedWorkflowKept ==
    [][workflow = "modified" /\ workflow' = "curated" =>
        \E i \in Installers : pc[i] # "idle" /\ pc'[i] = "idle"
                              /\ request[i].force]_vars

\* Nothing that is worth keeping is lost to a later, repeated or concurrent
\* command: installed files, completed archives and modified workflows.
NothingLost == NeverOverwritten /\ CompletedArchiveKept /\ ModifiedWorkflowKept

-----------------------------------------------------------------------------
(* The inductive invariant behind these properties (see                    *)
(* ContentInstallProofs).                                                  *)

\* The stages of a command; those without the lock; those before anything is
\* read or written below the data directory; those of one artifact.
Stages == {"idle", "plan", "lock", "probe", "load", "next", "verify", "verified",
           "stage", "download", "downloaded", "extract", "label", "hash",
           "publish", "rename", "installed", "record", "save", "prune",
           "workflow", "create", "replace"}
Outside == {"idle", "plan", "lock", "workflow", "create", "replace"}
Unentered == {"idle", "plan", "lock", "probe", "workflow", "create", "replace"}
Busy == {"verify", "verified", "stage", "download", "downloaded", "extract",
         "label", "hash", "publish", "rename", "installed", "record"}

FileStates == {"none", "good", "wrong", "partial", "other"}
Downloaders == [by: Installers, of: Artifacts]

\* Every variable has its type: where the commands are, and the rest.
ControlTypeOK ==
    /\ pc \in [Installers -> Stages]
    /\ outcome \in [Installers -> {None, "ok", "error", "killed"}]
    /\ lock \in Installers \cup {None}

DataTypeOK ==
    /\ dest \in [Artifacts -> FileStates] /\ receipt \subseteq Artifacts
    /\ payload \in [Artifacts -> FileStates]
    /\ archive \in [Archives -> {"none", "partial", "good", "changed"}]
    /\ marked \subseteq Archives
    /\ mirror \in [Artifacts -> {"none", "good", "wrong"}]
    /\ workflow \in {"none", "curated", "modified"}
    /\ pack \in {"none", "saved", "other"}
    /\ containers \subseteq Downloaders
    /\ request \in [Installers -> Requests \cup {None}]
    /\ todo \in [Installers -> Seq(Artifacts)]
    /\ store \in [Installers -> SUBSET Artifacts]
    /\ fresh \in [Installers -> BOOLEAN]
    /\ found \in [Installers -> SUBSET Artifacts]
    /\ roots \in [Installers -> SUBSET (Artifacts \cup Archives)]
    /\ touched \in [Installers -> SUBSET (Artifacts \cup {None})]
    /\ cleaner = None \/ cleaner \in [scope: {"containers", "downloads", "data"},
                                      names: SUBSET Downloaders]
    /\ raced \subseteq Artifacts

TypeOK == ControlTypeOK /\ DataTypeOK

\* The lock is held from AcquireInstallLock until Install returns.
LockSound == \A i \in Installers : lock = i <=> pc[i] \notin Outside

\* While a downloader runs, nobody is past the look for downloaders, except a
\* launcher that waits; the archive it writes has no mark.
StagingSound ==
    /\ \A c, d \in containers : c = d
    /\ containers # {} =>
         \A i \in Installers : pc[i] \in Unentered \cup {"download"}
    /\ \A c \in containers : ArchiveOf[c.of] \notin marked

\* A record fits a file of the right size, with the right bytes unless the file
\* was changed in the window before it was taken.
RecordSound(records) ==
    \A a \in records : dest[a] \in RightSize /\ (a \notin raced => dest[a] = "good")

RecordsSound ==
    /\ RecordSound(receipt)
    /\ \A i \in Installers : RecordSound(store[i])

\* Under the lock nobody else adds to the receipt.
StoreSound(i) == pc[i] \notin Unentered \cup {"load"} => receipt \subseteq store[i]

\* A file that is still the one that was hashed is good, in staging and at its
\* destination; at the rename the destination was free, and nobody has a
\* record of it.
ArtifactSound(i, a) ==
    /\ pc[i] \in {"publish", "rename"} /\ fresh[i] => payload[a] = "good"
    /\ pc[i] \in {"verified", "installed"} /\ fresh[i] => dest[a] = "good"
    /\ pc[i] = "record" /\ a \notin raced => dest[a] \in {"good", "none"}
    /\ pc[i] = "rename" => /\ a \notin raced => dest[a] = "none"
                          /\ a \notin receipt
                          /\ \A j \in Installers : a \notin store[j]

CurrentSound(i) ==
    pc[i] \in Busy => todo[i] # <<>> /\ ArtifactSound(i, Current(i))

Asked(i) == {request[i].sel[n] : n \in DOMAIN request[i].sel}

\* What was asked for is still to be done, or was recorded and then saved,
\* unless somebody else changed it; the workflow comes last.
ProgressSound(i) ==
    /\ pc[i] # "idle" \/ outcome[i] = "ok" => request[i] \in Requests
    /\ pc[i] \in {"plan", "lock", "probe", "load"} => todo[i] = request[i].sel
    /\ pc[i] = "next" \/ pc[i] \in Busy =>
          Asked(i) \subseteq Selected(i) \cup store[i] \cup touched[i]
    /\ pc[i] = "save" => Asked(i) \subseteq store[i] \cup touched[i]
    /\ pc[i] \in {"prune", "workflow", "create", "replace"} \/ outcome[i] = "ok" =>
          Asked(i) \subseteq receipt \cup touched[i]
    /\ pc[i] = "replace" => request[i].force
    /\ outcome[i] = "ok" => \/ request[i].import
                            \/ workflow = "curated" \/ None \in touched[i]

InstallerSound(i) == StoreSound(i) /\ CurrentSound(i) /\ ProgressSound(i)

InstallInv ==
    /\ TypeOK /\ LockSound /\ StagingSound /\ RecordsSound
    /\ \A i \in Installers : InstallerSound(i)

=============================================================================
