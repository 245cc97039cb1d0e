------------------------------- MODULE Images -------------------------------
(***************************************************************************)
(* Managed images: `build` (commands_basic.go, buildplan/build.go),        *)
(* `images export` and `images import` (commands_images.go, imagearchive/  *)
(* archive.go) and `cleanup images` (commands_cleanup.go), each in a       *)
(* process of its own over one Podman.  Every Podman call is a step, and   *)
(* `podman save` and `podman load` take one image after the other: a tag   *)
(* may move between any two of them.                                       *)
(*                                                                         *)
(* An image is the position of its build in "origin"; 0 is no image.  An   *)
(* archive that Inspect accepts is a function from tags to images, whose   *)
(* names and digests it has checked.  All exports go to one path.          *)
(***************************************************************************)
EXTENDS Integers, Sequences

CONSTANTS
    Workers,         \* processes
    Jobs,            \* what a process may run: [op, target]
    Units,           \* application.BuildUnits, prerequisites first
    Prerequisites,   \* [unit -> set of units]
    CleanupRank,     \* [unit -> its place in the list of cleanupImages]
    Before,          \* the builds of earlier commands
    MaxImages, MaxJobs, MaxUserEdits

UnitSet == {Units[i] : i \in DOMAIN Units}

\* A unit with all it is built on: the least set with the prerequisites of each
\* of its members.
Closed(S) == \A u \in S : Prerequisites[u] \subseteq S
Needs(u) == {v \in UnitSet : \A S \in SUBSET UnitSet : u \in S /\ Closed(S) => v \in S}

\* BuildClosure: a target after its prerequisites.  The order is that of Units.
BuildClosure(target) == IF target = "all" THEN UnitSet ELSE Needs(target)

\* cleanupImages takes one image, or all there are: no prerequisites.
CleanupScope(target) == IF target = "all" THEN UnitSet ELSE {target}

\* What a loop over these units takes next.
Foremost(S) ==
    Units[CHOOSE i \in DOMAIN Units :
            Units[i] \in S /\ \A j \in DOMAIN Units : Units[j] \in S => i <= j]

ASSUME UnitsAssumption ==
    /\ Units \in Seq(UnitSet)
    /\ \A i, j \in DOMAIN Units : Units[i] = Units[j] => i = j
    /\ Prerequisites \in [UnitSet -> SUBSET UnitSet]
    /\ \A i \in DOMAIN Units : \A q \in Prerequisites[Units[i]] :
         \E j \in 1..(i - 1) : Units[j] = q
ASSUME RanksAssumption == CleanupRank \in [UnitSet -> Nat]
ASSUME JobsAssumption ==
    Jobs \subseteq [op: {"build", "export", "import", "cleanup"},
                    target: UnitSet \cup {"all"}]
ASSUME BeforeAssumption ==
    /\ Before \in Seq({Before[i] : i \in DOMAIN Before})
    /\ \A i \in DOMAIN Before :
          /\ Before[i].unit \in UnitSet
          /\ Before[i].basis \in [Prerequisites[Before[i].unit] -> Nat]

VARIABLES
    tag,        \* Podman: the image each tag names
    origin,     \* the builds so far: the unit, and what it was built on
    archive,    \* the file at the archive path; NoArchive
    job, at,    \* of each process: its command, where it is
    queue,      \* units the current loop has still to take
    ids,        \* localIDs of an export, states of a build, present images
    file,       \* an export's partial archive, an import's inspected one
    loading,    \* what `podman load` has opened
    outcome,    \* none, ok, failed
    started, edits,   \* counters of the commands and of the user's edits
    \* history of each process: tags that others have moved since it looked
    \* at them (or built them); the states of its tags since it began, and the
    \* tags that others have moved back to an earlier one of these; the images
    \* its loads replaced, with whether the tag had moved
    moved, moments, back, replaced

podman == <<tag, origin>>
locals == <<job, queue, ids, file, loading>>
history == <<moved, moments, back, replaced>>
counters == <<started, edits>>
imageVars == <<podman, archive, locals, at, outcome, counters, history>>

Nothing == [u \in {} |-> 0]
NoArchive == Nothing
\* A file that is no archive or a broken one, and one with another tag.
Damaged == [u \in {"damaged"} |-> 0]
Unmanaged == [u \in {"unmanaged"} |-> 0]

\* The images there are of a unit.
ImagesOf(u) == {i \in DOMAIN origin : origin[i].unit = u}

\* What `build`, `import` and `cleanup` have left before.
ImagesInit ==
    /\ origin = Before
    /\ tag \in {f \in [UnitSet -> 0..Len(Before)] :
                 \A u \in UnitSet : f[u] \in ImagesOf(u) \cup {0}}
    /\ archive = NoArchive
    /\ started = 0 /\ edits = 0
    /\ job = [p \in Workers |-> [op |-> "none", target |-> "all"]]
    /\ at = [p \in Workers |-> "idle"]
    /\ queue = [p \in Workers |-> {}]
    /\ ids = [p \in Workers |-> Nothing]
    /\ file = [p \in Workers |-> Nothing]
    /\ loading = [p \in Workers |-> Nothing]
    /\ outcome = [p \in Workers |-> "none"]
    /\ moved = [p \in Workers |-> {}]
    /\ moments = [p \in Workers |-> {}]
    /\ back = [p \in Workers |-> {}]
    /\ replaced = [p \in Workers |-> {}]

-----------------------------------------------------------------------------
(* Steps of a process.                                                     *)

Go(p, label) == at' = [at EXCEPT ![p] = label] /\ UNCHANGED outcome
End(p, value) ==
    /\ at' = [at EXCEPT ![p] = "done"]
    /\ outcome' = [outcome EXCEPT ![p] = value]

Unit(p) == Foremost(queue[p])
With(f, u, image) == [v \in DOMAIN f \cup {u} |-> IF v = u THEN image ELSE f[v]]
Advance(p) == queue' = [queue EXCEPT ![p] = @ \ {Unit(p)}]
Note(p, image) == ids' = [ids EXCEPT ![p] = With(@, Unit(p), image)]

Watched(p) ==
    IF job[p].op = "export" THEN BuildClosure(job[p].target)
    ELSE IF job[p].op = "import" THEN DOMAIN file[p] \cap UnitSet ELSE {}
Running(p) == at[p] \notin {"idle", "done"}

\* A tag names another image: what the histories record of it.
Tagged(p, u, image) ==
    /\ tag' = [tag EXCEPT ![u] = image]
    /\ moved' = [q \in Workers |->
                   IF q = p THEN moved[q] \ {u}
                   ELSE IF Running(q) /\ tag[u] # image THEN moved[q] \cup {u}
                   ELSE moved[q]]
    /\ moments' = [q \in Workers |->
                     IF Running(q) /\ Watched(q) # {}
                     THEN moments[q] \cup {[v \in Watched(q) |-> tag'[v]]}
                     ELSE moments[q]]
    /\ back' = [q \in Workers |->
                  IF /\ q # p /\ Running(q) /\ u \in Watched(q) /\ tag[u] # image
                     /\ \E m \in moments[q] : m[u] = image
                  THEN back[q] \cup {u} ELSE back[q]]

\* The process looks at a tag: what is recorded of it starts again.
Looked(p) == moved' = [moved EXCEPT ![p] = @ \ {Unit(p)}]

\* A process runs a command; the next one starts from nothing.
BeginJob(p, j) ==
    /\ ~Running(p) /\ started < MaxJobs
    /\ started' = started + 1
    /\ job' = [job EXCEPT ![p] = j]
    /\ queue' = [queue EXCEPT ![p] = BuildClosure(j.target)]
    /\ at' = [at EXCEPT ![p] = j.op]
    /\ outcome' = [outcome EXCEPT ![p] = "none"]
    /\ ids' = [ids EXCEPT ![p] = Nothing]
    /\ file' = [file EXCEPT ![p] = Nothing]
    /\ loading' = [loading EXCEPT ![p] = Nothing]
    /\ moved' = [moved EXCEPT ![p] = {}]
    /\ moments' = [moments EXCEPT ![p] = {}]
    /\ back' = [back EXCEPT ![p] = {}]
    /\ replaced' = [replaced EXCEPT ![p] = {}]
    /\ UNCHANGED <<podman, archive, edits>>

\* The process is killed, or a check or a Podman call fails without effect:
\* containers still there, an unreadable archive, a save that breaks off.
Killed(p) ==
    /\ Running(p) /\ End(p, "failed")
    /\ UNCHANGED <<podman, archive, locals, counters, history>>

-----------------------------------------------------------------------------
(* build: ids holds the image of each unit built, 0 of one failed or       *)
(* skipped.                                                                *)

\* Mutant: a unit whose prerequisite did not build is built nevertheless.
Blocked_Never(p) == FALSE

Blocked(p) == \E q \in Prerequisites[Unit(p)] : ids[p][q] = 0

\* A step that fails, or is skipped for a prerequisite that did not build,
\* leaves its tag alone, and the others go on.
BuildSkipsOrFails(p) ==
    /\ at[p] = "build" /\ queue[p] # {}
    /\ Note(p, 0) /\ Advance(p)
    /\ UNCHANGED <<podman, archive, job, file, loading, at, outcome, counters, history>>

Basis(u) == [q \in Prerequisites[u] |-> tag[q]]

\* podman build --pull=never --tag: a new image, or the one that an earlier
\* build of the unit on the same prerequisites left in the layer cache.
BuildStep(p) ==
    /\ at[p] = "build" /\ queue[p] # {} /\ ~Blocked(p)
    /\ \A q \in Prerequisites[Unit(p)] : tag[q] # 0
    /\ LET made == [unit |-> Unit(p), basis |-> Basis(Unit(p))]
       IN  \/ /\ Len(origin) < MaxImages
              /\ origin' = Append(origin, made)
              /\ Tagged(p, Unit(p), Len(origin) + 1) /\ Note(p, Len(origin) + 1)
           \/ \E i \in DOMAIN origin :
                /\ origin[i] = made
                /\ Tagged(p, Unit(p), i) /\ Note(p, i)
                /\ UNCHANGED origin
    /\ Advance(p)
    /\ UNCHANGED <<archive, job, file, loading, at, outcome, counters, replaced>>

BuildSummary(p) ==
    /\ at[p] = "build" /\ queue[p] = {}
    /\ End(p, IF \E u \in DOMAIN ids[p] : ids[p][u] = 0 THEN "failed" ELSE "ok")
    /\ UNCHANGED <<podman, archive, locals, counters, history>>

-----------------------------------------------------------------------------
(* images export.                                                          *)

\* The output must not exist, and the images must.
ExportBegins(p) ==
    /\ at[p] = "export"
    /\ IF archive = NoArchive THEN Go(p, "inspect") ELSE End(p, "failed")
    /\ moments' = [moments EXCEPT ![p] = {[v \in Watched(p) |-> tag[v]]}]
    /\ UNCHANGED <<podman, archive, locals, counters, moved, back, replaced>>

ExportInspects(p) ==
    /\ at[p] = "inspect"
    /\ IF queue[p] = {}
       THEN /\ Go(p, "save")
            /\ queue' = [queue EXCEPT ![p] = BuildClosure(job[p].target)]
            /\ UNCHANGED <<ids, moved>>
       ELSE /\ IF tag[Unit(p)] = 0 THEN End(p, "failed") ELSE Go(p, "inspect")
            /\ Note(p, tag[Unit(p)]) /\ Looked(p) /\ Advance(p)
    /\ UNCHANGED <<podman, archive, job, file, loading, counters, moments, back, replaced>>

\* podman save to a private name beside the output.
ExportSaves(p) ==
    /\ at[p] = "save"
    /\ IF queue[p] = {}
       THEN Go(p, "publish") /\ UNCHANGED <<file, queue>>
       ELSE /\ IF tag[Unit(p)] = 0 THEN End(p, "failed") ELSE Go(p, "save")
            /\ file' = [file EXCEPT ![p] = With(@, Unit(p), tag[Unit(p)])]
            /\ Advance(p)
    /\ UNCHANGED <<podman, archive, job, ids, loading, counters, history>>

\* Mutant: the archive is published without comparing the images in it.
SavedAsInspected_Trusting(p) == TRUE

SavedAsInspected(p) == \A u \in DOMAIN file[p] : ids[p][u] = file[p][u]

\* Inspect, ValidateManaged with the expected tags, the comparison with
\* localIDs, and Publish, which does not replace.
ExportPublishes(p) ==
    /\ at[p] = "publish"
    /\ IF SavedAsInspected(p) /\ archive = NoArchive
       THEN archive' = file[p] /\ End(p, "ok")
       ELSE End(p, "failed") /\ UNCHANGED archive
    /\ UNCHANGED <<podman, locals, counters, history>>

-----------------------------------------------------------------------------
(* images import.                                                          *)

\* Inspect, for the file it is given: the manifest, the configuration of
\* every image and its layers are there, and the digests are right.
Inspect(images) == images \notin {NoArchive, Damaged}

\* Only managed tags, and with an application those it is built on.
ValidateManaged(images) ==
    /\ DOMAIN images \subseteq UnitSet
    /\ \A u \in DOMAIN images : Needs(u) \subseteq DOMAIN images

ImportInspects(p) ==
    /\ at[p] = "import"
    /\ IF Inspect(archive) /\ ValidateManaged(archive)
       THEN Go(p, "compare") ELSE End(p, "failed")
    /\ file' = [file EXCEPT ![p] = archive]
    /\ queue' = [queue EXCEPT ![p] = DOMAIN archive \cap UnitSet]
    /\ moments' = [moments EXCEPT ![p] =
                     {[v \in DOMAIN archive \cap UnitSet |-> tag[v]]}]
    /\ UNCHANGED <<podman, archive, job, ids, loading, counters, moved, back, replaced>>

\* Mutant: a tag of another image counts as missing.
Acceptable_Any(p) == TRUE

Acceptable(p) == tag[Unit(p)] \in {0, file[p][Unit(p)]}

ImportCompares(p) ==
    /\ at[p] = "compare" /\ queue[p] # {}
    /\ IF Acceptable(p) THEN Go(p, "compare") ELSE End(p, "failed")
    /\ Note(p, tag[Unit(p)]) /\ Looked(p) /\ Advance(p)
    /\ UNCHANGED <<podman, archive, job, file, loading, counters, moments, back, replaced>>

\* All identical: nothing to do.  Otherwise podman load opens the path again.
ImportDecides(p) ==
    /\ at[p] = "compare" /\ queue[p] = {}
    /\ IF ids[p] = file[p]
       THEN End(p, "ok") /\ UNCHANGED <<queue, loading>>
       ELSE /\ IF Inspect(archive) THEN Go(p, "load") ELSE End(p, "failed")
            /\ loading' = [loading EXCEPT ![p] = archive]
            /\ queue' = [queue EXCEPT ![p] = DOMAIN archive \cap UnitSet]
    /\ UNCHANGED <<podman, archive, job, ids, file, counters, history>>

ImportLoads(p) ==
    /\ at[p] = "load" /\ queue[p] # {}
    /\ LET u == Unit(p)
           image == loading[p][u]
       IN  /\ replaced' = [replaced EXCEPT ![p] =
                 IF tag[u] \in {0, image} THEN @
                 ELSE @ \cup {[unit |-> u, late |-> u \in moved[p],
                               inspected |-> loading[p] = file[p]]}]
           /\ Tagged(p, u, image)
    /\ Advance(p)
    /\ UNCHANGED <<origin, archive, job, ids, file, loading, at, outcome, counters>>

\* Verification takes the images of the archive that was inspected.
ImportLoaded(p) ==
    /\ at[p] = "load" /\ queue[p] = {}
    /\ Go(p, "verify")
    /\ queue' = [queue EXCEPT ![p] = DOMAIN file[p]]
    /\ ids' = [ids EXCEPT ![p] = Nothing]
    /\ UNCHANGED <<podman, archive, job, file, loading, counters, history>>

ImportVerifies(p) ==
    /\ at[p] = "verify"
    /\ IF queue[p] = {}
       THEN /\ End(p, IF ids[p] = file[p] THEN "ok" ELSE "failed")
            /\ UNCHANGED <<ids, queue, moved>>
       ELSE Go(p, "verify") /\ Note(p, tag[Unit(p)]) /\ Looked(p) /\ Advance(p)
    /\ UNCHANGED <<podman, archive, job, file, loading, counters, moments, back, replaced>>

-----------------------------------------------------------------------------
(* cleanup images: of the tags that exist, one after the other, the        *)
(* applications before what they are built on.  Podman refuses to remove   *)
(* an image that a container or another image uses; the first removal that *)
(* fails with the tag still there ends the command.                        *)

\* The plan: it is printed and has to be confirmed.
CleanupLooks(p) ==
    /\ at[p] = "cleanup"
    /\ queue' = [queue EXCEPT ![p] = {u \in CleanupScope(job[p].target) : tag[u] # 0}]
    /\ Go(p, "remove")
    /\ UNCHANGED <<podman, archive, job, ids, file, loading, counters, history>>

\* The image whose turn it is.
Removable(p) == {u \in queue[p] : \A v \in queue[p] : CleanupRank[u] <= CleanupRank[v]}

CleanupRemovesImage(p) ==
    /\ at[p] = "remove"
    /\ \E u \in Removable(p) :
         /\ Tagged(p, u, 0)
         /\ queue' = [queue EXCEPT ![p] = @ \ {u}]
    /\ UNCHANGED <<origin, archive, job, ids, file, loading, at, outcome, counters,
                   replaced>>

CleanupRefused(p) ==
    /\ at[p] = "remove" /\ \E u \in Removable(p) : tag[u] # 0
    /\ End(p, "failed")
    /\ UNCHANGED <<podman, archive, locals, counters, history>>

CleanupEnds(p) ==
    /\ at[p] = "remove" /\ queue[p] = {}
    /\ End(p, "ok")
    /\ UNCHANGED <<podman, archive, locals, counters, history>>

-----------------------------------------------------------------------------
\* The user removes the archive, or puts one there that was made elsewhere.
UserEditsArchive ==
    /\ edits < MaxUserEdits /\ edits' = edits + 1
    /\ \/ archive' \in {NoArchive, Damaged, Unmanaged} \ {archive}
       \/ \E S \in SUBSET UnitSet :
            \E images \in [S -> DOMAIN origin] :
              /\ \A u \in S : images[u] \in ImagesOf(u)
              /\ archive' = images
    /\ UNCHANGED <<podman, started, locals, at, outcome, history>>

ImagesNext ==
    \/ \E p \in Workers :
         \/ \E j \in Jobs : BeginJob(p, j)
         \/ Killed(p)
         \/ BuildSkipsOrFails(p) \/ BuildStep(p) \/ BuildSummary(p)
         \/ ExportBegins(p) \/ ExportInspects(p) \/ ExportSaves(p)
         \/ ExportPublishes(p)
         \/ ImportInspects(p) \/ ImportCompares(p) \/ ImportDecides(p)
         \/ ImportLoads(p) \/ ImportLoaded(p) \/ ImportVerifies(p)
         \/ CleanupLooks(p) \/ CleanupRemovesImage(p) \/ CleanupRefused(p)
         \/ CleanupEnds(p)
    \/ UserEditsArchive

ImagesSpec == ImagesInit /\ [][ImagesNext]_imageVars

-----------------------------------------------------------------------------
(* Properties.                                                             *)

\* An archive that was exported, and the tags after an import that loaded
\* something and reports success, were what Podman had at one moment of the
\* command: not a mix of images from before and after a concurrent build,
\* import or cleanup, although the command takes the tags one at a time.  It
\* compares twice, so only a tag that was moved away and back deceives it, or
\* an archive that was exchanged before the load and a tag that moved after
\* its verification.
OneMoment ==
    \A p \in Workers :
      /\ outcome[p] = "ok"
      /\ job[p].op = "export" \/ (job[p].op = "import" /\ loading[p] # Nothing)
      => \/ file[p] \in moments[p]
         \/ back[p] # {}
         \/ job[p].op = "import" /\ loading[p] # file[p] /\ moved[p] # {}

\* A unit that a build reports built stands on images of its prerequisites
\* that the same command built, or that another command put there since:
\* never on what an earlier build left when this one's prerequisite failed.
BuiltOnFresh ==
    \A p \in Workers :
      job[p].op = "build" =>
        \A u \in DOMAIN ids[p] : \A q \in Prerequisites[u] :
          ids[p][u] # 0 =>
            \/ ids[p][q] # 0 /\ origin[ids[p][u]].basis[q] = ids[p][q]
            \/ ids[p][q] # 0 /\ q \in moved[p]

\* An import replaces an image under a managed tag only if the tag moved, or
\* the archive was exchanged, after the import had looked at it.
TagsKept ==
    \A p \in Workers : \A r \in replaced[p] : r.late \/ ~r.inspected

-----------------------------------------------------------------------------
(* The inductive invariant behind the properties.                          *)

\* Images under some of the tags.
IsAssignment(f) == f \in [DOMAIN f -> Nat] /\ DOMAIN f \subseteq UnitSet

StoreTypeOK ==
    /\ tag \in [UnitSet -> Nat]
    /\ origin \in Seq({origin[i] : i \in DOMAIN origin})
    /\ archive \in [DOMAIN archive -> Nat]

CommandTypeOK ==
    /\ job \in [Workers -> [op: {"none", "build", "export", "import", "cleanup"},
                            target: UnitSet \cup {"all"}]]
    /\ at \in [Workers -> {"idle", "done", "build", "export", "inspect", "save",
                           "publish", "import", "compare", "load", "verify",
                           "cleanup", "remove"}]
    /\ outcome \in [Workers -> {"none", "ok", "failed"}]
    /\ queue \in [Workers -> SUBSET UnitSet]

LocalsTypeOK ==
    /\ ids = [p \in Workers |-> ids[p]] /\ file = [p \in Workers |-> file[p]]
    /\ loading = [p \in Workers |-> loading[p]] /\ moved = [p \in Workers |-> moved[p]]
    /\ moments = [p \in Workers |-> moments[p]] /\ back = [p \in Workers |-> back[p]]
    /\ replaced = [p \in Workers |-> replaced[p]]
    /\ \A p \in Workers : IsAssignment(ids[p])

ImagesTypeOK == StoreTypeOK /\ CommandTypeOK /\ LocalsTypeOK

\* The command a process is at; it succeeds as its last step.
CommandSound(p) ==
    /\ at[p] = "build" => job[p].op = "build"
    /\ at[p] \in {"export", "inspect", "save", "publish"} => job[p].op = "export"
    /\ at[p] \in {"import", "compare", "load", "verify"} => job[p].op = "import"
    /\ at[p] \in {"cleanup", "remove"} => job[p].op = "cleanup"
    /\ outcome[p] = "ok" => at[p] = "done"
    /\ at[p] \in {"build", "export", "import"} => file[p] = Nothing
    /\ at[p] = "build" => DOMAIN ids[p] \cup queue[p] = BuildClosure(job[p].target)
    /\ at[p] \in {"export", "import"} => ids[p] = Nothing /\ loading[p] = Nothing
    /\ at[p] = "export" => queue[p] = BuildClosure(job[p].target)

\* The tags p looked at, or built, are as p knows them or have moved.
Knows(p, u) == tag[u] = ids[p][u] \/ u \in moved[p]

BuildSound(p) ==
    job[p].op = "build" =>
      /\ DOMAIN ids[p] \cap queue[p] = {}
      /\ \A u \in DOMAIN ids[p] :
           ids[p][u] # 0 =>
             /\ ids[p][u] \in DOMAIN origin
             /\ at[p] = "build" => Knows(p, u)
             /\ \A q \in Prerequisites[u] :
                  /\ q \in DOMAIN ids[p] /\ ids[p][q] # 0
                  /\ \/ origin[ids[p][u]].basis[q] = ids[p][q]
                     \/ q \in moved[p]

\* The moments of a command include the present one.
ViewSound(p) ==
    at[p] \in {"inspect", "save", "publish", "compare", "load", "verify"} =>
      /\ [v \in Watched(p) |-> tag[v]] \in moments[p]
      /\ \A m \in moments[p] : m = [v \in Watched(p) |-> m[v]]

\* At one moment the tags in T were what "wanted" says, but for those that no
\* longer are, and were not when "seen" of them.
Agreed(p, T, wanted, seen) ==
    \E m \in moments[p] : \A u \in T :
        \/ m[u] = wanted[u]
        \/ tag[u] # wanted[u] /\ (u \in DOMAIN seen => seen[u] # wanted[u])

\* A tag had the image that is wanted of it at some moment: to have it again it
\* would have to move back.
Met(p, u, wanted) == \E m \in moments[p] : m[u] = wanted[u]

ExportSound(p) ==
    LET W == BuildClosure(job[p].target)
    IN  /\ at[p] = "inspect" =>
             file[p] = Nothing /\ DOMAIN ids[p] \cup queue[p] = W
        /\ at[p] = "save" =>
             DOMAIN ids[p] = W /\ DOMAIN file[p] \cup queue[p] = W
        /\ at[p] = "publish" => DOMAIN ids[p] = W /\ DOMAIN file[p] = W
        /\ at[p] \in {"inspect", "save", "publish"} =>
             /\ IsAssignment(file[p])
             /\ \A u \in DOMAIN ids[p] : Met(p, u, ids[p])
        /\ at[p] \in {"save", "publish"} =>
             (back[p] = {} => Agreed(p, W, ids[p], file[p]))

ImportSound(p) ==
    LET T == DOMAIN file[p]
        same == loading[p] = file[p]
    IN  /\ at[p] \in {"compare", "load", "verify"} => IsAssignment(file[p])
        /\ at[p] = "compare" =>
             /\ DOMAIN ids[p] \cup queue[p] = T
             /\ \A u \in DOMAIN ids[p] : ids[p][u] \in {0, file[p][u]} /\ Knows(p, u)
        /\ at[p] = "compare" => loading[p] = Nothing
        /\ at[p] = "load" =>
             /\ queue[p] \subseteq DOMAIN loading[p]
             /\ loading[p] \in [DOMAIN loading[p] -> Nat]
             /\ \A u \in queue[p] \cap T :
                  tag[u] \in {0, file[p][u]} \/ u \in moved[p]
             /\ same => \A u \in T \ queue[p] : Met(p, u, file[p])
        /\ at[p] = "verify" =>
             /\ DOMAIN ids[p] \cup queue[p] = T
             /\ \A u \in DOMAIN ids[p] : Knows(p, u)
             /\ same => /\ \A u \in T : Met(p, u, file[p])
                        /\ back[p] = {} => Agreed(p, T, file[p], ids[p])

\* The three properties, for one process.
MomentSound(p) ==
    /\ outcome[p] = "ok"
    /\ job[p].op = "export" \/ (job[p].op = "import" /\ loading[p] # Nothing)
    => \/ file[p] \in moments[p]
       \/ back[p] # {}
       \/ job[p].op = "import" /\ loading[p] # file[p] /\ moved[p] # {}

WorkerSound(p) ==
    /\ CommandSound(p) /\ BuildSound(p) /\ ViewSound(p)
    /\ ExportSound(p) /\ ImportSound(p) /\ MomentSound(p)
    /\ \A r \in replaced[p] : r.late \/ ~r.inspected

ImagesInv == ImagesTypeOK /\ \A p \in Workers : WorkerSound(p)

=============================================================================
