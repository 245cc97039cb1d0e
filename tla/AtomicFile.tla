------------------------------ MODULE AtomicFile ------------------------------
(***************************************************************************)
(* Publication of one destination path by internal/atomicfile/file.go.     *)
(*                                                                         *)
(* Every element of Writers is one call of Ensure, Write or Publish, made  *)
(* by some process of some command; the calls interleave at their system   *)
(* calls.  Each call owns one inode, its temporary file, named by the      *)
(* writer itself.  The bytes and the permissions of a file are one value   *)
(* of Contents: Ensure compares both and fails on either.  JSON is Write   *)
(* of encoded contents.                                                    *)
(*                                                                         *)
(* The file system is external: link and rename are atomic, a name lost or *)
(* gained since the last sync of the directory may be undone by a power    *)
(* loss, and so may the contents of a file that was never synced.          *)
(***************************************************************************)
EXTENDS Integers, FiniteSets

CONSTANTS
    Writers,      \* calls of the package's functions, one each
    Contents,     \* bytes and permissions a caller asks for
    Absent,       \* the destination does not exist
    Alien,        \* it is a directory, a link or a multiply linked file
    Faults,       \* whether a system call may fail
    MaxCrashes    \* bound: killed processes and power losses

ASSUME NamesDiffer == /\ Absent # Alien
                      /\ Absent \notin Writers
                      /\ Alien \notin Writers
ASSUME WritersFinite == IsFiniteSet(Writers)
ASSUME FaultsAssumption == Faults \in BOOLEAN
ASSUME MaxCrashesAssumption == MaxCrashes \in Nat

VARIABLES
    job,        \* what each writer was called with
    pc, result, \* where each call is, and the error it will return
    dest,       \* inode the destination names
    temp,       \* writers whose temporary name exists
    full,       \* inodes whose contents are complete
    synced,     \* inodes whose contents survive a power loss
    survivors,  \* what dest may be after a power loss
    ghosts,     \* removed temporary names that a power loss may bring back
    crashes,    \* crashes so far
    version     \* history: how many publications preceded each one

vars == <<job, pc, result, dest, temp, full, synced, survivors, ghosts,
          crashes, version>>
fileVars == <<dest, temp, full, synced, survivors, ghosts, version>>

-----------------------------------------------------------------------------
Jobs == [call: {"Ensure"}, policy: {"Create"}, contents: Contents]
          \cup [call: {"Write", "Publish"},
                policy: {"Create", "ReplaceRegular"}, contents: Contents]

Steps == {"idle", "read", "write", "prepare", "publish", "rename", "sync",
          "remove", "recheck", "reread", "returned", "killed"}

InFlight(w) == pc[w] \notin {"idle", "returned", "killed"}

\* singlyLinkedRegular: a published inode still has a second link while its
\* temporary name exists.
singlyLinkedRegular(i) == i # Alien /\ i \notin temp

\* The bytes and the mode at the destination are those w asked for.
SameContents(w, i) == i \in full /\ job[i].contents = job[w].contents

Init ==
    /\ job \in [Writers -> Jobs]
    /\ pc = [w \in Writers |-> "idle"]
    /\ result = [w \in Writers |-> "none"]
    /\ dest \in {Absent, Alien}
    /\ temp = {}
    /\ full = {}
    /\ synced = {}
    /\ survivors = {dest}
    /\ ghosts = {}
    /\ crashes = 0
    /\ version = [w \in Writers |-> 0]

Goto(w, step) == pc' = [pc EXCEPT ![w] = step] /\ UNCHANGED result

Return(w, err) ==
    /\ pc' = [pc EXCEPT ![w] = "returned"]
    /\ result' = [result EXCEPT ![w] = err]

\* Write returns err; Ensure inspects the destination again after an error.
WriteReturns(w, err) ==
    IF job[w].call = "Ensure" /\ err = "error"
    THEN Goto(w, "recheck")
    ELSE Return(w, err)

\* ReadFile and the comparisons after it.
Compare(w) == Return(w, IF SameContents(w, dest) THEN "ok" ELSE "error")

-----------------------------------------------------------------------------
(* Ensure.                                                                 *)

\* The first Lstat.
Ensure(w) ==
    /\ pc[w] = "idle" /\ job[w].call = "Ensure"
    /\ \/ dest = Absent /\ Goto(w, "write")
       \/ /\ dest # Absent
          /\ IF singlyLinkedRegular(dest) THEN Goto(w, "read")
                                          ELSE Return(w, "error")
       \/ Faults /\ Return(w, "error")
    /\ UNCHANGED <<job, fileVars, crashes>>

\* The second one, after Write failed.
EnsureAgain(w) ==
    /\ pc[w] = "recheck"
    /\ \/ /\ dest # Absent /\ singlyLinkedRegular(dest)
          /\ Goto(w, "reread")
       \/ /\ dest = Absent \/ ~singlyLinkedRegular(dest) \/ Faults
          /\ Return(w, "error")
    /\ UNCHANGED <<job, fileVars, crashes>>

EnsureReads(w) ==
    /\ pc[w] \in {"read", "reread"}
    /\ Compare(w) \/ (Faults /\ Return(w, "error"))
    /\ UNCHANGED <<job, fileVars, crashes>>

-----------------------------------------------------------------------------
(* Write and Publish.                                                      *)

\* The check of the destination Write starts with.
Write(w) ==
    /\ pc[w] = "write" \/ (pc[w] = "idle" /\ job[w].call = "Write")
    /\ LET refused == IF job[w].policy = "Create"
                      THEN dest # Absent
                      ELSE dest # Absent /\ ~singlyLinkedRegular(dest)
       IN  \/ ~refused /\ Goto(w, "prepare")
           \/ (refused \/ Faults) /\ WriteReturns(w, "error")
    /\ UNCHANGED <<job, fileVars, crashes>>

\* CreateTemp, Chmod, Write, Sync and Close: nobody else uses this name.
Prepare(w) ==
    /\ pc[w] = "prepare"
    /\ temp' = temp \cup {w}
    /\ full' = full \cup {w}
    /\ synced' = synced \cup {w}
    /\ Goto(w, "publish")
    /\ UNCHANGED <<job, dest, survivors, ghosts, crashes, version>>

\* One of them fails; the deferred Remove deletes what there is.
PrepareFails(w) ==
    /\ Faults /\ pc[w] = "prepare"
    /\ temp' \in {temp, temp \cup {w}}
    /\ pc' = [pc EXCEPT ![w] = "remove"]
    /\ result' = [result EXCEPT ![w] = "error"]
    /\ UNCHANGED <<job, dest, full, synced, survivors, ghosts, crashes,
                   version>>

\* Publish is given a complete temporary file, which it checks and syncs; its
\* caller removes the name (or leaves it) when Publish has returned.
Publish(w) ==
    /\ pc[w] = "idle" /\ job[w].call = "Publish"
    /\ temp' = temp \cup {w}
    /\ full' = full \cup {w}
    /\ \/ /\ synced' = synced \cup {w}
          /\ Goto(w, "publish")
       \/ /\ Faults
          /\ UNCHANGED synced
          /\ pc' = [pc EXCEPT ![w] = "remove"]
          /\ result' = [result EXCEPT ![w] = "error"]
    /\ UNCHANGED <<job, dest, survivors, ghosts, crashes, version>>

\* publishSynced gave up: the temporary name goes, then Write returns.
PublishFails(w) ==
    /\ pc' = [pc EXCEPT ![w] = "remove"]
    /\ result' = [result EXCEPT ![w] = "error"]
    /\ UNCHANGED fileVars

\* Writers whose file was at the destination (history).
Published == {v \in Writers : version[v] > 0}

\* The destination names w from now on.
Publishes(w) ==
    /\ dest' = w
    /\ survivors' = survivors \cup {w}
    /\ version' = [version EXCEPT ![w] =
                     Cardinality(Published) + 1]
    /\ Goto(w, "sync")

\* Mutant: publication by rename, which replaces whatever is there.
Link_Renames(w) ==
    /\ pc[w] = "publish" /\ job[w].policy = "Create"
    /\ Publishes(w)
    /\ temp' = temp \ {w}
    /\ UNCHANGED <<job, full, synced, ghosts, crashes>>

\* publishSynced with Create: os.Link fails if the destination exists.
Link(w) ==
    /\ pc[w] = "publish" /\ job[w].policy = "Create"
    /\ \/ dest = Absent /\ Publishes(w) /\ UNCHANGED <<temp, full, synced, ghosts>>
       \/ (dest # Absent \/ Faults) /\ PublishFails(w)
    /\ UNCHANGED <<job, crashes>>

\* publishSynced with ReplaceRegular: the destination is inspected once more.
Replace(w) ==
    /\ pc[w] = "publish" /\ job[w].policy = "ReplaceRegular"
    /\ LET refused == dest # Absent /\ ~singlyLinkedRegular(dest)
       IN  \/ ~refused /\ Goto(w, "rename") /\ UNCHANGED fileVars
           \/ (refused \/ Faults) /\ PublishFails(w)
    /\ UNCHANGED <<job, crashes>>

Rename(w) ==
    /\ pc[w] = "rename"
    /\ \/ /\ Publishes(w)
          /\ temp' = temp \ {w}
          /\ UNCHANGED <<full, synced, ghosts>>
       \/ Faults /\ PublishFails(w)
    /\ UNCHANGED <<job, crashes>>

\* Mutant: the directory is not synced.
SyncDirectory_Skipped(w) ==
    /\ pc[w] = "sync"
    /\ pc' = [pc EXCEPT ![w] = "remove"]
    /\ result' = [result EXCEPT ![w] = "ok"]
    /\ UNCHANGED <<job, fileVars, crashes>>

\* syncDirectory: every change of a name so far is durable, if it succeeds.
SyncDirectory(w) ==
    /\ pc[w] = "sync"
    /\ \/ /\ survivors' = {dest}
          /\ ghosts' = {}
          /\ pc' = [pc EXCEPT ![w] = "remove"]
          /\ result' = [result EXCEPT ![w] = "ok"]
          /\ UNCHANGED <<dest, temp, full, synced, version>>
       \/ Faults /\ PublishFails(w)
    /\ UNCHANGED <<job, crashes>>

\* The deferred os.Remove, whose error is ignored, and the return of Write.
Remove(w) ==
    /\ pc[w] = "remove"
    /\ WriteReturns(w, result[w])
    /\ \/ temp' = temp \ {w} /\ ghosts' = ghosts \cup (temp \cap {w})
       \/ Faults /\ UNCHANGED <<temp, ghosts>>
    /\ UNCHANGED <<job, dest, full, synced, survivors, crashes, version>>

-----------------------------------------------------------------------------
(* Failures outside the calls.                                             *)

\* The process that made the call is killed.
Kill(w) ==
    /\ crashes < MaxCrashes
    /\ InFlight(w)
    /\ pc' = [pc EXCEPT ![w] = "killed"]
    /\ crashes' = crashes + 1
    /\ UNCHANGED <<job, result, fileVars>>

\* Power loss: no call survives it, and of the files only what was synced.
PowerLoss ==
    /\ crashes < MaxCrashes
    /\ pc' = [w \in Writers |-> IF InFlight(w) THEN "killed" ELSE pc[w]]
    /\ dest' \in survivors
    /\ survivors' = {dest'}
    /\ \E g \in SUBSET ghosts : temp' = temp \cup g
    /\ ghosts' = {}
    /\ \E f \in SUBSET full : full' = f \cup synced
    /\ crashes' = crashes + 1
    /\ UNCHANGED <<job, result, synced, version>>

\* Every call has returned or was killed.
Finished ==
    /\ \A w \in Writers : pc[w] \in {"returned", "killed"}
    /\ UNCHANGED vars

Step(w) == \/ Ensure(w) \/ EnsureAgain(w) \/ EnsureReads(w)
           \/ Write(w) \/ Prepare(w) \/ PrepareFails(w) \/ Publish(w)
           \/ Link(w) \/ Replace(w) \/ Rename(w) \/ SyncDirectory(w)
           \/ Remove(w) \/ Kill(w)

Next == (\E w \in Writers : Step(w)) \/ PowerLoss \/ Finished

Spec == Init /\ [][Next]_vars

-----------------------------------------------------------------------------
(* Properties.                                                             *)

\* Every variable has its type; a crash can only restore names that were
\* there, and a synced file is a complete one.
TypeOK ==
    /\ job \in [Writers -> Jobs]
    /\ pc \in [Writers -> Steps]
    /\ result \in [Writers -> {"none", "ok", "error"}]
    /\ dest \in Writers \cup {Absent, Alien}
    /\ survivors \subseteq Writers \cup {Absent, Alien}
    /\ dest \in survivors
    /\ temp \subseteq Writers
    /\ ghosts \subseteq Writers \ temp
    /\ synced \subseteq full
    /\ full \subseteq Writers
    /\ crashes \in 0..MaxCrashes
    /\ version \in [Writers -> Nat]

Succeeded(w) == pc[w] = "returned" /\ result[w] = "ok"

\* "without exposing partial contents" (file.go:1-2): a reader of the
\* destination never sees an incomplete file, whatever call was interrupted
\* and whatever a power loss undid.
NeverPartial == \A i \in survivors \cup {dest} : i \in Writers => i \in synced

\* Once Write or Publish has returned nil, no power loss brings back what the
\* destination was before: it is still that file or a later one.
Durable ==
    \A w \in Writers : Succeeded(w) /\ job[w].call # "Ensure" =>
        \A i \in survivors : i \in Writers /\ version[i] >= version[w]

\* What a crash leaves: never a part of a file, and never less than a call that
\* returned nil had promised.
CrashSafe == NeverPartial /\ Durable

\* Create never replaces a concurrent writer: of all the calls with Create
\* that were ever made for the path, by any process and across crashes, at
\* most one returns nil.
AtMostOneCreator ==
    \A v, w \in Writers :
        /\ Succeeded(v) /\ job[v].policy = "Create" /\ job[v].call # "Ensure"
        /\ Succeeded(w) /\ job[w].policy = "Create" /\ job[w].call # "Ensure"
        => v = w

-----------------------------------------------------------------------------
(* The inductive invariant behind CrashSafe and AtMostOneCreator (see      *)
(* AtomicFileProofs).                                                      *)

\* A file is synced before it is published, and published once; a Create is
\* never published by rename; only Ensure inspects the destination for its
\* contents; a removed temporary name is not used again.
StepsSound ==
    \A w \in Writers :
        /\ pc[w] \in {"publish", "rename", "sync"} => w \in synced
        /\ pc[w] \in {"idle", "read", "write", "prepare", "publish", "rename"} =>
             version[w] = 0 /\ result[w] = "none"
        /\ pc[w] = "sync" => result[w] = "none"
        /\ pc[w] = "rename" => job[w].policy = "ReplaceRegular"
        /\ pc[w] \in {"read", "write", "recheck", "reread"} =>
             job[w].call = "Ensure"
        /\ w \in ghosts => pc[w] \in {"recheck", "reread", "returned", "killed"}

\* Versions count the publications.
VersionsSound == \A w \in Writers : version[w] <= Cardinality(Published)

\* i is the file of w or a later one.
NotBefore(i, w) == i \in Writers /\ version[i] >= version[w]

\* From the publication until the sync nothing but a later publication can
\* change the destination; after the sync a power loss cannot undo it either.
PublicationsSound ==
    \A w \in Writers :
        /\ pc[w] = "sync" => NotBefore(dest, w)
        /\ result[w] = "ok" /\ job[w].call # "Ensure" =>
              \A i \in survivors : NotBefore(i, w)

\* A Create that was published and was not given up.
Creator(w) ==
    /\ job[w].policy = "Create" /\ job[w].call # "Ensure"
    /\ pc[w] = "sync" \/ result[w] = "ok"

OneCreator == \A v, w \in Writers : Creator(v) /\ Creator(w) => v = w

FileInv ==
    /\ TypeOK /\ NeverPartial /\ StepsSound /\ VersionsSound
    /\ PublicationsSound /\ OneCreator

=============================================================================
