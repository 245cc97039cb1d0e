--------------------------- MODULE BenchmarksProofs ---------------------------
(***************************************************************************)
(* Proofs about Benchmarks: its inductive invariant, and what a checkpoint *)
(* is worth, for any number of processes, plans, attempts, faults and      *)
(* deleted results.                                                        *)
(*                                                                         *)
(* The invariant speaks of the record a process is at, r, and of the items *)
(* g whose evidence was deleted since it began.  Most steps leave the      *)
(* evidence alone: for them it is enough that the new record is sound.     *)
(***************************************************************************)
EXTENDS Benchmarks, WellFoundedInduction, TLAPS

-----------------------------------------------------------------------------
(* Items and plans.                                                        *)

\* What a plan consists of.
LEMMA PlanFacts ==
    ASSUME TypeOK
    PROVE  /\ kind \in {"suite", "speculative", "acceptance"}
           /\ Items \subseteq Nat \ {0}
           /\ \A i \in Items :
                /\ kind = "suite" => Class(i) = "bundle"
                /\ kind = "speculative" => Class(i) = "trial"
                /\ kind = "acceptance" => Class(i) \in {"host", "visual", "text"}
<1>1. kind \in {"suite", "speculative", "acceptance"}
  BY PlanAssumption DEF TypeOK, Classes
<1>2. plan \in Seq(Classes[kind])
  BY PlanAssumption DEF TypeOK
<1>3. Items = 1..Len(plan) /\ Len(plan) \in Nat
  BY <1>2 DEF Items
<1>4. \A i \in Items : Class(i) \in Classes[kind]
  BY <1>2, <1>3 DEF Class
<1>5. Items \subseteq Nat \ {0}
  BY <1>3
<1> QED
  BY <1>1, <1>4, <1>5 DEF Classes

\* The least of some items.
LEMMA MinIs ==
    ASSUME NEW S \in SUBSET Nat, S # {}
    PROVE  Min(S) \in S /\ \A j \in S : Min(S) <= j
<1>1. PICK m \in S : \A k \in S : ~(<<k, m>> \in OpToRel(<, Nat))
  BY WFMin, NatLessThanWellFounded, Zenon
<1>2. \A k \in S : ~(k < m)
  BY <1>1, Zenon DEF OpToRel
<1>3. m \in Nat /\ \A y \in S : y \in Nat
  BY <1>1
<1>4. \A y \in S : m <= y
  BY <1>2, <1>3
<1>5. \E x \in S : \A y \in S : x <= y
  BY <1>1, <1>4
<1> QED
  BY <1>5 DEF Min

-----------------------------------------------------------------------------
(* The evidence.                                                           *)

\* A step deletes no evidence but what it adds to h, and changes none.
Kept(h) ==
    /\ kind' = kind /\ plan' = plan
    /\ lost' = 0 => lost = 0
    /\ \A i \in Items :
         /\ media[i] \subseteq media'[i]
         /\ results[i] # 0 => results'[i] = results[i] \/ (lost' # 0 /\ i \in h)

LEMMA EntryKept ==
    ASSUME NEW i \in Items, NEW entry, NEW h, EntrySound(i, entry), Kept(h)
    PROVE  EntrySound(i, entry)'
BY DEF EntrySound, StatusSound, ArtifactsAvailable, HasFile, Class, Evident, Kept, Items

LEMMA CheckpointKept ==
    ASSUME NEW c, NEW h, CheckpointSound(c), Kept(h)
    PROVE  CheckpointSound(c)'
<1>1. Items' = Items /\ Checkpoints' = Checkpoints
  BY DEF Kept, Items, Checkpoints
<1>2. \A i \in Items : EntrySound(i, c.entries[i])'
  <2>1. ASSUME NEW i \in Items, NEW entry, EntrySound(i, entry)
        PROVE  EntrySound(i, entry)'
    BY <2>1, EntryKept
  <2> QED
    BY <2>1 DEF CheckpointSound
<1> QED
  BY <1>1, <1>2 DEF CheckpointSound, Succeeded, Kept

LEMMA BackedKept ==
    ASSUME NEW i \in Items, NEW entry, NEW g, NEW h, g \subseteq h,
           Backed(i, entry, g), Kept(h)
    PROVE  Backed(i, entry, h)'
BY DEF Backed, ArtifactsAvailable, HasFile, Class, Evident, Kept, Items

LEMMA RunKept ==
    ASSUME NEW r, NEW g, NEW h, g \subseteq h, RunSound(r, g), Kept(h)
    PROVE  RunSound(r, h)'
<1>1. Items' = Items /\ Runs' = Runs
  BY DEF Kept, Items, Runs, Checkpoints
<1>2. MemorySound(r, h)'
  <2>1. ASSUME r.mem # None \/ r.pc \notin {"idle", "prepare"}
        PROVE  CheckpointSound(r.mem)'
    BY <2>1, CheckpointKept DEF RunSound, MemorySound
  <2>2. ASSUME r.pc \notin {"idle", "prepare"}
        PROVE  \A i \in Items : Backed(i, r.mem.entries[i], h)'
    <3>1. \A i \in Items : Backed(i, r.mem.entries[i], g)
      BY <2>2 DEF RunSound, MemorySound
    <3>2. ASSUME NEW i \in Items, NEW entry, Backed(i, entry, g)
          PROVE  Backed(i, entry, h)'
      BY <3>2, BackedKept
    <3> QED
      BY <3>1, <3>2
  <2> QED
    BY <1>1, <2>1, <2>2 DEF RunSound, MemorySound, Succeeded
<1>3. PlaceSound(r)'
  BY <1>1 DEF RunSound, PlaceSound, Settled
<1>4. AttemptSound(r, h)'
  <2>1. r.pc \in Working => r.at \in Items
    BY DEF RunSound, PlaceSound
  <2> QED
    BY <1>1, <2>1 DEF RunSound, AttemptSound, Produced, HasFile, Class, Kept, Working
<1>5. SkippedSound(r, h)'
  BY <1>1 DEF RunSound, SkippedSound
<1> QED
  BY <1>1, <1>2, <1>3, <1>4, <1>5 DEF RunSound

\* Complete, and what a process that was through may still say.
LEMMA CompleteKept ==
    ASSUME NEW g, NEW h, g \subseteq h, Complete(g), Kept(h)
    PROVE  Complete(h)'
BY DEF Complete, HasFile, Class, Items, Kept

-----------------------------------------------------------------------------
(* A step of one process.                                                  *)

LEMMA StepSound ==
    ASSUME BenchmarksInv, NEW p \in Processes, NEW s, NEW f, NEW g,
           Kept({}), lost' = lost, gone' = gone, gone[p] = g,
           results' \in [Items -> Nat], media' \in [Items -> SUBSET Nat],
           run' = [run EXCEPT ![p] = s], RunSound(s, g)', s.pc = "idle" => s = Idle,
           succeeded' \in [Processes -> BOOLEAN],
           \A q \in Processes : succeeded'[q] => succeeded[q] \/ (q = p /\ Complete(g)'),
           file' = f, f # None => CheckpointSound(f)',
           report' # None /\ Succeeded(report') /\ lost = 0 => Complete({})',
           attempts' \in Nat, faults' \in Nat
    PROVE  BenchmarksInv'
<1>1. Items' = Items /\ Runs' = Runs
  BY DEF Kept, Items, Runs, Checkpoints
<1>2. s \in Runs
  BY <1>1 DEF RunSound
<1>3. TypeOK'
  BY <1>1, <1>2 DEF BenchmarksInv, TypeOK, Kept
<1>4. (file # None => CheckpointSound(file))'
  BY DEF CheckpointSound, EntrySound, StatusSound, ArtifactsAvailable, HasFile, Class
<1>5. (report # None /\ Succeeded(report) /\ lost = 0 => Complete({}))'
  BY DEF Succeeded
<1>6. ASSUME NEW q \in Processes
      PROVE  (/\ RunSound(run[q], gone[q])
              /\ run[q].pc = "idle" => run[q] = Idle
              /\ succeeded[q] => Complete(gone[q])
              /\ lost = 0 => gone[q] = {})'
  <2>1. PICK r, h : r = run[q] /\ h = gone[q] /\ RunSound(r, h)
    BY DEF BenchmarksInv
  <2>2. Kept(h)
    BY DEF Kept
  <2>3. RunSound(r, h)'
    BY <2>1, <2>2, RunKept
  <2>4. Complete(h) => Complete(h)'
    BY <2>2, CompleteKept
  <2>5. run'[q] = (IF q = p THEN s ELSE r) /\ gone'[q] = h
    BY <2>1 DEF BenchmarksInv, TypeOK
  <2>6. RunSound(run[q], gone[q])'
    <3>1. CASE q = p
      BY <2>1, <2>5, <3>1
    <3>2. CASE q # p
      BY <2>3, <2>5, <3>2
    <3> QED
      BY <3>1, <3>2
  <2>7. (run[q].pc = "idle" => run[q] = Idle)'
    BY <2>1, <2>5 DEF BenchmarksInv, Idle
  <2>8. (succeeded[q] => Complete(gone[q]))'
    <3>1. succeeded[q] => Complete(h)
      BY <2>1 DEF BenchmarksInv
    <3>2. succeeded'[q] => Complete(h)'
      BY <2>1, <2>4, <3>1
    <3> QED
      BY <2>5, <3>2
  <2> QED
    BY <2>6, <2>7, <2>8 DEF BenchmarksInv
<1> QED
  BY <1>3, <1>4, <1>5, <1>6 DEF BenchmarksInv

\* What the invariant says of a process.
LEMMA OfProcess ==
    ASSUME BenchmarksInv, NEW p \in Processes
    PROVE  /\ TypeOK /\ RunSound(run[p], gone[p]) /\ run[p] \in Runs
           /\ gone[p] \in SUBSET Items
           /\ lost = 0 => gone[p] = {}
           /\ file # None => CheckpointSound(file)
BY DEF BenchmarksInv, RunSound, TypeOK

LEMMA IdleSound ==
    ASSUME NEW g
    PROVE  RunSound(Idle, g) /\ Idle.pc = "idle"
BY DEF RunSound, Runs, Places, Idle, MemorySound, PlaceSound, AttemptSound,
       SkippedSound, Working

\* A step that leaves the evidence alone.
LEMMA QuietStep ==
    ASSUME BenchmarksInv, NEW p \in Processes, NEW s, NEW f,
           UNCHANGED <<config, results, media, gone, lost>>,
           run' = [run EXCEPT ![p] = s], RunSound(s, gone[p]), s.pc = "idle" => s = Idle,
           succeeded' \in [Processes -> BOOLEAN],
           \A q \in Processes :
             succeeded'[q] => succeeded[q] \/ (q = p /\ Complete(gone[p])),
           file' = f, f # None => CheckpointSound(f),
           report' = report \/ (Succeeded(report') /\ lost = 0 => Complete({})),
           attempts' \in Nat, faults' \in Nat
    PROVE  BenchmarksInv'
<1>1. PICK g : g = gone[p] /\ RunSound(s, g)
  OBVIOUS
<1>2. Kept({}) /\ Kept(g)
  BY DEF Kept, config
<1>3. RunSound(s, g)'
  BY <1>1, <1>2, RunKept
<1>4. f # None => CheckpointSound(f)'
  BY <1>2, CheckpointKept
<1>5. Complete(g) => Complete(g)'
  BY <1>2, CompleteKept
<1>6. Complete({}) => Complete({})'
  BY <1>2, CompleteKept
<1>7. report' # None /\ Succeeded(report') /\ lost = 0 => Complete({})'
  BY <1>6 DEF BenchmarksInv, Succeeded
<1>8. results' \in [Items -> Nat] /\ media' \in [Items -> SUBSET Nat]
  BY DEF BenchmarksInv, TypeOK
<1>9. \A q \in Processes : succeeded'[q] => succeeded[q] \/ (q = p /\ Complete(g)')
  BY <1>1, <1>5
<1> QED
  BY <1>1, <1>2, <1>3, <1>4, <1>7, <1>8, <1>9, StepSound

\* Most steps change only the record.
LEMMA ContinueStep ==
    ASSUME BenchmarksInv, NEW p \in Processes, NEW s, Continue(p, s),
           UNCHANGED <<config, file, evidence, gone, attempts, faults, lost>>,
           RunSound(s, gone[p]), s.pc # "idle"
    PROVE  BenchmarksInv'
<1>1. PICK f : f = file
  OBVIOUS
<1> QED
  BY <1>1, QuietStep DEF Continue, evidence, BenchmarksInv, TypeOK

\* A command ends, with what it has written.
LEMMA ExitStep ==
    ASSUME BenchmarksInv, NEW p \in Processes, NEW status, NEW f, Exit(p, status),
           status = "ok" => Complete(gone[p]),
           UNCHANGED <<config, results, media, gone, attempts, lost>>,
           file' = f, f # None => CheckpointSound(f),
           report' = report \/ (Succeeded(report') /\ lost = 0 => Complete({})),
           faults' \in Nat
    PROVE  BenchmarksInv'
<1>1. succeeded' \in [Processes -> BOOLEAN]
  BY DEF Exit, BenchmarksInv, TypeOK
<1>2. \A q \in Processes : succeeded'[q] => succeeded[q] \/ (q = p /\ Complete(gone[p]))
  BY DEF Exit, BenchmarksInv, TypeOK
<1>3. run' = [run EXCEPT ![p] = Idle] /\ attempts' \in Nat
  BY DEF Exit, BenchmarksInv, TypeOK
<1> QED
  BY <1>1, <1>2, <1>3, IdleSound, QuietStep

LEMMA CheckpointStep ==
    ASSUME BenchmarksInv, NEW p \in Processes, NEW r, NEW c, Checkpoint(p, r, c),
           UNCHANGED <<config, evidence, gone, attempts, lost>>,
           CheckpointSound(c), RunSound([r EXCEPT !.mem = c], gone[p]), r \in Runs,
           r.pc # "idle"
    PROVE  BenchmarksInv'
<1>1. faults' \in Nat
  BY DEF Checkpoint, Fault, BenchmarksInv, TypeOK
<1>2. CASE file' = c /\ Continue(p, [r EXCEPT !.mem = c])
  <2>1. PICK s : s = [r EXCEPT !.mem = c] /\ s.pc # "idle"
    BY DEF Runs
  <2> QED
    BY <1>1, <1>2, <2>1, QuietStep DEF Continue, evidence, BenchmarksInv, TypeOK
<1>3. CASE Exit(p, "error") /\ UNCHANGED file
  <2>1. PICK f : f = file /\ (f # None => CheckpointSound(f))
    BY DEF BenchmarksInv
  <2> QED
    BY <1>1, <1>3, <2>1, ExitStep DEF evidence
<1> QED
  BY <1>2, <1>3 DEF Checkpoint

LEMMA CheckpointThenReturnStep ==
    ASSUME BenchmarksInv, NEW p \in Processes, NEW c, CheckpointThenReturn(p, c),
           UNCHANGED <<config, evidence, gone, attempts, lost>>, CheckpointSound(c)
    PROVE  BenchmarksInv'
<1>1. faults' \in Nat /\ Exit(p, "error")
  BY DEF CheckpointThenReturn, Fault, BenchmarksInv, TypeOK
<1>2. CASE file' = c
  BY <1>1, <1>2, ExitStep DEF evidence
<1>3. CASE file' = file
  <2>1. PICK f : f = file /\ (f # None => CheckpointSound(f))
    BY DEF BenchmarksInv
  <2> QED
    BY <1>1, <1>3, <2>1, ExitStep DEF evidence
<1> QED
  BY <1>2, <1>3 DEF CheckpointThenReturn


-----------------------------------------------------------------------------
(* The command line and the checkpoint that is taken up.                   *)

LEMMA FreshSound ==
    ASSUME TypeOK
    PROVE  /\ CheckpointSound(Fresh)
           /\ \A i \in Items : \A g : Backed(i, Fresh.entries[i], g)
<1>1. Fresh \in Checkpoints
  BY DEF Fresh, Checkpoints, Pending
<1>2. \A i \in Items : Fresh.entries[i].status = "pending"
  BY DEF Fresh, Pending
<1>3. Fresh.status \in {"preparing", "running"} /\ (kind = "suite" => Fresh.status = "running")
  BY DEF Fresh
<1>4. \A i \in Items : EntrySound(i, Fresh.entries[i])
  BY <1>2, PlanFacts DEF EntrySound, StatusSound, Evident
<1> QED
  BY <1>1, <1>2, <1>3, <1>4 DEF CheckpointSound, Succeeded, Backed, Evident

LEMMA RunningSound ==
    ASSUME TypeOK, NEW c, CheckpointSound(c)
    PROVE  /\ CheckpointSound(Running(c))
           /\ Running(c).entries = c.entries
<1>1. c \in Checkpoints
  BY DEF CheckpointSound
<1>2. CASE kind = "suite"
  <2>1. Running(c) = [c EXCEPT !.status = "running", !.finished = FALSE]
    BY <1>2 DEF Running
  <2>2. /\ Running(c) \in Checkpoints /\ Running(c).status = "running"
        /\ Running(c).entries = c.entries
    BY <1>1, <2>1 DEF Checkpoints
  <2> QED
    BY <2>2 DEF CheckpointSound, Succeeded
<1>3. CASE kind = "speculative"
  <2>1. Running(c) = [c EXCEPT !.status = "running"]
    BY <1>3 DEF Running
  <2>2. /\ Running(c) \in Checkpoints /\ Running(c).status = "running"
        /\ Running(c).entries = c.entries
    BY <1>1, <2>1 DEF Checkpoints
  <2> QED
    BY <2>2 DEF CheckpointSound, Succeeded
<1>4. CASE kind = "acceptance"
  BY <1>4 DEF Running
<1> QED
  BY <1>2, <1>3, <1>4, PlanFacts

LEMMA BeginStep ==
    ASSUME BenchmarksInv, NEW p \in Processes, Begin(p)
    PROVE  BenchmarksInv'
<1>1. PICK keep \in BOOLEAN :
        run' = [run EXCEPT ![p] =
                  [Idle EXCEPT !.pc = "prepare", !.keep = keep, !.mem = file]]
  BY DEF Begin
<1>2. PICK s : s = [Idle EXCEPT !.pc = "prepare", !.keep = keep, !.mem = file]
  OBVIOUS
<1>3. /\ s.pc = "prepare" /\ s.skipped = {} /\ s.mem = file
      /\ s \in Runs
  <2>1. file \in Checkpoints \cup {None}
    BY DEF BenchmarksInv, CheckpointSound
  <2> QED
    BY <1>2, <2>1 DEF Idle, Runs, Places
<1>4. RunSound(s, {})
  BY <1>3 DEF RunSound, MemorySound, PlaceSound, AttemptSound, SkippedSound, Working,
              BenchmarksInv
<1>5. Kept({}) /\ UNCHANGED <<config, file, evidence, attempts, faults, lost>>
  BY DEF Begin, Kept, config, evidence
<1>6. Items' = Items /\ Runs' = Runs
  BY <1>5 DEF Kept, Items, Runs, Checkpoints
<1>7. TypeOK'
  BY <1>1, <1>2, <1>3, <1>5, <1>6 DEF TypeOK, BenchmarksInv, Begin, config, evidence
<1>8. (file # None => CheckpointSound(file))'
  <2>1. PICK f : f = file /\ (f # None => CheckpointSound(f))
    BY DEF BenchmarksInv
  <2>2. f # None => CheckpointSound(f)'
    BY <1>5, <2>1, CheckpointKept
  <2>3. file' = f
    BY <1>5, <2>1
  <2> QED
    BY <2>2, <2>3 DEF CheckpointSound, EntrySound, StatusSound, ArtifactsAvailable,
                      HasFile, Class
<1>9. (report # None /\ Succeeded(report) /\ lost = 0 => Complete({}))'
  <2>1. Complete({}) => Complete({})'
    BY <1>5, CompleteKept
  <2> QED
    BY <1>5, <2>1 DEF BenchmarksInv, Succeeded, evidence
<1>10. ASSUME NEW q \in Processes
       PROVE  (/\ RunSound(run[q], gone[q])
               /\ run[q].pc = "idle" => run[q] = Idle
               /\ succeeded[q] => Complete(gone[q])
               /\ lost = 0 => gone[q] = {})'
  <2>1. PICK r, h : r = run[q] /\ h = gone[q] /\ RunSound(r, h)
    BY DEF BenchmarksInv
  <2>2. Kept(h)
    BY <1>5 DEF Kept
  <2>3. RunSound(r, h)' /\ RunSound(s, {})'
    BY <1>4, <1>5, <2>1, <2>2, RunKept
  <2>4. Complete(h) => Complete(h)'
    BY <2>2, CompleteKept
  <2>5. CASE q = p
    <3>1. run'[q] = s /\ gone'[q] = {} /\ ~succeeded'[q]
      BY <1>1, <1>2, <2>5 DEF Begin, BenchmarksInv, TypeOK
    <3> QED
      BY <1>3, <2>3, <3>1
  <2>6. CASE q # p
    <3>1. run'[q] = r /\ gone'[q] = h /\ succeeded'[q] = succeeded[q]
      BY <1>1, <2>1, <2>6 DEF Begin, BenchmarksInv, TypeOK
    <3>2. RunSound(run[q], gone[q])'
      BY <2>3, <3>1
    <3>3. (succeeded[q] => Complete(gone[q]))'
      BY <2>1, <2>4, <3>1 DEF BenchmarksInv
    <3> QED
      BY <1>5, <2>1, <3>1, <3>2, <3>3 DEF BenchmarksInv, Idle
  <2> QED
    BY <2>5, <2>6
<1> QED
  BY <1>7, <1>8, <1>9, <1>10 DEF BenchmarksInv

\* The items that a checkpoint accepts are not to be run again.
LEMMA ResumedSound ==
    ASSUME BenchmarksInv, NEW c, CheckpointSound(c), ResumeValid(c), NEW i \in Items, NEW g
    PROVE  Backed(i, c.entries[i], g)
<1>1. TypeOK
  BY DEF BenchmarksInv
<1>2. EntrySound(i, c.entries[i])
  BY DEF CheckpointSound
<1>3. CASE kind = "suite"
  BY <1>1, <1>2, <1>3, PlanFacts
     DEF ResumeValid, ValidateComfySuiteResume, Backed, Evident, EntrySound, StatusSound
<1>4. CASE kind = "speculative"
  BY <1>1, <1>4, PlanFacts DEF Backed, HasFile
<1>5. CASE kind = "acceptance"
  BY <1>5 DEF ResumeValid, ValidateAcceptanceResult, Backed, Evident, ArtifactsAvailable
<1> QED
  BY <1>1, <1>3, <1>4, <1>5, PlanFacts

LEMMA PrepareStep ==
    ASSUME BenchmarksInv, NEW p \in Processes, Prepare(p)
    PROVE  BenchmarksInv'
<1>1. PICK r, g, c : /\ r = run[p] /\ g = gone[p]
                     /\ c = IF kind = "suite" /\ r.mem # None THEN file ELSE r.mem
  OBVIOUS
<1>2. /\ TypeOK /\ RunSound(r, g) /\ r \in Runs /\ r.pc = "prepare" /\ r.skipped = {}
      /\ c # None => CheckpointSound(c)
  BY <1>1, OfProcess DEF Prepare, RunSound, SkippedSound, MemorySound
<1>3. UNCHANGED <<config, file, evidence, gone, attempts, faults, lost>>
  BY DEF Prepare
<1>4. CASE c = None
  <2>1. PICK s : s = [r EXCEPT !.mem = Fresh, !.pc = "create", !.at = 1]
    OBVIOUS
  <2>2. Continue(p, s)
    BY <1>1, <1>4, <2>1 DEF Prepare
  <2>3. /\ s \in Runs /\ s.pc = "create" /\ s.at = 1 /\ s.mem = Fresh
        /\ s.skipped = {}
    BY <1>2, <2>1, FreshSound DEF Runs, Places, CheckpointSound
  <2>4. RunSound(s, g)
    BY <1>2, <2>3, FreshSound
       DEF RunSound, MemorySound, PlaceSound, AttemptSound, SkippedSound, Working
  <2> QED
    BY <1>1, <1>3, <2>2, <2>3, <2>4, ContinueStep
<1>5. CASE c # None
  <2>1. PICK accepted : accepted = {i \in Items : c.entries[i].status \in
                                       {"pass", "complete", "review", "blocked"}}
    OBVIOUS
  <2>2. PICK s : s = [r EXCEPT !.mem = Running(c), !.at = 1,
                         !.pc = IF kind = "acceptance" THEN "scan" ELSE "save",
                         !.skipped = accepted]
    OBVIOUS
  <2>3. Continue(p, s) /\ ResumeValid(c)
    BY <1>1, <1>5, <2>1, <2>2 DEF Prepare
  <2>4. /\ s \in Runs /\ s.pc \in {"save", "scan"} /\ s.at = 1 /\ s.mem = Running(c)
        /\ s.skipped = accepted
    BY <1>2, <1>5, <2>1, <2>2, RunningSound DEF Runs, Places, CheckpointSound
  <2>5. /\ CheckpointSound(s.mem) /\ s.mem.entries = c.entries
        /\ \A i \in Items : Backed(i, c.entries[i], g)
    BY <1>2, <1>5, <2>3, <2>4, RunningSound, ResumedSound
  <2>6. MemorySound(s, g) /\ AttemptSound(s, g)
    BY <2>4, <2>5 DEF MemorySound, AttemptSound, Working
  <2>7. PlaceSound(s) /\ SkippedSound(s, g)
    BY <1>2, <2>1, <2>4, <2>5, PlanFacts DEF PlaceSound, SkippedSound, Working, Skippable
  <2>8. RunSound(s, g)
    BY <2>4, <2>6, <2>7 DEF RunSound
  <2> QED
    BY <1>1, <1>3, <2>3, <2>4, <2>8, ContinueStep
<1> QED
  BY <1>4, <1>5

LEMMA RefuseStep ==
    ASSUME BenchmarksInv, NEW p \in Processes, Refuse(p)
    PROVE  BenchmarksInv'
<1>1. PICK f : f = file /\ (f # None => CheckpointSound(f))
  BY DEF BenchmarksInv
<1> QED
  BY <1>1, ExitStep DEF Refuse, evidence, BenchmarksInv, TypeOK


LEMMA CreateStep ==
    ASSUME BenchmarksInv, NEW p \in Processes, Create(p)
    PROVE  BenchmarksInv'
<1>1. PICK r, g : r = run[p] /\ g = gone[p]
  OBVIOUS
<1>2. /\ TypeOK /\ RunSound(r, g) /\ r \in Runs /\ r.pc = "create"
      /\ r.skipped = {} /\ r.at = 1 /\ CheckpointSound(r.mem)
  BY <1>1, OfProcess DEF Create, RunSound, SkippedSound, PlaceSound, MemorySound
<1>3. CASE file = None
  <2>1. PICK s, c : /\ s = [r EXCEPT !.pc = IF kind = "speculative" THEN "save" ELSE "scan"]
                    /\ c = r.mem
    OBVIOUS
  <2>2. Checkpoint(p, s, c)
    BY <1>1, <1>3, <2>1 DEF Create
  <2>3. s \in Runs /\ s.pc \in {"save", "scan"}
    BY <1>2, <2>1 DEF Runs, Places
  <2>4. PICK t : t = [s EXCEPT !.mem = c]
    OBVIOUS
  <2>5. t \in Runs /\ t.pc = s.pc /\ t.mem = r.mem /\ t.at = 1 /\ t.skipped = {}
    BY <1>2, <2>1, <2>3, <2>4 DEF Runs
  <2>6. RunSound(t, g)
    BY <1>2, <2>3, <2>5, PlanFacts
       DEF RunSound, MemorySound, PlaceSound, AttemptSound, SkippedSound, Working
  <2> QED
    BY <1>1, <1>2, <2>1, <2>2, <2>3, <2>4, <2>6, CheckpointStep DEF Create
<1>4. CASE file # None
  <2>1. PICK f : f = file /\ (f # None => CheckpointSound(f))
    BY DEF BenchmarksInv
  <2> QED
    BY <1>4, <2>1, ExitStep DEF Create, evidence, BenchmarksInv, TypeOK
<1> QED
  BY <1>3, <1>4

LEMMA SaveStep ==
    ASSUME BenchmarksInv, NEW p \in Processes, Save(p)
    PROVE  BenchmarksInv'
<1>1. PICK r, g, s, c : /\ r = run[p] /\ g = gone[p]
                        /\ s = [r EXCEPT !.pc = "scan"] /\ c = Running(r.mem)
  OBVIOUS
<1>2. /\ TypeOK /\ RunSound(r, g) /\ r \in Runs /\ r.pc = "save" /\ r.at = 1
      /\ CheckpointSound(r.mem)
  BY <1>1, OfProcess DEF Save, RunSound, PlaceSound, MemorySound
<1>3. CheckpointSound(c) /\ c.entries = r.mem.entries /\ c \in Checkpoints
  BY <1>1, <1>2, RunningSound DEF CheckpointSound
<1>4. s \in Runs /\ s.pc = "scan"
  BY <1>1, <1>2 DEF Runs, Places
<1>5. PICK t : t = [s EXCEPT !.mem = c]
  OBVIOUS
<1>6. t \in Runs /\ t.pc = "scan" /\ t.mem = c /\ t.at = 1 /\ t.skipped = r.skipped
  BY <1>1, <1>2, <1>3, <1>4, <1>5 DEF Runs
<1>7. RunSound(t, g)
  BY <1>2, <1>3, <1>6, PlanFacts
     DEF RunSound, MemorySound, PlaceSound, AttemptSound, SkippedSound, Working
<1>8. Checkpoint(p, s, c)
  BY <1>1 DEF Save
<1> QED
  BY <1>1, <1>3, <1>4, <1>5, <1>7, <1>8, CheckpointStep DEF Save

-----------------------------------------------------------------------------
(* The loop.                                                               *)

\* Blocked cases that are opened again are as good as before.
LEMMA ReopenedIs ==
    ASSUME TypeOK, NEW p \in Processes, NEW c, c = run[p].mem, c \in Checkpoints,
           NEW g, \A i \in Items : EntrySound(i, c.entries[i]) /\ Backed(i, c.entries[i], g)
    PROVE  /\ Reopened(p) \in [Items -> [status: {"pending", "running", "pass", "fail",
                                  "review", "blocked", "complete", "failed"},
                                  finished: BOOLEAN, by: Nat]]
           /\ \A i \in Items :
                /\ EntrySound(i, Reopened(p)[i]) /\ Backed(i, Reopened(p)[i], g)
                /\ \/ Reopened(p)[i] = c.entries[i]
                   \/ c.entries[i].status = "blocked" /\ Reopened(p)[i].status = "review"
<1> DEFINE Entries == [status: {"pending", "running", "pass", "fail", "review", "blocked",
                                "complete", "failed"},
                       finished: BOOLEAN, by: Nat]
<1>1. c.entries \in [Items -> Entries]
  BY DEF Checkpoints
<1>2. ASSUME NEW i \in Items
      PROVE  /\ Reopened(p)[i] \in Entries
             /\ EntrySound(i, Reopened(p)[i]) /\ Backed(i, Reopened(p)[i], g)
             /\ \/ Reopened(p)[i] = c.entries[i]
                \/ c.entries[i].status = "blocked" /\ Reopened(p)[i].status = "review"
  <2>1. PICK e, d : e = c.entries[i] /\ d = [e EXCEPT !.status = "review"]
    OBVIOUS
  <2>2. e \in Entries
    BY <1>1, <2>1
  <2>3. Reopened(p)[i] = e \/ (e.status = "blocked" /\ Reopened(p)[i] = d)
    BY <2>1 DEF Reopened
  <2>4. d \in Entries /\ d.status = "review" /\ d.by = e.by
    BY <2>1, <2>2
  <2>5. e.status = "blocked" => EntrySound(i, d) /\ Backed(i, d, g)
    BY <2>1, <2>4, PlanFacts
       DEF EntrySound, Backed, StatusSound, ArtifactsAvailable, Evident
  <2> QED
    BY <2>1, <2>2, <2>3, <2>4, <2>5
<1>3. Reopened(p) = [i \in Items |-> Reopened(p)[i]]
  BY DEF Reopened
<1> QED
  BY <1>2, <1>3

\* What lies between where a process is and the next item to run is accepted.
LEMMA TodoIs ==
    ASSUME TypeOK, NEW p \in Processes, NEW r, r = run[p], NEW g, RunSound(r, g),
           r.pc = "scan"
    PROVE  /\ Todo(p) \in SUBSET Items
           /\ \A i \in Todo(p) : i >= r.at /\ ~Accepted(i, r.mem.entries[i])
           /\ \A i \in Items : i \notin Todo(p) => Settled(r, i)
           /\ Todo(p) # {} => Min(Todo(p)) \in Todo(p) /\
                              \A j \in Todo(p) : Min(Todo(p)) <= j
<1>1. Todo(p) \in SUBSET Items /\ Items \in SUBSET Nat /\ r.at \in Nat
  BY PlanFacts DEF Todo, RunSound, Runs
<1>2. \A i \in Todo(p) : i >= r.at /\ ~Accepted(i, r.mem.entries[i])
  BY DEF Todo
<1>3. ASSUME NEW i \in Items, i \notin Todo(p)
      PROVE  Settled(r, i)
  <2>1. CASE i < r.at
    BY <2>1 DEF RunSound, PlaceSound
  <2>2. CASE Accepted(i, r.mem.entries[i])
    BY <2>2 DEF Accepted, Settled, Skippable
  <2> QED
    BY <1>1, <1>3, <2>1, <2>2 DEF Todo
<1>4. Todo(p) # {} => Min(Todo(p)) \in Todo(p) /\ \A j \in Todo(p) : Min(Todo(p)) <= j
  BY <1>1, MinIs
<1> QED
  BY <1>1, <1>2, <1>3, <1>4


LEMMA NextItemStep ==
    ASSUME BenchmarksInv, NEW p \in Processes, NextItem(p)
    PROVE  BenchmarksInv'
<1>1. PICK r, g, i : r = run[p] /\ g = gone[p] /\ i = Min(Todo(p))
  OBVIOUS
<1>2. /\ TypeOK /\ RunSound(r, g) /\ r \in Runs /\ r.pc = "scan" /\ Todo(p) # {}
      /\ r.mem \in Checkpoints /\ CheckpointSound(r.mem)
      /\ \A j \in Items : EntrySound(j, r.mem.entries[j]) /\ Backed(j, r.mem.entries[j], g)
  BY <1>1, OfProcess DEF NextItem, RunSound, MemorySound, CheckpointSound
<1>3. /\ i \in Items /\ i >= r.at /\ ~Accepted(i, r.mem.entries[i])
      /\ \A j \in Items : j < i => Settled(r, j)
      /\ r.at \in Nat /\ \A j \in Items : j \in Nat
  <2>1. \A j \in Items : j \in Nat
    BY <1>2, PlanFacts
  <2>2. r.at \in Nat
    BY <1>2 DEF Runs
  <2>3. /\ Todo(p) \in SUBSET Items /\ i \in Todo(p)
        /\ \A j \in Todo(p) : i <= j
        /\ \A j \in Todo(p) : j >= r.at /\ ~Accepted(j, r.mem.entries[j])
        /\ \A j \in Items : j \notin Todo(p) => Settled(r, j)
    BY <1>1, <1>2, TodoIs
  <2> QED
    BY <2>1, <2>2, <2>3
<1>4. ~Succeeded(r.mem.status)
  BY <1>2, <1>3 DEF CheckpointSound, Accepted
\* An item that was accepted before is run again only if its evidence is gone.
<1>5. \A j \in r.skipped : /\ j > i => r.mem.entries[j].status \in Skippable
                           /\ j = i => i \in g
  <2>1. \A j \in r.skipped : j \in Items /\
            (j >= r.at => r.mem.entries[j].status \in Skippable)
    BY <1>2 DEF RunSound, SkippedSound, Runs
  <2>2. ASSUME i \in r.skipped
        PROVE  i \in g
    <3>1. r.mem.entries[i].status = "blocked" /\ ~ArtifactsAvailable(i, r.mem.entries[i])
      BY <1>3, <2>1, <2>2 DEF Accepted, Skippable
    <3>2. kind = "acceptance" /\ HasFile(i)
      BY <1>2, <1>3, <3>1, PlanFacts DEF EntrySound, StatusSound, HasFile
    <3> QED
      BY <1>2, <1>3, <3>1, <3>2 DEF Backed, Evident
  <2> QED
    BY <1>3, <2>1, <2>2
<1>6. PICK s : s = [r EXCEPT !.pc = "work", !.at = i]
  OBVIOUS
<1>7. /\ s \in Runs /\ s.pc = "work" /\ s.at = i /\ s.mem = r.mem
      /\ s.skipped = r.skipped /\ s.failed = r.failed
  BY <1>2, <1>3, <1>6 DEF Runs, Places
<1>8. UNCHANGED <<config, evidence, gone, attempts, lost>>
  BY DEF NextItem
<1>9. CASE kind = "suite"
  <2>1. MemorySound(s, g) /\ AttemptSound(s, g)
    BY <1>2, <1>4, <1>7 DEF RunSound, MemorySound, AttemptSound, Working
  <2>2. PlaceSound(s)
    BY <1>3, <1>7 DEF PlaceSound, Settled, Working
  <2>3. SkippedSound(s, g)
    BY <1>5, <1>7 DEF SkippedSound, Working
  <2>4. RunSound(s, g)
    BY <1>7, <2>1, <2>2, <2>3 DEF RunSound
  <2>5. Continue(p, s) /\ UNCHANGED <<file, faults>>
    BY <1>1, <1>6, <1>9 DEF NextItem
  <2> QED
    BY <1>1, <1>7, <1>8, <2>4, <2>5, ContinueStep
<1>10. CASE kind # "suite"
  <2>1. PICK e, c : /\ e = [Reopened(p) EXCEPT ![i].status = "running"]
                    /\ c = [r.mem EXCEPT !.entries = e]
    OBVIOUS
  <2>2. /\ Reopened(p) \in [Items -> [status: {"pending", "running", "pass", "fail",
                                  "review", "blocked", "complete", "failed"},
                                  finished: BOOLEAN, by: Nat]]
        /\ \A j \in Items :
             /\ EntrySound(j, Reopened(p)[j]) /\ Backed(j, Reopened(p)[j], g)
             /\ \/ Reopened(p)[j] = r.mem.entries[j]
                \/ r.mem.entries[j].status = "blocked" /\ Reopened(p)[j].status = "review"
    BY <1>1, <1>2, ReopenedIs
  <2>3. /\ e \in [Items -> [status: {"pending", "running", "pass", "fail",
                              "review", "blocked", "complete", "failed"},
                              finished: BOOLEAN, by: Nat]]
        /\ e[i].status = "running" /\ \A j \in Items \ {i} : e[j] = Reopened(p)[j]
    BY <1>3, <2>1, <2>2
  <2>4. c \in Checkpoints /\ c.entries = e /\ c.status = r.mem.status
    BY <1>2, <2>1, <2>3 DEF Checkpoints
  <2>5. EntrySound(i, e[i]) /\ Backed(i, e[i], g)
    BY <1>2, <1>3, <1>10, <2>3, PlanFacts DEF EntrySound, StatusSound, Backed, Evident
  <2>6. \A j \in Items : EntrySound(j, e[j]) /\ Backed(j, e[j], g)
    BY <2>2, <2>3, <2>5
  <2>7. CheckpointSound(c)
    BY <1>2, <1>4, <1>10, <2>4, <2>6 DEF CheckpointSound
  <2>8. PICK t : t = [s EXCEPT !.mem = c]
    OBVIOUS
  <2>9. /\ t \in Runs /\ t.pc = "work" /\ t.at = i /\ t.mem = c
        /\ t.skipped = r.skipped /\ t.failed = r.failed
    BY <1>7, <2>4, <2>8 DEF Runs
  <2>10. MemorySound(t, g) /\ AttemptSound(t, g)
    BY <1>4, <2>4, <2>6, <2>7, <2>9 DEF MemorySound, AttemptSound, Working
  <2>11. \A j \in Items : j # i /\ Settled(r, j) => Settled(t, j)
    BY <2>2, <2>3, <2>4, <2>9 DEF Settled, Skippable
  <2>12. PlaceSound(t)
    BY <1>3, <2>9, <2>11 DEF PlaceSound, Working
  <2>13. \A j \in r.skipped : j \in Items
    BY <1>2 DEF Runs
  <2>14. SkippedSound(t, g)
    BY <1>3, <1>5, <2>2, <2>3, <2>4, <2>9, <2>13 DEF SkippedSound, Working, Skippable
  <2>15. RunSound(t, g)
    BY <2>9, <2>10, <2>12, <2>14 DEF RunSound
  <2>16. Checkpoint(p, s, c)
    BY <1>1, <1>6, <1>10, <2>1 DEF NextItem
  <2> QED
    BY <1>1, <1>7, <1>8, <2>7, <2>8, <2>15, <2>16, CheckpointStep
<1> QED
  BY <1>9, <1>10

LEMMA ScanEndsStep ==
    ASSUME BenchmarksInv, NEW p \in Processes, ScanEnds(p)
    PROVE  BenchmarksInv'
<1>1. PICK r, g, e : r = run[p] /\ g = gone[p] /\ e = Reopened(p)
  OBVIOUS
<1>2. /\ TypeOK /\ RunSound(r, g) /\ r \in Runs /\ r.pc = "scan" /\ Todo(p) = {}
      /\ r.mem \in Checkpoints /\ CheckpointSound(r.mem)
      /\ \A j \in Items : EntrySound(j, r.mem.entries[j]) /\ Backed(j, r.mem.entries[j], g)
  BY <1>1, OfProcess DEF ScanEnds, RunSound, MemorySound, CheckpointSound
<1>3. \A j \in Items : Settled(r, j)
  BY <1>1, <1>2, TodoIs
<1>4. /\ e \in [Items -> [status: {"pending", "running", "pass", "fail",
                            "review", "blocked", "complete", "failed"},
                            finished: BOOLEAN, by: Nat]]
      /\ \A j \in Items :
           /\ EntrySound(j, e[j]) /\ Backed(j, e[j], g)
           /\ \/ e[j] = r.mem.entries[j]
              \/ r.mem.entries[j].status = "blocked" /\ e[j].status = "review"
  BY <1>1, <1>2, ReopenedIs
<1>5. PICK s : s = [r EXCEPT !.mem.entries = e,
                       !.pc = IF kind = "acceptance" THEN "review" ELSE "finish"]
  OBVIOUS
<1>6. Continue(p, s)
  BY <1>1, <1>5 DEF ScanEnds
<1>7. PICK c : c = [r.mem EXCEPT !.entries = e]
  OBVIOUS
<1>8. c \in Checkpoints /\ c.entries = e /\ c.status = r.mem.status
  BY <1>2, <1>4, <1>7 DEF Checkpoints
<1>9. /\ s \in Runs /\ s.mem = c /\ s.failed = r.failed
      /\ s.pc = IF kind = "acceptance" THEN "review" ELSE "finish"
  BY <1>2, <1>5, <1>7, <1>8 DEF Runs, Places
<1>10. CheckpointSound(c)
  BY <1>2, <1>4, <1>8 DEF CheckpointSound
<1>11. \A j \in Items : Settled(s, j)
  BY <1>3, <1>4, <1>8, <1>9 DEF Settled, Skippable
<1>12. kind # "acceptance" => \A j \in Items : e[j].status # "review"
  BY <1>2, <1>4, PlanFacts DEF EntrySound, StatusSound
<1>13. RunSound(s, g)
  BY <1>4, <1>8, <1>9, <1>10, <1>11, <1>12
     DEF RunSound, MemorySound, PlaceSound, AttemptSound, SkippedSound, Working
<1> QED
  BY <1>1, <1>6, <1>9, <1>13, ContinueStep DEF ScanEnds


-----------------------------------------------------------------------------
(* One item.                                                               *)

\* A step from one stage of an attempt to another.
LEMMA WithinItem ==
    ASSUME NEW r, NEW g, NEW s, RunSound(r, g), r.pc \in Working, s \in Runs,
           s.pc \in Working, s.mem = r.mem, s.at = r.at, s.skipped = r.skipped,
           s.failed = r.failed, AttemptSound(s, g)
    PROVE  RunSound(s, g)
BY DEF RunSound, MemorySound, PlaceSound, SkippedSound, Settled, Working

\* At work on an item.
LEMMA AtItem ==
    ASSUME BenchmarksInv, NEW p \in Processes, run[p].pc \in Working
    PROVE  /\ TypeOK /\ RunSound(run[p], gone[p]) /\ run[p] \in Runs
           /\ run[p].at \in Items /\ AttemptSound(run[p], gone[p])
           /\ CheckpointSound(run[p].mem) /\ run[p].mem \in Checkpoints
           /\ run[p].pc \in Places \ {"idle"}
BY OfProcess DEF RunSound, PlaceSound, MemorySound, Working, CheckpointSound, Places

LEMMA HostCaseStep ==
    ASSUME BenchmarksInv, NEW p \in Processes, HostCase(p)
    PROVE  BenchmarksInv'
<1>1. PICK r, g, s : /\ r = run[p] /\ g = gone[p]
                     /\ s = [r EXCEPT !.pc = "outcome", !.err = FALSE]
  OBVIOUS
<1>2. RunSound(r, g) /\ r \in Runs /\ r.pc \in Working /\ Class(r.at) = "host"
  BY <1>1, AtItem DEF HostCase, Working
<1>3. /\ s \in Runs /\ s.pc = "outcome" /\ s.mem = r.mem /\ s.at = r.at
      /\ s.skipped = r.skipped /\ s.failed = r.failed
  BY <1>1, <1>2 DEF Runs, Places
<1>4. AttemptSound(s, g)
  BY <1>2, <1>3 DEF AttemptSound, HasFile
<1>5. RunSound(s, g)
  BY <1>2, <1>3, <1>4, WithinItem DEF Working
<1> QED
  BY <1>1, <1>3, <1>5, ContinueStep DEF HostCase

LEMMA WorkFailsStep ==
    ASSUME BenchmarksInv, NEW p \in Processes, WorkFails(p)
    PROVE  BenchmarksInv'
<1>1. PICK r, g, s : /\ r = run[p] /\ g = gone[p]
                     /\ s = [r EXCEPT !.err = TRUE,
                               !.pc = IF @ = "work" THEN "outcome" ELSE "conclude"]
  OBVIOUS
<1>2. RunSound(r, g) /\ r \in Runs /\ r.pc \in Working
  BY <1>1, AtItem DEF WorkFails, Working
<1>3. /\ s \in Runs /\ s.pc \in {"outcome", "conclude"} /\ s.mem = r.mem /\ s.at = r.at
      /\ s.skipped = r.skipped /\ s.failed = r.failed /\ s.err
  BY <1>1, <1>2 DEF Runs, Places
<1>4. AttemptSound(s, g)
  BY <1>3 DEF AttemptSound
<1>5. RunSound(s, g)
  BY <1>2, <1>3, <1>4, WithinItem DEF Working
<1> QED
  BY <1>1, <1>3, <1>5, ContinueStep DEF WorkFails

LEMMA ServeStep ==
    ASSUME BenchmarksInv, NEW p \in Processes, Serve(p)
    PROVE  BenchmarksInv'
<1>1. PICK r, g, n : r = run[p] /\ g = gone[p] /\ n = attempts + 1
  OBVIOUS
<1>2. /\ RunSound(r, g) /\ r \in Runs /\ r.pc \in Working
      /\ n \in Nat \ {0} /\ attempts' = n /\ faults' \in Nat
  BY <1>1, AtItem DEF Serve, Working, BenchmarksInv, TypeOK
<1>3. PICK s : /\ \/ s = [r EXCEPT !.mine = n, !.err = FALSE, !.pc = "measure"]
                  \/ s = [r EXCEPT !.mine = n, !.err = TRUE, !.pc = "conclude"]
               /\ Continue(p, s)
  <2>1. CASE server[Name(r.at)] = None
    <3>1. PICK s : s = [r EXCEPT !.mine = n, !.err = FALSE, !.pc = "measure"]
      OBVIOUS
    <3>2. s = [r EXCEPT !.mine = n, !.err = ~(server[Name(r.at)] = None),
                 !.pc = IF server[Name(r.at)] = None THEN "measure" ELSE "conclude"]
      BY <2>1, <3>1
    <3> QED
      BY <1>1, <3>1, <3>2 DEF Serve
  <2>2. CASE server[Name(r.at)] # None
    <3>1. PICK s : s = [r EXCEPT !.mine = n, !.err = TRUE, !.pc = "conclude"]
      OBVIOUS
    <3>2. s = [r EXCEPT !.mine = n, !.err = ~(server[Name(r.at)] = None),
                 !.pc = IF server[Name(r.at)] = None THEN "measure" ELSE "conclude"]
      BY <2>2, <3>1
    <3> QED
      BY <1>1, <3>1, <3>2 DEF Serve
  <2> QED
    BY <2>1, <2>2
<1>4. /\ s \in Runs /\ s.pc \in {"measure", "conclude"} /\ s.mem = r.mem
      /\ s.at = r.at /\ s.skipped = r.skipped /\ s.failed = r.failed
      /\ s.mine = n /\ (s.pc = "conclude" => s.err)
  <2>1. CASE s = [r EXCEPT !.mine = n, !.err = FALSE, !.pc = "measure"]
    <3>1. /\ s \in Runs /\ s.pc = "measure" /\ s.mem = r.mem /\ s.at = r.at
          /\ s.skipped = r.skipped /\ s.failed = r.failed /\ s.mine = n
      BY <1>2, <2>1 DEF Runs, Places
    <3> QED
      BY <3>1
  <2>2. CASE s = [r EXCEPT !.mine = n, !.err = TRUE, !.pc = "conclude"]
    <3>1. /\ s \in Runs /\ s.pc = "conclude" /\ s.mem = r.mem /\ s.at = r.at
          /\ s.skipped = r.skipped /\ s.failed = r.failed /\ s.mine = n /\ s.err
      BY <1>2, <2>2 DEF Runs, Places
    <3> QED
      BY <3>1
  <2> QED
    BY <1>3, <2>1, <2>2
<1>5. AttemptSound(s, g)
  BY <1>2, <1>4 DEF AttemptSound
<1>6. RunSound(s, g)
  BY <1>2, <1>4, <1>5, WithinItem DEF Working
<1>7. PICK f : f = file /\ (f # None => CheckpointSound(f))
  BY DEF BenchmarksInv
<1>8. run' = [run EXCEPT ![p] = s] /\ succeeded' = succeeded
  BY <1>3 DEF Continue
<1>9. s.pc # "idle"
  BY <1>4
<1> QED
  BY <1>1, <1>2, <1>6, <1>7, <1>8, <1>9, QuietStep
     DEF Serve, evidence, BenchmarksInv, TypeOK

\* An attempt adds to the evidence: media, or a result that was not there.
LEMMA AddedEvidence ==
    ASSUME BenchmarksInv, NEW p \in Processes, NEW r, NEW g, NEW s,
           r = run[p], g = gone[p], r.pc \in Working, s \in Runs, s.pc \in Working,
           s.mem = r.mem, s.at = r.at, s.skipped = r.skipped, s.failed = r.failed,
           Kept({}), Continue(p, s), AttemptSound(s, g)',
           results' \in [Items -> Nat], media' \in [Items -> SUBSET Nat],
           UNCHANGED <<config, file, report, gone, attempts, lost>>, faults' \in Nat
    PROVE  BenchmarksInv'
<1>1. RunSound(r, g) /\ Kept(g)
  BY AtItem DEF Kept
<1>2. RunSound(r, g)'
  BY <1>1, RunKept
<1>3. Runs' = Runs
  BY DEF Kept, Items, Runs, Checkpoints
<1>4. RunSound(s, g)'
  BY <1>2, <1>3 DEF RunSound, MemorySound, PlaceSound, SkippedSound, Settled, Working
<1>5. PICK f : f = file /\ (f # None => CheckpointSound(f))
  BY DEF BenchmarksInv
<1>6. f # None => CheckpointSound(f)'
  BY <1>5, CheckpointKept
<1>7. Complete({}) => Complete({})'
  BY CompleteKept
<1>8. report' # None /\ Succeeded(report') /\ lost = 0 => Complete({})'
  BY <1>7 DEF BenchmarksInv, Succeeded
<1>9. succeeded' = succeeded /\ run' = [run EXCEPT ![p] = s] /\ s.pc # "idle"
  BY DEF Continue, Working
<1>10. /\ succeeded' \in [Processes -> BOOLEAN]
       /\ \A q \in Processes :
            succeeded'[q] => succeeded[q] \/ (q = p /\ Complete(g)')
       /\ attempts' \in Nat
  BY <1>9 DEF BenchmarksInv, TypeOK
<1> QED
  BY <1>4, <1>5, <1>6, <1>8, <1>9, <1>10, StepSound

LEMMA MeasuredStep ==
    ASSUME BenchmarksInv, NEW p \in Processes, Measured(p)
    PROVE  BenchmarksInv'
<1>1. PICK r, g, s : /\ r = run[p] /\ g = gone[p]
                     /\ s = [r EXCEPT !.pc = IF HasFile(r.at) THEN "publish"
                                             ELSE "conclude"]
  OBVIOUS
<1>2. /\ TypeOK /\ RunSound(r, g) /\ r \in Runs /\ r.pc = "measure" /\ r.at \in Items
      /\ r.mine # 0 /\ r.mine \in Nat
  BY <1>1, AtItem DEF Measured, Working, AttemptSound, Runs
<1>3. /\ s \in Runs /\ s.pc = (IF HasFile(r.at) THEN "publish" ELSE "conclude")
      /\ s.mem = r.mem /\ s.at = r.at /\ s.skipped = r.skipped /\ s.failed = r.failed
      /\ s.mine = r.mine
  BY <1>1, <1>2 DEF Runs, Places
<1>4. /\ media' = IF Class(r.at) = "visual" THEN [media EXCEPT ![r.at] = @ \cup {r.mine}]
                                            ELSE media
      /\ Continue(p, s)
      /\ UNCHANGED <<config, file, results, report, gone, attempts, faults, lost>>
  BY <1>1 DEF Measured
<1>5. media' \in [Items -> SUBSET Nat] /\ results' \in [Items -> Nat]
  BY <1>2, <1>4 DEF TypeOK
<1>6. Kept({})
  BY <1>2, <1>4 DEF Kept, config, TypeOK
<1>7. Class(r.at)' = Class(r.at) /\ HasFile(r.at)' = HasFile(r.at)
  BY <1>6 DEF Kept, Class, HasFile
<1>8. Class(r.at) = "visual" => r.mine \in media'[r.at]
  BY <1>2, <1>4 DEF TypeOK
<1>9. AttemptSound(s, g)'
  BY <1>2, <1>3, <1>7, <1>8 DEF AttemptSound, Produced, HasFile, Class
<1>10. faults' \in Nat /\ r.pc \in Working /\ s.pc \in Working
  BY <1>2, <1>3, <1>4 DEF TypeOK, Working
<1> QED
  BY <1>1, <1>3, <1>4, <1>5, <1>6, <1>9, <1>10, AddedEvidence

LEMMA WriteJSONStep ==
    ASSUME BenchmarksInv, NEW p \in Processes, WriteJSON(p)
    PROVE  BenchmarksInv'
<1>1. PICK r, g : r = run[p] /\ g = gone[p]
  OBVIOUS
<1>2. /\ TypeOK /\ RunSound(r, g) /\ r \in Runs /\ r.pc = "publish" /\ r.at \in Items
      /\ Produced(r) /\ r.mine \in Nat
  BY <1>1, AtItem DEF WriteJSON, Working, AttemptSound, Runs
<1>3. UNCHANGED <<config, file, media, report, gone, attempts, lost>>
  BY DEF WriteJSON
<1>4. CASE /\ results[r.at] = 0
           /\ results' = [results EXCEPT ![r.at] = r.mine]
           /\ Continue(p, [r EXCEPT !.pc = "conclude"]) /\ UNCHANGED faults
  <2>1. PICK s : s = [r EXCEPT !.pc = "conclude"]
    OBVIOUS
  <2>2. /\ s \in Runs /\ s.pc = "conclude" /\ s.mem = r.mem /\ s.at = r.at
        /\ s.skipped = r.skipped /\ s.failed = r.failed /\ s.mine = r.mine
    BY <1>2, <2>1 DEF Runs, Places
  <2>3. /\ results' \in [Items -> Nat] /\ media' \in [Items -> SUBSET Nat]
        /\ results'[r.at] = r.mine
    BY <1>2, <1>3, <1>4 DEF TypeOK
  <2>4. Kept({})
    BY <1>2, <1>3, <1>4 DEF Kept, config, TypeOK
  <2>5. AttemptSound(s, g)'
    BY <1>2, <1>3, <2>2, <2>3 DEF AttemptSound, Produced, HasFile, Class, config
  <2>6. faults' \in Nat /\ r.pc \in Working /\ s.pc \in Working
    BY <1>2, <1>4, <2>2 DEF TypeOK, Working
  <2> QED
    BY <1>1, <1>3, <1>4, <2>1, <2>2, <2>3, <2>4, <2>5, <2>6, AddedEvidence
<1>5. CASE /\ faults' \in Nat /\ UNCHANGED results
           /\ Continue(p, [r EXCEPT !.pc = "conclude", !.err = TRUE])
  <2>1. PICK s : s = [r EXCEPT !.pc = "conclude", !.err = TRUE]
    OBVIOUS
  <2>2. /\ s \in Runs /\ s.pc = "conclude" /\ s.mem = r.mem /\ s.at = r.at
        /\ s.skipped = r.skipped /\ s.failed = r.failed /\ s.err
    BY <1>2, <2>1 DEF Runs, Places
  <2>3. results' \in [Items -> Nat] /\ media' \in [Items -> SUBSET Nat]
    BY <1>2, <1>3, <1>5 DEF TypeOK
  <2>4. Kept({})
    BY <1>2, <1>3, <1>5 DEF Kept, config, TypeOK
  <2>5. AttemptSound(s, g)'
    BY <2>2 DEF AttemptSound
  <2>6. r.pc \in Working /\ s.pc \in Working
    BY <1>2, <2>2 DEF Working
  <2> QED
    BY <1>1, <1>3, <1>5, <2>1, <2>2, <2>3, <2>4, <2>5, <2>6, AddedEvidence
<1>6. results[r.at] = 0 => (Fault => faults' \in Nat)
  BY <1>2 DEF Fault, TypeOK
<1>7. (IF results[r.at] = 0 THEN Fault ELSE UNCHANGED faults) => faults' \in Nat
  BY <1>2 DEF Fault, TypeOK
<1> QED
  BY <1>1, <1>4, <1>5, <1>7 DEF WriteJSON


LEMMA ConcludeStep ==
    ASSUME BenchmarksInv, NEW p \in Processes, Conclude(p)
    PROVE  BenchmarksInv'
<1>1. PICK r, g : r = run[p] /\ g = gone[p]
  OBVIOUS
<1>2. /\ RunSound(r, g) /\ r \in Runs /\ r.pc = "conclude" /\ AttemptSound(r, g)
      /\ UNCHANGED <<config, file, evidence, gone, attempts, lost>> /\ faults' \in Nat
  BY <1>1, AtItem DEF Conclude, Working, Fault, BenchmarksInv, TypeOK
<1> DEFINE few == Class(r.at) = "visual" /\ Cardinality(media[r.at]) # 1
<1>3. \/ Continue(p, [r EXCEPT !.pc = "outcome", !.err = @ \/ few])
      \/ Continue(p, [r EXCEPT !.pc = "outcome", !.err = TRUE])
  BY <1>1 DEF Conclude
<1>4. PICK s : /\ \/ s = [r EXCEPT !.pc = "outcome", !.err = TRUE]
                  \/ ~r.err /\ s = [r EXCEPT !.pc = "outcome", !.err = FALSE]
               /\ Continue(p, s)
  <2> HIDE DEF few
  <2>1. CASE Continue(p, [r EXCEPT !.pc = "outcome", !.err = @ \/ few])
    <3>1. CASE r.err \/ few
      <4>1. (r.err \/ few) = TRUE
        BY <3>1
      <4>2. [r EXCEPT !.pc = "outcome", !.err = @ \/ few] =
              [r EXCEPT !.pc = "outcome", !.err = TRUE]
        BY <4>1
      <4> QED
        BY <2>1, <4>2
    <3>2. CASE ~(r.err \/ few)
      <4>1. (r.err \/ few) = FALSE
        BY <3>2
      <4>2. [r EXCEPT !.pc = "outcome", !.err = @ \/ few] =
              [r EXCEPT !.pc = "outcome", !.err = FALSE]
        BY <4>1
      <4> QED
        BY <2>1, <3>2, <4>2
    <3> QED
      BY <3>1, <3>2
  <2>2. CASE Continue(p, [r EXCEPT !.pc = "outcome", !.err = TRUE])
    BY <2>2
  <2> QED
    BY <1>3, <2>1, <2>2
<1>5. /\ s \in Runs /\ s.pc = "outcome" /\ s.mem = r.mem /\ s.at = r.at
      /\ s.skipped = r.skipped /\ s.failed = r.failed /\ s.mine = r.mine
      /\ (r.err => s.err)
  <2>1. CASE s = [r EXCEPT !.pc = "outcome", !.err = TRUE]
    <3>1. /\ s \in Runs /\ s.pc = "outcome" /\ s.mem = r.mem /\ s.at = r.at
          /\ s.skipped = r.skipped /\ s.failed = r.failed /\ s.mine = r.mine /\ s.err
      BY <1>2, <2>1 DEF Runs, Places
    <3> QED
      BY <3>1
  <2>2. CASE ~r.err /\ s = [r EXCEPT !.pc = "outcome", !.err = FALSE]
    <3>1. /\ s \in Runs /\ s.pc = "outcome" /\ s.mem = r.mem /\ s.at = r.at
          /\ s.skipped = r.skipped /\ s.failed = r.failed /\ s.mine = r.mine
      BY <1>2, <2>2 DEF Runs, Places
    <3> QED
      BY <2>2, <3>1
  <2> QED
    BY <1>4, <2>1, <2>2
<1>6. AttemptSound(s, g)
  BY <1>2, <1>5 DEF AttemptSound, Produced
<1>7. RunSound(s, g)
  BY <1>2, <1>5, <1>6, WithinItem DEF Working
<1>8. PICK f : f = file /\ (f # None => CheckpointSound(f))
  BY DEF BenchmarksInv
<1>9. run' = [run EXCEPT ![p] = s] /\ succeeded' = succeeded /\ s.pc # "idle"
  BY <1>4, <1>5 DEF Continue
<1> QED
  BY <1>1, <1>2, <1>7, <1>8, <1>9, QuietStep DEF evidence, BenchmarksInv, TypeOK

\* What is recorded of an attempt: a success has its evidence.
LEMMA RecordedIs ==
    ASSUME BenchmarksInv, NEW p \in Processes, NEW r, NEW g, r = run[p], g = gone[p],
           r.pc = "outcome",
           NEW entry, entry = [status |-> Outcome(p), finished |-> kind = "speculative",
                               by |-> IF Failed(p) \/ ~HasFile(r.at) THEN 0 ELSE r.mine]
    PROVE  /\ entry \in [status: {"pending", "running", "pass", "fail", "review",
                                  "blocked", "complete", "failed"},
                         finished: BOOLEAN, by: Nat]
           /\ EntrySound(r.at, entry) /\ Backed(r.at, entry, g)
           /\ entry.status \in Skippable \/ (Failed(p) /\ entry.status \in {"fail", "failed"})
<1>1. /\ TypeOK /\ r.at \in Items /\ AttemptSound(r, g) /\ r \in Runs /\ r.mine \in Nat
      /\ (lost = 0 => g = {})
  BY AtItem, OfProcess DEF Working, Runs
<1>2. CASE Failed(p)
  <2>1. entry.by = 0 /\ entry.status = (IF kind = "speculative" THEN "failed" ELSE "fail")
    BY <1>2 DEF Outcome
  <2>2. entry.finished \in BOOLEAN /\ entry = [status |-> entry.status,
          finished |-> entry.finished, by |-> entry.by]
    OBVIOUS
  <2>3. EntrySound(r.at, entry) /\ Backed(r.at, entry, g)
    BY <1>1, <2>1, PlanFacts DEF EntrySound, StatusSound, Backed, Evident
  <2> QED
    BY <1>2, <2>1, <2>2, <2>3
<1>3. CASE ~Failed(p)
  <2>1. ~r.err /\ (kind = "acceptance" /\ HasFile(r.at) => results[r.at] = r.mine)
    BY <1>3 DEF Failed
  <2>2. HasFile(r.at) => /\ Produced(r) /\ (r.at \in g \/ results[r.at] = r.mine)
                         /\ entry.by = r.mine
    BY <1>1, <1>3, <2>1 DEF AttemptSound
  <2>3. entry.by \in Nat
    BY <1>1, <1>3
  <2>4. entry.status = (IF kind = "speculative" THEN "complete"
                        ELSE IF Class(r.at) = "visual" THEN "review" ELSE "pass")
    BY <1>1, <1>3, PlanFacts DEF Outcome
  <2>5. StatusSound(r.at, entry.status)
    BY <1>1, <2>4, PlanFacts DEF StatusSound
  <2>6. EntrySound(r.at, entry)
    BY <1>1, <2>2, <2>5 DEF EntrySound, ArtifactsAvailable, Produced
  <2>7. Backed(r.at, entry, g)
    BY <1>1, <2>1, <2>2 DEF Backed, ArtifactsAvailable, Produced
  <2>8. entry.finished \in BOOLEAN /\ entry = [status |-> entry.status,
          finished |-> entry.finished, by |-> entry.by]
    OBVIOUS
  <2> QED
    BY <2>3, <2>4, <2>6, <2>7, <2>8 DEF Skippable
<1> QED
  BY <1>2, <1>3


LEMMA RecordStep ==
    ASSUME BenchmarksInv, NEW p \in Processes, Record(p)
    PROVE  BenchmarksInv'
<1>1. PICK r, g, entry :
        /\ r = run[p] /\ g = gone[p]
        /\ entry = [status |-> Outcome(p), finished |-> kind = "speculative",
                    by |-> IF Failed(p) \/ ~HasFile(r.at) THEN 0 ELSE r.mine]
  OBVIOUS
<1>2. /\ TypeOK /\ RunSound(r, g) /\ r \in Runs /\ r.pc = "outcome" /\ r.at \in Items
      /\ r.mem \in Checkpoints /\ CheckpointSound(r.mem) /\ ~Succeeded(r.mem.status)
      /\ UNCHANGED <<config, evidence, gone, attempts, lost>>
  <2>1. run[p].pc \in Working
    BY DEF Record, Working
  <2>2. r.pc = "outcome"
    BY <1>1 DEF Record
  <2> QED
    BY <1>1, <2>1, <2>2, AtItem DEF Record, RunSound, MemorySound, Working
<1>3. /\ entry \in [status: {"pending", "running", "pass", "fail", "review",
                             "blocked", "complete", "failed"},
                    finished: BOOLEAN, by: Nat]
      /\ EntrySound(r.at, entry) /\ Backed(r.at, entry, g)
      /\ entry.status \in Skippable \/ (Failed(p) /\ entry.status \in {"fail", "failed"})
  BY <1>1, <1>2, RecordedIs
<1>4. PICK b \in BOOLEAN : b = (r.failed \/ Failed(p))
  <2>1. CASE r.failed \/ Failed(p)
    <3>1. (r.failed \/ Failed(p)) = TRUE
      BY <2>1
    <3> QED
      BY <3>1
  <2>2. CASE ~(r.failed \/ Failed(p))
    <3>1. (r.failed \/ Failed(p)) = FALSE
      BY <2>2
    <3> QED
      BY <3>1
  <2> QED
    BY <2>1, <2>2
<1>5. (r.failed => b) /\ (Failed(p) => b)
  BY <1>4
<1>6. PICK there : there = (IF Failed(p) /\ ~r.keep THEN "stop" ELSE "scan")
  OBVIOUS
<1>7. PICK s, c : /\ s = [r EXCEPT !.pc = there, !.at = @ + 1, !.failed = b,
                                   !.err = FALSE, !.mine = 0]
                  /\ c = [r.mem EXCEPT !.entries[r.at] = entry]
  OBVIOUS
<1>8. Checkpoint(p, s, c)
  <2>1. s = [r EXCEPT !.pc = IF Failed(p) /\ ~r.keep THEN "stop" ELSE "scan",
                      !.at = @ + 1, !.failed = @ \/ Failed(p), !.err = FALSE, !.mine = 0]
    BY <1>4, <1>6, <1>7
  <2> QED
    BY <1>1, <1>7, <2>1 DEF Record
<1>9. /\ s \in Runs /\ s.pc \in {"stop", "scan"} /\ s.at = r.at + 1 /\ s.failed = b
      /\ s.skipped = r.skipped
  <2>1. there \in {"stop", "scan"} /\ r.at \in Nat /\ r.at + 1 \in Nat
    BY <1>2, <1>6, PlanFacts
  <2>2. PICK n : n = r.at + 1
    OBVIOUS
  <2>3. s = [r EXCEPT !.pc = there, !.at = n, !.failed = b, !.err = FALSE, !.mine = 0]
    BY <1>2, <1>7, <2>2
  <2>4. s \in Runs
    BY <1>2, <1>4, <2>1, <2>2, <2>3 DEF Runs, Places
  <2>5. s.pc = there /\ s.at = n /\ s.failed = b /\ s.skipped = r.skipped
    BY <1>2, <2>3 DEF Runs
  <2> QED
    BY <2>1, <2>2, <2>4, <2>5
<1>10. /\ c \in Checkpoints /\ c.status = r.mem.status /\ c.entries[r.at] = entry
       /\ \A j \in Items \ {r.at} : c.entries[j] = r.mem.entries[j]
  BY <1>2, <1>3, <1>7 DEF Checkpoints
<1>11. \A j \in Items : EntrySound(j, c.entries[j]) /\ Backed(j, c.entries[j], g)
  <2>1. \A j \in Items : EntrySound(j, r.mem.entries[j]) /\ Backed(j, r.mem.entries[j], g)
    BY <1>2 DEF RunSound, MemorySound, CheckpointSound
  <2> QED
    BY <1>3, <1>10, <2>1
<1>12. CheckpointSound(c)
  BY <1>2, <1>10, <1>11 DEF CheckpointSound
<1>13. PICK t : t = [s EXCEPT !.mem = c]
  OBVIOUS
<1>14. /\ t \in Runs /\ t.pc \in {"stop", "scan"} /\ t.at = r.at + 1 /\ t.failed = b
       /\ t.skipped = r.skipped /\ t.mem = c
  BY <1>9, <1>10, <1>13 DEF Runs
<1>15. \A j \in Items : j \in Nat /\ (j < t.at => j < r.at \/ j = r.at)
  BY <1>2, <1>14, PlanFacts
<1>16. \A j \in Items : j < r.at => Settled(r, j)
  BY <1>2 DEF RunSound, PlaceSound, Working
<1>17. \A j \in Items : j < t.at => Settled(t, j)
  BY <1>2, <1>3, <1>5, <1>10, <1>14, <1>15, <1>16, PlanFacts DEF Settled
<1>18. PlaceSound(t)
  BY <1>14, <1>17 DEF PlaceSound, Working
<1>19. SkippedSound(t, g)
  <2>1. \A j \in r.skipped : j \in Items /\
                             (j > r.at => r.mem.entries[j].status \in Skippable)
    BY <1>2 DEF RunSound, SkippedSound, Working, Runs
  <2>2. \A j \in r.skipped : j >= t.at => t.mem.entries[j].status \in Skippable
    BY <1>2, <1>10, <1>14, <1>15, <2>1, PlanFacts
  <2> QED
    BY <1>14, <2>2 DEF SkippedSound, Working
<1>20. RunSound(t, g)
  BY <1>11, <1>12, <1>14, <1>18, <1>19 DEF RunSound, MemorySound, AttemptSound, Working
<1> QED
  BY <1>1, <1>2, <1>8, <1>9, <1>12, <1>13, <1>20, CheckpointStep

LEMMA StopStep ==
    ASSUME BenchmarksInv, NEW p \in Processes, Stop(p)
    PROVE  BenchmarksInv'
<1>1. PICK r, g, c : /\ r = run[p] /\ g = gone[p]
                     /\ c = [r.mem EXCEPT !.status = "failed"]
  OBVIOUS
<1>2. /\ r.mem \in Checkpoints /\ CheckpointSound(r.mem)
      /\ UNCHANGED <<config, evidence, gone, attempts, lost>>
      /\ CheckpointThenReturn(p, c)
  <2>1. RunSound(r, g) /\ r.pc = "stop"
    BY <1>1, OfProcess DEF Stop
  <2> QED
    BY <1>1, <2>1 DEF Stop, RunSound, MemorySound, CheckpointSound
<1>3. c \in Checkpoints /\ c.status = "failed" /\ c.entries = r.mem.entries
  BY <1>1, <1>2 DEF Checkpoints
<1>4. CheckpointSound(c)
  BY <1>2, <1>3 DEF CheckpointSound, Succeeded
<1> QED
  BY <1>2, <1>4, CheckpointThenReturnStep


-----------------------------------------------------------------------------
(* The review and the end.                                                 *)

LEMMA ReviewStep ==
    ASSUME BenchmarksInv, NEW p \in Processes, Review(p)
    PROVE  BenchmarksInv'
<1>1. PICK r, g, open :
        /\ r = run[p] /\ g = gone[p]
        /\ open = {i \in Items : r.mem.entries[i].status = "review"}
  OBVIOUS
<1>2. /\ TypeOK /\ RunSound(r, g) /\ r \in Runs /\ r.pc = "review"
      /\ r.mem \in Checkpoints /\ CheckpointSound(r.mem)
      /\ \A j \in Items : EntrySound(j, r.mem.entries[j]) /\ Backed(j, r.mem.entries[j], g)
      /\ \A j \in Items : Settled(r, j)
      /\ UNCHANGED <<config, evidence, gone, attempts, lost>>
  BY <1>1, OfProcess DEF Review, RunSound, MemorySound, CheckpointSound, PlaceSound
<1>3. CASE open = {}
  <2>1. PICK s : s = [r EXCEPT !.pc = "finish"]
    OBVIOUS
  <2>2. Continue(p, s) /\ UNCHANGED <<file, faults>>
    BY <1>1, <1>3, <2>1 DEF Review
  <2>3. /\ s \in Runs /\ s.pc = "finish" /\ s.mem = r.mem /\ s.failed = r.failed
    BY <1>2, <2>1 DEF Runs, Places
  <2>4. PlaceSound(s)
    BY <1>1, <1>2, <1>3, <2>3 DEF PlaceSound, Settled, Working
  <2>5. RunSound(s, g)
    BY <1>2, <2>3, <2>4 DEF RunSound, MemorySound, AttemptSound, SkippedSound, Working
  <2> QED
    BY <1>1, <1>2, <2>2, <2>3, <2>5, ContinueStep
<1>4. ASSUME open # {}, NEW status \in {"pass", "blocked"},
             Checkpoint(p, r, [r.mem EXCEPT !.entries[Min(open)].status = status])
      PROVE  BenchmarksInv'
  <2>1. PICK m, e, d, c :
          /\ m = Min(open) /\ e = r.mem.entries[m] /\ d = [e EXCEPT !.status = status]
          /\ c = [r.mem EXCEPT !.entries[m] = d]
    OBVIOUS
  <2>2. m \in Items /\ e.status = "review"
    <3>1. open \in SUBSET Nat
      BY <1>1, <1>2, PlanFacts
    <3>2. m \in open
      BY <1>4, <2>1, <3>1, MinIs
    <3> QED
      BY <1>1, <2>1, <3>2
  <2>3. e \in [status: {"pending", "running", "pass", "fail", "review",
                        "blocked", "complete", "failed"},
               finished: BOOLEAN, by: Nat]
    BY <1>2, <2>1, <2>2 DEF Checkpoints
  <2>4. d \in [status: {"pending", "running", "pass", "fail", "review",
                        "blocked", "complete", "failed"},
               finished: BOOLEAN, by: Nat] /\ d.status = status /\ d.by = e.by
    BY <2>1, <2>3
  <2>5. /\ c \in Checkpoints /\ c.status = r.mem.status /\ c.entries[m] = d
        /\ \A j \in Items \ {m} : c.entries[j] = r.mem.entries[j]
    BY <1>2, <2>1, <2>2, <2>4 DEF Checkpoints
  <2>6. EntrySound(m, d) /\ Backed(m, d, g)
    BY <1>2, <2>1, <2>2, <2>4, PlanFacts
       DEF EntrySound, StatusSound, Backed, Evident, ArtifactsAvailable
  <2>7. \A j \in Items : EntrySound(j, c.entries[j]) /\ Backed(j, c.entries[j], g)
    BY <1>2, <2>5, <2>6
  <2>8. ~Succeeded(r.mem.status)
    BY <1>2, <2>1, <2>2 DEF CheckpointSound
  <2>9. CheckpointSound(c)
    BY <1>2, <2>5, <2>7, <2>8 DEF CheckpointSound
  <2>10. PICK t : t = [r EXCEPT !.mem = c]
    OBVIOUS
  <2>11. t \in Runs /\ t.pc = "review" /\ t.mem = c /\ t.failed = r.failed
    BY <1>2, <2>5, <2>10 DEF Runs
  <2>12. \A j \in Items : Settled(t, j)
    BY <1>2, <2>4, <2>5, <2>11 DEF Settled, Skippable
  <2>13. RunSound(t, g)
    BY <2>7, <2>9, <2>11, <2>12
       DEF RunSound, MemorySound, PlaceSound, AttemptSound, SkippedSound, Working
  <2>14. Checkpoint(p, r, c)
    <3>1. c = [r.mem EXCEPT !.entries[Min(open)].status = status]
      BY <1>2, <2>1, <2>2 DEF Checkpoints
    <3> QED
      BY <1>4, <3>1
  <2> QED
    BY <1>1, <1>2, <2>9, <2>10, <2>13, <2>14, CheckpointStep
<1>5. CASE CheckpointThenReturn(p, r.mem)
  BY <1>2, <1>5, CheckpointThenReturnStep
<1> QED
  BY <1>1, <1>3, <1>4, <1>5 DEF Review

LEMMA FinishStep ==
    ASSUME BenchmarksInv, NEW p \in Processes, Finish(p)
    PROVE  BenchmarksInv'
<1>1. PICK r, g, s, status, c :
        /\ r = run[p] /\ g = gone[p] /\ s = [r EXCEPT !.pc = "report"]
        /\ status = FinalStatus(p)
        /\ c = [r.mem EXCEPT !.status = status, !.finished = TRUE]
  OBVIOUS
<1>2. /\ TypeOK /\ RunSound(r, g) /\ r \in Runs /\ r.pc = "finish"
      /\ r.mem \in Checkpoints /\ CheckpointSound(r.mem)
      /\ \A j \in Items : EntrySound(j, r.mem.entries[j]) /\ Backed(j, r.mem.entries[j], g)
      /\ \A j \in Items : Settled(r, j) /\ r.mem.entries[j].status # "review"
      /\ UNCHANGED <<config, evidence, gone, attempts, lost>>
      /\ Checkpoint(p, s, c)
  BY <1>1, OfProcess DEF Finish, RunSound, MemorySound, CheckpointSound, PlaceSound
<1>3. /\ status \in {"completed-with-failures", "complete", "failed", "fail", "blocked",
                     "pass"}
      /\ kind = "suite" => status \in {"complete", "completed-with-failures"}
  BY <1>1, <1>2, PlanFacts DEF FinalStatus
\* Success means that nothing has failed and that nothing was left open.
<1>4. Succeeded(status) =>
        \A j \in Items : r.mem.entries[j].status \in {"pass", "complete"}
  <2>1. CASE kind \in {"suite", "speculative"}
    <3>1. Succeeded(status) => ~r.failed
      BY <1>1, <2>1 DEF FinalStatus, Succeeded
    <3> QED
      BY <1>2, <2>1, <3>1, PlanFacts DEF Settled, Skippable, EntrySound, StatusSound
  <2>2. CASE kind = "acceptance"
    <3>1. Succeeded(status) => ~Has(p, "fail") /\ ~Has(p, "blocked")
      BY <1>1, <2>2 DEF FinalStatus, Succeeded
    <3> QED
      BY <1>1, <1>2, <2>2, <3>1, PlanFacts
         DEF Has, Settled, Skippable, EntrySound, StatusSound
  <2> QED
    BY <1>2, <2>1, <2>2, PlanFacts
<1>5. c \in Checkpoints /\ c.status = status /\ c.entries = r.mem.entries
  BY <1>1, <1>2, <1>3 DEF Checkpoints
<1>6. CheckpointSound(c)
  BY <1>2, <1>3, <1>4, <1>5 DEF CheckpointSound
<1>7. s \in Runs /\ s.pc = "report"
  BY <1>1, <1>2 DEF Runs, Places
<1>8. PICK t : t = [s EXCEPT !.mem = c]
  OBVIOUS
<1>9. t \in Runs /\ t.pc = "report" /\ t.mem = c
  BY <1>5, <1>7, <1>8 DEF Runs
<1>10. RunSound(t, g)
  BY <1>2, <1>5, <1>6, <1>9
     DEF RunSound, MemorySound, PlaceSound, AttemptSound, SkippedSound, Working
<1> QED
  BY <1>1, <1>2, <1>6, <1>7, <1>8, <1>10, CheckpointStep

LEMMA ReportStep ==
    ASSUME BenchmarksInv, NEW p \in Processes, Report(p)
    PROVE  BenchmarksInv'
<1>1. PICK r, g, status, f : /\ r = run[p] /\ g = gone[p] /\ status = r.mem.status
                             /\ f = file
  OBVIOUS
<1>2. /\ TypeOK /\ RunSound(r, g) /\ r.pc = "report" /\ CheckpointSound(r.mem)
      /\ \A j \in Items : EntrySound(j, r.mem.entries[j]) /\ Backed(j, r.mem.entries[j], g)
      /\ UNCHANGED <<config, results, media, gone, attempts, lost>>
      /\ (f # None => CheckpointSound(f)) /\ file' = f
  BY <1>1, OfProcess DEF Report, RunSound, MemorySound, CheckpointSound
<1>3. Succeeded(status) => \A j \in Items : HasFile(j) => r.mem.entries[j].status = "pass"
  BY <1>1, <1>2 DEF CheckpointSound, EntrySound, StatusSound, HasFile
<1>4. Succeeded(status) => Complete(g)
  BY <1>2, <1>3 DEF Complete, Backed, Evident
<1>5. Succeeded(status) /\ lost = 0 => Complete({})
  BY <1>2, <1>3 DEF Complete, EntrySound, Evident, ArtifactsAvailable
<1>6. CASE /\ report' = (IF kind = "speculative" THEN report ELSE status)
           /\ Exit(p, IF Succeeded(status) THEN "ok" ELSE status) /\ UNCHANGED faults
  <2>1. PICK code : code = (IF Succeeded(status) THEN "ok" ELSE status)
    OBVIOUS
  <2>2. code = "ok" => Succeeded(status)
    BY <1>1, <1>2, <2>1 DEF CheckpointSound, Checkpoints
  <2>3. report' = report \/ (Succeeded(report') /\ lost = 0 => Complete({}))
    BY <1>5, <1>6 DEF Succeeded
  <2>4. faults' \in Nat /\ Exit(p, code)
    BY <1>2, <1>6, <2>1 DEF TypeOK
  <2> QED
    BY <1>1, <1>2, <1>4, <2>2, <2>3, <2>4, ExitStep
<1>7. CASE Fault /\ Exit(p, "error") /\ UNCHANGED report
  <2>1. faults' \in Nat
    BY <1>2, <1>7 DEF Fault, TypeOK
  <2> QED
    BY <1>1, <1>2, <1>7, <2>1, ExitStep
<1> QED
  BY <1>1, <1>6, <1>7 DEF Report

-----------------------------------------------------------------------------
(* The outside.                                                            *)

LEMMA KillStep ==
    ASSUME BenchmarksInv, NEW p \in Processes, Kill(p)
    PROVE  BenchmarksInv'
<1>1. PICK f : f = file /\ (f # None => CheckpointSound(f))
  BY DEF BenchmarksInv
<1>2. faults' \in Nat
  BY DEF Kill, Fault, BenchmarksInv, TypeOK
<1> QED
  BY <1>1, <1>2, ExitStep DEF Kill, evidence


\* The user changes the evidence only by deleting it, which counts against
\* nobody who was at work or had succeeded.
LEMMA OutsideStep ==
    ASSUME BenchmarksInv, UNCHANGED <<config, file, media, report, run, succeeded,
                                      attempts, faults>>,
           results' \in [Items -> Nat], lost' \in Nat, lost' = 0 => lost = 0,
           \A i \in Items : results[i] # 0 => results'[i] = results[i] \/ lost' # 0,
           gone' \in [Processes -> SUBSET Items],
           lost' = 0 => gone' = gone,
           \A q \in Processes :
             /\ gone[q] \subseteq gone'[q]
             /\ run[q].pc # "idle" \/ succeeded[q] =>
                  \A i \in Items : results[i] # 0 =>
                      results'[i] = results[i] \/ i \in gone'[q]
    PROVE  BenchmarksInv'
<1>1. Kept(Items)
  BY DEF Kept, config
<1>2. Items' = Items /\ Runs' = Runs
  BY <1>1 DEF Kept, Items, Runs, Checkpoints
<1>3. TypeOK'
  BY <1>2 DEF BenchmarksInv, TypeOK, config
<1>4. (file # None => CheckpointSound(file))'
  <2>1. PICK f : f = file /\ (f # None => CheckpointSound(f))
    BY DEF BenchmarksInv
  <2>2. f # None => CheckpointSound(f)'
    BY <1>1, <2>1, CheckpointKept
  <2>3. file' = f
    BY <2>1
  <2> QED
    BY <2>2, <2>3 DEF CheckpointSound, EntrySound, StatusSound, ArtifactsAvailable,
                      HasFile, Class
<1>5. (report # None /\ Succeeded(report) /\ lost = 0 => Complete({}))'
  <2>1. ASSUME lost' = 0
        PROVE  Complete({}) => Complete({})'
    <3>1. Kept({})
      BY <1>1, <2>1 DEF Kept
    <3> QED
      BY <3>1, CompleteKept
  <2> QED
    BY <2>1 DEF BenchmarksInv, Succeeded
<1>6. ASSUME NEW q \in Processes
      PROVE  (/\ RunSound(run[q], gone[q])
              /\ run[q].pc = "idle" => run[q] = Idle
              /\ succeeded[q] => Complete(gone[q])
              /\ lost = 0 => gone[q] = {})'
  <2>1. PICK r, g, h : r = run[q] /\ g = gone[q] /\ h = gone'[q] /\ RunSound(r, g)
    BY DEF BenchmarksInv
  <2>2. g \subseteq h
    BY <2>1
  <2>3. r.pc # "idle" \/ succeeded[q] => Kept(h)
    BY <1>1, <2>1 DEF Kept
  <2>4. RunSound(r, h)'
    <3>1. CASE r.pc # "idle"
      BY <2>1, <2>2, <2>3, <3>1, RunKept
    <3>2. CASE r.pc = "idle"
      <4>1. r = Idle
        BY <2>1, <3>2 DEF BenchmarksInv
      <4>2. RunSound(r, h)
        BY <4>1, IdleSound
      <4> QED
        BY <1>2, <3>2, <4>1, <4>2
           DEF RunSound, MemorySound, PlaceSound, AttemptSound, SkippedSound, Working,
               Idle
    <3> QED
      BY <3>1, <3>2
  <2>5. succeeded[q] => Complete(h)'
    <3>1. succeeded[q] => Complete(g)
      BY <2>1 DEF BenchmarksInv
    <3>2. ASSUME succeeded[q]
          PROVE  Complete(h)'
      BY <2>2, <2>3, <3>1, <3>2, CompleteKept
    <3> QED
      BY <3>2
  <2>6. run'[q] = r /\ gone'[q] = h /\ succeeded'[q] = succeeded[q]
    BY <2>1
  <2>7. RunSound(run[q], gone[q])'
    BY <2>4, <2>6
  <2>8. (run[q].pc = "idle" => run[q] = Idle)'
    BY <2>1, <2>6 DEF BenchmarksInv, Idle
  <2>9. (succeeded[q] => Complete(gone[q]))'
    BY <2>5, <2>6
  <2>10. (lost = 0 => gone[q] = {})'
    BY DEF BenchmarksInv
  <2> QED
    BY <2>7, <2>8, <2>9, <2>10
<1> QED
  BY <1>3, <1>4, <1>5, <1>6 DEF BenchmarksInv

LEMMA LoseStep ==
    ASSUME BenchmarksInv, NEW i \in Items, Lose(i)
    PROVE  BenchmarksInv'
<1>1. /\ results \in [Items -> Nat] /\ lost \in Nat
      /\ gone \in [Processes -> SUBSET Items]
  BY DEF BenchmarksInv, TypeOK
<1>2. lost' = lost + 1 /\ results' = [results EXCEPT ![i] = 0]
  BY DEF Lose
<1>3. \A q \in Processes :
        gone'[q] = IF run[q].pc # "idle" \/ succeeded[q] THEN gone[q] \cup {i}
                   ELSE gone[q]
  BY DEF Lose
<1>4. gone' \in [Processes -> SUBSET Items]
  BY <1>1 DEF Lose
<1>5. results' \in [Items -> Nat] /\ lost' \in Nat /\ lost' # 0
  BY <1>1, <1>2
<1>6. \A q \in Processes :
        /\ gone[q] \subseteq gone'[q]
        /\ run[q].pc # "idle" \/ succeeded[q] =>
             \A j \in Items : results[j] # 0 => results'[j] = results[j] \/ j \in gone'[q]
  BY <1>1, <1>2, <1>3
<1> QED
  BY <1>1, <1>4, <1>5, <1>6, OutsideStep DEF Lose

LEMMA QuietOutside ==
    ASSUME BenchmarksInv, UNCHANGED <<config, file, evidence, run, succeeded, gone,
                                      attempts, faults, lost>>
    PROVE  BenchmarksInv'
<1>1. results' \in [Items -> Nat] /\ lost' \in Nat /\ gone' \in [Processes -> SUBSET Items]
  BY DEF BenchmarksInv, TypeOK, evidence
<1> QED
  BY <1>1, OutsideStep DEF evidence

-----------------------------------------------------------------------------
(* The theorems.                                                           *)

LEMMA BenchmarksInvInit ==
    Init => BenchmarksInv
<1> SUFFICES ASSUME Init
             PROVE  BenchmarksInv
  OBVIOUS
<1>1. \A q \in Processes : RunSound(Idle, gone[q])
  BY IdleSound
<1>2. Idle \in Runs
  BY DEF Idle, Runs, Places
<1>3. TypeOK
  BY <1>2 DEF Init, TypeOK
<1> QED
  BY <1>1, <1>3 DEF Init, BenchmarksInv

LEMMA BenchmarksInvStep ==
    BenchmarksInv /\ [Next]_vars => BenchmarksInv'
<1> SUFFICES ASSUME BenchmarksInv, [Next]_vars
             PROVE  BenchmarksInv'
  OBVIOUS
<1>1. ASSUME NEW p \in Processes, Begin(p) \/ Prepare(p) \/ Refuse(p) \/ Create(p) \/ Save(p)
      PROVE  BenchmarksInv'
  BY <1>1, BeginStep, PrepareStep, RefuseStep, CreateStep, SaveStep
<1>2. ASSUME NEW p \in Processes,
             \/ NextItem(p) \/ ScanEnds(p) \/ HostCase(p) \/ WorkFails(p) \/ Serve(p)
             \/ Measured(p) \/ WriteJSON(p) \/ Conclude(p) \/ Record(p) \/ Stop(p)
      PROVE  BenchmarksInv'
  BY <1>2, NextItemStep, ScanEndsStep, HostCaseStep, WorkFailsStep, ServeStep,
     MeasuredStep, WriteJSONStep, ConcludeStep, RecordStep, StopStep
<1>3. ASSUME NEW p \in Processes, Review(p) \/ Finish(p) \/ Report(p) \/ Kill(p)
      PROVE  BenchmarksInv'
  BY <1>3, ReviewStep, FinishStep, ReportStep, KillStep
<1>4. CASE CleanUp
  BY <1>4, QuietOutside DEF CleanUp
<1>5. ASSUME NEW i \in Items, Lose(i)
      PROVE  BenchmarksInv'
  BY <1>5, LoseStep
<1>6. CASE UNCHANGED vars
  BY <1>6, QuietOutside DEF vars
<1> QED
  BY <1>1, <1>2, <1>3, <1>4, <1>5, <1>6 DEF Next, Step

\* The inductive invariant of the suite, the sweep and the acceptance holds, for
\* any plans, any number of processes and any number of faults.
THEOREM BenchmarksInvariant == Spec => []BenchmarksInv
BY BenchmarksInvInit, BenchmarksInvStep, PTL DEF Spec

\* What the checkpoint and the report say of the results is true, whichever
\* processes wrote them (WriteCheckpoint, WriteJSON, WriteSuiteReports).
THEOREM CheckpointsAreTrue == Spec => []CheckpointTruthful
<1>1. BenchmarksInv => CheckpointTruthful
  <2> SUFFICES ASSUME BenchmarksInv
               PROVE  CheckpointTruthful
    OBVIOUS
  <2>1. EntryMatchesEvidence
    BY DEF EntryMatchesEvidence, BenchmarksInv, CheckpointSound, EntrySound, Evident,
           ArtifactsAvailable
  <2>2. StatusTruthful
    BY DEF StatusTruthful, BenchmarksInv, TypeOK, CheckpointSound, Complete
  <2>3. SuccessHasEvidence
    BY DEF SuccessHasEvidence, BenchmarksInv, Complete
  <2> QED
    BY <2>1, <2>2, <2>3 DEF CheckpointTruthful
<1> QED
  BY <1>1, BenchmarksInvariant, PTL

\* A resumed command runs nothing again that its checkpoint had accepted,
\* unless the evidence was deleted since.
THEOREM AcceptedStands == Spec => []AcceptedNotRerun
<1>1. BenchmarksInv => AcceptedNotRerun
  BY DEF AcceptedNotRerun, BenchmarksInv, RunSound, SkippedSound, Working
<1> QED
  BY <1>1, BenchmarksInvariant, PTL

\* Every checkpoint that a suite or an acceptance leaves passes the validation
\* of --resume (validateComfySuiteResume, validateAcceptanceResult).
THEOREM SuitesResume == Spec => []SuiteResumable
<1>1. BenchmarksInv => SuiteResumable
  <2> SUFFICES ASSUME BenchmarksInv, kind # "speculative", file # None, lost = 0
               PROVE  ResumeValid(file)
    BY DEF SuiteResumable
  <2>1. TypeOK /\ CheckpointSound(file)
    BY DEF BenchmarksInv
  <2>2. CASE kind = "suite"
    BY <2>1, <2>2, PlanFacts DEF ResumeValid, ValidateComfySuiteResume, CheckpointSound,
       EntrySound, Evident, ArtifactsAvailable, HasFile
  <2>3. CASE kind = "acceptance"
    BY <2>1, <2>3 DEF ResumeValid, ValidateAcceptanceResult, CheckpointSound,
       EntrySound, Evident
  <2> QED
    BY <2>1, <2>2, <2>3, PlanFacts
<1> QED
  BY <1>1, BenchmarksInvariant, PTL


=============================================================================
