----------------------------- MODULE Benchmarks -----------------------------
(***************************************************************************)
(* Resumable measurements: `benchmark comfyui suite`, `benchmark llama-cpp *)
(* speculative` and `acceptance` (cli/commands_benchmark_comfy.go,         *)
(* commands_benchmark_speculative.go, commands_acceptance.go).  Each works *)
(* through a list of items, writes a checkpoint as it goes, and takes one  *)
(* up again with --resume.  The three loops are one machine here; Kind     *)
(* says where they differ.                                                 *)
(*                                                                         *)
(* Processes may be killed at any step, and two may resume one checkpoint  *)
(* at the same time: nothing locks it.  Writes are those of AtomicFile: a  *)
(* checkpoint is replaced, a result is created once.  Times are reduced to *)
(* whether they are set, and the evidence of an attempt to its number.     *)
(***************************************************************************)
EXTENDS Integers, FiniteSets, FiniteSetsExt, Sequences

CONSTANTS
    Processes,
    Kinds,         \* which of the three commands
    Plans(_),      \* what a command may be asked to run: sequences of classes
    CacheModes(_), \* whether its caches may be isolated
    Stray,         \* owner of a server whose process was killed
    None,
    MaxAttempts,   \* workloads started
    MaxFaults,     \* kills, failed writes, failed removals and failed prompts
    MaxLost        \* pieces of evidence the user deletes

\* What the items of each command are.
Classes == [suite |-> {"bundle"}, speculative |-> {"trial"},
            acceptance |-> {"host", "visual", "text"}]

ASSUME PlanAssumption ==
    /\ Kinds \subseteq DOMAIN Classes
    /\ \A k \in Kinds : Plans(k) \subseteq Seq(Classes[k]) /\ CacheModes(k) \subseteq BOOLEAN

VARIABLES
    kind, plan, isolated,   \* the command, its items and its --cache-mode
    file,               \* the checkpoint on disk, or None
    results,            \* per item, the attempt whose result file exists, or 0
    media,              \* per item, the attempts that left generated media
    caches,             \* items whose isolated cache directory exists
    report,             \* the status in the derived report, or None
    server,             \* whose container has each of the benchmarks' names
    run,                \* what each process is doing: a record, see Idle
    succeeded,          \* whether it last ended with success
    gone,               \* items whose evidence was deleted since it began
    attempts, faults, lost

config == <<kind, plan, isolated>>
evidence == <<results, media, report>>
vars == <<config, file, evidence, caches, server, run, succeeded, gone, attempts, faults, lost>>

Items == DOMAIN plan

Class(i) == plan[i]

Name(i) == IF Class(i) = "text" THEN "llama-bench" ELSE "benchmark"

HasFile(i) == Class(i) \in {"bundle", "visual", "text"}

Pending == [status |-> "pending", finished |-> FALSE, by |-> 0]

\* mem is the checkpoint in memory, at the current item, keep --keep-going, err
\* whether the current item has failed, failed whether any has, mine the number
\* of the current attempt, and skipped what was accepted on resuming.
Idle ==
    [pc |-> "idle", mem |-> None, at |-> 0, keep |-> FALSE, err |-> FALSE,
     failed |-> FALSE, mine |-> 0, skipped |-> {}]

Init ==
    /\ kind \in Kinds
    /\ plan \in Plans(kind)
    /\ isolated \in CacheModes(kind)
    /\ file = None /\ report = None
    /\ results = [i \in Items |-> 0]
    /\ media = [i \in Items |-> {}]
    /\ caches = {}
    /\ server = [n \in {"llama-bench", "benchmark"} |-> None]
    /\ run = [p \in Processes |-> Idle]
    /\ succeeded = [p \in Processes |-> FALSE]
    /\ gone = [p \in Processes |-> {}]
    /\ attempts = 0 /\ faults = 0 /\ lost = 0

-----------------------------------------------------------------------------
(* Evidence and its validation.                                            *)

ArtifactsAvailable(i, entry) ==
    /\ results[i] # 0 /\ results[i] = entry.by
    /\ Class(i) = "visual" => entry.by \in media[i]

\* The result of every completed entry exists and is compatible.
ValidateComfySuiteResume(c) ==
    /\ c.status \in {"running", "failed", "complete", "completed-with-failures"}
    /\ \A i \in Items : c.entries[i].status = "pass" => results[i] # 0

\* Completion times are set exactly where they should be.
ValidateSpeculativeEnvelope(c) ==
    /\ c.status \in {"complete", "failed"} => c.finished
    /\ \A i \in Items :
        c.entries[i].finished <=> c.entries[i].status \in {"complete", "failed"}

ValidateAcceptanceResult(c) ==
    \A i \in Items :
        HasFile(i) /\ c.entries[i].status \in {"pass", "review", "blocked"} =>
            ArtifactsAvailable(i, c.entries[i])

ResumeValid(c) ==
    CASE kind = "suite" -> ValidateComfySuiteResume(c)
      [] kind = "speculative" -> ValidateSpeculativeEnvelope(c)
      [] kind = "acceptance" -> ValidateAcceptanceResult(c)

\* Mutant: a resumed acceptance runs the reviewed cases again.
Accepted_PassOnly(i, entry) == entry.status \in {"pass", "complete"}

\* Items that the loop skips.
Accepted(i, entry) ==
    \/ entry.status \in {"pass", "complete", "review"}
    \/ entry.status = "blocked" /\ ArtifactsAvailable(i, entry)

-----------------------------------------------------------------------------
\* Process p goes on with the record r, or ends.
Continue(p, r) == run' = [run EXCEPT ![p] = r] /\ UNCHANGED succeeded

Exit(p, status) ==
    /\ run' = [run EXCEPT ![p] = Idle]
    /\ succeeded' = [succeeded EXCEPT ![p] = status = "ok"]

Fault == faults < MaxFaults /\ faults' = faults + 1

\* WriteCheckpoint: memory and disk agree, or the command ends with the error.
Checkpoint(p, r, value) ==
    \/ /\ file' = value
       /\ Continue(p, [r EXCEPT !.mem = value]) /\ UNCHANGED faults
    \/ /\ Fault /\ Exit(p, "error")
       /\ UNCHANGED file

\* checkpointThenReturn
CheckpointThenReturn(p, value) ==
    /\ Exit(p, "error")
    /\ \/ file' = value /\ UNCHANGED faults
       \/ Fault /\ UNCHANGED file

Fresh ==
    [status |-> IF kind = "speculative" THEN "preparing" ELSE "running",
     finished |-> FALSE, entries |-> [i \in Items |-> Pending]]

Running(c) ==
    CASE kind = "suite" -> [c EXCEPT !.status = "running", !.finished = FALSE]
      [] kind = "speculative" -> [c EXCEPT !.status = "running"]
      [] OTHER -> c

\* The command line.  With --resume the checkpoint is read first.
Begin(p) ==
    /\ run[p].pc = "idle"
    /\ \E keep \in IF kind = "acceptance" THEN {TRUE} ELSE BOOLEAN :
        run' = [run EXCEPT ![p] =
                    [Idle EXCEPT !.pc = "prepare", !.keep = keep, !.mem = file]]
    /\ succeeded' = [succeeded EXCEPT ![p] = FALSE]
    /\ gone' = [gone EXCEPT ![p] = {}]
    /\ UNCHANGED <<config, file, evidence, caches, server, attempts, faults, lost>>

\* Images, content and devices are in place and identified, and the checkpoint
\* that was read is accepted; the suite reads it only now.
Prepare(p) ==
    LET c == IF kind = "suite" /\ run[p].mem # None THEN file ELSE run[p].mem IN
    /\ run[p].pc = "prepare"
    /\ IF c = None
       THEN Continue(p, [run[p] EXCEPT !.mem = Fresh, !.pc = "create", !.at = 1])
       ELSE /\ ResumeValid(c)
            /\ Continue(p, [run[p] EXCEPT
                    !.mem = Running(c), !.at = 1,
                    !.pc = IF kind = "acceptance" THEN "scan" ELSE "save",
                    !.skipped = {i \in Items : c.entries[i].status \in
                                    {"pass", "complete", "review", "blocked"}}])
    /\ UNCHANGED <<config, file, evidence, caches, server, gone, attempts, faults, lost>>

\* Something is missing, or the checkpoint is not accepted.
Refuse(p) ==
    /\ run[p].pc = "prepare"
    /\ Exit(p, "error")
    /\ UNCHANGED <<config, file, evidence, caches, server, gone, attempts, faults, lost>>

\* WriteNewCheckpoint, for which another process may have been first.
Create(p) ==
    /\ run[p].pc = "create"
    /\ IF file = None
       THEN Checkpoint(p, [run[p] EXCEPT !.pc =
                            IF kind = "speculative" THEN "save" ELSE "scan"], run[p].mem)
       ELSE Exit(p, "error") /\ UNCHANGED <<file, faults>>
    /\ UNCHANGED <<config, evidence, caches, server, gone, attempts, lost>>

Save(p) ==
    /\ run[p].pc = "save"
    /\ Checkpoint(p, [run[p] EXCEPT !.pc = "scan"], Running(run[p].mem))
    /\ UNCHANGED <<config, evidence, caches, server, gone, attempts, lost>>

-----------------------------------------------------------------------------
(* The loop.                                                               *)

Todo(p) ==
    {i \in Items : i >= run[p].at /\ ~Accepted(i, run[p].mem.entries[i])}

\* Blocked cases that are skipped are open for review again.
Reopened(p) ==
    [i \in Items |->
        LET entry == run[p].mem.entries[i] IN
        IF i < run[p].at \/ (\E t \in Todo(p) : t <= i) \/ entry.status # "blocked"
        THEN entry
        ELSE [entry EXCEPT !.status = "review"]]

\* The next item to run; all but the suite write down that it is running.
NextItem(p) ==
    /\ run[p].pc = "scan" /\ Todo(p) # {}
    /\ LET i == Min(Todo(p))
           r == [run[p] EXCEPT !.pc = "work", !.at = i]
       IN  IF kind = "suite"
           THEN Continue(p, r) /\ UNCHANGED <<file, faults>>
           ELSE Checkpoint(p, r, [r.mem EXCEPT !.entries =
                                    [Reopened(p) EXCEPT ![i].status = "running"]])
    /\ UNCHANGED <<config, evidence, caches, server, gone, attempts, lost>>

ScanEnds(p) ==
    /\ run[p].pc = "scan" /\ Todo(p) = {}
    /\ Continue(p, [run[p] EXCEPT
            !.mem.entries = Reopened(p),
            !.pc = IF kind = "acceptance" THEN "review" ELSE "finish"])
    /\ UNCHANGED <<config, file, evidence, caches, server, gone, attempts, faults, lost>>

\* The host case only records the probes made before the loop.
HostCase(p) ==
    /\ run[p].pc = "work" /\ Class(run[p].at) = "host"
    /\ Continue(p, [run[p] EXCEPT !.pc = "outcome", !.err = FALSE])
    /\ UNCHANGED <<config, file, evidence, caches, server, gone, attempts, faults, lost>>

\* A workload that did not get as far as a server, or failed on it.
WorkFails(p) ==
    /\ run[p].pc \in {"work", "measure"} /\ Class(run[p].at) # "host"
    /\ Continue(p, [run[p] EXCEPT
            !.err = TRUE, !.pc = IF @ = "work" THEN "outcome" ELSE "conclude"])
    /\ UNCHANGED <<config, file, evidence, caches, server, gone, attempts, faults, lost>>

\* The isolated cache directory is made and the benchmark's server started.
\* `podman run` fails when the name is taken.
Serve(p) ==
    LET i == run[p].at  name == Name(i)  free == server[name] = None IN
    /\ run[p].pc = "work" /\ Class(i) # "host" /\ attempts < MaxAttempts
    /\ ~(isolated /\ i \in caches)
    /\ attempts' = attempts + 1
    /\ caches' = IF isolated THEN caches \cup {i} ELSE caches
    /\ server' = IF free THEN [server EXCEPT ![name] = p] ELSE server
    /\ Continue(p, [run[p] EXCEPT !.mine = attempts + 1, !.err = ~free,
                                  !.pc = IF free THEN "measure" ELSE "conclude"])
    /\ UNCHANGED <<config, file, evidence, gone, faults, lost>>

\* The server has answered everything, media included.
Measured(p) ==
    LET i == run[p].at IN
    /\ run[p].pc = "measure" /\ server[Name(i)] = p
    /\ media' = IF Class(i) = "visual" THEN [media EXCEPT ![i] = @ \cup {run[p].mine}]
                                       ELSE media
    /\ Continue(p, [run[p] EXCEPT !.pc = IF HasFile(i) THEN "publish" ELSE "conclude"])
    /\ UNCHANGED <<config, file, results, report, caches, server, gone, attempts, faults,
                   lost>>

\* Mutant: a result that is there already is taken for this one.
WriteJSON_Keeps(p) ==
    /\ run[p].pc = "publish"
    /\ results' = [results EXCEPT ![run[p].at] = IF @ = 0 THEN run[p].mine ELSE @]
    /\ Continue(p, [run[p] EXCEPT !.pc = "conclude"])
    /\ UNCHANGED <<config, file, media, report, caches, server, gone, attempts, faults,
                   lost>>

\* WriteJSON "never replaces an existing result".
WriteJSON(p) ==
    /\ run[p].pc = "publish"
    /\ \/ /\ results[run[p].at] = 0
          /\ results' = [results EXCEPT ![run[p].at] = run[p].mine]
          /\ Continue(p, [run[p] EXCEPT !.pc = "conclude"]) /\ UNCHANGED faults
       \/ /\ IF results[run[p].at] = 0 THEN Fault ELSE UNCHANGED faults
          /\ Continue(p, [run[p] EXCEPT !.pc = "conclude", !.err = TRUE])
          /\ UNCHANGED results
    /\ UNCHANGED <<config, file, media, report, caches, server, gone, attempts, lost>>

\* The container of that name, whoever's it is, and the cache are removed; a
\* removal that fails fails the item.  The native benchmark's container goes
\* by itself.  Then the media of a visual case are counted.
Conclude(p) ==
    LET i == run[p].at  name == Name(i) IN
    /\ run[p].pc = "conclude"
    /\ \/ /\ server' = [server EXCEPT ![name] =
                            IF name = "llama-bench" /\ @ # p THEN @ ELSE None]
          /\ caches' = caches \ {i}
          /\ Continue(p, [run[p] EXCEPT !.pc = "outcome", !.err =
                            @ \/ (Class(i) = "visual" /\ Cardinality(media[i]) # 1)])
          /\ UNCHANGED faults
       \/ /\ name # "llama-bench" /\ Fault
          /\ server' = [server EXCEPT ![name] = IF @ = p THEN Stray ELSE @]
          /\ caches' \in {caches, caches \ {i}}
          /\ Continue(p, [run[p] EXCEPT !.pc = "outcome", !.err = TRUE])
    /\ UNCHANGED <<config, file, evidence, gone, attempts, lost>>

\* captureAcceptanceArtifacts: the evidence is read back.
Failed(p) ==
    \/ run[p].err
    \/ kind = "acceptance" /\ HasFile(run[p].at) /\ results[run[p].at] # run[p].mine

\* Mutant: the suite forgets to mark the entry as failed.
Outcome_Pass(p) ==
    CASE kind = "speculative" -> IF Failed(p) THEN "failed" ELSE "complete"
      [] kind = "acceptance" -> IF Failed(p) THEN "fail" ELSE "pass"
      [] OTHER -> "pass"

Outcome(p) ==
    CASE Failed(p) -> IF kind = "speculative" THEN "failed" ELSE "fail"
      [] ~Failed(p) /\ kind = "speculative" -> "complete"
      [] ~Failed(p) /\ Class(run[p].at) = "visual" -> "review"
      [] OTHER -> "pass"

\* The entry is replaced or added, and written down.
Record(p) ==
    LET i == run[p].at
        entry == [status |-> Outcome(p), finished |-> kind = "speculative",
                  by |-> IF Failed(p) \/ ~HasFile(i) THEN 0 ELSE run[p].mine]
    IN  /\ run[p].pc = "outcome"
        /\ Checkpoint(p, [run[p] EXCEPT
                            !.pc = IF Failed(p) /\ ~run[p].keep THEN "stop" ELSE "scan",
                            !.at = @ + 1, !.failed = @ \/ Failed(p),
                            !.err = FALSE, !.mine = 0],
                      [run[p].mem EXCEPT !.entries[i] = entry])
        /\ UNCHANGED <<config, evidence, caches, server, gone, attempts, lost>>

\* Without --keep-going the first failure ends the command.
Stop(p) ==
    /\ run[p].pc = "stop"
    /\ CheckpointThenReturn(p, [run[p].mem EXCEPT !.status = "failed"])
    /\ UNCHANGED <<config, evidence, caches, server, gone, attempts, lost>>

\* The user looks at one case, or --non-interactive blocks it, or the prompt
\* fails and the command ends.
Review(p) ==
    LET open == {i \in Items : run[p].mem.entries[i].status = "review"} IN
    /\ run[p].pc = "review"
    /\ IF open = {}
       THEN Continue(p, [run[p] EXCEPT !.pc = "finish"]) /\ UNCHANGED <<file, faults>>
       ELSE \/ \E status \in {"pass", "blocked"} :
                Checkpoint(p, run[p], [run[p].mem EXCEPT !.entries[Min(open)].status = status])
            \/ CheckpointThenReturn(p, run[p].mem)
    /\ UNCHANGED <<config, evidence, caches, server, gone, attempts, lost>>

Has(p, status) == \E i \in Items : run[p].mem.entries[i].status = status

FinalStatus(p) ==
    CASE kind = "suite" -> IF run[p].failed THEN "completed-with-failures" ELSE "complete"
      [] kind = "speculative" -> IF run[p].failed THEN "failed" ELSE "complete"
      [] kind = "acceptance" /\ Has(p, "fail") -> "fail"
      [] kind = "acceptance" /\ ~Has(p, "fail") /\ Has(p, "blocked") -> "blocked"
      [] OTHER -> "pass"

Finish(p) ==
    /\ run[p].pc = "finish"
    /\ Checkpoint(p, [run[p] EXCEPT !.pc = "report"],
                  [run[p].mem EXCEPT !.status = FinalStatus(p), !.finished = TRUE])
    /\ UNCHANGED <<config, evidence, caches, server, gone, attempts, lost>>

Succeeded(status) == status \in {"complete", "pass"}

\* The report is derived from the finished checkpoint; then the command ends.
Report(p) ==
    LET status == run[p].mem.status IN
    /\ run[p].pc = "report"
    /\ \/ /\ report' = (IF kind = "speculative" THEN report ELSE status)
          /\ Exit(p, IF Succeeded(status) THEN "ok" ELSE status) /\ UNCHANGED faults
       \/ /\ kind # "speculative" /\ Fault
          /\ Exit(p, "error") /\ UNCHANGED report
    /\ UNCHANGED <<config, file, results, media, caches, server, gone, attempts, lost>>

-----------------------------------------------------------------------------
(* The outside.                                                            *)

Kill(p) ==
    /\ run[p].pc # "idle" /\ Fault
    /\ Exit(p, "killed")
    /\ server' = [n \in DOMAIN server |-> IF server[n] = p THEN Stray ELSE server[n]]
    /\ UNCHANGED <<config, file, evidence, caches, gone, attempts, lost>>

\* The user cleans up what was left: containers and caches.
CleanUp ==
    /\ \A p \in Processes : run[p].pc = "idle"
    /\ server' = [n \in DOMAIN server |-> None]
    /\ caches' = {}
    /\ UNCHANGED <<config, file, evidence, run, succeeded, gone, attempts, faults, lost>>

\* The user deletes a result.
Lose(i) ==
    /\ lost < MaxLost /\ results[i] # 0
    /\ lost' = lost + 1
    /\ results' = [results EXCEPT ![i] = 0]
    /\ gone' = [p \in Processes |->
                IF run[p].pc # "idle" \/ succeeded[p] THEN gone[p] \cup {i} ELSE gone[p]]
    /\ UNCHANGED <<config, file, media, report, caches, server, run, succeeded,
                   attempts, faults>>

Step(p) ==
    \/ Begin(p) \/ Prepare(p) \/ Refuse(p) \/ Create(p) \/ Save(p) \/ NextItem(p)
    \/ ScanEnds(p) \/ HostCase(p) \/ WorkFails(p) \/ Serve(p) \/ Measured(p) \/ WriteJSON(p)
    \/ Conclude(p) \/ Record(p) \/ Stop(p) \/ Review(p) \/ Finish(p) \/ Report(p)
    \/ Kill(p)

Next ==
    \/ \E p \in Processes : Step(p)
    \/ CleanUp
    \/ \E i \in Items : Lose(i)

Spec == Init /\ [][Next]_vars

-----------------------------------------------------------------------------
(* Properties.                                                             *)

\* A checkpoint or a report says "complete" or "pass" only when every item of
\* the plan has passed, in whichever of several runs, with or without
\* --keep-going: a failure of one is never hidden by the others.
StatusTruthful ==
    /\ file # None /\ Succeeded(file.status) =>
        \A i \in Items : file.entries[i].status \in {"pass", "complete"}
    /\ report # None /\ Succeeded(report) =>
        \A i \in Items : HasFile(i) => results[i] # 0 \/ lost > 0

\* The figures of an entry and the result file it points to come from the same
\* attempt, also when an earlier attempt was killed after it had published a
\* result, or two processes resume one checkpoint.
EntryMatchesEvidence ==
    file # None => \A i \in Items :
        /\ HasFile(i) /\ file.entries[i].status \in {"pass", "review", "blocked"}
        /\ lost = 0
        => results[i] = file.entries[i].by

\* What was accepted when a process resumed is not measured again, unless its
\* evidence has disappeared since.
AcceptedNotRerun ==
    \A p \in Processes :
        /\ run[p].pc \in {"work", "measure", "publish", "conclude", "outcome"}
        /\ run[p].at \in run[p].skipped
        => run[p].at \in gone[p]

\* A command that ends with success has a result for every item, those that
\* it skipped included, except what was deleted while it ran
\* (docs/architecture.md: "an entry is skipped only while its referenced
\* completed result still exists").
SuccessHasEvidence ==
    \A p \in Processes : succeeded[p] =>
        \A i \in Items : HasFile(i) => results[i] # 0 \/ i \in gone[p]

\* A checkpoint can be believed: its entries are those of the results they point
\* to, its success is that of every item, and success leaves its evidence.
CheckpointTruthful == /\ EntryMatchesEvidence /\ StatusTruthful
                      /\ SuccessHasEvidence

\* However a suite or an acceptance ended, its checkpoint can be resumed.
SuiteResumable ==
    kind # "speculative" /\ file # None /\ lost = 0 => ResumeValid(file)

\* The same of a speculative sweep: `--resume` is there to "resume a compatible
\* Go checkpoint" (commands_benchmark_speculative.go:142), and the checkpoints
\* the command writes itself are compatible.
SweepResumable ==
    kind = "speculative" /\ file # None => ResumeValid(file)

-----------------------------------------------------------------------------
(* The inductive invariant behind CheckpointTruthful, AcceptedNotRerun and *)
(* SuiteResumable (see BenchmarksProofs).                                  *)

Places == {"idle", "prepare", "create", "save", "scan", "work", "measure", "publish",
           "conclude", "outcome", "stop", "review", "finish", "report"}
Working == {"work", "measure", "publish", "conclude", "outcome"}

Checkpoints ==
    [status: {"preparing", "running", "failed", "complete", "completed-with-failures",
              "fail", "blocked", "pass"},
     finished: BOOLEAN,
     entries: [Items -> [status: {"pending", "running", "pass", "fail", "review",
                                  "blocked", "complete", "failed"},
                         finished: BOOLEAN, by: Nat]]]

Runs ==
    [pc: Places, mem: Checkpoints \cup {None}, at: Nat, keep: BOOLEAN, err: BOOLEAN,
     failed: BOOLEAN, mine: Nat, skipped: SUBSET Items]

TypeOK ==
    /\ kind \in Kinds /\ plan \in Plans(kind)
    /\ results \in [Items -> Nat]
    /\ media \in [Items -> SUBSET Nat]
    /\ run \in [Processes -> Runs]
    /\ succeeded \in [Processes -> BOOLEAN]
    /\ gone \in [Processes -> SUBSET Items]
    /\ attempts \in Nat /\ faults \in Nat /\ lost \in Nat

\* What an item of each class may be said to be.
StatusSound(i, status) ==
    /\ Class(i) = "bundle" => status \in {"pending", "pass", "fail"}
    /\ Class(i) = "trial" => status \in {"pending", "running", "complete", "failed"}
    /\ Class(i) \in {"host", "text"} => status \in {"pending", "running", "pass", "fail"}
    /\ Class(i) = "visual" =>
         status \in {"pending", "running", "pass", "fail", "review", "blocked"}

Evident == {"pass", "review", "blocked"}

\* The result that an entry points to is the one there is.
EntrySound(i, entry) ==
    /\ StatusSound(i, entry.status)
    /\ HasFile(i) /\ entry.status \in Evident /\ lost = 0 =>
         ArtifactsAvailable(i, entry)

CheckpointSound(c) ==
    /\ c \in Checkpoints
    /\ kind = "suite" =>
         c.status \in {"running", "failed", "complete", "completed-with-failures"}
    /\ Succeeded(c.status) =>
         \A i \in Items : c.entries[i].status \in {"pass", "complete"}
    /\ \A i \in Items : EntrySound(i, c.entries[i])

\* What a process has accepted of item i is there, unless i is in g: the items
\* whose evidence was deleted since it began.
Backed(i, entry, g) ==
    HasFile(i) /\ entry.status \in Evident =>
        \/ i \in g
        \/ results[i] # 0 /\ (kind = "acceptance" => ArtifactsAvailable(i, entry))

Skippable == {"pass", "complete", "review", "blocked"}

\* An item has been dealt with: it is accepted, or its failure is remembered.
Settled(r, i) ==
    \/ r.mem.entries[i].status \in Skippable
    \/ r.failed /\ r.mem.entries[i].status \in {"fail", "failed"}

\* The checkpoint in the memory of a process r.
MemorySound(r, g) ==
    /\ r.mem # None => CheckpointSound(r.mem)
    /\ r.pc \notin {"idle", "prepare"} =>
         CheckpointSound(r.mem) /\ \A i \in Items : Backed(i, r.mem.entries[i], g)
    /\ r.pc \in Working => ~Succeeded(r.mem.status)

\* Where it is in the plan.
PlaceSound(r) ==
    /\ r.pc \in {"create", "save"} => r.at = 1
    /\ r.pc \in Working => r.at \in Items
    /\ r.pc \in {"scan"} \cup Working => \A i \in Items : i < r.at => Settled(r, i)
    /\ r.pc \in {"review", "finish"} => \A i \in Items : Settled(r, i)
    /\ r.pc = "finish" => \A i \in Items : r.mem.entries[i].status # "review"

\* What the current attempt has produced.
Produced(r) == r.mine # 0 /\ (Class(r.at) = "visual" => r.mine \in media[r.at])

AttemptSound(r, g) ==
    /\ r.pc = "measure" => r.mine # 0
    /\ r.pc = "publish" => Produced(r)
    /\ r.pc \in {"conclude", "outcome"} /\ ~r.err /\ HasFile(r.at) =>
         Produced(r) /\ (r.at \in g \/ results[r.at] = r.mine)

\* What was accepted on resuming is accepted as long as it lies ahead.
SkippedSound(r, g) ==
    /\ r.pc \in {"prepare", "create"} => r.skipped = {}
    /\ r.pc \in {"save", "scan"} => \A i \in r.skipped :
         i >= r.at => r.mem.entries[i].status \in Skippable
    /\ r.pc \in Working => \A i \in r.skipped :
         /\ i > r.at => r.mem.entries[i].status \in Skippable
         /\ i = r.at => i \in g

RunSound(r, g) ==
    /\ r \in Runs
    /\ MemorySound(r, g) /\ PlaceSound(r) /\ AttemptSound(r, g) /\ SkippedSound(r, g)

\* Every result is there, but for those in g.
Complete(g) == \A i \in Items : HasFile(i) => results[i] # 0 \/ i \in g

BenchmarksInv ==
    /\ TypeOK
    /\ file # None => CheckpointSound(file)
    /\ report # None /\ Succeeded(report) /\ lost = 0 => Complete({})
    /\ \A p \in Processes :
         /\ RunSound(run[p], gone[p])
         /\ run[p].pc = "idle" => run[p] = Idle
         /\ succeeded[p] => Complete(gone[p])
         /\ lost = 0 => gone[p] = {}

=============================================================================
