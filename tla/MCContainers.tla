---------------------------- MODULE MCContainers ----------------------------
(* Instances of Containers and of Images for TLC: what is kept in Podman.  *)
(* The commands on images and those on containers share no variable, so    *)
(* one run explores either the one or the other.                           *)
EXTENDS Containers, Images, TLC

NoJob == started = 0 /\ edits = 0 /\ \A u \in UnitSet : tag[u] = 0
NoCommand == ctr = [n \in Names |-> None] /\ \A p \in Processes : pc[p] = "idle"

MCInit == Init /\ ImagesInit
MCNext == \/ NoJob /\ Next /\ UNCHANGED imageVars
          \/ NoCommand /\ strangers = 0 /\ ImagesNext /\ UNCHANGED vars
MCSpec == MCInit /\ [][MCNext]_<<vars, imageVars>>

Cmd(op, app, detach) == [op |-> op, app |-> app, detach |-> detach]

AllCommands ==
    {Cmd("run", "llama-cpp", FALSE), Cmd("run", "comfyui", TRUE),
     Cmd("shell", "llama-cpp", FALSE), Cmd("gateway", "llama-cpp", FALSE),
     Cmd("llama-bench", "llama-cpp", FALSE), Cmd("spec-bench", "llama-cpp", FALSE),
     Cmd("comfy-bench", "comfyui", FALSE),
     Cmd("stop", "all", FALSE), Cmd("cleanup", "all", FALSE)}

\* For a second gateway beside the one that serves.
GatewayCommands == {Cmd("gateway", "llama-cpp", FALSE)}

\* An application, and the runtime it is built on.
MCUnits == <<"runtime", "llama-cpp">>
MCPrerequisites == "runtime" :> {} @@ "llama-cpp" :> {"runtime"}
MCCleanupRank == "llama-cpp" :> 1 @@ "runtime" :> 2
MCBefore == <<[unit |-> "runtime", basis |-> Nothing],
              [unit |-> "llama-cpp", basis |-> "runtime" :> 1]>>
MCJobs == {[op |-> op, target |-> "all"] : op \in {"build", "export", "import"}}
            \cup {[op |-> "cleanup", target |-> t] : t \in {"all", "runtime"}}

MCSymmetry == Permutations(Processes)

=============================================================================
