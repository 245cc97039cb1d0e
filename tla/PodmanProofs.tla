----------------------------- MODULE PodmanProofs -----------------------------
(***************************************************************************)
(* Proofs about the two components that drive Podman: Containers, for any  *)
(* number of processes, commands and containers, and Images, for any       *)
(* number of processes and of commands and for every tree of               *)
(* prerequisites.  Each has its inductive invariant and the safety         *)
(* properties that follow from it; neither section uses the other.         *)
(*                                                                         *)
(* In both a step of a process disturbs the others only through Podman: it *)
(* removes containers, whoever's they are, or adds a new one of its own    *)
(* (Proceeds, and the lemma Elsewhere), or it moves a tag (the lemma       *)
(* OtherTags).  What is left for each action is the process that takes it. *)
(***************************************************************************)
EXTENDS Containers, Images, WellFoundedInduction, TLAPS

-----------------------------------------------------------------------------
(* Containers: places and commands.                                        *)

\* What the place of a process says of its command.
LEMMA CommandAt ==
    ASSUME NEW p \in Processes, ControlSound(p), pc[p] # "idle"
    PROVE  /\ cmd[p] \in Commands /\ CommandOK(cmd[p])
           /\ pc[p] \in {"managed"} => cmd[p].op = "run"
           /\ pc[p] \in {"lookup"} => cmd[p].op \in {"run", "stop"} \cup Transient
           /\ pc[p] \in {"create"} =>
                 cmd[p].op \in {"run", "shell", "gateway"} \cup Transient
           /\ pc[p] \in {"attached"} => cmd[p].op \in {"run", "shell"} \cup Transient
           /\ pc[p] \in {"working"} => cmd[p].op \in {"gateway"} \cup Transient
           /\ pc[p] \in {"remove", "unremoved"} =>
                 cmd[p].op \in {"run"} \cup Transient
           /\ pc[p] \in {"stop"} => cmd[p].op = "stop"
           /\ pc[p] \in {"plan", "cleanup"} => cmd[p].op = "cleanup"
           /\ pc[p] \in {"list", "exists", "labels", "reclaim", "lock", "served",
                         "owned", "ownedLabels", "ownedRemove"} =>
                 cmd[p].op = "gateway"
<1>1. cmd[p] \in Commands /\ pc[p] \in Places(cmd[p]) /\ CommandOK(cmd[p])
  BY CommandsAssumption DEF ControlSound
<1> DEFINE op == cmd[p].op
<1>2. op \in {"run", "shell", "stop", "cleanup", "gateway", "comfy-bench",
              "llama-bench", "spec-bench"}
  BY <1>1 DEF CommandOK, Transient
<1>3. CASE op = "run"
  BY <1>1, <1>3 DEF Places, Transient
<1>4. CASE op = "shell"
  BY <1>1, <1>4 DEF Places, Transient
<1>5. CASE op = "stop"
  BY <1>1, <1>5 DEF Places, Transient
<1>6. CASE op = "cleanup"
  BY <1>1, <1>6 DEF Places, Transient
<1>7. CASE op = "gateway"
  BY <1>1, <1>7 DEF Places, Transient
<1>8. CASE op \in Transient
  BY <1>1, <1>8 DEF Places, Transient
<1> QED
  BY <1>2, <1>3, <1>4, <1>5, <1>6, <1>7, <1>8 DEF Transient

\* The places a command can get to.
LEMMA PlaceOf ==
    ASSUME NEW c \in Commands
    PROVE  /\ "done" \in Places(c) /\ "killed" \in Places(c)
           /\ c.op = "run" => "managed" \in Places(c)
           /\ c.op \in {"run", "stop"} \cup Transient => "lookup" \in Places(c)
           /\ c.op \in {"run", "shell", "gateway"} \cup Transient =>
                 "create" \in Places(c)
           /\ c.op \in {"run", "shell"} \cup Transient => "attached" \in Places(c)
           /\ c.op \in {"gateway"} \cup Transient => "working" \in Places(c)
           /\ c.op \in {"run"} \cup Transient =>
                 "remove" \in Places(c) /\ "unremoved" \in Places(c)
           /\ c.op = "stop" => "stop" \in Places(c)
           /\ c.op = "cleanup" => "plan" \in Places(c) /\ "cleanup" \in Places(c)
           /\ c.op = "gateway" =>
                 {"list", "exists", "labels", "reclaim", "lock", "served", "owned",
                  "ownedLabels", "ownedRemove"} \subseteq Places(c)
<1>1. CASE c.op = "run"
  BY <1>1 DEF Places, Transient
<1>2. CASE c.op = "shell"
  BY <1>2 DEF Places, Transient
<1>3. CASE c.op = "stop"
  BY <1>3 DEF Places, Transient
<1>4. CASE c.op = "cleanup"
  BY <1>4 DEF Places, Transient
<1>5. CASE c.op = "gateway"
  BY <1>5 DEF Places, Transient
<1>6. CASE c.op \in Transient
  BY <1>6 DEF Places, Transient
<1>7. CommandOK(c)
  BY CommandsAssumption
<1> QED
  BY <1>1, <1>2, <1>3, <1>4, <1>5, <1>6, <1>7 DEF CommandOK, Transient

\* The container of a command has one name.
LEMMA NameOfIn ==
    ASSUME NEW p \in Processes, cmd[p] \in Commands,
           cmd[p].op \in {"run", "shell", "gateway"} \cup Transient
    PROVE  /\ NameOf(p) \in Names
           /\ cmd[p].op = "gateway" => NameOf(p) = "gateway"
BY CommandsAssumption DEF CommandOK, NameOf, Names, Transient

-----------------------------------------------------------------------------
(* What a step of one process means for the others.                        *)

\* The containers before and after a step of p: each stays, goes, or is a new
\* one of p.
Podman(p) ==
    \A n \in Names :
        \/ ctr'[n] \in {ctr[n], None}
        \/ ctr'[n].by = p /\ ctr'[n].id = made[p] /\ made'[p] > made[p]

\* Of the processes only p moves, and what it lists is there.
Proceeds(p) ==
    /\ Podman(p)
    /\ strangers' = strangers
    /\ made'[p] >= made[p]
    /\ \A l \in listed'[p] : l \in listed[p] \/ \E n \in Names : l = <<n, ctr[n]>>
    /\ \A q \in Processes \ {p} :
          /\ cmd'[q] = cmd[q] /\ pc'[q] = pc[q] /\ failed'[q] = failed[q]
          /\ made'[q] = made[q] /\ result'[q] = result[q]
          /\ believes'[q] = believes[q]
          /\ listed'[q] = listed[q] /\ plan'[q] = plan[q]

\* A process that takes no step stays sound.
LEMMA Elsewhere ==
    ASSUME TypeOK, TypeOK', DatesSound, NEW q \in Processes, ProcessSound(q),
           \A n \in Names : \/ ctr'[n] \in {ctr[n], None}
                            \/ ctr'[n].by # q /\ ~Dated(ctr'[n]),
           cmd'[q] = cmd[q], pc'[q] = pc[q], failed'[q] = failed[q],
           result'[q] = result[q], believes'[q] = believes[q],
           listed'[q] = listed[q], plan'[q] = plan[q]
    PROVE  ProcessSound(q)'
<1>1. ControlSound(q)'
  BY DEF ProcessSound, ControlSound
<1>2. NameOf(q)' = NameOf(q)
  BY DEF NameOf
<1>3. NameSound(q)'
  BY <1>2 DEF ProcessSound, NameSound, Exists
<1>4. Clean(q) => Clean(q)'
  BY DEF Clean, Exists
<1>5. LeftoverSound(q)'
  BY <1>4 DEF ProcessSound, LeftoverSound
<1>6. GatewaySound(q)'
  BY <1>4 DEF ProcessSound, GatewaySound
<1>7. ASSUME NEW l \in listed[q], l[2] # None, ctr[l[1]] # l[2]
      PROVE  ctr'[l[1]] # l[2]
  BY <1>7 DEF TypeOK, DatesSound
<1>8. CleanupSound(q)'
  BY <1>7 DEF ProcessSound, CleanupSound
<1> QED
  BY <1>1, <1>3, <1>5, <1>6, <1>8 DEF ProcessSound

LEMMA ProcessStep ==
    ASSUME ContainersInv, TypeOK', NEW p \in Processes, Proceeds(p),
           ProcessSound(p)', LabelsRespected'
    PROVE  ContainersInv'
<1>1. \A q \in Processes : made'[q] \in Nat /\ made[q] \in Nat /\ made'[q] >= made[q]
  BY DEF ContainersInv, TypeOK, Proceeds
<1>2. ASSUME NEW c \in Container, Dated(c)
      PROVE  Dated(c)'
  BY <1>1, <1>2, OwnersAssumption DEF Dated, Proceeds, Container
<1>3. DatesSound'
  <2>1. ASSUME NEW n \in Names, Exists(n)'
        PROVE  Dated(ctr[n])'
    <3>1. CASE ctr'[n] = ctr[n]
      BY <1>2, <2>1, <3>1 DEF ContainersInv, DatesSound, Exists, TypeOK
    <3>2. CASE ctr'[n].by = p /\ ctr'[n].id = made[p] /\ made'[p] > made[p]
      BY <3>2, OwnersAssumption DEF Dated
    <3> QED
      BY <2>1, <3>1, <3>2 DEF Proceeds, Podman, Exists
  <2>2. ASSUME NEW q \in Processes, NEW l \in listed'[q], l[2] # None
        PROVE  Dated(l[2])'
    <3>1. l \in listed[q] \/ \E n \in Names : l = <<n, ctr[n]>>
      BY DEF Proceeds
    <3>2. l[2] \in Container
      BY <2>2 DEF TypeOK
    <3>3. Dated(l[2])
      BY <2>2, <3>1 DEF ContainersInv, DatesSound, Exists
    <3> QED
      BY <1>2, <3>2, <3>3
  <2> QED
    BY <2>1, <2>2 DEF DatesSound
<1>4. ASSUME NEW q \in Processes, q # p
      PROVE  ProcessSound(q)'
  <2>1. ASSUME NEW n \in Names, ctr'[n] \notin {ctr[n], None}
        PROVE  ctr'[n].by # q /\ ~Dated(ctr'[n])
    BY <1>1, <1>4, <2>1, OwnersAssumption DEF Proceeds, Podman, Dated
  <2> QED
    BY <1>4, <2>1, Elsewhere DEF ContainersInv, Proceeds
<1> QED
  BY <1>3, <1>4 DEF ContainersInv

-----------------------------------------------------------------------------
(* A process goes on, or returns.                                          *)

\* p gets to label; other than Goto, it may take or give back the control lock.
Goes(p, label) == pc' = [pc EXCEPT ![p] = label] /\ UNCHANGED result

\* Every container stays or goes.
NoneMade == \A n \in Names : ctr'[n] \in {ctr[n], None}

LEMMA NothingOfMine ==
    ASSUME NEW p \in Processes, NameSound(p), ~Mine(p)
    PROVE  Clean(p)
BY DEF NameSound, Mine, Clean

LEMMA NamesKept ==
    ASSUME NEW p \in Processes, NameSound(p), NoneMade, cmd'[p] = cmd[p],
           pc'[p] # "idle"
    PROVE  NameSound(p)' /\ (Clean(p) => Clean(p)')
<1>1. NameOf(p)' = NameOf(p)
  BY DEF NameOf
<1> QED
  BY <1>1 DEF NameSound, NoneMade, Exists, Clean

LEMMA GoesOn ==
    ASSUME ContainersInv, TypeOK', NEW p \in Processes, Proceeds(p), NoneMade,
           LabelsRespected', CleanupSound(p)',
           NEW label, Goes(p, label), cmd'[p] = cmd[p],
           pc[p] \notin {"idle", "done"}, label \notin {"idle", "done"},
           label \in Places(cmd[p]),
           /\ label \in {"managed", "lookup", "create", "stop", "plan", "cleanup"}
              /\ cmd[p].op \notin {"shell", "gateway"} /\ ~cmd[p].detach
              /\ failed'[p] # "leftover"
              => Clean(p)',
           label = "unremoved" => failed'[p] = "leftover",
           cmd[p].op = "gateway" =>
              /\ label \in {"list", "exists", "labels", "reclaim", "lock", "create",
                            "working"}
                 => believes'[p] = "absent"
              /\ label \in {"served", "list", "exists", "labels", "reclaim", "lock",
                            "create"} /\ believes'[p] = "absent"
                 => Clean(p)'
              /\ label \in {"reclaim", "ownedRemove"} =>
                    \A l \in listed'[p] : l[2].role = "gateway"
    PROVE  ContainersInv'
<1>1. pc'[p] = label /\ result'[p] = None
  BY DEF ContainersInv, ProcessSound, ControlSound, Goes, TypeOK
<1>2. cmd[p] \in Commands
  BY DEF ContainersInv, ProcessSound, ControlSound
<1>3. ControlSound(p)'
  BY <1>1, <1>2 DEF ControlSound
<1>4. NameSound(p)'
  BY <1>1, NamesKept DEF ContainersInv, ProcessSound
<1>5. LeftoverSound(p)'
  BY <1>1, NoneAssumption DEF LeftoverSound
<1>6. GatewaySound(p)'
  BY <1>1 DEF GatewaySound
<1> QED
  BY <1>3, <1>4, <1>5, <1>6, ProcessStep DEF ProcessSound

LEMMA Returns ==
    ASSUME ContainersInv, TypeOK', NEW p \in Processes, Proceeds(p), NoneMade,
           LabelsRespected', CleanupSound(p)',
           NEW value, Return(p, value), cmd'[p] = cmd[p], pc[p] # "idle",
           failed'[p] = failed[p],
           \/ Clean(p)'
           \/ cmd[p].op = "shell" \/ cmd[p].detach
           \/ value = "leftover" \/ failed[p] = "leftover"
    PROVE  ContainersInv'
<1>1. /\ pc'[p] = "done"
      /\ result'[p] = IF failed[p] = "leftover" THEN "leftover" ELSE value
  BY DEF ContainersInv, Return, TypeOK
<1>2. cmd[p] \in Commands
  BY DEF ContainersInv, ProcessSound, ControlSound
<1>3. ControlSound(p)'
  BY <1>1, <1>2, PlaceOf DEF ControlSound
<1>4. NameSound(p)'
  BY <1>1, NamesKept DEF ContainersInv, ProcessSound
<1>5. LeftoverSound(p)'
  BY <1>1 DEF LeftoverSound
<1>6. GatewaySound(p)'
  BY <1>1 DEF GatewaySound
<1> QED
  BY <1>3, <1>4, <1>5, <1>6, ProcessStep DEF ProcessSound

-----------------------------------------------------------------------------
(* Steps that leave Podman alone.                                          *)

\* What such a step changes, of p alone.
Quiet(p) ==
    /\ UNCHANGED <<ctr, cmd, made, listed, plan, removed, strangers>>
    /\ DOMAIN todo' = Processes /\ DOMAIN phase' = Processes
    /\ failed' \in [Processes -> {"no", "yes", "leftover"}]
    /\ believes' \in [Processes -> {"absent", "ready", "uncertain"}]
    /\ \A q \in Processes \ {p} :
          failed'[q] = failed[q] /\ believes'[q] = believes[q]

LEMMA QuietStep ==
    ASSUME ContainersInv, NEW p \in Processes, Quiet(p),
           (\E label : Goes(p, label)) \/ (\E value : Return(p, value))
    PROVE  /\ TypeOK' /\ Proceeds(p) /\ NoneMade /\ LabelsRespected'
           /\ cmd'[p] = cmd[p] /\ (Clean(p)' <=> Clean(p))
<1>1. TypeOK'
  <2>1. DOMAIN pc' = Processes /\ DOMAIN result' = Processes
    <3>1. CASE \E label : Goes(p, label)
      <4>1. PICK label : Goes(p, label)
        BY <3>1
      <4> QED
        BY <4>1 DEF ContainersInv, TypeOK, Goes
    <3>2. CASE \E value : Return(p, value)
      BY <3>2 DEF ContainersInv, TypeOK, Return
    <3> QED
      BY <3>1, <3>2
  <2> QED
    BY <2>1 DEF ContainersInv, TypeOK, Quiet
<1>2. \A q \in Processes \ {p} :
         /\ pc'[q] = pc[q] /\ failed'[q] = failed[q] /\ result'[q] = result[q]
         /\ believes'[q] = believes[q]
  BY DEF ContainersInv, TypeOK, Quiet, Goes, Return
<1>3. Proceeds(p) /\ NoneMade
  BY <1>2 DEF ContainersInv, TypeOK, Quiet, Proceeds, Podman, NoneMade
<1> QED
  BY <1>1, <1>3 DEF ContainersInv, LabelsRespected, Quiet, Clean, Exists

LEMMA GoesOnQuietly ==
    ASSUME ContainersInv, NEW p \in Processes, Quiet(p),
           NEW label, Goes(p, label),
           pc[p] \notin {"idle", "done"}, label \in Places(cmd[p]),
           label \notin {"idle", "done", "cleanup", "reclaim", "ownedRemove"},
           /\ label \in {"managed", "lookup", "create", "stop", "plan"}
              /\ cmd[p].op \notin {"shell", "gateway"} /\ ~cmd[p].detach
              /\ failed'[p] # "leftover"
              => Clean(p),
           label = "unremoved" => failed'[p] = "leftover",
           cmd[p].op = "gateway" =>
              /\ label \in {"list", "exists", "labels", "lock", "create", "working"}
                 => believes'[p] = "absent"
              /\ label \in {"served", "list", "exists", "labels", "lock", "create"}
                 /\ believes'[p] = "absent"
                 => Clean(p)
    PROVE  ContainersInv'
<1>1. /\ TypeOK' /\ Proceeds(p) /\ NoneMade /\ LabelsRespected'
      /\ cmd'[p] = cmd[p] /\ (Clean(p)' <=> Clean(p))
  BY QuietStep
<1>2. pc'[p] = label /\ result'[p] = None
  BY DEF ContainersInv, ProcessSound, ControlSound, Goes, TypeOK
<1>3. CleanupSound(p)'
  BY <1>2, NoneAssumption DEF CleanupSound
<1> QED
  BY <1>1, <1>3, GoesOn

LEMMA ReturnsQuietly ==
    ASSUME ContainersInv, NEW p \in Processes, Quiet(p),
           NEW value, Return(p, value), pc[p] # "idle",
           failed'[p] = failed[p],
           \/ Clean(p)
           \/ cmd[p].op = "shell" \/ cmd[p].detach
           \/ value = "leftover" \/ failed[p] = "leftover",
           cmd[p].op = "cleanup" => value # "ok"
    PROVE  ContainersInv'
<1>1. /\ TypeOK' /\ Proceeds(p) /\ NoneMade /\ LabelsRespected'
      /\ cmd'[p] = cmd[p] /\ (Clean(p)' <=> Clean(p))
  BY QuietStep
<1>2. /\ pc'[p] = "done"
      /\ result'[p] = IF failed[p] = "leftover" THEN "leftover" ELSE value
  BY DEF ContainersInv, Return, TypeOK
<1>3. CleanupSound(p)'
  BY <1>1, <1>2 DEF CleanupSound
<1> QED
  BY <1>1, <1>3, Returns

LEMMA GotoGoes ==
    ASSUME NEW p, NEW label, Goto(p, label)
    PROVE  Goes(p, label)
BY DEF Goto, Goes

LEMMA CheckManagedStep ==
    ASSUME ContainersInv, NEW p \in Processes, CheckManaged(p)
    PROVE  ContainersInv'
<1>1. Quiet(p) /\ failed' = failed /\ pc[p] = "managed"
  BY DEF CheckManaged, Quiet, command, bounds, ContainersInv, TypeOK
<1>2. cmd[p].op = "run" /\ cmd[p] \in Commands
  BY <1>1, CommandAt DEF ContainersInv, ProcessSound
<1>3. failed[p] # "leftover" /\ ~cmd[p].detach => Clean(p)
  BY <1>1, <1>2 DEF ContainersInv, ProcessSound, LeftoverSound
<1>4. CASE Goto(p, "lookup")
  BY <1>1, <1>2, <1>3, <1>4, PlaceOf, GoesOnQuietly, GotoGoes
<1>5. CASE Return(p, "error")
  BY <1>1, <1>2, <1>3, <1>5, ReturnsQuietly
<1> QED
  BY <1>4, <1>5 DEF CheckManaged

LEMMA CheckFreeStep ==
    ASSUME ContainersInv, NEW p \in Processes, CheckFree(p)
    PROVE  ContainersInv'
<1>1. Quiet(p) /\ failed' = failed /\ pc[p] = "lookup"
  BY DEF CheckFree, Quiet, bounds, ContainersInv, TypeOK
<1>2. cmd[p].op \in {"run"} \cup Transient /\ cmd[p] \in Commands
  BY <1>1, CommandAt DEF ContainersInv, ProcessSound, CheckFree
<1>3. failed[p] # "leftover" /\ ~cmd[p].detach => Clean(p)
  BY <1>1, <1>2 DEF ContainersInv, ProcessSound, LeftoverSound, Transient
<1>4. CASE Goto(p, "lookup")
  BY <1>1, <1>2, <1>3, <1>4, PlaceOf, GoesOnQuietly, GotoGoes DEF Transient
<1>5. CASE Goto(p, "create")
  BY <1>1, <1>2, <1>3, <1>5, PlaceOf, GoesOnQuietly, GotoGoes DEF Transient
<1>6. CASE Return(p, "error")
  BY <1>1, <1>2, <1>3, <1>6, ReturnsQuietly DEF Transient
<1> QED
  BY <1>4, <1>5, <1>6 DEF CheckFree

\* `podman run` has failed, and left nothing or something.
LEMMA RunFailedStep ==
    ASSUME ContainersInv, NEW p \in Processes,
           UNCHANGED <<ctr, command, phase, believes, removed, bounds>>,
           RunFailed(p), pc[p] \in {"create", "attached", "working"}
    PROVE  ContainersInv'
<1> USE DEF command
<1>1. /\ cmd[p] \in Commands
      /\ cmd[p].op \in {"run", "shell", "gateway"} \cup Transient
  BY CommandAt DEF ContainersInv, ProcessSound
<1>2. CASE cmd[p].op = "gateway"
  <2>1. Quiet(p) /\ Goto(p, "owned")
    BY <1>2 DEF RunFailed, Quiet, bounds, ContainersInv, TypeOK
  <2> QED
    BY <1>1, <1>2, <2>1, PlaceOf, GoesOnQuietly, GotoGoes
<1>3. CASE cmd[p].op = "shell" \/ (cmd[p].op = "run" /\ cmd[p].detach)
  <2>1. Quiet(p) /\ Return(p, "error") /\ failed' = failed
    BY <1>3 DEF RunFailed, Quiet, bounds, ContainersInv, TypeOK
  <2> QED
    BY <1>1, <1>3, <2>1, ReturnsQuietly
<1>4. CASE cmd[p].op # "gateway" /\ cmd[p].op # "shell"
           /\ ~(cmd[p].op = "run" /\ cmd[p].detach)
  <2>1. Quiet(p) /\ Goto(p, "remove")
    BY <1>4 DEF RunFailed, Quiet, bounds, ContainersInv, TypeOK
  <2> QED
    BY <1>1, <1>4, <2>1, PlaceOf, GoesOnQuietly, GotoGoes
<1> QED
  BY <1>2, <1>3, <1>4

LEMMA AttachedReturnsStep ==
    ASSUME ContainersInv, NEW p \in Processes, AttachedReturns(p)
    PROVE  ContainersInv'
<1> USE DEF command
<1>1. CASE RunFailed(p)
  BY <1>1, RunFailedStep DEF AttachedReturns
<1>2. CASE /\ ~Mine(p)
           /\ IF cmd[p].op = "llama-bench" THEN Goto(p, "remove")
                                           ELSE Return(p, "ok")
           /\ UNCHANGED failed
  <2>1. Quiet(p) /\ failed' = failed /\ pc[p] = "attached"
    BY <1>2 DEF AttachedReturns, Quiet, bounds, ContainersInv, TypeOK
  <2>2. cmd[p].op \in {"run", "shell"} \cup Transient /\ cmd[p] \in Commands
    BY <2>1, CommandAt DEF ContainersInv, ProcessSound
  <2>3. Clean(p)
    BY <1>2, NothingOfMine DEF ContainersInv, ProcessSound
  <2>4. CASE cmd[p].op = "llama-bench" /\ Goto(p, "remove")
    BY <2>1, <2>2, <2>4, PlaceOf, GoesOnQuietly, GotoGoes DEF Transient
  <2>5. CASE Return(p, "ok")
    BY <2>1, <2>2, <2>3, <2>5, ReturnsQuietly DEF Transient
  <2> QED
    BY <1>2, <2>4, <2>5
<1> QED
  BY <1>1, <1>2 DEF AttachedReturns

LEMMA MeasureStep ==
    ASSUME ContainersInv, NEW p \in Processes, Measure(p)
    PROVE  ContainersInv'
<1> USE DEF command
<1>1. CASE RunFailed(p)
  BY <1>1, RunFailedStep DEF Measure, Transient
<1>2. CASE Goto(p, "remove") /\ UNCHANGED failed
  <2>1. Quiet(p) /\ cmd[p].op \in Transient /\ cmd[p] \in Commands
    BY <1>2, CommandAt DEF Measure, Quiet, bounds, ContainersInv, TypeOK, ProcessSound
  <2> QED
    BY <1>2, <2>1, PlaceOf, GoesOnQuietly, GotoGoes DEF Transient, Measure
<1> QED
  BY <1>1, <1>2 DEF Measure

LEMMA WithCleanupFailureStep ==
    ASSUME ContainersInv, NEW p \in Processes, WithCleanupFailure(p)
    PROVE  ContainersInv'
<1>1. Quiet(p) /\ failed' = failed /\ pc[p] = "unremoved"
  BY DEF WithCleanupFailure, NextOrReturn, Quiet, bounds, ContainersInv, TypeOK
<1>2. /\ cmd[p].op \in {"run"} \cup Transient /\ cmd[p] \in Commands
      /\ failed[p] = "leftover"
  BY <1>1, CommandAt DEF ContainersInv, ProcessSound, LeftoverSound
<1>3. CASE cmd[p].op \in Transient /\ Goto(p, First(cmd[p]))
  <2>1. First(cmd[p]) \in {"lookup", "create"}
    BY <1>3 DEF First, Transient
  <2> QED
    BY <1>1, <1>2, <1>3, <2>1, PlaceOf, GoesOnQuietly, GotoGoes DEF Transient
<1>4. CASE \E value : Return(p, value)
  BY <1>1, <1>2, <1>4, ReturnsQuietly DEF Transient
<1> QED
  BY <1>3, <1>4 DEF WithCleanupFailure, NextOrReturn

LEMMA StopApplicationStep ==
    ASSUME ContainersInv, NEW p \in Processes, StopApplication(p)
    PROVE  ContainersInv'
<1>1. Quiet(p) /\ failed' = failed /\ pc[p] = "lookup" /\ cmd[p].op = "stop"
  BY DEF StopApplication, Quiet, bounds, ContainersInv, TypeOK
<1>2. cmd[p] \in Commands /\ (failed[p] # "leftover" /\ ~cmd[p].detach => Clean(p))
  BY <1>1, CommandAt DEF ContainersInv, ProcessSound, LeftoverSound
<1>3. CASE Return(p, "ok")
  BY <1>1, <1>2, <1>3, ReturnsQuietly
<1>4. CASE Goto(p, "stop")
  BY <1>1, <1>2, <1>4, PlaceOf, GoesOnQuietly, GotoGoes
<1>5. CASE Goto(p, "lookup")
  BY <1>1, <1>2, <1>5, PlaceOf, GoesOnQuietly, GotoGoes
<1> QED
  BY <1>3, <1>4, <1>5 DEF StopApplication

\* What a gateway knows while it looks for a free name.
LEMMA Looking ==
    ASSUME ContainersInv, NEW p \in Processes,
           pc[p] \in {"list", "exists", "labels", "reclaim", "lock"}
    PROVE  /\ cmd[p] \in Commands /\ cmd[p].op = "gateway"
           /\ believes[p] = "absent" /\ Clean(p)
BY CommandAt DEF ContainersInv, ProcessSound, GatewaySound

LEMMA RequireFailedStep ==
    ASSUME ContainersInv, NEW p \in Processes, Quiet(p),
           failed' = failed, believes' = believes,
           pc[p] \in {"list", "exists", "labels"}, RequireFailed(p)
    PROVE  ContainersInv'
<1>1. /\ cmd[p] \in Commands /\ cmd[p].op = "gateway"
      /\ believes[p] = "absent" /\ Clean(p)
  BY Looking
<1>2. CASE Return(p, "error")
  BY <1>1, <1>2, ReturnsQuietly
<1>3. CASE Goto(p, "served")
  BY <1>1, <1>3, PlaceOf, GoesOnQuietly, GotoGoes
<1> QED
  BY <1>2, <1>3 DEF RequireFailed

LEMMA RequireAvailableStep ==
    ASSUME ContainersInv, NEW p \in Processes, RequireAvailable(p) \/ TargetExists(p)
    PROVE  ContainersInv'
<1>1. /\ Quiet(p) /\ failed' = failed /\ believes' = believes
      /\ pc[p] \in {"list", "exists", "labels"}
  BY DEF RequireAvailable, TargetExists, command, bounds, Quiet, ContainersInv, TypeOK
<1>2. /\ cmd[p] \in Commands /\ cmd[p].op = "gateway"
      /\ believes[p] = "absent" /\ Clean(p)
  BY <1>1, Looking
<1>3. CASE Goto(p, "exists")
  BY <1>1, <1>2, <1>3, PlaceOf, GoesOnQuietly, GotoGoes
<1>4. CASE Goto(p, "labels")
  BY <1>1, <1>2, <1>4, PlaceOf, GoesOnQuietly, GotoGoes
<1>5. CASE Goto(p, "lock")
  BY <1>1, <1>2, <1>5, PlaceOf, GoesOnQuietly, GotoGoes
<1>6. CASE Goto(p, "create")
  BY <1>1, <1>2, <1>6, PlaceOf, GoesOnQuietly, GotoGoes
<1>7. CASE RequireFailed(p)
  BY <1>1, <1>7, RequireFailedStep
<1>8. RequireMet(p) => Goto(p, "lock") \/ Goto(p, "create")
  BY DEF RequireMet
<1> QED
  BY <1>3, <1>4, <1>5, <1>6, <1>7, <1>8 DEF RequireAvailable, TargetExists

LEMMA TakeControlStep ==
    ASSUME ContainersInv, NEW p \in Processes, TakeControl(p)
    PROVE  ContainersInv'
<1>1. Quiet(p) /\ failed' = failed /\ believes' = believes /\ pc[p] = "lock"
  BY DEF TakeControl, command, bounds, Quiet, ContainersInv, TypeOK
<1>2. /\ cmd[p] \in Commands /\ cmd[p].op = "gateway"
      /\ believes[p] = "absent" /\ Clean(p)
  BY <1>1, Looking
<1>3. CASE Goes(p, "served")
  BY <1>1, <1>2, <1>3, PlaceOf, GoesOnQuietly
<1>4. CASE Return(p, "error")
  BY <1>1, <1>2, <1>4, ReturnsQuietly
<1> QED
  BY <1>3, <1>4 DEF TakeControl, Goes

LEMMA SchedulerStep ==
    ASSUME ContainersInv, NEW p \in Processes,
           StartBackend(p) \/ StopBackend(p) \/ Shutdown(p)
    PROVE  ContainersInv'
<1>1. Quiet(p) /\ failed' = failed /\ believes' = believes /\ pc[p] = "served"
  BY DEF StartBackend, StopBackend, Shutdown, command, bounds, Quiet, ContainersInv, TypeOK
<1>2. /\ cmd[p] \in Commands /\ cmd[p].op = "gateway"
      /\ believes[p] = "absent" => Clean(p)
  BY <1>1, CommandAt DEF ContainersInv, ProcessSound, GatewaySound
<1>3. CASE Goto(p, "list") /\ believes[p] = "absent"
  BY <1>1, <1>2, <1>3, PlaceOf, GoesOnQuietly, GotoGoes
<1>4. CASE Goto(p, "owned")
  BY <1>1, <1>2, <1>4, PlaceOf, GoesOnQuietly, GotoGoes
<1>5. CASE Return(p, "ok") /\ believes[p] = "absent"
  BY <1>1, <1>2, <1>5, ReturnsQuietly
<1> QED
  BY <1>3, <1>4, <1>5 DEF StartBackend, StopBackend, Shutdown

LEMMA WaitReadyStep ==
    ASSUME ContainersInv, NEW p \in Processes, WaitReady(p)
    PROVE  ContainersInv'
<1> USE DEF command
<1>1. CASE RunFailed(p) /\ UNCHANGED believes
  BY <1>1, RunFailedStep DEF WaitReady
<1>2. CASE /\ believes' = [believes EXCEPT ![p] = "ready"]
           /\ Goto(p, "served") /\ UNCHANGED failed
  <2>1. Quiet(p) /\ believes'[p] = "ready"
    BY <1>2 DEF WaitReady, Quiet, bounds, ContainersInv, TypeOK
  <2>2. cmd[p] \in Commands /\ cmd[p].op = "gateway" /\ pc[p] = "working"
    BY CommandAt DEF WaitReady, ContainersInv, ProcessSound
  <2> QED
    BY <1>2, <2>1, <2>2, PlaceOf, GoesOnQuietly, GotoGoes
<1> QED
  BY <1>1, <1>2 DEF WaitReady

LEMMA KillStep ==
    ASSUME ContainersInv, NEW p \in Processes, Kill(p)
    PROVE  ContainersInv'
<1>1. /\ Quiet(p) /\ Goes(p, "killed") /\ pc[p] \notin {"idle", "done"}
      /\ cmd[p] \in Commands
  BY DEF Kill, Goes, Quiet, command, ContainersInv, TypeOK, ProcessSound, ControlSound
<1> QED
  BY <1>1, PlaceOf, GoesOnQuietly

\* removeOwned found nothing, or could not do its work.
LEMMA OwnedQuietly ==
    ASSUME ContainersInv, NEW p \in Processes,
           UNCHANGED <<ctr, command, phase, failed, removed, bounds>>,
           pc[p] \in {"owned", "ownedLabels"},
           \/ OwnedFailed(p)
           \/ OwnedGone(p) /\ ~Exists("gateway")
           \/ Goto(p, "ownedLabels") /\ UNCHANGED believes
    PROVE  ContainersInv'
<1> USE DEF command, bounds
<1>1. cmd[p] \in Commands /\ cmd[p].op = "gateway"
  BY CommandAt DEF ContainersInv, ProcessSound
<1>2. Quiet(p) /\ failed' = failed
  BY DEF OwnedFailed, OwnedGone, Quiet, ContainersInv, TypeOK
<1>3. CASE OwnedFailed(p)
  <2>1. CASE Return(p, "leftover")
    BY <1>1, <1>2, <2>1, ReturnsQuietly
  <2>2. CASE Goto(p, "served") /\ believes' = [believes EXCEPT ![p] = "uncertain"]
    <3>1. believes'[p] = "uncertain"
      BY <2>2 DEF ContainersInv, TypeOK
    <3> QED
      BY <1>1, <1>2, <2>2, <3>1, PlaceOf, GoesOnQuietly, GotoGoes
  <2> QED
    BY <1>3, <2>1, <2>2 DEF OwnedFailed
<1>4. CASE OwnedGone(p) /\ ~Exists("gateway")
  <2>1. Clean(p)
    BY <1>1, <1>4, NameOfIn, NothingOfMine DEF ContainersInv, ProcessSound, Mine
  <2>2. CASE Return(p, "ok")
    BY <1>1, <1>2, <2>1, <2>2, ReturnsQuietly
  <2>3. CASE Goto(p, "served")
    BY <1>1, <1>2, <2>1, <2>3, PlaceOf, GoesOnQuietly, GotoGoes
  <2> QED
    BY <1>4, <2>2, <2>3 DEF OwnedGone
<1>5. CASE Goto(p, "ownedLabels")
  BY <1>1, <1>2, <1>5, PlaceOf, GoesOnQuietly, GotoGoes
<1> QED
  BY <1>3, <1>4, <1>5

LEMMA RemoveOwnedStep ==
    ASSUME ContainersInv, NEW p \in Processes, RemoveOwned(p)
    PROVE  ContainersInv'
BY OwnedQuietly DEF RemoveOwned

LEMMA QueryFailsStep ==
    ASSUME ContainersInv, NEW p \in Processes, QueryFails(p)
    PROVE  ContainersInv'
<1>1. CASE pc[p] \in {"owned", "ownedLabels"} /\ OwnedFailed(p)
  BY <1>1, OwnedQuietly DEF QueryFails
<1>2. CASE pc[p] \in {"list", "exists", "labels"} /\ RequireFailed(p)
           /\ UNCHANGED believes
  <2>1. Quiet(p) /\ failed' = failed
    BY <1>2 DEF QueryFails, command, bounds, Quiet, ContainersInv, TypeOK
  <2> QED
    BY <1>2, <2>1, RequireFailedStep
<1>3. CASE pc[p] \in {"managed", "lookup", "plan"} /\ Return(p, "error")
           /\ UNCHANGED believes
  <2>1. Quiet(p) /\ failed' = failed
    BY <1>3 DEF QueryFails, command, bounds, Quiet, ContainersInv, TypeOK
  <2>2. cmd[p].op \notin {"shell", "gateway"} /\ cmd[p] \in Commands
    BY <1>3, CommandAt DEF ContainersInv, ProcessSound, Transient
  <2>3. failed[p] # "leftover" /\ ~cmd[p].detach => Clean(p)
    BY <1>3, <2>2 DEF ContainersInv, ProcessSound, LeftoverSound
  <2> QED
    BY <1>3, <2>1, <2>3, ReturnsQuietly
<1> QED
  BY <1>1, <1>2, <1>3 DEF QueryFails

-----------------------------------------------------------------------------
(* Steps that look at containers or remove them.                           *)

\* What a removal, or a look at a container, changes of p alone.
Local(p) ==
    /\ UNCHANGED <<cmd, made, strangers>>
    /\ DOMAIN todo' = Processes /\ DOMAIN phase' = Processes
    /\ failed' \in [Processes -> {"no", "yes", "leftover"}]
    /\ believes' \in [Processes -> {"absent", "ready", "uncertain"}]
    /\ plan' \in [Processes -> SUBSET Names]
    /\ listed' \in [Processes -> SUBSET (Names \X (Container \cup {None}))]
    /\ \A l \in listed'[p] : l \in listed[p] \/ \E n \in Names : l = <<n, ctr[n]>>
    /\ \A q \in Processes \ {p} :
          /\ failed'[q] = failed[q] /\ believes'[q] = believes[q]
          /\ plan'[q] = plan[q] /\ listed'[q] = listed[q]
    /\ \E label : Goes(p, label) \/ Return(p, label)

LEMMA Removal ==
    ASSUME ContainersInv, NEW p \in Processes, NEW n, RemoveContainer(p, n)
    PROVE  /\ NoneMade /\ ctr' \in [Names -> Container \cup {None}]
           /\ n \in Names => ctr'[n] = None
           /\ \A r \in removed' : r \in removed
                 \/ /\ cmd[p].op = "gateway" /\ r.role = ctr[n].role
                    /\ r.seen => <<n, ctr[n]>> \in listed[p]
<1>1. NoneMade /\ ctr' \in [Names -> Container \cup {None}]
      /\ (n \in Names => ctr'[n] = None)
  BY DEF RemoveContainer, NoneMade, ContainersInv, TypeOK
<1>2. ASSUME NEW r \in removed', r \notin removed
      PROVE  /\ cmd[p].op = "gateway" /\ r.role = ctr[n].role
             /\ r.seen => <<n, ctr[n]>> \in listed[p]
  <2>1. /\ cmd[p].op = "gateway"
        /\ r = [role |-> ctr[n].role, seen |-> <<n, ctr[n]>> \in listed[p],
                used |-> InUse(p, n), early |-> phase[p] = "preflight"]
    BY <1>2 DEF RemoveContainer
  <2> QED
    BY <2>1
<1> QED
  BY <1>1, <1>2

LEMMA LocalStep ==
    ASSUME ContainersInv, NEW p \in Processes, Local(p), NEW n,
           \/ RemovalFails
           \/ /\ RemoveContainer(p, n)
              /\ cmd[p].op = "gateway" => pc[p] \in {"reclaim", "ownedRemove"}
    PROVE  /\ TypeOK' /\ Proceeds(p) /\ NoneMade /\ LabelsRespected'
           /\ cmd'[p] = cmd[p]
<1>1. NoneMade /\ ctr' \in [Names -> Container \cup {None}]
  BY Removal DEF RemovalFails, NoneMade, ContainersInv, TypeOK
<1>2. DOMAIN pc' = Processes /\ DOMAIN result' = Processes
  <2>1. PICK label : Goes(p, label) \/ Return(p, label)
    BY DEF Local
  <2> QED
    BY <2>1 DEF Goes, Return, ContainersInv, TypeOK
<1>3. TypeOK'
  BY <1>1, <1>2 DEF Local, ContainersInv, TypeOK
<1>4. \A q \in Processes \ {p} : pc'[q] = pc[q] /\ result'[q] = result[q]
  <2>1. PICK label : Goes(p, label) \/ Return(p, label)
    BY DEF Local
  <2> QED
    BY <2>1 DEF Goes, Return, ContainersInv, TypeOK
<1>5. Proceeds(p)
  BY <1>1, <1>4 DEF Local, Proceeds, Podman, NoneMade, ContainersInv, TypeOK
<1>6. LabelsRespected'
  <2>1. CASE RemovalFails
    BY <2>1 DEF RemovalFails, ContainersInv, LabelsRespected
  <2>2. CASE /\ RemoveContainer(p, n)
             /\ cmd[p].op = "gateway" => pc[p] \in {"reclaim", "ownedRemove"}
    <3>1. ASSUME NEW r \in removed', r \notin removed, r.seen
          PROVE  r.role = "gateway"
      <4>1. /\ cmd[p].op = "gateway" /\ r.role = ctr[n].role
            /\ <<n, ctr[n]>> \in listed[p]
        BY <2>2, <3>1, Removal
      <4>2. pc[p] \in {"reclaim", "ownedRemove"}
        BY <2>2, <3>1, <4>1
      <4>3. \A l \in listed[p] : l[2].role = "gateway"
        BY <3>1, <4>1, <4>2 DEF ContainersInv, ProcessSound, GatewaySound
      <4> QED
        BY <4>1, <4>3
    <3> QED
      BY <3>1 DEF ContainersInv, LabelsRespected
  <2> QED
    BY <2>1, <2>2
<1> QED
  BY <1>1, <1>3, <1>5, <1>6 DEF Local

\* The name of p's container has been removed.
LEMMA RemovedMine ==
    ASSUME ContainersInv, NEW p \in Processes, cmd[p] \in Commands,
           cmd[p].op \in {"run", "shell", "gateway"} \cup Transient,
           RemoveContainer(p, NameOf(p)), cmd'[p] = cmd[p]
    PROVE  Clean(p)'
<1>1. NameOf(p) \in Names
  BY NameOfIn
<1>2. NoneMade /\ ctr'[NameOf(p)] = None
  BY <1>1, Removal
<1> QED
  BY <1>2 DEF ContainersInv, ProcessSound, NameSound, Clean, Exists, NoneMade

LEMMA StopRemovesStep ==
    ASSUME ContainersInv, NEW p \in Processes, StopRemoves(p)
    PROVE  ContainersInv'
<1>1. cmd[p].op = "stop" /\ cmd[p] \in Commands /\ pc[p] = "stop"
  BY CommandAt DEF StopRemoves, ContainersInv, ProcessSound
<1>2. failed[p] # "leftover" /\ ~cmd[p].detach => Clean(p)
  BY <1>1 DEF ContainersInv, ProcessSound, LeftoverSound
<1>3. Local(p) /\ failed' = failed
  BY GotoGoes DEF StopRemoves, Local, ContainersInv, TypeOK, bounds
<1>4. /\ TypeOK' /\ Proceeds(p) /\ NoneMade /\ LabelsRespected'
      /\ cmd'[p] = cmd[p]
  BY <1>1, <1>3, LocalStep DEF StopRemoves
<1>5. Clean(p) => Clean(p)'
  BY <1>4 DEF NoneMade, Clean, Exists
<1>6. CleanupSound(p)'
  BY <1>1, <1>4 DEF CleanupSound
<1>7. CASE Goto(p, "lookup")
  BY <1>1, <1>2, <1>3, <1>4, <1>5, <1>6, <1>7, PlaceOf, GotoGoes, GoesOn
<1>8. CASE Return(p, "error")
  BY <1>1, <1>2, <1>3, <1>4, <1>5, <1>6, <1>8, Returns
<1> QED
  BY <1>7, <1>8 DEF StopRemoves

LEMMA RemoveAfterStep ==
    ASSUME ContainersInv, NEW p \in Processes, RemoveAfter(p)
    PROVE  ContainersInv'
<1>1. /\ cmd[p].op \in {"run"} \cup Transient /\ cmd[p] \in Commands
      /\ pc[p] = "remove" /\ cmd[p].op # "gateway" /\ cmd[p].op # "cleanup"
  BY CommandAt DEF RemoveAfter, ContainersInv, ProcessSound, Transient
<1>2. Local(p)
  BY GotoGoes DEF RemoveAfter, NextOrReturn, Local, ContainersInv, TypeOK, bounds
<1>3. /\ TypeOK' /\ Proceeds(p) /\ NoneMade /\ LabelsRespected'
      /\ cmd'[p] = cmd[p]
  BY <1>1, <1>2, LocalStep DEF RemoveAfter
<1>4. CleanupSound(p)'
  BY <1>1, <1>3 DEF CleanupSound
<1>5. CASE /\ failed' = [failed EXCEPT ![p] = "leftover"]
           /\ Goto(p, "unremoved")
  <2>1. failed'[p] = "leftover"
    BY <1>5 DEF ContainersInv, TypeOK
  <2> QED
    BY <1>1, <1>3, <1>4, <1>5, <2>1, PlaceOf, GotoGoes, GoesOn
<1>6. CASE RemoveContainer(p, NameOf(p)) /\ NextOrReturn(p) /\ UNCHANGED failed
  <2>1. Clean(p)'
    BY <1>1, <1>3, <1>6, RemovedMine
  <2>2. CASE cmd[p].op \in Transient /\ Goto(p, First(cmd[p]))
    <3>1. First(cmd[p]) \in {"lookup", "create"}
      BY <2>2 DEF First, Transient
    <3> QED
      BY <1>1, <1>3, <1>4, <2>1, <2>2, <3>1, PlaceOf, GotoGoes, GoesOn
  <2>3. CASE \E value : Return(p, value)
    BY <1>1, <1>3, <1>4, <1>6, <2>1, <2>3, Returns
  <2> QED
    BY <1>6, <2>2, <2>3 DEF NextOrReturn
<1> QED
  BY <1>5, <1>6 DEF RemoveAfter

LEMMA CleanupPlanStep ==
    ASSUME ContainersInv, NEW p \in Processes, CleanupPlan(p)
    PROVE  ContainersInv'
<1> DEFINE names == Cleanable(cmd[p].app)
<1>1. cmd[p].op = "cleanup" /\ cmd[p] \in Commands /\ pc[p] = "plan"
  BY CommandAt DEF CleanupPlan, ContainersInv, ProcessSound
<1>2. failed[p] # "leftover" /\ ~cmd[p].detach => Clean(p)
  BY <1>1 DEF ContainersInv, ProcessSound, LeftoverSound
<1>3. names \subseteq Names /\ \A n \in names : Exists(n)
  BY DEF Cleanable, Names, ManagedContainerNames
<1>4. /\ listed' = [listed EXCEPT ![p] = {<<n, ctr[n]>> : n \in names}]
      /\ plan' = [plan EXCEPT ![p] = names]
      /\ Goto(p, "cleanup") \/ Return(p, "error")
      /\ UNCHANGED <<ctr, cmd, todo, made, phase, believes, failed, removed,
                     strangers>>
  BY DEF CleanupPlan, bounds
<1> HIDE DEF names
<1>5. Local(p) /\ RemovalFails
  <2>1. {<<n, ctr[n]>> : n \in names} \subseteq Names \X (Container \cup {None})
    BY <1>3 DEF ContainersInv, TypeOK
  <2> QED
    BY <1>3, <1>4, <2>1, GotoGoes DEF Local, ContainersInv, TypeOK, RemovalFails
<1>6. /\ TypeOK' /\ Proceeds(p) /\ NoneMade /\ LabelsRespected'
      /\ cmd'[p] = cmd[p]
  BY <1>1, <1>5, LocalStep
<1>7. Clean(p) => Clean(p)'
  BY <1>6 DEF NoneMade, Clean, Exists
<1>8. CASE Goto(p, "cleanup")
  <2>1. pc'[p] = "cleanup" /\ result'[p] = None
    BY <1>1, <1>8 DEF Goto, ContainersInv, TypeOK, ProcessSound, ControlSound
  <2>2. \A l \in listed'[p] : l[2] # None /\ l[1] \in plan'[p]
    BY <1>3, <1>4 DEF ContainersInv, TypeOK, Exists
  <2>3. CleanupSound(p)'
    BY <2>1, <2>2, NoneAssumption DEF CleanupSound
  <2> QED
    BY <1>1, <1>2, <1>4, <1>6, <1>7, <1>8, <2>3, PlaceOf, GotoGoes, GoesOn
<1>9. CASE Return(p, "error")
  <2>1. pc'[p] = "done" /\ result'[p] \in {"leftover", "error"}
    BY <1>9 DEF Return, ContainersInv, TypeOK
  <2>2. CleanupSound(p)'
    BY <2>1 DEF CleanupSound
  <2> QED
    BY <1>1, <1>2, <1>4, <1>6, <1>7, <1>9, <2>2, Returns
<1> QED
  BY <1>4, <1>8, <1>9

LEMMA CleanupRemovesStep ==
    ASSUME ContainersInv, NEW p \in Processes, CleanupRemoves(p)
    PROVE  ContainersInv'
<1>1. cmd[p].op = "cleanup" /\ cmd[p] \in Commands /\ pc[p] = "cleanup"
  BY CommandAt DEF CleanupRemoves, ContainersInv, ProcessSound
<1>2. failed[p] # "leftover" /\ ~cmd[p].detach => Clean(p)
  BY <1>1 DEF ContainersInv, ProcessSound, LeftoverSound
<1>3. /\ UNCHANGED <<cmd, todo, made, listed, phase, believes, failed, strangers>>
  BY DEF CleanupRemoves, bounds
<1>4. \A l \in listed[p] : l[2] # None /\ (l[1] \in plan[p] \/ ctr[l[1]] # l[2])
  BY <1>1 DEF ContainersInv, ProcessSound, CleanupSound
<1>5. CASE plan[p] = {} /\ Return(p, "ok") /\ UNCHANGED <<plan, ctr, removed>>
  <2>1. Local(p) /\ RemovalFails
    BY <1>3, <1>5 DEF Local, ContainersInv, TypeOK, RemovalFails
  <2>2. /\ TypeOK' /\ Proceeds(p) /\ NoneMade /\ LabelsRespected'
        /\ cmd'[p] = cmd[p]
    BY <1>1, <2>1, LocalStep
  <2>3. Clean(p) => Clean(p)'
    BY <2>2 DEF NoneMade, Clean, Exists
  <2>4. CleanupSound(p)'
    BY <1>3, <1>4, <1>5 DEF CleanupSound
  <2> QED
    BY <1>1, <1>2, <1>3, <1>5, <2>2, <2>3, <2>4, Returns
<1>6. ASSUME NEW n \in plan[p], plan' = [plan EXCEPT ![p] = @ \ {n}],
             \/ RemoveContainer(p, n) /\ Goto(p, "cleanup")
             \/ /\ RemovalFails
                /\ IF Exists(n) THEN Return(p, "error") ELSE Goto(p, "cleanup")
      PROVE  ContainersInv'
  <2>1. n \in Names /\ plan'[p] = plan[p] \ {n}
    BY <1>6 DEF ContainersInv, TypeOK
  <2>2. Local(p)
    BY <1>3, <1>6, GotoGoes DEF Local, ContainersInv, TypeOK
  <2>3. /\ TypeOK' /\ Proceeds(p) /\ NoneMade /\ LabelsRespected'
        /\ cmd'[p] = cmd[p]
    BY <1>1, <1>6, <2>2, LocalStep
  <2>4. Clean(p) => Clean(p)'
    BY <2>3 DEF NoneMade, Clean, Exists
  <2>5. CASE Goto(p, "cleanup") /\ ctr'[n] = None
    <3>1. result'[p] = None
      BY <1>1, <2>5 DEF Goto, ContainersInv, ProcessSound, ControlSound
    <3>2. \A l \in listed'[p] : l[2] # None /\ l[1] \in Names
      BY <1>3, <1>4 DEF ContainersInv, TypeOK
    <3>3. \A l \in listed'[p] : l[1] \in plan'[p] \/ ctr'[l[1]] # l[2]
      BY <1>3, <1>4, <2>1, <2>3, <2>5, <3>2 DEF NoneMade
    <3>4. CleanupSound(p)'
      BY <3>1, <3>2, <3>3, NoneAssumption DEF CleanupSound
    <3> QED
      BY <1>1, <1>2, <1>3, <2>3, <2>4, <2>5, <3>4, PlaceOf, GotoGoes, GoesOn
  <2>6. CASE Return(p, "error")
    <3>1. pc'[p] = "done" /\ result'[p] \in {"leftover", "error"}
      BY <2>6 DEF Return, ContainersInv, TypeOK
    <3>2. CleanupSound(p)'
      BY <3>1 DEF CleanupSound
    <3> QED
      BY <1>1, <1>2, <1>3, <2>3, <2>4, <2>6, <3>2, Returns
  <2>7. RemoveContainer(p, n) => ctr'[n] = None
    BY <2>1, Removal
  <2> QED
    BY <1>6, <2>5, <2>6, <2>7 DEF RemovalFails, Exists
<1> QED
  BY <1>5, <1>6 DEF CleanupRemoves

\* The gateway reads the labels of what is under the name of its backend.
LEMMA LabelsStep ==
    ASSUME ContainersInv, NEW p \in Processes, TargetLabels(p) \/ OwnedLabels(p)
    PROVE  ContainersInv'
<1>1. /\ cmd[p].op = "gateway" /\ cmd[p] \in Commands
      /\ pc[p] \in {"labels", "ownedLabels"}
  BY CommandAt DEF TargetLabels, OwnedLabels, ContainersInv, ProcessSound
<1>2. /\ UNCHANGED <<ctr, cmd, todo, made, plan, phase, failed, removed, strangers>>
      /\ listed' = [listed EXCEPT ![p] = {<<"gateway", ctr["gateway"]>>}]
  BY DEF TargetLabels, OwnedLabels, LookAt, bounds
<1>3. "gateway" \in Names
  BY DEF Names
<1>4. Local(p) /\ RemovalFails
  <2>1. believes' \in [Processes -> {"absent", "ready", "uncertain"}]
        /\ \A q \in Processes \ {p} : believes'[q] = believes[q]
    BY DEF TargetLabels, OwnedLabels, OwnedFailed, ContainersInv, TypeOK
  <2>2. \E label : Goes(p, label) \/ Return(p, label)
    BY GotoGoes DEF TargetLabels, OwnedLabels, RequireFailed, OwnedFailed
  <2>3. /\ listed' \in [Processes -> SUBSET (Names \X (Container \cup {None}))]
        /\ \A l \in listed'[p] : \E n \in Names : l = <<n, ctr[n]>>
        /\ \A q \in Processes \ {p} : listed'[q] = listed[q]
    <3>1. <<"gateway", ctr["gateway"]>> \in Names \X (Container \cup {None})
      BY <1>3 DEF ContainersInv, TypeOK
    <3> QED
      BY <1>2, <1>3, <3>1 DEF ContainersInv, TypeOK
  <2> QED
    BY <1>2, <2>1, <2>2, <2>3 DEF Local, RemovalFails, ContainersInv, TypeOK
<1>5. /\ TypeOK' /\ Proceeds(p) /\ NoneMade /\ LabelsRespected'
      /\ cmd'[p] = cmd[p]
  BY <1>4, LocalStep
<1>6. /\ Clean(p) => Clean(p)'
      /\ CleanupSound(p)'
      /\ failed'[p] = failed[p]
  BY <1>1, <1>2, <1>5 DEF NoneMade, Clean, Exists, CleanupSound
<1>7. GatewayLabels("gateway") => \A l \in listed'[p] : l[2].role = "gateway"
  BY <1>2 DEF GatewayLabels, ContainersInv, TypeOK
<1>8. CASE TargetLabels(p)
  <2>1. believes'[p] = "absent" /\ Clean(p)'
    BY <1>6, <1>8, Looking DEF TargetLabels
  <2>2. CASE Goto(p, "reclaim") /\ GatewayLabels("gateway")
    BY <1>1, <1>5, <1>6, <1>7, <2>1, <2>2, PlaceOf, GotoGoes, GoesOn
  <2>3. CASE Goto(p, "served")
    BY <1>1, <1>5, <1>6, <2>1, <2>3, PlaceOf, GotoGoes, GoesOn
  <2>4. CASE Return(p, "error")
    BY <1>1, <1>5, <1>6, <2>1, <2>4, Returns
  <2> QED
    BY <1>8, <2>2, <2>3, <2>4 DEF TargetLabels, RequireFailed
<1>9. CASE OwnedLabels(p)
  <2>1. CASE Goto(p, "ownedRemove") /\ GatewayLabels("gateway")
    BY <1>1, <1>5, <1>6, <1>7, <2>1, PlaceOf, GotoGoes, GoesOn
  <2>2. CASE Return(p, "leftover")
    BY <1>1, <1>5, <1>6, <2>2, Returns
  <2>3. CASE Goto(p, "served") /\ believes' = [believes EXCEPT ![p] = "uncertain"]
    <3>1. believes'[p] = "uncertain"
      BY <2>3 DEF ContainersInv, TypeOK
    <3> QED
      BY <1>1, <1>5, <1>6, <2>3, <3>1, PlaceOf, GotoGoes, GoesOn
  <2> QED
    BY <1>9, <2>1, <2>2, <2>3 DEF OwnedLabels, OwnedFailed
<1> QED
  BY <1>8, <1>9

\* The gateway removes what is under the name of its backend, or fails to.
LEMMA GatewayRemovesStep ==
    ASSUME ContainersInv, NEW p \in Processes, Reclaim(p) \/ OwnedRemove(p)
    PROVE  ContainersInv'
<1>1. /\ cmd[p].op = "gateway" /\ cmd[p] \in Commands
      /\ pc[p] \in {"reclaim", "ownedRemove"} /\ NameOf(p) = "gateway"
  BY CommandAt, NameOfIn DEF Reclaim, OwnedRemove, ContainersInv, ProcessSound
<1>2. /\ UNCHANGED <<cmd, todo, made, plan, phase, failed, strangers>>
      /\ listed' = [listed EXCEPT ![p] = {}]
      /\ RemoveContainer(p, "gateway") \/ RemovalFails
  BY DEF Reclaim, OwnedRemove, bounds
<1>3. Local(p)
  <2>1. believes' \in [Processes -> {"absent", "ready", "uncertain"}]
        /\ \A q \in Processes \ {p} : believes'[q] = believes[q]
    BY DEF Reclaim, OwnedRemove, OwnedGone, OwnedFailed, ContainersInv, TypeOK
  <2>2. \E label : Goes(p, label) \/ Return(p, label)
    BY GotoGoes DEF Reclaim, OwnedRemove, RequireMet, RequireFailed, OwnedGone,
       OwnedFailed
  <2> QED
    BY <1>2, <2>1, <2>2 DEF Local, ContainersInv, TypeOK
<1>4. /\ TypeOK' /\ Proceeds(p) /\ NoneMade /\ LabelsRespected'
      /\ cmd'[p] = cmd[p]
  BY <1>1, <1>2, <1>3, LocalStep
<1>5. /\ Clean(p) => Clean(p)'
      /\ RemoveContainer(p, "gateway") => Clean(p)'
      /\ CleanupSound(p)'
      /\ failed'[p] = failed[p]
  BY <1>1, <1>2, <1>4, RemovedMine DEF NoneMade, Clean, Exists, CleanupSound
<1>6. CASE Reclaim(p)
  <2>1. believes'[p] = "absent" /\ Clean(p)'
    BY <1>5, <1>6, Looking DEF Reclaim
  <2>2. CASE Goto(p, "lock")
    BY <1>1, <1>4, <1>5, <2>1, <2>2, PlaceOf, GotoGoes, GoesOn
  <2>3. CASE Goto(p, "create")
    BY <1>1, <1>4, <1>5, <2>1, <2>3, PlaceOf, GotoGoes, GoesOn
  <2>4. CASE Goto(p, "served")
    BY <1>1, <1>4, <1>5, <2>1, <2>4, PlaceOf, GotoGoes, GoesOn
  <2>5. CASE Return(p, "error")
    BY <1>1, <1>4, <1>5, <2>1, <2>5, Returns
  <2> QED
    BY <1>6, <2>2, <2>3, <2>4, <2>5 DEF Reclaim, RequireMet, RequireFailed
<1>7. CASE OwnedRemove(p)
  <2>1. CASE RemoveContainer(p, "gateway") /\ OwnedGone(p)
    <3>1. CASE Return(p, "ok")
      BY <1>1, <1>4, <1>5, <2>1, <3>1, Returns
    <3>2. CASE Goto(p, "served")
      BY <1>1, <1>4, <1>5, <2>1, <3>2, PlaceOf, GotoGoes, GoesOn
    <3> QED
      BY <2>1, <3>1, <3>2 DEF OwnedGone
  <2>2. CASE Return(p, "leftover")
    BY <1>1, <1>4, <1>5, <2>2, Returns
  <2>3. CASE Goto(p, "served") /\ believes' = [believes EXCEPT ![p] = "uncertain"]
    <3>1. believes'[p] = "uncertain"
      BY <2>3 DEF ContainersInv, TypeOK
    <3> QED
      BY <1>1, <1>4, <1>5, <2>3, <3>1, PlaceOf, GotoGoes, GoesOn
  <2> QED
    BY <1>7, <2>1, <2>2, <2>3 DEF OwnedRemove, OwnedFailed
<1> QED
  BY <1>6, <1>7

-----------------------------------------------------------------------------
(* Steps that make containers, and steps of nobody.                        *)

LEMMA CreateStep ==
    ASSUME ContainersInv, NEW p \in Processes, Create(p)
    PROVE  ContainersInv'
<1>1. /\ cmd[p] \in Commands /\ CommandOK(cmd[p]) /\ pc[p] = "create"
      /\ cmd[p].op \in {"run", "shell", "gateway"} \cup Transient
      /\ cmd[p].op # "cleanup"
  BY CommandAt DEF Create, ContainersInv, ProcessSound, Transient
<1>2. NameOf(p) \in Names
  BY <1>1, NameOfIn
<1>3. CASE RunFailed(p) /\ UNCHANGED <<ctr, made>>
  BY <1>1, <1>3, RunFailedStep DEF Create, command
<1>4. CASE /\ ~Exists(NameOf(p))
           /\ ctr' = [ctr EXCEPT ![NameOf(p)] = NewContainer(p)]
           /\ made' = [made EXCEPT ![p] = @ + 1]
           /\ \/ /\ IF cmd[p].op = "run" /\ cmd[p].detach
                    THEN Return(p, "ok")
                    ELSE Goto(p, IF Attached(p) THEN "attached" ELSE "working")
                 /\ UNCHANGED failed
              \/ RunFailed(p)
  <2>1. NewContainer(p) \in Container /\ NewContainer(p).by = p
        /\ NewContainer(p).id = made[p]
    BY <1>1 DEF NewContainer, Container, Roles, CommandOK, Apps, Transient,
       ContainersInv, TypeOK
  <2>2. /\ UNCHANGED <<cmd, todo, listed, plan, phase, believes, removed, strangers>>
    BY DEF Create, bounds
  <2>3. \/ Return(p, "ok") /\ cmd[p].op = "run" /\ cmd[p].detach /\ failed' = failed
        \/ Return(p, "error") /\ failed' = failed
           /\ (cmd[p].op = "shell" \/ cmd[p].detach)
        \/ Goto(p, "attached") /\ cmd[p].op \in {"run", "shell"} \cup Transient
           /\ failed' = failed
        \/ Goto(p, "working") /\ cmd[p].op \in {"gateway"} \cup Transient
           /\ failed' = failed
        \/ Goto(p, "owned") /\ cmd[p].op = "gateway" /\ failed' = failed
        \/ /\ Goto(p, "remove") /\ cmd[p].op \in {"run"} \cup Transient
           /\ failed' = [failed EXCEPT ![p] = IF @ = "no" THEN "yes" ELSE @]
    BY <1>1, <1>4 DEF RunFailed, Attached, Transient
  <2>4. TypeOK'
    <3>1. /\ failed' \in [Processes -> {"no", "yes", "leftover"}]
          /\ DOMAIN pc' = Processes /\ DOMAIN result' = Processes
      BY <2>3 DEF Goto, Return, ContainersInv, TypeOK
    <3>2. ctr' \in [Names -> Container \cup {None}] /\ made' \in [Processes -> Nat]
      <4>1. ctr' \in [Names -> Container \cup {None}]
        BY <1>2, <1>4, <2>1 DEF ContainersInv, TypeOK
      <4>2. made' \in [Processes -> Nat]
        BY <1>4 DEF ContainersInv, TypeOK
      <4> QED
        BY <4>1, <4>2
    <3> QED
      BY <2>2, <3>1, <3>2 DEF ContainersInv, TypeOK
  <2>5. Proceeds(p)
    <3>1. \A q \in Processes \ {p} : pc'[q] = pc[q] /\ result'[q] = result[q]
                                    /\ failed'[q] = failed[q]
      BY <2>3 DEF Goto, Return, ContainersInv, TypeOK
    <3>2. Podman(p) /\ made'[p] > made[p]
          /\ \A q \in Processes \ {p} : made'[q] = made[q]
      BY <1>4, <2>1 DEF Podman, ContainersInv, TypeOK
    <3>3. made'[p] >= made[p]
      BY <3>2, <2>4 DEF ContainersInv, TypeOK
    <3> QED
      BY <2>2, <3>1, <3>2, <3>3 DEF Proceeds
  <2>6. /\ pc'[p] \in {"done", "attached", "working", "owned", "remove"}
        /\ pc'[p] # "done" => result'[p] = None
    BY <1>1, <2>3 DEF Goto, Return, ContainersInv, TypeOK, ProcessSound, ControlSound
  <2>7. ControlSound(p)'
    <3>1. pc'[p] \in Places(cmd[p])
      BY <1>1, <2>3, PlaceOf DEF Goto, Return, ContainersInv, TypeOK
    <3> QED
      BY <1>1, <2>2, <2>6, <3>1 DEF ControlSound
  <2>8. NameSound(p)'
    <3>1. NameOf(p)' = NameOf(p)
      BY <2>2 DEF NameOf
    <3> QED
      BY <1>4, <2>6, <3>1 DEF ContainersInv, ProcessSound, NameSound, Exists, TypeOK
  <2>9. LeftoverSound(p)'
    <3>1. result'[p] \in {"ok", "error"} => cmd[p].op = "shell" \/ cmd[p].detach
      <4>1. CASE \E label : Goto(p, label)
        BY <1>1, <4>1, NoneAssumption DEF Goto, ContainersInv, ProcessSound,
           ControlSound
      <4> QED
        BY <2>3, <4>1
    <3> QED
      BY <2>2, <2>6, <3>1 DEF LeftoverSound
  <2>10. GatewaySound(p)'
    BY <1>1, <2>2, <2>6 DEF GatewaySound, ContainersInv, ProcessSound
  <2>11. CleanupSound(p)'
    BY <1>1, <2>2 DEF CleanupSound
  <2>12. LabelsRespected'
    BY <2>2 DEF ContainersInv, LabelsRespected
  <2> QED
    BY <2>4, <2>5, <2>7, <2>8, <2>9, <2>10, <2>11, <2>12, ProcessStep
       DEF ProcessSound
<1> QED
  BY <1>3, <1>4 DEF Create

LEMMA BeginStep ==
    ASSUME ContainersInv, NEW p \in Processes, Begin(p)
    PROVE  ContainersInv'
<1>1. PICK c \in Commands :
         /\ cmd' = [cmd EXCEPT ![p] = c]
         /\ todo' = [todo EXCEPT ![p] = Lookups(c)]
         /\ phase' = [phase EXCEPT ![p] = "preflight"]
         /\ Goto(p, First(c))
  BY DEF Begin
<1>2. /\ UNCHANGED <<ctr, failed, made, believes, listed, plan, removed, strangers>>
      /\ pc[p] = "idle"
  BY DEF Begin, bounds
<1>3. CommandOK(c)
  BY CommandsAssumption
<1>4. /\ First(c) \in {"managed", "lookup", "create", "plan", "list"}
      /\ First(c) \in Places(c)
  BY <1>3, PlaceOf DEF CommandOK, First, Transient
<1>5. cmd'[p] = c /\ pc'[p] = First(c) /\ result'[p] = None
  BY <1>1, <1>2 DEF Goto, ContainersInv, TypeOK, ProcessSound, ControlSound
<1>6. Clean(p)'
  BY <1>2 DEF ContainersInv, ProcessSound, NameSound, Clean, Exists
<1>7. TypeOK' /\ Proceeds(p) /\ LabelsRespected'
  BY <1>1, <1>2 DEF Goto, ContainersInv, TypeOK, Proceeds, Podman,
     LabelsRespected
<1>8. ControlSound(p)' /\ NameSound(p)'
  BY <1>4, <1>5, <1>6 DEF ControlSound, NameSound, Clean
<1>9. LeftoverSound(p)' /\ CleanupSound(p)'
  BY <1>4, <1>5, <1>6, NoneAssumption DEF LeftoverSound, CleanupSound
<1>10. GatewaySound(p)'
  BY <1>2, <1>4, <1>5, <1>6 DEF GatewaySound, ContainersInv, ProcessSound, ControlSound
<1> QED
  BY <1>7, <1>8, <1>9, <1>10, ProcessStep DEF ProcessSound

\* A container ends, or the user runs one.
LEMMA OutsideStep ==
    ASSUME ContainersInv, (\E n \in Names : ContainerExits(n)) \/ ForeignRun
    PROVE  ContainersInv'
<1>1. /\ UNCHANGED <<cmd, todo, made, listed, plan, phase, believes, pc, failed,
                     result, removed>>
      /\ strangers' \in Nat /\ strangers' >= strangers
  BY DEF ContainerExits, ForeignRun, command, gateway, bounds, ContainersInv, TypeOK
<1>2. /\ ctr' \in [Names -> Container \cup {None}]
      /\ \A n \in Names :
            \/ ctr'[n] \in {ctr[n], None}
            \/ /\ ctr'[n].by = Foreign /\ ctr'[n].id = strangers
               /\ strangers' > strangers
  <2>1. CASE \E n \in Names : ContainerExits(n)
    BY <2>1 DEF ContainerExits, ContainersInv, TypeOK
  <2>2. CASE ForeignRun
    <3> DEFINE c == [by |-> Foreign, id |-> strangers, managed |-> FALSE,
                     role |-> "none", app |-> "none"]
    <3>1. c \in Container /\ c.by = Foreign /\ c.id = strangers
      BY DEF Container, Roles, ContainersInv, TypeOK
    <3>2. PICK n \in Apps \cup {"gateway"} : ctr' = [ctr EXCEPT ![n] = c]
      BY <2>2 DEF ForeignRun
    <3>3. strangers' > strangers
      BY <2>2 DEF ForeignRun, ContainersInv, TypeOK
    <3> HIDE DEF c
    <3> QED
      BY <3>1, <3>2, <3>3 DEF ContainersInv, TypeOK, Names
  <2> QED
    BY <2>1, <2>2
<1>3. TypeOK'
  BY <1>1, <1>2 DEF ContainersInv, TypeOK
<1>4. ASSUME NEW c \in Container, Dated(c)
      PROVE  Dated(c)'
  BY <1>1, <1>4 DEF Dated, Container, ContainersInv, TypeOK
<1>5. DatesSound'
  <2>1. ASSUME NEW n \in Names, Exists(n)'
        PROVE  Dated(ctr[n])'
    <3>1. CASE ctr'[n] = ctr[n]
      BY <1>4, <2>1, <3>1 DEF ContainersInv, DatesSound, Exists, TypeOK
    <3>2. CASE ctr'[n].by = Foreign /\ ctr'[n].id = strangers
               /\ strangers' > strangers
      BY <3>2 DEF Dated
    <3> QED
      BY <1>2, <2>1, <3>1, <3>2 DEF Exists
  <2>2. ASSUME NEW q \in Processes, NEW l \in listed[q], l[2] # None
        PROVE  Dated(l[2])'
    BY <1>4, <2>2 DEF ContainersInv, DatesSound, TypeOK
  <2> QED
    BY <1>1, <2>1, <2>2 DEF DatesSound
<1>6. ASSUME NEW q \in Processes
      PROVE  ProcessSound(q)'
  <2>1. ASSUME NEW n \in Names, ctr'[n] \notin {ctr[n], None}
        PROVE  ctr'[n].by # q /\ ~Dated(ctr'[n])
    BY <1>2, <2>1, OwnersAssumption DEF Dated, ContainersInv, TypeOK
  <2> QED
    BY <1>1, <1>3, <2>1, Elsewhere DEF ContainersInv
<1> QED
  BY <1>1, <1>3, <1>5, <1>6 DEF ContainersInv, LabelsRespected

-----------------------------------------------------------------------------
LEMMA InitInv == Init => ContainersInv
<1> SUFFICES ASSUME Init
             PROVE  ContainersInv
  OBVIOUS
<1>1. TypeOK
  BY DEF Init, TypeOK
<1>2. DatesSound
  BY DEF Init, DatesSound, Exists
<1>3. ASSUME NEW p \in Processes
      PROVE  ProcessSound(p)
  BY NoneAssumption DEF Init, ProcessSound, ControlSound, NameSound, LeftoverSound,
     GatewaySound, CleanupSound, Exists
<1> QED
  BY <1>1, <1>2, <1>3 DEF Init, ContainersInv, LabelsRespected

LEMMA NextInv == ContainersInv /\ [Next]_vars => ContainersInv'
<1> SUFFICES ASSUME ContainersInv, [Next]_vars
             PROVE  ContainersInv'
  OBVIOUS
<1>1. ASSUME NEW p \in Processes, Step(p)
      PROVE  ContainersInv'
  BY <1>1, BeginStep, CheckManagedStep, CheckFreeStep, CreateStep,
     AttachedReturnsStep, MeasureStep, RemoveAfterStep, WithCleanupFailureStep,
     StopApplicationStep, StopRemovesStep, CleanupPlanStep, CleanupRemovesStep,
     RequireAvailableStep, LabelsStep, GatewayRemovesStep, TakeControlStep,
     SchedulerStep, WaitReadyStep, RemoveOwnedStep, QueryFailsStep, KillStep
     DEF Step
<1>2. CASE (\E n \in Names : ContainerExits(n)) \/ ForeignRun
  BY <1>2, OutsideStep
<1>3. CASE UNCHANGED vars
  <2>1. UNCHANGED <<ctr, cmd, todo, made, listed, plan, phase, believes, pc, failed,
                    result, removed, strangers>>
    BY <1>3 DEF vars, command, gateway, bounds
  <2> QED
    BY <2>1 DEF ContainersInv, TypeOK, DatesSound, Dated, ProcessSound,
       ControlSound, NameSound, NameOf, LeftoverSound, GatewaySound, CleanupSound,
       Clean, Exists, LabelsRespected
<1> QED
  BY <1>1, <1>2, <1>3 DEF Next

\* The inductive invariant of the container commands.
THEOREM ContainersInvariant == Spec => []ContainersInv
BY InitInv, NextInv, PTL DEF Spec

\* A command that returned left no container behind without saying so, and a
\* gateway that takes its backend to be absent has none, whichever of the Podman
\* calls failed and whoever else uses Podman.
THEOREM NothingLeftSilently == Spec => []NoSilentLeftover
<1>1. ContainersInv => NoSilentLeftover
  <2> SUFFICES ASSUME ContainersInv
               PROVE  NoSilentLeftover
    OBVIOUS
  <2>1. LeftoversReported
    BY DEF ContainersInv, ProcessSound, LeftoverSound, LeftoversReported, Clean
  <2>2. ASSUME NEW p \in Processes,
               pc[p] \in {"served", "list", "exists", "labels", "reclaim", "create"},
               cmd[p].op = "gateway", believes[p] = "absent"
        PROVE  ~Mine(p)
    <3>1. Clean(p) /\ cmd[p] \in Commands
      BY <2>2, CommandAt DEF ContainersInv, ProcessSound, GatewaySound
    <3> QED
      BY <2>2, <3>1, NameOfIn DEF Clean, Mine
  <2> QED
    BY <2>1, <2>2 DEF NoSilentLeftover, AbsentMeansGone
<1> QED
  BY <1>1, ContainersInvariant, PTL

\* A cleanup that succeeded left none of the containers it had listed.
THEOREM CleanupIsComplete == Spec => []CleanupComplete
<1>1. ContainersInv => CleanupComplete
  <2> SUFFICES ASSUME ContainersInv, NEW p \in Processes, cmd[p] # None,
                      cmd[p].op = "cleanup", result[p] = "ok", NEW l \in listed[p]
               PROVE  ctr[l[1]] # l[2]
    BY DEF CleanupComplete
  <2>1. pc[p] # "idle"
    BY NoneAssumption DEF ContainersInv, ProcessSound, ControlSound
  <2> QED
    BY <2>1 DEF ContainersInv, ProcessSound, CleanupSound
<1> QED
  BY <1>1, ContainersInvariant, PTL

-----------------------------------------------------------------------------
(* The control lock, and what its holder removes.                          *)

\* p goes on, and if it is past the lock now it was so before.
LEMMA HeldOn ==
    ASSUME ContainersInv, ControlHeld, NEW p \in Processes, NEW label,
           Goto(p, label), cmd' = cmd, \A q \in Processes \ {p} : phase'[q] = phase[q],
           \/ Serves(p)
           \/ cmd[p].op # "gateway"
           \/ label = "lock"
           \/ label \in {"exists", "labels", "reclaim"} /\ phase'[p] = "preflight"
    PROVE  ControlHeld'
<1>1. pc'[p] = label /\ control' = control /\ \A q \in Processes \ {p} : pc'[q] = pc[q]
  BY DEF Goto, ContainersInv, TypeOK
<1>2. Serves(p)' => control' = p
  BY <1>1 DEF Serves, ControlHeld
<1>3. ASSUME NEW q \in Processes \ {p}, Serves(q)'
      PROVE  control' = q
  BY <1>1, <1>3 DEF Serves, ControlHeld
<1> QED
  BY <1>2, <1>3 DEF ControlHeld

\* p gives the lock back, if it had it.
LEMMA HeldToTheEnd ==
    ASSUME ContainersInv, ControlHeld, NEW p \in Processes,
           (\E value : Return(p, value)) \/ Kill(p), UNCHANGED <<cmd, phase>>
    PROVE  ControlHeld'
<1>1. /\ pc'[p] \in {"done", "killed"} /\ \A q \in Processes \ {p} : pc'[q] = pc[q]
      /\ control' = IF control = p THEN None ELSE control
  BY DEF Return, Kill, ContainersInv, TypeOK
<1>2. ~Serves(p)'
  BY <1>1 DEF Serves
<1>3. ASSUME NEW q \in Processes \ {p}, Serves(q)'
      PROVE  control' = q
  <2>1. Serves(q)
    BY <1>1, <1>3 DEF Serves
  <2> QED
    BY <1>1, <2>1 DEF ControlHeld
<1> QED
  BY <1>2, <1>3 DEF ControlHeld

\* The commands other than the gateway.
LEMMA OthersHold ==
    ASSUME ContainersInv, ControlHeld, NEW p \in Processes,
           \/ CheckManaged(p) \/ CheckFree(p) \/ AttachedReturns(p) \/ Measure(p)
           \/ RemoveAfter(p) \/ WithCleanupFailure(p) \/ StopApplication(p)
           \/ StopRemoves(p) \/ CleanupPlan(p) \/ CleanupRemoves(p)
    PROVE  ControlHeld' /\ (UsedSpared => UsedSpared')
<1>1. cmd[p].op # "gateway"
  BY CommandAt DEF CheckManaged, CheckFree, AttachedReturns, Measure, RemoveAfter,
     WithCleanupFailure, StopApplication, StopRemoves, CleanupPlan, CleanupRemoves,
     ContainersInv, ProcessSound, Transient
<1>2. UNCHANGED <<cmd, phase>>
  BY DEF CheckManaged, CheckFree, AttachedReturns, Measure, RemoveAfter, command,
     WithCleanupFailure, StopApplication, StopRemoves, CleanupPlan, CleanupRemoves
<1>3. removed' \subseteq removed
  <2>1. ASSUME NEW n, RemoveContainer(p, n)
        PROVE  removed' \subseteq removed
    BY <1>1, <2>1 DEF RemoveContainer
  <2> QED
    BY <2>1 DEF CheckManaged, CheckFree, AttachedReturns, Measure, RemoveAfter,
       WithCleanupFailure, StopApplication, StopRemoves, CleanupPlan, CleanupRemoves,
       RemovalFails
<1>4. (\E label : Goto(p, label)) \/ (\E value : Return(p, value))
  BY DEF CheckManaged, CheckFree, AttachedReturns, Measure, RemoveAfter,
     WithCleanupFailure, StopApplication, StopRemoves, CleanupPlan, CleanupRemoves,
     NextOrReturn, RunFailed
<1> QED
  BY <1>1, <1>2, <1>3, <1>4, HeldOn, HeldToTheEnd DEF UsedSpared

\* The steps of a gateway that remove nothing, and the other creations.
LEMMA GatewaysHold ==
    ASSUME ContainersInv, ControlHeld, NEW p \in Processes,
           \/ Create(p) \/ RequireAvailable(p) \/ TargetExists(p) \/ TargetLabels(p)
           \/ StartBackend(p) \/ WaitReady(p) \/ StopBackend(p) \/ Shutdown(p)
           \/ RemoveOwned(p) \/ OwnedLabels(p) \/ QueryFails(p)
    PROVE  ControlHeld' /\ (UsedSpared => UsedSpared')
<1>1. cmd' = cmd /\ removed' = removed /\ \A q \in Processes \ {p} : phase'[q] = phase[q]
  BY DEF Create, RequireAvailable, TargetExists, TargetLabels, StartBackend, WaitReady,
     StopBackend, Shutdown, RemoveOwned, OwnedLabels, QueryFails, command,
     ContainersInv, TypeOK
<1>2. CASE Create(p) \/ WaitReady(p) \/ RemoveOwned(p) \/ OwnedLabels(p)
  <2>1. /\ pc[p] \in {"create", "working", "owned", "ownedLabels"}
        /\ UNCHANGED phase
    BY <1>2 DEF Create, WaitReady, RemoveOwned, OwnedLabels
  <2>2. Serves(p) \/ cmd[p].op # "gateway"
    BY <2>1 DEF Serves
  <2>3. (\E label : Goto(p, label)) \/ (\E value : Return(p, value))
    BY <1>2 DEF Create, WaitReady, RemoveOwned, OwnedLabels, RunFailed, OwnedGone,
       OwnedFailed
  <2> QED
    BY <1>1, <2>1, <2>2, <2>3, HeldOn, HeldToTheEnd DEF UsedSpared
<1>3. CASE RequireAvailable(p) \/ TargetExists(p) \/ TargetLabels(p)
           \/ (QueryFails(p) /\ pc[p] \in {"list", "exists", "labels"})
  <2>1. /\ pc[p] \in {"list", "exists", "labels"}
        /\ UNCHANGED phase
    BY <1>3 DEF RequireAvailable, TargetExists, TargetLabels, QueryFails
  <2>2. cmd[p].op = "gateway"
    BY <2>1, CommandAt DEF ContainersInv, ProcessSound
  <2>3. \/ \E label \in {"exists", "labels", "reclaim"} : Goto(p, label)
        \/ RequireMet(p) \/ RequireFailed(p)
    BY <1>3 DEF RequireAvailable, TargetExists, TargetLabels, QueryFails
  <2>4. CASE phase[p] = "preflight"
    <3>1. \/ \E label \in {"exists", "labels", "reclaim"} : Goto(p, label)
          \/ Goto(p, "lock") \/ Return(p, "error")
      BY <2>3, <2>4 DEF RequireMet, RequireFailed
    <3> QED
      BY <1>1, <2>1, <2>4, <3>1, HeldOn, HeldToTheEnd DEF UsedSpared
  <2>5. CASE phase[p] # "preflight"
    <3>1. Serves(p)
      BY <2>1, <2>2, <2>5 DEF Serves
    <3>2. \E label : Goto(p, label)
      BY <2>3, <2>5 DEF RequireMet, RequireFailed
    <3> QED
      BY <1>1, <3>1, <3>2, HeldOn DEF UsedSpared
  <2> QED
    BY <2>4, <2>5
<1>4. CASE StartBackend(p) \/ StopBackend(p) \/ Shutdown(p)
  <2>1. pc[p] = "served"
    BY <1>4 DEF StartBackend, StopBackend, Shutdown
  <2>2. cmd[p].op = "gateway"
    BY <2>1, CommandAt DEF ContainersInv, ProcessSound
  <2>3. Serves(p)
    BY <2>1, <2>2 DEF Serves
  <2>4. CASE \E label : Goto(p, label)
    BY <1>1, <2>3, <2>4, HeldOn DEF UsedSpared
  <2>5. CASE Return(p, "ok")
    <3>1. ASSUME NEW q \in Processes, Serves(q)'
          PROVE  control' = q
      <4>1. q # p /\ control # p
        <5>1. q # p
          BY <2>5, <3>1 DEF Return, Serves, ContainersInv, TypeOK
        <5>2. Serves(q)
          BY <1>1, <2>5, <3>1, <5>1 DEF Return, Serves, ContainersInv, TypeOK
        <5> QED
          BY <2>3, <5>1, <5>2 DEF ControlHeld
      <4> QED
        BY <2>3, <4>1 DEF ControlHeld
    <3> QED
      BY <1>1, <3>1 DEF ControlHeld, UsedSpared
  <2> QED
    BY <1>4, <2>4, <2>5 DEF StartBackend, StopBackend, Shutdown
<1>5. CASE QueryFails(p) /\ pc[p] \notin {"list", "exists", "labels"}
  <2>1. UNCHANGED phase
    BY <1>5 DEF QueryFails
  <2>2. CASE \E value : Return(p, value)
    BY <1>1, <2>1, <2>2, HeldToTheEnd DEF UsedSpared
  <2>3. CASE pc[p] \in {"owned", "ownedLabels"} /\ \E label : Goto(p, label)
    <3>1. Serves(p) \/ cmd[p].op # "gateway"
      BY <2>3 DEF Serves
    <3> QED
      BY <1>1, <2>1, <2>3, <3>1, HeldOn DEF UsedSpared
  <2> QED
    BY <1>5, <2>2, <2>3 DEF QueryFails, OwnedFailed
<1> QED
  BY <1>2, <1>3, <1>4, <1>5

\* A gateway past the lock finds no backend that another one is using.
LEMMA NotInUse ==
    ASSUME ContainersInv, ControlHeld, NEW p \in Processes, Serves(p),
           Exists("gateway")
    PROVE  ~InUse(p, "gateway")
<1> SUFFICES ASSUME InUse(p, "gateway")
             PROVE  FALSE
  OBVIOUS
<1> DEFINE q == ctr["gateway"].by
<1>1. q \in Processes /\ q # p /\ pc[q] \notin {"done", "killed"} /\ "gateway" \in Names
  BY DEF InUse, Names
<1> HIDE DEF q
<1>2. pc[q] # "idle" /\ NameOf(q) = "gateway" /\ ~Clean(q)
  BY <1>1 DEF q, ContainersInv, ProcessSound, NameSound, Clean
<1>3. cmd[q] \in Commands /\ pc[q] \in Places(cmd[q]) /\ CommandOK(cmd[q])
  BY <1>1, <1>2, CommandsAssumption DEF ContainersInv, ProcessSound, ControlSound
<1>4. cmd[q].op = "gateway"
  BY <1>1, <1>2, <1>3, NamesAssumption DEF NameOf, CommandOK, Apps, Transient
<1>5. pc[q] \notin {"list", "exists", "labels", "reclaim", "lock"}
  BY <1>1, <1>2, Looking
<1>6. pc[q] \in {"create", "working", "served", "owned", "ownedLabels", "ownedRemove"}
  BY <1>1, <1>2, <1>3, <1>4, <1>5 DEF Places, Transient
<1> QED
  BY <1>1, <1>4, <1>6 DEF Serves, ControlHeld

\* The steps of a gateway that remove.
LEMMA RemovalsHold ==
    ASSUME ContainersInv, ControlHeld, UsedSpared, NEW p \in Processes,
           Reclaim(p) \/ OwnedRemove(p)
    PROVE  ControlHeld' /\ UsedSpared'
<1>1. pc[p] \in {"reclaim", "ownedRemove"} /\ UNCHANGED <<cmd, phase>>
  BY DEF Reclaim, OwnedRemove
<1>2. cmd[p].op = "gateway"
  BY <1>1, CommandAt DEF ContainersInv, ProcessSound
<1>3. Serves(p) \/ (phase[p] = "preflight" /\ Reclaim(p))
  BY <1>1, <1>2 DEF Serves, Reclaim, OwnedRemove
<1>4. UsedSpared'
  <2>1. CASE RemovalFails
    BY <2>1 DEF RemovalFails, UsedSpared
  <2>2. CASE RemoveContainer(p, "gateway")
    <3>1. ASSUME NEW r \in removed', r \notin removed, r.used
          PROVE  r.early
      <4>1. /\ Exists("gateway")
            /\ r = [role |-> ctr["gateway"].role,
                    seen |-> <<"gateway", ctr["gateway"]>> \in listed[p],
                    used |-> InUse(p, "gateway"), early |-> phase[p] = "preflight"]
        BY <2>2, <3>1 DEF RemoveContainer
      <4>2. InUse(p, "gateway") /\ (r.early <=> phase[p] = "preflight")
        BY <3>1, <4>1
      <4> QED
        BY <1>3, <4>1, <4>2, NotInUse
    <3> QED
      BY <3>1 DEF UsedSpared
  <2> QED
    BY <2>1, <2>2 DEF Reclaim, OwnedRemove
<1>5. ControlHeld'
  <2>1. CASE \E value : Return(p, value)
    BY <1>1, <2>1, HeldToTheEnd
  <2>2. CASE \E label : Goto(p, label) /\ (Serves(p) \/ label = "lock")
    BY <1>1, <2>2, HeldOn
  <2>3. CASE Serves(p)
    BY <2>1, <2>2, <2>3 DEF Reclaim, OwnedRemove, RequireMet, RequireFailed,
       OwnedGone, OwnedFailed
  <2>4. CASE phase[p] = "preflight" /\ Reclaim(p)
    BY <2>1, <2>2, <2>4 DEF Reclaim, RequireMet, RequireFailed
  <2> QED
    BY <1>3, <2>3, <2>4
<1> QED
  BY <1>4, <1>5

\* The steps that begin a command, take the lock, or are nobody's.
LEMMA HeldElsewhere ==
    ASSUME ContainersInv, ControlHeld,
           \/ \E p \in Processes : Begin(p) \/ TakeControl(p) \/ Kill(p)
           \/ (\E n \in Names : ContainerExits(n)) \/ ForeignRun \/ UNCHANGED vars
    PROVE  ControlHeld' /\ (UsedSpared => UsedSpared')
<1>1. removed' = removed
  BY DEF Begin, TakeControl, Kill, ContainerExits, ForeignRun, vars
<1>2. ASSUME NEW p \in Processes, Begin(p)
      PROVE  ControlHeld'
  <2>1. PICK c \in Commands :
           /\ cmd' = [cmd EXCEPT ![p] = c]
           /\ phase' = [phase EXCEPT ![p] = "preflight"]
           /\ Goto(p, First(c))
    BY <1>2 DEF Begin
  <2>2. /\ cmd'[p] = c /\ phase'[p] = "preflight" /\ pc'[p] = First(c)
        /\ control' = control
        /\ \A q \in Processes \ {p} :
              cmd'[q] = cmd[q] /\ phase'[q] = phase[q] /\ pc'[q] = pc[q]
    BY <2>1 DEF Goto, ContainersInv, TypeOK
  <2>3. ~Serves(p)'
    BY <2>2 DEF Serves, First
  <2>4. ASSUME NEW q \in Processes \ {p}, Serves(q)'
        PROVE  control' = q
    BY <2>2, <2>4 DEF Serves, ControlHeld
  <2> QED
    BY <2>3, <2>4 DEF ControlHeld
<1>3. ASSUME NEW p \in Processes, TakeControl(p)
      PROVE  ControlHeld'
  <2>1. UNCHANGED <<cmd, phase>>
    BY <1>3 DEF TakeControl, command
  <2>2. CASE control = None
    <3>1. ASSUME NEW q \in Processes \ {p}
          PROVE  ~Serves(q)'
      <4>1. Serves(q)' => Serves(q)
        BY <1>3, <2>1, <2>2 DEF TakeControl, Serves, ContainersInv, TypeOK
      <4>2. q # None
        BY <1>3, <2>2, <3>1, HolderAssumption
      <4> QED
        BY <2>2, <4>1, <4>2 DEF ControlHeld
    <3> QED
      BY <1>3, <2>2, <3>1 DEF TakeControl, ControlHeld
  <2>3. CASE control # None
    BY <1>3, <2>1, <2>3, HeldToTheEnd DEF TakeControl
  <2> QED
    BY <2>2, <2>3
<1>4. ASSUME NEW p \in Processes, Kill(p)
      PROVE  ControlHeld'
  BY <1>4, HeldToTheEnd DEF Kill, command
<1>5. CASE (\E n \in Names : ContainerExits(n)) \/ ForeignRun \/ UNCHANGED vars
  <2>1. UNCHANGED <<cmd, phase, pc, control>>
    BY <1>5 DEF ContainerExits, ForeignRun, vars, command, gateway
  <2>2. ASSUME NEW q \in Processes, Serves(q)'
        PROVE  control' = q
    <3>1. Serves(q)
      BY <2>1, <2>2 DEF Serves
    <3> QED
      BY <2>1, <3>1 DEF ControlHeld
  <2> QED
    BY <1>1, <2>2 DEF ControlHeld, UsedSpared
<1> QED
  BY <1>1, <1>2, <1>3, <1>4, <1>5 DEF UsedSpared

LEMMA ControlInv ==
    Spec => [](ControlHeld /\ UsedSpared)
<1>1. Init => ControlHeld /\ UsedSpared
  BY DEF Init, ControlHeld, Serves, UsedSpared
<1>2. ASSUME ContainersInv, ControlHeld, UsedSpared, [Next]_vars
      PROVE  ControlHeld' /\ UsedSpared'
  BY <1>2, OthersHold, GatewaysHold, RemovalsHold, HeldElsewhere DEF Next, Step
<1> QED
  BY <1>1, <1>2, ContainersInvariant, PTL DEF Spec

\* What a gateway removes under the labels it read is a backend of a gateway,
\* and no other gateway that is running uses it, once the one that removes it is
\* past the control lock.
THEOREM OnlyBackendsRemoved == Spec => []GatewayRemovesBackends
<1>1. ContainersInv /\ UsedSpared => GatewayRemovesBackends
  BY DEF ContainersInv, GatewayRemovesBackends
<1> QED
  BY <1>1, ContainersInvariant, ControlInv, PTL

-----------------------------------------------------------------------------
(* Images: the units and the order in which they are taken.                *)

LEMMA UnitsFacts ==
    /\ DOMAIN Units \subseteq Nat
    /\ Prerequisites \in [UnitSet -> SUBSET UnitSet]
    /\ \A i \in DOMAIN Units : \A q \in Prerequisites[Units[i]] :
         \E j \in DOMAIN Units : j < i /\ Units[j] = q
<1>1. DOMAIN Units = 1..Len(Units) /\ Len(Units) \in Nat
  BY UnitsAssumption
<1> QED
  BY <1>1, UnitsAssumption

\* A loop takes one of its units, and after what that one is built on.
LEMMA ForemostIs ==
    ASSUME NEW S \in SUBSET UnitSet, S # {}
    PROVE  /\ Foremost(S) \in S
           /\ \A q \in Prerequisites[Foremost(S)] : q \notin S
<1> DEFINE I == {i \in DOMAIN Units : Units[i] \in S}
           least(i) == Units[i] \in S /\ \A j \in DOMAIN Units : Units[j] \in S => i <= j
<1>1. I \in SUBSET Nat /\ I # {}
  BY UnitsFacts DEF UnitSet
<1>2. PICK m \in I : \A k \in I : ~(<<k, m>> \in OpToRel(<, Nat))
  <2> HIDE DEF I
  <2> QED
    BY <1>1, WFMin, NatLessThanWellFounded, Zenon
<1>3. \A k \in I : ~(k < m)
  <2> HIDE DEF I
  <2> QED
    BY <1>1, <1>2, Zenon DEF OpToRel
<1>4. \E i \in DOMAIN Units : least(i)
  BY <1>1, <1>3
<1>5. PICK i \in DOMAIN Units : least(i) /\ Foremost(S) = Units[i]
  BY <1>4 DEF Foremost
<1> QED
  BY <1>5, UnitsFacts

LEMMA ClosureIs ==
    ASSUME NEW t \in UnitSet \cup {"all"}
    PROVE  /\ BuildClosure(t) \subseteq UnitSet
           /\ \A u \in BuildClosure(t) : Prerequisites[u] \subseteq BuildClosure(t)
<1>1. \A u \in UnitSet : Prerequisites[u] \subseteq UnitSet
  BY UnitsFacts
<1>2. CASE t = "all"
  BY <1>1, <1>2 DEF BuildClosure
<1>3. CASE t # "all"
  <2>1. BuildClosure(t) = Needs(t)
    BY <1>3 DEF BuildClosure
  <2>2. ASSUME NEW u \in Needs(t), NEW q \in Prerequisites[u]
        PROVE  q \in Needs(t)
    BY <1>1, <2>2 DEF Needs, Closed
  <2> QED
    BY <2>1, <2>2 DEF Needs
<1> QED
  BY <1>2, <1>3

LEMMA WithIs ==
    ASSUME NEW f, IsAssignment(f), NEW u \in UnitSet, NEW x \in Nat
    PROVE  /\ IsAssignment(With(f, u, x))
           /\ DOMAIN With(f, u, x) = DOMAIN f \cup {u}
           /\ With(f, u, x)[u] = x
           /\ \A v \in DOMAIN f : v # u => With(f, u, x)[v] = f[v]
BY DEF IsAssignment, With

LEMMA NothingIs ==
    IsAssignment(Nothing) /\ DOMAIN Nothing = {}
BY DEF IsAssignment, Nothing

LEMMA Appended ==
    ASSUME NEW s, s \in Seq({s[i] : i \in DOMAIN s}), NEW x
    PROVE  LET t == Append(s, x)
           IN  /\ t \in Seq({t[i] : i \in DOMAIN t})
               /\ DOMAIN t = DOMAIN s \cup {Len(s) + 1}
               /\ Len(s) + 1 \in Nat \ {0} /\ Len(s) + 1 \notin DOMAIN s
               /\ DOMAIN s \subseteq Nat \ {0}
               /\ t[Len(s) + 1] = x
               /\ \A i \in DOMAIN s : t[i] = s[i]
<1> DEFINE S == {s[i] : i \in DOMAIN s}
           T == S \cup {x}
           t == Append(s, x)
<1>1. s \in Seq(T) /\ x \in T
  <2>1. s \in Seq(S) /\ S \subseteq T
    OBVIOUS
  <2> HIDE DEF S, T
  <2>2. s \in Seq(T)
    BY <2>1
  <2> QED
    BY <2>2 DEF T
<1> HIDE DEF T
<1>2. /\ t \in Seq(T) /\ Len(s) \in Nat /\ Len(t) = Len(s) + 1
      /\ DOMAIN s = 1..Len(s) /\ DOMAIN t = 1..(Len(s) + 1)
      /\ t[Len(s) + 1] = x /\ \A i \in DOMAIN s : t[i] = s[i]
  BY <1>1
<1>3. t \in Seq({t[i] : i \in DOMAIN t})
  <2> HIDE DEF t
  <2>1. t \in [1..(Len(s) + 1) -> T]
    BY <1>2
  <2>2. t \in [1..(Len(s) + 1) -> {t[i] : i \in DOMAIN t}]
    BY <2>1
  <2> QED
    BY <1>2, <2>2
<1> QED
  BY <1>2, <1>3

-----------------------------------------------------------------------------
(* What a step of one process leaves alone of another.                     *)

Same(q) ==
    /\ at'[q] = at[q] /\ outcome'[q] = outcome[q] /\ job'[q] = job[q]
    /\ queue'[q] = queue[q] /\ ids'[q] = ids[q] /\ file'[q] = file[q]
    /\ loading'[q] = loading[q] /\ replaced'[q] = replaced[q]

SameHistory(q) ==
    moved'[q] = moved[q] /\ moments'[q] = moments[q] /\ back'[q] = back[q]

LEMMA QuietSound ==
    ASSUME NEW q \in Workers, WorkerSound(q), Same(q), SameHistory(q),
           tag' = tag, origin' = origin
    PROVE  WorkerSound(q)'
<1> USE DEF Same, SameHistory, WorkerSound
<1>1. CommandSound(q)'
  BY DEF CommandSound
<1>2. \A u : Knows(q, u)' <=> Knows(q, u)
  BY DEF Knows
<1>3. BuildSound(q)'
  BY <1>2 DEF BuildSound
<1>4. Watched(q)' = Watched(q)
  BY DEF Watched
<1>5. ViewSound(q)'
  BY <1>4 DEF ViewSound
<1>6. /\ Agreed(q, BuildClosure(job[q].target), ids[q], file[q])' <=>
         Agreed(q, BuildClosure(job[q].target), ids[q], file[q])
      /\ Agreed(q, DOMAIN file[q], file[q], ids[q])' <=>
         Agreed(q, DOMAIN file[q], file[q], ids[q])
      /\ \A u : Met(q, u, ids[q])' <=> Met(q, u, ids[q])
      /\ \A u : Met(q, u, file[q])' <=> Met(q, u, file[q])
  BY DEF Agreed, Met
<1>7. ExportSound(q)'
  BY <1>6 DEF ExportSound
<1>8. ImportSound(q)'
  BY <1>2, <1>6 DEF ImportSound
<1>9. MomentSound(q)'
  BY DEF MomentSound
<1> QED
  BY <1>1, <1>3, <1>5, <1>7, <1>8, <1>9

\* What the histories of q record when p moves a tag.
LEMMA TaggedIs ==
    ASSUME ImagesTypeOK, NEW p \in Workers, NEW u \in UnitSet, NEW image \in Nat,
           Tagged(p, u, image), NEW q \in Workers, q # p
    PROVE  /\ tag'[u] = image /\ \A v \in UnitSet : v # u => tag'[v] = tag[v]
           /\ ~Running(q) => SameHistory(q)
           /\ Running(q) =>
                /\ moved[q] \subseteq moved'[q]
                /\ tag[u] # image => u \in moved'[q]
                /\ moments[q] \subseteq moments'[q]
                /\ back[q] \subseteq back'[q]
                /\ \A m \in moments[q] :
                     u \in Watched(q) /\ tag[u] # image /\ m[u] = image => u \in back'[q]
<1>1. tag'[u] = image /\ \A v \in UnitSet : v # u => tag'[v] = tag[v]
  BY DEF Tagged, ImagesTypeOK, StoreTypeOK
<1>2. ~Running(q) => SameHistory(q)
  BY DEF Tagged, SameHistory
<1>3. ASSUME Running(q)
      PROVE  moved[q] \subseteq moved'[q] /\ (tag[u] # image => u \in moved'[q])
  BY <1>3 DEF Tagged
<1>4. moments[q] \subseteq moments'[q]
  BY DEF Tagged
<1>5. back'[q] = IF /\ q # p /\ Running(q) /\ u \in Watched(q) /\ tag[u] # image
                    /\ \E m \in moments[q] : m[u] = image
                 THEN back[q] \cup {u} ELSE back[q]
  BY DEF Tagged
<1> QED
  BY <1>1, <1>2, <1>3, <1>4, <1>5

\* The present view is recorded, and an earlier one is not forgotten.
LEMMA ViewMoves ==
    ASSUME ImagesTypeOK, NEW p \in Workers, NEW u \in UnitSet, NEW image \in Nat,
           Tagged(p, u, image), NEW q \in Workers,
           at[q] \in {"inspect", "save", "publish", "compare", "load", "verify"},
           at'[q] = at[q], job'[q] = job[q], file'[q] = file[q],
           ViewSound(q)
    PROVE  /\ ViewSound(q)' /\ moments[q] \subseteq moments'[q]
           /\ [v \in Watched(q) |-> tag'[v]] \in moments'[q]
<1>1. Running(q)
  BY DEF Running
<1>2. Watched(q)' = Watched(q)
  BY DEF Watched
<1>3. \/ moments'[q] = moments[q] \cup {[v \in Watched(q) |-> tag'[v]]}
      \/ Watched(q) = {} /\ moments'[q] = moments[q]
  BY <1>1 DEF Tagged
<1>4. /\ [v \in Watched(q) |-> tag[v]] \in moments[q]
      /\ \A m \in moments[q] : m = [v \in Watched(q) |-> m[v]]
  BY DEF ViewSound
<1>5. [v \in Watched(q) |-> tag'[v]] \in moments'[q]
  <2>1. CASE Watched(q) = {} /\ moments'[q] = moments[q]
    <3>1. [v \in Watched(q) |-> tag'[v]] = [v \in Watched(q) |-> tag[v]]
      BY <2>1
    <3> QED
      BY <1>4, <2>1, <3>1
  <2> QED
    BY <1>3, <2>1
<1>6. \A m \in moments'[q] : m = [v \in Watched(q) |-> m[v]]
  BY <1>3, <1>4
<1>7. moments[q] \subseteq moments'[q]
  BY <1>3
<1>8. ViewSound(q)'
  BY <1>2, <1>5, <1>6 DEF ViewSound
<1> QED
  BY <1>5, <1>7, <1>8

\* Met and Agreed of all the tags in T, for the moments "past", the tags "now"
\* and the tags "turned" back.
Recalled(past, now, turned, T, wanted, seen) ==
    /\ \A v \in T : \E m \in past : m[v] = wanted[v]
    /\ turned = {} =>
         \E m \in past : \A v \in T :
           \/ m[v] = wanted[v]
           \/ now[v] # wanted[v] /\ (v \in DOMAIN seen => seen[v] # wanted[v])

\* Two comparisons of a tag that agree have seen the same image in between,
\* unless the tag was moved away and back.
LEMMA AgreedMoves ==
    ASSUME ImagesTypeOK, NEW p \in Workers, NEW u \in UnitSet, NEW image \in Nat,
           Tagged(p, u, image), NEW q \in Workers, q # p, Running(q),
           NEW T \in SUBSET UnitSet, NEW wanted, NEW seen, T \subseteq Watched(q),
           Recalled(moments[q], tag, back[q], T, wanted, seen)
    PROVE  Recalled(moments'[q], tag', back'[q], T, wanted, seen)
<1>1. /\ tag'[u] = image /\ \A v \in UnitSet : v # u => tag'[v] = tag[v]
      /\ back[q] \subseteq back'[q]
      /\ \A m \in moments[q] :
            u \in Watched(q) /\ tag[u] # image /\ m[u] = image => u \in back'[q]
  BY TaggedIs
<1>2. moments[q] \subseteq moments'[q]
  BY TaggedIs
<1>3. ASSUME back'[q] = {}
      PROVE  \E m \in moments'[q] : \A v \in T :
               \/ m[v] = wanted[v]
               \/ tag'[v] # wanted[v] /\ (v \in DOMAIN seen => seen[v] # wanted[v])
  <2>1. back[q] = {}
    BY <1>1, <1>3
  <2>2. PICK m \in moments[q] : \A v \in T :
               \/ m[v] = wanted[v]
               \/ tag[v] # wanted[v] /\ (v \in DOMAIN seen => seen[v] # wanted[v])
    BY <2>1 DEF Recalled
  <2>3. ASSUME NEW v \in T, m[v] # wanted[v]
        PROVE  tag'[v] # wanted[v]
    <3>1. CASE v = u
      BY <1>1, <1>3, <2>2, <2>3, <3>1 DEF Recalled
    <3>2. CASE v # u
      BY <1>1, <2>2, <2>3, <3>2
    <3> QED
      BY <3>1, <3>2
  <2> QED
    BY <1>2, <2>2, <2>3
<1> QED
  BY <1>2, <1>3 DEF Recalled

LEMMA OtherTags ==
    ASSUME ImagesTypeOK, NEW p \in Workers, NEW u \in UnitSet, NEW image \in Nat,
           Tagged(p, u, image), NEW q \in Workers, q # p, Same(q), WorkerSound(q),
           DOMAIN origin \subseteq DOMAIN origin',
           \A i \in DOMAIN origin : origin'[i] = origin[i]
    PROVE  WorkerSound(q)'
<1>1. /\ CommandSound(q) /\ BuildSound(q) /\ ViewSound(q) /\ ExportSound(q)
      /\ ImportSound(q) /\ MomentSound(q)
      /\ \A r \in replaced[q] : r.late \/ ~r.inspected
  BY DEF WorkerSound
<1>2. /\ tag'[u] = image /\ \A v \in UnitSet : v # u => tag'[v] = tag[v]
      /\ ~Running(q) => SameHistory(q)
      /\ Running(q) => /\ moved[q] \subseteq moved'[q]
                       /\ tag[u] # image => u \in moved'[q]
  BY TaggedIs
<1>3. /\ at'[q] = at[q] /\ outcome'[q] = outcome[q] /\ job'[q] = job[q]
      /\ queue'[q] = queue[q] /\ ids'[q] = ids[q] /\ file'[q] = file[q]
      /\ loading'[q] = loading[q] /\ replaced'[q] = replaced[q]
  BY DEF Same
<1>4. CommandSound(q)'
  BY <1>1, <1>3 DEF CommandSound
<1>5. moved[q] \subseteq moved'[q]
  BY <1>2 DEF SameHistory
<1>6. ASSUME NEW v \in UnitSet, Running(q)
      PROVE  tag'[v] = tag[v] \/ v \in moved'[q]
  BY <1>2, <1>6
<1>7. ASSUME NEW v \in UnitSet, Running(q), Knows(q, v)
      PROVE  Knows(q, v)'
  BY <1>3, <1>5, <1>6, <1>7 DEF Knows
<1>8. DOMAIN ids[q] \subseteq UnitSet
  BY DEF ImagesTypeOK, LocalsTypeOK, IsAssignment
<1>9. BuildSound(q)'
  <2>1. ASSUME NEW v \in DOMAIN ids[q], job[q].op = "build", ids[q][v] # 0
        PROVE  /\ ids[q][v] \in DOMAIN origin'
               /\ at[q] = "build" => Knows(q, v)'
               /\ \A w \in Prerequisites[v] :
                    /\ w \in DOMAIN ids[q] /\ ids[q][w] # 0
                    /\ \/ origin'[ids[q][v]].basis[w] = ids[q][w]
                       \/ w \in moved'[q]
    <3>1. /\ ids[q][v] \in DOMAIN origin
          /\ at[q] = "build" => Knows(q, v)
          /\ \A w \in Prerequisites[v] :
               /\ w \in DOMAIN ids[q] /\ ids[q][w] # 0
               /\ \/ origin[ids[q][v]].basis[w] = ids[q][w]
                  \/ w \in moved[q]
      BY <1>1, <2>1 DEF BuildSound
    <3>2. at[q] = "build" => Running(q)
      BY DEF Running
    <3> QED
      BY <1>5, <1>7, <1>8, <3>1, <3>2
  <2> QED
    BY <1>1, <1>3, <2>1 DEF BuildSound
<1> DEFINE busy == at[q] \in {"inspect", "save", "publish", "compare", "load", "verify"}
<1>10. busy => /\ Running(q) /\ ViewSound(q)' /\ moments[q] \subseteq moments'[q]
  BY <1>1, <1>3, ViewMoves DEF Running
<1>11. ViewSound(q)'
  BY <1>3, <1>10 DEF ViewSound
<1>12. ExportSound(q)'
  <2> DEFINE W == BuildClosure(job[q].target)
  <2>1. ASSUME at[q] \in {"inspect", "save", "publish"}, NEW v \in DOMAIN ids[q]
        PROVE  Met(q, v, ids[q])'
    BY <1>1, <1>3, <1>10, <2>1 DEF ExportSound, Met
  <2>2. ASSUME at[q] \in {"save", "publish"}, back'[q] = {}
        PROVE  Agreed(q, W, ids[q], file[q])'
    <3>1. /\ DOMAIN ids[q] = W /\ \A v \in W : Met(q, v, ids[q])
          /\ back[q] = {} => Agreed(q, W, ids[q], file[q])
      BY <1>1, <2>2 DEF ExportSound
    <3>2. W \subseteq UnitSet /\ W \subseteq Watched(q) /\ Running(q)
      BY <1>1, <1>8, <2>2, <3>1 DEF CommandSound, Watched, Running
    <3>3. Recalled(moments'[q], tag', back'[q], W, ids[q], file[q])
      <4> HIDE DEF W
      <4>1. Recalled(moments[q], tag, back[q], W, ids[q], file[q])
        BY <3>1 DEF Met, Agreed, Recalled
      <4> QED
        BY <3>2, <4>1, AgreedMoves
    <3> QED
      BY <1>3, <2>2, <3>3 DEF Agreed, Recalled
  <2> QED
    BY <1>1, <1>3, <2>1, <2>2 DEF ExportSound
<1>13. ImportSound(q)'
  <2> DEFINE T == DOMAIN file[q]
             same == loading[q] = file[q]
  <2>1. ASSUME NEW v \in T, at[q] \in {"load", "verify"}, Met(q, v, file[q])
        PROVE  Met(q, v, file[q])'
    BY <1>3, <1>10, <2>1 DEF Met
  <2>2. ASSUME at[q] = "load", NEW v \in queue[q] \cap T,
               tag[v] \in {0, file[q][v]} \/ v \in moved[q]
        PROVE  tag'[v] \in {0, file[q][v]} \/ v \in moved'[q]
    <3>1. v \in UnitSet /\ Running(q)
      BY <2>2 DEF ImagesTypeOK, CommandTypeOK, Running
    <3> QED
      BY <1>5, <1>6, <2>2, <3>1
  <2>3. ASSUME at[q] = "verify", same, back'[q] = {}
        PROVE  Agreed(q, T, file[q], ids[q])'
    <3>1. /\ IsAssignment(file[q]) /\ \A v \in T : Met(q, v, file[q])
          /\ back[q] = {} => Agreed(q, T, file[q], ids[q])
      BY <1>1, <2>3 DEF ImportSound
    <3>2. T \subseteq UnitSet /\ T \subseteq Watched(q) /\ Running(q)
      BY <1>1, <2>3, <3>1 DEF CommandSound, Watched, Running, IsAssignment
    <3>3. Recalled(moments'[q], tag', back'[q], T, file[q], ids[q])
      <4> HIDE DEF T
      <4>1. Recalled(moments[q], tag, back[q], T, file[q], ids[q])
        BY <3>1 DEF Met, Agreed, Recalled
      <4> QED
        BY <3>2, <4>1, AgreedMoves
    <3> QED
      BY <1>3, <2>3, <3>3 DEF Agreed, Recalled
  <2>4. ASSUME at[q] \in {"compare", "verify"}, NEW v \in DOMAIN ids[q], Knows(q, v)
        PROVE  Knows(q, v)'
    BY <1>7, <1>8, <2>4 DEF Running
  <2>5. CASE at[q] = "compare"
    BY <1>1, <1>3, <2>4, <2>5 DEF ImportSound
  <2>6. CASE at[q] = "load"
    BY <1>1, <1>3, <2>1, <2>2, <2>6 DEF ImportSound
  <2>7. CASE at[q] = "verify"
    BY <1>1, <1>3, <2>1, <2>3, <2>4, <2>7 DEF ImportSound
  <2>8. CASE at[q] \notin {"compare", "load", "verify"}
    BY <1>3, <2>8 DEF ImportSound
  <2> QED
    BY <2>5, <2>6, <2>7, <2>8
<1>14. MomentSound(q)'
  <2>1. outcome[q] = "ok" => ~Running(q)
    BY <1>1 DEF CommandSound, Running
  <2> QED
    BY <1>1, <1>2, <1>3, <2>1 DEF MomentSound, SameHistory
<1> QED
  BY <1>1, <1>3, <1>4, <1>9, <1>11, <1>12, <1>13, <1>14 DEF WorkerSound

\* A step that moves no tag, and one that does.
LEMMA ImagesLocalStep ==
    ASSUME ImagesInv, NEW p \in Workers, ImagesTypeOK', WorkerSound(p)',
           tag' = tag, origin' = origin,
           \A q \in Workers \ {p} : Same(q) /\ SameHistory(q)
    PROVE  ImagesInv'
BY QuietSound DEF ImagesInv

LEMMA TagStep ==
    ASSUME ImagesInv, NEW p \in Workers, ImagesTypeOK', WorkerSound(p)',
           NEW u \in UnitSet, NEW image \in Nat, Tagged(p, u, image),
           DOMAIN origin \subseteq DOMAIN origin',
           \A i \in DOMAIN origin : origin'[i] = origin[i],
           \A q \in Workers \ {p} : Same(q)
    PROVE  ImagesInv'
BY OtherTags DEF ImagesInv

\* A command other than build that fails.
LEMMA FailedSound ==
    ASSUME NEW p \in Workers, WorkerSound(p), at'[p] = "done", outcome'[p] = "failed",
           job'[p].op # "build", replaced'[p] = replaced[p]
    PROVE  WorkerSound(p)'
BY DEF WorkerSound, CommandSound, BuildSound, ViewSound, ExportSound, ImportSound,
       MomentSound

LEMMA UnitIs ==
    ASSUME ImagesTypeOK, NEW p \in Workers, queue[p] # {}
    PROVE  /\ Unit(p) \in queue[p] /\ Unit(p) \in UnitSet
           /\ \A q \in Prerequisites[Unit(p)] : q \notin queue[p]
<1>1. queue[p] \in SUBSET UnitSet
  BY DEF ImagesTypeOK, CommandTypeOK
<1> QED
  BY <1>1, ForemostIs DEF Unit

-----------------------------------------------------------------------------
(* The steps of every command.                                             *)

LEMMA BeginJobStep ==
    ASSUME ImagesInv, NEW p \in Workers, NEW j \in Jobs, BeginJob(p, j)
    PROVE  ImagesInv'
<1>1. ImagesTypeOK /\ WorkerSound(p)
  BY DEF ImagesInv
<1>2. /\ j \in [op: {"none", "build", "export", "import", "cleanup"},
                  target: UnitSet \cup {"all"}]
      /\ j.op \in {"build", "export", "import", "cleanup"}
      /\ BuildClosure(j.target) \subseteq UnitSet
  BY JobsAssumption, ClosureIs
<1>3. /\ tag' = tag /\ origin' = origin /\ archive' = archive
      /\ job' = [job EXCEPT ![p] = j]
      /\ queue' = [queue EXCEPT ![p] = BuildClosure(j.target)]
      /\ at' = [at EXCEPT ![p] = j.op]
      /\ outcome' = [outcome EXCEPT ![p] = "none"]
      /\ ids' = [ids EXCEPT ![p] = Nothing]
      /\ file' = [file EXCEPT ![p] = Nothing]
      /\ loading' = [loading EXCEPT ![p] = Nothing]
      /\ moved' = [moved EXCEPT ![p] = {}]
      /\ moments' = [moments EXCEPT ![p] = {}]
      /\ back' = [back EXCEPT ![p] = {}]
      /\ replaced' = [replaced EXCEPT ![p] = {}]
  BY DEF BeginJob, podman
<1>4. ImagesTypeOK'
  <2>1. StoreTypeOK'
    BY <1>1, <1>3 DEF ImagesTypeOK, StoreTypeOK
  <2>2. CommandTypeOK'
    BY <1>1, <1>2, <1>3 DEF ImagesTypeOK, CommandTypeOK
  <2>3. \A q \in Workers : IsAssignment(ids'[q])
    BY <1>1, <1>3, NothingIs DEF ImagesTypeOK, LocalsTypeOK
  <2>4. LocalsTypeOK'
    BY <1>1, <1>3, <2>3 DEF ImagesTypeOK, LocalsTypeOK
  <2> QED
    BY <2>1, <2>2, <2>4 DEF ImagesTypeOK
<1>5. \A q \in Workers \ {p} : Same(q) /\ SameHistory(q)
  BY <1>1, <1>3 DEF Same, SameHistory, ImagesTypeOK, CommandTypeOK, LocalsTypeOK
<1>6. /\ at'[p] = j.op /\ job'[p] = j /\ outcome'[p] = "none" /\ replaced'[p] = {}
      /\ ids'[p] = Nothing /\ file'[p] = Nothing /\ loading'[p] = Nothing
      /\ queue'[p] = BuildClosure(j.target)
  BY <1>1, <1>3 DEF ImagesTypeOK, CommandTypeOK, LocalsTypeOK
<1>7. WorkerSound(p)'
  BY <1>2, <1>6, NothingIs
     DEF WorkerSound, CommandSound, BuildSound, ViewSound, ExportSound, ImportSound,
         MomentSound
<1> QED
  BY <1>3, <1>4, <1>5, <1>7, ImagesLocalStep

LEMMA KilledStep ==
    ASSUME ImagesInv, NEW p \in Workers, Killed(p)
    PROVE  ImagesInv'
<1>1. ImagesTypeOK /\ WorkerSound(p)
  BY DEF ImagesInv
<1>2. /\ at' = [at EXCEPT ![p] = "done"] /\ outcome' = [outcome EXCEPT ![p] = "failed"]
      /\ UNCHANGED <<tag, origin, archive>>
      /\ UNCHANGED <<job, queue, ids, file, loading>>
      /\ UNCHANGED <<moved, moments, back, replaced>>
  BY DEF Killed, End, podman, locals, history
<1>3. ImagesTypeOK'
  BY <1>1, <1>2 DEF ImagesTypeOK, StoreTypeOK, CommandTypeOK, LocalsTypeOK
<1>4. \A q \in Workers \ {p} : Same(q) /\ SameHistory(q)
  BY <1>1, <1>2 DEF Same, SameHistory, ImagesTypeOK, CommandTypeOK, LocalsTypeOK
<1>5. at'[p] = "done" /\ outcome'[p] = "failed"
  BY <1>1, <1>2 DEF ImagesTypeOK, CommandTypeOK
<1>6. WorkerSound(p)'
  <2>1. CASE job[p].op # "build"
    BY <1>1, <1>2, <1>5, <2>1, FailedSound
  <2>2. CASE job[p].op = "build"
    <3>1. BuildSound(p)'
      BY <1>1, <1>2, <1>5 DEF WorkerSound, BuildSound
    <3> QED
      BY <1>1, <1>2, <1>5, <2>2, <3>1
         DEF WorkerSound, CommandSound, ViewSound, ExportSound, ImportSound, MomentSound
  <2> QED
    BY <2>1, <2>2
<1> QED
  BY <1>2, <1>3, <1>4, <1>6, ImagesLocalStep

\* What a process records of a tag it moves itself.
LEMMA OwnTags ==
    ASSUME ImagesTypeOK, NEW p \in Workers, NEW u \in UnitSet, NEW image \in Nat,
           Tagged(p, u, image)
    PROVE  /\ tag' \in [UnitSet -> Nat] /\ tag'[u] = image
           /\ \A v \in UnitSet : v # u => tag'[v] = tag[v]
           /\ moved' = [q \in Workers |-> moved'[q]] /\ moved'[p] = moved[p] \ {u}
           /\ moments' = [q \in Workers |-> moments'[q]]
           /\ back' = [q \in Workers |-> back'[q]] /\ back'[p] = back[p]
<1>1. /\ tag' \in [UnitSet -> Nat] /\ tag'[u] = image
      /\ \A v \in UnitSet : v # u => tag'[v] = tag[v]
  BY DEF Tagged, ImagesTypeOK, StoreTypeOK
<1>2. moved' = [q \in Workers |-> moved'[q]] /\ moved'[p] = moved[p] \ {u}
  BY DEF Tagged
<1>3. moments' = [q \in Workers |-> moments'[q]]
  BY DEF Tagged
<1>4. back' = [q \in Workers |-> back'[q]] /\ back'[p] = back[p]
  BY DEF Tagged
<1> QED
  BY <1>1, <1>2, <1>3, <1>4

\* Note and Advance, for the unit that is taken.
LEMMA Taken ==
    ASSUME ImagesTypeOK, NEW p \in Workers, queue[p] # {}, NEW image \in Nat,
           Note(p, image)
    PROVE  /\ ids' = [q \in Workers |-> ids'[q]]
           /\ \A q \in Workers : IsAssignment(ids'[q])
           /\ \A q \in Workers \ {p} : ids'[q] = ids[q]
           /\ DOMAIN ids'[p] = DOMAIN ids[p] \cup {Unit(p)}
           /\ ids'[p][Unit(p)] = image
           /\ \A v \in DOMAIN ids[p] : v # Unit(p) => ids'[p][v] = ids[p][v]
<1>1. Unit(p) \in UnitSet /\ IsAssignment(ids[p])
  BY UnitIs DEF ImagesTypeOK, LocalsTypeOK
<1>2. /\ ids'[p] = With(ids[p], Unit(p), image)
      /\ \A q \in Workers \ {p} : ids'[q] = ids[q]
      /\ ids' = [q \in Workers |-> ids'[q]]
  BY DEF Note, ImagesTypeOK, LocalsTypeOK
<1>3. \A q \in Workers : IsAssignment(ids[q])
  BY DEF ImagesTypeOK, LocalsTypeOK
<1>4. /\ IsAssignment(ids'[p])
      /\ DOMAIN ids'[p] = DOMAIN ids[p] \cup {Unit(p)}
      /\ ids'[p][Unit(p)] = image
      /\ \A v \in DOMAIN ids[p] : v # Unit(p) => ids'[p][v] = ids[p][v]
  BY <1>1, <1>2, WithIs
<1>5. \A q \in Workers : IsAssignment(ids'[q])
  BY <1>2, <1>3, <1>4
<1> QED
  BY <1>2, <1>4, <1>5

LEMMA Advanced ==
    ASSUME ImagesTypeOK, NEW p \in Workers, Advance(p)
    PROVE  /\ queue' \in [Workers -> SUBSET UnitSet]
           /\ queue'[p] = queue[p] \ {Unit(p)}
           /\ \A q \in Workers \ {p} : queue'[q] = queue[q]
BY DEF Advance, ImagesTypeOK, CommandTypeOK

-----------------------------------------------------------------------------
(* build.                                                                  *)

LEMMA BuildSkipsOrFailsStep ==
    ASSUME ImagesInv, NEW p \in Workers, BuildSkipsOrFails(p)
    PROVE  ImagesInv'
<1>1. ImagesTypeOK /\ WorkerSound(p)
  BY DEF ImagesInv
<1>2. /\ at[p] = "build" /\ queue[p] # {} /\ Note(p, 0) /\ Advance(p)
      /\ UNCHANGED <<tag, origin, archive, job, file, loading, at, outcome>>
      /\ UNCHANGED <<moved, moments, back, replaced>>
  BY DEF BuildSkipsOrFails, podman, history
<1> DEFINE u == Unit(p)
<1>3. u \in queue[p]
  BY <1>1, <1>2, UnitIs
<1>4. /\ ids' = [q \in Workers |-> ids'[q]]
      /\ \A q \in Workers : IsAssignment(ids'[q])
      /\ \A q \in Workers \ {p} : ids'[q] = ids[q]
      /\ DOMAIN ids'[p] = DOMAIN ids[p] \cup {u} /\ ids'[p][u] = 0
      /\ \A v \in DOMAIN ids[p] : v # u => ids'[p][v] = ids[p][v]
  BY <1>1, <1>2, Taken
<1>5. /\ queue' \in [Workers -> SUBSET UnitSet] /\ queue'[p] = queue[p] \ {u}
      /\ \A q \in Workers \ {p} : queue'[q] = queue[q]
  BY <1>1, <1>2, Advanced
<1> HIDE DEF u
<1>6. ImagesTypeOK'
  <2>1. StoreTypeOK' /\ CommandTypeOK'
    BY <1>1, <1>2, <1>5 DEF ImagesTypeOK, StoreTypeOK, CommandTypeOK
  <2>2. LocalsTypeOK'
    BY <1>1, <1>2, <1>4 DEF ImagesTypeOK, LocalsTypeOK
  <2> QED
    BY <2>1, <2>2 DEF ImagesTypeOK
<1>7. \A q \in Workers \ {p} : Same(q) /\ SameHistory(q)
  BY <1>2, <1>4, <1>5 DEF Same, SameHistory
<1>8. CommandSound(p)' /\ job[p].op = "build"
  BY <1>1, <1>2, <1>3, <1>4, <1>5 DEF WorkerSound, CommandSound
<1>9. BuildSound(p)'
  <2>1. /\ DOMAIN ids[p] \cap queue[p] = {}
        /\ \A v \in DOMAIN ids[p] :
             ids[p][v] # 0 =>
               /\ ids[p][v] \in DOMAIN origin /\ Knows(p, v)
               /\ \A q \in Prerequisites[v] :
                    /\ q \in DOMAIN ids[p] /\ ids[p][q] # 0
                    /\ origin[ids[p][v]].basis[q] = ids[p][q] \/ q \in moved[p]
    BY <1>1, <1>2, <1>8 DEF WorkerSound, BuildSound
  <2>2. \A v \in DOMAIN ids[p] : v # u /\ ids'[p][v] = ids[p][v]
    BY <1>3, <1>4, <2>1
  <2>3. ASSUME NEW v \in DOMAIN ids'[p], ids'[p][v] # 0
        PROVE  v \in DOMAIN ids[p] /\ ids'[p][v] = ids[p][v]
    BY <1>4, <2>2, <2>3
  <2>4. DOMAIN ids'[p] \cap queue'[p] = {}
    BY <1>4, <1>5, <2>1
  <2>5. ASSUME NEW v \in DOMAIN ids'[p], ids'[p][v] # 0
        PROVE  /\ ids'[p][v] \in DOMAIN origin /\ Knows(p, v)'
               /\ \A q \in Prerequisites[v] :
                    /\ q \in DOMAIN ids'[p] /\ ids'[p][q] # 0
                    /\ origin[ids'[p][v]].basis[q] = ids'[p][q] \/ q \in moved[p]
    <3>1. v \in DOMAIN ids[p] /\ ids'[p][v] = ids[p][v]
      BY <2>3, <2>5
    <3>2. Knows(p, v)'
      BY <1>2, <2>1, <2>5, <3>1 DEF Knows
    <3> QED
      BY <1>4, <2>1, <2>2, <2>5, <3>1, <3>2
  <2> QED
    BY <1>2, <2>4, <2>5 DEF BuildSound
<1>10. WorkerSound(p)'
  BY <1>1, <1>2, <1>8, <1>9
     DEF WorkerSound, CommandSound, ViewSound, ExportSound, ImportSound, MomentSound
<1> QED
  BY <1>2, <1>6, <1>7, <1>10, ImagesLocalStep

\* podman build has tagged image n, made before or now on the tags as they are.
LEMMA BuildTags ==
    ASSUME ImagesInv, NEW p \in Workers, NEW n \in Nat \ {0},
           at[p] = "build", queue[p] # {}, ~Blocked(p),
           Tagged(p, Unit(p), n), Note(p, n), Advance(p),
           DOMAIN origin \subseteq DOMAIN origin', n \in DOMAIN origin',
           \A i \in DOMAIN origin : origin'[i] = origin[i],
           origin'[n].basis = Basis(Unit(p)),
           origin' \in Seq({origin'[i] : i \in DOMAIN origin'}),
           UNCHANGED <<archive, job, file, loading, at, outcome, replaced>>
    PROVE  ImagesInv'
<1>1. ImagesTypeOK /\ WorkerSound(p)
  BY DEF ImagesInv
<1>2. PICK u \in UnitSet : u = Unit(p)
  BY <1>1, UnitIs
<1>3. u \in queue[p] /\ u \in UnitSet /\ \A q \in Prerequisites[u] : q \notin queue[p]
  BY <1>1, <1>2, UnitIs
<1>4. /\ ids' = [q \in Workers |-> ids'[q]]
      /\ \A q \in Workers : IsAssignment(ids'[q])
      /\ \A q \in Workers \ {p} : ids'[q] = ids[q]
      /\ DOMAIN ids'[p] = DOMAIN ids[p] \cup {u} /\ ids'[p][u] = n
      /\ \A v \in DOMAIN ids[p] : v # u => ids'[p][v] = ids[p][v]
  BY <1>1, <1>2, Taken
<1>5. /\ queue' \in [Workers -> SUBSET UnitSet] /\ queue'[p] = queue[p] \ {u}
      /\ \A q \in Workers \ {p} : queue'[q] = queue[q]
  BY <1>1, <1>2, Advanced
<1>6. /\ tag' \in [UnitSet -> Nat] /\ tag'[u] = n
      /\ \A v \in UnitSet : v # u => tag'[v] = tag[v]
      /\ moved' = [q \in Workers |-> moved'[q]] /\ moved'[p] = moved[p] \ {u}
      /\ moments' = [q \in Workers |-> moments'[q]]
      /\ back' = [q \in Workers |-> back'[q]]
  BY <1>1, <1>2, <1>3, OwnTags
<1>7. \A q \in Prerequisites[u] : origin'[n].basis[q] = tag[q]
  BY <1>2 DEF Basis
<1>8. \A q \in Prerequisites[u] : ids[p][q] # 0
  BY <1>2 DEF Blocked
<1>9. ImagesTypeOK'
  <2>1. StoreTypeOK' /\ CommandTypeOK'
    BY <1>1, <1>5, <1>6 DEF ImagesTypeOK, StoreTypeOK, CommandTypeOK
  <2>2. LocalsTypeOK'
    BY <1>1, <1>4, <1>6 DEF ImagesTypeOK, LocalsTypeOK
  <2> QED
    BY <2>1, <2>2 DEF ImagesTypeOK
<1>10. \A q \in Workers \ {p} : Same(q)
  BY <1>4, <1>5 DEF Same
<1>11. CommandSound(p)' /\ job[p].op = "build"
  BY <1>1, <1>3, <1>4, <1>5 DEF WorkerSound, CommandSound
<1>12. DOMAIN ids[p] \cup queue[p] = BuildClosure(job[p].target)
  BY <1>1 DEF WorkerSound, CommandSound
<1>13. \A q \in Prerequisites[u] : q \in DOMAIN ids[p]
  <2>1. job[p].target \in UnitSet \cup {"all"}
    BY <1>1 DEF ImagesTypeOK, CommandTypeOK
  <2>2. Prerequisites[u] \subseteq BuildClosure(job[p].target)
    BY <1>3, <1>12, <2>1, ClosureIs
  <2> QED
    BY <1>3, <1>12, <2>2
<1>14. BuildSound(p)'
  <2>1. /\ DOMAIN ids[p] \cap queue[p] = {}
        /\ \A v \in DOMAIN ids[p] :
             ids[p][v] # 0 =>
               /\ ids[p][v] \in DOMAIN origin /\ Knows(p, v)
               /\ \A q \in Prerequisites[v] :
                    /\ q \in DOMAIN ids[p] /\ ids[p][q] # 0
                    /\ origin[ids[p][v]].basis[q] = ids[p][q] \/ q \in moved[p]
    BY <1>1, <1>11 DEF WorkerSound, BuildSound
  <2>2. \A v \in DOMAIN ids[p] : v # u /\ ids'[p][v] = ids[p][v]
    BY <1>3, <1>4, <2>1
  <2>3. DOMAIN ids[p] \subseteq UnitSet
    BY <1>1 DEF ImagesTypeOK, LocalsTypeOK, IsAssignment
  <2>4. DOMAIN ids'[p] \cap queue'[p] = {}
    BY <1>4, <1>5, <2>1
  <2>5. ASSUME NEW v \in DOMAIN ids[p], ids[p][v] # 0
        PROVE  /\ ids'[p][v] \in DOMAIN origin' /\ Knows(p, v)'
               /\ \A q \in Prerequisites[v] :
                    /\ q \in DOMAIN ids'[p] /\ ids'[p][q] # 0
                    /\ origin'[ids'[p][v]].basis[q] = ids'[p][q] \/ q \in moved'[p]
    <3>1. ids'[p][v] = ids[p][v] /\ ids[p][v] \in DOMAIN origin
      BY <2>1, <2>2, <2>5
    <3>2. Knows(p, v)'
      BY <1>6, <2>1, <2>2, <2>3, <2>5, <3>1 DEF Knows
    <3> QED
      BY <1>4, <1>6, <2>1, <2>2, <2>5, <3>1, <3>2
  <2>6. /\ ids'[p][u] \in DOMAIN origin' /\ Knows(p, u)'
        /\ \A q \in Prerequisites[u] :
             /\ q \in DOMAIN ids'[p] /\ ids'[p][q] # 0
             /\ origin'[ids'[p][u]].basis[q] = ids'[p][q] \/ q \in moved'[p]
    <3>1. Knows(p, u)'
      BY <1>4, <1>6 DEF Knows
    <3>2. \A q \in Prerequisites[u] : tag[q] = ids[p][q] \/ q \in moved'[p]
      BY <1>6, <1>8, <1>13, <2>1, <2>2 DEF Knows
    <3> QED
      BY <1>4, <1>7, <1>8, <1>13, <2>2, <3>1, <3>2
  <2>7. \A v \in DOMAIN ids'[p] : ids'[p][v] # 0 =>
           /\ ids'[p][v] \in DOMAIN origin' /\ Knows(p, v)'
           /\ \A q \in Prerequisites[v] :
                /\ q \in DOMAIN ids'[p] /\ ids'[p][q] # 0
                /\ origin'[ids'[p][v]].basis[q] = ids'[p][q] \/ q \in moved'[p]
    BY <1>4, <2>2, <2>5, <2>6
  <2> QED
    BY <2>4, <2>7 DEF BuildSound
<1>15. WorkerSound(p)'
  BY <1>1, <1>11, <1>14
     DEF WorkerSound, CommandSound, ViewSound, ExportSound, ImportSound, MomentSound
<1> QED
  BY <1>2, <1>9, <1>10, <1>15, TagStep

LEMMA BuildStepStep ==
    ASSUME ImagesInv, NEW p \in Workers, BuildStep(p)
    PROVE  ImagesInv'
<1>1. ImagesTypeOK
  BY DEF ImagesInv
<1> DEFINE built == [unit |-> Unit(p), basis |-> Basis(Unit(p))]
           n == Len(origin) + 1
<1>2. /\ at[p] = "build" /\ queue[p] # {} /\ ~Blocked(p) /\ Advance(p)
      /\ UNCHANGED <<archive, job, file, loading, at, outcome, replaced>>
      /\ \/ /\ origin' = Append(origin, built)
            /\ Tagged(p, Unit(p), n) /\ Note(p, n)
         \/ \E i \in DOMAIN origin :
              origin[i] = built /\ Tagged(p, Unit(p), i) /\ Note(p, i) /\ origin' = origin
  BY DEF BuildStep
<1>3. /\ built.basis = Basis(Unit(p))
      /\ origin \in Seq({origin[i] : i \in DOMAIN origin})
  BY <1>1 DEF ImagesTypeOK, StoreTypeOK
<1> HIDE DEF built
<1>4. CASE /\ origin' = Append(origin, built)
           /\ Tagged(p, Unit(p), n) /\ Note(p, n)
  <2>1. /\ origin' \in Seq({origin'[i] : i \in DOMAIN origin'})
        /\ DOMAIN origin' = DOMAIN origin \cup {n} /\ n \in Nat \ {0}
        /\ origin'[n] = built /\ \A i \in DOMAIN origin : origin'[i] = origin[i]
    BY <1>3, <1>4, Appended
  <2> HIDE DEF n
  <2> QED
    BY <1>2, <1>3, <1>4, <2>1, BuildTags
<1>5. ASSUME NEW i \in DOMAIN origin, origin[i] = built, Tagged(p, Unit(p), i),
             Note(p, i), origin' = origin
      PROVE  ImagesInv'
  <2>1. i \in Nat \ {0}
    BY <1>3, Appended
  <2> QED
    BY <1>2, <1>3, <1>5, <2>1, BuildTags
<1> QED
  BY <1>2, <1>4, <1>5

LEMMA BuildSummaryStep ==
    ASSUME ImagesInv, NEW p \in Workers, BuildSummary(p)
    PROVE  ImagesInv'
<1>1. ImagesTypeOK /\ WorkerSound(p)
  BY DEF ImagesInv
<1>2. PICK value \in {"ok", "failed"} : End(p, value)
  BY DEF BuildSummary
<1>3. /\ at[p] = "build"
      /\ at' = [at EXCEPT ![p] = "done"] /\ outcome' = [outcome EXCEPT ![p] = value]
      /\ UNCHANGED <<tag, origin, archive>>
      /\ UNCHANGED <<job, queue, ids, file, loading>>
      /\ UNCHANGED <<moved, moments, back, replaced>>
  BY <1>2 DEF BuildSummary, End, podman, locals, history
<1>4. ImagesTypeOK'
  BY <1>1, <1>3 DEF ImagesTypeOK, StoreTypeOK, CommandTypeOK, LocalsTypeOK
<1>5. \A q \in Workers \ {p} : Same(q) /\ SameHistory(q)
  BY <1>1, <1>3 DEF Same, SameHistory, ImagesTypeOK, CommandTypeOK, LocalsTypeOK
<1>6. at'[p] = "done" /\ outcome'[p] = value
  BY <1>1, <1>3 DEF ImagesTypeOK, CommandTypeOK
<1>7. BuildSound(p)'
  BY <1>1, <1>3, <1>6 DEF WorkerSound, BuildSound
<1>8. WorkerSound(p)'
  BY <1>1, <1>3, <1>6, <1>7
     DEF WorkerSound, CommandSound, ViewSound, ExportSound, ImportSound, MomentSound
<1> QED
  BY <1>3, <1>4, <1>5, <1>8, ImagesLocalStep

-----------------------------------------------------------------------------
(* images export.                                                          *)

LEMMA ExportBeginsStep ==
    ASSUME ImagesInv, NEW p \in Workers, ExportBegins(p)
    PROVE  ImagesInv'
<1>1. ImagesTypeOK /\ WorkerSound(p)
  BY DEF ImagesInv
<1>2. /\ at[p] = "export"
      /\ Go(p, "inspect") \/ End(p, "failed")
      /\ moments' = [moments EXCEPT ![p] = {[v \in Watched(p) |-> tag[v]]}]
      /\ UNCHANGED <<tag, origin, archive>>
      /\ UNCHANGED <<job, queue, ids, file, loading, moved, back, replaced>>
  BY DEF ExportBegins, podman, locals
<1>3. PICK place \in {"inspect", "done"}, value \in {"none", "ok", "failed"} :
        /\ at' = [at EXCEPT ![p] = place] /\ outcome' = [outcome EXCEPT ![p] = value]
        /\ place = "inspect" => value = outcome[p]
        /\ place = "done" => value = "failed"
  <2>1. CASE Go(p, "inspect")
    <3>1. outcome' = [outcome EXCEPT ![p] = outcome[p]] /\ outcome[p] \in {"none", "ok", "failed"}
      BY <1>1, <2>1 DEF Go, ImagesTypeOK, CommandTypeOK
    <3> QED
      BY <2>1, <3>1 DEF Go
  <2>2. CASE End(p, "failed")
    BY <2>2 DEF End
  <2> QED
    BY <1>2, <2>1, <2>2
<1>4. ImagesTypeOK'
  <2>1. StoreTypeOK' /\ CommandTypeOK'
    BY <1>1, <1>2, <1>3 DEF ImagesTypeOK, StoreTypeOK, CommandTypeOK
  <2>2. LocalsTypeOK'
    BY <1>1, <1>2 DEF ImagesTypeOK, LocalsTypeOK
  <2> QED
    BY <2>1, <2>2 DEF ImagesTypeOK
<1>5. \A q \in Workers \ {p} : Same(q) /\ SameHistory(q)
  BY <1>1, <1>2, <1>3 DEF Same, SameHistory, ImagesTypeOK, CommandTypeOK, LocalsTypeOK
<1>6. /\ at'[p] = place /\ outcome'[p] = value
      /\ moments'[p] = {[v \in Watched(p) |-> tag[v]]}
  BY <1>1, <1>2, <1>3 DEF ImagesTypeOK, CommandTypeOK, LocalsTypeOK
<1>7. /\ job[p].op = "export" /\ file[p] = Nothing /\ ids[p] = Nothing
      /\ loading[p] = Nothing /\ queue[p] = BuildClosure(job[p].target)
      /\ outcome[p] # "ok"
  BY <1>1, <1>2 DEF WorkerSound, CommandSound
<1>8. CASE place = "done"
  <2>1. WorkerSound(p)'
    BY <1>1, <1>2, <1>3, <1>6, <1>7, <1>8, FailedSound
  <2> QED
    BY <1>2, <1>4, <1>5, <2>1, ImagesLocalStep
<1>9. CASE place = "inspect"
  <2>1. CommandSound(p)' /\ BuildSound(p)' /\ ImportSound(p)' /\ MomentSound(p)'
    BY <1>1, <1>2, <1>3, <1>6, <1>7, <1>9
       DEF WorkerSound, CommandSound, BuildSound, ImportSound, MomentSound
  <2>2. ViewSound(p)'
    <3>1. Watched(p)' = Watched(p)
      BY <1>2 DEF Watched
    <3> QED
      BY <1>2, <1>6, <3>1 DEF ViewSound
  <2>3. ExportSound(p)'
    BY <1>2, <1>6, <1>7, <1>9, NothingIs DEF ExportSound
  <2>4. WorkerSound(p)'
    BY <1>1, <1>2, <2>1, <2>2, <2>3 DEF WorkerSound
  <2> QED
    BY <1>2, <1>4, <1>5, <2>4, ImagesLocalStep
<1> QED
  BY <1>8, <1>9

LEMMA ExportInspectsStep ==
    ASSUME ImagesInv, NEW p \in Workers, ExportInspects(p)
    PROVE  ImagesInv'
<1>1. ImagesTypeOK /\ WorkerSound(p)
  BY DEF ImagesInv
<1>2. /\ at[p] = "inspect"
      /\ UNCHANGED <<tag, origin, archive>>
      /\ UNCHANGED <<job, file, loading, moments, back, replaced>>
  BY DEF ExportInspects, podman
<1> DEFINE W == BuildClosure(job[p].target)
<1>3. /\ job[p].op = "export" /\ outcome[p] # "ok" /\ file[p] = Nothing
      /\ DOMAIN ids[p] \cup queue[p] = W /\ \A u \in DOMAIN ids[p] : Met(p, u, ids[p])
      /\ [v \in W |-> tag[v]] \in moments[p]
  BY <1>1, <1>2 DEF WorkerSound, CommandSound, ExportSound, ViewSound, Watched
<1>4. W \subseteq UnitSet
  BY <1>1, ClosureIs DEF ImagesTypeOK, CommandTypeOK
<1>5. CASE queue[p] = {}
  <2>1. /\ at' = [at EXCEPT ![p] = "save"] /\ outcome' = outcome
        /\ queue' = [queue EXCEPT ![p] = W] /\ ids' = ids /\ moved' = moved
    BY <1>5 DEF ExportInspects, Go
  <2>2. ImagesTypeOK'
    <3>1. StoreTypeOK' /\ CommandTypeOK'
      BY <1>1, <1>2, <1>4, <2>1 DEF ImagesTypeOK, StoreTypeOK, CommandTypeOK
    <3>2. LocalsTypeOK'
      BY <1>1, <1>2, <2>1 DEF ImagesTypeOK, LocalsTypeOK
    <3> QED
      BY <3>1, <3>2 DEF ImagesTypeOK
  <2>3. \A q \in Workers \ {p} : Same(q) /\ SameHistory(q)
    BY <1>1, <1>2, <2>1 DEF Same, SameHistory, ImagesTypeOK, CommandTypeOK, LocalsTypeOK
  <2>4. at'[p] = "save" /\ queue'[p] = W
    BY <1>1, <2>1 DEF ImagesTypeOK, CommandTypeOK
  <2>5. CommandSound(p)' /\ BuildSound(p)' /\ ImportSound(p)' /\ MomentSound(p)'
    BY <1>1, <1>2, <1>3, <2>1, <2>4
       DEF WorkerSound, CommandSound, BuildSound, ImportSound, MomentSound
  <2>6. ViewSound(p)'
    <3>1. Watched(p)' = Watched(p)
      BY <1>2 DEF Watched
    <3> QED
      BY <1>1, <1>2, <2>4, <3>1 DEF WorkerSound, ViewSound
  <2>7. ExportSound(p)'
    <3>1. Agreed(p, W, ids[p], file[p])'
      BY <1>2, <1>3, <2>1, NothingIs DEF Agreed
    <3>2. \A u \in DOMAIN ids[p] : Met(p, u, ids[p])'
      BY <1>2, <1>3, <2>1 DEF Met
    <3> QED
      BY <1>2, <1>3, <1>5, <2>1, <2>4, <3>1, <3>2, NothingIs DEF ExportSound
  <2>8. WorkerSound(p)'
    BY <1>1, <1>2, <2>5, <2>6, <2>7 DEF WorkerSound
  <2> QED
    BY <1>2, <2>2, <2>3, <2>8, ImagesLocalStep
<1>6. CASE queue[p] # {}
  <2>1. PICK u \in UnitSet : u = Unit(p)
    BY <1>1, <1>6, UnitIs
  <2>2. u \in queue[p] /\ tag[u] \in Nat
    BY <1>1, <1>6, <2>1, UnitIs DEF ImagesTypeOK, StoreTypeOK
  <2>3. /\ IF tag[u] = 0 THEN End(p, "failed") ELSE Go(p, "inspect")
        /\ Note(p, tag[u]) /\ moved' = [moved EXCEPT ![p] = @ \ {u}] /\ Advance(p)
    BY <1>6, <2>1 DEF ExportInspects, Looked
  <2>4. /\ ids' = [q \in Workers |-> ids'[q]]
        /\ \A q \in Workers : IsAssignment(ids'[q])
        /\ \A q \in Workers \ {p} : ids'[q] = ids[q]
        /\ DOMAIN ids'[p] = DOMAIN ids[p] \cup {u} /\ ids'[p][u] = tag[u]
        /\ \A v \in DOMAIN ids[p] : v # u => ids'[p][v] = ids[p][v]
    BY <1>1, <1>6, <2>1, <2>2, <2>3, Taken
  <2>5. /\ queue' \in [Workers -> SUBSET UnitSet] /\ queue'[p] = queue[p] \ {u}
        /\ \A q \in Workers \ {p} : queue'[q] = queue[q]
    BY <1>1, <2>1, <2>3, Advanced
  <2>6. /\ \A q \in Workers \ {p} : at'[q] = at[q] /\ outcome'[q] = outcome[q]
        /\ tag[u] = 0 => at'[p] = "done" /\ outcome'[p] = "failed"
        /\ tag[u] # 0 => at'[p] = "inspect" /\ outcome'[p] = outcome[p]
    BY <1>1, <2>3 DEF End, Go, ImagesTypeOK, CommandTypeOK
  <2>7. CommandTypeOK'
    BY <1>1, <1>2, <2>3, <2>5 DEF End, Go, ImagesTypeOK, CommandTypeOK
  <2>8. ImagesTypeOK'
    <3>1. StoreTypeOK'
      BY <1>1, <1>2 DEF ImagesTypeOK, StoreTypeOK
    <3>2. LocalsTypeOK'
      BY <1>1, <1>2, <2>3, <2>4 DEF ImagesTypeOK, LocalsTypeOK
    <3> QED
      BY <2>7, <3>1, <3>2 DEF ImagesTypeOK
  <2>9. \A q \in Workers \ {p} : Same(q) /\ SameHistory(q)
    BY <1>1, <1>2, <2>3, <2>4, <2>5, <2>6
       DEF Same, SameHistory, ImagesTypeOK, LocalsTypeOK
  <2>10. CASE tag[u] = 0
    <3>1. WorkerSound(p)'
      BY <1>1, <1>2, <1>3, <2>6, <2>10, FailedSound
    <3> QED
      BY <1>2, <2>8, <2>9, <3>1, ImagesLocalStep
  <2>11. CASE tag[u] # 0
    <3>1. CommandSound(p)' /\ BuildSound(p)' /\ ImportSound(p)' /\ MomentSound(p)'
      BY <1>1, <1>2, <1>3, <2>6, <2>11
         DEF WorkerSound, CommandSound, BuildSound, ImportSound, MomentSound
    <3>2. ViewSound(p)'
      <4>1. Watched(p)' = Watched(p)
        BY <1>2 DEF Watched
      <4> QED
        BY <1>1, <1>2, <2>6, <2>11, <4>1 DEF WorkerSound, ViewSound
    <3>3. ExportSound(p)'
      <4>1. ASSUME NEW v \in DOMAIN ids'[p]
            PROVE  Met(p, v, ids[p])'
        <5>1. CASE v = u
          BY <1>2, <1>3, <2>2, <2>4, <5>1 DEF Met
        <5>2. CASE v # u
          BY <1>2, <1>3, <2>4, <5>2 DEF Met
        <5> QED
          BY <5>1, <5>2
      <4>2. DOMAIN ids'[p] \cup queue'[p] = W
        BY <1>3, <2>2, <2>4, <2>5
      <4> QED
        BY <1>2, <1>3, <2>6, <2>11, <4>1, <4>2, NothingIs DEF ExportSound
    <3>4. WorkerSound(p)'
      BY <1>1, <1>2, <3>1, <3>2, <3>3 DEF WorkerSound
    <3> QED
      BY <1>2, <2>8, <2>9, <3>4, ImagesLocalStep
  <2> QED
    BY <2>10, <2>11
<1> QED
  BY <1>5, <1>6

LEMMA ExportSavesStep ==
    ASSUME ImagesInv, NEW p \in Workers, ExportSaves(p)
    PROVE  ImagesInv'
<1>1. ImagesTypeOK /\ WorkerSound(p)
  BY DEF ImagesInv
<1>2. /\ at[p] = "save"
      /\ UNCHANGED <<tag, origin, archive>>
      /\ UNCHANGED <<job, ids, loading, moved, moments, back, replaced>>
  BY DEF ExportSaves, podman, history
<1> DEFINE W == BuildClosure(job[p].target)
<1>3. /\ job[p].op = "export" /\ outcome[p] # "ok" /\ IsAssignment(file[p])
      /\ DOMAIN ids[p] = W /\ DOMAIN file[p] \cup queue[p] = W
      /\ \A u \in DOMAIN ids[p] : Met(p, u, ids[p])
      /\ back[p] = {} => Agreed(p, W, ids[p], file[p])
  BY <1>1, <1>2 DEF WorkerSound, CommandSound, ExportSound
<1>4. /\ \A u \in DOMAIN ids[p] : Met(p, u, ids[p])'
      /\ Watched(p)' = Watched(p)
  BY <1>2, <1>3 DEF Met, Watched
<1>5. CASE queue[p] = {}
  <2>1. /\ at' = [at EXCEPT ![p] = "publish"] /\ outcome' = outcome
        /\ queue' = queue /\ file' = file
    BY <1>5 DEF ExportSaves, Go
  <2>2. ImagesTypeOK'
    BY <1>1, <1>2, <2>1 DEF ImagesTypeOK, StoreTypeOK, CommandTypeOK, LocalsTypeOK
  <2>3. \A q \in Workers \ {p} : Same(q) /\ SameHistory(q)
    BY <1>1, <1>2, <2>1 DEF Same, SameHistory, ImagesTypeOK, CommandTypeOK, LocalsTypeOK
  <2>4. at'[p] = "publish"
    BY <1>1, <2>1 DEF ImagesTypeOK, CommandTypeOK
  <2>5. CommandSound(p)' /\ BuildSound(p)' /\ ImportSound(p)' /\ MomentSound(p)'
    BY <1>1, <1>2, <1>3, <2>1, <2>4
       DEF WorkerSound, CommandSound, BuildSound, ImportSound, MomentSound
  <2>6. ViewSound(p)'
    BY <1>1, <1>2, <1>4, <2>4 DEF WorkerSound, ViewSound
  <2>7. ExportSound(p)'
    <3>1. back'[p] = {} => Agreed(p, W, ids[p], file[p])'
      BY <1>2, <1>3, <2>1 DEF Agreed
    <3> QED
      BY <1>2, <1>3, <1>4, <1>5, <2>1, <2>4, <3>1 DEF ExportSound
  <2>8. WorkerSound(p)'
    BY <1>1, <1>2, <2>5, <2>6, <2>7 DEF WorkerSound
  <2> QED
    BY <1>2, <2>2, <2>3, <2>8, ImagesLocalStep
<1>6. CASE queue[p] # {}
  <2>1. PICK u \in UnitSet : u = Unit(p)
    BY <1>1, <1>6, UnitIs
  <2>2. u \in queue[p] /\ tag[u] \in Nat
    BY <1>1, <1>6, <2>1, UnitIs DEF ImagesTypeOK, StoreTypeOK
  <2>3. /\ IF tag[u] = 0 THEN End(p, "failed") ELSE Go(p, "save")
        /\ file' = [file EXCEPT ![p] = With(@, u, tag[u])] /\ Advance(p)
    BY <1>6, <2>1 DEF ExportSaves
  <2>4. /\ file' = [q \in Workers |-> file'[q]]
        /\ \A q \in Workers \ {p} : file'[q] = file[q]
        /\ file'[p] = With(file[p], u, tag[u])
    BY <1>1, <2>3 DEF ImagesTypeOK, LocalsTypeOK
  <2>5. /\ IsAssignment(file'[p])
        /\ DOMAIN file'[p] = DOMAIN file[p] \cup {u} /\ file'[p][u] = tag[u]
        /\ \A v \in DOMAIN file[p] : v # u => file'[p][v] = file[p][v]
    <3>1. IsAssignment(file[p]) /\ u \in UnitSet /\ tag[u] \in Nat
      BY <1>3, <2>2
    <3> QED
      BY <2>4, <3>1, WithIs
  <2>6. /\ queue' \in [Workers -> SUBSET UnitSet] /\ queue'[p] = queue[p] \ {u}
        /\ \A q \in Workers \ {p} : queue'[q] = queue[q]
    BY <1>1, <2>1, <2>3, Advanced
  <2>7. /\ \A q \in Workers \ {p} : at'[q] = at[q] /\ outcome'[q] = outcome[q]
        /\ tag[u] = 0 => at'[p] = "done" /\ outcome'[p] = "failed"
        /\ tag[u] # 0 => at'[p] = "save" /\ outcome'[p] = outcome[p]
    BY <1>1, <2>3 DEF End, Go, ImagesTypeOK, CommandTypeOK
  <2>8. ImagesTypeOK'
    <3>1. StoreTypeOK'
      BY <1>1, <1>2 DEF ImagesTypeOK, StoreTypeOK
    <3>2. CommandTypeOK'
      BY <1>1, <1>2, <2>3, <2>6 DEF End, Go, ImagesTypeOK, CommandTypeOK
    <3>3. LocalsTypeOK'
      BY <1>1, <1>2, <2>4 DEF ImagesTypeOK, LocalsTypeOK
    <3> QED
      BY <3>1, <3>2, <3>3 DEF ImagesTypeOK
  <2>9. \A q \in Workers \ {p} : Same(q) /\ SameHistory(q)
    BY <1>1, <1>2, <2>4, <2>6, <2>7 DEF Same, SameHistory
  <2>10. CASE tag[u] = 0
    <3>1. WorkerSound(p)'
      BY <1>1, <1>2, <1>3, <2>7, <2>10, FailedSound
    <3> QED
      BY <1>2, <2>8, <2>9, <3>1, ImagesLocalStep
  <2>11. CASE tag[u] # 0
    <3>1. CommandSound(p)' /\ BuildSound(p)' /\ ImportSound(p)' /\ MomentSound(p)'
      BY <1>1, <1>2, <1>3, <2>7, <2>11
         DEF WorkerSound, CommandSound, BuildSound, ImportSound, MomentSound
    <3>2. ViewSound(p)'
      <4>1. Watched(p)' = Watched(p)
        BY <1>2, <1>3 DEF Watched
      <4> QED
        BY <1>1, <1>2, <2>7, <2>11, <4>1 DEF WorkerSound, ViewSound
    <3>3. ExportSound(p)'
      <4>1. ASSUME back[p] = {}
            PROVE  Agreed(p, W, ids[p], file[p])'
        <5>1. PICK m \in moments[p] : \A v \in W :
                \/ m[v] = ids[p][v]
                \/ /\ tag[v] # ids[p][v]
                   /\ v \in DOMAIN file[p] => file[p][v] # ids[p][v]
          BY <1>3, <4>1 DEF Agreed
        <5>2. \A v \in W :
                \/ m[v] = ids[p][v]
                \/ /\ tag[v] # ids[p][v]
                   /\ v \in DOMAIN file'[p] => file'[p][v] # ids[p][v]
          BY <2>5, <5>1
        <5> QED
          BY <1>2, <5>2 DEF Agreed
      <4>2. DOMAIN file'[p] \cup queue'[p] = W
        BY <1>3, <2>2, <2>5, <2>6
      <4> QED
        BY <1>2, <1>3, <1>4, <2>5, <2>7, <2>11, <4>1, <4>2 DEF ExportSound
    <3>4. WorkerSound(p)'
      BY <1>1, <1>2, <3>1, <3>2, <3>3 DEF WorkerSound
    <3> QED
      BY <1>2, <2>8, <2>9, <3>4, ImagesLocalStep
  <2> QED
    BY <2>10, <2>11
<1> QED
  BY <1>5, <1>6

\* The archive agrees with the first look at the tags, so both agree with the
\* moment between them.
LEMMA ExportPublishesStep ==
    ASSUME ImagesInv, NEW p \in Workers, ExportPublishes(p)
    PROVE  ImagesInv'
<1>1. ImagesTypeOK /\ WorkerSound(p)
  BY DEF ImagesInv
<1>2. /\ at[p] = "publish"
      /\ \/ SavedAsInspected(p) /\ archive' = file[p] /\ End(p, "ok")
         \/ archive' = archive /\ End(p, "failed")
      /\ UNCHANGED <<tag, origin>>
      /\ UNCHANGED <<job, queue, ids, file, loading, moved, moments, back, replaced>>
  BY DEF ExportPublishes, podman, locals, history
<1> DEFINE W == BuildClosure(job[p].target)
<1>3. /\ job[p].op = "export" /\ IsAssignment(file[p])
      /\ DOMAIN ids[p] = W /\ DOMAIN file[p] = W
      /\ back[p] = {} => Agreed(p, W, ids[p], file[p])
      /\ \A m \in moments[p] : m = [v \in W |-> m[v]]
  BY <1>1, <1>2 DEF WorkerSound, CommandSound, ExportSound, ViewSound, Watched
<1>4. PICK value \in {"ok", "failed"} :
        /\ at' = [at EXCEPT ![p] = "done"] /\ outcome' = [outcome EXCEPT ![p] = value]
        /\ value = "ok" => SavedAsInspected(p)
  BY <1>2 DEF End
<1>5. ImagesTypeOK'
  <2>1. CommandTypeOK' /\ LocalsTypeOK'
    BY <1>1, <1>2, <1>4 DEF ImagesTypeOK, CommandTypeOK, LocalsTypeOK
  <2>2. StoreTypeOK'
    BY <1>1, <1>2, <1>3 DEF ImagesTypeOK, StoreTypeOK, IsAssignment
  <2> QED
    BY <2>1, <2>2 DEF ImagesTypeOK
<1>6. \A q \in Workers \ {p} : Same(q) /\ SameHistory(q)
  BY <1>1, <1>2, <1>4 DEF Same, SameHistory, ImagesTypeOK, CommandTypeOK
<1>7. at'[p] = "done" /\ outcome'[p] = value
  BY <1>1, <1>4 DEF ImagesTypeOK, CommandTypeOK
<1>8. MomentSound(p)'
  <2> SUFFICES ASSUME value = "ok", back[p] = {}
               PROVE  file[p] \in moments[p]
    BY <1>2, <1>7 DEF MomentSound
  <2>1. PICK m \in moments[p] : \A v \in W :
          \/ m[v] = ids[p][v]
          \/ v \in DOMAIN file[p] => file[p][v] # ids[p][v]
    BY <1>3 DEF Agreed
  <2>2. \A v \in W : m[v] = file[p][v]
    BY <1>3, <1>4, <2>1 DEF SavedAsInspected
  <2>3. m = [v \in W |-> m[v]] /\ file[p] = [v \in W |-> file[p][v]]
    BY <1>3, <2>1 DEF IsAssignment
  <2>4. m = file[p]
    <3> HIDE DEF W
    <3> QED
      BY <2>2, <2>3
  <2> QED
    BY <2>1, <2>4
<1>9. WorkerSound(p)'
  BY <1>1, <1>2, <1>3, <1>7, <1>8
     DEF WorkerSound, CommandSound, BuildSound, ViewSound, ExportSound, ImportSound
<1> QED
  BY <1>2, <1>5, <1>6, <1>9, ImagesLocalStep

-----------------------------------------------------------------------------
(* images import.                                                          *)

LEMMA ImportInspectsStep ==
    ASSUME ImagesInv, NEW p \in Workers, ImportInspects(p)
    PROVE  ImagesInv'
<1>1. ImagesTypeOK /\ WorkerSound(p)
  BY DEF ImagesInv
<1> DEFINE T == DOMAIN archive \cap UnitSet
<1>2. /\ at[p] = "import"
      /\ \/ ValidateManaged(archive) /\ Go(p, "compare")
         \/ End(p, "failed")
      /\ file' = [file EXCEPT ![p] = archive]
      /\ queue' = [queue EXCEPT ![p] = T]
      /\ moments' = [moments EXCEPT ![p] = {[v \in T |-> tag[v]]}]
      /\ UNCHANGED <<tag, origin, archive>>
      /\ UNCHANGED <<job, ids, loading, moved, back, replaced>>
  BY DEF ImportInspects, podman
<1>3. /\ job[p].op = "import" /\ outcome[p] # "ok" /\ ids[p] = Nothing
      /\ loading[p] = Nothing
  BY <1>1, <1>2 DEF WorkerSound, CommandSound
<1>4. ImagesTypeOK'
  <2>1. StoreTypeOK'
    BY <1>1, <1>2 DEF ImagesTypeOK, StoreTypeOK
  <2>2. CommandTypeOK'
    BY <1>1, <1>2 DEF Go, End, ImagesTypeOK, CommandTypeOK
  <2>3. LocalsTypeOK'
    <3> HIDE DEF T
    <3> QED
      BY <1>1, <1>2 DEF ImagesTypeOK, LocalsTypeOK
  <2> QED
    BY <2>1, <2>2, <2>3 DEF ImagesTypeOK
<1>5. \A q \in Workers \ {p} : Same(q) /\ SameHistory(q)
  <2> HIDE DEF T
  <2> QED
    BY <1>1, <1>2 DEF Go, End, Same, SameHistory, ImagesTypeOK, CommandTypeOK, LocalsTypeOK
<1>6. /\ file'[p] = archive /\ queue'[p] = T /\ moments'[p] = {[v \in T |-> tag[v]]}
  <2> HIDE DEF T
  <2> QED
    BY <1>1, <1>2 DEF ImagesTypeOK, CommandTypeOK, LocalsTypeOK
<1>7. CASE End(p, "failed")
  <2>1. at'[p] = "done" /\ outcome'[p] = "failed"
    BY <1>1, <1>7 DEF End, ImagesTypeOK, CommandTypeOK
  <2>2. WorkerSound(p)'
    BY <1>1, <1>2, <1>3, <2>1, FailedSound
  <2> QED
    BY <1>2, <1>4, <1>5, <2>2, ImagesLocalStep
<1>8. CASE ValidateManaged(archive) /\ Go(p, "compare")
  <2>1. at'[p] = "compare" /\ outcome' = outcome
    BY <1>1, <1>8 DEF Go, ImagesTypeOK, CommandTypeOK
  <2>2. T = DOMAIN archive /\ IsAssignment(archive)
    BY <1>1, <1>8 DEF ValidateManaged, IsAssignment, ImagesTypeOK, StoreTypeOK
  <2>3. CommandSound(p)' /\ BuildSound(p)' /\ ExportSound(p)' /\ MomentSound(p)'
    BY <1>1, <1>2, <1>3, <2>1
       DEF WorkerSound, CommandSound, BuildSound, ExportSound, MomentSound
  <2>4. ViewSound(p)'
    <3>1. Watched(p)' = T
      BY <1>2, <1>3, <1>6 DEF Watched
    <3> HIDE DEF T
    <3> QED
      BY <1>2, <1>6, <3>1 DEF ViewSound
  <2>5. ImportSound(p)'
    BY <1>2, <1>3, <1>6, <2>1, <2>2, NothingIs DEF ImportSound
  <2>6. WorkerSound(p)'
    BY <1>1, <1>2, <2>3, <2>4, <2>5 DEF WorkerSound
  <2> QED
    BY <1>2, <1>4, <1>5, <2>6, ImagesLocalStep
<1> QED
  BY <1>2, <1>7, <1>8

LEMMA ImportComparesStep ==
    ASSUME ImagesInv, NEW p \in Workers, ImportCompares(p)
    PROVE  ImagesInv'
<1>1. ImagesTypeOK /\ WorkerSound(p)
  BY DEF ImagesInv
<1>2. PICK u \in UnitSet : u = Unit(p)
  BY <1>1, UnitIs DEF ImportCompares
<1>3. /\ at[p] = "compare" /\ queue[p] # {}
      /\ \/ tag[u] \in {0, file[p][u]} /\ Go(p, "compare")
         \/ End(p, "failed")
      /\ Note(p, tag[u]) /\ moved' = [moved EXCEPT ![p] = @ \ {u}] /\ Advance(p)
      /\ UNCHANGED <<tag, origin, archive>>
      /\ UNCHANGED <<job, file, loading, moments, back, replaced>>
  BY <1>2 DEF ImportCompares, Acceptable, Looked, podman
<1> DEFINE T == DOMAIN file[p]
<1>4. /\ job[p].op = "import" /\ outcome[p] # "ok" /\ IsAssignment(file[p])
      /\ DOMAIN ids[p] \cup queue[p] = T /\ loading[p] = Nothing
      /\ \A v \in DOMAIN ids[p] : ids[p][v] \in {0, file[p][v]} /\ Knows(p, v)
  BY <1>1, <1>3 DEF WorkerSound, CommandSound, ImportSound
<1>5. u \in queue[p] /\ tag[u] \in Nat
  BY <1>1, <1>2, <1>3, UnitIs DEF ImagesTypeOK, StoreTypeOK
<1>6. /\ ids' = [q \in Workers |-> ids'[q]]
      /\ \A q \in Workers : IsAssignment(ids'[q])
      /\ \A q \in Workers \ {p} : ids'[q] = ids[q]
      /\ DOMAIN ids'[p] = DOMAIN ids[p] \cup {u} /\ ids'[p][u] = tag[u]
      /\ \A v \in DOMAIN ids[p] : v # u => ids'[p][v] = ids[p][v]
  BY <1>1, <1>2, <1>3, <1>5, Taken
<1>7. /\ queue' \in [Workers -> SUBSET UnitSet] /\ queue'[p] = queue[p] \ {u}
      /\ \A q \in Workers \ {p} : queue'[q] = queue[q]
  BY <1>1, <1>2, <1>3, Advanced
<1>8. moved'[p] = moved[p] \ {u} /\ \A q \in Workers \ {p} : moved'[q] = moved[q]
  BY <1>1, <1>3 DEF ImagesTypeOK, LocalsTypeOK
<1>9. ImagesTypeOK'
  <2>1. StoreTypeOK'
    BY <1>1, <1>3 DEF ImagesTypeOK, StoreTypeOK
  <2>2. CommandTypeOK'
    BY <1>1, <1>3, <1>7 DEF Go, End, ImagesTypeOK, CommandTypeOK
  <2>3. LocalsTypeOK'
    BY <1>1, <1>3, <1>6 DEF ImagesTypeOK, LocalsTypeOK
  <2> QED
    BY <2>1, <2>2, <2>3 DEF ImagesTypeOK
<1>10. \A q \in Workers \ {p} : Same(q) /\ SameHistory(q)
  BY <1>1, <1>3, <1>6, <1>7, <1>8
     DEF Go, End, Same, SameHistory, ImagesTypeOK, CommandTypeOK
<1>11. CASE End(p, "failed")
  <2>1. at'[p] = "done" /\ outcome'[p] = "failed"
    BY <1>1, <1>11 DEF End, ImagesTypeOK, CommandTypeOK
  <2>2. WorkerSound(p)'
    BY <1>1, <1>3, <1>4, <2>1, FailedSound
  <2> QED
    BY <1>3, <1>9, <1>10, <2>2, ImagesLocalStep
<1>12. CASE tag[u] \in {0, file[p][u]} /\ Go(p, "compare")
  <2>1. at'[p] = "compare" /\ outcome' = outcome
    BY <1>1, <1>12 DEF Go, ImagesTypeOK, CommandTypeOK
  <2>2. CommandSound(p)' /\ BuildSound(p)' /\ ExportSound(p)' /\ MomentSound(p)'
    BY <1>1, <1>3, <1>4, <2>1
       DEF WorkerSound, CommandSound, BuildSound, ExportSound, MomentSound
  <2>3. ViewSound(p)'
    <3>1. Watched(p)' = Watched(p)
      BY <1>3 DEF Watched
    <3> QED
      BY <1>1, <1>3, <2>1, <3>1 DEF WorkerSound, ViewSound
  <2>4. ImportSound(p)'
    <3>1. ASSUME NEW v \in DOMAIN ids'[p]
          PROVE  ids'[p][v] \in {0, file[p][v]} /\ Knows(p, v)'
      <4>1. CASE v = u
        BY <1>3, <1>6, <1>12, <4>1 DEF Knows
      <4>2. CASE v # u
        BY <1>3, <1>4, <1>6, <1>8, <4>2 DEF Knows
      <4> QED
        BY <4>1, <4>2
    <3>2. DOMAIN ids'[p] \cup queue'[p] = T
      BY <1>4, <1>5, <1>6, <1>7
    <3> QED
      BY <1>3, <1>4, <2>1, <3>1, <3>2 DEF ImportSound
  <2>5. WorkerSound(p)'
    BY <1>1, <1>3, <2>2, <2>3, <2>4 DEF WorkerSound
  <2> QED
    BY <1>3, <1>9, <1>10, <2>5, ImagesLocalStep
<1> QED
  BY <1>3, <1>11, <1>12

LEMMA ImportDecidesStep ==
    ASSUME ImagesInv, NEW p \in Workers, ImportDecides(p)
    PROVE  ImagesInv'
<1>1. ImagesTypeOK /\ WorkerSound(p)
  BY DEF ImagesInv
<1>2. /\ at[p] = "compare" /\ queue[p] = {}
      /\ UNCHANGED <<tag, origin, archive>>
      /\ UNCHANGED <<job, ids, file, moved, moments, back, replaced>>
  BY DEF ImportDecides, podman, history
<1> DEFINE T == DOMAIN file[p]
<1>3. /\ job[p].op = "import" /\ outcome[p] # "ok" /\ IsAssignment(file[p])
      /\ DOMAIN ids[p] = T /\ loading[p] = Nothing
      /\ \A v \in DOMAIN ids[p] : ids[p][v] \in {0, file[p][v]} /\ Knows(p, v)
  BY <1>1, <1>2 DEF WorkerSound, CommandSound, ImportSound
<1>4. Watched(p)' = Watched(p)
  BY <1>2 DEF Watched
<1>5. CASE ids[p] = file[p]
  <2>1. /\ at' = [at EXCEPT ![p] = "done"] /\ outcome' = [outcome EXCEPT ![p] = "ok"]
        /\ queue' = queue /\ loading' = loading
    BY <1>5 DEF ImportDecides, End
  <2>2. ImagesTypeOK'
    BY <1>1, <1>2, <2>1 DEF ImagesTypeOK, StoreTypeOK, CommandTypeOK, LocalsTypeOK
  <2>3. \A q \in Workers \ {p} : Same(q) /\ SameHistory(q)
    BY <1>1, <1>2, <2>1 DEF Same, SameHistory, ImagesTypeOK, CommandTypeOK
  <2>4. at'[p] = "done"
    BY <1>1, <2>1 DEF ImagesTypeOK, CommandTypeOK
  <2>5. WorkerSound(p)'
    BY <1>1, <1>2, <1>3, <2>1, <2>4
       DEF WorkerSound, CommandSound, BuildSound, ViewSound, ExportSound, ImportSound,
           MomentSound
  <2> QED
    BY <1>2, <2>2, <2>3, <2>5, ImagesLocalStep
<1>6. CASE ids[p] # file[p]
  <2>1. /\ Go(p, "load") \/ End(p, "failed")
        /\ loading' = [loading EXCEPT ![p] = archive]
        /\ queue' = [queue EXCEPT ![p] = DOMAIN archive \cap UnitSet]
    BY <1>6 DEF ImportDecides
  <2>2. ImagesTypeOK'
    <3>1. StoreTypeOK' /\ LocalsTypeOK'
      BY <1>1, <1>2, <2>1 DEF ImagesTypeOK, StoreTypeOK, LocalsTypeOK
    <3>2. CommandTypeOK'
      BY <1>1, <1>2, <2>1 DEF Go, End, ImagesTypeOK, CommandTypeOK
    <3> QED
      BY <3>1, <3>2 DEF ImagesTypeOK
  <2>3. \A q \in Workers \ {p} : Same(q) /\ SameHistory(q)
    BY <1>1, <1>2, <2>1
       DEF Go, End, Same, SameHistory, ImagesTypeOK, CommandTypeOK, LocalsTypeOK
  <2>4. CASE End(p, "failed")
    <3>1. at'[p] = "done" /\ outcome'[p] = "failed"
      BY <1>1, <2>4 DEF End, ImagesTypeOK, CommandTypeOK
    <3>2. WorkerSound(p)'
      BY <1>1, <1>2, <1>3, <3>1, FailedSound
    <3> QED
      BY <1>2, <2>2, <2>3, <3>2, ImagesLocalStep
  <2>5. CASE Go(p, "load")
    <3>1. /\ at'[p] = "load" /\ outcome' = outcome /\ loading'[p] = archive
          /\ queue'[p] = DOMAIN archive \cap UnitSet
      BY <1>1, <2>1, <2>5 DEF Go, ImagesTypeOK, CommandTypeOK, LocalsTypeOK
    <3>2. CommandSound(p)' /\ BuildSound(p)' /\ ExportSound(p)' /\ MomentSound(p)'
      BY <1>1, <1>2, <1>3, <3>1
         DEF WorkerSound, CommandSound, BuildSound, ExportSound, MomentSound
    <3>3. ViewSound(p)'
      BY <1>1, <1>2, <1>4, <3>1 DEF WorkerSound, ViewSound
    <3>4. ImportSound(p)'
      <4>1. \A v \in T : tag[v] \in {0, file[p][v]} \/ v \in moved[p]
        BY <1>3 DEF Knows
      <4>2. archive \in [DOMAIN archive -> Nat]
        BY <1>1 DEF ImagesTypeOK, StoreTypeOK
      <4>3. archive = file[p] => T \ queue'[p] = {}
        BY <1>3, <3>1 DEF IsAssignment
      <4> QED
        BY <1>2, <1>3, <3>1, <4>1, <4>2, <4>3 DEF ImportSound
    <3>5. WorkerSound(p)'
      BY <1>1, <1>2, <3>2, <3>3, <3>4 DEF WorkerSound
    <3> QED
      BY <1>2, <2>2, <2>3, <3>5, ImagesLocalStep
  <2> QED
    BY <2>1, <2>4, <2>5
<1> QED
  BY <1>5, <1>6

\* A tag that was acceptable and is not any more has moved.
LEMMA ImportLoadsStep ==
    ASSUME ImagesInv, NEW p \in Workers, ImportLoads(p)
    PROVE  ImagesInv'
<1>1. ImagesTypeOK /\ WorkerSound(p)
  BY DEF ImagesInv
<1>2. PICK u \in UnitSet : u = Unit(p)
  BY <1>1, UnitIs DEF ImportLoads
<1>3. PICK image : image = loading[p][u]
  OBVIOUS
<1>4. /\ at[p] = "load" /\ queue[p] # {}
      /\ replaced' = [replaced EXCEPT ![p] =
            IF tag[u] \in {0, image} THEN @
            ELSE @ \cup {[unit |-> u, late |-> u \in moved[p],
                          inspected |-> loading[p] = file[p]]}]
      /\ Tagged(p, u, image) /\ Advance(p)
      /\ UNCHANGED <<origin, archive>>
      /\ UNCHANGED <<job, ids, file, loading, at, outcome>>
  BY <1>2, <1>3 DEF ImportLoads
<1> DEFINE T == DOMAIN file[p]
<1>5. /\ job[p].op = "import" /\ outcome[p] # "ok" /\ IsAssignment(file[p])
      /\ queue[p] \subseteq DOMAIN loading[p]
      /\ loading[p] \in [DOMAIN loading[p] -> Nat]
      /\ \A v \in queue[p] \cap T : tag[v] \in {0, file[p][v]} \/ v \in moved[p]
      /\ loading[p] = file[p] => \A v \in T \ queue[p] : Met(p, v, file[p])
  BY <1>1, <1>4 DEF WorkerSound, CommandSound, ImportSound
<1>6. u \in queue[p] /\ image \in Nat /\ queue[p] \subseteq UnitSet
  BY <1>1, <1>2, <1>3, <1>4, <1>5, UnitIs DEF ImagesTypeOK, CommandTypeOK
<1>7. /\ queue' \in [Workers -> SUBSET UnitSet] /\ queue'[p] = queue[p] \ {u}
      /\ \A q \in Workers \ {p} : queue'[q] = queue[q]
  BY <1>1, <1>2, <1>4, Advanced
<1>8. /\ tag' \in [UnitSet -> Nat] /\ tag'[u] = image
      /\ \A v \in UnitSet : v # u => tag'[v] = tag[v]
      /\ moved' = [q \in Workers |-> moved'[q]] /\ moved'[p] = moved[p] \ {u}
      /\ moments' = [q \in Workers |-> moments'[q]]
      /\ back' = [q \in Workers |-> back'[q]]
  BY <1>1, <1>4, <1>6, OwnTags
<1>9. /\ ViewSound(p)' /\ moments[p] \subseteq moments'[p]
      /\ [v \in Watched(p) |-> tag'[v]] \in moments'[p]
  BY <1>1, <1>4, <1>6, ViewMoves DEF WorkerSound
<1>10. /\ replaced' = [q \in Workers |-> replaced'[q]]
       /\ \A q \in Workers \ {p} : replaced'[q] = replaced[q]
       /\ replaced'[p] = IF tag[u] \in {0, image} THEN replaced[p]
                         ELSE replaced[p] \cup {[unit |-> u, late |-> u \in moved[p],
                                                inspected |-> loading[p] = file[p]]}
  BY <1>1, <1>4 DEF ImagesTypeOK, LocalsTypeOK
<1>11. ImagesTypeOK'
  <2>1. StoreTypeOK' /\ CommandTypeOK'
    BY <1>1, <1>4, <1>7, <1>8 DEF ImagesTypeOK, StoreTypeOK, CommandTypeOK
  <2>2. LocalsTypeOK'
    BY <1>1, <1>4, <1>8, <1>10 DEF ImagesTypeOK, LocalsTypeOK
  <2> QED
    BY <2>1, <2>2 DEF ImagesTypeOK
<1>12. \A q \in Workers \ {p} : Same(q)
  BY <1>4, <1>7, <1>10 DEF Same
<1>13. \A r \in replaced'[p] : r.late \/ ~r.inspected
  <2>1. \A r \in replaced[p] : r.late \/ ~r.inspected
    BY <1>1 DEF WorkerSound
  <2>2. ASSUME tag[u] \notin {0, image}, loading[p] = file[p]
        PROVE  u \in moved[p]
    BY <1>3, <1>5, <1>6, <2>2
  <2>3. ASSUME NEW r \in replaced'[p], r \notin replaced[p]
        PROVE  r.late \/ ~r.inspected
    <3>1. /\ tag[u] \notin {0, image}
          /\ r = [unit |-> u, late |-> u \in moved[p], inspected |-> loading[p] = file[p]]
      BY <1>10, <2>3
    <3>2. (r.late <=> u \in moved[p]) /\ (r.inspected <=> loading[p] = file[p])
      BY <3>1, Zenon
    <3> QED
      BY <2>2, <3>1, <3>2
  <2> QED
    BY <2>1, <2>3
<1>14. CommandSound(p)' /\ BuildSound(p)' /\ ExportSound(p)' /\ MomentSound(p)'
  BY <1>1, <1>4, <1>5
     DEF WorkerSound, CommandSound, BuildSound, ExportSound, MomentSound
<1>15. ImportSound(p)'
  <2>1. ASSUME NEW v \in queue'[p] \cap T
        PROVE  tag'[v] \in {0, file[p][v]} \/ v \in moved'[p]
    BY <1>5, <1>6, <1>7, <1>8
  <2>2. ASSUME loading[p] = file[p], NEW v \in T \ queue'[p]
        PROVE  Met(p, v, file[p])'
    <3>1. CASE v = u
      <4>1. u \in Watched(p)
        BY <1>5, <2>2, <3>1 DEF Watched
      <4>2. [w \in Watched(p) |-> tag'[w]][u] = file[p][u]
        BY <1>3, <1>8, <2>2, <4>1
      <4> QED
        BY <1>4, <1>9, <3>1, <4>2 DEF Met
    <3>2. CASE v # u
      <4>1. Met(p, v, file[p])
        BY <1>5, <1>7, <2>2, <3>2
      <4> QED
        BY <1>4, <1>9, <4>1 DEF Met
    <3> QED
      BY <3>1, <3>2
  <2>3. queue'[p] \subseteq DOMAIN loading[p]
    BY <1>5, <1>7
  <2> QED
    BY <1>4, <1>5, <2>1, <2>2, <2>3 DEF ImportSound
<1>16. WorkerSound(p)'
  BY <1>9, <1>13, <1>14, <1>15 DEF WorkerSound
<1> QED
  BY <1>4, <1>6, <1>11, <1>12, <1>16, TagStep

LEMMA ImportLoadedStep ==
    ASSUME ImagesInv, NEW p \in Workers, ImportLoaded(p)
    PROVE  ImagesInv'
<1>1. ImagesTypeOK /\ WorkerSound(p)
  BY DEF ImagesInv
<1>2. /\ at[p] = "load" /\ queue[p] = {}
      /\ at' = [at EXCEPT ![p] = "verify"] /\ outcome' = outcome
      /\ queue' = [queue EXCEPT ![p] = DOMAIN file[p]]
      /\ ids' = [ids EXCEPT ![p] = Nothing]
      /\ UNCHANGED <<tag, origin, archive>>
      /\ UNCHANGED <<job, file, loading, moved, moments, back, replaced>>
  BY DEF ImportLoaded, Go, podman, history
<1> DEFINE T == DOMAIN file[p]
<1>3. /\ job[p].op = "import" /\ outcome[p] # "ok" /\ IsAssignment(file[p])
      /\ loading[p] = file[p] => \A v \in T : Met(p, v, file[p])
  BY <1>1, <1>2 DEF WorkerSound, CommandSound, ImportSound
<1>4. T \subseteq UnitSet /\ Watched(p) = T /\ Watched(p)' = T
  BY <1>2, <1>3 DEF IsAssignment, Watched
<1>5. [v \in T |-> tag[v]] \in moments[p]
  BY <1>1, <1>2, <1>4 DEF WorkerSound, ViewSound
<1>6. ImagesTypeOK'
  <2>1. StoreTypeOK' /\ CommandTypeOK'
    BY <1>1, <1>2, <1>4 DEF ImagesTypeOK, StoreTypeOK, CommandTypeOK
  <2>2. \A q \in Workers : IsAssignment(ids'[q])
    BY <1>1, <1>2, NothingIs DEF ImagesTypeOK, LocalsTypeOK
  <2>3. LocalsTypeOK'
    BY <1>1, <1>2, <2>2 DEF ImagesTypeOK, LocalsTypeOK
  <2> QED
    BY <2>1, <2>3 DEF ImagesTypeOK
<1>7. \A q \in Workers \ {p} : Same(q) /\ SameHistory(q)
  BY <1>1, <1>2 DEF Same, SameHistory, ImagesTypeOK, CommandTypeOK, LocalsTypeOK
<1>8. at'[p] = "verify" /\ queue'[p] = T /\ ids'[p] = Nothing
  BY <1>1, <1>2 DEF ImagesTypeOK, CommandTypeOK, LocalsTypeOK
<1>9. CommandSound(p)' /\ BuildSound(p)' /\ ExportSound(p)' /\ MomentSound(p)'
  BY <1>1, <1>2, <1>3, <1>8
     DEF WorkerSound, CommandSound, BuildSound, ExportSound, MomentSound
<1>10. ViewSound(p)'
  BY <1>1, <1>2, <1>4, <1>8 DEF WorkerSound, ViewSound
<1>11. ImportSound(p)'
  <2>1. Agreed(p, T, file[p], ids[p])'
    BY <1>2, <1>5, <1>8, NothingIs DEF Agreed
  <2>2. loading[p] = file[p] => \A v \in T : Met(p, v, file[p])'
    BY <1>2, <1>3 DEF Met
  <2> QED
    BY <1>2, <1>3, <1>8, <2>1, <2>2, NothingIs DEF ImportSound
<1>12. WorkerSound(p)'
  BY <1>1, <1>2, <1>9, <1>10, <1>11 DEF WorkerSound
<1> QED
  BY <1>2, <1>6, <1>7, <1>12, ImagesLocalStep

LEMMA ImportVerifiesStep ==
    ASSUME ImagesInv, NEW p \in Workers, ImportVerifies(p)
    PROVE  ImagesInv'
<1>1. ImagesTypeOK /\ WorkerSound(p)
  BY DEF ImagesInv
<1>2. /\ at[p] = "verify"
      /\ UNCHANGED <<tag, origin, archive>>
      /\ UNCHANGED <<job, file, loading, moments, back, replaced>>
  BY DEF ImportVerifies, podman
<1> DEFINE T == DOMAIN file[p]
           same == loading[p] = file[p]
<1>3. /\ job[p].op = "import" /\ outcome[p] # "ok" /\ IsAssignment(file[p])
      /\ DOMAIN ids[p] \cup queue[p] = T
      /\ \A v \in DOMAIN ids[p] : Knows(p, v)
      /\ same => /\ \A v \in T : Met(p, v, file[p])
                 /\ back[p] = {} => Agreed(p, T, file[p], ids[p])
  BY <1>1, <1>2 DEF WorkerSound, CommandSound, ImportSound
<1>4. T \subseteq UnitSet /\ Watched(p) = T /\ Watched(p)' = T
  BY <1>2, <1>3 DEF IsAssignment, Watched
<1>5. /\ [v \in T |-> tag[v]] \in moments[p]
      /\ \A m \in moments[p] : m = [v \in T |-> m[v]]
  BY <1>1, <1>2, <1>4 DEF WorkerSound, ViewSound
<1>6. CASE queue[p] = {}
  <2>1. PICK value \in {"ok", "failed"} :
          /\ at' = [at EXCEPT ![p] = "done"] /\ outcome' = [outcome EXCEPT ![p] = value]
          /\ value = "ok" => ids[p] = file[p]
    BY <1>6 DEF ImportVerifies, End
  <2>2. ids' = ids /\ queue' = queue /\ moved' = moved
    BY <1>6 DEF ImportVerifies
  <2>3. ImagesTypeOK'
    BY <1>1, <1>2, <2>1, <2>2 DEF ImagesTypeOK, StoreTypeOK, CommandTypeOK, LocalsTypeOK
  <2>4. \A q \in Workers \ {p} : Same(q) /\ SameHistory(q)
    BY <1>1, <1>2, <2>1, <2>2 DEF Same, SameHistory, ImagesTypeOK, CommandTypeOK
  <2>5. at'[p] = "done" /\ outcome'[p] = value
    BY <1>1, <2>1 DEF ImagesTypeOK, CommandTypeOK
  <2>6. MomentSound(p)'
    <3> SUFFICES ASSUME ids[p] = file[p], back[p] = {}, ~same => moved[p] = {}
                 PROVE  file[p] \in moments[p]
      BY <1>2, <1>3, <2>1, <2>2, <2>5 DEF MomentSound
    <3>1. file[p] = [v \in T |-> file[p][v]]
      BY <1>3 DEF IsAssignment
    <3>2. CASE same
      <4>1. PICK m \in moments[p] : \A v \in T :
              m[v] = file[p][v] \/ (v \in DOMAIN ids[p] => ids[p][v] # file[p][v])
        BY <1>3, <3>2 DEF Agreed
      <4>2. \A v \in T : m[v] = file[p][v]
        BY <4>1
      <4>3. m = [v \in T |-> m[v]]
        BY <1>5, <4>1
      <4>4. m = file[p]
        <5> HIDE DEF T
        <5> QED
          BY <3>1, <4>2, <4>3
      <4> QED
        BY <4>1, <4>4
    <3>3. CASE ~same
      <4>1. \A v \in T : tag[v] = file[p][v]
        BY <1>3, <3>3 DEF Knows
      <4>2. [v \in T |-> tag[v]] = file[p]
        <5> HIDE DEF T
        <5> QED
          BY <3>1, <4>1
      <4> QED
        BY <1>5, <4>2
    <3> QED
      BY <3>2, <3>3
  <2>7. WorkerSound(p)'
    BY <1>1, <1>2, <1>3, <2>5, <2>6
       DEF WorkerSound, CommandSound, BuildSound, ViewSound, ExportSound, ImportSound
  <2> QED
    BY <1>2, <2>3, <2>4, <2>7, ImagesLocalStep
<1>7. CASE queue[p] # {}
  <2>1. PICK u \in UnitSet : u = Unit(p)
    BY <1>1, <1>7, UnitIs
  <2>2. u \in queue[p] /\ tag[u] \in Nat
    BY <1>1, <1>7, <2>1, UnitIs DEF ImagesTypeOK, StoreTypeOK
  <2>3. /\ at' = [at EXCEPT ![p] = "verify"] /\ outcome' = outcome
        /\ Note(p, tag[u]) /\ moved' = [moved EXCEPT ![p] = @ \ {u}] /\ Advance(p)
    BY <1>7, <2>1 DEF ImportVerifies, Go, Looked
  <2>4. /\ ids' = [q \in Workers |-> ids'[q]]
        /\ \A q \in Workers : IsAssignment(ids'[q])
        /\ \A q \in Workers \ {p} : ids'[q] = ids[q]
        /\ DOMAIN ids'[p] = DOMAIN ids[p] \cup {u} /\ ids'[p][u] = tag[u]
        /\ \A v \in DOMAIN ids[p] : v # u => ids'[p][v] = ids[p][v]
    BY <1>1, <1>7, <2>1, <2>2, <2>3, Taken
  <2>5. /\ queue' \in [Workers -> SUBSET UnitSet] /\ queue'[p] = queue[p] \ {u}
        /\ \A q \in Workers \ {p} : queue'[q] = queue[q]
    BY <1>1, <2>1, <2>3, Advanced
  <2>6. moved'[p] = moved[p] \ {u} /\ \A q \in Workers \ {p} : moved'[q] = moved[q]
    BY <1>1, <2>3 DEF ImagesTypeOK, LocalsTypeOK
  <2>7. ImagesTypeOK'
    <3>0. StoreTypeOK'
      BY <1>1, <1>2 DEF ImagesTypeOK, StoreTypeOK
    <3>1. CommandTypeOK'
      BY <1>1, <1>2, <2>3, <2>5 DEF ImagesTypeOK, CommandTypeOK
    <3>2. LocalsTypeOK'
      BY <1>1, <1>2, <2>3, <2>4 DEF ImagesTypeOK, LocalsTypeOK
    <3> QED
      BY <3>0, <3>1, <3>2 DEF ImagesTypeOK
  <2>8. \A q \in Workers \ {p} : Same(q) /\ SameHistory(q)
    BY <1>1, <1>2, <2>3, <2>4, <2>5, <2>6
       DEF Same, SameHistory, ImagesTypeOK, CommandTypeOK
  <2>9. at'[p] = "verify"
    BY <1>1, <2>3 DEF ImagesTypeOK, CommandTypeOK
  <2>10. CommandSound(p)' /\ BuildSound(p)' /\ ExportSound(p)' /\ MomentSound(p)'
    BY <1>1, <1>2, <1>3, <2>3, <2>9
       DEF WorkerSound, CommandSound, BuildSound, ExportSound, MomentSound
  <2>11. ViewSound(p)'
    BY <1>1, <1>2, <1>4, <2>9 DEF WorkerSound, ViewSound
  <2>12. ImportSound(p)'
    <3>1. ASSUME NEW v \in DOMAIN ids'[p]
          PROVE  Knows(p, v)'
      <4>1. CASE v = u
        BY <1>2, <2>4, <4>1 DEF Knows
      <4>2. CASE v # u
        BY <1>2, <1>3, <2>4, <2>6, <4>2 DEF Knows
      <4> QED
        BY <4>1, <4>2
    <3>2. DOMAIN ids'[p] \cup queue'[p] = T
      BY <1>3, <2>2, <2>4, <2>5
    <3>3. ASSUME same, NEW v \in T
          PROVE  Met(p, v, file[p])'
      BY <1>2, <1>3, <3>3 DEF Met
    <3>4. ASSUME same, back[p] = {}
          PROVE  Agreed(p, T, file[p], ids[p])'
      <4>1. PICK m \in moments[p] : \A v \in T :
              \/ m[v] = file[p][v]
              \/ /\ tag[v] # file[p][v]
                 /\ v \in DOMAIN ids[p] => ids[p][v] # file[p][v]
        BY <1>3, <3>4 DEF Agreed
      <4>2. \A v \in T :
              \/ m[v] = file[p][v]
              \/ /\ tag[v] # file[p][v]
                 /\ v \in DOMAIN ids'[p] => ids'[p][v] # file[p][v]
        BY <2>4, <4>1
      <4> QED
        BY <1>2, <4>2 DEF Agreed
    <3> QED
      BY <1>2, <1>3, <2>9, <3>1, <3>2, <3>3, <3>4 DEF ImportSound
  <2>13. WorkerSound(p)'
    BY <1>1, <1>2, <2>10, <2>11, <2>12 DEF WorkerSound
  <2> QED
    BY <1>2, <2>7, <2>8, <2>13, ImagesLocalStep
<1> QED
  BY <1>6, <1>7

-----------------------------------------------------------------------------
(* cleanup images, and the user.                                           *)

\* What cleanup keeps, at each of its stages.
LEMMA CleanupIsSound ==
    ASSUME NEW p \in Workers, WorkerSound(p), job'[p].op = "cleanup",
           at'[p] \in {"remove", "done"}, replaced'[p] = replaced[p],
           outcome'[p] = "ok" => at'[p] = "done"
    PROVE  WorkerSound(p)'
BY DEF WorkerSound, CommandSound, BuildSound, ViewSound, ExportSound, ImportSound,
       MomentSound

LEMMA CleanupLooksStep ==
    ASSUME ImagesInv, NEW p \in Workers, CleanupLooks(p)
    PROVE  ImagesInv'
<1>1. ImagesTypeOK /\ WorkerSound(p)
  BY DEF ImagesInv
<1>2. /\ at[p] = "cleanup"
      /\ at' = [at EXCEPT ![p] = "remove"] /\ outcome' = outcome
      /\ queue' = [queue EXCEPT ![p] =
                     {u \in CleanupScope(job[p].target) : tag[u] # 0}]
      /\ UNCHANGED <<tag, origin, archive>>
      /\ UNCHANGED <<job, ids, file, loading, moved, moments, back, replaced>>
  BY DEF CleanupLooks, Go, podman, history
<1>3. ImagesTypeOK'
  <2>1. StoreTypeOK' /\ LocalsTypeOK'
    BY <1>1, <1>2 DEF ImagesTypeOK, StoreTypeOK, LocalsTypeOK
  <2>2. CleanupScope(job[p].target) \subseteq UnitSet
    BY <1>1 DEF CleanupScope, ImagesTypeOK, CommandTypeOK
  <2>3. CommandTypeOK'
    BY <1>1, <1>2, <2>2 DEF ImagesTypeOK, CommandTypeOK
  <2> QED
    BY <2>1, <2>3 DEF ImagesTypeOK
<1>4. \A q \in Workers \ {p} : Same(q) /\ SameHistory(q)
  BY <1>1, <1>2 DEF Same, SameHistory, ImagesTypeOK, CommandTypeOK
<1>5. WorkerSound(p)'
  BY <1>1, <1>2, CleanupIsSound DEF WorkerSound, CommandSound, ImagesTypeOK, CommandTypeOK
<1> QED
  BY <1>2, <1>3, <1>4, <1>5, ImagesLocalStep

LEMMA CleanupRemovesImageStep ==
    ASSUME ImagesInv, NEW p \in Workers, CleanupRemovesImage(p)
    PROVE  ImagesInv'
<1>1. ImagesTypeOK /\ WorkerSound(p)
  BY DEF ImagesInv
<1>2. PICK u \in Removable(p) : /\ Tagged(p, u, 0)
                                /\ queue' = [queue EXCEPT ![p] = @ \ {u}]
  BY DEF CleanupRemovesImage
<1>3. /\ at[p] = "remove" /\ Tagged(p, u, 0) /\ u \in UnitSet
      /\ UNCHANGED <<origin, archive>>
      /\ UNCHANGED <<job, ids, file, loading, at, outcome, replaced>>
  BY <1>1, <1>2 DEF CleanupRemovesImage, Removable, ImagesTypeOK, CommandTypeOK
<1>4. /\ queue' \in [Workers -> SUBSET UnitSet]
      /\ \A q \in Workers \ {p} : queue'[q] = queue[q]
  BY <1>1, <1>2 DEF ImagesTypeOK, CommandTypeOK
<1>5. /\ tag' \in [UnitSet -> Nat]
      /\ moved' = [q \in Workers |-> moved'[q]]
      /\ moments' = [q \in Workers |-> moments'[q]]
      /\ back' = [q \in Workers |-> back'[q]]
  BY <1>1, <1>3, OwnTags
<1>6. ImagesTypeOK'
  <2>1. StoreTypeOK' /\ CommandTypeOK'
    BY <1>1, <1>3, <1>4, <1>5 DEF ImagesTypeOK, StoreTypeOK, CommandTypeOK
  <2>2. LocalsTypeOK'
    BY <1>1, <1>3, <1>5 DEF ImagesTypeOK, LocalsTypeOK
  <2> QED
    BY <2>1, <2>2 DEF ImagesTypeOK
<1>7. \A q \in Workers \ {p} : Same(q)
  BY <1>3, <1>4 DEF Same
<1>8. WorkerSound(p)'
  BY <1>1, <1>3, CleanupIsSound DEF WorkerSound, CommandSound
<1> QED
  BY <1>3, <1>6, <1>7, <1>8, TagStep

LEMMA CleanupEndsStep ==
    ASSUME ImagesInv, NEW p \in Workers, CleanupRefused(p) \/ CleanupEnds(p)
    PROVE  ImagesInv'
<1>1. ImagesTypeOK /\ WorkerSound(p)
  BY DEF ImagesInv
<1>2. PICK value \in {"ok", "failed"} : End(p, value)
  BY DEF CleanupRefused, CleanupEnds
<1>3. /\ at[p] = "remove"
      /\ at' = [at EXCEPT ![p] = "done"] /\ outcome' = [outcome EXCEPT ![p] = value]
      /\ UNCHANGED <<tag, origin, archive>>
      /\ UNCHANGED <<job, queue, ids, file, loading>>
      /\ UNCHANGED <<moved, moments, back, replaced>>
  BY <1>2 DEF CleanupRefused, CleanupEnds, End, podman, locals, history
<1>4. ImagesTypeOK'
  BY <1>1, <1>3 DEF ImagesTypeOK, StoreTypeOK, CommandTypeOK, LocalsTypeOK
<1>5. \A q \in Workers \ {p} : Same(q) /\ SameHistory(q)
  BY <1>1, <1>3 DEF Same, SameHistory, ImagesTypeOK, CommandTypeOK
<1>6. WorkerSound(p)'
  BY <1>1, <1>3, CleanupIsSound DEF WorkerSound, CommandSound, ImagesTypeOK, CommandTypeOK
<1> QED
  BY <1>3, <1>4, <1>5, <1>6, ImagesLocalStep

\* Nothing moves but the archive.
LEMMA ArchiveStep ==
    ASSUME ImagesInv, archive' \in [DOMAIN archive' -> Nat],
           UNCHANGED <<podman, locals, at, outcome, history>>
    PROVE  ImagesInv'
<1>1. ImagesTypeOK'
  BY DEF ImagesInv, ImagesTypeOK, StoreTypeOK, CommandTypeOK, LocalsTypeOK,
         podman, locals, history
<1>2. \A q \in Workers : Same(q) /\ SameHistory(q)
  BY DEF Same, SameHistory, locals, history
<1>3. tag' = tag /\ origin' = origin
  BY DEF podman
<1> QED
  BY <1>1, <1>2, <1>3, QuietSound DEF ImagesInv

LEMMA UserEditsArchiveStep ==
    ASSUME ImagesInv, UserEditsArchive
    PROVE  ImagesInv'
<1>1. archive' \in [DOMAIN archive' -> Nat]
  <2>1. CASE archive' \in {NoArchive, Damaged, Unmanaged}
    <3>1. NoArchive \in [DOMAIN NoArchive -> Nat]
      BY DEF NoArchive, Nothing
    <3>2. Damaged \in [DOMAIN Damaged -> Nat]
      BY DEF Damaged
    <3>3. Unmanaged \in [DOMAIN Unmanaged -> Nat]
      BY DEF Unmanaged
    <3>4. CASE archive' = NoArchive
      BY <3>1, <3>4
    <3>5. CASE archive' = Damaged
      BY <3>2, <3>5
    <3>6. CASE archive' = Unmanaged
      BY <3>3, <3>6
    <3> QED
      BY <2>1, <3>4, <3>5, <3>6
  <2>2. ASSUME NEW S \in SUBSET UnitSet, NEW images \in [S -> DOMAIN origin],
               archive' = images
        PROVE  archive' \in [DOMAIN archive' -> Nat]
    <3>1. DOMAIN origin \subseteq Nat
      BY Appended DEF ImagesInv, ImagesTypeOK, StoreTypeOK
    <3> QED
      BY <2>2, <3>1
  <2> QED
    BY <2>1, <2>2 DEF UserEditsArchive
<1> QED
  BY <1>1, ArchiveStep DEF UserEditsArchive

-----------------------------------------------------------------------------
(* The theorems.                                                           *)

LEMMA ImagesInvInit ==
    ImagesInit => ImagesInv
<1> SUFFICES ASSUME ImagesInit
             PROVE  ImagesInv
  OBVIOUS
<1>1. StoreTypeOK
  <2>1. Len(Before) \in Nat /\ origin = Before
    BY BeforeAssumption DEF ImagesInit
  <2>2. tag \in [UnitSet -> Nat]
    BY <2>1 DEF ImagesInit
  <2>3. archive \in [DOMAIN archive -> Nat]
    BY DEF ImagesInit, NoArchive, Nothing
  <2> QED
    BY <2>1, <2>2, <2>3, BeforeAssumption DEF StoreTypeOK
<1>2. CommandTypeOK
  BY DEF ImagesInit, CommandTypeOK
<1>3. LocalsTypeOK
  BY NothingIs DEF ImagesInit, LocalsTypeOK
<1>4. ASSUME NEW p \in Workers
      PROVE  WorkerSound(p)
  BY <1>4 DEF ImagesInit, WorkerSound, CommandSound, BuildSound, ViewSound, ExportSound,
              ImportSound, MomentSound
<1> QED
  BY <1>1, <1>2, <1>3, <1>4 DEF ImagesInv, ImagesTypeOK

LEMMA ImagesInvStep ==
    ImagesInv /\ [ImagesNext]_imageVars => ImagesInv'
<1> SUFFICES ASSUME ImagesInv, [ImagesNext]_imageVars
             PROVE  ImagesInv'
  OBVIOUS
<1>1. ASSUME NEW p \in Workers,
             (\E j \in Jobs : BeginJob(p, j)) \/ Killed(p)
      PROVE  ImagesInv'
  BY <1>1, BeginJobStep, KilledStep
<1>2. ASSUME NEW p \in Workers,
             BuildSkipsOrFails(p) \/ BuildStep(p) \/ BuildSummary(p)
      PROVE  ImagesInv'
  BY <1>2, BuildSkipsOrFailsStep, BuildStepStep, BuildSummaryStep
<1>3. ASSUME NEW p \in Workers,
             \/ ExportBegins(p) \/ ExportInspects(p) \/ ExportSaves(p)
             \/ ExportPublishes(p)
      PROVE  ImagesInv'
  BY <1>3, ExportBeginsStep, ExportInspectsStep, ExportSavesStep, ExportPublishesStep
<1>4. ASSUME NEW p \in Workers,
             \/ ImportInspects(p) \/ ImportCompares(p) \/ ImportDecides(p)
             \/ ImportLoads(p) \/ ImportLoaded(p) \/ ImportVerifies(p)
      PROVE  ImagesInv'
  BY <1>4, ImportInspectsStep, ImportComparesStep, ImportDecidesStep, ImportLoadsStep,
     ImportLoadedStep, ImportVerifiesStep
<1>5. ASSUME NEW p \in Workers,
             \/ CleanupLooks(p) \/ CleanupRemovesImage(p) \/ CleanupRefused(p)
             \/ CleanupEnds(p)
      PROVE  ImagesInv'
  BY <1>5, CleanupLooksStep, CleanupRemovesImageStep, CleanupEndsStep
<1>6. CASE UserEditsArchive
  BY <1>6, UserEditsArchiveStep
<1>7. CASE UNCHANGED imageVars
  <2>1. archive' \in [DOMAIN archive' -> Nat]
    BY <1>7 DEF ImagesInv, ImagesTypeOK, StoreTypeOK, imageVars
  <2> QED
    BY <1>7, <2>1, ArchiveStep DEF imageVars
<1> QED
  BY <1>1, <1>2, <1>3, <1>4, <1>5, <1>6, <1>7 DEF ImagesNext

\* The inductive invariant of the commands on images holds, for any number of
\* processes, commands, builds and edits.
THEOREM ImagesInvariant ==
    ImagesSpec => []ImagesInv
BY ImagesInvInit, ImagesInvStep, PTL DEF ImagesSpec

\* imagesExport and imagesImport report success only for the images that the
\* tags named at one moment, short of a tag moved away and back.
THEOREM ExportsOneMoment ==
    ImagesSpec => []OneMoment
<1>1. ImagesInv => OneMoment
  BY DEF ImagesInv, WorkerSound, MomentSound, OneMoment
<1> QED
  BY <1>1, ImagesInvariant, PTL

\* commandBuild builds a unit only on what the same command has built.
THEOREM BuildsAreFresh ==
    ImagesSpec => []BuiltOnFresh
<1>1. ImagesInv => BuiltOnFresh
  BY DEF ImagesInv, WorkerSound, BuildSound, BuiltOnFresh
<1> QED
  BY <1>1, ImagesInvariant, PTL

\* imagesImport takes no tag from another image that it had seen there.
THEOREM ImportsKeepTags ==
    ImagesSpec => []TagsKept
<1>1. ImagesInv => TagsKept
  BY DEF ImagesInv, WorkerSound, TagsKept
<1> QED
  BY <1>1, ImagesInvariant, PTL

===============================================================================
