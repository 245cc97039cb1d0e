--------------------------- MODULE AtomicFileProofs ---------------------------
(***************************************************************************)
(* Proofs about AtomicFile, for any finite set of calls, any contents,     *)
(* with or without failing system calls, and any number of kills and       *)
(* power losses.                                                           *)
(***************************************************************************)
EXTENDS AtomicFile, FiniteSetTheorems, TLAPS

\* No call has begun, and nothing was published.
LEMMA InitInv == Init => FileInv
<1> SUFFICES ASSUME Init PROVE FileInv
  OBVIOUS
<1>1. TypeOK
  BY MaxCrashesAssumption DEF Init, TypeOK, Steps
<1>2. Published = {}
  BY DEF Init, Published
<1>3. VersionsSound
  BY <1>2, FS_EmptySet DEF Init, VersionsSound
<1>4. NeverPartial /\ StepsSound /\ PublicationsSound /\ OneCreator
  BY NamesDiffer DEF Init, NeverPartial, StepsSound, PublicationsSound, OneCreator,
     Creator
<1> QED
  BY <1>1, <1>3, <1>4 DEF FileInv

\* A publication is the last one so far.
LEMMA PublishesLast ==
    ASSUME FileInv, NEW w \in Writers, version[w] = 0, Publishes(w)
    PROVE  /\ version' \in [Writers -> Nat]
           /\ VersionsSound'
           /\ \A v \in Writers : version'[v] <= version'[w]
           /\ \A v \in Writers : v # w => version'[v] = version[v]
<1> DEFINE n == Cardinality(Published)
<1>1. IsFiniteSet(Published) /\ n \in Nat
  BY WritersFinite, FS_Subset, FS_CardinalityType DEF Published
<1>2. version' = [version EXCEPT ![w] = n + 1]
  BY DEF Publishes
<1>3. version \in [Writers -> Nat] /\ \A v \in Writers : version[v] <= n
  BY DEF FileInv, TypeOK, VersionsSound
<1> HIDE DEF n
<1>4. Published' = Published \cup {w} /\ w \notin Published
  BY <1>1, <1>2, <1>3 DEF Published
<1>5. Cardinality(Published') = n + 1
  BY <1>1, <1>4, FS_AddElement DEF n
<1> QED
  BY <1>1, <1>2, <1>3, <1>5 DEF VersionsSound

\* Every system call of every call, and every crash, keeps the invariant.
LEMMA NextInv == FileInv /\ [Next]_vars => FileInv'
<1> SUFFICES ASSUME FileInv, [Next]_vars
             PROVE  FileInv'
  OBVIOUS
<1> USE NamesDiffer, MaxCrashesAssumption
    DEF FileInv, TypeOK, Steps, Jobs, NeverPartial, StepsSound, PublicationsSound,
        NotBefore, OneCreator, Creator
<1>0. ASSUME UNCHANGED version PROVE VersionsSound'
  BY <1>0 DEF VersionsSound, Published
<1>1. ASSUME NEW w \in Writers, Ensure(w) PROVE FileInv'
  BY <1>1, <1>0 DEF Ensure, Goto, Return, fileVars
<1>2. ASSUME NEW w \in Writers, EnsureAgain(w) PROVE FileInv'
  BY <1>2, <1>0 DEF EnsureAgain, Goto, Return, fileVars
<1>3. ASSUME NEW w \in Writers, EnsureReads(w) PROVE FileInv'
  BY <1>3, <1>0 DEF EnsureReads, Compare, Return, fileVars
<1>4. ASSUME NEW w \in Writers, Write(w) PROVE FileInv'
  BY <1>4, <1>0 DEF Write, WriteReturns, Goto, Return, fileVars
<1>5. ASSUME NEW w \in Writers, Prepare(w) PROVE FileInv'
  BY <1>5, <1>0 DEF Prepare, Goto
<1>6. ASSUME NEW w \in Writers, PrepareFails(w) PROVE FileInv'
  BY <1>6, <1>0 DEF PrepareFails
<1>7. ASSUME NEW w \in Writers, Publish(w) PROVE FileInv'
  BY <1>7, <1>0 DEF Publish, Goto
<1>8. ASSUME NEW w \in Writers, Link(w) PROVE FileInv'
  <2>1. CASE /\ dest = Absent /\ Publishes(w)
             /\ UNCHANGED <<temp, full, synced, ghosts>>
    <3> USE <2>1, <1>8 DEF Link, Publishes, Goto
    <3>1. version[w] = 0 /\ w \in synced
      OBVIOUS
    <3>2. /\ version' \in [Writers -> Nat]
          /\ VersionsSound'
          /\ \A v \in Writers : version'[v] <= version'[w]
          /\ \A v \in Writers : v # w => version'[v] = version[v]
      BY <3>1, PublishesLast
    <3>3. TypeOK' /\ NeverPartial' /\ StepsSound'
      BY <3>1, <3>2
    <3>4. PublicationsSound'
      BY <3>1, <3>2
    <3>5. \A v \in Writers : ~Creator(v)
      \* Anybody who had published would be at the destination, or survive there.
      <4>1. Absent \notin Writers /\ Absent \in survivors
        OBVIOUS
      <4> QED
        BY <4>1
    <3>6. OneCreator'
      BY <3>5
    <3> QED
      BY <3>2, <3>3, <3>4, <3>6
  <2>2. CASE PublishFails(w) /\ UNCHANGED <<job, crashes>>
    BY <2>2, <1>8, <1>0 DEF Link, PublishFails, fileVars
  <2> QED
    BY <1>8, <2>1, <2>2 DEF Link
<1>9. ASSUME NEW w \in Writers, Replace(w) PROVE FileInv'
  BY <1>9, <1>0 DEF Replace, Goto, PublishFails, fileVars
<1>10. ASSUME NEW w \in Writers, Rename(w) PROVE FileInv'
  <2>1. CASE /\ Publishes(w) /\ temp' = temp \ {w}
             /\ UNCHANGED <<full, synced, ghosts>>
    <3> USE <2>1, <1>10 DEF Rename, Publishes, Goto
    <3>1. version[w] = 0 /\ w \in synced
      OBVIOUS
    <3>2. /\ version' \in [Writers -> Nat]
          /\ VersionsSound'
          /\ \A v \in Writers : version'[v] <= version'[w]
          /\ \A v \in Writers : v # w => version'[v] = version[v]
      BY <3>1, PublishesLast
    <3>3. TypeOK' /\ NeverPartial' /\ StepsSound'
      BY <3>1, <3>2
    <3>4. PublicationsSound'
      BY <3>1, <3>2
    <3>5. OneCreator'
      BY <3>1
    <3> QED
      BY <3>2, <3>3, <3>4, <3>5
  <2>2. CASE PublishFails(w) /\ UNCHANGED <<job, crashes>>
    BY <2>2, <1>10, <1>0 DEF Rename, PublishFails, fileVars
  <2> QED
    BY <1>10, <2>1, <2>2 DEF Rename
<1>11. ASSUME NEW w \in Writers, SyncDirectory(w) PROVE FileInv'
  BY <1>11, <1>0 DEF SyncDirectory, PublishFails, fileVars
<1>12. ASSUME NEW w \in Writers, Remove(w) PROVE FileInv'
  BY <1>12, <1>0 DEF Remove, WriteReturns, Goto, Return
<1>13. ASSUME NEW w \in Writers, Kill(w) PROVE FileInv'
  BY <1>13, <1>0 DEF Kill, InFlight, fileVars
<1>14. CASE PowerLoss
  BY <1>14, <1>0 DEF PowerLoss, InFlight
<1>15. CASE UNCHANGED vars
  BY <1>15, <1>0 DEF vars
<1> HIDE DEF FileInv
<1> QED
  BY <1>1, <1>2, <1>3, <1>4, <1>5, <1>6, <1>7, <1>8, <1>9, <1>10, <1>11, <1>12, <1>13, <1>14, <1>15 DEF Next, Step, Finished

\* Publication goes through complete, synced files, once for each call.
THEOREM FileInvariant == Spec => []FileInv
BY InitInv, NextInv, PTL DEF Spec

\* No crash leaves a part of a file, or less than what a call that returned nil
\* had promised.
THEOREM Crashes == Spec => []CrashSafe
<1>1. FileInv => CrashSafe
  BY DEF FileInv, CrashSafe, Durable, Succeeded, PublicationsSound, NotBefore
<1> QED
  BY <1>1, FileInvariant, PTL

\* Of all the calls with Create at most one returns nil.
THEOREM SingleCreator == Spec => []AtMostOneCreator
<1>1. FileInv => AtMostOneCreator
  BY DEF FileInv, AtMostOneCreator, Succeeded, OneCreator, Creator
<1> QED
  BY <1>1, FileInvariant, PTL

=============================================================================
