---------------------------- MODULE GatewayProofs ----------------------------
(***************************************************************************)
(* Proofs about GatewayProcess, for any set of gateways and stop clients,  *)
(* any ports, with or without faults and for any number of kills; about    *)
(* StreamKeepalive, for any sizes of the buffer and of a Read and a stream *)
(* of any length; and about ChatExchange, for any catalog, requests,       *)
(* responses, limits and number of exchanges.                              *)
(***************************************************************************)
EXTENDS GatewayProcess, StreamKeepalive, ChatExchange, SequenceTheorems,
        FiniteSetTheorems, WellFoundedInduction, TLAPS

-----------------------------------------------------------------------------
(* GatewayProcess.                                                         *)

\* Nobody has started.
LEMMA InitInv == Init => ProcessInv
BY ProcessesDiffer, ProcessAssumption
   DEF Init, ProcessInv, TypeOK, LockSound, Owns, SocketSound, SocketReachable,
       Accepting, BackendSound, ClientSound, StoppedMeansFree, Stages

\* Every step of a gateway, of a client and of a backend keeps the invariant.
LEMMA NextInv == ProcessInv /\ [Next]_vars => ProcessInv'
<1> SUFFICES ASSUME ProcessInv, [Next]_vars
             PROVE  ProcessInv'
  OBVIOUS
<1> USE ProcessesDiffer
    DEF ProcessInv, TypeOK, LockSound, Owns, SocketSound, SocketReachable,
        Accepting, BackendSound, ClientSound, StoppedMeansFree, Stages
<1>1. ASSUME NEW g \in Gateways, Preflight(g) PROVE ProcessInv'
  BY <1>1 DEF Preflight, Reclaim, Goto, Exits, clientVars
<1>2. ASSUME NEW g \in Gateways, OpenListeners(g) PROVE ProcessInv'
  BY <1>2 DEF OpenListeners, Goto, Exits, backendVars, clientVars
<1>3. ASSUME NEW g \in Gateways, WriteRouter(g) PROVE ProcessInv'
  BY <1>3 DEF WriteRouter, Goto, backendVars, clientVars
<1>4. ASSUME NEW g \in Gateways, TakeLock(g) PROVE ProcessInv'
  BY <1>4 DEF TakeLock, Goto, Exits, backendVars, clientVars
<1>5. ASSUME NEW g \in Gateways, RemoveStaleSocket(g) PROVE ProcessInv'
  BY <1>5 DEF RemoveStaleSocket, Goto, backendVars, clientVars
<1>6. ASSUME NEW g \in Gateways, Bind(g) PROVE ProcessInv'
  BY <1>6 DEF Bind, Goto, Exits, backendVars, clientVars
<1>7. ASSUME NEW g \in Gateways, StartBackend(g) PROVE ProcessInv'
  BY <1>7 DEF StartBackend, Reclaim, clientVars
<1>8. ASSUME NEW g \in Gateways, RecycleBackend(g) PROVE ProcessInv'
  BY <1>8 DEF RecycleBackend, Reclaim, clientVars
<1>9. ASSUME NEW g \in Gateways, StopRequested(g) PROVE ProcessInv'
  BY <1>9 DEF StopRequested, Goto, backendVars, clientVars
<1>10. ASSUME NEW g \in Gateways, Drained(g) PROVE ProcessInv'
  BY <1>10 DEF Drained, Goto, backendVars, clientVars
<1>11. ASSUME NEW g \in Gateways, StopBackend(g) PROVE ProcessInv'
  BY <1>11 DEF StopBackend, Reclaim, backendVars, clientVars
<1>12. ASSUME NEW g \in Gateways, CloseControl(g) PROVE ProcessInv'
  BY <1>12 DEF CloseControl, Goto, Hears, backendVars
<1>13. ASSUME NEW g \in Gateways, Unlink(g) PROVE ProcessInv'
  BY <1>13 DEF Unlink, Goto, backendVars, clientVars
<1>14. ASSUME NEW g \in Gateways, Unlock(g) PROVE ProcessInv'
  BY <1>14 DEF Unlock, Goto, backendVars, clientVars
<1>15. ASSUME NEW g \in Gateways, Exit(g) PROVE ProcessInv'
  BY <1>15 DEF Exit, Goto, backendVars, clientVars
<1>16. ASSUME NEW g \in Gateways, Kill(g) PROVE ProcessInv'
  <2> USE <1>16 DEF Kill, Goto, Hears
  <2>1. TypeOK'
    OBVIOUS
  <2>2. LockSound'
    OBVIOUS
  <2>3. SocketSound'
    OBVIOUS
  <2>4. BackendSound'
    OBVIOUS
  <2>5. ClientSound'
    OBVIOUS
  <2>6. StoppedMeansFree'
    OBVIOUS
  <2> QED
    BY <2>1, <2>2, <2>3, <2>4, <2>5, <2>6
<1>17. ASSUME NEW c \in Clients, StopLocalGateway(c) PROVE ProcessInv'
  BY <1>17 DEF StopLocalGateway, ClientReturns, Hears, gatewayUnchanged, backendVars
<1>18. ASSUME NEW c \in Clients, Dial(c) PROVE ProcessInv'
  BY <1>18 DEF Dial, ClientReturns, Hears, gatewayUnchanged, backendVars
<1>19. ASSUME NEW c \in Clients, Accept(c) PROVE ProcessInv'
  BY <1>19 DEF Accept, gatewayUnchanged, backendVars
<1>20. ASSUME NEW c \in Clients, HandleStop(c) PROVE ProcessInv'
  BY <1>20 DEF HandleStop, gatewayUnchanged, backendVars
<1>21. ASSUME NEW c \in Clients, Reply(c) PROVE ProcessInv'
  BY <1>21 DEF Reply, ClientReturns, Hears, Done, gatewayUnchanged, backendVars
<1>22. ASSUME NEW c \in Clients, Interrupt(c) PROVE ProcessInv'
  BY <1>22 DEF Interrupt, gatewayUnchanged, backendVars
<1>23. ASSUME NEW c \in Clients, ClearLock(c) PROVE ProcessInv'
  BY <1>23 DEF ClearLock, ClientReturns, Hears, gatewayUnchanged, backendVars
<1>24. ASSUME NEW c \in Clients, ClearStale(c) PROVE ProcessInv'
  BY <1>24 DEF ClearStale, ClientReturns, Hears, gatewayUnchanged, backendVars
<1>25. ASSUME BackendExits PROVE ProcessInv'
  BY <1>25 DEF BackendExits, Reclaim, clientVars
<1>26. CASE UNCHANGED vars
  BY <1>26 DEF vars, backendVars, clientVars
<1> HIDE DEF ProcessInv
<1> QED
  BY <1>1, <1>2, <1>3, <1>4, <1>5, <1>6, <1>7, <1>8, <1>9, <1>10, <1>11, <1>12,
     <1>13, <1>14, <1>15, <1>16, <1>17, <1>18, <1>19, <1>20, <1>21, <1>22, <1>23,
     <1>24, <1>25, <1>26 DEF Next, Startup, Backend, Ending, Client

\* What a gateway and its stop clients know of each other stays true.
THEOREM ProcessInvariant == Spec => []ProcessInv
BY InitInv, NextInv, PTL DEF Spec

\* At most one gateway is between taking the lock and releasing it, and its
\* socket stays at its path, whoever is killed and whoever else starts or stops.
THEOREM Exclusive == Spec => []GatewayExclusive
<1>1. ProcessInv => GatewayExclusive
  BY ProcessesDiffer
     DEF ProcessInv, LockSound, SocketSound, GatewayExclusive, OneGateway
<1> QED
  BY <1>1, ProcessInvariant, PTL

\* What "stop" prints is true.
THEOREM Truthful == Spec => AnswersTrue
<1>1. ASSUME ProcessInv, ProcessInv', [Next]_vars
      PROVE  [/\ StoppedMeansFree'
              /\ \A c \in Clients :
                   step[c] # "returned" /\ answer'[c] = "absent"
                   => \A g \in serving'[c] : pc'[g] # "serving"]_vars
  <2>1. StoppedMeansFree'
    BY <1>1 DEF ProcessInv
  <2>2. ASSUME Next, NEW d \in Clients, step[d] # "returned",
               answer'[d] = "absent", NEW h \in serving'[d]
        PROVE  pc'[h] # "serving"
    <3>1. answer[d] # "absent"
      BY <1>1, <2>2 DEF ProcessInv, ClientSound
    <3>2. /\ answer' \in [Clients -> {"none", "absent", "stopped", "failed",
                                   "error", "interrupted"}]
          /\ answer \in [Clients -> {"none", "absent", "stopped", "failed",
                                  "error", "interrupted"}]
          /\ h \in Gateways
      BY <1>1, <2>2 DEF ProcessInv, TypeOK
    <3>3. \E c \in Clients : StopLocalGateway(c) \/ Dial(c) \/ ClearStale(c)
      <4>1. ASSUME NEW g \in Gateways, Startup(g) \/ Backend(g) \/ Ending(g)
                                           \/ StopRequested(g) \/ Kill(g)
            PROVE  answer'[d] \in {answer[d], "error"}
        BY <4>1, <3>2
           DEF Startup, Preflight, OpenListeners, WriteRouter, TakeLock,
               RemoveStaleSocket, Bind, Backend, StartBackend, RecycleBackend,
               Ending, Drained, StopBackend, CloseControl, Unlink, Unlock, Exit,
               StopRequested, Kill, Hears, clientVars
      <4>2. ASSUME NEW c \in Clients, Accept(c) \/ HandleStop(c) \/ Reply(c)
                                         \/ ClearLock(c) \/ Interrupt(c)
            PROVE  answer'[d] \in {answer[d], "stopped", "failed", "error",
                                  "interrupted"}
        BY <4>2, <3>2
           DEF Accept, HandleStop, Reply, ClearLock, Interrupt, ClientReturns,
               Hears
      <4>3. ASSUME BackendExits PROVE answer'[d] = answer[d]
        BY <4>3 DEF BackendExits, clientVars
      <4> QED
        BY <2>2, <3>1, <4>1, <4>2, <4>3 DEF Next, Client
    <3>4. ASSUME pc[h] = "serving" PROVE FALSE
      \* The socket of h is at its path, and h holds the lock.
      <4>1. socket = h /\ lock = h /\ h # None /\ h \notin Clients
        BY <1>1, <3>2, <3>4, ProcessesDiffer
           DEF ProcessInv, SocketSound, SocketReachable, Accepting, LockSound,
               Owns
      <4>2. \A c \in Clients : step[c] # "check"
        BY <1>1, <4>1 DEF ProcessInv, LockSound
      <4>3. answer'[d] = answer[d]
        BY <3>2, <3>3, <4>1, <4>2, <2>2
           DEF StopLocalGateway, Dial, ClearStale, ClientReturns, Hears
      <4> QED
        BY <2>2, <3>1, <4>3
    <3>5. pc' = pc
      BY <3>3 DEF StopLocalGateway, Dial, ClearStale, gatewayUnchanged
    <3> QED
      BY <3>4, <3>5
  <2> QED
    BY <1>1, <2>1, <2>2
<1> QED
  BY <1>1, ProcessInvariant, PTL DEF Spec, AnswersTrue

-----------------------------------------------------------------------------
(* Recursion over positions.                                               *)

\* What holds at 0 and at the successor of each position it holds at, holds at
\* every position.
LEMMA Positions ==
    ASSUME NEW N \in Nat, NEW P, 0 \in P, \A n \in 0..(N - 1) : n \in P => n + 1 \in P
    PROVE  \A n \in 0..N : n \in P
<1> DEFINE Failing == {n \in 0..N : n \notin P}
<1> SUFFICES ASSUME Failing # {}
             PROVE  FALSE
  OBVIOUS
<1>1. Failing \subseteq Nat
  OBVIOUS
<1>2. PICK n \in Failing : \A m \in Failing : ~ <<m, n>> \in OpToRel(<, Nat)
  BY <1>1, WFMin, NatLessThanWellFounded, Zenon
<1>3. \A m \in Failing : ~ (m < n)
  BY <1>1, <1>2, Zenon DEF OpToRel
<1>4. n \in 0..N /\ n # 0 /\ n \notin P
  BY <1>2
<1> HIDE DEF Failing
<1>5. n - 1 \in 0..(N - 1) /\ n - 1 \in 0..N /\ n - 1 < n
  BY <1>4
<1>6. n - 1 \in P
  BY <1>3, <1>5 DEF Failing
<1> QED
  BY <1>4, <1>5, <1>6

\* The states of a loop with N turns.
Turns(f, base, turn, N) == f[0] = base /\ \A n \in 1..N : f[n] = turn[n][f[n - 1]]

\* A recursive function over positions exists, and each of its values follows
\* from the one before.
LEMMA Recursion ==
    ASSUME NEW S, NEW N \in Nat, NEW base \in S, NEW turn \in [1..N -> [S -> S]]
    PROVE  \E f \in [0..N -> S] : Turns(f, base, turn, N)
<1> DEFINE P == {n \in 0..N : \E f \in [0..n -> S] : Turns(f, base, turn, n)}
<1>1. 0 \in P
  <2>1. [d \in 0..0 |-> base] \in [0..0 -> S] /\ Turns([d \in 0..0 |-> base], base, turn, 0)
    BY DEF Turns
  <2> QED
    BY <2>1
<1>2. ASSUME NEW n \in 0..(N - 1), n \in P
      PROVE  n + 1 \in P
  <2>1. PICK f \in [0..n -> S] : Turns(f, base, turn, n)
    BY <1>2
  <2> DEFINE g == [d \in 0..(n + 1) |-> IF d = n + 1 THEN turn[n + 1][f[n]] ELSE f[d]]
  <2>2. n \in Nat /\ n + 1 \in 1..N /\ n \in 0..n
    OBVIOUS
  <2>3. turn[n + 1] \in [S -> S] /\ f[n] \in S
    BY <2>1, <2>2
  <2>4. turn[n + 1][f[n]] \in S
    BY <2>3
  <2>5. \A d \in 0..(n + 1) : d # n + 1 => d \in 0..n
    BY <2>2
  <2>6. g \in [0..(n + 1) -> S]
    BY <2>1, <2>4, <2>5
  <2>7. g[0] = base /\ g[n + 1] = turn[n + 1][g[n]]
    BY <2>1, <2>2 DEF Turns
  <2>8. ASSUME NEW d \in 1..n
        PROVE  g[d] = turn[d][g[d - 1]]
    <3>1. d \in 0..(n + 1) /\ d - 1 \in 0..(n + 1) /\ d # n + 1 /\ d - 1 # n + 1
      BY <2>2
    <3> QED
      BY <2>1, <3>1 DEF Turns
  <2>9. \A d \in 1..(n + 1) : d = n + 1 \/ d \in 1..n
    BY <2>2
  <2>10. Turns(g, base, turn, n + 1)
    <3> HIDE DEF g
    <3>1. \A d \in 1..(n + 1) : g[d] = turn[d][g[d - 1]]
      <4> TAKE d \in 1..(n + 1)
      <4>1. CASE d = n + 1
        <5>1. d - 1 = n
          BY <2>2, <4>1
        <5> QED
          BY <2>7, <4>1, <5>1
      <4>2. CASE d \in 1..n
        BY <2>8, <4>2
      <4> QED
        BY <2>9, <4>1, <4>2
    <3> QED
      BY <2>7, <3>1 DEF Turns
  <2> HIDE DEF g
  <2>11. n + 1 \in 0..N
    BY <2>2
  <2> QED
    BY <2>6, <2>10, <2>11
<1> HIDE DEF P
<1>3. \A n \in 0..N : n \in P
  BY <1>1, <1>2, Positions
<1>4. N \in P
  BY <1>3
<1> QED
  BY <1>4 DEF P

-----------------------------------------------------------------------------
(* Sequences.                                                              *)

\* One element more.
LEMMA Prefixes ==
    ASSUME NEW S, NEW s \in Seq(S), NEW n \in 0..(Len(s) - 1)
    PROVE  /\ SubSeq(s, 1, n) \in Seq(S) /\ s[n + 1] \in S
           /\ SubSeq(s, 1, n + 1) = Append(SubSeq(s, 1, n), s[n + 1])
<1>1. Len(s) \in Nat /\ n + 1 \in 1..Len(s) /\ s[n + 1] \in S
  OBVIOUS
<1>2. \A i \in 1..n : s[i] \in S
  BY <1>1
<1>3. /\ SubSeq(s, 1, n) \in Seq(S) /\ Len(SubSeq(s, 1, n)) = n
      /\ \A i \in 1..n : SubSeq(s, 1, n)[i] = s[i]
  BY <1>1, <1>2, SubSeqProperties
<1>4. \A i \in 1..(n + 1) : s[i] \in S
  BY <1>1
<1>5. /\ SubSeq(s, 1, n + 1) \in Seq(S) /\ Len(SubSeq(s, 1, n + 1)) = n + 1
      /\ \A i \in 1..(n + 1) : SubSeq(s, 1, n + 1)[i] = s[i]
  BY <1>1, <1>4, SubSeqProperties
<1>6. /\ Append(SubSeq(s, 1, n), s[n + 1]) \in Seq(S)
      /\ Len(Append(SubSeq(s, 1, n), s[n + 1])) = n + 1
      /\ \A i \in 1..n : Append(SubSeq(s, 1, n), s[n + 1])[i] = s[i]
      /\ Append(SubSeq(s, 1, n), s[n + 1])[n + 1] = s[n + 1]
  BY <1>1, <1>3, AppendProperties
<1>7. \A i \in 1..(n + 1) :
        SubSeq(s, 1, n + 1)[i] = Append(SubSeq(s, 1, n), s[n + 1])[i]
  <2> TAKE i \in 1..(n + 1)
  <2>1. CASE i = n + 1
    BY <1>5, <1>6, <2>1
  <2>2. CASE i # n + 1
    <3>1. i \in 1..n
      BY <2>2
    <3> QED
      BY <1>5, <1>6, <3>1
  <2> QED
    BY <2>1, <2>2
<1>8. SubSeq(s, 1, n + 1) = Append(SubSeq(s, 1, n), s[n + 1])
  BY <1>5, <1>6, <1>7, SeqEqual
<1> QED
  BY <1>1, <1>3, <1>8

\* Appending to the second part appends to the whole.
LEMMA ConcatAppend ==
    ASSUME NEW S, NEW s \in Seq(S), NEW t \in Seq(S), NEW x \in S
    PROVE  s \o Append(t, x) = Append(s \o t, x)
<1>1. Append(t, x) = t \o <<x>> /\ <<x>> \in Seq(S)
  BY AppendIsConcat
<1>2. s \o t \in Seq(S)
  BY ConcatProperties
<1>3. Append(s \o t, x) = (s \o t) \o <<x>>
  BY <1>2, AppendIsConcat
<1> QED
  BY <1>1, <1>3, ConcatAssociative

LEMMA PrefixOfConcat ==
    ASSUME NEW S, NEW s \in Seq(S), NEW t \in Seq(S)
    PROVE  Len(s) <= Len(s \o t) /\ s = SubSeq(s \o t, 1, Len(s))
<1>1. /\ s \o t \in Seq(S) /\ Len(s \o t) = Len(s) + Len(t)
      /\ Len(s) \in Nat /\ Len(t) \in Nat
  BY ConcatProperties
<1>2. s = SubSeq(s \o t, 1, Len(s))
  <2>1. CASE s = <<>>
    <3>1. Len(s) = 0 /\ SubSeq(s \o t, 1, 0) = <<>>
      BY <2>1, SubSeqEmpty
    <3> QED
      BY <2>1, <3>1
  <2>2. CASE s # <<>>
    <3>1. Len(s) \in 1..Len(s) /\ 1 \in 1..Len(s)
      BY <2>2, EmptySeq
    <3>2. SubSeq(s \o t, 1, Len(s)) = SubSeq(s, 1, Len(s))
      BY <3>1, SubSeqOfConcat1
    <3> QED
      BY <3>2, SubSeqFull
  <2> QED
    BY <2>1, <2>2
<1> QED
  BY <1>1, <1>2

LEMMA PrefixOfPrefix ==
    ASSUME NEW S, NEW s \in Seq(S), NEW n \in 0..Len(s), NEW m \in 0..n
    PROVE  SubSeq(SubSeq(s, 1, n), 1, m) = SubSeq(s, 1, m)
<1>1. Len(s) \in Nat /\ n \in Int /\ m \in Int
  OBVIOUS
<1>2. \A i \in 1..n : s[i] \in S
  BY <1>1
<1> DEFINE p == SubSeq(s, 1, n)
<1>3. p \in Seq(S) /\ Len(p) = n /\ \A i \in 1..n : p[i] = s[i]
  BY <1>1, <1>2, SubSeqProperties
<1> HIDE DEF p
<1>4. \A i \in 1..m : i \in 1..n
  BY <1>1
<1>5. \A i \in 1..m : p[i] = s[i] /\ p[i] \in S /\ s[i] \in S
  BY <1>2, <1>3, <1>4
<1>6. /\ SubSeq(p, 1, m) \in Seq(S) /\ Len(SubSeq(p, 1, m)) = m
      /\ \A i \in 1..m : SubSeq(p, 1, m)[i] = p[i]
  BY <1>1, <1>5, SubSeqProperties
<1>7. /\ SubSeq(s, 1, m) \in Seq(S) /\ Len(SubSeq(s, 1, m)) = m
      /\ \A i \in 1..m : SubSeq(s, 1, m)[i] = s[i]
  BY <1>1, <1>5, SubSeqProperties
<1>8. SubSeq(p, 1, m) = SubSeq(s, 1, m)
  BY <1>5, <1>6, <1>7, SeqEqual
<1> QED
  BY <1>8 DEF p

-----------------------------------------------------------------------------
(* The bytes of upstream among those delivered.                            *)

Outputs == [byte: Bytes, part: 0..3]

\* The loop of Delivered.
DeliveredTurns(u, o) ==
    /\ u \in [0..Len(o) -> Seq(Bytes)] /\ u[0] = <<>> /\ u[Len(o)] = Delivered(o)
    /\ \A n \in 1..Len(o) :
         u[n] = IF o[n].part = 0 THEN Append(u[n - 1], o[n].byte) ELSE u[n - 1]

\* Delivered takes the bytes of a stream one by one.
LEMMA DeliveredLoop ==
    ASSUME NEW o \in Seq(Outputs)
    PROVE  \E u : DeliveredTurns(u, o)
<1> DEFINE N == Len(o)
           turn == [n \in 1..N |-> [b \in Seq(Bytes) |->
                      IF o[n].part = 0 THEN Append(b, o[n].byte) ELSE b]]
           E(u) == u = [n \in 0..N |->
                     IF n = 0 THEN <<>>
                     ELSE IF o[n].part = 0 THEN Append(u[n - 1], o[n].byte) ELSE u[n - 1]]
           w == CHOOSE u : E(u)
<1>0. N \in Nat /\ <<>> \in Seq(Bytes) /\ \A n \in 1..N : o[n] \in Outputs
  OBVIOUS
<1>1. turn \in [1..N -> [Seq(Bytes) -> Seq(Bytes)]]
  BY <1>0, AppendProperties DEF Outputs
<1>2. PICK f \in [0..N -> Seq(Bytes)] : Turns(f, <<>>, turn, N)
  <2> HIDE DEF turn, N
  <2> QED
    BY <1>0, <1>1, Recursion
<1>3. \A n \in 1..N : n - 1 \in 0..N /\ n \in 0..N
  BY <1>0
<1>4. \A n \in 1..N : f[n] = IF o[n].part = 0 THEN Append(f[n - 1], o[n].byte) ELSE f[n - 1]
  <2> TAKE n \in 1..N
  <2>1. f[n - 1] \in Seq(Bytes) /\ f[n] = turn[n][f[n - 1]]
    BY <1>2, <1>3 DEF Turns
  <2> QED
    BY <2>1
<1>5. E(f)
  <2> DEFINE g == [n \in 0..N |-> IF n = 0 THEN <<>>
                    ELSE IF o[n].part = 0 THEN Append(f[n - 1], o[n].byte) ELSE f[n - 1]]
  <2>1. ASSUME NEW n \in 0..N
        PROVE  f[n] = g[n]
    <3>1. n = 0 \/ n \in 1..N
      BY <1>0
    <3>2. f[0] = <<>>
      BY <1>2 DEF Turns
    <3> QED
      BY <1>4, <3>1, <3>2
  <2> QED
    BY <2>1
<1>6. E(w)
  <2> HIDE DEF E
  <2> QED
    BY <1>5
<1> HIDE DEF w
<1>7. \A n \in 0..N : w[n] = f[n]
  <2> DEFINE P == {n \in 0..N : w[n] = f[n]}
  <2>1. 0 \in P
    <3>1. w[0] = <<>> /\ f[0] = <<>> /\ 0 \in 0..N
      BY <1>0, <1>2, <1>6 DEF Turns
    <3> QED
      BY <3>1
  <2>2. ASSUME NEW n \in 0..(N - 1), n \in P
        PROVE  n + 1 \in P
    <3>1. n + 1 \in 1..N /\ (n + 1) - 1 = n /\ n + 1 \in 0..N /\ n + 1 # 0
      BY <1>0
    <3>2. w[n + 1] = IF o[n + 1].part = 0 THEN Append(w[n], o[n + 1].byte) ELSE w[n]
      BY <1>6, <3>1
    <3>3. f[n + 1] = IF o[n + 1].part = 0 THEN Append(f[n], o[n + 1].byte) ELSE f[n]
      BY <1>4, <3>1
    <3> QED
      BY <2>2, <3>1, <3>2, <3>3
  <2> HIDE DEF P
  <2>3. \A n \in 0..N : n \in P
    <3> HIDE DEF N
    <3> QED
      BY <1>0, <2>1, <2>2, Positions
  <2> QED
    BY <2>3 DEF P
<1>8. w = f
  <2>1. w = [n \in 0..N |-> w[n]]
    BY <1>6
  <2> QED
    BY <1>7, <2>1
<1>9. f[N] = Delivered(o)
  <2>1. w[N] = Delivered(o)
    BY DEF Delivered, w
  <2> QED
    BY <1>8, <2>1
<1> QED
  BY <1>2, <1>4, <1>9 DEF DeliveredTurns, Turns

\* There is one way to run it.
LEMMA DeliveredUnique ==
    ASSUME NEW o \in Seq(Outputs), NEW v, v[0] = <<>>,
           \A n \in 1..Len(o) :
             v[n] = IF o[n].part = 0 THEN Append(v[n - 1], o[n].byte) ELSE v[n - 1]
    PROVE  v[Len(o)] = Delivered(o)
<1> DEFINE N == Len(o)
<1>1. PICK u : DeliveredTurns(u, o)
  BY DeliveredLoop
<1> DEFINE P == {n \in 0..N : v[n] = u[n]}
<1>2. N \in Nat
  OBVIOUS
<1>3. 0 \in P
  BY <1>1, <1>2 DEF DeliveredTurns
<1>4. ASSUME NEW n \in 0..(N - 1), n \in P
      PROVE  n + 1 \in P
  <2>1. n + 1 \in 1..N /\ n + 1 \in 0..N /\ (n + 1) - 1 = n
    BY <1>2
  <2>2. u[n + 1] = IF o[n + 1].part = 0 THEN Append(u[n], o[n + 1].byte) ELSE u[n]
    BY <1>1, <2>1 DEF DeliveredTurns
  <2>3. v[n + 1] = IF o[n + 1].part = 0 THEN Append(v[n], o[n + 1].byte) ELSE v[n]
    BY <2>1
  <2> QED
    BY <1>4, <2>1, <2>2, <2>3
<1> HIDE DEF P, N
<1>5. \A n \in 0..N : n \in P
  BY <1>2, <1>3, <1>4, Positions
<1>6. N \in P
  BY <1>2, <1>5
<1> QED
  BY <1>1, <1>6 DEF P, N, DeliveredTurns

LEMMA DeliveredType ==
    ASSUME NEW o \in Seq(Outputs)
    PROVE  Delivered(o) \in Seq(Bytes)
<1>1. PICK u : DeliveredTurns(u, o)
  BY DeliveredLoop
<1>2. Len(o) \in 0..Len(o)
  OBVIOUS
<1> QED
  BY <1>1, <1>2 DEF DeliveredTurns

LEMMA DeliveredEmpty == Delivered(<<>>) = <<>>
<1>1. <<>> \in Seq(Outputs) /\ Len(<<>>) = 0
  OBVIOUS
<1>2. PICK u : DeliveredTurns(u, <<>>)
  BY <1>1, DeliveredLoop
<1> QED
  BY <1>1, <1>2 DEF DeliveredTurns

\* One byte more.
LEMMA DeliveredAppend ==
    ASSUME NEW o \in Seq(Outputs), NEW x \in Outputs
    PROVE  Delivered(Append(o, x)) =
             IF x.part = 0 THEN Append(Delivered(o), x.byte) ELSE Delivered(o)
<1> DEFINE p == Append(o, x)
<1>1. /\ p \in Seq(Outputs) /\ Len(p) = Len(o) + 1 /\ Len(o) \in Nat
      /\ \A i \in 1..Len(o) : p[i] = o[i]
      /\ p[Len(o) + 1] = x
  BY AppendProperties
<1>2. PICK u : DeliveredTurns(u, p)
  BY <1>1, DeliveredLoop
<1> HIDE DEF p
<1>3. /\ u[0] = <<>> /\ u[Len(o) + 1] = Delivered(p)
      /\ \A n \in 1..Len(o) :
           u[n] = IF o[n].part = 0 THEN Append(u[n - 1], o[n].byte) ELSE u[n - 1]
  <2>1. \A n \in 1..Len(o) : n \in 1..Len(p)
    BY <1>1
  <2> QED
    BY <1>1, <1>2, <2>1 DEF DeliveredTurns
<1>4. u[Len(o)] = Delivered(o)
  BY <1>3, DeliveredUnique
<1>5. Len(o) + 1 \in 1..Len(p) /\ (Len(o) + 1) - 1 = Len(o)
  BY <1>1
<1>6. u[Len(o) + 1] = IF x.part = 0 THEN Append(u[Len(o)], x.byte) ELSE u[Len(o)]
  BY <1>1, <1>2, <1>5 DEF DeliveredTurns
<1> QED
  BY <1>3, <1>4, <1>6 DEF p

\* A chunk of upstream's bytes is delivered as it is; bytes of a comment are
\* left out.
LEMMA DeliveredChunk ==
    ASSUME NEW o \in Seq(Outputs), NEW x \in Seq(Outputs)
    PROVE  /\ \A b \in Seq(Bytes) :
                /\ Len(b) = Len(x)
                /\ \A i \in 1..Len(x) : x[i].part = 0 /\ x[i].byte = b[i]
                => Delivered(o \o x) = Delivered(o) \o b
           /\ (\A i \in 1..Len(x) : x[i].part # 0) => Delivered(o \o x) = Delivered(o)
<1> DEFINE N == Len(x)
           upTo(n) == o \o SubSeq(x, 1, n)
<1>1. N \in Nat /\ SubSeq(x, 1, N) = x /\ upTo(0) = o
  <2>1. SubSeq(x, 1, 0) = <<>>
    BY SubSeqEmpty
  <2> QED
    BY <2>1, SubSeqFull, ConcatEmptySeq
<1>2. ASSUME NEW n \in 0..(N - 1)
      PROVE  /\ upTo(n) \in Seq(Outputs) /\ x[n + 1] \in Outputs
             /\ upTo(n + 1) = Append(upTo(n), x[n + 1])
  <2>1. /\ SubSeq(x, 1, n) \in Seq(Outputs) /\ x[n + 1] \in Outputs
        /\ SubSeq(x, 1, n + 1) = Append(SubSeq(x, 1, n), x[n + 1])
    BY Prefixes
  <2>2. o \o SubSeq(x, 1, n) \in Seq(Outputs)
    BY <2>1, ConcatProperties
  <2> QED
    BY <2>1, <2>2, ConcatAppend
<1> HIDE DEF upTo
<1>3. ASSUME NEW b \in Seq(Bytes), Len(b) = N,
             \A i \in 1..N : x[i].part = 0 /\ x[i].byte = b[i]
      PROVE  Delivered(upTo(N)) = Delivered(o) \o b
  <2> DEFINE P == {n \in 0..N : Delivered(upTo(n)) = Delivered(o) \o SubSeq(b, 1, n)}
  <2>0. Delivered(o) \in Seq(Bytes)
    BY DeliveredType
  <2>1. 0 \in P
    <3>1. SubSeq(b, 1, 0) = <<>>
      BY SubSeqEmpty
    <3> QED
      BY <1>1, <2>0, <3>1, ConcatEmptySeq
  <2>2. ASSUME NEW n \in 0..(N - 1), n \in P
        PROVE  n + 1 \in P
    <3>1. n + 1 \in 1..N /\ n + 1 \in 0..N
      BY <1>1
    <3>2. /\ SubSeq(b, 1, n) \in Seq(Bytes) /\ b[n + 1] \in Bytes
          /\ SubSeq(b, 1, n + 1) = Append(SubSeq(b, 1, n), b[n + 1])
      <4> HIDE DEF P
      <4> QED
        BY <1>3, Prefixes
    <3>3. Delivered(upTo(n + 1)) = Append(Delivered(upTo(n)), b[n + 1])
      BY <1>2, <1>3, <3>1, DeliveredAppend
    <3>4. Delivered(upTo(n)) = Delivered(o) \o SubSeq(b, 1, n)
      BY <2>2
    <3>5. Delivered(o) \o Append(SubSeq(b, 1, n), b[n + 1])
            = Append(Delivered(o) \o SubSeq(b, 1, n), b[n + 1])
      <4> HIDE DEF P
      <4> QED
        BY <2>0, <3>2, ConcatAppend
    <3> QED
      BY <3>1, <3>2, <3>3, <3>4, <3>5
  <2> HIDE DEF P, N
  <2>3. \A n \in 0..N : n \in P
    BY <1>1, <2>1, <2>2, Positions
  <2>4. N \in P
    BY <1>1, <2>3
  <2>5. SubSeq(b, 1, N) = b
    BY <1>3, SubSeqFull
  <2> QED
    BY <2>4, <2>5 DEF P
<1>4. ASSUME \A i \in 1..N : x[i].part # 0
      PROVE  Delivered(upTo(N)) = Delivered(o)
  <2> DEFINE P == {n \in 0..N : Delivered(upTo(n)) = Delivered(o)}
  <2>1. 0 \in P
    BY <1>1
  <2>2. ASSUME NEW n \in 0..(N - 1), n \in P
        PROVE  n + 1 \in P
    <3>1. n + 1 \in 1..N /\ n + 1 \in 0..N
      BY <1>1
    <3>2. Delivered(upTo(n + 1)) = Delivered(upTo(n))
      BY <1>2, <1>4, <3>1, DeliveredAppend
    <3> QED
      BY <2>2, <3>1, <3>2
  <2> HIDE DEF P, N
  <2>3. \A n \in 0..N : n \in P
    BY <1>1, <2>1, <2>2, Positions
  <2>4. N \in P
    BY <1>1, <2>3
  <2> QED
    BY <2>4 DEF P
<1>5. upTo(N) = o \o x
  BY <1>1 DEF upTo
<1> QED
  BY <1>3, <1>4, <1>5

-----------------------------------------------------------------------------
(* The framing.                                                            *)

Framings == [boundary: BOOLEAN, lineData: BOOLEAN, afterCR: BOOLEAN]

LEMMA ObserveByteType ==
    ASSUME NEW f \in Framings, NEW c \in Bytes
    PROVE  observeByte(f, c) \in Framings
BY DEF observeByte, Framings, Bytes

\* The loop of observe.
ObserveTurns(u, f, value) ==
    /\ u \in [0..Len(value) -> Framings] /\ u[0] = f
    /\ u[Len(value)] = observe(f, value)
    /\ \A n \in 1..Len(value) : u[n] = observeByte(u[n - 1], value[n])

\* observe() takes the bytes of a slice one by one.
LEMMA ObserveLoop ==
    ASSUME NEW start \in Framings, NEW value \in Seq(Bytes)
    PROVE  \E u : ObserveTurns(u, start, value)
<1> DEFINE N == Len(value)
           turn == [n \in 1..N |-> [g \in Framings |-> observeByte(g, value[n])]]
           E(u) == u = [n \in 0..N |->
                     IF n = 0 THEN start ELSE observeByte(u[n - 1], value[n])]
           w == CHOOSE u : E(u)
<1>0. N \in Nat /\ \A n \in 1..N : value[n] \in Bytes
  OBVIOUS
<1>1. turn \in [1..N -> [Framings -> Framings]]
  BY <1>0, ObserveByteType
<1>2. PICK f \in [0..N -> Framings] : Turns(f, start, turn, N)
  <2> HIDE DEF turn, N
  <2> QED
    BY <1>0, <1>1, Recursion
<1>3. \A n \in 1..N : n - 1 \in 0..N /\ n \in 0..N
  BY <1>0
<1>4. \A n \in 1..N : f[n] = observeByte(f[n - 1], value[n])
  <2> TAKE n \in 1..N
  <2>1. f[n - 1] \in Framings /\ f[n] = turn[n][f[n - 1]]
    BY <1>2, <1>3 DEF Turns
  <2> QED
    BY <2>1
<1>5. E(f)
  <2> DEFINE g == [n \in 0..N |->
                     IF n = 0 THEN start ELSE observeByte(f[n - 1], value[n])]
  <2>1. ASSUME NEW n \in 0..N
        PROVE  f[n] = g[n]
    <3>1. n = 0 \/ n \in 1..N
      BY <1>0
    <3>2. f[0] = start
      BY <1>2 DEF Turns
    <3> QED
      BY <1>4, <3>1, <3>2
  <2> QED
    BY <2>1
<1>6. E(w)
  <2> HIDE DEF E
  <2> QED
    BY <1>5
<1> HIDE DEF w
<1>7. \A n \in 0..N : w[n] = f[n]
  <2> DEFINE P == {n \in 0..N : w[n] = f[n]}
  <2>1. 0 \in P
    <3>1. w[0] = start /\ f[0] = start /\ 0 \in 0..N
      BY <1>0, <1>2, <1>6 DEF Turns
    <3> QED
      BY <3>1
  <2>2. ASSUME NEW n \in 0..(N - 1), n \in P
        PROVE  n + 1 \in P
    <3>1. n + 1 \in 1..N /\ (n + 1) - 1 = n /\ n + 1 \in 0..N /\ n + 1 # 0
      BY <1>0
    <3>2. w[n + 1] = observeByte(w[n], value[n + 1])
      BY <1>6, <3>1
    <3>3. f[n + 1] = observeByte(f[n], value[n + 1])
      BY <1>4, <3>1
    <3> QED
      BY <2>2, <3>1, <3>2, <3>3
  <2> HIDE DEF P
  <2>3. \A n \in 0..N : n \in P
    <3> HIDE DEF N
    <3> QED
      BY <1>0, <2>1, <2>2, Positions
  <2> QED
    BY <2>3 DEF P
<1>8. w = f
  <2>1. w = [n \in 0..N |-> w[n]]
    BY <1>6
  <2> QED
    BY <1>7, <2>1
<1>9. f[N] = observe(start, value)
  <2>1. w[N] = observe(start, value)
    BY DEF observe, w
  <2> QED
    BY <1>8, <2>1
<1> QED
  BY <1>2, <1>4, <1>9 DEF ObserveTurns, Turns

LEMMA ObserveType ==
    ASSUME NEW f \in Framings, NEW b \in Seq(Bytes)
    PROVE  observe(f, b) \in Framings
<1>1. PICK u : ObserveTurns(u, f, b)
  BY ObserveLoop
<1>2. Len(b) \in 0..Len(b)
  OBVIOUS
<1> QED
  BY <1>1, <1>2 DEF ObserveTurns

\* The positions that count: the last and the one before it.
LEMMA Latest ==
    ASSUME NEW M \in SUBSET Int, NEW n \in M, \A m \in M : m <= n
    PROVE  Max(M) = n
<1>1. n \in M /\ \A m \in M : n >= m
  OBVIOUS
<1>2. Max(M) \in M /\ \A m \in M : Max(M) >= m
  BY <1>1 DEF Max
<1>3. Max(M) \in Int /\ n \in Int /\ Max(M) >= n /\ Max(M) <= n
  BY <1>1, <1>2
<1> QED
  BY <1>3

\* One byte more counts, unless it completes CRLF.
LEMMA SignificantAppend ==
    ASSUME NEW s \in Seq(Bytes), NEW c \in Bytes
    PROVE  Significant(Append(s, c)) =
             IF c = "lf" /\ s # <<>> /\ s[Len(s)] = "cr" THEN Significant(s)
             ELSE Significant(s) \union {Len(s) + 1}
<1> DEFINE t == Append(s, c)
<1>1. /\ t \in Seq(Bytes) /\ Len(t) = Len(s) + 1 /\ Len(s) \in Nat
      /\ \A i \in 1..Len(s) : t[i] = s[i]
      /\ t[Len(s) + 1] = c
      /\ DOMAIN t = 1..(Len(s) + 1) /\ DOMAIN s = 1..Len(s)
      /\ s = <<>> <=> Len(s) = 0
  BY AppendProperties, EmptySeq
<1> HIDE DEF t
<1>2. \A i \in 1..Len(s) : i \in Significant(t) <=> i \in Significant(s)
  <2> TAKE i \in 1..Len(s)
  <2>1. t[i] = s[i] /\ i \in DOMAIN t /\ i \in DOMAIN s /\ (i > 1 => t[i - 1] = s[i - 1])
    BY <1>1
  <2> QED
    BY <2>1 DEF Significant
<1>3. Len(s) + 1 \in Significant(t) <=> ~(c = "lf" /\ s # <<>> /\ s[Len(s)] = "cr")
  <2>1. Len(s) + 1 \in DOMAIN t /\ (Len(s) + 1) - 1 = Len(s)
    BY <1>1
  <2>2. Len(s) + 1 > 1 <=> s # <<>>
    BY <1>1
  <2>3. s # <<>> => t[Len(s)] = s[Len(s)]
    BY <1>1
  <2> QED
    BY <1>1, <2>1, <2>2, <2>3 DEF Significant
<1>4. Significant(t) \subseteq 1..(Len(s) + 1) /\ Significant(s) \subseteq 1..Len(s)
  BY <1>1 DEF Significant
<1>5. \A i \in 1..(Len(s) + 1) : i = Len(s) + 1 \/ i \in 1..Len(s)
  BY <1>1
<1>6. Len(s) + 1 \notin 1..Len(s)
  BY <1>1
<1> DEFINE k == Len(s) + 1
<1> HIDE DEF k
<1>7. /\ \A i \in 1..Len(s) : i \in Significant(t) <=> i \in Significant(s)
      /\ k \in Significant(t) <=> ~(c = "lf" /\ s # <<>> /\ s[Len(s)] = "cr")
      /\ \A i \in Significant(t) : i = k \/ i \in 1..Len(s)
      /\ \A i \in Significant(s) : i \in 1..Len(s)
  BY <1>2, <1>3, <1>4, <1>5 DEF k
<1>8. CASE c = "lf" /\ s # <<>> /\ s[Len(s)] = "cr"
  <2>1. Significant(t) = Significant(s)
    BY <1>7, <1>8
  <2> QED
    BY <1>8, <2>1 DEF t, k
<1>9. CASE ~(c = "lf" /\ s # <<>> /\ s[Len(s)] = "cr")
  <2>1. Significant(t) = Significant(s) \union {k}
    BY <1>7, <1>9
  <2> QED
    BY <1>9, <2>1 DEF t, k
<1> QED
  BY <1>8, <1>9

LEMMA SignificantOf ==
    ASSUME NEW s \in Seq(Bytes)
    PROVE  /\ Significant(s) \subseteq 1..Len(s)
           /\ s # <<>> => 1 \in Significant(s)
           /\ s = <<>> => Significant(s) = {}
<1>1. DOMAIN s = 1..Len(s) /\ (s # <<>> => Len(s) \in Nat \ {0}) /\ Len(<<>>) = 0
  BY EmptySeq
<1> QED
  BY <1>1 DEF Significant

\* observe() follows the lines, one byte after another,
LEMMA FramedStep ==
    ASSUME NEW f \in Framings, NEW s \in Seq(Bytes), NEW c \in Bytes, Framed(f, s)
    PROVE  Framed(observeByte(f, c), Append(s, c))
<1> DEFINE t == Append(s, c)
           k == Len(s) + 1
           skips == c = "lf" /\ s # <<>> /\ s[Len(s)] = "cr"
<1>1. /\ t # <<>> /\ Len(t) = k /\ t[k] = c /\ Len(s) \in Nat
      /\ \A i \in 1..Len(s) : t[i] = s[i]
  BY AppendProperties
<1>2. Significant(t) = IF skips THEN Significant(s) ELSE Significant(s) \union {k}
  BY SignificantAppend
<1>3. /\ Significant(s) \subseteq 1..Len(s)
      /\ s # <<>> => 1 \in Significant(s)
      /\ s = <<>> => Significant(s) = {}
  BY SignificantOf
<1>4. skips <=> f.afterCR /\ c = "lf"
  BY DEF Framed
<1>5. \A M \in SUBSET Significant(s) : M # {} =>
        Max(M) \in M /\ t[Max(M)] = s[Max(M)]
  <2> TAKE M \in SUBSET Significant(s)
  <2> HAVE M # {}
  <2>1. Max(M) \in M
    <3>1. M \subseteq Nat /\ \A m \in M : m <= Len(s)
      BY <1>1, <1>3
    <3>2. \E n \in M : \A m \in M : n >= m
      <4> DEFINE Q == {n \in 0..Len(s) : \A m \in M : m <= n}
      <4>1. Len(s) \in Q
        BY <1>1, <3>1
      <4>2. PICK q \in Q : \A n \in Q : ~ <<n, q>> \in OpToRel(<, Nat)
        <5>1. Q \subseteq Nat /\ Q # {}
          BY <4>1
        <5> HIDE DEF Q
        <5> QED
          BY <5>1, WFMin, NatLessThanWellFounded, Zenon
      <4>3. \A n \in Q : ~ (n < q)
        <5>1. Q \subseteq Nat
          OBVIOUS
        <5> HIDE DEF Q
        <5> QED
          BY <4>2, <5>1, Zenon DEF OpToRel
      <4>4. q \in M
        <5>1. SUFFICES ASSUME q \notin M
                       PROVE  FALSE
          OBVIOUS
        <5>2. \A m \in M : m <= q - 1 /\ m \in Nat
          BY <3>1, <5>1
        <5>3. q # 0
          BY <5>2
        <5>4. q - 1 \in Q
          BY <5>2, <5>3
        <5> QED
          BY <4>3, <5>4
      <4> QED
        BY <3>1, <4>4
    <3> QED
      BY <3>2 DEF Max
  <2>2. Max(M) \in 1..Len(s)
    BY <1>3, <2>1
  <2> QED
    BY <1>1, <2>1, <2>2
<1> DEFINE sig == Significant(s)
           rest == sig \ {Max(sig)}
<1>6. /\ sig # {} <=> s # <<>>
      /\ sig # {} => t[Max(sig)] = s[Max(sig)] /\ Max(sig) \in sig
      /\ rest # {} => t[Max(rest)] = s[Max(rest)]
  BY <1>3, <1>5
<1>7. CASE skips
  <2>1. Significant(t) = sig /\ observeByte(f, c) = [f EXCEPT !.afterCR = FALSE]
    BY <1>2, <1>4, <1>7 DEF observeByte
  <2>2. t[Len(t)] = "lf"
    BY <1>1, <1>7
  <2> HIDE DEF t, sig, k, skips
  <2> DEFINE g == observeByte(f, c)
  <2>3. g.afterCR = FALSE /\ g.lineData = f.lineData /\ g.boundary = f.boundary
    BY <2>1 DEF Framings
  <2>4. s # <<>>
    BY <1>7 DEF skips
  <2>5. /\ f.lineData = (s[Max(sig)] = "data")
        /\ f.boundary = (s[Max(sig)] # "data" /\ (rest = {} \/ s[Max(rest)] # "data"))
    BY <2>4 DEF Framed, sig
  <2>6. g.lineData = (t[Max(sig)] = "data")
    BY <1>6, <2>3, <2>4, <2>5
  <2>7. g.boundary = (t[Max(sig)] # "data" /\ (rest = {} \/ t[Max(rest)] # "data"))
    BY <1>6, <2>3, <2>4, <2>5
  <2> HIDE DEF g, rest
  <2>8. Framed(g, t)
    BY <1>1, <2>1, <2>2, <2>3, <2>6, <2>7 DEF Framed, rest
  <2> QED
    BY <2>8 DEF t, g
<1>8. CASE ~skips
  <2>1. Significant(t) = sig \union {k} /\ k \notin sig
    BY <1>1, <1>2, <1>3, <1>8
  <2>2. Max(Significant(t)) = k /\ Significant(t) \ {Max(Significant(t))} = sig
    <3>1. /\ Significant(t) \in SUBSET Int /\ k \in Significant(t)
          /\ \A m \in Significant(t) : m <= k
      BY <1>1, <1>3, <2>1
    <3>2. Max(Significant(t)) = k
      <4> HIDE DEF t, k
      <4> QED
        BY <3>1, Latest
    <3> QED
      BY <2>1, <3>2
  <2> HIDE DEF t, sig, k, skips, rest
  <2> DEFINE g == observeByte(f, c)
  <2>3. /\ g.afterCR = (c = "cr") /\ g.lineData = (c = "data")
        /\ g.boundary = (c # "data" /\ ~f.lineData)
    BY <1>4, <1>8 DEF observeByte, Bytes, Framings
  <2>4. f.lineData = (s # <<>> /\ s[Max(sig)] = "data")
    BY DEF Framed, sig
  <2> HIDE DEF g
  <2>5. g.boundary = (c # "data" /\ (sig = {} \/ t[Max(sig)] # "data"))
    BY <1>6, <2>3, <2>4
  <2>6. Framed(g, t)
    BY <1>1, <2>2, <2>3, <2>5 DEF Framed
  <2> QED
    BY <2>6 DEF t, g
<1> QED
  BY <1>7, <1>8

\* and one chunk after another.
LEMMA FramedChunk ==
    ASSUME NEW f \in Framings, NEW s \in Seq(Bytes), NEW b \in Seq(Bytes), Framed(f, s)
    PROVE  observe(f, b) \in Framings /\ Framed(observe(f, b), s \o b)
<1> DEFINE N == Len(b)
           upTo(n) == s \o SubSeq(b, 1, n)
<1>1. PICK u : ObserveTurns(u, f, b)
  BY ObserveLoop
<1>2. N \in Nat /\ upTo(N) = s \o b /\ upTo(0) = s
  <2>1. SubSeq(b, 1, 0) = <<>> /\ SubSeq(b, 1, N) = b
    BY SubSeqEmpty, SubSeqFull
  <2> QED
    BY <2>1, ConcatEmptySeq
<1>3. ASSUME NEW n \in 0..(N - 1)
      PROVE  upTo(n) \in Seq(Bytes) /\ b[n + 1] \in Bytes
             /\ upTo(n + 1) = Append(upTo(n), b[n + 1])
  <2>1. /\ SubSeq(b, 1, n) \in Seq(Bytes) /\ b[n + 1] \in Bytes
        /\ SubSeq(b, 1, n + 1) = Append(SubSeq(b, 1, n), b[n + 1])
    BY Prefixes
  <2>2. s \o SubSeq(b, 1, n) \in Seq(Bytes)
    BY <2>1, ConcatProperties
  <2> QED
    BY <2>1, <2>2, ConcatAppend
<1> DEFINE P == {n \in 0..N : Framed(u[n], upTo(n))}
<1> HIDE DEF upTo
<1>4. 0 \in P
  BY <1>1, <1>2 DEF ObserveTurns
<1>5. ASSUME NEW n \in 0..(N - 1), n \in P
      PROVE  n + 1 \in P
  <2>1. n + 1 \in 1..N /\ (n + 1) - 1 = n /\ n + 1 \in 0..N /\ n \in 0..N
    BY <1>2
  <2>2. u[n] \in Framings /\ u[n + 1] = observeByte(u[n], b[n + 1])
    BY <1>1, <2>1 DEF ObserveTurns
  <2>3. Framed(u[n], upTo(n))
    BY <1>5
  <2>4. Framed(u[n + 1], upTo(n + 1))
    <3> HIDE DEF P, N
    <3> QED
      BY <1>3, <2>2, <2>3, FramedStep
  <2> QED
    BY <2>1, <2>4
<1> HIDE DEF P, N
<1>6. \A n \in 0..N : n \in P
  BY <1>2, <1>4, <1>5, Positions
<1>7. N \in P /\ N \in 0..N
  BY <1>2, <1>6
<1> QED
  BY <1>1, <1>2, <1>7 DEF P, N, ObserveTurns

\* A comment takes the framing from one boundary to the next.
LEMMA CommentFrames ==
    ASSUME NEW k \in 1..3, NEW b \in Seq(Bytes), Len(b) \in 0..(4 - k),
           \A i \in 1..Len(b) : b[i] = Comment[k + i - 1]
    PROVE  observe(CommentFraming[k], b) = CommentFraming[k + Len(b)]
<1> DEFINE N == Len(b)
           P == {n \in 0..N : \A u : ObserveTurns(u, CommentFraming[k], b) =>
                                u[n] = CommentFraming[k + n]}
<1>1. \A i \in 1..3 : observeByte(CommentFraming[i], Comment[i]) = CommentFraming[i + 1]
  <2>1. observeByte(CommentFraming[1], Comment[1]) = CommentFraming[2]
    BY DEF observeByte, CommentFraming, Comment, NewFraming
  <2>2. observeByte(CommentFraming[2], Comment[2]) = CommentFraming[3]
    BY DEF observeByte, CommentFraming, Comment, NewFraming
  <2>3. observeByte(CommentFraming[3], Comment[3]) = CommentFraming[4]
    BY DEF observeByte, CommentFraming, Comment, NewFraming
  <2>4. \A i \in 1..3 : i = 1 \/ i = 2 \/ i = 3
    OBVIOUS
  <2>5. 1 + 1 = 2 /\ 2 + 1 = 3 /\ 3 + 1 = 4
    OBVIOUS
  <2> QED
    BY <2>1, <2>2, <2>3, <2>4, <2>5
<1>2. CommentFraming[k] \in Framings
  <2>1. CommentFraming[1] \in Framings
    BY DEF CommentFraming, NewFraming, Framings
  <2>2. CommentFraming[2] \in Framings
    BY DEF CommentFraming, NewFraming, Framings
  <2>3. CommentFraming[3] \in Framings
    BY DEF CommentFraming, NewFraming, Framings
  <2>4. k = 1 \/ k = 2 \/ k = 3
    OBVIOUS
  <2> QED
    BY <2>1, <2>2, <2>3, <2>4
<1>3. PICK u : ObserveTurns(u, CommentFraming[k], b)
  BY <1>2, ObserveLoop
<1>4. N \in Nat
  OBVIOUS
<1>5. 0 \in P
  <2>1. k + 0 = k
    OBVIOUS
  <2> QED
    BY <1>4, <2>1 DEF ObserveTurns
<1>6. ASSUME NEW n \in 0..(N - 1), n \in P
      PROVE  n + 1 \in P
  <2>1. /\ n + 1 \in 1..N /\ (n + 1) - 1 = n /\ n + 1 \in 0..N
        /\ k + n \in 1..3 /\ k + (n + 1) - 1 = k + n /\ (k + n) + 1 = k + (n + 1)
    BY <1>4
  <2>2. b[n + 1] = Comment[k + n]
    BY <2>1
  <2>3. ASSUME NEW v, ObserveTurns(v, CommentFraming[k], b)
        PROVE  v[n + 1] = CommentFraming[k + (n + 1)]
    <3>1. v[n] = CommentFraming[k + n]
      BY <1>6, <2>3
    <3>2. v[n + 1] = observeByte(v[n], b[n + 1])
      <4>1. \A m \in 1..N : v[m] = observeByte(v[m - 1], b[m])
        BY <2>3 DEF ObserveTurns
      <4> HIDE DEF P, N
      <4> QED
        BY <2>1, <4>1
    <3>3. observeByte(CommentFraming[k + n], Comment[k + n]) = CommentFraming[(k + n) + 1]
      BY <1>1, <2>1
    <3> QED
      BY <2>1, <2>2, <3>1, <3>2, <3>3
  <2> QED
    BY <2>1, <2>3
<1> HIDE DEF P, N
<1>7. \A n \in 0..N : n \in P
  BY <1>4, <1>5, <1>6, Positions
<1>8. N \in P
  BY <1>4, <1>7
<1> QED
  BY <1>3, <1>8 DEF P, N, ObserveTurns

\* At a boundary, and not after CR, the parser is between two events.
LEMMA BoundaryIsBetween ==
    ASSUME NEW f \in Framings, NEW s \in Seq(Bytes), Framed(f, s),
           f.boundary, ~f.afterCR
    PROVE  BetweenEvents(s) /\ f = NewFraming
<1> DEFINE sig == Significant(s)
           rest == sig \ {Max(sig)}
<1>1. /\ s = <<>> \/ s[Len(s)] # "cr"
      /\ s = <<>> \/ (s[Max(sig)] # "data" /\ (rest = {} \/ s[Max(rest)] # "data"))
      /\ f.lineData = (s # <<>> /\ s[Max(sig)] = "data")
  BY DEF Framed
<1>2. f.lineData = FALSE
  BY <1>1
<1>3. f = NewFraming
  BY <1>2 DEF Framings, NewFraming
<1>4. BetweenEvents(s)
  <2> HIDE DEF sig
  <2> QED
    BY <1>1 DEF BetweenEvents, sig
<1> QED
  BY <1>3, <1>4

-----------------------------------------------------------------------------
(* Reading from the body.                                                  *)

PendingIs ==
    /\ Pending \in Seq(Bytes) /\ Len(Pending) = pending.last - pending.first + 1
    /\ Len(Pending) \in Nat /\ pending.first \in Nat \ {0} /\ pending.last \in Nat
    /\ pending.from = "comment" => pending.last = 3 /\ pending.first \in 1..4
    /\ pending.from = "comment" =>
         \A i \in 1..Len(Pending) : Pending[i] = Comment[pending.first + i - 1]
    /\ pending.from # "comment" =>
         \A i \in 1..Len(Pending) : Pending[i] = buffer[pending.first + i - 1]
    /\ Pending = <<>> <=> pending.first = pending.last + 1
    /\ Pending = <<>> <=> Len(Pending) = 0

\* What pending stands for is a sequence of bytes.
LEMMA PendingBytes == KeepaliveTypeOK => PendingIs
<1> SUFFICES ASSUME KeepaliveTypeOK
             PROVE  PendingIs
  OBVIOUS
<1> DEFINE n == pending.last - pending.first + 1
<1>1. /\ Len(Comment) = 3 /\ \A i \in 1..3 : Comment[i] \in Bytes
  <2>1. Comment[1] \in Bytes /\ Comment[2] \in Bytes /\ Comment[3] \in Bytes
    BY DEF Comment, Bytes
  <2>2. \A i \in 1..3 : i = 1 \/ i = 2 \/ i = 3
    OBVIOUS
  <2> QED
    BY <2>1, <2>2 DEF Comment
<1>2. /\ pending.last \in Nat /\ pending.first \in 1..(pending.last + 1)
      /\ pending.from = "comment" => pending.last = 3
      /\ pending.from # "comment" => pending.last \in 0..BufferBytes
      /\ BufferBytes \in Nat /\ buffer \in [1..BufferBytes -> Bytes]
  BY <1>1, KeepaliveAssumption DEF KeepaliveTypeOK
<1>3. n \in Nat /\ pending.first \in Nat \ {0}
  BY <1>2
<1>4. \A i \in 1..n : pending.first + i - 1 \in 1..pending.last
  BY <1>2
<1>5. \A i \in 1..n :
        (IF pending.from = "comment" THEN Comment[pending.first + i - 1]
         ELSE buffer[pending.first + i - 1]) \in Bytes
  <2> TAKE i \in 1..n
  <2>1. CASE pending.from = "comment"
    BY <1>1, <1>2, <1>4, <2>1
  <2>2. CASE pending.from # "comment"
    <3>1. pending.first + i - 1 \in 1..BufferBytes
      BY <1>2, <1>4, <2>2
    <3> QED
      BY <1>2, <2>2, <3>1
  <2> QED
    BY <2>1, <2>2
<1>6. Pending \in [1..n -> Bytes]
  BY <1>5 DEF Pending
<1>7. Pending \in Seq(Bytes) /\ Len(Pending) = n
  <2> HIDE DEF n
  <2> QED
    BY <1>3, <1>6
<1>8. Pending = <<>> <=> Len(Pending) = 0
  BY <1>7, EmptySeq
<1>9. /\ pending.from = "comment" =>
           \A i \in 1..n : Pending[i] = Comment[pending.first + i - 1]
      /\ pending.from # "comment" =>
           \A i \in 1..n : Pending[i] = buffer[pending.first + i - 1]
  BY DEF Pending
<1> QED
  BY <1>2, <1>3, <1>7, <1>8, <1>9 DEF PendingIs

LEMMA PendingBytesThen == KeepaliveTypeOK' => PendingIs'
BY PendingBytes, PTL

\* What one Read copies.
Count == Min({room, Len(Pending)})
Chunk == SubSeq(Pending, 1, Count)
Part(i) == IF pending.from = "comment" THEN pending.first + i - 1 ELSE 0
Copied == [i \in 1..Count |-> [byte |-> Chunk[i], part |-> Part(i)]]

LEMMA MinOfTwo ==
    ASSUME NEW a \in Int, NEW b \in Int
    PROVE  Min({a, b}) \in {a, b} /\ Min({a, b}) <= a /\ Min({a, b}) <= b
<1>1. \E x \in {a, b} : \A y \in {a, b} : x <= y
  OBVIOUS
<1>2. Min({a, b}) \in {a, b} /\ \A y \in {a, b} : Min({a, b}) <= y
  BY <1>1 DEF Min
<1> QED
  BY <1>2

\* Copying some of the pending bytes leaves the others pending.
LEMMA Copying ==
    ASSUME KeepaliveTypeOK, ReadDelivers
    PROVE  /\ out' = out \o Copied /\ framing' = observe(framing, Chunk)
           /\ pending' = [pending EXCEPT !.first = pending.first + Count]
           /\ Count \in 1..Len(Pending)
           /\ Chunk \in Seq(Bytes) /\ Len(Chunk) = Count
           /\ \A i \in 1..Count : Chunk[i] = Pending[i]
           /\ Copied \in Seq(Outputs) /\ Len(Copied) = Count
           /\ \A i \in 1..Count : Copied[i].byte = Chunk[i] /\ Copied[i].part = Part(i)
<1>1. /\ Pending \in Seq(Bytes) /\ Len(Pending) \in Nat /\ Pending # <<>>
      /\ Pending = <<>> <=> Len(Pending) = 0
      /\ pending.first \in Nat /\ pending.last \in Nat
      /\ Len(Pending) = pending.last - pending.first + 1
      /\ pending.from = "comment" => pending.last = 3 /\ pending.first \in 1..4
  BY PendingBytes DEF PendingIs, ReadDelivers
<1>2. room \in Nat /\ room > 0
  BY DEF KeepaliveTypeOK, ReadDelivers
<1>3. Count \in 1..Len(Pending)
  <2>1. Count \in {room, Len(Pending)} /\ Count <= Len(Pending)
    <3>1. room \in Int /\ Len(Pending) \in Int
      BY <1>1, <1>2
    <3> QED
      BY <3>1, MinOfTwo DEF Count
  <2> QED
    BY <1>1, <1>2, <2>1
<1>4. /\ Chunk \in Seq(Bytes) /\ Len(Chunk) = Count
      /\ \A i \in 1..Count : Chunk[i] = Pending[i]
  <2>1. \A i \in 1..Count : Pending[i] \in Bytes
    BY <1>1, <1>3
  <2> QED
    BY <1>1, <1>3, <2>1, SubSeqProperties DEF Chunk
<1>5. \A i \in 1..Count : Part(i) \in 0..3
  <2> TAKE i \in 1..Count
  <2>1. CASE pending.from = "comment"
    BY <1>1, <1>3, <2>1 DEF Part
  <2>2. CASE pending.from # "comment"
    BY <2>2 DEF Part
  <2> QED
    BY <2>1, <2>2
<1>6. /\ Copied \in Seq(Outputs) /\ Len(Copied) = Count
      /\ \A i \in 1..Count : Copied[i].byte = Chunk[i] /\ Copied[i].part = Part(i)
  <2>1. \A i \in 1..Count : Chunk[i] \in Bytes
    BY <1>4
  <2>2. Copied \in [1..Count -> Outputs]
    BY <1>5, <2>1 DEF Copied, Outputs
  <2>3. Count \in Nat
    BY <1>3
  <2> QED
    BY <2>2, <2>3 DEF Copied
<1>7. /\ out' = out \o Copied /\ framing' = observe(framing, Chunk)
      /\ pending' = [pending EXCEPT !.first = pending.first + Count]
  BY DEF ReadDelivers, Copied, Chunk, Count, Part
<1> QED
  BY <1>3, <1>4, <1>6, <1>7

\* What is left to copy, or to receive.
Rest == IF fetcher = "sending" THEN SubSeq(buffer, 1, fetched.count)
        ELSE IF pending.from = "buffer" THEN Pending ELSE <<>>
Known == Delivered(out) \o Rest

LEMMA BytesSoundIs ==
    BytesSound <=> /\ Len(Known) <= Len(sent) /\ Known = SubSeq(sent, 1, Len(Known))
                   /\ fetcher # "done" => Known = sent
BY Zenon DEF BytesSound, Known, Rest

LEMMA KeepaliveTypes ==
    ASSUME KeepaliveTypeOK
    PROVE  /\ out \in Seq(Outputs) /\ sent \in Seq(Bytes) /\ framing \in Framings
           /\ Delivered(out) \in Seq(Bytes) /\ Rest \in Seq(Bytes) /\ Known \in Seq(Bytes)
<1>1. out \in Seq(Outputs) /\ sent \in Seq(Bytes) /\ framing \in Framings
  <2>1. Len(Comment) = 3
    BY DEF Comment
  <2> QED
    BY <2>1 DEF KeepaliveTypeOK, Outputs, Framings
<1>2. Delivered(out) \in Seq(Bytes)
  BY <1>1, DeliveredType
<1>3. SubSeq(buffer, 1, fetched.count) \in Seq(Bytes)
  <2>1. /\ fetched.count \in 0..BufferBytes /\ BufferBytes \in Nat
        /\ buffer \in [1..BufferBytes -> Bytes]
    BY KeepaliveAssumption DEF KeepaliveTypeOK
  <2>2. fetched.count \in Int /\ \A i \in 1..fetched.count : buffer[i] \in Bytes
    BY <2>1
  <2> QED
    BY <2>2, SubSeqProperties
<1>4. Rest \in Seq(Bytes)
  <2>1. Pending \in Seq(Bytes) /\ <<>> \in Seq(Bytes)
    BY PendingBytes DEF PendingIs
  <2> QED
    BY <1>3, <2>1 DEF Rest
<1> QED
  BY <1>1, <1>2, <1>4, ConcatProperties DEF Known

-----------------------------------------------------------------------------
(* A Read that delivers keeps the invariant.                               *)

LEMMA DeliverType ==
    ASSUME KeepaliveInv, ReadDelivers
    PROVE  KeepaliveTypeOK'
<1>1. /\ out' = out \o Copied /\ framing' = observe(framing, Chunk)
      /\ pending' = [pending EXCEPT !.first = pending.first + Count]
      /\ Count \in 1..Len(Pending) /\ Chunk \in Seq(Bytes) /\ Copied \in Seq(Outputs)
  BY Copying DEF KeepaliveInv
<1>2. out' \in Seq(Outputs) /\ framing' \in Framings
  BY <1>1, KeepaliveTypes, ConcatProperties, ObserveType DEF KeepaliveInv
<1>3. out' \in Seq([byte: Bytes, part: 0..Len(Comment)])
  <2>1. Len(Comment) = 3
    BY DEF Comment
  <2> QED
    BY <1>2, <2>1 DEF Outputs
<1>4. /\ pending'.from = pending.from /\ pending'.last = pending.last
      /\ pending'.first = pending.first + Count
      /\ pending' = [from |-> pending'.from, first |-> pending'.first,
                     last |-> pending'.last]
  <2>1. pending = [from |-> pending.from, first |-> pending.first, last |-> pending.last]
    BY DEF KeepaliveInv, KeepaliveTypeOK
  <2> QED
    BY <1>1, <2>1
<1>5. pending'.first \in 1..(pending'.last + 1)
  <2>1. /\ pending.first \in Nat \ {0} /\ pending.last \in Nat
        /\ Len(Pending) = pending.last - pending.first + 1
    BY PendingBytes DEF KeepaliveInv, PendingIs
  <2>2. Count \in Nat /\ Count <= pending.last - pending.first + 1
    BY <1>1, <2>1
  <2> QED
    BY <1>4, <2>1, <2>2
<1>6. /\ UNCHANGED <<reads, closed, buffer, err, reading, room, fetcher, fetched,
                     closer, tick, sent, comments>>
      /\ reader' = "idle"
  BY DEF ReadDelivers, closeVars, fetchVars
<1> QED
  BY <1>2, <1>3, <1>4, <1>5, <1>6 DEF KeepaliveInv, KeepaliveTypeOK, Framings

\* Upstream's bytes move from the buffer to the stream;
LEMMA DeliverFromBuffer ==
    ASSUME KeepaliveInv, ReadDelivers, pending.from = "buffer"
    PROVE  /\ Delivered(out') = Delivered(out) \o Chunk
           /\ fetcher # "sending" /\ ~reading
           /\ Chunk \o Pending' = Pending
<1>1. /\ out' = out \o Copied
      /\ pending' = [pending EXCEPT !.first = pending.first + Count]
      /\ Count \in 1..Len(Pending) /\ Chunk \in Seq(Bytes) /\ Len(Chunk) = Count
      /\ \A i \in 1..Count : Chunk[i] = Pending[i]
      /\ Copied \in Seq(Outputs) /\ Len(Copied) = Count
      /\ \A i \in 1..Count : Copied[i].byte = Chunk[i] /\ Copied[i].part = Part(i)
  BY Copying DEF KeepaliveInv
<1>2. out \in Seq(Outputs) /\ Delivered(out) \in Seq(Bytes)
  BY KeepaliveTypes DEF KeepaliveInv
<1>3. \A i \in 1..Len(Copied) : Copied[i].part = 0 /\ Copied[i].byte = Chunk[i]
  BY <1>1 DEF Part
<1>4. Delivered(out') = Delivered(out) \o Chunk
  BY <1>1, <1>2, <1>3, DeliveredChunk
<1>5. fetcher # "sending" /\ ~reading
  BY DEF KeepaliveInv, StagesSound, ReadDelivers
<1>6. Chunk \o Pending' = Pending
  <2>1. /\ Pending \in Seq(Bytes) /\ Len(Pending) \in Nat
        /\ Len(Pending) = pending.last - pending.first + 1
        /\ pending.first \in Nat /\ pending.last \in Nat
        /\ \A i \in 1..Len(Pending) : Pending[i] = buffer[pending.first + i - 1]
    BY PendingBytes DEF KeepaliveInv, PendingIs
  <2>2. /\ Pending' \in Seq(Bytes) /\ Len(Pending') = pending'.last - pending'.first + 1
        /\ pending'.from # "comment" =>
             \A i \in 1..Len(Pending') : Pending'[i] = buffer'[pending'.first + i - 1]
    BY DeliverType, PendingBytesThen DEF PendingIs
  <2>3. /\ pending'.first = pending.first + Count /\ pending'.last = pending.last
        /\ pending'.from = "buffer" /\ buffer' = buffer
    BY <1>1 DEF ReadDelivers, fetchVars, KeepaliveInv, KeepaliveTypeOK
  <2>4. Len(Pending') = Len(Pending) - Count
    BY <1>1, <2>1, <2>2, <2>3
  <2>5. \A i \in 1..Len(Pending') : Pending'[i] = Pending[i + Count]
    <3> TAKE i \in 1..Len(Pending')
    <3>1. i + Count \in 1..Len(Pending)
          /\ pending.first + (i + Count) - 1 = (pending.first + Count) + i - 1
      <4> DEFINE p == Len(Pending)
                 q == Len(Pending')
      <4>1. /\ p \in Nat /\ Count \in 1..p /\ q = p - Count /\ i \in 1..q
            /\ pending.first \in Nat
        BY <1>1, <2>1, <2>4
      <4> HIDE DEF p, q
      <4>2. i + Count \in 1..p
            /\ pending.first + (i + Count) - 1 = (pending.first + Count) + i - 1
        BY <4>1
      <4> QED
        BY <4>2 DEF p
    <3> QED
      BY <2>1, <2>2, <2>3, <3>1
  <2> DEFINE p == Pending
             q == Pending'
             c == Count
             h == Chunk
  <2>6. /\ h \o q \in Seq(Bytes) /\ Len(h \o q) = c + Len(q)
        /\ \A i \in 1..(c + Len(q)) : (h \o q)[i] = IF i <= c THEN h[i] ELSE q[i - c]
    <3>1. h \in Seq(Bytes) /\ q \in Seq(Bytes) /\ Len(h) = c
      BY <1>1, <2>2
    <3> HIDE DEF p, q, c, h
    <3> QED
      BY <3>1, ConcatProperties
  <2>7. \A i \in 1..Len(p) : (h \o q)[i] = p[i]
    <3>1. /\ c \in 1..Len(p) /\ Len(p) \in Nat /\ Len(q) = Len(p) - c
          /\ \A i \in 1..c : h[i] = p[i]
          /\ \A i \in 1..Len(q) : q[i] = p[i + c]
      BY <1>1, <2>1, <2>4, <2>5
    <3> HIDE DEF p, q, c, h
    <3> TAKE i \in 1..Len(p)
    <3>2. CASE i <= c
      BY <2>6, <3>1, <3>2
    <3>3. CASE ~(i <= c)
      <4>1. i - c \in 1..Len(q) /\ (i - c) + c = i /\ i \in 1..(c + Len(q))
        BY <3>1, <3>3
      <4> QED
        BY <2>6, <3>1, <3>3, <4>1
    <3> QED
      BY <3>2, <3>3
  <2>8. Len(h \o q) = Len(p)
    BY <1>1, <2>1, <2>4, <2>6
  <2> QED
    <3>1. p \in Seq(Bytes)
      BY <2>1
    <3> HIDE DEF p, q, c, h
    <3>2. h \o q = p
      BY <2>6, <2>7, <2>8, <3>1, SeqEqual
    <3> QED
      BY <3>2 DEF p, q, h
<1> QED
  BY <1>4, <1>5, <1>6

\* a comment's are of no account.
LEMMA DeliverFromComment ==
    ASSUME KeepaliveInv, ReadDelivers, pending.from = "comment"
    PROVE  Delivered(out') = Delivered(out)
<1>1. /\ out' = out \o Copied
      /\ Count \in 1..Len(Pending)
      /\ Copied \in Seq(Outputs) /\ Len(Copied) = Count
      /\ \A i \in 1..Count : Copied[i].part = Part(i)
  BY Copying DEF KeepaliveInv
<1>2. out \in Seq(Outputs)
  BY KeepaliveTypes DEF KeepaliveInv
<1>3. pending.first \in Nat \ {0}
  BY PendingBytes DEF KeepaliveInv, PendingIs
<1>4. \A i \in 1..Len(Copied) : Copied[i].part # 0
  <2> TAKE i \in 1..Len(Copied)
  <2>1. pending.first + i - 1 # 0 /\ i \in 1..Count
    BY <1>1, <1>3
  <2> QED
    BY <1>1, <2>1 DEF Part
<1> QED
  BY <1>1, <1>2, <1>4, DeliveredChunk

\* After a delivery Read is idle and the stages still fit together.
LEMMA DeliverStages ==
    ASSUME KeepaliveInv, ReadDelivers
    PROVE  StagesSound'
<1>1. /\ UNCHANGED <<reads, closed, err, reading, fetcher>>
      /\ reader' = "idle" /\ Pending # <<>> /\ pending'.from = pending.from
  BY DEF ReadDelivers, closeVars, fetchVars, KeepaliveInv, KeepaliveTypeOK
<1> QED
  BY <1>1 DEF KeepaliveInv, StagesSound

\* What was delivered and what is left of the buffer is what upstream sent.
LEMMA DeliverBytes ==
    ASSUME KeepaliveInv, ReadDelivers
    PROVE  BytesSound'
<1>1. /\ Delivered(out) \in Seq(Bytes) /\ pending.from \in {"buffer", "comment"}
      /\ UNCHANGED <<sent, fetcher, fetched, buffer>>
      /\ pending'.from = pending.from
  BY KeepaliveTypes DEF ReadDelivers, fetchVars, KeepaliveInv, KeepaliveTypeOK
<1>2. CASE pending.from = "buffer"
  <2>1. /\ Delivered(out') = Delivered(out) \o Chunk
        /\ fetcher # "sending" /\ Chunk \o Pending' = Pending
    BY <1>2, DeliverFromBuffer
  <2>2. Rest = Pending /\ Rest' = Pending'
    BY <1>1, <1>2, <2>1 DEF Rest
  <2>3. Chunk \in Seq(Bytes) /\ Pending' \in Seq(Bytes)
    BY Copying, DeliverType, PendingBytesThen DEF PendingIs, KeepaliveInv
  <2>4. (Delivered(out) \o Chunk) \o Pending' = Delivered(out) \o (Chunk \o Pending')
    BY <1>1, <2>3, ConcatAssociative
  <2>5. Known' = Delivered(out') \o Rest' /\ Known = Delivered(out) \o Rest
    BY DEF Known
  <2>6. Known' = Known
    BY <2>1, <2>2, <2>4, <2>5
  <2> QED
    BY <1>1, <2>6 DEF KeepaliveInv, BytesSound, Known, Rest
<1>3. CASE pending.from = "comment"
  <2>1. Delivered(out') = Delivered(out)
    BY <1>3, DeliverFromComment
  <2>2. Rest' = Rest
    BY <1>1, <1>3 DEF Rest
  <2>3. Known' = Known
    BY <2>1, <2>2 DEF Known
  <2> QED
    BY <1>1, <2>3 DEF KeepaliveInv, BytesSound, Known, Rest
<1> QED
  BY <1>1, <1>2, <1>3

\* The framing follows the bytes that are delivered.
LEMMA DeliverFraming ==
    ASSUME KeepaliveInv, ReadDelivers
    PROVE  FramingSound'
<1>1. /\ framing' = observe(framing, Chunk) /\ Chunk \in Seq(Bytes)
      /\ Len(Chunk) = Count /\ Count \in 1..Len(Pending)
      /\ \A i \in 1..Count : Chunk[i] = Pending[i]
      /\ pending'.from = pending.from /\ pending'.first = pending.first + Count
      /\ pending.from \in {"buffer", "comment"}
  BY Copying DEF KeepaliveInv, KeepaliveTypeOK
<1>2. Delivered(out) \in Seq(Bytes) /\ framing \in Framings
  BY KeepaliveTypes DEF KeepaliveInv
<1>3. CASE pending.from = "buffer"
  <2>1. Delivered(out') = Delivered(out) \o Chunk
    BY <1>3, DeliverFromBuffer
  <2>2. Framed(framing, Delivered(out))
    BY <1>3 DEF KeepaliveInv, FramingSound
  <2>3. Framed(framing', Delivered(out'))
    BY <1>1, <1>2, <2>1, <2>2, FramedChunk
  <2> QED
    BY <1>1, <1>3, <2>3 DEF FramingSound
<1>4. CASE pending.from = "comment"
  <2>1. Delivered(out') = Delivered(out)
    BY <1>4, DeliverFromComment
  <2>2. Framed(NewFraming, Delivered(out)) /\ framing = CommentFraming[pending.first]
    BY <1>4 DEF KeepaliveInv, FramingSound
  <2>3. /\ pending.first \in 1..4 /\ Len(Pending) = 4 - pending.first
        /\ \A i \in 1..Len(Pending) : Pending[i] = Comment[pending.first + i - 1]
    <3>1. /\ pending.last = 3 /\ pending.first \in 1..4
          /\ Len(Pending) = pending.last - pending.first + 1
          /\ \A i \in 1..Len(Pending) : Pending[i] = Comment[pending.first + i - 1]
      BY <1>4, PendingBytes DEF KeepaliveInv, PendingIs
    <3> QED
      BY <3>1
  <2>4. pending.first \in 1..3 /\ Len(Chunk) \in 0..(4 - pending.first)
    BY <1>1, <2>3
  <2>5. \A i \in 1..Len(Chunk) : Chunk[i] = Comment[pending.first + i - 1]
    <3>1. \A i \in 1..Len(Chunk) : i \in 1..Count /\ i \in 1..Len(Pending)
      BY <1>1
    <3> QED
      BY <1>1, <2>3, <3>1
  <2>6. framing' = CommentFraming[pending'.first]
    BY <1>1, <2>2, <2>4, <2>5, CommentFrames
  <2> QED
    BY <1>1, <1>4, <2>1, <2>2, <2>6 DEF FramingSound
<1> QED
  BY <1>1, <1>3, <1>4

\* The bytes delivered before, and those of this Read.
LEMMA DeliverAppends ==
    ASSUME KeepaliveInv, ReadDelivers
    PROVE  /\ Len(out') = Len(out) + Count /\ Len(out) \in Nat /\ Count \in Nat \ {0}
           /\ \A i \in 1..Len(out) : out'[i] = out[i] /\ SubSeq(out', 1, i) = SubSeq(out, 1, i)
           /\ \A j \in 1..Count : out'[Len(out) + j] = Copied[j]
           /\ SubSeq(out', 1, Len(out) + 1) = Append(out, Copied[1])
<1>1. /\ out' = out \o Copied /\ Copied \in Seq(Outputs) /\ Len(Copied) = Count
      /\ Count \in 1..Len(Pending) /\ Len(Pending) \in Nat
  BY Copying, PendingBytes DEF KeepaliveInv, PendingIs
<1>2. out \in Seq(Outputs) /\ Len(out) \in Nat
  BY KeepaliveTypes DEF KeepaliveInv
<1>3. /\ out' \in Seq(Outputs) /\ Len(out') = Len(out) + Count
      /\ \A i \in 1..(Len(out) + Count) :
           out'[i] = IF i <= Len(out) THEN out[i] ELSE Copied[i - Len(out)]
  BY <1>1, <1>2, ConcatProperties
<1>4. \A i \in 1..Len(out) : out'[i] = out[i]
  BY <1>1, <1>2, <1>3
<1>5. \A i \in 1..Len(out) : SubSeq(out', 1, i) = SubSeq(out, 1, i)
  <2> TAKE i \in 1..Len(out)
  <2>1. 1 \in 1..Len(out)
    BY <1>2
  <2> QED
    BY <1>1, <1>2, <2>1, SubSeqOfConcat1
<1>6. \A j \in 1..Count : out'[Len(out) + j] = Copied[j]
  <2> TAKE j \in 1..Count
  <2>1. /\ Len(out) + j \in 1..(Len(out) + Count) /\ ~(Len(out) + j <= Len(out))
        /\ (Len(out) + j) - Len(out) = j
    BY <1>1, <1>2
  <2> QED
    BY <1>3, <2>1
<1>7. SubSeq(out', 1, Len(out) + 1) = Append(out, Copied[1])
  <2>1. Len(out) \in 0..(Len(out') - 1)
    BY <1>1, <1>2, <1>3
  <2>2. SubSeq(out', 1, Len(out) + 1) = Append(SubSeq(out', 1, Len(out)), out'[Len(out) + 1])
    BY <1>3, <2>1, Prefixes
  <2>3. SubSeq(out', 1, Len(out)) = out
    <3>1. CASE Len(out) = 0
      <4>1. out = <<>> /\ SubSeq(out', 1, Len(out)) = <<>>
        BY <1>2, <3>1, EmptySeq, SubSeqEmpty
      <4> QED
        BY <4>1
    <3>2. CASE Len(out) # 0
      <4>1. Len(out) \in 1..Len(out)
        BY <1>2, <3>2
      <4>2. SubSeq(out', 1, Len(out)) = SubSeq(out, 1, Len(out))
        BY <1>5, <4>1
      <4> QED
        BY <1>2, <4>2, SubSeqFull
    <3> QED
      BY <3>1, <3>2
  <2>4. out'[Len(out) + 1] = Copied[1]
    <3>1. 1 \in 1..Count
      BY <1>1
    <3> QED
      BY <1>6, <3>1
  <2> QED
    BY <2>2, <2>3, <2>4
<1>8. Count \in Nat \ {0}
  BY <1>1
<1> QED
  BY <1>2, <1>3, <1>4, <1>5, <1>6, <1>7, <1>8

\* A comment goes on where it stopped.
LEMMA DeliverComments ==
    ASSUME KeepaliveInv, ReadDelivers
    PROVE  CommentsSound'
<1>1. /\ pending'.from = pending.from /\ pending'.first = pending.first + Count
      /\ Count \in 1..Len(Pending)
      /\ \A i \in 1..Count : Copied[i].part = Part(i)
  BY Copying DEF KeepaliveInv, KeepaliveTypeOK
<1>2. /\ Len(out') = Len(out) + Count /\ Len(out) \in Nat /\ Count \in Nat \ {0}
      /\ \A j \in 1..Count : out'[Len(out) + j] = Copied[j]
  BY DeliverAppends
<1>3. pending.first \in Nat \ {0}
  BY PendingBytes DEF KeepaliveInv, PendingIs
<1>4. out'[Len(out')].part = Part(Count) /\ out' # <<>>
  <2>1. Count \in 1..Count /\ Len(out') # 0
    BY <1>2
  <2> QED
    BY <1>1, <1>2, <2>1
<1>5. CASE pending.from = "comment"
  <2>1. Part(Count) = pending'.first - 1 /\ pending'.first > 1
    BY <1>1, <1>2, <1>3, <1>5 DEF Part
  <2> QED
    BY <1>1, <1>4, <1>5, <2>1 DEF CommentsSound
<1>6. CASE pending.from # "comment"
  BY <1>1, <1>4, <1>6 DEF CommentsSound, Part
<1> QED
  BY <1>5, <1>6

\* What CommentsBetweenEvents says of the i-th byte delivered.
CommentAt(o, i) ==
    o[i].part > 0 =>
        /\ o[i].byte = Comment[o[i].part]
        /\ o[i].part = 1 => BetweenEvents(Delivered(SubSeq(o, 1, i)))
        /\ o[i].part > 1 => i > 1 /\ o[i - 1].part = o[i].part - 1
        /\ o[i].part < Len(Comment) /\ i < Len(o) => o[i + 1].part = o[i].part + 1

LEMMA CommentsBetweenEventsIs ==
    CommentsBetweenEvents <=> \A i \in DOMAIN out : CommentAt(out, i)
BY DEF CommentsBetweenEvents, CommentAt

\* The bytes of a comment, where it was to go on and where it may begin.
LEMMA DeliverBetween ==
    ASSUME KeepaliveInv, ReadDelivers
    PROVE  CommentsBetweenEvents'
<1> DEFINE n == Len(out)
<1>1. /\ pending.from \in {"buffer", "comment"}
      /\ Copied \in Seq(Outputs) /\ Count \in 1..Len(Pending)
      /\ \A i \in 1..Count : Copied[i].byte = Pending[i] /\ Copied[i].part = Part(i)
  BY Copying DEF KeepaliveInv, KeepaliveTypeOK
<1>2. /\ Len(out') = n + Count /\ n \in Nat /\ Count \in Nat \ {0}
      /\ \A i \in 1..n : out'[i] = out[i] /\ SubSeq(out', 1, i) = SubSeq(out, 1, i)
      /\ \A j \in 1..Count : out'[n + j] = Copied[j]
      /\ SubSeq(out', 1, n + 1) = Append(out, Copied[1])
  BY DeliverAppends
<1>3. /\ out \in Seq(Outputs) /\ out' \in Seq(Outputs)
      /\ DOMAIN out = 1..n /\ DOMAIN out' = 1..(n + Count)
  <2>1. out \in Seq(Outputs) /\ out' = out \o Copied
    BY Copying, KeepaliveTypes DEF KeepaliveInv
  <2>2. out' \in Seq(Outputs)
    BY <1>1, <2>1, ConcatProperties
  <2> QED
    BY <1>2, <2>1, <2>2
<1>4. Len(Comment) = 3 /\ \A i \in 1..n : out[i].part \in 0..3
  <2>1. Len(Comment) = 3
    BY DEF Comment
  <2>2. \A i \in 1..n : out[i] \in Outputs
    BY <1>3
  <2> QED
    BY <2>1, <2>2 DEF Outputs
<1>5. /\ pending.first \in Nat \ {0} /\ Len(Pending) \in Nat
      /\ pending.from = "comment" =>
           \A i \in 1..Len(Pending) : Pending[i] = Comment[pending.first + i - 1]
      /\ pending.from = "comment" => Count + pending.first <= 4
  <2>1. /\ pending.first \in Nat \ {0} /\ Len(Pending) \in Nat
        /\ Len(Pending) = pending.last - pending.first + 1
        /\ pending.from = "comment" => pending.last = 3
        /\ pending.from = "comment" =>
             \A i \in 1..Len(Pending) : Pending[i] = Comment[pending.first + i - 1]
    BY PendingBytes DEF KeepaliveInv, PendingIs
  <2>2. pending.from = "comment" => Count + pending.first <= 4
    BY <1>1, <2>1
  <2> QED
    BY <2>1, <2>2
<1>6. /\ n # 0 /\ pending.from = "comment" /\ pending.first > 1 =>
           out[n].part = pending.first - 1
      /\ pending.from = "comment" /\ pending.first > 1 => n # 0
      /\ n # 0 /\ ~(pending.from = "comment" /\ pending.first > 1) =>
           out[n].part \in {0, 3}
  <2>1. n = 0 <=> out = <<>>
    BY <1>3, EmptySeq
  <2> QED
    BY <1>4, <2>1 DEF KeepaliveInv, CommentsSound
<1>7. \A i \in 1..n : CommentAt(out, i)
  BY <1>3, CommentsBetweenEventsIs DEF KeepaliveInv
<1>8. ASSUME NEW i \in 1..n
      PROVE  CommentAt(out', i)
  <2> SUFFICES ASSUME out'[i].part > 0
               PROVE  CommentAt(out', i)
    BY DEF CommentAt
  <2>1. out'[i] = out[i] /\ SubSeq(out', 1, i) = SubSeq(out, 1, i)
    BY <1>2
  <2>2. /\ out'[i].byte = Comment[out'[i].part]
        /\ out'[i].part = 1 => BetweenEvents(Delivered(SubSeq(out', 1, i)))
        /\ out'[i].part > 1 => i > 1 /\ out[i - 1].part = out'[i].part - 1
        /\ out'[i].part < 3 /\ i < n => out[i + 1].part = out'[i].part + 1
    <3>1. CommentAt(out, i) /\ out[i].part > 0
      BY <1>7, <2>1
    <3> QED
      BY <1>4, <2>1, <3>1 DEF CommentAt
  <2>3. i > 1 => out'[i - 1] = out[i - 1]
    <3>1. i > 1 => i - 1 \in 1..n
      BY <1>2
    <3> QED
      BY <1>2, <3>1
  <2>4. i < n => out'[i + 1] = out[i + 1]
    <3>1. i < n => i + 1 \in 1..n
      BY <1>2
    <3> QED
      BY <1>2, <3>1
  <2>5. ASSUME i = n, out'[i].part < 3
        PROVE  out'[i + 1].part = out'[i].part + 1
    <3>1. /\ out[n].part \notin {0, 3} /\ n # 0
      BY <1>2, <2>1, <2>5
    <3>2. pending.from = "comment" /\ out[n].part = pending.first - 1
      BY <1>6, <3>1
    <3>3. 1 \in 1..Count
      BY <1>2
    <3>4. out'[n + 1].part = pending.first + 1 - 1
      BY <1>1, <1>2, <3>2, <3>3 DEF Part
    <3> QED
      BY <1>5, <2>1, <2>5, <3>2, <3>4
  <2>6. i < n \/ i = n
    BY <1>2
  <2> QED
    BY <1>4, <2>2, <2>3, <2>4, <2>5, <2>6 DEF CommentAt
<1>9. ASSUME NEW j \in 1..Count
      PROVE  CommentAt(out', n + j)
  <2> SUFFICES ASSUME out'[n + j].part > 0
               PROVE  CommentAt(out', n + j)
    BY DEF CommentAt
  <2>1. out'[n + j] = Copied[j] /\ Copied[j].part = Part(j) /\ Copied[j].byte = Pending[j]
    BY <1>1, <1>2
  <2>2. pending.from = "comment" /\ Part(j) = pending.first + j - 1
    BY <2>1 DEF Part
  <2>3. out'[n + j].byte = Comment[out'[n + j].part]
    <3>1. j \in 1..Len(Pending)
      BY <1>1, <1>5
    <3> QED
      BY <1>5, <2>1, <2>2, <3>1
  <2>4. ASSUME out'[n + j].part = 1
        PROVE  BetweenEvents(Delivered(SubSeq(out', 1, n + j)))
    <3>1. j = 1 /\ pending.first = 1
      BY <1>5, <2>1, <2>2, <2>4
    <3>2. Copied[1] \in Outputs /\ Copied[1].part = 1
      <4>1. 1 \in 1..Len(Copied) /\ out'[n + 1].part = 1
        BY <1>1, <1>2, <2>4, <3>1, Copying DEF KeepaliveInv
      <4>2. Copied[1].part = 1
        BY <2>1, <3>1, <4>1
      <4> QED
        BY <1>1, <4>1, <4>2
    <3>3. Delivered(SubSeq(out', 1, n + j)) = Delivered(out)
      <4>1. Delivered(Append(out, Copied[1])) = Delivered(out)
        BY <1>3, <3>2, DeliveredAppend
      <4> QED
        BY <1>2, <3>1, <4>1
    <3>4. Framed(NewFraming, Delivered(out)) /\ Delivered(out) \in Seq(Bytes)
      BY <2>2, KeepaliveTypes DEF KeepaliveInv, FramingSound
    <3>5. NewFraming \in Framings /\ NewFraming.boundary /\ ~NewFraming.afterCR
      BY DEF NewFraming, Framings
    <3> QED
      BY <3>3, <3>4, <3>5, BoundaryIsBetween
  <2>5. ASSUME out'[n + j].part > 1
        PROVE  n + j > 1 /\ out'[(n + j) - 1].part = out'[n + j].part - 1
    <3>1. CASE j = 1
      <4>1. pending.first > 1 /\ n # 0 /\ out[n].part = pending.first - 1
        BY <1>5, <1>6, <2>1, <2>2, <2>5, <3>1
      <4>2. (n + j) - 1 = n /\ n \in 1..n /\ n + j > 1
        BY <1>2, <3>1, <4>1
      <4>3. out'[n] = out[n]
        BY <1>2, <4>2
      <4>4. Part(j) = pending.first
        BY <1>5, <2>2, <3>1
      <4> QED
        BY <2>1, <4>1, <4>2, <4>3, <4>4
    <3>2. CASE j # 1
      <4>1. /\ j - 1 \in 1..Count /\ (n + j) - 1 = n + (j - 1) /\ n + j > 1
            /\ pending.first + (j - 1) - 1 = (pending.first + j - 1) - 1
        BY <1>2, <1>5, <3>2
      <4>2. out'[n + (j - 1)].part = pending.first + (j - 1) - 1
        BY <1>1, <1>2, <2>2, <4>1 DEF Part
      <4> QED
        BY <2>1, <2>2, <4>1, <4>2
    <3> QED
      BY <3>1, <3>2
  <2>6. ASSUME n + j < Len(out')
        PROVE  out'[(n + j) + 1].part = out'[n + j].part + 1
    <3>1. /\ j + 1 \in 1..Count /\ (n + j) + 1 = n + (j + 1)
          /\ pending.first + (j + 1) - 1 = (pending.first + j - 1) + 1
      BY <1>2, <1>5, <2>6
    <3>2. out'[n + (j + 1)].part = pending.first + (j + 1) - 1
      BY <1>1, <1>2, <2>2, <3>1 DEF Part
    <3> QED
      BY <2>1, <2>2, <3>1, <3>2
  <2> QED
    BY <2>3, <2>4, <2>5, <2>6 DEF CommentAt
<1>10. \A i \in DOMAIN out' : CommentAt(out', i)
  <2> TAKE i \in DOMAIN out'
  <2>1. CASE i \in 1..n
    BY <1>8, <2>1
  <2>2. CASE i \notin 1..n
    <3>1. i - n \in 1..Count /\ n + (i - n) = i
      BY <1>2, <1>3, <2>2
    <3> QED
      BY <1>9, <3>1
  <2> QED
    BY <2>1, <2>2
<1>11. (\A i \in DOMAIN out : CommentAt(out, i))' => CommentsBetweenEvents'
  BY CommentsBetweenEventsIs, PTL
<1> QED
  BY <1>10, <1>11

LEMMA DeliverInv == KeepaliveInv /\ ReadDelivers => KeepaliveInv'
<1> SUFFICES ASSUME KeepaliveInv, ReadDelivers
             PROVE  KeepaliveInv'
  OBVIOUS
<1> QED
  BY DeliverType, DeliverStages, DeliverBytes, DeliverFraming, DeliverComments,
     DeliverBetween DEF KeepaliveInv

-----------------------------------------------------------------------------
(* The other steps.                                                        *)

LEMMA KeepaliveInitInv == KeepaliveInit => KeepaliveInv
<1> SUFFICES ASSUME KeepaliveInit
             PROVE  KeepaliveInv
  OBVIOUS
<1>1. KeepaliveTypeOK
  <2>1. BufferBytes \in Nat /\ "data" \in Bytes
    BY KeepaliveAssumption DEF Bytes
  <2>2. buffer \in [1..BufferBytes -> Bytes]
    BY <2>1 DEF KeepaliveInit
  <2>3. sent \in Seq(Bytes) /\ out \in Seq([byte: Bytes, part: 0..Len(Comment)])
    BY DEF KeepaliveInit
  <2>4. 0 \in 0..BufferBytes
    BY <2>1
  <2>5. /\ pending.from \in {"buffer", "comment"}
        /\ pending.first \in 1..(pending.last + 1)
        /\ pending.last \in
             IF pending.from = "comment" THEN {Len(Comment)} ELSE 0..BufferBytes
        /\ pending = [from |-> pending.from, first |-> pending.first,
                      last |-> pending.last]
    <3>1. pending = [from |-> "buffer", first |-> 1, last |-> 0]
      BY DEF KeepaliveInit, NoBytes
    <3> QED
      BY <2>4, <3>1
  <2>6. /\ framing \in [boundary: BOOLEAN, lineData: BOOLEAN, afterCR: BOOLEAN]
        /\ fetched \in [count: 0..BufferBytes, err: {"nil", "eof"}]
        /\ {closed, reading, tick} \subseteq BOOLEAN
    BY <2>4 DEF KeepaliveInit, NewFraming
  <2>7. /\ reads \in 0..1 /\ err \in {"nil", "eof"} /\ comments \in Nat
        /\ reader \in {"idle", "loop", "select", "finished"}
        /\ room \in Nat /\ (reader # "idle" => room > 0)
        /\ fetcher \in {"waiting", "reading", "sending", "done"}
        /\ closer \in {"idle", "joining", "returned"}
    BY DEF KeepaliveInit
  <2> QED
    BY <2>2, <2>3, <2>5, <2>6, <2>7 DEF KeepaliveTypeOK
<1>2. Pending = <<>>
  <2>1. pending.first = pending.last + 1
    BY DEF KeepaliveInit, NoBytes
  <2> QED
    BY <1>1, <2>1, PendingBytes DEF PendingIs
<1>3. Delivered(out) = <<>> /\ pending.from = "buffer" /\ sent = <<>>
      /\ framing = NewFraming /\ out = <<>>
  BY DeliveredEmpty DEF KeepaliveInit, NoBytes
<1>4. StagesSound
  BY <1>2 DEF StagesSound, KeepaliveInit
<1>5. BytesSound
  <2>1. Rest = <<>> /\ Known = <<>>
    <3>1. Rest = <<>>
      BY <1>2, <1>3 DEF Rest, KeepaliveInit
    <3>2. <<>> \o <<>> = <<>>
      OBVIOUS
    <3> QED
      BY <1>3, <3>1, <3>2 DEF Known
  <2>2. SubSeq(<<>>, 1, 0) = <<>> /\ Len(<<>>) = 0
    BY SubSeqEmpty
  <2> QED
    BY <1>3, <2>1, <2>2, BytesSoundIs
<1>6. FramingSound
  <2>1. Framed(NewFraming, <<>>)
    BY DEF Framed, NewFraming
  <2> QED
    BY <1>3, <2>1 DEF FramingSound
<1>7. CommentsSound /\ CommentsBetweenEvents
  BY <1>3 DEF CommentsSound, CommentsBetweenEvents
<1> QED
  BY <1>1, <1>4, <1>5, <1>6, <1>7 DEF KeepaliveInv

\* What the stream holds is changed by ReadDelivers only.
LEMMA QuietStep ==
    ASSUME KeepaliveInv, UNCHANGED out
    PROVE  /\ CommentsBetweenEvents'
           /\ UNCHANGED <<pending, framing>> => FramingSound' /\ CommentsSound'
           /\ UNCHANGED <<pending, buffer, fetched, fetcher, sent>> => BytesSound'
<1>1. CommentsBetweenEvents'
  BY DEF KeepaliveInv, CommentsBetweenEvents
<1>2. ASSUME UNCHANGED <<pending, framing>>
      PROVE  FramingSound' /\ CommentsSound'
  BY <1>2 DEF KeepaliveInv, FramingSound, CommentsSound
<1>3. ASSUME UNCHANGED <<pending, buffer, fetched, fetcher, sent>>
      PROVE  BytesSound'
  BY <1>3 DEF KeepaliveInv, BytesSound, Pending
<1> QED
  BY <1>1, <1>2, <1>3

\* Steps that touch neither the bytes nor the goroutine that reads them.
LEMMA PlainSteps ==
    ASSUME KeepaliveInv,
           \/ \E n \in 1..ReadBytes : Read(n)
           \/ ReadReturnsError \/ ReadDemands \/ ReadSeesClosed
           \/ Ticks \/ Close \/ CloseReturns
           \/ UNCHANGED keepaliveVars
    PROVE  KeepaliveInv'
<1>0. UNCHANGED <<out, pending, framing, buffer, fetched, fetcher, sent>>
  BY DEF Read, ReadReturnsError, ReadDemands, ReadSeesClosed, Ticks, Close,
         CloseReturns, closeVars, fetchVars, keepaliveVars
<1>1. KeepaliveTypeOK'
  <2>1. UNCHANGED <<err, comments>> /\ reads' \in {reads, reads + 1}
    BY DEF Read, ReadReturnsError, ReadDemands, ReadSeesClosed, Ticks, Close,
           CloseReturns, closeVars, fetchVars, keepaliveVars
  <2>2. /\ reads' \in 0..1 /\ {closed', reading', tick'} \subseteq BOOLEAN
        /\ reader' \in {"idle", "loop", "select", "finished"}
        /\ closer' \in {"idle", "joining", "returned"}
    <3> USE DEF KeepaliveInv, KeepaliveTypeOK, closeVars, fetchVars
    <3>1. CASE \E n \in 1..ReadBytes : Read(n)
      BY <3>1 DEF Read
    <3>2. CASE ReadReturnsError \/ ReadSeesClosed
      BY <3>2 DEF ReadReturnsError, ReadSeesClosed
    <3>3. CASE ReadDemands
      <4>1. reads' \in 0..1
        BY <3>3 DEF ReadDemands
      <4>2. {closed', reading', tick'} \subseteq BOOLEAN
        BY <3>3 DEF ReadDemands
      <4> QED
        BY <3>3, <4>1, <4>2 DEF ReadDemands
    <3>4. CASE Ticks \/ Close \/ CloseReturns
      BY <3>4 DEF Ticks, Close, CloseReturns
    <3>5. CASE UNCHANGED keepaliveVars
      BY <3>5 DEF keepaliveVars
    <3> QED
      BY <3>1, <3>2, <3>3, <3>4, <3>5
  <2>3. room' \in Nat /\ (reader' # "idle" => room' > 0)
    <3>1. CASE \E n \in 1..ReadBytes : Read(n)
      BY <3>1, KeepaliveAssumption DEF Read
    <3>2. CASE ~ \E n \in 1..ReadBytes : Read(n)
      <4>1. room' = room /\ (reader' # "idle" => reader # "idle")
        BY <3>2 DEF ReadReturnsError, ReadDemands, ReadSeesClosed, Ticks, Close,
               CloseReturns, closeVars, fetchVars, keepaliveVars
      <4> QED
        BY <4>1 DEF KeepaliveInv, KeepaliveTypeOK
    <3> QED
      BY <3>1, <3>2
  <2> QED
    BY <1>0, <2>1, <2>2, <2>3 DEF KeepaliveInv, KeepaliveTypeOK
<1>2. StagesSound'
  <2>0. Pending' = Pending
    BY <1>0 DEF Pending
  <2> USE <1>0, <2>0 DEF KeepaliveInv, StagesSound, KeepaliveTypeOK
  <2>1. CASE \E n \in 1..ReadBytes : Read(n)
    BY <2>1 DEF Read, closeVars, fetchVars
  <2>2. CASE ReadReturnsError
    BY <2>2 DEF ReadReturnsError, closeVars, fetchVars
  <2>3. CASE ReadDemands
    BY <2>3 DEF ReadDemands, closeVars, fetchVars
  <2>4. CASE ReadSeesClosed
    BY <2>4 DEF ReadSeesClosed, closeVars, fetchVars
  <2>5. CASE Ticks
    BY <2>5 DEF Ticks, closeVars, fetchVars
  <2>6. CASE Close \/ CloseReturns
    BY <2>6 DEF Close, CloseReturns, closeVars, fetchVars
  <2>7. CASE UNCHANGED keepaliveVars
    BY <2>7 DEF keepaliveVars, closeVars, fetchVars
  <2> QED
    BY <2>1, <2>2, <2>3, <2>4, <2>5, <2>6, <2>7
<1> QED
  BY <1>0, <1>1, <1>2, QuietStep DEF KeepaliveInv

\* A result that was received is what upstream sent last.
LEMMA ReceiveInv ==
    ASSUME KeepaliveInv, ReadReceives
    PROVE  KeepaliveInv'
<1>0. /\ UNCHANGED <<out, framing, buffer, fetched, sent, reads, closed, closer, room,
                     tick, comments>>
      /\ pending' = [from |-> "buffer", first |-> 1, last |-> fetched.count]
      /\ err' = fetched.err /\ reading' = FALSE /\ reader = "select"
      /\ fetcher = "sending" /\ fetcher' = "waiting" /\ reader' = "loop"
  BY DEF ReadReceives, closeVars
<1>1. KeepaliveTypeOK'
  <2>1. fetched.count \in 0..BufferBytes /\ fetched.err \in {"nil", "eof"}
        /\ BufferBytes \in Nat /\ 1 \in 1..(fetched.count + 1)
    BY KeepaliveAssumption DEF KeepaliveInv, KeepaliveTypeOK
  <2> QED
    BY <1>0, <2>1 DEF KeepaliveInv, KeepaliveTypeOK
<1>2. Pending = <<>> /\ reading /\ reads = 0
  BY <1>0 DEF KeepaliveInv, StagesSound
<1>3. StagesSound'
  BY <1>0, <1>2 DEF StagesSound
<1>4. BytesSound'
  <2>1. Pending' = SubSeq(buffer, 1, fetched.count)
    <3>1. /\ fetched.count \in 0..BufferBytes /\ BufferBytes \in Nat
          /\ buffer \in [1..BufferBytes -> Bytes]
      BY KeepaliveAssumption DEF KeepaliveInv, KeepaliveTypeOK
    <3>2. /\ SubSeq(buffer, 1, fetched.count) \in Seq(Bytes)
          /\ Len(SubSeq(buffer, 1, fetched.count)) = fetched.count
          /\ \A i \in 1..fetched.count : SubSeq(buffer, 1, fetched.count)[i] = buffer[i]
      <4>1. fetched.count \in Int /\ \A i \in 1..fetched.count : buffer[i] \in Bytes
        BY <3>1
      <4> QED
        BY <3>1, <4>1, SubSeqProperties
    <3>3. /\ Pending' \in Seq(Bytes) /\ Len(Pending') = fetched.count
          /\ \A i \in 1..fetched.count : Pending'[i] = buffer[i]
      <4>1. /\ Pending' \in Seq(Bytes) /\ Len(Pending') = pending'.last - pending'.first + 1
            /\ pending'.from # "comment" =>
                 \A i \in 1..Len(Pending') : Pending'[i] = buffer'[pending'.first + i - 1]
        BY <1>1, PendingBytesThen DEF PendingIs
      <4>2. Len(Pending') = fetched.count
        BY <1>0, <3>1, <4>1
      <4>3. \A i \in 1..fetched.count : 1 + i - 1 = i
        BY <3>1
      <4> QED
        BY <1>0, <4>1, <4>2, <4>3
    <3> QED
      BY <3>2, <3>3, SeqEqual
  <2>2. Rest' = Rest
    BY <1>0, <2>1 DEF Rest
  <2>3. Known' = Known
    BY <1>0, <2>2 DEF Known
  <2> QED
    BY <1>0, <2>3 DEF KeepaliveInv, BytesSound, Known, Rest
<1>5. pending.from = "comment" => pending.first = 4
  BY <1>2, PendingBytes DEF KeepaliveInv, PendingIs
<1>6. FramingSound'
  <2>1. CommentFraming[4] = NewFraming
    BY DEF CommentFraming
  <2> QED
    BY <1>0, <1>5, <2>1 DEF KeepaliveInv, KeepaliveTypeOK, FramingSound
<1>7. CommentsSound'
  <2>1. Len(Comment) = 3
    BY DEF Comment
  <2> QED
    BY <1>0, <1>5, <2>1 DEF KeepaliveInv, CommentsSound
<1>8. CommentsBetweenEvents'
  BY <1>0, QuietStep
<1> QED
  BY <1>1, <1>3, <1>4, <1>6, <1>7, <1>8 DEF KeepaliveInv

\* A comment begins at a boundary.
LEMMA TickInv ==
    ASSUME KeepaliveInv, ReadTicks
    PROVE  KeepaliveInv'
<1>0. /\ UNCHANGED <<out, framing, buffer, fetched, fetcher, sent, reads, reading,
                     closed, closer, room, err>>
      /\ reader = "select" /\ reader' = "loop" /\ tick' = FALSE
      /\ \/ /\ CommentAllowed /\ comments' = comments + 1
            /\ pending' = [from |-> "comment", first |-> 1, last |-> 3]
         \/ UNCHANGED <<pending, comments>>
  <2>1. Len(Comment) = 3
    BY DEF Comment
  <2> QED
    BY <2>1 DEF ReadTicks, closeVars, fetchVars
<1>1. KeepaliveTypeOK'
  <2>1. comments' \in Nat
    BY <1>0 DEF KeepaliveInv, KeepaliveTypeOK
  <2>2. /\ pending'.from \in {"buffer", "comment"}
        /\ pending'.first \in 1..(pending'.last + 1)
        /\ pending'.last \in
             IF pending'.from = "comment" THEN {Len(Comment)} ELSE 0..BufferBytes
        /\ pending' = [from |-> pending'.from, first |-> pending'.first,
                       last |-> pending'.last]
    <3>1. CASE UNCHANGED pending
      BY <3>1 DEF KeepaliveInv, KeepaliveTypeOK
    <3>2. CASE pending' = [from |-> "comment", first |-> 1, last |-> 3]
      <4>1. Len(Comment) = 3
        BY DEF Comment
      <4> QED
        BY <3>2, <4>1
    <3> QED
      BY <1>0, <3>1, <3>2
  <2> QED
    BY <1>0, <2>1, <2>2 DEF KeepaliveInv, KeepaliveTypeOK
<1>2. Pending = <<>> /\ reading
  BY <1>0 DEF KeepaliveInv, StagesSound
<1>3. CASE UNCHANGED <<pending, comments>>
  <2>1. Pending' = Pending
    BY <1>0, <1>3 DEF Pending
  <2>2. StagesSound'
    BY <1>0, <1>3, <2>1 DEF KeepaliveInv, StagesSound
  <2> QED
    BY <1>0, <1>1, <1>3, <2>2, QuietStep DEF KeepaliveInv
<1>4. CASE /\ CommentAllowed
           /\ pending' = [from |-> "comment", first |-> 1, last |-> 3]
  <2>1. StagesSound'
    BY <1>0, <1>4 DEF KeepaliveInv, StagesSound
  <2>2. BytesSound'
    <3>1. Rest' = Rest
      BY <1>0, <1>2, <1>4 DEF Rest
    <3>2. Known' = Known
      BY <1>0, <3>1 DEF Known
    <3> QED
      BY <1>0, <3>2 DEF KeepaliveInv, BytesSound, Known, Rest
  <2>3. pending.from = "comment" => pending.first = 4
    BY <1>2, PendingBytes DEF KeepaliveInv, PendingIs
  <2>4. FramingSound'
    <3>1. CommentFraming[4] = NewFraming /\ CommentFraming[1] = NewFraming
      BY DEF CommentFraming
    <3>2. Framed(framing, Delivered(out))
      BY <2>3, <3>1 DEF KeepaliveInv, KeepaliveTypeOK, FramingSound
    <3>3. Delivered(out) \in Seq(Bytes) /\ framing \in Framings
      BY KeepaliveTypes DEF KeepaliveInv
    <3>4. framing = NewFraming
      BY <1>4, <3>2, <3>3, BoundaryIsBetween DEF CommentAllowed
    <3> QED
      BY <1>0, <1>4, <3>1, <3>2, <3>4 DEF FramingSound
  <2>5. CommentsSound'
    <3>1. Len(Comment) = 3
      BY DEF Comment
    <3> QED
      BY <1>0, <1>4, <2>3, <3>1 DEF KeepaliveInv, CommentsSound
  <2> QED
    BY <1>0, <1>1, <2>1, <2>2, <2>4, <2>5, QuietStep DEF KeepaliveInv
<1> QED
  BY <1>0, <1>3, <1>4

\* The goroutine reads into a buffer of which nothing is left to copy.
LEMMA FetchReadsInv ==
    ASSUME KeepaliveInv, FetchReads
    PROVE  KeepaliveInv'
<1> PICK count \in 0..Min({BufferBytes, MaxBytes - Len(sent)}), e \in {"nil", "eof"} :
      /\ \E value \in [1..count -> Bytes] :
           /\ buffer' = [i \in 1..BufferBytes |->
                           IF i <= count THEN value[i] ELSE buffer[i]]
           /\ sent' = sent \o value
      /\ fetched' = [count |-> count, err |-> e]
  BY DEF FetchReads
<1> PICK value \in [1..count -> Bytes] :
      /\ buffer' = [i \in 1..BufferBytes |-> IF i <= count THEN value[i] ELSE buffer[i]]
      /\ sent' = sent \o value
  OBVIOUS
<1>0. /\ buffer' = [i \in 1..BufferBytes |-> IF i <= count THEN value[i] ELSE buffer[i]]
      /\ sent' = sent \o value /\ fetched' = [count |-> count, err |-> e]
  OBVIOUS
<1>1. /\ UNCHANGED <<out, framing, pending, reads, reading, closed, closer, reader, room,
                     err, tick, comments>>
      /\ fetcher = "reading" /\ fetcher' = "sending"
  BY DEF FetchReads, closeVars
<1>2. /\ count \in 0..BufferBytes /\ BufferBytes \in Nat
      /\ value \in Seq(Bytes) /\ Len(value) = count /\ sent \in Seq(Bytes)
  <2>1. BufferBytes \in Int /\ MaxBytes - Len(sent) \in Int /\ sent \in Seq(Bytes)
    BY KeepaliveAssumption DEF KeepaliveInv, KeepaliveTypeOK
  <2> DEFINE least == Min({BufferBytes, MaxBytes - Len(sent)})
  <2>2. least \in Int /\ least <= BufferBytes /\ BufferBytes \in Nat
    <3>1. least \in {BufferBytes, MaxBytes - Len(sent)} /\ least <= BufferBytes
      BY <2>1, MinOfTwo
    <3> QED
      BY <2>1, <3>1, KeepaliveAssumption
  <2> HIDE DEF least
  <2>3. count \in 0..least
    BY DEF least
  <2>4. count \in 0..BufferBytes /\ count \in Nat
    BY <2>2, <2>3
  <2>5. value \in [1..count -> Bytes] /\ value \in Seq(Bytes)
    BY <2>4
  <2>6. Len(value) = count
    BY <2>4, <2>5
  <2> QED
    BY <2>1, <2>2, <2>4, <2>5, <2>6
<1>3. KeepaliveTypeOK'
  <2>1. buffer' \in [1..BufferBytes -> Bytes]
    <3>1. \A i \in 1..BufferBytes :
            (IF i <= count THEN value[i] ELSE buffer[i]) \in Bytes
      <4> TAKE i \in 1..BufferBytes
      <4>1. i <= count => i \in 1..count
        BY <1>2
      <4> QED
        BY <4>1 DEF KeepaliveInv, KeepaliveTypeOK
    <3> QED
      BY <1>0, <3>1
  <2>2. sent' \in Seq(Bytes)
    BY <1>0, <1>2, ConcatProperties
  <2>3. fetched' \in [count: 0..BufferBytes, err: {"nil", "eof"}]
    BY <1>0, <1>2
  <2> QED
    BY <1>1, <2>1, <2>2, <2>3 DEF KeepaliveInv, KeepaliveTypeOK
<1>4. pending.from = "buffer" => Pending = <<>>
  BY <1>1 DEF KeepaliveInv, StagesSound
<1>5. Pending = <<>> => Pending' = <<>>
  <2>1. Pending = <<>> <=> pending.first = pending.last + 1
    BY PendingBytes DEF KeepaliveInv, PendingIs
  <2>2. Pending' = <<>> <=> pending'.first = pending'.last + 1
    BY <1>3, PendingBytesThen DEF PendingIs
  <2> QED
    BY <1>1, <2>1, <2>2
<1>6. StagesSound'
  BY <1>1, <1>5 DEF KeepaliveInv, StagesSound
<1>7. BytesSound'
  <2>1. Rest = <<>>
    BY <1>1, <1>4 DEF Rest
  <2>2. Delivered(out) = sent
    <3>1. Known = sent
      BY <1>1, BytesSoundIs DEF KeepaliveInv
    <3>2. Known = Delivered(out)
      <4>1. Delivered(out) \in Seq(Bytes)
        BY KeepaliveTypes DEF KeepaliveInv
      <4> QED
        BY <2>1, <4>1, ConcatEmptySeq DEF Known
    <3> QED
      BY <3>1, <3>2
  <2>3. SubSeq(buffer', 1, count) = value
    <3>1. \A i \in 1..count : buffer'[i] = value[i] /\ value[i] \in Bytes
      <4> TAKE i \in 1..count
      <4>1. i \in 1..BufferBytes /\ i <= count
        BY <1>2
      <4> QED
        BY <1>0, <4>1
    <3>2. /\ SubSeq(buffer', 1, count) \in Seq(Bytes)
          /\ Len(SubSeq(buffer', 1, count)) = count
          /\ \A i \in 1..count : SubSeq(buffer', 1, count)[i] = buffer'[i]
      <4>1. \A i \in 1..count : buffer'[i] \in Bytes
        BY <3>1
      <4> QED
        BY <1>2, <4>1, SubSeqProperties
    <3> QED
      BY <1>2, <3>1, <3>2, SeqEqual
  <2>4. Rest' = value
    BY <1>0, <1>1, <2>3 DEF Rest
  <2>5. Known' = sent'
    BY <1>0, <1>1, <2>2, <2>4 DEF Known
  <2>6. Len(Known') <= Len(sent') /\ Known' = SubSeq(sent', 1, Len(Known'))
    <3>1. sent' \in Seq(Bytes) /\ Len(sent') \in Nat
      BY <1>0, <1>2, ConcatProperties
    <3> QED
      BY <2>5, <3>1, SubSeqFull
  <2> QED
    BY <2>5, <2>6 DEF BytesSound, Known, Rest
<1> QED
  BY <1>1, <1>3, <1>6, <1>7, QuietStep DEF KeepaliveInv

\* A body that is closed drops what it read.
LEMMA FetchStopsInv ==
    ASSUME KeepaliveInv, FetchBegins \/ FetchStops
    PROVE  KeepaliveInv'
<1>1. /\ UNCHANGED <<out, framing, pending, buffer, fetched, sent, reading, closed, closer,
                     reader, room, err, tick, comments>>
      /\ \/ /\ fetcher = "waiting" /\ fetcher' = "reading" /\ reads = 1 /\ reads' = 0
         \/ /\ fetcher \in {"waiting", "sending"} /\ fetcher' = "done"
            /\ closed /\ reads' = reads
  BY DEF FetchBegins, FetchStops, closeVars
<1>2. KeepaliveTypeOK'
  <2>1. reads' \in 0..1 /\ fetcher' \in {"waiting", "reading", "sending", "done"}
    BY <1>1 DEF KeepaliveInv, KeepaliveTypeOK
  <2> QED
    BY <1>1, <2>1 DEF KeepaliveInv, KeepaliveTypeOK
<1>3. Pending' = Pending
  BY <1>1 DEF Pending
<1>4. StagesSound'
  BY <1>1, <1>3 DEF KeepaliveInv, StagesSound
<1>5. BytesSound'
  <2>1. CASE fetcher # "sending"
    <3>1. Rest' = Rest
      BY <1>1, <1>3, <2>1 DEF Rest
    <3>2. Known' = Known
      BY <1>1, <3>1 DEF Known
    <3> QED
      BY <1>1, <2>1, <3>2 DEF KeepaliveInv, BytesSound, Known, Rest
  <2>2. CASE fetcher = "sending"
    <3>1. fetcher' = "done" /\ Rest' = <<>>
      BY <1>1, <1>3, <2>2 DEF KeepaliveInv, StagesSound, Rest
    <3>2. /\ Delivered(out) \in Seq(Bytes) /\ Rest \in Seq(Bytes) /\ sent \in Seq(Bytes)
      BY KeepaliveTypes DEF KeepaliveInv
    <3>3. Known' = Delivered(out)
      BY <1>1, <3>1, <3>2, ConcatEmptySeq DEF Known
    <3>4. sent = Delivered(out) \o Rest
      BY <2>2, BytesSoundIs DEF KeepaliveInv, Known
    <3>5. /\ Len(Delivered(out)) <= Len(sent)
          /\ Delivered(out) = SubSeq(sent, 1, Len(Delivered(out)))
      BY <3>2, <3>4, PrefixOfConcat
    <3> QED
      BY <1>1, <3>1, <3>3, <3>5 DEF BytesSound, Known, Rest
  <2> QED
    BY <2>1, <2>2
<1> QED
  BY <1>1, <1>2, <1>4, <1>5, QuietStep DEF KeepaliveInv

LEMMA KeepaliveNextInv == KeepaliveInv /\ [KeepaliveNext]_keepaliveVars => KeepaliveInv'
<1> SUFFICES ASSUME KeepaliveInv, [KeepaliveNext]_keepaliveVars
             PROVE  KeepaliveInv'
  OBVIOUS
<1>1. CASE ReadDelivers
  BY <1>1, DeliverInv
<1>2. CASE ReadReceives
  BY <1>2, ReceiveInv
<1>3. CASE ReadTicks
  BY <1>3, TickInv
<1>4. CASE FetchReads
  BY <1>4, FetchReadsInv
<1>5. CASE FetchBegins \/ FetchStops
  BY <1>5, FetchStopsInv
<1>6. CASE \/ \E n \in 1..ReadBytes : Read(n)
           \/ ReadReturnsError \/ ReadDemands \/ ReadSeesClosed
           \/ Ticks \/ Close \/ CloseReturns
           \/ UNCHANGED keepaliveVars
  BY <1>6, PlainSteps
<1> QED
  BY <1>1, <1>2, <1>3, <1>4, <1>5, <1>6 DEF KeepaliveNext, Reader, Fetcher

\* The body's buffer, framing and comments are sound, for any sizes of the buffer and
\* of a Read, and however long upstream's stream is.
THEOREM KeepaliveInvariant == KeepaliveSpec => []KeepaliveInv
<1> QED
  BY KeepaliveInitInv, KeepaliveNextInv, PTL DEF KeepaliveSpec

\* The bytes known to have been sent make the stream transparent.
LEMMA TransparentNow == KeepaliveInv => Transparent
<1> SUFFICES ASSUME KeepaliveInv
             PROVE  Transparent
  OBVIOUS
<1>1. Delivered(out) \in Seq(Bytes) /\ Rest \in Seq(Bytes) /\ sent \in Seq(Bytes)
  BY KeepaliveTypes DEF KeepaliveInv
<1>2. /\ Len(Known) <= Len(sent) /\ Known = SubSeq(sent, 1, Len(Known))
      /\ fetcher # "done" => Known = sent
  BY BytesSoundIs DEF KeepaliveInv
<1>3. /\ Len(Delivered(out)) <= Len(Known)
      /\ Delivered(out) = SubSeq(Known, 1, Len(Delivered(out)))
  BY <1>1, PrefixOfConcat DEF Known
<1>4. /\ Len(Delivered(out)) <= Len(sent)
      /\ Delivered(out) = SubSeq(sent, 1, Len(Delivered(out)))
  <2> DEFINE d == Delivered(out)
             k == Known
  <2>1. /\ k \in Seq(Bytes) /\ Len(k) \in Nat /\ Len(d) \in Nat /\ Len(sent) \in Nat
        /\ d \in Seq(Bytes)
    BY <1>1, ConcatProperties DEF Known
  <2>2. /\ Len(d) <= Len(k) /\ d = SubSeq(k, 1, Len(d))
        /\ Len(k) <= Len(sent) /\ k = SubSeq(sent, 1, Len(k))
    BY <1>2, <1>3
  <2> HIDE DEF d, k
  <2>3. SubSeq(k, 1, Len(d)) = SubSeq(sent, 1, Len(d))
    BY <1>1, <2>1, <2>2, PrefixOfPrefix
  <2>4. Len(d) <= Len(sent) /\ d = SubSeq(sent, 1, Len(d))
    BY <2>1, <2>2, <2>3
  <2> QED
    BY <2>4 DEF d
<1>5. ASSUME reader = "finished", ~closed
      PROVE  Delivered(out) = sent
  <2>1. fetcher # "done" /\ fetcher # "sending" /\ Pending = <<>>
    BY <1>5 DEF KeepaliveInv, StagesSound
  <2>2. Rest = <<>> /\ Known = sent
    BY <1>2, <2>1 DEF Rest
  <2> QED
    BY <1>1, <2>2, ConcatEmptySeq DEF Known
<1> QED
  BY <1>4, <1>5 DEF Transparent

\* Without its comments the stream is upstream's, whole when Read returns upstream's
\* error: the one buffer is never overwritten before it is copied.
THEOREM StreamIsTransparent == KeepaliveSpec => []Transparent
<1> QED
  BY KeepaliveInvariant, TransparentNow, PTL

\* A comment starts between two events, and is delivered whole.
THEOREM CommentsKeepFrames == KeepaliveSpec => []CommentsBetweenEvents
<1>1. KeepaliveInv => CommentsBetweenEvents
  BY DEF KeepaliveInv
<1> QED
  BY KeepaliveInvariant, <1>1, PTL

-----------------------------------------------------------------------------
(* The loops of ChatExchange, one turn at a time.                          *)

\* The turns of reasoningControlsConflict.
reasoningControlsConflictTurns(u, listed) ==
    /\ u[0] = NothingSeen
    /\ u[Len(listed)].found = reasoningControlsConflict(listed)
    /\ \A n \in 1..Len(listed) : u[n] = observeConflict(u[n - 1], listed[n])

\* reasoningControlsConflict looks at one control after another.
LEMMA reasoningControlsConflictLoop ==
    ASSUME NEW A, NEW listed \in Seq(A)
    PROVE  \E u : reasoningControlsConflictTurns(u, listed)
<1> DEFINE N == Len(listed)
           E(u) == u = [n \in 0..N |-> IF n = 0 THEN NothingSeen
                                       ELSE observeConflict(u[n - 1], listed[n])]
           w == CHOOSE u : E(u)
           Runs(u, m) == u[0] = NothingSeen
                         /\ \A n \in 1..m : u[n] = observeConflict(u[n - 1], listed[n])
           P == {m \in 0..N : \E u : Runs(u, m)}
<1>0. N \in Nat
  OBVIOUS
<1>1. 0 \in P
  <2>1. Runs([n \in 0..0 |-> NothingSeen], 0)
    OBVIOUS
  <2>2. \E u : Runs(u, 0)
    <3> HIDE DEF Runs
    <3> QED
      BY <2>1
  <2> QED
    BY <1>0, <2>2
<1>2. ASSUME NEW m \in 0..(N - 1), m \in P
      PROVE  m + 1 \in P
  <2>1. PICK u : Runs(u, m)
    BY <1>2
  <2> DEFINE next == observeConflict(u[m], listed[m + 1])
             v == [n \in 0..(m + 1) |-> IF n = m + 1 THEN next ELSE u[n]]
  <2>2. m \in Nat /\ m + 1 \in 0..N /\ 0 # m + 1
    BY <1>0
  <2>3. \A n \in 0..m : v[n] = u[n]
    <3> HIDE DEF next
    <3> QED
      BY <2>2
  <2>4. v[m + 1] = next
    <3> HIDE DEF next
    <3> QED
      BY <2>2
  <2>5. v[0] = NothingSeen
    <3> HIDE DEF v
    <3> QED
      BY <2>1, <2>2, <2>3
  <2> HIDE DEF v
  <2>6. ASSUME NEW n \in 1..(m + 1)
        PROVE  v[n] = observeConflict(v[n - 1], listed[n])
    <3>1. CASE n = m + 1
      <4>1. n - 1 = m /\ m \in 0..m
        BY <2>2, <3>1
      <4>2. v[n - 1] = u[m] /\ v[n] = next /\ listed[n] = listed[m + 1]
        <5> HIDE DEF next
        <5> QED
          BY <2>3, <2>4, <3>1, <4>1
      <4> QED
        BY <4>2
    <3>2. CASE n # m + 1
      <4>1. n \in 1..m /\ n \in 0..m /\ n - 1 \in 0..m
        BY <2>2, <3>2
      <4>2. v[n] = u[n] /\ v[n - 1] = u[n - 1]
        BY <2>3, <4>1
      <4> QED
        BY <2>1, <4>1, <4>2
    <3> QED
      BY <3>1, <3>2
  <2>7. Runs(v, m + 1)
    BY <2>5, <2>6
  <2> QED
    BY <2>2, <2>7
<1>3. PICK u : Runs(u, N)
  <2> HIDE DEF P, N
  <2>1. \A m \in 0..N : m \in P
    BY <1>0, <1>1, <1>2, Positions
  <2>2. N \in P
    BY <1>0, <2>1
  <2> QED
    BY <2>2 DEF P
<1> DEFINE f == [n \in 0..N |-> u[n]]
<1>4. \A n \in 1..N : n - 1 \in 0..N /\ n \in 0..N /\ n # 0
  BY <1>0
<1>5. E(f)
  <2> DEFINE g == [n \in 0..N |-> IF n = 0 THEN NothingSeen
                                   ELSE observeConflict(f[n - 1], listed[n])]
  <2>1. ASSUME NEW n \in 0..N
        PROVE  f[n] = g[n]
    <3>1. CASE n = 0
      BY <1>3, <3>1
    <3>2. CASE n # 0
      <4>1. n \in 1..N
        BY <1>0, <3>2
      <4>2. f[n] = u[n] /\ f[n - 1] = u[n - 1]
        BY <1>4, <4>1
      <4>3. g[n] = observeConflict(f[n - 1], listed[n])
        <5> HIDE DEF f
        <5> QED
          BY <3>2
      <4> HIDE DEF f, g
      <4> QED
        BY <1>3, <4>1, <4>2, <4>3
    <3> QED
      BY <3>1, <3>2
  <2>2. f = g
    <3> DEFINE F(n) == f[n]
               G(n) == g[n]
    <3>1. f = [n \in 0..N |-> f[n]] /\ g = [n \in 0..N |-> g[n]]
      OBVIOUS
    <3> HIDE DEF f, g
    <3> QED
      BY <2>1, <3>1
  <2> HIDE DEF f
  <2> QED
    BY <2>2
<1>6. E(w)
  <2> HIDE DEF E, f
  <2> QED
    BY <1>5
<1>7. w[N].found = reasoningControlsConflict(listed)
  BY DEF reasoningControlsConflict, w
<1> HIDE DEF w
<1>8. w[0] = NothingSeen
  BY <1>0, <1>6
<1>9. ASSUME NEW n \in 1..N
      PROVE  w[n] = observeConflict(w[n - 1], listed[n])
  BY <1>4, <1>6
<1> QED
  BY <1>7, <1>8, <1>9 DEF reasoningControlsConflictTurns

\* The turns of Sum.
SumTurns(u, values) ==
    /\ u[0] = 0
    /\ u[Len(values)] = Sum(values)
    /\ \A n \in 1..Len(values) : u[n] = AddCount(u[n - 1], values[n])

\* Sum adds one value after another.
LEMMA SumLoop ==
    ASSUME NEW A, NEW values \in Seq(A)
    PROVE  \E u : SumTurns(u, values)
<1> DEFINE N == Len(values)
           E(u) == u = [n \in 0..N |-> IF n = 0 THEN 0
                                       ELSE AddCount(u[n - 1], values[n])]
           w == CHOOSE u : E(u)
           Runs(u, m) == u[0] = 0
                         /\ \A n \in 1..m : u[n] = AddCount(u[n - 1], values[n])
           P == {m \in 0..N : \E u : Runs(u, m)}
<1>0. N \in Nat
  OBVIOUS
<1>1. 0 \in P
  <2>1. Runs([n \in 0..0 |-> 0], 0)
    OBVIOUS
  <2>2. \E u : Runs(u, 0)
    <3> HIDE DEF Runs
    <3> QED
      BY <2>1
  <2> QED
    BY <1>0, <2>2
<1>2. ASSUME NEW m \in 0..(N - 1), m \in P
      PROVE  m + 1 \in P
  <2>1. PICK u : Runs(u, m)
    BY <1>2
  <2> DEFINE next == AddCount(u[m], values[m + 1])
             v == [n \in 0..(m + 1) |-> IF n = m + 1 THEN next ELSE u[n]]
  <2>2. m \in Nat /\ m + 1 \in 0..N /\ 0 # m + 1
    BY <1>0
  <2>3. \A n \in 0..m : v[n] = u[n]
    <3> HIDE DEF next
    <3> QED
      BY <2>2
  <2>4. v[m + 1] = next
    <3> HIDE DEF next
    <3> QED
      BY <2>2
  <2>5. v[0] = 0
    <3> HIDE DEF v
    <3> QED
      BY <2>1, <2>2, <2>3
  <2> HIDE DEF v
  <2>6. ASSUME NEW n \in 1..(m + 1)
        PROVE  v[n] = AddCount(v[n - 1], values[n])
    <3>1. CASE n = m + 1
      <4>1. n - 1 = m /\ m \in 0..m
        BY <2>2, <3>1
      <4>2. v[n - 1] = u[m] /\ v[n] = next /\ values[n] = values[m + 1]
        <5> HIDE DEF next
        <5> QED
          BY <2>3, <2>4, <3>1, <4>1
      <4> QED
        BY <4>2
    <3>2. CASE n # m + 1
      <4>1. n \in 1..m /\ n \in 0..m /\ n - 1 \in 0..m
        BY <2>2, <3>2
      <4>2. v[n] = u[n] /\ v[n - 1] = u[n - 1]
        BY <2>3, <4>1
      <4> QED
        BY <2>1, <4>1, <4>2
    <3> QED
      BY <3>1, <3>2
  <2>7. Runs(v, m + 1)
    BY <2>5, <2>6
  <2> QED
    BY <2>2, <2>7
<1>3. PICK u : Runs(u, N)
  <2> HIDE DEF P, N
  <2>1. \A m \in 0..N : m \in P
    BY <1>0, <1>1, <1>2, Positions
  <2>2. N \in P
    BY <1>0, <2>1
  <2> QED
    BY <2>2 DEF P
<1> DEFINE f == [n \in 0..N |-> u[n]]
<1>4. \A n \in 1..N : n - 1 \in 0..N /\ n \in 0..N /\ n # 0
  BY <1>0
<1>5. E(f)
  <2> DEFINE g == [n \in 0..N |-> IF n = 0 THEN 0 ELSE AddCount(f[n - 1], values[n])]
  <2>1. ASSUME NEW n \in 0..N
        PROVE  f[n] = g[n]
    <3>1. CASE n = 0
      BY <1>3, <3>1
    <3>2. CASE n # 0
      <4>1. n \in 1..N
        BY <1>0, <3>2
      <4>2. f[n] = u[n] /\ f[n - 1] = u[n - 1]
        BY <1>4, <4>1
      <4>3. g[n] = AddCount(f[n - 1], values[n])
        <5> HIDE DEF f
        <5> QED
          BY <3>2
      <4> HIDE DEF f, g
      <4> QED
        BY <1>3, <4>1, <4>2, <4>3
    <3> QED
      BY <3>1, <3>2
  <2>2. f = g
    <3> DEFINE F(n) == f[n]
               G(n) == g[n]
    <3>1. f = [n \in 0..N |-> f[n]] /\ g = [n \in 0..N |-> g[n]]
      OBVIOUS
    <3> HIDE DEF f, g
    <3> QED
      BY <2>1, <3>1
  <2> HIDE DEF f
  <2> QED
    BY <2>2
<1>6. E(w)
  <2> HIDE DEF E, f
  <2> QED
    BY <1>5
<1>7. w[N] = Sum(values)
  BY DEF Sum, w
<1> HIDE DEF w
<1>8. w[0] = 0
  BY <1>0, <1>6
<1>9. ASSUME NEW n \in 1..N
      PROVE  w[n] = AddCount(w[n - 1], values[n])
  BY <1>4, <1>6
<1> QED
  BY <1>7, <1>8, <1>9 DEF SumTurns

LEMMA SumEmpty == Sum(<<>>) = 0
<1>1. <<>> \in Seq({}) /\ Len(<<>>) = 0
  OBVIOUS
<1>2. PICK u : SumTurns(u, <<>>)
  BY <1>1, SumLoop
<1> QED
  BY <1>1, <1>2 DEF SumTurns

LEMMA SumAppend ==
    ASSUME NEW A, NEW values \in Seq(A), NEW x \in A
    PROVE  Sum(Append(values, x)) = AddCount(Sum(values), x)
<1> DEFINE N == Len(values)
           longer == Append(values, x)
<1>1. /\ N \in Nat /\ longer \in Seq(A) /\ Len(longer) = N + 1
      /\ \A i \in 1..N : longer[i] = values[i]
      /\ longer[N + 1] = x
  BY AppendProperties
<1>2. PICK u : SumTurns(u, values)
  BY SumLoop
<1> HIDE DEF longer
<1>3. PICK v : SumTurns(v, longer)
  BY <1>1, SumLoop
<1> DEFINE P == {n \in 0..N : u[n] = v[n]}
<1>4. 0 \in P
  BY <1>1, <1>2, <1>3 DEF SumTurns
<1>5. ASSUME NEW n \in 0..(N - 1), n \in P
      PROVE  n + 1 \in P
  <2>1. n + 1 \in 1..N /\ n + 1 \in 1..Len(longer) /\ n + 1 \in 0..N /\ (n + 1) - 1 = n
    BY <1>1
  <2>2. u[n + 1] = AddCount(u[n], values[n + 1])
    BY <1>2, <2>1 DEF SumTurns
  <2>3. v[n + 1] = AddCount(v[n], longer[n + 1])
    BY <1>3, <2>1 DEF SumTurns
  <2>4. u[n] = v[n] /\ values[n + 1] = longer[n + 1]
    BY <1>1, <1>5, <2>1
  <2>5. u[n + 1] = v[n + 1]
    BY <2>2, <2>3, <2>4
  <2> QED
    BY <2>1, <2>5
<1>6. u[N] = v[N]
  <2> HIDE DEF P, N
  <2>1. \A n \in 0..N : n \in P
    BY <1>1, <1>4, <1>5, Positions
  <2>2. N \in P
    BY <1>1, <2>1
  <2> QED
    BY <2>2 DEF P
<1>7. N + 1 \in 1..Len(longer) /\ (N + 1) - 1 = N
  BY <1>1
<1>8. v[N + 1] = AddCount(v[N], x)
  BY <1>1, <1>3, <1>7 DEF SumTurns
<1>9. v[N + 1] = Sum(longer) /\ u[N] = Sum(values)
  BY <1>1, <1>2, <1>3 DEF SumTurns
<1> QED
  BY <1>6, <1>8, <1>9 DEF longer

\* The turns of observeChoices.
observeChoicesTurns(u, o, choices) ==
    /\ u[0] = o
    /\ u[Len(choices)] = observeChoices(o, choices)
    /\ \A n \in 1..Len(choices) : u[n] = observeChoice(u[n - 1], choices[n])

\* observeObject looks at one choice after another.
LEMMA observeChoicesLoop ==
    ASSUME NEW A, NEW choices \in Seq(A), NEW o
    PROVE  \E u : observeChoicesTurns(u, o, choices)
<1> DEFINE N == Len(choices)
           E(u) == u = [n \in 0..N |-> IF n = 0 THEN o
                                       ELSE observeChoice(u[n - 1], choices[n])]
           w == CHOOSE u : E(u)
           Runs(u, m) == u[0] = o
                         /\ \A n \in 1..m : u[n] = observeChoice(u[n - 1], choices[n])
           P == {m \in 0..N : \E u : Runs(u, m)}
<1>0. N \in Nat
  OBVIOUS
<1>1. 0 \in P
  <2>1. Runs([n \in 0..0 |-> o], 0)
    OBVIOUS
  <2>2. \E u : Runs(u, 0)
    <3> HIDE DEF Runs
    <3> QED
      BY <2>1
  <2> QED
    BY <1>0, <2>2
<1>2. ASSUME NEW m \in 0..(N - 1), m \in P
      PROVE  m + 1 \in P
  <2>1. PICK u : Runs(u, m)
    BY <1>2
  <2> DEFINE next == observeChoice(u[m], choices[m + 1])
             v == [n \in 0..(m + 1) |-> IF n = m + 1 THEN next ELSE u[n]]
  <2>2. m \in Nat /\ m + 1 \in 0..N /\ 0 # m + 1
    BY <1>0
  <2>3. \A n \in 0..m : v[n] = u[n]
    <3> HIDE DEF next
    <3> QED
      BY <2>2
  <2>4. v[m + 1] = next
    <3> HIDE DEF next
    <3> QED
      BY <2>2
  <2>5. v[0] = o
    <3> HIDE DEF v
    <3> QED
      BY <2>1, <2>2, <2>3
  <2> HIDE DEF v
  <2>6. ASSUME NEW n \in 1..(m + 1)
        PROVE  v[n] = observeChoice(v[n - 1], choices[n])
    <3>1. CASE n = m + 1
      <4>1. n - 1 = m /\ m \in 0..m
        BY <2>2, <3>1
      <4>2. v[n - 1] = u[m] /\ v[n] = next /\ choices[n] = choices[m + 1]
        <5> HIDE DEF next
        <5> QED
          BY <2>3, <2>4, <3>1, <4>1
      <4> QED
        BY <4>2
    <3>2. CASE n # m + 1
      <4>1. n \in 1..m /\ n \in 0..m /\ n - 1 \in 0..m
        BY <2>2, <3>2
      <4>2. v[n] = u[n] /\ v[n - 1] = u[n - 1]
        BY <2>3, <4>1
      <4> QED
        BY <2>1, <4>1, <4>2
    <3> QED
      BY <3>1, <3>2
  <2>7. Runs(v, m + 1)
    BY <2>5, <2>6
  <2> QED
    BY <2>2, <2>7
<1>3. PICK u : Runs(u, N)
  <2> HIDE DEF P, N
  <2>1. \A m \in 0..N : m \in P
    BY <1>0, <1>1, <1>2, Positions
  <2>2. N \in P
    BY <1>0, <2>1
  <2> QED
    BY <2>2 DEF P
<1> DEFINE f == [n \in 0..N |-> u[n]]
<1>4. \A n \in 1..N : n - 1 \in 0..N /\ n \in 0..N /\ n # 0
  BY <1>0
<1>5. E(f)
  <2> DEFINE g == [n \in 0..N |-> IF n = 0 THEN o ELSE observeChoice(f[n - 1], choices[n])]
  <2>1. ASSUME NEW n \in 0..N
        PROVE  f[n] = g[n]
    <3>1. CASE n = 0
      BY <1>3, <3>1
    <3>2. CASE n # 0
      <4>1. n \in 1..N
        BY <1>0, <3>2
      <4>2. f[n] = u[n] /\ f[n - 1] = u[n - 1]
        BY <1>4, <4>1
      <4>3. g[n] = observeChoice(f[n - 1], choices[n])
        <5> HIDE DEF f
        <5> QED
          BY <3>2
      <4> HIDE DEF f, g
      <4> QED
        BY <1>3, <4>1, <4>2, <4>3
    <3> QED
      BY <3>1, <3>2
  <2>2. f = g
    <3> DEFINE F(n) == f[n]
               G(n) == g[n]
    <3>1. f = [n \in 0..N |-> f[n]] /\ g = [n \in 0..N |-> g[n]]
      OBVIOUS
    <3> HIDE DEF f, g
    <3> QED
      BY <2>1, <3>1
  <2> HIDE DEF f
  <2> QED
    BY <2>2
<1>6. E(w)
  <2> HIDE DEF E, f
  <2> QED
    BY <1>5
<1>7. w[N] = observeChoices(o, choices)
  BY DEF observeChoices, w
<1> HIDE DEF w
<1>8. w[0] = o
  BY <1>0, <1>6
<1>9. ASSUME NEW n \in 1..N
      PROVE  w[n] = observeChoice(w[n - 1], choices[n])
  BY <1>4, <1>6
<1> QED
  BY <1>7, <1>8, <1>9 DEF observeChoicesTurns

\* The turns of observeBytes.
observeBytesTurns(u, o, value) ==
    /\ u[0] = Unread(o)
    /\ u[Len(value)] = observeBytes(o, value)
    /\ \A n \in 1..Len(value) : u[n] = takeByte(u[n - 1], value[n])

\* observeSSE takes the bytes of a chunk one by one.
LEMMA observeBytesLoop ==
    ASSUME NEW A, NEW value \in Seq(A), NEW o
    PROVE  \E u : observeBytesTurns(u, o, value)
<1> DEFINE N == Len(value)
           E(u) == u = [n \in 0..N |-> IF n = 0 THEN Unread(o)
                                       ELSE takeByte(u[n - 1], value[n])]
           w == CHOOSE u : E(u)
           Runs(u, m) == u[0] = Unread(o)
                         /\ \A n \in 1..m : u[n] = takeByte(u[n - 1], value[n])
           P == {m \in 0..N : \E u : Runs(u, m)}
<1>0. N \in Nat
  OBVIOUS
<1>1. 0 \in P
  <2>1. Runs([n \in 0..0 |-> Unread(o)], 0)
    OBVIOUS
  <2>2. \E u : Runs(u, 0)
    <3> HIDE DEF Runs
    <3> QED
      BY <2>1
  <2> QED
    BY <1>0, <2>2
<1>2. ASSUME NEW m \in 0..(N - 1), m \in P
      PROVE  m + 1 \in P
  <2>1. PICK u : Runs(u, m)
    BY <1>2
  <2> DEFINE next == takeByte(u[m], value[m + 1])
             v == [n \in 0..(m + 1) |-> IF n = m + 1 THEN next ELSE u[n]]
  <2>2. m \in Nat /\ m + 1 \in 0..N /\ 0 # m + 1
    BY <1>0
  <2>3. \A n \in 0..m : v[n] = u[n]
    <3> HIDE DEF next
    <3> QED
      BY <2>2
  <2>4. v[m + 1] = next
    <3> HIDE DEF next
    <3> QED
      BY <2>2
  <2>5. v[0] = Unread(o)
    <3> HIDE DEF v
    <3> QED
      BY <2>1, <2>2, <2>3
  <2> HIDE DEF v
  <2>6. ASSUME NEW n \in 1..(m + 1)
        PROVE  v[n] = takeByte(v[n - 1], value[n])
    <3>1. CASE n = m + 1
      <4>1. n - 1 = m /\ m \in 0..m
        BY <2>2, <3>1
      <4>2. v[n - 1] = u[m] /\ v[n] = next /\ value[n] = value[m + 1]
        <5> HIDE DEF next
        <5> QED
          BY <2>3, <2>4, <3>1, <4>1
      <4> QED
        BY <4>2
    <3>2. CASE n # m + 1
      <4>1. n \in 1..m /\ n \in 0..m /\ n - 1 \in 0..m
        BY <2>2, <3>2
      <4>2. v[n] = u[n] /\ v[n - 1] = u[n - 1]
        BY <2>3, <4>1
      <4> QED
        BY <2>1, <4>1, <4>2
    <3> QED
      BY <3>1, <3>2
  <2>7. Runs(v, m + 1)
    BY <2>5, <2>6
  <2> QED
    BY <2>2, <2>7
<1>3. PICK u : Runs(u, N)
  <2> HIDE DEF P, N
  <2>1. \A m \in 0..N : m \in P
    BY <1>0, <1>1, <1>2, Positions
  <2>2. N \in P
    BY <1>0, <2>1
  <2> QED
    BY <2>2 DEF P
<1> DEFINE f == [n \in 0..N |-> u[n]]
<1>4. \A n \in 1..N : n - 1 \in 0..N /\ n \in 0..N /\ n # 0
  BY <1>0
<1>5. E(f)
  <2> DEFINE g == [n \in 0..N |-> IF n = 0 THEN Unread(o) ELSE takeByte(f[n - 1], value[n])]
  <2>1. ASSUME NEW n \in 0..N
        PROVE  f[n] = g[n]
    <3>1. CASE n = 0
      BY <1>3, <3>1
    <3>2. CASE n # 0
      <4>1. n \in 1..N
        BY <1>0, <3>2
      <4>2. f[n] = u[n] /\ f[n - 1] = u[n - 1]
        BY <1>4, <4>1
      <4>3. g[n] = takeByte(f[n - 1], value[n])
        <5> HIDE DEF f
        <5> QED
          BY <3>2
      <4> HIDE DEF f, g
      <4> QED
        BY <1>3, <4>1, <4>2, <4>3
    <3> QED
      BY <3>1, <3>2
  <2>2. f = g
    <3> DEFINE F(n) == f[n]
               G(n) == g[n]
    <3>1. f = [n \in 0..N |-> f[n]] /\ g = [n \in 0..N |-> g[n]]
      OBVIOUS
    <3> HIDE DEF f, g
    <3> QED
      BY <2>1, <3>1
  <2> HIDE DEF f
  <2> QED
    BY <2>2
<1>6. E(w)
  <2> HIDE DEF E, f
  <2> QED
    BY <1>5
<1>7. w[N] = observeBytes(o, value)
  BY DEF observeBytes, w
<1> HIDE DEF w
<1>8. w[0] = Unread(o)
  BY <1>0, <1>6
<1>9. ASSUME NEW n \in 1..N
      PROVE  w[n] = takeByte(w[n - 1], value[n])
  BY <1>4, <1>6
<1> QED
  BY <1>7, <1>8, <1>9 DEF observeBytesTurns

\* The turns of Lines.
LinesTurns(u, text) ==
    /\ u[0] = Nothing
    /\ u[Len(text)] = Lines(text)
    /\ \A n \in 1..Len(text) : u[n] = AddByte(u[n - 1], text[n])

\* Lines takes the bytes of a text one by one.
LEMMA LinesLoop ==
    ASSUME NEW A, NEW text \in Seq(A)
    PROVE  \E u : LinesTurns(u, text)
<1> DEFINE N == Len(text)
           E(u) == u = [n \in 0..N |-> IF n = 0 THEN Nothing
                                       ELSE AddByte(u[n - 1], text[n])]
           w == CHOOSE u : E(u)
           Runs(u, m) == u[0] = Nothing
                         /\ \A n \in 1..m : u[n] = AddByte(u[n - 1], text[n])
           P == {m \in 0..N : \E u : Runs(u, m)}
<1>0. N \in Nat
  OBVIOUS
<1>1. 0 \in P
  <2>1. Runs([n \in 0..0 |-> Nothing], 0)
    OBVIOUS
  <2>2. \E u : Runs(u, 0)
    <3> HIDE DEF Runs
    <3> QED
      BY <2>1
  <2> QED
    BY <1>0, <2>2
<1>2. ASSUME NEW m \in 0..(N - 1), m \in P
      PROVE  m + 1 \in P
  <2>1. PICK u : Runs(u, m)
    BY <1>2
  <2> DEFINE next == AddByte(u[m], text[m + 1])
             v == [n \in 0..(m + 1) |-> IF n = m + 1 THEN next ELSE u[n]]
  <2>2. m \in Nat /\ m + 1 \in 0..N /\ 0 # m + 1
    BY <1>0
  <2>3. \A n \in 0..m : v[n] = u[n]
    <3> HIDE DEF next
    <3> QED
      BY <2>2
  <2>4. v[m + 1] = next
    <3> HIDE DEF next
    <3> QED
      BY <2>2
  <2>5. v[0] = Nothing
    <3> HIDE DEF v
    <3> QED
      BY <2>1, <2>2, <2>3
  <2> HIDE DEF v
  <2>6. ASSUME NEW n \in 1..(m + 1)
        PROVE  v[n] = AddByte(v[n - 1], text[n])
    <3>1. CASE n = m + 1
      <4>1. n - 1 = m /\ m \in 0..m
        BY <2>2, <3>1
      <4>2. v[n - 1] = u[m] /\ v[n] = next /\ text[n] = text[m + 1]
        <5> HIDE DEF next
        <5> QED
          BY <2>3, <2>4, <3>1, <4>1
      <4> QED
        BY <4>2
    <3>2. CASE n # m + 1
      <4>1. n \in 1..m /\ n \in 0..m /\ n - 1 \in 0..m
        BY <2>2, <3>2
      <4>2. v[n] = u[n] /\ v[n - 1] = u[n - 1]
        BY <2>3, <4>1
      <4> QED
        BY <2>1, <4>1, <4>2
    <3> QED
      BY <3>1, <3>2
  <2>7. Runs(v, m + 1)
    BY <2>5, <2>6
  <2> QED
    BY <2>2, <2>7
<1>3. PICK u : Runs(u, N)
  <2> HIDE DEF P, N
  <2>1. \A m \in 0..N : m \in P
    BY <1>0, <1>1, <1>2, Positions
  <2>2. N \in P
    BY <1>0, <2>1
  <2> QED
    BY <2>2 DEF P
<1> DEFINE f == [n \in 0..N |-> u[n]]
<1>4. \A n \in 1..N : n - 1 \in 0..N /\ n \in 0..N /\ n # 0
  BY <1>0
<1>5. E(f)
  <2> DEFINE g == [n \in 0..N |-> IF n = 0 THEN Nothing ELSE AddByte(f[n - 1], text[n])]
  <2>1. ASSUME NEW n \in 0..N
        PROVE  f[n] = g[n]
    <3>1. CASE n = 0
      BY <1>3, <3>1
    <3>2. CASE n # 0
      <4>1. n \in 1..N
        BY <1>0, <3>2
      <4>2. f[n] = u[n] /\ f[n - 1] = u[n - 1]
        BY <1>4, <4>1
      <4>3. g[n] = AddByte(f[n - 1], text[n])
        <5> HIDE DEF f
        <5> QED
          BY <3>2
      <4> HIDE DEF f, g
      <4> QED
        BY <1>3, <4>1, <4>2, <4>3
    <3> QED
      BY <3>1, <3>2
  <2>2. f = g
    <3> DEFINE F(n) == f[n]
               G(n) == g[n]
    <3>1. f = [n \in 0..N |-> f[n]] /\ g = [n \in 0..N |-> g[n]]
      OBVIOUS
    <3> HIDE DEF f, g
    <3> QED
      BY <2>1, <3>1
  <2> HIDE DEF f
  <2> QED
    BY <2>2
<1>6. E(w)
  <2> HIDE DEF E, f
  <2> QED
    BY <1>5
<1>7. w[N] = Lines(text)
  BY DEF Lines, w
<1> HIDE DEF w
<1>8. w[0] = Nothing
  BY <1>0, <1>6
<1>9. ASSUME NEW n \in 1..N
      PROVE  w[n] = AddByte(w[n - 1], text[n])
  BY <1>4, <1>6
<1> QED
  BY <1>7, <1>8, <1>9 DEF LinesTurns

LEMMA LinesEmpty == Lines(<<>>) = Nothing
<1>1. <<>> \in Seq({}) /\ Len(<<>>) = 0
  OBVIOUS
<1>2. PICK u : LinesTurns(u, <<>>)
  BY <1>1, LinesLoop
<1> QED
  BY <1>1, <1>2 DEF LinesTurns

LEMMA LinesAppend ==
    ASSUME NEW A, NEW text \in Seq(A), NEW x \in A
    PROVE  Lines(Append(text, x)) = AddByte(Lines(text), x)
<1> DEFINE N == Len(text)
           longer == Append(text, x)
<1>1. /\ N \in Nat /\ longer \in Seq(A) /\ Len(longer) = N + 1
      /\ \A i \in 1..N : longer[i] = text[i]
      /\ longer[N + 1] = x
  BY AppendProperties
<1>2. PICK u : LinesTurns(u, text)
  BY LinesLoop
<1> HIDE DEF longer
<1>3. PICK v : LinesTurns(v, longer)
  BY <1>1, LinesLoop
<1> DEFINE P == {n \in 0..N : u[n] = v[n]}
<1>4. 0 \in P
  BY <1>1, <1>2, <1>3 DEF LinesTurns
<1>5. ASSUME NEW n \in 0..(N - 1), n \in P
      PROVE  n + 1 \in P
  <2>1. n + 1 \in 1..N /\ n + 1 \in 1..Len(longer) /\ n + 1 \in 0..N /\ (n + 1) - 1 = n
    BY <1>1
  <2>2. u[n + 1] = AddByte(u[n], text[n + 1])
    BY <1>2, <2>1 DEF LinesTurns
  <2>3. v[n + 1] = AddByte(v[n], longer[n + 1])
    BY <1>3, <2>1 DEF LinesTurns
  <2>4. u[n] = v[n] /\ text[n + 1] = longer[n + 1]
    BY <1>1, <1>5, <2>1
  <2>5. u[n + 1] = v[n + 1]
    BY <2>2, <2>3, <2>4
  <2> QED
    BY <2>1, <2>5
<1>6. u[N] = v[N]
  <2> HIDE DEF P, N
  <2>1. \A n \in 0..N : n \in P
    BY <1>1, <1>4, <1>5, Positions
  <2>2. N \in P
    BY <1>1, <2>1
  <2> QED
    BY <2>2 DEF P
<1>7. N + 1 \in 1..Len(longer) /\ (N + 1) - 1 = N
  BY <1>1
<1>8. v[N + 1] = AddByte(v[N], x)
  BY <1>1, <1>3, <1>7 DEF LinesTurns
<1>9. v[N + 1] = Lines(longer) /\ u[N] = Lines(text)
  BY <1>1, <1>2, <1>3 DEF LinesTurns
<1> QED
  BY <1>6, <1>8, <1>9 DEF longer

\* The turns of Events.
EventsTurns(u, lines) ==
    /\ u[0] = Nothing
    /\ u[Len(lines)] = Events(lines)
    /\ \A n \in 1..Len(lines) : u[n] = AddLine(u[n - 1], lines[n])

\* Events takes one line after another.
LEMMA EventsLoop ==
    ASSUME NEW A, NEW lines \in Seq(A)
    PROVE  \E u : EventsTurns(u, lines)
<1> DEFINE N == Len(lines)
           E(u) == u = [n \in 0..N |-> IF n = 0 THEN Nothing
                                       ELSE AddLine(u[n - 1], lines[n])]
           w == CHOOSE u : E(u)
           Runs(u, m) == u[0] = Nothing
                         /\ \A n \in 1..m : u[n] = AddLine(u[n - 1], lines[n])
           P == {m \in 0..N : \E u : Runs(u, m)}
<1>0. N \in Nat
  OBVIOUS
<1>1. 0 \in P
  <2>1. Runs([n \in 0..0 |-> Nothing], 0)
    OBVIOUS
  <2>2. \E u : Runs(u, 0)
    <3> HIDE DEF Runs
    <3> QED
      BY <2>1
  <2> QED
    BY <1>0, <2>2
<1>2. ASSUME NEW m \in 0..(N - 1), m \in P
      PROVE  m + 1 \in P
  <2>1. PICK u : Runs(u, m)
    BY <1>2
  <2> DEFINE next == AddLine(u[m], lines[m + 1])
             v == [n \in 0..(m + 1) |-> IF n = m + 1 THEN next ELSE u[n]]
  <2>2. m \in Nat /\ m + 1 \in 0..N /\ 0 # m + 1
    BY <1>0
  <2>3. \A n \in 0..m : v[n] = u[n]
    <3> HIDE DEF next
    <3> QED
      BY <2>2
  <2>4. v[m + 1] = next
    <3> HIDE DEF next
    <3> QED
      BY <2>2
  <2>5. v[0] = Nothing
    <3> HIDE DEF v
    <3> QED
      BY <2>1, <2>2, <2>3
  <2> HIDE DEF v
  <2>6. ASSUME NEW n \in 1..(m + 1)
        PROVE  v[n] = AddLine(v[n - 1], lines[n])
    <3>1. CASE n = m + 1
      <4>1. n - 1 = m /\ m \in 0..m
        BY <2>2, <3>1
      <4>2. v[n - 1] = u[m] /\ v[n] = next /\ lines[n] = lines[m + 1]
        <5> HIDE DEF next
        <5> QED
          BY <2>3, <2>4, <3>1, <4>1
      <4> QED
        BY <4>2
    <3>2. CASE n # m + 1
      <4>1. n \in 1..m /\ n \in 0..m /\ n - 1 \in 0..m
        BY <2>2, <3>2
      <4>2. v[n] = u[n] /\ v[n - 1] = u[n - 1]
        BY <2>3, <4>1
      <4> QED
        BY <2>1, <4>1, <4>2
    <3> QED
      BY <3>1, <3>2
  <2>7. Runs(v, m + 1)
    BY <2>5, <2>6
  <2> QED
    BY <2>2, <2>7
<1>3. PICK u : Runs(u, N)
  <2> HIDE DEF P, N
  <2>1. \A m \in 0..N : m \in P
    BY <1>0, <1>1, <1>2, Positions
  <2>2. N \in P
    BY <1>0, <2>1
  <2> QED
    BY <2>2 DEF P
<1> DEFINE f == [n \in 0..N |-> u[n]]
<1>4. \A n \in 1..N : n - 1 \in 0..N /\ n \in 0..N /\ n # 0
  BY <1>0
<1>5. E(f)
  <2> DEFINE g == [n \in 0..N |-> IF n = 0 THEN Nothing ELSE AddLine(f[n - 1], lines[n])]
  <2>1. ASSUME NEW n \in 0..N
        PROVE  f[n] = g[n]
    <3>1. CASE n = 0
      BY <1>3, <3>1
    <3>2. CASE n # 0
      <4>1. n \in 1..N
        BY <1>0, <3>2
      <4>2. f[n] = u[n] /\ f[n - 1] = u[n - 1]
        BY <1>4, <4>1
      <4>3. g[n] = AddLine(f[n - 1], lines[n])
        <5> HIDE DEF f
        <5> QED
          BY <3>2
      <4> HIDE DEF f, g
      <4> QED
        BY <1>3, <4>1, <4>2, <4>3
    <3> QED
      BY <3>1, <3>2
  <2>2. f = g
    <3> DEFINE F(n) == f[n]
               G(n) == g[n]
    <3>1. f = [n \in 0..N |-> f[n]] /\ g = [n \in 0..N |-> g[n]]
      OBVIOUS
    <3> HIDE DEF f, g
    <3> QED
      BY <2>1, <3>1
  <2> HIDE DEF f
  <2> QED
    BY <2>2
<1>6. E(w)
  <2> HIDE DEF E, f
  <2> QED
    BY <1>5
<1>7. w[N] = Events(lines)
  BY DEF Events, w
<1> HIDE DEF w
<1>8. w[0] = Nothing
  BY <1>0, <1>6
<1>9. ASSUME NEW n \in 1..N
      PROVE  w[n] = AddLine(w[n - 1], lines[n])
  BY <1>4, <1>6
<1> QED
  BY <1>7, <1>8, <1>9 DEF EventsTurns

LEMMA EventsEmpty == Events(<<>>) = Nothing
<1>1. <<>> \in Seq({}) /\ Len(<<>>) = 0
  OBVIOUS
<1>2. PICK u : EventsTurns(u, <<>>)
  BY <1>1, EventsLoop
<1> QED
  BY <1>1, <1>2 DEF EventsTurns

LEMMA EventsAppend ==
    ASSUME NEW A, NEW lines \in Seq(A), NEW x \in A
    PROVE  Events(Append(lines, x)) = AddLine(Events(lines), x)
<1> DEFINE N == Len(lines)
           longer == Append(lines, x)
<1>1. /\ N \in Nat /\ longer \in Seq(A) /\ Len(longer) = N + 1
      /\ \A i \in 1..N : longer[i] = lines[i]
      /\ longer[N + 1] = x
  BY AppendProperties
<1>2. PICK u : EventsTurns(u, lines)
  BY EventsLoop
<1> HIDE DEF longer
<1>3. PICK v : EventsTurns(v, longer)
  BY <1>1, EventsLoop
<1> DEFINE P == {n \in 0..N : u[n] = v[n]}
<1>4. 0 \in P
  BY <1>1, <1>2, <1>3 DEF EventsTurns
<1>5. ASSUME NEW n \in 0..(N - 1), n \in P
      PROVE  n + 1 \in P
  <2>1. n + 1 \in 1..N /\ n + 1 \in 1..Len(longer) /\ n + 1 \in 0..N /\ (n + 1) - 1 = n
    BY <1>1
  <2>2. u[n + 1] = AddLine(u[n], lines[n + 1])
    BY <1>2, <2>1 DEF EventsTurns
  <2>3. v[n + 1] = AddLine(v[n], longer[n + 1])
    BY <1>3, <2>1 DEF EventsTurns
  <2>4. u[n] = v[n] /\ lines[n + 1] = longer[n + 1]
    BY <1>1, <1>5, <2>1
  <2>5. u[n + 1] = v[n + 1]
    BY <2>2, <2>3, <2>4
  <2> QED
    BY <2>1, <2>5
<1>6. u[N] = v[N]
  <2> HIDE DEF P, N
  <2>1. \A n \in 0..N : n \in P
    BY <1>1, <1>4, <1>5, Positions
  <2>2. N \in P
    BY <1>1, <2>1
  <2> QED
    BY <2>2 DEF P
<1>7. N + 1 \in 1..Len(longer) /\ (N + 1) - 1 = N
  BY <1>1
<1>8. v[N + 1] = AddLine(v[N], x)
  BY <1>1, <1>3, <1>7 DEF EventsTurns
<1>9. v[N + 1] = Events(longer) /\ u[N] = Events(lines)
  BY <1>1, <1>2, <1>3 DEF EventsTurns
<1> QED
  BY <1>6, <1>8, <1>9 DEF longer

-----------------------------------------------------------------------------
(* The controls and the policy of a request.                               *)

ControlValues == Efforts \cup {"true", "false", "absent"}
Controls == [kind: Kinds,
             control: [source: {"client", "invalid", "managed-or-backend-default"},
                       provided: BOOLEAN, value: ControlValues]]

\* A value of the client is reported as what it was.
LEMMA ObservedValue ==
    ASSUME NEW raw, NEW accepted \in SUBSET ControlValues
    PROVE  observeValue(raw, accepted) \in
             [source: {"client", "invalid", "managed-or-backend-default"},
              provided: BOOLEAN, value: ControlValues]
  BY DEF observeValue, ControlDefault, ControlInvalid, Control, ControlValues

\* The controls inspectRequest lists are of the four kinds.
LEMMA ControlsListed ==
    ASSUME NEW q
    PROVE  reasoningControls(q) \in Seq(Controls)
<1> DEFINE named(kind, c) == [kind |-> kind, control |-> c]
           kwargs == q.kwargs
           three == <<"thinking", "effort", "strength">>
           plain == [i \in 1..3 |-> named(three[i], ControlDefault("absent"))]
           bad == <<named("kwargs", ControlInvalid)>>
           full == <<named("thinking", observeValue(kwargs.thinking, {"true", "false"})),
                     named("effort", observeValue(kwargs.effort, Efforts)),
                     named("strength", observeValue(kwargs.strength, Efforts))>>
           top == <<named("effort", observeValue(q.effort, Efforts)),
                    named("strength", observeValue(q.strength, Efforts))>>
<1>1. ASSUME NEW raw, NEW kind \in Kinds
      PROVE  /\ named(kind, observeValue(raw, Efforts)) \in Controls
             /\ named(kind, observeValue(raw, {"true", "false"})) \in Controls
  <2>1. Efforts \subseteq ControlValues /\ {"true", "false"} \subseteq ControlValues
    BY DEF ControlValues
  <2> QED
    BY <2>1, ObservedValue DEF Controls
<1>2. /\ named("kwargs", ControlInvalid) \in Controls
      /\ \A kind \in Kinds : named(kind, ControlDefault("absent")) \in Controls
  BY DEF ControlInvalid, ControlDefault, Control, Controls, ControlValues, Kinds
<1>3. {"thinking", "effort", "strength"} \subseteq Kinds
  BY DEF Kinds
<1>4. top \in Seq(Controls) /\ full \in Seq(Controls)
  <2> HIDE DEF named
  <2> QED
    BY <1>1, <1>3
<1>5. bad \in Seq(Controls)
  <2> HIDE DEF named
  <2> QED
    BY <1>2
<1>6. plain \in Seq(Controls)
  <2>1. \A i \in 1..3 : three[i] \in Kinds
    BY <1>3
  <2>2. plain \in [1..3 -> Controls]
    <3> HIDE DEF named, three
    <3> QED
      BY <1>2, <2>1
  <2> QED
    BY <2>2
<1> HIDE DEF top, full, bad, plain
<1>7. /\ top \o full \in Seq(Controls) /\ top \o bad \in Seq(Controls)
      /\ top \o plain \in Seq(Controls)
  BY <1>4, <1>5, <1>6, ConcatProperties
<1>8. reasoningControls(q) \in {top \o full, top \o bad, top \o plain}
  BY DEF reasoningControls, top, full, bad, plain
<1> QED
  BY <1>7, <1>8

\* Two controls disagree, and the turns of reasoningControlsConflict find that
\* out of what they keep.
Disagree(c, d) == \/ c.kind = d.kind /\ c.control.value # d.control.value
                  \/ Enables(c) # Enables(d)
Disagreement(given) == \E c, d \in given : Disagree(c, d)
Seen(seen, given) ==
    /\ seen = [found |-> seen.found, values |-> seen.values, decision |-> seen.decision]
    /\ seen.values = [k \in Kinds |-> seen.values[k]]
    /\ seen.found \in BOOLEAN
    /\ seen.found = Disagreement(given)
    /\ ~seen.found =>
         /\ \A k \in Kinds : seen.values[k] =
              {c.control.value : c \in {d \in given : d.kind = k}}
         /\ seen.decision = {Enables(c) : c \in given}

\* One turn of reasoningControlsConflict: it has found two controls that disagree
\* exactly if there are two among those it has looked at.
LEMMA SeenTurn ==
    ASSUME NEW given \in SUBSET Controls, NEW c \in Controls, NEW seen,
           Seen(seen, given)
    PROVE  Seen(observeConflict(seen, c),
                IF c.control.source = "client" THEN given \cup {c} ELSE given)
<1> DEFINE after == observeConflict(seen, c)
<1>1. CASE c.control.source # "client"
  BY <1>1 DEF observeConflict
<1>2. CASE c.control.source = "client" /\ seen.found
  <2>1. after = seen
    BY <1>2 DEF observeConflict
  <2>2. Disagreement(given \cup {c})
    BY <1>2 DEF Seen, Disagreement
  <2> QED
    BY <1>2, <2>1, <2>2 DEF Seen
<1>3. CASE c.control.source = "client" /\ ~seen.found
  <2> DEFINE contradicts == \/ \E value \in seen.values[c.kind] : value # c.control.value
                            \/ \E decision \in seen.decision : decision # Enables(c)
  <2>1. /\ c.kind \in Kinds
        /\ \A k \in Kinds : seen.values[k] =
             {d.control.value : d \in {e \in given : e.kind = k}}
        /\ seen.decision = {Enables(d) : d \in given}
        /\ ~Disagreement(given)
    BY <1>3 DEF Seen, Controls
  <2>2. contradicts <=> \E d \in given : Disagree(c, d)
    BY <2>1 DEF Disagree
  <2>3. \A d, e : Disagree(d, e) <=> Disagree(e, d)
    BY DEF Disagree
  <2>4. ~Disagree(c, c)
    BY DEF Disagree
  <2>5. Disagreement(given \cup {c}) <=> \E d \in given : Disagree(c, d)
    BY <2>1, <2>3, <2>4 DEF Disagreement
  <2>6. CASE contradicts
    <3>1. after = [seen EXCEPT !.found = TRUE]
      BY <1>3, <2>6 DEF observeConflict
    <3>2. after = [found |-> TRUE, values |-> seen.values, decision |-> seen.decision]
      BY <3>1 DEF Seen
    <3>3. seen.values = [k \in Kinds |-> seen.values[k]]
      BY DEF Seen
    <3> HIDE DEF after
    <3>4. /\ after.found = TRUE /\ after.values = seen.values
          /\ after.decision = seen.decision
          /\ after = [found |-> after.found, values |-> after.values,
                      decision |-> after.decision]
      BY <3>2
    <3>5. Disagreement(given \cup {c}) = TRUE
      <4>1. Disagreement(given \cup {c})
        BY <2>2, <2>5, <2>6
      <4> QED
        BY <4>1 DEF Disagreement
    <3>6. after.found = Disagreement(given \cup {c})
      BY <3>4, <3>5
    <3>7. Seen(after, given \cup {c})
      BY <3>3, <3>4, <3>6 DEF Seen
    <3> QED
      BY <1>3, <3>7 DEF after
  <2>7. CASE ~contradicts
    <3>1. after = [seen EXCEPT !.values[c.kind] = {c.control.value},
                               !.decision = {Enables(c)}]
      BY <1>3, <2>7 DEF observeConflict
    <3>2. after = [found |-> FALSE,
                   values |-> [seen.values EXCEPT ![c.kind] = {c.control.value}],
                   decision |-> {Enables(c)}]
      BY <1>3, <3>1 DEF Seen
    <3>3. \A d \in given : d.kind = c.kind => d.control.value = c.control.value
      BY <2>2, <2>7 DEF Disagree
    <3>4. \A d \in given : Enables(d) = Enables(c)
      BY <2>2, <2>7 DEF Disagree
    <3> DEFINE values == [seen.values EXCEPT ![c.kind] = {c.control.value}]
    <3>5. values = [k \in Kinds |-> values[k]]
      BY DEF Seen
    <3>6. ASSUME NEW k \in Kinds
          PROVE  values[k] = {d.control.value : d \in {e \in given \cup {c} : e.kind = k}}
      <4>1. CASE k = c.kind
        <5>1. values[k] = {c.control.value}
          BY <4>1 DEF Seen
        <5> HIDE DEF values
        <5> QED
          BY <3>3, <4>1, <5>1
      <4>2. CASE k # c.kind
        <5>1. values[k] = seen.values[k]
          BY <4>2 DEF Seen
        <5> HIDE DEF values
        <5> QED
          BY <2>1, <4>2, <5>1
      <4> QED
        BY <4>1, <4>2
    <3>7. {Enables(c)} = {Enables(d) : d \in given \cup {c}}
      BY <3>4
    <3> HIDE DEF values, after
    <3>8. /\ after.found = FALSE /\ after.values = values /\ after.decision = {Enables(c)}
          /\ after = [found |-> after.found, values |-> after.values,
                      decision |-> after.decision]
      BY <3>2 DEF values
    <3>9. ~Disagreement(given \cup {c})
      BY <2>2, <2>5, <2>7
    <3>10. Disagreement(given \cup {c}) = FALSE
      BY <3>9 DEF Disagreement
    <3>11. Seen(after, given \cup {c})
      BY <3>5, <3>6, <3>7, <3>8, <3>10 DEF Seen
    <3> QED
      BY <1>3, <3>11 DEF after
  <2> QED
    BY <2>6, <2>7
<1> QED
  BY <1>1, <1>2, <1>3

\* The diagnostics say "conflicting" exactly when two controls of the client
\* disagree.
LEMMA ConflictFound ==
    ASSUME NEW controls0 \in Seq(Controls)
    PROVE  reasoningControlsConflict(controls0) =
             Disagreement({controls0[i] : i \in
                {j \in DOMAIN controls0 : controls0[j].control.source = "client"}})
<1> DEFINE N == Len(controls0)
           given(n) == {controls0[i] : i \in
                          {j \in 1..n : controls0[j].control.source = "client"}}
<1>1. PICK u : reasoningControlsConflictTurns(u, controls0)
  BY reasoningControlsConflictLoop
<1> DEFINE P == {n \in 0..N : Seen(u[n], given(n))}
<1>2. N \in Nat /\ DOMAIN controls0 = 1..N /\ \A i \in 1..N : controls0[i] \in Controls
  OBVIOUS
<1>3. 0 \in P
  <2>1. given(0) = {}
    OBVIOUS
  <2>2. u[0] = NothingSeen
    BY <1>1 DEF reasoningControlsConflictTurns
  <2> HIDE DEF given
  <2>3. Seen(u[0], given(0))
    BY <2>1, <2>2 DEF Seen, NothingSeen, Disagreement
  <2> QED
    BY <1>2, <2>3
<1>4. ASSUME NEW n \in 0..(N - 1), n \in P
      PROVE  n + 1 \in P
  <2>1. n + 1 \in 1..N /\ n + 1 \in 0..N /\ (n + 1) - 1 = n
    BY <1>2
  <2>2. u[n + 1] = observeConflict(u[n], controls0[n + 1])
    BY <1>1, <2>1 DEF reasoningControlsConflictTurns
  <2>3. \A i : i \in 1..(n + 1) <=> i \in 1..n \/ i = n + 1
    BY <2>1
  <2>4. given(n + 1) = IF controls0[n + 1].control.source = "client"
                       THEN given(n) \cup {controls0[n + 1]} ELSE given(n)
    BY <2>3
  <2>5. given(n) \in SUBSET Controls /\ controls0[n + 1] \in Controls
    BY <1>2, <2>1
  <2>6. Seen(u[n], given(n))
    BY <1>4
  <2> HIDE DEF given
  <2>7. Seen(u[n + 1], given(n + 1))
    BY <2>2, <2>4, <2>5, <2>6, SeenTurn
  <2> QED
    BY <2>1, <2>7
<1> HIDE DEF P, N, given
<1>5. \A n \in 0..N : n \in P
  BY <1>2, <1>3, <1>4, Positions
<1>6. N \in P
  BY <1>2, <1>5
<1>7. u[N].found = Disagreement(given(N))
  BY <1>6 DEF P, Seen
<1>8. u[N].found = reasoningControlsConflict(controls0)
  BY <1>1 DEF reasoningControlsConflictTurns, N
<1> QED
  BY <1>2, <1>7, <1>8 DEF given

\* What the selections that were looked at leave behind.
StartsThinking(model) == /\ model.reasoningDefault \notin {"off", "none"}
                         /\ model.reasoningControl # "none"
Selected(s, model, asked) ==
    /\ s = [ok |-> s.ok, selected |-> s.selected, effort |-> s.effort,
            thinking |-> s.thinking]
    /\ s.ok \in BOOLEAN /\ s.selected \in BOOLEAN /\ s.thinking \in BOOLEAN
    /\ s.ok => /\ asked \subseteq {s.thinking}
               /\ s.selected = (asked # {})
               /\ asked = {} => s.thinking = StartsThinking(model)
               /\ s.thinking \/ model.reasoningOff \/ asked = {}

\* Accepting a selection changes the mode, refusing it the result.
LEMMA SelectionFields ==
    ASSUME NEW s, NEW v, NEW o, NEW c, NEW e, NEW t,
           s = [ok |-> o, selected |-> c, effort |-> e, thinking |-> t]
    PROVE  /\ [s EXCEPT !.ok = v] = [ok |-> v, selected |-> s.selected,
                                    effort |-> s.effort, thinking |-> s.thinking]
           /\ [s EXCEPT !.effort = v] = [ok |-> s.ok, selected |-> s.selected,
                                        effort |-> v, thinking |-> s.thinking]
  OBVIOUS

\* What was refused stays refused.
LEMMA RefusedSelected ==
    ASSUME NEW s, NEW model, NEW asked, NEW more, Selected(s, model, asked)
    PROVE  Selected(Refused(s), model, more) /\ ~Refused(s).ok
<1>0. PICK o, c, e, t : s = [ok |-> o, selected |-> c, effort |-> e, thinking |-> t]
  BY Zenon DEF Selected
<1>1. Refused(s) = [ok |-> FALSE, selected |-> s.selected, effort |-> s.effort,
                    thinking |-> s.thinking]
  <2>1. PICK v : v = FALSE
    OBVIOUS
  <2>2. [s EXCEPT !.ok = v] = [ok |-> v, selected |-> s.selected,
                               effort |-> s.effort, thinking |-> s.thinking]
    BY <1>0, SelectionFields
  <2>3. Refused(s) = [s EXCEPT !.ok = v]
    BY <2>1, Zenon DEF Refused
  <2> QED
    BY <2>1, <2>2, <2>3, Zenon
<1> QED
  BY <1>1 DEF Selected

\* selectMode takes a selection that agrees with those before it.
LEMMA ModeSelected ==
    ASSUME NEW s, NEW model, NEW asked \in SUBSET BOOLEAN, NEW enabled \in BOOLEAN,
           Selected(s, model, asked), s.ok
    PROVE  Selected(selectMode(s, model, enabled), model, asked \cup {enabled})
<1>1. CASE \/ ~enabled /\ ~model.reasoningOff
           \/ s.selected /\ s.thinking # enabled
  BY <1>1, RefusedSelected DEF selectMode
<1>2. CASE ~(\/ ~enabled /\ ~model.reasoningOff
             \/ s.selected /\ s.thinking # enabled)
  <2>1. selectMode(s, model, enabled) =
          [ok |-> TRUE, selected |-> TRUE, effort |-> s.effort, thinking |-> enabled]
    BY <1>2 DEF selectMode, Selected
  <2>2. asked \subseteq {enabled}
    BY <1>2 DEF Selected
  <2>3. enabled \/ model.reasoningOff
    BY <1>2
  <2> DEFINE t == selectMode(s, model, enabled)
             more == asked \cup {enabled}
  <2>4. /\ t.ok = TRUE /\ t.selected = TRUE /\ t.thinking = enabled
        /\ t = [ok |-> t.ok, selected |-> t.selected, effort |-> t.effort,
                thinking |-> t.thinking]
    <3> HIDE DEF t
    <3> QED
      BY <2>1 DEF t
  <2> HIDE DEF t
  <2>5. more \subseteq {enabled} /\ more # {} /\ (more # {}) = TRUE
    BY <2>2
  <2> HIDE DEF more
  <2>6. Selected(t, model, more)
    <3>1. t.ok \in BOOLEAN /\ t.selected \in BOOLEAN /\ t.thinking \in BOOLEAN
      BY <2>4
    <3>2. more \subseteq {t.thinking} /\ t.selected = (more # {})
      BY <2>4, <2>5
    <3>3. t.thinking \/ model.reasoningOff
      BY <2>3, <2>4
    <3> QED
      BY <2>4, <2>5, <3>1, <3>2, <3>3 DEF Selected
  <2> QED
    BY <2>6 DEF t, more
<1> QED
  BY <1>1, <1>2

\* selectBool: enable_thinking as a selection.
LEMMA BoolSelected ==
    ASSUME NEW s, NEW model, NEW asked \in SUBSET BOOLEAN, NEW raw,
           Selected(s, model, asked), s.ok
    PROVE  Selected(selectBool(s, model, raw), model,
                    asked \cup IF raw = "absent" THEN {} ELSE {raw = "true"})
<1>1. CASE raw = "absent"
  BY <1>1 DEF selectBool
<1>2. CASE raw \in {"true", "false"}
  <2>1. selectBool(s, model, raw) = selectMode(s, model, raw = "true") /\ raw # "absent"
    BY <1>2 DEF selectBool
  <2> DEFINE enabled == raw = "true"
  <2>2. enabled \in BOOLEAN
    OBVIOUS
  <2> HIDE DEF enabled
  <2>3. Selected(selectMode(s, model, enabled), model, asked \cup {enabled})
    BY <2>2, ModeSelected
  <2> QED
    BY <2>1, <2>3 DEF enabled
<1>3. CASE raw \notin {"absent", "true", "false"}
  <2>1. selectBool(s, model, raw) = Refused(s)
    BY <1>3 DEF selectBool
  <2> QED
    BY <2>1, RefusedSelected
<1> QED
  BY <1>1, <1>2, <1>3

\* selectEffort: an effort as a selection.
LEMMA EffortSelected ==
    ASSUME NEW s, NEW model, NEW asked \in SUBSET BOOLEAN, NEW raw, NEW topLevel \in BOOLEAN,
           Selected(s, model, asked), s.ok
    PROVE  Selected(selectEffort(s, model, raw, topLevel), model,
                    asked \cup IF raw = "absent" THEN {}
                               ELSE {~ (topLevel /\ raw = "none")})
<1>1. CASE raw = "absent"
  BY <1>1 DEF selectEffort
<1>2. CASE topLevel /\ raw = "none"
  <2>1. selectEffort(s, model, raw, topLevel) = selectMode(s, model, FALSE)
    BY <1>2 DEF selectEffort
  <2>2. Selected(selectMode(s, model, FALSE), model, asked \cup {FALSE})
    BY ModeSelected
  <2>3. raw # "absent" /\ {~ (topLevel /\ raw = "none")} = {FALSE}
    BY <1>2
  <2> QED
    BY <2>1, <2>2, <2>3
<1>3. CASE raw # "absent" /\ ~ (topLevel /\ raw = "none")
  <2> DEFINE refuses == \/ raw \notin Levels(model)
                        \/ /\ s.effort \notin {"absent", raw}
                           /\ model.reasoningControl # "toggle"
             chosen == [s EXCEPT !.effort = raw]
  <2>1. selectEffort(s, model, raw, topLevel) =
          IF refuses THEN Refused(s) ELSE selectMode(chosen, model, TRUE)
    BY <1>3 DEF selectEffort
  <2>2. chosen = [ok |-> s.ok, selected |-> s.selected, effort |-> raw,
                  thinking |-> s.thinking]
    <3>1. PICK o, c, e, t : s = [ok |-> o, selected |-> c, effort |-> e, thinking |-> t]
      BY Zenon DEF Selected
    <3> QED
      BY <3>1, SelectionFields
  <2>3. Selected(chosen, model, asked) /\ chosen.ok
    <3> HIDE DEF chosen
    <3> QED
      BY <2>2 DEF Selected
  <2>4. Selected(selectMode(chosen, model, TRUE), model, asked \cup {TRUE})
    <3> HIDE DEF chosen
    <3> QED
      BY <2>3, ModeSelected
  <2>5. Selected(Refused(s), model, asked \cup {TRUE})
    BY RefusedSelected
  <2> QED
    <3> HIDE DEF chosen, refuses
    <3> QED
      BY <1>3, <2>1, <2>4, <2>5
<1> QED
  BY <1>1, <1>2, <1>3

\* A mode that was accepted is the one that every selection asked for.
LEMMA ModeAgrees ==
    ASSUME NEW q, NEW model, requestThinking(q, model).ok
    PROVE  /\ Selected(requestThinking(q, model), model, Selections(q))
           /\ q.kwargs.shape = "object" => ~q.kwargs.twice
<1> DEFINE start == [ok |-> TRUE, selected |-> FALSE, effort |-> "absent",
                     thinking |-> /\ model.reasoningDefault \notin {"off", "none"}
                                  /\ model.reasoningControl # "none"]
           top == selectEffort(start, model, q.effort, TRUE)
           toggled == selectBool(top, model, q.kwargs.thinking)
           nested == selectEffort(toggled, model, q.kwargs.effort, FALSE)
           ofEffort == IF q.effort = "absent" THEN {} ELSE {q.effort # "none"}
           ofThinking == IF q.kwargs.thinking = "absent" THEN {}
                         ELSE {q.kwargs.thinking = "true"}
           ofNested == IF q.kwargs.effort = "absent" THEN {} ELSE {TRUE}
<1>1. requestThinking(q, model) =
        IF ~top.ok \/ q.kwargs.shape = "absent" THEN top
        ELSE IF ~policyObject(q.kwargs) THEN Refused(top)
        ELSE IF ~toggled.ok THEN toggled ELSE nested
  BY DEF requestThinking
<1>2. ofEffort \subseteq BOOLEAN /\ ofThinking \subseteq BOOLEAN
  OBVIOUS
<1>3. Selected(start, model, {}) /\ start.ok
  BY DEF Selected, StartsThinking
<1>4. Selected(top, model, ofEffort)
  <2>1. ofEffort = {} \cup IF q.effort = "absent" THEN {}
                           ELSE {~ (TRUE /\ q.effort = "none")}
    OBVIOUS
  <2>2. Selected(top, model, {} \cup IF q.effort = "absent" THEN {}
                                     ELSE {~ (TRUE /\ q.effort = "none")})
    <3> HIDE DEF start
    <3> QED
      BY <1>3, EffortSelected
  <2> QED
    BY <2>1, <2>2
<1> HIDE DEF top
<1>5. top.ok => Selected(toggled, model, ofEffort \cup ofThinking)
  <2> HIDE DEF ofEffort
  <2> QED
    BY <1>2, <1>4, BoolSelected
<1> HIDE DEF toggled
<1>6. top.ok /\ toggled.ok => Selected(nested, model, ofEffort \cup ofThinking \cup ofNested)
  <2>1. ofNested = IF q.kwargs.effort = "absent" THEN {}
                   ELSE {~ (FALSE /\ q.kwargs.effort = "none")}
    OBVIOUS
  <2>2. ofEffort \cup ofThinking \subseteq BOOLEAN
    BY <1>2
  <2> HIDE DEF ofEffort, ofThinking, ofNested
  <2> QED
    BY <1>5, <2>1, <2>2, EffortSelected
<1> HIDE DEF nested
<1>7. ~Refused(top).ok
  BY <1>4, RefusedSelected
<1>8. CASE q.kwargs.shape = "absent"
  <2>1. Selections(q) = ofEffort
    BY <1>8 DEF Selections
  <2>2. requestThinking(q, model) = top
    BY <1>1, <1>8
  <2> QED
    BY <1>4, <1>8, <2>1, <2>2
<1>9. CASE q.kwargs.shape # "absent"
  <2>1. /\ top.ok /\ policyObject(q.kwargs) /\ toggled.ok
        /\ requestThinking(q, model) = nested
    BY <1>1, <1>7, <1>9
  <2>2. q.kwargs.shape = "object" /\ ~q.kwargs.twice
    BY <2>1 DEF policyObject
  <2>3. Selections(q) = ofEffort \cup ofThinking \cup ofNested
    BY <2>2 DEF Selections
  <2> QED
    BY <1>6, <2>1, <2>2, <2>3
<1> QED
  BY <1>8, <1>9

\* A request that requestThinking accepts asks for one mode.
LEMMA PolicyUnambiguous == ForwardingSound => ModeUnambiguous
<1> SUFFICES ASSUME ForwardingSound, stage = "forwarding", forwarded.mode # "none"
             PROVE  LET model == Catalog[query.model]
                        asked == Selections(query)
                        thinking == forwarded.mode = "thinking"
                    IN  /\ ~query.twice
                        /\ query.kwargs.shape = "object" => ~query.kwargs.twice
                        /\ asked \subseteq {thinking}
                        /\ asked = {} => thinking = StartsThinking(model)
                        /\ thinking \/ model.reasoningOff \/ asked = {}
  BY DEF ModeUnambiguous, StartsThinking
<1> DEFINE model == Catalog[query.model]
           mode == requestThinking(query, model)
           asked == Selections(query)
           policy == applySamplingDefaults(query, model, controls.sampling)
<1>1. forwarded = policy /\ forwarded.ok
  BY DEF ForwardingSound
<1>2. /\ model.hasPolicy /\ policyObject(query) /\ mode.ok
      /\ forwarded.mode = IF mode.thinking THEN "thinking" ELSE "non_thinking"
  <2> HIDE DEF model
  <2> QED
    BY <1>1 DEF applySamplingDefaults
<1>3. ~query.twice
  BY <1>2 DEF policyObject
<1> HIDE DEF model
<1>4. /\ Selected(mode, model, asked)
      /\ query.kwargs.shape = "object" => ~query.kwargs.twice
  BY <1>2, ModeAgrees
<1> HIDE DEF mode, asked
<1>5. mode.thinking \in BOOLEAN /\ (forwarded.mode = "thinking") = mode.thinking
  BY <1>2, <1>4 DEF Selected
<1>6. /\ asked \subseteq {mode.thinking}
      /\ asked = {} => mode.thinking = StartsThinking(model)
      /\ mode.thinking \/ model.reasoningOff \/ asked = {}
  BY <1>2, <1>4 DEF Selected
<1>7. /\ asked \subseteq {forwarded.mode = "thinking"}
      /\ asked = {} => (forwarded.mode = "thinking") = StartsThinking(model)
      /\ (forwarded.mode = "thinking") \/ model.reasoningOff \/ asked = {}
  BY <1>5, <1>6
<1> QED
  BY <1>3, <1>4, <1>7 DEF asked, model

\* A sampler is reported as it is forwarded.
LEMMA SamplersTruthful ==
    ASSUME ForwardingSound, stage = "forwarding", NEW s \in Samplers
    PROVE  LET c == forwarded.sampling[s]
               raw == query.sampling[s]
           IN  /\ c.provided = (raw # "absent")
               /\ c.source \in {"client", "gateway-default"} =>
                    c.value = forwarded.forwarded[s]
               /\ raw \notin Missing => forwarded.forwarded[s] = raw
               /\ (c.source = "gateway-default") =
                    (forwarded.mode # "none" /\ raw \in Missing
                       /\ s \in Catalog[query.model].policy[forwarded.mode])
<1> DEFINE model == Catalog[query.model]
           mode == requestThinking(query, model)
           name == IF mode.thinking THEN "thinking" ELSE "non_thinking"
           fills == Fills(query, model.policy[name])
           raw == query.sampling[s]
           seen == observeValue(raw, {"zero", "number"})
           policy == applySamplingDefaults(query, model, controls.sampling)
           c == forwarded.sampling[s]
<1>1. forwarded = policy /\ forwarded.ok /\ controls.sampling[s] = seen
  BY DEF ForwardingSound, inspectRequest
<1>2. PICK source, provided, value :
        /\ seen = [source |-> source, provided |-> provided, value |-> value]
        /\ source \in {"managed-or-backend-default", "client", "invalid"}
        /\ provided = (raw # "absent")
        /\ source = "client" => value = raw
  <2>1. CASE raw \in Missing
    <3>1. seen = [source |-> "managed-or-backend-default", provided |-> raw = "null",
                  value |-> "absent"]
      BY <2>1 DEF observeValue, ControlDefault, Control
    <3>2. (raw = "null") = (raw # "absent")
      BY <2>1 DEF Missing
    <3>3. "managed-or-backend-default" # "client"
      OBVIOUS
    <3> HIDE DEF raw, seen
    <3> QED
      BY <3>1, <3>2, <3>3, Zenon
  <2>2. CASE raw \notin Missing
    <3>1. raw # "absent" /\ (raw # "absent") = TRUE
      BY <2>2 DEF Missing
    <3>2. seen = IF raw \in {"zero", "number"}
                 THEN [source |-> "client", provided |-> TRUE, value |-> raw]
                 ELSE [source |-> "invalid", provided |-> TRUE, value |-> "absent"]
      BY <2>2 DEF observeValue, Control, ControlInvalid
    <3>3. "invalid" # "client"
      OBVIOUS
    <3> HIDE DEF raw, seen
    <3>4. CASE raw \in {"zero", "number"}
      BY <3>1, <3>2, <3>4, Zenon
    <3>5. CASE raw \notin {"zero", "number"}
      BY <3>1, <3>2, <3>3, <3>5, Zenon
    <3> QED
      BY <3>4, <3>5
  <2> QED
    BY <2>1, <2>2
<1> HIDE DEF seen
<1>3. CASE forwarded.mode = "none"
  <2>1. ~model.hasPolicy
    BY <1>1, <1>3 DEF applySamplingDefaults
  <2>2. forwarded.forwarded = query.sampling /\ forwarded.sampling = controls.sampling
    BY <1>1, <2>1 DEF applySamplingDefaults
  <2>3. c = seen /\ forwarded.forwarded[s] = raw
    BY <1>1, <2>2
  <2> HIDE DEF c, raw, policy
  <2>4. c.source # "gateway-default" /\ c.provided = (raw # "absent")
        /\ (c.source = "client" => c.value = raw)
    BY <1>2, <2>3
  <2> QED
    BY <1>3, <2>3, <2>4 DEF c, raw
<1>4. CASE forwarded.mode # "none"
  <2>1. model.hasPolicy /\ policyObject(query) /\ mode.ok
    BY <1>1, <1>4 DEF applySamplingDefaults
  <2>2. /\ forwarded.mode = name
        /\ forwarded.forwarded = [t \in Samplers |->
                                    IF t \in fills THEN name ELSE query.sampling[t]]
        /\ forwarded.sampling = [t \in Samplers |->
             IF t \in fills
             THEN [controls.sampling[t] EXCEPT !.source = "gateway-default",
                                               !.value = name]
             ELSE controls.sampling[t]]
    BY <1>1, <2>1 DEF applySamplingDefaults
  <2>3. s \in fills <=> s \in model.policy[name] /\ raw \in Missing
    BY DEF Fills
  <2> HIDE DEF name, fills, policy, model
  <2>4. CASE s \in fills
    <3>1. forwarded.forwarded[s] = name
          /\ c = [seen EXCEPT !.source = "gateway-default", !.value = name]
      BY <1>1, <2>2, <2>4
    <3>2. c = [source |-> "gateway-default", provided |-> provided, value |-> name]
      BY <1>2, <3>1
    <3> HIDE DEF c, raw
    <3>3. c.source = "gateway-default" /\ c.provided = (raw # "absent") /\ c.value = name
      BY <1>2, <3>2
    <3> QED
      BY <1>4, <2>2, <2>3, <2>4, <3>1, <3>3 DEF c, raw, model
  <2>5. CASE s \notin fills
    <3>1. forwarded.forwarded[s] = raw
      BY <2>2, <2>5
    <3>2. c = controls.sampling[s]
      BY <2>2, <2>5
    <3>3. c = seen
      BY <1>1, <3>2
    <3> HIDE DEF c, raw
    <3>4. c.source # "gateway-default" /\ c.provided = (raw # "absent")
          /\ (c.source = "client" => c.value = raw)
      BY <1>2, <3>3
    <3> QED
      BY <1>4, <2>2, <2>3, <2>5, <3>1, <3>4 DEF c, raw, model
  <2> QED
    BY <2>4, <2>5
<1> QED
  BY <1>3, <1>4

LEMMA PolicyNow == ForwardingSound => PolicyExact
<1> SUFFICES ASSUME ForwardingSound
             PROVE  ControlsTruthful
  BY PolicyUnambiguous DEF PolicyExact
<1> SUFFICES ASSUME stage = "forwarding"
             PROVE  ControlsTruthful
  BY DEF ControlsTruthful
<1> DEFINE given == {controls.reasoning[i] : i \in
                       {j \in DOMAIN controls.reasoning :
                          controls.reasoning[j].control.source = "client"}}
<1>1. controls.reasoning = reasoningControls(query)
      /\ controls.conflict = reasoningControlsConflict(reasoningControls(query))
  BY DEF ForwardingSound, inspectRequest
<1>2. controls.conflict = Disagreement(given)
  <2>1. reasoningControls(query) \in Seq(Controls)
    BY ControlsListed
  <2> QED
    BY <1>1, <2>1, ConflictFound
<1> HIDE DEF given
<1>3. controls.conflict = \E c, d \in given :
        \/ c.kind = d.kind /\ c.control.value # d.control.value
        \/ Enables(c) # Enables(d)
  BY <1>2 DEF Disagreement, Disagree
<1> QED
  BY <1>3, SamplersTruthful DEF ControlsTruthful, given

-----------------------------------------------------------------------------
(* The choices of a response.                                              *)

ChoiceStates == [seen: BOOLEAN, reason: Reasons \cup {"none", "other"}, conflict: BOOLEAN]
Observers ==
    [stream: BOOLEAN, json: Seq(ResponseBytes), jsonOversized: BOOLEAN,
     line: Seq(ResponseBytes), event: Seq(ResponseBytes), eventOversize: BOOLEAN,
     tokens: [Tokens -> Counts], timings: [Timings -> Counts], cacheFromUsage: BOOLEAN,
     firstOutput: BOOLEAN, choices: [Indices -> ChoiceStates],
     partial: BOOLEAN, streamDone: BOOLEAN]

\* Two observers that differ in nothing but the collected choices.
SameBytes(o, r) ==
    /\ r.stream = o.stream /\ r.json = o.json /\ r.jsonOversized = o.jsonOversized
    /\ r.line = o.line /\ r.event = o.event /\ r.eventOversize = o.eventOversize
SameNumbers(o, r) ==
    /\ r.tokens = o.tokens /\ r.timings = o.timings
    /\ r.cacheFromUsage = o.cacheFromUsage
SameRest(o, r) ==
    /\ SameBytes(o, r) /\ SameNumbers(o, r)
    /\ r.firstOutput = o.firstOutput /\ r.streamDone = o.streamDone

\* markPartial changes nothing else.
LEMMA PartialMarked ==
    ASSUME NEW o \in Observers
    PROVE  /\ markPartial(o) \in Observers /\ SameRest(o, markPartial(o))
           /\ markPartial(o).choices = o.choices /\ markPartial(o).partial = TRUE
  BY DEF markPartial, Observers, SameRest, SameBytes, SameNumbers

\* What one choice changes: the state of its index, and "partial".
Told(c) == c.reason \notin {"null", "bad"}
Clash(was, c) == Told(c) /\ ~was.conflict /\ was.reason \notin {"none", Closed(c.reason)}
NewReason(was, c) == IF ~Told(c) \/ was.conflict THEN was.reason
                     ELSE IF Clash(was, c) THEN "none" ELSE Closed(c.reason)
Changed(o, r, c) ==
    LET was == o.choices[c.index]
    IN  /\ r \in Observers /\ SameRest(o, r)
        /\ \A i \in Indices : i # c.index => r.choices[i] = o.choices[i]
        /\ r.choices[c.index].seen = TRUE
        /\ r.choices[c.index].reason = NewReason(was, c)
        /\ r.choices[c.index].conflict = (was.conflict \/ Clash(was, c))
        /\ r.partial = (o.partial \/ c.reason \notin Reasons \cup {"null"} \/ Clash(was, c))

LEMMA UniqueKeys ==
    ASSUME NEW c \in ChoiceObjects
    PROVE  uniqueCompletionKeys(c.keys, {"index", "finish_reason"}) = Unique(c)
  BY DEF uniqueCompletionKeys, Unique, ChoiceObjects

\* A choice with ambiguous keys or an unknown index is of no index.
LEMMA ChoiceUnknown ==
    ASSUME NEW o \in Observers, NEW c \in ChoiceObjects,
           ~Unique(c) \/ c.index \notin Indices
    PROVE  observeChoice(o, c) = markPartial(o)
  BY UniqueKeys DEF observeChoice, Indices

\* An observer with another state of one index.
LEMMA ChoiceReplaced ==
    ASSUME NEW o \in Observers, NEW i \in Indices, NEW w \in ChoiceStates
    PROVE  LET r == [o EXCEPT !.choices[i] = w]
           IN  /\ r \in Observers /\ SameRest(o, r) /\ r.partial = o.partial
               /\ r.choices[i] = w
               /\ \A j \in Indices : j # i => r.choices[j] = o.choices[j]
<1> DEFINE next == [o.choices EXCEPT ![i] = w]
           r == [o EXCEPT !.choices = next]
<1>1. r = [o EXCEPT !.choices[i] = w]
  BY Zenon
<1>2. /\ next \in [Indices -> ChoiceStates] /\ next[i] = w
      /\ \A j \in Indices : j # i => next[j] = o.choices[j]
  BY DEF Observers
<1> HIDE DEF next
<1>3. /\ r \in Observers /\ SameRest(o, r) /\ r.partial = o.partial
      /\ r.choices = next
  BY <1>2 DEF Observers, SameRest, SameBytes, SameNumbers
<1> HIDE DEF r
<1>4. /\ r \in Observers /\ SameRest(o, r) /\ r.partial = o.partial
      /\ r.choices[i] = w
      /\ \A j \in Indices : j # i => r.choices[j] = o.choices[j]
  BY <1>2, <1>3
<1> QED
  BY <1>1, <1>4

\* observeReason changes the reason of its choice as Changed says.
LEMMA ReasonKept ==
    ASSUME NEW o \in Observers, NEW c \in ChoiceObjects, Told(c), c.index \in Indices,
           o.choices[c.index].seen = TRUE
    PROVE  Changed(o, observeReason(o, c.index, c.reason), c)
<1> DEFINE r == observeReason(o, c.index, c.reason)
           was == o.choices[c.index]
           known == IF c.reason \in Reasons THEN o ELSE markPartial(o)
<1>1. /\ o.choices \in [Indices -> ChoiceStates] /\ was \in ChoiceStates
      /\ was.conflict \in BOOLEAN /\ o.partial \in BOOLEAN
  BY DEF Observers, ChoiceStates
<1>2. /\ known \in Observers /\ SameRest(o, known) /\ known.choices = o.choices
      /\ known.partial = (o.partial \/ c.reason \notin Reasons)
  <2>1. CASE c.reason \in Reasons
    BY <1>1, <2>1 DEF SameRest, SameBytes, SameNumbers
  <2>2. CASE c.reason \notin Reasons
    BY <2>2, PartialMarked
  <2> QED
    BY <2>1, <2>2
<1>3. Closed(c.reason) \in Reasons \cup {"other"} /\ Closed(c.reason) # "none"
  BY DEF Closed, Reasons
<1>4. /\ (c.reason \notin Reasons \cup {"null"}) = (c.reason \notin Reasons)
      /\ SameRest(o, known)
  BY <1>2 DEF Told
<1> HIDE DEF known
<1>5. CASE was.conflict
  <2>1. r = known
    BY <1>5 DEF observeReason, known
  <2>2. ~Clash(was, c) /\ NewReason(was, c) = was.reason
    BY <1>5 DEF Clash, NewReason
  <2>3. was.conflict = TRUE
    BY <1>1, <1>5
  <2> HIDE DEF r
  <2> QED
    BY <1>2, <1>4, <2>1, <2>2, <2>3 DEF r, Changed
<1>6. CASE ~was.conflict /\ was.reason \notin {"none", Closed(c.reason)}
  <2> DEFINE w == [was EXCEPT !.reason = "none", !.conflict = TRUE]
             k == [known EXCEPT !.choices[c.index] = w]
  <2>1. Clash(was, c)
    BY <1>6 DEF Clash
  <2>2. NewReason(was, c) = "none"
    BY <1>6, <2>1 DEF NewReason
  <2>3. w \in ChoiceStates /\ w.seen = TRUE /\ w.reason = "none" /\ w.conflict = TRUE
    BY <1>1 DEF ChoiceStates
  <2>4. r = markPartial(k)
    <3>1. r = markPartial([known EXCEPT !.choices[c.index] =
                             [@ EXCEPT !.reason = "none", !.conflict = TRUE]])
      BY <1>6 DEF observeReason, known
    <3>2. known.choices[c.index] = was
      BY <1>2
    <3>3. [known EXCEPT !.choices[c.index] =
             [@ EXCEPT !.reason = "none", !.conflict = TRUE]]
            = [known EXCEPT !.choices[c.index] =
                [known.choices[c.index] EXCEPT !.reason = "none", !.conflict = TRUE]]
      BY Zenon
    <3> QED
      BY <3>1, <3>2, <3>3, Zenon
  <2> HIDE DEF w
  <2>5. /\ k \in Observers /\ SameRest(known, k) /\ k.choices[c.index] = w
        /\ \A j \in Indices : j # c.index => k.choices[j] = known.choices[j]
    BY <1>2, <2>3, ChoiceReplaced
  <2> HIDE DEF k, r
  <2>6. r \in Observers /\ SameRest(k, r) /\ r.choices = k.choices /\ r.partial = TRUE
    BY <2>4, <2>5, PartialMarked
  <2>7. SameRest(o, r)
    BY <1>2, <2>5, <2>6 DEF SameRest, SameBytes, SameNumbers
  <2>8. r.choices[c.index] = w /\ \A j \in Indices : j # c.index => r.choices[j] = o.choices[j]
    BY <1>2, <2>5, <2>6
  <2> HIDE DEF was
  <2> QED
    BY <2>1, <2>2, <2>3, <2>6, <2>7, <2>8 DEF r, was, Changed
<1>7. CASE ~was.conflict /\ was.reason \in {"none", Closed(c.reason)}
  <2> DEFINE w == [was EXCEPT !.reason = Closed(c.reason)]
             k == [known EXCEPT !.choices[c.index] = w]
  <2>1. ~Clash(was, c)
    BY <1>7 DEF Clash
  <2>2. NewReason(was, c) = Closed(c.reason)
    BY <1>7, <2>1 DEF NewReason
  <2>3. /\ w \in ChoiceStates /\ w.seen = TRUE /\ w.reason = Closed(c.reason)
        /\ w.conflict = FALSE
    BY <1>1, <1>3, <1>7 DEF ChoiceStates
  <2>4. r = k
    <3>1. r = [known EXCEPT !.choices[c.index] = [@ EXCEPT !.reason = Closed(c.reason)]]
      BY <1>7 DEF observeReason, known
    <3>2. known.choices[c.index] = was
      BY <1>2
    <3>3. [known EXCEPT !.choices[c.index] = [@ EXCEPT !.reason = Closed(c.reason)]]
            = [known EXCEPT !.choices[c.index] =
                [known.choices[c.index] EXCEPT !.reason = Closed(c.reason)]]
      BY Zenon
    <3> QED
      BY <3>1, <3>2, <3>3, Zenon
  <2> HIDE DEF w
  <2>5. /\ k \in Observers /\ SameRest(known, k) /\ k.choices[c.index] = w
        /\ k.partial = known.partial
        /\ \A j \in Indices : j # c.index => k.choices[j] = known.choices[j]
    BY <1>2, <2>3, ChoiceReplaced
  <2> HIDE DEF k, r
  <2>6. SameRest(o, r)
    BY <1>2, <2>4, <2>5 DEF SameRest, SameBytes, SameNumbers
  <2>7. /\ r.choices[c.index] = w
        /\ \A j \in Indices : j # c.index => r.choices[j] = o.choices[j]
    BY <1>2, <2>4, <2>5
  <2>8. (was.conflict \/ Clash(was, c)) = FALSE
    BY <1>7, <2>1
  <2>9. r.partial = (o.partial \/ c.reason \notin Reasons \cup {"null"} \/ Clash(was, c))
    <3>1. r.partial = (o.partial \/ c.reason \notin Reasons)
      BY <1>2, <2>4, <2>5
    <3> QED
      BY <1>4, <2>1, <3>1
  <2> HIDE DEF was
  <2> QED
    BY <2>2, <2>3, <2>4, <2>5, <2>6, <2>7, <2>8, <2>9 DEF r, was, Changed
<1> QED
  BY <1>5, <1>6, <1>7

\* observeChoice changes the choice of its index as Changed says.
LEMMA ChoiceKept ==
    ASSUME NEW o \in Observers, NEW c \in ChoiceObjects, Unique(c), c.index \in Indices
    PROVE  Changed(o, observeChoice(o, c), c)
<1> DEFINE r == observeChoice(o, c)
           was == o.choices[c.index]
           w == [was EXCEPT !.seen = TRUE]
           seen == [o EXCEPT !.choices[c.index] = w]
<1>1. /\ was \in ChoiceStates /\ was.conflict \in BOOLEAN /\ o.partial \in BOOLEAN
  BY DEF Observers, ChoiceStates
<1>2. /\ w \in ChoiceStates /\ w.seen = TRUE /\ w.reason = was.reason
      /\ w.conflict = was.conflict
  BY <1>1 DEF ChoiceStates
<1>3. r = CASE c.reason = "null" -> seen
            [] c.reason = "bad" -> markPartial(seen)
            [] OTHER -> observeReason(seen, c.index, c.reason)
  <2>1. seen = [o EXCEPT !.choices[c.index] = [@ EXCEPT !.seen = TRUE]]
    BY Zenon
  <2>2. ~ (\/ ~uniqueCompletionKeys(c.keys, {"index", "finish_reason"})
           \/ c.index \notin 0..(MaxChoices - 1))
    BY UniqueKeys DEF Indices
  <2> HIDE DEF seen
  <2> QED
    BY <2>1, <2>2, Zenon DEF observeChoice
<1> HIDE DEF w
<1>4. /\ seen \in Observers /\ SameRest(o, seen) /\ seen.partial = o.partial
      /\ seen.choices[c.index] = w
      /\ \A j \in Indices : j # c.index => seen.choices[j] = o.choices[j]
  BY <1>2, ChoiceReplaced
<1> HIDE DEF seen, r
<1>5. CASE c.reason \in {"null", "bad"}
  <2>1. ~Told(c) /\ ~Clash(was, c) /\ NewReason(was, c) = was.reason
    BY <1>5 DEF Told, Clash, NewReason
  <2>2. (was.conflict \/ Clash(was, c)) = was.conflict
    BY <1>1, <2>1
  <2>3. CASE c.reason = "null"
    <3>1. r = seen
      BY <1>3, <2>3
    <3>2. r.partial = (o.partial \/ c.reason \notin Reasons \cup {"null"} \/ Clash(was, c))
      BY <1>1, <1>4, <2>1, <2>3, <3>1
    <3> HIDE DEF was
    <3> QED
      BY <1>2, <1>4, <2>1, <2>2, <3>1, <3>2 DEF Changed, r, was
  <2>4. CASE c.reason = "bad"
    <3>1. r = markPartial(seen)
      BY <1>3, <2>4
    <3>2. r \in Observers /\ SameRest(seen, r) /\ r.choices = seen.choices /\ r.partial = TRUE
      BY <1>4, <3>1, PartialMarked
    <3>3. SameRest(o, r)
      BY <1>4, <3>2 DEF SameRest, SameBytes, SameNumbers
    <3>4. c.reason \notin Reasons \cup {"null"}
      BY <2>4 DEF Reasons
    <3>5. r.partial = (o.partial \/ c.reason \notin Reasons \cup {"null"} \/ Clash(was, c))
      BY <3>2, <3>4
    <3> HIDE DEF was
    <3> QED
      BY <1>2, <1>4, <2>1, <2>2, <3>2, <3>3, <3>5 DEF Changed, r, was
  <2> QED
    BY <1>5, <2>3, <2>4
<1>6. CASE c.reason \notin {"null", "bad"}
  <2>1. r = observeReason(seen, c.index, c.reason) /\ Told(c)
    BY <1>3, <1>6 DEF Told
  <2>2. Changed(seen, r, c)
    BY <1>2, <1>4, <2>1, ReasonKept
  <2>3. Clash(w, c) = Clash(was, c) /\ NewReason(w, c) = NewReason(was, c)
    BY <1>2 DEF Clash, NewReason
  <2>4. SameRest(o, r)
    BY <1>4, <2>2 DEF Changed, SameRest, SameBytes, SameNumbers
  <2>5. /\ r \in Observers
        /\ \A i \in Indices : i # c.index => r.choices[i] = o.choices[i]
        /\ r.choices[c.index].seen = TRUE
        /\ r.choices[c.index].reason = NewReason(w, c)
        /\ r.choices[c.index].conflict = (w.conflict \/ Clash(w, c))
        /\ r.partial = (o.partial \/ c.reason \notin Reasons \cup {"null"} \/ Clash(w, c))
    BY <1>4, <2>2 DEF Changed
  <2> HIDE DEF was
  <2> QED
    BY <1>2, <2>3, <2>4, <2>5 DEF Changed, r, was
<1> QED
  BY <1>5, <1>6

\* What the collector holds of the choices it was given.
Contradicts(given, i) == \E r, s \in Said(given, i) : r # s
Tracks(choices, given) ==
    \A i \in Indices :
      /\ choices[i].seen = (OfIndex(given, i) # {})
      /\ choices[i].conflict = Contradicts(given, i)
      /\ ~choices[i].conflict =>
           Said(given, i) = IF choices[i].reason = "none" THEN {} ELSE {choices[i].reason}
      /\ choices[i].conflict => choices[i].reason = "none"
Doubtful(given) == \/ \E c \in given : ~Plain(c)
                   \/ \E i \in Indices : Contradicts(given, i)
Counted(o, given, doubt) ==
    Tracks(o.choices, given) /\ o.partial = (doubt \/ Doubtful(given))

\* One more choice: the states of the choices still track what all choices gave.
LEMMA ChoiceCounted ==
    ASSUME NEW o \in Observers, NEW given \in SUBSET ChoiceObjects,
           NEW c \in ChoiceObjects, NEW doubt \in BOOLEAN, Counted(o, given, doubt)
    PROVE  LET r == observeChoice(o, c)
           IN  /\ r \in Observers /\ SameRest(o, r)
               /\ Counted(r, given \cup {c}, doubt)
<1> DEFINE r == observeChoice(o, c)
           more == given \cup {c}
<1>1. o.partial \in BOOLEAN /\ o.choices \in [Indices -> ChoiceStates]
  BY DEF Observers
<1>2. CASE ~Unique(c) \/ c.index \notin Indices
  <2>1. r \in Observers /\ SameRest(o, r) /\ r.choices = o.choices /\ r.partial = TRUE
    BY <1>2, ChoiceUnknown, PartialMarked
  <2>2. \A i \in Indices : OfIndex(more, i) = OfIndex(given, i)
    BY <1>2 DEF OfIndex
  <2>3. \A i \in Indices : Said(more, i) = Said(given, i)
    BY <2>2 DEF Said
  <2>4. ~Plain(c)
    BY <1>2 DEF Plain
  <2>5. Tracks(r.choices, more)
    <3>1. \A i \in Indices : Contradicts(more, i) = Contradicts(given, i)
      BY <2>3 DEF Contradicts
    <3> HIDE DEF r, more
    <3>2. Tracks(o.choices, given)
      BY DEF Counted
    <3> QED
      BY <2>1, <2>2, <2>3, <3>1, <3>2 DEF Tracks
  <2>6. (doubt \/ Doubtful(more)) = TRUE
    BY <2>4 DEF Doubtful
  <2> HIDE DEF r, more
  <2> QED
    BY <2>1, <2>5, <2>6 DEF Counted, r, more
<1>3. CASE Unique(c) /\ c.index \in Indices
  <2> DEFINE i == c.index
             was == o.choices[i]
             w == r.choices[i]
  <2>1. Changed(o, r, c)
    BY <1>3, ChoiceKept
  <2>2. /\ OfIndex(more, i) = OfIndex(given, i) \cup {c}
        /\ \A j \in Indices : j # i => OfIndex(more, j) = OfIndex(given, j)
    BY <1>3 DEF OfIndex
  <2>3. \A j \in Indices : j # i => Said(more, j) = Said(given, j)
    BY <2>2 DEF Said
  <2>4. Said(more, i) = Said(given, i) \cup IF Told(c) THEN {Closed(c.reason)} ELSE {}
    <3>1. CASE Told(c)
      BY <2>2, <3>1 DEF Said, Told
    <3>2. CASE ~Told(c)
      BY <2>2, <3>2 DEF Said, Told
    <3> QED
      BY <3>1, <3>2
  <2>5. Closed(c.reason) # "none"
    BY DEF Closed, Reasons
  <2>6. was.conflict \in BOOLEAN
    BY <1>1, <1>3 DEF ChoiceStates
  <2>7. /\ was.conflict = Contradicts(given, i)
        /\ ~was.conflict =>
             Said(given, i) = IF was.reason = "none" THEN {} ELSE {was.reason}
        /\ was.conflict => was.reason = "none"
    BY <1>3 DEF Counted, Tracks
  <2>8. /\ w.seen = TRUE /\ w.reason = NewReason(was, c)
        /\ w.conflict = (was.conflict \/ Clash(was, c))
        /\ r.partial = (o.partial \/ c.reason \notin Reasons \cup {"null"} \/ Clash(was, c))
        /\ \A j \in Indices : j # i => r.choices[j] = o.choices[j]
        /\ r \in Observers /\ SameRest(o, r)
    BY <2>1 DEF Changed
  <2> HIDE DEF r, more, was, w
  <2>9. /\ w.conflict = Contradicts(more, i)
        /\ ~w.conflict => Said(more, i) = IF w.reason = "none" THEN {} ELSE {w.reason}
        /\ w.conflict => w.reason = "none"
        /\ Contradicts(given, i) => Contradicts(more, i)
        /\ Contradicts(more, i) => Contradicts(given, i) \/ Clash(was, c)
    <3>1. CASE ~Told(c)
      <4>1. ~Clash(was, c) /\ NewReason(was, c) = was.reason
        BY <3>1 DEF Clash, NewReason
      <4>2. Said(more, i) = Said(given, i) /\ Contradicts(more, i) = Contradicts(given, i)
        BY <2>4, <3>1 DEF Contradicts
      <4>3. w.conflict = was.conflict /\ w.reason = was.reason
        BY <2>6, <2>8, <4>1
      <4> QED
        BY <2>7, <4>2, <4>3
    <3>2. CASE Told(c) /\ was.conflict
      <4>1. ~Clash(was, c) /\ NewReason(was, c) = was.reason
        BY <3>2 DEF Clash, NewReason
      <4>2. Contradicts(given, i) /\ was.reason = "none"
        BY <2>7, <3>2
      <4>3. Contradicts(more, i)
        BY <2>4, <4>2 DEF Contradicts
      <4>4. Contradicts(more, i) = TRUE
        BY <4>3 DEF Contradicts
      <4>5. w.conflict = TRUE
        BY <2>6, <2>8, <3>2
      <4> QED
        BY <2>8, <4>1, <4>2, <4>4, <4>5
    <3>3. CASE Told(c) /\ ~was.conflict /\ Clash(was, c)
      <4>1. NewReason(was, c) = "none" /\ w.conflict = TRUE
        BY <2>6, <2>8, <3>3 DEF NewReason
      <4>2. was.reason # "none" /\ was.reason # Closed(c.reason)
        BY <3>3 DEF Clash
      <4>3. was.reason \in Said(more, i) /\ Closed(c.reason) \in Said(more, i)
        BY <2>4, <2>7, <3>3, <4>2
      <4>4. Contradicts(more, i)
        BY <4>2, <4>3 DEF Contradicts
      <4>5. Contradicts(more, i) = TRUE
        BY <4>4 DEF Contradicts
      <4> QED
        BY <2>8, <3>3, <4>1, <4>5
    <3>4. CASE Told(c) /\ ~was.conflict /\ ~Clash(was, c)
      <4>1. NewReason(was, c) = Closed(c.reason) /\ w.conflict = FALSE
        BY <2>6, <2>8, <3>4 DEF NewReason
      <4>2. was.reason = "none" \/ was.reason = Closed(c.reason)
        BY <3>4 DEF Clash
      <4>3. Said(more, i) = {Closed(c.reason)}
        BY <2>4, <2>7, <3>4, <4>2
      <4>4. ~Contradicts(more, i) /\ Contradicts(more, i) = FALSE
        BY <4>3 DEF Contradicts
      <4>5. ~Contradicts(given, i)
        BY <2>7, <3>4
      <4> QED
        BY <2>5, <2>8, <4>1, <4>3, <4>4, <4>5
    <3> QED
      BY <3>1, <3>2, <3>3, <3>4
  <2>10. Tracks(r.choices, more)
    <3> SUFFICES ASSUME NEW j \in Indices
                 PROVE  /\ r.choices[j].seen = (OfIndex(more, j) # {})
                        /\ r.choices[j].conflict = Contradicts(more, j)
                        /\ ~r.choices[j].conflict =>
                             Said(more, j) = IF r.choices[j].reason = "none" THEN {}
                                             ELSE {r.choices[j].reason}
                        /\ r.choices[j].conflict => r.choices[j].reason = "none"
      BY DEF Tracks
    <3>1. CASE j = i
      <4>1. (OfIndex(more, i) # {}) = TRUE
        BY <2>2
      <4> QED
        BY <2>8, <2>9, <3>1, <4>1 DEF w
    <3>2. CASE j # i
      <4>1. r.choices[j] = o.choices[j] /\ OfIndex(more, j) = OfIndex(given, j)
            /\ Said(more, j) = Said(given, j)
        BY <2>2, <2>3, <2>8, <3>2
      <4>2. Contradicts(more, j) = Contradicts(given, j)
        BY <4>1 DEF Contradicts
      <4> QED
        BY <4>1, <4>2 DEF Counted, Tracks
    <3> QED
      BY <3>1, <3>2
  <2>11. r.partial = (doubt \/ Doubtful(more))
    <3>1. Plain(c) <=> c.reason \in Reasons \cup {"null"}
      BY <1>3 DEF Plain
    <3>2. \A d \in more : d \in given \/ d = c
      BY DEF more
    <3>3. c \in more /\ given \subseteq more
      BY DEF more
    <3>4. \A j \in Indices : j # i => Contradicts(more, j) = Contradicts(given, j)
      BY <2>3 DEF Contradicts
    <3>5. i \in Indices
      BY <1>3
    <3>6. (\E j \in Indices : Contradicts(more, j)) <=>
            (\E j \in Indices : Contradicts(given, j)) \/ Clash(was, c)
      <4>1. Clash(was, c) => Contradicts(more, i)
        <5>1. Clash(was, c) => w.conflict
          BY <2>8
        <5> QED
          BY <2>9, <5>1
      <4> HIDE DEF i
      <4> QED
        BY <2>9, <3>4, <3>5, <4>1
    <3>7. (\E d \in more : ~Plain(d)) <=>
            (\E d \in given : ~Plain(d)) \/ c.reason \notin Reasons \cup {"null"}
      BY <3>1, <3>2, <3>3
    <3>8. Doubtful(more) <=> \/ Doubtful(given) \/ Clash(was, c)
                             \/ c.reason \notin Reasons \cup {"null"}
      BY <3>6, <3>7 DEF Doubtful
    <3>9. o.partial = (doubt \/ Doubtful(given))
      BY DEF Counted
    <3> QED
      BY <2>8, <3>8, <3>9
  <2> QED
    BY <2>8, <2>10, <2>11 DEF Counted, r, more
<1> QED
  BY <1>2, <1>3

\* All choices of one object.
LEMMA ChoicesCounted ==
    ASSUME NEW o \in Observers, NEW given \in SUBSET ChoiceObjects,
           NEW choices \in Seq(ChoiceObjects), NEW doubt \in BOOLEAN,
           Counted(o, given, doubt)
    PROVE  LET r == observeChoices(o, choices)
           IN  /\ r \in Observers /\ SameRest(o, r)
               /\ Counted(r, given \cup Range(choices), doubt)
<1> DEFINE N == Len(choices)
           upTo(n) == given \cup {choices[i] : i \in 1..n}
           Good(r, n) == /\ r \in Observers /\ SameRest(o, r)
                         /\ Counted(r, upTo(n), doubt)
<1>1. PICK u : observeChoicesTurns(u, o, choices)
  BY observeChoicesLoop
<1> DEFINE P == {n \in 0..N : Good(u[n], n)}
<1>2. N \in Nat /\ DOMAIN choices = 1..N /\ \A i \in 1..N : choices[i] \in ChoiceObjects
  OBVIOUS
<1>3. 0 \in P
  <2>1. upTo(0) = given
    OBVIOUS
  <2>2. u[0] = o
    BY <1>1 DEF observeChoicesTurns
  <2>3. SameRest(o, o)
    BY DEF SameRest, SameBytes, SameNumbers
  <2> HIDE DEF upTo
  <2>4. Good(u[0], 0)
    BY <2>1, <2>2, <2>3
  <2> HIDE DEF Good
  <2> QED
    BY <1>2, <2>4
<1>4. ASSUME NEW n \in 0..(N - 1), n \in P
      PROVE  n + 1 \in P
  <2>1. n + 1 \in 1..N /\ n + 1 \in 0..N /\ (n + 1) - 1 = n
    BY <1>2
  <2>2. u[n + 1] = observeChoice(u[n], choices[n + 1])
    BY <1>1, <2>1 DEF observeChoicesTurns
  <2>3. \A i : i \in 1..(n + 1) <=> i \in 1..n \/ i = n + 1
    BY <2>1
  <2>4. upTo(n + 1) = upTo(n) \cup {choices[n + 1]}
    BY <2>3
  <2>5. upTo(n) \in SUBSET ChoiceObjects /\ choices[n + 1] \in ChoiceObjects
    BY <1>2, <2>1
  <2>6. Good(u[n], n)
    BY <1>4
  <2> HIDE DEF upTo
  <2>7. /\ u[n + 1] \in Observers /\ SameRest(u[n], u[n + 1])
        /\ Counted(u[n + 1], upTo(n + 1), doubt)
    BY <2>2, <2>4, <2>5, <2>6, ChoiceCounted
  <2>8. SameRest(o, u[n + 1])
    BY <2>6, <2>7 DEF SameRest, SameBytes, SameNumbers
  <2>9. Good(u[n + 1], n + 1)
    BY <2>7, <2>8
  <2> HIDE DEF Good
  <2> QED
    BY <2>1, <2>9
<1> HIDE DEF P, N, Good
<1>5. \A n \in 0..N : n \in P
  BY <1>2, <1>3, <1>4, Positions
<1>6. Good(u[N], N)
  <2>1. N \in P
    BY <1>2, <1>5
  <2> QED
    BY <2>1 DEF P
<1>7. u[N] = observeChoices(o, choices)
  BY <1>1 DEF observeChoicesTurns, N
<1>8. upTo(N) = given \cup Range(choices)
  BY <1>2 DEF Range
<1> HIDE DEF upTo
<1> QED
  BY <1>6, <1>7, <1>8 DEF Good

-----------------------------------------------------------------------------
(* The meanings of a response, one after another.                          *)

MeaningSet == DOMAIN Objects \cup {"none", "done"}

\* A set of positions has a greatest one.
LEMMA Greatest ==
    ASSUME NEW n \in Nat, NEW S \in SUBSET (1..n), S # {}
    PROVE  Max(S) \in S
<1> DEFINE P == {m \in 0..n : \A T \in SUBSET (1..m) :
                   T # {} => \E x \in T : \A y \in T : y <= x}
<1>1. 0 \in P
  <2>1. 1..0 = {} /\ 0 \in 0..n
    OBVIOUS
  <2>2. \A T \in SUBSET (1..0) : T # {} => \E x \in T : \A y \in T : y <= x
    BY <2>1
  <2> QED
    BY <2>1, <2>2
<1>2. ASSUME NEW m \in 0..(n - 1), m \in P
      PROVE  m + 1 \in P
  <2>0. \A T \in SUBSET (1..m) : T # {} => \E x \in T : \A y \in T : y <= x
    BY <1>2
  <2>1. ASSUME NEW T \in SUBSET (1..(m + 1)), T # {}
        PROVE  \E x \in T : \A y \in T : y <= x
    <3>1. CASE m + 1 \in T
      BY <3>1
    <3>2. CASE m + 1 \notin T
      <4>1. T \in SUBSET (1..m)
        BY <3>2
      <4> QED
        BY <2>0, <2>1, <4>1
    <3> QED
      BY <3>1, <3>2
  <2>2. m + 1 \in 0..n
    BY <1>2
  <2>3. \A T \in SUBSET (1..(m + 1)) : T # {} => \E x \in T : \A y \in T : y <= x
    BY <2>1
  <2> QED
    BY <2>2, <2>3
<1>3. n \in P
  <2> HIDE DEF P
  <2>1. \A m \in 0..n : m \in P
    BY <1>1, <1>2, Positions
  <2> QED
    BY <2>1
<1>4. PICK x \in S : \A y \in S : y <= x
  BY <1>3
<1>5. Max(S) = x
  <2>1. S \in SUBSET Int
    OBVIOUS
  <2> QED
    BY <1>4, <2>1, Latest
<1> QED
  BY <1>4, <1>5

\* The last value that was given, with one more value at the end.
LEMMA LastAppended ==
    ASSUME NEW n \in Nat, NEW v, NEW w, DOMAIN v = 1..n, DOMAIN w = 1..(n + 1),
           \A k \in 1..n : w[k] = v[k]
    PROVE  LastOf(w) = Update(LastOf(v), w[n + 1])
<1> DEFINE old == {k \in 1..n : v[k] # Nil}
           new == {k \in 1..(n + 1) : w[k] # Nil}
<1>1. \A k : k \in 1..(n + 1) <=> k \in 1..n \/ k = n + 1
  OBVIOUS
<1>2. CASE w[n + 1] = Nil
  <2>1. new = old
    BY <1>1, <1>2
  <2>2. CASE old = {}
    BY <1>2, <2>1, <2>2 DEF LastOf, Update
  <2>3. CASE old # {}
    <3>1. Max(old) \in old
      <4>1. old \in SUBSET (1..n)
        OBVIOUS
      <4> HIDE DEF old
      <4> QED
        BY <2>3, <4>1, Greatest
    <3>2. w[Max(old)] = v[Max(old)]
      BY <3>1
    <3>3. LastOf(w) = w[Max(new)] /\ LastOf(v) = v[Max(old)]
      BY <2>1, <2>3 DEF LastOf
    <3> QED
      BY <1>2, <2>1, <3>2, <3>3 DEF Update
  <2> QED
    BY <2>2, <2>3
<1>3. CASE w[n + 1] # Nil
  <2>1. n + 1 \in new /\ new \in SUBSET Int /\ \A k \in new : k <= n + 1
    BY <1>1, <1>3
  <2>2. Max(new) = n + 1
    <3> HIDE DEF new
    <3> QED
      BY <2>1, Latest
  <2>3. LastOf(w) = w[n + 1]
    BY <2>1, <2>2 DEF LastOf
  <2> QED
    BY <1>3, <2>3 DEF Update
<1> QED
  BY <1>2, <1>3

\* The numbers of a response with one more meaning.
LEMMA NumbersAppended ==
    ASSUME NEW received \in Seq(MeaningSet), NEW id \in MeaningSet
    PROVE  LET more == Append(received, id)
           IN  /\ \A f : UsageOf(more, f) =
                    Update(UsageOf(received, f),
                           IF id \in DOMAIN Objects THEN Objects[id].usage[f] ELSE Nil)
               /\ \A f : TimingOf(more, f) =
                    Update(TimingOf(received, f),
                           IF id \in DOMAIN Objects THEN Objects[id].timings[f] ELSE Nil)
               /\ CacheOf(more) =
                    Update(CacheOf(received),
                           IF id \in DOMAIN Objects THEN Objects[id].cacheN ELSE Nil)
<1> DEFINE more == Append(received, id)
           n == Len(received)
<1>1. /\ n \in Nat /\ DOMAIN received = 1..n /\ DOMAIN more = 1..(n + 1)
      /\ more[n + 1] = id /\ \A k \in 1..n : more[k] = received[k]
  OBVIOUS
<1>2. n + 1 \in 1..(n + 1) /\ \A k \in 1..n : k \in 1..(n + 1)
  BY <1>1
<1> HIDE DEF more, n
<1>3. ASSUME NEW f
      PROVE  UsageOf(more, f) =
               Update(UsageOf(received, f),
                      IF id \in DOMAIN Objects THEN Objects[id].usage[f] ELSE Nil)
  <2> DEFINE V(s) == [k \in DOMAIN s |->
                        IF s[k] \in DOMAIN Objects THEN Objects[s[k]].usage[f] ELSE Nil]
  <2>1. /\ DOMAIN V(received) = 1..n /\ DOMAIN V(more) = 1..(n + 1)
        /\ \A k \in 1..n : V(more)[k] = V(received)[k]
        /\ V(more)[n + 1] = IF id \in DOMAIN Objects THEN Objects[id].usage[f] ELSE Nil
    BY <1>1, <1>2
  <2>2. LastOf(V(more)) = Update(LastOf(V(received)), V(more)[n + 1])
    <3> HIDE DEF V
    <3> QED
      BY <1>1, <2>1, LastAppended
  <2> QED
    BY <2>1, <2>2 DEF UsageOf
<1>4. ASSUME NEW f
      PROVE  TimingOf(more, f) =
               Update(TimingOf(received, f),
                      IF id \in DOMAIN Objects THEN Objects[id].timings[f] ELSE Nil)
  <2> DEFINE V(s) == [k \in DOMAIN s |->
                        IF s[k] \in DOMAIN Objects THEN Objects[s[k]].timings[f] ELSE Nil]
  <2>1. /\ DOMAIN V(received) = 1..n /\ DOMAIN V(more) = 1..(n + 1)
        /\ \A k \in 1..n : V(more)[k] = V(received)[k]
        /\ V(more)[n + 1] = IF id \in DOMAIN Objects THEN Objects[id].timings[f] ELSE Nil
    BY <1>1, <1>2
  <2>2. LastOf(V(more)) = Update(LastOf(V(received)), V(more)[n + 1])
    <3> HIDE DEF V
    <3> QED
      BY <1>1, <2>1, LastAppended
  <2> QED
    BY <2>1, <2>2 DEF TimingOf
<1>5. CacheOf(more) =
        Update(CacheOf(received), IF id \in DOMAIN Objects THEN Objects[id].cacheN ELSE Nil)
  <2> DEFINE V(s) == [k \in DOMAIN s |->
                        IF s[k] \in DOMAIN Objects THEN Objects[s[k]].cacheN ELSE Nil]
  <2>1. /\ DOMAIN V(received) = 1..n /\ DOMAIN V(more) = 1..(n + 1)
        /\ \A k \in 1..n : V(more)[k] = V(received)[k]
        /\ V(more)[n + 1] = IF id \in DOMAIN Objects THEN Objects[id].cacheN ELSE Nil
    BY <1>1, <1>2
  <2>2. LastOf(V(more)) = Update(LastOf(V(received)), V(more)[n + 1])
    <3> HIDE DEF V
    <3> QED
      BY <1>1, <2>1, LastAppended
  <2> QED
    BY <2>1, <2>2 DEF CacheOf
<1> QED
  BY <1>3, <1>4, <1>5 DEF more

\* The object is no reason to doubt by itself, and its choices count.
Readable(object) == object.keys.choices <= 1 /\ ~object.malformed
\* Something other than a choice makes the response doubtful.
Upset(received) ==
    \/ "none" \in Range(received)
    \/ \E id \in Objected(received) : ~Readable(Objects[id])
    \/ \E j, k \in 1..Len(received) : j < k /\ received[j] = "done"

\* The choices and objects of a response with one more meaning.
LEMMA MeaningAppended ==
    ASSUME NEW received \in Seq(MeaningSet), NEW id \in MeaningSet
    PROVE  LET more == Append(received, id)
           IN  /\ Range(more) = Range(received) \cup {id}
               /\ Objected(more) = Objected(received) \cup
                                     IF id \in DOMAIN Objects THEN {id} ELSE {}
               /\ GivenChoices(more) = GivenChoices(received) \cup
                    IF id \in DOMAIN Objects /\ Readable(Objects[id])
                    THEN Range(Objects[id].choices) ELSE {}
               /\ Upset(more) <=>
                    \/ Upset(received) \/ id = "none" \/ "done" \in Range(received)
                    \/ id \in DOMAIN Objects /\ ~Readable(Objects[id])
               /\ more \in Seq(MeaningSet)
<1> DEFINE more == Append(received, id)
           n == Len(received)
<1>1. /\ n \in Nat /\ DOMAIN received = 1..n /\ DOMAIN more = 1..(n + 1)
      /\ more[n + 1] = id /\ \A k \in 1..n : more[k] = received[k]
      /\ more \in Seq(MeaningSet) /\ Len(more) = n + 1
  OBVIOUS
<1>2. \A k : k \in 1..(n + 1) <=> k \in 1..n \/ k = n + 1
  BY <1>1
<1> HIDE DEF more, n
<1>3. Range(more) = Range(received) \cup {id}
  BY <1>1, <1>2 DEF Range
<1>4. Objected(more) = Objected(received) \cup IF id \in DOMAIN Objects THEN {id} ELSE {}
  BY <1>3 DEF Objected
<1>5. GivenChoices(more) = GivenChoices(received) \cup
        IF id \in DOMAIN Objects /\ Readable(Objects[id])
        THEN Range(Objects[id].choices) ELSE {}
  <2> DEFINE fine(s) == {i \in Objected(s) : Readable(Objects[i])}
  <2>1. GivenChoices(more) = UNION {Range(Objects[i].choices) : i \in fine(more)}
        /\ GivenChoices(received) = UNION {Range(Objects[i].choices) : i \in fine(received)}
    BY DEF GivenChoices, Readable
  <2>2. fine(more) = fine(received) \cup
          IF id \in DOMAIN Objects /\ Readable(Objects[id]) THEN {id} ELSE {}
    BY <1>4
  <2> HIDE DEF fine
  <2> QED
    BY <2>1, <2>2
<1>6. Upset(more) <=> \/ Upset(received) \/ id = "none" \/ "done" \in Range(received)
                      \/ id \in DOMAIN Objects /\ ~Readable(Objects[id])
  <2> DEFINE after(s) == \E j, k \in 1..Len(s) : j < k /\ s[j] = "done"
  <2>1. after(more) <=> "done" \in Range(received)
    <3>1. "done" \in Range(received) => after(more)
      <4>1. ASSUME NEW j \in 1..n, received[j] = "done"
            PROVE  after(more)
        <5>1. j \in 1..Len(more) /\ n + 1 \in 1..Len(more) /\ j < n + 1 /\ more[j] = "done"
          BY <1>1, <4>1
        <5> QED
          BY <5>1
      <4> QED
        BY <1>1, <4>1 DEF Range
    <3>2. ASSUME NEW j \in 1..Len(more), NEW k \in 1..Len(more), j < k, more[j] = "done"
          PROVE  "done" \in Range(received)
      <4>1. j \in 1..n
        BY <1>1, <3>2
      <4> QED
        BY <1>1, <3>2, <4>1 DEF Range
    <3> QED
      BY <3>1, <3>2
  <2>2. after(received) => "done" \in Range(received)
    BY <1>1 DEF Range, n
  <2>3. /\ Upset(more) <=> \/ "none" \in Range(more) \/ after(more)
                           \/ \E i \in Objected(more) : ~Readable(Objects[i])
        /\ Upset(received) <=> \/ "none" \in Range(received) \/ after(received)
                               \/ \E i \in Objected(received) : ~Readable(Objects[i])
    BY DEF Upset
  <2> HIDE DEF after
  <2>4. "none" \in Range(more) <=> "none" \in Range(received) \/ id = "none"
    BY <1>3
  <2>5. (\E i \in Objected(more) : ~Readable(Objects[i])) <=>
          \/ \E i \in Objected(received) : ~Readable(Objects[i])
          \/ id \in DOMAIN Objects /\ ~Readable(Objects[id])
    BY <1>4
  <2> QED
    BY <2>1, <2>2, <2>3, <2>4, <2>5
<1> QED
  BY <1>1, <1>3, <1>4, <1>5, <1>6 DEF more

-----------------------------------------------------------------------------
(* What the observer holds once it was told of some of the meanings, and   *)
(* perhaps warned that there is something more.                            *)

Numbered(o, received) ==
    /\ \A f \in Tokens : f # "cached" => o.tokens[f] = UsageOf(received, f)
    /\ o.tokens["cached"] = Update(CacheOf(received), UsageOf(received, "cached"))
    /\ o.cacheFromUsage = (UsageOf(received, "cached") # Nil)
    /\ \A f \in Timings : o.timings[f] = TimingOf(received, f)
Begun(received) == \E id \in Objected(received) : hasGeneratedDelta(Objects[id])
Heard(o, received, warned) ==
    /\ Counted(o, GivenChoices(received), Upset(received) \/ warned)
    /\ Numbered(o, received)
    /\ o.streamDone = ("done" \in Range(received))
    /\ o.firstOutput = (o.stream /\ Begun(received))

LEMMA ObjectsTyped ==
    ASSUME NEW id \in DOMAIN Objects
    PROVE  /\ Objects[id].choices \in Seq(ChoiceObjects)
           /\ Range(Objects[id].choices) \in SUBSET ChoiceObjects
           /\ Objects[id].usage \in [Tokens -> Counts]
           /\ Objects[id].timings \in [Timings -> Counts]
           /\ Objects[id].cacheN \in Counts
<1>1. /\ Objects[id].choices \in Seq(ChoiceObjects)
      /\ Objects[id].usage \in [Tokens -> Counts]
      /\ Objects[id].timings \in [Timings -> Counts]
      /\ Objects[id].cacheN \in Counts
  BY ObjectsAssumption
<1> HIDE DEF ChoiceObjects
<1>2. Range(Objects[id].choices) \in SUBSET ChoiceObjects
  BY <1>1 DEF Range
<1> QED
  BY <1>1, <1>2

LEMMA ChoicesGiven ==
    ASSUME NEW received
    PROVE  GivenChoices(received) \in SUBSET ChoiceObjects
  BY ObjectsTyped DEF GivenChoices, Objected

\* observeNumbers takes the numbers of one more object.
LEMMA NumbersHeard ==
    ASSUME NEW o \in Observers, NEW received \in Seq(MeaningSet),
           NEW id \in DOMAIN Objects, Numbered(o, received)
    PROVE  LET r == observeNumbers(o, Objects[id])
           IN  /\ r \in Observers /\ SameBytes(o, r)
               /\ r.choices = o.choices /\ r.partial = o.partial
               /\ r.streamDone = o.streamDone /\ r.firstOutput = o.firstOutput
               /\ Numbered(r, Append(received, id))
<1> DEFINE object == Objects[id]
           r == observeNumbers(o, object)
           more == Append(received, id)
           given == object.usage["cached"]
<1>1. /\ object.usage \in [Tokens -> Counts] /\ object.timings \in [Timings -> Counts]
      /\ object.cacheN \in Counts
  BY ObjectsTyped
<1>2. /\ \A f : UsageOf(more, f) = Update(UsageOf(received, f), object.usage[f])
      /\ \A f : TimingOf(more, f) = Update(TimingOf(received, f), object.timings[f])
      /\ CacheOf(more) = Update(CacheOf(received), object.cacheN)
  <2>1. id \in MeaningSet
    BY DEF MeaningSet
  <2> QED
    BY <2>1, NumbersAppended
<1> HIDE DEF object, more
<1>3. /\ r \in Observers /\ SameBytes(o, r)
      /\ r.choices = o.choices /\ r.partial = o.partial
      /\ r.streamDone = o.streamDone /\ r.firstOutput = o.firstOutput
      /\ r.cacheFromUsage = (o.cacheFromUsage \/ given # Nil)
      /\ \A f \in Tokens : f # "cached" =>
           r.tokens[f] = Update(o.tokens[f], object.usage[f])
      /\ r.tokens["cached"] =
           IF o.cacheFromUsage \/ given # Nil
           THEN Update(o.tokens["cached"], given)
           ELSE Update(Update(o.tokens["cached"], given), object.cacheN)
      /\ \A f \in Timings : r.timings[f] = Update(o.timings[f], object.timings[f])
  <2>1. "cached" \in Tokens
    BY DEF Tokens, NoTokens
  <2> QED
    BY <1>1, <2>1 DEF observeNumbers, Observers, Update, SameBytes
<1>4. o.tokens["cached"] = Update(CacheOf(received), UsageOf(received, "cached"))
      /\ o.cacheFromUsage = (UsageOf(received, "cached") # Nil)
  BY DEF Numbered
<1>5. UsageOf(more, "cached") = Update(UsageOf(received, "cached"), given)
  BY <1>2
<1> HIDE DEF r, given
<1>6. r.cacheFromUsage = (UsageOf(more, "cached") # Nil)
  BY <1>3, <1>4, <1>5 DEF Update
<1>7. r.tokens["cached"] = Update(CacheOf(more), UsageOf(more, "cached"))
  <2>1. CASE given # Nil
    BY <1>3, <1>5, <2>1 DEF Update
  <2>2. CASE given = Nil /\ UsageOf(received, "cached") # Nil
    <3>1. o.cacheFromUsage
      BY <1>4, <2>2
    <3> QED
      BY <1>3, <1>4, <1>5, <2>2, <3>1 DEF Update
  <2>3. CASE given = Nil /\ UsageOf(received, "cached") = Nil
    <3>1. ~o.cacheFromUsage
      BY <1>4, <2>3
    <3> QED
      BY <1>2, <1>3, <1>4, <1>5, <2>3, <3>1 DEF Update
  <2> QED
    BY <2>1, <2>2, <2>3
<1>8. /\ \A f \in Tokens : f # "cached" => r.tokens[f] = UsageOf(more, f)
      /\ \A f \in Timings : r.timings[f] = TimingOf(more, f)
  <2>1. /\ \A f \in Tokens : f # "cached" => o.tokens[f] = UsageOf(received, f)
        /\ \A f \in Timings : o.timings[f] = TimingOf(received, f)
    BY DEF Numbered
  <2> QED
    BY <1>2, <1>3, <2>1
<1> QED
  BY <1>3, <1>6, <1>7, <1>8 DEF Numbered, r, more, object

\* Whatever came, once it is doubtful it stays so.
LEMMA DoubtCounted ==
    ASSUME NEW o \in Observers, NEW given, Tracks(o.choices, given)
    PROVE  /\ markPartial(o) \in Observers /\ SameRest(o, markPartial(o))
           /\ Counted(markPartial(o), given, TRUE)
<1>1. /\ markPartial(o) \in Observers /\ SameRest(o, markPartial(o))
      /\ markPartial(o).choices = o.choices /\ markPartial(o).partial = TRUE
  BY PartialMarked
<1>2. (TRUE \/ Doubtful(given)) = TRUE
  OBVIOUS
<1> QED
  BY <1>1, <1>2 DEF Counted

\* observeResponse takes the choices of one more object.
LEMMA ResponseHeard ==
    ASSUME NEW o \in Observers, NEW received \in Seq(MeaningSet),
           NEW id \in DOMAIN Objects, NEW warned \in BOOLEAN,
           Counted(o, GivenChoices(received), Upset(received) \/ warned),
           o.streamDone = ("done" \in Range(received))
    PROVE  LET r == observeResponse(o, Objects[id])
               more == Append(received, id)
           IN  /\ r \in Observers /\ SameRest(o, r)
               /\ Counted(r, GivenChoices(more), Upset(more) \/ warned)
<1> DEFINE object == Objects[id]
           r == observeResponse(o, object)
           more == Append(received, id)
           given == GivenChoices(received)
           late == IF o.streamDone THEN markPartial(o) ELSE o
           doubt == Upset(received) \/ warned \/ o.streamDone
<1>1. id \in MeaningSet /\ id # "none"
  BY ObjectsAssumption DEF MeaningSet
<1>2. /\ GivenChoices(more) = given \cup IF Readable(object) THEN Range(object.choices)
                                         ELSE {}
      /\ Upset(more) <=> \/ Upset(received) \/ "done" \in Range(received)
                         \/ ~Readable(object)
  BY <1>1, MeaningAppended
<1>3. object.choices \in Seq(ChoiceObjects)
  BY ObjectsTyped
<1>4. given \in SUBSET ChoiceObjects
  BY ChoicesGiven
<1>5. r = IF object.keys.choices <= 1
          THEN IF object.malformed THEN markPartial(late)
               ELSE observeChoices(late, object.choices)
          ELSE markPartial(o)
  <2>1. uniqueCompletionKeys(object.keys, {"choices"}) <=> object.keys.choices <= 1
    BY DEF uniqueCompletionKeys
  <2> QED
    BY <2>1 DEF observeResponse, observeObject
<1>6. o.streamDone \in BOOLEAN /\ o.partial \in BOOLEAN
  BY DEF Observers
<1>7. doubt \in BOOLEAN /\ Upset(received) \in BOOLEAN
  BY <1>6 DEF Upset
<1>8. Tracks(o.choices, given) /\ o.partial = (Upset(received) \/ warned \/ Doubtful(given))
  BY DEF Counted
<1>9. (o.streamDone <=> "done" \in Range(received)) /\ SameRest(o, o)
  BY <1>6 DEF SameRest, SameBytes, SameNumbers
<1> HIDE DEF more, given, object
<1>10. late \in Observers /\ SameRest(o, late) /\ Counted(late, given, doubt)
  <2>1. CASE o.streamDone
    <3>1. late = markPartial(o) /\ doubt = TRUE
      BY <1>7, <2>1
    <3> HIDE DEF late, doubt
    <3> QED
      BY <1>8, <3>1, DoubtCounted
  <2>2. CASE ~o.streamDone
    <3>1. late = o /\ doubt = (Upset(received) \/ warned)
      BY <1>6, <1>7, <2>2
    <3> HIDE DEF late, doubt
    <3> QED
      BY <1>8, <1>9, <3>1 DEF Counted
  <2> QED
    BY <2>1, <2>2
<1> HIDE DEF r, late
<1>11. CASE Readable(object)
  <2>1. r = observeChoices(late, object.choices)
    BY <1>5, <1>11 DEF Readable
  <2> HIDE DEF doubt
  <2>2. /\ r \in Observers /\ SameRest(late, r)
        /\ Counted(r, given \cup Range(object.choices), doubt)
    BY <1>3, <1>4, <1>7, <1>10, <2>1, ChoicesCounted
  <2>3. GivenChoices(more) = given \cup Range(object.choices)
    BY <1>2, <1>11
  <2>4. (Upset(more) \/ warned) = doubt
    <3>1. Upset(more) \in BOOLEAN
      BY DEF Upset
    <3>2. Upset(more) \/ warned <=> doubt
      BY <1>2, <1>9, <1>11 DEF doubt
    <3> QED
      BY <1>7, <3>1, <3>2
  <2>5. SameRest(o, r)
    BY <1>10, <2>2 DEF SameRest, SameBytes, SameNumbers
  <2> QED
    BY <2>2, <2>3, <2>4, <2>5 DEF r, more, object
<1>12. CASE ~Readable(object)
  <2>1. GivenChoices(more) = given /\ (Upset(more) \/ warned) = TRUE
    <3>1. Upset(more) \in BOOLEAN
      BY DEF Upset
    <3> QED
      BY <1>2, <1>12, <3>1
  <2>2. r = markPartial(late) \/ r = markPartial(o)
    BY <1>5, <1>12 DEF Readable
  <2>3. Tracks(late.choices, given)
    BY <1>10 DEF Counted
  <2>4. r \in Observers /\ SameRest(o, r) /\ Counted(r, given, TRUE)
    <3>1. CASE r = markPartial(late)
      <4>1. r \in Observers /\ SameRest(late, r) /\ Counted(r, given, TRUE)
        BY <1>10, <2>3, <3>1, DoubtCounted
      <4> QED
        BY <1>10, <4>1 DEF SameRest, SameBytes, SameNumbers
    <3>2. CASE r = markPartial(o)
      BY <1>8, <3>2, DoubtCounted
    <3> QED
      BY <2>2, <3>1, <3>2
  <2> QED
    BY <2>1, <2>4 DEF r, more, object
<1> QED
  BY <1>11, <1>12

\* observeJSON takes one more text, which is an object or malformed.
LEMMA ObjectHeard ==
    ASSUME NEW o \in Observers, NEW received \in Seq(MeaningSet),
           NEW warned \in BOOLEAN, Heard(o, received, warned),
           NEW text, responseObject(text) \in DOMAIN Objects \cup {"none"}
    PROVE  LET r == observeJSON(o, text)
           IN  /\ r \in Observers /\ SameBytes(o, r)
               /\ Heard(r, Append(received, responseObject(text)), warned)
<1> DEFINE id == responseObject(text)
           object == Objects[id]
           r == observeJSON(o, text)
           more == Append(received, id)
<1>1. id \in MeaningSet /\ "done" \notin DOMAIN Objects /\ "none" \notin DOMAIN Objects
  BY ObjectsAssumption DEF MeaningSet
<1>2. o.streamDone \in BOOLEAN /\ o.stream \in BOOLEAN /\ o.firstOutput \in BOOLEAN
  BY DEF Observers
<1>3. CASE id = "none"
  <2>1. r = markPartial(o)
    BY <1>3 DEF observeJSON
  <2>2. /\ GivenChoices(more) = GivenChoices(received) /\ Objected(more) = Objected(received)
        /\ Upset(more) /\ Range(more) = Range(received) \cup {"none"}
    <3>1. /\ Range(more) = Range(received) \cup {id}
          /\ Objected(more) = Objected(received) \cup IF id \in DOMAIN Objects THEN {id} ELSE {}
          /\ GivenChoices(more) = GivenChoices(received) \cup
               IF id \in DOMAIN Objects /\ Readable(Objects[id])
               THEN Range(Objects[id].choices) ELSE {}
          /\ Upset(more) <=>
               \/ Upset(received) \/ id = "none" \/ "done" \in Range(received)
               \/ id \in DOMAIN Objects /\ ~Readable(Objects[id])
      BY <1>1, MeaningAppended
    <3> HIDE DEF more
    <3> QED
      BY <1>1, <1>3, <3>1
  <2>3. (Upset(more) \/ warned) = TRUE
    BY <2>2 DEF Upset
  <2>4. /\ \A f : UsageOf(more, f) = UsageOf(received, f)
        /\ \A f : TimingOf(more, f) = TimingOf(received, f)
        /\ CacheOf(more) = CacheOf(received)
    BY <1>1, <1>3, NumbersAppended DEF Update
  <2>5. Tracks(o.choices, GivenChoices(received))
    BY DEF Heard, Counted
  <2> HIDE DEF r, more
  <2>6. r \in Observers /\ SameRest(o, r) /\ Counted(r, GivenChoices(received), TRUE)
    BY <2>1, <2>5, DoubtCounted
  <2>7. Numbered(r, more)
    BY <2>4, <2>6 DEF Heard, Numbered, SameRest, SameNumbers
  <2>8. ("done" \in Range(more)) = ("done" \in Range(received))
        /\ Begun(more) = Begun(received)
    BY <2>2 DEF Begun
  <2>9. /\ r.streamDone = ("done" \in Range(more))
        /\ r.firstOutput = (r.stream /\ Begun(more))
    BY <2>6, <2>8 DEF Heard, SameRest, SameBytes
  <2>10. Counted(r, GivenChoices(more), Upset(more) \/ warned) /\ SameBytes(o, r)
    BY <2>2, <2>3, <2>6 DEF SameRest
  <2> QED
    BY <2>6, <2>7, <2>9, <2>10 DEF Heard, r, more
<1>4. CASE id \in DOMAIN Objects
  <2> DEFINE seen == observeResponse(o, object)
             first == seen.firstOutput \/ (o.stream /\ hasGeneratedDelta(object))
             begun == [seen EXCEPT !.firstOutput = first]
  <2>1. r = observeNumbers(begun, object)
    <3>1. begun = [seen EXCEPT !.firstOutput = @ \/ (o.stream /\ hasGeneratedDelta(object))]
      BY Zenon
    <3> HIDE DEF begun
    <3> QED
      BY <1>1, <1>4, <3>1, Zenon DEF observeJSON
  <2>2. /\ seen \in Observers /\ SameRest(o, seen)
        /\ Counted(seen, GivenChoices(more), Upset(more) \/ warned)
    BY <1>4, ResponseHeard DEF Heard
  <2> HIDE DEF seen
  <2>3. first \in BOOLEAN /\ first = (o.stream /\ Begun(more))
    <3>1. seen.firstOutput = o.firstOutput
      BY <2>2 DEF SameRest
    <3>2. o.firstOutput = (o.stream /\ Begun(received))
      BY DEF Heard
    <3>3. Objected(more) = Objected(received) \cup {id}
      BY <1>1, <1>4, MeaningAppended
    <3>4. Begun(more) <=> Begun(received) \/ hasGeneratedDelta(object)
      BY <3>3 DEF Begun
    <3> QED
      BY <1>2, <3>1, <3>2, <3>4
  <2> HIDE DEF first
  <2>4. /\ begun \in Observers /\ SameBytes(o, begun)
        /\ begun.choices = seen.choices /\ begun.partial = seen.partial
        /\ begun.streamDone = o.streamDone /\ begun.firstOutput = first
        /\ begun.tokens = o.tokens /\ begun.timings = o.timings
        /\ begun.cacheFromUsage = o.cacheFromUsage
    <3>1. /\ begun \in Observers /\ SameRest(seen, [begun EXCEPT !.firstOutput = seen.firstOutput])
          /\ begun.choices = seen.choices /\ begun.partial = seen.partial
          /\ begun.streamDone = seen.streamDone /\ begun.firstOutput = first
          /\ begun.tokens = seen.tokens /\ begun.timings = seen.timings
          /\ begun.cacheFromUsage = seen.cacheFromUsage /\ SameBytes(seen, begun)
      BY <2>2, <2>3 DEF Observers, SameRest, SameBytes, SameNumbers
    <3> HIDE DEF begun
    <3> QED
      BY <2>2, <3>1 DEF SameRest, SameBytes, SameNumbers
  <2> HIDE DEF begun, object
  <2>5. Numbered(begun, received)
    BY <2>4 DEF Heard, Numbered
  <2>6. /\ r \in Observers /\ SameBytes(begun, r)
        /\ r.choices = begun.choices /\ r.partial = begun.partial
        /\ r.streamDone = begun.streamDone /\ r.firstOutput = begun.firstOutput
        /\ Numbered(r, more)
    <3> HIDE DEF r, more
    <3> QED
      BY <1>4, <2>1, <2>4, <2>5, NumbersHeard DEF object, more
  <2> HIDE DEF r
  <2>7. Counted(r, GivenChoices(more), Upset(more) \/ warned)
    BY <2>2, <2>4, <2>6 DEF Counted
  <2>8. Range(more) = Range(received) \cup {id}
    BY <1>1, MeaningAppended
  <2>9. r.streamDone = ("done" \in Range(more))
    <3>1. ("done" \in Range(more)) = ("done" \in Range(received))
      BY <1>1, <1>4, <2>8
    <3> QED
      BY <2>4, <2>6, <3>1 DEF Heard
  <2>10. SameBytes(o, r)
    BY <2>4, <2>6 DEF SameBytes
  <2>11. r.firstOutput = (r.stream /\ Begun(more))
    BY <2>3, <2>4, <2>6, <2>10 DEF SameBytes
  <2> HIDE DEF more
  <2> QED
    BY <2>6, <2>7, <2>9, <2>10, <2>11 DEF Heard, r, more
<1> QED
  BY <1>3, <1>4

\* [DONE] is taken once, and marks what follows it.
LEMMA DoneHeard ==
    ASSUME NEW o \in Observers, NEW received \in Seq(MeaningSet),
           NEW warned \in BOOLEAN, Heard(o, received, warned)
    PROVE  LET r == markStreamDone(o)
           IN  /\ r \in Observers /\ SameBytes(o, r)
               /\ Heard(r, Append(received, "done"), warned)
<1> DEFINE r == markStreamDone(o)
           more == Append(received, "done")
<1>1. "done" \in MeaningSet /\ "done" \notin DOMAIN Objects
  BY ObjectsAssumption DEF MeaningSet
<1>2. /\ r \in Observers /\ SameBytes(o, r) /\ SameNumbers(o, r)
      /\ r.choices = o.choices /\ r.streamDone = TRUE /\ r.firstOutput = o.firstOutput
      /\ r.partial = (o.partial \/ o.streamDone)
  BY DEF markStreamDone, Observers, SameBytes, SameNumbers
<1>3. /\ GivenChoices(more) = GivenChoices(received) /\ Objected(more) = Objected(received)
      /\ Upset(more) <=> Upset(received) \/ "done" \in Range(received)
      /\ Range(more) = Range(received) \cup {"done"}
  <2>1. /\ Range(more) = Range(received) \cup {"done"}
        /\ Objected(more) = Objected(received)
                             \cup IF "done" \in DOMAIN Objects THEN {"done"} ELSE {}
        /\ GivenChoices(more) = GivenChoices(received) \cup
             IF "done" \in DOMAIN Objects /\ Readable(Objects["done"])
             THEN Range(Objects["done"].choices) ELSE {}
        /\ Upset(more) <=>
             \/ Upset(received) \/ "done" = "none" \/ "done" \in Range(received)
             \/ "done" \in DOMAIN Objects /\ ~Readable(Objects["done"])
    BY <1>1, MeaningAppended
  <2> HIDE DEF more
  <2> QED
    BY <1>1, <2>1
<1>4. /\ \A f : UsageOf(more, f) = UsageOf(received, f)
      /\ \A f : TimingOf(more, f) = TimingOf(received, f)
      /\ CacheOf(more) = CacheOf(received)
  BY <1>1, NumbersAppended DEF Update
<1> HIDE DEF r, more
<1>5. Numbered(r, more)
  BY <1>2, <1>4 DEF Heard, Numbered, SameNumbers
<1>6. r.firstOutput = (r.stream /\ Begun(more))
  BY <1>2, <1>3 DEF Heard, Begun, SameBytes
<1>7. ("done" \in Range(more)) = TRUE
  BY <1>3
<1>8. Counted(r, GivenChoices(more), Upset(more) \/ warned)
  <2>1. /\ Tracks(o.choices, GivenChoices(received))
        /\ o.partial = (Upset(received) \/ warned \/ Doubtful(GivenChoices(received)))
        /\ o.streamDone = ("done" \in Range(received))
    BY DEF Heard, Counted
  <2>2. r.partial = (Upset(more) \/ warned \/ Doubtful(GivenChoices(more)))
    BY <1>2, <1>3, <2>1
  <2> QED
    BY <1>2, <1>3, <2>1, <2>2 DEF Counted
<1> QED
  BY <1>2, <1>5, <1>6, <1>7, <1>8 DEF Heard, r, more

\* A new observer was told nothing.
LEMMA NothingHeard ==
    ASSUME NEW stream \in BOOLEAN
    PROVE  LET o == newResponseObserver(stream)
           IN  o \in Observers /\ Heard(o, <<>>, FALSE)
<1> DEFINE o == newResponseObserver(stream)
<1>1. NoTokens \in [Tokens -> Counts] /\ \A f \in Tokens : NoTokens[f] = Nil
  BY DEF NoTokens, Tokens, Counts, Nil
<1>2. NoTimings \in [Timings -> Counts] /\ \A f \in Timings : NoTimings[f] = Nil
  BY DEF NoTimings, Timings, Counts, Nil
<1>3. o \in Observers
  BY <1>1, <1>2, ObserverAssumption DEF newResponseObserver, Observers, Indices, ChoiceStates
<1>4. /\ o.tokens = NoTokens /\ o.timings = NoTimings /\ o.cacheFromUsage = FALSE
      /\ o.partial = FALSE /\ o.streamDone = FALSE /\ o.firstOutput = FALSE
      /\ \A i \in Indices : /\ o.choices[i].seen = FALSE /\ o.choices[i].reason = "none"
                            /\ o.choices[i].conflict = FALSE
  BY DEF newResponseObserver, Indices
<1>5. DOMAIN <<>> = {} /\ Range(<<>>) = {} /\ Len(<<>>) = 0 /\ 1..0 = {}
  BY DEF Range
<1>6. Objected(<<>>) = {}
  BY <1>5 DEF Objected
<1>7. GivenChoices(<<>>) = {}
  BY <1>6 DEF GivenChoices
<1>8. /\ \A i : OfIndex({}, i) = {}
      /\ \A i : Said({}, i) = {}
  BY DEF OfIndex, Said
<1>9. Upset(<<>>) = FALSE /\ Begun(<<>>) = FALSE
  BY <1>5, <1>6 DEF Upset, Begun
<1>10. Doubtful({}) = FALSE /\ \A i : Contradicts({}, i) = FALSE
  BY <1>8 DEF Doubtful, Contradicts
<1>11. \A v : DOMAIN v = {} => LastOf(v) = Nil
  BY DEF LastOf
<1>12. /\ \A f : UsageOf(<<>>, f) = Nil
       /\ \A f : TimingOf(<<>>, f) = Nil
       /\ CacheOf(<<>>) = Nil
  BY <1>5, <1>11 DEF UsageOf, TimingOf, CacheOf
<1> HIDE DEF o
<1>13. "cached" \in Tokens
  BY DEF Tokens, NoTokens
<1>14. Numbered(o, <<>>)
  BY <1>1, <1>2, <1>4, <1>12, <1>13 DEF Numbered, Update
<1>15. Tracks(o.choices, {})
  BY <1>4, <1>8, <1>10 DEF Tracks
<1>16. Counted(o, GivenChoices(<<>>), Upset(<<>>) \/ FALSE)
  BY <1>4, <1>7, <1>9, <1>10, <1>15 DEF Counted
<1>17. o.streamDone = ("done" \in Range(<<>>)) /\ o.firstOutput = (o.stream /\ Begun(<<>>))
  <2>1. ("done" \in Range(<<>>)) = FALSE /\ (o.stream /\ Begun(<<>>)) = FALSE
    BY <1>5, <1>9
  <2> QED
    BY <1>4, <2>1
<1> QED
  BY <1>3, <1>14, <1>16, <1>17 DEF Heard, o

-----------------------------------------------------------------------------
(* Lines and events, one after another.                                    *)

LEMMA PrefixesOfAppend ==
    ASSUME NEW S, NEW s \in Seq(S), NEW x \in S
    PROVE  /\ Append(s, x) \in Seq(S) /\ Len(Append(s, x)) = Len(s) + 1
           /\ SubSeq(Append(s, x), 1, Len(s) + 1) = Append(s, x)
           /\ \A n \in 0..Len(s) : SubSeq(Append(s, x), 1, n) = SubSeq(s, 1, n)
<1> DEFINE more == Append(s, x)
           N == Len(s)
<1>1. N \in Nat /\ more \in Seq(S) /\ Len(more) = N + 1
  BY AppendProperties
<1>2. more = s \o <<x>> /\ <<x>> \in Seq(S)
  BY AppendIsConcat
<1>3. s = SubSeq(more, 1, N)
  BY <1>2, PrefixOfConcat
<1> HIDE DEF more, N
<1>4. SubSeq(more, 1, N + 1) = more
  BY <1>1, SubSeqFull
<1>5. ASSUME NEW n \in 0..N
      PROVE  SubSeq(more, 1, n) = SubSeq(s, 1, n)
  <2>1. N \in 0..Len(more) /\ n \in 0..N
    BY <1>1
  <2>2. SubSeq(SubSeq(more, 1, N), 1, n) = SubSeq(more, 1, n)
    BY <1>1, <2>1, PrefixOfPrefix
  <2> QED
    BY <1>3, <2>2
<1> QED
  BY <1>1, <1>4, <1>5 DEF more, N

Texts == Seq(ResponseBytes)
Divided == [ended: Seq(Texts), rest: Texts]

LEMMA BytesTyped == LF \in ResponseBytes
  BY DEF LF, Byte, ResponseBytes

\* A line without its CR is a shorter text.
LEMMA LineTrimmed ==
    ASSUME NEW raw \in Texts
    PROVE  /\ Trimmed(raw) \in Texts
           /\ Trimmed(raw) # <<>> => Tail(Trimmed(raw)) \in Texts
<1>1. Trimmed(raw) \in Texts
  <2>1. CASE raw # <<>> /\ raw[Len(raw)].t = "cr"
    <3>1. Len(raw) \in Nat /\ Len(raw) >= 1
      BY <2>1, EmptySeq DEF Texts
    <3>2. Len(raw) - 1 \in 0..(Len(raw) - 1)
      BY <3>1
    <3>3. SubSeq(raw, 1, Len(raw) - 1) \in Seq(ResponseBytes)
      BY <3>2, Prefixes DEF Texts
    <3> QED
      BY <2>1, <3>3 DEF Trimmed, Texts
  <2>2. CASE ~ (raw # <<>> /\ raw[Len(raw)].t = "cr")
    BY <2>2 DEF Trimmed
  <2> QED
    BY <2>1, <2>2
<1>2. ASSUME Trimmed(raw) # <<>>
      PROVE  Tail(Trimmed(raw)) \in Texts
  BY <1>1, <1>2 DEF Texts
<1> QED
  BY <1>1, <1>2

\* Data lines are joined by a line feed.
LEMMA EventJoined ==
    ASSUME NEW event \in Texts, NEW data \in Texts
    PROVE  Joined(event, data) \in Texts
<1>1. <<LF>> \in Seq(ResponseBytes)
  BY BytesTyped
<1> QED
  BY <1>1, ConcatProperties DEF Joined, Texts

\* One more line leaves or ends the event before it.
LEMMA LineAdded ==
    ASSUME NEW events \in Divided, NEW raw \in Texts
    PROVE  AddLine(events, raw) \in Divided
<1> DEFINE line == Trimmed(raw)
<1>1. events.ended \in Seq(Texts) /\ events.rest \in Texts
  BY DEF Divided
<1>2. line \in Texts /\ (line # <<>> => Tail(line) \in Texts)
  BY LineTrimmed
<1>3. line # <<>> => Joined(events.rest, Tail(line)) \in Texts
  BY <1>1, <1>2, EventJoined
<1>4. <<>> \in Texts
  BY DEF Texts
<1>5. Append(events.ended, events.rest) \in Seq(Texts)
  BY <1>1
<1>6. AddLine(events, raw) =
        IF line = <<>>
        THEN [ended |-> IF events.rest = <<>> THEN events.ended
                        ELSE Append(events.ended, events.rest),
              rest |-> <<>>]
        ELSE IF Head(line).t = "data:"
        THEN [events EXCEPT !.rest = Joined(@, Tail(line))]
        ELSE events
  BY DEF AddLine
<1> HIDE DEF line, Texts
<1>7. CASE line = <<>>
  BY <1>1, <1>4, <1>5, <1>6, <1>7 DEF Divided
<1>8. CASE line # <<>>
  <2>1. [events EXCEPT !.rest = Joined(@, Tail(line))]
          = [events EXCEPT !.rest = Joined(events.rest, Tail(line))]
    BY Zenon
  <2>2. [events EXCEPT !.rest = Joined(events.rest, Tail(line))] \in Divided
    BY <1>3, <1>8 DEF Divided
  <2> QED
    BY <1>6, <1>8, <2>1, <2>2
<1> QED
  BY <1>7, <1>8

LEMMA EventsTyped ==
    ASSUME NEW lines \in Seq(Texts)
    PROVE  Events(lines) \in Divided
<1> DEFINE N == Len(lines)
<1>1. PICK u : EventsTurns(u, lines)
  BY EventsLoop
<1>2. N \in Nat /\ \A i \in 1..N : lines[i] \in Texts
  OBVIOUS
<1> DEFINE P == {n \in 0..N : u[n] \in Divided}
<1>3. Nothing \in Divided
  BY DEF Nothing, Divided, Texts
<1>4. 0 \in P
  BY <1>1, <1>2, <1>3 DEF EventsTurns
<1>5. ASSUME NEW n \in 0..(N - 1), n \in P
      PROVE  n + 1 \in P
  <2>1. n + 1 \in 1..N /\ n + 1 \in 0..N /\ (n + 1) - 1 = n
    BY <1>2
  <2>2. u[n + 1] = AddLine(u[n], lines[n + 1])
    BY <1>1, <2>1 DEF EventsTurns
  <2>3. u[n] \in Divided /\ lines[n + 1] \in Texts
    BY <1>2, <1>5, <2>1
  <2>4. u[n + 1] \in Divided
    BY <2>2, <2>3, LineAdded
  <2> QED
    BY <2>1, <2>4
<1> HIDE DEF P, N
<1>6. \A n \in 0..N : n \in P
  BY <1>2, <1>4, <1>5, Positions
<1>7. N \in P
  BY <1>2, <1>6
<1> QED
  BY <1>1, <1>7 DEF EventsTurns, P, N

LEMMA MeaningTyped ==
    ASSUME NEW text
    PROVE  /\ responseObject(text) \in DOMAIN Objects \cup {"none"}
           /\ Meaning(text) \in MeaningSet
<1>1. responseObject(text) \in DOMAIN Objects \cup {"none"}
  BY DEF responseObject
<1> QED
  BY <1>1 DEF Meaning, MeaningSet

\* The meanings of texts with one more text.
LEMMA MeaningsAppend ==
    ASSUME NEW texts \in Seq(Texts), NEW text \in Texts
    PROVE  /\ Meanings(texts) \in Seq(MeaningSet)
           /\ Meanings(Append(texts, text)) = Append(Meanings(texts), Meaning(text))
<1> DEFINE n == Len(texts)
           more == Append(texts, text)
<1>1. n \in Nat /\ more \in Seq(Texts) /\ Len(more) = n + 1 /\ more[n + 1] = text
      /\ \A k \in 1..n : more[k] = texts[k]
  BY AppendProperties
<1> HIDE DEF more, n
<1>2. Meanings(texts) = [k \in 1..n |-> Meaning(texts[k])]
  BY DEF Meanings, n
<1>3. Meanings(more) = [k \in 1..(n + 1) |-> Meaning(more[k])]
  BY <1>1 DEF Meanings
<1>4. \A k : Meaning(texts[k]) \in MeaningSet /\ Meaning(more[k]) \in MeaningSet
  BY MeaningTyped
<1>5. /\ Meanings(texts) \in Seq(MeaningSet) /\ Len(Meanings(texts)) = n
      /\ \A k \in 1..n : Meanings(texts)[k] = Meaning(texts[k])
  BY <1>1, <1>2, <1>4
<1>6. /\ Meanings(more) \in Seq(MeaningSet) /\ Len(Meanings(more)) = n + 1
      /\ \A k \in 1..(n + 1) : Meanings(more)[k] = Meaning(more[k])
  BY <1>1, <1>3, <1>4
<1> DEFINE longer == Append(Meanings(texts), Meaning(text))
<1>7. /\ longer \in Seq(MeaningSet) /\ Len(longer) = n + 1
      /\ \A k \in 1..n : longer[k] = Meanings(texts)[k]
      /\ longer[n + 1] = Meaning(text)
  BY <1>5, MeaningTyped, AppendProperties
<1> HIDE DEF longer
<1>8. \A k \in 1..(n + 1) : k \in 1..n \/ k = n + 1
  BY <1>1
<1>9. \A k \in 1..(n + 1) : Meanings(more)[k] = longer[k]
  BY <1>1, <1>5, <1>6, <1>7, <1>8
<1>10. Meanings(more) = longer
  BY <1>6, <1>7, <1>9, SeqEqual
<1> QED
  BY <1>5, <1>10 DEF more, longer

\* Lines fit with one more line if that line and what it makes of the event do.
LEMMA FitAppended ==
    ASSUME NEW lines \in Seq(Texts), NEW raw \in Texts
    PROVE  LinesFit(Append(lines, raw)) <=>
             /\ LinesFit(lines) /\ Len(raw) <= MaxEventBytes
             /\ Len(Events(Append(lines, raw)).rest) <= MaxEventBytes
<1> DEFINE n == Len(lines)
           more == Append(lines, raw)
<1>1. /\ n \in Nat /\ Len(more) = n + 1 /\ more[n + 1] = raw
      /\ \A k \in 1..n : more[k] = lines[k]
  BY AppendProperties
<1>2. /\ SubSeq(more, 1, n + 1) = more
      /\ \A i \in 0..n : SubSeq(more, 1, i) = SubSeq(lines, 1, i)
  BY PrefixesOfAppend
<1> HIDE DEF more
<1>3. /\ \A k : k \in 1..(n + 1) <=> k \in 1..n \/ k = n + 1
      /\ \A k : k \in 0..(n + 1) <=> k \in 0..n \/ k = n + 1
  BY <1>1
<1> DEFINE fits(s, i) == Len(Events(SubSeq(s, 1, i)).rest) <= MaxEventBytes
<1>4. /\ LinesFit(more) <=> /\ \A k \in 1..(n + 1) : Len(more[k]) <= MaxEventBytes
                            /\ \A k \in 0..(n + 1) : fits(more, k)
      /\ LinesFit(lines) <=> /\ \A k \in 1..n : Len(lines[k]) <= MaxEventBytes
                             /\ \A k \in 0..n : fits(lines, k)
  BY <1>1 DEF LinesFit
<1>5. /\ \A i \in 0..n : fits(more, i) <=> fits(lines, i)
      /\ fits(more, n + 1) <=> Len(Events(more).rest) <= MaxEventBytes
  BY <1>2
<1> HIDE DEF fits, n
<1>6. (\A k \in 1..(n + 1) : Len(more[k]) <= MaxEventBytes) <=>
        (\A k \in 1..n : Len(lines[k]) <= MaxEventBytes) /\ Len(raw) <= MaxEventBytes
  BY <1>1, <1>3
<1>7. (\A k \in 0..(n + 1) : fits(more, k)) <=>
        (\A k \in 0..n : fits(lines, k)) /\ Len(Events(more).rest) <= MaxEventBytes
  BY <1>3, <1>5
<1> QED
  BY <1>4, <1>6, <1>7 DEF more

-----------------------------------------------------------------------------
(* The observer reads the events of lines that fit.                        *)

\* Two observers that differ in nothing but the bytes they keep.
SameTold(o, r) ==
    /\ SameNumbers(o, r) /\ r.stream = o.stream /\ r.choices = o.choices
    /\ r.partial = o.partial /\ r.streamDone = o.streamDone
    /\ r.firstOutput = o.firstOutput
SameJSON(o, r) == r.json = o.json /\ r.jsonOversized = o.jsonOversized

Reading(o, lines, warned) ==
    /\ o.event = Events(lines).rest /\ o.eventOversize = FALSE
    /\ Heard(o, Meanings(Events(lines).ended), warned)
    /\ LinesFit(lines)

\* Something was left out: whatever comes, the response is partial.
Lost(o) == \E given \in SUBSET ChoiceObjects : Counted(o, given, TRUE)

\* Whatever was too large leaves "partial" behind.
LEMMA LostIsPartial ==
    ASSUME NEW o, Lost(o)
    PROVE  o.partial = TRUE
  BY DEF Lost, Counted

\* What was heard does not depend on the buffers.
LEMMA HeardKept ==
    ASSUME NEW o, NEW r, NEW received, NEW warned, SameTold(o, r)
    PROVE  /\ Heard(o, received, warned) => Heard(r, received, warned)
           /\ Lost(o) => Lost(r)
<1>1. /\ r.choices = o.choices /\ r.partial = o.partial /\ r.streamDone = o.streamDone
      /\ r.firstOutput = o.firstOutput /\ r.stream = o.stream
      /\ r.tokens = o.tokens /\ r.timings = o.timings
      /\ r.cacheFromUsage = o.cacheFromUsage
  BY DEF SameTold, SameNumbers
<1>2. \A given, doubt : Counted(o, given, doubt) => Counted(r, given, doubt)
  BY <1>1 DEF Counted
<1>3. Numbered(o, received) => Numbered(r, received)
  BY <1>1 DEF Numbered
<1>4. Heard(o, received, warned) => Heard(r, received, warned)
  BY <1>1, <1>2, <1>3 DEF Heard
<1>5. Lost(o) => Lost(r)
  BY <1>2 DEF Lost
<1> QED
  BY <1>4, <1>5

\* To lose something is to be marked partial.
LEMMA LostWhenMarked ==
    ASSUME NEW o \in Observers, NEW given \in SUBSET ChoiceObjects,
           Tracks(o.choices, given)
    PROVE  Lost(markPartial(o))
  BY DoubtCounted DEF Lost

\* Whatever it has lost, the choices of an observer track what some choices said.
LEMMA HeardTracks ==
    ASSUME NEW o, NEW received, NEW warned, Heard(o, received, warned) \/ Lost(o)
    PROVE  \E given \in SUBSET ChoiceObjects : Tracks(o.choices, given)
<1>1. CASE Heard(o, received, warned)
  BY <1>1, ChoicesGiven DEF Heard, Counted
<1>2. CASE Lost(o)
  BY <1>2 DEF Lost, Counted
<1> QED
  BY <1>1, <1>2

\* What comes after a loss does not make up for it: an object,
LEMMA LostResponse ==
    ASSUME NEW o \in Observers, Lost(o), NEW id \in DOMAIN Objects
    PROVE  LET r == observeResponse(o, Objects[id])
           IN  r \in Observers /\ SameRest(o, r) /\ Lost(r)
<1> DEFINE object == Objects[id]
           r == observeResponse(o, object)
           late == IF o.streamDone THEN markPartial(o) ELSE o
<1>1. PICK given \in SUBSET ChoiceObjects : Counted(o, given, TRUE)
  BY DEF Lost
<1>2. object.choices \in Seq(ChoiceObjects) /\ Range(object.choices) \in SUBSET ChoiceObjects
  BY ObjectsTyped
<1>3. \/ r = markPartial(o) \/ r = markPartial(late)
      \/ r = observeChoices(late, object.choices)
  BY DEF observeResponse, observeObject
<1> HIDE DEF object, r
<1>4. Tracks(o.choices, given) /\ SameRest(o, o)
  BY <1>1 DEF Counted, SameRest, SameBytes, SameNumbers
<1>5. /\ markPartial(o) \in Observers /\ SameRest(o, markPartial(o))
      /\ Counted(markPartial(o), given, TRUE)
  BY <1>4, DoubtCounted
<1>6. late \in Observers /\ SameRest(o, late) /\ Counted(late, given, TRUE)
  BY <1>1, <1>4, <1>5
<1> HIDE DEF late
<1>7. /\ markPartial(late) \in Observers /\ SameRest(late, markPartial(late))
      /\ Counted(markPartial(late), given, TRUE)
  BY <1>6, DoubtCounted DEF Counted
<1>8. LET s == observeChoices(late, object.choices)
      IN  /\ s \in Observers /\ SameRest(late, s)
          /\ Counted(s, given \cup Range(object.choices), TRUE)
  BY <1>2, <1>6, ChoicesCounted
<1>9. \A s : SameRest(late, s) => SameRest(o, s)
  BY <1>6 DEF SameRest, SameBytes, SameNumbers
<1>10. given \cup Range(object.choices) \in SUBSET ChoiceObjects
  BY <1>2
<1> HIDE DEF ChoiceObjects
<1>11. r \in Observers /\ SameRest(o, r)
  BY <1>3, <1>5, <1>7, <1>8, <1>9
<1>12. Counted(r, given, TRUE) \/ Counted(r, given \cup Range(object.choices), TRUE)
  BY <1>3, <1>5, <1>7, <1>8
<1>13. Lost(r)
  BY <1>10, <1>12 DEF Lost
<1> QED
  BY <1>11, <1>13 DEF object, r

\* a text,
LEMMA LostObject ==
    ASSUME NEW o \in Observers, Lost(o), NEW text
    PROVE  LET r == observeJSON(o, text)
           IN  r \in Observers /\ SameBytes(o, r) /\ Lost(r)
<1> DEFINE id == responseObject(text)
           object == Objects[id]
           r == observeJSON(o, text)
<1>1. CASE id = "none"
  <2>1. r = markPartial(o)
    BY <1>1 DEF observeJSON
  <2>2. PICK given \in SUBSET ChoiceObjects : Tracks(o.choices, given)
    BY DEF Lost, Counted
  <2> HIDE DEF r
  <2> QED
    BY <2>1, <2>2, DoubtCounted, LostWhenMarked DEF SameRest, r
<1>2. CASE id # "none"
  <2>0. id \in DOMAIN Objects
    BY <1>2, MeaningTyped
  <2> DEFINE seen == observeResponse(o, object)
             first == seen.firstOutput \/ (o.stream /\ hasGeneratedDelta(object))
             begun == [seen EXCEPT !.firstOutput = first]
  <2>1. r = observeNumbers(begun, object)
    <3>1. begun = [seen EXCEPT !.firstOutput = @ \/ (o.stream /\ hasGeneratedDelta(object))]
      BY Zenon
    <3> HIDE DEF begun
    <3> QED
      BY <1>2, <3>1, Zenon DEF observeJSON
  <2>2. seen \in Observers /\ SameRest(o, seen) /\ Lost(seen)
    BY <2>0, LostResponse
  <2> HIDE DEF seen
  <2>3. first \in BOOLEAN
    BY DEF Observers
  <2> HIDE DEF first
  <2>4. /\ begun \in Observers /\ SameBytes(seen, begun)
        /\ begun.choices = seen.choices /\ begun.partial = seen.partial
    BY <2>2, <2>3 DEF Observers, SameBytes
  <2> HIDE DEF begun
  <2>5. /\ object.usage \in [Tokens -> Counts] /\ object.timings \in [Timings -> Counts]
        /\ object.cacheN \in Counts
    BY <2>0, ObjectsTyped
  <2> HIDE DEF object
  <2>6. /\ r \in Observers /\ SameBytes(begun, r)
        /\ r.choices = begun.choices /\ r.partial = begun.partial
    <3> HIDE DEF r
    <3>1. "cached" \in Tokens
      BY DEF Tokens, NoTokens
    <3> QED
      BY <2>1, <2>4, <2>5, <3>1 DEF observeNumbers, Observers, Update, SameBytes
  <2> HIDE DEF r
  <2>7. Lost(r)
    BY <2>2, <2>4, <2>6 DEF Lost, Counted
  <2>8. SameBytes(o, r)
    BY <2>2, <2>4, <2>6 DEF SameRest, SameBytes
  <2> QED
    BY <2>6, <2>7, <2>8 DEF r
<1> QED
  BY <1>1, <1>2

\* or [DONE].
LEMMA LostDone ==
    ASSUME NEW o \in Observers, Lost(o)
    PROVE  LET r == markStreamDone(o)
           IN  r \in Observers /\ SameBytes(o, r) /\ Lost(r)
<1> DEFINE r == markStreamDone(o)
<1>1. o.partial = TRUE
  BY LostIsPartial
<1>2. /\ r \in Observers /\ SameBytes(o, r) /\ r.choices = o.choices
      /\ r.partial = (o.partial \/ o.streamDone)
  BY DEF markStreamDone, Observers, SameBytes
<1> HIDE DEF r
<1>3. r.partial = o.partial
  BY <1>1, <1>2
<1> QED
  BY <1>2, <1>3 DEF Lost, Counted, r

LEMMA EmptyText == <<>> \in Texts
  BY DEF Texts

LEMMA LineSet ==
    ASSUME NEW o \in Observers, NEW line \in Texts
    PROVE  LET r == [o EXCEPT !.line = line]
           IN  /\ r \in Observers /\ SameTold(o, r) /\ SameJSON(o, r)
               /\ r.line = line /\ r.event = o.event /\ r.eventOversize = o.eventOversize
  BY DEF Observers, SameTold, SameNumbers, SameJSON, Texts

LEMMA EventSet ==
    ASSUME NEW o \in Observers, NEW event \in Texts
    PROVE  LET r == [o EXCEPT !.event = event]
           IN  /\ r \in Observers /\ SameTold(o, r) /\ SameJSON(o, r)
               /\ r.line = o.line /\ r.event = event /\ r.eventOversize = o.eventOversize
  BY DEF Observers, SameTold, SameNumbers, SameJSON, Texts

LEMMA OversizeSet ==
    ASSUME NEW o \in Observers, NEW big \in BOOLEAN
    PROVE  LET r == [o EXCEPT !.eventOversize = big]
           IN  /\ r \in Observers /\ SameTold(o, r) /\ SameJSON(o, r)
               /\ r.line = o.line /\ r.event = o.event /\ r.eventOversize = big
  BY DEF Observers, SameTold, SameNumbers, SameJSON

LEMMA EventCleared ==
    ASSUME NEW o \in Observers
    PROVE  LET r == [o EXCEPT !.event = <<>>, !.eventOversize = FALSE]
           IN  /\ r \in Observers /\ SameTold(o, r) /\ SameJSON(o, r)
               /\ r.line = o.line /\ r.event = <<>> /\ r.eventOversize = FALSE
<1> DEFINE a == [o EXCEPT !.event = <<>>]
           b == [a EXCEPT !.eventOversize = FALSE]
           r == [o EXCEPT !.event = <<>>, !.eventOversize = FALSE]
<1>1. r = b
  BY Zenon
<1>2. /\ a \in Observers /\ SameTold(o, a) /\ SameJSON(o, a)
      /\ a.line = o.line /\ a.event = <<>>
  BY EmptyText, EventSet
<1> HIDE DEF a
<1>3. /\ b \in Observers /\ SameTold(a, b) /\ SameJSON(a, b)
      /\ b.line = a.line /\ b.event = a.event /\ b.eventOversize = FALSE
  BY <1>2, OversizeSet
<1> HIDE DEF b, r
<1> QED
  BY <1>1, <1>2, <1>3 DEF SameTold, SameNumbers, SameJSON, r

\* Too large: it is dropped.
LEMMA OversizeMarked ==
    ASSUME NEW o \in Observers
    PROVE  LET r == Oversized(o)
           IN  /\ r \in Observers /\ SameJSON(o, r) /\ r.stream = o.stream
               /\ r.line = o.line /\ r.choices = o.choices /\ r.partial = TRUE
<1> DEFINE b == [o EXCEPT !.eventOversize = TRUE]
           r == Oversized(o)
<1>1. b \in Observers /\ SameTold(o, b) /\ SameJSON(o, b) /\ b.line = o.line
  BY OversizeSet
<1>2. r = markPartial(b)
  BY DEF Oversized
<1> HIDE DEF b, r
<1>3. /\ r \in Observers /\ SameRest(b, r) /\ r.choices = b.choices /\ r.partial = TRUE
  BY <1>1, <1>2, PartialMarked
<1> QED
  BY <1>1, <1>3 DEF SameRest, SameBytes, SameTold, SameJSON, r

LEMMA EventMarked ==
    ASSUME NEW o \in Observers
    PROVE  LET r == Oversized([o EXCEPT !.event = <<>>])
           IN  /\ r \in Observers /\ SameJSON(o, r) /\ r.stream = o.stream
               /\ r.line = o.line /\ r.choices = o.choices /\ r.partial = TRUE
<1> DEFINE a == [o EXCEPT !.event = <<>>]
<1>1. a \in Observers /\ SameTold(o, a) /\ SameJSON(o, a) /\ a.line = o.line
  BY EmptyText, EventSet
<1> HIDE DEF a
<1>2. /\ Oversized(a) \in Observers /\ SameJSON(a, Oversized(a))
      /\ Oversized(a).stream = a.stream /\ Oversized(a).line = a.line
      /\ Oversized(a).choices = a.choices /\ Oversized(a).partial = TRUE
  BY <1>1, OversizeMarked
<1>3. /\ Oversized(a) \in Observers /\ SameJSON(o, Oversized(a))
      /\ Oversized(a).stream = o.stream /\ Oversized(a).line = o.line
      /\ Oversized(a).choices = o.choices /\ Oversized(a).partial = TRUE
  BY <1>1, <1>2 DEF SameTold, SameJSON
<1> QED
  BY <1>3 DEF a

LEMMA LineMarked ==
    ASSUME NEW o \in Observers
    PROVE  LET r == Oversized([o EXCEPT !.line = <<>>])
           IN  /\ r \in Observers /\ SameJSON(o, r) /\ r.stream = o.stream
               /\ r.line = <<>> /\ r.choices = o.choices /\ r.partial = TRUE
<1> DEFINE a == [o EXCEPT !.line = <<>>]
<1>1. a \in Observers /\ SameTold(o, a) /\ SameJSON(o, a) /\ a.line = <<>>
  BY EmptyText, LineSet
<1> HIDE DEF a
<1>2. /\ Oversized(a) \in Observers /\ SameJSON(a, Oversized(a))
      /\ Oversized(a).stream = a.stream /\ Oversized(a).line = a.line
      /\ Oversized(a).choices = a.choices /\ Oversized(a).partial = TRUE
  BY <1>1, OversizeMarked
<1>3. /\ Oversized(a) \in Observers /\ SameJSON(o, Oversized(a))
      /\ Oversized(a).stream = o.stream /\ Oversized(a).line = <<>>
      /\ Oversized(a).choices = o.choices /\ Oversized(a).partial = TRUE
  BY <1>1, <1>2 DEF SameTold, SameJSON
<1> QED
  BY <1>3 DEF a

\* Nor does the end of an event,
LEMMA LostEvent ==
    ASSUME NEW o \in Observers, Lost(o)
    PROVE  LET r == consumeSSEEvent(o)
           IN  /\ r \in Observers /\ r.stream = o.stream /\ r.line = o.line
               /\ SameJSON(o, r) /\ Lost(r)
<1> DEFINE r == consumeSSEEvent(o)
           seen == IF o.eventOversize \/ o.event = <<>> THEN o
                   ELSE IF Solid(o.event) = <<Byte("done")>> THEN markStreamDone(o)
                   ELSE observeJSON(o, o.event)
<1>1. seen \in Observers /\ SameBytes(o, seen) /\ Lost(seen)
  BY LostDone, LostObject DEF SameBytes
<1>2. r = [seen EXCEPT !.event = <<>>, !.eventOversize = FALSE]
  BY DEF consumeSSEEvent
<1> HIDE DEF seen, r
<1>3. /\ r \in Observers /\ SameTold(seen, r) /\ SameJSON(seen, r) /\ r.line = seen.line
  BY <1>1, <1>2, EventCleared
<1>4. Lost(r)
  BY <1>1, <1>3, HeardKept
<1> QED
  BY <1>1, <1>3, <1>4 DEF SameBytes, SameTold, SameJSON, r

\* or a line.
LEMMA LostLine ==
    ASSUME NEW o \in Observers, Lost(o), NEW raw \in Texts
    PROVE  LET r == consumeSSELine(o, raw)
           IN  /\ r \in Observers /\ r.stream = o.stream /\ r.line = o.line
               /\ SameJSON(o, r) /\ Lost(r)
<1> DEFINE line == Trimmed(raw)
           joined == Joined(o.event, Tail(line))
           r == consumeSSELine(o, raw)
           over == Oversized([o EXCEPT !.event = <<>>])
           more == [o EXCEPT !.event = joined]
<1>1. \/ line = <<>> /\ r = consumeSSEEvent(o)
      \/ r = o
      \/ r = over
      \/ line # <<>> /\ r = more
  BY DEF consumeSSELine
<1>2. line # <<>> => joined \in Texts
  <2>1. o.event \in Texts
    BY DEF Observers, Texts
  <2> QED
    BY <2>1, LineTrimmed, EventJoined
<1>3. PICK given \in SUBSET ChoiceObjects : Counted(o, given, TRUE)
  BY DEF Lost
<1> HIDE DEF line, joined, ChoiceObjects
<1>4. CASE line = <<>> /\ r = consumeSSEEvent(o)
  BY <1>4, LostEvent
<1>5. CASE r = o
  BY <1>5 DEF SameJSON
<1>6. CASE r = over
  <2>1. /\ over \in Observers /\ SameJSON(o, over) /\ over.stream = o.stream
        /\ over.line = o.line /\ over.choices = o.choices /\ over.partial = TRUE
    BY EventMarked
  <2>2. o.partial = TRUE
    BY LostIsPartial
  <2> HIDE DEF over
  <2>3. Lost(over)
    BY <2>1, <2>2 DEF Lost, Counted
  <2> HIDE DEF r
  <2> QED
    BY <1>6, <2>1, <2>3 DEF r
<1>7. CASE line # <<>> /\ r = more
  <2>1. more \in Observers /\ SameTold(o, more) /\ SameJSON(o, more) /\ more.line = o.line
    BY <1>2, <1>7, EventSet
  <2> HIDE DEF more
  <2>2. Lost(more) /\ more.stream = o.stream
    BY <2>1, HeardKept DEF SameTold
  <2> HIDE DEF r
  <2> QED
    BY <1>7, <2>1, <2>2 DEF r
<1> QED
  BY <1>1, <1>4, <1>5, <1>6, <1>7

\* A blank line ends the event, and its meaning is heard.
LEMMA EventRead ==
    ASSUME NEW o \in Observers, NEW lines \in Seq(Texts), NEW raw \in Texts,
           NEW warned \in BOOLEAN, Reading(o, lines, warned), Trimmed(raw) = <<>>,
           Len(raw) <= MaxEventBytes
    PROVE  LET r == consumeSSEEvent(o)
           IN  /\ r \in Observers /\ r.stream = o.stream /\ r.line = o.line
               /\ SameJSON(o, r) /\ Reading(r, Append(lines, raw), warned)
<1> DEFINE r == consumeSSEEvent(o)
           more == Append(lines, raw)
           before == Events(lines)
           after == Events(more)
           seen == IF o.eventOversize \/ o.event = <<>> THEN o
                   ELSE IF Solid(o.event) = <<Byte("done")>> THEN markStreamDone(o)
                   ELSE observeJSON(o, o.event)
<1>1. r = [seen EXCEPT !.event = <<>>, !.eventOversize = FALSE]
  BY DEF consumeSSEEvent
<1>2. before \in Divided
  BY EventsTyped
<1>3. after = AddLine(before, raw)
  BY EventsAppend
<1>4. /\ after.ended = IF before.rest = <<>> THEN before.ended
                       ELSE Append(before.ended, before.rest)
      /\ after.rest = <<>>
  BY <1>3 DEF AddLine
<1>5. /\ before.ended \in Seq(Texts) /\ before.rest \in Texts
  BY <1>2 DEF Divided
<1>6. /\ o.event = before.rest /\ o.eventOversize = FALSE
      /\ Heard(o, Meanings(before.ended), warned) /\ LinesFit(lines)
  BY DEF Reading
<1>7. LinesFit(more)
  <2>1. Len(<<>>) <= MaxEventBytes
    BY ObserverAssumption
  <2> QED
    BY <1>4, <1>6, <2>1, FitAppended
<1> HIDE DEF r, more, before, after
<1>8. seen \in Observers /\ SameBytes(o, seen) /\ Heard(seen, Meanings(after.ended), warned)
  <2>1. CASE before.rest = <<>>
    <3>1. seen = o
      BY <1>6, <2>1
    <3> HIDE DEF seen
    <3> QED
      BY <1>4, <1>6, <2>1, <3>1 DEF SameBytes
  <2>2. CASE before.rest # <<>>
    <3>1. /\ Meanings(before.ended) \in Seq(MeaningSet)
          /\ Meanings(after.ended) = Append(Meanings(before.ended), Meaning(o.event))
      BY <1>4, <1>5, <1>6, <2>2, MeaningsAppend
    <3>2. CASE Solid(o.event) = <<Byte("done")>>
      <4>1. seen = markStreamDone(o) /\ Meaning(o.event) = "done"
        BY <1>6, <2>2, <3>2 DEF Meaning
      <4> HIDE DEF seen
      <4> QED
        BY <1>6, <3>1, <4>1, DoneHeard
    <3>3. CASE Solid(o.event) # <<Byte("done")>>
      <4>1. seen = observeJSON(o, o.event) /\ Meaning(o.event) = responseObject(o.event)
        BY <1>6, <2>2, <3>3 DEF Meaning
      <4> HIDE DEF seen
      <4>2. responseObject(o.event) \in DOMAIN Objects \cup {"none"}
        BY MeaningTyped
      <4> QED
        BY <1>6, <3>1, <4>1, <4>2, ObjectHeard
    <3> QED
      BY <3>2, <3>3
  <2> QED
    BY <2>1, <2>2
<1> HIDE DEF seen
<1>9. /\ r \in Observers /\ SameTold(seen, r) /\ SameJSON(seen, r)
      /\ r.line = seen.line /\ r.event = <<>> /\ r.eventOversize = FALSE
  BY <1>1, <1>8, EventCleared
<1>10. Heard(r, Meanings(after.ended), warned)
  BY <1>8, <1>9, HeardKept
<1>11. Reading(r, more, warned)
  BY <1>4, <1>7, <1>9, <1>10 DEF Reading, after
<1> QED
  BY <1>8, <1>9, <1>11 DEF SameBytes, SameTold, SameJSON, r, more

\* consumeSSELine: after one more line the observer stands where the events of
\* all lines put it, or has lost something.
LEMMA LineRead ==
    ASSUME NEW o \in Observers, NEW lines \in Seq(Texts), NEW raw \in Texts,
           NEW warned \in BOOLEAN, Reading(o, lines, warned), Len(raw) <= MaxEventBytes
    PROVE  LET r == consumeSSELine(o, raw)
               more == Append(lines, raw)
           IN  /\ r \in Observers /\ r.stream = o.stream /\ r.line = o.line
               /\ SameJSON(o, r)
               /\ Reading(r, more, warned) \/ (Lost(r) /\ ~LinesFit(more))
<1> DEFINE line == Trimmed(raw)
           joined == Joined(o.event, Tail(line))
           r == consumeSSELine(o, raw)
           longer == Append(lines, raw)
           before == Events(lines)
           after == Events(longer)
<1>1. /\ o.event = before.rest /\ o.eventOversize = FALSE
      /\ Heard(o, Meanings(before.ended), warned) /\ LinesFit(lines)
  BY DEF Reading
<1>2. r = IF line = <<>> THEN consumeSSEEvent(o)
          ELSE IF Head(line).t # "data:" \/ o.eventOversize THEN o
          ELSE IF Len(joined) > MaxEventBytes
          THEN Oversized([o EXCEPT !.event = <<>>])
          ELSE [o EXCEPT !.event = joined]
  BY DEF consumeSSELine
<1>3. before \in Divided
  BY EventsTyped
<1>4. before.ended \in Seq(Texts) /\ before.rest \in Texts
  BY <1>3 DEF Divided
<1>5. line # <<>> => joined \in Texts
  BY <1>1, <1>4, LineTrimmed, EventJoined
<1>6. after = AddLine(before, raw)
  BY EventsAppend
<1>7. LinesFit(longer) <=> Len(after.rest) <= MaxEventBytes
  BY <1>1, FitAppended
<1>8. CASE line = <<>>
  <2>1. r = consumeSSEEvent(o)
    BY <1>2, <1>8
  <2> QED
    BY <1>8, <2>1, EventRead
<1>9. CASE line # <<>> /\ Head(line).t # "data:"
  <2>1. r = o
    BY <1>2, <1>9
  <2>2. after = before
    BY <1>6, <1>9 DEF AddLine
  <2>3. Len(before.rest) <= MaxEventBytes
    <3>1. Len(lines) \in Nat /\ Len(lines) \in 0..Len(lines)
      OBVIOUS
    <3>2. SubSeq(lines, 1, Len(lines)) = lines
      BY SubSeqFull
    <3> QED
      BY <1>1, <3>1, <3>2 DEF LinesFit
  <2> HIDE DEF r, longer, before, after
  <2>4. LinesFit(longer)
    BY <1>7, <2>2, <2>3
  <2>5. Reading(r, longer, warned)
    BY <1>1, <2>1, <2>2, <2>4 DEF Reading, before, after
  <2> QED
    BY <2>1, <2>5 DEF SameJSON, r, longer
<1>10. CASE line # <<>> /\ Head(line).t = "data:"
  <2>1. after = [before EXCEPT !.rest = Joined(before.rest, Tail(line))]
    <3>1. after = [before EXCEPT !.rest = Joined(@, Tail(line))]
      BY <1>6, <1>10 DEF AddLine
    <3> HIDE DEF after, before, line
    <3> QED
      BY <3>1, Zenon
  <2> HIDE DEF after, before, line
  <2>2. after.rest = joined /\ after.ended = before.ended
    BY <1>1, <1>3, <2>1 DEF Divided
  <2> HIDE DEF joined, r, longer
  <2>3. CASE Len(joined) > MaxEventBytes
    <3>1. r = Oversized([o EXCEPT !.event = <<>>])
      BY <1>1, <1>2, <1>10, <2>3
    <3>2. /\ r \in Observers /\ SameJSON(o, r) /\ r.stream = o.stream
          /\ r.line = o.line /\ r.choices = o.choices /\ r.partial = TRUE
      BY <3>1, EventMarked
    <3>3. PICK given \in SUBSET ChoiceObjects : Tracks(o.choices, given)
      BY <1>1, HeardTracks
    <3>4. Lost(r)
      BY <3>2, <3>3 DEF Lost, Counted
    <3>5. ~LinesFit(longer)
      <4>1. Len(joined) \in Nat /\ MaxEventBytes \in Nat
        BY <1>5, <1>10, ObserverAssumption DEF Texts
      <4> QED
        BY <1>7, <2>2, <2>3, <4>1
    <3> QED
      BY <3>2, <3>4, <3>5 DEF r, longer
  <2>4. CASE ~(Len(joined) > MaxEventBytes)
    <3>1. r = [o EXCEPT !.event = joined]
      BY <1>1, <1>2, <1>10, <2>4
    <3>2. /\ r \in Observers /\ SameTold(o, r) /\ SameJSON(o, r)
          /\ r.line = o.line /\ r.event = joined /\ r.eventOversize = o.eventOversize
      BY <1>5, <1>10, <3>1, EventSet
    <3>3. LinesFit(longer)
      <4>1. Len(joined) \in Nat /\ MaxEventBytes \in Nat
        BY <1>5, <1>10, ObserverAssumption DEF Texts
      <4> QED
        BY <1>7, <2>2, <2>4, <4>1
    <3>4. Heard(r, Meanings(before.ended), warned)
      BY <1>1, <3>2, HeardKept
    <3>5. Reading(r, longer, warned)
      BY <1>1, <2>2, <3>2, <3>3, <3>4 DEF Reading, after
    <3> QED
      BY <3>2, <3>5 DEF SameTold, r, longer
  <2> QED
    BY <2>3, <2>4
<1> QED
  BY <1>8, <1>9, <1>10

-----------------------------------------------------------------------------
(* The bytes of a stream, however they are cut into chunks.                *)

\* What was read of the response does not exceed what the observer keeps.
FitsSoFar(s) == LinesFit(Lines(s).ended) /\ Len(Lines(s).rest) <= MaxEventBytes
\* The observer and the part of a chunk hold what was read,
Exact(o, part, s) ==
    /\ o.line \in Texts /\ part \in Texts /\ Len(o.line) <= MaxEventBytes
    /\ o.line \o part = Lines(s).rest
    /\ Reading(o, Lines(s).ended, FALSE)
\* or something was too large for it.
Behind(o, s) == Lost(o) /\ ~FitsSoFar(s)
Follows(o, part, s) ==
    /\ o \in Observers /\ part \in Texts
    /\ Exact(o, part, s) \/ Behind(o, s)

\* The lines of a text with one more byte.
LEMMA ByteAdded ==
    ASSUME NEW s \in Texts, NEW b \in ResponseBytes
    PROVE  /\ b = LF => /\ Lines(Append(s, b)).ended = Append(Lines(s).ended, Lines(s).rest)
                        /\ Lines(Append(s, b)).rest = <<>>
           /\ b # LF => /\ Lines(s) \in Divided =>
                             Lines(Append(s, b)).ended = Lines(s).ended
                        /\ Lines(s) \in Divided =>
                             Lines(Append(s, b)).rest = Append(Lines(s).rest, b)
           /\ Lines(s) \in Divided => Lines(Append(s, b)) \in Divided
<1> DEFINE before == Lines(s)
           after == Lines(Append(s, b))
<1>1. after = AddByte(before, b)
  BY LinesAppend DEF Texts
<1> HIDE DEF before, after
<1>2. CASE b = LF
  <2>1. after = [ended |-> Append(before.ended, before.rest), rest |-> <<>>]
    BY <1>1, <1>2 DEF AddByte
  <2>2. before \in Divided => Append(before.ended, before.rest) \in Seq(Texts)
    <3> HIDE DEF Texts
    <3> QED
      BY DEF Divided
  <2>3. before \in Divided => after \in Divided
    BY <2>1, <2>2, EmptyText DEF Divided
  <2> QED
    BY <1>2, <2>1, <2>3 DEF before, after
<1>3. CASE b # LF
  <2>1. after = [before EXCEPT !.rest = Append(before.rest, b)]
    <3>1. after = [before EXCEPT !.rest = Append(@, b)]
      BY <1>1, <1>3 DEF AddByte
    <3> QED
      BY <3>1, Zenon
  <2>2. ASSUME before \in Divided
        PROVE  after \in Divided /\ after.rest = Append(before.rest, b)
               /\ after.ended = before.ended
    <3>1. Append(before.rest, b) \in Texts
      BY <2>2 DEF Divided, Texts
    <3> QED
      BY <2>1, <2>2, <3>1 DEF Divided
  <2> QED
    BY <1>3, <2>2 DEF before, after
<1> QED
  BY <1>2, <1>3

LEMMA LinesTyped ==
    ASSUME NEW s \in Texts
    PROVE  Lines(s) \in Divided
<1> DEFINE N == Len(s)
           P == {n \in 0..N : Lines(SubSeq(s, 1, n)) \in Divided}
<1>1. N \in Nat /\ s \in Seq(ResponseBytes) /\ N = Len(s)
  BY DEF Texts
<1>2. 0 \in P
  <2>1. SubSeq(s, 1, 0) = <<>>
    OBVIOUS
  <2>2. Nothing \in Divided
    BY EmptyText DEF Nothing, Divided
  <2>3. Lines(SubSeq(s, 1, 0)) \in Divided
    BY <2>1, <2>2, LinesEmpty
  <2> QED
    BY <1>1, <2>3
<1>3. ASSUME NEW n \in 0..(N - 1), n \in P
      PROVE  n + 1 \in P
  <2>1. /\ SubSeq(s, 1, n) \in Texts /\ s[n + 1] \in ResponseBytes
        /\ SubSeq(s, 1, n + 1) = Append(SubSeq(s, 1, n), s[n + 1])
    BY <1>1, Prefixes DEF Texts
  <2>2. Lines(SubSeq(s, 1, n)) \in Divided
    BY <1>3
  <2>3. Lines(SubSeq(s, 1, n + 1)) \in Divided
    BY <2>1, <2>2, ByteAdded
  <2>4. n + 1 \in 0..N
    BY <1>1
  <2> QED
    BY <2>3, <2>4
<1> HIDE DEF P, N
<1>4. \A n \in 0..N : n \in P
  BY <1>1, <1>2, <1>3, Positions
<1>5. N \in P
  BY <1>1, <1>4
<1>6. SubSeq(s, 1, N) = s
  BY <1>1, SubSeqFull
<1> QED
  BY <1>5, <1>6 DEF P

\* What did not fit does not fit later.
LEMMA FitsEarlier ==
    ASSUME NEW s \in Texts, NEW b \in ResponseBytes, FitsSoFar(Append(s, b))
    PROVE  FitsSoFar(s)
<1> DEFINE ended == Lines(s).ended
           rest == Lines(s).rest
<1>1. Lines(s) \in Divided
  BY LinesTyped
<1>2. ended \in Seq(Texts) /\ rest \in Texts /\ Len(rest) \in Nat
  BY <1>1 DEF Divided, Texts
<1>3. CASE b = LF
  <2>1. LinesFit(Append(ended, rest))
    BY <1>3, ByteAdded DEF FitsSoFar
  <2> HIDE DEF ended, rest
  <2>2. LinesFit(ended) /\ Len(rest) <= MaxEventBytes
    BY <1>2, <2>1, FitAppended
  <2> QED
    BY <2>2 DEF FitsSoFar, ended, rest
<1>4. CASE b # LF
  <2>1. LinesFit(ended) /\ Len(Append(rest, b)) <= MaxEventBytes
    BY <1>1, <1>4, ByteAdded DEF FitsSoFar
  <2> HIDE DEF ended, rest
  <2>2. Len(Append(rest, b)) = Len(rest) + 1
    BY <1>2 DEF Texts
  <2>3. Len(rest) <= MaxEventBytes
    BY <1>2, <2>1, <2>2, ObserverAssumption
  <2> QED
    BY <2>1, <2>3 DEF FitsSoFar, ended, rest
<1> QED
  BY <1>3, <1>4

\* A line feed: the line that is kept is the line that was read.
LEMMA LineTaken ==
    ASSUME NEW o, NEW part, NEW s \in Texts, Follows(o, part, s)
    PROVE  LET r == LineEnds(o, part)
           IN  Follows(r, <<>>, Append(s, LF)) /\ r.stream = o.stream
<1> DEFINE r == LineEnds(o, part)
           more == Append(s, LF)
           ended == Lines(s).ended
           rest == Lines(s).rest
           raw == o.line \o part
           short == Len(o.line) + Len(part) <= MaxEventBytes
           used == consumeSSELine(o, raw)
<1>1. o \in Observers /\ part \in Texts /\ o.line \in Texts
  BY DEF Follows, Observers, Texts
<1>2. raw \in Texts /\ Len(raw) = Len(o.line) + Len(part) /\ Len(raw) \in Nat
  BY <1>1, ConcatProperties DEF Texts
<1>3. Lines(s) \in Divided
  BY LinesTyped
<1>4. ended \in Seq(Texts) /\ rest \in Texts
  BY <1>3 DEF Divided
<1>5. Lines(more).ended = Append(ended, rest) /\ Lines(more).rest = <<>>
  BY BytesTyped, ByteAdded
<1>6. Behind(o, s) => ~FitsSoFar(more)
  BY BytesTyped, FitsEarlier DEF Behind
<1>7. Exact(o, part, s) => Reading(o, ended, FALSE) /\ raw = rest
  BY DEF Exact
<1>8. <<>> \o <<>> = <<>> /\ Len(<<>>) <= MaxEventBytes
  BY ObserverAssumption
<1>9. Exact(o, part, s) \/ Behind(o, s)
  BY DEF Follows
<1>10. FitsSoFar(more) => LinesFit(Append(ended, rest))
  BY <1>5 DEF FitsSoFar
<1>11. CASE short
  <2>1. r = [used EXCEPT !.line = <<>>]
    BY <1>11 DEF LineEnds
  <2> HIDE DEF r, more, ended, rest, raw
  <2>2. /\ used \in Observers /\ used.stream = o.stream
        /\ \/ Reading(used, Append(ended, rest), FALSE)
           \/ Lost(used) /\ ~FitsSoFar(more)
    <3>1. CASE Exact(o, part, s)
      <4>1. Reading(o, ended, FALSE) /\ raw = rest /\ Len(raw) <= MaxEventBytes
        BY <1>2, <1>7, <1>11, <3>1
      <4>2. /\ used \in Observers /\ used.stream = o.stream
            /\ \/ Reading(used, Append(ended, raw), FALSE)
               \/ Lost(used) /\ ~LinesFit(Append(ended, raw))
        BY <1>1, <1>2, <1>4, <4>1, LineRead
      <4> HIDE DEF used
      <4> QED
        BY <1>10, <4>1, <4>2
    <3>2. CASE Behind(o, s)
      <4>1. used \in Observers /\ used.stream = o.stream /\ Lost(used)
        BY <1>1, <1>2, <3>2, LostLine DEF Behind
      <4> HIDE DEF used
      <4> QED
        BY <1>6, <3>2, <4>1
    <3> QED
      BY <1>9, <3>1, <3>2
  <2> HIDE DEF used
  <2>3. /\ r \in Observers /\ SameTold(used, r) /\ r.line = <<>>
        /\ r.event = used.event /\ r.eventOversize = used.eventOversize
    BY <2>1, <2>2, EmptyText, LineSet
  <2>4. CASE Reading(used, Append(ended, rest), FALSE)
    <3>1. Reading(r, Append(ended, rest), FALSE)
      BY <2>3, <2>4, HeardKept DEF Reading
    <3>2. Exact(r, <<>>, more)
      BY <1>5, <1>8, <2>3, <3>1, EmptyText DEF Exact
    <3> QED
      BY <2>2, <2>3, <3>2, EmptyText DEF Follows, SameTold, r, more
  <2>5. CASE Lost(used) /\ ~FitsSoFar(more)
    <3>1. Lost(r)
      BY <2>3, <2>5, HeardKept
    <3> QED
      BY <2>2, <2>3, <2>5, <3>1, EmptyText DEF Follows, Behind, SameTold, r, more
  <2> QED
    BY <2>2, <2>4, <2>5
<1>12. CASE ~short
  <2>1. r = Oversized([o EXCEPT !.line = <<>>])
    BY <1>12 DEF LineEnds
  <2>2. r \in Observers /\ r.stream = o.stream /\ r.choices = o.choices /\ r.partial = TRUE
    BY <1>1, <2>1, LineMarked
  <2> HIDE DEF r, more, ended, rest, raw
  <2>3. PICK given \in SUBSET ChoiceObjects : Tracks(o.choices, given)
    BY <1>7, <1>9, HeardTracks DEF Reading, Behind
  <2>4. Lost(r)
    BY <2>2, <2>3 DEF Lost, Counted
  <2>5. ~FitsSoFar(more)
    <3>1. CASE Exact(o, part, s)
      <4>1. ~(Len(rest) <= MaxEventBytes)
        BY <1>2, <1>7, <1>12, <3>1
      <4> QED
        BY <1>4, <1>10, <4>1, FitAppended
    <3>2. CASE Behind(o, s)
      BY <1>6, <3>2
    <3> QED
      BY <1>9, <3>1, <3>2
  <2> QED
    BY <2>2, <2>4, <2>5, EmptyText DEF Follows, Behind, r, more
<1> QED
  BY <1>11, <1>12

\* takeByte: a byte of a line, or its end.
LEMMA ByteTaken ==
    ASSUME NEW at, NEW s \in Texts, NEW b \in ResponseBytes,
           at = [observer |-> at.observer, part |-> at.part],
           Follows(at.observer, at.part, s)
    PROVE  LET next == takeByte(at, b)
           IN  /\ next = [observer |-> next.observer, part |-> next.part]
               /\ Follows(next.observer, next.part, Append(s, b))
               /\ next.observer.stream = at.observer.stream
<1> DEFINE next == takeByte(at, b)
           o == at.observer
           part == at.part
           more == Append(s, b)
<1>1. CASE b = LF
  <2>1. next = [observer |-> LineEnds(o, part), part |-> <<>>]
    BY <1>1 DEF takeByte
  <2>2. Follows(LineEnds(o, part), <<>>, more) /\ LineEnds(o, part).stream = o.stream
    BY <1>1, LineTaken
  <2> HIDE DEF next, o, part, more
  <2> QED
    BY <2>1, <2>2 DEF next, o, part, more
<1>2. CASE b # LF
  <2>1. next = [observer |-> o, part |-> Append(part, b)]
    <3>1. next = [at EXCEPT !.part = Append(@, b)]
      BY <1>2 DEF takeByte
    <3> QED
      BY <3>1
  <2>2. o \in Observers /\ part \in Texts /\ Append(part, b) \in Texts /\ o.line \in Texts
    BY DEF Follows, Observers, Texts
  <2>3. Lines(s) \in Divided
    BY LinesTyped
  <2>4. Lines(more).ended = Lines(s).ended /\ Lines(more).rest = Append(Lines(s).rest, b)
    BY <1>2, <2>3, ByteAdded
  <2>5. o.line \o Append(part, b) = Append(o.line \o part, b)
    <3> HIDE DEF o, part
    <3>1. o.line \in Seq(ResponseBytes) /\ part \in Seq(ResponseBytes)
      BY <2>2 DEF Texts
    <3>2. ASSUME NEW l \in Seq(ResponseBytes), NEW p \in Seq(ResponseBytes)
          PROVE  l \o Append(p, b) = Append(l \o p, b)
      BY ConcatAppend
    <3> QED
      BY <3>1, <3>2
  <2> HIDE DEF next, o, part
  <2>6. Exact(o, part, s) => Exact(o, Append(part, b), more)
    BY <2>2, <2>4, <2>5 DEF Exact
  <2>7. Behind(o, s) => Behind(o, more)
    BY FitsEarlier DEF Behind
  <2>8. Follows(o, Append(part, b), more)
    BY <2>2, <2>6, <2>7 DEF Follows, o, part
  <2> HIDE DEF more
  <2> QED
    BY <2>1, <2>8 DEF next, o, part, more
<1> QED
  BY <1>1, <1>2

\* observeSSE follows the bytes of a chunk, wherever it was cut.
LEMMA ChunkTaken ==
    ASSUME NEW o, NEW s \in Texts, NEW value \in Texts, Follows(o, <<>>, s)
    PROVE  LET r == observeSSE(o, value)
           IN  Follows(r, <<>>, s \o value) /\ r.stream = o.stream
<1> DEFINE N == Len(value)
           so(n) == s \o SubSeq(value, 1, n)
<1>1. PICK u : observeBytesTurns(u, o, value)
  BY observeBytesLoop DEF Texts
<1> DEFINE Good(n) == /\ u[n] = [observer |-> u[n].observer, part |-> u[n].part]
                      /\ Follows(u[n].observer, u[n].part, so(n))
                      /\ u[n].observer.stream = o.stream
           P == {n \in 0..N : Good(n)}
<1>2. N \in Nat /\ value \in Seq(ResponseBytes) /\ s \in Seq(ResponseBytes)
  BY DEF Texts
<1>3. 0 \in P
  <2>1. SubSeq(value, 1, 0) = <<>> /\ s \o <<>> = s
    BY <1>2, ConcatEmptySeq
  <2>2. u[0] = [observer |-> o, part |-> <<>>]
    BY <1>1 DEF observeBytesTurns, Unread
  <2>3. so(0) = s
    BY <2>1
  <2>4. u[0].observer = o /\ u[0].part = <<>>
    BY <2>2
  <2> HIDE DEF so
  <2>5. Good(0)
    BY <2>2, <2>3, <2>4
  <2> HIDE DEF Good
  <2> QED
    BY <1>2, <2>5
<1>4. ASSUME NEW n \in 0..(N - 1), n \in P
      PROVE  n + 1 \in P
  <2>1. n + 1 \in 1..N /\ n + 1 \in 0..N /\ (n + 1) - 1 = n
    BY <1>2
  <2>2. u[n + 1] = takeByte(u[n], value[n + 1])
    BY <1>1, <2>1 DEF observeBytesTurns
  <2>3. /\ SubSeq(value, 1, n) \in Seq(ResponseBytes) /\ value[n + 1] \in ResponseBytes
        /\ SubSeq(value, 1, n + 1) = Append(SubSeq(value, 1, n), value[n + 1])
    BY <1>2, Prefixes
  <2>4. so(n + 1) = Append(so(n), value[n + 1]) /\ so(n) \in Texts
    <3> DEFINE t == SubSeq(value, 1, n)
    <3>1. s \in Seq(ResponseBytes) /\ t \in Seq(ResponseBytes) /\ value[n + 1] \in ResponseBytes
      BY <1>2, <2>3 DEF Texts
    <3>2. so(n) = s \o t /\ so(n + 1) = s \o Append(t, value[n + 1])
      BY <2>3
    <3> HIDE DEF t, so
    <3>3. s \o t \in Seq(ResponseBytes)
      BY <3>1, ConcatProperties
    <3>4. s \o Append(t, value[n + 1]) = Append(s \o t, value[n + 1])
      BY <3>1, ConcatAppend
    <3> QED
      BY <3>2, <3>3, <3>4 DEF Texts
  <2>5. Good(n)
    BY <1>4
  <2> HIDE DEF so
  <2> DEFINE at == u[n]
             next == takeByte(at, value[n + 1])
  <2>6. /\ at = [observer |-> at.observer, part |-> at.part]
        /\ Follows(at.observer, at.part, so(n)) /\ at.observer.stream = o.stream
    BY <2>5
  <2>7. /\ next = [observer |-> next.observer, part |-> next.part]
        /\ Follows(next.observer, next.part, Append(so(n), value[n + 1]))
        /\ next.observer.stream = at.observer.stream
    <3> HIDE DEF at
    <3> QED
      BY <2>3, <2>4, <2>6, ByteTaken
  <2>8. next = u[n + 1]
    BY <2>2
  <2> HIDE DEF next
  <2>9. Good(n + 1)
    BY <2>4, <2>6, <2>7, <2>8
  <2> HIDE DEF Good
  <2> QED
    BY <2>1, <2>9
<1> HIDE DEF P, N, Good, so
<1>5. \A n \in 0..N : n \in P
  BY <1>2, <1>3, <1>4, Positions
<1>6. N \in P
  BY <1>2, <1>5
<1> DEFINE end == observeBytes(o, value)
           e == end.observer
           part == end.part
           all == s \o value
           r == observeSSE(o, value)
<1>7. end = u[N] /\ so(N) = all
  <2>1. SubSeq(value, 1, N) = value
    BY <1>2, SubSeqFull DEF N
  <2> QED
    BY <1>1, <2>1 DEF observeBytesTurns, N, so
<1>8. Follows(e, part, all) /\ e.stream = o.stream
  <2> HIDE DEF end
  <2> QED
    BY <1>6, <1>7 DEF P, Good
<1>9. r = IF part = <<>> THEN e ELSE LineGoesOn(e, part)
  BY DEF observeSSE
<1>10. all \in Texts
  BY <1>2, ConcatProperties DEF Texts
<1> HIDE DEF all, end, r
<1>11. CASE part = <<>>
  BY <1>8, <1>9, <1>11 DEF r, all
<1>12. CASE part # <<>> /\ Len(e.line) + Len(part) <= MaxEventBytes
  <2>1. r = [e EXCEPT !.line = e.line \o part]
    BY <1>9, <1>12, Zenon DEF LineGoesOn
  <2> HIDE DEF e, part
  <2>2. e \in Observers /\ part \in Texts /\ e.line \in Texts
    BY <1>8 DEF Follows, Observers, Texts
  <2>3. e.line \o part \in Texts /\ (e.line \o part) \o <<>> = e.line \o part
    BY <2>2, ConcatProperties, ConcatEmptySeq DEF Texts
  <2>4. /\ r \in Observers /\ SameTold(e, r) /\ r.line = e.line \o part
        /\ r.event = e.event /\ r.eventOversize = e.eventOversize
    BY <2>1, <2>2, <2>3, LineSet
  <2>8. Len(e.line \o part) <= MaxEventBytes
    BY <1>12, <2>2, ConcatProperties DEF e, part, Texts
  <2>5. Exact(e, part, all) => Exact(r, <<>>, all)
    <3>1. Reading(e, Lines(all).ended, FALSE) => Reading(r, Lines(all).ended, FALSE)
      BY <2>4, HeardKept DEF Reading
    <3> QED
      BY <2>3, <2>4, <2>8, <3>1, EmptyText DEF Exact
  <2>6. Behind(e, all) => Behind(r, all)
    BY <2>4, HeardKept DEF Behind
  <2> QED
    BY <1>8, <2>4, <2>5, <2>6, EmptyText DEF Follows, SameTold, r, all
<1>13. CASE part # <<>> /\ ~(Len(e.line) + Len(part) <= MaxEventBytes)
  <2>1. r = Oversized([e EXCEPT !.line = <<>>])
    BY <1>9, <1>13 DEF LineGoesOn
  <2> HIDE DEF e, part
  <2>2. e \in Observers /\ part \in Texts /\ e.line \in Texts
    BY <1>8 DEF Follows, Observers, Texts
  <2>3. r \in Observers /\ r.stream = e.stream /\ r.choices = e.choices /\ r.partial = TRUE
    BY <2>1, <2>2, LineMarked
  <2>4. Exact(e, part, all) \/ Behind(e, all)
    BY <1>8 DEF Follows
  <2>5. PICK given \in SUBSET ChoiceObjects : Tracks(e.choices, given)
    BY <2>4, HeardTracks DEF Exact, Reading, Behind
  <2>6. Lost(r)
    BY <2>3, <2>5 DEF Lost, Counted
  <2>7. ~FitsSoFar(all)
    <3>1. Len(e.line \o part) = Len(e.line) + Len(part)
      BY <2>2, ConcatProperties DEF Texts
    <3>2. Exact(e, part, all) => ~(Len(Lines(all).rest) <= MaxEventBytes)
      BY <1>13, <3>1 DEF Exact
    <3> QED
      BY <2>4, <3>2 DEF Behind, FitsSoFar
  <2> QED
    BY <1>8, <2>3, <2>6, <2>7, EmptyText DEF Follows, Behind, r, all
<1> QED
  BY <1>11, <1>12, <1>13

-----------------------------------------------------------------------------
(* A response, from its first byte to Finish.                              *)

Gathers(o, s) ==
    \/ /\ o.jsonOversized = FALSE /\ o.json = s /\ Len(s) <= MaxJSONBytes
       /\ Heard(o, <<>>, FALSE)
    \/ o.jsonOversized = TRUE /\ Lost(o) /\ ~(Len(s) <= MaxJSONBytes)

\* The observer after the bytes s.
Observed(o, stream, s) ==
    /\ o \in Observers /\ o.stream = stream
    /\ IF stream THEN Follows(o, <<>>, s) ELSE Gathers(o, s)

\* A new observer has observed nothing.
LEMMA NothingObserved ==
    ASSUME NEW stream \in BOOLEAN
    PROVE  Observed(newResponseObserver(stream), stream, <<>>)
<1> DEFINE o == newResponseObserver(stream)
<1>1. o \in Observers /\ Heard(o, <<>>, FALSE)
  BY NothingHeard
<1>2. /\ o.stream = stream /\ o.json = <<>> /\ o.jsonOversized = FALSE
      /\ o.line = <<>> /\ o.event = <<>> /\ o.eventOversize = FALSE
  BY DEF newResponseObserver
<1>3. /\ Lines(<<>>).ended = <<>> /\ Lines(<<>>).rest = <<>>
      /\ Events(<<>>).ended = <<>> /\ Events(<<>>).rest = <<>>
  BY LinesEmpty, EventsEmpty DEF Nothing
<1>4. Meanings(<<>>) = <<>>
  BY DEF Meanings
<1>5. LinesFit(<<>>)
  <2>1. Len(<<>>) = 0 /\ 1..0 = {} /\ 0 <= MaxEventBytes /\ 0..0 = {0}
    BY ObserverAssumption
  <2>2. \A i \in 0..0 : SubSeq(<<>>, 1, i) = <<>>
    BY <2>1
  <2> QED
    BY <1>3, <2>1, <2>2 DEF LinesFit
<1>6. <<>> \o <<>> = <<>> /\ Len(<<>>) <= MaxEventBytes /\ Len(<<>>) <= MaxJSONBytes
  BY ObserverAssumption
<1> HIDE DEF o
<1>7. Reading(o, <<>>, FALSE)
  BY <1>1, <1>2, <1>3, <1>4, <1>5 DEF Reading
<1>8. Exact(o, <<>>, <<>>)
  BY <1>2, <1>3, <1>6, <1>7, EmptyText DEF Exact
<1>9. Gathers(o, <<>>)
  BY <1>1, <1>2, <1>6 DEF Gathers
<1> QED
  BY <1>1, <1>2, <1>8, <1>9, EmptyText DEF Observed, Follows, o

\* The buffer of a plain response changes alone.
LEMMA BodyKept ==
    ASSUME NEW o \in Observers, NEW json \in Texts
    PROVE  LET r == [o EXCEPT !.json = json]
           IN  /\ r \in Observers /\ SameTold(o, r)
               /\ r.json = json /\ r.jsonOversized = o.jsonOversized
  BY DEF Observers, SameTold, SameNumbers, Texts

LEMMA BodyMarked ==
    ASSUME NEW o \in Observers, NEW big \in BOOLEAN
    PROVE  LET r == [o EXCEPT !.jsonOversized = big]
           IN  /\ r \in Observers /\ SameTold(o, r) /\ r.jsonOversized = big
  BY DEF Observers, SameTold, SameNumbers

\* Observe: after one more chunk the observer stands where all bytes put it.
LEMMA BytesObserved ==
    ASSUME NEW o, NEW stream \in BOOLEAN, NEW s \in Texts, NEW value \in Texts,
           Observed(o, stream, s)
    PROVE  Observed(Observe(o, value), stream, s \o value)
<1> DEFINE r == Observe(o, value)
           all == s \o value
<1>1. o \in Observers /\ o.stream = stream
  BY DEF Observed
<1>2. CASE stream
  <2>1. r = observeSSE(o, value)
    BY <1>1, <1>2 DEF Observe
  <2>2. Follows(o, <<>>, s)
    BY <1>2 DEF Observed
  <2> HIDE DEF r
  <2>3. Follows(r, <<>>, all) /\ r.stream = o.stream
    BY <2>1, <2>2, ChunkTaken
  <2> QED
    BY <1>1, <1>2, <2>3 DEF Observed, Follows, r
<1>3. CASE ~stream
  <2>1. r = IF o.jsonOversized THEN o
            ELSE IF Len(o.json) + Len(value) > MaxJSONBytes
            THEN markPartial([o EXCEPT !.json = <<>>, !.jsonOversized = TRUE])
            ELSE [o EXCEPT !.json = o.json \o value]
    BY <1>1, <1>3, Zenon DEF Observe
  <2>2. Gathers(o, s)
    BY <1>3 DEF Observed
  <2>3. /\ all \in Texts /\ Len(all) = Len(s) + Len(value)
        /\ Len(s) \in Nat /\ Len(value) \in Nat /\ MaxJSONBytes \in Nat
    BY ConcatProperties, ObserverAssumption DEF Texts
  <2> HIDE DEF r, all
  <2>4. CASE o.jsonOversized = TRUE /\ Lost(o) /\ ~(Len(s) <= MaxJSONBytes)
    <3>1. r = o /\ ~(Len(all) <= MaxJSONBytes)
      BY <2>1, <2>3, <2>4
    <3>2. Gathers(r, all)
      BY <2>4, <3>1 DEF Gathers
    <3> QED
      BY <1>1, <1>3, <3>1, <3>2 DEF Observed, r, all
  <2>5. CASE /\ o.jsonOversized = FALSE /\ o.json = s /\ Heard(o, <<>>, FALSE)
             /\ ~(Len(s) + Len(value) > MaxJSONBytes)
    <3>1. r = [o EXCEPT !.json = all] /\ Len(all) <= MaxJSONBytes
      BY <2>1, <2>3, <2>5 DEF all
    <3>2. /\ r \in Observers /\ SameTold(o, r)
          /\ r.json = all /\ r.jsonOversized = FALSE
      BY <1>1, <2>3, <2>5, <3>1, BodyKept
    <3>3. Gathers(r, all)
      BY <2>5, <3>1, <3>2, HeardKept DEF Gathers
    <3> QED
      BY <1>1, <1>3, <3>2, <3>3 DEF Observed, SameTold, r, all
  <2>6. CASE /\ o.jsonOversized = FALSE /\ o.json = s /\ Heard(o, <<>>, FALSE)
             /\ Len(s) + Len(value) > MaxJSONBytes
    <3> DEFINE a == [o EXCEPT !.json = <<>>]
               b == [a EXCEPT !.jsonOversized = TRUE]
    <3>1. r = markPartial(b)
      <4>1. r = markPartial([o EXCEPT !.json = <<>>, !.jsonOversized = TRUE])
        BY <2>1, <2>6
      <4>2. [o EXCEPT !.json = <<>>, !.jsonOversized = TRUE] = b
        BY Zenon
      <4> QED
        BY <4>1, <4>2, Zenon
    <3>2. a \in Observers /\ SameTold(o, a)
      BY <1>1, EmptyText, BodyKept
    <3> HIDE DEF a
    <3>3. b \in Observers /\ SameTold(a, b) /\ b.jsonOversized = TRUE
      BY <3>2, BodyMarked
    <3> HIDE DEF b
    <3>4. /\ r \in Observers /\ SameRest(b, r) /\ r.choices = b.choices /\ r.partial = TRUE
      BY <3>1, <3>3, PartialMarked
    <3>5. /\ r.choices = o.choices /\ r.stream = o.stream /\ r.jsonOversized = TRUE
      BY <3>2, <3>3, <3>4 DEF SameTold, SameRest, SameBytes
    <3>6. PICK given \in SUBSET ChoiceObjects : Tracks(o.choices, given)
      BY <2>6, HeardTracks
    <3>7. Lost(r)
      BY <3>4, <3>5, <3>6 DEF Lost, Counted
    <3>8. ~(Len(all) <= MaxJSONBytes)
      BY <2>3, <2>6
    <3>9. Gathers(r, all)
      BY <3>5, <3>7, <3>8 DEF Gathers
    <3> QED
      BY <1>1, <1>3, <3>4, <3>5, <3>9 DEF Observed, r, all
  <2> QED
    BY <2>2, <2>4, <2>5, <2>6 DEF Gathers
<1> QED
  BY <1>2, <1>3

-----------------------------------------------------------------------------
(* The end of the body.                                                    *)

\* The stream ends within a line or an event.
Open(s) == Lines(s).rest # <<>> \/ Events(Lines(s).ended).rest # <<>>

\* The last line counts although nothing has ended it.
LEMMA AllLinesFit ==
    ASSUME NEW s \in Texts
    PROVE  /\ AllLines(s) \in Seq(Texts)
           /\ LinesFit(AllLines(s)) => FitsSoFar(s)
<1> DEFINE ended == Lines(s).ended
           rest == Lines(s).rest
<1>1. Lines(s) \in Divided
  BY LinesTyped
<1>2. ended \in Seq(Texts) /\ rest \in Texts /\ Len(<<>>) <= MaxEventBytes
  BY <1>1, ObserverAssumption DEF Divided
<1>3. AllLines(s) = IF rest = <<>> THEN ended ELSE Append(ended, rest)
  BY DEF AllLines
<1>4. FitsSoFar(s) <=> LinesFit(ended) /\ Len(rest) <= MaxEventBytes
  BY DEF FitsSoFar
<1> HIDE DEF ended, rest
<1>5. CASE rest = <<>>
  BY <1>2, <1>3, <1>4, <1>5
<1>6. CASE rest # <<>>
  BY <1>2, <1>3, <1>4, <1>6, FitAppended, AppendProperties
<1> QED
  BY <1>5, <1>6

\* ObserveEnd of a stream: the last line and the last event are read, and marked
\* if nothing ended them.
LEMMA StreamEnded ==
    ASSUME NEW o, NEW s \in Texts, Observed(o, TRUE, s)
    PROVE  LET r == ObserveEnd(o)
               lines == AllLines(s)
           IN  /\ r \in Observers /\ r.stream = TRUE
               /\ IF LinesFit(lines)
                  THEN Heard(r, Meanings(Events(Append(lines, <<>>)).ended), Open(s))
                  ELSE Lost(r)
<1> DEFINE r == ObserveEnd(o)
           lines == AllLines(s)
           open == o.line # <<>> \/ o.event # <<>> \/ o.eventOversize
           warned == IF open THEN markPartial(o) ELSE o
           used == consumeSSELine(warned, o.line)
           lined == IF o.line = <<>> THEN warned ELSE [used EXCEPT !.line = <<>>]
           ended == Lines(s).ended
           rest == Lines(s).rest
<1>1. /\ o \in Observers /\ o.stream = TRUE /\ o.line \in Texts
      /\ Exact(o, <<>>, s) \/ Behind(o, s)
  BY DEF Observed, Follows, Observers, Texts
<1>2. r = consumeSSEEvent(lined)
  BY <1>1 DEF ObserveEnd
<1>3. Lines(s) \in Divided
  BY LinesTyped
<1>4. ended \in Seq(Texts) /\ rest \in Texts
  BY <1>3 DEF Divided
<1>5. lines = IF rest = <<>> THEN ended ELSE Append(ended, rest)
  BY DEF AllLines
<1>6. lines \in Seq(Texts)
  BY AllLinesFit
<1>7. warned \in Observers /\ warned.stream = TRUE /\ SameRest(o, warned)
  <2>1. SameRest(o, o)
    BY DEF SameRest, SameBytes, SameNumbers
  <2>2. markPartial(o) \in Observers /\ SameRest(o, markPartial(o))
    BY <1>1, PartialMarked
  <2>3. warned \in Observers /\ SameRest(o, warned)
    BY <1>1, <2>1, <2>2
  <2> HIDE DEF warned
  <2> QED
    BY <1>1, <2>3 DEF SameRest, SameBytes
<1>8. ASSUME lined \in Observers, lined.stream = TRUE, Lost(lined), ~LinesFit(lines)
      PROVE  r \in Observers /\ r.stream = TRUE /\ ~LinesFit(lines) /\ Lost(r)
  <2> HIDE DEF r, lined, lines
  <2> QED
    BY <1>2, <1>8, LostEvent
<1>9. CASE Behind(o, s)
  <2>1. Lost(o) /\ ~LinesFit(lines)
    BY <1>9, AllLinesFit DEF Behind
  <2>2. Lost(warned)
    BY <1>1, <2>1, LostWhenMarked DEF Lost, Counted
  <2> HIDE DEF warned
  <2>3. used \in Observers /\ used.stream = TRUE /\ Lost(used)
    BY <1>1, <1>7, <2>2, LostLine
  <2> HIDE DEF used
  <2> DEFINE kept == [used EXCEPT !.line = <<>>]
  <2>4. kept \in Observers /\ SameTold(used, kept)
    BY <2>3, EmptyText, LineSet
  <2> HIDE DEF kept
  <2>5. kept.stream = TRUE /\ Lost(kept)
    BY <2>3, <2>4, HeardKept DEF SameTold
  <2>6. lined \in Observers /\ lined.stream = TRUE /\ Lost(lined)
    BY <1>7, <2>2, <2>4, <2>5 DEF kept
  <2> HIDE DEF r, lined, lines
  <2> QED
    BY <1>8, <2>1, <2>6 DEF r, lines
<1>10. CASE Exact(o, <<>>, s)
  <2>1. o.line = rest /\ Reading(o, ended, FALSE) /\ Len(o.line) <= MaxEventBytes
    BY <1>1, <1>10, ConcatEmptySeq DEF Exact, Texts
  <2>2. o.event = Events(ended).rest /\ o.eventOversize = FALSE
        /\ Heard(o, Meanings(Events(ended).ended), FALSE) /\ LinesFit(ended)
    BY <2>1 DEF Reading
  <2>3. open = Open(s) /\ open \in BOOLEAN
    BY <2>1, <2>2 DEF Open
  <2>4. Reading(warned, ended, open)
    <3>1. CASE open
      <4>1. warned = markPartial(o) /\ open = TRUE
        BY <2>3, <3>1
      <4> HIDE DEF open, warned, ended
      <4>2. Counted(warned, GivenChoices(Meanings(Events(ended).ended)), TRUE)
        BY <1>1, <2>2, <4>1, DoubtCounted DEF Heard, Counted
      <4>3. (Upset(Meanings(Events(ended).ended)) \/ open) = TRUE
        BY <4>1
      <4>4. /\ Numbered(warned, Meanings(Events(ended).ended))
            /\ warned.streamDone = o.streamDone /\ warned.firstOutput = o.firstOutput
            /\ warned.stream = o.stream
            /\ warned.event = o.event /\ warned.eventOversize = o.eventOversize
        BY <1>7, <2>2 DEF Heard, Numbered, SameRest, SameBytes, SameNumbers
      <4>5. Heard(warned, Meanings(Events(ended).ended), open)
        BY <2>2, <4>2, <4>3, <4>4 DEF Heard
      <4> QED
        BY <2>2, <4>4, <4>5 DEF Reading
    <3>2. CASE ~open
      <4>1. warned = o /\ open = FALSE
        BY <2>3, <3>2
      <4> HIDE DEF open, warned, ended
      <4> QED
        BY <2>1, <4>1
    <3> QED
      BY <3>1, <3>2
  <2> HIDE DEF open, warned, ended, lines
  <2>5. \/ /\ lined \in Observers /\ lined.stream = TRUE /\ Reading(lined, lines, open)
           /\ LinesFit(lines)
        \/ /\ lined \in Observers /\ lined.stream = TRUE /\ Lost(lined)
           /\ ~LinesFit(lines)
    <3>1. CASE o.line = <<>>
      <4>1. lined = warned /\ lines = ended
        BY <1>5, <2>1, <3>1
      <4> HIDE DEF lined
      <4> QED
        BY <1>7, <2>2, <2>4, <4>1
    <3>2. CASE o.line # <<>>
      <4>1. lines = Append(ended, o.line) /\ lined = [used EXCEPT !.line = <<>>]
        BY <1>5, <2>1, <3>2
      <4>2. /\ used \in Observers /\ used.stream = TRUE
            /\ Reading(used, lines, open) \/ (Lost(used) /\ ~LinesFit(lines))
        BY <1>1, <1>4, <1>7, <2>1, <2>3, <2>4, <4>1, LineRead
      <4> HIDE DEF used, lined
      <4>3. /\ lined \in Observers /\ SameTold(used, lined)
            /\ lined.event = used.event /\ lined.eventOversize = used.eventOversize
        BY <4>1, <4>2, EmptyText, LineSet
      <4>4. lined.stream = TRUE
        BY <4>2, <4>3 DEF SameTold
      <4>5. Reading(used, lines, open) => Reading(lined, lines, open) /\ LinesFit(lines)
        BY <4>3, HeardKept DEF Reading
      <4>6. Lost(used) => Lost(lined)
        BY <4>3, HeardKept
      <4> QED
        BY <4>2, <4>3, <4>4, <4>5, <4>6
    <3> QED
      BY <3>1, <3>2
  <2> HIDE DEF lined
  <2>6. CASE Reading(lined, lines, open) /\ lined \in Observers /\ lined.stream = TRUE
             /\ LinesFit(lines)
    <3>1. Trimmed(<<>>) = <<>> /\ Len(<<>>) <= MaxEventBytes
      BY ObserverAssumption DEF Trimmed
    <3> HIDE DEF r
    <3>2. /\ r \in Observers /\ r.stream = TRUE
          /\ Reading(r, Append(lines, <<>>), open)
      BY <1>2, <1>6, <2>3, <2>6, <3>1, EmptyText, EventRead
    <3>3. Heard(r, Meanings(Events(Append(lines, <<>>)).ended), Open(s))
      BY <2>3, <3>2 DEF Reading
    <3> QED
      BY <2>6, <3>2, <3>3 DEF r, lines
  <2>7. CASE lined \in Observers /\ lined.stream = TRUE /\ Lost(lined) /\ ~LinesFit(lines)
    <3> HIDE DEF r
    <3> QED
      BY <1>8, <2>7 DEF r, lines
  <2> QED
    BY <2>5, <2>6, <2>7
<1> QED
  BY <1>1, <1>9, <1>10

\* ObserveEnd of a plain response: its one object is read.
LEMMA BodyEnded ==
    ASSUME NEW o, NEW s \in Texts, Observed(o, FALSE, s)
    PROVE  LET r == ObserveEnd(o)
           IN  /\ r \in Observers /\ r.stream = FALSE
               /\ IF Len(s) <= MaxJSONBytes
                  THEN Heard(r, <<responseObject(s)>>, FALSE)
                  ELSE Lost(r)
<1> DEFINE r == ObserveEnd(o)
<1>1. o \in Observers /\ o.stream = FALSE /\ Gathers(o, s)
  BY DEF Observed
<1>2. r = IF o.jsonOversized THEN o ELSE observeJSON(o, o.json)
  BY <1>1 DEF ObserveEnd
<1> HIDE DEF r
<1>3. CASE o.jsonOversized = TRUE /\ Lost(o) /\ ~(Len(s) <= MaxJSONBytes)
  BY <1>1, <1>2, <1>3 DEF r
<1>4. CASE /\ o.jsonOversized = FALSE /\ o.json = s /\ Len(s) <= MaxJSONBytes
           /\ Heard(o, <<>>, FALSE)
  <2>1. r = observeJSON(o, s)
    BY <1>2, <1>4
  <2>2. responseObject(s) \in DOMAIN Objects \cup {"none"}
    BY MeaningTyped
  <2>3. <<>> \in Seq(MeaningSet) /\ Append(<<>>, responseObject(s)) = <<responseObject(s)>>
    OBVIOUS
  <2>4. r \in Observers /\ SameBytes(o, r) /\ Heard(r, <<responseObject(s)>>, FALSE)
    BY <1>1, <1>4, <2>1, <2>2, <2>3, ObjectHeard
  <2> QED
    BY <1>1, <1>4, <2>4 DEF SameBytes, r
<1> QED
  BY <1>1, <1>3, <1>4 DEF Gathers

LEMMA ReceivedTyped ==
    ASSUME NEW s \in Texts
    PROVE  Received(s) \in Seq(MeaningSet)
<1>1. CASE body.stream
  <2> DEFINE lines == Append(AllLines(s), <<>>)
             texts == Events(lines).ended
  <2>1. lines \in Seq(Texts)
    BY AllLinesFit, EmptyText, AppendProperties
  <2>2. Events(lines) \in Divided
    BY <2>1, EventsTyped
  <2>3. texts \in Seq(Texts)
    BY <2>2 DEF Divided
  <2>4. Meanings(texts) \in Seq(MeaningSet)
    BY <2>3, EmptyText, MeaningsAppend
  <2> QED
    BY <1>1, <2>4 DEF Received
<1>2. CASE ~body.stream
  <2>1. responseObject(s) \in MeaningSet
    BY MeaningTyped DEF MeaningSet
  <2> QED
    BY <1>2, <2>1 DEF Received
<1> QED
  BY <1>1, <1>2

\* ObserveEnd: the observer heard what the response says, or lost something.
LEMMA ResponseEnded ==
    ASSUME NEW o, NEW s \in Texts, body.stream \in BOOLEAN, Observed(o, body.stream, s)
    PROVE  LET r == ObserveEnd(o)
           IN  /\ r \in Observers /\ r.stream = body.stream
               /\ IF Fits(s) THEN Heard(r, Received(s), body.stream /\ Open(s))
                  ELSE Lost(r)
<1>1. CASE body.stream = TRUE
  <2>1. /\ Fits(s) <=> LinesFit(AllLines(s))
        /\ Received(s) = Meanings(Events(Append(AllLines(s), <<>>)).ended)
        /\ (body.stream /\ Open(s)) = Open(s)
    BY <1>1 DEF Fits, Received, Open
  <2>2. Observed(o, TRUE, s)
    BY <1>1
  <2> QED
    BY <1>1, <2>1, <2>2, StreamEnded
<1>2. CASE body.stream = FALSE
  <2>1. /\ Fits(s) <=> Len(s) <= MaxJSONBytes
        /\ Received(s) = <<responseObject(s)>>
        /\ (body.stream /\ Open(s)) = FALSE
    BY <1>2 DEF Fits, Received
  <2>2. Observed(o, FALSE, s)
    BY <1>2
  <2> QED
    BY <1>2, <2>1, <2>2, BodyEnded
<1> QED
  BY <1>1, <1>2

Agreed(given) == {i \in Indices : \E r \in Said(given, i) : Said(given, i) = {r}}

\* The reasons reported are those on which all choices of an index agree.
LEMMA ReasonsFound ==
    ASSUME NEW choices, NEW given, Tracks(choices, given), NEW i \in Indices,
           choices[i].conflict \in BOOLEAN
    PROVE  /\ choices[i].reason # "none" <=> i \in Agreed(given)
           /\ i \in Agreed(given) => Said(given, i) = {choices[i].reason}
<1>1. /\ choices[i].conflict = Contradicts(given, i)
      /\ ~choices[i].conflict =>
           Said(given, i) = IF choices[i].reason = "none" THEN {} ELSE {choices[i].reason}
      /\ choices[i].conflict => choices[i].reason = "none"
  BY DEF Tracks
<1>2. CASE choices[i].conflict
  <2>1. choices[i].reason = "none" /\ Contradicts(given, i)
    BY <1>1, <1>2
  <2>2. i \notin Agreed(given)
    BY <2>1 DEF Agreed, Contradicts
  <2> QED
    BY <2>1, <2>2
<1>3. CASE ~choices[i].conflict
  <2>1. Said(given, i) = IF choices[i].reason = "none" THEN {} ELSE {choices[i].reason}
    BY <1>1, <1>3
  <2>2. choices[i].reason # "none" => i \in Agreed(given)
    BY <2>1 DEF Agreed
  <2>3. choices[i].reason = "none" => i \notin Agreed(given)
    BY <2>1 DEF Agreed
  <2> QED
    BY <2>1, <2>2, <2>3
<1> QED
  BY <1>2, <1>3

\* What makes a response doubtful is what the reference objects to.
SoundChoices(received) ==
    /\ "none" \notin Range(received)
    /\ \A id \in Objected(received) : Sensible(Objects[id])
    /\ \A i \in Indices : \A r, s \in Said(GivenChoices(received), i) : r = s
Late(received) == \E j, k \in 1..Len(received) : j < k /\ received[j] = "done"

\* A response that left doubts is not sound.
LEMMA DoubtIsUnsound ==
    ASSUME NEW received
    PROVE  Upset(received) \/ Doubtful(GivenChoices(received)) <=>
             ~SoundChoices(received) \/ Late(received)
<1>1. (\E id \in Objected(received) : ~Readable(Objects[id]))
        \/ (\E c \in GivenChoices(received) : ~Plain(c))
        <=> \E id \in Objected(received) : ~Sensible(Objects[id])
  BY DEF GivenChoices, Readable, Sensible
<1>2. (\E i \in Indices : Contradicts(GivenChoices(received), i))
        <=> ~ \A i \in Indices : \A r, s \in Said(GivenChoices(received), i) : r = s
  BY DEF Contradicts
<1> QED
  BY <1>1, <1>2 DEF Upset, Doubtful, SoundChoices, Late

\* [DONE] came once and at the end exactly if nothing came after the first.
LEMMA EndedOnce ==
    ASSUME NEW s \in Texts, NEW received \in Seq(MeaningSet)
    PROVE  Ended(s, received) <=>
             ~Open(s) /\ "done" \in Range(received) /\ ~Late(received)
<1> DEFINE n == Len(received)
           done == {k \in DOMAIN received : received[k] = "done"}
<1>1. n \in Nat /\ DOMAIN received = 1..n
  OBVIOUS
<1>2. done = {n} <=> "done" \in Range(received) /\ ~Late(received)
  <2>1. ASSUME done = {n}
        PROVE  "done" \in Range(received) /\ ~Late(received)
    <3>1. n \in done
      BY <2>1
    <3>2. \A j \in 1..n : received[j] = "done" => j = n
      BY <1>1, <2>1
    <3>3. ~Late(received)
      <4>1. ASSUME NEW j \in 1..n, NEW k \in 1..n, j < k, received[j] = "done"
            PROVE  FALSE
        BY <3>2, <4>1
      <4> QED
        BY <4>1 DEF Late
    <3> QED
      BY <3>1, <3>3 DEF Range
  <2>2. ASSUME "done" \in Range(received), ~Late(received)
        PROVE  done = {n}
    <3>1. PICK k \in 1..n : received[k] = "done"
      BY <1>1, <2>2 DEF Range
    <3>2. \A j \in 1..n : received[j] = "done" => ~(j < n)
      <4>1. n \in 1..n
        BY <1>1, <3>1
      <4> QED
        BY <2>2, <4>1 DEF Late
    <3>3. \A j \in 1..n : received[j] = "done" => j = n
      <4> HIDE DEF n
      <4>1. \A j \in 1..n : ~(j < n) => j = n
        BY <1>1
      <4> QED
        BY <3>2, <4>1
    <3>4. k = n
      BY <3>1, <3>3
    <3> QED
      BY <1>1, <3>1, <3>3, <3>4
  <2> QED
    BY <2>1, <2>2
<1>3. Ended(s, received) <=> ~Open(s) /\ done = {n}
  BY DEF Ended, Open
<1> HIDE DEF done
<1> QED
  BY <1>2, <1>3

\* metadata: the observation is the verdict on the response.
LEMMA VerdictExact ==
    ASSUME NEW o \in Observers, NEW s \in Texts, body.stream \in BOOLEAN,
           o.stream = body.stream, Heard(o, Received(s), body.stream /\ Open(s))
    PROVE  LET c == metadata(o)
               received == Received(s)
               choices == GivenChoices(received)
               seen == {i \in Indices : OfIndex(choices, i) # {}}
               agreed == Agreed(choices)
               sound == SoundChoices(received) /\ (body.stream => Ended(s, received))
           IN  /\ c.reasons = [i \in agreed |-> CHOOSE r \in Said(choices, i) : TRUE]
               /\ c.observation =
                    IF ~sound \/ (agreed # {} /\ seen # agreed) THEN "partial"
                    ELSE IF agreed # {} THEN "available" ELSE "unavailable"
<1> DEFINE received == Received(s)
           choices == GivenChoices(received)
           seen == {i \in Indices : OfIndex(choices, i) # {}}
           agreed == Agreed(choices)
           sound == SoundChoices(received) /\ (body.stream => Ended(s, received))
           reasons == [i \in {j \in DOMAIN o.choices : o.choices[j].reason # "none"}
                         |-> o.choices[i].reason]
           unfinished == \E i \in DOMAIN o.choices :
                           o.choices[i].seen /\ o.choices[i].reason = "none"
           partial == o.partial \/ (o.stream /\ ~o.streamDone)
           c == metadata(o)
<1>1. /\ o.choices \in [Indices -> ChoiceStates] /\ DOMAIN o.choices = Indices
      /\ \A i \in Indices : o.choices[i].conflict \in BOOLEAN /\ o.choices[i].seen \in BOOLEAN
  BY DEF Observers, ChoiceStates
<1>2. /\ Tracks(o.choices, choices)
      /\ o.partial = (Upset(received) \/ (body.stream /\ Open(s)) \/ Doubtful(choices))
      /\ o.streamDone = ("done" \in Range(received))
  BY DEF Heard, Counted
<1>3. /\ c.reasons = reasons
      /\ c.observation =
           IF partial \/ (unfinished /\ DOMAIN reasons # {}) THEN "partial"
           ELSE IF DOMAIN reasons # {} THEN "available" ELSE "unavailable"
  BY DEF metadata
<1>4. received \in Seq(MeaningSet)
  BY ReceivedTyped
<1> HIDE DEF received, choices, c
<1>5. \A i \in Indices : /\ o.choices[i].reason # "none" <=> i \in agreed
                         /\ i \in agreed => Said(choices, i) = {o.choices[i].reason}
  BY <1>1, <1>2, ReasonsFound
<1>6. {j \in DOMAIN o.choices : o.choices[j].reason # "none"} = agreed
      /\ agreed \subseteq Indices
  BY <1>1, <1>5 DEF Agreed
<1>7. DOMAIN reasons = agreed
  BY <1>6
<1>8. reasons = [i \in agreed |-> CHOOSE r \in Said(choices, i) : TRUE]
  <2>1. \A i \in agreed : (CHOOSE r \in Said(choices, i) : TRUE) = o.choices[i].reason
    BY <1>5, <1>6
  <2> HIDE DEF agreed
  <2> QED
    BY <1>6, <2>1
<1>9. unfinished <=> seen # agreed
  <2>1. \A i \in Indices : o.choices[i].seen <=> i \in seen
    BY <1>1, <1>2 DEF Tracks
  <2>2. \A i \in agreed : i \in seen
    <3>1. \A i \in agreed : Said(choices, i) # {}
      BY <1>5, <1>6
    <3> QED
      BY <1>6, <3>1 DEF Said
  <2>3. unfinished <=> \E i \in seen : i \notin agreed
    BY <1>1, <1>5, <2>1
  <2> HIDE DEF unfinished, seen, agreed
  <2> QED
    BY <2>2, <2>3
<1>10. partial <=> ~sound
  <2>1. Upset(received) \/ Doubtful(choices) <=> ~SoundChoices(received) \/ Late(received)
    BY DoubtIsUnsound DEF choices
  <2>2. Ended(s, received) <=> ~Open(s) /\ "done" \in Range(received) /\ ~Late(received)
    BY <1>4, EndedOnce
  <2>3. Late(received) /\ ~body.stream => FALSE
    <3>1. ~body.stream => Len(received) = 1
      BY DEF Received, received
    <3>2. \A j, k \in 1..1 : ~(j < k)
      OBVIOUS
    <3> QED
      BY <3>1, <3>2 DEF Late
  <2> QED
    BY <1>2, <2>1, <2>2, <2>3
<1> HIDE DEF reasons, unfinished, partial, seen, agreed, sound
<1>11. c.observation = IF ~sound \/ (agreed # {} /\ seen # agreed) THEN "partial"
                       ELSE IF agreed # {} THEN "available" ELSE "unavailable"
  BY <1>3, <1>7, <1>9, <1>10
<1>12. c.reasons = [i \in agreed |-> CHOOSE r \in Said(choices, i) : TRUE]
  BY <1>3, <1>8
<1> QED
  BY <1>11, <1>12 DEF c, received, choices, seen, agreed, sound

\* What the observer was told of the bytes that were read, and what Finish made
\* of it.
ObservationSound ==
    /\ stage \in {"relaying", "finished"} =>
         /\ body.stream \in BOOLEAN /\ body.bytes \in Texts
         /\ pos \in 0..Len(body.bytes)
         /\ Observed(observer, body.stream, SubSeq(body.bytes, 1, pos))
    /\ stage = "finished" => observation = Finish(observer)

LEMMA ReadTyped ==
    ASSUME ObservationSound, stage \in {"relaying", "finished"}
    PROVE  /\ body.stream \in BOOLEAN /\ body.bytes \in Texts
           /\ pos \in 0..Len(body.bytes) /\ SubSeq(body.bytes, 1, pos) \in Texts
           /\ Observed(observer, body.stream, SubSeq(body.bytes, 1, pos))
<1>1. /\ body.stream \in BOOLEAN /\ body.bytes \in Texts /\ pos \in 0..Len(body.bytes)
      /\ Observed(observer, body.stream, SubSeq(body.bytes, 1, pos))
  BY DEF ObservationSound
<1>2. SubSeq(body.bytes, 1, pos) \in Texts
  <2>1. ASSUME NEW t \in Seq(ResponseBytes), NEW n \in 0..Len(t)
        PROVE  SubSeq(t, 1, n) \in Seq(ResponseBytes)
    <3>1. Len(t) \in Nat /\ \A i \in 1..n : t[i] \in ResponseBytes
      OBVIOUS
    <3> QED
      BY <3>1, SubSeqProperties
  <2> QED
    BY <1>1, <2>1 DEF Texts
<1> QED
  BY <1>1, <1>2

\* Complete reports what the response says.
LEMMA CompletionNow == ObservationSound => CompletionExact
<1> SUFFICES ASSUME ObservationSound, stage = "finished"
             PROVE  CompletionExact
  BY DEF CompletionExact
<1> DEFINE s == SubSeq(body.bytes, 1, pos)
           end == ObserveEnd(observer)
           c == observation.completion
<1>1. body.stream \in BOOLEAN /\ s \in Texts /\ Observed(observer, body.stream, s)
  BY ReadTyped
<1>2. c = metadata(end)
  BY DEF ObservationSound, Finish
<1> HIDE DEF s, end, c
<1>3. /\ end \in Observers /\ end.stream = body.stream
      /\ IF Fits(s) THEN Heard(end, Received(s), body.stream /\ Open(s)) ELSE Lost(end)
  BY <1>1, ResponseEnded DEF end
<1>4. ~Fits(s) => c.observation = "partial"
  <2>1. ~Fits(s) => end.partial = TRUE
    BY <1>3, LostIsPartial
  <2> QED
    BY <1>2, <2>1 DEF metadata
<1> DEFINE received == Received(s)
           choices == GivenChoices(received)
           seen == {i \in Indices : OfIndex(choices, i) # {}}
           agreed == {i \in Indices : \E r \in Said(choices, i) : Said(choices, i) = {r}}
           sound == /\ "none" \notin Range(received)
                    /\ \A id \in Objected(received) : Sensible(Objects[id])
                    /\ \A i \in Indices : \A r, t \in Said(choices, i) : r = t
                    /\ body.stream => Ended(s, received)
           exact == /\ c.reasons = [i \in agreed |-> CHOOSE r \in Said(choices, i) : TRUE]
                    /\ c.observation =
                         IF ~sound \/ (agreed # {} /\ seen # agreed) THEN "partial"
                         ELSE IF agreed # {} THEN "available" ELSE "unavailable"
<1>5. sound <=> SoundChoices(received) /\ (body.stream => Ended(s, received))
  BY DEF SoundChoices
<1>6. agreed = Agreed(choices)
  BY DEF Agreed
<1>7. Fits(s) => exact
  <2>1. ASSUME Fits(s)
        PROVE  exact
    <3>1. Heard(end, received, body.stream /\ Open(s))
      BY <1>3, <2>1
    <3> HIDE DEF sound, agreed
    <3>2. LET a == Agreed(choices)
              t == SoundChoices(received) /\ (body.stream => Ended(s, received))
          IN  /\ c.reasons = [i \in a |-> CHOOSE r \in Said(choices, i) : TRUE]
              /\ c.observation =
                   IF ~t \/ (a # {} /\ seen # a) THEN "partial"
                   ELSE IF a # {} THEN "available" ELSE "unavailable"
      BY <1>1, <1>2, <1>3, <3>1, VerdictExact
    <3> QED
      BY <1>5, <1>6, <3>2
  <2> QED
    BY <2>1
<1>8. CompletionExact <=> IF ~Fits(s) THEN c.observation = "partial" ELSE exact
  BY DEF CompletionExact, s, c
<1> HIDE DEF exact
<1> QED
  BY <1>4, <1>7, <1>8

-----------------------------------------------------------------------------
(* The counts of a response.                                               *)

LEMMA TokensNow == ObservationSound => TokensExact
<1> SUFFICES ASSUME ObservationSound, stage = "finished", Fits(SubSeq(body.bytes, 1, pos))
             PROVE  TokensExact
  BY DEF TokensExact
<1> DEFINE s == SubSeq(body.bytes, 1, pos)
           end == ObserveEnd(observer)
           received == Received(s)
           prompt == TimingOf(received, "prompt")
           cached == Update(CacheOf(received), UsageOf(received, "cached"))
           sum == prompt + (IF cached = Nil THEN 0 ELSE cached)
           fallback == IF prompt = Nil \/ sum > MaxInt THEN Nil ELSE sum
<1>1. body.stream \in BOOLEAN /\ s \in Texts /\ Observed(observer, body.stream, s)
      /\ Fits(s)
  BY ReadTyped
<1>2. /\ observation.tokens = Fallback(end.tokens, end.timings)
      /\ observation.timings = end.timings /\ observation.firstOutput = end.firstOutput
  BY DEF ObservationSound, Finish
<1>3. /\ end \in Observers /\ end.stream = body.stream
      /\ Heard(end, received, body.stream /\ Open(s))
  <2> HIDE DEF s, end
  <2> QED
    BY <1>1, ResponseEnded DEF end
<1> HIDE DEF s, end, received
<1>4. end.tokens \in [Tokens -> Counts] /\ end.timings \in [Timings -> Counts]
  BY <1>3 DEF Observers
<1>5. Tokens = {"input", "output", "cached", "reasoning"}
      /\ {"prompt", "generated"} \subseteq Timings
  BY DEF Tokens, NoTokens, Timings, NoTimings
<1>6. /\ end.tokens["input"] = UsageOf(received, "input")
      /\ end.tokens["output"] = UsageOf(received, "output")
      /\ end.tokens["reasoning"] = UsageOf(received, "reasoning")
      /\ end.tokens["cached"] = cached
      /\ \A f \in Timings : end.timings[f] = TimingOf(received, f)
      /\ end.firstOutput = (body.stream /\ Begun(received))
  BY <1>3, <1>5 DEF Heard, Numbered
<1>7. end.timings = [f \in Timings |-> TimingOf(received, f)]
  BY <1>4, <1>6
<1>8. /\ prompt = end.timings["prompt"] /\ prompt \in Counts /\ cached \in Counts
      /\ end.timings["generated"] = TimingOf(received, "generated")
  BY <1>4, <1>5, <1>6
<1>9. (IF prompt # Nil /\ prompt <= MaxInt - (IF cached = Nil THEN 0 ELSE cached)
       THEN prompt + (IF cached = Nil THEN 0 ELSE cached) ELSE Nil) = fallback
  <2> HIDE DEF prompt, cached
  <2> QED
    BY <1>8, ObserverAssumption DEF Counts, Nil
<1> DEFINE tokens == Fallback(end.tokens, end.timings)
           given == [input |-> Update(fallback, UsageOf(received, "input")),
                     output |-> Update(TimingOf(received, "generated"),
                                       UsageOf(received, "output")),
                     cached |-> cached, reasoning |-> UsageOf(received, "reasoning")]
<1>10. tokens = [end.tokens EXCEPT
                   !.input = Update(fallback, end.tokens["input"]),
                   !.output = Update(end.timings["generated"], end.tokens["output"])]
  <2>1. \A x, y : (IF x = Nil THEN y ELSE x) = Update(y, x)
    BY DEF Update
  <2> HIDE DEF prompt, cached, fallback
  <2>2. tokens = [end.tokens EXCEPT
                    !.input = IF end.tokens["input"] = Nil THEN fallback
                              ELSE end.tokens["input"],
                    !.output = IF end.tokens["output"] = Nil THEN end.timings["generated"]
                               ELSE end.tokens["output"]]
    BY <1>4, <1>5, <1>6, <1>8, <1>9 DEF Fallback
  <2> HIDE DEF tokens
  <2> QED
    BY <2>1, <2>2
<1>11. tokens = given
  <2> HIDE DEF prompt, cached, fallback
  <2>1. /\ DOMAIN tokens = Tokens /\ tokens["cached"] = cached
        /\ tokens["reasoning"] = UsageOf(received, "reasoning")
        /\ tokens["input"] = Update(fallback, UsageOf(received, "input"))
        /\ tokens["output"] = Update(TimingOf(received, "generated"),
                                     UsageOf(received, "output"))
    <3> HIDE DEF tokens
    <3> QED
      BY <1>4, <1>5, <1>6, <1>8, <1>10
  <2>2. tokens = [f \in Tokens |-> tokens[f]]
    <3> HIDE DEF tokens
    <3> QED
      BY <1>4, <1>10, <2>1
  <2> HIDE DEF tokens
  <2> QED
    BY <1>5, <2>1, <2>2
<1>12. end.firstOutput = (/\ body.stream
                          /\ \E id \in Objected(received) : hasGeneratedDelta(Objects[id]))
  BY <1>6 DEF Begun
<1> HIDE DEF tokens, given
<1>13. /\ observation.tokens = given
       /\ observation.timings = [f \in Timings |-> TimingOf(received, f)]
       /\ observation.firstOutput =
            (/\ body.stream
             /\ \E id \in Objected(received) : hasGeneratedDelta(Objects[id]))
  BY <1>2, <1>7, <1>11, <1>12 DEF tokens
<1> QED
  BY <1>13 DEF TokensExact, given, received, s

-----------------------------------------------------------------------------
(* What the records add up to.                                             *)

Counters == 0..MaxCount

LEMMA CappedTyped ==
    ASSUME NEW n \in Nat
    PROVE  Capped(n) \in Counters
  BY ExchangeAssumption DEF Capped, Counters

\* saturatingAdd is addition up to the limit.
LEMMA Saturates ==
    ASSUME NEW n \in Nat, NEW v \in Nat
    PROVE  saturatingAdd(Capped(n), v) = Capped(n + v)
  BY ExchangeAssumption DEF Capped, saturatingAdd

\* A saturated counter with one more observation.
LEMMA CounterAdded ==
    ASSUME NEW c \in Counters, NEW v \in Nat
    PROVE  /\ saturatingAdd(c, v) \in Counters /\ saturatingAdd(c, v) >= c
           /\ saturatingAdd(c, v) > 0 <=> c > 0 \/ v > 0
           /\ \A d \in Counters, w \in Nat : d <= c /\ w <= v =>
                saturatingAdd(d, w) <= saturatingAdd(c, v)
  BY ExchangeAssumption DEF Counters, saturatingAdd

LEMMA SumTyped ==
    ASSUME NEW values \in Seq(Counts)
    PROVE  Sum(values) \in Nat
<1> DEFINE N == Len(values)
           P == {n \in 0..N : Sum(SubSeq(values, 1, n)) \in Nat}
<1>1. N \in Nat
  OBVIOUS
<1>2. 0 \in P
  <2>1. SubSeq(values, 1, 0) = <<>>
    OBVIOUS
  <2>2. Sum(SubSeq(values, 1, 0)) = 0
    BY <2>1, SumEmpty
  <2>3. Sum(SubSeq(values, 1, 0)) \in Nat /\ 0 \in 0..N
    BY <1>1, <2>2
  <2> QED
    BY <2>3
<1>3. ASSUME NEW n \in 0..(N - 1), n \in P
      PROVE  n + 1 \in P
  <2>1. /\ SubSeq(values, 1, n) \in Seq(Counts) /\ values[n + 1] \in Counts
        /\ SubSeq(values, 1, n + 1) = Append(SubSeq(values, 1, n), values[n + 1])
    BY Prefixes
  <2>2. Sum(SubSeq(values, 1, n)) \in Nat
    BY <1>3
  <2>3. Sum(SubSeq(values, 1, n + 1)) = AddCount(Sum(SubSeq(values, 1, n)), values[n + 1])
    BY <2>1, SumAppend
  <2>4. Sum(SubSeq(values, 1, n + 1)) \in Nat
    BY <2>1, <2>2, <2>3 DEF AddCount, Counts, Nil
  <2>5. n + 1 \in 0..N
    BY <1>1
  <2> QED
    BY <2>4, <2>5
<1> HIDE DEF P, N
<1>4. \A n \in 0..N : n \in P
  BY <1>1, <1>2, <1>3, Positions
<1>5. N \in P
  BY <1>1, <1>4
<1>6. SubSeq(values, 1, N) = values
  BY SubSeqFull DEF N
<1> QED
  BY <1>5, <1>6 DEF P

\* The positions that have something, with one more position.
LEMMA CountAppended ==
    ASSUME NEW n \in Nat, NEW S \in SUBSET (1..n)
    PROVE  /\ Cardinality(S) \in Nat
           /\ Cardinality(S \cup {n + 1}) = Cardinality(S) + 1
<1>1. IsFiniteSet(1..n)
  BY FS_Interval
<1>2. IsFiniteSet(S)
  BY <1>1, FS_Subset
<1>3. n + 1 \notin S
  OBVIOUS
<1> QED
  BY <1>2, <1>3, FS_AddElement, FS_CardinalityType

\* The records: an outcome, and the counts that were reported.
Records == [outcome: Outcomes, tokens: [Tokens -> Counts], timings: [Timings -> Counts]]
Reported(given, f) == [k \in 1..Len(given) |-> given[k].tokens[f]]
Counting(given, f) == {k \in 1..Len(given) : given[k].tokens[f] # Nil}
Having(given, o) == {k \in 1..Len(given) : given[k].outcome = o}
Reuses(r) == /\ r.tokens["cached"] # Nil /\ r.tokens["input"] > 0
             /\ r.tokens["cached"] <= r.tokens["input"]
Reused(given) == \E k \in 1..Len(given) : Reuses(given[k])

\* What the records say of a pair, and what they add up to.
Pairs == Ratios \cup Rates
Members(given, p) == {k \in 1..Len(given) : Together(given[k], p)}
Wholes(given, p) ==
    [k \in 1..Len(given) |-> IF k \in Members(given, p) THEN WholeOf(given[k], p) ELSE Nil]
Parts(given, p) ==
    [k \in 1..Len(given) |-> IF k \in Members(given, p) THEN PartOf(given[k], p) ELSE Nil]
Totals(given, p) ==
    [whole |-> Capped(Sum(Wholes(given, p))), part |-> Capped(Sum(Parts(given, p))),
     observations |-> Capped(Cardinality(Members(given, p)))]

\* Two counts of which one is part of the other.
Paired(p) ==
    /\ p.whole \in Counters /\ p.part \in Counters /\ p.observations \in Counters
    /\ p.part <= p.whole /\ (p.whole > 0 => p.observations > 0)

\* An aggregate is what the records add up to.
AddsUp(u, given) ==
    /\ u.requests = Capped(Len(given))
    /\ \A p \in Pairs : u[p] = Totals(given, p)
    /\ DOMAIN u.tokens = Tokens /\ DOMAIN u.outcomes = Outcomes
    /\ \A f \in Tokens :
         u.tokens[f] = [total |-> Capped(Sum(Reported(given, f))),
                        observations |-> Capped(Cardinality(Counting(given, f)))]
    /\ \A o \in Outcomes : u.outcomes[o] = Capped(Cardinality(Having(given, o)))
    /\ Paired(u.cacheReuse) /\ Paired(u.draft)
    /\ u.cacheReuse.whole > 0 <=> Reused(given)

\* A pair of saturated sums keeps its order.
LEMMA PairAdded ==
    ASSUME NEW p, Paired(p), NEW whole \in Counts, NEW part \in Counts
    PROVE  LET r == addPair(p, part <= whole, whole, part)
           IN  /\ Paired(r)
               /\ r.whole > 0 <=> p.whole > 0 \/ (part # Nil /\ whole > 0 /\ part <= whole)
<1> DEFINE r == addPair(p, part <= whole, whole, part)
           skip == ~(part <= whole) \/ whole = Nil \/ part = Nil
<1>1. /\ p.whole \in Counters /\ p.part \in Counters /\ p.observations \in Counters
      /\ p.part <= p.whole /\ (p.whole > 0 => p.observations > 0)
  BY DEF Paired
<1>2. CASE skip
  <2>1. r = p
    BY <1>2 DEF addPair
  <2>2. ~(part # Nil /\ whole > 0 /\ part <= whole)
    BY <1>2 DEF Nil
  <2> QED
    BY <2>1, <2>2
<1>3. CASE ~skip
  <2>1. r = [whole |-> saturatingAdd(p.whole, whole), part |-> saturatingAdd(p.part, part),
             observations |-> saturatingAdd(p.observations, 1)]
    BY <1>3 DEF addPair
  <2>2. /\ r.whole = saturatingAdd(p.whole, whole)
        /\ r.part = saturatingAdd(p.part, part)
        /\ r.observations = saturatingAdd(p.observations, 1)
    BY <2>1
  <2>3. whole \in Nat /\ part \in Nat /\ part <= whole /\ 1 \in Nat /\ 1 > 0 /\ part # Nil
    BY <1>3 DEF Counts, Nil
  <2> HIDE DEF r
  <2>4. /\ r.whole \in Counters /\ r.part \in Counters /\ r.observations \in Counters
        /\ r.whole > 0 <=> p.whole > 0 \/ whole > 0
        /\ r.observations > 0 /\ r.part <= r.whole
    <3>1. /\ r.whole \in Counters /\ (r.whole > 0 <=> p.whole > 0 \/ whole > 0)
          /\ \A d \in Counters, w \in Nat : d <= p.whole /\ w <= whole =>
               saturatingAdd(d, w) <= r.whole
      <4>1. LET v == saturatingAdd(p.whole, whole)
            IN  /\ v \in Counters /\ (v > 0 <=> p.whole > 0 \/ whole > 0)
                /\ \A d \in Counters, w \in Nat : d <= p.whole /\ w <= whole =>
                     saturatingAdd(d, w) <= v
        BY <1>1, <2>3, CounterAdded
      <4> QED
        BY <2>2, <4>1
    <3>2. r.part \in Counters
      BY <1>1, <2>2, <2>3, CounterAdded
    <3>3. r.observations \in Counters /\ r.observations > 0
      BY <1>1, <2>2, <2>3, CounterAdded
    <3>4. r.part <= r.whole
      BY <1>1, <2>2, <2>3, <3>1
    <3> QED
      BY <3>1, <3>2, <3>3, <3>4
  <2> QED
    BY <2>3, <2>4 DEF Paired, r
<1> QED
  BY <1>2, <1>3

\* What records say, with one more record.
LEMMA RecordAppended ==
    ASSUME NEW given \in Seq(Records), NEW r \in Records
    PROVE  LET more == Append(given, r)
               n == Len(given) + 1
           IN  /\ \A f \in Tokens : /\ Reported(given, f) \in Seq(Counts)
                                    /\ Reported(more, f) =
                                         Append(Reported(given, f), r.tokens[f])
                                    /\ Counting(more, f) = Counting(given, f) \cup
                                         IF r.tokens[f] # Nil THEN {n} ELSE {}
               /\ \A o : Having(more, o) = Having(given, o) \cup
                           IF r.outcome = o THEN {n} ELSE {}
               /\ Reused(more) <=> Reused(given) \/ Reuses(r)
               /\ more \in Seq(Records)
<1> DEFINE more == Append(given, r)
           m == Len(given)
           n == m + 1
<1>1. /\ m \in Nat /\ more \in Seq(Records) /\ Len(more) = n /\ more[n] = r
      /\ \A k \in 1..m : more[k] = given[k] /\ given[k] \in Records
  BY AppendProperties
<1>2. \A k : k \in 1..n <=> k \in 1..m \/ k = n
  BY <1>1
<1> HIDE DEF more, m, Records
<1>3. ASSUME NEW f \in Tokens
      PROVE  /\ Reported(given, f) \in Seq(Counts)
             /\ Reported(more, f) = Append(Reported(given, f), r.tokens[f])
             /\ Counting(more, f) = Counting(given, f) \cup
                  IF r.tokens[f] # Nil THEN {n} ELSE {}
  <2>1. \A s \in Records : s.tokens[f] \in Counts
    BY DEF Records
  <2>2. /\ Reported(given, f) = [k \in 1..m |-> given[k].tokens[f]]
        /\ Reported(more, f) = [k \in 1..n |-> more[k].tokens[f]]
    BY <1>1 DEF Reported, m
  <2>3. /\ Reported(given, f) \in Seq(Counts) /\ Len(Reported(given, f)) = m
        /\ \A k \in 1..m : Reported(given, f)[k] = given[k].tokens[f]
    BY <1>1, <2>1, <2>2
  <2>4. \A k \in 1..n : more[k] \in Records
    BY <1>1, <1>2
  <2>5. n \in Nat
    BY <1>1
  <2>6. /\ Reported(more, f) \in Seq(Counts) /\ Len(Reported(more, f)) = n
        /\ \A k \in 1..n : Reported(more, f)[k] = more[k].tokens[f]
    BY <2>1, <2>2, <2>4, <2>5
  <2> DEFINE longer == Append(Reported(given, f), r.tokens[f])
  <2>7. /\ longer \in Seq(Counts) /\ Len(longer) = n /\ longer[n] = r.tokens[f]
        /\ \A k \in 1..m : longer[k] = given[k].tokens[f]
    BY <2>1, <2>3, AppendProperties
  <2> HIDE DEF longer
  <2>8. \A k \in 1..n : Reported(more, f)[k] = longer[k]
    BY <1>1, <1>2, <2>6, <2>7
  <2>9. Reported(more, f) = longer
    BY <2>6, <2>7, <2>8, SeqEqual
  <2>10. /\ Counting(more, f) = {k \in 1..n : more[k].tokens[f] # Nil}
         /\ Counting(given, f) = {k \in 1..m : given[k].tokens[f] # Nil}
    BY <1>1 DEF Counting, m
  <2>11. Counting(more, f) = Counting(given, f) \cup IF r.tokens[f] # Nil THEN {n} ELSE {}
    BY <1>1, <1>2, <2>10
  <2> QED
    BY <2>3, <2>9, <2>11 DEF longer
<1>4. ASSUME NEW o
      PROVE  Having(more, o) = Having(given, o) \cup IF r.outcome = o THEN {n} ELSE {}
  <2>1. /\ Having(more, o) = {k \in 1..n : more[k].outcome = o}
        /\ Having(given, o) = {k \in 1..m : given[k].outcome = o}
    BY <1>1 DEF Having, m
  <2> QED
    BY <1>1, <1>2, <2>1
<1>5. Reused(more) <=> Reused(given) \/ Reuses(r)
  <2>1. /\ Reused(more) <=> \E k \in 1..n : Reuses(more[k])
        /\ Reused(given) <=> \E k \in 1..m : Reuses(given[k])
    BY <1>1 DEF Reused, m
  <2> QED
    BY <1>1, <1>2, <2>1
<1> QED
  BY <1>1, <1>3, <1>4, <1>5 DEF more, m

\* A pair of a record has two counts.
LEMMA PairTyped ==
    ASSUME NEW r \in Records, NEW p \in Pairs
    PROVE  /\ WholeOf(r, p) \in Counts /\ PartOf(r, p) \in Counts
           /\ Together(r, p) => WholeOf(r, p) \in Nat /\ PartOf(r, p) \in Nat
<1>1. r.tokens \in [Tokens -> Counts] /\ r.timings \in [Timings -> Counts]
  BY DEF Records
<1>2. /\ r.tokens.input \in Counts /\ r.tokens.cached \in Counts
      /\ r.timings.draft \in Counts /\ r.timings.accepted \in Counts
  BY <1>1 DEF Tokens, NoTokens, Timings, NoTimings
<1>3. /\ r.timings.prompt \in Counts /\ r.timings.promptMs \in Counts
      /\ r.timings.generated \in Counts /\ r.timings.generatedMs \in Counts
  BY <1>1 DEF Timings, NoTimings
<1>4. \A n \in Counts : (IF n > 0 THEN n - 1 ELSE n) \in Counts
  BY DEF Counts, Nil
<1>5. p \in {"cacheReuse", "draft", "promptRate", "generationRate"}
  BY DEF Pairs, Ratios, Rates
<1>6. WholeOf(r, p) \in Counts /\ PartOf(r, p) \in Counts
  <2>1. CASE p = "cacheReuse"
    BY <1>2, <2>1 DEF WholeOf, PartOf
  <2>2. CASE p = "draft"
    BY <1>2, <2>2 DEF WholeOf, PartOf
  <2>3. CASE p = "promptRate"
    BY <1>3, <2>3 DEF WholeOf, PartOf
  <2>4. CASE p = "generationRate"
    BY <1>3, <1>4, <2>4 DEF WholeOf, PartOf
  <2> QED
    BY <1>5, <2>1, <2>2, <2>3, <2>4
<1>7. Together(r, p) => WholeOf(r, p) # Nil /\ PartOf(r, p) # Nil
  BY DEF Together
<1> QED
  BY <1>6, <1>7 DEF Counts

\* What is selected of each record, of records with one more.
LEMMA ColumnAppended ==
    ASSUME NEW given \in Seq(Records), NEW r \in Records, NEW g \in [Records -> Counts]
    PROVE  LET more == Append(given, r)
               column == [k \in 1..Len(given) |-> g[given[k]]]
           IN  /\ column \in Seq(Counts)
               /\ [k \in 1..Len(more) |-> g[more[k]]] = Append(column, g[r])
<1> DEFINE more == Append(given, r)
           m == Len(given)
           n == m + 1
           column == [k \in 1..m |-> g[given[k]]]
           longer == [k \in 1..n |-> g[more[k]]]
<1>1. /\ m \in Nat /\ n \in Nat /\ Len(more) = n /\ more[n] = r
      /\ \A k \in 1..m : more[k] = given[k] /\ given[k] \in Records
  BY AppendProperties
<1> HIDE DEF more, m, Records
<1>2. \A k : k \in 1..n <=> k \in 1..m \/ k = n
  BY <1>1
<1>3. \A s \in Records : g[s] \in Counts
  OBVIOUS
<1>4. /\ column \in Seq(Counts) /\ Len(column) = m
      /\ \A k \in 1..m : column[k] = g[given[k]]
  BY <1>1, <1>3
<1>5. \A k \in 1..n : more[k] \in Records
  BY <1>1, <1>2
<1>6. /\ longer \in Seq(Counts) /\ Len(longer) = n
      /\ \A k \in 1..n : longer[k] = g[more[k]]
  BY <1>1, <1>3, <1>5
<1> HIDE DEF column, longer
<1>7. /\ Append(column, g[r]) \in Seq(Counts) /\ Len(Append(column, g[r])) = n
      /\ Append(column, g[r])[n] = g[r]
      /\ \A k \in 1..m : Append(column, g[r])[k] = g[given[k]]
  BY <1>3, <1>4, AppendProperties
<1>8. \A k \in 1..n : longer[k] = Append(column, g[r])[k]
  BY <1>1, <1>2, <1>6, <1>7
<1>9. longer = Append(column, g[r])
  BY <1>6, <1>7, <1>8, SeqEqual
<1> QED
  BY <1>1, <1>4, <1>9 DEF column, longer, more, m

\* The members of a pair, with one more record.
LEMMA MembersAppended ==
    ASSUME NEW given \in Seq(Records), NEW r \in Records, NEW p
    PROVE  LET more == Append(given, r)
               n == Len(given) + 1
           IN  /\ Len(more) = n
               /\ Members(more, p) = Members(given, p) \cup
                    IF Together(r, p) THEN {n} ELSE {}
<1> DEFINE more == Append(given, r)
           m == Len(given)
           n == m + 1
<1>1. /\ m \in Nat /\ Len(more) = n /\ more[n] = r
      /\ \A k \in 1..m : more[k] = given[k]
  BY AppendProperties
<1>2. \A k : k \in 1..n <=> k \in 1..m \/ k = n
  BY <1>1
<1> HIDE DEF more, m
<1>3. /\ Members(more, p) = {k \in 1..n : Together(more[k], p)}
      /\ Members(given, p) = {k \in 1..m : Together(given[k], p)}
  BY <1>1 DEF Members, m
<1>4. Members(more, p) = Members(given, p) \cup IF Together(r, p) THEN {n} ELSE {}
  BY <1>1, <1>2, <1>3
<1> QED
  BY <1>1, <1>4 DEF more, m

\* The columns of a pair are values selected of each record.
LEMMA PairColumns ==
    ASSUME NEW given \in Seq(Records), NEW p
    PROVE  LET whole == [s \in Records |-> IF Together(s, p) THEN WholeOf(s, p) ELSE Nil]
               part == [s \in Records |-> IF Together(s, p) THEN PartOf(s, p) ELSE Nil]
           IN  /\ Wholes(given, p) = [k \in 1..Len(given) |-> whole[given[k]]]
               /\ Parts(given, p) = [k \in 1..Len(given) |-> part[given[k]]]
<1> DEFINE whole == [s \in Records |-> IF Together(s, p) THEN WholeOf(s, p) ELSE Nil]
           part == [s \in Records |-> IF Together(s, p) THEN PartOf(s, p) ELSE Nil]
<1>1. \A k \in 1..Len(given) : given[k] \in Records
  OBVIOUS
<1>2. /\ \A s \in Records : whole[s] = IF Together(s, p) THEN WholeOf(s, p) ELSE Nil
      /\ \A s \in Records : part[s] = IF Together(s, p) THEN PartOf(s, p) ELSE Nil
  OBVIOUS
<1>3. \A k \in 1..Len(given) : k \in Members(given, p) <=> Together(given[k], p)
  BY DEF Members
<1> HIDE DEF whole, part, Records
<1>4. Wholes(given, p) = [k \in 1..Len(given) |-> whole[given[k]]]
  BY <1>1, <1>2, <1>3 DEF Wholes
<1>5. Parts(given, p) = [k \in 1..Len(given) |-> part[given[k]]]
  BY <1>1, <1>2, <1>3 DEF Parts
<1> QED
  BY <1>4, <1>5 DEF whole, part

\* A column with one more value, saturated.
LEMMA SumGrows ==
    ASSUME NEW values \in Seq(Counts), NEW v \in Counts
    PROVE  /\ v = Nil => Capped(Sum(Append(values, v))) = Capped(Sum(values))
           /\ v \in Nat => Capped(Sum(Append(values, v))) =
                              saturatingAdd(Capped(Sum(values)), v)
<1>1. Sum(values) \in Nat /\ Sum(Append(values, v)) = AddCount(Sum(values), v)
  BY SumTyped, SumAppend
<1>2. v \in Nat => v # Nil
  BY DEF Nil
<1>3. /\ v = Nil => Sum(Append(values, v)) = Sum(values)
      /\ v \in Nat => Sum(Append(values, v)) = Sum(values) + v
  BY <1>1, <1>2 DEF AddCount
<1> QED
  BY <1>1, <1>3, Saturates

\* One more record: both counts are added, or neither.
LEMMA TotalsAdded ==
    ASSUME NEW given \in Seq(Records), NEW r \in Records, NEW p \in Pairs
    PROVE  Totals(Append(given, r), p) =
             IF Together(r, p)
             THEN [whole |-> saturatingAdd(Totals(given, p).whole, WholeOf(r, p)),
                   part |-> saturatingAdd(Totals(given, p).part, PartOf(r, p)),
                   observations |-> saturatingAdd(Totals(given, p).observations, 1)]
             ELSE Totals(given, p)
<1> DEFINE more == Append(given, r)
           n == Len(given)
           whole == [s \in Records |-> IF Together(s, p) THEN WholeOf(s, p) ELSE Nil]
           part == [s \in Records |-> IF Together(s, p) THEN PartOf(s, p) ELSE Nil]
<1>1. more \in Seq(Records) /\ n \in Nat
  BY AppendProperties
<1>2. whole \in [Records -> Counts] /\ part \in [Records -> Counts]
  <2>1. /\ \A s \in Records : (IF Together(s, p) THEN WholeOf(s, p) ELSE Nil) \in Counts
        /\ \A s \in Records : (IF Together(s, p) THEN PartOf(s, p) ELSE Nil) \in Counts
    BY PairTyped DEF Counts
  <2> HIDE DEF Records
  <2> QED
    BY <2>1
<1>3. /\ whole[r] = IF Together(r, p) THEN WholeOf(r, p) ELSE Nil
      /\ part[r] = IF Together(r, p) THEN PartOf(r, p) ELSE Nil
  OBVIOUS
<1>4. /\ Wholes(given, p) = [k \in 1..Len(given) |-> whole[given[k]]]
      /\ Parts(given, p) = [k \in 1..Len(given) |-> part[given[k]]]
  BY PairColumns
<1>5. /\ Wholes(more, p) = [k \in 1..Len(more) |-> whole[more[k]]]
      /\ Parts(more, p) = [k \in 1..Len(more) |-> part[more[k]]]
  BY <1>1, PairColumns
<1> HIDE DEF whole, part
<1>6. Wholes(given, p) \in Seq(Counts) /\ Wholes(more, p) = Append(Wholes(given, p), whole[r])
  BY <1>2, <1>4, <1>5, ColumnAppended
<1>7. Parts(given, p) \in Seq(Counts) /\ Parts(more, p) = Append(Parts(given, p), part[r])
  BY <1>2, <1>4, <1>5, ColumnAppended
<1>8. whole[r] \in Counts /\ part[r] \in Counts
  BY <1>2
<1>9. Members(more, p) = Members(given, p) \cup IF Together(r, p) THEN {n + 1} ELSE {}
  BY MembersAppended
<1>10. /\ Members(given, p) \in SUBSET (1..n)
       /\ Cardinality(Members(given, p)) \in Nat
       /\ Cardinality(Members(given, p) \cup {n + 1}) = Cardinality(Members(given, p)) + 1
  <2>1. Members(given, p) \in SUBSET (1..n)
    BY DEF Members
  <2> QED
    BY <1>1, <2>1, CountAppended
<1>11. /\ Totals(more, p) =
             [whole |-> Capped(Sum(Wholes(more, p))), part |-> Capped(Sum(Parts(more, p))),
              observations |-> Capped(Cardinality(Members(more, p)))]
       /\ Totals(given, p) =
             [whole |-> Capped(Sum(Wholes(given, p))), part |-> Capped(Sum(Parts(given, p))),
              observations |-> Capped(Cardinality(Members(given, p)))]
  BY DEF Totals
<1> HIDE DEF more, n, Records
<1>12. CASE Together(r, p)
  <2>1. /\ whole[r] = WholeOf(r, p) /\ part[r] = PartOf(r, p)
        /\ whole[r] \in Nat /\ part[r] \in Nat
    BY <1>3, <1>12, PairTyped
  <2>2. Capped(Sum(Wholes(more, p))) = saturatingAdd(Totals(given, p).whole, WholeOf(r, p))
    <3>1. Capped(Sum(Append(Wholes(given, p), whole[r]))) =
            saturatingAdd(Capped(Sum(Wholes(given, p))), whole[r])
      BY <1>6, <1>8, <2>1, SumGrows
    <3> QED
      BY <1>6, <1>11, <2>1, <3>1
  <2>3. Capped(Sum(Parts(more, p))) = saturatingAdd(Totals(given, p).part, PartOf(r, p))
    <3>1. Capped(Sum(Append(Parts(given, p), part[r]))) =
            saturatingAdd(Capped(Sum(Parts(given, p))), part[r])
      BY <1>7, <1>8, <2>1, SumGrows
    <3> QED
      BY <1>7, <1>11, <2>1, <3>1
  <2>4. Capped(Cardinality(Members(more, p))) =
          saturatingAdd(Totals(given, p).observations, 1)
    <3>1. Cardinality(Members(more, p)) = Cardinality(Members(given, p)) + 1
      BY <1>9, <1>10, <1>12
    <3>2. saturatingAdd(Capped(Cardinality(Members(given, p))), 1) =
            Capped(Cardinality(Members(given, p)) + 1)
      BY <1>10, Saturates
    <3> QED
      BY <1>11, <3>1, <3>2
  <2> QED
    BY <1>11, <1>12, <2>2, <2>3, <2>4 DEF more
<1>13. CASE ~Together(r, p)
  <2>1. whole[r] = Nil /\ part[r] = Nil
    BY <1>3, <1>13
  <2>2. Capped(Sum(Wholes(more, p))) = Capped(Sum(Wholes(given, p)))
    BY <1>6, <1>8, <2>1, SumGrows
  <2>3. Capped(Sum(Parts(more, p))) = Capped(Sum(Parts(given, p)))
    BY <1>7, <1>8, <2>1, SumGrows
  <2>4. Members(more, p) = Members(given, p)
    BY <1>9, <1>13
  <2> QED
    BY <1>11, <1>13, <2>2, <2>3, <2>4 DEF more
<1> QED
  BY <1>12, <1>13

\* addPair adds the two counts of a record exactly if it has both.
LEMMA PairKept ==
    ASSUME NEW u, NEW given \in Seq(Records), NEW r \in Records, NEW p \in Pairs,
           u[p] = Totals(given, p)
    PROVE  addAggregate(u, r.outcome, r.tokens, r.timings)[p] = Totals(Append(given, r), p)
<1> DEFINE next == addAggregate(u, r.outcome, r.tokens, r.timings)
           valid == p \in Ratios => PartOf(r, p) <= WholeOf(r, p)
<1>1. p \in {"cacheReuse", "draft", "promptRate", "generationRate"}
  BY DEF Pairs, Ratios, Rates
<1>2. next[p] = addPair(u[p], valid, WholeOf(r, p), PartOf(r, p))
  <2>1. CASE p = "cacheReuse"
    BY <2>1 DEF addAggregate, WholeOf, PartOf, Ratios
  <2>2. CASE p = "draft"
    BY <2>2 DEF addAggregate, addDraftMetric, WholeOf, PartOf, Ratios
  <2>3. CASE p = "promptRate"
    BY <2>3 DEF addAggregate, addThroughputMetric, WholeOf, PartOf, Ratios
  <2>4. CASE p = "generationRate"
    BY <2>4 DEF addAggregate, addThroughputMetric, WholeOf, PartOf, Ratios
  <2> QED
    BY <1>1, <2>1, <2>2, <2>3, <2>4
<1> HIDE DEF next, valid
<1>3. next[p] = IF Together(r, p)
                THEN [whole |-> saturatingAdd(u[p].whole, WholeOf(r, p)),
                      part |-> saturatingAdd(u[p].part, PartOf(r, p)),
                      observations |-> saturatingAdd(u[p].observations, 1)]
                ELSE u[p]
  BY <1>2 DEF addPair, Together, valid
<1>4. Totals(Append(given, r), p) =
        IF Together(r, p)
        THEN [whole |-> saturatingAdd(u[p].whole, WholeOf(r, p)),
              part |-> saturatingAdd(u[p].part, PartOf(r, p)),
              observations |-> saturatingAdd(u[p].observations, 1)]
        ELSE u[p]
  BY TotalsAdded
<1> QED
  BY <1>3, <1>4 DEF next

\* addAggregate: the aggregate is what all records add up to.
LEMMA RecordAdded ==
    ASSUME NEW u, NEW given \in Seq(Records), AddsUp(u, given), NEW r \in Records
    PROVE  AddsUp(addAggregate(u, r.outcome, r.tokens, r.timings), Append(given, r))
<1> DEFINE more == Append(given, r)
           next == addAggregate(u, r.outcome, r.tokens, r.timings)
           n == Len(given)
<1>1. /\ \A f \in Tokens : /\ Reported(given, f) \in Seq(Counts)
                           /\ Reported(more, f) = Append(Reported(given, f), r.tokens[f])
                           /\ Counting(more, f) = Counting(given, f) \cup
                                IF r.tokens[f] # Nil THEN {n + 1} ELSE {}
      /\ \A o : Having(more, o) = Having(given, o) \cup
                  IF r.outcome = o THEN {n + 1} ELSE {}
      /\ Reused(more) <=> Reused(given) \/ Reuses(r)
  BY RecordAppended
<1>2. /\ n \in Nat /\ \A f : Counting(given, f) \in SUBSET (1..n)
      /\ \A o : Having(given, o) \in SUBSET (1..n)
  BY DEF Counting, Having
<1>3. /\ r.tokens \in [Tokens -> Counts] /\ r.timings \in [Timings -> Counts]
      /\ r.outcome \in Outcomes
  BY DEF Records
<1>4. /\ next.outcomes = [u.outcomes EXCEPT ![r.outcome] =
                            saturatingAdd(u.outcomes[r.outcome], 1)]
      /\ next.tokens = [f \in DOMAIN u.tokens |->
                          addTokenMetric(u.tokens[f], r.tokens[f])]
      /\ next.cacheReuse = addPair(u.cacheReuse, r.tokens.cached <= r.tokens.input,
                                   r.tokens.input, r.tokens.cached)
      /\ next.draft = addPair(u.draft, r.timings.accepted <= r.timings.draft,
                              r.timings.draft, r.timings.accepted)
  BY DEF addAggregate, addDraftMetric
<1> HIDE DEF more, next, n, Records
<1>5. ASSUME NEW f \in Tokens
      PROVE  next.tokens[f] = [total |-> Capped(Sum(Reported(more, f))),
                               observations |-> Capped(Cardinality(Counting(more, f)))]
  <2> DEFINE values == Reported(given, f)
             v == r.tokens[f]
             counted == Counting(given, f)
             metric == u.tokens[f]
  <2>1. v \in Counts /\ values \in Seq(Counts) /\ Reported(more, f) = Append(values, v)
    BY <1>1, <1>3
  <2>2. /\ metric.total = Capped(Sum(values))
        /\ metric.observations = Capped(Cardinality(counted))
        /\ metric = [total |-> Capped(Sum(values)),
                     observations |-> Capped(Cardinality(counted))]
    BY DEF AddsUp
  <2>3. next.tokens[f] = addTokenMetric(metric, v)
    BY <1>4 DEF AddsUp
  <2>4. /\ Cardinality(counted) \in Nat
        /\ Cardinality(counted \cup {n + 1}) = Cardinality(counted) + 1
    BY <1>2, CountAppended
  <2>5. Sum(values) \in Nat /\ Sum(Append(values, v)) = AddCount(Sum(values), v)
    BY <2>1, SumTyped, SumAppend
  <2>6. Counting(more, f) = counted \cup IF v # Nil THEN {n + 1} ELSE {}
    BY <1>1
  <2> HIDE DEF values, v, counted, metric
  <2>7. CASE v = Nil
    <3>1. Counting(more, f) = counted /\ Sum(Reported(more, f)) = Sum(values)
      BY <2>1, <2>5, <2>6, <2>7 DEF AddCount
    <3>2. next.tokens[f] = metric
      BY <2>3, <2>7 DEF addTokenMetric
    <3> QED
      BY <2>2, <3>1, <3>2
  <2>8. CASE v # Nil
    <3>1. v \in Nat
      BY <2>1, <2>8 DEF Counts
    <3>2. Sum(Reported(more, f)) = Sum(values) + v
      BY <2>1, <2>5, <2>8 DEF AddCount
    <3>3. Cardinality(Counting(more, f)) = Cardinality(counted) + 1
      BY <2>4, <2>6, <2>8
    <3>4. next.tokens[f] = [total |-> saturatingAdd(metric.total, v),
                            observations |-> saturatingAdd(metric.observations, 1)]
      BY <2>3, <2>8 DEF addTokenMetric
    <3>5. /\ saturatingAdd(metric.total, v) = Capped(Sum(values) + v)
          /\ saturatingAdd(metric.observations, 1) = Capped(Cardinality(counted) + 1)
      BY <2>2, <2>4, <2>5, <3>1, Saturates
    <3> QED
      BY <3>2, <3>3, <3>4, <3>5
  <2> QED
    BY <2>7, <2>8
<1>6. ASSUME NEW o \in Outcomes
      PROVE  next.outcomes[o] = Capped(Cardinality(Having(more, o)))
  <2> DEFINE having == Having(given, o)
  <2>1. u.outcomes[o] = Capped(Cardinality(having)) /\ DOMAIN u.outcomes = Outcomes
    BY DEF AddsUp
  <2>2. /\ Cardinality(having) \in Nat
        /\ Cardinality(having \cup {n + 1}) = Cardinality(having) + 1
    BY <1>2, CountAppended
  <2>3. Having(more, o) = having \cup IF r.outcome = o THEN {n + 1} ELSE {}
    BY <1>1
  <2> HIDE DEF having
  <2>4. CASE r.outcome = o
    <3>1. next.outcomes[o] = saturatingAdd(u.outcomes[o], 1)
      BY <1>4, <2>1, <2>4
    <3>2. saturatingAdd(Capped(Cardinality(having)), 1) = Capped(Cardinality(having) + 1)
      BY <2>2, Saturates
    <3> QED
      BY <2>1, <2>2, <2>3, <2>4, <3>1, <3>2
  <2>5. CASE r.outcome # o
    <3>1. next.outcomes[o] = u.outcomes[o]
      BY <1>4, <2>1, <2>5
    <3>2. Having(more, o) = having
      BY <2>3, <2>5
    <3> QED
      BY <2>1, <3>1, <3>2
  <2> QED
    BY <2>4, <2>5
<1>7. /\ Paired(next.cacheReuse)
      /\ next.cacheReuse.whole > 0 <=> u.cacheReuse.whole > 0 \/ Reuses(r)
  <2>1. /\ r.tokens.cached = r.tokens["cached"] /\ r.tokens.input = r.tokens["input"]
        /\ r.tokens["cached"] \in Counts /\ r.tokens["input"] \in Counts
    BY <1>3 DEF Tokens, NoTokens
  <2>2. Paired(u.cacheReuse)
    BY DEF AddsUp
  <2> QED
    BY <1>4, <2>1, <2>2, PairAdded DEF Reuses
<1>8. Paired(next.draft)
  <2>1. r.timings.draft \in Counts /\ r.timings.accepted \in Counts
    BY <1>3 DEF Timings, NoTimings
  <2>2. Paired(u.draft)
    BY DEF AddsUp
  <2> QED
    BY <1>4, <2>1, <2>2, PairAdded
<1>9. next.cacheReuse.whole > 0 <=> Reused(more)
  BY <1>1, <1>7 DEF AddsUp
<1>10. DOMAIN next.tokens = Tokens /\ DOMAIN next.outcomes = Outcomes
  BY <1>4 DEF AddsUp
<1>11. ASSUME NEW p \in Pairs
       PROVE  next[p] = Totals(more, p)
  <2>1. u[p] = Totals(given, p)
    BY DEF AddsUp
  <2> QED
    BY <2>1, PairKept DEF next, more
<1>12. next.requests = Capped(Len(more))
  <2>1. next.requests = saturatingAdd(u.requests, 1) /\ u.requests = Capped(n)
    BY DEF addAggregate, AddsUp, next, n
  <2>2. Len(more) = n + 1
    BY MembersAppended DEF more, n
  <2> QED
    BY <1>2, <2>1, <2>2, Saturates
<1> QED
  BY <1>5, <1>6, <1>7, <1>8, <1>9, <1>10, <1>11, <1>12 DEF AddsUp, more, next

UsageSound == records \in Seq(Records) /\ AddsUp(usage, records)

\* The parts of UsageSound are what UsageExact asks for.
LEMMA UsageNow == UsageSound => UsageExact
<1> SUFFICES ASSUME UsageSound
             PROVE  UsageExact
  OBVIOUS
<1>1. AddsUp(usage, records) /\ records \in Seq(Records)
  BY DEF UsageSound
<1>2. ASSUME NEW f \in Tokens
      PROVE  LET values == [k \in 1..Len(records) |-> records[k].tokens[f]]
             IN  usage.tokens[f] =
                   [total |-> Capped(Sum(values)),
                    observations |-> Capped(Cardinality({k \in DOMAIN values :
                                                           values[k] # Nil}))]
  <2> DEFINE values == [k \in 1..Len(records) |-> records[k].tokens[f]]
  <2>1. {k \in DOMAIN values : values[k] # Nil} = Counting(records, f)
    BY DEF Counting
  <2>2. values = Reported(records, f)
    BY DEF Reported
  <2>3. usage.tokens[f] = [total |-> Capped(Sum(Reported(records, f))),
                           observations |-> Capped(Cardinality(Counting(records, f)))]
    BY <1>1 DEF AddsUp
  <2> HIDE DEF values
  <2> QED
    BY <2>1, <2>2, <2>3 DEF values
<1>3. \A o \in Outcomes :
        usage.outcomes[o] = Capped(Cardinality({k \in 1..Len(records) :
                                                  records[k].outcome = o}))
  BY <1>1 DEF AddsUp, Having
<1>4. Paired(usage.cacheReuse) /\ Paired(usage.draft)
      /\ (usage.cacheReuse.whole > 0 <=> Reused(records))
  BY <1>1 DEF AddsUp
<1>5. "cacheReuse" \in {r[1] : r \in finalizedAggregate(usage)} <=>
        usage.cacheReuse.observations > 0 /\ usage.cacheReuse.whole > 0
  <2> DEFINE ratios == {r \in {"cacheReuse", "draft"} :
                          usage[r].observations > 0 /\ usage[r].whole > 0}
             rates == {r \in {"promptRate", "generationRate"} :
                         usage[r].observations > 0 /\ usage[r].part > 0}
  <2>1. finalizedAggregate(usage) = {<<rate, usage[rate].whole>> : rate \in ratios}
                                      \cup {<<rate, usage[rate].part>> : rate \in rates}
    BY DEF finalizedAggregate
  <2>2. "cacheReuse" \notin rates
    OBVIOUS
  <2>3. "cacheReuse" \in ratios <=>
          usage.cacheReuse.observations > 0 /\ usage.cacheReuse.whole > 0
    OBVIOUS
  <2> HIDE DEF ratios, rates
  <2>4. /\ \A r : <<r, usage[r].whole>>[1] = r
        /\ \A r : <<r, usage[r].part>>[1] = r
    OBVIOUS
  <2>5. "cacheReuse" \in ratios =>
          "cacheReuse" \in {r[1] : r \in finalizedAggregate(usage)}
    BY <2>1, <2>4
  <2>6. ASSUME NEW r \in finalizedAggregate(usage), r[1] = "cacheReuse"
        PROVE  "cacheReuse" \in ratios
    BY <2>1, <2>2, <2>4, <2>6
  <2> QED
    BY <2>3, <2>5, <2>6
<1>6. Reused(records) <=>
        \E k \in 1..Len(records) :
          /\ records[k].tokens.cached # Nil /\ records[k].tokens.input > 0
          /\ records[k].tokens.cached <= records[k].tokens.input
  BY DEF Reused, Reuses
<1>7. /\ usage.cacheReuse.part <= usage.cacheReuse.whole
      /\ usage.draft.part <= usage.draft.whole
      /\ usage.cacheReuse.whole > 0 => usage.cacheReuse.observations > 0
  BY <1>4 DEF Paired
<1>8. ("cacheReuse" \in {r[1] : r \in finalizedAggregate(usage)}) =
        \E k \in 1..Len(records) :
          /\ records[k].tokens.cached # Nil /\ records[k].tokens.input > 0
          /\ records[k].tokens.cached <= records[k].tokens.input
  <2> DEFINE shown == "cacheReuse" \in {r[1] : r \in finalizedAggregate(usage)}
             held == \E k \in 1..Len(records) :
                       /\ records[k].tokens.cached # Nil /\ records[k].tokens.input > 0
                       /\ records[k].tokens.cached <= records[k].tokens.input
  <2>1. shown <=> held
    BY <1>4, <1>5, <1>6, <1>7
  <2>2. shown \in BOOLEAN /\ held \in BOOLEAN
    OBVIOUS
  <2>3. shown = held
    <3> HIDE DEF shown, held
    <3> QED
      BY <2>1, <2>2
  <2> QED
    BY <2>3
<1>9. /\ usage.requests = Capped(Len(records))
      /\ \A p \in Ratios \cup Rates :
           LET having == {k \in 1..Len(records) : Together(records[k], p)}
           IN  usage[p] =
                 [whole |-> Capped(Sum([k \in 1..Len(records) |->
                              IF k \in having THEN WholeOf(records[k], p) ELSE Nil])),
                  part |-> Capped(Sum([k \in 1..Len(records) |->
                              IF k \in having THEN PartOf(records[k], p) ELSE Nil])),
                  observations |-> Capped(Cardinality(having))]
  BY <1>1 DEF AddsUp, Pairs, Totals, Wholes, Parts, Members
<1> QED
  BY <1>2, <1>3, <1>7, <1>8, <1>9 DEF UsageExact

-----------------------------------------------------------------------------
(* The invariant of ChatExchange.                                          *)

ExchangeInv ==
    /\ stage \in {"forwarding", "sent"} => Len(records) \in DOMAIN Inputs
    /\ ForwardingSound /\ ObservationSound /\ UsageSound

\* Nothing was asked, answered or counted.
LEMMA ExchangeInitInv == ExchangeInit => ExchangeInv
<1> SUFFICES ASSUME ExchangeInit
             PROVE  ExchangeInv
  OBVIOUS
<1>1. stage = "idle" /\ usage = EmptyUsage /\ records = <<>>
  BY DEF ExchangeInit
<1>2. ForwardingSound /\ ObservationSound
  BY <1>1 DEF ForwardingSound, ObservationSound
<1>3. UsageSound
  <2>1. records \in Seq(Records) /\ Len(records) = 0 /\ 1..0 = {}
    BY <1>1
  <2>2. /\ \A f : Reported(records, f) = <<>> /\ Counting(records, f) = {}
        /\ \A o : Having(records, o) = {}
        /\ ~Reused(records)
    BY <2>1 DEF Reported, Counting, Having, Reused
  <2>3. Capped(0) = 0 /\ 0 \in Counters
    BY ExchangeAssumption DEF Capped, Counters
  <2>4. Cardinality({}) = 0 /\ Sum(<<>>) = 0
    BY FS_EmptySet, SumEmpty
  <2>5. /\ DOMAIN usage.tokens = Tokens /\ DOMAIN usage.outcomes = Outcomes
        /\ \A f \in Tokens : usage.tokens[f] = [total |-> 0, observations |-> 0]
        /\ \A o \in Outcomes : usage.outcomes[o] = 0
        /\ usage.cacheReuse = Pair0 /\ usage.draft = Pair0
        /\ usage.requests = 0 /\ \A p \in Pairs : usage[p] = Pair0
    BY <1>1 DEF EmptyUsage, Tokens, Metric0, Pairs, Ratios, Rates
  <2>6. Paired(Pair0) /\ Pair0.whole = 0
    BY <2>3 DEF Paired, Pair0
  <2>7. ASSUME NEW f \in Tokens
        PROVE  usage.tokens[f] =
                 [total |-> Capped(Sum(Reported(records, f))),
                  observations |-> Capped(Cardinality(Counting(records, f)))]
    <3>1. /\ Capped(Sum(Reported(records, f))) = 0
          /\ Capped(Cardinality(Counting(records, f))) = 0
      BY <2>2, <2>3, <2>4
    <3> QED
      BY <2>5, <3>1
  <2>8. ASSUME NEW o \in Outcomes
        PROVE  usage.outcomes[o] = Capped(Cardinality(Having(records, o)))
    <3>1. Capped(Cardinality(Having(records, o))) = 0
      BY <2>2, <2>3, <2>4
    <3> QED
      BY <2>5, <3>1
  <2>9. Paired(usage.cacheReuse) /\ Paired(usage.draft) /\ ~(usage.cacheReuse.whole > 0)
    BY <2>5, <2>6
  <2>10. ASSUME NEW p \in Pairs
         PROVE  usage[p] = Totals(records, p)
    <3>1. Members(records, p) = {} /\ Wholes(records, p) = <<>> /\ Parts(records, p) = <<>>
      BY <2>1 DEF Members, Wholes, Parts
    <3>2. Totals(records, p) = Pair0
      BY <2>3, <2>4, <3>1 DEF Totals, Pair0
    <3> QED
      BY <2>5, <3>2
  <2>11. AddsUp(usage, records)
    BY <2>1, <2>2, <2>3, <2>5, <2>7, <2>8, <2>9, <2>10 DEF AddsUp
  <2> QED
    BY <2>1, <2>11 DEF UsageSound
<1> QED
  BY <1>1, <1>2, <1>3 DEF ExchangeInv

\* AddRecord keeps the aggregate.
LEMMA RecordsInv ==
    ASSUME UsageSound, NEW outcome \in Outcomes, NEW tokens \in [Tokens -> Counts],
           NEW timings \in [Timings -> Counts], AddRecord(outcome, tokens, timings)
    PROVE  UsageSound'
<1> DEFINE r == [outcome |-> outcome, tokens |-> tokens, timings |-> timings]
<1>1. r \in Records /\ r.outcome = outcome /\ r.tokens = tokens /\ r.timings = timings
  BY DEF Records
<1>2. usage' = addAggregate(usage, outcome, tokens, timings) /\ records' = Append(records, r)
  BY DEF AddRecord
<1>3. records \in Seq(Records) /\ AddsUp(usage, records)
  BY DEF UsageSound
<1> HIDE DEF r, Records
<1>4. AddsUp(addAggregate(usage, r.outcome, r.tokens, r.timings), Append(records, r))
  BY <1>1, <1>3, RecordAdded
<1>5. AddsUp(usage', records')
  BY <1>1, <1>2, <1>4
<1>6. records' \in Seq(Records)
  BY <1>1, <1>2, <1>3, AppendProperties
<1> QED
  BY <1>5, <1>6 DEF UsageSound

LEMMA FallbackTyped ==
    ASSUME NEW tokens \in [Tokens -> Counts], NEW timings \in [Timings -> Counts]
    PROVE  Fallback(tokens, timings) \in [Tokens -> Counts]
<1> DEFINE cached == IF tokens.cached = Nil THEN 0 ELSE tokens.cached
           sum == IF timings.prompt # Nil /\ timings.prompt <= MaxInt - cached
                  THEN timings.prompt + cached ELSE Nil
           input == IF tokens.input = Nil THEN sum ELSE tokens.input
           output == IF tokens.output = Nil THEN timings.generated ELSE tokens.output
<1>1. /\ tokens.cached \in Counts /\ tokens.input \in Counts /\ tokens.output \in Counts
      /\ timings.prompt \in Counts /\ timings.generated \in Counts
  BY DEF Tokens, NoTokens, Timings, NoTimings
<1>2. input \in Counts /\ output \in Counts
  BY <1>1 DEF Counts, Nil
<1>3. Fallback(tokens, timings) = [tokens EXCEPT !.input = input, !.output = output]
  BY DEF Fallback
<1> HIDE DEF input, output
<1>4. [tokens EXCEPT !.input = input, !.output = output] \in [Tokens -> Counts]
  BY <1>2
<1> QED
  BY <1>3, <1>4

\* What Finish returns can be counted.
LEMMA FinishTyped ==
    ASSUME ObservationSound, stage = "relaying"
    PROVE  /\ Finish(observer).tokens \in [Tokens -> Counts]
           /\ Finish(observer).timings \in [Timings -> Counts]
<1> DEFINE s == SubSeq(body.bytes, 1, pos)
           end == ObserveEnd(observer)
<1>1. body.stream \in BOOLEAN /\ s \in Texts /\ Observed(observer, body.stream, s)
  BY ReadTyped
<1> HIDE DEF s
<1>2. end \in Observers
  BY <1>1, ResponseEnded
<1>3. /\ Finish(observer).tokens = Fallback(end.tokens, end.timings)
      /\ Finish(observer).timings = end.timings
  BY DEF Finish
<1> HIDE DEF end
<1>4. end.tokens \in [Tokens -> Counts] /\ end.timings \in [Timings -> Counts]
  BY <1>2 DEF Observers
<1> QED
  BY <1>3, <1>4, FallbackTyped

\* A read of the body is observed.
LEMMA ReadBodyInv ==
    ASSUME ObservationSound, NEW n \in 1..Len(body.bytes), ReadBody(n)
    PROVE  ObservationSound'
<1> DEFINE bytes == body.bytes
           s == SubSeq(bytes, 1, pos)
           value == SubSeq(bytes, pos + 1, pos + n)
<1>1. /\ stage = "relaying" /\ stage' = "relaying" /\ pos + n <= Len(bytes)
      /\ observer' = Observe(observer, value) /\ pos' = pos + n /\ body' = body
  BY DEF ReadBody
<1>2. /\ body.stream \in BOOLEAN /\ bytes \in Texts /\ pos \in 0..Len(bytes)
      /\ s \in Texts /\ Observed(observer, body.stream, s)
  BY <1>1, ReadTyped
<1>3. bytes \in Seq(ResponseBytes) /\ Len(bytes) \in Nat
  BY <1>2 DEF Texts
<1>4. n \in Nat /\ pos \in Nat /\ pos + n \in pos..Len(bytes) /\ pos + n \in 0..Len(bytes)
  BY <1>1, <1>2, <1>3
<1>5. s \o value = SubSeq(bytes, 1, pos + n)
  <2> HIDE DEF bytes
  <2>1. 1 \in 1..(Len(bytes) + 1) /\ pos \in (1 - 1)..Len(bytes)
    BY <1>2, <1>3
  <2> QED
    BY <1>3, <1>4, <2>1, ConcatAdjacentSubSeq
<1>6. value \in Texts
  <2> HIDE DEF bytes
  <2>1. \A i \in (pos + 1)..(pos + n) : bytes[i] \in ResponseBytes
    BY <1>1, <1>3, <1>4
  <2>2. pos + 1 \in Int /\ pos + n \in Int
    BY <1>4
  <2> QED
    BY <2>1, <2>2, SubSeqProperties DEF Texts
<1> HIDE DEF bytes, s, value
<1>7. Observed(observer', body.stream, s \o value)
  BY <1>1, <1>2, <1>6, BytesObserved
<1> QED
  BY <1>1, <1>2, <1>4, <1>5, <1>7 DEF ObservationSound, bytes

\* Every step of a request keeps the invariant.
LEMMA ExchangeNextInv == ExchangeInv /\ [ExchangeNext]_exchangeVars => ExchangeInv'
<1> SUFFICES ASSUME ExchangeInv, [ExchangeNext]_exchangeVars
             PROVE  ExchangeInv'
  OBVIOUS
<1>1. /\ stage \in {"forwarding", "sent"} => Len(records) \in DOMAIN Inputs
      /\ ForwardingSound /\ ObservationSound /\ UsageSound
  BY DEF ExchangeInv
<1>2. ASSUME UNCHANGED <<usage, records>>
      PROVE  UsageSound'
  BY <1>1, <1>2 DEF UsageSound
<1>3. ASSUME stage = "idle", Len(records) \in DOMAIN Inputs, Receive
      PROVE  ExchangeInv'
  <2>1. PICK q \in Inputs[Len(records)] : Rejected(q) \/ Forward(q)
    BY <1>3 DEF Receive
  <2>2. CASE Rejected(q)
    <3>1. AddRecord("rejected", NoTokens, NoTimings) /\ stage' = "idle"
      BY <1>3, <2>2 DEF Rejected
    <3>2. "rejected" \in Outcomes
      BY DEF Outcomes
    <3>3. NoTokens \in [Tokens -> Counts] /\ NoTimings \in [Timings -> Counts]
      BY DEF NoTokens, Tokens, NoTimings, Timings, Counts, Nil
    <3>4. UsageSound'
      BY <1>1, <3>1, <3>2, <3>3, RecordsInv
    <3> QED
      BY <3>1, <3>4 DEF ExchangeInv, ForwardingSound, ObservationSound
  <2>3. CASE Forward(q)
    <3>1. /\ stage' = "forwarding" /\ query' = q /\ controls' = inspectRequest(q)
          /\ forwarded' = applySamplingDefaults(q, Catalog[q.model],
                                                inspectRequest(q).sampling)
          /\ applySamplingDefaults(q, Catalog[q.model], inspectRequest(q).sampling).ok
          /\ UNCHANGED <<usage, records>>
      BY <2>3 DEF Forward, Accepted
    <3>2. ForwardingSound'
      BY <3>1 DEF ForwardingSound
    <3> QED
      BY <1>2, <1>3, <3>1, <3>2 DEF ExchangeInv, ObservationSound
  <2> QED
    BY <2>1, <2>2, <2>3
<1>4. ASSUME Send
      PROVE  ExchangeInv'
  BY <1>1, <1>2, <1>4 DEF Send, ExchangeInv, ForwardingSound, ObservationSound
<1>5. ASSUME stage = "sent", NEW b \in Bodies[Len(records)], ModifyResponse(b)
      PROVE  ExchangeInv'
  <2>1. /\ stage' = "relaying" /\ body' = b /\ pos' = 0
        /\ observer' = newResponseObserver(b.stream) /\ UNCHANGED <<usage, records>>
    BY <1>5 DEF ModifyResponse
  <2>2. b.stream \in BOOLEAN /\ b.bytes \in Texts
    BY <1>1, <1>5, ExchangeAssumption DEF Texts
  <2>3. SubSeq(b.bytes, 1, 0) = <<>> /\ 0 \in 0..Len(b.bytes)
    BY <2>2 DEF Texts
  <2>4. Observed(newResponseObserver(b.stream), b.stream, <<>>)
    BY <2>2, NothingObserved
  <2>5. ObservationSound'
    BY <2>1, <2>2, <2>3, <2>4 DEF ObservationSound
  <2> QED
    BY <1>2, <2>1, <2>5 DEF ExchangeInv, ForwardingSound
<1>6. ASSUME NEW n \in 1..Len(body.bytes), ReadBody(n)
      PROVE  ExchangeInv'
  <2>1. stage' = "relaying" /\ UNCHANGED <<usage, records>>
    BY <1>6 DEF ReadBody
  <2>2. ObservationSound'
    BY <1>1, <1>6, ReadBodyInv
  <2> QED
    BY <1>2, <2>1, <2>2 DEF ExchangeInv, ForwardingSound
<1>7. ASSUME Complete
      PROVE  ExchangeInv'
  <2> DEFINE outcome == IF pos = Len(body.bytes) THEN "succeeded" ELSE "upstream-error"
  <2>1. /\ stage = "relaying" /\ stage' = "finished" /\ observation' = Finish(observer)
        /\ AddRecord(outcome, observation'.tokens, observation'.timings)
        /\ UNCHANGED <<body, pos, observer>>
    BY <1>7 DEF Complete
  <2>2. outcome \in Outcomes
    BY DEF Outcomes
  <2> HIDE DEF outcome
  <2>3. /\ observation'.tokens \in [Tokens -> Counts]
        /\ observation'.timings \in [Timings -> Counts]
    BY <1>1, <2>1, FinishTyped
  <2>4. UsageSound'
    BY <1>1, <2>1, <2>2, <2>3, RecordsInv
  <2>5. ObservationSound'
    BY <1>1, <2>1 DEF ObservationSound
  <2> QED
    BY <2>1, <2>4, <2>5 DEF ExchangeInv, ForwardingSound
<1>8. ASSUME Return
      PROVE  ExchangeInv'
  BY <1>1, <1>2, <1>8 DEF Return, ExchangeInv, ForwardingSound, ObservationSound
<1>9. ASSUME UNCHANGED exchangeVars
      PROVE  ExchangeInv'
  <2>1. UNCHANGED <<stage, query, controls, forwarded, body, pos, observer, observation,
                    usage, records>>
    BY <1>9 DEF exchangeVars, requestVars, responseVars
  <2> QED
    BY <1>1, <1>2, <2>1 DEF ExchangeInv, ForwardingSound, ObservationSound
<1> QED
  BY <1>3, <1>4, <1>5, <1>6, <1>7, <1>8, <1>9 DEF ExchangeNext

\* What is known of the request, of the bytes read and of the records stays so.
THEOREM ExchangeInvariant == ExchangeSpec => []ExchangeInv
<1> QED
  BY ExchangeInitInv, ExchangeNextInv, PTL DEF ExchangeSpec

\* A forwarded request has the samplers of the one mode it asks for, and status
\* reports what the backend got (applySamplingDefaults, inspectRequest).
THEOREM PolicyIsExact == ExchangeSpec => []PolicyExact
<1>1. ExchangeInv => PolicyExact
  BY PolicyNow DEF ExchangeInv
<1> QED
  BY <1>1, ExchangeInvariant, PTL

\* The finish reasons and their standing are those of the response as a whole,
\* however it was cut into chunks and wherever it broke off (responseObserver,
\* completionCollector).
THEOREM CompletionIsExact == ExchangeSpec => []CompletionExact
<1>1. ExchangeInv => CompletionExact
  BY CompletionNow DEF ExchangeInv
<1> QED
  BY <1>1, ExchangeInvariant, PTL

\* The counts, the timings and the first output of a response that fits are the
\* last that its objects reported (observeJSON, Finish).
THEOREM TokensAreExact == ExchangeSpec => []TokensExact
<1>1. ExchangeInv => TokensExact
  BY TokensNow DEF ExchangeInv
<1> QED
  BY <1>1, ExchangeInvariant, PTL

\* The aggregate is what the records add up to, until a counter is full
\* (addAggregate, saturatingAdd).
THEOREM UsageIsExact == ExchangeSpec => []UsageExact
<1>1. ExchangeInv => UsageExact
  BY UsageNow DEF ExchangeInv
<1> QED
  BY <1>1, ExchangeInvariant, PTL

\* Both together: the counts of a response and of the aggregate (usage.go).
THEOREM CountsAreExact == ExchangeSpec => []CountsExact
<1>1. TokensExact /\ UsageExact => CountsExact
  BY DEF CountsExact
<1> QED
  BY <1>1, TokensAreExact, UsageIsExact, PTL

=============================================================================
