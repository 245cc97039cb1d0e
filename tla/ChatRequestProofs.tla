-------------------------- MODULE ChatRequestProofs --------------------------
(***************************************************************************)
(* Proofs about the two handlers of the gateway that keep state or report  *)
(* it.  ChatRequest: its inductive invariant, and the properties of the    *)
(* ledger that follow from it, for any number of requests and sessions and *)
(* for every size of the ring and of the caches.  ModelStatus: that its    *)
(* reports are true, for every catalog and for any listings of the router. *)
(***************************************************************************)
EXTENDS ChatRequest, ModelStatus, FiniteSetTheorems, WellFoundedInduction, TLAPS

-----------------------------------------------------------------------------
(* The slots of the ring.                                                  *)

LEMMA DivMod ==
    ASSUME NEW n \in Nat \ {0}, NEW a \in Nat
    PROVE  /\ a = n * (a \div n) + (a % n)
           /\ a \div n \in Nat /\ a % n \in 0..(n - 1)
BY Z3T(30)

\* Two multiples of n that are less than n apart are the same.
LEMMA Multiples ==
    ASSUME NEW n \in Nat \ {0}, NEW x \in Int, NEW y \in Int,
           n * y - n * x < n, n * x - n * y < n
    PROVE  x = y
<1>1. CASE y >= x + 1
  <2>1. n * y >= n * (x + 1)
    BY <1>1, Z3T(30)
  <2>2. n * (x + 1) = n * x + n
    BY Z3T(30)
  <2> QED
    BY <2>1, <2>2, Z3T(30)
<1>2. CASE x >= y + 1
  <2>1. n * x >= n * (y + 1)
    BY <1>2, Z3T(30)
  <2>2. n * (y + 1) = n * y + n
    BY Z3T(30)
  <2> QED
    BY <2>1, <2>2, Z3T(30)
<1> QED
  BY <1>1, <1>2

\* Records that are less than the size of the ring apart have different slots,
\* and one that is this size later has the same.
LEMMA Slots ==
    ASSUME NEW n \in Nat \ {0}, NEW a \in Nat, NEW b \in Nat, a < b
    PROVE  /\ b - a < n => a % n # b % n
           /\ b - a = n => a % n = b % n
<1> DEFINE x == a \div n
           y == b \div n
           p == a % n
           q == b % n
<1>1. /\ a = n * x + p /\ b = n * y + q
      /\ x \in Int /\ y \in Int /\ p \in 0..(n - 1) /\ q \in 0..(n - 1)
  BY DivMod
<1>2. n * x \in Int /\ n * y \in Int /\ n * (x + 1) = n * x + n
  BY <1>1, Z3T(30)
<1> HIDE DEF x, y, p, q
<1>3. ASSUME b - a < n, p = q
      PROVE  FALSE
  <2>1. n * y - n * x < n /\ n * x - n * y < n
    BY <1>1, <1>2, <1>3
  <2>2. x = y
    BY <1>1, <2>1, Multiples
  <2> QED
    BY <1>1, <1>2, <1>3, <2>2
<1>4. ASSUME b - a = n
      PROVE  p = q
  <2>1. n * y - n * (x + 1) < n /\ n * (x + 1) - n * y < n
    BY <1>1, <1>2, <1>4
  <2>2. x + 1 = y
    BY <1>1, <2>1, Multiples
  <2> QED
    BY <1>1, <1>2, <1>4, <2>2
<1> QED
  BY <1>3, <1>4 DEF p, q

-----------------------------------------------------------------------------
(* The table of sessions.                                                  *)

LEMMA LeastOf ==
    ASSUME NEW T \in SUBSET Nat, T # {}
    PROVE  \E m \in T : \A k \in T : m <= k
<1>1. PICK m \in T : \A k \in T : ~(<<k, m>> \in OpToRel(<, Nat))
  BY WFMin, NatLessThanWellFounded, Zenon
<1>2. \A k \in T : ~(k < m)
  BY <1>1, Zenon DEF OpToRel
<1> QED
  BY <1>2

\* The victim is a session used no later than any other.
LEMMA VictimIsOldest ==
    ASSUME TypeOK, Retained # {}
    PROVE  /\ Victim \in Retained
           /\ \A u \in Retained : sessions[Victim].last <= sessions[u].last
<1> DEFINE uses == {sessions[t].last : t \in Retained}
<1>1. \A t \in Retained : sessions[t].last \in Nat
  BY DEF Retained, TypeOK, LedgerTypeOK
<1>2. uses \in SUBSET Nat /\ uses # {}
  BY <1>1
<1>3. PICK least \in uses : \A u \in uses : least <= u
  <2> HIDE DEF uses
  <2> QED
    BY <1>2, LeastOf
<1>5. \E t \in Retained : \A u \in Retained : sessions[t].last <= sessions[u].last
  BY <1>3
<1> QED
  BY <1>5 DEF Victim

\* The retained sessions were last used at different records, so the victim of
\* a full table was last used at least SessionLimit - 1 records ago.
LEMMA VictimIsOld ==
    ASSUME TypeOK, AddedOnce, SessionsSound,
           Cardinality(Retained) = SessionLimit
    PROVE  Victim \in Retained /\ sessions[Victim].last <= sequence - SessionLimit + 1
<1>1. SessionLimit \in Nat \ {0}
  BY LimitsAssumption
<1>2. Retained # {}
  BY <1>1, FS_EmptySet
<1>3. /\ Victim \in Retained
      /\ \A u \in Retained : sessions[Victim].last <= sessions[u].last
  BY <1>2, VictimIsOldest
<1> DEFINE v == sessions[Victim].last
           f == [t \in Retained |-> sessions[t].last]
<1>4. v \in Nat /\ sequence \in Nat /\ v <= sequence
  BY <1>3 DEF TypeOK, LedgerTypeOK, Retained, AddedOnce, SessionsSound
<1>5. f \in Injection(Retained, v..sequence)
  <2>1. \A t \in Retained : /\ sessions[t].last \in v..sequence
                            /\ session[added[sessions[t].last]] = t
    BY <1>3, <1>4 DEF TypeOK, LedgerTypeOK, Retained, AddedOnce, SessionsSound
  <2>2. f \in [Retained -> v..sequence]
    BY <2>1
  <2>3. \A t, u \in Retained : f[t] = f[u] => t = u
    BY <2>1
  <2> HIDE DEF f
  <2> QED
    BY <2>2, <2>3 DEF Injection, IsInjective
<1>6. IsFiniteSet(v..sequence) /\ Cardinality(v..sequence) = sequence - v + 1
  <2> HIDE DEF v
  <2> QED
    BY <1>4, FS_Interval
<1>7. Cardinality(Retained) <= sequence - v + 1
  <2> HIDE DEF f, v
  <2> QED
    BY <1>5, <1>6, FS_Injection
<1> QED
  BY <1>1, <1>3, <1>4, <1>7

-----------------------------------------------------------------------------
(* completeRequest adds a record.                                          *)

LEMMA Appended ==
    ASSUME NEW s \in Seq(Requests), NEW r \in Requests
    PROVE  /\ Append(s, r) \in Seq(Requests)
           /\ Len(s) \in Nat /\ Len(Append(s, r)) = Len(s) + 1
           /\ DOMAIN s = 1..Len(s)
           /\ DOMAIN Append(s, r) = DOMAIN s \cup {Len(s) + 1}
           /\ Append(s, r)[Len(s) + 1] = r
           /\ \A i \in DOMAIN s : Append(s, r)[i] = s[i]
<1>1. /\ Len(s) \in Nat /\ Len(Append(s, r)) = Len(s) + 1
      /\ DOMAIN s = 1..Len(s) /\ DOMAIN Append(s, r) = 1..(Len(s) + 1)
      /\ Append(s, r) \in Seq(Requests)
  OBVIOUS
<1>2. 1..(Len(s) + 1) = 1..Len(s) \cup {Len(s) + 1}
  BY <1>1
<1> QED
  BY <1>1, <1>2

\* The recent window moves on by the new record.
LEMMA WindowMoves ==
    ASSUME TypeOK, NEW r \in Requests, added' = Append(added, r)
    PROVE  /\ Newest(RecentLimit)' =
                 {i \in Newest(RecentLimit) : i > Len(added) + 1 - RecentLimit}
                    \cup {Len(added) + 1}
           /\ Newest(RecentLimit) \subseteq DOMAIN added
<1>1. RecentLimit \in Nat \ {0}
  BY LimitsAssumption
<1>2. /\ Len(added) \in Nat /\ Len(added') = Len(added) + 1
      /\ DOMAIN added = 1..Len(added)
      /\ DOMAIN added' = DOMAIN added \cup {Len(added) + 1}
  BY Appended DEF TypeOK, LedgerTypeOK
<1> QED
  BY <1>1, <1>2 DEF Newest

LEMMA AddKeepsHistory ==
    ASSUME TypeOK, AddedOnce, NEW r \in Requests, pc[r] = "completing", Add(r),
           Goto(r, "returning")
    PROVE  AddedOnce'
<1>1. /\ added' = Append(added, r) /\ sequence' = sequence + 1
      /\ overall' = overall + 1
      /\ pc' = [pc EXCEPT ![r] = "returning"]
  BY DEF Add, addUsage, Goto
<1>2. /\ Len(added) \in Nat /\ Len(added') = Len(added) + 1
      /\ DOMAIN added' = DOMAIN added \cup {Len(added) + 1}
      /\ added'[Len(added) + 1] = r
      /\ \A i \in DOMAIN added : added'[i] = added[i]
      /\ Len(added) + 1 \notin DOMAIN added
  BY <1>1, Appended DEF TypeOK, LedgerTypeOK
<1>3. \A i \in DOMAIN added : added[i] # r
  BY DEF AddedOnce
<1>4. \A i, j \in DOMAIN added' : added'[i] = added'[j] => i = j
  BY <1>2, <1>3 DEF AddedOnce
<1>5. ASSUME NEW q \in Requests
      PROVE  pc'[q] \in {"returning", "done"} <=> \E i \in DOMAIN added' : added'[i] = q
  <2>1. CASE q = r
    BY <1>1, <1>2, <2>1 DEF TypeOK, ControlTypeOK
  <2>2. CASE q # r
    <3>1. pc'[q] = pc[q]
      BY <1>1, <2>2 DEF TypeOK, ControlTypeOK
    <3>2. (\E i \in DOMAIN added' : added'[i] = q) <=>
          (\E i \in DOMAIN added : added[i] = q)
      BY <1>2, <2>2
    <3> QED
      BY <3>1, <3>2 DEF AddedOnce
  <2> QED
    BY <2>1, <2>2
<1> QED
  BY <1>1, <1>2, <1>4, <1>5 DEF AddedOnce

LEMMA AddKeepsRing ==
    ASSUME TypeOK, AddedOnce, RingSound, NEW r \in Requests, Add(r)
    PROVE  RingSound'
<1> DEFINE L == RecentLimit
           n == Len(added) + 1
<1>1. L \in Nat \ {0}
  BY LimitsAssumption
<1>2. /\ added' = Append(added, r)
      /\ entries' = [entries EXCEPT ![(n - 1) % L] = [sequence |-> n, id |-> r]]
  BY DEF Add, AddedOnce
<1>3. /\ n \in Nat \ {0} /\ n - 1 \in Nat /\ (n - 1) % L \in 0..(L - 1)
      /\ DOMAIN added = 1..(n - 1)
      /\ added'[n] = r /\ \A i \in DOMAIN added : added'[i] = added[i]
  <2>1. /\ n \in Nat \ {0} /\ n - 1 \in Nat /\ DOMAIN added = 1..(n - 1)
        /\ added'[n] = r /\ \A i \in DOMAIN added : added'[i] = added[i]
    BY <1>2, Appended DEF TypeOK, LedgerTypeOK
  <2> HIDE DEF L, n
  <2> QED
    BY <1>1, <2>1, DivMod
<1>4. /\ Newest(L)' = {i \in Newest(L) : i > n - L} \cup {n}
      /\ Newest(L) = {i \in 1..(n - 1) : i > n - 1 - L}
  BY <1>2, <1>3, WindowMoves DEF Newest
<1>5. DOMAIN entries = 0..(L - 1) /\ DOMAIN entries' = 0..(L - 1)
  BY <1>2 DEF TypeOK, LedgerTypeOK
<1>6. entries'[(n - 1) % L] = [sequence |-> n, id |-> r]
      /\ \A k \in 0..(L - 1) : k # (n - 1) % L => entries'[k] = entries[k]
  BY <1>2, <1>3, <1>5
<1> HIDE DEF L, n
<1>n. L \in Nat \ {0} /\ n \in Nat \ {0} /\ n - 1 \in Nat
  BY <1>1, <1>3
<1>7. ASSUME NEW i \in Newest(L)'
      PROVE  entries'[(i - 1) % L] = [sequence |-> i, id |-> added'[i]]
  <2>1. CASE i = n
    BY <1>3, <1>6, <2>1
  <2>2. CASE i \in Newest(L) /\ i > n - L /\ i < n
    <3>1. i \in 1..(n - 1) /\ i - 1 \in Nat /\ (i - 1) % L \in 0..(L - 1)
      <4>1. i \in 1..(n - 1) /\ i - 1 \in Nat
        BY <1>3, <1>4, <2>2
      <4> QED
        BY <1>1, <4>1, DivMod
    <3>2. (i - 1) % L # (n - 1) % L
      <4>1. i \in 1..(n - 1) /\ i - 1 \in Nat
        BY <3>1
      <4>2. i - 1 < n - 1 /\ (n - 1) - (i - 1) < L
        BY <1>n, <2>2, <4>1
      <4> QED
        BY <1>n, <4>1, <4>2, Slots
    <3>3. entries[(i - 1) % L] = [sequence |-> i, id |-> added[i]]
      BY <2>2 DEF RingSound, L
    <3> QED
      BY <1>3, <1>6, <3>1, <3>2, <3>3
  <2> QED
    BY <1>3, <1>4, <2>1, <2>2
<1>8. ASSUME NEW k \in 0..(L - 1)
      PROVE  \/ entries'[k] = NoEntry
             \/ /\ entries'[k].sequence \in Newest(L)'
                /\ k = (entries'[k].sequence - 1) % L
                /\ entries'[k].id = added'[entries'[k].sequence]
  <2>1. CASE k = (n - 1) % L
    BY <1>3, <1>4, <1>6, <2>1
  <2>2. CASE k # (n - 1) % L /\ entries[k] # NoEntry
    <3> DEFINE i == entries[k].sequence
    <3>1. /\ entries'[k] = entries[k] /\ i \in Newest(L) /\ k = (i - 1) % L
          /\ entries[k].id = added[i]
      BY <1>5, <1>6, <2>2 DEF RingSound, L
    <3> HIDE DEF i
    <3>2. i \in 1..(n - 1) /\ i > n - 1 - L /\ i - 1 \in Nat
      BY <1>3, <1>4, <3>1
    <3>3. i > n - L
      <4> SUFFICES ASSUME ~(i > n - L)
                   PROVE  FALSE
        OBVIOUS
      <4>1. i - 1 < n - 1 /\ (n - 1) - (i - 1) = L
        BY <1>n, <3>2
      <4>2. (i - 1) % L = (n - 1) % L
        BY <1>n, <3>2, <4>1, Slots
      <4> QED
        BY <2>2, <3>1, <4>2
    <3> QED
      BY <1>3, <1>4, <3>1, <3>2, <3>3 DEF i
  <2>3. CASE k # (n - 1) % L /\ entries[k] = NoEntry
    BY <1>6, <2>3
  <2> QED
    BY <2>1, <2>2, <2>3
<1> QED
  BY <1>5, <1>7, <1>8 DEF RingSound, L

\* The new record counts for its own session; a session that loses its place
\* has been out of the recent window for a while.
LEMMA AddKeepsSessions ==
    ASSUME TypeOK, AddedOnce, SessionsSound, NEW r \in Requests, Add(r),
           session' = session
    PROVE  SessionsSound'
<1> DEFINE L == RecentLimit
           n == Len(added) + 1
           W == Newest(L)
<1>1. L \in Nat \ {0} /\ SessionLimit \in Nat /\ SessionLimit >= L
  BY LimitsAssumption
<1>2. /\ added' = Append(added, r) /\ sequence = n - 1
      /\ addUsage(session[r], n)
  BY DEF Add, AddedOnce, TypeOK, LedgerTypeOK
<1>3. /\ n \in Nat \ {0} /\ n - 1 \in Nat
      /\ DOMAIN added = 1..(n - 1) /\ DOMAIN added' = DOMAIN added \cup {n}
      /\ added'[n] = r /\ \A i \in DOMAIN added : added'[i] = added[i]
  BY <1>2, Appended DEF TypeOK, LedgerTypeOK
<1>4. /\ Newest(L)' = {i \in W : i > n - L} \cup {n}
      /\ W = {i \in 1..(n - 1) : i > n - 1 - L}
  BY <1>2, <1>3, WindowMoves DEF Newest
<1>5. IsFiniteSet(W)
  <2>1. IsFiniteSet(1..(n - 1))
    <3> HIDE DEF n
    <3> QED
      BY <1>3, FS_Interval
  <2>2. W \subseteq 1..(n - 1)
    BY <1>4
  <2> HIDE DEF W, n
  <2> QED
    BY <2>1, <2>2, FS_Subset
<1> DEFINE full == /\ session[r] # None /\ session[r] \notin Retained
                   /\ Cardinality(Retained) = SessionLimit
<1>6. sessions' = [t \in Sessions |->
                     IF t = session[r]
                     THEN [last |-> n, requests |-> sessions[session[r]].requests + 1]
                     ELSE IF full /\ t = Victim THEN NoSession
                     ELSE sessions[t]]
  BY <1>2 DEF addUsage
<1> SUFFICES ASSUME NEW s \in Sessions
             PROVE  /\ sessions'[s].requests >=
                          Cardinality(OfSession(s, Newest(L))')
                    /\ s \in Retained' =>
                          /\ sessions'[s].last \in DOMAIN added'
                          /\ session[added'[sessions'[s].last]] = s
                          /\ \A i \in DOMAIN added' :
                                session[added'[i]] = s => i <= sessions'[s].last
                    /\ s \notin Retained' => OfSession(s, Newest(L))' = {}
  BY DEF SessionsSound, L
<1> DEFINE Old == OfSession(s, W)
           New == OfSession(s, Newest(L))'
<1>7. /\ Old = {i \in W : session[added[i]] = s}
      /\ New = {i \in Newest(L)' : session[added'[i]] = s}
  BY DEF OfSession
<1>8. /\ sessions[s].requests >= Cardinality(Old)
      /\ s \in Retained =>
            /\ sessions[s].last \in DOMAIN added
            /\ session[added[sessions[s].last]] = s
            /\ \A i \in DOMAIN added : session[added[i]] = s => i <= sessions[s].last
      /\ s \notin Retained => Old = {}
  BY DEF SessionsSound, L
<1>9. /\ sessions[s] \in [last: Nat, requests: Nat]
      /\ IsFiniteSet(Old) /\ Cardinality(Old) \in Nat
  <2>1. sessions[s] \in [last: Nat, requests: Nat]
    BY DEF TypeOK, LedgerTypeOK
  <2>2. Old \subseteq W
    BY <1>7
  <2> HIDE DEF W, Old
  <2> QED
    BY <1>5, <2>1, <2>2, FS_Subset, FS_CardinalityType
<1> HIDE DEF L, n, W, Old, New, full
<1>10. CASE s = session[r]
  <2>1. sessions'[s] = [last |-> n, requests |-> sessions[s].requests + 1]
    BY <1>6, <1>10
  <2>2. s \in Retained'
    BY <1>3, <2>1 DEF Retained, NoSession
  <2>3. New \subseteq Old \cup {n} /\ n \notin Old
    BY <1>3, <1>4, <1>7
  <2>4. Cardinality(New) <= Cardinality(Old) + 1
    <3>1. /\ IsFiniteSet(Old \cup {n})
          /\ Cardinality(Old \cup {n}) = Cardinality(Old) + 1
      BY <1>9, <2>3, FS_AddElement
    <3> QED
      BY <1>9, <2>3, <3>1, FS_Subset
  <2>5. Cardinality(New) \in Nat
    <3>1. IsFiniteSet(Old \cup {n})
      BY <1>9, FS_AddElement
    <3> QED
      BY <2>3, <3>1, FS_Subset, FS_CardinalityType
  <2>6. sessions'[s].requests >= Cardinality(New)
    BY <1>8, <1>9, <2>1, <2>4, <2>5
  <2>7. \A i \in DOMAIN added' : i <= n
    BY <1>3
  <2> QED
    BY <1>3, <1>10, <2>1, <2>2, <2>6, <2>7 DEF New
<1>11. CASE s # session[r]
  <2>1. /\ New = {i \in Old : i > n - L}
        /\ \A i \in DOMAIN added' : session[added'[i]] = s =>
               i \in DOMAIN added /\ session[added[i]] = s
    BY <1>3, <1>4, <1>7, <1>11
  <2>2. CASE full /\ s = Victim
    <3>1. Victim \in Retained /\ sessions[Victim].last <= sequence - SessionLimit + 1
      BY <2>2, VictimIsOld DEF full
    <3>2. sessions[s].last <= n - L
      BY <1>1, <1>2, <1>3, <1>9, <2>2, <3>1
    <3>3. New = {}
      <4>1. \A i \in Old : i \in DOMAIN added /\ session[added[i]] = s
        BY <1>3, <1>4, <1>7
      <4> QED
        BY <1>1, <1>3, <1>8, <1>9, <2>1, <2>2, <3>1, <3>2, <4>1
    <3>4. sessions'[s] = NoSession
      BY <1>6, <1>11, <2>2
    <3> QED
      BY <3>3, <3>4, FS_EmptySet DEF New, Retained, NoSession
  <2>3. CASE ~(full /\ s = Victim)
    <3>1. sessions'[s] = sessions[s]
      BY <1>6, <1>11, <2>3
    <3>2. Cardinality(New) <= Cardinality(Old) /\ Cardinality(New) \in Nat
      BY <1>9, <2>1, FS_Subset, FS_CardinalityType
    <3>3. sessions'[s].requests >= Cardinality(New)
      BY <1>8, <1>9, <3>1, <3>2
    <3>4. s \in Retained' <=> s \in Retained
      BY <3>1 DEF Retained
    <3>5. s \notin Retained => New = {}
      BY <1>8, <2>1
    <3>6. s \in Retained => /\ sessions[s].last \in DOMAIN added'
                            /\ session[added'[sessions[s].last]] = s
      BY <1>3, <1>8
    <3> QED
      BY <1>8, <2>1, <3>1, <3>3, <3>4, <3>5, <3>6 DEF New
  <2> QED
    BY <2>2, <2>3
<1> QED
  BY <1>10, <1>11

-----------------------------------------------------------------------------
(* What a step of one handler leaves alone.                                *)

SameLedger == UNCHANGED <<sequence, entries, overall, sessions, added>>

\* The step is not about request q; only its client may have left.
Untouched(q) ==
    /\ pc'[q] = pc[q] /\ active'[q] = active[q] /\ lease'[q] = lease[q]
    /\ persisted'[q] = persisted[q] /\ outcome'[q] = outcome[q]
    /\ status'[q] = status[q]
    /\ q \in known' <=> q \in known
    /\ q \in proxyFailed' <=> q \in proxyFailed
    /\ q \in blamed' <=> q \in blamed
    /\ q \in broken' <=> q \in broken
    /\ q \in whole' <=> q \in whole
    /\ q \in gone => q \in gone'

LEMMA UntouchedSound ==
    ASSUME NEW q \in Requests, HandlerSound(q), ProxySound(q), Untouched(q)
    PROVE  HandlerSound(q)' /\ ProxySound(q)'
<1>1. HandlerSound(q)'
  BY DEF HandlerSound, Untouched
<1>2. ProxySound(q)'
  BY DEF ProxySound, Untouched
<1> QED
  BY <1>1, <1>2

\* Where the ledger stays, so does what is known of it.
LEMMA LedgerStays ==
    ASSUME TypeOK, AddedOnce, RingSound, SessionsSound, SameLedger,
           \A q \in Requests : pc'[q] \in {"returning", "done"} <=>
                                 pc[q] \in {"returning", "done"},
           \A q \in Requests : pc[q] \in {"returning", "done"} =>
                                 session'[q] = session[q]
    PROVE  AddedOnce' /\ RingSound' /\ SessionsSound'
<1>1. /\ sequence' = sequence /\ entries' = entries /\ overall' = overall
      /\ sessions' = sessions /\ added' = added
  BY DEF SameLedger
<1>2. AddedOnce'
  BY <1>1 DEF AddedOnce
<1>3. Newest(RecentLimit)' = Newest(RecentLimit)
  BY <1>1 DEF Newest
<1>4. RingSound'
  BY <1>1, <1>3 DEF RingSound
<1>5. \A i \in DOMAIN added : session'[added[i]] = session[added[i]]
  <2> SUFFICES ASSUME NEW i \in DOMAIN added
               PROVE  session'[added[i]] = session[added[i]]
    OBVIOUS
  <2>1. added[i] \in Requests
    BY DEF TypeOK, LedgerTypeOK
  <2> QED
    BY <2>1 DEF AddedOnce
<1>6. Newest(RecentLimit) \subseteq DOMAIN added
  BY DEF Newest
<1>7. ASSUME NEW s \in Sessions
      PROVE  OfSession(s, Newest(RecentLimit))' = OfSession(s, Newest(RecentLimit))
  BY <1>1, <1>3, <1>5, <1>6 DEF OfSession
<1>8. Retained' = Retained
  BY <1>1 DEF Retained
<1>9. SessionsSound'
  BY <1>1, <1>5, <1>7, <1>8 DEF SessionsSound
<1> QED
  BY <1>2, <1>4, <1>9

\* A handler's step, in a server that still has handlers.
LEMMA HandlerStep ==
    ASSUME ChatInv, NEW r \in Requests,
           server' = server, server \notin {"drained", "closed"},
           TypeOK', AddedOnce', RingSound', SessionsSound',
           HandlerSound(r)', ProxySound(r)',
           \A q \in Requests \ {r} : Untouched(q)
    PROVE  ChatInv'
<1>1. \A q \in Requests : HandlerSound(q)' /\ ProxySound(q)'
  BY UntouchedSound DEF ChatInv
<1>2. ServerSound'
  BY DEF ServerSound
<1> QED
  BY <1>1, <1>2 DEF ChatInv

LEMMA StillServing ==
    ASSUME ServerSound, NEW r \in Requests, InProgress(r)
    PROVE  server \notin {"drained", "closed"}
BY DEF ServerSound

\* Track touches no other request, and a request that is tracked stays so.
LEMMA TrackFrame ==
    ASSUME LedgerTypeOK, NEW r \in Requests, NEW phase, Track(r, phase)
    PROVE  /\ \A q \in Requests \ {r} : active'[q] = active[q]
           /\ active'[r] \in {active[r], phase}
           /\ active[r] # "none" => active'[r] = phase
           /\ phase \in {"none", "receiving", "waiting", "upstream"} =>
                active' \in [Requests -> {"none", "receiving", "waiting", "upstream"}]
BY DEF Track, Tracked, LedgerTypeOK

-----------------------------------------------------------------------------
(* The steps of chat.                                                      *)

LEMMA ChatStep ==
    ASSUME ChatInv, NEW r \in Requests, NEW s \in Sessions \cup {None}, Chat(r, s)
    PROVE  ChatInv'
<1>1. /\ TypeOK /\ AddedOnce /\ RingSound /\ SessionsSound /\ ServerSound
      /\ HandlerSound(r) /\ ProxySound(r)
  BY DEF ChatInv
<1>2. /\ \A q \in Requests \ {r} : active'[q] = active[q]
      /\ active'[r] \in {active[r], "receiving"}
      /\ active[r] # "none" => active'[r] = "receiving"
      /\ active' \in [Requests -> {"none", "receiving", "waiting", "upstream"}]
  BY <1>1, TrackFrame DEF Chat, TypeOK
<1>3. server' = server /\ server \notin {"drained", "closed"}
  BY DEF Chat
<1>4. TypeOK'
  BY <1>1, <1>2 DEF Chat, Goto, Ends, ledgerVars, recordVars, proxyVars, TypeOK, ControlTypeOK, LedgerTypeOK, Steps
<1>5. AddedOnce' /\ RingSound' /\ SessionsSound'
  <2>1. SameLedger
    BY DEF SameLedger, Chat, ledgerVars
  <2>2. \A q \in Requests : /\ pc'[q] \in {"returning", "done"} <=>
                                pc[q] \in {"returning", "done"}
                            /\ pc[q] \in {"returning", "done"} => session'[q] = session[q]
    BY <1>1 DEF Chat, Goto, Ends, recordVars, TypeOK, ControlTypeOK
  <2> QED
    BY <1>1, <2>1, <2>2, LedgerStays
<1>6. HandlerSound(r)'
  BY <1>1, <1>2 DEF Chat, Goto, Ends, ledgerVars, recordVars, proxyVars, HandlerSound, TypeOK, ControlTypeOK
<1>7. ProxySound(r)'
  BY <1>1 DEF Chat, Goto, Ends, ledgerVars, recordVars, proxyVars, ProxySound, HandlerSound, TypeOK, ControlTypeOK
<1>8. \A q \in Requests \ {r} : Untouched(q)
  BY <1>1, <1>2 DEF Chat, Goto, Ends, ledgerVars, recordVars, proxyVars, Untouched, TypeOK, ControlTypeOK, LedgerTypeOK
<1> QED
  BY <1>3, <1>4, <1>5, <1>6, <1>7, <1>8, HandlerStep

LEMMA RefuseStep ==
    ASSUME ChatInv, NEW r \in Requests, Refuse(r)
    PROVE  ChatInv'
<1>1. /\ TypeOK /\ AddedOnce /\ RingSound /\ SessionsSound /\ ServerSound
      /\ HandlerSound(r) /\ ProxySound(r)
  BY DEF ChatInv
<1>3. server' = server /\ server \notin {"drained", "closed"}
  BY <1>1, StillServing DEF Refuse, InProgress
<1>4. TypeOK'
  BY <1>1 DEF Refuse, Goto, Ends, ledgerVars, recordVars, proxyVars, TypeOK, ControlTypeOK, LedgerTypeOK, Steps
<1>5. AddedOnce' /\ RingSound' /\ SessionsSound'
  <2>1. SameLedger
    BY DEF SameLedger, Refuse, ledgerVars
  <2>2. \A q \in Requests : /\ pc'[q] \in {"returning", "done"} <=>
                                pc[q] \in {"returning", "done"}
                            /\ pc[q] \in {"returning", "done"} => session'[q] = session[q]
    BY <1>1 DEF Refuse, Goto, Ends, recordVars, TypeOK, ControlTypeOK
  <2> QED
    BY <1>1, <2>1, <2>2, LedgerStays
<1>6. HandlerSound(r)'
  BY <1>1 DEF Refuse, Goto, Ends, ledgerVars, recordVars, proxyVars, HandlerSound, TypeOK, ControlTypeOK
<1>7. ProxySound(r)'
  BY <1>1 DEF Refuse, Goto, Ends, ledgerVars, recordVars, proxyVars, ProxySound, HandlerSound, TypeOK, ControlTypeOK
<1>8. \A q \in Requests \ {r} : Untouched(q)
  BY <1>1 DEF Refuse, Goto, Ends, ledgerVars, recordVars, proxyVars, Untouched, TypeOK, ControlTypeOK, LedgerTypeOK
<1> QED
  BY <1>3, <1>4, <1>5, <1>6, <1>7, <1>8, HandlerStep

LEMMA RefuseControlsStep ==
    ASSUME ChatInv, NEW r \in Requests, RefuseControls(r)
    PROVE  ChatInv'
<1>1. /\ TypeOK /\ AddedOnce /\ RingSound /\ SessionsSound /\ ServerSound
      /\ HandlerSound(r) /\ ProxySound(r)
  BY DEF ChatInv
<1>3. server' = server /\ server \notin {"drained", "closed"}
  BY <1>1, StillServing DEF RefuseControls, InProgress
<1>4. TypeOK'
  BY <1>1 DEF RefuseControls, Goto, Ends, ledgerVars, recordVars, proxyVars, TypeOK, ControlTypeOK, LedgerTypeOK, Steps
<1>5. AddedOnce' /\ RingSound' /\ SessionsSound'
  <2>1. SameLedger
    BY DEF SameLedger, RefuseControls, ledgerVars
  <2>2. \A q \in Requests : /\ pc'[q] \in {"returning", "done"} <=>
                                pc[q] \in {"returning", "done"}
                            /\ pc[q] \in {"returning", "done"} => session'[q] = session[q]
    BY <1>1 DEF RefuseControls, Goto, Ends, recordVars, TypeOK, ControlTypeOK
  <2> QED
    BY <1>1, <2>1, <2>2, LedgerStays
<1>6. HandlerSound(r)'
  BY <1>1 DEF RefuseControls, Goto, Ends, ledgerVars, recordVars, proxyVars, HandlerSound, TypeOK, ControlTypeOK
<1>7. ProxySound(r)'
  BY <1>1 DEF RefuseControls, Goto, Ends, ledgerVars, recordVars, proxyVars, ProxySound, HandlerSound, TypeOK, ControlTypeOK
<1>8. \A q \in Requests \ {r} : Untouched(q)
  BY <1>1 DEF RefuseControls, Goto, Ends, ledgerVars, recordVars, proxyVars, Untouched, TypeOK, ControlTypeOK, LedgerTypeOK
<1> QED
  BY <1>3, <1>4, <1>5, <1>6, <1>7, <1>8, HandlerStep

LEMMA AcceptStep ==
    ASSUME ChatInv, NEW r \in Requests, Accept(r)
    PROVE  ChatInv'
<1>1. /\ TypeOK /\ AddedOnce /\ RingSound /\ SessionsSound /\ ServerSound
      /\ HandlerSound(r) /\ ProxySound(r)
  BY DEF ChatInv
<1>2. /\ \A q \in Requests \ {r} : active'[q] = active[q]
      /\ active'[r] \in {active[r], "waiting"}
      /\ active[r] # "none" => active'[r] = "waiting"
      /\ active' \in [Requests -> {"none", "receiving", "waiting", "upstream"}]
  BY <1>1, TrackFrame DEF Accept, TypeOK
<1>3. server' = server /\ server \notin {"drained", "closed"}
  BY <1>1, StillServing DEF Accept, InProgress
<1>4. TypeOK'
  BY <1>1, <1>2 DEF Accept, Goto, ledgerVars, recordVars, proxyVars, TypeOK, ControlTypeOK, LedgerTypeOK, Steps
<1>5. AddedOnce' /\ RingSound' /\ SessionsSound'
  <2>1. SameLedger
    BY DEF SameLedger, Accept, ledgerVars
  <2>2. \A q \in Requests : /\ pc'[q] \in {"returning", "done"} <=>
                                pc[q] \in {"returning", "done"}
                            /\ pc[q] \in {"returning", "done"} => session'[q] = session[q]
    BY <1>1 DEF Accept, Goto, recordVars, TypeOK, ControlTypeOK
  <2> QED
    BY <1>1, <2>1, <2>2, LedgerStays
<1>6. HandlerSound(r)'
  BY <1>1, <1>2 DEF Accept, Goto, ledgerVars, recordVars, proxyVars, HandlerSound, TypeOK, ControlTypeOK
<1>7. ProxySound(r)'
  BY <1>1 DEF Accept, Goto, ledgerVars, recordVars, proxyVars, ProxySound, HandlerSound, TypeOK, ControlTypeOK
<1>8. \A q \in Requests \ {r} : Untouched(q)
  BY <1>1, <1>2 DEF Accept, Goto, ledgerVars, recordVars, proxyVars, Untouched, TypeOK, ControlTypeOK, LedgerTypeOK
<1> QED
  BY <1>3, <1>4, <1>5, <1>6, <1>7, <1>8, HandlerStep

LEMMA AcquireFailsStep ==
    ASSUME ChatInv, NEW r \in Requests, AcquireFails(r)
    PROVE  ChatInv'
<1>1. /\ TypeOK /\ AddedOnce /\ RingSound /\ SessionsSound /\ ServerSound
      /\ HandlerSound(r) /\ ProxySound(r)
  BY DEF ChatInv
<1>3. server' = server /\ server \notin {"drained", "closed"}
  BY <1>1, StillServing DEF AcquireFails, InProgress
<1>4. TypeOK'
  <2>1. PICK result \in {"canceled", "queue-full", "backend-start-failed"},
             written \in {"none", "error"} : Ends(r, result, written)
    BY DEF AcquireFails
  <2> QED
    BY <1>1, <2>1 DEF AcquireFails, Goto, Ends, ledgerVars, proxyVars, TypeOK, ControlTypeOK, LedgerTypeOK, Steps
<1>5. AddedOnce' /\ RingSound' /\ SessionsSound'
  <2>1. SameLedger
    BY DEF SameLedger, AcquireFails, ledgerVars
  <2>2. \A q \in Requests : /\ pc'[q] \in {"returning", "done"} <=>
                                pc[q] \in {"returning", "done"}
                            /\ pc[q] \in {"returning", "done"} => session'[q] = session[q]
    BY <1>1 DEF AcquireFails, Goto, Ends, recordVars, TypeOK, ControlTypeOK
  <2> QED
    BY <1>1, <2>1, <2>2, LedgerStays
<1>6. HandlerSound(r)'
  BY <1>1 DEF AcquireFails, Goto, Ends, ledgerVars, recordVars, proxyVars, HandlerSound, TypeOK, ControlTypeOK
<1>7. ProxySound(r)'
  BY <1>1 DEF AcquireFails, Goto, Ends, ledgerVars, recordVars, proxyVars, ProxySound, HandlerSound, TypeOK, ControlTypeOK
<1>8. \A q \in Requests \ {r} : Untouched(q)
  BY <1>1 DEF AcquireFails, Goto, Ends, ledgerVars, recordVars, proxyVars, Untouched, TypeOK, ControlTypeOK, LedgerTypeOK
<1> QED
  BY <1>3, <1>4, <1>5, <1>6, <1>7, <1>8, HandlerStep

LEMMA AcquiredStep ==
    ASSUME ChatInv, NEW r \in Requests, Acquired(r)
    PROVE  ChatInv'
<1>1. /\ TypeOK /\ AddedOnce /\ RingSound /\ SessionsSound /\ ServerSound
      /\ HandlerSound(r) /\ ProxySound(r)
  BY DEF ChatInv
<1>2. /\ \A q \in Requests \ {r} : active'[q] = active[q]
      /\ active'[r] \in {active[r], "upstream"}
      /\ active[r] # "none" => active'[r] = "upstream"
      /\ active' \in [Requests -> {"none", "receiving", "waiting", "upstream"}]
  BY <1>1, TrackFrame DEF Acquired, TypeOK
<1>3. server' = server /\ server \notin {"drained", "closed"}
  BY <1>1, StillServing DEF Acquired, InProgress
<1>4. TypeOK'
  BY <1>1, <1>2 DEF Acquired, Goto, ledgerVars, recordVars, proxyVars, TypeOK, ControlTypeOK, LedgerTypeOK, Steps
<1>5. AddedOnce' /\ RingSound' /\ SessionsSound'
  <2>1. SameLedger
    BY DEF SameLedger, Acquired, ledgerVars
  <2>2. \A q \in Requests : /\ pc'[q] \in {"returning", "done"} <=>
                                pc[q] \in {"returning", "done"}
                            /\ pc[q] \in {"returning", "done"} => session'[q] = session[q]
    BY <1>1 DEF Acquired, Goto, recordVars, TypeOK, ControlTypeOK
  <2> QED
    BY <1>1, <2>1, <2>2, LedgerStays
<1>6. HandlerSound(r)'
  BY <1>1, <1>2 DEF Acquired, Goto, ledgerVars, recordVars, proxyVars, HandlerSound, TypeOK, ControlTypeOK
<1>7. ProxySound(r)'
  BY <1>1 DEF Acquired, Goto, ledgerVars, recordVars, proxyVars, ProxySound, HandlerSound, TypeOK, ControlTypeOK
<1>8. \A q \in Requests \ {r} : Untouched(q)
  BY <1>1, <1>2 DEF Acquired, Goto, ledgerVars, recordVars, proxyVars, Untouched, TypeOK, ControlTypeOK, LedgerTypeOK
<1> QED
  BY <1>3, <1>4, <1>5, <1>6, <1>7, <1>8, HandlerStep

LEMMA RoundTripFailsStep ==
    ASSUME ChatInv, NEW r \in Requests, RoundTripFails(r)
    PROVE  ChatInv'
<1>1. /\ TypeOK /\ AddedOnce /\ RingSound /\ SessionsSound /\ ServerSound
      /\ HandlerSound(r) /\ ProxySound(r)
  BY DEF ChatInv
<1>3. server' = server /\ server \notin {"drained", "closed"}
  BY <1>1, StillServing DEF RoundTripFails, InProgress
<1>4. TypeOK'
  BY <1>1 DEF RoundTripFails, FailLease, Goto, ledgerVars, recordVars, proxyVars, TypeOK, ControlTypeOK, LedgerTypeOK, Steps
<1>5. AddedOnce' /\ RingSound' /\ SessionsSound'
  <2>1. SameLedger
    BY DEF SameLedger, RoundTripFails, ledgerVars
  <2>2. \A q \in Requests : /\ pc'[q] \in {"returning", "done"} <=>
                                pc[q] \in {"returning", "done"}
                            /\ pc[q] \in {"returning", "done"} => session'[q] = session[q]
    BY <1>1 DEF RoundTripFails, FailLease, Goto, recordVars, TypeOK, ControlTypeOK
  <2> QED
    BY <1>1, <2>1, <2>2, LedgerStays
<1>6. HandlerSound(r)'
  BY <1>1 DEF RoundTripFails, FailLease, Goto, ledgerVars, recordVars, proxyVars, HandlerSound, TypeOK, ControlTypeOK
<1>7. ProxySound(r)'
  BY <1>1 DEF RoundTripFails, FailLease, Goto, ledgerVars, recordVars, proxyVars, ProxySound, HandlerSound, TypeOK, ControlTypeOK
<1>8. \A q \in Requests \ {r} : Untouched(q)
  BY <1>1 DEF RoundTripFails, FailLease, Goto, ledgerVars, recordVars, proxyVars, Untouched, TypeOK, ControlTypeOK, LedgerTypeOK
<1> QED
  BY <1>3, <1>4, <1>5, <1>6, <1>7, <1>8, HandlerStep

LEMMA RelayedStep ==
    ASSUME ChatInv, NEW r \in Requests, Relayed(r)
    PROVE  ChatInv'
<1>1. /\ TypeOK /\ AddedOnce /\ RingSound /\ SessionsSound /\ ServerSound
      /\ HandlerSound(r) /\ ProxySound(r)
  BY DEF ChatInv
<1>3. server' = server /\ server \notin {"drained", "closed"}
  BY <1>1, StillServing DEF Relayed, InProgress
<1>4. TypeOK'
  BY <1>1 DEF Relayed, Answers, Goto, ledgerVars, recordVars, proxyVars, TypeOK, ControlTypeOK, LedgerTypeOK, Steps
<1>5. AddedOnce' /\ RingSound' /\ SessionsSound'
  <2>1. SameLedger
    BY DEF SameLedger, Relayed, ledgerVars
  <2>2. \A q \in Requests : /\ pc'[q] \in {"returning", "done"} <=>
                                pc[q] \in {"returning", "done"}
                            /\ pc[q] \in {"returning", "done"} => session'[q] = session[q]
    BY <1>1 DEF Relayed, Answers, Goto, recordVars, TypeOK, ControlTypeOK
  <2> QED
    BY <1>1, <2>1, <2>2, LedgerStays
<1>6. HandlerSound(r)'
  BY <1>1 DEF Relayed, Answers, Goto, ledgerVars, recordVars, proxyVars, HandlerSound, TypeOK, ControlTypeOK
<1>7. ProxySound(r)'
  BY <1>1 DEF Relayed, Answers, Goto, ledgerVars, recordVars, proxyVars, ProxySound, HandlerSound, TypeOK, ControlTypeOK
<1>8. \A q \in Requests \ {r} : Untouched(q)
  BY <1>1 DEF Relayed, Answers, Goto, ledgerVars, recordVars, proxyVars, Untouched, TypeOK, ControlTypeOK, LedgerTypeOK
<1> QED
  BY <1>3, <1>4, <1>5, <1>6, <1>7, <1>8, HandlerStep

LEMMA RelayBreaksStep ==
    ASSUME ChatInv, NEW r \in Requests, RelayBreaks(r)
    PROVE  ChatInv'
<1>1. /\ TypeOK /\ AddedOnce /\ RingSound /\ SessionsSound /\ ServerSound
      /\ HandlerSound(r) /\ ProxySound(r)
  BY DEF ChatInv
<1>3. server' = server /\ server \notin {"drained", "closed"}
  BY <1>1, StillServing DEF RelayBreaks, InProgress
<1>4. TypeOK'
  BY <1>1 DEF RelayBreaks, Answers, Aborted, FailLease, Goto, ledgerVars, recordVars, proxyVars, TypeOK, ControlTypeOK, LedgerTypeOK, Steps
<1>5. AddedOnce' /\ RingSound' /\ SessionsSound'
  <2>1. SameLedger
    BY DEF SameLedger, RelayBreaks, ledgerVars
  <2>2. \A q \in Requests : /\ pc'[q] \in {"returning", "done"} <=>
                                pc[q] \in {"returning", "done"}
                            /\ pc[q] \in {"returning", "done"} => session'[q] = session[q]
    BY <1>1 DEF RelayBreaks, Answers, Aborted, FailLease, Goto, recordVars, TypeOK, ControlTypeOK
  <2> QED
    BY <1>1, <2>1, <2>2, LedgerStays
<1>6. HandlerSound(r)'
  BY <1>1 DEF RelayBreaks, Answers, Aborted, FailLease, Goto, ledgerVars, recordVars, proxyVars, HandlerSound, TypeOK, ControlTypeOK
<1>7. ProxySound(r)'
  BY <1>1 DEF RelayBreaks, Answers, Aborted, FailLease, Goto, ledgerVars, recordVars, proxyVars, ProxySound, HandlerSound, TypeOK, ControlTypeOK
<1>8. \A q \in Requests \ {r} : Untouched(q)
  BY <1>1 DEF RelayBreaks, Answers, Aborted, FailLease, Goto, ledgerVars, recordVars, proxyVars, Untouched, TypeOK, ControlTypeOK, LedgerTypeOK
<1> QED
  BY <1>3, <1>4, <1>5, <1>6, <1>7, <1>8, HandlerStep

LEMMA OutcomeStep ==
    ASSUME ChatInv, NEW r \in Requests, Outcome(r)
    PROVE  ChatInv'
<1>1. /\ TypeOK /\ AddedOnce /\ RingSound /\ SessionsSound /\ ServerSound
      /\ HandlerSound(r) /\ ProxySound(r)
  BY DEF ChatInv
<1>3. server' = server /\ server \notin {"drained", "closed"}
  BY <1>1, StillServing DEF Outcome, InProgress
<1>4. TypeOK'
  BY <1>1 DEF Outcome, Goto, ledgerVars, recordVars, proxyVars, TypeOK, ControlTypeOK, LedgerTypeOK, Steps
<1>5. AddedOnce' /\ RingSound' /\ SessionsSound'
  <2>1. SameLedger
    BY DEF SameLedger, Outcome, ledgerVars
  <2>2. \A q \in Requests : /\ pc'[q] \in {"returning", "done"} <=>
                                pc[q] \in {"returning", "done"}
                            /\ pc[q] \in {"returning", "done"} => session'[q] = session[q]
    BY <1>1 DEF Outcome, Goto, recordVars, TypeOK, ControlTypeOK
  <2> QED
    BY <1>1, <2>1, <2>2, LedgerStays
<1>6. HandlerSound(r)'
  BY <1>1 DEF Outcome, Goto, ledgerVars, recordVars, proxyVars, HandlerSound, TypeOK, ControlTypeOK
<1>7. ProxySound(r)'
  BY <1>1 DEF Outcome, Goto, ledgerVars, recordVars, proxyVars, ProxySound, HandlerSound, TypeOK, ControlTypeOK
<1>8. \A q \in Requests \ {r} : Untouched(q)
  BY <1>1 DEF Outcome, Goto, ledgerVars, recordVars, proxyVars, Untouched, TypeOK, ControlTypeOK, LedgerTypeOK
<1> QED
  BY <1>3, <1>4, <1>5, <1>6, <1>7, <1>8, HandlerStep

LEMMA ReturnStep ==
    ASSUME ChatInv, NEW r \in Requests, Return(r)
    PROVE  ChatInv'
<1>1. /\ TypeOK /\ AddedOnce /\ RingSound /\ SessionsSound /\ ServerSound
      /\ HandlerSound(r) /\ ProxySound(r)
  BY DEF ChatInv
<1>3. server' = server /\ server \notin {"drained", "closed"}
  BY <1>1, StillServing DEF Return, InProgress
<1>4. TypeOK'
  BY <1>1 DEF Return, Goto, ledgerVars, recordVars, proxyVars, TypeOK, ControlTypeOK, LedgerTypeOK, Steps
<1>5. AddedOnce' /\ RingSound' /\ SessionsSound'
  <2>1. SameLedger
    BY DEF SameLedger, Return, ledgerVars
  <2>2. \A q \in Requests : /\ pc'[q] \in {"returning", "done"} <=>
                                pc[q] \in {"returning", "done"}
                            /\ pc[q] \in {"returning", "done"} => session'[q] = session[q]
    BY <1>1 DEF Return, Goto, recordVars, TypeOK, ControlTypeOK
  <2> QED
    BY <1>1, <2>1, <2>2, LedgerStays
<1>6. HandlerSound(r)'
  BY <1>1 DEF Return, Goto, ledgerVars, recordVars, proxyVars, HandlerSound, TypeOK, ControlTypeOK
<1>7. ProxySound(r)'
  BY <1>1 DEF Return, Goto, ledgerVars, recordVars, proxyVars, ProxySound, HandlerSound, TypeOK, ControlTypeOK
<1>8. \A q \in Requests \ {r} : Untouched(q)
  BY <1>1 DEF Return, Goto, ledgerVars, recordVars, proxyVars, Untouched, TypeOK, ControlTypeOK, LedgerTypeOK
<1> QED
  BY <1>3, <1>4, <1>5, <1>6, <1>7, <1>8, HandlerStep

LEMMA CompleteStep ==
    ASSUME ChatInv, NEW r \in Requests, Complete(r)
    PROVE  ChatInv'
<1>1. /\ TypeOK /\ AddedOnce /\ RingSound /\ SessionsSound /\ ServerSound
      /\ HandlerSound(r) /\ ProxySound(r)
  BY DEF ChatInv
<1>2. /\ pc[r] = "completing" /\ Add(r) /\ Goto(r, "returning")
      /\ UNCHANGED <<server, gone, persisted>>
      /\ UNCHANGED <<session, known, outcome, status>>
      /\ UNCHANGED <<lease, proxyFailed, proxyAborted, blamed, broken, whole>>
  BY DEF Complete, recordVars, proxyVars
<1>3. server' = server /\ server \notin {"drained", "closed"}
  BY <1>1, <1>2, StillServing DEF InProgress
<1>4. AddedOnce' /\ RingSound' /\ SessionsSound'
  BY <1>1, <1>2, AddKeepsHistory, AddKeepsRing, AddKeepsSessions
<1>5. TypeOK'
  <2>1. ControlTypeOK'
    BY <1>1, <1>2 DEF Goto, TypeOK, ControlTypeOK, Steps
  <2>2. /\ added' \in Seq(Requests)
        /\ active' \in [Requests -> {"none", "receiving", "waiting", "upstream"}]
        /\ sequence' \in Nat /\ overall' \in Nat
    BY <1>1, <1>2, Appended DEF Add, addUsage, TypeOK, LedgerTypeOK
  <2>3. entries' \in [0..(RecentLimit - 1) -> [sequence: Nat, id: Requests \cup {None}]]
    <3>1. /\ sequence \in Nat /\ RecentLimit \in Nat \ {0}
          /\ entries' = [entries EXCEPT ![sequence % RecentLimit] =
                           [sequence |-> sequence + 1, id |-> r]]
      BY <1>1, <1>2, LimitsAssumption DEF Add, TypeOK, LedgerTypeOK
    <3>2. [sequence |-> sequence + 1, id |-> r] \in [sequence: Nat, id: Requests \cup {None}]
      BY <3>1
    <3> QED
      BY <1>1, <3>1, <3>2 DEF TypeOK, LedgerTypeOK
  <2>4. sessions' \in [Sessions -> [last: Nat, requests: Nat]]
    <3> SUFFICES ASSUME NEW t \in Sessions
                 PROVE  sessions'[t] \in [last: Nat, requests: Nat]
      BY <1>2 DEF Add, addUsage
    <3>1. /\ sessions[t] \in [last: Nat, requests: Nat]
          /\ sequence + 1 \in Nat
      BY <1>1 DEF TypeOK, LedgerTypeOK
    <3>2. sessions'[t] \in {[last |-> sequence + 1, requests |-> sessions[t].requests + 1],
                            NoSession, sessions[t]}
      BY <1>2 DEF Add, addUsage
    <3> QED
      BY <3>1, <3>2 DEF NoSession
  <2> QED
    BY <2>1, <2>2, <2>3, <2>4 DEF TypeOK, LedgerTypeOK
<1>6. active'[r] = "none" /\ pc'[r] = "returning"
  BY <1>1, <1>2 DEF Add, Goto, TypeOK, ControlTypeOK, LedgerTypeOK
<1>7. HandlerSound(r)' /\ ProxySound(r)'
  BY <1>1, <1>2, <1>6 DEF HandlerSound, ProxySound
<1>8. \A q \in Requests \ {r} : Untouched(q)
  BY <1>1, <1>2 DEF Add, Goto, Untouched, TypeOK, ControlTypeOK, LedgerTypeOK
<1> QED
  BY <1>3, <1>4, <1>5, <1>7, <1>8, HandlerStep

-----------------------------------------------------------------------------
(* The steps of the clients and of runGateway, and stuttering.             *)

\* No handler moves, and no client comes back.
LEMMA QuietStep ==
    ASSUME ChatInv, gone \subseteq gone',
           UNCHANGED <<pc, recordVars, proxyVars, ledgerVars, persisted>>,
           server' \in {"serving", "draining", "drained", "closed"}, ServerSound'
    PROVE  ChatInv'
<1>1. /\ TypeOK /\ AddedOnce /\ RingSound /\ SessionsSound
      /\ \A q \in Requests : HandlerSound(q) /\ ProxySound(q)
  BY DEF ChatInv
<1>2. TypeOK'
  BY <1>1 DEF TypeOK, ControlTypeOK, LedgerTypeOK, recordVars, proxyVars, ledgerVars
<1>3. AddedOnce' /\ RingSound' /\ SessionsSound'
  <2>1. SameLedger /\ pc' = pc /\ session' = session
    BY DEF SameLedger, recordVars, ledgerVars
  <2> QED
    BY <1>1, <2>1, LedgerStays
<1>4. \A q \in Requests : Untouched(q)
  BY DEF Untouched, recordVars, proxyVars, ledgerVars
<1> QED
  BY <1>1, <1>2, <1>3, <1>4, UntouchedSound DEF ChatInv

LEMMA ClientLeavesStep ==
    ASSUME ChatInv, NEW r \in Requests, ClientLeaves(r)
    PROVE  ChatInv'
<1>1. ServerSound' /\ server' \in {"serving", "draining", "drained", "closed"}
  BY DEF ClientLeaves, ServerSound, InProgress, ChatInv, TypeOK, ControlTypeOK
<1> QED
  BY <1>1, QuietStep DEF ClientLeaves

LEMMA ServerStep ==
    ASSUME ChatInv, BeginShutdown \/ ServerShutdown \/ CloseStatistics
    PROVE  ChatInv'
<1>1. ServerSound' /\ server' \in {"serving", "draining", "drained", "closed"}
  BY DEF BeginShutdown, ServerShutdown, CloseStatistics, ServerSound, InProgress, ChatInv
<1> QED
  BY <1>1, QuietStep DEF BeginShutdown, ServerShutdown, CloseStatistics

LEMMA ChatInvInit ==
    Init => ChatInv
<1> SUFFICES ASSUME Init
             PROVE  ChatInv
  OBVIOUS
<1>1. /\ RecentLimit \in Nat \ {0} /\ added = <<>> /\ DOMAIN added = {}
      /\ Len(added) = 0
  BY LimitsAssumption DEF Init
<1>2. TypeOK
  <2>1. ControlTypeOK
    BY DEF Init, ControlTypeOK, Steps
  <2>2. NoEntry \in [sequence: Nat, id: Requests \cup {None}]
    BY DEF NoEntry
  <2>3. NoSession \in [last: Nat, requests: Nat]
    BY DEF NoSession
  <2> QED
    BY <2>1, <2>2, <2>3 DEF Init, TypeOK, LedgerTypeOK
<1>3. AddedOnce
  BY <1>1 DEF Init, AddedOnce
<1>4. Newest(RecentLimit) = {}
  BY <1>1 DEF Newest
<1>5. RingSound
  BY <1>1, <1>4 DEF Init, RingSound
<1>6. SessionsSound
  BY <1>1, <1>4, FS_EmptySet DEF Init, SessionsSound, OfSession, NoSession, Retained
<1>7. ServerSound
  BY DEF Init, ServerSound
<1>8. \A r \in Requests : HandlerSound(r) /\ ProxySound(r)
  BY DEF Init, HandlerSound, ProxySound
<1> QED
  BY <1>2, <1>3, <1>5, <1>6, <1>7, <1>8 DEF ChatInv

LEMMA ChatInvStep ==
    ChatInv /\ [Next]_vars => ChatInv'
<1> SUFFICES ASSUME ChatInv, [Next]_vars
             PROVE  ChatInv'
  OBVIOUS
<1>1. ASSUME NEW r \in Requests, Handler(r)
      PROVE  ChatInv'
  <2>1. CASE \E s \in Sessions \cup {None} : Chat(r, s)
    BY <2>1, ChatStep
  <2>2. CASE Refuse(r) \/ RefuseControls(r) \/ Accept(r)
    BY <2>2, RefuseStep, RefuseControlsStep, AcceptStep
  <2>3. CASE AcquireFails(r) \/ Acquired(r)
    BY <2>3, AcquireFailsStep, AcquiredStep
  <2>4. CASE RoundTripFails(r) \/ Relayed(r) \/ RelayBreaks(r)
    BY <2>4, RoundTripFailsStep, RelayedStep, RelayBreaksStep
  <2>5. CASE Outcome(r) \/ Complete(r) \/ Return(r)
    BY <2>5, OutcomeStep, CompleteStep, ReturnStep
  <2> QED
    BY <1>1, <2>1, <2>2, <2>3, <2>4, <2>5 DEF Handler
<1>2. ASSUME NEW r \in Requests, ClientLeaves(r)
      PROVE  ChatInv'
  BY <1>2, ClientLeavesStep
<1>3. CASE BeginShutdown \/ ServerShutdown \/ CloseStatistics
  BY <1>3, ServerStep
<1>4. CASE UNCHANGED vars
  <2>1. ServerSound' /\ server' \in {"serving", "draining", "drained", "closed"}
    BY <1>4 DEF vars, ServerSound, InProgress, ChatInv, TypeOK, ControlTypeOK
  <2> QED
    BY <1>4, <2>1, QuietStep DEF vars
<1> QED
  BY <1>1, <1>2, <1>3, <1>4 DEF Next

-----------------------------------------------------------------------------
(* What the invariant says of the ledger.                                  *)

LEMMA InvLedgerTrue ==
    ChatInv => LedgerTrue
<1> SUFFICES ASSUME ChatInv
             PROVE  LedgerTrue
  OBVIOUS
<1>1. ASSUME NEW r \in Requests, pc[r] = "done"
      PROVE  /\ Cardinality({i \in DOMAIN added : added[i] = r}) = 1
             /\ persisted[r] = IF r \in known THEN 1 ELSE 0
             /\ lease[r] # "held"
  <2>1. PICK i \in DOMAIN added : added[i] = r
    BY <1>1 DEF ChatInv, AddedOnce
  <2>2. {j \in DOMAIN added : added[j] = r} = {i}
    BY <2>1 DEF ChatInv, AddedOnce
  <2>3. Cardinality({i}) = 1
    BY FS_Singleton
  <2> QED
    BY <1>1, <2>2, <2>3 DEF ChatInv, HandlerSound
<1>2. server = "closed" => \A r \in Requests : ~InProgress(r)
  BY DEF ChatInv, ServerSound
<1>3. OutcomeIsTrue
  <2>1. blamed \subseteq Requests /\ \A r \in Requests : ProxySound(r)
    BY DEF ChatInv, TypeOK, ControlTypeOK
  <2> QED
    BY <2>1 DEF OutcomeIsTrue, ProxySound
<1> QED
  BY <1>1, <1>2, <1>3 DEF LedgerTrue, Accounted

\* A request is found in the ring as long as it is one of the newest.
RingShows ==
    \A r \in Requests :
        (\E k \in DOMAIN entries : entries[k].id = r) <=>
        (\E i \in Newest(RecentLimit) : added[i] = r)

LEMMA RingIsWindow ==
    ChatInv => RingShows
<1> SUFFICES ASSUME ChatInv, NEW r \in Requests
             PROVE  (\E k \in DOMAIN entries : entries[k].id = r) <=>
                    (\E i \in Newest(RecentLimit) : added[i] = r)
  BY DEF RingShows
<1>1. TypeOK /\ RingSound /\ RecentLimit \in Nat \ {0} /\ None # r
  BY LimitsAssumption DEF ChatInv
<1>2. ASSUME NEW k \in DOMAIN entries, entries[k].id = r
      PROVE  \E i \in Newest(RecentLimit) : added[i] = r
  <2>1. entries[k] # NoEntry
    BY <1>1, <1>2 DEF NoEntry
  <2> QED
    BY <1>1, <1>2, <2>1 DEF RingSound
<1>3. ASSUME NEW i \in Newest(RecentLimit), added[i] = r
      PROVE  \E k \in DOMAIN entries : entries[k].id = r
  <2>1. i - 1 \in Nat
    BY <1>1 DEF Newest, TypeOK, LedgerTypeOK
  <2>2. (i - 1) % RecentLimit \in 0..(RecentLimit - 1)
    BY <1>1, <2>1, DivMod
  <2>3. entries[(i - 1) % RecentLimit] = [sequence |-> i, id |-> added[i]]
    BY <1>1 DEF RingSound
  <2>4. DOMAIN entries = 0..(RecentLimit - 1)
    BY <1>1 DEF TypeOK, LedgerTypeOK
  <2> QED
    BY <1>3, <2>2, <2>3, <2>4
<1> QED
  BY <1>2, <1>3

LEMMA InvSnapshotExact ==
    ChatInv => SnapshotExact
<1> SUFFICES ASSUME ChatInv
             PROVE  SnapshotExact
  OBVIOUS
<1>1. TypeOK /\ AddedOnce /\ RingSound /\ SessionsSound
  BY DEF ChatInv
<1>2. /\ \A s \in Sessions : sessions[s].requests >=
            Cardinality(OfSession(s, Newest(RecentLimit)))
      /\ overall = Len(added)
  BY <1>1 DEF SessionsSound, AddedOnce
<1>3. ASSUME NEW limit \in 1..RecentLimit
      PROVE  Recent(limit) = [k \in 1..Cardinality(Newest(limit)) |->
                                added[Len(added) - k + 1]]
  <2> DEFINE count == IF limit < sequence THEN limit ELSE sequence
             slot(offset) == entries[(sequence - offset - 1) % RecentLimit]
             valid == {o \in 0..(count - 1) : slot(o).sequence = sequence - o}
             before(o) == Cardinality({v \in valid : v < o})
  <2>1. /\ RecentLimit \in Nat \ {0} /\ limit \in Nat \ {0} /\ limit <= RecentLimit
        /\ sequence \in Nat /\ sequence = Len(added) /\ DOMAIN added = 1..sequence
        /\ count \in Nat /\ count <= limit /\ count <= sequence
    BY <1>1, LimitsAssumption DEF AddedOnce, TypeOK, LedgerTypeOK
  <2>2. ASSUME NEW o \in 0..(count - 1)
        PROVE  slot(o) = [sequence |-> sequence - o, id |-> added[sequence - o]]
    <3>1. sequence - o \in Newest(RecentLimit) /\ (sequence - o) - 1 = sequence - o - 1
      BY <2>1 DEF Newest
    <3> QED
      BY <1>1, <3>1 DEF RingSound
  <2>3. valid = 0..(count - 1)
    <3> HIDE DEF count, slot
    <3>1. \A o \in 0..(count - 1) : slot(o).sequence = sequence - o
      BY <2>2
    <3> QED
      BY <3>1
  <2>4. Cardinality(valid) = count
    <3> HIDE DEF valid, count
    <3>1. Cardinality(0..(count - 1)) = count
      BY <2>1, FS_Interval
    <3> QED
      BY <2>3, <3>1
  <2>5. Cardinality(Newest(limit)) = count
    <3>0. \/ count = limit
          \/ count = sequence /\ sequence <= limit
      BY <2>1
    <3> HIDE DEF count
    <3>1. Newest(limit) = (sequence - count + 1)..sequence
      BY <2>1, <3>0 DEF Newest
    <3>2. Cardinality((sequence - count + 1)..sequence) = count
      BY <2>1, FS_Interval
    <3> QED
      BY <3>1, <3>2
  <2>6. ASSUME NEW o \in valid
        PROVE  before(o) = o
    <3>1. o \in Nat /\ {v \in valid : v < o} = 0..(o - 1)
      BY <2>1, <2>3
    <3>2. Cardinality(0..(o - 1)) = o
      BY <3>1, FS_Interval
    <3> QED
      BY <3>1, <3>2
  <2>7. ASSUME NEW k \in 1..count
        PROVE  slot(CHOOSE o \in valid : before(o) = k - 1).id = added[Len(added) - k + 1]
    <3> HIDE DEF before, valid, count, slot
    <3>1. k - 1 \in valid /\ k - 1 \in 0..(count - 1)
      BY <2>1, <2>3
    <3>2. (CHOOSE o \in valid : before(o) = k - 1) = k - 1
      BY <2>6, <3>1
    <3>3. slot(k - 1).id = added[sequence - (k - 1)]
      BY <2>2, <3>1
    <3>4. sequence - (k - 1) = Len(added) - k + 1
      BY <2>1
    <3> QED
      BY <3>2, <3>3, <3>4
  <2>8. Recent(limit) = [k \in 1..Cardinality(valid) |->
                           slot(CHOOSE o \in valid : before(o) = k - 1).id]
    BY DEF Recent
  <2> HIDE DEF count, slot, valid, before
  <2> QED
    BY <2>4, <2>5, <2>7, <2>8
<1> QED
  BY <1>2, <1>3 DEF SnapshotExact

\* One step of the report on r, as long as r is in the active cache.
LEMMA ReportAdvances ==
    ASSUME ChatInv, [Next]_vars, NEW r \in Requests
    PROVE  \/ active'[r] = active[r] \/ active[r] = "none"
           \/ active[r] = "receiving" /\ active'[r] = "waiting"
           \/ active[r] = "waiting" /\ active'[r] = "upstream"
           \/ \E i \in Newest(RecentLimit)' : added'[i] = r
<1>1. TypeOK /\ HandlerSound(r) /\ LedgerTypeOK
  BY DEF ChatInv, TypeOK
<1>2. ASSUME NEW q \in Requests, Handler(q), q # r
      PROVE  active'[r] = active[r]
  <2>1. CASE \/ \E s \in Sessions \cup {None} : Chat(q, s)
             \/ Accept(q) \/ Acquired(q)
    <3>1. \E phase \in {"receiving", "waiting", "upstream"} : Track(q, phase)
      BY <2>1 DEF Chat, Accept, Acquired
    <3> QED
      BY <1>1, <1>2, <3>1, TrackFrame
  <2>2. CASE Complete(q) \/ Return(q)
    BY <1>1, <1>2, <2>2 DEF Complete, Return, Add, LedgerTypeOK
  <2>3. CASE \/ Refuse(q) \/ RefuseControls(q) \/ AcquireFails(q)
             \/ RoundTripFails(q) \/ Relayed(q) \/ RelayBreaks(q) \/ Outcome(q)
    BY <2>3 DEF Refuse, RefuseControls, AcquireFails, RoundTripFails, Relayed,
                RelayBreaks, Outcome, ledgerVars
  <2> QED
    BY <1>2, <2>1, <2>2, <2>3 DEF Handler
<1>3. CASE Handler(r)
  <2>1. CASE \/ \E s \in Sessions \cup {None} : Chat(r, s)
             \/ Return(r)
    BY <1>1, <2>1 DEF Chat, Return, HandlerSound
  <2>2. CASE Accept(r)
    BY <1>1, <2>2, TrackFrame DEF Accept, HandlerSound
  <2>3. CASE Acquired(r)
    BY <1>1, <2>3, TrackFrame DEF Acquired, HandlerSound
  <2>4. CASE Complete(r)
    <3>1. added' = Append(added, r)
      BY <2>4 DEF Complete, Add
    <3>2. Len(added) + 1 \in Newest(RecentLimit)'
      BY <1>1, <3>1, WindowMoves
    <3>3. added'[Len(added) + 1] = r
      BY <1>1, <3>1, Appended DEF LedgerTypeOK
    <3> QED
      BY <3>2, <3>3
  <2>5. CASE \/ Refuse(r) \/ RefuseControls(r) \/ AcquireFails(r)
             \/ RoundTripFails(r) \/ Relayed(r) \/ RelayBreaks(r) \/ Outcome(r)
    BY <2>5 DEF Refuse, RefuseControls, AcquireFails, RoundTripFails, Relayed,
                RelayBreaks, Outcome, ledgerVars
  <2> QED
    BY <1>3, <2>1, <2>2, <2>3, <2>4, <2>5 DEF Handler
<1>4. CASE \/ \E q \in Requests : ClientLeaves(q)
           \/ BeginShutdown \/ ServerShutdown \/ CloseStatistics
           \/ UNCHANGED vars
  BY <1>4 DEF ClientLeaves, BeginShutdown, ServerShutdown, CloseStatistics,
              vars, ledgerVars
<1> QED
  BY <1>2, <1>3, <1>4 DEF Next

LEMMA StepReportContinuous ==
    ASSUME ChatInv, ChatInv', [Next]_vars, NEW r \in Requests
    PROVE  \/ Progress(Lookup(r))' >= Progress(Lookup(r))
           \/ /\ Lookup(r) = "completed"
              /\ \A i \in Newest(RecentLimit)' : added'[i] # r
<1> DEFINE window == \E i \in Newest(RecentLimit) : added[i] = r
<1>1. /\ Lookup(r) = IF window THEN "completed" ELSE active[r]
      /\ Lookup(r)' = IF window' THEN "completed" ELSE active'[r]
  <2>1. (\E k \in DOMAIN entries : entries[k].id = r) <=> window
    BY RingIsWindow DEF RingShows
  <2>2. ChatInv' => RingShows'
    BY RingIsWindow, PTL
  <2>3. (\E k \in DOMAIN entries' : entries'[k].id = r) <=> window'
    BY <2>2 DEF RingShows
  <2> QED
    BY <2>1, <2>3 DEF Lookup
<1>2. /\ active[r] \in {"none", "receiving", "waiting", "upstream"}
      /\ active'[r] \in {"none", "receiving", "waiting", "upstream"}
  BY DEF ChatInv, TypeOK, LedgerTypeOK
<1>3. \/ active'[r] = active[r] \/ active[r] = "none"
      \/ active[r] = "receiving" /\ active'[r] = "waiting"
      \/ active[r] = "waiting" /\ active'[r] = "upstream"
      \/ window'
  BY ReportAdvances
<1>4. CASE window'
  BY <1>1, <1>2, <1>4 DEF Progress
<1>5. CASE window /\ ~window'
  BY <1>1, <1>5
<1>6. CASE ~window /\ ~window'
  BY <1>1, <1>2, <1>3, <1>6 DEF Progress
<1> QED
  BY <1>4, <1>5, <1>6

-----------------------------------------------------------------------------
(* The theorems.                                                           *)

\* The inductive invariant of the chat handlers, the ledger and the shutdown
\* holds, for any number of requests and sessions.
THEOREM ChatInvariant ==
    Spec => []ChatInv
BY ChatInvInit, ChatInvStep, PTL DEF Spec

\* completeRequest and the deferred calls account for every request once and
\* for what happened to it, before runGateway closes the statistics.
THEOREM LedgerIsTrue ==
    Spec => []LedgerTrue
BY ChatInvariant, InvLedgerTrue, PTL

\* Recent and Snapshot return exactly the newest records, whatever the size of
\* the ring and the table of sessions.
THEOREM SnapshotIsExact ==
    Spec => []SnapshotExact
BY ChatInvariant, InvSnapshotExact, PTL

\* A report that Lookup has once given never goes back before the ring has
\* turned over.
THEOREM ReportsContinue ==
    Spec => ReportContinuous
<1>1. ChatInv /\ ChatInv' /\ [Next]_vars =>
        [\A r \in Requests :
           \/ Progress(Lookup(r))' >= Progress(Lookup(r))
           \/ /\ Lookup(r) = "completed"
              /\ \A i \in Newest(RecentLimit)' : added'[i] # r]_vars
  BY StepReportContinuous
<1> QED
  BY <1>1, ChatInvariant, PTL DEF Spec, ReportContinuous

-----------------------------------------------------------------------------
(* The model status handler (ModelStatus).                                 *)

\* What the probe says of a model is what the router says of it, or "unknown".
LEMMA ResidencyHonest ==
    ASSUME StatusTypeOK, NEW n \in Nat, NEW listing \in [1..n -> Entry],
           Truthful(listing), NEW m \in registry
    PROVE  /\ Residency(listing)[m].state \in {"unknown", child[m]}
           /\ Residency(listing)[m].runtime =>
                Residency(listing)[m].state \in {"loaded", "sleeping"}
<1>1. CASE Cardinality(Mentions(listing, m)) # 1
  <2>1. Residency(listing)[m] = Row("unknown", FALSE)
    BY <1>1, Zenon DEF Residency
  <2> QED
    BY <2>1 DEF Row
<1>2. CASE Cardinality(Mentions(listing, m)) = 1
  <2> DEFINE i == CHOOSE i \in Mentions(listing, m) : TRUE
  <2>1. i \in Mentions(listing, m)
    <3>1. Mentions(listing, m) = {} => Cardinality(Mentions(listing, m)) = 0
      BY FS_EmptySet, Zenon
    <3> QED
      BY <1>2, <3>1
  <2> HIDE DEF i
  <2>2. DecodeRouterModelStatus(listing[i].status) \in {"unknown", child[m]}
    BY <1>2, <2>1 DEF Truthful
  <2> DEFINE state == DecodeRouterModelStatus(listing[i].status)
             meta == state \in {"loaded", "sleeping"} /\ listing[i].meta
  <2>3. Residency(listing)[m] = Row(state, meta)
    BY <1>2, Zenon DEF Residency, i
  <2>4. meta => state \in {"loaded", "sleeping"}
    OBVIOUS
  <2> HIDE DEF state, meta
  <2>5. Row(state, meta).state = state /\ Row(state, meta).runtime = meta
    BY DEF Row
  <2> QED
    BY <2>2, <2>3, <2>4, <2>5, Zenon DEF state
<1> QED
  BY <1>1, <1>2

\* The gateway has not been started.
LEMMA StatusInvInit == StatusInit => StatusInv
<1> SUFFICES ASSUME StatusInit
             PROVE  StatusInv
  OBVIOUS
<1>1. StatusTypeOK
  BY DEF StatusInit, StatusTypeOK, AllUnloaded, ModelState
<1> QED
  BY <1>1 DEF StatusInit, StatusInv, RouterSound, StatusHandlerSound, ReportTruthful

\* Steps of the command, the catalog and the scheduler: what the router's
\* children are and what the handler has seen stay.
LEMMA InventorySteps ==
    ASSUME StatusInv,
           \/ \E applications \in {<<>>, <<"llama-cpp">>, <<"llama-cpp", "llama-cpp">>} :
                RunGateway(applications)
           \/ InspectCandidate \/ RegistryBuilt
           \/ \E m \in Models : ContentChanges(m)
           \/ StatusBeginShutdown
    PROVE  StatusInv'
<1> USE DEF StatusInv, StatusTypeOK, RouterSound, StatusHandlerSound, ReportTruthful,
            scheduler, router, request
<1>1. CASE \E applications \in {<<>>, <<"llama-cpp">>, <<"llama-cpp", "llama-cpp">>} :
             RunGateway(applications)
  BY <1>1 DEF RunGateway
<1>2. CASE InspectCandidate
  <2> DEFINE m == Candidates[position + 1]
  <2>1. registry' \in {registry, registry \cup {m}} /\ (m \in registry' => m \in registry \cup Supported)
    BY <1>2 DEF InspectCandidate
  <2>2. registry' \subseteq Models
    BY <1>2, <2>1, StatusAssumption DEF Models
  <2> QED
    BY <1>2, <2>2 DEF InspectCandidate
<1>3. CASE RegistryBuilt
  BY <1>3 DEF RegistryBuilt
<1>4. CASE \E m \in Models : ContentChanges(m)
  BY <1>4 DEF ContentChanges
<1>5. CASE StatusBeginShutdown
  BY <1>5 DEF StatusBeginShutdown
<1> QED
  BY <1>1, <1>2, <1>3, <1>4, <1>5

\* Steps of the backend that leave the models as they are.
LEMMA BackendSteps ==
    ASSUME StatusInv, StartBackend \/ RouterRuns \/ Started
    PROVE  StatusInv'
<1> USE DEF StatusInv, StatusTypeOK, RouterSound, StatusHandlerSound, ReportTruthful,
            inventory, scheduler, router, request
<1>1. CASE StartBackend
  BY <1>1 DEF StartBackend
<1>2. CASE RouterRuns
  BY <1>2 DEF RouterRuns
<1>3. CASE Started
  BY <1>3 DEF Started
<1> QED
  BY <1>1, <1>2, <1>3

\* Steps that change what the models are: the handler is watching.
LEMMA WatchedSteps ==
    ASSUME StatusInv, Watch, child' \in [Models -> ModelState],
           gateway' = gateway \/ (handler = "idle" /\ gateway' = "done"),
           registry' = registry,
           allocation' \in BOOLEAN, upstream' \in BOOLEAN, alive' \in BOOLEAN,
           allocation' \/ ~alive', alive' \/ child' = AllUnloaded,
           UNCHANGED request
    PROVE  StatusInv'
BY DEF StatusInv, StatusTypeOK, RouterSound, StatusHandlerSound, ReportTruthful,
       request, Watch, Models

\* A backend ends, a child changes, the router dies, the scheduler shuts down.
LEMMA ChangingSteps ==
    ASSUME StatusInv,
           \/ StartFailed \/ Stopped \/ RouterDies
           \/ \E m \in Models, state \in ChildStates : ChildChanges(m, state)
           \/ \E stopped \in BOOLEAN : SchedulerShutdown(stopped)
    PROVE  StatusInv'
<1>0. AllUnloaded \in [Models -> ModelState]
  BY DEF AllUnloaded, ModelState
<1>1. CASE StartFailed \/ Stopped
  BY <1>0, <1>1, WatchedSteps
     DEF StatusInv, StatusTypeOK, StartFailed, Stopped, inventory, request
<1>2. CASE RouterDies
  BY <1>0, <1>2, WatchedSteps
     DEF StatusInv, StatusTypeOK, RouterDies, inventory, scheduler, request
<1>3. CASE \E m \in Models, state \in ChildStates : ChildChanges(m, state)
  <2> PICK m \in Models, state \in ChildStates : ChildChanges(m, state)
    BY <1>3
  <2>1. child' \in [Models -> ModelState]
    BY StatusAssumption DEF StatusInv, StatusTypeOK, ChildChanges
  <2> QED
    BY <2>1, WatchedSteps
       DEF StatusInv, StatusTypeOK, RouterSound, ChildChanges, inventory, scheduler,
           request
<1>4. CASE \E stopped \in BOOLEAN : SchedulerShutdown(stopped)
  <2> PICK stopped \in BOOLEAN : SchedulerShutdown(stopped)
    BY <1>4
  <2>1. CASE stopped
    BY <1>0, <2>1, WatchedSteps
       DEF StatusInv, StatusTypeOK, SchedulerShutdown, request
  <2>2. CASE ~stopped
    BY <2>2 DEF StatusInv, StatusTypeOK, RouterSound, StatusHandlerSound, ReportTruthful,
                SchedulerShutdown, request
  <2> QED
    BY <2>1, <2>2
<1> QED
  BY <1>1, <1>2, <1>3, <1>4

\* Steps of the handler before it responds, and after.
LEMMA StatusSteps ==
    ASSUME StatusInv, StatusArrives \/ StatusRefused \/ SchedulerStatus \/ StatusReturns
    PROVE  StatusInv'
<1> USE DEF StatusInv, StatusTypeOK, RouterSound, StatusHandlerSound, ReportTruthful,
            inventory, scheduler, router
<1>1. CASE StatusArrives
  BY <1>1 DEF StatusArrives
<1>2. CASE StatusRefused
  BY <1>2 DEF StatusRefused
<1>3. CASE SchedulerStatus
  BY <1>3 DEF SchedulerStatus, AllUnloaded
<1>4. CASE StatusReturns
  BY <1>4 DEF StatusReturns
<1> QED
  BY <1>1, <1>2, <1>3, <1>4

\* A response: the state of every row has been seen or is unknown.
LEMMA ResponseSteps ==
    ASSUME StatusInv, ModelStatusUnasked \/ ProbeFails \/ ProbeLlamaResidency
    PROVE  StatusInv'
<1>1. ASSUME NEW rows, handler = "answered", Respond(rows), DOMAIN rows = registry,
             \A m \in registry :
               /\ rows[m].state \in seen[m] \cup {"unknown"}
               /\ rows[m].runtime => rows[m].state \in {"loaded", "sleeping"}
      PROVE  StatusInv'
  BY <1>1 DEF Respond, StatusInv, StatusTypeOK, RouterSound, StatusHandlerSound,
              ReportTruthful, inventory, scheduler, router
<1>2. CASE ModelStatusUnasked \/ ProbeFails
  <2>1. handler = "answered" /\ \A m \in registry : m \in Models
    BY <1>2 DEF StatusInv, StatusTypeOK, ModelStatusUnasked, ProbeFails
  <2>2. ~snapshot.allocation => \A m \in registry : "unloaded" \in seen[m]
    BY <2>1 DEF StatusInv, StatusHandlerSound
  <2>3. \/ Respond(UnknownLlamaResidency)
        \/ ~snapshot.allocation /\ Respond([m \in registry |-> Row("unloaded", FALSE)])
    BY <1>2 DEF ModelStatusUnasked, ProbeFails
  <2> QED
    BY <1>1, <2>1, <2>2, <2>3 DEF UnknownLlamaResidency, Row
<1>3. CASE ProbeLlamaResidency
  <2> PICK n \in 0..MaxListed : \E listing \in [1..n -> Entry] :
             Truthful(listing) /\ Respond(Residency(listing))
    BY <1>3 DEF ProbeLlamaResidency
  <2> PICK listing \in [1..n -> Entry] :
             Truthful(listing) /\ Respond(Residency(listing))
    OBVIOUS
  <2>1. n \in Nat
    OBVIOUS
  <2>2. handler = "answered" /\ \A m \in registry : child[m] \in seen[m]
    BY <1>3 DEF ProbeLlamaResidency, StatusInv, StatusTypeOK, StatusHandlerSound
  <2>3. \A m \in registry :
          /\ Residency(listing)[m].state \in seen[m] \cup {"unknown"}
          /\ Residency(listing)[m].runtime =>
               Residency(listing)[m].state \in {"loaded", "sleeping"}
    BY <2>1, <2>2, ResidencyHonest DEF StatusInv
  <2>4. DOMAIN Residency(listing) = registry
    BY DEF Residency
  <2> QED
    BY <1>1, <2>2, <2>3, <2>4
<1> QED
  BY <1>2, <1>3

LEMMA StatusInvStep == StatusInv /\ [StatusNext]_statusVars => StatusInv'
<1> SUFFICES ASSUME StatusInv, [StatusNext]_statusVars
             PROVE  StatusInv'
  OBVIOUS
<1>1. CASE StatusNext
  BY <1>1, InventorySteps, BackendSteps, ChangingSteps, StatusSteps, ResponseSteps
     DEF StatusNext
<1>2. CASE UNCHANGED statusVars
  BY <1>2 DEF statusVars, inventory, scheduler, router, request, StatusInv, StatusTypeOK,
              RouterSound, StatusHandlerSound, ReportTruthful
<1> QED
  BY <1>1, <1>2

\* The inductive invariant of the status handler holds, for any catalog,
\* inventory and router.
THEOREM StatusInvariant == StatusSpec => []StatusInv
BY StatusInvInit, StatusInvStep, PTL DEF StatusSpec

\* A status report lists the frozen inventory, and gives a model only a state
\* that it was in while the request was handled, or "unknown" (modelStatus).
THEOREM ReportsAreTrue == StatusSpec => []ReportTruthful
<1>1. StatusInv => ReportTruthful
  BY DEF StatusInv
<1> QED
  BY <1>1, StatusInvariant, PTL
=============================================================================
