--------------------------- MODULE StatisticsProofs ---------------------------
(***************************************************************************)
(* Proofs about Statistics: its inductive invariant, and what follows for  *)
(* the counters, the snapshots and the shutdown, for any capacity, batch,  *)
(* retention and period and for any number of events, days and lives.      *)
(***************************************************************************)
EXTENDS Statistics, FiniteSetTheorems, WellFoundedInduction, TLAPS

-----------------------------------------------------------------------------
(* Sums over the days.                                                     *)

\* A set of days that is not empty has a first one.
LEMMA FirstOf ==
    ASSUME NEW S \in SUBSET Nat, S # {}
    PROVE  \E n \in S : \A m \in S : n <= m
<1>1. PICK n \in S : \A m \in S : ~ <<m, n>> \in OpToRel(<, Nat)
  BY WFMin, NatLessThanWellFounded, Zenon
<1>2. \A m \in S : ~ (m < n)
  BY <1>1, Zenon DEF OpToRel
<1> QED
  BY <1>2

\* u[d] is the sum of the first d days.
Sums(u, f) == u = [d \in 0..MaxDay |-> IF d = 0 THEN 0 ELSE u[d - 1] + f[d]]

\* There are such partial sums: the least day up to which there are none would
\* have a day before it.
LEMMA SumsExist ==
    ASSUME NEW f \in [Days -> Nat]
    PROVE  \E u \in [0..MaxDay -> Nat] : Sums(u, f)
<1> DEFINE Upto(n, u) == u[0] = 0 /\ \A d \in 1..n : u[d] = u[d - 1] + f[d]
           Missing == {n \in 0..MaxDay : ~ \E u \in [0..n -> Nat] : Upto(n, u)}
<1> USE StatisticsAssumption DEF Days
<1>1. Missing = {}
  <2> SUFFICES ASSUME Missing # {}
               PROVE  FALSE
    OBVIOUS
  <2>1. Missing \subseteq Nat
    OBVIOUS
  <2>2. PICK n \in Missing : \A m \in Missing : n <= m
    BY <2>1, FirstOf
  <2>3. \A m \in 0..(n - 1) : m \notin Missing
    <3>1. n \in Nat /\ \A m \in 0..(n - 1) : ~ (n <= m)
      BY <2>1
    <3> HIDE DEF Missing
    <3> QED
      BY <2>2, <3>1
  <2>4. CASE n = 0
    <3>1. [d \in 0..0 |-> 0] \in [0..0 -> Nat] /\ Upto(0, [d \in 0..0 |-> 0])
      OBVIOUS
    <3> QED
      BY <3>1, <2>4
  <2>5. CASE n # 0
    <3>0. n \in Nat /\ n - 1 \in 0..MaxDay /\ n - 1 \in 0..(n - 1)
      BY <2>5, <2>1
    <3>1. PICK u \in [0..(n - 1) -> Nat] : Upto(n - 1, u)
      BY <2>3, <3>0
    <3> DEFINE v == [d \in 0..n |-> IF d = n THEN u[n - 1] + f[n] ELSE u[d]]
    <3>2. v \in [0..n -> Nat]
      <4>0. n \in 1..MaxDay
        BY <2>5
      <4>1. f[n] \in Nat /\ u[n - 1] \in Nat
        <5>1. n \in Days /\ f[n] \in Nat
          BY <4>0
        <5>2. u \in [0..(n - 1) -> Nat] /\ n - 1 \in 0..(n - 1)
          BY <3>0, <3>1
        <5> QED
          BY <5>1, <5>2
      <4>2. \A d \in 0..n : d # n => d \in 0..(n - 1)
        BY <3>0
      <4>3. u \in [0..(n - 1) -> Nat]
        BY <3>1
      <4>4. ASSUME NEW d \in 0..n
            PROVE  v[d] \in Nat
        <5>1. CASE d = n
          BY <4>1, <5>1
        <5>2. CASE d # n
          <6>1. u[d] \in Nat /\ v[d] = u[d]
            BY <4>2, <4>3, <5>2
          <6> QED
            BY <6>1
        <5> QED
          BY <5>1, <5>2
      <4> QED
        BY <4>4
    <3>3. v[0] = 0 /\ v[n] = v[n - 1] + f[n]
      BY <3>0, <3>1, <2>5
    <3>4. ASSUME NEW d \in 1..n, d # n
          PROVE  v[d] = v[d - 1] + f[d]
      <4>1. d \in 1..(n - 1) /\ d \in 0..n /\ d - 1 \in 0..n /\ d - 1 # n
        BY <3>0, <3>4
      <4> QED
        BY <3>1, <4>1
    <3>5. Upto(n, v)
      BY <3>3, <3>4
    <3> QED
      BY <3>2, <3>5
  <2> QED
    BY <2>4, <2>5
<1>2. PICK u \in [0..MaxDay -> Nat] : Upto(MaxDay, u)
  <2>1. MaxDay \in 0..MaxDay /\ MaxDay \notin Missing
    <3> HIDE DEF Missing
    <3> QED
      BY <1>1
  <2> QED
    BY <2>1
<1>3. Sums(u, f)
  BY <1>2 DEF Sums
<1> QED
  BY <1>3

\* The sum over the days is the last of its partial sums, of which there is one.
LEMMA TotalSums ==
    ASSUME NEW f \in [Days -> Nat]
    PROVE  \E u \in [0..MaxDay -> Nat] : Sums(u, f) /\ Total(f) = u[MaxDay]
<1> USE StatisticsAssumption DEF Days
<1> DEFINE w == CHOOSE u : Sums(u, f)
<1>1. Sums(w, f)
  BY SumsExist
<1>2. Total(f) = w[MaxDay]
  BY DEF Total, Sums
<1> HIDE DEF w
<1>3. PICK u \in [0..MaxDay -> Nat] : Sums(u, f)
  BY SumsExist
<1> DEFINE Differ == {n \in 0..MaxDay : w[n] # u[n]}
<1>4. Differ = {}
  <2> SUFFICES ASSUME Differ # {}
               PROVE  FALSE
    OBVIOUS
  <2>1. Differ \subseteq Nat
    OBVIOUS
  <2>2. PICK n \in Differ : \A m \in Differ : n <= m
    BY <2>1, FirstOf
  <2>3. \A m \in 0..(n - 1) : m \notin Differ
    BY <2>1, <2>2
  <2>4. n # 0
    BY <1>1, <1>3 DEF Sums
  <2>5. n - 1 \in 0..MaxDay /\ w[n - 1] = u[n - 1]
    <3>1. n \in Nat /\ n \in 0..MaxDay
      OBVIOUS
    <3>2. n - 1 \in 0..MaxDay /\ n - 1 \in 0..(n - 1)
      BY <2>4, <3>1
    <3> QED
      BY <2>3, <3>2
  <2>6. w[n] = w[n - 1] + f[n] /\ u[n] = u[n - 1] + f[n]
    BY <2>4, <1>1, <1>3 DEF Sums
  <2> QED
    BY <2>5, <2>6
<1>5. w[MaxDay] = u[MaxDay]
  <2>1. MaxDay \in 0..MaxDay
    OBVIOUS
  <2> QED
    BY <1>4, <2>1
<1> QED
  BY <1>2, <1>3, <1>5

\* A sum of natural numbers is one.
LEMMA TotalType ==
    ASSUME NEW f \in [Days -> Nat]
    PROVE  Total(f) \in Nat
BY TotalSums, StatisticsAssumption

\* A sum of which only the first day is not zero.
LEMMA TotalFirst ==
    ASSUME NEW f \in [Days -> Nat], \A d \in Days : d > 1 => f[d] = 0
    PROVE  Total(f) = f[1]
<1> USE StatisticsAssumption DEF Days
<1> PICK u \in [0..MaxDay -> Nat] : Sums(u, f) /\ Total(f) = u[MaxDay]
  BY TotalSums
<1> DEFINE Other == {n \in 1..MaxDay : u[n] # f[1]}
<1>1. Other = {}
  <2> SUFFICES ASSUME Other # {}
               PROVE  FALSE
    OBVIOUS
  <2>1. Other \subseteq Nat
    OBVIOUS
  <2>2. PICK n \in Other : \A m \in Other : n <= m
    BY <2>1, FirstOf
  <2>3. \A m \in 1..(n - 1) : m \notin Other
    BY <2>1, <2>2
  <2>4. u[0] = 0 /\ u[n] = u[n - 1] + f[n]
    BY DEF Sums
  <2>5. n # 1
    BY <2>4
  <2>6. n - 1 \in 1..MaxDay /\ u[n - 1] = f[1]
    BY <2>3, <2>5
  <2> QED
    BY <2>4, <2>5, <2>6
<1>2. MaxDay \in 1..MaxDay
  OBVIOUS
<1> QED
  BY <1>1, <1>2

-----------------------------------------------------------------------------
(* Counting the events of a day in a sequence.                             *)

\* The events of a day are finitely many,
LEMMA CountType ==
    ASSUME NEW s \in Seq(Days), NEW d
    PROVE  /\ CountOf(s, d) \in Nat
           /\ IsFiniteSet({i \in DOMAIN s : s[i] = d})
<1>1. IsFiniteSet({i \in DOMAIN s : s[i] = d})
  <2>1. IsFiniteSet(1..Len(s))
    BY FS_Interval
  <2>2. {i \in DOMAIN s : s[i] = d} \subseteq 1..Len(s)
    OBVIOUS
  <2> QED
    BY <2>1, <2>2, FS_Subset
<1> QED
  BY <1>1, FS_CardinalityType DEF CountOf

\* and their number is natural.
LEMMA CountNat == \A s \in Seq(Days) : \A d \in Days : CountOf(s, d) \in Nat
BY CountType

\* There are none in an empty queue.
LEMMA CountEmpty == \A d : CountOf(<<>>, d) = 0
<1> SUFFICES ASSUME NEW d PROVE CountOf(<<>>, d) = 0
  OBVIOUS
<1>1. {i \in DOMAIN <<>> : <<>>[i] = d} = {}
  OBVIOUS
<1> QED
  BY <1>1, FS_EmptySet DEF CountOf

\* An event that is appended is one more of its day,
LEMMA CountAppend ==
    ASSUME NEW s \in Seq(Days), NEW e \in Days, NEW d
    PROVE  CountOf(Append(s, e), d) = CountOf(s, d) + (IF e = d THEN 1 ELSE 0)
<1> DEFINE I == {i \in DOMAIN s : s[i] = d}
           J == {i \in DOMAIN Append(s, e) : Append(s, e)[i] = d}
<1>1. IsFiniteSet(I)
  BY CountType
<1>0. Len(s) + 1 \notin I
  OBVIOUS
<1>2. J = IF e = d THEN I \cup {Len(s) + 1} ELSE I
  OBVIOUS
<1> HIDE DEF I, J
<1>3. Cardinality(J) = Cardinality(I) + (IF e = d THEN 1 ELSE 0)
  <2>1. CASE e = d
    BY <1>0, <1>1, <1>2, <2>1, FS_AddElement
  <2>2. CASE e # d
    BY <1>1, <1>2, <2>2, FS_CardinalityType
  <2> QED
    BY <2>1, <2>2
<1> QED
  BY <1>3 DEF I, J, CountOf

\* and the head that is taken one less.
LEMMA CountTail ==
    ASSUME NEW s \in Seq(Days), s # <<>>, NEW d
    PROVE  CountOf(s, d) = CountOf(Tail(s), d) + (IF Head(s) = d THEN 1 ELSE 0)
<1> DEFINE I == {i \in DOMAIN s : s[i] = d}
           J == {i \in DOMAIN Tail(s) : Tail(s)[i] = d}
           K == I \ {1}
           shift == [j \in J |-> j + 1]
<1>0. Tail(s) \in Seq(Days) /\ Len(Tail(s)) = Len(s) - 1 /\ Len(s) \in Nat \ {0}
  OBVIOUS
<1>1. IsFiniteSet(I) /\ IsFiniteSet(J)
  BY <1>0, CountType
<1>2. shift \in Bijection(J, K)
  <2>1. \A j \in J : j \in 1..(Len(s) - 1) /\ s[j + 1] = d
    BY <1>0
  <2>2. shift \in [J -> K]
    BY <1>0, <2>1
  <2>3. \A a, b \in J : shift[a] = shift[b] => a = b
    BY <1>0
  <2>4. ASSUME NEW k \in K
        PROVE  \E j \in J : shift[j] = k
    <3>1. k \in 2..Len(s) /\ s[k] = d
      BY <1>0
    <3>2. k - 1 \in J /\ (k - 1) + 1 = k
      BY <1>0, <3>1
    <3> QED
      BY <3>2
  <2> HIDE DEF shift, J, K
  <2> QED
    BY <2>2, <2>3, <2>4 DEF Bijection, Injection, Surjection, IsInjective
<1>3. Cardinality(J) = Cardinality(K) /\ IsFiniteSet(K)
  <2> HIDE DEF shift, J, K
  <2> QED
    BY <1>1, <1>2, FS_Bijection DEF ExistsBijection
<1>4. I = IF Head(s) = d THEN K \cup {1} ELSE K
  BY <1>0
<1>5. 1 \notin K
  OBVIOUS
<1> HIDE DEF I, J, K, shift
<1>6. Cardinality(I) = Cardinality(J) + (IF Head(s) = d THEN 1 ELSE 0)
  <2>1. CASE Head(s) = d
    BY <1>3, <1>4, <1>5, <2>1, FS_AddElement
  <2>2. CASE Head(s) # d
    BY <1>1, <1>3, <1>4, <2>2, FS_CardinalityType
  <2> QED
    BY <2>1, <2>2
<1> QED
  BY <1>6 DEF I, J, CountOf

\* All events are on the first day while there is no other.
LEMMA CountFirst ==
    ASSUME NEW s \in Seq(Days), \A i \in DOMAIN s : s[i] <= 1
    PROVE  CountOf(s, 1) = Len(s)
<1>1. \A i \in DOMAIN s : s[i] \in Days /\ s[i] <= 1
  OBVIOUS
<1>2. {i \in DOMAIN s : s[i] = 1} = 1..Len(s)
  BY <1>1, StatisticsAssumption DEF Days
<1>3. Cardinality(1..Len(s)) = Len(s)
  <2>1. Len(s) \in Nat /\ 1 \in Int
    OBVIOUS
  <2>2. Cardinality(1..Len(s)) = IF 1 > Len(s) THEN 0 ELSE Len(s) - 1 + 1
    BY <2>1, FS_Interval
  <2> QED
    BY <2>1, <2>2
<1> QED
  BY <1>2, <1>3 DEF CountOf

-----------------------------------------------------------------------------
(* What the transactions do.                                               *)

Healths == [Days -> [dropped: Nat, incomplete: BOOLEAN]]

\* The losses of a table are a natural number.
LEMMA HealthType ==
    ASSUME NEW h \in Healths
    PROVE  HealthDropped(h) \in Nat
<1>1. [d \in Days |-> h[d].dropped] \in [Days -> Nat]
  BY DEF Healths
<1> QED
  BY <1>1, TotalType DEF HealthDropped

\* All losses are on the first day while there is no other.
LEMMA HealthFirst ==
    ASSUME NEW h \in Healths, \A d \in Days : d > 1 => h[d] = NoLoss
    PROVE  HealthDropped(h) = h[1].dropped
<1>1. [d \in Days |-> h[d].dropped] \in [Days -> Nat] /\ 1 \in Days
  BY StatisticsAssumption DEF Healths, Days
<1>2. \A d \in Days : d > 1 => h[d].dropped = 0
  BY DEF NoLoss
<1> QED
  BY <1>1, <1>2, TotalFirst DEF HealthDropped

\* Today is among the days that are kept.
LEMMA TodayKept == day \in Days => Cutoff \in Int /\ Cutoff <= day
BY StatisticsAssumption DEF Days, Cutoff

\* h and marks are the table of health before and after a transaction that adds
\* to today's row: no mark that is kept disappears, and none is set on a later day.
KeepsMarks(before, after) ==
    /\ after \in Healths
    /\ \A d \in Days : d >= Cutoff /\ before[d].incomplete => after[d].incomplete
    /\ \A d \in Days : d > day /\ before[d] = NoLoss => after[d] = NoLoss

\* A transaction that changes today's row, and its expiry.
LEMMA ExpiryKeeps ==
    ASSUME day \in Days, NEW h \in Healths, NEW g \in Healths,
           \A d \in Days : d # day => g[d] = h[d],
           h[day].incomplete => g[day].incomplete
    PROVE  KeepsMarks(h, ExpireHealth(g)) /\ ExpireHealth(g)[day] = g[day]
<1>3. ExpireHealth(g) \in Healths
  BY DEF ExpireHealth, Healths, NoLoss
<1>4. ExpireHealth(g)[day] = g[day]
  BY TodayKept DEF ExpireHealth, Days
<1>5. ASSUME NEW d \in Days, d >= Cutoff, h[d].incomplete
      PROVE  ExpireHealth(g)[d].incomplete
  <2>1. ExpireHealth(g)[d] = g[d]
    BY <1>5, TodayKept DEF ExpireHealth, Days
  <2> QED
    BY <1>5, <2>1
<1>6. ASSUME NEW d \in Days, d > day, h[d] = NoLoss
      PROVE  ExpireHealth(g)[d] = NoLoss
  <2>1. d # day /\ ExpireHealth(g)[d] \in {g[d], NoLoss}
    BY <1>6 DEF ExpireHealth, Days
  <2> QED
    BY <1>6, <2>1
<1> QED
  BY <1>3, <1>4, <1>5, <1>6 DEF KeepsMarks

\* Expiry alone.
LEMMA ExpiryAlone ==
    ASSUME day \in Days, NEW h \in Healths
    PROVE  KeepsMarks(h, ExpireHealth(h)) /\ ExpireHealth(h)[day] = h[day]
<1>1. ExpireHealth(h) \in Healths
  BY DEF ExpireHealth, Healths, NoLoss
<1>2. \A d \in Days : d >= Cutoff => ExpireHealth(h)[d] = h[d]
  BY TodayKept DEF ExpireHealth, Days
<1>3. \A d \in Days : h[d] = NoLoss => ExpireHealth(h)[d] = NoLoss
  BY DEF ExpireHealth
<1> QED
  BY <1>1, <1>2, <1>3, TodayKept DEF KeepsMarks

\* The transaction of open().
LEMMA Opens ==
    ASSUME TypeOK, OpenTransaction
    PROVE  /\ clean' = FALSE
           /\ usage' \in [Days -> Nat]
           /\ \A d \in Days : usage'[d] <= usage[d]
           /\ \A d \in Days : d >= Cutoff => usage'[d] = usage[d]
           /\ KeepsMarks(health, health')
           /\ ~clean => health'[day].incomplete
<1>1. /\ clean' = FALSE /\ usage' = ExpireUsage(usage)
      /\ usage \in [Days -> Nat] /\ health \in Healths /\ day \in Days
  BY DEF OpenTransaction, TypeOK, TablesOK, CountersOK, StagesOK, FlagsOK, SnapOK, Healths
<1>2. /\ usage' \in [Days -> Nat]
      /\ \A d \in Days : usage'[d] <= usage[d]
      /\ \A d \in Days : d >= Cutoff => usage'[d] = usage[d]
  BY <1>1, TodayKept DEF ExpireUsage, Days
<1>3. CASE clean
  BY <1>1, <1>2, <1>3, ExpiryAlone DEF OpenTransaction
<1>4. CASE ~clean
  <2> DEFINE g == [health EXCEPT ![day].incomplete = TRUE]
  <2>1. health' = ExpireHealth(g)
    BY <1>4 DEF OpenTransaction
  <2>2. g \in Healths /\ g[day].incomplete /\ \A d \in Days : d # day => g[d] = health[d]
    BY <1>1 DEF Healths
  <2> HIDE DEF g
  <2>3. KeepsMarks(health, health') /\ health'[day].incomplete
    BY <1>1, <2>1, <2>2, ExpiryKeeps
  <2> QED
    BY <1>1, <1>2, <2>3
<1> QED
  BY <1>3, <1>4

\* The transaction of writeBatch and finish.
LEMMA Commits ==
    ASSUME TypeOK, LossAccounting, WriterSound, Serving, Commit,
           writer \in {"commit", "finish"}
    PROVE  /\ clean' = (writer = "finish" /\ ~failed)
           /\ usage' \in [Days -> Nat]
           /\ \A d \in Days : usage'[d] <= usage[d] + CountOf(batch, d)
           /\ \A d \in Days : d >= Cutoff => usage'[d] = usage[d] + CountOf(batch, d)
           /\ KeepsMarks(health, health')
           /\ sampled.dropped > persistedDropped \/ failed => health'[day].incomplete
           /\ persistedDropped' = HealthDropped(health') /\ persistedDropped' \in Nat
           /\ dropped' = persistedDropped' + (dropped - sampled.dropped)
           /\ maintenanceDay' = sampled.today
           /\ day = 1 /\ DatesSound => persistedDropped' = sampled.dropped
<1> DEFINE delta == sampled.dropped - persistedDropped
           added == [d \in Days |-> usage[d] + CountOf(batch, d)]
           marked == IF delta > 0 \/ failed
                     THEN [health EXCEPT ![day] = [dropped |-> health[day].dropped + delta,
                                                   incomplete |-> TRUE]]
                     ELSE health
<1>1. /\ usage \in [Days -> Nat] /\ health \in Healths /\ day \in Days
      /\ dropped \in Nat /\ sampled.dropped \in Nat /\ persistedDropped \in Nat
      /\ batch \in Seq(Days)
      /\ persistedDropped = HealthDropped(health) /\ delta \in Nat
  <2>1. /\ usage \in [Days -> Nat] /\ health \in Healths /\ day \in Days
        /\ dropped \in Nat /\ sampled.dropped \in Nat /\ persistedDropped \in Nat
        /\ batch \in Seq(Days)
    BY DEF TypeOK, TablesOK, CountersOK, StagesOK, FlagsOK, SnapOK, Healths
  <2>2. persistedDropped = HealthDropped(health) /\ persistedDropped <= sampled.dropped
    BY DEF LossAccounting, WriterSound
  <2> QED
    BY <2>1, <2>2
<1>2. /\ usage' = ExpireUsage(added) /\ health' = ExpireHealth(marked)
      /\ clean' = CleanMark
      /\ dropped' = dropped + HealthDropped(health') - sampled.dropped
      /\ persistedDropped' = HealthDropped(health')
      /\ maintenanceDay' = sampled.today
  BY DEF Commit
<1>3. added \in [Days -> Nat]
  BY <1>1, CountNat
<1>4. /\ usage' \in [Days -> Nat]
      /\ \A d \in Days : usage'[d] <= added[d]
      /\ \A d \in Days : d >= Cutoff => usage'[d] = added[d]
  <2> HIDE DEF added
  <2>1. usage' = [d \in Days |-> IF d < Cutoff THEN 0 ELSE added[d]] /\ Cutoff \in Int
    BY <1>1, <1>2, TodayKept DEF ExpireUsage
  <2>2. \A d \in Days : added[d] \in Nat /\ d \in Int
    BY <1>3 DEF Days
  <2> QED
    BY <2>1, <2>2
<1>5. /\ marked \in Healths
      /\ \A d \in Days : d # day => marked[d] = health[d]
      /\ delta > 0 \/ failed => marked[day].incomplete
      /\ health[day].incomplete => marked[day].incomplete
      /\ marked[day].dropped = health[day].dropped + delta
  <2>1. CASE delta > 0 \/ failed
    BY <1>1, <2>1 DEF Healths
  <2>2. CASE ~ (delta > 0 \/ failed)
    <3>1. delta = 0 /\ health[day].dropped \in Nat
      BY <1>1, <2>2 DEF Healths
    <3> QED
      BY <1>1, <2>2, <3>1
  <2> QED
    BY <2>1, <2>2
<1>6. KeepsMarks(health, health') /\ health'[day] = marked[day]
  <2> HIDE DEF marked
  <2> QED
    BY <1>1, <1>2, <1>5, ExpiryKeeps
<1>7. HealthDropped(health') \in Nat
  BY <1>6, HealthType DEF KeepsMarks
<1>8. day = 1 /\ DatesSound => HealthDropped(health') = sampled.dropped
  <2> SUFFICES ASSUME day = 1, DatesSound
               PROVE  HealthDropped(health') = sampled.dropped
    OBVIOUS
  <2>1. \A d \in Days : d > 1 => health[d] = NoLoss
    BY DEF DatesSound
  <2>2. health' \in Healths /\ \A d \in Days : d > 1 => health'[d] = NoLoss
    BY <1>6, <2>1 DEF KeepsMarks
  <2>3. HealthDropped(health) = health[1].dropped
    BY <1>1, <2>1, HealthFirst
  <2>4. HealthDropped(health') = health'[1].dropped
    BY <2>2, HealthFirst
  <2>5. /\ health'[1].dropped = health[1].dropped + delta
        /\ health[1].dropped = persistedDropped
    <3> HIDE DEF marked, delta
    <3> QED
      BY <1>1, <1>5, <1>6, <2>3
  <2> QED
    BY <1>1, <2>4, <2>5
<1>9. sampled.dropped > persistedDropped \/ failed => health'[day].incomplete
  BY <1>1, <1>5, <1>6
<1> QED
  <2> HIDE DEF marked
  <2> QED
    BY <1>1, <1>2, <1>4, <1>6, <1>7, <1>8, <1>9 DEF CleanMark, Closing

\* The queue's head goes over to the batch.
LEMMA Takes ==
    ASSUME TypeOK, WriterTakes
    PROVE  /\ batch' \in Seq(Days) /\ queue' \in Seq(Days)
           /\ Len(batch') = Len(batch) + 1 /\ Len(queue') = Len(queue) - 1
           /\ \A d \in Days : CountOf(queue, d) + CountOf(batch, d)
                                = CountOf(queue', d) + CountOf(batch', d)
           /\ \A i \in DOMAIN queue' : i + 1 \in DOMAIN queue /\ queue'[i] = queue[i + 1]
           /\ \A i \in DOMAIN batch' :
                \/ i \in DOMAIN batch /\ batch'[i] = batch[i]
                \/ 1 \in DOMAIN queue /\ batch'[i] = queue[1]
<1>1. /\ queue \in Seq(Days) /\ queue # <<>> /\ batch \in Seq(Days)
      /\ batch' = Append(batch, Head(queue)) /\ queue' = Tail(queue)
  BY DEF TypeOK, TablesOK, CountersOK, StagesOK, FlagsOK, SnapOK, WriterTakes
<1>2. Head(queue) \in Days /\ queue' \in Seq(Days)
  BY <1>1
<1>3. \A d \in Days : CountOf(queue, d) + CountOf(batch, d)
                        = CountOf(queue', d) + CountOf(batch', d)
  <2> SUFFICES ASSUME NEW d \in Days
               PROVE  CountOf(queue, d) + CountOf(batch, d)
                        = CountOf(queue', d) + CountOf(batch', d)
    OBVIOUS
  <2>1. CountOf(queue, d) = CountOf(queue', d) + (IF Head(queue) = d THEN 1 ELSE 0)
    BY <1>1, CountTail
  <2>2. CountOf(batch', d) = CountOf(batch, d) + (IF Head(queue) = d THEN 1 ELSE 0)
    BY <1>1, <1>2, CountAppend
  <2>3. CountOf(queue', d) \in Nat /\ CountOf(batch, d) \in Nat
    BY <1>1, <1>2, CountNat
  <2> QED
    BY <2>1, <2>2, <2>3
<1> QED
  BY <1>1, <1>2, <1>3

\* The events in memory are finitely many.
LEMMA UnwrittenType ==
    ASSUME TypeOK
    PROVE  \A d \in Days : /\ CountOf(queue, d) \in Nat /\ CountOf(batch, d) \in Nat
                           /\ CountOf(Unsettled, d) \in Nat /\ Unwritten(d) \in Nat
<1>1. queue \in Seq(Days) /\ batch \in Seq(Days) /\ <<>> \in Seq(Days)
  BY DEF TypeOK, TablesOK, CountersOK, StagesOK, FlagsOK, SnapOK
<1>2. Unsettled \in Seq(Days)
  BY <1>1 DEF Unsettled
<1>3. \A d \in Days : /\ CountOf(queue, d) \in Nat /\ CountOf(batch, d) \in Nat
                      /\ CountOf(Unsettled, d) \in Nat
  BY <1>1, <1>2, CountNat
<1> QED
  BY <1>3 DEF Unwritten

-----------------------------------------------------------------------------
(* Every step keeps the types: no counter falls below zero.                *)

\* Flags stay flags.
LEMMA FlagsStep == ASSUME StatisticsInv, Next PROVE FlagsOK'
<1> USE DEF StatisticsInv, TypeOK, FlagsOK
<1>1. CASE Open \/ OpenFails
  BY <1>1 DEF Open, OpenFails, OpenTransaction, dbVars
<1>2. CASE Record
  BY <1>2 DEF Record, RecordBegins, RecordSends, RecordOverflows, RecordDrops,
              RecordIgnored, dbVars, lifeVars, memoVars, counterVars
<1>3. CASE WriterTakes \/ WriterTicks \/ WriterSkips \/ WriterBegins \/ FinishBegins
  BY <1>3 DEF WriterTakes, WriterTicks, WriterSkips, WriterBegins, FinishBegins,
              dbVars, lifeVars, memoVars, counterVars, writerUnchanged
<1>4. CASE WriterCommits \/ FinishCommits
  BY <1>4 DEF WriterCommits, FinishCommits, Commit, CleanMark, Closing, lifeVars,
              writerUnchanged
<1>5. CASE FinishFails \/ WriterFails \/ WriterCountsLoss \/ WriterMarksFailure
           \/ WriterDelays \/ WriterSettles
  BY <1>5 DEF FinishFails, WriterFails, WriterCountsLoss, WriterMarksFailure,
              WriterDelays, WriterSettles, dbVars, lifeVars, memoVars, counterVars,
              writerUnchanged
<1>6. CASE Snapshot
  BY <1>6 DEF Snapshot, SnapshotBegins, SnapshotReads, SnapshotFails, SnapshotAddsDropped,
              SnapshotReturns, readerUnchanged, dbVars, lifeVars, memoVars
<1>7. CASE Close \/ Stop \/ Midnight \/ BackoffEnds
  BY <1>7 DEF Close, CloseBegins, CloseReturns, CloseUnavailable, Stop, Midnight,
              BackoffEnds, dbVars, lifeVars, memoVars, counterVars
<1> QED
  BY <1>1, <1>2, <1>3, <1>4, <1>5, <1>6, <1>7 DEF Next, Writer

\* Only the reader and the end of the process touch the snapshot.
LEMMA SnapFrame ==
    ASSUME Next
    PROVE  snap' = snap \/ Snapshot \/ Stop
BY DEF Next, Open, OpenFails, Record, RecordBegins, RecordSends, RecordOverflows,
       RecordDrops, RecordIgnored, Writer, WriterTakes, WriterTicks, WriterSkips,
       WriterBegins, FinishBegins, WriterCommits, FinishCommits, FinishFails, WriterFails,
       WriterCountsLoss, WriterMarksFailure, WriterDelays, WriterSettles, Close,
       CloseBegins, CloseReturns, CloseUnavailable, Midnight, BackoffEnds, readerVars,
       writerUnchanged

\* What the tables say to a reader.
LEMMA Reads ==
    ASSUME TypeOK, SnapshotReads
    PROVE  /\ SnapOK'
           /\ snap'.usage = [d \in Days |-> IF d \in Shown(snap.to) THEN usage[d] ELSE 0]
           /\ \A d \in Days : d >= Cutoff /\ d <= snap.to /\ health[d].incomplete
                => snap'.incomplete
           /\ snap'.cutoff = Cutoff /\ snap'.to = snap.to /\ snap'.ready = snap.ready
           /\ snap'.dropped \in Nat
           /\ day = 1 /\ snap.to = 1 => snap'.dropped = health[1].dropped
<1> DEFINE retained == {d \in Days : d >= Cutoff /\ d <= snap.to}
           h == [d \in Days |-> IF d \in retained THEN health[d] ELSE NoLoss]
           shown == [d \in Days |-> IF d \in Shown(snap.to) THEN usage[d] ELSE 0]
           marked == \E d \in retained : health[d].incomplete
<1>0. SnapOK /\ health \in Healths /\ day \in Days /\ usage \in [Days -> Nat]
  BY DEF TypeOK, TablesOK, CountersOK, StagesOK, Healths
<1>1. h \in Healths
  BY <1>0 DEF Healths, NoLoss
<1>2. HealthDropped(h) \in Nat
  BY <1>1, HealthType
<1>3. Cutoff \in Int
  BY <1>0, TodayKept
<1>4. shown \in [Days -> Nat] /\ marked \in BOOLEAN
  BY <1>0
<1>5. snap' = [snap EXCEPT !.usage = shown, !.dropped = HealthDropped(h),
                           !.incomplete = marked, !.cutoff = Cutoff]
  BY DEF SnapshotReads
<1>6. day = 1 /\ snap.to = 1 => HealthDropped(h) = health[1].dropped
  <2> SUFFICES ASSUME day = 1, snap.to = 1
               PROVE  HealthDropped(h) = health[1].dropped
    OBVIOUS
  <2>1. \A d \in Days : d > 1 => h[d] = NoLoss
    BY DEF Days
  <2>2. 1 \in retained
    BY <1>0, TodayKept DEF Days
  <2>3. h[1] = health[1]
    BY <2>2
  <2> HIDE DEF h
  <2> QED
    BY <1>1, <2>1, <2>3, HealthFirst
<1>7. \A d \in Days : d >= Cutoff /\ d <= snap.to /\ health[d].incomplete => marked
  OBVIOUS
<1> HIDE DEF h, marked, shown
<1>8. SnapOK'
  BY <1>0, <1>2, <1>3, <1>4, <1>5 DEF SnapOK
<1>9. /\ snap'.usage = shown /\ snap'.incomplete = marked /\ snap'.cutoff = Cutoff
      /\ snap'.to = snap.to /\ snap'.ready = snap.ready /\ snap'.dropped = HealthDropped(h)
  BY <1>0, <1>5 DEF SnapOK
<1> QED
  BY <1>2, <1>6, <1>7, <1>8, <1>9, Zenon DEF shown

\* A snapshot's losses are never negative, nor is what it adds to them.
LEMMA SnapStep == ASSUME StatisticsInv, Next PROVE SnapOK'
<1> USE DEF StatisticsInv, TypeOK
<1>1. CASE snap' = snap
  BY <1>1 DEF SnapOK
<1>2. CASE SnapshotBegins
  <2>1. day \in Days \cup {NoDay} /\ 0 \in Int /\ [d \in Days |-> 0] \in [Days -> Nat]
    BY DEF TablesOK, CountersOK, StagesOK
  <2> QED
    BY <1>2, <2>1 DEF SnapshotBegins, SnapOK, NoSnapshot
<1>3. CASE SnapshotReads
  BY <1>3, Reads
<1>4. CASE SnapshotFails
  BY <1>4 DEF SnapshotFails, SnapOK
<1>5. CASE SnapshotAddsDropped
  <2>1. snap.dropped + dropped - persistedDropped \in Nat
    <3>1. dropped >= persistedDropped
      BY <1>5 DEF SnapshotAddsDropped, LossAccounting, LifeSound, ReaderSound,
                  ReaderStages, Reading
    <3>2. dropped \in Nat /\ persistedDropped \in Nat /\ snap.dropped \in Nat
      BY DEF TablesOK, CountersOK, StagesOK, SnapOK
    <3> QED
      BY <3>1, <3>2
  <2> QED
    BY <1>5, <2>1 DEF SnapshotAddsDropped, SnapOK
<1>6. CASE SnapshotReturns
  <2>1. (snap.incomplete \/ snap.dropped > 0 \/ failed) \in BOOLEAN /\ pending \in Nat
    BY DEF TablesOK, CountersOK, StagesOK
  <2> QED
    BY <1>6, <2>1 DEF SnapshotReturns, SnapOK
<1>7. CASE Stop
  <2>1. NoDay \in Days \cup {NoDay} /\ 0 \in Int /\ [d \in Days |-> 0] \in [Days -> Nat]
    OBVIOUS
  <2> QED
    BY <1>7, <2>1 DEF Stop, SnapOK, NoSnapshot, NoDay
<1> QED
  BY <1>1, <1>2, <1>3, <1>4, <1>5, <1>6, <1>7, SnapFrame DEF Snapshot

\* A call of Record that returns counts one more event, of today or earlier.
LEMMA RecordsOne ==
    ASSUME StatisticsInv, recorder.step \in {"sending", "dropping"},
           recorded' = [recorded EXCEPT ![recorder.event] = @ + 1]
    PROVE  /\ recorder.event \in Days /\ recorder.event <= day
           /\ recorded' \in [Days -> Nat]
           /\ \A d \in Days :
                recorded'[d] = recorded[d] + (IF d = recorder.event THEN 1 ELSE 0)
           /\ life \in {"open", "closing"} /\ ~closed
<1>1. recorded \in [Days -> Nat] /\ day \in Days
  BY DEF StatisticsInv, TypeOK, TablesOK
<1>2. recorder # NoRecord
  BY DEF NoRecord
<1>3. recorder.event \in 1..day
  BY <1>2 DEF StatisticsInv, DatesSound
<1>4. recorder.event \in Days /\ recorder.event <= day
  BY <1>1, <1>3, StatisticsAssumption DEF Days
<1> DEFINE e == recorder.event
<1>5. e \in Days /\ recorded' = [recorded EXCEPT ![e] = recorded[e] + 1]
  BY <1>4
<1> HIDE DEF e
<1>6. /\ recorded' \in [Days -> Nat]
      /\ \A d \in Days : recorded'[d] = recorded[d] + (IF d = e THEN 1 ELSE 0)
  BY <1>1, <1>5
<1>7. life \in {"open", "closing"} /\ ~closed
  BY <1>2 DEF StatisticsInv, LifeSound, Serving
<1> QED
  BY <1>4, <1>6, <1>7 DEF e

\* Days are written to the tables, events are recorded, readers look back.
LEMMA TablesStep == ASSUME StatisticsInv, Next PROVE TablesOK'
<1>0. /\ TypeOK /\ TablesOK /\ usage \in [Days -> Nat] /\ health \in Healths
      /\ seen \in [Days -> Nat] /\ recorded \in [Days -> Nat]
      /\ day \in Days /\ lives \in Nat /\ missed \in Nat
  BY DEF StatisticsInv, TypeOK, TablesOK, Healths
<1>1. CASE Open \/ OpenFails
  <2>1. /\ usage' \in [Days -> Nat] /\ health' \in Healths
        /\ UNCHANGED <<day, recorded, missed, seen>> /\ lives' = lives + 1
    BY <1>0, <1>1, Opens DEF Open, OpenFails, KeepsMarks, dbVars, readerVars
  <2> QED
    BY <1>0, <2>1 DEF TablesOK, Healths
<1>2. CASE WriterCommits \/ FinishCommits
  <2>1. Serving /\ Commit /\ writer \in {"commit", "finish"}
    BY <1>2 DEF WriterCommits, FinishCommits, StatisticsInv, LifeSound
  <2>2. usage' \in [Days -> Nat] /\ health' \in Healths
    BY <1>0, <2>1, Commits DEF StatisticsInv, KeepsMarks
  <2>3. UNCHANGED <<day, recorded, missed, seen, lives>>
    BY <1>2 DEF WriterCommits, FinishCommits, writerUnchanged, historyVars, readerVars
  <2> QED
    BY <1>0, <2>2, <2>3 DEF TablesOK, Healths
<1>3. CASE RecordSends \/ RecordDrops
  <2>1. recorded' = [recorded EXCEPT ![recorder.event] = @ + 1]
    BY <1>3 DEF RecordSends, RecordDrops
  <2>2. recorded' \in [Days -> Nat]
    BY <1>3, <2>1, RecordsOne DEF RecordSends, RecordDrops
  <2>3. UNCHANGED <<usage, health, seen, day, lives, missed>>
    BY <1>3 DEF RecordSends, RecordDrops, dbVars, readerVars
  <2> QED
    BY <1>0, <2>2, <2>3 DEF TablesOK
<1>4. CASE SnapshotBegins \/ Stop
  <2>1. /\ seen' \in [Days -> Nat]
        /\ UNCHANGED <<usage, health, recorded, day, lives, missed>>
    BY <1>0, <1>4 DEF SnapshotBegins, Stop, readerUnchanged, dbVars, historyVars, Zero
  <2> QED
    BY <1>0, <2>1 DEF TablesOK
<1>5. CASE Midnight
  <2>1. day + 1 \in Days
    BY <1>0, <1>5, StatisticsAssumption DEF Midnight, Days
  <2>2. day' = day + 1 /\ UNCHANGED <<usage, health, recorded, seen, lives, missed>>
    BY <1>5 DEF Midnight, dbVars, readerVars, historyVars
  <2> QED
    BY <1>0, <2>1, <2>2 DEF TablesOK
<1>6. CASE RecordBegins \/ RecordOverflows \/ RecordIgnored \/ Close \/ BackoffEnds
  <2>1. UNCHANGED <<usage, health, seen, recorded, day, lives>> /\ missed' \in Nat
    BY <1>0, <1>6
       DEF RecordBegins, RecordOverflows, RecordIgnored, Close, CloseBegins, CloseReturns,
           CloseUnavailable, BackoffEnds, dbVars, readerVars, historyVars
  <2> QED
    BY <1>0, <2>1 DEF TablesOK
<1>7. CASE WriterTakes \/ WriterTicks \/ WriterSkips \/ WriterBegins \/ FinishBegins
           \/ FinishFails \/ WriterFails \/ WriterCountsLoss \/ WriterMarksFailure
           \/ WriterDelays \/ WriterSettles
  <2>1. UNCHANGED <<usage, health, seen, recorded, day, lives, missed>>
    BY <1>7
       DEF WriterTakes, WriterTicks, WriterSkips, WriterBegins, FinishBegins, FinishFails,
           WriterFails, WriterCountsLoss, WriterMarksFailure, WriterDelays, WriterSettles,
           dbVars, writerUnchanged, readerVars, historyVars
  <2> QED
    BY <1>0, <2>1 DEF TablesOK
<1>8. CASE SnapshotReads \/ SnapshotFails \/ SnapshotAddsDropped \/ SnapshotReturns
  <2>1. UNCHANGED <<usage, health, seen, recorded, day, lives, missed>>
    BY <1>8
       DEF SnapshotReads, SnapshotFails, SnapshotAddsDropped, SnapshotReturns,
           readerUnchanged, dbVars, historyVars
  <2> QED
    BY <1>0, <2>1 DEF TablesOK
<1> QED
  BY <1>1, <1>2, <1>3, <1>4, <1>5, <1>6, <1>7, <1>8
     DEF Next, Record, Writer, Snapshot

\* Of the counters, those that go down do not go below zero.
LEMMA CountersStep == ASSUME StatisticsInv, Next PROVE CountersOK'
<1>0. TypeOK /\ CountersOK
  BY DEF StatisticsInv, TypeOK
<1>1. CASE Open
  <2>1. health' \in Healths
    BY <1>0, <1>1, Opens DEF Open, KeepsMarks
  <2>2. HealthDropped(health') \in Nat
    BY <2>1, HealthType
  <2> QED
    BY <1>0, <1>1, <2>2 DEF Open, CountersOK
<1>2. CASE OpenFails
  BY <1>0, <1>2 DEF OpenFails, CountersOK, writerVars
<1>3. CASE RecordBegins \/ RecordIgnored \/ RecordDrops
  BY <1>0, <1>3 DEF RecordBegins, RecordIgnored, RecordDrops, CountersOK, writerVars,
                    memoVars, counterVars
<1>4. CASE RecordSends
  <2>1. recorder.event \in Days
    BY <1>0, <1>4 DEF RecordSends, StatisticsInv, DatesSound, TypeOK, StagesOK, NoRecord,
                      NoDay
  <2>2. queue' \in Seq(Days) /\ Len(queue') = Len(queue) + 1 /\ Len(queue) < Capacity
    BY <1>0, <1>4, <2>1 DEF RecordSends, CountersOK
  <2>3. Len(queue') <= Capacity
    BY <1>0, <2>2, StatisticsAssumption DEF CountersOK
  <2> QED
    BY <1>0, <1>4, <2>2, <2>3 DEF RecordSends, CountersOK, writerVars, memoVars, counterVars
<1>5. CASE RecordOverflows \/ WriterSettles
  <2>1. Serving
    BY <1>5 DEF RecordOverflows, WriterSettles, StatisticsInv, LifeSound, NoRecord
  <2>2. pending = Len(queue) + Len(batch) + (IF recorder.step = "sending" THEN 1 ELSE 0)
    BY <2>1 DEF StatisticsInv, PendingExact
  <2>3. pending' \in Nat
    BY <1>0, <1>5, <2>2 DEF RecordOverflows, WriterSettles, CountersOK
  <2>4. batch' \in {batch, <<>>}
    BY <1>5 DEF RecordOverflows, WriterSettles, writerVars
  <2>5. batch' \in Seq(Days) /\ Len(batch') <= BatchMax
    <3>1. <<>> \in Seq(Days) /\ Len(<<>>) = 0 /\ 0 <= BatchMax
      BY StatisticsAssumption
    <3> QED
      BY <1>0, <2>4, <3>1 DEF CountersOK
  <2>6. UNCHANGED <<queue, dropped, persistedDropped>>
    BY <1>5 DEF RecordOverflows, WriterSettles, memoVars
  <2> QED
    BY <1>0, <2>3, <2>5, <2>6 DEF CountersOK
<1>6. CASE WriterTakes
  <2>1. Len(batch') <= BatchMax /\ Len(queue') <= Capacity
    BY <1>0, <1>6, Takes, StatisticsAssumption DEF WriterTakes, CountersOK
  <2>2. batch' \in Seq(Days) /\ queue' \in Seq(Days)
    BY <1>0, <1>6, Takes
  <2>3. UNCHANGED <<dropped, pending, persistedDropped>>
    BY <1>6 DEF WriterTakes, counterVars, memoVars
  <2> QED
    BY <1>0, <2>1, <2>2, <2>3 DEF CountersOK
<1>7. CASE WriterCommits \/ FinishCommits
  <2>1. Serving /\ Commit /\ writer \in {"commit", "finish"}
    BY <1>7 DEF WriterCommits, FinishCommits, StatisticsInv, LifeSound
  <2>2. sampled.dropped \in Nat /\ sampled.dropped <= dropped
    BY <1>0, <2>1 DEF StatisticsInv, WriterSound, TypeOK, StagesOK
  <2>3. persistedDropped' \in Nat /\ dropped' = persistedDropped' + (dropped - sampled.dropped)
    BY <1>0, <2>1, Commits DEF StatisticsInv
  <2>4. UNCHANGED <<queue, batch, pending>>
    BY <1>7 DEF WriterCommits, FinishCommits
  <2> QED
    BY <1>0, <2>2, <2>3, <2>4 DEF CountersOK
<1>8. CASE WriterCountsLoss
  <2>1. dropped' \in Nat
    BY <1>0, <1>8 DEF WriterCountsLoss, CountersOK
  <2> QED
    BY <1>0, <1>8, <2>1 DEF WriterCountsLoss, CountersOK, memoVars
<1>9. CASE WriterTicks \/ WriterSkips \/ WriterBegins \/ FinishBegins \/ FinishFails
           \/ WriterFails \/ WriterMarksFailure \/ WriterDelays
  <2>1. UNCHANGED <<queue, batch, dropped, pending, persistedDropped>>
    BY <1>9 DEF WriterTicks, WriterSkips, WriterBegins, FinishBegins, FinishFails,
                WriterFails, WriterMarksFailure, WriterDelays, counterVars, memoVars
  <2> QED
    BY <1>0, <2>1 DEF CountersOK
<1>10. CASE Snapshot
  <2>1. UNCHANGED <<queue, batch, dropped, pending, persistedDropped>>
    BY <1>10 DEF Snapshot, SnapshotBegins, SnapshotReads, SnapshotFails,
                 SnapshotAddsDropped, SnapshotReturns, readerUnchanged, memoVars, writerVars
  <2> QED
    BY <1>0, <2>1 DEF CountersOK
<1>11. CASE Close \/ Midnight \/ BackoffEnds
  <2>1. UNCHANGED <<queue, batch, dropped, pending, persistedDropped>>
    BY <1>11 DEF Close, CloseBegins, CloseReturns, CloseUnavailable, Midnight, BackoffEnds,
                 counterVars, memoVars, writerVars
  <2> QED
    BY <1>0, <2>1 DEF CountersOK
<1>12. CASE Stop
  <2>1. <<>> \in Seq(Days) /\ Len(<<>>) = 0 /\ 0 <= Capacity /\ 0 <= BatchMax
    BY StatisticsAssumption
  <2> QED
    BY <1>12, <2>1 DEF Stop, CountersOK
<1> QED
  BY <1>1, <1>2, <1>3, <1>4, <1>5, <1>6, <1>7, <1>8, <1>9, <1>10, <1>11, <1>12
     DEF Next, Record, Writer

\* Every stage leads to one there is.
LEMMA StagesStep == ASSUME StatisticsInv, Next PROVE StagesOK'
<1>0. StagesOK /\ TypeOK /\ day \in Days /\ dropped \in Nat
  BY DEF StatisticsInv, TypeOK, TablesOK, CountersOK
<1> USE DEF StagesOK, Lives
<1>1. CASE Open \/ OpenFails
  BY <1>0, <1>1 DEF Open, OpenFails, readerVars, writerVars
<1>2. CASE Record
  <2>1. recorder' \in [step: {"idle", "sending", "dropping"}, event: Days \cup {NoDay}]
    BY <1>0, <1>2 DEF Record, RecordBegins, RecordSends, RecordOverflows, RecordDrops,
                      RecordIgnored, NoRecord
  <2>2. UNCHANGED <<life, sampled, maintenanceDay, writer, dbMu, reader>>
    BY <1>2 DEF Record, RecordBegins, RecordSends, RecordOverflows, RecordDrops,
                RecordIgnored, lifeVars, memoVars, writerVars, readerVars
  <2> QED
    BY <1>0, <2>1, <2>2
<1>3. CASE WriterTakes \/ WriterTicks \/ WriterSkips \/ WriterCountsLoss
           \/ WriterMarksFailure \/ WriterDelays \/ WriterSettles \/ WriterFails
  BY <1>0, <1>3 DEF WriterTakes, WriterTicks, WriterSkips, WriterCountsLoss,
                    WriterMarksFailure, WriterDelays, WriterSettles, WriterFails,
                    writerUnchanged, lifeVars, memoVars, readerVars
<1>4. CASE WriterBegins \/ FinishBegins \/ FinishFails
  BY <1>0, <1>4 DEF WriterBegins, FinishBegins, FinishFails, writerUnchanged, lifeVars,
                    memoVars, readerVars
<1>5. CASE WriterCommits \/ FinishCommits
  <2>1. maintenanceDay' = sampled.today
    BY <1>5 DEF WriterCommits, FinishCommits, Commit
  <2> QED
    BY <1>0, <1>5, <2>1 DEF WriterCommits, FinishCommits, writerUnchanged, lifeVars,
                            readerVars
<1>6. CASE Snapshot
  BY <1>0, <1>6 DEF Snapshot, SnapshotBegins, SnapshotReads, SnapshotFails,
                    SnapshotAddsDropped, SnapshotReturns, readerUnchanged, lifeVars,
                    memoVars, writerVars
<1>7. CASE Close
  BY <1>0, <1>7 DEF Close, CloseBegins, CloseReturns, CloseUnavailable, memoVars,
                    writerVars, readerVars
<1>8. CASE Stop
  BY <1>8 DEF Stop, NoRecord, NoSample
<1>9. CASE Midnight \/ BackoffEnds
  BY <1>0, <1>9 DEF Midnight, BackoffEnds, lifeVars, memoVars, writerVars, readerVars
<1> QED
  BY <1>1, <1>2, <1>3, <1>4, <1>5, <1>6, <1>7, <1>8, <1>9 DEF Next, Writer

\* All types together.
LEMMA TypeStep == ASSUME StatisticsInv, Next PROVE TypeOK'
BY TablesStep, CountersStep, StagesStep, FlagsStep, SnapStep DEF TypeOK

-----------------------------------------------------------------------------
(* The counters agree with what is in memory and on disk.                  *)

\* pending, which Record and the writer change, is what is in memory.
LEMMA PendingStep == ASSUME StatisticsInv, Next PROVE PendingExact'
<1>0. TypeOK /\ PendingExact /\ LifeSound /\ queue \in Seq(Days) /\ batch \in Seq(Days)
      /\ pending \in Nat
  BY DEF StatisticsInv, TypeOK, CountersOK
<1> USE DEF PendingExact, Serving
<1>1. CASE Open
  BY <1>0, <1>1 DEF Open, LifeSound, WriterSound, StatisticsInv, NoRecord
<1>2. CASE OpenFails \/ CloseUnavailable \/ Stop \/ RecordIgnored
  BY <1>0, <1>2 DEF OpenFails, CloseUnavailable, Stop, RecordIgnored, lifeVars
<1>3. CASE RecordBegins
  BY <1>0, <1>3 DEF RecordBegins, lifeVars, writerVars, NoRecord
<1>4. CASE RecordSends
  <2>1. Len(queue') = Len(queue) + 1
    BY <1>0, <1>4 DEF RecordSends
  <2> QED
    BY <1>0, <1>4, <2>1 DEF RecordSends, lifeVars, counterVars, writerVars, NoRecord
<1>5. CASE RecordOverflows \/ RecordDrops
  <2>1. Len(queue) \in Nat /\ Len(batch) \in Nat /\ UNCHANGED <<life, queue, batch>>
    BY <1>0, <1>5 DEF RecordOverflows, RecordDrops, lifeVars, writerVars
  <2>2. CASE RecordOverflows
    <3>1. recorder.step = "sending" /\ recorder'.step = "dropping" /\ pending' = pending - 1
      BY <1>0, <2>2 DEF RecordOverflows, TypeOK, StagesOK
    <3> QED
      BY <1>0, <2>1, <3>1
  <2>3. CASE RecordDrops
    <3>1. recorder.step = "dropping" /\ recorder'.step = "idle" /\ pending' = pending
      BY <2>3 DEF RecordDrops, NoRecord
    <3> QED
      BY <1>0, <2>1, <3>1
  <2> QED
    BY <1>5, <2>2, <2>3
<1>6. CASE WriterTakes
  <2>1. Len(batch') = Len(batch) + 1 /\ Len(queue') = Len(queue) - 1
    BY <1>0, <1>6, Takes
  <2>2. Len(queue) \in Nat /\ Len(batch) \in Nat /\ UNCHANGED <<life, pending, recorder>>
    BY <1>0, <1>6 DEF WriterTakes, writerUnchanged, lifeVars, counterVars
  <2> QED
    BY <1>0, <2>1, <2>2
<1>7. CASE WriterTicks \/ WriterSkips \/ WriterBegins \/ FinishBegins \/ WriterCommits
           \/ FinishCommits \/ FinishFails \/ WriterFails \/ WriterCountsLoss
           \/ WriterMarksFailure \/ WriterDelays
  <2>1. UNCHANGED <<life, queue, batch, pending, recorder>>
    BY <1>7 DEF WriterTicks, WriterSkips, WriterBegins, FinishBegins, WriterCommits,
                FinishCommits, FinishFails, WriterFails, WriterCountsLoss,
                WriterMarksFailure, WriterDelays, writerUnchanged, lifeVars, counterVars
  <2> QED
    BY <1>0, <2>1
<1>8. CASE WriterSettles
  <2>1. Len(batch') = 0
    BY <1>8 DEF WriterSettles
  <2>2. UNCHANGED <<life, queue, recorder>> /\ pending' = pending - Len(batch)
    BY <1>8 DEF WriterSettles, writerUnchanged, lifeVars
  <2>3. Len(queue) \in Nat /\ Len(batch) \in Nat
    BY <1>0
  <2> QED
    BY <1>0, <2>1, <2>2, <2>3
<1>9. CASE Snapshot \/ CloseBegins \/ CloseReturns \/ Midnight \/ BackoffEnds
  <2>1. UNCHANGED <<queue, batch, pending, recorder>> /\ (Serving' => Serving)
    BY <1>9 DEF Snapshot, SnapshotBegins, SnapshotReads, SnapshotFails,
                SnapshotAddsDropped, SnapshotReturns, readerUnchanged, CloseBegins,
                CloseReturns, Midnight, BackoffEnds, lifeVars, counterVars, writerVars
  <2> QED
    BY <1>0, <2>1
<1> QED
  BY <1>1, <1>2, <1>3, <1>4, <1>5, <1>6, <1>7, <1>8, <1>9
     DEF Next, Record, Writer, Close

\* Neither expiry nor a commit lets dropped fall behind what is on disk.
LEMMA LossStep == ASSUME StatisticsInv, Next PROVE LossAccounting'
<1>0. /\ TypeOK /\ LossAccounting /\ LifeSound /\ batch \in Seq(Days)
      /\ dropped \in Nat /\ persistedDropped \in Nat
  BY DEF StatisticsInv, TypeOK, CountersOK
<1> USE DEF LossAccounting
<1>1. CASE Open
  <2>1. health' \in Healths
    BY <1>0, <1>1, Opens DEF Open, KeepsMarks
  <2>2. HealthDropped(health') \in Nat
    BY <2>1, HealthType
  <2>3. dropped' = HealthDropped(health') /\ persistedDropped' = HealthDropped(health')
    BY <1>1 DEF Open
  <2> QED
    BY <2>2, <2>3
<1>2. CASE OpenFails \/ CloseUnavailable \/ Stop \/ RecordIgnored
  BY <1>0, <1>2 DEF OpenFails, CloseUnavailable, Stop, RecordIgnored, lifeVars, Serving
<1>3. CASE WriterCommits \/ FinishCommits
  <2>1. Serving /\ Commit /\ writer \in {"commit", "finish"}
    BY <1>3 DEF WriterCommits, FinishCommits, StatisticsInv, LifeSound
  <2>2. sampled.dropped \in Nat /\ sampled.dropped <= dropped
    BY <1>0, <2>1 DEF StatisticsInv, WriterSound, TypeOK, StagesOK
  <2>3. /\ persistedDropped' \in Nat /\ persistedDropped' = HealthDropped(health')
        /\ dropped' = persistedDropped' + (dropped - sampled.dropped)
    BY <1>0, <2>1, Commits DEF StatisticsInv
  <2> QED
    BY <1>0, <2>2, <2>3
<1>4. CASE RecordDrops \/ WriterCountsLoss
  <2>1. /\ UNCHANGED <<life, health, persistedDropped>> /\ dropped' >= dropped
        /\ dropped' \in Nat
    BY <1>0, <1>4 DEF RecordDrops, WriterCountsLoss, dbVars, lifeVars, memoVars,
                      writerUnchanged
  <2> QED
    BY <1>0, <2>1 DEF Serving
<1>5. CASE RecordBegins \/ RecordSends \/ RecordOverflows \/ WriterTakes \/ WriterTicks
           \/ WriterSkips \/ WriterBegins \/ FinishBegins \/ FinishFails \/ WriterFails
           \/ WriterMarksFailure \/ WriterDelays \/ WriterSettles
  <2>1. UNCHANGED <<life, health, persistedDropped, dropped>>
    BY <1>5 DEF RecordBegins, RecordSends, RecordOverflows, WriterTakes, WriterTicks,
                WriterSkips, WriterBegins, FinishBegins, FinishFails, WriterFails,
                WriterMarksFailure, WriterDelays, WriterSettles, dbVars, lifeVars,
                memoVars, counterVars, writerUnchanged
  <2> QED
    BY <1>0, <2>1 DEF Serving
<1>6. CASE Snapshot \/ CloseBegins \/ CloseReturns \/ Midnight \/ BackoffEnds
  <2>1. UNCHANGED <<health, persistedDropped, dropped>> /\ (Serving' => Serving)
    BY <1>6 DEF Snapshot, SnapshotBegins, SnapshotReads, SnapshotFails,
                SnapshotAddsDropped, SnapshotReturns, readerUnchanged, CloseBegins,
                CloseReturns, Midnight, BackoffEnds, dbVars, lifeVars, memoVars,
                counterVars, Serving
  <2> QED
    BY <1>0, <2>1
<1> QED
  BY <1>1, <1>2, <1>3, <1>4, <1>5, <1>6 DEF Next, Record, Writer, Close

\* The stages of the writer, who holds dbMu, and what was sampled.
LEMMA WriterStep == ASSUME StatisticsInv, Next PROVE WriterSound'
<1>0. WriterSound /\ LifeSound /\ TypeOK /\ LossAccounting /\ ReaderSound
  BY DEF StatisticsInv
<1>a. /\ dropped \in Nat /\ persistedDropped \in Nat /\ sampled.dropped \in Nat
      /\ batch \in Seq(Days) /\ queue \in Seq(Days)
  BY <1>0 DEF TypeOK, CountersOK, StagesOK
<1>1. CASE Open
  <2>1. batch = <<>> /\ dbMu = "free"
    BY <1>0, <1>1 DEF Open, WriterSound, LifeSound, Serving
  <2>2. clean' = FALSE
    BY <1>1 DEF Open, OpenTransaction
  <2> QED
    BY <1>1, <2>1, <2>2 DEF Open, WriterSound
<1>2. CASE OpenFails \/ Stop
  BY <1>0, <1>2 DEF OpenFails, Stop, WriterSound, LifeSound, writerVars, Serving
<1>3. CASE RecordBegins \/ RecordSends \/ RecordOverflows
  <2>1. /\ UNCHANGED <<life, clean, closed, persistedDropped, dropped, failed, writer, batch,
                       sampled, dbMu>>
        /\ UNCHANGED queue \/ ~closed
    BY <1>0, <1>3
       DEF RecordBegins, RecordSends, RecordOverflows, LifeSound, NoRecord,
           lifeVars, memoVars, writerVars, counterVars, dbVars
  <2> QED
    BY <1>0, <2>1 DEF WriterSound, Serving
<1>4. CASE RecordDrops
  <2>1. /\ UNCHANGED <<life, clean, closed, persistedDropped, queue, failed, writer, batch,
                       sampled, dbMu>>
        /\ dropped' = dropped + 1 /\ ~closed
    BY <1>0, <1>4 DEF RecordDrops, LifeSound, NoRecord, lifeVars, memoVars, writerVars, dbVars
  <2>2. sampled.dropped <= dropped => sampled.dropped <= dropped'
    BY <1>a, <2>1
  <2> QED
    BY <1>0, <2>1, <2>2 DEF WriterSound, Serving
<1>5. CASE WriterTakes
  BY <1>0, <1>5 DEF WriterTakes, WriterSound, Serving, LifeSound, dbVars, counterVars,
                    memoVars, writerUnchanged, lifeVars
<1>6. CASE WriterTicks \/ WriterSkips \/ WriterFails \/ WriterMarksFailure \/ WriterDelays
           \/ WriterSettles \/ FinishFails
  BY <1>0, <1>6 DEF WriterTicks, WriterSkips, WriterFails, WriterMarksFailure, WriterDelays,
                    WriterSettles, FinishFails, NothingToWrite, WriterSound, Serving,
                    LifeSound, dbVars, counterVars, memoVars, writerUnchanged, lifeVars
<1>7. CASE WriterBegins \/ FinishBegins
  <2>1. /\ writer' \in {"commit", "finish"} /\ dbMu' = "writer" /\ sampled'.dropped = dropped
        /\ UNCHANGED <<life, clean, closed, persistedDropped, dropped, queue, failed, batch>>
        /\ writer' = "finish" => closed /\ queue = <<>> /\ batch = <<>>
        /\ writer # "done"
    BY <1>0, <1>7 DEF WriterBegins, FinishBegins, WriterSound, dbVars, counterVars,
                      memoVars, writerUnchanged, lifeVars
  <2>2. Serving
    BY <1>0, <2>1 DEF LifeSound
  <2>3. persistedDropped <= dropped
    BY <1>0, <1>a, <2>2 DEF LossAccounting
  <2> QED
    BY <1>0, <1>a, <2>1, <2>2, <2>3 DEF WriterSound, Serving
<1>8. CASE WriterCommits \/ FinishCommits
  <2>1. /\ writer' \in {"settle", "done"} /\ dbMu' = "free"
        /\ UNCHANGED <<life, closed, queue, failed, batch>>
        /\ writer' = "done" => batch = <<>>
    BY <1>0, <1>8 DEF WriterCommits, FinishCommits, WriterSound, writerUnchanged, lifeVars
  <2>2. clean' => writer' = "done"
    BY <1>8 DEF WriterCommits, FinishCommits, Commit, CleanMark, Closing
  <2> QED
    BY <2>1, <2>2 DEF WriterSound
<1>9. CASE WriterCountsLoss
  BY <1>0, <1>9 DEF WriterCountsLoss, WriterSound, Serving, dbVars, memoVars,
                    writerUnchanged, lifeVars
<1>10. CASE Snapshot
  <2>1. /\ UNCHANGED <<life, clean, closed, persistedDropped, dropped, queue, writer, batch,
                       sampled>>
        /\ failed => failed'
        /\ dbMu' = dbMu \/ {dbMu, dbMu'} = {"free", "reader"}
    BY <1>0, <1>10 DEF Snapshot, SnapshotBegins, SnapshotReads, SnapshotFails,
                       SnapshotAddsDropped, SnapshotReturns, readerUnchanged, dbVars,
                       lifeVars, memoVars, writerVars, ReaderSound, ReaderStages, Reading
  <2> QED
    BY <1>0, <2>1 DEF WriterSound, Serving
<1>11. CASE CloseBegins \/ CloseReturns \/ CloseUnavailable
  <2>1. /\ UNCHANGED <<clean, persistedDropped, dropped, queue, writer, batch, sampled, dbMu>>
        /\ closed' = closed \/ closed'
        /\ failed => failed'
        /\ Serving' => Serving
    BY <1>11 DEF CloseBegins, CloseReturns, CloseUnavailable, dbVars, counterVars, memoVars,
                 writerVars, Serving
  <2> QED
    BY <1>0, <2>1 DEF WriterSound
<1>12. CASE Midnight \/ BackoffEnds \/ RecordIgnored
  <2>1. UNCHANGED <<life, clean, closed, persistedDropped, dropped, queue, failed, writer,
                    batch, sampled, dbMu>>
    BY <1>12 DEF Midnight, BackoffEnds, RecordIgnored, dbVars, lifeVars, counterVars,
                 memoVars, writerVars
  <2> QED
    BY <1>0, <2>1 DEF WriterSound, Serving
<1> QED
  BY <1>1, <1>2, <1>3, <1>4, <1>5, <1>6, <1>7, <1>8, <1>9, <1>10, <1>11, <1>12
     DEF Next, Record, Writer, Close

\* What Close waits for, and what it finds.
LEMMA LifeStep == ASSUME StatisticsInv, Next PROVE LifeSound' /\ CloseDrains'
<1>0. /\ WriterSound /\ LifeSound /\ TypeOK /\ LossAccounting /\ CloseDrains
      /\ PendingExact /\ ReaderSound
  BY DEF StatisticsInv
<1>a. /\ dropped \in Nat /\ persistedDropped \in Nat /\ sampled.dropped \in Nat
      /\ pending \in Nat /\ life \in Lives /\ lives \in Nat
  BY <1>0 DEF TypeOK, CountersOK, StagesOK, TablesOK
<1> USE DEF Serving
<1>1. CASE Open
  <2>1. /\ life' = "open" /\ writer' = "select" /\ closed' = FALSE /\ lives' = lives + 1
        /\ recorder' = recorder /\ life = "stopped"
    BY <1>1 DEF Open
  <2> QED
    BY <1>0, <1>a, <2>1 DEF LifeSound, CloseDrains
<1>2. CASE OpenFails
  <2>1. /\ life' = "unavailable" /\ failed' = TRUE /\ lives' = lives + 1 /\ pending' = 0
        /\ UNCHANGED <<recorder, queue, writer, dbMu>> /\ life = "stopped"
    BY <1>2 DEF OpenFails, writerVars
  <2> QED
    BY <1>0, <1>a, <2>1 DEF LifeSound, CloseDrains
<1>3. CASE Stop
  <2>1. lives' = lives /\ recorded' = recorded /\ life # "stopped"
    BY <1>3 DEF Stop, historyVars
  <2> QED
    BY <1>0, <1>3, <2>1 DEF LifeSound, CloseDrains, Stop
<1>4. CASE RecordBegins
  <2>1. /\ UNCHANGED <<life, closed, closeErr, queue, writer, dbMu, failed, clean, batch,
                       dropped, persistedDropped, lives, recorded>>
        /\ ~closed /\ Serving
    BY <1>4 DEF RecordBegins, lifeVars, memoVars, writerVars, dbVars, historyVars
  <2> QED
    BY <1>0, <2>1 DEF LifeSound, CloseDrains
<1>5. CASE RecordSends \/ RecordOverflows \/ RecordDrops
  <2>1. /\ UNCHANGED <<life, closed, lives, writer, dbMu>>
        /\ recorder # NoRecord
    BY <1>5 DEF RecordSends, RecordOverflows, RecordDrops, lifeVars, writerVars, historyVars,
                NoRecord
  <2>2. life = "open" /\ ~closed /\ lives # 0
    BY <1>0, <2>1 DEF LifeSound
  <2> QED
    BY <1>0, <2>1, <2>2 DEF LifeSound, CloseDrains
<1>6. CASE RecordIgnored
  <2>1. /\ UNCHANGED <<life, closed, closeErr, queue, writer, dbMu, failed, clean, batch,
                       pending, recorder, dropped, persistedDropped, lives, recorded>>
    BY <1>6 DEF RecordIgnored, lifeVars, memoVars, writerVars, dbVars, counterVars
  <2> QED
    BY <1>0, <2>1 DEF LifeSound, CloseDrains
<1>7. CASE WriterTakes \/ WriterTicks \/ WriterSkips \/ WriterBegins \/ FinishBegins
           \/ WriterCommits \/ WriterFails \/ WriterCountsLoss \/ WriterMarksFailure
           \/ WriterDelays \/ WriterSettles
  <2>1. /\ UNCHANGED <<life, closed, recorder, lives, recorded>>
        /\ writer # "done" /\ writer' # "done"
    BY <1>7 DEF WriterTakes, WriterTicks, WriterSkips, WriterBegins, FinishBegins,
                WriterCommits, WriterFails, WriterCountsLoss, WriterMarksFailure,
                WriterDelays, WriterSettles, writerUnchanged, lifeVars, historyVars
  <2> QED
    BY <1>0, <2>1 DEF LifeSound, CloseDrains
<1>8. CASE FinishCommits
  <2>1. /\ UNCHANGED <<life, closed, recorder, lives, recorded, queue, failed>>
        /\ writer = "finish" /\ writer' = "done" /\ Commit
    BY <1>8 DEF FinishCommits, writerUnchanged, lifeVars, historyVars
  <2>2. Serving /\ closed /\ queue = <<>> /\ sampled.dropped = dropped
    BY <1>0, <2>1 DEF LifeSound, WriterSound
  <2>3. dropped' = persistedDropped'
    <3>1. /\ dropped' = persistedDropped' + (dropped - sampled.dropped)
          /\ persistedDropped' \in Nat
      BY <1>0, <2>1, <2>2, Commits
    <3>2. dropped - sampled.dropped = 0
      BY <1>a, <2>2
    <3> QED
      BY <3>1, <3>2
  <2>4. clean' = ~failed
    BY <2>1 DEF Commit, CleanMark, Closing
  <2>5. life = "closing"
    BY <1>0, <2>2 DEF LifeSound
  <2> QED
    BY <1>0, <2>1, <2>2, <2>3, <2>4, <2>5 DEF LifeSound, CloseDrains
<1>9. CASE FinishFails
  <2>1. /\ UNCHANGED <<life, closed, recorder, lives, recorded, queue>>
        /\ writer = "finish" /\ writer' = "done" /\ failed'
    BY <1>9 DEF FinishFails, writerUnchanged, lifeVars, historyVars
  <2>2. life = "closing" /\ queue = <<>>
    BY <1>0, <2>1 DEF LifeSound, WriterSound
  <2> QED
    BY <1>0, <2>1, <2>2 DEF LifeSound, CloseDrains
<1>10. CASE Snapshot
  <2>1. /\ UNCHANGED <<life, closed, closeErr, queue, writer, clean, batch, pending, recorder,
                       dropped, persistedDropped, lives, recorded>>
        /\ failed => failed'
        /\ dbMu' = dbMu \/ dbMu' = "free" \/ life # "closed"
        /\ reader # "idle" \/ dbMu' = dbMu
    BY <1>10 DEF Snapshot, SnapshotBegins, SnapshotReads, SnapshotFails,
                 SnapshotAddsDropped, SnapshotReturns, readerUnchanged, dbVars,
                 lifeVars, memoVars, writerVars, historyVars
  <2>2. Serving \/ dbMu' \in {dbMu, "free"}
    BY <1>0, <1>a, <2>1 DEF ReaderSound, ReaderStages, Lives
  <2> QED
    BY <1>0, <2>1, <2>2 DEF LifeSound, CloseDrains
<1>11. CASE CloseBegins
  <2>1. /\ life' = "closing" /\ closed' /\ recorder = NoRecord /\ life = "open"
        /\ UNCHANGED <<recorder, lives, recorded, writer>>
    BY <1>11 DEF CloseBegins, writerVars, historyVars
  <2> QED
    BY <1>0, <2>1 DEF LifeSound, CloseDrains
<1>12. CASE CloseReturns
  <2>1. /\ life' = "closed" /\ life = "closing" /\ writer = "done" /\ dbMu = "free"
        /\ closeErr' = failed' /\ (failed => failed')
        /\ UNCHANGED <<closed, recorder, lives, recorded, writer, queue, batch, pending, dbMu,
                       clean, dropped, persistedDropped>>
    BY <1>12 DEF CloseReturns, dbVars, memoVars, writerVars, historyVars
  <2>2. queue = <<>> /\ batch = <<>> /\ closed /\ recorder = NoRecord
        /\ (failed \/ (clean /\ dropped = persistedDropped))
    BY <1>0, <2>1 DEF LifeSound, WriterSound
  <2>3. pending = 0
    BY <1>0, <2>1, <2>2 DEF PendingExact, NoRecord
  <2> QED
    BY <1>0, <2>1, <2>2, <2>3 DEF LifeSound, CloseDrains
<1>13. CASE CloseUnavailable
  <2>1. /\ life' = "closed" /\ life = "unavailable" /\ closed' /\ closeErr' = failed
        /\ UNCHANGED <<recorder, lives, recorded, writer, queue, pending, dbMu>>
    BY <1>13 DEF CloseUnavailable, counterVars, writerVars, historyVars
  <2> QED
    BY <1>0, <2>1 DEF LifeSound, CloseDrains
<1>14. CASE Midnight \/ BackoffEnds
  <2>1. UNCHANGED <<life, closed, closeErr, queue, writer, dbMu, failed, clean, batch,
                    pending, recorder, dropped, persistedDropped, lives, recorded>>
    BY <1>14 DEF Midnight, BackoffEnds, dbVars, lifeVars, counterVars, memoVars, writerVars,
                 historyVars
  <2> QED
    BY <1>0, <2>1 DEF LifeSound, CloseDrains
<1> QED
  BY <1>1, <1>2, <1>3, <1>4, <1>5, <1>6, <1>7, <1>8, <1>9, <1>10, <1>11, <1>12, <1>13, <1>14
     DEF Next, Record, Writer, Close

\* Events are dated when they are recorded, and a loss when it is marked.
LEMMA DatesStep == ASSUME StatisticsInv, Next PROVE DatesSound'
<1>0. DatesSound /\ TypeOK /\ WriterSound /\ LossAccounting /\ LifeSound /\ ReaderSound
  BY DEF StatisticsInv
<1>a. /\ day \in Nat /\ day \in Days /\ queue \in Seq(Days) /\ batch \in Seq(Days)
      /\ snap.usage \in [Days -> Nat]
  BY <1>0, StatisticsAssumption DEF TypeOK, TablesOK, CountersOK, SnapOK, Days
<1> DEFINE Dated(s) == \A i \in DOMAIN s : s[i] <= day
           Called == recorder # NoRecord => recorder.event \in 1..day
           Future == \A d \in Days : d > day =>
                       recorded[d] = 0 /\ snap.usage[d] = 0 /\ health[d] = NoLoss
<1>b. Dated(queue) /\ Dated(batch) /\ Called /\ Future
  BY <1>0 DEF DatesSound
<1>c. DatesSound' <=> (Dated(queue) /\ Dated(batch) /\ Called /\ Future)'
  BY DEF DatesSound
<1>1. CASE \/ Open \/ OpenFails \/ WriterCommits \/ FinishCommits
  <2>1. UNCHANGED <<queue, batch, recorder, recorded, snap, day>>
    BY <1>1 DEF Open, OpenFails, WriterCommits, FinishCommits, writerUnchanged, readerVars,
                writerVars, historyVars
  <2>2. \A d \in Days : d > day /\ health[d] = NoLoss => health'[d] = NoLoss
    <3>1. CASE Open \/ OpenFails
      <4>1. OpenTransaction \/ health' = health
        BY <3>1 DEF Open, OpenFails, dbVars
      <4> QED
        BY <1>0, <4>1, Opens DEF KeepsMarks
    <3>2. CASE WriterCommits \/ FinishCommits
      <4>1. Serving /\ Commit /\ writer \in {"commit", "finish"}
        BY <1>0, <3>2 DEF WriterCommits, FinishCommits, LifeSound
      <4> QED
        BY <1>0, <4>1, Commits DEF KeepsMarks
    <3> QED
      BY <1>1, <3>1, <3>2
  <2> QED
    BY <1>b, <1>c, <2>1, <2>2
<1>2. CASE RecordBegins
  <2>1. UNCHANGED <<queue, batch, recorded, snap, day, health>> /\ recorder'.event = day
    BY <1>2 DEF RecordBegins, dbVars, writerVars, readerVars, historyVars
  <2> QED
    BY <1>a, <1>b, <1>c, <2>1 DEF Days
<1>3. CASE RecordSends \/ RecordDrops
  <2>1. /\ recorder' = NoRecord /\ UNCHANGED <<batch, snap, day, health>>
        /\ recorder.step \in {"sending", "dropping"}
        /\ recorded' = [recorded EXCEPT ![recorder.event] = @ + 1]
        /\ queue' = queue \/ queue' = Append(queue, recorder.event)
    BY <1>3 DEF RecordSends, RecordDrops, dbVars, writerVars, readerVars
  <2>2. /\ recorder.event \in Days /\ recorder.event <= day
        /\ \A d \in Days : recorded'[d] = recorded[d] + (IF d = recorder.event THEN 1 ELSE 0)
    BY <2>1, RecordsOne
  <2>3. Dated(queue)'
    <3>1. CASE queue' = queue
      BY <1>b, <2>1, <3>1
    <3>2. CASE queue' = Append(queue, recorder.event)
      <4>1. ASSUME NEW i \in DOMAIN queue'
            PROVE  queue'[i] \in {queue[j] : j \in DOMAIN queue} \cup {recorder.event}
        BY <1>a, <2>2, <3>2, <4>1
      <4> QED
        BY <1>b, <2>1, <2>2, <4>1
    <3> QED
      BY <2>1, <3>1, <3>2
  <2>4. Future'
    <3> SUFFICES ASSUME NEW d \in Days, d > day
                 PROVE  recorded'[d] = 0 /\ snap.usage[d] = 0 /\ health[d] = NoLoss
      BY <2>1
    <3>1. d # recorder.event
      BY <1>a, <2>2 DEF Days
    <3> QED
      BY <1>b, <2>2, <3>1
  <2> QED
    BY <1>b, <1>c, <2>1, <2>3, <2>4
<1>4. CASE RecordOverflows
  <2>1. UNCHANGED <<queue, batch, recorded, snap, day, health>>
    BY <1>4 DEF RecordOverflows, dbVars, writerVars, readerVars, historyVars
  <2>2. recorder # NoRecord /\ recorder'.event = recorder.event
    BY <1>0, <1>4 DEF RecordOverflows, NoRecord, TypeOK, StagesOK
  <2> QED
    BY <1>b, <1>c, <2>1, <2>2
<1>5. CASE WriterTakes
  <2>1. UNCHANGED <<recorder, recorded, snap, day, health>>
    BY <1>5 DEF WriterTakes, writerUnchanged, dbVars, readerVars, historyVars
  <2>2. Dated(queue)' /\ Dated(batch)'
    BY <1>0, <1>5, <1>b, <2>1, Takes
  <2> QED
    BY <1>b, <1>c, <2>1, <2>2
<1>6. CASE WriterTicks \/ WriterSkips \/ WriterBegins \/ FinishBegins \/ FinishFails
           \/ WriterFails \/ WriterCountsLoss \/ WriterMarksFailure \/ WriterDelays
           \/ Close \/ BackoffEnds \/ RecordIgnored
  <2>1. UNCHANGED <<queue, batch, recorder, recorded, snap, day, health>>
    BY <1>6 DEF WriterTicks, WriterSkips, WriterBegins, FinishBegins, FinishFails,
                WriterFails, WriterCountsLoss, WriterMarksFailure, WriterDelays, Close,
                CloseBegins, CloseReturns, CloseUnavailable, BackoffEnds, RecordIgnored,
                writerUnchanged, writerVars, dbVars, readerVars, historyVars
  <2> QED
    BY <1>b, <1>c, <2>1
<1>7. CASE WriterSettles
  <2>1. UNCHANGED <<queue, recorder, recorded, snap, day, health>> /\ batch' = <<>>
    BY <1>7 DEF WriterSettles, writerUnchanged, dbVars, readerVars, historyVars
  <2> QED
    BY <1>b, <1>c, <2>1
<1>8. CASE SnapshotReads
  <2>1. UNCHANGED <<queue, batch, recorder, recorded, day, health>>
    BY <1>8 DEF SnapshotReads, readerUnchanged, writerVars, dbVars, historyVars
  <2>2. snap.to \in 1..day
    BY <1>0, <1>8 DEF SnapshotReads, ReaderSound, ReaderStages
  <2>3. \A d \in Days : d > day => snap'.usage[d] = 0
    <3>1. snap'.usage = [d \in Days |-> IF d \in Shown(snap.to) THEN usage[d] ELSE 0]
      BY <1>0, <1>8, Reads
    <3>2. \A d \in Days : d > day => d \notin Shown(snap.to)
      BY <1>a, <2>2 DEF Shown, Days
    <3> QED
      BY <3>1, <3>2
  <2> QED
    BY <1>b, <1>c, <2>1, <2>3
<1>9. CASE SnapshotBegins
  <2>1. UNCHANGED <<queue, batch, recorder, recorded, day, health>>
    BY <1>9 DEF SnapshotBegins, readerUnchanged, writerVars, dbVars, historyVars
  <2>2. \A d \in Days : snap'.usage[d] = 0
    BY <1>9 DEF SnapshotBegins, NoSnapshot
  <2> QED
    BY <1>b, <1>c, <2>1, <2>2
<1>10. CASE SnapshotFails \/ SnapshotAddsDropped \/ SnapshotReturns
  <2>1. UNCHANGED <<queue, batch, recorder, recorded, day, health>>
    BY <1>10 DEF SnapshotFails, SnapshotAddsDropped, SnapshotReturns, readerUnchanged,
                 writerVars, dbVars, historyVars
  <2>2. snap'.usage = snap.usage
    BY <1>0, <1>10 DEF SnapshotFails, SnapshotAddsDropped, SnapshotReturns, TypeOK, SnapOK
  <2> QED
    BY <1>b, <1>c, <2>1, <2>2
<1>11. CASE Stop
  <2>1. UNCHANGED <<recorded, day, health>> /\ queue' = <<>> /\ batch' = <<>>
        /\ recorder' = NoRecord
    BY <1>11 DEF Stop, dbVars, historyVars
  <2>2. \A d \in Days : snap'.usage[d] = 0
    BY <1>11 DEF Stop, NoSnapshot
  <2> QED
    BY <1>b, <1>c, <2>1, <2>2
<1>12. CASE Midnight
  <2>1. UNCHANGED <<queue, batch, recorder, recorded, snap, health>> /\ day' = day + 1
    BY <1>12 DEF Midnight, dbVars, writerVars, readerVars, historyVars
  <2>2. Dated(queue)' /\ Dated(batch)'
    <3>1. /\ \A i \in DOMAIN queue : queue[i] \in Days
          /\ \A i \in DOMAIN batch : batch[i] \in Days
      BY <1>a
    <3> QED
      BY <1>a, <1>b, <2>1, <3>1 DEF Days
  <2>3. Called' /\ Future'
    BY <1>a, <1>b, <2>1 DEF Days
  <2> QED
    BY <1>c, <2>2, <2>3
<1> HIDE DEF Dated, Called, Future
<1> QED
  BY <1>1, <1>2, <1>3, <1>4, <1>5, <1>6, <1>7, <1>8, <1>9, <1>10, <1>11, <1>12
     DEF Next, Record, Writer, Snapshot


\* A mark on a day that is kept stays.
LEMMA MarksStay ==
    ASSUME day \in Days, KeepsMarks(health, health')
    PROVE  \A d \in Days : d >= Cutoff /\ Marked(d) => Marked(d)'
<1> SUFFICES ASSUME NEW d \in Days, d >= Cutoff, Marked(d)
             PROVE  Marked(d)'
  OBVIOUS
<1>1. PICK e \in Days : e >= d /\ health[e].incomplete
  BY DEF Marked
<1>2. e >= Cutoff
  BY <1>1, TodayKept DEF Days
<1>3. health'[e].incomplete
  BY <1>1, <1>2 DEF KeepsMarks
<1> QED
  BY <1>1, <1>3 DEF Marked

\* Of a day that has not come there is no event.
LEMMA NoneYet ==
    ASSUME TypeOK, DatesSound, EventsSound
    PROVE  \A d \in Days : d > day => recorded[d] = 0 /\ usage[d] = 0 /\ Unwritten(d) = 0
<1> SUFFICES ASSUME NEW d \in Days, d > day
             PROVE  recorded[d] = 0 /\ usage[d] = 0 /\ Unwritten(d) = 0
  OBVIOUS
<1>1. recorded[d] = 0
  BY DEF DatesSound
<1>2. usage[d] + Unwritten(d) <= recorded[d]
  BY DEF EventsSound
<1>3. usage[d] \in Nat /\ Unwritten(d) \in Nat
  BY UnwrittenType DEF TypeOK, TablesOK
<1> QED
  BY <1>1, <1>2, <1>3

\* What matters of a step that moves no event and forgets no loss.
LEMMA EventsFrame ==
    ASSUME StatisticsInv, UNCHANGED <<usage, health, recorded, queue, Unsettled>>,
           day' = day \/ day' = day + 1, clean' => clean, Serving' => Serving,
           Serving' /\ Unmarked => Unmarked'
    PROVE  EventsSound'
<1>1. EventsSound /\ day \in Int
  BY StatisticsAssumption DEF StatisticsInv, TypeOK, TablesOK, Days
<1>2. \A d \in Days : Unwritten(d)' = Unwritten(d) /\ Marked(d)' = Marked(d)
  BY DEF Unwritten, Marked
<1>3. Cutoff' \in Int /\ Cutoff \in Int /\ Cutoff' >= Cutoff
  BY <1>1, StatisticsAssumption DEF Cutoff
<1>4. \A d \in Days : d >= Cutoff' => d >= Cutoff
  BY <1>3 DEF Days
<1> QED
  BY <1>1, <1>2, <1>4 DEF EventsSound

\* No event is lost without a mark.
LEMMA EventsStep == ASSUME StatisticsInv, Next PROVE EventsSound'
<1>0. /\ EventsSound /\ DatesSound /\ TypeOK /\ WriterSound /\ LossAccounting /\ LifeSound
      /\ day \in Days
  BY DEF StatisticsInv, TypeOK, TablesOK
<1>a. \A d \in Days : /\ usage[d] \in Nat /\ recorded[d] \in Nat
                      /\ CountOf(queue, d) \in Nat /\ CountOf(batch, d) \in Nat
                      /\ CountOf(Unsettled, d) \in Nat /\ Unwritten(d) \in Nat
  BY <1>0, UnwrittenType DEF TypeOK, TablesOK
<1>b. dropped \in Nat /\ persistedDropped \in Nat /\ sampled.dropped \in Nat
  BY <1>0 DEF TypeOK, CountersOK, StagesOK
<1>c. clean /\ Serving => writer = "done"
  BY <1>0 DEF WriterSound
<1>d. health'[day].incomplete => \A d \in Days : d <= day => Marked(d)'
  BY <1>0, StatisticsAssumption DEF Marked, Days
<1>e. \A d \in Days : d <= day \/ (recorded[d] = 0 /\ usage[d] = 0 /\ Unwritten(d) = 0)
  BY <1>0, NoneYet DEF Days
<1>1. CASE Open \/ OpenFails
  <2>1. /\ queue = <<>> /\ batch = <<>> /\ UNCHANGED <<queue, batch, recorded, day>>
        /\ writer' \in {"select", "done"}
    BY <1>0, <1>1 DEF Open, OpenFails, WriterSound, LifeSound, Serving, writerVars
  <2>2. \A d \in Days : Unwritten(d) = 0 /\ Unwritten(d)' = 0
    BY <2>1, CountEmpty DEF Unwritten, Unsettled
  <2>3. CASE OpenTransaction
    <3>1. /\ ~clean' /\ KeepsMarks(health, health') /\ (~clean => health'[day].incomplete)
      BY <1>0, <2>3, Opens
    <3>2. /\ \A d \in Days : usage'[d] \in Nat /\ usage'[d] <= usage[d]
          /\ \A d \in Days : d >= Cutoff => usage'[d] = usage[d]
      BY <1>0, <2>3, Opens
    <3>3. \A d \in Days : usage'[d] + Unwritten(d)' <= recorded'[d]
      BY <1>0, <1>a, <2>1, <2>2, <3>2 DEF EventsSound
    <3>4. ASSUME NEW d \in Days, d >= Cutoff
          PROVE  usage'[d] + Unwritten(d)' = recorded[d] \/ Marked(d)'
      <4>1. CASE clean
        <5>1. usage[d] = recorded[d] \/ Marked(d)
          BY <1>0, <3>4, <4>1 DEF EventsSound
        <5> QED
          BY <1>0, <1>a, <2>2, <3>1, <3>2, <3>4, <5>1, MarksStay
      <4>2. CASE ~clean
        BY <1>a, <1>d, <1>e, <2>2, <3>1, <3>2, <3>4, <4>2
      <4> QED
        BY <4>1, <4>2
    <3>5. Cutoff' = Cutoff
      BY <2>1 DEF Cutoff
    <3> QED
      BY <2>1, <3>1, <3>3, <3>4, <3>5 DEF EventsSound
  <2>4. CASE UNCHANGED dbVars /\ ~Serving'
    <3>1. UNCHANGED <<usage, health, recorded, queue, Unsettled, day, clean>>
      BY <2>1, <2>4 DEF dbVars, Unsettled
    <3> QED
      BY <2>4, <3>1, EventsFrame
  <2> QED
    BY <1>1, <2>3, <2>4 DEF Open, OpenFails, Serving
<1>2. CASE RecordSends \/ RecordDrops
  <2>1. /\ recorder.step \in {"sending", "dropping"}
        /\ recorded' = [recorded EXCEPT ![recorder.event] = @ + 1]
        /\ UNCHANGED <<usage, health, clean, batch, writer, day, persistedDropped, failed,
                       life>>
    BY <1>2 DEF RecordSends, RecordDrops, dbVars, writerVars, counterVars, memoVars, lifeVars
  <2>2. /\ recorder.event \in Days /\ ~clean /\ Serving
        /\ \A d \in Days : recorded'[d] = recorded[d] + (IF d = recorder.event THEN 1 ELSE 0)
    BY <1>0, <1>c, <2>1, RecordsOne DEF LifeSound, Serving
  <2>3. Cutoff' = Cutoff /\ Unsettled' = Unsettled /\ \A d \in Days : Marked(d)' = Marked(d)
    BY <2>1 DEF Cutoff, Unsettled, Marked
  <2>4. CASE RecordSends
    <3>1. queue' = Append(queue, recorder.event) /\ dropped' = dropped
      BY <2>4 DEF RecordSends, counterVars
    <3>2. \A d \in Days : Unwritten(d)' = Unwritten(d) + (IF d = recorder.event THEN 1 ELSE 0)
      <4> TAKE d \in Days
      <4>1. queue \in Seq(Days)
        BY <1>0 DEF TypeOK, CountersOK
      <4>2. CountOf(queue', d) = CountOf(queue, d) + (IF recorder.event = d THEN 1 ELSE 0)
        BY <2>2, <3>1, <4>1, CountAppend
      <4> QED
        BY <1>a, <2>3, <4>2 DEF Unwritten
    <3>3. Unmarked' = Unmarked
      BY <2>1, <3>1 DEF Unmarked
    <3>4. \A d \in Days : usage[d] + Unwritten(d) <= recorded[d]
                            => usage[d] + Unwritten(d)' <= recorded'[d]
      BY <1>a, <2>2, <3>2
    <3>5. \A d \in Days : usage[d] + Unwritten(d) = recorded[d]
                            => usage[d] + Unwritten(d)' = recorded'[d]
      BY <1>a, <2>2, <3>2
    <3> QED
      BY <1>0, <2>1, <2>2, <2>3, <3>3, <3>4, <3>5 DEF EventsSound
  <2>5. CASE RecordDrops
    <3>1. queue' = queue /\ dropped' = dropped + 1
      BY <2>5 DEF RecordDrops
    <3>2. Unmarked'
      <4>1. dropped >= persistedDropped
        BY <1>0, <2>2 DEF LossAccounting
      <4> QED
        BY <1>b, <2>1, <3>1, <4>1 DEF Unmarked
    <3>3. \A d \in Days : Unwritten(d)' = Unwritten(d)
      BY <2>3, <3>1 DEF Unwritten
    <3>4. \A d \in Days : usage[d] + Unwritten(d) <= recorded[d]
                            => usage[d] + Unwritten(d)' <= recorded'[d]
      BY <1>a, <2>2, <3>3
    <3> QED
      BY <1>0, <2>1, <2>2, <3>2, <3>4 DEF EventsSound
  <2> QED
    BY <1>2, <2>4, <2>5
<1>3. CASE WriterTakes
  <2>1. /\ writer \in {"select", "drain"} /\ writer' = "drain"
        /\ UNCHANGED <<usage, health, clean, recorded, day, dropped, persistedDropped, failed,
                       life>>
    BY <1>3 DEF WriterTakes, dbVars, counterVars, memoVars, writerUnchanged, lifeVars,
                historyVars
  <2>2. \A d \in Days : Unwritten(d)' = Unwritten(d)
    BY <1>0, <1>3, <2>1, Takes DEF Unwritten, Unsettled
  <2>3. /\ Cutoff' = Cutoff /\ Unmarked' = Unmarked /\ Serving' = Serving
        /\ \A d \in Days : Marked(d)' = Marked(d)
    BY <2>1 DEF Cutoff, Unmarked, Serving, Marked
  <2> QED
    BY <1>0, <2>1, <2>2, <2>3 DEF EventsSound
<1>4. CASE WriterCommits \/ FinishCommits
  <2>1. /\ Serving /\ Commit /\ writer \in {"commit", "finish"}
        /\ writer' \in {"settle", "done"}
        /\ writer' = "settle" <=> writer = "commit"
        /\ UNCHANGED <<queue, batch, recorded, day, failed, life>>
    BY <1>0, <1>4 DEF WriterCommits, FinishCommits, LifeSound, writerUnchanged, lifeVars,
                      historyVars
  <2>2. /\ \A d \in Days : usage'[d] \in Nat /\ usage'[d] <= usage[d] + CountOf(batch, d)
        /\ \A d \in Days : d >= Cutoff => usage'[d] = usage[d] + CountOf(batch, d)
    BY <1>0, <2>1, Commits
  <2>3. /\ KeepsMarks(health, health')
        /\ sampled.dropped > persistedDropped \/ failed => health'[day].incomplete
    BY <1>0, <2>1, Commits
  <2>4. /\ persistedDropped' \in Nat
        /\ dropped' = persistedDropped' + (dropped - sampled.dropped)
    BY <1>0, <2>1, Commits
  <2>5. \A d \in Days : /\ Unwritten(d) = CountOf(queue, d) + CountOf(batch, d)
                        /\ Unwritten(d)' = CountOf(queue, d)
                        /\ writer = "finish" => Unwritten(d)' = 0
    <3> TAKE d \in Days
    <3>1. Unsettled = batch /\ Unsettled' = <<>>
      BY <1>0, <2>1 DEF Unsettled, WriterSound
    <3>2. writer = "finish" => queue = <<>>
      BY <1>0 DEF WriterSound
    <3> QED
      BY <1>a, <2>1, <3>1, <3>2, CountEmpty DEF Unwritten
  <2>6. \A d \in Days : usage'[d] + Unwritten(d)' <= recorded'[d]
    BY <1>0, <1>a, <2>1, <2>2, <2>5 DEF EventsSound
  <2>7. ASSUME NEW d \in Days, d >= Cutoff, ~Marked(d)'
        PROVE  usage'[d] + Unwritten(d)' = recorded[d]
               \/ (dropped > sampled.dropped /\ dropped' > persistedDropped')
    <3>1. usage'[d] + Unwritten(d)' = usage[d] + Unwritten(d)
      BY <1>a, <2>2, <2>5, <2>7
    <3>2. CASE health'[day].incomplete
      BY <1>d, <1>e, <2>7, <3>1, <3>2
    <3>3. CASE ~health'[day].incomplete
      <4>1. ~ (sampled.dropped > persistedDropped) /\ ~failed
        BY <2>3, <3>3
      <4>2. ~Marked(d)
        BY <1>0, <2>3, <2>7, MarksStay
      <4>3. usage[d] + Unwritten(d) = recorded[d] \/ dropped > persistedDropped
        BY <1>0, <2>1, <2>7, <4>1, <4>2 DEF EventsSound, Unmarked
      <4> QED
        BY <1>b, <2>4, <3>1, <4>1, <4>3
    <3> QED
      BY <3>2, <3>3
  <2>8. clean' => writer = "finish"
    BY <2>1 DEF Commit, CleanMark, Closing
  <2>9. writer = "finish" => ~ (dropped > sampled.dropped)
    BY <1>0, <1>b DEF WriterSound
  <2>10. Cutoff' = Cutoff
    BY <2>1 DEF Cutoff
  <2>11. clean' => \A d \in Days : d >= Cutoff => usage'[d] = recorded[d] \/ Marked(d)'
    BY <2>2, <2>5, <2>7, <2>8, <2>9
  <2>12. \A d \in Days : d >= Cutoff =>
           usage'[d] + Unwritten(d)' = recorded[d] \/ Marked(d)' \/ Unmarked'
    BY <2>7 DEF Unmarked
  <2> QED
    BY <2>1, <2>6, <2>10, <2>11, <2>12 DEF EventsSound
<1>5. CASE WriterDelays
  <2>1. /\ writer = "delay" /\ writer' = "settle"
        /\ UNCHANGED <<usage, health, clean, recorded, queue, batch, day, failed, life>>
    BY <1>5 DEF WriterDelays, dbVars, counterVars, writerUnchanged, lifeVars, historyVars
  <2>2. failed /\ Serving /\ ~clean
    BY <1>0, <1>c, <2>1 DEF WriterSound, LifeSound
  <2>3. \A d \in Days : Unwritten(d)' = CountOf(queue, d)
                        /\ Unwritten(d) = CountOf(queue, d) + CountOf(batch, d)
    BY <1>a, <2>1, CountEmpty DEF Unwritten, Unsettled
  <2>4. \A d \in Days : usage[d] + Unwritten(d)' <= recorded[d]
    BY <1>0, <1>a, <2>3 DEF EventsSound
  <2> QED
    BY <2>1, <2>2, <2>4 DEF EventsSound, Unmarked
<1>6. CASE FinishFails \/ WriterMarksFailure
  <2>1. /\ failed' /\ UNCHANGED <<usage, health, clean, recorded, queue, batch, day, life>>
        /\ writer # "settle" /\ writer' # "settle"
    BY <1>6 DEF FinishFails, WriterMarksFailure, dbVars, writerUnchanged, lifeVars,
                historyVars
  <2> QED
    BY <2>1, EventsFrame DEF Unsettled, Unmarked, Serving
<1>7. CASE WriterCountsLoss
  <2>1. /\ UNCHANGED <<usage, health, clean, recorded, queue, batch, day, life, failed,
                       persistedDropped>>
        /\ dropped' = dropped + Len(batch)
        /\ writer # "settle" /\ writer' # "settle"
    BY <1>7 DEF WriterCountsLoss, dbVars, memoVars, writerUnchanged, lifeVars, historyVars
  <2>2. Len(batch) \in Nat
    BY <1>0 DEF TypeOK, CountersOK
  <2>3. Unmarked => Unmarked'
    BY <1>b, <2>1, <2>2 DEF Unmarked
  <2> QED
    BY <2>1, <2>3, EventsFrame DEF Unsettled, Serving
<1>8. CASE WriterTicks \/ WriterSkips \/ WriterBegins \/ FinishBegins \/ WriterFails
           \/ WriterSettles
  <2>1. /\ UNCHANGED <<usage, health, clean, recorded, queue, day, life, failed,
                       persistedDropped, dropped>>
        /\ Unsettled' = Unsettled
    BY <1>8 DEF WriterTicks, WriterSkips, WriterBegins, FinishBegins, WriterFails,
                WriterSettles, dbVars, memoVars, counterVars, writerUnchanged, lifeVars,
                historyVars, Unsettled
  <2> QED
    BY <2>1, EventsFrame DEF Unmarked, Serving
<1>9. CASE RecordBegins \/ RecordOverflows \/ RecordIgnored \/ Midnight \/ BackoffEnds
  <2>1. /\ UNCHANGED <<usage, health, clean, recorded, queue, life, failed,
                       persistedDropped, dropped, Unsettled>>
        /\ day' = day \/ day' = day + 1
    BY <1>9 DEF RecordBegins, RecordOverflows, RecordIgnored, Midnight, BackoffEnds, dbVars,
                memoVars, counterVars, writerVars, lifeVars, historyVars, Unsettled
  <2> QED
    BY <2>1, EventsFrame DEF Unmarked, Serving
<1>10. CASE Snapshot \/ Close
  <2>1. /\ UNCHANGED <<usage, health, clean, recorded, queue, day, persistedDropped, dropped,
                       Unsettled>>
        /\ failed => failed'
        /\ Serving' => Serving
    BY <1>10 DEF Snapshot, SnapshotBegins, SnapshotReads, SnapshotFails,
                 SnapshotAddsDropped, SnapshotReturns, readerUnchanged, Close, CloseBegins,
                 CloseReturns, CloseUnavailable, dbVars, memoVars, counterVars, writerVars,
                 lifeVars, historyVars, Unsettled, Serving
  <2> QED
    BY <2>1, EventsFrame DEF Unmarked
<1>11. CASE Stop
  <2>1. /\ queue' = <<>> /\ batch' = <<>> /\ ~Serving'
        /\ UNCHANGED <<usage, health, clean, recorded, day>>
    BY <1>11 DEF Stop, dbVars, historyVars, Serving
  <2>2. \A d \in Days : Unwritten(d)' = 0
    BY <2>1, CountEmpty DEF Unwritten, Unsettled
  <2>3. \A d \in Days : usage[d] + Unwritten(d)' <= recorded[d]
    BY <1>0, <1>a, <2>2 DEF EventsSound
  <2>4. Cutoff' = Cutoff /\ \A d \in Days : Marked(d)' = Marked(d)
    BY <2>1 DEF Cutoff, Marked
  <2> QED
    BY <1>0, <2>1, <2>3, <2>4 DEF EventsSound
<1> QED
  BY <1>1, <1>2, <1>3, <1>4, <1>5, <1>6, <1>7, <1>8, <1>9, <1>10, <1>11
     DEF Next, Record, Writer

\* The events in memory that are not counted as dropped.
LEMMA UncountedType ==
    ASSUME TypeOK
    PROVE  /\ Len(queue) \in Nat /\ Len(batch) \in Nat
           /\ Len(Uncounted) \in Nat /\ Len(Unsettled) \in Nat
           /\ Len(Uncounted) <= Len(Unsettled) /\ Len(Unsettled) <= Len(batch)
<1>1. queue \in Seq(Days) /\ batch \in Seq(Days) /\ Len(<<>>) = 0
  BY DEF TypeOK, CountersOK
<1> QED
  BY <1>1 DEF Uncounted, Unsettled

\* On the first day a transaction adds the whole batch to it, and changes the
\* number of losses by none.
LEMMA CommitsFirst ==
    ASSUME StatisticsInv, Serving, Commit, writer \in {"commit", "finish"}, day = 1
    PROVE  usage'[1] = usage[1] + Len(batch) /\ dropped' = dropped
<1>0. /\ TypeOK /\ LossAccounting /\ WriterSound /\ DatesSound
      /\ batch \in Seq(Days) /\ 1 \in Days
      /\ dropped \in Nat /\ sampled.dropped \in Nat
  BY StatisticsAssumption DEF StatisticsInv, TypeOK, CountersOK, StagesOK, Days
<1>1. usage'[1] = usage[1] + CountOf(batch, 1)
  BY <1>0, Commits, TodayKept
<1>2. CountOf(batch, 1) = Len(batch)
  BY <1>0, CountFirst DEF DatesSound
<1>3. /\ dropped' = persistedDropped' + (dropped - sampled.dropped)
      /\ persistedDropped' = sampled.dropped
  BY <1>0, Commits
<1>4. dropped' = dropped
  BY <1>0, <1>3
<1> QED
  BY <1>1, <1>2, <1>4

\* What matters of a step that moves no event and counts none.
LEMMA FirstDayFrame ==
    ASSUME StatisticsInv, UNCHANGED <<usage, recorded, queue, dropped, Uncounted>>,
           FirstDay' => FirstDay, Serving' => Serving
    PROVE  FirstDaySound'
BY DEF StatisticsInv, FirstDaySound

\* On the first day every event is in one of the counters.
LEMMA FirstDayStep == ASSUME StatisticsInv, Next PROVE FirstDaySound'
<1>0. /\ FirstDaySound /\ TypeOK /\ LifeSound /\ DatesSound /\ WriterSound
      /\ 1 \in Days /\ usage[1] \in Nat /\ recorded[1] \in Nat /\ dropped \in Nat
      /\ lives \in Nat /\ day \in Days
  BY StatisticsAssumption DEF StatisticsInv, TypeOK, TablesOK, CountersOK, Days
<1>a. /\ Len(queue) \in Nat /\ Len(batch) \in Nat /\ Len(Uncounted) \in Nat
      /\ queue \in Seq(Days) /\ batch \in Seq(Days) /\ Len(<<>>) = 0
  BY <1>0, UncountedType DEF TypeOK, CountersOK
<1>1. CASE Open
  <2>1. lives' = lives + 1 /\ recorded' = recorded
    BY <1>1 DEF Open
  <2>2. lives' = 1 => recorded'[1] = 0
    BY <1>0, <2>1 DEF LifeSound, Zero
  <2>3. TypeOK'
    BY <1>1, TypeStep DEF Next
  <2>4. usage'[1] \in Nat /\ Len(queue') \in Nat /\ Len(Uncounted') \in Nat /\ dropped' \in Nat
    <3>1. usage' \in [Days -> Nat] /\ dropped' \in Nat
      BY <2>3 DEF TypeOK, TablesOK, CountersOK
    <3>2. queue' \in Seq(Days) /\ batch' \in Seq(Days)
      BY <2>3 DEF TypeOK, CountersOK
    <3>3. Uncounted' = batch' \/ Uncounted' = <<>>
      BY DEF Uncounted
    <3> QED
      BY <1>0, <1>a, <3>1, <3>2, <3>3
  <2> QED
    BY <2>2, <2>4 DEF FirstDaySound, FirstDay
<1>2. CASE OpenFails \/ Stop
  BY <1>2 DEF OpenFails, Stop, FirstDaySound, Serving
<1>3. CASE RecordSends \/ RecordDrops
  <2>1. /\ recorder.step \in {"sending", "dropping"}
        /\ recorded' = [recorded EXCEPT ![recorder.event] = @ + 1]
        /\ UNCHANGED <<usage, batch, writer, life, lives, day>>
    BY <1>3 DEF RecordSends, RecordDrops, dbVars, writerVars, lifeVars
  <2>2. recorded'[1] \in {recorded[1], recorded[1] + 1} /\ recorder.event \in Days
    BY <1>0, <2>1, RecordsOne
  <2>3. Uncounted' = Uncounted /\ FirstDay' = FirstDay /\ Serving' = Serving
    BY <2>1 DEF Uncounted, FirstDay, Serving
  <2>4. /\ Len(queue') + dropped' = Len(queue) + dropped + 1
        /\ Len(queue') \in Nat /\ dropped' \in Nat
    <3>1. CASE RecordSends
      <4>1. queue' = Append(queue, recorder.event) /\ dropped' = dropped
        BY <3>1 DEF RecordSends, counterVars
      <4>2. Len(queue') = Len(queue) + 1
        BY <1>a, <2>2, <4>1
      <4> QED
        BY <1>0, <1>a, <4>1, <4>2
    <3>2. CASE RecordDrops
      BY <1>0, <1>a, <3>2 DEF RecordDrops
    <3> QED
      BY <1>3, <3>1, <3>2
  <2> SUFFICES ASSUME FirstDay, Serving
               PROVE  usage[1] + Len(queue') + Len(Uncounted) + dropped' >= recorded'[1]
    BY <2>1, <2>3 DEF FirstDaySound
  <2>5. usage[1] + Len(queue) + Len(Uncounted) + dropped >= recorded[1]
    BY <1>0 DEF FirstDaySound
  <2>6. \A u, p, q, c, n, m, r, k \in Nat :
          u + p + c + n >= r /\ q + m = p + n + 1 /\ k \in {r, r + 1} => u + q + c + m >= k
    OBVIOUS
  <2>7. recorded'[1] \in Nat
    BY <1>0, <2>2
  <2> QED
    BY <1>0, <1>a, <2>2, <2>4, <2>5, <2>6, <2>7, Zenon
<1>4. CASE WriterTakes
  <2>1. /\ UNCHANGED <<usage, recorded, dropped, life, lives, day>>
        /\ writer \in {"select", "drain"} /\ writer' = "drain"
    BY <1>4 DEF WriterTakes, dbVars, counterVars, writerUnchanged, lifeVars, historyVars
  <2>2. Len(batch') = Len(batch) + 1 /\ Len(queue') = Len(queue) - 1
    BY <1>0, <1>4, Takes
  <2>3. Len(Uncounted') = Len(Uncounted) + 1
    BY <1>a, <2>1, <2>2 DEF Uncounted
  <2>4. FirstDay' = FirstDay /\ Serving' = Serving
    BY <2>1 DEF FirstDay, Serving
  <2> SUFFICES ASSUME FirstDay, Serving
               PROVE  usage[1] + Len(queue') + Len(Uncounted') + dropped >= recorded[1]
    BY <2>1, <2>4 DEF FirstDaySound
  <2>5. usage[1] + Len(queue) + Len(Uncounted) + dropped >= recorded[1]
    BY <1>0 DEF FirstDaySound
  <2>6. /\ usage[1] \in Nat /\ recorded[1] \in Nat /\ dropped \in Nat
        /\ Len(queue) \in Nat /\ Len(Uncounted) \in Nat
    BY <1>0, <1>a
  <2>7. \A u, q, c, n, r \in Nat : \A p, m :
          u + q + c + n >= r /\ p = q - 1 /\ m = c + 1 => u + p + m + n >= r
    OBVIOUS
  <2> QED
    BY <2>2, <2>3, <2>5, <2>6, <2>7, Zenon
<1>5. CASE WriterCommits \/ FinishCommits
  <2>1. /\ Serving /\ Commit /\ writer \in {"commit", "finish"}
        /\ writer' \in {"settle", "done"}
        /\ writer' = "done" => batch = <<>>
        /\ UNCHANGED <<queue, batch, recorded, day, life, lives>>
    BY <1>0, <1>5 DEF WriterCommits, FinishCommits, LifeSound, WriterSound, writerUnchanged,
                      lifeVars, historyVars
  <2>2. Len(Uncounted') = 0 /\ Uncounted = batch
    BY <1>a, <2>1 DEF Uncounted
  <2>3. day = 1 => usage'[1] = usage[1] + Len(batch) /\ dropped' = dropped
    BY <2>1, CommitsFirst
  <2>4. FirstDay' = FirstDay /\ (FirstDay => day = 1)
    BY <2>1 DEF FirstDay
  <2> QED
    BY <1>0, <1>a, <2>1, <2>2, <2>3, <2>4 DEF FirstDaySound
<1>6. CASE WriterCountsLoss
  <2>1. /\ writer = "lost" /\ writer' = "failing" /\ dropped' = dropped + Len(batch)
        /\ UNCHANGED <<usage, queue, batch, recorded, day, life, lives>>
    BY <1>6 DEF WriterCountsLoss, dbVars, writerUnchanged, lifeVars, historyVars
  <2>2. Len(Uncounted') = 0 /\ Uncounted = batch
    BY <1>a, <2>1 DEF Uncounted
  <2>3. FirstDay' = FirstDay /\ Serving' = Serving
    BY <2>1 DEF FirstDay, Serving
  <2> QED
    BY <1>0, <1>a, <2>1, <2>2, <2>3 DEF FirstDaySound
<1>7. CASE WriterTicks \/ WriterSkips \/ WriterBegins \/ FinishBegins \/ WriterFails
           \/ WriterSettles \/ WriterDelays \/ WriterMarksFailure \/ FinishFails
  <2>1. UNCHANGED <<usage, recorded, queue, dropped, Uncounted, life, lives, day>>
    BY <1>7 DEF WriterTicks, WriterSkips, WriterBegins, FinishBegins, WriterFails,
                WriterSettles, WriterDelays, WriterMarksFailure, FinishFails, dbVars,
                counterVars, writerUnchanged, lifeVars, historyVars, Uncounted
  <2> QED
    BY <2>1, FirstDayFrame DEF FirstDay, Serving
<1>8. CASE RecordBegins \/ RecordOverflows \/ RecordIgnored \/ Snapshot \/ Close
           \/ BackoffEnds
  <2>1. /\ UNCHANGED <<usage, recorded, queue, dropped, Uncounted, lives, day>>
        /\ Serving' => Serving
    BY <1>8 DEF RecordBegins, RecordOverflows, RecordIgnored, BackoffEnds, Snapshot,
                SnapshotBegins, SnapshotReads, SnapshotFails, SnapshotAddsDropped,
                SnapshotReturns, readerUnchanged, Close, CloseBegins, CloseReturns,
                CloseUnavailable, dbVars, counterVars, writerVars, lifeVars, historyVars,
                Uncounted, Serving
  <2> QED
    BY <2>1, FirstDayFrame DEF FirstDay
<1>9. CASE Midnight
  <2>1. day' # 1
    BY <1>0, <1>9 DEF Midnight, Days
  <2> QED
    BY <2>1 DEF FirstDaySound, FirstDay
<1> QED
  BY <1>1, <1>2, <1>3, <1>4, <1>5, <1>6, <1>7, <1>8, <1>9 DEF Next, Record, Writer

-----------------------------------------------------------------------------
(* The reader.                                                             *)

\* Only the reader and the end of the process move it, and what is recorded
\* only grows.
LEMMA ReaderFrame ==
    ASSUME StatisticsInv, Next
    PROVE  /\ UNCHANGED <<reader, snap, seen>> \/ Snapshot \/ Stop
           /\ \A d \in Days : recorded[d] <= recorded'[d]
           /\ day' = day \/ day' = day + 1
<1>1. UNCHANGED <<reader, snap, seen>> \/ Snapshot \/ Stop
  BY DEF Next, Open, OpenFails, Record, RecordBegins, RecordSends, RecordOverflows,
         RecordDrops, RecordIgnored, Writer, WriterTakes, WriterTicks, WriterSkips,
         WriterBegins, FinishBegins, WriterCommits, FinishCommits, FinishFails,
         WriterFails, WriterCountsLoss, WriterMarksFailure, WriterDelays, WriterSettles,
         Close, CloseBegins, CloseReturns, CloseUnavailable, Midnight, BackoffEnds,
         readerVars, writerUnchanged
<1>2. \/ recorded' = recorded
      \/ /\ recorder.step \in {"sending", "dropping"}
         /\ recorded' = [recorded EXCEPT ![recorder.event] = @ + 1]
  BY DEF Next, Open, OpenFails, Record, RecordBegins, RecordSends, RecordOverflows,
         RecordDrops, RecordIgnored, Writer, WriterTakes, WriterTicks, WriterSkips,
         WriterBegins, FinishBegins, WriterCommits, FinishCommits, FinishFails,
         WriterFails, WriterCountsLoss, WriterMarksFailure, WriterDelays, WriterSettles,
         Close, CloseBegins, CloseReturns, CloseUnavailable, Stop, Midnight, BackoffEnds,
         Snapshot, SnapshotBegins, SnapshotReads, SnapshotFails, SnapshotAddsDropped,
         SnapshotReturns, readerUnchanged, historyVars, writerUnchanged
<1>3. \A d \in Days : recorded[d] \in Nat
  BY DEF StatisticsInv, TypeOK, TablesOK
<1>4. \A d \in Days : recorded[d] <= recorded'[d]
  BY <1>2, <1>3, RecordsOne
<1>5. day' = day \/ day' = day + 1
  BY DEF Next, Open, OpenFails, Record, RecordBegins, RecordSends, RecordOverflows,
         RecordDrops, RecordIgnored, Writer, WriterTakes, WriterTicks, WriterSkips,
         WriterBegins, FinishBegins, WriterCommits, FinishCommits, FinishFails,
         WriterFails, WriterCountsLoss, WriterMarksFailure, WriterDelays, WriterSettles,
         Close, CloseBegins, CloseReturns, CloseUnavailable, Stop, Midnight, BackoffEnds,
         Snapshot, SnapshotBegins, SnapshotReads, SnapshotFails, SnapshotAddsDropped,
         SnapshotReturns, readerUnchanged, writerUnchanged
<1> QED
  BY <1>1, <1>4, <1>5

\* A reader has dbMu exactly while it reads, and looks back at what was recorded.
LEMMA ReaderStagesStep == ASSUME StatisticsInv, Next PROVE ReaderStages'
<1>0. /\ ReaderStages /\ WriterSound /\ LifeSound /\ TypeOK /\ DatesSound
      /\ day \in Nat \ {0} /\ NoDay \notin 1..day
      /\ \A d \in Days : seen[d] \in Nat /\ recorded[d] \in Nat /\ recorded'[d] \in Nat
  <2>1. \A d \in Days : recorded'[d] \in Nat
    BY TablesStep DEF TablesOK
  <2>2. \A d \in Days : seen[d] \in Nat /\ recorded[d] \in Nat
    BY DEF StatisticsInv, TypeOK, TablesOK
  <2>3. day \in Days
    BY DEF StatisticsInv, TypeOK, TablesOK
  <2>4. day \in Nat \ {0} /\ NoDay \notin 1..day
    BY <2>3, StatisticsAssumption DEF Days, NoDay
  <2> QED
    BY <2>1, <2>2, <2>4 DEF StatisticsInv, ReaderSound
<1>1. \A d \in Days : seen'[d] <= recorded'[d]
  <2>1. CASE seen' = seen
    <3> TAKE d \in Days
    <3>1. seen[d] <= recorded[d] /\ recorded[d] <= recorded'[d]
      BY <1>0, ReaderFrame DEF ReaderStages
    <3> QED
      BY <1>0, <2>1, <3>1
  <2>2. CASE seen' = recorded \/ seen' = Zero
    BY <1>0, <2>2, ReaderFrame DEF Zero
  <2> QED
    BY <2>1, <2>2, ReaderFrame
       DEF Snapshot, SnapshotBegins, SnapshotReads, SnapshotFails, SnapshotAddsDropped,
           SnapshotReturns, Stop
<1>2. reader' = "lock" => snap'.to \in 1..day'
  <2>1. CASE UNCHANGED <<reader, snap>>
    BY <1>0, <2>1, ReaderFrame DEF ReaderStages
  <2>2. CASE SnapshotBegins
    BY <1>0, <2>2 DEF SnapshotBegins, NoSnapshot, readerUnchanged
  <2> QED
    BY <2>1, <2>2, ReaderFrame
       DEF Snapshot, SnapshotReads, SnapshotFails, SnapshotAddsDropped, SnapshotReturns, Stop
<1>3. reader' # "idle" => ~snap'.ready
  <2>1. CASE UNCHANGED <<reader, snap>>
    BY <1>0, <2>1 DEF ReaderStages
  <2>2. CASE SnapshotBegins
    BY <2>2 DEF SnapshotBegins, NoSnapshot
  <2>3. CASE SnapshotReads
    BY <1>0, <2>3, Reads DEF SnapshotReads, ReaderStages
  <2>4. CASE SnapshotAddsDropped
    BY <1>0, <2>4 DEF SnapshotAddsDropped, ReaderStages, TypeOK, SnapOK
  <2> QED
    BY <2>1, <2>2, <2>3, <2>4, ReaderFrame DEF Snapshot, SnapshotFails, SnapshotReturns, Stop
<1>4. reader' # "idle" => life' \notin {"stopped", "unavailable"}
  <2>1. CASE Snapshot
    BY <1>0, <2>1 DEF ReaderStages, Snapshot, SnapshotBegins, SnapshotReads, SnapshotFails,
                      SnapshotAddsDropped, SnapshotReturns, readerUnchanged, lifeVars
  <2>2. CASE Open \/ OpenFails
    BY <1>0, <2>2 DEF ReaderStages, Open, OpenFails, readerVars
  <2>3. CASE Record \/ Writer \/ Close \/ Midnight \/ BackoffEnds
    <3>1. life' = life \/ life' \in {"closing", "closed"}
      BY <2>3 DEF Record, RecordBegins, RecordSends, RecordOverflows, RecordDrops,
                  RecordIgnored, Writer, WriterTakes, WriterTicks, WriterSkips,
                  WriterBegins, FinishBegins, WriterCommits, FinishCommits, FinishFails,
                  WriterFails, WriterCountsLoss, WriterMarksFailure, WriterDelays,
                  WriterSettles, Close, CloseBegins, CloseReturns, CloseUnavailable,
                  Midnight, BackoffEnds, lifeVars, writerUnchanged
    <3>2. reader' = reader
      BY <2>3 DEF Record, RecordBegins, RecordSends, RecordOverflows, RecordDrops,
                  RecordIgnored, Writer, WriterTakes, WriterTicks, WriterSkips,
                  WriterBegins, FinishBegins, WriterCommits, FinishCommits, FinishFails,
                  WriterFails, WriterCountsLoss, WriterMarksFailure, WriterDelays,
                  WriterSettles, Close, CloseBegins, CloseReturns, CloseUnavailable,
                  Midnight, BackoffEnds, readerVars, writerUnchanged
    <3> QED
      BY <1>0, <3>1, <3>2 DEF ReaderStages
  <2>4. CASE Stop
    BY <2>4 DEF Stop
  <2> QED
    BY <2>1, <2>2, <2>3, <2>4 DEF Next
<1>5. (dbMu = "reader" <=> Reading)'
  <2>1. CASE Snapshot
    BY <1>0, <2>1 DEF ReaderStages, Reading, Snapshot, SnapshotBegins, SnapshotReads,
                      SnapshotFails, SnapshotAddsDropped, SnapshotReturns
  <2>2. CASE WriterBegins \/ FinishBegins \/ WriterCommits \/ FinishCommits \/ FinishFails
             \/ WriterFails
    BY <1>0, <2>2 DEF ReaderStages, Reading, WriterSound, WriterBegins, FinishBegins,
                      WriterCommits, FinishCommits, FinishFails, WriterFails,
                      writerUnchanged, readerVars
  <2>3. CASE Stop
    BY <2>3 DEF Stop, Reading
  <2>4. CASE Open \/ OpenFails \/ Record \/ Close \/ Midnight \/ BackoffEnds
    BY <1>0, <2>4 DEF ReaderStages, Reading, Open, OpenFails, Record, RecordBegins,
                      RecordSends, RecordOverflows, RecordDrops, RecordIgnored, Close,
                      CloseBegins, CloseReturns, CloseUnavailable, Midnight, BackoffEnds,
                      readerVars
  <2>5. CASE WriterTakes \/ WriterTicks \/ WriterSkips \/ WriterCountsLoss
             \/ WriterMarksFailure \/ WriterDelays \/ WriterSettles
    BY <1>0, <2>5 DEF ReaderStages, Reading, WriterTakes, WriterTicks, WriterSkips,
                      WriterCountsLoss, WriterMarksFailure, WriterDelays, WriterSettles,
                      writerUnchanged, readerVars
  <2> QED
    BY <2>1, <2>2, <2>3, <2>4, <2>5 DEF Next, Writer
<1> QED
  BY <1>1, <1>2, <1>3, <1>4, <1>5 DEF ReaderStages


\* While the reader has dbMu, no event in memory is settled and no loss forgotten.
LEMMA MarksFrame ==
    ASSUME StatisticsInv, UNCHANGED <<reader, snap, seen>>,
           \A d \in Days : Unwritten(d)' \in Nat /\ Unwritten(d) <= Unwritten(d)',
           failed => failed',
           dropped > persistedDropped => dropped' > persistedDropped'
    PROVE  ReaderMarks'
<1>1. ReaderMarks /\ SnapOK /\ seen \in [Days -> Nat]
  BY DEF StatisticsInv, ReaderSound, TypeOK, TablesOK
<1>2. \A d \in Days : snap.usage[d] \in Nat /\ seen[d] \in Nat /\ Unwritten(d) \in Nat
  BY <1>1, UnwrittenType DEF SnapOK, StatisticsInv
<1>3. \A d \in Days : snap.usage[d] + Unwritten(d) >= seen[d]
                        => snap.usage[d] + Unwritten(d)' >= seen[d]
  BY <1>2
<1>4. Shown(snap.to) \subseteq Days
  BY DEF Shown
<1> QED
  BY <1>1, <1>3, <1>4 DEF ReaderMarks, Reading, Shown

\* While it has dbMu the writer can neither settle events nor forget a loss.
LEMMA ReaderMarksStep == ASSUME StatisticsInv, Next PROVE ReaderMarks'
<1>0. /\ ReaderStages /\ ReaderMarks /\ WriterSound /\ LifeSound /\ TypeOK /\ DatesSound
      /\ EventsSound /\ LossAccounting
  BY DEF StatisticsInv, ReaderSound
<1>a. \A d \in Days : /\ CountOf(queue, d) \in Nat /\ CountOf(batch, d) \in Nat
                      /\ CountOf(Unsettled, d) \in Nat /\ Unwritten(d) \in Nat
                      /\ seen[d] \in Nat /\ snap.usage[d] \in Nat /\ recorded[d] \in Nat
                      /\ usage[d] \in Nat
  BY <1>0, UnwrittenType DEF TypeOK, TablesOK, SnapOK
<1>b. dropped \in Nat /\ persistedDropped \in Nat /\ snap.dropped \in Nat /\ day \in Int
  BY <1>0, StatisticsAssumption DEF TypeOK, CountersOK, SnapOK, TablesOK, Days
<1>1. CASE SnapshotReads
  <2>1. /\ reader' = "dropped" /\ snap.to \in 1..day /\ Serving
        /\ UNCHANGED <<queue, batch, writer, dropped, persistedDropped, failed, seen>>
    BY <1>0, <1>1 DEF SnapshotReads, ReaderStages, readerUnchanged, memoVars, writerVars,
                      Serving, TypeOK, StagesOK, Lives
  <2>2. /\ snap'.usage = [d \in Days |-> IF d \in Shown(snap.to) THEN usage[d] ELSE 0]
        /\ \A d \in Days : d >= Cutoff /\ d <= snap.to /\ health[d].incomplete
             => snap'.incomplete
        /\ snap'.cutoff = Cutoff /\ snap'.to = snap.to
    BY <1>0, <1>1, Reads
  <2> SUFFICES ASSUME snap.to + 1 - Retention = Cutoff,
                      NEW d \in Shown(snap.to), d >= Cutoff
               PROVE  \/ snap'.usage[d] + Unwritten(d)' >= seen[d]
                      \/ snap'.incomplete \/ failed \/ dropped > persistedDropped
    BY <2>1, <2>2 DEF ReaderMarks
  <2>3. d \in Days /\ snap'.usage[d] = usage[d] /\ Unwritten(d)' = Unwritten(d)
    BY <2>1, <2>2 DEF Shown, Unwritten, Unsettled
  <2>4. snap.to = day
    BY <1>b, <2>1, StatisticsAssumption DEF Cutoff
  <2>5. CASE usage[d] + Unwritten(d) = recorded[d]
    <3>1. seen[d] <= recorded[d]
      BY <1>0, <2>3 DEF ReaderStages
    <3> QED
      BY <1>a, <2>3, <2>5, <3>1
  <2>6. CASE Marked(d)
    <3>1. PICK e \in Days : e >= d /\ health[e].incomplete
      BY <2>6 DEF Marked
    <3>2. e <= day
      <4>1. ~ (e > day)
        BY <1>0, <3>1 DEF DatesSound, NoLoss
      <4> QED
        BY <1>b, <4>1 DEF Days
    <3>3. e >= Cutoff /\ e <= snap.to
      BY <1>b, <2>3, <2>4, <3>1, <3>2, StatisticsAssumption DEF Days, Cutoff
    <3> QED
      BY <2>2, <3>1, <3>3
  <2>7. CASE Unmarked
    BY <2>7 DEF Unmarked
  <2> QED
    BY <1>0, <2>1, <2>3, <2>5, <2>6, <2>7 DEF EventsSound
<1>2. CASE SnapshotAddsDropped
  <2>1. /\ reader = "dropped" /\ reader' = "pending"
        /\ UNCHANGED <<queue, batch, writer, dropped, persistedDropped, failed, seen>>
        /\ snap'.dropped = snap.dropped + dropped - persistedDropped
        /\ snap'.usage = snap.usage /\ snap'.incomplete = snap.incomplete
        /\ snap'.cutoff = snap.cutoff /\ snap'.to = snap.to
    BY <1>0, <1>2 DEF SnapshotAddsDropped, readerUnchanged, memoVars, writerVars, TypeOK,
                      SnapOK
  <2>2. dropped > persistedDropped => snap'.dropped > 0
    BY <1>b, <2>1
  <2>3. \A d \in Days : Unwritten(d)' = Unwritten(d)
    BY <2>1 DEF Unwritten, Unsettled
  <2> QED
    BY <1>0, <2>1, <2>2, <2>3 DEF ReaderMarks, Reading, Shown
<1>3. CASE SnapshotBegins \/ SnapshotFails \/ SnapshotReturns \/ Stop
  BY <1>3 DEF SnapshotBegins, SnapshotFails, SnapshotReturns, Stop, ReaderMarks, Reading
<1>4. CASE RecordSends
  <2>1. /\ UNCHANGED <<reader, snap, seen, batch, writer, failed, dropped, persistedDropped>>
        /\ queue' = Append(queue, recorder.event)
    BY <1>4 DEF RecordSends, readerVars, writerVars, counterVars, memoVars
  <2>2. recorder.event \in Days /\ queue \in Seq(Days)
    BY <1>0, <1>4, RecordsOne DEF RecordSends, TypeOK, CountersOK
  <2>3. \A d \in Days : Unwritten(d)' \in Nat /\ Unwritten(d) <= Unwritten(d)'
    <3> TAKE d \in Days
    <3>1. CountOf(queue', d) \in {CountOf(queue, d), CountOf(queue, d) + 1}
      BY <1>a, <2>1, <2>2, CountAppend
    <3>2. Unsettled' = Unsettled
      BY <2>1 DEF Unsettled
    <3> QED
      BY <1>a, <3>1, <3>2 DEF Unwritten
  <2> QED
    BY <2>1, <2>3, MarksFrame
<1>5. CASE RecordDrops \/ WriterCountsLoss
  <2>1. /\ UNCHANGED <<reader, snap, seen, queue, batch, failed, persistedDropped, Unsettled>>
        /\ dropped' = dropped + 1 \/ dropped' = dropped + Len(batch)
    BY <1>5 DEF RecordDrops, WriterCountsLoss, readerVars, writerVars, memoVars,
                writerUnchanged, Unsettled
  <2>2. Len(batch) \in Nat
    BY <1>0 DEF TypeOK, CountersOK
  <2>3. dropped > persistedDropped => dropped' > persistedDropped'
    BY <1>b, <2>1, <2>2
  <2>4. \A d \in Days : Unwritten(d)' = Unwritten(d)
    BY <2>1 DEF Unwritten
  <2> QED
    BY <1>a, <2>1, <2>3, <2>4, MarksFrame
<1>6. CASE WriterTakes
  <2>1. /\ UNCHANGED <<reader, snap, seen, failed, dropped, persistedDropped>>
        /\ writer \in {"select", "drain"} /\ writer' = "drain"
    BY <1>6 DEF WriterTakes, counterVars, memoVars, writerUnchanged, readerVars
  <2>2. \A d \in Days : Unwritten(d)' = Unwritten(d)
    BY <1>0, <1>6, <2>1, Takes DEF Unwritten, Unsettled
  <2> QED
    BY <1>a, <2>1, <2>2, MarksFrame
<1>7. CASE WriterCommits \/ FinishCommits \/ WriterDelays \/ Open \/ OpenFails
  <2>1. ~Reading /\ reader' = reader
    BY <1>0, <1>7 DEF WriterCommits, FinishCommits, WriterDelays, Open, OpenFails,
                      WriterSound, ReaderStages, Reading, writerUnchanged, readerVars
  <2> QED
    BY <2>1 DEF ReaderMarks, Reading
<1>8. CASE WriterTicks \/ WriterSkips \/ WriterBegins \/ FinishBegins \/ WriterFails
           \/ WriterSettles \/ WriterMarksFailure \/ FinishFails
  <2>1. /\ UNCHANGED <<reader, snap, seen, queue, dropped, persistedDropped, Unsettled>>
        /\ failed => failed'
    BY <1>8 DEF WriterTicks, WriterSkips, WriterBegins, FinishBegins, WriterFails,
                WriterSettles, WriterMarksFailure, FinishFails, counterVars, memoVars,
                writerUnchanged, readerVars, Unsettled
  <2>2. \A d \in Days : Unwritten(d)' = Unwritten(d)
    BY <2>1 DEF Unwritten
  <2> QED
    BY <1>a, <2>1, <2>2, MarksFrame
<1>9. CASE RecordBegins \/ RecordOverflows \/ RecordIgnored \/ Close \/ Midnight
           \/ BackoffEnds
  <2>1. /\ UNCHANGED <<reader, snap, seen, queue, dropped, persistedDropped, Unsettled>>
        /\ failed => failed'
    BY <1>9 DEF RecordBegins, RecordOverflows, RecordIgnored, Close, CloseBegins,
                CloseReturns, CloseUnavailable, Midnight, BackoffEnds, counterVars,
                memoVars, writerVars, readerVars, Unsettled
  <2>2. \A d \in Days : Unwritten(d)' = Unwritten(d)
    BY <2>1 DEF Unwritten
  <2> QED
    BY <1>a, <2>1, <2>2, MarksFrame
<1> QED
  BY <1>1, <1>2, <1>3, <1>4, <1>5, <1>6, <1>7, <1>8, <1>9
     DEF Next, Record, Writer, Snapshot

\* A reader that finishes with nothing pending has learned it.
LEMMA CompleteStep == ASSUME StatisticsInv, Next PROVE CompleteMeansComplete'
<1>0. /\ ReaderStages /\ ReaderMarks /\ CompleteMeansComplete /\ TypeOK /\ LifeSound
      /\ PendingExact
  BY DEF StatisticsInv, ReaderSound
<1>1. CASE UNCHANGED <<snap, seen>>
  BY <1>0, <1>1 DEF CompleteMeansComplete, Shown
<1>2. CASE SnapshotBegins \/ SnapshotReads \/ SnapshotAddsDropped \/ Stop
  <2>1. ~snap'.ready
    <3>1. CASE SnapshotBegins \/ Stop
      BY <3>1 DEF SnapshotBegins, Stop, NoSnapshot
    <3>2. CASE SnapshotReads \/ SnapshotAddsDropped
      <4>1. reader' # "idle"
        BY <3>2 DEF SnapshotReads, SnapshotAddsDropped
      <4> QED
        BY <4>1, ReaderStagesStep DEF ReaderStages
    <3> QED
      BY <1>2, <3>1, <3>2
  <2> QED
    BY <2>1 DEF CompleteMeansComplete
<1>3. CASE SnapshotReturns
  <2>1. /\ reader = "pending" /\ snap'.pending = pending /\ seen' = seen
        /\ snap'.incomplete = (snap.incomplete \/ snap.dropped > 0 \/ failed)
        /\ snap'.usage = snap.usage /\ snap'.cutoff = snap.cutoff /\ snap'.to = snap.to
    BY <1>0, <1>3 DEF SnapshotReturns, TypeOK, SnapOK
  <2> SUFFICES ASSUME ~snap'.incomplete, pending = 0, snap.to + 1 - Retention = snap.cutoff,
                      NEW d \in Shown(snap.to), d >= snap.cutoff
               PROVE  snap.usage[d] >= seen[d]
    BY <2>1 DEF CompleteMeansComplete
  <2>2. d \in Days
    BY DEF Shown
  <2>3. ~snap.incomplete /\ ~ (snap.dropped > 0) /\ ~failed
    BY <2>1
  <2>4. snap.usage[d] + Unwritten(d) >= seen[d]
    BY <1>0, <2>1, <2>3 DEF ReaderMarks, Reading
  <2>5. Serving
    BY <1>0, <2>1 DEF ReaderStages, Reading, LifeSound
  <2>6. queue = <<>> /\ batch = <<>>
    <3>1. queue \in Seq(Days) /\ batch \in Seq(Days)
      BY <1>0 DEF TypeOK, CountersOK
    <3>2. Len(queue) = 0 /\ Len(batch) = 0
      <4>1. Len(queue) \in Nat /\ Len(batch) \in Nat
        BY <3>1
      <4>2. Len(queue) + Len(batch) + (IF recorder.step = "sending" THEN 1 ELSE 0) = 0
        BY <1>0, <2>5 DEF PendingExact
      <4> QED
        BY <4>1, <4>2
    <3> QED
      BY <3>1, <3>2
  <2>7. Unwritten(d) = 0
    BY <2>6, CountEmpty DEF Unwritten, Unsettled
  <2>8. snap.usage[d] \in Nat
    BY <1>0, <2>2 DEF TypeOK, SnapOK
  <2> QED
    BY <2>4, <2>7, <2>8
<1> QED
  BY <1>1, <1>2, <1>3, ReaderFrame DEF Snapshot, SnapshotFails


\* A step of the others keeps the sums, or adds to them.
LEMMA CountsFrame ==
    ASSUME StatisticsInv, UNCHANGED <<reader, snap, seen>>, FirstDay' => FirstDay,
           Reading => /\ persistedDropped' = persistedDropped
                      /\ {Len(queue'), Len(Uncounted'), Len(Unsettled'),
                          dropped'} \subseteq Nat
                      /\ Len(queue') + Len(Uncounted') + dropped'
                           >= Len(queue) + Len(Uncounted) + dropped
                      /\ Len(queue') + Len(Unsettled') >= Len(queue) + Len(Unsettled)
    PROVE  ReaderCounts'
<1>0. /\ ReaderCounts
      /\ {Len(queue), Len(Uncounted), Len(Unsettled), dropped, persistedDropped} \subseteq Nat
      /\ {snap.usage[1], snap.dropped, snap.pending, seen[1]} \subseteq Nat
  <2>1. TypeOK /\ ReaderCounts /\ 1 \in Days
    BY StatisticsAssumption DEF StatisticsInv, ReaderSound, Days
  <2>2. dropped \in Nat /\ persistedDropped \in Nat
    BY <2>1 DEF TypeOK, CountersOK
  <2>3. /\ snap.usage \in [Days -> Nat] /\ snap.dropped \in Nat /\ snap.pending \in Nat
        /\ seen \in [Days -> Nat]
    BY <2>1 DEF TypeOK, TablesOK, SnapOK
  <2> QED
    BY <2>1, <2>2, <2>3, UncountedType
<1>1. ASSUME FirstDay', reader = "dropped"
      PROVE  snap.usage[1] + Len(queue') + Len(Uncounted')
               + (snap.dropped + dropped' - persistedDropped) >= seen[1]
  <2>1. snap.usage[1] + Len(queue) + Len(Uncounted)
          + (snap.dropped + dropped - persistedDropped) >= seen[1]
    BY <1>0, <1>1 DEF ReaderCounts
  <2>2. \A u, q, c, n, p, m, k, s, x, o \in Nat :
          /\ u + q + c + (s + n - o) >= x
          /\ p + k + m >= q + c + n
          => u + p + k + (s + m - o) >= x
    OBVIOUS
  <2>3. Reading
    BY <1>1 DEF Reading
  <2> QED
    BY <1>0, <2>1, <2>2, <2>3, Zenon
<1>2. ASSUME FirstDay', reader = "pending"
      PROVE  snap.usage[1] + Len(queue') + Len(Unsettled') + snap.dropped >= seen[1]
  <2>1. snap.usage[1] + Len(queue) + Len(Unsettled) + snap.dropped >= seen[1]
    BY <1>0, <1>2 DEF ReaderCounts
  <2>2. \A u, q, c, p, k, s, x \in Nat :
          u + q + c + s >= x /\ p + k >= q + c => u + p + k + s >= x
    OBVIOUS
  <2>3. Reading
    BY <1>2 DEF Reading
  <2> QED
    BY <1>0, <2>1, <2>2, <2>3, Zenon
<1>3. Reading => persistedDropped' = persistedDropped
  OBVIOUS
<1> QED
  BY <1>0, <1>1, <1>2, <1>3 DEF ReaderCounts, Reading

\* On the first day the reader misses no event that moves between the counters.
LEMMA ReaderCountsStep == ASSUME StatisticsInv, Next PROVE ReaderCounts'
<1>0. /\ ReaderStages /\ ReaderCounts /\ WriterSound /\ LifeSound /\ TypeOK /\ DatesSound
      /\ LossAccounting /\ FirstDaySound /\ PendingExact
  BY DEF StatisticsInv, ReaderSound
<1>a. /\ Len(queue) \in Nat /\ Len(batch) \in Nat /\ Len(Uncounted) \in Nat
      /\ Len(Unsettled) \in Nat /\ Len(Uncounted) <= Len(Unsettled)
      /\ Len(Unsettled) <= Len(batch) /\ Len(<<>>) = 0
      /\ dropped \in Nat /\ persistedDropped \in Nat
  BY <1>0, UncountedType DEF TypeOK, CountersOK
<1>b. /\ 1 \in Days /\ snap.usage[1] \in Nat /\ snap.dropped \in Nat /\ snap.pending \in Nat
      /\ seen[1] \in Nat /\ usage[1] \in Nat /\ recorded[1] \in Nat
  <2>1. 1 \in Days
    BY StatisticsAssumption DEF Days
  <2> QED
    BY <1>0, <2>1 DEF TypeOK, TablesOK, SnapOK
<1>c. day \in Days /\ lives \in Nat
  BY <1>0 DEF TypeOK, TablesOK
<1>1. CASE SnapshotReads
  <2>1. /\ reader' = "dropped" /\ snap.to \in 1..day /\ Serving
        /\ UNCHANGED <<queue, batch, writer, dropped, persistedDropped, seen, day, lives>>
    BY <1>0, <1>1 DEF SnapshotReads, ReaderStages, readerUnchanged, memoVars, writerVars,
                      historyVars, Serving, TypeOK, StagesOK, Lives
  <2>2. ~snap'.ready
    BY <2>1, ReaderStagesStep DEF ReaderStages
  <2> SUFFICES ASSUME FirstDay
               PROVE  snap'.usage[1] + Len(queue) + Len(Uncounted)
                        + (snap'.dropped + dropped - persistedDropped) >= seen[1]
    BY <2>1, <2>2 DEF ReaderCounts, Uncounted, FirstDay
  <2>3. day = 1 /\ snap.to = 1
    BY <1>c, <2>1 DEF FirstDay
  <2>4. snap'.usage[1] = usage[1]
    <3>1. 1 \in Shown(snap.to)
      BY <1>b, <2>3, StatisticsAssumption DEF Shown
    <3>2. snap'.usage = [d \in Days |-> IF d \in Shown(snap.to) THEN usage[d] ELSE 0]
      BY <1>0, <1>1, Reads
    <3> QED
      BY <1>b, <3>1, <3>2
  <2>5. snap'.dropped = persistedDropped
    <3>1. snap'.dropped = health[1].dropped
      BY <1>0, <1>1, <2>3, Reads
    <3>2. health \in Healths /\ \A d \in Days : d > 1 => health[d] = NoLoss
      BY <1>0, <2>3 DEF DatesSound, TypeOK, TablesOK, Healths
    <3> QED
      BY <1>0, <2>1, <3>1, <3>2, HealthFirst DEF LossAccounting
  <2>6. usage[1] + Len(queue) + Len(Uncounted) + dropped >= recorded[1]
    BY <1>0, <2>1 DEF FirstDaySound
  <2>7. recorded[1] >= seen[1]
    BY <1>0, <1>b DEF ReaderStages
  <2>8. \A u, q, c, n, o, r, x \in Nat :
          u + q + c + n >= r /\ r >= x => u + q + c + (o + n - o) >= x
    OBVIOUS
  <2> QED
    BY <1>a, <1>b, <2>4, <2>5, <2>6, <2>7, <2>8, Zenon
<1>2. CASE SnapshotAddsDropped
  <2>1. /\ reader = "dropped" /\ reader' = "pending"
        /\ UNCHANGED <<queue, batch, writer, dropped, persistedDropped, seen, day, lives>>
        /\ snap'.dropped = snap.dropped + dropped - persistedDropped
        /\ snap'.usage = snap.usage
    BY <1>0, <1>2 DEF SnapshotAddsDropped, readerUnchanged, memoVars, writerVars,
                      historyVars, TypeOK, SnapOK
  <2>2. ~snap'.ready
    BY <2>1, ReaderStagesStep DEF ReaderStages
  <2> SUFFICES ASSUME FirstDay
               PROVE  snap.usage[1] + Len(queue) + Len(Unsettled)
                        + (snap.dropped + dropped - persistedDropped) >= seen[1]
    BY <2>1, <2>2 DEF ReaderCounts, Unsettled, FirstDay
  <2>3. snap.usage[1] + Len(queue) + Len(Uncounted)
          + (snap.dropped + dropped - persistedDropped) >= seen[1]
    BY <1>0, <2>1 DEF ReaderCounts
  <2>4. \A u, q, c, b, s, n, o, x \in Nat :
          u + q + c + (s + n - o) >= x /\ c <= b => u + q + b + (s + n - o) >= x
    OBVIOUS
  <2> QED
    BY <1>a, <1>b, <2>3, <2>4, Zenon
<1>3. CASE SnapshotReturns
  <2>1. /\ reader = "pending" /\ reader' = "idle"
        /\ UNCHANGED <<seen, day, lives>>
        /\ snap'.usage = snap.usage /\ snap'.dropped = snap.dropped
        /\ snap'.pending = pending
    BY <1>0, <1>3 DEF SnapshotReturns, readerUnchanged, historyVars, TypeOK, SnapOK
  <2> SUFFICES ASSUME FirstDay
               PROVE  snap.usage[1] + snap.dropped + pending >= seen[1]
    BY <2>1 DEF ReaderCounts, FirstDay
  <2>2. snap.usage[1] + Len(queue) + Len(Unsettled) + snap.dropped >= seen[1]
    BY <1>0, <2>1 DEF ReaderCounts
  <2>3. Serving
    BY <1>0, <2>1 DEF ReaderStages, Reading, LifeSound
  <2>4. pending \in Nat /\ pending >= Len(queue) + Len(batch)
    BY <1>0, <1>a, <2>3 DEF PendingExact, TypeOK, CountersOK
  <2>5. \A u, q, c, b, s, p, x \in Nat :
          u + q + c + s >= x /\ c <= b /\ p >= q + b => u + s + p >= x
    OBVIOUS
  <2> QED
    BY <1>a, <1>b, <2>2, <2>4, <2>5, Zenon
<1>4. CASE SnapshotBegins \/ Stop
  <2>1. ~snap'.ready /\ reader' \in {"lock", "idle"}
    BY <1>4 DEF SnapshotBegins, Stop, NoSnapshot
  <2> QED
    BY <2>1 DEF ReaderCounts
<1>5. CASE SnapshotFails
  <2>1. reader' = "idle" /\ UNCHANGED <<snap, seen, day, lives>>
    BY <1>5 DEF SnapshotFails, readerUnchanged, historyVars
  <2> QED
    BY <1>0, <2>1 DEF ReaderCounts, FirstDay
<1>6. CASE Open \/ OpenFails
  <2>1. lives' = lives + 1 /\ UNCHANGED <<reader, snap, seen>>
        /\ life = "stopped"
    BY <1>6 DEF Open, OpenFails, readerVars
  <2>2. ~Reading
    BY <1>0, <2>1 DEF ReaderStages, Reading
  <2>3. lives' = 1 => recorded[1] = 0
    BY <1>0, <1>b, <1>c, <2>1 DEF LifeSound, Zero
  <2>4. lives' = 1 => seen[1] = 0
    BY <1>0, <1>b, <2>3 DEF ReaderStages
  <2> QED
    BY <1>b, <2>1, <2>2, <2>4 DEF ReaderCounts, FirstDay, Reading
<1>7. CASE RecordSends \/ RecordDrops
  <2>1. /\ UNCHANGED <<reader, snap, seen, batch, writer, persistedDropped, day, lives>>
        /\ \/ queue' = Append(queue, recorder.event) /\ dropped' = dropped
           \/ queue' = queue /\ dropped' = dropped + 1
    BY <1>7 DEF RecordSends, RecordDrops, readerVars, writerVars, counterVars, memoVars
  <2>2. recorder.event \in Days /\ queue \in Seq(Days)
    BY <1>0, <1>7, RecordsOne DEF RecordSends, RecordDrops, TypeOK, CountersOK
  <2>3. /\ Len(queue') \in {Len(queue), Len(queue) + 1}
        /\ dropped' \in {dropped, dropped + 1}
    BY <2>1, <2>2
  <2>4. Uncounted' = Uncounted /\ Unsettled' = Unsettled /\ FirstDay' = FirstDay
    BY <2>1 DEF Uncounted, Unsettled, FirstDay
  <2> QED
    BY <1>a, <2>1, <2>3, <2>4, CountsFrame
<1>8. CASE WriterTakes
  <2>1. /\ UNCHANGED <<reader, snap, seen, dropped, persistedDropped, day, lives>>
        /\ writer \in {"select", "drain"} /\ writer' = "drain"
    BY <1>8 DEF WriterTakes, readerVars, counterVars, memoVars, writerUnchanged, historyVars
  <2>2. Len(batch') = Len(batch) + 1 /\ Len(queue') = Len(queue) - 1 /\ Len(queue') \in Nat
    BY <1>0, <1>8, Takes
  <2>3. Uncounted = batch /\ Uncounted' = batch' /\ Unsettled = batch /\ Unsettled' = batch'
    BY <2>1 DEF Uncounted, Unsettled
  <2>4. FirstDay' = FirstDay
    BY <2>1 DEF FirstDay
  <2> QED
    BY <1>a, <2>1, <2>2, <2>3, <2>4, CountsFrame
<1>9. CASE WriterCommits \/ FinishCommits \/ WriterDelays
  <2>1. ~Reading /\ UNCHANGED <<reader, snap, seen, day, lives>>
    BY <1>0, <1>9 DEF WriterCommits, FinishCommits, WriterDelays, WriterSound, ReaderStages,
                      writerUnchanged, readerVars, historyVars
  <2> QED
    BY <2>1, CountsFrame DEF FirstDay
<1>10. CASE WriterCountsLoss
  <2>1. /\ UNCHANGED <<reader, snap, seen, queue, batch, persistedDropped, day, lives>>
        /\ writer = "lost" /\ writer' = "failing" /\ dropped' = dropped + Len(batch)
    BY <1>10 DEF WriterCountsLoss, readerVars, memoVars, writerUnchanged, historyVars
  <2>2. Uncounted = batch /\ Len(Uncounted') = 0 /\ Unsettled' = Unsettled
    BY <1>a, <2>1 DEF Uncounted, Unsettled
  <2>3. FirstDay' = FirstDay
    BY <2>1 DEF FirstDay
  <2> QED
    BY <1>a, <2>1, <2>2, <2>3, CountsFrame
<1>11. CASE WriterTicks \/ WriterSkips \/ WriterBegins \/ FinishBegins \/ WriterFails
            \/ WriterSettles \/ WriterMarksFailure \/ FinishFails
  <2>1. UNCHANGED <<reader, snap, seen, queue, dropped, persistedDropped, Uncounted,
                    Unsettled, day, lives>>
    BY <1>11 DEF WriterTicks, WriterSkips, WriterBegins, FinishBegins, WriterFails,
                 WriterSettles, WriterMarksFailure, FinishFails, counterVars, memoVars,
                 writerUnchanged, readerVars, historyVars, Uncounted, Unsettled
  <2> QED
    BY <1>a, <2>1, CountsFrame DEF FirstDay
<1>12. CASE RecordBegins \/ RecordOverflows \/ RecordIgnored \/ Close \/ BackoffEnds
  <2>1. UNCHANGED <<reader, snap, seen, queue, dropped, persistedDropped, Uncounted,
                    Unsettled, day, lives>>
    BY <1>12 DEF RecordBegins, RecordOverflows, RecordIgnored, Close, CloseBegins,
                 CloseReturns, CloseUnavailable, BackoffEnds, counterVars, memoVars,
                 writerVars, readerVars, historyVars, Uncounted, Unsettled
  <2> QED
    BY <1>a, <2>1, CountsFrame DEF FirstDay
<1>13. CASE Midnight
  <2>1. day' # 1
    BY <1>c, <1>13, StatisticsAssumption DEF Midnight, Days
  <2> QED
    BY <2>1 DEF ReaderCounts, FirstDay
<1> QED
  BY <1>1, <1>2, <1>3, <1>4, <1>5, <1>6, <1>7, <1>8, <1>9, <1>10, <1>11, <1>12, <1>13
     DEF Next, Record, Writer, Snapshot

-----------------------------------------------------------------------------
(* The theorems.                                                           *)

\* A new database, before any process.
LEMMA StatisticsInit == Init => StatisticsInv
<1> SUFFICES ASSUME Init
             PROVE  StatisticsInv
  OBVIOUS
<1> USE StatisticsAssumption DEF Init
<1>1. 1 \in Days /\ <<>> \in Seq(Days) /\ Len(<<>>) = 0 /\ 0 \in Int
  BY DEF Days
<1>2. Zero \in [Days -> Nat] /\ \A d \in Days : Zero[d] = 0
  BY DEF Zero
<1>3. health \in Healths
  BY DEF Healths, NoLoss
<1>4. \A d \in Days : Unwritten(d) = 0
  BY CountEmpty DEF Unwritten, Unsettled
<1>5. TypeOK
  <2>1. TablesOK
    BY <1>1, <1>2, <1>3 DEF TablesOK, Healths
  <2>2. CountersOK
    <3>1. 0 <= Capacity /\ 0 <= BatchMax
      OBVIOUS
    <3> QED
      BY <1>1, <3>1 DEF CountersOK
  <2>5. FlagsOK
    BY DEF FlagsOK
  <2>3. StagesOK
    BY DEF StagesOK, Lives, NoRecord, NoSample, NoDay
  <2>4. SnapOK
    BY <1>1 DEF SnapOK, NoSnapshot, NoDay
  <2> QED
    BY <2>1, <2>2, <2>3, <2>4, <2>5 DEF TypeOK
<1>6. PendingExact /\ LossAccounting /\ FirstDaySound /\ CloseDrains
  BY DEF PendingExact, LossAccounting, FirstDaySound, CloseDrains, Serving
<1>7. WriterSound /\ LifeSound
  BY DEF WriterSound, LifeSound, Serving
<1>8. DatesSound
  <2>1. \A d \in Days : snap.usage[d] = 0 /\ health[d] = NoLoss /\ recorded[d] = 0
    BY <1>2 DEF NoSnapshot
  <2> QED
    BY <2>1 DEF DatesSound
<1>9. EventsSound
  <2>1. \A d \in Days : usage[d] = 0 /\ recorded[d] = 0
    BY <1>2
  <2> QED
    BY <1>4, <2>1 DEF EventsSound, Serving
<1>10. ReaderSound /\ CompleteMeansComplete
  <2>1. ~snap.ready
    BY DEF NoSnapshot
  <2>2. \A d \in Days : seen[d] <= recorded[d]
    BY <1>2
  <2> QED
    BY <2>1, <2>2 DEF ReaderSound, ReaderStages, ReaderMarks, ReaderCounts, Reading,
                      CompleteMeansComplete
<1> QED
  BY <1>5, <1>6, <1>7, <1>8, <1>9, <1>10 DEF StatisticsInv

\* Nothing happens to the invariant when nothing happens.
LEMMA StatisticsStutter == StatisticsInv /\ UNCHANGED vars => StatisticsInv'
<1> SUFFICES ASSUME StatisticsInv, UNCHANGED vars
             PROVE  StatisticsInv'
  OBVIOUS
<1> USE DEF vars, dbVars, lifeVars, counterVars, memoVars, writerVars, readerVars, historyVars
<1>1. TypeOK'
  <2>1. TablesOK' /\ CountersOK'
    BY DEF StatisticsInv, TypeOK, TablesOK, CountersOK
  <2>3. StagesOK'
    BY DEF StatisticsInv, TypeOK, StagesOK
  <2>2. FlagsOK' /\ SnapOK'
    BY DEF StatisticsInv, TypeOK, FlagsOK, SnapOK
  <2> QED
    BY <2>1, <2>2, <2>3 DEF TypeOK
<1>6. PendingExact' /\ LossAccounting' /\ CloseDrains'
  BY DEF StatisticsInv, PendingExact, LossAccounting, CloseDrains, Serving
<1>2. WriterSound' /\ LifeSound' /\ DatesSound'
  BY DEF StatisticsInv, WriterSound, LifeSound, DatesSound, Serving
<1>3. EventsSound'
  BY EventsFrame DEF Unsettled, Unmarked, Serving
<1>4. FirstDaySound'
  BY FirstDayFrame DEF Uncounted, FirstDay, Serving
<1>5. ReaderSound' /\ CompleteMeansComplete'
  BY DEF StatisticsInv, ReaderSound, ReaderStages, ReaderMarks, ReaderCounts, Reading,
         FirstDay, Uncounted, Unsettled, Unwritten, Shown, CompleteMeansComplete
<1> QED
  BY <1>1, <1>2, <1>3, <1>4, <1>5, <1>6 DEF StatisticsInv

\* The inductive invariant holds of every behaviour: the stages of the writer,
\* the reader and the shutdown go together, and every recorded event is on disk,
\* in memory, or covered by a mark on its day or a later one.
THEOREM StatisticsInvariant == Spec => []StatisticsInv
<1>1. StatisticsInv /\ Next => StatisticsInv'
  <2> SUFFICES ASSUME StatisticsInv, Next
               PROVE  StatisticsInv'
    OBVIOUS
  <2> QED
    BY TypeStep, PendingStep, LossStep, WriterStep, LifeStep, DatesStep, EventsStep,
       FirstDayStep, ReaderStagesStep, ReaderMarksStep, ReaderCountsStep, CompleteStep
       DEF StatisticsInv, ReaderSound
<1>2. StatisticsInv /\ [Next]_vars => StatisticsInv'
  BY <1>1, StatisticsStutter
<1> QED
  BY <1>2, StatisticsInit, PTL DEF Spec

\* No counter that Record, the writer and the reader change without a common
\* lock goes below zero or loses an event, and no event is written twice.
THEOREM CountersAreExact == Spec => []CountersExact
<1>1. StatisticsInv => CountersExact
  <2> SUFFICES ASSUME StatisticsInv
               PROVE  NeverDoubleCounted
    BY DEF StatisticsInv, CountersExact
  <2>1. /\ \A d \in Days : usage[d] + Unwritten(d) <= recorded[d]
        /\ \A d \in Days : usage[d] \in Nat /\ recorded[d] \in Nat /\ Unwritten(d) \in Nat
    BY UnwrittenType DEF StatisticsInv, EventsSound, TypeOK, TablesOK
  <2>2. \A u, w, r \in Nat : u + w <= r => u <= r
    OBVIOUS
  <2> QED
    BY <2>1, <2>2 DEF NeverDoubleCounted
<1> QED
  BY <1>1, StatisticsInvariant, PTL

\* A snapshot that calls itself complete is complete, across restarts, expiry
\* and failed transactions, and on the first day none reports too few events.
THEOREM SnapshotsAreHonest == Spec => []SnapshotHonest
<1>1. StatisticsInv => SnapshotHonest
  <2> SUFFICES ASSUME StatisticsInv, snap.ready, lives = 1, day = 1
               PROVE  Total(snap.usage) + snap.dropped + snap.pending >= Total(seen)
    BY DEF StatisticsInv, SnapshotHonest, NeverUnderReported
  <2>1. snap.usage \in [Days -> Nat] /\ seen \in [Days -> Nat] /\ recorded \in [Days -> Nat]
    BY DEF StatisticsInv, TypeOK, TablesOK, SnapOK
  <2>2. \A d \in Days : d > 1 => snap.usage[d] = 0 /\ recorded[d] = 0
    BY DEF StatisticsInv, DatesSound
  <2>3. \A d \in Days : d > 1 => seen[d] = 0
    <3>1. \A d \in Days : seen[d] <= recorded[d]
      BY DEF StatisticsInv, ReaderSound, ReaderStages
    <3> QED
      BY <2>1, <2>2, <3>1
  <2>4. Total(snap.usage) = snap.usage[1] /\ Total(seen) = seen[1]
    BY <2>1, <2>2, <2>3, TotalFirst
  <2>5. snap.usage[1] + snap.dropped + snap.pending >= seen[1]
    BY DEF StatisticsInv, ReaderSound, ReaderCounts, FirstDay
  <2> QED
    BY <2>4, <2>5
<1> QED
  BY <1>1, StatisticsInvariant, PTL

\* What Close reports as drained is drained, and a store it marked clean has no
\* unmarked loss, whatever failed and whenever the process was killed.
THEOREM ShutdownIsSound == Spec => []ShutdownSound
<1>1. StatisticsInv => ShutdownSound
  <2> SUFFICES ASSUME StatisticsInv, clean, \A d \in Days : ~health[d].incomplete,
                      NEW d \in Days, d >= Cutoff
               PROVE  usage[d] = recorded[d]
    BY DEF StatisticsInv, ShutdownSound, CleanStoreIsSound
  <2> QED
    BY DEF StatisticsInv, EventsSound, Marked
<1> QED
  BY <1>1, StatisticsInvariant, PTL
=============================================================================
