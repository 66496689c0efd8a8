--------------------------- MODULE QueueOpsProofs ---------------------------
(***************************************************************************)
(* Facts about the operators of QueueOps, for every set of tickets.        *)
(***************************************************************************)
EXTENDS QueueOps, FiniteSetTheorems, WellFoundedInduction, SequenceTheorems, TLAPS

(***************************************************************************)
(* The least-number principle, as a fact about sets (the library states it *)
(* about predicates, which the provers cannot instantiate).  It follows    *)
(* from the well-foundedness of strict inclusion between finite sets:      *)
(* among the intervals 0..m with m in S there is a minimal one.            *)
(***************************************************************************)
LEMMA LeastNat ==
  ASSUME NEW S \in SUBSET Nat, S # {}
  PROVE  \E m \in S : \A n \in S : m <= n
<1> DEFINE T == {0 .. m : m \in S}
<1>1. IsWellFoundedOn(StrictSubsetOrdering(Nat), FiniteSubsetsOf(Nat))
  BY FS_StrictSubsetOrderingWellFounded
<1>2. T \subseteq FiniteSubsetsOf(Nat) /\ T # {}
  <2>1. ASSUME NEW m \in S PROVE 0 .. m \in FiniteSubsetsOf(Nat)
    BY FS_Interval DEF FiniteSubsetsOf
  <2> QED BY <2>1
<1>3. PICK I \in T : \A J \in T : ~ (<<J, I>> \in StrictSubsetOrdering(Nat))
  <2> HIDE DEF T
  <2> QED BY <1>1, <1>2, WFMin
<1>4. PICK m \in S : I = 0 .. m
  BY <1>3
<1>5. ASSUME NEW n \in S, n < m PROVE FALSE
  <2>1. 0 .. n \in T /\ (0 .. n) \subseteq (0 .. m) /\ 0 .. n # 0 .. m
    <3>1. m \in 0 .. m /\ m \notin 0 .. n
      BY <1>5
    <3> QED BY <3>1, <1>5
  <2>2. 0 .. n \subseteq Nat /\ 0 .. m \subseteq Nat /\ IsFiniteSet(0..n) /\ IsFiniteSet(0..m)
    BY FS_Interval
  <2>3. <<0 .. n, 0 .. m>> \in StrictSubsetOrdering(Nat)
    BY <2>1, <2>2 DEF StrictSubsetOrdering, FiniteSubsetsOf
  <2> QED BY <1>3, <1>4, <2>1, <2>3
<1> QED BY <1>4, <1>5

(* Induction over a sequence of n elements, by the least counterexample.        *)
LEMMA UpTo ==
  ASSUME NEW n \in Nat, NEW S, 0 \in S,
         \A i \in 1 .. n : i - 1 \in S => i \in S
  PROVE  \A i \in 0 .. n : i \in S
<1> SUFFICES ASSUME NEW k \in 0 .. n, k \notin S PROVE FALSE
  OBVIOUS
<1> DEFINE Missing == {i \in 0 .. n : i \notin S}
<1>1. Missing \in SUBSET Nat /\ Missing # {}
  OBVIOUS
<1>2. PICK m \in Missing : \A i \in Missing : m <= i
  BY <1>1, LeastNat
<1>3. m # 0 /\ m \in 1 .. n /\ m - 1 \in 0 .. n
  BY <1>2
<1>4. m - 1 \notin Missing
  BY <1>2, <1>3
<1> QED BY <1>2, <1>3, <1>4

-----------------------------------------------------------------------------
(***************************************************************************)
(* The rank of a position in K, K being the positions a filter keeps.      *)
(***************************************************************************)
LEMMA PositionsFinite ==
  ASSUME NEW n \in Nat, NEW K \in SUBSET (1 .. n)
  PROVE  /\ IsFiniteSet(K)
         /\ Cardinality(K) \in Nat
         /\ \A j : IsFiniteSet(K \cap 1 .. j)
<1>1. IsFiniteSet(1 .. n)
  BY FS_Interval
<1>2. IsFiniteSet(K)
  BY <1>1, FS_Subset
<1> QED BY <1>2, FS_CardinalityType, FS_Intersection

LEMMA RankStep ==
  ASSUME NEW n \in Nat, NEW K \in SUBSET (1 .. n)
  PROVE  /\ Rank(K, 0) = 0
         /\ Rank(K, n) = Cardinality(K)
         /\ \A j \in Nat : Rank(K, j) \in Nat
         /\ \A j \in Nat : Rank(K, j + 1) =
                             IF j + 1 \in K THEN Rank(K, j) + 1 ELSE Rank(K, j)
<1>1. IsFiniteSet(K) /\ \A j \in Nat : IsFiniteSet(K \cap 1 .. j)
  BY PositionsFinite
<1>2. Rank(K, 0) = 0
  <2>1. K \cap 1 .. 0 = {}
    OBVIOUS
  <2> QED BY <2>1, FS_EmptySet DEF Rank
<1>3. Rank(K, n) = Cardinality(K)
  <2>1. K \cap 1 .. n = K
    OBVIOUS
  <2> QED BY <2>1 DEF Rank
<1>4. \A j \in Nat : Rank(K, j) \in Nat
  BY <1>1, FS_CardinalityType DEF Rank
<1>5. ASSUME NEW j \in Nat
      PROVE  Rank(K, j + 1) = IF j + 1 \in K THEN Rank(K, j) + 1 ELSE Rank(K, j)
  <2>1. CASE j + 1 \in K
    <3>1. K \cap 1 .. j + 1 = (K \cap 1 .. j) \cup {j + 1}
      BY <2>1
    <3>2. j + 1 \notin K \cap 1 .. j
      OBVIOUS
    <3>3. Cardinality((K \cap 1 .. j) \cup {j + 1}) = Cardinality(K \cap 1 .. j) + 1
      BY <1>1, <3>2, FS_AddElement
    <3> QED BY <2>1, <3>1, <3>3 DEF Rank
  <2>2. CASE j + 1 \notin K
    <3>1. K \cap 1 .. j + 1 = K \cap 1 .. j
      BY <2>2
    <3> QED BY <2>2, <3>1 DEF Rank
  <2> QED BY <2>1, <2>2
<1> QED BY <1>2, <1>3, <1>4, <1>5

LEMMA RankMonotone ==
  ASSUME NEW n \in Nat, NEW K \in SUBSET (1 .. n), NEW j \in Nat, NEW k \in Nat, j <= k
  PROVE  Rank(K, j) <= Rank(K, k)
<1>1. IsFiniteSet(K \cap 1 .. k)
  BY PositionsFinite
<1>2. K \cap 1 .. j \in SUBSET (K \cap 1 .. k)
  OBVIOUS
<1> QED BY <1>1, <1>2, FS_Subset DEF Rank

(* Every rank from 1 to |K| is the rank of a member of K: the position at which *)
(* the rank first reaches i is in K and has rank exactly i.                     *)
LEMMA RankOnto ==
  ASSUME NEW n \in Nat, NEW K \in SUBSET (1 .. n), NEW i \in 1 .. Cardinality(K)
  PROVE  \E j \in K : Rank(K, j) = i
<1> DEFINE Reached == {j \in Nat : Rank(K, j) >= i}
<1>0. Cardinality(K) \in Nat
  BY PositionsFinite
<1>1. n \in Reached
  BY <1>0, RankStep
<1>2. PICK m \in Reached : \A k \in Reached : m <= k
  <2>1. Reached \in SUBSET Nat /\ Reached # {}
    BY <1>1
  <2> QED BY <2>1, LeastNat
<1>3. m # 0
  BY <1>0, <1>2, RankStep
<1>4. m - 1 \in Nat /\ m - 1 \notin Reached
  BY <1>2, <1>3
<1>5. Rank(K, m - 1) \in Nat /\ Rank(K, m - 1) < i /\ Rank(K, m) \in Nat
  <2>1. Rank(K, m - 1) \in Nat /\ Rank(K, m) \in Nat
    BY <1>4, RankStep
  <2>2. ~ (Rank(K, m - 1) >= i)
    BY <1>4
  <2> QED BY <1>0, <2>1, <2>2
<1>6. Rank(K, (m - 1) + 1) = IF (m - 1) + 1 \in K THEN Rank(K, m - 1) + 1 ELSE Rank(K, m - 1)
  BY <1>4, RankStep
<1>7. m \in K /\ Rank(K, m) = i
  BY <1>0, <1>2, <1>4, <1>5, <1>6
<1> QED BY <1>7

(* Two members of K have different ranks, and the rank of a member of K is a    *)
(* position of the kept sequence.                                               *)
LEMMA RankInjective ==
  ASSUME NEW n \in Nat, NEW K \in SUBSET (1 .. n), NEW j \in K
  PROVE  /\ Rank(K, j) \in 1 .. Cardinality(K)
         /\ \A k \in K : Rank(K, k) = Rank(K, j) => k = j
<1>1. \A a \in Nat : Rank(K, a) \in Nat
  BY RankStep
<1>2. ASSUME NEW a \in K PROVE Rank(K, a - 1) < Rank(K, a)
  <2>1. a - 1 \in Nat /\ (a - 1) + 1 = a
    OBVIOUS
  <2>2. Rank(K, (a - 1) + 1) = IF (a - 1) + 1 \in K THEN Rank(K, a - 1) + 1 ELSE Rank(K, a - 1)
    BY <2>1, RankStep
  <2> QED BY <1>1, <2>1, <2>2
<1>3. ASSUME NEW a \in K, NEW b \in K, a < b PROVE Rank(K, a) < Rank(K, b)
  <2>1. a \in Nat /\ b - 1 \in Nat /\ a <= b - 1 /\ b \in Nat
    BY <1>3
  <2>2. Rank(K, a) <= Rank(K, b - 1)
    BY <2>1, RankMonotone
  <2> QED BY <1>1, <1>2, <2>1, <2>2
<1>4. \A k \in K : Rank(K, k) = Rank(K, j) => k = j
  <2>1. SUFFICES ASSUME NEW k \in K, Rank(K, k) = Rank(K, j), k # j PROVE FALSE
    OBVIOUS
  <2>2. j \in Nat /\ k \in Nat /\ Rank(K, j) \in Nat /\ Rank(K, k) \in Nat
    BY <1>1
  <2>3. CASE k < j
    BY <2>1, <2>2, <2>3, <1>3
  <2>4. CASE j < k
    BY <2>1, <2>2, <2>4, <1>3
  <2> QED BY <2>1, <2>2, <2>3, <2>4
<1>5. Rank(K, j) >= 1
  <2>1. j - 1 \in Nat
    OBVIOUS
  <2> QED BY <1>1, <1>2, <2>1
<1>6. Rank(K, j) <= Cardinality(K)
  <2>1. j \in Nat /\ j <= n
    OBVIOUS
  <2>2. Rank(K, j) <= Rank(K, n)
    BY <2>1, RankMonotone
  <2> QED BY <2>2, RankStep
<1>7. Cardinality(K) \in Nat
  BY PositionsFinite
<1> QED BY <1>1, <1>4, <1>5, <1>6, <1>7

-----------------------------------------------------------------------------
(***************************************************************************)
(* Keep(q, K) is the subsequence of q at the positions K: each of its      *)
(* elements comes from a position of K, later elements from later          *)
(* positions, and every position of K contributes.                         *)
(***************************************************************************)
KeptFrom(K, i) == CHOOSE j \in K : Rank(K, j) = i

LEMMA KeptFromProperties ==
  ASSUME NEW n \in Nat, NEW K \in SUBSET (1 .. n)
  PROVE  /\ \A i \in 1 .. Cardinality(K) : KeptFrom(K, i) \in K /\ Rank(K, KeptFrom(K, i)) = i
         /\ \A i, k \in 1 .. Cardinality(K) : i < k => KeptFrom(K, i) < KeptFrom(K, k)
<1>1. ASSUME NEW i \in 1 .. Cardinality(K)
      PROVE  KeptFrom(K, i) \in K /\ Rank(K, KeptFrom(K, i)) = i
  BY RankOnto DEF KeptFrom
<1>2. ASSUME NEW i \in 1 .. Cardinality(K), NEW k \in 1 .. Cardinality(K), i < k,
             ~ (KeptFrom(K, i) < KeptFrom(K, k))
      PROVE  FALSE
  <2> DEFINE a == KeptFrom(K, i)  b == KeptFrom(K, k)
  <2>1. /\ a \in 1 .. n /\ Rank(K, a) = i
        /\ b \in 1 .. n /\ Rank(K, b) = k
    BY <1>1
  <2>2. ~ (a < b)
    BY <1>2
  <2> HIDE DEF a, b
  <2>3. b <= a /\ a \in Nat /\ b \in Nat
    BY <2>1, <2>2
  <2>4. Rank(K, b) <= Rank(K, a)
    BY <2>3, RankMonotone
  <2>5. Cardinality(K) \in Nat
    BY PositionsFinite
  <2> QED BY <1>2, <2>1, <2>4, <2>5
<1> QED BY <1>1, <1>2

LEMMA KeepProperties ==
  ASSUME NEW S, NEW q \in Seq(S), NEW K \in SUBSET (1 .. Len(q))
  PROVE  /\ Cardinality(K) \in Nat
         /\ Keep(q, K) \in Seq(S)
         /\ Len(Keep(q, K)) = Cardinality(K)
         /\ \A i \in 1 .. Cardinality(K) : Keep(q, K)[i] = q[KeptFrom(K, i)]
         /\ \A i \in 1 .. Cardinality(K) : KeptFrom(K, i) \in K
         /\ \A i, k \in 1 .. Cardinality(K) : i < k => KeptFrom(K, i) < KeptFrom(K, k)
         /\ \A j \in K : \E i \in 1 .. Cardinality(K) : KeptFrom(K, i) = j
<1> DEFINE n == Len(q)
<1>0. n \in Nat /\ K \in SUBSET (1 .. n) /\ \A j \in 1 .. n : q[j] \in S
  OBVIOUS
<1> HIDE DEF n
<1>1. Cardinality(K) \in Nat
  BY <1>0, PositionsFinite
<1>2. /\ \A i \in 1 .. Cardinality(K) : KeptFrom(K, i) \in K /\ Rank(K, KeptFrom(K, i)) = i
      /\ \A i, k \in 1 .. Cardinality(K) : i < k => KeptFrom(K, i) < KeptFrom(K, k)
  BY <1>0, KeptFromProperties
<1>3. Keep(q, K) = [i \in 1 .. Cardinality(K) |-> q[KeptFrom(K, i)]]
  BY DEF Keep, KeptFrom
<1>4. \A i \in 1 .. Cardinality(K) : q[KeptFrom(K, i)] \in S
  BY <1>0, <1>2
<1>5. ASSUME NEW j \in K
      PROVE  \E i \in 1 .. Cardinality(K) : KeptFrom(K, i) = j
  <2>1. Rank(K, j) \in 1 .. Cardinality(K) /\ \A k \in K : Rank(K, k) = Rank(K, j) => k = j
    BY <1>0, RankInjective
  <2>2. KeptFrom(K, Rank(K, j)) \in K /\ Rank(K, KeptFrom(K, Rank(K, j))) = Rank(K, j)
    BY <1>2, <2>1
  <2> QED BY <2>1, <2>2
<1> QED BY <1>1, <1>2, <1>3, <1>4, <1>5

-----------------------------------------------------------------------------
(***************************************************************************)
(* The three operations on the queue.  Each lemma says what happens to the *)
(* type, the order and the tickets that wait.                              *)
(***************************************************************************)

(* Array.prototype.filter in blockTask() and remove(): every task of the other  *)
(* tickets stays, in the order it had; no task of t stays.                      *)
LEMMA WithoutProperties ==
  ASSUME NEW q \in Seq(Task), NEW t
  PROVE  /\ Without(q, t) \in Seq(Task)
         /\ Sorted(q) => Sorted(Without(q, t))
         /\ \A u : Queued(Without(q, t), u) <=> Queued(q, u) /\ u # t
<1> DEFINE K == {j \in 1 .. Len(q) : q[j].ticket # t}
           r == Keep(q, K)
<1>1. K \in SUBSET (1 .. Len(q)) /\ Without(q, t) = r
  BY DEF Without
<1>2. /\ Cardinality(K) \in Nat
      /\ r \in Seq(Task)
      /\ Len(r) = Cardinality(K)
      /\ \A i \in 1 .. Cardinality(K) : r[i] = q[KeptFrom(K, i)]
      /\ \A i \in 1 .. Cardinality(K) : KeptFrom(K, i) \in K
      /\ \A i, k \in 1 .. Cardinality(K) : i < k => KeptFrom(K, i) < KeptFrom(K, k)
      /\ \A j \in K : \E i \in 1 .. Cardinality(K) : KeptFrom(K, i) = j
  <2> HIDE DEF K
  <2> QED BY <1>1, KeepProperties
<1>3. ASSUME Sorted(q) PROVE Sorted(r)
  <2> SUFFICES ASSUME NEW i \in 1 .. Len(r), NEW k \in 1 .. Len(r), i < k
               PROVE  r[i].prio <= r[k].prio
    BY DEF Sorted
  <2>1. KeptFrom(K, i) \in 1 .. Len(q) /\ KeptFrom(K, k) \in 1 .. Len(q)
    BY <1>2
  <2>2. KeptFrom(K, i) < KeptFrom(K, k)
    BY <1>2
  <2>3. q[KeptFrom(K, i)].prio <= q[KeptFrom(K, k)].prio
    BY <1>3, <2>1, <2>2 DEF Sorted
  <2> QED BY <1>2, <2>3
<1>4. ASSUME NEW u PROVE Queued(r, u) <=> Queued(q, u) /\ u # t
  <2>1. ASSUME Queued(r, u) PROVE Queued(q, u) /\ u # t
    <3>1. PICK i \in 1 .. Cardinality(K) : r[i].ticket = u
      BY <1>2, <2>1 DEF Queued
    <3>2. KeptFrom(K, i) \in 1 .. Len(q) /\ q[KeptFrom(K, i)].ticket # t /\ r[i] = q[KeptFrom(K, i)]
      BY <1>2
    <3> QED BY <3>1, <3>2 DEF Queued
  <2>2. ASSUME Queued(q, u), u # t PROVE Queued(r, u)
    <3>1. PICK j \in 1 .. Len(q) : q[j].ticket = u
      BY <2>2 DEF Queued
    <3>2. j \in K
      BY <2>2, <3>1
    <3>3. PICK i \in 1 .. Cardinality(K) : KeptFrom(K, i) = j
      BY <1>2, <3>2
    <3> QED BY <1>2, <3>1, <3>3 DEF Queued
  <2> QED BY <2>1, <2>2
<1> QED BY <1>1, <1>2, <1>3, <1>4

(* The elements of a queue are tasks, whose priorities are numbers.             *)
LEMMA QueueElements ==
  ASSUME NEW q \in Seq(Task)
  PROVE  /\ Len(q) \in Nat
         /\ \A task \in Task : task.prio \in Int
         /\ \A j \in 1 .. Len(q) : q[j] \in Task /\ q[j].prio \in Int
<1>1. \A task \in Task : task.prio \in Int
  BY DEF Task, Priorities
<1>2. Len(q) \in Nat /\ \A j \in 1 .. Len(q) : q[j] \in Task
  OBVIOUS
<1> QED BY <1>1, <1>2

(* The loop of enqueue() always finds a place: the first strictly less urgent   *)
(* task of the queue, or the end.                                               *)
LEMMA InsertIndexExists ==
  ASSUME NEW q \in Seq(Task), NEW task \in Task
  PROVE  InsertIndex(q, task) \in 1 .. Len(q) + 1 /\ IsInsertIndex(q, task, InsertIndex(q, task))
<1> DEFINE Later == {i \in 1 .. Len(q) : task.prio < q[i].prio}
<1>0. Len(q) \in Nat /\ task.prio \in Int /\ \A i \in 1 .. Len(q) : q[i].prio \in Int
  BY QueueElements
<1>1. \E i \in 1 .. Len(q) + 1 : IsInsertIndex(q, task, i)
  <2>1. CASE Later = {}
    <3>1. IsInsertIndex(q, task, Len(q) + 1)
      BY <1>0, <2>1 DEF IsInsertIndex
    <3> QED BY <1>0, <3>1
  <2>2. CASE Later # {}
    <3>1. Later \in SUBSET Nat
      BY <1>0
    <3>2. PICK m \in Later : \A k \in Later : m <= k
      BY <2>2, <3>1, LeastNat
    <3>3. \A j \in 1 .. m - 1 : j \in 1 .. Len(q) /\ j \notin Later
      BY <1>0, <3>2
    <3>4. IsInsertIndex(q, task, m)
      BY <1>0, <3>2, <3>3 DEF IsInsertIndex
    <3> QED BY <1>0, <3>2, <3>4
  <2> QED BY <2>1, <2>2
<1> QED BY <1>1 DEF InsertIndex

(* There is no other such place, so CHOOSE is the loop's answer.                *)
LEMMA InsertIndexUnique ==
  ASSUME NEW q \in Seq(Task), NEW task \in Task, NEW i, IsInsertIndex(q, task, i)
  PROVE  i = InsertIndex(q, task)
<1>1. /\ Len(q) \in Nat /\ task.prio \in Int
      /\ \A j \in 1 .. Len(q) : q[j].prio \in Int
  BY QueueElements
<1>2. ASSUME NEW j, NEW k, IsInsertIndex(q, task, j), IsInsertIndex(q, task, k), j < k
      PROVE  FALSE
  <2>1. j \in 1 .. Len(q) /\ j \in 1 .. k - 1
    BY <1>1, <1>2 DEF IsInsertIndex
  <2>2. task.prio < q[j].prio /\ q[j].prio <= task.prio
    BY <1>2, <2>1 DEF IsInsertIndex
  <2> QED BY <1>1, <2>1, <2>2
<1>3. i \in 1 .. Len(q) + 1 /\ InsertIndex(q, task) \in 1 .. Len(q) + 1
  BY InsertIndexExists DEF IsInsertIndex
<1>4. IsInsertIndex(q, task, InsertIndex(q, task))
  BY InsertIndexExists
<1> DEFINE k == InsertIndex(q, task)
<1> HIDE DEF k
<1>5. i < k \/ i = k \/ k < i
  BY <1>1, <1>3 DEF k
<1> QED BY <1>2, <1>4, <1>5 DEF k

(* enqueue() adds its task and keeps every other, and it keeps the order.       *)
LEMMA EnqueueProperties ==
  ASSUME NEW q \in Seq(Task), NEW task \in Task
  PROVE  /\ Enqueue(q, task) \in Seq(Task)
         /\ Len(Enqueue(q, task)) = Len(q) + 1
         /\ Sorted(q) => Sorted(Enqueue(q, task))
         /\ \A u : Queued(Enqueue(q, task), u) <=> Queued(q, u) \/ u = task.ticket
<1> DEFINE i == InsertIndex(q, task)
           n == Len(q)
           r == [j \in 1 .. n + 1 |-> IF j < i THEN q[j] ELSE IF j = i THEN task ELSE q[j - 1]]
<1>0. n \in Nat /\ task.prio \in Int /\ \A j \in 1 .. n : q[j] \in Task /\ q[j].prio \in Int
  BY QueueElements
<1>1. i \in 1 .. n + 1 /\ IsInsertIndex(q, task, i)
  BY InsertIndexExists
<1>2. Enqueue(q, task) = r
  BY DEF Enqueue
<1>3. /\ \A j \in 1 .. n : j < i => q[j].prio <= task.prio
      /\ i <= n => task.prio < q[i].prio
  BY <1>0, <1>1 DEF IsInsertIndex
<1> HIDE DEF i, n
<1>4. \A j \in 1 .. n + 1 : r[j] \in Task
  BY <1>0, <1>1
<1>5. r \in Seq(Task) /\ Len(r) = n + 1
  BY <1>0, <1>4
<1>6. ASSUME Sorted(q) PROVE Sorted(r)
  <2>1. \A a, b \in 1 .. n : a < b => q[a].prio <= q[b].prio
    BY <1>6 DEF Sorted, n
  <2>2. \A b \in 1 .. n : i <= b => task.prio <= q[b].prio
    BY <1>0, <1>1, <1>3, <2>1
  <2> SUFFICES ASSUME NEW a \in 1 .. n + 1, NEW b \in 1 .. n + 1, a < b
               PROVE  r[a].prio <= r[b].prio
    BY <1>0, <1>5 DEF Sorted
  <2>3. CASE b < i
    BY <1>0, <1>1, <2>1, <2>3
  <2>4. CASE b = i
    BY <1>0, <1>1, <1>3, <2>4
  <2>5. CASE b > i /\ a < i
    <3>1. a \in 1 .. n /\ b - 1 \in 1 .. n /\ i <= b - 1
      BY <1>0, <1>1, <2>5
    <3>2. q[a].prio <= task.prio /\ task.prio <= q[b - 1].prio
      BY <1>3, <2>2, <2>5, <3>1
    <3> QED BY <1>0, <1>1, <2>5, <3>1, <3>2
  <2>6. CASE b > i /\ a >= i
    <3>1. b - 1 \in 1 .. n /\ i <= b - 1 /\ (a > i => a - 1 \in 1 .. n /\ a - 1 < b - 1)
      BY <1>0, <1>1, <2>6
    <3>2. r[b] = q[b - 1]
      BY <1>0, <1>1, <2>6
    <3>3. CASE a = i
      BY <1>0, <1>1, <2>2, <3>1, <3>2, <3>3
    <3>4. CASE a > i
      <4>1. r[a] = q[a - 1]
        BY <1>0, <1>1, <3>4
      <4> QED BY <2>1, <3>1, <3>2, <3>4, <4>1
    <3> QED BY <1>0, <1>1, <2>6, <3>3, <3>4
  <2> QED BY <1>0, <1>1, <2>3, <2>4, <2>5, <2>6
<1>7. ASSUME NEW u PROVE Queued(r, u) <=> Queued(q, u) \/ u = task.ticket
  <2>1. ASSUME NEW j \in 1 .. n + 1, r[j].ticket = u PROVE Queued(q, u) \/ u = task.ticket
    <3>1. CASE j < i
      BY <1>0, <1>1, <2>1, <3>1 DEF Queued, n
    <3>2. CASE j = i
      BY <1>0, <1>1, <2>1, <3>2
    <3>3. CASE j > i
      <4>1. j - 1 \in 1 .. n /\ q[j - 1].ticket = u
        BY <1>0, <1>1, <2>1, <3>3
      <4> QED BY <4>1 DEF Queued, n
    <3> QED BY <1>0, <1>1, <3>1, <3>2, <3>3
  <2>2. ASSUME NEW j \in 1 .. n, q[j].ticket = u PROVE \E k \in 1 .. n + 1 : r[k].ticket = u
    <3>1. CASE j < i
      <4>1. j \in 1 .. n + 1 /\ r[j] = q[j]
        BY <1>0, <1>1, <3>1
      <4> QED BY <2>2, <4>1
    <3>2. CASE j >= i
      <4>1. j + 1 \in 1 .. n + 1 /\ r[j + 1] = q[j]
        BY <1>0, <1>1, <3>2
      <4> QED BY <2>2, <4>1
    <3> QED BY <1>0, <1>1, <3>1, <3>2
  <2>3. r[i] = task /\ i \in 1 .. n + 1
    BY <1>0, <1>1
  <2>4. Queued(r, u) => Queued(q, u) \/ u = task.ticket
    BY <1>5, <2>1 DEF Queued
  <2>5. Queued(q, u) => Queued(r, u)
    BY <1>5, <2>2 DEF Queued, n
  <2>6. u = task.ticket => Queued(r, u)
    BY <1>5, <2>3 DEF Queued
  <2> QED BY <2>4, <2>5, <2>6
<1> QED BY <1>2, <1>5, <1>6, <1>7 DEF n

(* Array.prototype.shift in dequeue().                                          *)
LEMMA TailProperties ==
  ASSUME NEW q \in Seq(Task), q # << >>
  PROVE  /\ Head(q) \in Task
         /\ Tail(q) \in Seq(Task)
         /\ Sorted(q) => Sorted(Tail(q))
         /\ \A u : Queued(q, u) <=> Queued(Tail(q), u) \/ u = Head(q).ticket
<1>1. /\ Len(q) \in Nat \ {0}
      /\ Head(q) = q[1]
      /\ Tail(q) \in Seq(Task)
      /\ Len(Tail(q)) = Len(q) - 1
      /\ \A i \in 1 .. Len(q) - 1 : Tail(q)[i] = q[i + 1]
  OBVIOUS
<1>2. Head(q) \in Task
  BY <1>1
<1>3. ASSUME Sorted(q) PROVE Sorted(Tail(q))
  <2> SUFFICES ASSUME NEW a \in 1 .. Len(q) - 1, NEW b \in 1 .. Len(q) - 1, a < b
               PROVE  Tail(q)[a].prio <= Tail(q)[b].prio
    BY <1>1 DEF Sorted
  <2>1. a + 1 \in 1 .. Len(q) /\ b + 1 \in 1 .. Len(q) /\ a + 1 < b + 1
    BY <1>1
  <2>2. q[a + 1].prio <= q[b + 1].prio
    BY <1>3, <2>1 DEF Sorted
  <2> QED BY <1>1, <2>2
<1>4. ASSUME NEW u PROVE Queued(q, u) <=> Queued(Tail(q), u) \/ u = Head(q).ticket
  <2>1. ASSUME NEW j \in 1 .. Len(q), q[j].ticket = u PROVE Queued(Tail(q), u) \/ u = Head(q).ticket
    <3>1. CASE j = 1
      BY <1>1, <2>1, <3>1
    <3>2. CASE j # 1
      <4>1. j - 1 \in 1 .. Len(q) - 1 /\ Tail(q)[j - 1] = q[j]
        BY <1>1, <3>2
      <4> QED BY <1>1, <2>1, <4>1 DEF Queued
    <3> QED BY <3>1, <3>2
  <2>2. ASSUME NEW j \in 1 .. Len(q) - 1, Tail(q)[j].ticket = u PROVE Queued(q, u)
    <3>1. j + 1 \in 1 .. Len(q) /\ q[j + 1].ticket = u
      BY <1>1, <2>2
    <3> QED BY <3>1 DEF Queued
  <2>3. u = Head(q).ticket => Queued(q, u)
    BY <1>1 DEF Queued
  <2>4. Queued(q, u) => Queued(Tail(q), u) \/ u = Head(q).ticket
    BY <2>1 DEF Queued
  <2>5. Queued(Tail(q), u) => Queued(q, u)
    BY <1>1, <2>2 DEF Queued
  <2> QED BY <2>3, <2>4, <2>5
<1> QED BY <1>1, <1>2, <1>3, <1>4


(* A queue in which no ticket waits twice stays one when a ticket that is not   *)
(* in it is added, and the task shifted off it leaves no second one behind.     *)
LEMMA EnqueueOnce ==
  ASSUME NEW q \in Seq(Task), Once(q), NEW task \in Task, ~ Queued(q, task.ticket)
  PROVE  Once(Enqueue(q, task))
<1> DEFINE i == InsertIndex(q, task)
           n == Len(q)
           r == Enqueue(q, task)
<1>1. n \in Nat /\ i \in 1 .. n + 1
  BY InsertIndexExists
<1>2. Len(r) = n + 1
  BY EnqueueProperties
<1>3. \A j \in 1 .. n + 1 : r[j] = IF j < i THEN q[j] ELSE IF j = i THEN task ELSE q[j - 1]
  BY <1>1 DEF Enqueue
<1>4. /\ \A a, b \in 1 .. n : q[a].ticket = q[b].ticket => a = b
      /\ \A a \in 1 .. n : q[a].ticket # task.ticket
  BY DEF Once, Queued
<1> HIDE DEF i, n, r
<1> DEFINE From(j) == IF j < i THEN j ELSE j - 1
<1>5. \A j \in 1 .. n + 1 : j # i => From(j) \in 1 .. n /\ r[j] = q[From(j)]
  BY <1>1, <1>3
<1>6. \A j, k \in 1 .. n + 1 : j # i /\ k # i /\ From(j) = From(k) => j = k
  BY <1>1
<1> HIDE DEF From
<1>7. r[i] = task
  BY <1>1, <1>3
<1>8. ASSUME NEW j \in 1 .. n + 1, NEW k \in 1 .. n + 1, r[j].ticket = r[k].ticket
      PROVE  j = k
  BY <1>4, <1>5, <1>6, <1>7, <1>8
<1> QED BY <1>2, <1>8 DEF Once, r

LEMMA TailOnce ==
  ASSUME NEW q \in Seq(Task), q # << >>, Once(q)
  PROVE  Once(Tail(q)) /\ ~ Queued(Tail(q), Head(q).ticket)
<1>1. /\ Len(q) \in Nat \ {0}
      /\ Head(q) = q[1]
      /\ Len(Tail(q)) = Len(q) - 1
      /\ \A i \in 1 .. Len(q) - 1 : Tail(q)[i] = q[i + 1] /\ i + 1 \in 1 .. Len(q)
  OBVIOUS
<1>2. \A i, j \in 1 .. Len(q) : q[i].ticket = q[j].ticket => i = j
  BY DEF Once
<1>3. Once(Tail(q))
  BY <1>1, <1>2 DEF Once
<1>4. ~ Queued(Tail(q), Head(q).ticket)
  BY <1>1, <1>2 DEF Queued
<1> QED BY <1>3, <1>4

LEMMA WithoutOnce ==
  ASSUME NEW q \in Seq(Task), NEW t, Once(q)
  PROVE  Once(Without(q, t))
<1> DEFINE K == {j \in 1 .. Len(q) : q[j].ticket # t}
           r == Keep(q, K)
<1>1. K \in SUBSET (1 .. Len(q)) /\ Without(q, t) = r /\ Len(q) \in Nat
  BY DEF Without
<1>2. /\ Cardinality(K) \in Nat
      /\ Len(r) = Cardinality(K)
      /\ \A i \in 1 .. Cardinality(K) : r[i] = q[KeptFrom(K, i)] /\ KeptFrom(K, i) \in K
      /\ \A i, k \in 1 .. Cardinality(K) : i < k => KeptFrom(K, i) < KeptFrom(K, k)
  <2> HIDE DEF K
  <2> QED BY <1>1, KeepProperties
<1>3. \A i, j \in 1 .. Len(q) : q[i].ticket = q[j].ticket => i = j
  BY DEF Once
<1> HIDE DEF K, r
<1>4. ASSUME NEW i \in 1 .. Len(r), NEW k \in 1 .. Len(r), r[i].ticket = r[k].ticket
      PROVE  i = k
  <2>1. KeptFrom(K, i) \in 1 .. Len(q) /\ KeptFrom(K, k) \in 1 .. Len(q)
    BY <1>1, <1>2
  <2>2. KeptFrom(K, i) = KeptFrom(K, k)
    BY <1>2, <1>3, <1>4, <2>1
  <2>3. ~ (i < k) /\ ~ (k < i)
    BY <1>2, <2>1, <2>2
  <2> QED BY <1>2, <2>3
<1> QED BY <1>1, <1>4 DEF Once

-----------------------------------------------------------------------------
(* What the operations do to the set of the waiting tasks.                      *)
Members(q) == {q[i] : i \in 1 .. Len(q)}

LEMMA EnqueueMembers ==
  ASSUME NEW q \in Seq(Task), NEW task \in Task
  PROVE  Members(Enqueue(q, task)) = Members(q) \cup {task}
<1> DEFINE i == InsertIndex(q, task)
           n == Len(q)
           r == Enqueue(q, task)
<1>1. n \in Nat /\ i \in 1 .. n + 1
  BY InsertIndexExists
<1>2. Len(r) = n + 1
  BY EnqueueProperties
<1>3. \A j \in 1 .. n + 1 : r[j] = IF j < i THEN q[j] ELSE IF j = i THEN task ELSE q[j - 1]
  BY <1>1 DEF Enqueue
<1> HIDE DEF i, r
<1>4. ASSUME NEW j \in 1 .. n + 1 PROVE r[j] \in Members(q) \cup {task}
  <2>1. CASE j < i
    <3>1. j \in 1 .. Len(q) /\ r[j] = q[j]
      BY <1>1, <1>3, <2>1
    <3> QED BY <3>1 DEF Members
  <2>2. CASE j = i
    BY <1>3, <2>2, <1>1
  <2>3. CASE i < j
    <3>1. j - 1 \in 1 .. Len(q) /\ r[j] = q[j - 1]
      BY <1>1, <1>3, <2>3
    <3> QED BY <3>1 DEF Members
  <2> QED BY <1>1, <2>1, <2>2, <2>3
<1>5. ASSUME NEW j \in 1 .. n PROVE \E k \in 1 .. n + 1 : r[k] = q[j]
  <2>1. CASE j < i
    <3>1. j \in 1 .. n + 1 /\ r[j] = q[j]
      BY <1>1, <1>3, <2>1
    <3> QED BY <3>1
  <2>2. CASE i <= j
    <3>1. j + 1 \in 1 .. n + 1 /\ r[j + 1] = q[j]
      BY <1>1, <1>3, <2>2
    <3> QED BY <3>1
  <2> QED BY <1>1, <2>1, <2>2
<1>6. r[i] = task
  BY <1>1, <1>3
<1>7. Members(r) \subseteq Members(q) \cup {task}
  BY <1>2, <1>4 DEF Members
<1>8. Members(q) \cup {task} \subseteq Members(r)
  BY <1>1, <1>2, <1>5, <1>6 DEF Members
<1> QED BY <1>7, <1>8 DEF r

(* The task that is shifted off is the most urgent of them.                     *)
LEMMA TailMembers ==
  ASSUME NEW q \in Seq(Task), q # << >>, Once(q), Sorted(q)
  PROVE  /\ Members(Tail(q)) = Members(q) \ {Head(q)}
         /\ Head(q) \in Members(q)
         /\ \A other \in Members(q) : Head(q).prio <= other.prio
<1>1. /\ Len(q) \in Nat \ {0}
      /\ Head(q) = q[1]
      /\ Len(Tail(q)) = Len(q) - 1
      /\ \A i \in 1 .. Len(q) - 1 : Tail(q)[i] = q[i + 1] /\ i + 1 \in 1 .. Len(q)
  OBVIOUS
<1>2. \A i, j \in 1 .. Len(q) : q[i].ticket = q[j].ticket => i = j
  BY DEF Once
<1>3. Head(q) \in Members(q)
  BY <1>1 DEF Members
<1>4. ASSUME NEW x \in Members(Tail(q)) PROVE x \in Members(q) /\ x # Head(q)
  <2>1. PICK i \in 1 .. Len(q) - 1 : x = q[i + 1] /\ i + 1 \in 1 .. Len(q)
    BY <1>1 DEF Members
  <2>2. x # q[1]
    BY <1>1, <1>2, <2>1
  <2> QED BY <1>1, <2>1, <2>2 DEF Members
<1>5. ASSUME NEW x \in Members(q), x # Head(q) PROVE x \in Members(Tail(q))
  <2>1. PICK i \in 1 .. Len(q) : x = q[i]
    BY DEF Members
  <2>2. i - 1 \in 1 .. Len(q) - 1
    BY <1>1, <1>5, <2>1
  <2>3. Tail(q)[i - 1] = x
    BY <1>1, <2>1, <2>2
  <2> QED BY <1>1, <2>2, <2>3 DEF Members
<1>6. ASSUME NEW x \in Members(q) PROVE Head(q).prio <= x.prio
  <2>1. PICK i \in 1 .. Len(q) : x = q[i]
    BY DEF Members
  <2>2. q[i].prio \in Int /\ q[1].prio \in Int
    BY <1>1, QueueElements
  <2>3. i = 1 \/ 1 < i
    BY <2>1
  <2> QED BY <1>1, <2>1, <2>2, <2>3 DEF Sorted
<1> QED BY <1>3, <1>4, <1>5, <1>6

LEMMA WithoutMembers ==
  ASSUME NEW q \in Seq(Task), NEW t
  PROVE  Members(Without(q, t)) = {task \in Members(q) : task.ticket # t}
<1> DEFINE K == {j \in 1 .. Len(q) : q[j].ticket # t}
           r == Keep(q, K)
<1>1. K \in SUBSET (1 .. Len(q)) /\ Without(q, t) = r /\ Len(q) \in Nat
  BY DEF Without
<1>2. /\ Cardinality(K) \in Nat
      /\ Len(r) = Cardinality(K)
      /\ \A i \in 1 .. Cardinality(K) : r[i] = q[KeptFrom(K, i)] /\ KeptFrom(K, i) \in K
      /\ \A j \in K : \E i \in 1 .. Cardinality(K) : KeptFrom(K, i) = j
  <2> HIDE DEF K
  <2> QED BY <1>1, KeepProperties
<1>3. \A j : j \in K <=> j \in 1 .. Len(q) /\ q[j].ticket # t
  OBVIOUS
<1> HIDE DEF K, r
<1>4. \A x \in Members(r) : x \in Members(q) /\ x.ticket # t
  BY <1>2, <1>3 DEF Members
<1>5. ASSUME NEW x \in Members(q), x.ticket # t PROVE x \in Members(r)
  <2>1. PICK j \in 1 .. Len(q) : x = q[j]
    BY DEF Members
  <2>2. PICK i \in 1 .. Cardinality(K) : KeptFrom(K, i) = j
    BY <1>2, <1>3, <1>5, <2>1
  <2> QED BY <1>2, <2>1, <2>2 DEF Members
<1> QED BY <1>1, <1>4, <1>5

-----------------------------------------------------------------------------
(***************************************************************************)
(* The closed forms are the loops of the source.  A loop is a recursive    *)
(* function of the number of its turns; that there is such a function, and *)
(* what it is after the last turn, is shown by induction over the turns.   *)
(***************************************************************************)
IsIndexLoop(f, q, task, n) ==
    f = [i \in 0 .. n |->
            IF i = 0 THEN Len(q) + 1
            ELSE IF f[i - 1] <= Len(q) THEN f[i - 1]
            ELSE IF task.prio < q[i].prio THEN i ELSE Len(q) + 1]

LEMMA IndexLoopExists ==
  ASSUME NEW S, NEW q \in Seq(S), NEW task
  PROVE  IsIndexLoop(IndexLoop(q, task), q, task, Len(q))
<1> DEFINE N == Len(q)
           After(x, i) == IF x <= N THEN x ELSE IF task.prio < q[i].prio THEN i ELSE N + 1
           Is(f, n) == f = [i \in 0 .. n |-> IF i = 0 THEN N + 1 ELSE After(f[i - 1], i)]
           Good == {n \in 0 .. N : \E f : Is(f, n)}
<1>0. \A f, n : IsIndexLoop(f, q, task, n) <=> Is(f, n)
  BY DEF IsIndexLoop
<1>1. N \in Nat
  OBVIOUS
<1> HIDE DEF N, After
<1>2. 0 \in Good
  <2> DEFINE g == [i \in 0 .. 0 |-> N + 1]
  <2>1. Is(g, 0)
    OBVIOUS
  <2> HIDE DEF g
  <2> QED BY <1>1, <2>1
<1>3. ASSUME NEW n \in 1 .. N, n - 1 \in Good PROVE n \in Good
  <2>1. PICK f : Is(f, n - 1)
    BY <1>3
  <2> DEFINE g == [i \in 0 .. n |-> IF i = n THEN After(f[n - 1], n) ELSE f[i]]
             h == [i \in 0 .. n |-> IF i = 0 THEN N + 1 ELSE After(g[i - 1], i)]
  <2>2. ASSUME NEW i \in 0 .. n PROVE g[i] = h[i]
    <3>1. CASE i = n
      <4>1. g[n - 1] = f[n - 1] /\ n # 0
        BY <1>1
      <4> HIDE DEF g
      <4>2. h[n] = After(g[n - 1], n)
        BY <1>1, <4>1
      <4> QED BY <1>1, <3>1, <4>1, <4>2 DEF g
    <3>2. CASE i # n /\ i = 0
      <4>1. f[0] = N + 1
        BY <1>1, <2>1
      <4> QED BY <1>1, <3>2, <4>1
    <3>3. CASE i # n /\ i # 0
      <4>1. i \in 0 .. n - 1 /\ i - 1 \in 0 .. n /\ i - 1 # n
        BY <1>1, <3>3
      <4>2. f[i] = After(f[i - 1], i)
        BY <2>1, <3>3, <4>1
      <4>3. g[i - 1] = f[i - 1] /\ g[i] = f[i]
        BY <3>3, <4>1
      <4> HIDE DEF g
      <4>4. h[i] = After(g[i - 1], i)
        BY <3>3
      <4> QED BY <4>2, <4>3, <4>4
    <3> QED BY <3>1, <3>2, <3>3
  <2>3. Is(g, n)
    BY <2>2
  <2> HIDE DEF g
  <2> QED BY <1>1, <2>3
<1>4. N \in Good
  <2>1. \A n \in 0 .. N : n \in Good
    <3> HIDE DEF Good
    <3> QED BY <1>1, <1>2, <1>3, UpTo
  <2> QED BY <1>1, <2>1
<1>5. \E f : IsIndexLoop(f, q, task, N)
  BY <1>0, <1>4
<1> QED BY <1>5, Zenon DEF IndexLoop, IsIndexLoop, N

(* enqueue(): the index the loop ends with is the closed form's, and the splice *)
(* at it is the closed form.                                                    *)
LEMMA EnqueueIsLoop ==
  ASSUME NEW q \in Seq(Task), NEW task \in Task
  PROVE  Enqueue(q, task) = EnqueueLoop(q, task)
<1> DEFINE n == Len(q)
           f == IndexLoop(q, task)
           k == f[n]
<1>1. /\ n \in Nat /\ task.prio \in Int
      /\ \A j \in 1 .. n : q[j] \in Task /\ q[j].prio \in Int
  BY QueueElements
<1>2. f = [i \in 0 .. n |->
              IF i = 0 THEN n + 1
              ELSE IF f[i - 1] <= n THEN f[i - 1]
              ELSE IF task.prio < q[i].prio THEN i ELSE n + 1]
  BY IndexLoopExists DEF IsIndexLoop
<1> HIDE DEF f
<1> DEFINE Before(i) == \A j \in 1 .. i : q[j].prio <= task.prio
           Found(x, i) == /\ x \in 1 .. i /\ task.prio < q[x].prio
                          /\ \A j \in 1 .. x - 1 : q[j].prio <= task.prio
           Ok == {i \in 0 .. n : (f[i] = n + 1 /\ Before(i)) \/ Found(f[i], i)}
<1>3. 0 \in Ok
  BY <1>1, <1>2
<1>4. ASSUME NEW i \in 1 .. n, i - 1 \in Ok PROVE i \in Ok
  <2>0. i \in 0 .. n /\ i # 0 /\ i - 1 \in 0 .. n
    BY <1>1
  <2>1. f[i] = IF f[i - 1] <= n THEN f[i - 1] ELSE IF task.prio < q[i].prio THEN i ELSE n + 1
    BY <1>2, <2>0
  <2>2. CASE Found(f[i - 1], i - 1)
    BY <1>1, <2>0, <2>1, <2>2
  <2>3. CASE f[i - 1] = n + 1 /\ Before(i - 1)
    <3>1. f[i] = IF task.prio < q[i].prio THEN i ELSE n + 1
      BY <1>1, <2>1, <2>3
    <3>2. CASE task.prio < q[i].prio
      BY <1>1, <2>0, <2>3, <3>1, <3>2
    <3>3. CASE ~ (task.prio < q[i].prio)
      BY <1>1, <2>0, <2>3, <3>1, <3>3
    <3> QED BY <3>2, <3>3
  <2> QED BY <1>4, <2>2, <2>3
<1>5. n \in Ok
  <2>1. \A i \in 0 .. n : i \in Ok
    <3> HIDE DEF Ok
    <3> QED BY <1>1, <1>3, <1>4, UpTo
  <2> QED BY <1>1, <2>1
<1>6. IsInsertIndex(q, task, k)
  <2>1. CASE f[n] = n + 1 /\ Before(n)
    BY <1>1, <2>1 DEF IsInsertIndex
  <2>2. CASE Found(f[n], n)
    BY <1>1, <2>2 DEF IsInsertIndex
  <2> QED BY <1>5, <2>1, <2>2
<1>7. k = InsertIndex(q, task) /\ k \in 1 .. n + 1
  BY <1>6, InsertIndexUnique DEF IsInsertIndex
<1> HIDE DEF k
<1> DEFINE r == Enqueue(q, task)
           a == SubSeq(q, 1, k - 1)
           b == SubSeq(q, k, n)
           s == a \o <<task>> \o b
<1>8. r = [j \in 1 .. n + 1 |-> IF j < k THEN q[j] ELSE IF j = k THEN task ELSE q[j - 1]]
  BY <1>7 DEF Enqueue
<1>9. /\ a \in Seq(Task) /\ Len(a) = k - 1 /\ \A j \in 1 .. k - 1 : a[j] = q[j]
      /\ b \in Seq(Task) /\ Len(b) = n + 1 - k /\ \A j \in 1 .. n + 1 - k : b[j] = q[k + j - 1]
  BY <1>1, <1>7, SubSeqProperties
<1> HIDE DEF a, b, n
<1>10. /\ s \in Seq(Task) /\ Len(s) = n + 1
       /\ \A j \in 1 .. n + 1 : s[j] = IF j < k THEN q[j] ELSE IF j = k THEN task ELSE q[j - 1]
  <2>1. s = (a \o <<task>>) \o b /\ <<task>> \in Seq(Task) /\ Len(<<task>>) = 1 /\ <<task>>[1] = task
    OBVIOUS
  <2> DEFINE c == a \o <<task>>
  <2>2. c \in Seq(Task) /\ Len(c) = k /\ \A j \in 1 .. k : c[j] = IF j < k THEN q[j] ELSE task
    BY <1>1, <1>7, <1>9, <2>1
  <2> HIDE DEF c
  <2>3. /\ c \o b \in Seq(Task)
        /\ Len(c \o b) = Len(c) + Len(b)
        /\ \A j \in 1 .. Len(c) + Len(b) : (c \o b)[j] = IF j <= Len(c) THEN c[j] ELSE b[j - Len(c)]
    BY <1>9, <2>2, ConcatProperties
  <2> DEFINE w == c \o b
  <2> HIDE DEF w
  <2>4. Len(c) = k /\ Len(b) = n + 1 - k /\ k + (n + 1 - k) = n + 1
    BY <1>1, <1>7, <1>9, <2>2
  <2>5. w \in Seq(Task) /\ Len(w) = n + 1
    BY <2>3, <2>4 DEF w
  <2>6. \A j \in 1 .. n + 1 : w[j] = IF j <= k THEN c[j] ELSE b[j - k]
    BY <2>3, <2>4 DEF w
  <2>7. ASSUME NEW j \in 1 .. n + 1
        PROVE  w[j] = IF j < k THEN q[j] ELSE IF j = k THEN task ELSE q[j - 1]
    <3>0. k \in Nat /\ j \in Nat
      BY <1>1, <1>7
    <3>1. CASE j < k
      BY <2>2, <2>6, <3>0, <3>1
    <3>2. CASE j = k
      BY <1>7, <2>2, <2>6, <3>0, <3>2
    <3>3. CASE j > k
      <4>1. j - k \in 1 .. n + 1 - k /\ k + (j - k) - 1 = j - 1
        BY <1>1, <1>7, <3>3
      <4>2. b[j - k] = q[j - 1]
        BY <1>9, <4>1
      <4> QED BY <2>6, <3>0, <3>3, <4>2
    <3> QED BY <3>0, <3>1, <3>2, <3>3
  <2> QED BY <2>5, <2>7 DEF c, w
<1>11. s = r
  <2> HIDE DEF s, r
  <2>1. s = [j \in 1 .. n + 1 |-> s[j]]
    BY <1>10
  <2> QED BY <1>8, <1>10, <2>1
<1>12. EnqueueLoop(q, task) = s
  BY DEF EnqueueLoop, Spliced, k, n, f, a, b
<1> QED BY <1>11, <1>12

IsFilterLoop(f, q, t, n) ==
    f = [i \in 0 .. n |->
            IF i = 0 THEN << >>
            ELSE IF q[i].ticket # t THEN Append(f[i - 1], q[i]) ELSE f[i - 1]]

LEMMA FilterLoopExists ==
  ASSUME NEW S, NEW q \in Seq(S), NEW t
  PROVE  IsFilterLoop(FilterLoop(q, t), q, t, Len(q))
<1> DEFINE N == Len(q)
           After(x, i) == IF q[i].ticket # t THEN Append(x, q[i]) ELSE x
           Is(f, n) == f = [i \in 0 .. n |-> IF i = 0 THEN << >> ELSE After(f[i - 1], i)]
           Good == {n \in 0 .. N : \E f : Is(f, n)}
<1>0. \A f, n : IsFilterLoop(f, q, t, n) <=> Is(f, n)
  BY DEF IsFilterLoop
<1>1. N \in Nat
  OBVIOUS
<1> HIDE DEF N, After
<1>2. 0 \in Good
  <2> DEFINE g == [i \in 0 .. 0 |-> << >>]
  <2>1. Is(g, 0)
    OBVIOUS
  <2> HIDE DEF g
  <2> QED BY <1>1, <2>1
<1>3. ASSUME NEW n \in 1 .. N, n - 1 \in Good PROVE n \in Good
  <2>1. PICK f : Is(f, n - 1)
    BY <1>3
  <2> DEFINE g == [i \in 0 .. n |-> IF i = n THEN After(f[n - 1], n) ELSE f[i]]
             h == [i \in 0 .. n |-> IF i = 0 THEN << >> ELSE After(g[i - 1], i)]
  <2>2. ASSUME NEW i \in 0 .. n PROVE g[i] = h[i]
    <3>1. CASE i = n
      <4>1. g[n - 1] = f[n - 1] /\ n # 0
        BY <1>1
      <4> HIDE DEF g
      <4>2. h[n] = After(g[n - 1], n)
        BY <1>1, <4>1
      <4> QED BY <1>1, <3>1, <4>1, <4>2 DEF g
    <3>2. CASE i # n /\ i = 0
      <4>1. f[0] = << >>
        BY <1>1, <2>1
      <4> QED BY <1>1, <3>2, <4>1
    <3>3. CASE i # n /\ i # 0
      <4>1. i \in 0 .. n - 1 /\ i - 1 \in 0 .. n /\ i - 1 # n
        BY <1>1, <3>3
      <4>2. f[i] = After(f[i - 1], i)
        BY <2>1, <3>3, <4>1
      <4>3. g[i - 1] = f[i - 1] /\ g[i] = f[i]
        BY <3>3, <4>1
      <4> HIDE DEF g
      <4>4. h[i] = After(g[i - 1], i)
        BY <3>3
      <4> QED BY <4>2, <4>3, <4>4
    <3> QED BY <3>1, <3>2, <3>3
  <2>3. Is(g, n)
    BY <2>2
  <2> HIDE DEF g
  <2> QED BY <1>1, <2>3
<1>4. N \in Good
  <2>1. \A n \in 0 .. N : n \in Good
    <3> HIDE DEF Good
    <3> QED BY <1>1, <1>2, <1>3, UpTo
  <2> QED BY <1>1, <2>1
<1>5. \E f : IsFilterLoop(f, q, t, N)
  BY <1>0, <1>4
<1> QED BY <1>5, Zenon DEF FilterLoop, IsFilterLoop, N

(* filter: after i elements it has collected the first Rank(K, i) elements of   *)
(* the closed form, K being the positions it keeps.                             *)
LEMMA WithoutIsLoop ==
  ASSUME NEW q \in Seq(Task), NEW t
  PROVE  Without(q, t) = FilterLoop(q, t)[Len(q)]
<1> DEFINE n == Len(q)
           f == FilterLoop(q, t)
           K == {j \in 1 .. n : q[j].ticket # t}
           r == Keep(q, K)
<1>1. n \in Nat /\ K \in SUBSET (1 .. n) /\ \A i \in 1 .. n : q[i] \in Task /\ (i \in K <=> q[i].ticket # t)
  OBVIOUS
<1>2. Without(q, t) = r
  BY DEF Without
<1>3. f = [i \in 0 .. n |->
              IF i = 0 THEN << >>
              ELSE IF q[i].ticket # t THEN Append(f[i - 1], q[i]) ELSE f[i - 1]]
  BY FilterLoopExists DEF IsFilterLoop
<1>4. /\ r \in Seq(Task) /\ Len(r) = Cardinality(K) /\ Cardinality(K) \in Nat
      /\ \A i \in 1 .. Cardinality(K) : r[i] = q[KeptFrom(K, i)]
  <2> HIDE DEF K
  <2> QED BY <1>1, KeepProperties
<1>5. /\ Rank(K, 0) = 0 /\ Rank(K, n) = Cardinality(K)
      /\ \A j \in Nat : Rank(K, j) \in Nat
      /\ \A j \in Nat : Rank(K, j + 1) = IF j + 1 \in K THEN Rank(K, j) + 1 ELSE Rank(K, j)
  <2> HIDE DEF K
  <2> QED BY <1>1, RankStep
<1>6. \A i \in K : /\ Rank(K, i) \in 1 .. Cardinality(K)
                   /\ KeptFrom(K, Rank(K, i)) = i
  <2> HIDE DEF K
  <2> SUFFICES ASSUME NEW i \in K
               PROVE  Rank(K, i) \in 1 .. Cardinality(K) /\ KeptFrom(K, Rank(K, i)) = i
    OBVIOUS
  <2>1. /\ Rank(K, i) \in 1 .. Cardinality(K)
        /\ \A k \in K : Rank(K, k) = Rank(K, i) => k = i
    BY <1>1, RankInjective
  <2>2. KeptFrom(K, Rank(K, i)) \in K /\ Rank(K, KeptFrom(K, Rank(K, i))) = Rank(K, i)
    BY <1>1, <2>1, KeptFromProperties
  <2> QED BY <2>1, <2>2
<1> HIDE DEF f, K, r, n
<1> DEFINE Ok(x, c) == x \in Seq(Task) /\ Len(x) = c /\ \A k \in 1 .. c : x[k] = r[k]
           Fine == {i \in 0 .. n : Ok(f[i], Rank(K, i))}
<1>7. 0 \in Fine
  BY <1>1, <1>3, <1>5
<1>8. ASSUME NEW i \in 1 .. n, i - 1 \in Fine PROVE i \in Fine
  <2>0. i \in 0 .. n /\ i # 0 /\ i - 1 \in Nat /\ (i - 1) + 1 = i
    BY <1>1
  <2> DEFINE c == Rank(K, i - 1)
             x == f[i - 1]
  <2>1. Ok(x, c) /\ c \in Nat
    BY <1>5, <1>8, <2>0
  <2>2. Rank(K, i) = IF i \in K THEN c + 1 ELSE c
    BY <1>5, <2>0
  <2>3. f[i] = IF q[i].ticket # t THEN Append(x, q[i]) ELSE x
    BY <1>3, <2>0
  <2> HIDE DEF c, x
  <2>4. CASE i \in K
    <3>1. Rank(K, i) = c + 1 /\ f[i] = Append(x, q[i]) /\ q[i] \in Task
      BY <1>1, <2>2, <2>3, <2>4
    <3>2. r[c + 1] = q[i]
      BY <1>4, <1>6, <2>4, <3>1
    <3>3. /\ Append(x, q[i]) \in Seq(Task) /\ Len(Append(x, q[i])) = c + 1
          /\ Append(x, q[i])[c + 1] = q[i]
          /\ \A k \in 1 .. c : Append(x, q[i])[k] = x[k]
      BY <2>1, <3>1
    <3>4. Ok(Append(x, q[i]), c + 1)
      BY <2>1, <3>2, <3>3
    <3> HIDE DEF Ok
    <3> QED BY <2>0, <3>1, <3>4
  <2>5. CASE i \notin K
    <3>1. Rank(K, i) = c /\ f[i] = x
      BY <1>1, <2>2, <2>3, <2>5
    <3> HIDE DEF Ok
    <3> QED BY <2>0, <2>1, <3>1
  <2> QED BY <2>4, <2>5
<1>9. n \in Fine
  <2>1. \A i \in 0 .. n : i \in Fine
    <3> HIDE DEF Fine
    <3> QED BY <1>1, <1>7, <1>8, UpTo
  <2> QED BY <1>1, <2>1
<1>10. /\ f[n] \in Seq(Task) /\ Len(f[n]) = Cardinality(K)
       /\ \A k \in 1 .. Cardinality(K) : f[n][k] = r[k]
  BY <1>5, <1>9
<1> DEFINE x == f[n]
<1>11. x = r
  <2>0. /\ x \in Seq(Task) /\ Len(x) = Cardinality(K)
        /\ \A k \in 1 .. Cardinality(K) : x[k] = r[k]
    BY <1>10
  <2> HIDE DEF x
  <2>1. x = [k \in 1 .. Cardinality(K) |-> x[k]]
    BY <1>4, <2>0
  <2>2. r = [k \in 1 .. Cardinality(K) |-> r[k]]
    BY <1>4
  <2>3. [k \in 1 .. Cardinality(K) |-> x[k]] = [k \in 1 .. Cardinality(K) |-> r[k]]
    BY <2>0
  <2> QED BY <2>1, <2>2, <2>3
<1> QED BY <1>2, <1>11 DEF f, n
=============================================================================
