--------------------------- MODULE SchedOpsProofs ---------------------------
(***************************************************************************)
(* What the operators of SchedOps do to an arbitrary kernel record: one    *)
(* lemma per C function, then one per kernel entry, that is, per           *)
(* composition of functions an action of Sched, Disk or Keyboard consists  *)
(* of.  The proofs about those modules start from here.                    *)
(***************************************************************************)
EXTENDS SchedOps, SequenceTheorems, WellFoundedInduction, TLAPS

-----------------------------------------------------------------------------
(* Sequences and numbers *)

\* A set of naturals that is not empty has a least element: the list walk of
\* insert_task_queue stops somewhere.
LEMMA LeastNat ==
  ASSUME NEW T, T \subseteq Nat, T # {}
  PROVE  \E x \in T : \A y \in T : x <= y
<1>1. PICK x \in T : \A y \in T : ~(<<y, x>> \in OpToRel(<, Nat))
  BY WFMin, NatLessThanWellFounded, Zenon
<1>2. \A y \in T : ~(y < x)
  BY <1>1 DEF OpToRel
<1> QED
  BY <1>2

\* What linking an entry into a list at position i does to its entries.
LEMMA InsertAtProperties ==
  ASSUME NEW S, NEW q \in Seq(S), NEW e \in S, NEW i \in 1..(Len(q) + 1)
  PROVE  /\ InsertAt(q, i, e) \in Seq(S)
         /\ Len(InsertAt(q, i, e)) = Len(q) + 1
         /\ \A j \in 1..(Len(q) + 1) :
              InsertAt(q, i, e)[j] = IF j < i THEN q[j] ELSE IF j = i THEN e ELSE q[j - 1]
<1> DEFINE a == SubSeq(q, 1, i - 1)
           b == SubSeq(q, i, Len(q))
           ae == a \o <<e>>
<1>1. a \in Seq(S) /\ Len(a) = i - 1 /\ \A j \in 1..(i - 1) : a[j] = q[j]
  BY SubSeqProperties
<1>2. b \in Seq(S) /\ Len(b) = Len(q) + 1 - i /\ \A j \in 1..(Len(q) + 1 - i) : b[j] = q[i + j - 1]
  BY SubSeqProperties
<1>3. ae \in Seq(S) /\ Len(ae) = i /\ \A j \in 1..i : ae[j] = IF j < i THEN q[j] ELSE e
  <2> HIDE DEF a
  <2> QED BY <1>1
<1>4. InsertAt(q, i, e) = ae \o b
  BY DEF InsertAt
<1> HIDE DEF a, b, ae
<1>5. /\ ae \o b \in Seq(S)
      /\ Len(ae \o b) = Len(ae) + Len(b)
      /\ \A j \in 1..(Len(ae) + Len(b)) :
           (ae \o b)[j] = IF j <= Len(ae) THEN ae[j] ELSE b[j - Len(ae)]
  BY <1>2, <1>3, ConcatProperties, Zenon
<1>6. ASSUME NEW j \in 1..(Len(q) + 1)
      PROVE  (ae \o b)[j] = IF j < i THEN q[j] ELSE IF j = i THEN e ELSE q[j - 1]
  <2>1. (ae \o b)[j] = IF j <= i THEN ae[j] ELSE b[j - i]
    BY <1>2, <1>3, <1>5
  <2>2. CASE j <= i
    BY <2>1, <2>2, <1>3
  <2>3. CASE j > i
    <3>1. j - i \in 1..(Len(q) + 1 - i) /\ i + (j - i) - 1 = j - 1
      BY <2>3
    <3>2. b[j - i] = q[j - 1]
      BY <3>1, <1>2
    <3> QED BY <2>1, <2>3, <3>2
  <2>4. j <= i \/ j > i
    OBVIOUS
  <2> QED BY <2>2, <2>3, <2>4, Zenon
<1>7. Len(ae \o b) = Len(q) + 1
  BY <1>2, <1>3, <1>5
<1> QED
  BY <1>4, <1>5, <1>6, <1>7, Zenon

-----------------------------------------------------------------------------
(* The run queue *)

Ordered(q, v) == \A a, b \in 1..Len(q) : a < b => v[q[a]] <= v[q[b]]

Distinct(q) == \A a, b \in 1..Len(q) : q[a] = q[b] => a = b

\* i is the place the list walk of insert_task_queue finds for t.
Fits(q, v, t, i) ==
  /\ i \in 1..(Len(q) + 1)
  /\ \A j \in 1..(i - 1) : v[q[j]] < v[t]
  /\ i <= Len(q) => v[q[i]] >= v[t]

\* The place exists.
LEMMA FitExists ==
  ASSUME NEW q \in RunQueues, NEW v \in VrunTimes, NEW t \in Tasks
  PROVE  \E i \in 1..(Len(q) + 1) : Fits(q, v, t, i)
<1> DEFINE n == Len(q)
           T == {i \in 1..(n + 1) : i <= n => v[q[i]] >= v[t]}
<1>0. /\ n \in Nat
      /\ \A j \in 1..n : q[j] \in Tasks
      /\ \A u \in Tasks : v[u] \in Nat
  BY DEF RunQueues, VrunTimes
<1>1. n + 1 \in T
  BY <1>0
<1>2. PICK x \in T : \A y \in T : x <= y
  <2>1. T \subseteq Nat /\ T # {}
    BY <1>0, <1>1
  <2> HIDE DEF T
  <2> QED BY <2>1, LeastNat, Zenon
<1>3. ASSUME NEW j \in 1..(x - 1) PROVE v[q[j]] < v[t]
  <2>1. j \in 1..n /\ ~(x <= j)
    BY <1>0, <1>2
  <2>2. j \notin T
    BY <1>2, <2>1
  <2>3. ~(v[q[j]] >= v[t])
    BY <2>1, <2>2, <1>0
  <2> QED BY <2>1, <2>3, <1>0
<1> QED
  BY <1>2, <1>3 DEF Fits

\* The CHOOSE of InsertPoint denotes a position where the walk stops.
LEMMA InsertPointFits ==
  ASSUME NEW k \in KernelType, NEW t \in Tasks
  PROVE  Fits(k.queue, k.vrun, t, InsertPoint(k, t))
<1>1. k.queue \in RunQueues /\ k.vrun \in VrunTimes
  BY DEF KernelType
<1>2. \E i \in 1..(Len(k.queue) + 1) : Fits(k.queue, k.vrun, t, i)
  BY <1>1, FitExists, Zenon
<1>3. InsertPoint(k, t) = CHOOSE i \in 1..(Len(k.queue) + 1) :
        /\ \A j \in 1..(i - 1) : k.vrun[k.queue[j]] < k.vrun[t]
        /\ i <= Len(k.queue) => k.vrun[k.queue[i]] >= k.vrun[t]
  BY DEF InsertPoint
<1> QED
  BY <1>2, <1>3, Zenon DEF Fits

\* Linking an entry in front of the first one that is not smaller keeps a list
\* sorted and free of duplicates, and adds nothing else to it.
LEMMA InsertSorted ==
  ASSUME NEW q \in RunQueues, NEW v \in VrunTimes, NEW t \in Tasks, NEW i,
         Fits(q, v, t, i), Ordered(q, v), Distinct(q), ~Contains(q, t)
  PROVE  /\ InsertAt(q, i, t) \in RunQueues
         /\ Len(InsertAt(q, i, t)) = Len(q) + 1
         /\ Ordered(InsertAt(q, i, t), v)
         /\ Distinct(InsertAt(q, i, t))
         /\ \A u \in Tasks : Contains(InsertAt(q, i, t), u) <=> Contains(q, u) \/ u = t
<1> DEFINE r == InsertAt(q, i, t)
<1>0. /\ Len(q) \in Nat /\ i \in 1..(Len(q) + 1)
      /\ \A j \in 1..Len(q) : q[j] \in Tasks
      /\ \A u \in Tasks : v[u] \in Nat
  BY DEF Fits, RunQueues, VrunTimes
<1>1. /\ \A a, b \in 1..Len(q) : a < b => v[q[a]] <= v[q[b]]
      /\ \A a, b \in 1..Len(q) : q[a] = q[b] => a = b
      /\ \A a \in 1..Len(q) : q[a] # t
  BY DEF Ordered, Distinct, Contains
<1>2. /\ r \in Seq(Tasks)
      /\ Len(r) = Len(q) + 1
      /\ \A j \in 1..(Len(q) + 1) : r[j] = IF j < i THEN q[j] ELSE IF j = i THEN t ELSE q[j - 1]
  <2>1. q \in Seq(Tasks)
    BY DEF RunQueues
  <2>2. i \in 1..(Len(q) + 1)
    BY <1>0
  <2> QED BY <2>1, <2>2, InsertAtProperties
<1> HIDE DEF r
<1>3. /\ \A j \in 1..Len(q) : j < i => v[q[j]] < v[t]
      /\ \A j \in 1..Len(q) : j >= i => v[q[j]] >= v[t]
  <2>1. ASSUME NEW j \in 1..Len(q), j < i PROVE v[q[j]] < v[t]
    <3>1. j \in 1..(i - 1)
      BY <2>1, <1>0
    <3> QED BY <3>1 DEF Fits
  <2>2. ASSUME NEW j \in 1..Len(q), j >= i PROVE v[q[j]] >= v[t]
    <3>1. i \in 1..Len(q) /\ v[q[i]] >= v[t]
      BY <2>2, <1>0 DEF Fits
    <3>2. j = i \/ v[q[i]] <= v[q[j]]
      BY <2>2, <3>1, <1>0, <1>1
    <3>3. v[q[i]] \in Nat /\ v[q[j]] \in Nat /\ v[t] \in Nat
      BY <3>1, <1>0
    <3> QED BY <3>1, <3>2, <3>3
  <2> QED BY <2>1, <2>2
<1>4. ASSUME NEW j \in 1..Len(r)
      PROVE  \/ j < i /\ j \in 1..Len(q) /\ r[j] = q[j]
             \/ j = i /\ r[j] = t
             \/ j > i /\ j - 1 \in 1..Len(q) /\ r[j] = q[j - 1]
  <2>1. r[j] = IF j < i THEN q[j] ELSE IF j = i THEN t ELSE q[j - 1]
    BY <1>2
  <2>2. /\ j < i => j \in 1..Len(q)
        /\ j > i => j - 1 \in 1..Len(q)
        /\ j < i \/ j = i \/ j > i
    BY <1>0, <1>2
  <2>3. j > i => ~(j < i) /\ j # i
    BY <1>0, <1>2
  <2> QED BY <2>1, <2>2, <2>3, Zenon
<1>5. ASSUME NEW a \in 1..Len(r), NEW b \in 1..Len(r), a < b
      PROVE  v[r[a]] <= v[r[b]] /\ r[a] # r[b]
  <2>0. a \in Int /\ b \in Int /\ i \in Int
    BY <1>0, <1>2
  <2>1. CASE b < i
    <3>1. a \in 1..Len(q) /\ b \in 1..Len(q) /\ r[a] = q[a] /\ r[b] = q[b] /\ a # b
      BY <2>0, <2>1, <1>4, <1>5
    <3>2. v[q[a]] <= v[q[b]] /\ q[a] # q[b]
      BY <3>1, <1>1, <1>5
    <3> QED BY <3>1, <3>2
  <2>2. CASE b = i
    <3>1. a \in 1..Len(q) /\ r[a] = q[a] /\ r[b] = t /\ a < i
      BY <2>0, <2>2, <1>4, <1>5
    <3>2. v[q[a]] < v[t] /\ q[a] # t /\ v[q[a]] \in Nat /\ v[t] \in Nat
      BY <3>1, <1>0, <1>1, <1>3
    <3> QED BY <3>1, <3>2
  <2>3. CASE a < i /\ b > i
    <3>1. a \in 1..Len(q) /\ b - 1 \in 1..Len(q) /\ r[a] = q[a] /\ r[b] = q[b - 1]
      BY <2>0, <2>3, <1>4
    <3>2. a < b - 1 /\ a # b - 1
      BY <2>0, <2>3
    <3>3. v[q[a]] <= v[q[b - 1]] /\ q[a] # q[b - 1]
      BY <3>1, <3>2, <1>1, Zenon
    <3> QED BY <3>1, <3>3
  <2>4. CASE a = i
    <3>1. b - 1 \in 1..Len(q) /\ r[b] = q[b - 1] /\ b - 1 >= i /\ r[a] = t
      BY <2>0, <2>4, <1>4, <1>5
    <3>2. v[q[b - 1]] >= v[t] /\ q[b - 1] # t /\ v[q[b - 1]] \in Nat /\ v[t] \in Nat
      BY <3>1, <1>0, <1>1, <1>3
    <3> QED BY <3>1, <3>2
  <2>5. CASE a > i
    <3>1. /\ a - 1 \in 1..Len(q) /\ b - 1 \in 1..Len(q) /\ r[a] = q[a - 1] /\ r[b] = q[b - 1]
      BY <2>0, <2>5, <1>4, <1>5
    <3>2. a - 1 < b - 1 /\ a - 1 # b - 1
      BY <2>0, <1>5
    <3>3. v[q[a - 1]] <= v[q[b - 1]] /\ q[a - 1] # q[b - 1]
      BY <3>1, <3>2, <1>1, Zenon
    <3> QED BY <3>1, <3>3
  <2> QED BY <2>0, <2>1, <2>2, <2>3, <2>4, <2>5
<1>6. Distinct(r)
  <2> SUFFICES ASSUME NEW a \in 1..Len(r), NEW b \in 1..Len(r), r[a] = r[b], a # b
               PROVE  FALSE
    BY DEF Distinct
  <2>1. a < b \/ b < a
    BY <1>0, <1>2
  <2> QED BY <2>1, <1>5
<1>7. ASSUME NEW u \in Tasks PROVE Contains(r, u) <=> Contains(q, u) \/ u = t
  <2>1. ASSUME Contains(r, u) PROVE Contains(q, u) \/ u = t
    <3>1. PICK j \in 1..Len(r) : r[j] = u
      BY <2>1 DEF Contains
    <3> QED BY <3>1, <1>4 DEF Contains
  <2>2. ASSUME u = t PROVE Contains(r, u)
    <3>1. i \in 1..Len(r) /\ i \in 1..(Len(q) + 1) /\ ~(i < i)
      BY <1>0, <1>2
    <3>2. r[i] = t
      BY <3>1, <1>2
    <3> QED BY <2>2, <3>1, <3>2 DEF Contains
  <2>3. ASSUME Contains(q, u) PROVE Contains(r, u)
    <3>1. PICK j \in 1..Len(q) : q[j] = u
      BY <2>3 DEF Contains
    <3>2. CASE j < i
      <4>1. j \in 1..Len(r) /\ j \in 1..(Len(q) + 1)
        BY <1>0, <1>2
      <4>2. r[j] = q[j]
        BY <4>1, <3>2, <1>2, Zenon
      <4> QED BY <3>1, <4>1, <4>2 DEF Contains
    <3>3. CASE j >= i
      <4>1. PICK m \in Int : m = j + 1
        OBVIOUS
      <4>2. m \in 1..Len(r) /\ m \in 1..(Len(q) + 1) /\ ~(m < i) /\ m # i /\ m - 1 = j
        BY <3>3, <4>1, <1>0, <1>2
      <4>3. r[m] = q[m - 1]
        BY <4>2, <1>2, Zenon
      <4> QED BY <3>1, <4>2, <4>3 DEF Contains
    <3> QED BY <3>2, <3>3, <1>0
  <2> QED BY <2>1, <2>2, <2>3
<1>8. Ordered(r, v)
  BY <1>5 DEF Ordered
<1>9. r \in RunQueues
  BY <1>2 DEF RunQueues
<1> QED
  BY <1>2, <1>6, <1>7, <1>8, <1>9, Zenon DEF r

\* The list is well formed, whatever it contains.
QueueOK(k) ==
  /\ k \in KernelType
  /\ k.count = Len(k.queue) + 1
  /\ Ordered(k.queue, k.vrun)
  /\ Distinct(k.queue)

\* Two records that differ in the run queue and its counter only.
SameTasks(k, k2) ==
  /\ k2.slice = k.slice /\ k2.vrun = k.vrun /\ k2.state = k.state
  /\ k2.need = k.need /\ k2.current = k.current /\ k2.wait = k.wait

\* insert_task_queue on a list that does not contain the task yet: only the
\* list and its counter change, and the list stays well formed.
LEMMA InsertTaskQueue ==
  ASSUME NEW k, QueueOK(k), NEW t \in Tasks, t # Idle, ~Contains(k.queue, t),
         NEW k2, k2 = insert_task_queue(k, t)
  PROVE  /\ QueueOK(k2)
         /\ SameTasks(k, k2)
         /\ \A u \in Tasks : Contains(k2.queue, u) <=> Contains(k.queue, u) \/ u = t
<1> DEFINE i == InsertPoint(k, t)
           r == InsertAt(k.queue, i, t)
<1>0. /\ k \in KernelType /\ k.queue \in RunQueues /\ k.count = Len(k.queue) + 1
      /\ k.vrun \in VrunTimes /\ Ordered(k.queue, k.vrun) /\ Distinct(k.queue)
  BY DEF QueueOK, KernelType
<1>1. Fits(k.queue, k.vrun, t, i)
  BY <1>0, InsertPointFits, Zenon
<1>2. k2 = [k EXCEPT !.queue = r, !.count = k.count + 1]
  BY DEF insert_task_queue
<1>3. /\ r \in RunQueues
      /\ Len(r) = Len(k.queue) + 1
      /\ Ordered(r, k.vrun)
      /\ Distinct(r)
      /\ \A u \in Tasks : Contains(r, u) <=> Contains(k.queue, u) \/ u = t
  BY <1>0, <1>1, InsertSorted, Zenon
<1> HIDE DEF i, r
<1>4. k.count + 1 \in Int /\ k.count + 1 = Len(r) + 1
  BY <1>0, <1>3 DEF KernelType
<1>5. /\ k2 \in KernelType /\ k2.queue = r /\ k2.count = k.count + 1
      /\ SameTasks(k, k2)
  BY <1>0, <1>2, <1>3, <1>4 DEF KernelType, SameTasks
<1>6. k2.vrun = k.vrun
  BY <1>5 DEF SameTasks
<1> QED
  BY <1>3, <1>4, <1>5, <1>6 DEF QueueOK

\* The same for any task: the idle task is never linked.
LEMMA InsertAnyTask ==
  ASSUME NEW k, QueueOK(k), NEW t \in Tasks, ~Contains(k.queue, t),
         NEW k2, k2 = insert_task_queue(k, t)
  PROVE  /\ QueueOK(k2)
         /\ SameTasks(k, k2)
         /\ \A u \in Tasks : Contains(k2.queue, u) <=> Contains(k.queue, u) \/ (u = t /\ t # Idle)
<1>1. CASE t = Idle
  <2>1. k2 = k
    BY <1>1 DEF insert_task_queue
  <2> QED BY <1>1, <2>1, Zenon DEF SameTasks
<1>2. CASE t # Idle
  BY <1>2, InsertTaskQueue, Zenon
<1> QED BY <1>1, <1>2, Zenon

\* Taking the first entry off the list.
LEMMA DequeueHead ==
  ASSUME NEW k, QueueOK(k), k.queue # <<>>,
         NEW k2, k2 = dequeue(k), NEW h, h = Head(k.queue)
  PROVE  /\ QueueOK(k2) /\ SameTasks(k, k2)
         /\ h \in Tasks /\ Contains(k.queue, h)
         /\ \A u \in Tasks : Contains(k2.queue, u) <=> Contains(k.queue, u) /\ u # h
         /\ \A u \in Tasks : Contains(k2.queue, u) => k.vrun[h] <= k.vrun[u]
<1> DEFINE q == k.queue
           r == Tail(k.queue)
<1>0. /\ k \in KernelType /\ q \in Seq(Tasks) /\ k.vrun \in VrunTimes
      /\ k.count = Len(q) + 1 /\ k.count \in Int
  BY DEF QueueOK, KernelType, RunQueues
<1>1. /\ r \in Seq(Tasks) /\ Len(r) = Len(q) - 1 /\ Len(q) \in Nat /\ Len(q) >= 1
      /\ \A j \in 1..Len(r) : r[j] = q[j + 1]
      /\ h = q[1] /\ h \in Tasks
  BY <1>0
<1>2. k2 = [k EXCEPT !.queue = r, !.count = k.count - 1]
  BY DEF dequeue
<1>3. /\ \A a, b \in 1..Len(q) : a < b => k.vrun[q[a]] <= k.vrun[q[b]]
      /\ \A a, b \in 1..Len(q) : q[a] = q[b] => a = b
  BY DEF QueueOK, Ordered, Distinct
<1> HIDE DEF q, r
<1>4. \A j \in 1..Len(r) : j + 1 \in 1..Len(q) /\ 1 \in 1..Len(q) /\ 1 < j + 1 /\ j + 1 # 1
  BY <1>1
<1>5. Ordered(r, k.vrun)
  <2> SUFFICES ASSUME NEW a \in 1..Len(r), NEW b \in 1..Len(r), a < b
               PROVE  k.vrun[r[a]] <= k.vrun[r[b]]
    BY DEF Ordered
  <2>1. a + 1 < b + 1
    OBVIOUS
  <2>2. k.vrun[q[a + 1]] <= k.vrun[q[b + 1]]
    BY <2>1, <1>3, <1>4, Zenon
  <2> QED BY <2>2, <1>1
<1>6. Distinct(r)
  <2> SUFFICES ASSUME NEW a \in 1..Len(r), NEW b \in 1..Len(r), r[a] = r[b]
               PROVE  a = b
    BY DEF Distinct
  <2>1. q[a + 1] = q[b + 1]
    BY <1>1
  <2>2. a + 1 = b + 1
    BY <2>1, <1>3, <1>4, Zenon
  <2> QED BY <2>2
<1>7. /\ k2 \in KernelType /\ k2.queue = r /\ k2.count = k.count - 1 /\ SameTasks(k, k2)
  <2>1. r \in RunQueues /\ k.count - 1 \in Int
    BY <1>0, <1>1 DEF RunQueues
  <2> QED BY <2>1, <1>0, <1>2 DEF KernelType, SameTasks
<1>8. QueueOK(k2)
  <2>1. k2.vrun = k.vrun /\ k2.count = Len(k2.queue) + 1
    BY <1>0, <1>1, <1>7 DEF SameTasks
  <2> QED BY <2>1, <1>5, <1>6, <1>7 DEF QueueOK
<1>9. 1 \in 1..Len(q) /\ Contains(q, h)
  BY <1>1 DEF Contains
<1>10. ASSUME NEW u \in Tasks
       PROVE  /\ Contains(r, u) <=> Contains(q, u) /\ u # h
              /\ Contains(r, u) => k.vrun[h] <= k.vrun[u]
  <2>1. ASSUME Contains(r, u) PROVE Contains(q, u) /\ u # h /\ k.vrun[h] <= k.vrun[u]
    <3>1. PICK j \in 1..Len(r) : r[j] = u
      BY <2>1 DEF Contains
    <3>2. j + 1 \in 1..Len(q) /\ q[j + 1] = u /\ 1 < j + 1 /\ j + 1 # 1
      BY <3>1, <1>1, <1>4
    <3>3. k.vrun[q[1]] <= k.vrun[q[j + 1]] /\ q[1] # q[j + 1]
      BY <3>2, <1>9, <1>3, Zenon
    <3>4. Contains(q, u)
      BY <3>2 DEF Contains
    <3> QED BY <3>2, <3>3, <3>4, <1>1
  <2>2. ASSUME Contains(q, u), u # h PROVE Contains(r, u)
    <3>1. PICK j \in 1..Len(q) : q[j] = u
      BY <2>2 DEF Contains
    <3>2. PICK m \in Int : m = j - 1
      OBVIOUS
    <3>3. m \in 1..Len(r) /\ m + 1 = j
      BY <2>2, <3>1, <3>2, <1>1
    <3>4. r[m] = q[m + 1]
      BY <3>3, <1>1, Zenon
    <3> QED BY <3>1, <3>3, <3>4 DEF Contains
  <2> QED BY <2>1, <2>2
<1> QED
  BY <1>1, <1>7, <1>8, <1>9, <1>10 DEF q

\* What the recharge may do: it touches the slice only and never exceeds the
\* longest slice.
Recharged(k, k2) ==
  /\ QueueOK(k2)
  /\ k2.queue = k.queue /\ k2.vrun = k.vrun /\ k2.state = k.state
  /\ k2.need = k.need /\ k2.current = k.current /\ k2.wait = k.wait
  /\ k2.slice <= MaxSlice

\* recharge() does that; its division is defined because count >= 1.
LEMMA Recharge ==
  ASSUME NEW k, QueueOK(k), k.slice <= MaxSlice, NEW t, NEW k2, k2 = recharge(k, t)
  PROVE  Recharged(k, k2)
<1> USE DEF Recharged
<1>1. CASE k.slice # 0
  BY <1>1 DEF recharge
<1>2. CASE k.slice = 0
  <2> DEFINE s == IF t \in HighPriority THEN 4 \div k.count ELSE (4 \div k.count) * 3
  <2>1. k.count \in Nat /\ k.count >= 1 /\ k \in KernelType
    BY DEF QueueOK, KernelType, RunQueues
  <2>2. 4 \div k.count \in 0..4
    BY <2>1
  <2>3. s \in Int /\ s <= 12
    BY <2>2
  <2>4. k2 = [k EXCEPT !.slice = s]
    BY <1>2 DEF recharge
  <2> HIDE DEF s
  <2>5. /\ k2 \in KernelType /\ k2.slice = s
        /\ k2.queue = k.queue /\ k2.vrun = k.vrun /\ k2.state = k.state /\ k2.count = k.count
        /\ k2.need = k.need /\ k2.current = k.current /\ k2.wait = k.wait
    BY <2>1, <2>3, <2>4 DEF KernelType
  <2> QED BY <1>2, <2>3, <2>5 DEF QueueOK, MaxSlice
<1> QED BY <1>1, <1>2

-----------------------------------------------------------------------------
(* schedule *)

\* The run queue holds the RUNNING tasks other than the current one.
QueueExact(k) ==
  \A t \in Tasks : Contains(k.queue, t)
                     <=> k.state[t] = "RUNNING" /\ t # Idle /\ t # k.current

\* What holds inside the kernel at every call of schedule(): the current task
\* may already sleep or be a zombie.
Core(k) ==
  /\ QueueOK(k)
  /\ k.state[Idle] = "RUNNING"
  /\ QueueExact(k)
  /\ k.slice <= MaxSlice

\* No queued task has run less than the current one.
Least(k) == \A u \in Tasks : Contains(k.queue, u) => k.vrun[k.current] <= k.vrun[u]

\* The record after the first two statements of schedule().
Unflagged(k) == [dequeue(k) EXCEPT !.need = @ \ {k.current}]

\* The candidate get_next_task returns, and the record it leaves behind.
IsCandidate(k, tsk, k1) ==
  /\ QueueOK(k1) /\ tsk \in Tasks /\ k.state[tsk] = "RUNNING"
  /\ tsk = k.current => tsk = Idle
  /\ k1.slice = k.slice /\ k1.vrun = k.vrun /\ k1.state = k.state
  /\ k1.need = k.need \ {k.current} /\ k1.current = k.current /\ k1.wait = k.wait
  /\ \A u \in Tasks : Contains(k1.queue, u)
       <=> k.state[u] = "RUNNING" /\ u # Idle /\ u # k.current /\ u # tsk
  /\ \A u \in Tasks : Contains(k1.queue, u) => k.vrun[tsk] <= k.vrun[u]

\* get_next_task takes the task that has run least, or the idle task.
LEMMA Candidate ==
  ASSUME NEW k, Core(k)
  PROVE  IsCandidate(k, get_next_task(k), Unflagged(k))
<1> DEFINE tsk == get_next_task(k)
           k1 == Unflagged(k)
<1> DEFINE d == dequeue(k)
<1>1. /\ QueueOK(d) /\ SameTasks(k, d) /\ tsk \in Tasks /\ k.state[tsk] = "RUNNING"
      /\ tsk = k.current => tsk = Idle
      /\ \A u \in Tasks : Contains(d.queue, u)
           <=> k.state[u] = "RUNNING" /\ u # Idle /\ u # k.current /\ u # tsk
      /\ \A u \in Tasks : Contains(d.queue, u) => k.vrun[tsk] <= k.vrun[u]
  <2>0. QueueOK(k) /\ QueueExact(k) /\ k.state[Idle] = "RUNNING"
    BY DEF Core
  <2>1. CASE k.queue = <<>>
    <3>1. d = k /\ tsk = Idle
      BY <2>1 DEF dequeue, get_next_task
    <3>2. \A u \in Tasks : ~Contains(k.queue, u)
      BY <2>1 DEF Contains
    <3> QED BY <3>1, <3>2, <2>0, IdleAssumption DEF QueueExact, SameTasks
  <2>2. CASE k.queue # <<>>
    <3>1. tsk = Head(k.queue)
      BY <2>2 DEF get_next_task
    <3>2. /\ QueueOK(d) /\ SameTasks(k, d)
          /\ tsk \in Tasks /\ Contains(k.queue, tsk)
          /\ \A u \in Tasks : Contains(d.queue, u) <=> Contains(k.queue, u) /\ u # tsk
          /\ \A u \in Tasks : Contains(d.queue, u) => k.vrun[tsk] <= k.vrun[u]
      BY <2>0, <2>2, <3>1, DequeueHead, Zenon
    <3> HIDE DEF d
    <3> QED BY <3>2, <2>0 DEF QueueExact
  <2> QED BY <2>1, <2>2
<1> HIDE DEF d
<1>2. d \in KernelType /\ d.need = k.need
  BY <1>1 DEF QueueOK, SameTasks
<1>3. k1 = [d EXCEPT !.need = d.need \ {k.current}]
  BY DEF d, Unflagged
<1>4. /\ k1 \in KernelType /\ k1.queue = d.queue /\ k1.count = d.count
      /\ k1.slice = d.slice /\ k1.vrun = d.vrun /\ k1.state = d.state
      /\ k1.need = d.need \ {k.current} /\ k1.current = d.current /\ k1.wait = d.wait
  <2>1. d.need \ {k.current} \in SUBSET Tasks
    BY <1>2 DEF KernelType
  <2> QED BY <1>2, <1>3, <2>1 DEF KernelType
<1>5. QueueOK(k1)
  BY <1>1, <1>4 DEF QueueOK
<1> QED
  BY <1>1, <1>2, <1>4, <1>5 DEF SameTasks, IsCandidate

\* schedule() chooses a runnable task none of the queued ones is behind of,
\* and accounts for every other runnable task in the queue.
LEMMA Schedule ==
  ASSUME NEW k, Core(k), NEW k2, k2 = schedule(k)
  PROVE  /\ Core(k2) /\ Least(k2) /\ k2.state[k2.current] = "RUNNING"
         /\ k2.vrun = k.vrun /\ k2.state = k.state /\ k2.wait = k.wait
         /\ k2.need = k.need \ {k.current}
<1> DEFINE tsk == get_next_task(k)
           k1 == Unflagged(k)
           runs == k.state[k.current] = "RUNNING"
           switch == k.vrun[k.current] >= k.vrun[tsk] \/ ~runs
           in == IF switch THEN IF runs THEN insert_task_queue(k1, k.current) ELSE k1
                 ELSE insert_task_queue(k1, tsk)
           re == recharge(in, tsk)
           next == IF switch THEN tsk ELSE k.current
<1>1. /\ QueueOK(k1) /\ tsk \in Tasks /\ k.state[tsk] = "RUNNING"
      /\ tsk = k.current => tsk = Idle
      /\ k1.slice = k.slice /\ k1.vrun = k.vrun /\ k1.state = k.state
      /\ k1.need = k.need \ {k.current} /\ k1.current = k.current /\ k1.wait = k.wait
      /\ \A u \in Tasks : Contains(k1.queue, u)
           <=> k.state[u] = "RUNNING" /\ u # Idle /\ u # k.current /\ u # tsk
      /\ \A u \in Tasks : Contains(k1.queue, u) => k.vrun[tsk] <= k.vrun[u]
  <2>1. IsCandidate(k, tsk, k1)
    BY Candidate
  <2> HIDE DEF tsk, k1
  <2> QED BY <2>1 DEF IsCandidate
<1>2. k2 = [re EXCEPT !.current = next] \/ (k2 = re /\ next = k.current)
  BY DEF schedule, Unflagged
<1>3. /\ k.current \in Tasks /\ k.vrun \in VrunTimes /\ k.slice <= MaxSlice
      /\ k.state[Idle] = "RUNNING"
  BY DEF Core, QueueOK, KernelType
<1> HIDE DEF tsk, k1
<1>4. /\ QueueOK(in) /\ SameTasks(k1, in) /\ next \in Tasks /\ k.state[next] = "RUNNING"
      /\ \A u \in Tasks : Contains(in.queue, u)
           <=> k.state[u] = "RUNNING" /\ u # Idle /\ u # next
      /\ \A u \in Tasks : Contains(in.queue, u) => k.vrun[next] <= k.vrun[u]
  <2>0. k.vrun[k.current] \in Nat /\ k.vrun[tsk] \in Nat /\ \A u \in Tasks : k.vrun[u] \in Nat
    BY <1>1, <1>3 DEF VrunTimes
  <2>1. ASSUME NEW t \in Tasks, t \in {k.current, tsk}, in = insert_task_queue(k1, t)
        PROVE  /\ QueueOK(in) /\ SameTasks(k1, in)
               /\ \A u \in Tasks : Contains(in.queue, u) <=> Contains(k1.queue, u) \/ (u = t /\ t # Idle)
    <3>1. ~Contains(k1.queue, t)
      BY <1>1, <2>1
    <3> HIDE DEF in
    <3> QED BY <1>1, <2>1, <3>1, InsertAnyTask, Zenon
  <2>2. CASE switch /\ runs
    <3>1. in = insert_task_queue(k1, k.current) /\ next = tsk /\ k.vrun[tsk] <= k.vrun[k.current]
      BY <2>0, <2>2
    <3>2. /\ QueueOK(in) /\ SameTasks(k1, in)
          /\ \A u \in Tasks : Contains(in.queue, u)
               <=> Contains(k1.queue, u) \/ (u = k.current /\ k.current # Idle)
      BY <1>3, <2>1, <3>1
    <3>3. k.current # Idle => k.current # tsk
      BY <1>1
    <3> HIDE DEF in, next, switch
    <3> QED BY <1>1, <2>2, <3>1, <3>2, <3>3
  <2>3. CASE switch /\ ~runs
    <3>1. in = k1 /\ next = tsk
      BY <2>3
    <3> HIDE DEF in, next, switch
    <3> QED BY <1>1, <2>3, <3>1 DEF SameTasks
  <2>4. CASE ~switch
    <3>1. /\ in = insert_task_queue(k1, tsk) /\ next = k.current /\ runs
          /\ k.vrun[k.current] < k.vrun[tsk]
      BY <2>0, <2>4
    <3>2. /\ QueueOK(in) /\ SameTasks(k1, in)
          /\ \A u \in Tasks : Contains(in.queue, u)
               <=> Contains(k1.queue, u) \/ (u = tsk /\ tsk # Idle)
      BY <1>1, <2>1, <3>1
    <3>3. tsk # k.current
      BY <2>0, <3>1
    <3> HIDE DEF in, next, switch
    <3>4. \A u \in Tasks : Contains(in.queue, u) <=> k.state[u] = "RUNNING" /\ u # Idle /\ u # next
      BY <1>1, <3>1, <3>2, <3>3
    <3>5. ASSUME NEW u \in Tasks, Contains(in.queue, u) PROVE k.vrun[next] <= k.vrun[u]
      <4>1. u = tsk \/ k.vrun[tsk] <= k.vrun[u]
        BY <1>1, <3>2, <3>5
      <4> QED BY <2>0, <3>1, <4>1
    <3> QED BY <1>3, <3>1, <3>2, <3>4, <3>5
  <2> QED BY <2>2, <2>3, <2>4
<1>5. /\ in.slice = k.slice /\ in.vrun = k.vrun /\ in.state = k.state
      /\ in.need = k.need \ {k.current} /\ in.current = k.current /\ in.wait = k.wait
  <2> HIDE DEF in
  <2> QED BY <1>1, <1>4 DEF SameTasks
<1> HIDE DEF in, next
<1>6. /\ QueueOK(re)
      /\ re.queue = in.queue /\ re.vrun = in.vrun /\ re.state = in.state
      /\ re.need = in.need /\ re.current = in.current /\ re.wait = in.wait
      /\ re.slice <= MaxSlice
  <2>1. in.slice <= MaxSlice /\ QueueOK(in) /\ re = recharge(in, tsk)
    BY <1>3, <1>4, <1>5
  <2> HIDE DEF re
  <2>2. Recharged(in, re)
    BY <2>1, Recharge
  <2> QED BY <2>2 DEF Recharged
<1> HIDE DEF re
<1>7. re \in KernelType /\ re.current = k.current
  BY <1>5, <1>6 DEF QueueOK
<1>8. /\ k2 \in KernelType /\ k2.current = next
      /\ k2.queue = re.queue /\ k2.count = re.count /\ k2.slice = re.slice /\ k2.vrun = re.vrun
      /\ k2.state = re.state /\ k2.need = re.need /\ k2.wait = re.wait
  BY <1>2, <1>4, <1>7 DEF KernelType
<1>9. QueueOK(k2)
  BY <1>6, <1>8 DEF QueueOK
<1>10. /\ k2.queue = in.queue /\ k2.vrun = k.vrun /\ k2.state = k.state /\ k2.wait = k.wait
       /\ k2.need = k.need \ {k.current} /\ k2.slice <= MaxSlice
  BY <1>5, <1>6, <1>8
<1>11. Core(k2)
  BY <1>3, <1>4, <1>8, <1>9, <1>10 DEF Core, QueueExact
<1>12. Least(k2) /\ k2.state[k2.current] = "RUNNING"
  BY <1>4, <1>8, <1>10 DEF Least
<1> QED
  BY <1>10, <1>11, <1>12

-----------------------------------------------------------------------------
(* The inductive invariant *)

\* The lead of the running task over a queued one, plus what is left of the
\* slice, is at most a full slice: this is what makes BoundedLead inductive.
LeadOK(k) ==
  \A u \in Tasks : Contains(k.queue, u) =>
    /\ k.vrun[k.current] - k.vrun[u] <= MaxSlice
    /\ k.vrun[k.current] - k.vrun[u] + k.slice <= MaxSlice

\* A request to reschedule belongs to the current or to another runnable task.
FlagsOK(k) == \A t \in k.need : t = k.current \/ k.state[t] = "RUNNING"

Inv(k) ==
  /\ Core(k)
  /\ FlagsOK(k)
  /\ k.state[k.current] = "RUNNING"
  /\ LeadOK(k)

\* What a step may do: give the processor to a task that has run least.
StepOK(k, k2) == k2.current # k.current => Least(k2)

\* What a kernel entry does to the states and the wait queues: nothing; ...
Keeps(k, k2) == k2.state = k.state /\ k2.wait = k.wait

\* ... the state of one task changes; ...
SetsState(k, k2, t, st) == k2.state = [k.state EXCEPT ![t] = st] /\ k2.wait = k.wait

\* ... the current task links itself into a queue and sleeps; ...
SleepsOn(k, k2, c, st) ==
  /\ k2.state = [k.state EXCEPT ![k.current] = st]
  /\ k2.wait = [k.wait EXCEPT ![c] = Append(k.wait[c], k.current)]

\* ... the oldest waiter of a queue, if it sleeps as expected, is unlinked and runs.
Wakes(k, k2, c, st) ==
  IF k.wait[c] = <<>> \/ k.state[Head(k.wait[c])] # st THEN Keeps(k, k2)
  ELSE /\ k2.state = [k.state EXCEPT ![Head(k.wait[c])] = "RUNNING"]
       /\ k2.wait = [k.wait EXCEPT ![c] = Tail(k.wait[c])]

\* schedule() from a consistent record leaves the inductive invariant behind.
LEMMA ScheduleInv ==
  ASSUME NEW k, Core(k), FlagsOK(k)
  PROVE  /\ Inv(schedule(k)) /\ Least(schedule(k)) /\ Keeps(k, schedule(k))
<1> DEFINE k2 == schedule(k)
<1>1. /\ Core(k2) /\ Least(k2) /\ k2.state[k2.current] = "RUNNING"
      /\ k2.vrun = k.vrun /\ k2.state = k.state /\ k2.wait = k.wait
      /\ k2.need = k.need \ {k.current}
  BY Schedule
<1> HIDE DEF k2
<1>2. FlagsOK(k2)
  BY <1>1 DEF FlagsOK
<1>3. LeadOK(k2)
  <2>1. /\ k2.slice \in Int /\ k2.slice <= 12 /\ k2.current \in Tasks
        /\ \A u \in Tasks : k2.vrun[u] \in Nat
    BY <1>1 DEF Core, QueueOK, KernelType, VrunTimes, MaxSlice
  <2> SUFFICES ASSUME NEW u \in Tasks, Contains(k2.queue, u)
               PROVE  /\ k2.vrun[k2.current] - k2.vrun[u] <= 12
                      /\ k2.vrun[k2.current] - k2.vrun[u] + k2.slice <= 12
    BY DEF LeadOK, MaxSlice
  <2>2. k2.vrun[k2.current] <= k2.vrun[u]
    BY <1>1 DEF Least
  <2>3. k2.vrun[k2.current] \in Nat /\ k2.vrun[u] \in Nat
    BY <2>1
  <2> QED BY <2>1, <2>2, <2>3
<1> QED
  BY <1>1, <1>2, <1>3 DEF Inv, Keeps, k2

\* Waking a sleeping task puts it on the queue and asks for a reschedule.
LEMMA WakeupProcess ==
  ASSUME NEW k, Core(k), NEW t \in Tasks, k.state[t] # "RUNNING", t # k.current,
         NEW k2, k2 = wakeup_process(k, t)
  PROVE  /\ Core(k2)
         /\ k2.slice = k.slice /\ k2.vrun = k.vrun /\ k2.current = k.current
         /\ k2.state = [k.state EXCEPT ![t] = "RUNNING"]
         /\ k2.need = k.need \cup {k.current} /\ k2.wait = k.wait
         /\ \A u \in Tasks : Contains(k2.queue, u) <=> Contains(k.queue, u) \/ u = t
<1> DEFINE k0 == [k EXCEPT !.state[t] = "RUNNING"]
           in == insert_task_queue(k0, t)
<1>0. /\ k \in KernelType /\ k.state \in TaskStates /\ k.current \in Tasks
      /\ k.need \in SUBSET Tasks /\ k.state[Idle] = "RUNNING" /\ k.slice <= MaxSlice
      /\ QueueOK(k) /\ QueueExact(k)
  BY DEF Core, QueueOK, KernelType
<1>1. /\ k0 \in KernelType /\ k0.state = [k.state EXCEPT ![t] = "RUNNING"]
      /\ k0.queue = k.queue /\ k0.count = k.count /\ k0.slice = k.slice /\ k0.vrun = k.vrun
      /\ k0.need = k.need /\ k0.current = k.current /\ k0.wait = k.wait
  <2>1. [k.state EXCEPT ![t] = "RUNNING"] \in TaskStates
    BY <1>0 DEF TaskStates, States
  <2> QED BY <1>0, <2>1 DEF KernelType
<1>2. k2 = [in EXCEPT !.need = in.need \cup {k.current}]
  BY DEF wakeup_process
<1> HIDE DEF k0
<1>3. QueueOK(k0) /\ ~Contains(k0.queue, t) /\ t # Idle
  BY <1>0, <1>1 DEF QueueOK, QueueExact
<1>4. /\ QueueOK(in) /\ SameTasks(k0, in)
      /\ \A u \in Tasks : Contains(in.queue, u) <=> Contains(k0.queue, u) \/ u = t
  BY <1>3, InsertTaskQueue
<1> HIDE DEF in
<1>5. in \in KernelType /\ in.need = k.need
  BY <1>1, <1>4 DEF QueueOK, SameTasks
<1>6. /\ k2 \in KernelType /\ k2.need = k.need \cup {k.current}
      /\ k2.queue = in.queue /\ k2.count = in.count /\ k2.slice = in.slice /\ k2.vrun = in.vrun
      /\ k2.state = in.state /\ k2.current = in.current /\ k2.wait = in.wait
  <2>1. k.need \cup {k.current} \in SUBSET Tasks
    BY <1>0
  <2> QED BY <1>2, <1>5, <2>1 DEF KernelType
<1>7. /\ k2.slice = k.slice /\ k2.vrun = k.vrun /\ k2.current = k.current /\ k2.wait = k.wait
      /\ k2.state = [k.state EXCEPT ![t] = "RUNNING"]
  BY <1>1, <1>4, <1>6 DEF SameTasks
<1>8. QueueOK(k2)
  BY <1>4, <1>6 DEF QueueOK
<1>9. \A u \in Tasks : Contains(k2.queue, u) <=> Contains(k.queue, u) \/ u = t
  BY <1>1, <1>4, <1>6
<1>10. k2.state[Idle] = "RUNNING" /\ \A u \in Tasks : k2.state[u] = IF u = t THEN "RUNNING" ELSE k.state[u]
  BY <1>0, <1>3, <1>7, IdleAssumption DEF TaskStates
<1>11. QueueExact(k2)
  BY <1>0, <1>3, <1>7, <1>9, <1>10 DEF QueueExact
<1> QED
  BY <1>0, <1>6, <1>7, <1>8, <1>9, <1>10, <1>11 DEF Core

\* The current task leaves state RUNNING and may link itself somewhere.
Asleep(k, st, w) == [k EXCEPT !.state[k.current] = st, !.wait = w]

\* The current task may change its own state without disturbing the queue.
LEMMA CurrentState ==
  ASSUME NEW k, Inv(k), k.current # Idle, NEW st \in States, st # "RUNNING",
         NEW w \in WaitQueues,
         NEW k2, k2 = Asleep(k, st, w)
  PROVE  /\ Core(k2) /\ FlagsOK(k2)
         /\ k2.current = k.current /\ k2.slice = k.slice /\ k2.wait = w
         /\ k2.state = [k.state EXCEPT ![k.current] = st] /\ k2.state[k.current] = st
<1>0. /\ k \in KernelType /\ k.state \in TaskStates /\ k.current \in Tasks
      /\ k.state[Idle] = "RUNNING" /\ QueueOK(k) /\ QueueExact(k) /\ k.slice <= MaxSlice
  BY DEF Inv, Core, QueueOK, KernelType
<1>1. /\ k2 \in KernelType /\ k2.state = [k.state EXCEPT ![k.current] = st] /\ k2.wait = w
      /\ k2.queue = k.queue /\ k2.count = k.count /\ k2.slice = k.slice /\ k2.vrun = k.vrun
      /\ k2.need = k.need /\ k2.current = k.current
  <2>1. [k.state EXCEPT ![k.current] = st] \in TaskStates
    BY <1>0 DEF TaskStates
  <2> QED BY <1>0, <2>1 DEF KernelType, Asleep
<1>2. \A u \in Tasks : k2.state[u] = IF u = k.current THEN st ELSE k.state[u]
  BY <1>0, <1>1 DEF TaskStates
<1>3. Core(k2)
  <2>1. QueueOK(k2)
    BY <1>0, <1>1 DEF QueueOK
  <2>2. QueueExact(k2) /\ k2.state[Idle] = "RUNNING"
    BY <1>0, <1>1, <1>2, IdleAssumption DEF QueueExact
  <2> QED BY <1>0, <1>1, <2>1, <2>2 DEF Core
<1>4. FlagsOK(k2)
  <2>1. \A t \in k.need : t \in Tasks /\ (t = k.current \/ k.state[t] = "RUNNING")
    BY <1>0 DEF Inv, FlagsOK, KernelType
  <2> QED BY <1>1, <1>2, <2>1 DEF FlagsOK
<1> QED
  BY <1>0, <1>1, <1>2, <1>3, <1>4

\* Returning from an interrupt whose handler left Core and the flags intact
\* re-establishes the invariant, whether or not it reschedules.
LEMMA ReturnFromInterrupt ==
  ASSUME NEW k, Core(k), FlagsOK(k), k.current \in k.need
  PROVE  /\ Inv(ret_from_intr(k)) /\ Least(ret_from_intr(k)) /\ Keeps(k, ret_from_intr(k))
<1>1. ret_from_intr(k) = schedule(k)
  BY DEF ret_from_intr
<1> QED
  BY <1>1, ScheduleInv

\* A wakeup leaves the record alone or asks for a reschedule.
LEMMA Wakeup ==
  ASSUME NEW k, Core(k), FlagsOK(k), NEW c \in Channels, NEW st \in States,
         st # "RUNNING", k.state[k.current] # st, NEW k2, k2 = wakeup(k, c, st)
  PROVE  /\ Wakes(k, k2, c, st)
         /\ k2 = k \/ (/\ Core(k2) /\ FlagsOK(k2) /\ k2.current = k.current
                       /\ k2.current \in k2.need /\ k2.slice = k.slice)
<1> DEFINE t == Head(k.wait[c])
           k0 == [k EXCEPT !.wait[c] = Tail(k.wait[c])]
<1>1. CASE k.wait[c] = <<>> \/ k.state[t] # st
  BY <1>1 DEF wakeup, Wakes, Keeps
<1>2. CASE k.wait[c] # <<>> /\ k.state[t] = st
  <2>0. /\ k \in KernelType /\ k.wait \in WaitQueues /\ QueueOK(k) /\ k.current \in Tasks
        /\ k.need \in SUBSET Tasks /\ k.state \in TaskStates
    BY DEF Core, QueueOK, KernelType
  <2>1. t \in Tasks /\ [k.wait EXCEPT ![c] = Tail(k.wait[c])] \in WaitQueues
    <3>1. k.wait[c] \in Seq(Tasks) /\ k.wait[c] # <<>>
      BY <1>2, <2>0 DEF WaitQueues
    <3>2. t \in Tasks /\ Tail(k.wait[c]) \in Seq(Tasks)
      BY <3>1
    <3> QED BY <2>0, <3>2 DEF WaitQueues
  <2>2. /\ k0 \in KernelType /\ k0.queue = k.queue /\ k0.count = k.count /\ k0.vrun = k.vrun
        /\ k0.state = k.state /\ k0.need = k.need /\ k0.current = k.current /\ k0.slice = k.slice
        /\ k0.wait = [k.wait EXCEPT ![c] = Tail(k.wait[c])]
    BY <2>0, <2>1 DEF KernelType
  <2>3. k2 = wakeup_process(k0, t)
    BY <1>2 DEF wakeup
  <2> HIDE DEF k0, t
  <2>4. Core(k0)
    BY <2>2 DEF Core, QueueOK, QueueExact
  <2>5. k0.state[t] # "RUNNING" /\ t # k0.current
    BY <1>2, <2>2
  <2>6. /\ Core(k2) /\ k2.slice = k0.slice /\ k2.current = k0.current
        /\ k2.state = [k0.state EXCEPT ![t] = "RUNNING"]
        /\ k2.need = k0.need \cup {k0.current} /\ k2.wait = k0.wait
    BY <2>1, <2>3, <2>4, <2>5, WakeupProcess
  <2>7. FlagsOK(k2)
    <3>1. \A u \in Tasks : k2.state[u] = IF u = t THEN "RUNNING" ELSE k.state[u]
      BY <2>0, <2>2, <2>6 DEF TaskStates
    <3>2. \A u \in k.need : u \in Tasks /\ (u = k.current \/ k.state[u] = "RUNNING")
      BY <2>0 DEF FlagsOK
    <3> QED BY <2>2, <2>6, <3>1, <3>2 DEF FlagsOK
  <2>8. Wakes(k, k2, c, st)
    BY <1>2, <2>2, <2>6 DEF Wakes, t
  <2> QED BY <2>2, <2>6, <2>7, <2>8
<1> QED BY <1>1, <1>2

\* HPET_handler and its return path: charging current breaks no order.
LEMMA TickStep ==
  ASSUME NEW k, Inv(k), NEW k2, k2 = ret_from_intr(HPET_handler(k))
  PROVE  Inv(k2) /\ StepOK(k, k2) /\ Keeps(k, k2)
<1> DEFINE w == Weight(k.current)
           h == HPET_handler(k)
<1>0. /\ k \in KernelType /\ k.vrun \in VrunTimes /\ k.current \in Tasks /\ k.slice \in Int
      /\ k.need \in SUBSET Tasks /\ Core(k) /\ FlagsOK(k) /\ LeadOK(k) /\ QueueOK(k)
      /\ k.state[k.current] = "RUNNING" /\ k.slice <= MaxSlice /\ QueueExact(k)
  BY DEF Inv, Core, QueueOK, KernelType
<1>1. w \in 1..2
  BY DEF Weight
<1>2. /\ h \in KernelType /\ h.slice = k.slice - w
      /\ h.vrun = [k.vrun EXCEPT ![k.current] = k.vrun[k.current] + w]
      /\ h.need = IF k.slice - w <= 0 THEN k.need \cup {k.current} ELSE k.need
      /\ h.queue = k.queue /\ h.count = k.count /\ h.state = k.state
      /\ h.current = k.current /\ h.wait = k.wait
  <2> DEFINE v == [k.vrun EXCEPT ![k.current] = k.vrun[k.current] + w]
             n == IF k.slice - w <= 0 THEN k.need \cup {k.current} ELSE k.need
  <2>1. v \in VrunTimes
    BY <1>0, <1>1 DEF VrunTimes
  <2>2. n \in SUBSET Tasks /\ k.slice - w \in Int
    BY <1>0, <1>1
  <2>3. h = [k EXCEPT !.slice = k.slice - w, !.vrun = v, !.need = n]
    <3>1. h = [k EXCEPT !.slice = k.slice - w, !.vrun[k.current] = k.vrun[k.current] + w, !.need = n]
      BY DEF HPET_handler
    <3> HIDE DEF h, n, w
    <3> QED BY <1>0, <3>1 DEF KernelType
  <2> HIDE DEF v, n, h
  <2>4. /\ h \in KernelType /\ h.slice = k.slice - w /\ h.vrun = v /\ h.need = n
        /\ h.queue = k.queue /\ h.count = k.count /\ h.state = k.state
        /\ h.current = k.current /\ h.wait = k.wait
    BY <1>0, <2>1, <2>2, <2>3 DEF KernelType
  <2> QED BY <2>4 DEF v, n
<1>3. k2 = ret_from_intr(h)
  OBVIOUS
<1> HIDE DEF h, w
<1>4. \A u \in Tasks : h.vrun[u] = IF u = k.current THEN k.vrun[u] + w ELSE k.vrun[u]
  BY <1>0, <1>2 DEF VrunTimes
<1>5. /\ \A i \in 1..Len(k.queue) : k.queue[i] \in Tasks /\ k.queue[i] # k.current
      /\ \A u \in Tasks : Contains(k.queue, u) => u # k.current
  <2>1. \A u \in Tasks : Contains(k.queue, u) => u # k.current
    BY <1>0 DEF QueueExact
  <2>2. ASSUME NEW i \in 1..Len(k.queue) PROVE k.queue[i] \in Tasks /\ Contains(k.queue, k.queue[i])
    <3>1. k.queue[i] \in Tasks
      BY <1>0 DEF KernelType, RunQueues
    <3> QED BY <3>1 DEF Contains
  <2> QED BY <2>1, <2>2
<1>6. Core(h) /\ FlagsOK(h)
  <2>1. Ordered(h.queue, h.vrun)
    BY <1>0, <1>2, <1>4, <1>5 DEF QueueOK, Ordered
  <2>2. QueueOK(h)
    BY <1>0, <1>2, <2>1 DEF QueueOK
  <2>3. h.slice <= MaxSlice
    BY <1>0, <1>1, <1>2 DEF MaxSlice
  <2>4. QueueExact(h) /\ h.state[Idle] = "RUNNING"
    BY <1>0, <1>2 DEF QueueExact, Core
  <2>5. FlagsOK(h)
    BY <1>0, <1>2 DEF FlagsOK
  <2> QED BY <2>2, <2>3, <2>4, <2>5 DEF Core
<1>7. CASE h.current \in h.need
  <2>1. /\ Inv(k2) /\ Least(k2) /\ Keeps(h, k2)
    BY <1>3, <1>6, <1>7, ReturnFromInterrupt
  <2> QED BY <1>2, <2>1 DEF StepOK, Keeps
<1>8. CASE h.current \notin h.need
  <2>1. k2 = h /\ k.slice - w > 0
    <3>1. ~(k.slice - w <= 0)
      BY <1>2, <1>8
    <3> QED BY <1>0, <1>1, <1>3, <1>8, <3>1 DEF ret_from_intr
  <2>2. LeadOK(h)
    <3> SUFFICES ASSUME NEW u \in Tasks, Contains(h.queue, u)
                 PROVE  /\ h.vrun[h.current] - h.vrun[u] <= 12
                        /\ h.vrun[h.current] - h.vrun[u] + h.slice <= 12
      BY DEF LeadOK, MaxSlice
    <3>1. /\ h.vrun[h.current] = k.vrun[k.current] + w /\ h.vrun[u] = k.vrun[u]
          /\ h.slice = k.slice - w
      BY <1>0, <1>2, <1>4, <1>5
    <3>2. k.vrun[k.current] - k.vrun[u] + k.slice <= 12
      BY <1>0, <1>2 DEF LeadOK, MaxSlice
    <3>3. k.vrun[k.current] \in Nat /\ k.vrun[u] \in Nat
      BY <1>0 DEF VrunTimes
    <3> QED BY <1>0, <1>1, <2>1, <3>1, <3>2, <3>3
  <2>3. Inv(h)
    BY <1>0, <1>2, <1>6, <2>2 DEF Inv
  <2> QED BY <1>2, <2>1, <2>3 DEF StepOK, Keeps
<1> QED BY <1>7, <1>8

\* keyboard_handler's wakeup and its return path.
LEMMA DeviceIrqStep ==
  ASSUME NEW k, Inv(k), NEW c \in Channels,
         NEW k2, k2 = ret_from_intr(wakeup(k, c, "UNINTERRUPTIBLE"))
  PROVE  Inv(k2) /\ StepOK(k, k2) /\ Wakes(k, k2, c, "UNINTERRUPTIBLE")
<1> DEFINE h == wakeup(k, c, "UNINTERRUPTIBLE")
<1>0. /\ Core(k) /\ FlagsOK(k) /\ k.state[k.current] = "RUNNING" /\ k.slice \in Int
  BY DEF Inv, Core, QueueOK, KernelType
<1>1. k2 = ret_from_intr(h)
  OBVIOUS
<1>2. /\ Wakes(k, h, c, "UNINTERRUPTIBLE")
      /\ h = k \/ (/\ Core(h) /\ FlagsOK(h) /\ h.current = k.current
                   /\ h.current \in h.need /\ h.slice = k.slice)
  BY <1>0, Wakeup DEF States
<1> HIDE DEF h
<1>3. CASE h.current \in h.need
  <2>1. Core(h) /\ FlagsOK(h) /\ h.slice = k.slice
    BY <1>0, <1>2
  <2>2. Inv(k2) /\ Least(k2) /\ Keeps(h, k2)
    BY <1>1, <1>3, <2>1, ReturnFromInterrupt
  <2>3. Wakes(k, k2, c, "UNINTERRUPTIBLE")
    BY <1>2, <2>2 DEF Wakes, Keeps
  <2> QED BY <1>0, <2>1, <2>2, <2>3 DEF StepOK
<1>4. CASE h.current \notin h.need
  <2>1. k2 = k /\ h = k
    BY <1>1, <1>2, <1>4 DEF ret_from_intr
  <2> QED BY <1>0, <1>2, <2>1 DEF StepOK
<1> QED BY <1>3, <1>4

\* An interrupt that wakes nobody reschedules or changes nothing.
LEMMA QuietIrqStep ==
  ASSUME NEW k, Inv(k), NEW k2, k2 = ret_from_intr(k)
  PROVE  Inv(k2) /\ StepOK(k, k2) /\ Keeps(k, k2)
<1>0. Core(k) /\ FlagsOK(k) /\ k.slice \in Int
  BY DEF Inv, Core, QueueOK, KernelType
<1>1. CASE k.current \in k.need
  <2>1. Inv(k2) /\ Least(k2) /\ Keeps(k, k2)
    BY <1>0, <1>1, ReturnFromInterrupt
  <2> QED BY <1>0, <2>1 DEF StepOK
<1>2. CASE k.current \notin k.need
  <2>1. k2 = k
    BY <1>2 DEF ret_from_intr
  <2> QED BY <1>0, <2>1 DEF StepOK, Keeps
<1> QED BY <1>1, <1>2

\* The wakeup in end_request and the interrupt's return path.
LEMMA DiskIrqStep ==
  ASSUME NEW k, Inv(k), NEW t \in Tasks, k.state[t] = "UNINTERRUPTIBLE",
         NEW k2, k2 = ret_from_intr(wakeup_process(k, t))
  PROVE  Inv(k2) /\ StepOK(k, k2) /\ SetsState(k, k2, t, "RUNNING")
<1> DEFINE h == wakeup_process(k, t)
<1>0. /\ Core(k) /\ FlagsOK(k) /\ k.state[k.current] = "RUNNING"
      /\ k.state \in TaskStates /\ k.need \in SUBSET Tasks /\ k.slice \in Int
      /\ k.state[t] = "UNINTERRUPTIBLE" /\ t # k.current
  BY DEF Inv, Core, QueueOK, KernelType
<1>1. /\ Core(h) /\ h.slice = k.slice /\ h.current = k.current
      /\ h.state = [k.state EXCEPT ![t] = "RUNNING"]
      /\ h.need = k.need \cup {k.current} /\ h.wait = k.wait
  BY <1>0, WakeupProcess
<1>2. k2 = ret_from_intr(h)
  OBVIOUS
<1> HIDE DEF h
<1>3. FlagsOK(h)
  <2>1. \A u \in Tasks : h.state[u] = IF u = t THEN "RUNNING" ELSE k.state[u]
    BY <1>0, <1>1 DEF TaskStates
  <2>2. \A u \in k.need : u \in Tasks /\ (u = k.current \/ k.state[u] = "RUNNING")
    BY <1>0 DEF FlagsOK
  <2> QED BY <1>1, <2>1, <2>2 DEF FlagsOK
<1>4. Inv(k2) /\ Least(k2) /\ Keeps(h, k2)
  BY <1>1, <1>2, <1>3, ReturnFromInterrupt
<1> QED
  BY <1>0, <1>1, <1>4 DEF StepOK, Keeps, SetsState

\* The three system calls that put the caller to sleep.
LEMMA SleepStep ==
  ASSUME NEW k, Inv(k), k.current # Idle, NEW st \in States, st # "RUNNING",
         NEW w \in WaitQueues, NEW k2, k2 = schedule(Asleep(k, st, w))
  PROVE  /\ Inv(k2) /\ StepOK(k, k2)
         /\ k2.state = [k.state EXCEPT ![k.current] = st] /\ k2.wait = w
<1> DEFINE h == Asleep(k, st, w)
<1>1. /\ Core(h) /\ FlagsOK(h) /\ h.slice = k.slice
      /\ h.state = [k.state EXCEPT ![k.current] = st] /\ h.wait = w
  BY CurrentState
<1>2. k2 = schedule(h)
  OBVIOUS
<1> HIDE DEF h
<1>3. Inv(k2) /\ Least(k2) /\ Keeps(h, k2)
  BY <1>1, <1>2, ScheduleInv
<1>4. k.slice \in Int
  BY DEF Inv, Core, QueueOK, KernelType
<1> QED
  BY <1>1, <1>3, <1>4 DEF StepOK, Keeps

\* sleep_on and interruptible_sleep_on of the running task.
LEMMA SleepOnStep ==
  ASSUME NEW k, Inv(k), k.current # Idle, NEW c \in Channels, NEW st \in States,
         st # "RUNNING", NEW k2, k2 = sleep_on(k, c, st)
  PROVE  Inv(k2) /\ StepOK(k, k2) /\ SleepsOn(k, k2, c, st)
<1> DEFINE w == [k.wait EXCEPT ![c] = Append(k.wait[c], k.current)]
<1>0. k \in KernelType /\ k.wait \in WaitQueues /\ k.current \in Tasks
  BY DEF Inv, Core, QueueOK, KernelType
<1>1. w \in WaitQueues
  BY <1>0 DEF WaitQueues
<1>2. k2 = schedule(Asleep(k, st, w))
  <2>1. [k EXCEPT !.state[k.current] = st, !.wait[c] = Append(k.wait[c], k.current)]
          = Asleep(k, st, w)
    BY <1>0 DEF KernelType, Asleep
  <2>2. sleep_on(k, c, st) =
          schedule([k EXCEPT !.state[k.current] = st,
                                !.wait[c] = Append(k.wait[c], k.current)])
    BY DEF sleep_on
  <2> HIDE DEF w
  <2> QED BY <2>1, <2>2, Zenon
<1> HIDE DEF w
<1>3. Inv(k2) /\ StepOK(k, k2) /\ k2.state = [k.state EXCEPT ![k.current] = st] /\ k2.wait = w
  BY <1>1, <1>2, SleepStep
<1> QED
  BY <1>3 DEF SleepsOn, w

\* wait_for_finish of the running task.
LEMMA TransferStep ==
  ASSUME NEW k, Inv(k), k.current # Idle, NEW k2, k2 = wait_for_finish(k)
  PROVE  Inv(k2) /\ StepOK(k, k2) /\ SetsState(k, k2, k.current, "UNINTERRUPTIBLE")
<1>0. k \in KernelType /\ k.wait \in WaitQueues
  BY DEF Inv, Core, QueueOK, KernelType
<1>1. [k EXCEPT !.state[k.current] = "UNINTERRUPTIBLE"]
        = Asleep(k, "UNINTERRUPTIBLE", k.wait)
  BY <1>0 DEF KernelType, Asleep
<1>2. k2 = schedule(Asleep(k, "UNINTERRUPTIBLE", k.wait))
  BY <1>1, Zenon DEF wait_for_finish
<1>3. PICK st \in States : st = "UNINTERRUPTIBLE" /\ st # "RUNNING"
  BY DEF States
<1>4. k2 = schedule(Asleep(k, st, k.wait))
  BY <1>2, <1>3, Zenon
<1>5. /\ Inv(k2) /\ StepOK(k, k2)
      /\ k2.state = [k.state EXCEPT ![k.current] = st] /\ k2.wait = k.wait
  BY <1>0, <1>3, <1>4, SleepStep
<1> QED
  BY <1>3, <1>5 DEF SetsState

\* do_exit: the zombie leaves the processor, its parent may be woken.
LEMMA ExitStep ==
  ASSUME NEW k, Inv(k), k.current # Idle, NEW c \in Channels, NEW k2, k2 = do_exit(k, c)
  PROVE  /\ Inv(k2) /\ StepOK(k, k2)
         /\ \E z : SetsState(k, z, k.current, "ZOMBIE") /\ Wakes(z, k2, c, "INTERRUPTIBLE")
<1> DEFINE z == Asleep(k, "ZOMBIE", k.wait)
           h == wakeup(z, c, "INTERRUPTIBLE")
<1>0. k \in KernelType /\ k.wait \in WaitQueues /\ k.slice \in Int
  BY DEF Inv, Core, QueueOK, KernelType
<1>1. [k EXCEPT !.state[k.current] = "ZOMBIE"] = z
  BY <1>0 DEF KernelType, Asleep
<1>2. /\ Core(z) /\ FlagsOK(z) /\ z.slice = k.slice /\ z.state[z.current] = "ZOMBIE"
      /\ z.state = [k.state EXCEPT ![k.current] = "ZOMBIE"] /\ z.wait = k.wait
  <2>1. PICK st \in States : st = "ZOMBIE" /\ st # "RUNNING"
    BY DEF States
  <2>2. z = Asleep(k, st, k.wait)
    BY <2>1, Zenon
  <2> HIDE DEF z
  <2>3. /\ Core(z) /\ FlagsOK(z) /\ z.current = k.current /\ z.slice = k.slice
        /\ z.state = [k.state EXCEPT ![k.current] = st] /\ z.wait = k.wait
        /\ z.state[k.current] = st
    BY <1>0, <2>1, <2>2, CurrentState
  <2> QED BY <2>1, <2>3
<1> HIDE DEF z
<1>3. k2 = schedule(h)
  BY <1>1 DEF do_exit
<1>4. Wakes(z, h, c, "INTERRUPTIBLE") /\ (h = z \/ (Core(h) /\ FlagsOK(h) /\ h.slice = z.slice))
  <2>1. PICK st \in States : st = "INTERRUPTIBLE" /\ st # "RUNNING"
    BY DEF States
  <2>2. Core(z) /\ FlagsOK(z) /\ z.state[z.current] # st
    BY <1>2, <2>1
  <2>3. h = wakeup(z, c, st) /\ st # "RUNNING"
    BY <2>1, Zenon
  <2> HIDE DEF h
  <2>4. Wakes(z, h, c, st) /\ (h = z \/ (Core(h) /\ FlagsOK(h) /\ h.slice = z.slice))
    <3>1. /\ Wakes(z, h, c, st)
          /\ h = z \/ (/\ Core(h) /\ FlagsOK(h) /\ h.current = z.current
                       /\ h.current \in h.need /\ h.slice = z.slice)
      BY <2>2, <2>3, Wakeup
    <3> QED BY <3>1
  <2> QED BY <2>1, <2>4
<1> HIDE DEF h
<1>5. Core(h) /\ FlagsOK(h) /\ h.slice = k.slice
  BY <1>2, <1>4
<1>6. Inv(k2) /\ Least(k2) /\ Keeps(h, k2)
  BY <1>3, <1>5, ScheduleInv
<1>7. SetsState(k, z, k.current, "ZOMBIE") /\ Wakes(z, k2, c, "INTERRUPTIBLE")
  BY <1>2, <1>4, <1>6 DEF SetsState, Wakes, Keeps
<1> QED
  BY <1>0, <1>5, <1>6, <1>7 DEF StepOK

\* wait4 frees a zombie, which is on no queue.
LEMMA ReapStep ==
  ASSUME NEW k, Inv(k), NEW t \in Tasks, k.state[t] = "ZOMBIE",
         NEW k2, k2 = [k EXCEPT !.state[t] = "NONE"]
  PROVE  Inv(k2) /\ StepOK(k, k2) /\ SetsState(k, k2, t, "NONE")
<1>0. /\ k \in KernelType /\ k.state \in TaskStates /\ k.slice \in Int /\ k.current \in Tasks
      /\ k.state[t] = "ZOMBIE" /\ k.need \in SUBSET Tasks
      /\ Core(k) /\ FlagsOK(k) /\ LeadOK(k) /\ k.state[k.current] = "RUNNING"
  BY DEF Inv, Core, QueueOK, KernelType
<1>1. /\ k2 \in KernelType /\ k2.state = [k.state EXCEPT ![t] = "NONE"]
      /\ k2.queue = k.queue /\ k2.count = k.count /\ k2.slice = k.slice
      /\ k2.vrun = k.vrun /\ k2.need = k.need /\ k2.current = k.current /\ k2.wait = k.wait
  <2>1. [k.state EXCEPT ![t] = "NONE"] \in TaskStates
    BY <1>0 DEF TaskStates, States
  <2> QED BY <1>0, <2>1 DEF KernelType
<1>2. \A u \in Tasks : k2.state[u] = IF u = t THEN "NONE" ELSE k.state[u]
  BY <1>0, <1>1 DEF TaskStates
<1>3. Core(k2)
  <2>1. QueueOK(k2)
    BY <1>0, <1>1 DEF Core, QueueOK
  <2>2. QueueExact(k2) /\ k2.state[Idle] = "RUNNING" /\ k2.slice <= MaxSlice
    BY <1>0, <1>1, <1>2, IdleAssumption DEF Core, QueueExact
  <2> QED BY <2>1, <2>2 DEF Core
<1>4. FlagsOK(k2) /\ k2.state[k2.current] = "RUNNING"
  <2>1. \A u \in k.need : u \in Tasks /\ (u = k.current \/ k.state[u] = "RUNNING")
    BY <1>0 DEF FlagsOK
  <2> QED BY <1>0, <1>1, <1>2, <2>1 DEF FlagsOK
<1>5. LeadOK(k2)
  BY <1>0, <1>1 DEF LeadOK
<1> QED
  BY <1>0, <1>1, <1>3, <1>4, <1>5 DEF Inv, StepOK, SetsState

\* do_fork: the child enters the queue at its parent's vrun_time.
LEMMA ForkStep ==
  ASSUME NEW k, Inv(k), NEW t \in Tasks, k.state[t] = "NONE", NEW k2, k2 = do_fork(k, t)
  PROVE  Inv(k2) /\ StepOK(k, k2) /\ SetsState(k, k2, t, "RUNNING")
<1> DEFINE v == [k.vrun EXCEPT ![t] = k.vrun[k.current]]
           s == [k.state EXCEPT ![t] = "UNINTERRUPTIBLE"]
           n == IF k.current \in k.need THEN k.need \cup {t} ELSE k.need \ {t}
           h == [k EXCEPT !.vrun[t] = k.vrun[k.current],
                             !.state[t] = "UNINTERRUPTIBLE", !.need = n]
<1>0. /\ k \in KernelType /\ k.state \in TaskStates /\ k.vrun \in VrunTimes
      /\ k.slice \in Int /\ k.current \in Tasks /\ k.need \in SUBSET Tasks
      /\ k.queue \in RunQueues
      /\ k.state[t] = "NONE" /\ k.slice <= MaxSlice /\ k.state[Idle] = "RUNNING"
      /\ QueueOK(k) /\ QueueExact(k) /\ FlagsOK(k) /\ LeadOK(k)
      /\ k.state[k.current] = "RUNNING" /\ t # k.current /\ t # Idle
  BY DEF Inv, Core, QueueOK, KernelType
<1>1. k2 = wakeup_process(h, t)
  BY DEF do_fork
<1>2. /\ h \in KernelType /\ h.vrun = v /\ h.state = s /\ h.need = n
      /\ h.queue = k.queue /\ h.count = k.count /\ h.slice = k.slice
      /\ h.current = k.current /\ h.wait = k.wait
  <2>1. v \in VrunTimes
    BY <1>0 DEF VrunTimes
  <2>2. s \in TaskStates
    BY <1>0 DEF TaskStates, States
  <2>3. n \in SUBSET Tasks
    BY <1>0
  <2> HIDE DEF n
  <2>4. h = [k EXCEPT !.vrun = v, !.state = s, !.need = n]
    BY <1>0 DEF KernelType
  <2> HIDE DEF h, v, s
  <2> QED BY <1>0, <2>1, <2>2, <2>3, <2>4 DEF KernelType
<1> HIDE DEF h
<1>3. /\ \A u \in Tasks : h.vrun[u] = IF u = t THEN k.vrun[k.current] ELSE k.vrun[u]
      /\ \A u \in Tasks : h.state[u] = IF u = t THEN "UNINTERRUPTIBLE" ELSE k.state[u]
  <2>1. \A u \in Tasks : v[u] = IF u = t THEN k.vrun[k.current] ELSE k.vrun[u]
    BY <1>0 DEF VrunTimes
  <2>2. \A u \in Tasks : s[u] = IF u = t THEN "UNINTERRUPTIBLE" ELSE k.state[u]
    BY <1>0 DEF TaskStates
  <2> HIDE DEF v, s
  <2> QED BY <1>2, <2>1, <2>2
<1> HIDE DEF v, s
<1>4. /\ \A u \in Tasks : Contains(k.queue, u) => u # t
      /\ \A i \in 1..Len(k.queue) : k.queue[i] \in Tasks /\ k.queue[i] # t
  <2>1. \A u \in Tasks : Contains(k.queue, u) => u # t
    BY <1>0 DEF QueueExact
  <2>2. ASSUME NEW i \in 1..Len(k.queue)
        PROVE  k.queue[i] \in Tasks /\ Contains(k.queue, k.queue[i])
    <3>1. k.queue[i] \in Tasks
      BY <1>0 DEF RunQueues
    <3> QED BY <3>1 DEF Contains
  <2> QED BY <2>1, <2>2
<1>5. Core(h)
  <2>1. Ordered(h.queue, h.vrun)
    BY <1>0, <1>2, <1>3, <1>4 DEF QueueOK, Ordered
  <2>2. QueueOK(h)
    BY <1>0, <1>2, <2>1 DEF QueueOK
  <2>3. QueueExact(h) /\ h.state[Idle] = "RUNNING"
    BY <1>0, <1>2, <1>3, IdleAssumption DEF QueueExact
  <2> QED BY <1>0, <1>2, <2>2, <2>3 DEF Core
<1>6. h.state[t] # "RUNNING" /\ t # h.current
  BY <1>0, <1>2, <1>3
<1>7. /\ Core(k2) /\ k2.slice = h.slice /\ k2.vrun = h.vrun /\ k2.current = h.current
      /\ k2.state = [h.state EXCEPT ![t] = "RUNNING"]
      /\ k2.need = h.need \cup {h.current} /\ k2.wait = h.wait
      /\ \A u \in Tasks : Contains(k2.queue, u) <=> Contains(h.queue, u) \/ u = t
  BY <1>1, <1>5, <1>6, WakeupProcess
<1>8. \A u \in Tasks : k2.state[u] = IF u = t THEN "RUNNING" ELSE k.state[u]
  <2>1. h.state \in TaskStates
    BY <1>2 DEF KernelType
  <2> QED BY <1>3, <1>7, <2>1 DEF TaskStates
<1>9. FlagsOK(k2) /\ k2.state[k2.current] = "RUNNING"
  <2>1. \A u \in k.need : u \in Tasks /\ (u = k.current \/ k.state[u] = "RUNNING")
    BY <1>0 DEF FlagsOK
  <2>2. \A u \in k2.need : u = t \/ u = k.current \/ u \in k.need
    BY <1>2, <1>7
  <2> QED BY <1>0, <1>2, <1>7, <1>8, <2>1, <2>2 DEF FlagsOK
<1>10. LeadOK(k2)
  <2> SUFFICES ASSUME NEW u \in Tasks, Contains(k2.queue, u)
               PROVE  /\ k2.vrun[k2.current] - k2.vrun[u] <= 12
                      /\ k2.vrun[k2.current] - k2.vrun[u] + k2.slice <= 12
    BY DEF LeadOK, MaxSlice
  <2>1. k2.vrun[k2.current] = k.vrun[k.current] /\ k2.slice = k.slice
    BY <1>0, <1>2, <1>3, <1>7
  <2>2. k.vrun[k.current] \in Nat /\ k.slice <= 12
    BY <1>0 DEF VrunTimes, MaxSlice
  <2>3. CASE u = t
    <3>1. k2.vrun[u] = k.vrun[k.current]
      BY <1>3, <1>7, <2>3
    <3> QED BY <1>0, <2>1, <2>2, <3>1
  <2>4. CASE u # t
    <3>1. k2.vrun[u] = k.vrun[u] /\ Contains(k.queue, u)
      BY <1>2, <1>3, <1>7, <2>4
    <3>2. /\ k.vrun[k.current] - k.vrun[u] <= 12
          /\ k.vrun[k.current] - k.vrun[u] + k.slice <= 12
      BY <1>0, <3>1 DEF LeadOK, MaxSlice
    <3> QED BY <2>1, <3>1, <3>2
  <2> QED BY <2>3, <2>4
<1>11. SetsState(k, k2, t, "RUNNING")
  <2>1. [h.state EXCEPT ![t] = "RUNNING"] = [k.state EXCEPT ![t] = "RUNNING"]
    BY <1>2 DEF s
  <2> QED BY <1>2, <1>7, <2>1 DEF SetsState
<1> QED
  BY <1>0, <1>2, <1>7, <1>9, <1>10, <1>11 DEF Inv, StepOK

-----------------------------------------------------------------------------
(* The wait queues *)

SleepState(c, X) == IF c \in X THEN "INTERRUPTIBLE" ELSE "UNINTERRUPTIBLE"

Linked(k, t) == \E c \in Channels : \E i \in 1..Len(k.wait[c]) : k.wait[c][i] = t

\* Waiters sleep, in the state their waker tests for.
WaitersSleep(k, X) ==
  \A c \in Channels : \A i \in 1..Len(k.wait[c]) : k.state[k.wait[c][i]] = SleepState(c, X)

LinkedOnce(k) ==
  \A c, d \in Channels : \A i \in 1..Len(k.wait[c]) : \A j \in 1..Len(k.wait[d]) :
    k.wait[c][i] = k.wait[d][j] => c = d /\ i = j

\* Whoever sleeps interruptibly is linked in a wait_childexit.
WakerFindsIt(k, X) ==
  \A t \in Tasks : k.state[t] = "INTERRUPTIBLE" => \E c \in X : Contains(k.wait[c], t)

\* X is the set of wait_childexit channels.
WaitOK(k, X) == WaitersSleep(k, X) /\ LinkedOnce(k) /\ WakerFindsIt(k, X)

WaitType(k) == k.state \in TaskStates /\ k.wait \in WaitQueues

\* A task that runs, or waits for the disk, is on no wait queue.
LEMMA NotLinked ==
  ASSUME NEW k, NEW X, WaitOK(k, X), NEW t,
         k.state[t] \notin {"INTERRUPTIBLE", "UNINTERRUPTIBLE"} \/ OnDisk(k, t)
  PROVE  ~Linked(k, t)
  BY DEF WaitOK, WaitersSleep, SleepState, OnDisk, Linked

\* A task on no wait queue may take any state but the one that needs a waker.
LEMMA SetsStateWait ==
  ASSUME NEW k, WaitType(k), NEW X, X \subseteq Channels, WaitOK(k, X),
         NEW t \in Tasks, ~Linked(k, t),
         NEW st \in States, st # "INTERRUPTIBLE", NEW k2, SetsState(k, k2, t, st)
  PROVE  WaitType(k2) /\ WaitOK(k2, X)
<1>1. WaitType(k2) /\ k2.wait = k.wait
  BY DEF WaitType, SetsState, TaskStates
<1>2. \A u \in Tasks : k2.state[u] = IF u = t THEN st ELSE k.state[u]
  BY DEF WaitType, SetsState, TaskStates
<1>3. \A c \in Channels : \A i \in 1..Len(k.wait[c]) : k.wait[c][i] \in Tasks /\ k.wait[c][i] # t
  <2>1. \A c \in Channels : k.wait[c] \in Seq(Tasks)
    BY DEF WaitType, WaitQueues
  <2> QED BY <2>1 DEF Linked
<1>4. WaitersSleep(k2, X)
  BY <1>1, <1>2, <1>3 DEF WaitOK, WaitersSleep
<1>5. LinkedOnce(k2)
  BY <1>1 DEF WaitOK, LinkedOnce
<1>6. WakerFindsIt(k2, X)
  BY <1>1, <1>2 DEF WaitOK, WakerFindsIt
<1> QED
  BY <1>1, <1>4, <1>5, <1>6 DEF WaitOK

\* sleep_on from the running task, in the state the waker of c tests for.
LEMMA SleepsOnWait ==
  ASSUME NEW k, WaitType(k), NEW X, X \subseteq Channels, WaitOK(k, X),
         k.current \in Tasks, ~Linked(k, k.current), NEW c \in Channels,
         NEW k2, SleepsOn(k, k2, c, SleepState(c, X))
  PROVE  WaitType(k2) /\ WaitOK(k2, X)
<1> DEFINE cur == k.current
           n == Len(k.wait[c])
<1>0. /\ \A d \in Channels : k.wait[d] \in Seq(Tasks)
      /\ n \in Nat /\ SleepState(c, X) \in States
      /\ \A d \in Channels : \A i \in 1..Len(k.wait[d]) : k.wait[d][i] \in Tasks /\ k.wait[d][i] # cur
  <2>1. \A d \in Channels : k.wait[d] \in Seq(Tasks)
    BY DEF WaitType, WaitQueues
  <2>2. SleepState(c, X) \in States
    BY DEF SleepState, States
  <2> QED BY <2>1, <2>2 DEF Linked
<1>1. WaitType(k2)
  <2>1. Append(k.wait[c], cur) \in Seq(Tasks)
    BY <1>0
  <2> QED BY <1>0, <2>1 DEF WaitType, SleepsOn, TaskStates, WaitQueues
<1>2. \A u \in Tasks : k2.state[u] = IF u = cur THEN SleepState(c, X) ELSE k.state[u]
  BY DEF WaitType, SleepsOn, TaskStates
<1>3. /\ Len(k2.wait[c]) = n + 1
      /\ \A i \in 1..(n + 1) : k2.wait[c][i] = IF i = n + 1 THEN cur ELSE k.wait[c][i]
      /\ \A d \in Channels : d # c => k2.wait[d] = k.wait[d]
  <2>1. k2.wait[c] = Append(k.wait[c], cur) /\ \A d \in Channels : d # c => k2.wait[d] = k.wait[d]
    BY DEF WaitType, SleepsOn, WaitQueues
  <2> QED BY <1>0, <2>1
<1> HIDE DEF n, cur
<1>4. WaitersSleep(k2, X)
  <2> SUFFICES ASSUME NEW d \in Channels, NEW i \in 1..Len(k2.wait[d])
               PROVE  k2.state[k2.wait[d][i]] = SleepState(d, X)
    BY DEF WaitersSleep
  <2>1. CASE d # c
    BY <1>0, <1>2, <1>3, <2>1, SMTT(30) DEF WaitOK, WaitersSleep
  <2>2. CASE d = c /\ i = n + 1
    BY <1>2, <1>3, <2>2 DEF cur
  <2>3. CASE d = c /\ i # n + 1
    <3>1. i \in 1..Len(k.wait[c]) /\ k2.wait[d][i] = k.wait[c][i]
      BY <1>0, <1>3, <2>3, SMTT(30) DEF n
    <3> QED BY <1>0, <1>2, <2>3, <3>1, SMTT(30) DEF WaitOK, WaitersSleep
  <2> QED BY <2>1, <2>2, <2>3
<1>5. LinkedOnce(k2)
  <2> SUFFICES ASSUME NEW d \in Channels, NEW e \in Channels,
                      NEW i \in 1..Len(k2.wait[d]), NEW j \in 1..Len(k2.wait[e]),
                      k2.wait[d][i] = k2.wait[e][j]
               PROVE  d = e /\ i = j
    BY DEF LinkedOnce
  <2>1. ASSUME NEW f \in Channels, NEW m \in 1..Len(k2.wait[f])
        PROVE  \/ f = c /\ m = n + 1 /\ k2.wait[f][m] = cur
               \/ m \in 1..Len(k.wait[f]) /\ k2.wait[f][m] = k.wait[f][m] /\ k.wait[f][m] # cur
    <3>1. CASE f # c
      BY <1>0, <1>3, <3>1
    <3>2. CASE f = c
      <4>1. m = n + 1 \/ m \in 1..n
        BY <1>0, <1>3, <3>2
      <4> QED BY <1>0, <1>3, <3>2, <4>1 DEF n
    <3> QED BY <3>1, <3>2
  <2>2. /\ \/ d = c /\ i = n + 1 /\ k2.wait[d][i] = cur
           \/ i \in 1..Len(k.wait[d]) /\ k2.wait[d][i] = k.wait[d][i] /\ k.wait[d][i] # cur
        /\ \/ e = c /\ j = n + 1 /\ k2.wait[e][j] = cur
           \/ j \in 1..Len(k.wait[e]) /\ k2.wait[e][j] = k.wait[e][j] /\ k.wait[e][j] # cur
    BY <2>1
  <2> QED BY <2>2 DEF WaitOK, LinkedOnce
<1>6. WakerFindsIt(k2, X)
  <2> SUFFICES ASSUME NEW t \in Tasks, k2.state[t] = "INTERRUPTIBLE"
               PROVE  \E d \in X : Contains(k2.wait[d], t)
    BY DEF WakerFindsIt
  <2>1. CASE t = cur
    <3>1. c \in X
      BY <1>2, <2>1 DEF SleepState
    <3>2. n + 1 \in 1..Len(k2.wait[c]) /\ k2.wait[c][n + 1] = t
      BY <1>0, <1>3, <2>1
    <3> QED BY <3>1, <3>2 DEF Contains
  <2>2. CASE t # cur
    <3>1. PICK d \in X : Contains(k.wait[d], t)
      BY <1>2, <2>2 DEF WaitOK, WakerFindsIt
    <3>2. PICK i \in 1..Len(k.wait[d]) : k.wait[d][i] = t
      BY <3>1 DEF Contains
    <3>3. d \in Channels /\ i \in 1..Len(k2.wait[d]) /\ k2.wait[d][i] = t
      <4>1. CASE d # c
        BY <1>3, <3>2, <4>1
      <4>2. CASE d = c
        <5>1. i \in 1..n /\ i \in 1..(n + 1) /\ i # n + 1
          BY <1>0, <3>2, <4>2 DEF n
        <5> QED BY <1>3, <3>2, <4>2, <5>1
      <4> QED BY <4>1, <4>2
    <3> QED BY <3>3 DEF Contains
  <2> QED BY <2>1, <2>2
<1> QED
  BY <1>1, <1>4, <1>5, <1>6 DEF WaitOK

\* What a wakeup that finds its waiter unlinks and leaves linked.
Unlinks(k, k2, c) ==
  /\ k2.wait \in WaitQueues
  /\ 1 \in 1..Len(k.wait[c]) /\ k.wait[c][1] = Head(k.wait[c]) /\ Head(k.wait[c]) \in Tasks
  /\ \A d \in Channels : \A i \in 1..Len(k2.wait[d]) :
       \E j \in 1..Len(k.wait[d]) :
         k2.wait[d][i] = k.wait[d][j] /\ j = IF d = c THEN i + 1 ELSE i
  /\ \A d \in Channels : \A j \in 1..Len(k.wait[d]) :
       \/ d = c /\ j = 1
       \/ \E i \in 1..Len(k2.wait[d]) : k2.wait[d][i] = k.wait[d][j]

\* list_del of the oldest waiter does that.
LEMMA WakesElements ==
  ASSUME NEW k, WaitType(k), NEW c \in Channels, k.wait[c] # <<>>,
         NEW k2, k2.wait = [k.wait EXCEPT ![c] = Tail(k.wait[c])]
  PROVE  Unlinks(k, k2, c)
<1> DEFINE q == k.wait[c]
<1>1. /\ q \in Seq(Tasks) /\ q # <<>>
      /\ k2.wait[c] = Tail(q) /\ \A d \in Channels : d # c => k2.wait[d] = k.wait[d]
  BY DEF WaitType, WaitQueues
<1>2. /\ Tail(q) \in Seq(Tasks) /\ Len(q) \in Nat \ {0} /\ Len(Tail(q)) = Len(q) - 1
      /\ Head(q) = q[1] /\ Head(q) \in Tasks
      /\ \A i \in 1..(Len(q) - 1) : Tail(q)[i] = q[i + 1]
  <2>1. q \in Seq(Tasks) /\ q # <<>>
    BY <1>1
  <2> HIDE DEF q
  <2> QED BY <2>1
<1>3. k2.wait \in WaitQueues
  BY <1>2 DEF WaitType, WaitQueues
<1>4. ASSUME NEW d \in Channels, NEW i \in 1..Len(k2.wait[d])
      PROVE  \E j \in 1..Len(k.wait[d]) : k2.wait[d][i] = k.wait[d][j] /\ j = IF d = c THEN i + 1 ELSE i
  <2>1. CASE d # c
    BY <1>1, <2>1
  <2>2. CASE d = c
    <3>0. Len(k2.wait[d]) = Len(q) - 1 /\ Len(q) \in Nat
      BY <1>1, <1>2, <2>2
    <3>1. i \in 1..(Len(q) - 1) /\ i + 1 \in 1..Len(q)
      <4> HIDE DEF q
      <4> QED BY <3>0
    <3> QED BY <1>1, <1>2, <2>2, <3>1
  <2> QED BY <2>1, <2>2
<1>5. ASSUME NEW d \in Channels, NEW j \in 1..Len(k.wait[d])
      PROVE  \/ d = c /\ j = 1
             \/ \E i \in 1..Len(k2.wait[d]) : k2.wait[d][i] = k.wait[d][j]
  <2>1. CASE d # c
    BY <1>1, <2>1
  <2>2. CASE d = c /\ j # 1
    <3>1. j - 1 \in 1..(Len(q) - 1) /\ (j - 1) + 1 = j
      BY <1>2, <2>2
    <3>2. Tail(q)[j - 1] = q[j]
      BY <1>2, <3>1
    <3> QED BY <1>1, <1>2, <2>2, <3>1, <3>2
  <2> QED BY <2>1, <2>2
<1>6. 1 \in 1..Len(q)
  BY <1>2
<1> QED
  BY <1>2, <1>3, <1>4, <1>5, <1>6, Zenon DEF Unlinks

\* A wakeup unlinks the only link of the task it makes runnable.
LEMMA WakesWait ==
  ASSUME NEW k, WaitType(k), NEW X, X \subseteq Channels, WaitOK(k, X), NEW c \in Channels,
         NEW st, NEW k2, Wakes(k, k2, c, st)
  PROVE  WaitType(k2) /\ WaitOK(k2, X)
<1>1. CASE Keeps(k, k2)
  BY <1>1 DEF Keeps, WaitType, WaitOK, WaitersSleep, LinkedOnce, WakerFindsIt
<1>2. CASE ~Keeps(k, k2)
  <2> DEFINE h == Head(k.wait[c])
  <2>0. /\ k.wait[c] # <<>> /\ k2.state = [k.state EXCEPT ![h] = "RUNNING"]
        /\ k2.wait = [k.wait EXCEPT ![c] = Tail(k.wait[c])]
    BY <1>2 DEF Wakes
  <2>1. /\ k2.wait \in WaitQueues
        /\ 1 \in 1..Len(k.wait[c]) /\ k.wait[c][1] = h /\ h \in Tasks
        /\ \A d \in Channels : \A i \in 1..Len(k2.wait[d]) :
              \E j \in 1..Len(k.wait[d]) :
                k2.wait[d][i] = k.wait[d][j] /\ j = IF d = c THEN i + 1 ELSE i
        /\ \A d \in Channels : \A j \in 1..Len(k.wait[d]) :
              \/ d = c /\ j = 1
              \/ \E i \in 1..Len(k2.wait[d]) : k2.wait[d][i] = k.wait[d][j]
    <3>1. Unlinks(k, k2, c)
      BY <2>0, WakesElements
    <3> QED BY <3>1, Zenon DEF Unlinks
  <2> HIDE DEF h
  <2>2. k2.state \in TaskStates /\ \A u \in Tasks : k2.state[u] = IF u = h THEN "RUNNING" ELSE k.state[u]
    BY <2>0, <2>1 DEF WaitType, TaskStates, States
  <2>3. \A d \in Channels : \A j \in 1..Len(k.wait[d]) : k.wait[d][j] \in Tasks
    BY DEF WaitType, WaitQueues
  <2>4. WaitersSleep(k2, X)
    <3> SUFFICES ASSUME NEW d \in Channels, NEW i \in 1..Len(k2.wait[d])
                 PROVE  k2.state[k2.wait[d][i]] = SleepState(d, X)
      BY DEF WaitersSleep
    <3>1. PICK j \in 1..Len(k.wait[d]) : k2.wait[d][i] = k.wait[d][j] /\ j = IF d = c THEN i + 1 ELSE i
      BY <2>1
    <3>2. k.wait[d][j] # h
      <4>1. d # c \/ j # 1
        <5>1. Len(k2.wait[d]) \in Nat
          BY <2>1 DEF WaitQueues
        <5> QED BY <3>1, <5>1
      <4> QED BY <2>1, <4>1 DEF WaitOK, LinkedOnce
    <3> QED BY <2>2, <2>3, <3>1, <3>2, SMTT(30) DEF WaitOK, WaitersSleep
  <2>5. LinkedOnce(k2)
    <3> SUFFICES ASSUME NEW d \in Channels, NEW e \in Channels,
                        NEW i \in 1..Len(k2.wait[d]), NEW j \in 1..Len(k2.wait[e]),
                        k2.wait[d][i] = k2.wait[e][j]
                 PROVE  d = e /\ i = j
      BY DEF LinkedOnce
    <3>1. PICK i2 \in 1..Len(k.wait[d]) : k2.wait[d][i] = k.wait[d][i2] /\ i2 = IF d = c THEN i + 1 ELSE i
      BY <2>1
    <3>2. PICK j2 \in 1..Len(k.wait[e]) : k2.wait[e][j] = k.wait[e][j2] /\ j2 = IF e = c THEN j + 1 ELSE j
      BY <2>1
    <3>3. d = e /\ i2 = j2
      <4>1. k.wait[d][i2] = k.wait[e][j2] /\ LinkedOnce(k)
        BY <3>1, <3>2 DEF WaitOK
      <4> QED BY <4>1, Zenon DEF LinkedOnce
    <3>4. Len(k2.wait[d]) \in Nat /\ Len(k2.wait[e]) \in Nat
      BY <2>1 DEF WaitQueues
    <3> QED BY <3>1, <3>2, <3>3, <3>4
  <2>6. WakerFindsIt(k2, X)
    <3> SUFFICES ASSUME NEW t \in Tasks, k2.state[t] = "INTERRUPTIBLE"
                 PROVE  \E d \in X : Contains(k2.wait[d], t)
      BY DEF WakerFindsIt
    <3>1. t # h /\ k.state[t] = "INTERRUPTIBLE"
      BY <2>2
    <3>2. PICK d \in X : Contains(k.wait[d], t)
      BY <3>1 DEF WaitOK, WakerFindsIt
    <3>3. PICK j \in 1..Len(k.wait[d]) : k.wait[d][j] = t
      BY <3>2 DEF Contains
    <3>4. \E i \in 1..Len(k2.wait[d]) : k2.wait[d][i] = t
      BY <2>1, <3>1, <3>3
    <3> QED BY <3>4 DEF Contains
  <2> QED BY <2>1, <2>2, <2>4, <2>5, <2>6 DEF WaitOK, WaitType
<1> QED BY <1>1, <1>2

\* The tasks that wait for the disk are the same before and after.
SameOnDisk(k, k2) == \A t \in Tasks : OnDisk(k2, t) <=> OnDisk(k, t)

\* The inductive invariant of the scheduler and the wait queues together.
KernelOK(k, X) == Inv(k) /\ WaitOK(k, X)

\* What KernelOK says of types and of the running task.
LEMMA KernelTypes ==
  ASSUME NEW k, NEW X, KernelOK(k, X)
  PROVE  /\ Inv(k) /\ WaitOK(k, X) /\ WaitType(k) /\ k.current \in Tasks
         /\ k.state[k.current] = "RUNNING" /\ ~Linked(k, k.current)
<1>1. Inv(k) /\ WaitOK(k, X) /\ k.state[k.current] = "RUNNING" /\ k.current \in Tasks /\ WaitType(k)
  BY DEF KernelOK, Inv, Core, QueueOK, KernelType, WaitType
<1> QED
  BY <1>1, NotLinked

\* An entry that changes neither states nor wait queues.
LEMMA KeepsEntry ==
  ASSUME NEW k, NEW X, KernelOK(k, X), NEW k2, Inv(k2), Keeps(k, k2)
  PROVE  KernelOK(k2, X) /\ SameOnDisk(k, k2)
<1>1. WaitOK(k2, X)
  BY DEF KernelOK, Keeps, WaitOK, WaitersSleep, LinkedOnce, WakerFindsIt
<1> QED
  BY <1>1 DEF KernelOK, Keeps, SameOnDisk, OnDisk

\* An entry that changes the state of a task that is on no wait queue.
LEMMA SetsStateEntry ==
  ASSUME NEW k, NEW X, X \subseteq Channels, KernelOK(k, X), NEW t \in Tasks, ~Linked(k, t),
         NEW st \in States, st # "INTERRUPTIBLE", NEW k2, Inv(k2), SetsState(k, k2, t, st)
  PROVE  /\ KernelOK(k2, X)
         /\ \A u \in Tasks : OnDisk(k2, u) <=> IF u = t THEN st = "UNINTERRUPTIBLE" ELSE OnDisk(k, u)
<1>0. WaitOK(k, X) /\ WaitType(k)
  BY KernelTypes
<1>1. WaitOK(k2, X)
  BY <1>0, SetsStateWait
<1>2. k2.wait = k.wait /\ \A u \in Tasks : k2.state[u] = IF u = t THEN st ELSE k.state[u]
  BY <1>0 DEF WaitType, SetsState, TaskStates
<1> QED
  BY <1>1, <1>2 DEF KernelOK, OnDisk, Linked

\* An entry in which the running task goes to sleep on a queue.
LEMMA SleepsOnEntry ==
  ASSUME NEW k, NEW X, X \subseteq Channels, KernelOK(k, X), NEW c \in Channels,
         NEW k2, Inv(k2), SleepsOn(k, k2, c, SleepState(c, X))
  PROVE  KernelOK(k2, X) /\ SameOnDisk(k, k2)
<1>0. /\ WaitOK(k, X) /\ WaitType(k) /\ k.current \in Tasks /\ ~Linked(k, k.current)
      /\ k.state[k.current] = "RUNNING"
  BY KernelTypes
<1>1. WaitOK(k2, X)
  BY <1>0, SleepsOnWait
<1>2. ASSUME NEW u \in Tasks PROVE OnDisk(k2, u) <=> OnDisk(k, u)
  <2>1. k2.state[u] = IF u = k.current THEN SleepState(c, X) ELSE k.state[u]
    BY <1>0 DEF WaitType, SleepsOn, TaskStates
  <2>2. /\ \A d \in Channels : d # c => k2.wait[d] = k.wait[d]
        /\ k2.wait[c] = Append(k.wait[c], k.current) /\ k.wait[c] \in Seq(Tasks)
    BY <1>0 DEF WaitType, SleepsOn, WaitQueues
  <2>3. /\ Len(k2.wait[c]) = Len(k.wait[c]) + 1 /\ Len(k.wait[c]) \in Nat
        /\ \A i \in 1..(Len(k.wait[c]) + 1) :
             k2.wait[c][i] = IF i = Len(k.wait[c]) + 1 THEN k.current ELSE k.wait[c][i]
    <3> DEFINE q == k.wait[c]
    <3>1. q \in Seq(Tasks) /\ k2.wait[c] = Append(q, k.current)
      BY <2>2
    <3> HIDE DEF q
    <3>2. /\ Len(Append(q, k.current)) = Len(q) + 1 /\ Len(q) \in Nat
          /\ \A i \in 1..(Len(q) + 1) :
               Append(q, k.current)[i] = IF i = Len(q) + 1 THEN k.current ELSE q[i]
      BY <3>1, <1>0
    <3> QED BY <3>1, <3>2, Zenon DEF q
  <2>4. CASE u = k.current
    <3>1. Len(k2.wait[c]) \in 1..Len(k2.wait[c]) /\ k2.wait[c][Len(k2.wait[c])] = u
      BY <2>3, <2>4
    <3>2. ~OnDisk(k2, u) /\ ~OnDisk(k, u)
      BY <1>0, <2>4, <3>1 DEF OnDisk
    <3> QED BY <3>2
  <2>5. CASE u # k.current
    <3>1. (\A i \in 1..Len(k2.wait[c]) : k2.wait[c][i] # u)
            <=> (\A i \in 1..Len(k.wait[c]) : k.wait[c][i] # u)
      <4> DEFINE q == k.wait[c]
                 r == k2.wait[c]
      <4>1. /\ Len(r) = Len(q) + 1 /\ Len(q) \in Nat
            /\ \A i \in 1..(Len(q) + 1) : r[i] = IF i = Len(q) + 1 THEN k.current ELSE q[i]
        BY <2>3, Zenon
      <4> HIDE DEF q, r
      <4>2. (\A i \in 1..Len(r) : r[i] # u) <=> (\A i \in 1..Len(q) : q[i] # u)
        BY <2>5, <4>1
      <4> QED BY <4>2, Zenon DEF q, r
    <3>2. ASSUME NEW d \in Channels
          PROVE (\A i \in 1..Len(k2.wait[d]) : k2.wait[d][i] # u)
                  <=> (\A i \in 1..Len(k.wait[d]) : k.wait[d][i] # u)
      BY <2>2, <3>1
    <3> QED BY <2>1, <2>5, <3>2 DEF OnDisk
  <2> QED BY <2>4, <2>5
<1> QED
  BY <1>1, <1>2 DEF KernelOK, SameOnDisk

\* An entry that wakes the oldest waiter of a queue.
LEMMA WakesOnDisk ==
  ASSUME NEW k, WaitType(k), NEW c \in Channels, NEW st, NEW k2, Wakes(k, k2, c, st)
  PROVE  SameOnDisk(k, k2)
<1>1. CASE Keeps(k, k2)
  BY <1>1 DEF Keeps, SameOnDisk, OnDisk
<1>2. CASE ~Keeps(k, k2)
  <2> DEFINE h == Head(k.wait[c])
  <2>0. /\ k.wait[c] # <<>> /\ k2.state = [k.state EXCEPT ![h] = "RUNNING"]
        /\ k2.wait = [k.wait EXCEPT ![c] = Tail(k.wait[c])]
    BY <1>2 DEF Wakes
  <2>1. Unlinks(k, k2, c)
    BY <2>0, WakesElements
  <2>2. k.wait[c][1] = h /\ 1 \in 1..Len(k.wait[c]) /\ h \in Tasks
    BY <2>1, Zenon DEF Unlinks
  <2> HIDE DEF h
  <2>3. \A u \in Tasks : k2.state[u] = IF u = h THEN "RUNNING" ELSE k.state[u]
    BY <2>0, <2>2 DEF WaitType, TaskStates
  <2>4. ASSUME NEW u \in Tasks, u # h PROVE Linked(k2, u) <=> Linked(k, u)
    <3>1. ASSUME Linked(k2, u) PROVE Linked(k, u)
      <4>0. PICK d \in Channels : \E i \in 1..Len(k2.wait[d]) : k2.wait[d][i] = u
        BY <3>1, Zenon DEF Linked
      <4>1. PICK i \in 1..Len(k2.wait[d]) : k2.wait[d][i] = u
        BY <4>0
      <4>2. PICK j \in 1..Len(k.wait[d]) : k2.wait[d][i] = k.wait[d][j]
        BY <2>1, Zenon DEF Unlinks
      <4> QED BY <4>1, <4>2, Zenon DEF Linked
    <3>2. ASSUME Linked(k, u) PROVE Linked(k2, u)
      <4>0. PICK d \in Channels : \E j \in 1..Len(k.wait[d]) : k.wait[d][j] = u
        BY <3>2, Zenon DEF Linked
      <4>1. PICK j \in 1..Len(k.wait[d]) : k.wait[d][j] = u
        BY <4>0
      <4>2. ~(d = c /\ j = 1)
        BY <2>2, <2>4, <4>1, Zenon
      <4>3. PICK i \in 1..Len(k2.wait[d]) : k2.wait[d][i] = k.wait[d][j]
        BY <2>1, <4>2, Zenon DEF Unlinks
      <4> QED BY <4>1, <4>3, Zenon DEF Linked
    <3> QED BY <3>1, <3>2
  <2>5. Linked(k, h)
    BY <2>2 DEF Linked
  <2>6. ASSUME NEW u \in Tasks PROVE OnDisk(k2, u) <=> OnDisk(k, u)
    <3>1. /\ OnDisk(k2, u) <=> k2.state[u] = "UNINTERRUPTIBLE" /\ ~Linked(k2, u)
          /\ OnDisk(k, u) <=> k.state[u] = "UNINTERRUPTIBLE" /\ ~Linked(k, u)
      BY DEF OnDisk, Linked
    <3> QED BY <2>3, <2>4, <2>5, <3>1
  <2> QED BY <2>6 DEF SameOnDisk
<1> QED BY <1>1, <1>2

\* wakeup keeps the invariant and takes nobody off the disk's queue.
LEMMA WakesEntry ==
  ASSUME NEW k, NEW X, X \subseteq Channels, KernelOK(k, X), NEW c \in Channels,
         NEW st, NEW k2, Inv(k2), Wakes(k, k2, c, st)
  PROVE  KernelOK(k2, X) /\ SameOnDisk(k, k2)
<1>0. WaitOK(k, X) /\ WaitType(k)
  BY KernelTypes
<1>1. WaitOK(k2, X) /\ SameOnDisk(k, k2)
  BY <1>0, WakesWait, WakesOnDisk
<1> QED
  BY <1>1 DEF KernelOK

-----------------------------------------------------------------------------
(* Kernel entries that do not concern the disk *)

Entry(k, k2, X) ==
  \/ k2 = ret_from_intr(HPET_handler(k))
  \/ k2 = ret_from_intr(k)
  \/ \E c \in Channels :
       \/ k2 = ret_from_intr(wakeup(k, c, "UNINTERRUPTIBLE"))
       \/ k.current # Idle /\ k2 = sleep_on(k, c, SleepState(c, X))
       \/ k.current # Idle /\ k2 = do_exit(k, c)
  \/ \E t \in Tasks :
       \/ k.state[t] = "NONE" /\ k2 = do_fork(k, t)
       \/ k.state[t] = "ZOMBIE" /\ k2 = [k EXCEPT !.state[t] = "NONE"]

\* They keep the invariant and leave the tasks that wait for the disk alone.
LEMMA EntryStep ==
  ASSUME NEW k, NEW X, X \subseteq Channels, KernelOK(k, X), NEW k2, Entry(k, k2, X)
  PROVE  KernelOK(k2, X) /\ StepOK(k, k2) /\ SameOnDisk(k, k2)
<1> DEFINE G == KernelOK(k2, X) /\ StepOK(k, k2) /\ SameOnDisk(k, k2)
<1>0. /\ Inv(k) /\ WaitOK(k, X) /\ WaitType(k) /\ k.current \in Tasks
      /\ k.state[k.current] = "RUNNING" /\ ~Linked(k, k.current)
  BY KernelTypes
<1>1. CASE k2 = ret_from_intr(HPET_handler(k))
  <2>1. Inv(k2) /\ StepOK(k, k2) /\ Keeps(k, k2)
    BY <1>0, <1>1, TickStep
  <2> QED BY <2>1, KeepsEntry
<1>2. CASE k2 = ret_from_intr(k)
  <2>1. Inv(k2) /\ StepOK(k, k2) /\ Keeps(k, k2)
    BY <1>0, <1>2, QuietIrqStep
  <2> QED BY <2>1, KeepsEntry
<1>3. ASSUME NEW c \in Channels, k2 = ret_from_intr(wakeup(k, c, "UNINTERRUPTIBLE")) PROVE G
  <2>1. Inv(k2) /\ StepOK(k, k2) /\ Wakes(k, k2, c, "UNINTERRUPTIBLE")
    BY <1>0, <1>3, DeviceIrqStep
  <2> QED BY <2>1, WakesEntry
<1>4. ASSUME NEW c \in Channels, k.current # Idle, k2 = sleep_on(k, c, SleepState(c, X)) PROVE G
  <2>1. PICK st \in States : st = SleepState(c, X) /\ st # "RUNNING"
    BY DEF SleepState, States
  <2>2. Inv(k2) /\ StepOK(k, k2) /\ SleepsOn(k, k2, c, st)
    BY <1>0, <1>4, <2>1, SleepOnStep
  <2> QED BY <2>1, <2>2, SleepsOnEntry
<1>5. ASSUME NEW c \in Channels, k.current # Idle, k2 = do_exit(k, c) PROVE G
  <2>1. /\ Inv(k2) /\ StepOK(k, k2)
        /\ \E z : SetsState(k, z, k.current, "ZOMBIE") /\ Wakes(z, k2, c, "INTERRUPTIBLE")
    BY <1>0, <1>5, ExitStep
  <2>2. PICK z : SetsState(k, z, k.current, "ZOMBIE") /\ Wakes(z, k2, c, "INTERRUPTIBLE")
    BY <2>1
  <2>3. PICK st \in States : st = "ZOMBIE" /\ st # "INTERRUPTIBLE"
    BY DEF States
  <2>4. SetsState(k, z, k.current, st)
    BY <2>2, <2>3
  <2>5. WaitType(z) /\ WaitOK(z, X)
    BY <1>0, <2>3, <2>4, SetsStateWait
  <2>6. SameOnDisk(k, z)
    BY <1>0, <2>2 DEF SameOnDisk, OnDisk, SetsState, WaitType, TaskStates
  <2>7. WaitOK(k2, X)
    BY <2>2, <2>5, WakesWait
  <2>8. SameOnDisk(z, k2)
    BY <2>2, <2>5, WakesOnDisk
  <2>9. SameOnDisk(k, k2)
    BY <2>6, <2>8 DEF SameOnDisk
  <2> QED BY <2>1, <2>7, <2>9 DEF KernelOK
<1>6. ASSUME NEW t \in Tasks, k.state[t] = "NONE", k2 = do_fork(k, t) PROVE G
  <2>1. Inv(k2) /\ StepOK(k, k2) /\ SetsState(k, k2, t, "RUNNING")
    BY <1>0, <1>6, ForkStep
  <2>2. PICK st \in States : st = "RUNNING" /\ st # "INTERRUPTIBLE" /\ st # "UNINTERRUPTIBLE"
    BY DEF States
  <2>3. ~Linked(k, t) /\ ~OnDisk(k, t)
    BY <1>0, <1>6, NotLinked DEF OnDisk
  <2>4. /\ KernelOK(k2, X)
        /\ \A u \in Tasks : OnDisk(k2, u) <=> IF u = t THEN st = "UNINTERRUPTIBLE" ELSE OnDisk(k, u)
    BY <2>1, <2>2, <2>3, SetsStateEntry
  <2> QED BY <2>1, <2>2, <2>3, <2>4 DEF SameOnDisk
<1>7. ASSUME NEW t \in Tasks, k.state[t] = "ZOMBIE", k2 = [k EXCEPT !.state[t] = "NONE"] PROVE G
  <2>1. Inv(k2) /\ StepOK(k, k2) /\ SetsState(k, k2, t, "NONE")
    BY <1>0, <1>7, ReapStep
  <2>2. PICK st \in States : st = "NONE" /\ st # "INTERRUPTIBLE" /\ st # "UNINTERRUPTIBLE"
    BY DEF States
  <2>3. ~Linked(k, t) /\ ~OnDisk(k, t)
    BY <1>0, <1>7, NotLinked DEF OnDisk
  <2>4. /\ KernelOK(k2, X)
        /\ \A u \in Tasks : OnDisk(k2, u) <=> IF u = t THEN st = "UNINTERRUPTIBLE" ELSE OnDisk(k, u)
    BY <2>1, <2>2, <2>3, SetsStateEntry
  <2> QED BY <2>1, <2>2, <2>3, <2>4 DEF SameOnDisk
<1> QED
  BY <1>1, <1>2, <1>3, <1>4, <1>5, <1>6, <1>7 DEF Entry

\* The disk's two entries: the caller starts to wait for it, ...
LEMMA TransferEntry ==
  ASSUME NEW k, NEW X, X \subseteq Channels, KernelOK(k, X), k.current # Idle,
         NEW k2, k2 = wait_for_finish(k)
  PROVE  /\ KernelOK(k2, X) /\ StepOK(k, k2)
         /\ \A u \in Tasks : OnDisk(k2, u) <=> OnDisk(k, u) \/ u = k.current
<1>0. /\ Inv(k) /\ k.current \in Tasks /\ ~Linked(k, k.current)
  BY KernelTypes
<1>1. Inv(k2) /\ StepOK(k, k2) /\ SetsState(k, k2, k.current, "UNINTERRUPTIBLE")
  BY <1>0, TransferStep
<1>2. PICK st \in States : st = "UNINTERRUPTIBLE" /\ st # "INTERRUPTIBLE"
  BY DEF States
<1>3. /\ KernelOK(k2, X)
      /\ \A u \in Tasks :
           OnDisk(k2, u) <=> IF u = k.current THEN st = "UNINTERRUPTIBLE" ELSE OnDisk(k, u)
  BY <1>0, <1>1, <1>2, SetsStateEntry
<1> QED
  BY <1>1, <1>2, <1>3

\* ... and end_request makes it runnable again.
LEMMA DiskIrqEntry ==
  ASSUME NEW k, NEW X, X \subseteq Channels, KernelOK(k, X), NEW t \in Tasks, OnDisk(k, t),
         NEW k2, k2 = ret_from_intr(wakeup_process(k, t))
  PROVE  /\ KernelOK(k2, X) /\ StepOK(k, k2)
         /\ \A u \in Tasks : OnDisk(k2, u) <=> OnDisk(k, u) /\ u # t
<1>0. Inv(k) /\ WaitOK(k, X) /\ k.state[t] = "UNINTERRUPTIBLE"
  BY KernelTypes DEF OnDisk
<1>1. Inv(k2) /\ StepOK(k, k2) /\ SetsState(k, k2, t, "RUNNING")
  BY <1>0, DiskIrqStep
<1>2. PICK st \in States : st = "RUNNING" /\ st # "INTERRUPTIBLE" /\ st # "UNINTERRUPTIBLE"
  BY DEF States
<1>3. ~Linked(k, t)
  BY <1>0, NotLinked
<1>4. /\ KernelOK(k2, X)
      /\ \A u \in Tasks : OnDisk(k2, u) <=> IF u = t THEN st = "UNINTERRUPTIBLE" ELSE OnDisk(k, u)
  BY <1>1, <1>2, <1>3, SetsStateEntry
<1> QED
  BY <1>1, <1>2, <1>4

\* The record task_init leaves behind: init is queued, the idle task runs.
Boot(init) ==
  [queue   |-> <<init>>,
   count   |-> 2,
   slice   |-> 4,
   vrun    |-> [t \in Tasks |-> 0],
   state   |-> [t \in Tasks |-> IF t \in {Idle, init} THEN "RUNNING" ELSE "NONE"],
   need    |-> {Idle},
   current |-> Idle,
   wait    |-> [c \in Channels |-> <<>>]]

\* The invariant holds there.
LEMMA BootOK ==
  ASSUME NEW init \in Tasks \ {Idle}, NEW k, k = Boot(init), NEW X
  PROVE  KernelOK(k, X) /\ \A t \in Tasks : ~OnDisk(k, t)
<1>0. /\ k.queue = <<init>> /\ k.count = 2 /\ k.slice = 4
      /\ k.vrun = [t \in Tasks |-> 0] /\ k.need = {Idle} /\ k.current = Idle
      /\ k.state = [t \in Tasks |-> IF t \in {Idle, init} THEN "RUNNING" ELSE "NONE"]
      /\ k.wait = [c \in Channels |-> <<>>]
  BY DEF Boot
<1>1. /\ <<init>> \in RunQueues /\ [t \in Tasks |-> 0] \in VrunTimes
      /\ [c \in Channels |-> <<>>] \in WaitQueues
  BY DEF RunQueues, VrunTimes, WaitQueues
<1>2. [t \in Tasks |-> IF t \in {Idle, init} THEN "RUNNING" ELSE "NONE"] \in TaskStates
  BY DEF TaskStates, States
<1>3. k \in KernelType
  <2>1. {Idle} \in SUBSET Tasks /\ Idle \in Tasks /\ 2 \in Int /\ 4 \in Int
    BY IdleAssumption
  <2> QED BY <1>1, <1>2, <2>1 DEF Boot, KernelType
<1>4. Len(k.queue) = 1 /\ k.queue[1] = init
  BY <1>0
<1>5. \A u \in Tasks : Contains(k.queue, u) <=> u = init
  BY <1>4 DEF Contains
<1>6. /\ \A u \in Tasks : k.state[u] = IF u \in {Idle, init} THEN "RUNNING" ELSE "NONE"
      /\ \A u \in Tasks : k.vrun[u] = 0
      /\ \A c \in Channels : k.wait[c] = <<>>
  BY <1>0
<1>7. QueueOK(k)
  BY <1>0, <1>3, <1>4 DEF QueueOK, Ordered, Distinct
<1>8. QueueExact(k) /\ k.state[Idle] = "RUNNING"
  BY <1>0, <1>5, <1>6, IdleAssumption DEF QueueExact
<1>9. LeadOK(k)
  BY <1>0, <1>6, IdleAssumption DEF LeadOK, MaxSlice
<1>10. FlagsOK(k) /\ k.slice <= MaxSlice
  BY <1>0 DEF FlagsOK, MaxSlice
<1>11. Inv(k)
  BY <1>0, <1>7, <1>8, <1>9, <1>10 DEF Inv, Core
<1>12. WaitersSleep(k, X) /\ LinkedOnce(k)
  BY <1>6 DEF WaitersSleep, LinkedOnce
<1>13. \A u \in Tasks : k.state[u] \notin {"INTERRUPTIBLE", "UNINTERRUPTIBLE"}
  BY <1>6
<1> QED
  BY <1>11, <1>12, <1>13 DEF KernelOK, WaitOK, WakerFindsIt, OnDisk

=============================================================================
