--------------------------- MODULE KeyboardProofs ---------------------------
(***************************************************************************)
(* Proofs about Keyboard: no reader sleeps on a key nobody will fetch, and *)
(* until the ring wraps every read returns the oldest unread codes.        *)
(***************************************************************************)
EXTENDS Keyboard, SchedOpsProofs, FiniteSetTheorems

-----------------------------------------------------------------------------
(* The scheduler Keyboard instantiates is the one SchedOps defines *)

\* The operators of the instance S of Sched are those of SchedOps: the list walk and
\* the insertion of insert_task_queue,
LEMMA SamePoint ==
  /\ \A k, t : S!InsertPoint(k, t) = InsertPoint(k, t)
  /\ \A s, i, x : S!InsertAt(s, i, x) = InsertAt(s, i, x)
<1>1. \A k, t : S!InsertPoint(k, t) = InsertPoint(k, t)
  BY Zenon DEF S!InsertPoint, InsertPoint
<1>2. \A s, i, x : S!InsertAt(s, i, x) = InsertAt(s, i, x)
  BY Zenon DEF S!InsertAt, InsertAt
<1> QED
  BY <1>1, <1>2

\* insert_task_queue itself,
LEMMA SameInsert == \A k, t : S!insert_task_queue(k, t) = insert_task_queue(k, t)
  BY SamePoint DEF S!insert_task_queue, insert_task_queue

\* the parts of schedule,
LEMMA SameParts ==
  /\ \A k : S!get_next_task(k) = get_next_task(k) /\ S!dequeue(k) = dequeue(k)
  /\ \A k, t : S!recharge(k, t) = recharge(k, t)
<1>1. \A k : S!get_next_task(k) = get_next_task(k)
  BY Zenon DEF S!get_next_task, get_next_task
<1>2. \A k : S!dequeue(k) = dequeue(k)
  BY Zenon DEF S!dequeue, dequeue
<1>3. \A k, t : S!recharge(k, t) = recharge(k, t)
  BY Zenon DEF S!recharge, recharge
<1> QED
  BY <1>1, <1>2, <1>3

\* schedule,
LEMMA SameSchedule == \A k : S!schedule(k) = schedule(k)
  BY SameInsert, SameParts DEF S!schedule, schedule

\* ret_from_intr,
LEMMA SameReturn == \A k : S!ret_from_intr(k) = ret_from_intr(k)
  BY SameSchedule DEF S!ret_from_intr, ret_from_intr

\* wakeup_process,
LEMMA SameWakeupProcess == \A k, t : S!wakeup_process(k, t) = wakeup_process(k, t)
  BY SameInsert DEF S!wakeup_process, wakeup_process

\* and wakeup.
LEMMA SameWakeup == \A k, c, st : S!wakeup(k, c, st) = wakeup(k, c, st)
  BY SameWakeupProcess DEF S!wakeup, wakeup

\* The kernel entries of OtherEntry; X is the set of wait_childexit channels.
Elsewhere(k, k2, X) ==
  \/ k2 = ret_from_intr(HPET_handler(k))
  \/ k2 = ret_from_intr(k)
  \/ \E c \in X :
       \/ k.current # Idle /\ k2 = sleep_on(k, c, SleepState(c, X))
       \/ k.current # Idle /\ k2 = do_exit(k, c)
  \/ \E t \in Tasks :
       \/ k.state[t] = "NONE" /\ k2 = do_fork(k, t)
       \/ k.state[t] = "ZOMBIE" /\ k2 = [k EXCEPT !.state[t] = "NONE"]

\* The kernel entries that are not the keyboard driver's leave its wait queue alone.
LEMMA OtherIsElsewhere == OtherEntry => Elsewhere(kern, kern', ExitChannels)
<1>1. S!Tick => kern' = ret_from_intr(HPET_handler(kern))
  BY SameReturn DEF S!Tick, S!HPET_handler, HPET_handler, S!Weight, Weight
<1>2. S!QuietIrq => kern' = ret_from_intr(kern)
  BY SameReturn DEF S!QuietIrq
<1>3. ASSUME NEW c, S!SysWait(c)
      PROVE  c \in ExitChannels /\ kern.current # Idle /\ kern' = sleep_on(kern, c, SleepState(c, ExitChannels))
  BY <1>3, SameSchedule DEF S!SysWait, S!sleep_on, sleep_on, SleepState
<1>4. ASSUME NEW c, S!SysExit(c)
      PROVE  c \in ExitChannels /\ kern.current # Idle /\ kern' = do_exit(kern, c)
  BY <1>4, SameSchedule, SameWakeup DEF S!SysExit, S!do_exit, do_exit
<1>5. ASSUME NEW t, S!SysFork(t) PROVE kern.state[t] = "NONE" /\ kern' = do_fork(kern, t)
  BY <1>5, SameWakeupProcess DEF S!SysFork, S!do_fork, do_fork
<1>6. ASSUME NEW t, S!SysReap(t)
      PROVE  kern.state[t] = "ZOMBIE" /\ kern' = [kern EXCEPT !.state[t] = "NONE"]
  BY <1>6 DEF S!SysReap
<1> QED
  BY <1>1, <1>2, <1>3, <1>4, <1>5, <1>6 DEF OtherEntry, Elsewhere

\* Such an entry is one the scheduler's invariant is proved for.
LEMMA ElsewhereIsEntry ==
  ASSUME NEW k, NEW X, X \subseteq Channels, NEW k2, Elsewhere(k, k2, X)
  PROVE  Entry(k, k2, X)
  BY DEF Elsewhere, Entry

\* What such an entry leaves alone: device queue q, and the runnable and device-waiting
\* tasks other than the running one.
Spares(k, k2, q) ==
  /\ k2.wait[q] = k.wait[q]
  /\ \A u \in Tasks : u # k.current /\ k.state[u] \in {"RUNNING", "UNINTERRUPTIBLE"}
                        => k2.state[u] = k.state[u]

\* A change of the running or of a sleeping task's state disturbs no other task.
LEMMA SetsStateSpares ==
  ASSUME NEW k, WaitType(k), NEW t \in Tasks, NEW st, NEW q, NEW k2, SetsState(k, k2, t, st),
         t = k.current \/ k.state[t] \notin {"RUNNING", "UNINTERRUPTIBLE"}
  PROVE  Spares(k, k2, q)
  BY DEF WaitType, SetsState, Spares, TaskStates

\* An entry elsewhere neither wakes nor removes a reader that waits.
LEMMA ElsewhereSpares ==
  ASSUME NEW k, NEW X, X \subseteq Channels, KernelOK(k, X), NEW k2, Elsewhere(k, k2, X),
         NEW q \in Channels \ X
  PROVE  Spares(k, k2, q)
<1>0. /\ Inv(k) /\ WaitOK(k, X) /\ WaitType(k) /\ k.current \in Tasks
  BY KernelTypes
<1>1. CASE k2 = ret_from_intr(HPET_handler(k))
  <2>1. Keeps(k, k2)
    BY <1>0, <1>1, TickStep
  <2> QED BY <2>1 DEF Keeps, Spares
<1>2. CASE k2 = ret_from_intr(k)
  <2>1. Keeps(k, k2)
    BY <1>0, <1>2, QuietIrqStep
  <2> QED BY <2>1 DEF Keeps, Spares
<1>3. ASSUME NEW c \in X, k.current # Idle, k2 = sleep_on(k, c, SleepState(c, X))
      PROVE  Spares(k, k2, q)
  <2>1. PICK st \in States : st = SleepState(c, X) /\ st # "RUNNING"
    BY DEF SleepState, States
  <2>2. SleepsOn(k, k2, c, st)
    BY <1>0, <1>3, <2>1, SleepOnStep
  <2> QED BY <1>0, <2>2 DEF WaitType, SleepsOn, Spares, TaskStates, WaitQueues
<1>4. ASSUME NEW c \in X, k.current # Idle, k2 = do_exit(k, c) PROVE Spares(k, k2, q)
  <2>1. PICK z : SetsState(k, z, k.current, "ZOMBIE") /\ Wakes(z, k2, c, "INTERRUPTIBLE")
    <3>1. c \in Channels
      OBVIOUS
    <3> QED BY <1>0, <1>4, <3>1, ExitStep
  <2>2. /\ z.wait = k.wait /\ \A u \in Tasks : u # k.current => z.state[u] = k.state[u]
        /\ z.state \in TaskStates
    BY <1>0, <2>1 DEF WaitType, SetsState, TaskStates, States
  <2>3. CASE Keeps(z, k2)
    BY <2>2, <2>3 DEF Keeps, Spares
  <2>4. CASE ~Keeps(z, k2)
    <3>1. /\ z.state[Head(z.wait[c])] = "INTERRUPTIBLE"
          /\ k2.state = [z.state EXCEPT ![Head(z.wait[c])] = "RUNNING"]
          /\ k2.wait = [z.wait EXCEPT ![c] = Tail(z.wait[c])]
      BY <2>1, <2>4 DEF Wakes
    <3> QED BY <1>0, <2>2, <3>1 DEF Spares, WaitType, TaskStates, WaitQueues
  <2> QED BY <2>3, <2>4
<1>5. ASSUME NEW t \in Tasks, k.state[t] = "NONE", k2 = do_fork(k, t) PROVE Spares(k, k2, q)
  <2>1. SetsState(k, k2, t, "RUNNING")
    BY <1>0, <1>5, ForkStep
  <2> QED BY <1>0, <1>5, <2>1, SetsStateSpares
<1>6. ASSUME NEW t \in Tasks, k.state[t] = "ZOMBIE", k2 = [k EXCEPT !.state[t] = "NONE"]
      PROVE  Spares(k, k2, q)
  <2>1. SetsState(k, k2, t, "NONE")
    BY <1>0, <1>6, ReapStep
  <2> QED BY <1>0, <1>6, <2>1, SetsStateSpares
<1> QED
  BY <1>1, <1>2, <1>3, <1>4, <1>5, <1>6 DEF Elsewhere

-----------------------------------------------------------------------------
(* The ring before its first wrap *)

\* n keys have been typed since the reset, u is the list of the unread ones.
Lap(b, n, u) ==
  /\ b.head = n
  /\ Len(u) <= n
  /\ b.count = Len(u)
  /\ b.tail = n - Len(u)
  /\ \A i \in 1..Len(u) : b.buf[b.tail + i - 1] = u[i]

\* keyboard_handler stores behind the unread codes.
LEMMA PutType ==
  ASSUME NEW b \in KeyboardType, NEW x \in Codes, NEW b2, b2 = put(b, x)
  PROVE  /\ b2 \in KeyboardType /\ b2.count = b.count + 1 /\ b2.tail = b.tail
         /\ b.head < KB_BUF_SIZE => /\ b2.head = b.head + 1
                                    /\ b2.buf = [b.buf EXCEPT ![b.head] = x]
<1> DEFINE h == IF b.head = KB_BUF_SIZE THEN 0 ELSE b.head
           buf2 == [b.buf EXCEPT ![h] = x]
<1>0. /\ KB_BUF_SIZE \in Nat \ {0} /\ b.head \in 0..KB_BUF_SIZE /\ b.count \in Nat /\ b.tail \in Nat
      /\ b.buf \in [0..(KB_BUF_SIZE - 1) -> Codes \cup {Junk}]
  BY KeyboardAssumption DEF KeyboardType
<1>1. h \in 0..(KB_BUF_SIZE - 1) /\ h + 1 \in 0..KB_BUF_SIZE /\ b.count + 1 \in Nat
      /\ (b.head < KB_BUF_SIZE => h = b.head)
  BY <1>0
<1>2. b2 = [b EXCEPT !.buf = buf2, !.count = b.count + 1, !.head = h + 1]
  BY DEF put, KeyboardType
<1>3. buf2 \in [0..(KB_BUF_SIZE - 1) -> Codes \cup {Junk}]
  BY <1>0, <1>1
<1> HIDE DEF buf2, h
<1>4. /\ b2 \in KeyboardType /\ b2.buf = buf2 /\ b2.count = b.count + 1 /\ b2.head = h + 1
      /\ b2.tail = b.tail
  BY <1>1, <1>2, <1>3 DEF KeyboardType
<1> QED
  BY <1>1, <1>4 DEF buf2

\* Storing a code in the first lap extends what is unread at its end.
LEMMA PutLap ==
  ASSUME NEW b \in KeyboardType, NEW x \in Codes, NEW n \in Nat, n < KB_BUF_SIZE,
         NEW u \in Seq(Codes), Lap(b, n, u), NEW b2, b2 = put(b, x)
  PROVE  Lap(b2, n + 1, Append(u, x))
<1> DEFINE v == Append(u, x)
<1>0. /\ KB_BUF_SIZE \in Nat /\ Len(u) \in Nat /\ Len(v) = Len(u) + 1
      /\ \A i \in 1..(Len(u) + 1) : v[i] = IF i <= Len(u) THEN u[i] ELSE x
  BY KeyboardAssumption
<1> HIDE DEF v
<1>1. /\ b2.count = Len(u) + 1 /\ b2.tail = n - Len(u) /\ b2.head = n + 1 /\ Len(u) <= n
      /\ b2.buf = [b.buf EXCEPT ![n] = x]
  BY PutType DEF Lap
<1>2. \A p \in 0..(KB_BUF_SIZE - 1) : b2.buf[p] = IF p = n THEN x ELSE b.buf[p]
  BY <1>1 DEF KeyboardType
<1>3. ASSUME NEW i \in 1..(Len(u) + 1) PROVE b2.buf[n - Len(u) + i - 1] = v[i]
  <2>1. n - Len(u) + i - 1 \in 0..(KB_BUF_SIZE - 1)
    BY <1>0, <1>1
  <2>2. CASE i <= Len(u)
    <3>1. i \in 1..Len(u) /\ n - Len(u) + i - 1 # n
      BY <1>0, <1>1, <2>2
    <3>2. b.buf[n - Len(u) + i - 1] = u[i]
      BY <3>1 DEF Lap
    <3> QED BY <1>0, <1>2, <2>1, <2>2, <3>1, <3>2
  <2>3. CASE ~(i <= Len(u))
    <3>1. n - Len(u) + i - 1 = n
      BY <1>0, <1>1, <2>3
    <3>2. v[i] = x
      BY <1>0, <2>3
    <3>3. n \in 0..(KB_BUF_SIZE - 1) /\ b2.buf[n] = x
      BY <1>2, <2>1, <3>1
    <3> QED BY <3>1, <3>2, <3>3, Zenon
  <2> QED BY <2>2, <2>3
<1>4. (n + 1) - (Len(u) + 1) = n - Len(u) /\ Len(u) + 1 <= n + 1
  BY <1>0, <1>1
<1> QED
  BY <1>0, <1>1, <1>3, <1>4 DEF Lap, v

\* keyboard_read keeps the ring's type when it does not fault.
LEMMA TakeType ==
  ASSUME NEW b \in KeyboardType, NEW m \in Nat, room(b) >= 0, NEW b2, b2 = take(b, m)
  PROVE  /\ b2 \in KeyboardType /\ b2.count = b.count - counter(b, m) /\ counter(b, m) \in 0..b.count
         /\ counter(b, m) = (IF b.count >= m THEN m ELSE b.count)
         /\ b2.head = b.head /\ b2.buf = b.buf
         /\ counter(b, m) <= room(b) => b2.tail = b.tail + counter(b, m)
<1> DEFINE c == counter(b, m)
           t2 == IF c <= room(b) THEN b.tail + c ELSE b.head + c - room(b)
<1>0. KB_BUF_SIZE \in Nat /\ b.head \in Nat /\ b.count \in Nat /\ b.tail \in Nat /\ room(b) = KB_BUF_SIZE - b.tail
  BY KeyboardAssumption DEF KeyboardType, room
<1>1. c \in 0..b.count /\ c = IF b.count >= m THEN m ELSE b.count
  BY <1>0 DEF counter
<1>2. b2 = [b EXCEPT !.tail = t2, !.count = b.count - c]
  BY DEF take
<1> HIDE DEF c
<1>3. t2 \in Nat /\ b.count - c \in Nat
  BY <1>0, <1>1
<1>4. c <= room(b) => t2 = b.tail + c
  OBVIOUS
<1> HIDE DEF t2
<1>5. b2 \in KeyboardType /\ b2.tail = t2 /\ b2.count = b.count - c /\ b2.head = b.head /\ b2.buf = b.buf
  BY <1>2, <1>3 DEF KeyboardType
<1> QED
  BY <1>1, <1>4, <1>5 DEF c

\* Before the first wrap it copies the oldest unread codes and passes over them.
LEMMA TakeLap ==
  ASSUME NEW b \in KeyboardType, NEW m \in Nat, NEW n \in Nat, n <= KB_BUF_SIZE,
         NEW u \in Seq(Codes), Lap(b, n, u), NEW b2, b2 = take(b, m)
  PROVE  /\ room(b) >= 0
         /\ Lap(b2, n, SubSeq(u, counter(b, m) + 1, Len(u)))
         /\ copied(b, m) = SubSeq(u, 1, counter(b, m))
<1> DEFINE c == counter(b, m)
           v == SubSeq(u, c + 1, Len(u))
           w == SubSeq(u, 1, c)
<1>0. /\ KB_BUF_SIZE \in Nat /\ Len(u) \in Nat /\ Len(u) <= n /\ b.count = Len(u)
      /\ b.tail = n - Len(u) /\ b.head = n
      /\ \A i \in 1..Len(u) : b.buf[n - Len(u) + i - 1] = u[i] /\ u[i] \in Codes
  BY KeyboardAssumption DEF Lap
<1>1. room(b) = KB_BUF_SIZE - (n - Len(u)) /\ room(b) >= 0 /\ Len(u) <= room(b) /\ room(b) \in Int
  BY <1>0 DEF room
<1>2. /\ b2.count = b.count - c /\ c \in 0..Len(u) /\ b2.head = n /\ b2.buf = b.buf
      /\ b2.tail = n - Len(u) + c
  <2>1. /\ b2.count = b.count - c /\ c \in 0..Len(u) /\ b2.head = n /\ b2.buf = b.buf
        /\ c <= room(b) => b2.tail = b.tail + c
    <3>1. /\ b2.count = b.count - counter(b, m) /\ counter(b, m) \in 0..b.count
          /\ b2.head = b.head /\ b2.buf = b.buf
          /\ counter(b, m) <= room(b) => b2.tail = b.tail + counter(b, m)
      BY <1>1, TakeType, Zenon
    <3> QED BY <1>0, <3>1, Zenon
  <2> HIDE DEF c
  <2>2. c <= room(b)
    BY <1>0, <1>1, <2>1
  <2> QED BY <1>0, <2>1, <2>2
<1>3. /\ v \in Seq(Codes) /\ Len(v) = Len(u) - c /\ \A i \in 1..(Len(u) - c) : v[i] = u[c + i]
  <2>1. c + 1 \in Int /\ Len(u) \in Int /\ \A i \in (c + 1)..Len(u) : u[i] \in Codes
    BY <1>0, <1>2
  <2> HIDE DEF c
  <2>2. /\ v \in Seq(Codes) /\ Len(v) = IF c + 1 <= Len(u) THEN Len(u) - (c + 1) + 1 ELSE 0
        /\ \A i \in 1..(Len(u) - (c + 1) + 1) : v[i] = u[(c + 1) + i - 1]
    BY <2>1, SubSeqProperties
  <2> HIDE DEF v
  <2>3. Len(u) - (c + 1) + 1 = Len(u) - c /\ \A i \in Nat : (c + 1) + i - 1 = c + i
    BY <1>0, <1>2
  <2>4. Len(v) = Len(u) - c
    BY <1>0, <1>2, <2>2
  <2> QED BY <2>2, <2>3, <2>4
<1>4. /\ w \in Seq(Codes) /\ Len(w) = c /\ \A i \in 1..c : w[i] = u[i]
  <2>1. 1 \in Int /\ c \in Int /\ \A i \in 1..c : u[i] \in Codes
    BY <1>0, <1>2
  <2> HIDE DEF c
  <2>2. /\ w \in Seq(Codes) /\ Len(w) = IF 1 <= c THEN c - 1 + 1 ELSE 0
        /\ \A i \in 1..(c - 1 + 1) : w[i] = u[1 + i - 1]
    BY <2>1, SubSeqProperties
  <2> HIDE DEF w
  <2>3. c - 1 + 1 = c /\ \A i \in Nat : 1 + i - 1 = i
    BY <2>1
  <2>4. Len(w) = c
    BY <1>0, <1>2, <2>2
  <2> QED BY <2>2, <2>3, <2>4
<1>5. copied(b, m) = [i \in 1..c |-> byte(b, b.tail + i - 1)]
  <2>1. c <= room(b)
    BY <1>0, <1>1, <1>2
  <2> QED BY <2>1 DEF copied
<1> HIDE DEF c, v, w
<1>6. ASSUME NEW i \in 1..c PROVE byte(b, b.tail + i - 1) = u[i]
  <2>1. i \in 1..Len(u) /\ n - Len(u) + i - 1 \in 0..(KB_BUF_SIZE - 1)
    BY <1>0, <1>2
  <2> QED BY <1>0, <2>1, SMTT(30) DEF byte
<1>7. copied(b, m) = w
  <2>1. w = [i \in 1..c |-> w[i]]
    BY <1>4, LenProperties
  <2> QED BY <1>4, <1>5, <1>6, <2>1
<1>8. Lap(b2, n, v)
  <2>1. Len(v) <= n /\ b2.count = Len(v) /\ b2.tail = n - Len(v)
    BY <1>0, <1>2, <1>3
  <2>2. ASSUME NEW i \in 1..Len(v) PROVE b2.buf[b2.tail + i - 1] = v[i]
    <3>1. c + i \in 1..Len(u) /\ n - Len(u) + c + i - 1 = n - Len(u) + (c + i) - 1
      BY <1>0, <1>2, <1>3
    <3>2. b.buf[n - Len(u) + (c + i) - 1] = u[c + i]
      BY <1>0, <3>1
    <3> QED BY <1>2, <1>3, <3>1, <3>2
  <2> QED BY <1>2, <2>1, <2>2 DEF Lap
<1> QED
  BY <1>1, <1>7, <1>8 DEF c, v, w

\* A reset ring is at the start of its first lap.
LEMMA ResetLap == reset \in KeyboardType /\ reset.count = 0 /\ Lap(reset, 0, <<>>) /\ Len(<<>>) = 0
<1> DEFINE buf == [p \in 0..(KB_BUF_SIZE - 1) |-> Junk]
<1>1. buf \in [0..(KB_BUF_SIZE - 1) -> Codes \cup {Junk}] /\ 0 \in 0..KB_BUF_SIZE
  BY KeyboardAssumption
<1>2. reset = [buf |-> buf, head |-> 0, tail |-> 0, count |-> 0]
  BY DEF reset
<1> HIDE DEF buf
<1>3. reset \in KeyboardType /\ reset.count = 0 /\ reset.head = 0 /\ reset.tail = 0
  BY <1>1, <1>2 DEF KeyboardType
<1>4. Len(<<>>) = 0 /\ 0 - 0 = 0 /\ 0 <= 0 /\ \A i \in 1..0 : FALSE
  OBVIOUS
<1> QED
  BY <1>3, <1>4 DEF Lap

-----------------------------------------------------------------------------
(* The readers *)

WokenIn(k, a) == {t \in Tasks : a[t] > 0 /\ k.state[t] = "RUNNING"}

\* n codes are in the ring.  While a reader sleeps, that many woken ones are on their
\* way; a task is linked exactly while it is in keyboard_read and asleep.
ReadersOK(k, a, n) ==
  /\ k.wait[keyboard_wait_queue] # <<>> => n <= Cardinality(WokenIn(k, a))
  /\ \A t \in Tasks :
       /\ Contains(k.wait[keyboard_wait_queue], t) <=> a[t] > 0 /\ k.state[t] = "UNINTERRUPTIBLE"
       /\ a[t] > 0 => k.state[t] \in {"RUNNING", "UNINTERRUPTIBLE"}

Asked == [Tasks -> ReadSizes \cup {0}]

\* What is asked for is a number, of ReadSizes while a read is under way.
LEMMA AskedFacts ==
  ASSUME NEW a \in Asked
  PROVE  \A t \in Tasks : a[t] \in Nat /\ (a[t] > 0 => a[t] \in ReadSizes)
<1>1. ASSUME NEW t \in Tasks PROVE a[t] \in Nat /\ (a[t] > 0 => a[t] \in ReadSizes)
  <2>1. a[t] \in ReadSizes \/ a[t] = 0
    BY DEF Asked
  <2>2. CASE a[t] \in ReadSizes
    BY <2>2, KeyboardAssumption
  <2>3. CASE a[t] = 0
    <3>1. ~(0 > 0) /\ 0 \in Nat
      OBVIOUS
    <3> QED BY <2>3, <3>1, Zenon
  <2> QED BY <2>1, <2>2, <2>3
<1> QED BY <1>1

\* The woken readers are finitely many.
LEMMA WokenFinite ==
  ASSUME NEW k, NEW a
  PROVE  IsFiniteSet(WokenIn(k, a)) /\ Cardinality(WokenIn(k, a)) \in Nat
<1>1. IsFiniteSet(Tasks) /\ WokenIn(k, a) \subseteq Tasks
  BY KeyboardAssumption DEF WokenIn
<1> QED
  BY <1>1, FS_Subset, FS_CardinalityType

\* Entries that concern neither the readers nor their queue, and at most empty the ring.
LEMMA ReadersKept ==
  ASSUME NEW k, NEW a, NEW n \in Nat, ReadersOK(k, a, n), a[k.current] = 0,
         NEW k2, Spares(k, k2, keyboard_wait_queue), NEW m \in Nat, m <= n
  PROVE  ReadersOK(k2, a, m)
<1>1. ASSUME NEW t \in Tasks
      PROVE  /\ a[t] > 0 => k2.state[t] = k.state[t]
             /\ Contains(k2.wait[keyboard_wait_queue], t) <=> a[t] > 0 /\ k2.state[t] = "UNINTERRUPTIBLE"
             /\ a[t] > 0 => k2.state[t] \in {"RUNNING", "UNINTERRUPTIBLE"}
  BY DEF ReadersOK, Spares
<1>2. WokenIn(k2, a) = WokenIn(k, a)
  BY <1>1 DEF WokenIn
<1>3. k2.wait[keyboard_wait_queue] = k.wait[keyboard_wait_queue]
  BY DEF Spares
<1>4. Cardinality(WokenIn(k, a)) \in Nat
  BY WokenFinite
<1>5. k2.wait[keyboard_wait_queue] # <<>> => m <= Cardinality(WokenIn(k2, a))
  BY <1>2, <1>3, <1>4 DEF ReadersOK
<1> QED
  BY <1>1, <1>5 DEF ReadersOK

\* A key is stored and the oldest reader woken.
LEMMA ReadersWake ==
  ASSUME NEW k, WaitType(k), LinkedOnce(k), NEW a \in Asked, NEW n \in Nat, ReadersOK(k, a, n),
         NEW k2, Wakes(k, k2, keyboard_wait_queue, "UNINTERRUPTIBLE")
  PROVE  ReadersOK(k2, a, n + 1)
<1> DEFINE c == keyboard_wait_queue
           q == k.wait[c]
<1>0. c \in Channels /\ q \in Seq(Tasks)
  BY KeyboardAssumption DEF WaitType, WaitQueues
<1>1. CASE q = <<>>
  BY <1>1 DEF Wakes, Keeps, ReadersOK
<1>2. CASE q # <<>>
  <2> DEFINE h == Head(q)
  <2>1. /\ h \in Tasks /\ h = q[1] /\ Len(q) \in Nat \ {0} /\ Len(Tail(q)) = Len(q) - 1
        /\ \A i \in 1..Len(Tail(q)) : Tail(q)[i] = q[i + 1]
    BY <1>0, <1>2
  <2>2. Contains(q, h)
    BY <2>1 DEF Contains
  <2>3. a[h] > 0 /\ k.state[h] = "UNINTERRUPTIBLE"
    BY <2>1, <2>2 DEF ReadersOK
  <2>4. /\ k2.state = [k.state EXCEPT ![h] = "RUNNING"]
        /\ k2.wait = [k.wait EXCEPT ![c] = Tail(q)]
    BY <1>2, <2>3 DEF Wakes
  <2>5. k2.wait[c] = Tail(q)
    BY <1>0, <2>4 DEF WaitType, WaitQueues
  <2>6. \A t \in Tasks : k2.state[t] = IF t = h THEN "RUNNING" ELSE k.state[t]
    BY <2>1, <2>4 DEF WaitType, TaskStates
  <2>7. \A i, j \in 1..Len(q) : q[i] = q[j] => i = j
    BY <1>0 DEF LinkedOnce
  <2> HIDE DEF h, q, c
  <2>8. ASSUME NEW t \in Tasks PROVE Contains(Tail(q), t) <=> Contains(q, t) /\ t # h
    <3>1. ASSUME Contains(Tail(q), t) PROVE Contains(q, t) /\ t # h
      <4>1. PICK i \in 1..Len(Tail(q)) : Tail(q)[i] = t
        BY <3>1 DEF Contains
      <4>2. i + 1 \in 1..Len(q) /\ q[i + 1] = t /\ 1 \in 1..Len(q) /\ i + 1 # 1
        BY <2>1, <4>1
      <4> QED BY <2>1, <2>7, <4>2 DEF Contains
    <3>2. ASSUME Contains(q, t), t # h PROVE Contains(Tail(q), t)
      <4>1. PICK j \in 1..Len(q) : q[j] = t
        BY <3>2 DEF Contains
      <4>2. j # 1
        BY <2>1, <3>2, <4>1
      <4>3. j - 1 \in 1..Len(Tail(q)) /\ (j - 1) + 1 = j
        BY <2>1, <4>2
      <4>4. Tail(q)[j - 1] = t
        BY <2>1, <4>1, <4>3
      <4> QED BY <4>3, <4>4 DEF Contains
    <3> QED BY <3>1, <3>2
  <2>9. WokenIn(k2, a) = WokenIn(k, a) \cup {h} /\ h \notin WokenIn(k, a)
    BY <2>1, <2>3, <2>6 DEF WokenIn
  <2>10. Cardinality(WokenIn(k2, a)) = Cardinality(WokenIn(k, a)) + 1
    BY <2>9, WokenFinite, FS_AddElement
  <2>11. n <= Cardinality(WokenIn(k, a)) /\ Cardinality(WokenIn(k, a)) \in Nat
    BY <1>2, WokenFinite DEF ReadersOK, q, c
  <2>12. n + 1 <= Cardinality(WokenIn(k2, a))
    BY <2>10, <2>11
  <2>13. ASSUME NEW t \in Tasks
         PROVE /\ Contains(k2.wait[c], t) <=> a[t] > 0 /\ k2.state[t] = "UNINTERRUPTIBLE"
               /\ a[t] > 0 => k2.state[t] \in {"RUNNING", "UNINTERRUPTIBLE"}
    <3>1. /\ Contains(q, t) <=> a[t] > 0 /\ k.state[t] = "UNINTERRUPTIBLE"
          /\ a[t] > 0 => k.state[t] \in {"RUNNING", "UNINTERRUPTIBLE"}
      BY DEF ReadersOK, q, c
    <3> QED BY <2>5, <2>6, <2>8, <3>1
  <2> QED BY <2>12, <2>13 DEF ReadersOK, c
<1> QED BY <1>1, <1>2

\* A reader finds the ring empty and goes to sleep.
LEMMA ReadersSleep ==
  ASSUME NEW k, WaitType(k), NEW a \in Asked, ReadersOK(k, a, 0), k.current \in Tasks,
         a[k.current] = 0, NEW m \in Nat, m > 0, NEW a2, a2 = [a EXCEPT ![k.current] = m],
         NEW k2, SleepsOn(k, k2, keyboard_wait_queue, "UNINTERRUPTIBLE")
  PROVE  ReadersOK(k2, a2, 0)
<1> DEFINE c == keyboard_wait_queue
           q == k.wait[c]
<1>0. c \in Channels /\ q \in Seq(Tasks)
  BY KeyboardAssumption DEF WaitType, WaitQueues
<1>1. k2.wait[c] = Append(q, k.current)
  BY <1>0 DEF SleepsOn, WaitType, WaitQueues
<1>2. \A t \in Tasks : k2.state[t] = IF t = k.current THEN "UNINTERRUPTIBLE" ELSE k.state[t]
  BY DEF SleepsOn, WaitType, TaskStates
<1>3. \A t \in Tasks : a2[t] = IF t = k.current THEN m ELSE a[t]
  BY DEF Asked
<1>4. /\ Len(Append(q, k.current)) = Len(q) + 1 /\ Len(q) \in Nat
      /\ \A i \in 1..(Len(q) + 1) : Append(q, k.current)[i] = IF i <= Len(q) THEN q[i] ELSE k.current
  BY <1>0
<1> HIDE DEF q, c
<1>5. ASSUME NEW t \in Tasks PROVE Contains(Append(q, k.current), t) <=> Contains(q, t) \/ t = k.current
  <2> DEFINE r == Append(q, k.current)
  <2>1. ASSUME NEW i \in 1..Len(r), r[i] = t PROVE Contains(q, t) \/ t = k.current
    BY <1>4, <2>1 DEF Contains
  <2>2. ASSUME NEW i \in 1..Len(q), q[i] = t PROVE i \in 1..Len(r) /\ r[i] = t
    BY <1>4, <2>2
  <2>3. Len(r) \in 1..Len(r) /\ r[Len(r)] = k.current
    BY <1>4
  <2> QED BY <2>1, <2>2, <2>3 DEF Contains
<1>6. ASSUME NEW t \in Tasks
      PROVE /\ Contains(k2.wait[c], t) <=> a2[t] > 0 /\ k2.state[t] = "UNINTERRUPTIBLE"
            /\ a2[t] > 0 => k2.state[t] \in {"RUNNING", "UNINTERRUPTIBLE"}
  <2>1. /\ Contains(q, t) <=> a[t] > 0 /\ k.state[t] = "UNINTERRUPTIBLE"
        /\ a[t] > 0 => k.state[t] \in {"RUNNING", "UNINTERRUPTIBLE"}
    BY DEF ReadersOK, q, c
  <2> QED BY <1>1, <1>2, <1>3, <1>5, <2>1
<1>7. 0 <= Cardinality(WokenIn(k2, a2))
  BY WokenFinite
<1> QED
  BY <1>6, <1>7 DEF ReadersOK, c

\* A woken reader copies and leaves: it took at least one code, or there was none.
LEMMA ReadersLeave ==
  ASSUME NEW k, NEW a \in Asked, NEW n \in Nat, ReadersOK(k, a, n), k.current \in Tasks,
         k.state[k.current] = "RUNNING", NEW m \in Nat,
         m <= n /\ (a[k.current] > 0 => m = 0 \/ m < n),
         NEW a2, a2 = [a EXCEPT ![k.current] = 0]
  PROVE  ReadersOK(k, a2, m)
<1>1. \A t \in Tasks : a2[t] = IF t = k.current THEN 0 ELSE a[t]
  BY DEF Asked
<1>2. WokenIn(k, a2) = WokenIn(k, a) \ {k.current}
  BY <1>1 DEF WokenIn
<1>3. Cardinality(WokenIn(k, a)) \in Nat /\ IsFiniteSet(WokenIn(k, a)) /\ Cardinality(WokenIn(k, a2)) \in Nat
  BY WokenFinite
<1>4. a[k.current] \in Nat
  BY AskedFacts
<1>5. ASSUME n <= Cardinality(WokenIn(k, a)) PROVE m <= Cardinality(WokenIn(k, a2))
  <2>1. CASE k.current \in WokenIn(k, a)
    <3>1. Cardinality(WokenIn(k, a2)) = Cardinality(WokenIn(k, a)) - 1
      BY <1>2, <1>3, <2>1, FS_RemoveElement
    <3>2. a[k.current] > 0
      BY <2>1 DEF WokenIn
    <3> QED BY <1>3, <1>5, <3>1, <3>2
  <2>2. CASE k.current \notin WokenIn(k, a)
    <3>1. WokenIn(k, a2) = WokenIn(k, a)
      BY <1>2, <2>2
    <3> QED BY <1>3, <1>5, <3>1
  <2> QED BY <2>1, <2>2
<1>6. ASSUME NEW t \in Tasks
      PROVE /\ Contains(k.wait[keyboard_wait_queue], t) <=> a2[t] > 0 /\ k.state[t] = "UNINTERRUPTIBLE"
            /\ a2[t] > 0 => k.state[t] \in {"RUNNING", "UNINTERRUPTIBLE"}
  BY <1>1 DEF ReadersOK
<1> QED
  BY <1>5, <1>6 DEF ReadersOK

-----------------------------------------------------------------------------
(* The inductive invariant *)

KbInv ==
  /\ KernelOK(kern, ExitChannels)
  /\ kb \in KeyboardType /\ asked \in Asked /\ typed \in Nat /\ unread \in Seq(Codes)
  /\ halted \in BOOLEAN
  /\ kb.count = Len(unread)
  /\ ReadersOK(kern, asked, kb.count)
  /\ typed <= KB_BUF_SIZE => Lap(kb, typed, unread) /\ got.codes = got.expect

\* The initial state.
LEMMA InitKb == Init => KbInv /\ S!Init
<1> SUFFICES ASSUME Init PROVE KbInv /\ S!Init
  OBVIOUS
<1>1. S!Init /\ kern = Boot(InitTask)
  BY DEF Init, S!Init, S!BootKernel, Boot
<1>2. KernelOK(kern, ExitChannels)
  BY <1>1, BootOK, KeyboardAssumption
<1>3. kb = reset /\ asked = [t \in Tasks |-> 0] /\ typed = 0 /\ unread = <<>> /\ halted = FALSE
      /\ got = [codes |-> <<>>, expect |-> <<>>]
  BY DEF Init
<1>4. kb \in KeyboardType /\ kb.count = 0 /\ Lap(kb, typed, unread) /\ kb.count = Len(unread)
  BY <1>3, ResetLap, Zenon
<1>5. got.codes = got.expect /\ unread \in Seq(Codes)
  BY <1>3
<1>6. asked \in Asked /\ \A t \in Tasks : asked[t] = 0
  BY <1>3 DEF Asked
<1>7. kern.wait[keyboard_wait_queue] = <<>>
  BY <1>1, KeyboardAssumption DEF Boot
<1>8. \A t \in Tasks : ~Contains(kern.wait[keyboard_wait_queue], t)
  BY <1>7 DEF Contains
<1>9. ReadersOK(kern, asked, kb.count)
  BY <1>6, <1>7, <1>8 DEF ReadersOK
<1> QED
  BY <1>1, <1>2, <1>3, <1>4, <1>5, <1>6, <1>9 DEF KbInv

\* The copying half of keyboard_read.
LEMMA CopyStep ==
  ASSUME KbInv, NEW n \in ReadSizes, Copy(n), kern' = kern, typed' = typed
  PROVE  KbInv'
<1>0. /\ kb \in KeyboardType /\ asked \in Asked /\ typed \in Nat /\ unread \in Seq(Codes)
      /\ kb.count = Len(unread) /\ kb.count \in Nat /\ n \in Nat /\ n > 0 /\ room(kb) \in Int
      /\ KernelOK(kern, ExitChannels) /\ kern.current \in Tasks /\ kern.state[kern.current] = "RUNNING"
  BY KeyboardAssumption, KernelTypes DEF KbInv, KeyboardType, room
<1>1. CASE room(kb) < 0
  <2>1. halted' = TRUE /\ kb' = kb /\ asked' = asked /\ unread' = unread /\ got' = got
    BY <1>1 DEF Copy
  <2> QED BY <2>1 DEF KbInv
<1>2. CASE ~(room(kb) < 0)
  <2> DEFINE c == counter(kb, n)
  <2>1. /\ asked' = [asked EXCEPT ![kern.current] = 0] /\ kb' = take(kb, n)
        /\ got' = [codes |-> copied(kb, n), expect |-> SubSeq(unread, 1, c)]
        /\ unread' = SubSeq(unread, c + 1, Len(unread)) /\ halted' = halted
    BY <1>2 DEF Copy
  <2>2. /\ kb' \in KeyboardType /\ kb'.count = kb.count - c /\ c \in 0..kb.count
        /\ c = (IF kb.count >= n THEN n ELSE kb.count)
    <3>1. room(kb) >= 0
      BY <1>0, <1>2
    <3> QED BY <1>0, <2>1, <3>1, TakeType
  <2>3. asked' \in Asked
    BY <1>0, <2>1 DEF Asked
  <2>4. typed <= KB_BUF_SIZE => Lap(kb', typed, unread') /\ got'.codes = got'.expect
    <3>1. ASSUME typed <= KB_BUF_SIZE
          PROVE  Lap(kb', typed, unread') /\ copied(kb, n) = SubSeq(unread, 1, c)
      <4>1. Lap(kb, typed, unread)
        BY <3>1 DEF KbInv
      <4> QED BY <1>0, <2>1, <3>1, <4>1, TakeLap
    <3> QED BY <2>1, <3>1
  <2> HIDE DEF c
  <2>5. unread' \in Seq(Codes) /\ kb'.count = Len(unread')
    <3>1. c + 1 \in Int /\ Len(unread) \in Int /\ \A i \in (c + 1)..Len(unread) : unread[i] \in Codes
      BY <1>0, <2>2
    <3>2. /\ SubSeq(unread, c + 1, Len(unread)) \in Seq(Codes)
          /\ Len(SubSeq(unread, c + 1, Len(unread)))
               = IF c + 1 <= Len(unread) THEN Len(unread) - (c + 1) + 1 ELSE 0
      BY <3>1, SubSeqProperties
    <3>3. PICK L \in Nat : L = Len(unread)
      BY <1>0
    <3>4. (IF c + 1 <= L THEN L - (c + 1) + 1 ELSE 0) = L - c
      <4>1. c \in Nat /\ c <= L
        BY <1>0, <2>2, <3>3
      <4>2. \A a, b \in Nat : a <= b => (IF a + 1 <= b THEN b - (a + 1) + 1 ELSE 0) = b - a
        OBVIOUS
      <4> QED BY <4>1, <4>2, Zenon
    <3> QED BY <1>0, <2>1, <2>2, <3>2, <3>3, <3>4, Zenon
  <2>6. ReadersOK(kern, asked', kb'.count)
    <3>1. /\ kb'.count \in Nat /\ kb'.count <= kb.count
          /\ asked[kern.current] > 0 => kb'.count = 0 \/ kb'.count < kb.count
      BY <1>0, <2>2
    <3>2. ReadersOK(kern, asked, kb.count)
      BY DEF KbInv
    <3> QED BY <1>0, <2>1, <3>1, <3>2, ReadersLeave
  <2> QED BY <1>0, <2>1, <2>2, <2>3, <2>4, <2>5, <2>6 DEF KbInv
<1> QED BY <1>1, <1>2

\* Every action keeps the invariant and is a step, or no step, of the scheduler.
LEMMA NextStep == KbInv /\ [Next]_vars => KbInv' /\ [S!Next]_kern
<1> SUFFICES ASSUME KbInv, [Next]_vars PROVE KbInv' /\ [S!Next]_kern
  OBVIOUS
<1>0. /\ KernelOK(kern, ExitChannels) /\ Inv(kern) /\ WaitType(kern) /\ LinkedOnce(kern)
      /\ kern.current \in Tasks /\ ExitChannels \subseteq Channels
      /\ keyboard_wait_queue \in Channels /\ keyboard_wait_queue \notin ExitChannels
      /\ SleepState(keyboard_wait_queue, ExitChannels) = "UNINTERRUPTIBLE"
      /\ kb.count \in Nat /\ asked[kern.current] \in Nat
  <2>1. kern.current \in Tasks /\ WaitType(kern) /\ LinkedOnce(kern) /\ Inv(kern)
    BY KernelTypes DEF KbInv, WaitOK
  <2> QED BY <2>1, KeyboardAssumption, AskedFacts DEF KbInv, SleepState, KeyboardType
<1>1. ASSUME NEW x \in Codes, keyboard_handler(x) PROVE KbInv' /\ [S!Next]_kern
  <2>1. /\ kb' = put(kb, x) /\ kern' = ret_from_intr(wakeup(kern, keyboard_wait_queue, "UNINTERRUPTIBLE"))
        /\ typed' = typed + 1 /\ unread' = Append(unread, x)
        /\ asked' = asked /\ got' = got /\ halted' = halted
    BY <1>1 DEF keyboard_handler, wake_reader
  <2>2. S!DeviceIrq(keyboard_wait_queue)
    BY <1>0, <2>1, SameReturn, SameWakeup DEF S!DeviceIrq
  <2>3. Entry(kern, kern', ExitChannels)
    BY <1>0, <2>1 DEF Entry
  <2>4. KernelOK(kern', ExitChannels)
    BY <1>0, <2>3, EntryStep
  <2>5. Wakes(kern, kern', keyboard_wait_queue, "UNINTERRUPTIBLE")
    BY <1>0, <2>1, DeviceIrqStep
  <2>6. ReadersOK(kern', asked, kb.count + 1)
    BY <1>0, <2>5, ReadersWake DEF KbInv
  <2>7. kb' \in KeyboardType /\ kb'.count = kb.count + 1
    BY <2>1, PutType DEF KbInv
  <2>8. unread' \in Seq(Codes) /\ kb'.count = Len(unread') /\ typed' \in Nat
    BY <2>1, <2>7 DEF KbInv
  <2>9. ASSUME typed' <= KB_BUF_SIZE PROVE Lap(kb', typed', unread') /\ got.codes = got.expect
    <3>1. typed < KB_BUF_SIZE /\ typed <= KB_BUF_SIZE
      BY <2>1, <2>9, KeyboardAssumption DEF KbInv
    <3> QED BY <2>1, <3>1, PutLap DEF KbInv
  <2>10. KbInv'
    BY <2>1, <2>4, <2>6, <2>7, <2>8, <2>9 DEF KbInv
  <2> QED BY <1>0, <2>2, <2>10 DEF S!Next
<1>2. ASSUME NEW n \in ReadSizes, keyboard_read(n) PROVE KbInv' /\ [S!Next]_kern
  <2>1. CASE kb.count = 0
    <3>1. /\ kern' = sleep_on(kern, keyboard_wait_queue, "UNINTERRUPTIBLE")
          /\ asked' = [asked EXCEPT ![kern.current] = n] /\ kern.current # Idle
          /\ kb' = kb /\ unread' = unread /\ got' = got /\ halted' = halted /\ typed' = typed
          /\ asked[kern.current] = 0
      BY <1>2, <2>1 DEF keyboard_read, InUser
    <3>2. S!SysRead(keyboard_wait_queue)
      BY <1>0, <3>1, SameSchedule DEF S!SysRead, S!sleep_on, sleep_on
    <3>3. Entry(kern, kern', ExitChannels)
      BY <1>0, <3>1 DEF Entry
    <3>4. KernelOK(kern', ExitChannels)
      BY <1>0, <3>3, EntryStep
    <3>5. PICK st \in States : st = "UNINTERRUPTIBLE" /\ st # "RUNNING"
      BY DEF States
    <3>6. SleepsOn(kern, kern', keyboard_wait_queue, st)
      BY <1>0, <3>1, <3>5, SleepOnStep
    <3>7. n \in Nat /\ n > 0 /\ ReadersOK(kern, asked, 0) /\ asked \in Asked
      BY <2>1, KeyboardAssumption DEF KbInv
    <3>8. ReadersOK(kern', asked', 0)
      BY <1>0, <3>1, <3>5, <3>6, <3>7, ReadersSleep
    <3>9. asked' \in Asked
      BY <3>1, <3>7 DEF Asked
    <3>10. KbInv'
      BY <2>1, <3>1, <3>4, <3>8, <3>9 DEF KbInv
    <3> QED BY <1>0, <3>2, <3>10 DEF S!Next
  <2>2. CASE kb.count # 0
    <3>1. Copy(n) /\ kern' = kern /\ typed' = typed
      BY <1>2, <2>2 DEF keyboard_read
    <3> QED BY <3>1, CopyStep
  <2> QED BY <2>1, <2>2
<1>3. ASSUME ReadResumes PROVE KbInv' /\ [S!Next]_kern
  <2>1. Copy(asked[kern.current]) /\ kern' = kern /\ typed' = typed /\ asked[kern.current] > 0
    BY <1>3 DEF ReadResumes
  <2>2. asked[kern.current] \in ReadSizes
    BY <1>0, <2>1, AskedFacts DEF KbInv
  <2> QED BY <2>1, <2>2, CopyStep
<1>4. ASSUME ResetBuffer PROVE KbInv' /\ [S!Next]_kern
  <2>1. /\ kb' = reset /\ typed' = 0 /\ unread' = <<>> /\ got' = [codes |-> <<>>, expect |-> <<>>]
        /\ kern' = kern /\ asked' = asked /\ halted' = halted /\ asked[kern.current] = 0
    BY <1>4 DEF ResetBuffer, InUser
  <2>2. kb' \in KeyboardType /\ kb'.count = 0 /\ Lap(kb', typed', unread') /\ kb'.count = Len(unread')
    BY <2>1, ResetLap, Zenon
  <2>3. got'.codes = got'.expect /\ unread' \in Seq(Codes) /\ typed' \in Nat
    BY <2>1
  <2>4. Spares(kern, kern', keyboard_wait_queue)
    BY <2>1 DEF Spares
  <2>5. ReadersOK(kern', asked, 0)
    <3>1. 0 \in Nat /\ 0 <= kb.count /\ ReadersOK(kern, asked, kb.count)
      BY <1>0 DEF KbInv
    <3> QED BY <1>0, <2>1, <2>4, <3>1, ReadersKept
  <2>6. KbInv'
    BY <2>1, <2>2, <2>3, <2>5 DEF KbInv
  <2> QED BY <2>1, <2>6
<1>5. ASSUME OtherEntry PROVE KbInv' /\ [S!Next]_kern
  <2>1. /\ asked[kern.current] = 0 /\ kb' = kb /\ asked' = asked /\ typed' = typed
        /\ unread' = unread /\ got' = got /\ halted' = halted
    BY <1>5 DEF OtherEntry, InUser
  <2>2. Elsewhere(kern, kern', ExitChannels)
    BY <1>5, OtherIsElsewhere
  <2>3. KernelOK(kern', ExitChannels)
    BY <1>0, <2>2, ElsewhereIsEntry, EntryStep
  <2>4. Spares(kern, kern', keyboard_wait_queue)
    BY <1>0, <2>2, ElsewhereSpares
  <2>5. ReadersOK(kern', asked, kb.count)
    <3>1. kb.count <= kb.count /\ ReadersOK(kern, asked, kb.count)
      BY <1>0 DEF KbInv
    <3> QED BY <1>0, <2>1, <2>4, <3>1, ReadersKept
  <2>6. KbInv'
    BY <2>1, <2>3, <2>5 DEF KbInv
  <2>7. S!Next
    BY <1>5 DEF OtherEntry, S!Next
  <2> QED BY <2>6, <2>7
<1>6. CASE UNCHANGED vars
  BY <1>6 DEF vars, KbInv
<1> QED
  BY <1>1, <1>2, <1>3, <1>4, <1>5, <1>6 DEF Next, Halted

-----------------------------------------------------------------------------

\* The inductive invariant holds in every reachable state, for rings, task sets and
\* reads of any size.
THEOREM Invariance == Spec => []KbInv
  BY InitKb, NextStep, PTL DEF Spec

\* No reader sleeps on a key nobody will fetch although keyboard_read sleeps only
\* once, and a task is linked in keyboard_wait_queue exactly while it sleeps there.
THEOREM NoWakeupIsLost == Spec => []NoLostWakeup
<1>1. KbInv => NoLostWakeup
  <2> SUFFICES ASSUME KbInv PROVE NoLostWakeup
    OBVIOUS
  <2>1. kern \in KernelType
    BY DEF KbInv, KernelOK, Inv, Core, QueueOK
  <2>2. TypeOK
    BY <2>1 DEF KbInv, TypeOK, Asked
  <2>3. WokenIn(kern, asked) = Woken
    BY DEF WokenIn, Woken
  <2> QED BY <2>2, <2>3 DEF KbInv, ReadersOK, NoLostWakeup
<1> QED
  BY <1>1, Invariance, PTL

\* Until the ring wraps every read returns the oldest unread codes, in order.
THEOREM FirstLapIsFifo == Spec => []FirstLapFifo
<1>1. KbInv => FirstLapFifo
  BY DEF KbInv, FirstLapFifo
<1> QED
  BY <1>1, Invariance, PTL

\* Every step of the driver is one of the scheduler's kernel entries.
THEOREM KeyboardKeepsSchedRules == Spec => SchedSpec
<1>1. KbInv /\ [Next]_vars => [S!Next]_(S!vars)
  BY NextStep DEF S!vars
<1> QED
  BY <1>1, InitKb, Invariance, PTL DEF Spec, SchedSpec, S!Spec

=============================================================================
