----------------------------- MODULE DiskProofs -----------------------------
(***************************************************************************)
(* Proofs about Disk: the driver never loses a request, a wakeup or a      *)
(* sector, keeps to the scheduler's rules and serves its callers in order. *)
(***************************************************************************)
EXTENDS Disk, SchedOpsProofs

-----------------------------------------------------------------------------
(* The scheduler Disk instantiates is the one SchedOps defines *)

\* The operators of the instance S of Sched are those of SchedOps: the list walk and
\* the insertion of insert_task_queue,
LEMMA SamePoint ==
  /\ \A k, t : S!InsertPoint(k, t) = InsertPoint(k, t)
  /\ \A s, i, x : S!InsertAt(s, i, x) = InsertAt(s, i, x)
<1>1. \A k, t : S!InsertPoint(k, t) = InsertPoint(k, t)
  BY Zenon DEF S!InsertPoint, InsertPoint
<1>2. \A s, i, x : S!InsertAt(s, i, x) = InsertAt(s, i, x)
  BY Zenon DEF S!InsertAt, InsertAt
<1> QED
  BY <1>1, <1>2

\* insert_task_queue itself,
LEMMA SameInsert == \A k, t : S!insert_task_queue(k, t) = insert_task_queue(k, t)
  BY SamePoint DEF S!insert_task_queue, insert_task_queue

\* the parts of schedule,
LEMMA SameParts ==
  /\ \A k : S!get_next_task(k) = get_next_task(k) /\ S!dequeue(k) = dequeue(k)
  /\ \A k, t : S!recharge(k, t) = recharge(k, t)
<1>1. \A k : S!get_next_task(k) = get_next_task(k)
  BY Zenon DEF S!get_next_task, get_next_task
<1>2. \A k : S!dequeue(k) = dequeue(k)
  BY Zenon DEF S!dequeue, dequeue
<1>3. \A k, t : S!recharge(k, t) = recharge(k, t)
  BY Zenon DEF S!recharge, recharge
<1> QED
  BY <1>1, <1>2, <1>3

\* schedule,
LEMMA SameSchedule == \A k : S!schedule(k) = schedule(k)
  BY SameInsert, SameParts DEF S!schedule, schedule

\* ret_from_intr,
LEMMA SameReturn == \A k : S!ret_from_intr(k) = ret_from_intr(k)
  BY SameSchedule DEF S!ret_from_intr, ret_from_intr

\* wakeup_process,
LEMMA SameWakeupProcess == \A k, t : S!wakeup_process(k, t) = wakeup_process(k, t)
  BY SameInsert DEF S!wakeup_process, wakeup_process

\* and wakeup.
LEMMA SameWakeup == \A k, c, st : S!wakeup(k, c, st) = wakeup(k, c, st)
  BY SameWakeupProcess DEF S!wakeup, wakeup

\* OtherEntry is an entry of the scheduler that does not concern the disk.
LEMMA OtherIsEntry == OtherEntry => Entry(kern, kern', ExitChannels)
<1>1. S!Tick => kern' = ret_from_intr(HPET_handler(kern))
  BY SameReturn DEF S!Tick, S!HPET_handler, HPET_handler, S!Weight, Weight
<1>2. S!QuietIrq => kern' = ret_from_intr(kern)
  BY SameReturn DEF S!QuietIrq
<1>3. ASSUME NEW c, S!DeviceIrq(c) PROVE kern' = ret_from_intr(wakeup(kern, c, "UNINTERRUPTIBLE"))
  BY <1>3, SameReturn, SameWakeup DEF S!DeviceIrq
<1>4. ASSUME NEW c, S!SysRead(c) \/ S!SysWait(c)
      PROVE  kern.current # Idle /\ kern' = sleep_on(kern, c, SleepState(c, ExitChannels))
  BY <1>4, SameSchedule DEF S!SysRead, S!SysWait, S!sleep_on, sleep_on, SleepState
<1>5. ASSUME NEW c, S!SysExit(c) PROVE kern.current # Idle /\ kern' = do_exit(kern, c)
  BY <1>5, SameSchedule, SameWakeup DEF S!SysExit, S!do_exit, do_exit
<1>6. ASSUME NEW t, S!SysFork(t) PROVE kern.state[t] = "NONE" /\ kern' = do_fork(kern, t)
  BY <1>6, SameWakeupProcess DEF S!SysFork, S!do_fork, do_fork
<1>7. ASSUME NEW t, S!SysReap(t)
      PROVE  kern.state[t] = "ZOMBIE" /\ kern' = [kern EXCEPT !.state[t] = "NONE"]
  BY <1>7 DEF S!SysReap
<1> QED
  BY <1>1, <1>2, <1>3, <1>4, <1>5, <1>6, <1>7 DEF OtherEntry, Entry

-----------------------------------------------------------------------------
(* The driver *)

Extra(node) == IF node.cmd = "WRITE" THEN 1 ELSE 0

\* A request that waits in the queue is as make_request made it.
Fresh(node) ==
  /\ node \in Nodes
  /\ node.slot = 0 /\ node.moved = {} /\ node.lost = {}
  /\ node.count = IF node.cmd = "IDENTIFY" THEN 0 ELSE node.want
  /\ node.cmd = "IDENTIFY" => node.want = 1

\* The request in use while the drive still owes dev interrupts for it: the
\* buffer pointer stands at the sector the drive has come to.
Working(node, dev) ==
  /\ node \in Nodes
  /\ dev \in 1..node.want
  /\ IF node.cmd = "IDENTIFY" THEN node.count = 0 /\ node.want = 1 ELSE node.count = dev
  /\ node.slot = node.want - dev
  /\ node.lost \subseteq 0..(node.want - dev - 1)
  /\ node.cmd = "WRITE" => node.lost = {}
  /\ InPlace(node, node.want - dev + Extra(node))

QueueFresh(d) ==
  /\ d \in DiskType
  /\ d.block_request_count = Len(d.queue)
  /\ \A i \in 1..Len(d.queue) : Fresh(d.queue[i])
  /\ d.intact

\* The inductive invariant of the driver's own state.
DriverOK(d) ==
  /\ QueueFresh(d)
  /\ IF d.in_using = NULL THEN d.device = 0 /\ d.queue = <<>> ELSE Working(d.in_using, d.device)

\* What a request record holds.
LEMMA NodeFields ==
  \A n \in Nodes : n.task \in Tasks /\ n.cmd \in Commands /\ n.want \in 1..MaxCount
  BY DEF Nodes

\* Every request has an owner.
LEMMA NodeTasks ==
  ASSUME NEW q \in Seq(Nodes)
  PROVE  Len(q) \in Nat /\ \A i \in 1..Len(q) : q[i] \in Nodes /\ q[i].task \in Tasks
<1>1. Len(q) \in Nat /\ \A i \in 1..Len(q) : q[i] \in Nodes
  OBVIOUS
<1> QED
  BY <1>1, NodeFields

\* What Pending is, element by element.
LEMMA PendingIdle ==
  ASSUME NEW d, d \in DiskType, d.in_using = NULL
  PROVE  /\ Requests(d) = d.queue /\ Pending(d) \in Seq(Tasks) /\ Len(Pending(d)) = Len(d.queue)
         /\ \A i \in 1..Len(d.queue) : Pending(d)[i] = d.queue[i].task
<1>1. d.queue \in Seq(Nodes)
  BY DEF DiskType
<1>2. Requests(d) = d.queue
  BY <1>1, ConcatEmptySeq DEF Requests
<1>3. Pending(d) = [i \in 1..Len(d.queue) |-> d.queue[i].task]
  BY <1>2 DEF Pending
<1>4. Len(d.queue) \in Nat /\ \A i \in 1..Len(d.queue) : d.queue[i].task \in Tasks
  BY <1>1, NodeTasks
<1> QED
  BY <1>2, <1>3, <1>4

Lists(p, node, q) ==
  /\ p \in Seq(Tasks) /\ Len(p) = Len(q) + 1 /\ Len(q) \in Nat
  /\ p[1] = node.task
  /\ \A i \in 1..Len(q) : p[i + 1] = q[i].task

\* The pending owners while a request is in use: its owner, then those queued.
LEMMA PendingBusy ==
  ASSUME NEW d, d \in DiskType, d.in_using \in Nodes
  PROVE  Lists(Pending(d), d.in_using, d.queue)
<1> DEFINE u == <<d.in_using>>
           q == d.queue
<1>0. q \in Seq(Nodes) /\ u \in Seq(Nodes) /\ Len(u) = 1 /\ u[1] = d.in_using /\ Len(q) \in Nat
  BY DEF DiskType
<1>1. Requests(d) = u \o q
  BY NULLAssumption DEF Requests
<1> HIDE DEF u, q
<1>2. /\ Len(u \o q) = Len(q) + 1 /\ u \o q \in Seq(Nodes) /\ (u \o q)[1] = d.in_using
      /\ \A i \in 1..Len(q) : (u \o q)[i + 1] = q[i]
  <2>1. /\ u \o q \in Seq(Nodes) /\ Len(u \o q) = Len(u) + Len(q)
        /\ \A i \in 1..(Len(u) + Len(q)) : (u \o q)[i] = IF i <= Len(u) THEN u[i] ELSE q[i - Len(u)]
    BY <1>0, ConcatProperties, Zenon
  <2>2. Len(u \o q) = Len(q) + 1 /\ (u \o q)[1] = d.in_using
    BY <1>0, <2>1
  <2>3. ASSUME NEW i \in 1..Len(q) PROVE (u \o q)[i + 1] = q[i]
    <3>1. i + 1 \in 1..(Len(u) + Len(q)) /\ ~(i + 1 <= Len(u)) /\ (i + 1) - Len(u) = i
      BY <1>0
    <3> QED BY <2>1, <3>1
  <2> QED BY <2>1, <2>2, <2>3
<1>3. Pending(d) = [i \in 1..(Len(q) + 1) |-> (u \o q)[i].task]
  BY <1>1, <1>2 DEF Pending
<1>4. \A i \in 1..(Len(q) + 1) : (u \o q)[i].task \in Tasks
  BY <1>2, NodeTasks
<1>5. /\ Pending(d) \in Seq(Tasks) /\ Len(Pending(d)) = Len(q) + 1
      /\ \A i \in 1..(Len(q) + 1) : Pending(d)[i] = (u \o q)[i].task
  <2> DEFINE r == u \o q
  <2>1. Pending(d) = [i \in 1..(Len(q) + 1) |-> r[i].task] /\ \A i \in 1..(Len(q) + 1) : r[i].task \in Tasks
    BY <1>3, <1>4
  <2> HIDE DEF r
  <2>2. /\ Pending(d) \in Seq(Tasks) /\ Len(Pending(d)) = Len(q) + 1
        /\ \A i \in 1..(Len(q) + 1) : Pending(d)[i] = r[i].task
    BY <1>0, <2>1
  <2> QED BY <2>2 DEF r
<1>6. 1 \in 1..(Len(q) + 1) /\ \A i \in 1..Len(q) : i + 1 \in 1..(Len(q) + 1)
  BY <1>0
<1> QED
  BY <1>0, <1>2, <1>5, <1>6, Zenon DEF q, Lists

\* cmd_out takes the oldest request into use; a write hands over a sector.
LEMMA CmdOut ==
  ASSUME NEW d, QueueFresh(d), d.in_using = NULL, d.queue # <<>>, NEW d2, d2 = cmd_out(d)
  PROVE  DriverOK(d2) /\ d2.in_using # NULL /\ Pending(d2) = Pending(d)
<1> DEFINE q == d.queue
           node == Head(q)
           use == IF node.cmd = "WRITE" THEN move(node, 0) ELSE node
<1>0. /\ d \in DiskType /\ q \in Seq(Nodes) /\ Len(q) \in Nat \ {0} /\ Fresh(node) /\ node = q[1]
      /\ Tail(q) \in Seq(Nodes) /\ Len(Tail(q)) = Len(q) - 1
      /\ \A i \in 1..(Len(q) - 1) : Tail(q)[i] = q[i + 1] /\ Fresh(Tail(q)[i])
      /\ d.block_request_count = Len(q) /\ d.intact
  <2>1. d \in DiskType /\ q \in Seq(Nodes) /\ q # <<>>
    BY DEF QueueFresh, DiskType
  <2> HIDE DEF q
  <2>2. /\ Len(q) \in Nat \ {0} /\ Head(q) = q[1] /\ Tail(q) \in Seq(Nodes)
        /\ Len(Tail(q)) = Len(q) - 1 /\ \A i \in 1..(Len(q) - 1) : Tail(q)[i] = q[i + 1]
    BY <2>1
  <2>3. \A i \in 1..Len(q) : Fresh(q[i])
    BY DEF QueueFresh, q
  <2>4. 1 \in 1..Len(q) /\ \A i \in 1..(Len(q) - 1) : i + 1 \in 1..Len(q)
    BY <2>2
  <2> QED BY <2>1, <2>2, <2>3, <2>4 DEF QueueFresh, q
<1>1. /\ node.want \in 1..MaxCount /\ node.task \in Tasks /\ MaxCount \in Nat \ {0}
      /\ node.want - node.want = 0 /\ node \in Nodes
  BY <1>0, DiskAssumption DEF Fresh, Nodes
<1>2. Working(use, node.want) /\ use.task = node.task /\ use \in Nodes
  <2> HIDE DEF node
  <2>1. CASE node.cmd = "WRITE"
    <3>1. /\ use \in Nodes /\ use.task = node.task /\ use.cmd = "WRITE" /\ use.want = node.want
          /\ use.count = node.count /\ use.slot = node.slot /\ use.lost = node.lost
          /\ use.moved = {<<0, 0>>}
      <4>1. node.moved \cup {<<node.slot, 0>>} = {<<0, 0>>}
        BY <1>0 DEF Fresh
      <4>2. {<<0, 0>>} \in SUBSET ((0..MaxCount) \X (0..MaxCount))
        BY <1>1
      <4>3. use = [node EXCEPT !.moved = {<<0, 0>>}]
        BY <2>1, <4>1 DEF move
      <4> HIDE DEF use
      <4> QED BY <1>1, <2>1, <4>2, <4>3 DEF Nodes
    <3> HIDE DEF use
    <3>2. InPlace(use, 1)
      BY <1>0, <3>1 DEF InPlace, Fresh
    <3> QED BY <1>0, <1>1, <2>1, <3>1, <3>2 DEF Working, Fresh, Extra
  <2>2. CASE node.cmd # "WRITE"
    <3>1. InPlace(node, 0) /\ use = node
      BY <1>0, <2>2 DEF InPlace, Fresh
    <3> HIDE DEF use
    <3>2. Working(node, node.want)
      BY <1>0, <1>1, <2>2, <3>1 DEF Working, Fresh, Extra
    <3> QED BY <1>1, <3>1, <3>2
  <2> QED BY <2>1, <2>2
<1>3. d2 = [d EXCEPT !.in_using = use, !.queue = Tail(q), !.block_request_count = Len(q) - 1,
                     !.device = node.want]
  BY <1>0 DEF cmd_out
<1> HIDE DEF use, node, q
<1>4. /\ d2 \in DiskType /\ d2.in_using = use /\ d2.queue = Tail(q)
      /\ d2.block_request_count = Len(q) - 1 /\ d2.device = node.want /\ d2.intact
  <2>1. node.want \in 0..MaxCount /\ Len(q) - 1 \in Nat
    BY <1>0, <1>1
  <2> QED BY <1>0, <1>2, <1>3, <2>1 DEF DiskType
<1>5. use # NULL
  BY <1>2, NULLAssumption
<1>6. DriverOK(d2)
  BY <1>0, <1>2, <1>4, <1>5 DEF DriverOK, QueueFresh
<1>7. Pending(d2) = Pending(d)
  <2>1. /\ Pending(d) \in Seq(Tasks) /\ Len(Pending(d)) = Len(q)
        /\ \A i \in 1..Len(q) : Pending(d)[i] = q[i].task
    BY <1>0, PendingIdle DEF q
  <2>2. /\ Pending(d2) \in Seq(Tasks) /\ Len(Pending(d2)) = Len(Tail(q)) + 1
        /\ Pending(d2)[1] = use.task
        /\ \A i \in 1..Len(Tail(q)) : Pending(d2)[i + 1] = Tail(q)[i].task
    <3>1. Lists(Pending(d2), use, Tail(q))
      BY <1>2, <1>4, PendingBusy
    <3> QED BY <3>1 DEF Lists
  <2>3. ASSUME NEW i \in 1..Len(q) PROVE Pending(d2)[i] = Pending(d)[i]
    <3>1. CASE i = 1
      BY <1>0, <1>2, <2>1, <2>2, <3>1
    <3>2. CASE i # 1
      <4>1. i - 1 \in 1..(Len(q) - 1) /\ (i - 1) + 1 = i
        BY <1>0, <3>2
      <4>2. Pending(d2)[(i - 1) + 1] = Tail(q)[i - 1].task /\ Tail(q)[i - 1] = q[(i - 1) + 1]
        BY <1>0, <2>2, <4>1
      <4> QED BY <2>1, <4>1, <4>2
    <3> QED BY <3>1, <3>2
  <2>4. Len(Pending(d2)) = Len(q)
    BY <1>0, <2>2
  <2> QED BY <2>1, <2>2, <2>3, <2>4, SeqEqual
<1> QED
  BY <1>4, <1>5, <1>6, <1>7

\* submit appends the new request, and starts it when the drive is idle.
LEMMA Submit ==
  ASSUME NEW d, DriverOK(d), NEW t \in Tasks, NEW cmd \in Commands, NEW n \in 1..MaxCount,
         cmd = "IDENTIFY" => n = 1, NEW d2, d2 = submit(d, make_request(t, cmd, n))
  PROVE  DriverOK(d2) /\ Pending(d2) = Append(Pending(d), t)
<1> DEFINE q == d.queue
           node == make_request(t, cmd, n)
           d1 == add_request(d, node)
<1>0. /\ d \in DiskType /\ q \in Seq(Nodes) /\ d.block_request_count = Len(q) /\ Len(q) \in Nat
      /\ d.intact /\ \A i \in 1..Len(q) : Fresh(q[i])
  BY DEF DriverOK, QueueFresh, DiskType
<1>1. Fresh(node) /\ node.task = t
  <2>1. MaxCount \in Nat /\ n \in 0..MaxCount /\ 0 \in 0..MaxCount /\ n \in 1..MaxCount
    BY DiskAssumption
  <2>2. /\ node.task = t /\ node.cmd = cmd /\ node.want = n /\ node.slot = 0 /\ node.moved = {}
        /\ node.lost = {} /\ node.count = IF cmd = "IDENTIFY" THEN 0 ELSE n
    BY DEF make_request
  <2>3. node \in Nodes
    BY <2>1 DEF make_request, Nodes
  <2> HIDE DEF node
  <2> QED BY <2>2, <2>3 DEF Fresh
<1>2. node \in Nodes
  BY <1>1 DEF Fresh
<1>3. d1 = [d EXCEPT !.queue = Append(q, node), !.block_request_count = Len(q) + 1]
  BY <1>0 DEF add_request
<1>4. d2 = IF d1.in_using = NULL THEN cmd_out(d1) ELSE d1
  BY DEF submit
<1> HIDE DEF q, node, d1
<1>5. /\ Append(q, node) \in Seq(Nodes) /\ Len(Append(q, node)) = Len(q) + 1
      /\ \A i \in 1..(Len(q) + 1) : Append(q, node)[i] = IF i <= Len(q) THEN q[i] ELSE node
      /\ Append(q, node) # <<>>
  <2>1. q \in Seq(Nodes) /\ node \in Nodes /\ Len(q) \in Nat
    BY <1>0, <1>2
  <2>2. /\ Append(q, node) \in Seq(Nodes) /\ Len(Append(q, node)) = Len(q) + 1
        /\ \A i \in 1..(Len(q) + 1) : Append(q, node)[i] = IF i <= Len(q) THEN q[i] ELSE node
    BY <2>1
  <2>3. Append(q, node) # <<>>
    BY <2>1, <2>2
  <2> QED BY <2>2, <2>3
<1>6. /\ d1 \in DiskType /\ d1.queue = Append(q, node) /\ d1.block_request_count = Len(q) + 1
      /\ d1.in_using = d.in_using /\ d1.device = d.device /\ d1.intact
  <2>1. Len(q) + 1 \in Nat
    BY <1>0
  <2> QED BY <1>0, <1>3, <1>5, <2>1 DEF DiskType
<1>7. QueueFresh(d1)
  <2>1. ASSUME NEW i \in 1..(Len(q) + 1) PROVE Fresh(Append(q, node)[i])
    <3>1. i \in 1..Len(q) \/ ~(i <= Len(q))
      BY <1>0
    <3>2. (Append(q, node)[i] = q[i] /\ i \in 1..Len(q)) \/ Append(q, node)[i] = node
      BY <1>0, <1>5, <3>1
    <3> QED BY <1>0, <1>1, <3>2
  <2> QED BY <1>5, <1>6, <2>1 DEF QueueFresh
<1>8. CASE d.in_using = NULL
  <2>0. q = <<>>
    BY <1>8 DEF DriverOK, q
  <2>1. DriverOK(d2) /\ Pending(d2) = Pending(d1)
    BY <1>4, <1>5, <1>6, <1>7, <1>8, CmdOut
  <2>2. /\ Pending(d) \in Seq(Tasks) /\ Len(Pending(d)) = 0
    BY <1>0, <1>8, <2>0, PendingIdle DEF q
  <2>3. /\ Pending(d1) \in Seq(Tasks) /\ Len(Pending(d1)) = Len(Append(q, node))
        /\ \A i \in 1..Len(Append(q, node)) : Pending(d1)[i] = Append(q, node)[i].task
    BY <1>6, <1>8, PendingIdle
  <2>4. Len(Pending(d1)) = 1 /\ Pending(d1)[1] = t
    BY <1>1, <1>5, <2>0, <2>3
  <2>5. Pending(d1) = Append(Pending(d), t)
    <3> DEFINE a == Pending(d)
               b == Pending(d1)
    <3>1. a \in Seq(Tasks) /\ b \in Seq(Tasks) /\ Len(a) = 0 /\ Len(b) = 1 /\ b[1] = t
      BY <2>2, <2>3, <2>4
    <3> HIDE DEF a, b
    <3>2. b = Append(a, t)
      BY <3>1
    <3> QED BY <3>2 DEF a, b
  <2> QED BY <2>1, <2>5
<1>9. CASE d.in_using # NULL
  <2>0. d2 = d1 /\ d.in_using \in Nodes /\ Working(d.in_using, d.device)
    BY <1>0, <1>4, <1>6, <1>9 DEF DriverOK, DiskType
  <2>1. DriverOK(d2)
    BY <1>6, <1>7, <1>9, <2>0 DEF DriverOK
  <2>2. Lists(Pending(d), d.in_using, q)
    BY <1>0, <2>0, PendingBusy DEF q
  <2>3. Lists(Pending(d2), d.in_using, Append(q, node))
    BY <1>6, <2>0, PendingBusy
  <2>4. Pending(d2) = Append(Pending(d), t)
    <3> DEFINE a == Pending(d)
               b == Pending(d2)
               r == Append(q, node)
    <3>1. Lists(a, d.in_using, q) /\ Lists(b, d.in_using, r)
      BY <2>2, <2>3
    <3>2. /\ Len(r) = Len(q) + 1 /\ \A i \in 1..(Len(q) + 1) : r[i] = IF i <= Len(q) THEN q[i] ELSE node
      BY <1>5
    <3> HIDE DEF a, b, r
    <3>3. /\ a \in Seq(Tasks) /\ b \in Seq(Tasks) /\ Len(a) = Len(q) + 1 /\ Len(b) = Len(q) + 2
      BY <1>0, <3>1, <3>2 DEF Lists
    <3>4. /\ Append(a, t) \in Seq(Tasks) /\ Len(Append(a, t)) = Len(q) + 2
          /\ \A i \in 1..(Len(q) + 2) : Append(a, t)[i] = IF i <= Len(q) + 1 THEN a[i] ELSE t
      BY <1>0, <3>3
    <3>5. ASSUME NEW i \in 1..(Len(q) + 2) PROVE b[i] = Append(a, t)[i]
      <4>1. CASE i = 1
        BY <1>0, <3>1, <3>4, <4>1 DEF Lists
      <4>2. CASE i # 1
        <5>1. i - 1 \in 1..(Len(q) + 1) /\ (i - 1) + 1 = i /\ (i - 1 <= Len(q) <=> i <= Len(q) + 1)
          BY <1>0, <4>2
        <5>2. b[i] = r[i - 1].task
          BY <3>1, <3>2, <5>1 DEF Lists
        <5>3. CASE i <= Len(q) + 1
          <6>1. i - 1 \in 1..Len(q) /\ r[i - 1] = q[i - 1]
            BY <1>0, <3>2, <5>1, <5>3
          <6>2. a[i] = q[i - 1].task
            BY <3>1, <5>1, <6>1 DEF Lists
          <6> QED BY <3>4, <5>2, <5>3, <6>1, <6>2
        <5>4. CASE ~(i <= Len(q) + 1)
          BY <1>1, <3>2, <3>4, <5>1, <5>2, <5>4
        <5> QED BY <5>3, <5>4
      <4> QED BY <4>1, <4>2
    <3>6. b = Append(a, t)
      BY <3>3, <3>4, <3>5, SeqEqual
    <3> QED BY <3>6 DEF a, b
  <2> QED BY <2>1, <2>4
<1> QED
  BY <1>8, <1>9

\* What one interrupt must do to the request the drive works on: move the
\* sector the drive has come to, and leave every sector in place at the end.
Advances(node, dev, n2) ==
  /\ n2 \in Nodes /\ n2.task = node.task
  /\ ~finished(n2) => Working(n2, dev - 1)
  /\ finished(n2) => dev = 1 /\ InPlace(n2, n2.want)

\* The numbers of a request the device has come to sector number want - dev of.
LEMMA WorkingFacts ==
  ASSUME NEW node, NEW dev, Working(node, dev), NEW sector, sector = node.want - dev
  PROVE  /\ MaxCount \in Nat /\ node \in Nodes
         /\ node.want \in 1..MaxCount /\ dev \in 1..node.want /\ dev \in 1..MaxCount
         /\ node.slot = sector /\ sector \in 0..MaxCount /\ sector + 1 \in 0..MaxCount
         /\ node.want = sector + dev
         /\ node.lost \in SUBSET (0..MaxCount) /\ node.lost \subseteq 0..(sector - 1)
         /\ node.moved \in SUBSET ((0..MaxCount) \X (0..MaxCount))
<1>1. /\ MaxCount \in Nat /\ node \in Nodes /\ node.want \in 1..MaxCount /\ dev \in 1..node.want
      /\ node.slot = sector /\ node.lost \in SUBSET (0..MaxCount)
      /\ node.moved \in SUBSET ((0..MaxCount) \X (0..MaxCount))
      /\ node.lost \subseteq 0..(sector - 1)
  BY DiskAssumption DEF Working, Nodes
<1>2. /\ dev \in 1..MaxCount /\ sector \in 0..MaxCount /\ sector + 1 \in 0..MaxCount
      /\ node.want = sector + dev
  <2>1. MaxCount \in Nat /\ node.want \in 1..MaxCount /\ dev \in 1..node.want
    BY <1>1
  <2> QED BY <2>1
<1> QED
  BY <1>1, <1>2

\* The first n sectors, and the next one.
LEMMA InPlaceNext ==
  ASSUME NEW n \in Nat, NEW lost, lost \subseteq 0..(n - 1)
  PROVE  /\ {<<s, s>> : s \in (0..n) \ lost} = {<<s, s>> : s \in (0..(n - 1)) \ lost} \cup {<<n, n>>}
         /\ {<<s, s>> : s \in (0..n) \ (lost \cup {n})} = {<<s, s>> : s \in (0..(n - 1)) \ lost}
<1>1. 0..n = (0..(n - 1)) \cup {n} /\ n \notin 0..(n - 1)
  OBVIOUS
<1> QED
  BY <1>1

\* read_handler takes the next sector, or notes it lost.
LEMMA ReadHandler ==
  ASSUME NEW node, NEW dev, Working(node, dev), NEW err \in BOOLEAN, node.cmd = "READ",
         NEW sector, sector = node.want - dev, NEW n2, n2 = read_handler(node, sector, err)
  PROVE  Advances(node, dev, n2)
<1> DEFINE lost == IF err THEN node.lost \cup {sector} ELSE node.lost
           moved == IF err THEN node.moved ELSE node.moved \cup {<<sector, sector>>}
           slot == IF dev = 1 THEN sector ELSE sector + 1
<1>0. /\ MaxCount \in Nat /\ node \in Nodes
      /\ node.want \in 1..MaxCount /\ dev \in 1..node.want /\ dev \in 1..MaxCount
      /\ node.slot = sector /\ sector \in 0..MaxCount /\ sector + 1 \in 0..MaxCount
      /\ node.want = sector + dev
      /\ node.lost \in SUBSET (0..MaxCount) /\ node.lost \subseteq 0..(sector - 1)
      /\ node.moved \in SUBSET ((0..MaxCount) \X (0..MaxCount))
  BY WorkingFacts
<1>1. node.count = dev /\ InPlace(node, node.want - dev + Extra(node))
  BY DEF Working
<1>2. n2 = [node EXCEPT !.lost = lost, !.moved = moved, !.count = dev - 1, !.slot = slot]
  BY <1>0, <1>1 DEF read_handler, move, Nodes
<1>3. dev - 1 \in 0..MaxCount /\ slot \in 0..MaxCount /\ sector \in Nat
  <2>1. MaxCount \in Nat /\ dev \in 1..MaxCount /\ sector \in 0..MaxCount /\ sector + 1 \in 0..MaxCount
    BY <1>0
  <2> QED BY <2>1
<1>4. lost \in SUBSET (0..MaxCount) /\ moved \in SUBSET ((0..MaxCount) \X (0..MaxCount))
  BY <1>0
<1>5. moved = {<<s, s>> : s \in (0..sector) \ lost} /\ lost \subseteq 0..sector
  <2>1. node.moved = {<<s, s>> : s \in (0..(sector - 1)) \ node.lost}
    <3>1. node.want - dev + Extra(node) = sector
      <4>1. Extra(node) = 0
        BY DEF Extra
      <4> QED BY <1>3, <4>1
    <3> QED BY <1>1, <3>1 DEF InPlace
  <2>2. lost \subseteq 0..sector
    BY <1>0, <1>3
  <2> QED BY <1>0, <1>3, <2>1, <2>2, InPlaceNext
<1> HIDE DEF lost, moved, slot
<1>6. /\ n2 \in Nodes /\ n2.task = node.task /\ n2.cmd = "READ" /\ n2.want = node.want
      /\ n2.count = dev - 1 /\ n2.slot = slot /\ n2.lost = lost /\ n2.moved = moved
  BY <1>0, <1>2, <1>3, <1>4 DEF Nodes
<1>7. InPlace(n2, sector + 1)
  <2>1. (sector + 1) - 1 = sector
    BY <1>3
  <2> QED BY <1>5, <1>6, <2>1 DEF InPlace
<1>8. CASE dev = 1
  <2>1. n2.want = sector + 1 /\ n2.count = 0
    <3>1. node.want = sector + 1
      BY <1>0, <1>8
    <3> QED BY <1>6, <1>8, <3>1
  <2> QED BY <1>6, <1>7, <1>8, <2>1 DEF finished, Advances
<1>9. CASE dev # 1
  <2>1. /\ sector + dev - (dev - 1) = sector + 1 /\ sector + dev - (dev - 1) - 1 = sector
        /\ dev - 1 \in 1..(sector + dev) /\ dev - 1 # 0
    <3>1. dev \in 1..MaxCount /\ MaxCount \in Nat
      BY <1>0
    <3> QED BY <1>3, <1>9, <3>1
  <2>2. n2.want = sector + dev /\ n2.slot = sector + 1 /\ n2.count # 0
    <3>1. slot = sector + 1
      BY <1>9 DEF slot
    <3>2. n2.want = sector + dev
      BY <1>0, <1>6
    <3> QED BY <1>6, <2>1, <3>1, <3>2
  <2>3. Extra(n2) = 0 /\ sector + 1 + 0 = sector + 1
    BY <1>3, <1>6 DEF Extra
  <2>4. InPlace(n2, n2.want - (dev - 1) + Extra(n2)) /\ n2.lost \subseteq 0..(n2.want - (dev - 1) - 1)
    <3>1. /\ n2.want - (dev - 1) + Extra(n2) = sector + 1
          /\ n2.want - (dev - 1) - 1 = sector
      <4>1. dev \in Nat
        BY <1>0
      <4> QED BY <1>3, <2>2, <2>3, <4>1
    <3> QED BY <1>5, <1>6, <1>7, <3>1, Zenon
  <2>5. Working(n2, dev - 1)
    BY <1>6, <2>1, <2>2, <2>4 DEF Working
  <2> QED BY <1>6, <2>2, <2>5 DEF finished, Advances
<1> QED BY <1>8, <1>9

\* write_handler gives the device the next sector.
LEMMA WriteHandler ==
  ASSUME NEW node, NEW dev, Working(node, dev), node.cmd = "WRITE",
         NEW sector, sector = node.want - dev, NEW n2, n2 = write_handler(node, sector)
  PROVE  Advances(node, dev, n2)
<1>0. /\ MaxCount \in Nat /\ node \in Nodes
      /\ node.want \in 1..MaxCount /\ dev \in 1..node.want /\ dev \in 1..MaxCount
      /\ node.slot = sector /\ sector \in 0..MaxCount /\ sector + 1 \in 0..MaxCount
      /\ node.want = sector + dev
      /\ node.moved \in SUBSET ((0..MaxCount) \X (0..MaxCount))
  BY WorkingFacts
<1>1. sector \in Nat /\ sector + 1 - 1 = sector /\ sector + 2 - 1 = sector + 1 /\ dev \in Nat
  <2>1. MaxCount \in Nat /\ sector \in 0..MaxCount /\ dev \in 1..MaxCount
    BY <1>0
  <2> QED BY <2>1
<1>2. /\ node.count = dev /\ node.lost = {} /\ InPlace(node, sector + 1)
  <2>1. node.count = dev /\ node.lost = {} /\ InPlace(node, node.want - dev + Extra(node))
    BY DEF Working
  <2>2. Extra(node) = 1
    BY DEF Extra
  <2> QED BY <2>1, <2>2
<1>3. CASE dev = 1
  <2>1. n2 = [node EXCEPT !.count = 0]
    BY <1>2, <1>3 DEF write_handler
  <2>2. 0 \in 0..MaxCount
    BY <1>0
  <2>3. /\ n2 \in Nodes /\ n2.task = node.task /\ n2.want = node.want /\ n2.count = 0
        /\ n2.lost = node.lost /\ n2.moved = node.moved
    BY <1>0, <2>1, <2>2 DEF Nodes
  <2>4. n2.want = sector + 1
    BY <1>0, <1>3, <2>3
  <2>5. InPlace(n2, sector + 1)
    BY <1>2, <2>3 DEF InPlace
  <2> QED BY <1>3, <2>3, <2>4, <2>5 DEF finished, Advances
<1>4. CASE dev # 1
  <2> DEFINE moved == node.moved \cup {<<sector + 1, sector + 1>>}
  <2>1. n2 = [node EXCEPT !.count = dev - 1, !.slot = sector + 1, !.moved = moved]
    BY <1>0, <1>2, <1>4 DEF write_handler, move, Nodes
  <2>2. moved \in SUBSET ((0..MaxCount) \X (0..MaxCount))
    BY <1>0
  <2>3. /\ dev - 1 \in 0..MaxCount /\ dev - 1 # 0 /\ dev - 1 \in 1..(sector + dev)
        /\ sector + dev - (dev - 1) = sector + 1 /\ sector + 1 + 1 = sector + 2
    <3>1. dev \in 1..MaxCount /\ MaxCount \in Nat
      BY <1>0
    <3> QED BY <1>1, <1>4, <3>1
  <2>4. moved = {<<s, s>> : s \in (0..(sector + 1)) \ {}}
    <3>1. node.moved = {<<s, s>> : s \in (0..sector) \ {}}
      BY <1>1, <1>2 DEF InPlace
    <3>2. 0..(sector + 1) = (0..sector) \cup {sector + 1}
      BY <1>1
    <3> QED BY <3>1, <3>2
  <2> HIDE DEF moved
  <2>5. /\ n2 \in Nodes /\ n2.task = node.task /\ n2.cmd = "WRITE" /\ n2.want = sector + dev
        /\ n2.count = dev - 1 /\ n2.slot = sector + 1 /\ n2.lost = {} /\ n2.moved = moved
    <3>1. /\ n2 \in Nodes /\ n2.task = node.task /\ n2.cmd = node.cmd /\ n2.want = node.want
          /\ n2.count = dev - 1 /\ n2.slot = sector + 1 /\ n2.lost = node.lost /\ n2.moved = moved
      BY <1>0, <2>1, <2>2, <2>3 DEF Nodes
    <3> QED BY <1>0, <1>2, <3>1
  <2>6. InPlace(n2, sector + 2)
    BY <1>1, <2>4, <2>5 DEF InPlace
  <2>7. Extra(n2) = 1
    BY <2>5 DEF Extra
  <2>8. InPlace(n2, n2.want - (dev - 1) + Extra(n2))
    <3>1. n2.want - (dev - 1) + Extra(n2) = sector + 2
      BY <1>1, <2>5, <2>7
    <3> QED BY <2>6, <3>1, Zenon
  <2>9. Working(n2, dev - 1)
    BY <2>3, <2>5, <2>8 DEF Working
  <2> QED BY <2>3, <2>5, <2>9 DEF finished, Advances
<1> QED BY <1>3, <1>4

\* other_handler, for IDENTIFY, does as read_handler does.
LEMMA OtherHandler ==
  ASSUME NEW node, NEW dev, Working(node, dev), NEW err \in BOOLEAN, node.cmd = "IDENTIFY",
         NEW sector, sector = node.want - dev, NEW n2, n2 = other_handler(node, sector, err)
  PROVE  Advances(node, dev, n2)
<1> DEFINE lost == IF err THEN node.lost \cup {sector} ELSE node.lost
           moved == IF err THEN node.moved ELSE node.moved \cup {<<sector, sector>>}
<1>0. /\ MaxCount \in Nat /\ node \in Nodes /\ node.slot = sector
      /\ dev \in 1..node.want /\ node.want = 1 /\ node.count = 0
      /\ node.lost \in SUBSET (0..MaxCount) /\ node.lost \subseteq 0..(sector - 1)
      /\ node.moved \in SUBSET ((0..MaxCount) \X (0..MaxCount))
  BY WorkingFacts DEF Working
<1>1. dev = 1 /\ sector = 0
  BY <1>0
<1>2. node.lost = {}
  BY <1>0, <1>1
<1>3. node.moved = {}
  <2>1. InPlace(node, node.want - dev + Extra(node)) /\ Extra(node) = 0
    BY DEF Working, Extra
  <2>2. InPlace(node, 0)
    BY <1>0, <1>1, <2>1
  <2> QED BY <1>2, <2>2 DEF InPlace
<1>4. n2 = [node EXCEPT !.lost = lost, !.moved = moved]
  BY <1>0 DEF other_handler, move, Nodes
<1>5. lost \in SUBSET (0..MaxCount) /\ moved \in SUBSET ((0..MaxCount) \X (0..MaxCount))
  BY <1>0, <1>1
<1>6. moved = {<<s, s>> : s \in (0..0) \ lost}
  BY <1>1, <1>2, <1>3
<1> HIDE DEF lost, moved
<1>7. /\ n2 \in Nodes /\ n2.task = node.task /\ n2.want = node.want
      /\ n2.count = node.count /\ n2.lost = lost /\ n2.moved = moved
  BY <1>0, <1>4, <1>5 DEF Nodes
<1>8. InPlace(n2, 1)
  BY <1>6, <1>7 DEF InPlace
<1> QED
  BY <1>0, <1>1, <1>7, <1>8 DEF finished, Advances

\* Lists only looks at the owner of the request in use.
LEMMA ListsOwner ==
  ASSUME NEW p, NEW q, NEW a, NEW b, a.task = b.task
  PROVE  Lists(p, a, q) <=> Lists(p, b, q)
  BY DEF Lists

\* A sequence of owners is determined by what it lists.
LEMMA ListsUnique ==
  ASSUME NEW a, NEW b, NEW node, NEW q, Lists(a, node, q), Lists(b, node, q)
  PROVE  a = b
<1>1. a \in Seq(Tasks) /\ b \in Seq(Tasks) /\ Len(a) = Len(q) + 1 /\ Len(b) = Len(q) + 1 /\ Len(q) \in Nat
  BY DEF Lists
<1>2. ASSUME NEW i \in 1..(Len(q) + 1) PROVE a[i] = b[i]
  <2>1. CASE i = 1
    BY <2>1 DEF Lists
  <2>2. CASE i # 1
    <3>1. i - 1 \in 1..Len(q) /\ (i - 1) + 1 = i
      BY <1>1, <2>2
    <3>2. a[(i - 1) + 1] = q[i - 1].task /\ b[(i - 1) + 1] = q[i - 1].task
      BY <3>1 DEF Lists
    <3> QED BY <3>1, <3>2
  <2> QED BY <2>1, <2>2
<1> QED
  BY <1>1, <1>2, SeqEqual

\* The interrupt up to end_request.
LEMMA DiskHandler ==
  ASSUME NEW d, DriverOK(d), d.device > 0, NEW err \in BOOLEAN, NEW d2, d2 = disk_handler(d, err)
  PROVE  /\ d.in_using \in Nodes /\ Lists(Pending(d), d.in_using, d.queue)
         /\ d2 \in DiskType /\ d2.queue = d.queue /\ d2.in_using \in Nodes
         /\ d2.block_request_count = Len(d.queue) /\ d2.intact
         /\ d2.in_using.task = d.in_using.task /\ Pending(d2) = Pending(d)
         /\ ~finished(d2.in_using) => DriverOK(d2)
         /\ finished(d2.in_using) => d2.device = 0 /\ InPlace(d2.in_using, d2.in_using.want)
<1> DEFINE node == d.in_using
           sector == node.want - d.device
           n2 == CASE node.cmd = "READ" -> read_handler(node, sector, err)
                   [] node.cmd = "WRITE" -> write_handler(node, sector)
                   [] node.cmd = "IDENTIFY" -> other_handler(node, sector, err)
<1>0. /\ d \in DiskType /\ d.device \in Nat /\ d.device \in 0..MaxCount /\ QueueFresh(d)
      /\ d.block_request_count = Len(d.queue) /\ d.intact /\ d.queue \in Seq(Nodes)
  BY DEF DriverOK, QueueFresh, DiskType
<1>1. node # NULL /\ Working(node, d.device) /\ node \in Nodes
  <2>1. d.device # 0
    BY <1>0
  <2> QED BY <2>1 DEF DriverOK, Working
<1>2. d2 = [d EXCEPT !.device = d.device - 1, !.in_using = n2]
  BY DEF disk_handler
<1>3. Advances(node, d.device, n2)
  <2> HIDE DEF node, sector
  <2>1. sector = node.want - d.device
    BY DEF sector
  <2>2. node.cmd \in Commands
    BY <1>1, NodeFields
  <2>3. CASE node.cmd = "READ"
    <3>1. n2 = read_handler(node, sector, err)
      BY <2>3
    <3> HIDE DEF n2
    <3> QED BY <1>1, <2>1, <2>3, <3>1, ReadHandler
  <2>4. CASE node.cmd = "WRITE"
    <3>1. n2 = write_handler(node, sector)
      BY <2>4
    <3> HIDE DEF n2
    <3> QED BY <1>1, <2>1, <2>4, <3>1, WriteHandler
  <2>5. CASE node.cmd = "IDENTIFY"
    <3>1. n2 = other_handler(node, sector, err)
      BY <2>5
    <3> HIDE DEF n2
    <3> QED BY <1>1, <2>1, <2>5, <3>1, OtherHandler
  <2> QED BY <2>2, <2>3, <2>4, <2>5 DEF Commands
<1> HIDE DEF n2, node, sector
<1>4. n2 \in Nodes /\ n2.task = node.task
  BY <1>3 DEF Advances
<1>5. d.device - 1 \in 0..MaxCount
  BY <1>0, DiskAssumption
<1>6. /\ d2 \in DiskType /\ d2.queue = d.queue /\ d2.in_using = n2
      /\ d2.block_request_count = Len(d.queue) /\ d2.intact /\ d2.device = d.device - 1
  BY <1>0, <1>2, <1>4, <1>5 DEF DiskType
<1>7. n2 # NULL
  BY <1>4, NULLAssumption
<1>8. ~finished(n2) => DriverOK(d2)
  BY <1>0, <1>3, <1>6, <1>7 DEF Advances, DriverOK, QueueFresh
<1>9. finished(n2) => d2.device = 0 /\ InPlace(n2, n2.want)
  BY <1>3, <1>6 DEF Advances
<1>10. Lists(Pending(d), node, d.queue)
  BY <1>0, <1>1, PendingBusy DEF node
<1>11. Lists(Pending(d2), n2, d.queue)
  BY <1>4, <1>6, PendingBusy
<1>12. Pending(d2) = Pending(d)
  BY <1>4, <1>10, <1>11, ListsOwner, ListsUnique
<1> QED
  BY <1>1, <1>4, <1>6, <1>8, <1>9, <1>10, <1>12 DEF node

\* end_request: the oldest request leaves, the next one is started.
LEMMA EndRequest ==
  ASSUME NEW d, d \in DiskType, d.in_using \in Nodes, d.block_request_count = Len(d.queue),
         \A i \in 1..Len(d.queue) : Fresh(d.queue[i]), d.intact, d.device = 0,
         InPlace(d.in_using, d.in_using.want), NEW d2, d2 = end_request(d)
  PROVE  DriverOK(d2) /\ Pending(d2) = Tail(Pending(d)) /\ Pending(d) # <<>>
<1> DEFINE d1 == [d EXCEPT !.in_using = NULL, !.intact = d.intact /\ InPlace(d.in_using, d.in_using.want)]
<1>0. /\ d1 \in DiskType /\ d1.in_using = NULL /\ d1.queue = d.queue /\ d1.device = 0
      /\ d1.block_request_count = Len(d.queue) /\ d1.intact
  BY DEF DiskType
<1>1. d2 = IF d1.block_request_count # 0 THEN cmd_out(d1) ELSE d1
  BY DEF end_request
<1> HIDE DEF d1
<1>2. QueueFresh(d1)
  BY <1>0 DEF QueueFresh
<1>3. d.queue \in Seq(Nodes) /\ Len(d.queue) \in Nat
  BY DEF DiskType
<1>4. DriverOK(d2) /\ Pending(d2) = Pending(d1)
  <2>1. CASE Len(d.queue) = 0
    <3>1. d2 = d1 /\ d.queue = <<>>
      BY <1>0, <1>1, <1>3, <2>1
    <3> QED BY <1>0, <1>2, <3>1 DEF DriverOK
  <2>2. CASE Len(d.queue) # 0
    <3>1. d2 = cmd_out(d1) /\ d1.queue # <<>>
      BY <1>0, <1>1, <2>2
    <3> QED BY <1>0, <1>2, <3>1, CmdOut
  <2> QED BY <2>1, <2>2
<1>5. Pending(d1) = Tail(Pending(d)) /\ Pending(d) # <<>>
  <2> DEFINE a == Pending(d)
             b == Pending(d1)
             q == d.queue
  <2>1. b \in Seq(Tasks) /\ Len(b) = Len(q) /\ \A i \in 1..Len(q) : b[i] = q[i].task
    BY <1>0, PendingIdle
  <2>2. Lists(a, d.in_using, q)
    BY PendingBusy
  <2> HIDE DEF a, b, q
  <2>3. a \in Seq(Tasks) /\ Len(a) = Len(q) + 1 /\ Len(q) \in Nat /\ a # <<>>
    BY <2>2 DEF Lists
  <2>4. /\ Tail(a) \in Seq(Tasks) /\ Len(Tail(a)) = Len(q)
        /\ \A i \in 1..Len(q) : Tail(a)[i] = a[i + 1]
    BY <2>3
  <2>5. \A i \in 1..Len(q) : b[i] = Tail(a)[i]
    BY <2>1, <2>2, <2>4 DEF Lists
  <2>6. b = Tail(a)
    BY <2>1, <2>4, <2>5, SeqEqual
  <2> QED BY <2>3, <2>6 DEF a, b
<1> QED
  BY <1>4, <1>5

-----------------------------------------------------------------------------
(* The driver and the scheduler together *)

\* One request per sleeper, one sleeper per request.
OwnersOK(k, p) ==
  /\ \A i, j \in 1..Len(p) : p[i] = p[j] => i = j
  /\ \A t \in Tasks : OnDisk(k, t) <=> Contains(p, t)

DiskInv ==
  /\ KernelOK(kern, ExitChannels)
  /\ DriverOK(disk)
  /\ Pending(disk) \in Seq(Tasks)
  /\ OwnersOK(kern, Pending(disk))

\* The owners of the pending requests are tasks.
LEMMA PendingType ==
  ASSUME NEW d, DriverOK(d)
  PROVE  Pending(d) \in Seq(Tasks)
<1>1. d \in DiskType
  BY DEF DriverOK, QueueFresh
<1>2. CASE d.in_using = NULL
  BY <1>1, <1>2, PendingIdle
<1>3. CASE d.in_using # NULL
  <2>1. d.in_using \in Nodes
    BY <1>1, <1>3 DEF DiskType
  <2> QED BY <1>1, <2>1, PendingBusy DEF Lists
<1> QED
  BY <1>2, <1>3

\* A new sleeper and its request; the oldest request and its sleeper.
LEMMA OwnersAppend ==
  ASSUME NEW k, NEW p \in Seq(Tasks), OwnersOK(k, p), NEW t \in Tasks, ~OnDisk(k, t),
         NEW k2, \A u \in Tasks : OnDisk(k2, u) <=> OnDisk(k, u) \/ u = t
  PROVE  OwnersOK(k2, Append(p, t)) /\ ~Contains(p, t)
<1> DEFINE a == Append(p, t)
<1>1. /\ Len(p) \in Nat /\ Len(a) = Len(p) + 1
      /\ \A i \in 1..(Len(p) + 1) : a[i] = IF i <= Len(p) THEN p[i] ELSE t
  OBVIOUS
<1>2. ~Contains(p, t)
  BY DEF OwnersOK
<1> HIDE DEF a
<1>3. \A i \in 1..Len(p) : p[i] # t
  BY <1>2 DEF Contains
<1>4. \A i, j \in 1..Len(a) : a[i] = a[j] => i = j
  BY <1>1, <1>3 DEF OwnersOK
<1>5. \A u \in Tasks : Contains(a, u) <=> Contains(p, u) \/ u = t
  BY <1>1 DEF Contains
<1> QED
  BY <1>2, <1>4, <1>5 DEF OwnersOK, a

\* The first owner leaves: those that remain own the rest.
LEMMA OwnersTail ==
  ASSUME NEW k, NEW p \in Seq(Tasks), p # <<>>, OwnersOK(k, p),
         NEW k2, \A u \in Tasks : OnDisk(k2, u) <=> OnDisk(k, u) /\ u # p[1]
  PROVE  OwnersOK(k2, Tail(p))
<1> DEFINE a == Tail(p)
<1>1. /\ Len(p) \in Nat \ {0} /\ Len(a) = Len(p) - 1
      /\ \A i \in 1..(Len(p) - 1) : a[i] = p[i + 1]
  OBVIOUS
<1> HIDE DEF a
<1>2. \A i, j \in 1..Len(p) : p[i] = p[j] => i = j
  BY DEF OwnersOK
<1>3. ASSUME NEW i \in 1..Len(a), NEW j \in 1..Len(a), a[i] = a[j] PROVE i = j
  <2>1. i + 1 \in 1..Len(p) /\ j + 1 \in 1..Len(p) /\ p[i + 1] = p[j + 1]
    BY <1>1, <1>3
  <2>2. i + 1 = j + 1
    BY <1>2, <2>1
  <2> QED BY <1>1, <2>2
<1>4. ASSUME NEW u \in Tasks PROVE Contains(a, u) <=> Contains(p, u) /\ u # p[1]
  <2>1. ASSUME NEW i \in 1..Len(a), a[i] = u PROVE i + 1 \in 1..Len(p) /\ p[i + 1] = u /\ u # p[1]
    <3>1. i + 1 \in 1..Len(p) /\ 1 \in 1..Len(p) /\ i + 1 # 1 /\ p[i + 1] = u
      BY <1>1, <2>1
    <3> QED BY <1>2, <3>1
  <2>2. ASSUME NEW i \in 1..Len(p), p[i] = u, u # p[1] PROVE i - 1 \in 1..Len(a) /\ a[i - 1] = u
    <3>1. i - 1 \in 1..(Len(p) - 1) /\ (i - 1) + 1 = i
      BY <1>1, <2>2
    <3> QED BY <1>1, <2>2, <3>1
  <2> QED BY <2>1, <2>2 DEF Contains
<1> QED
  BY <1>3, <1>4 DEF OwnersOK, a

\* Each step keeps the invariant, is a step of Sched, and a step of BlockQueue
\* or none.
LEMMA NextStep ==
  ASSUME DiskInv, Next
  PROVE  DiskInv' /\ S!Next /\ (Q!Next \/ Pending(disk') = Pending(disk))
<1> DEFINE X == ExitChannels
           G == DiskInv' /\ S!Next /\ (Q!Next \/ Pending(disk') = Pending(disk))
<1>0. /\ KernelOK(kern, X) /\ DriverOK(disk) /\ Pending(disk) \in Seq(Tasks)
      /\ OwnersOK(kern, Pending(disk)) /\ X \subseteq Channels
  BY DiskAssumption DEF DiskInv
<1>1. ASSUME NEW cmd \in Commands, NEW n \in 1..MaxCount, IDE_transfer(cmd, n) PROVE G
  <2> DEFINE t == kern.current
  <2>0. /\ kern.current # Idle /\ (cmd = "IDENTIFY" => n = 1)
        /\ disk' = submit(disk, make_request(t, cmd, n)) /\ kern' = wait_for_finish(kern)
    BY <1>1 DEF IDE_transfer
  <2>1. t \in Tasks /\ kern.state[t] = "RUNNING"
    BY <1>0, KernelTypes
  <2>2. ~OnDisk(kern, t)
    BY <2>1 DEF OnDisk
  <2>3. /\ KernelOK(kern', X) /\ \A u \in Tasks : OnDisk(kern', u) <=> OnDisk(kern, u) \/ u = t
    BY <1>0, <2>0, TransferEntry
  <2>4. DriverOK(disk') /\ Pending(disk') = Append(Pending(disk), t)
    BY <1>0, <2>0, <2>1, Submit
  <2>5. OwnersOK(kern', Append(Pending(disk), t)) /\ ~Contains(Pending(disk), t)
    BY <1>0, <2>1, <2>2, <2>3, OwnersAppend
  <2>6. DiskInv'
    BY <2>3, <2>4, <2>5, PendingType DEF DiskInv
  <2>7. S!Next
    BY <2>0, SameSchedule DEF S!Next, S!SysTransfer, S!wait_for_finish, wait_for_finish
  <2>8. Q!Submit(t)
    BY <2>4, <2>5 DEF Q!Submit, Q!Contains, Contains
  <2> QED BY <2>1, <2>6, <2>7, <2>8 DEF Q!Next
<1>2. ASSUME NEW err \in BOOLEAN, DiskIrq(err) PROVE G
  <2> DEFINE d == disk_handler(disk, err)
  <2>0. /\ disk.device > 0
        /\ \/ ~finished(d.in_using) /\ disk' = d /\ kern' = ret_from_intr(kern)
           \/ /\ finished(d.in_using) /\ disk' = end_request(d)
              /\ kern' = ret_from_intr(wakeup_process(kern, d.in_using.task))
    BY <1>2 DEF DiskIrq
  <2>1. /\ disk.in_using \in Nodes /\ Lists(Pending(disk), disk.in_using, disk.queue)
        /\ d \in DiskType /\ d.queue = disk.queue /\ d.in_using \in Nodes
        /\ d.block_request_count = Len(disk.queue) /\ d.intact
        /\ d.in_using.task = disk.in_using.task /\ Pending(d) = Pending(disk)
        /\ ~finished(d.in_using) => DriverOK(d)
        /\ finished(d.in_using) => d.device = 0 /\ InPlace(d.in_using, d.in_using.want)
    BY <1>0, <2>0, DiskHandler
  <2> HIDE DEF d
  <2>2. CASE ~finished(d.in_using) /\ disk' = d /\ kern' = ret_from_intr(kern)
    <3>1. Entry(kern, kern', X)
      BY <2>2 DEF Entry
    <3>2. KernelOK(kern', X) /\ SameOnDisk(kern, kern')
      BY <1>0, <3>1, EntryStep
    <3>3. DriverOK(disk') /\ Pending(disk') = Pending(disk)
      BY <2>1, <2>2
    <3>4. OwnersOK(kern', Pending(disk))
      BY <1>0, <3>2 DEF OwnersOK, SameOnDisk
    <3>5. DiskInv'
      BY <1>0, <3>2, <3>3, <3>4 DEF DiskInv
    <3>6. S!Next
      BY <2>2, SameReturn DEF S!Next, S!QuietIrq
    <3> QED BY <3>3, <3>5, <3>6
  <2>3. CASE /\ finished(d.in_using) /\ disk' = end_request(d)
             /\ kern' = ret_from_intr(wakeup_process(kern, d.in_using.task))
    <3> DEFINE t == d.in_using.task
               p == Pending(disk)
    <3>1. t \in Tasks /\ p[1] = t /\ 1 \in 1..Len(p)
      BY <2>1, NodeFields DEF Lists
    <3>2. OnDisk(kern, t)
      <4>1. Contains(p, t)
        BY <3>1 DEF Contains
      <4> QED BY <1>0, <3>1, <4>1 DEF OwnersOK
    <3>3. /\ KernelOK(kern', X) /\ \A u \in Tasks : OnDisk(kern', u) <=> OnDisk(kern, u) /\ u # t
      BY <1>0, <2>3, <3>1, <3>2, DiskIrqEntry
    <3>4. \A i \in 1..Len(d.queue) : Fresh(d.queue[i])
      BY <1>0, <2>1 DEF DriverOK, QueueFresh
    <3>5. DriverOK(disk') /\ Pending(disk') = Tail(p) /\ p # <<>>
      <4>1. d.block_request_count = Len(d.queue)
        BY <2>1
      <4> QED BY <2>1, <2>3, <3>4, <4>1, EndRequest
    <3>6. OwnersOK(kern', Tail(p))
      BY <1>0, <3>1, <3>3, <3>5, OwnersTail
    <3>7. DiskInv'
      BY <3>3, <3>5, <3>6, PendingType DEF DiskInv
    <3>8. S!DiskIrq(t)
      BY <2>3, <3>2, SameReturn, SameWakeupProcess DEF S!DiskIrq, S!OnDisk, OnDisk
    <3>9. Q!Next
      BY <3>5 DEF Q!Next, Q!Finish
    <3> QED BY <3>1, <3>7, <3>8, <3>9 DEF S!Next
  <2> QED BY <2>0, <2>2, <2>3
<1>3. CASE OtherEntry
  <2>1. Entry(kern, kern', X) /\ disk' = disk
    BY <1>3, OtherIsEntry DEF OtherEntry
  <2>2. KernelOK(kern', X) /\ SameOnDisk(kern, kern')
    BY <1>0, <2>1, EntryStep
  <2>3. OwnersOK(kern', Pending(disk))
    BY <1>0, <2>2 DEF OwnersOK, SameOnDisk
  <2>4. DiskInv'
    BY <1>0, <2>1, <2>2, <2>3 DEF DiskInv
  <2>5. S!Next
    BY <1>3 DEF OtherEntry, S!Next
  <2> QED BY <2>1, <2>4, <2>5
<1> QED
  BY <1>1, <1>2, <1>3 DEF Next

\* disk_init and the kernel record task_init leaves behind.
LEMMA InitDisk == Init => DiskInv /\ S!Init /\ Q!Init
<1> SUFFICES ASSUME Init PROVE DiskInv /\ S!Init /\ Q!Init
  OBVIOUS
<1>1. S!Init
  BY DEF Init, S!Init
<1>2. kern = Boot(InitTask)
  BY DEF Init, S!BootKernel, Boot
<1>3. KernelOK(kern, ExitChannels) /\ \A t \in Tasks : ~OnDisk(kern, t)
  BY <1>2, BootOK, DiskAssumption
<1>4. /\ disk \in DiskType /\ disk.queue = <<>> /\ disk.in_using = NULL /\ disk.intact
      /\ disk.block_request_count = 0 /\ disk.device = 0
  BY DiskAssumption DEF Init, disk_init, DiskType
<1>5. DriverOK(disk)
  BY <1>4 DEF DriverOK, QueueFresh
<1>6. Pending(disk) = <<>>
  <2>1. Pending(disk) \in Seq(Tasks) /\ Len(Pending(disk)) = 0
    BY <1>4, PendingIdle
  <2> QED BY <2>1, EmptySeq
<1>7. OwnersOK(kern, <<>>)
  BY <1>3 DEF OwnersOK, Contains
<1> QED
  BY <1>1, <1>3, <1>5, <1>6, <1>7, PendingType DEF DiskInv, Q!Init

\* The inductive invariant holds in every state.
THEOREM Invariance == Spec => []DiskInv
<1>1. DiskInv /\ [Next]_vars => DiskInv'
  <2> SUFFICES ASSUME DiskInv, UNCHANGED vars PROVE DiskInv'
    BY NextStep
  <2> QED BY DEF DiskInv, vars
<1> QED
  BY <1>1, InitDisk, PTL DEF Spec

-----------------------------------------------------------------------------
(* The properties of Disk *)

\* The fields of the driver's and the scheduler's state keep their types, and
\* disk_handler never finds the drive interrupting without a request in use.
THEOREM InterruptsHaveOwners == Spec => []InterruptHasOwner
<1>1. DiskInv => InterruptHasOwner
  <2> SUFFICES ASSUME DiskInv PROVE InterruptHasOwner
    OBVIOUS
  <2>1. kern \in KernelType /\ disk \in DiskType
    BY DEF DiskInv, KernelOK, Inv, Core, QueueOK, DriverOK, QueueFresh
  <2>2. CASE disk.in_using = NULL
    BY <2>1, <2>2 DEF InterruptHasOwner, TypeOK, DiskInv, DriverOK
  <2>3. CASE disk.in_using # NULL
    <3>1. Working(disk.in_using, disk.device)
      BY <2>3 DEF DiskInv, DriverOK
    <3>2. disk.device = IF disk.in_using.cmd = "IDENTIFY" THEN 1 ELSE disk.in_using.count
      <4>1. CASE disk.in_using.cmd = "IDENTIFY"
        <5>1. disk.device \in 1..1
          BY <3>1, <4>1 DEF Working
        <5> QED BY <4>1, <5>1
      <4>2. CASE disk.in_using.cmd # "IDENTIFY"
        BY <3>1, <4>2 DEF Working
      <4> QED BY <4>1, <4>2
    <3> QED BY <2>1, <2>3, <3>2 DEF InterruptHasOwner, TypeOK
  <2> QED BY <2>2, <2>3
<1> QED
  BY <1>1, Invariance, PTL

\* No wakeup of wait_for_finish is lost, and end_request wakes nobody else.
THEOREM SleepersAreOwners == Spec => []SleepersOwnRequests
<1>1. DiskInv => SleepersOwnRequests
  BY DEF DiskInv, OwnersOK, DriverOK, QueueFresh, SleepersOwnRequests
<1> QED
  BY <1>1, Invariance, PTL

\* The handlers move each sector once and to its own place.
THEOREM SectorsStayInPlace == Spec => []SectorsInPlace
<1>1. DiskInv => SectorsInPlace
  <2> SUFFICES ASSUME DiskInv PROVE SectorsInPlace
    OBVIOUS
  <2>1. ASSUME NEW i \in 1..Len(disk.queue) PROVE InPlace(disk.queue[i], 0)
    <3>1. Fresh(disk.queue[i])
      BY DEF DiskInv, DriverOK, QueueFresh
    <3> QED BY <3>1 DEF Fresh, InPlace
  <2>2. disk.in_using # NULL => Working(disk.in_using, disk.device)
    BY DEF DiskInv, DriverOK
  <2> QED BY <2>1, <2>2 DEF SectorsInPlace, Working, Extra, DiskInv, DriverOK, QueueFresh
<1> QED
  BY <1>1, Invariance, PTL

\* The driver never wakes a task that does not wait for the disk: every step of
\* it is one of the scheduler's kernel entries.
THEOREM DiskKeepsSchedRules == Spec => SchedSpec
<1>1. DiskInv /\ [Next]_vars => [S!Next]_(S!vars)
  BY NextStep DEF vars, S!vars
<1> QED
  BY <1>1, InitDisk, Invariance, PTL DEF Spec, SchedSpec, S!Spec

\* Requests are served first come, first served: the safety part of
\* ImplementsBlockQueue.
THEOREM DiskIsFifo == Spec => Q!FifoSpec
<1>1. DiskInv /\ [Next]_vars => [Q!Next]_(Pending(disk))
  BY NextStep DEF vars
<1> QED
  BY <1>1, InitDisk, Invariance, PTL DEF Spec, Q!FifoSpec

=============================================================================
