------------------------------ MODULE SchedOps ------------------------------
(***************************************************************************)
(* The scheduler of schedule.c and the wait-queue primitives of            *)
(* semaphore.h, as operators on a kernel record k.  Every C function that  *)
(* runs with interrupts off from its first statement to its last one is an *)
(* operator from the record before the call to the record after it, so a   *)
(* handler that calls several of them is written as a composition.         *)
(*                                                                         *)
(* The kernel record has the fields                                        *)
(*   queue    task_schedule[0].task_queue, from the list head on           *)
(*   count    task_schedule[0].running_task_count                          *)
(*   slice    task_schedule[0].CPU_exec_task_jiffies                       *)
(*   vrun     vrun_time of each task_struct                                *)
(*   state    state of each task_struct; "NONE" when it is not allocated   *)
(*   need     the tasks whose flags contain NEED_SCHEDULE                  *)
(*   current  the task whose stack the processor runs on                   *)
(*   wait     the tasks linked in each wait_queue_T, oldest first          *)
(* The build leaves OPEN_IRQ_FORWARD undefined, so the application         *)
(* processors halt and every task belongs to processor 0.                  *)
(***************************************************************************)
EXTENDS Integers, Sequences, SequencesExt

CONSTANTS Tasks,          \* the task_structs, init_task[0] among them
          Idle,           \* init_task[0]: the boot thread, then the idle loop
          HighPriority,   \* the tasks with priority 0 or 1
          Channels        \* the wait_queue_T heads

ASSUME IdleAssumption == Idle \in Tasks
ASSUME PriorityAssumption == HighPriority \subseteq Tasks

\* task.h:106-110 (TASK_STOPPED is never assigned), and "NONE" for a free slot.
States == {"NONE", "RUNNING", "INTERRUPTIBLE", "UNINTERRUPTIBLE", "ZOMBIE"}

RunQueues == Seq(Tasks)
VrunTimes == [Tasks -> Nat]
TaskStates == [Tasks -> States]
WaitQueues == [Channels -> Seq(Tasks)]

KernelType ==
  [queue : RunQueues, count : Int, slice : Int, vrun : VrunTimes, state : TaskStates,
   need : SUBSET Tasks, current : Tasks, wait : WaitQueues]

-----------------------------------------------------------------------------
(* schedule.c *)

\* The list walk of insert_task_queue: it stops at the first entry whose
\* vrun_time is not smaller, at the latest at the sentinel (vrun_time 2^63 - 1).
InsertPoint(k, t) ==
  CHOOSE i \in 1..(Len(k.queue) + 1) :
    /\ \A j \in 1..(i - 1) : k.vrun[k.queue[j]] < k.vrun[t]
    /\ i <= Len(k.queue) => k.vrun[k.queue[i]] >= k.vrun[t]

\* Fault variant: the entry goes to the tail.
Insert_AtTail(k, t) ==
  IF t = Idle THEN k
  ELSE [k EXCEPT !.queue = Append(@, t), !.count = @ + 1]

insert_task_queue(k, t) ==
  IF t = Idle THEN k
  ELSE [k EXCEPT !.queue = InsertAt(@, InsertPoint(k, t), t), !.count = @ + 1]

\* get_next_task returns the first entry, or the idle task.
get_next_task(k) == IF k.queue = <<>> THEN Idle ELSE Head(k.queue)

\* Fault variant: the counter is not maintained.
Dequeue_NoCount(k) == IF k.queue = <<>> THEN k ELSE [k EXCEPT !.queue = Tail(@)]

\* get_next_task leaves this record behind.
dequeue(k) ==
  IF k.queue = <<>> THEN k
  ELSE [k EXCEPT !.queue = Tail(@), !.count = @ - 1]

\* The switch on tsk->priority, entered only when the slice is exactly 0.
recharge(k, tsk) ==
  IF k.slice # 0 THEN k
  ELSE [k EXCEPT !.slice = IF tsk \in HighPriority THEN 4 \div k.count
                           ELSE (4 \div k.count) * 3]

\* 4 / running_task_count * 3 for a single task: the longest slice.
MaxSlice == 12

\* Fault variant: a task that blocks is put back on the queue.
Schedule_RequeueBlocked(k) ==
  LET tsk == get_next_task(k)
      k1  == [dequeue(k) EXCEPT !.need = @ \ {k.current}]
  IN  IF k.vrun[k.current] >= k.vrun[tsk] \/ k.state[k.current] # "RUNNING"
      THEN [recharge(insert_task_queue(k1, k.current), tsk) EXCEPT !.current = tsk]
      ELSE recharge(insert_task_queue(k1, tsk), tsk)

\* schedule(): current keeps the processor only if it is RUNNING and has run
\* strictly less than the candidate, which is the idle task on an empty queue.
schedule(k) ==
  LET tsk == get_next_task(k)
      k1  == [dequeue(k) EXCEPT !.need = @ \ {k.current}]
  IN  IF k.vrun[k.current] >= k.vrun[tsk] \/ k.state[k.current] # "RUNNING"
      THEN [recharge(IF k.state[k.current] = "RUNNING"
                     THEN insert_task_queue(k1, k.current) ELSE k1, tsk)
              EXCEPT !.current = tsk]
      ELSE recharge(insert_task_queue(k1, tsk), tsk)

-----------------------------------------------------------------------------
(* HPET.c and the interrupt return path of entry.S *)

Weight(t) == IF t \in HighPriority THEN 1 ELSE 2

\* The accounting half of HPET_handler; jiffies and the timer list are not here.
HPET_handler(k) ==
  LET left == k.slice - Weight(k.current)
  IN  [k EXCEPT !.slice = left,
                !.vrun[k.current] = @ + Weight(k.current),
                !.need = IF left <= 0 THEN @ \cup {k.current} ELSE @]

\* preempt_count is 0 whenever an interrupt is taken, and softirqs are not here.
ret_from_intr(k) == IF k.current \in k.need THEN schedule(k) ELSE k

-----------------------------------------------------------------------------
(* semaphore.h *)

\* sleep_on (st is UNINTERRUPTIBLE) and interruptible_sleep_on (INTERRUPTIBLE).
sleep_on(k, c, st) ==
  schedule([k EXCEPT !.state[k.current] = st, !.wait[c] = Append(@, k.current)])

wakeup_process(k, t) ==
  [insert_task_queue([k EXCEPT !.state[t] = "RUNNING"], t)
     EXCEPT !.need = @ \cup {k.current}]

\* Fault variant: the waiter is left linked.
Wakeup_KeepLink(k, c, st) ==
  IF k.wait[c] = <<>> \/ k.state[Head(k.wait[c])] # st THEN k
  ELSE wakeup_process(k, Head(k.wait[c]))

\* Only the oldest waiter is woken, and only if it sleeps in the given state.
wakeup(k, c, st) ==
  IF k.wait[c] = <<>> \/ k.state[Head(k.wait[c])] # st THEN k
  ELSE wakeup_process([k EXCEPT !.wait[c] = Tail(@)], Head(k.wait[c]))

-----------------------------------------------------------------------------
(* The scheduling half of disk.c and task.c *)

\* disk.c wait_for_finish: no wait queue, end_request knows whom to wake.
wait_for_finish(k) == schedule([k EXCEPT !.state[k.current] = "UNINTERRUPTIBLE"])

\* Asleep on no queue: only wait_for_finish does that to a task.
OnDisk(k, t) ==
  /\ k.state[t] = "UNINTERRUPTIBLE"
  /\ \A c \in Channels : \A i \in 1..Len(k.wait[c]) : k.wait[c][i] # t

\* Fault variant: the child starts with the vrun_time memset gave it.
Fork_ZeroVrun(k, t) ==
  wakeup_process([k EXCEPT !.vrun[t] = 0, !.state[t] = "UNINTERRUPTIBLE"], t)

\* do_fork copies the whole task_struct, vrun_time and NEED_SCHEDULE included.
do_fork(k, t) ==
  wakeup_process([k EXCEPT !.vrun[t] = k.vrun[k.current],
                           !.state[t] = "UNINTERRUPTIBLE",
                           !.need = IF k.current \in @ THEN @ \cup {t} ELSE @ \ {t}], t)

\* do_exit with exit_notify on the parent's wait_childexit c.
do_exit(k, c) ==
  schedule(wakeup([k EXCEPT !.state[k.current] = "ZOMBIE"], c, "INTERRUPTIBLE"))

=============================================================================
