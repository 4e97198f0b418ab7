------------------------------- MODULE Sched --------------------------------
(***************************************************************************)
(* Processor 0 of q2os: the scheduler under every kernel entry that calls  *)
(* it.  sysenter clears the interrupt flag and system_call leaves it so    *)
(* (entry.S:93-95), and interrupt gates clear it too; hence each action is *)
(* one kernel entry up to its return or its call of schedule().  In        *)
(* between, user code or the idle loop runs with interrupts on.            *)
(***************************************************************************)
EXTENDS SchedOps

CONSTANTS InitTask,       \* the task_struct of the init kernel thread
          ExitChannels,   \* the wait_childexit heads; the other channels are
                          \* device queues such as keyboard_wait_queue
          MaxVrun,        \* bound on vrun_time
          MaxDebt         \* bound on how far CPU_exec_task_jiffies sinks below 0

ASSUME InitTaskAssumption == InitTask \in Tasks \ {Idle}
ASSUME ChannelAssumption == ExitChannels \subseteq Channels
ASSUME BoundsAssumption == MaxVrun \in Nat /\ MaxDebt \in Nat

VARIABLE kern

\* After schedule_init and the kernel_thread(init) of task_init.
BootKernel ==
  [queue   |-> <<InitTask>>,
   count   |-> 2,
   slice   |-> 4,
   vrun    |-> [t \in Tasks |-> 0],
   state   |-> [t \in Tasks |-> IF t \in {Idle, InitTask} THEN "RUNNING" ELSE "NONE"],
   need    |-> {Idle},
   current |-> Idle,
   wait    |-> [c \in Channels |-> <<>>]]

Init == kern = BootKernel

-----------------------------------------------------------------------------
(* Interrupts *)

Tick ==
  /\ kern.vrun[kern.current] + Weight(kern.current) <= MaxVrun
  /\ kern.slice - Weight(kern.current) >= -MaxDebt
  /\ kern' = ret_from_intr(HPET_handler(kern))

\* A device interrupt that wakes the oldest reader (keyboard_handler).
DeviceIrq(c) ==
  /\ c \notin ExitChannels
  /\ kern' = ret_from_intr(wakeup(kern, c, "UNINTERRUPTIBLE"))

\* An interrupt that wakes nobody, such as the mouse's or a disk sector before
\* the last one; like any interrupt it ends in a requested reschedule.
QuietIrq == kern' = ret_from_intr(kern)

\* The disk interrupt that completes the request of t (end_request).
DiskIrq(t) ==
  /\ OnDisk(kern, t)
  /\ kern' = ret_from_intr(wakeup_process(kern, t))

-----------------------------------------------------------------------------
(* System calls of the running task; the idle task makes none *)

SysRead(c) ==
  /\ kern.current # Idle
  /\ c \notin ExitChannels
  /\ kern' = sleep_on(kern, c, "UNINTERRUPTIBLE")

SysTransfer ==
  /\ kern.current # Idle
  /\ kern' = wait_for_finish(kern)

SysFork(t) ==
  /\ kern.current # Idle
  /\ kern.state[t] = "NONE"
  /\ kern' = do_fork(kern, t)

SysWait(c) ==
  /\ kern.current # Idle
  /\ c \in ExitChannels
  /\ kern' = sleep_on(kern, c, "INTERRUPTIBLE")

SysReap(t) ==
  /\ kern.current # Idle
  /\ kern.state[t] = "ZOMBIE"
  /\ kern' = [kern EXCEPT !.state[t] = "NONE"]

SysExit(c) ==
  /\ kern.current # Idle
  /\ c \in ExitChannels
  /\ kern' = do_exit(kern, c)

Next ==
  \/ Tick
  \/ QuietIrq
  \/ \E c \in Channels : DeviceIrq(c) \/ SysRead(c) \/ SysWait(c) \/ SysExit(c)
  \/ \E t \in Tasks : DiskIrq(t) \/ SysFork(t) \/ SysReap(t)
  \/ SysTransfer

vars == <<kern>>

Spec == Init /\ [][Next]_vars

-----------------------------------------------------------------------------
(* Properties *)

TypeOK == kern \in KernelType

\* The run queue holds every RUNNING task but the running and the idle one,
\* each once: no task is lost, queued twice, or queued while it sleeps.
RunQueueExact ==
  /\ kern.state[kern.current] = "RUNNING"
  /\ \A i, j \in 1..Len(kern.queue) : kern.queue[i] = kern.queue[j] => i = j
  /\ \A t \in Tasks :
       Contains(kern.queue, t)
         <=> kern.state[t] = "RUNNING" /\ t \notin {Idle, kern.current}

\* running_task_count, the divisor in schedule(), is the queue length plus one.
CountIsQueueLength == kern.count = Len(kern.queue) + 1

\* The list insert_task_queue walks stays in vrun_time order although tasks
\* are charged, forked and woken in between.
QueueSorted ==
  \A i, j \in 1..Len(kern.queue) :
    i < j => kern.vrun[kern.queue[i]] <= kern.vrun[kern.queue[j]]

\* Every linked waiter sleeps, is linked once, in the state its waker tests
\* for, and every task in an interruptible sleep has a waker that can reach it.
WaitersAsleep ==
  /\ \A c \in Channels : \A i \in 1..Len(kern.wait[c]) :
       kern.state[kern.wait[c][i]] =
         IF c \in ExitChannels THEN "INTERRUPTIBLE" ELSE "UNINTERRUPTIBLE"
  /\ \A c, d \in Channels : \A i \in 1..Len(kern.wait[c]) : \A j \in 1..Len(kern.wait[d]) :
       kern.wait[c][i] = kern.wait[d][j] => c = d /\ i = j
  /\ \A t \in Tasks : kern.state[t] = "INTERRUPTIBLE" =>
       \E c \in ExitChannels : Contains(kern.wait[c], t)

\* A NEED_SCHEDULE request does not outlive its task's turn: a task that
\* sleeps, has exited or is free carries none into its next life.
FlagOnlyWhenRunnable ==
  \A t \in kern.need : kern.state[t] = "RUNNING"

\* The fairness bound of the vrun_time accounting: whatever happens, the
\* running task is never more than one full slice ahead of a waiting one.
BoundedLead ==
  \A i \in 1..Len(kern.queue) :
    kern.vrun[kern.current] - kern.vrun[kern.queue[i]] <= MaxSlice

\* A task that gets the processor is one that has run least of all runnable
\* tasks, so a preempted task is never resumed ahead of a needier one.
LeastVrunRuns ==
  [][kern'.current # kern.current /\ kern'.current # Idle =>
       \A t \in Tasks \ {Idle} : kern'.state[t] = "RUNNING" =>
         kern'.vrun[kern'.current] <= kern'.vrun[t]]_vars

=============================================================================
