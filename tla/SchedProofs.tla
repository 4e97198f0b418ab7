---------------------------- MODULE SchedProofs -----------------------------
(***************************************************************************)
(* Proofs about Sched for every set of tasks and channels and every bound: *)
(* each action is a kernel entry of SchedOpsProofs.                        *)
(***************************************************************************)
EXTENDS Sched, SchedOpsProofs

-----------------------------------------------------------------------------
\* Every kernel entry keeps the invariant and obeys StepOK.
LEMMA NextStep ==
  ASSUME KernelOK(kern, ExitChannels), Next
  PROVE  KernelOK(kern', ExitChannels) /\ StepOK(kern, kern')
<1>1. CASE \E t \in Tasks : DiskIrq(t)
  BY <1>1, DiskIrqEntry, ChannelAssumption DEF DiskIrq
<1>2. CASE SysTransfer
  BY <1>2, TransferEntry, ChannelAssumption DEF SysTransfer
<1>3. CASE ~SysTransfer /\ ~\E t \in Tasks : DiskIrq(t)
  <2>1. Entry(kern, kern', ExitChannels)
    BY <1>3 DEF Next, Entry, SleepState, Tick, QuietIrq, DeviceIrq, SysRead, SysWait, SysExit,
                SysFork, SysReap
  <2> QED BY <2>1, EntryStep, ChannelAssumption
<1> QED
  BY <1>1, <1>2, <1>3

\* The inductive invariant holds in every state.
THEOREM Invariance == Spec => []KernelOK(kern, ExitChannels)
<1>1. Init => KernelOK(kern, ExitChannels)
  BY BootOK, InitTaskAssumption DEF Init, BootKernel, Boot
<1>2. KernelOK(kern, ExitChannels) /\ [Next]_vars => KernelOK(kern, ExitChannels)'
  <2> SUFFICES ASSUME KernelOK(kern, ExitChannels), [Next]_vars
               PROVE  KernelOK(kern', ExitChannels)
    OBVIOUS
  <2>1. CASE Next
    BY <2>1, NextStep
  <2>2. CASE UNCHANGED vars
    BY <2>2 DEF vars
  <2> QED BY <2>1, <2>2
<1> QED
  BY <1>1, <1>2, PTL DEF Spec

\* Its scheduler part.
LEMMA InvHolds == Spec => []Inv(kern)
<1>1. KernelOK(kern, ExitChannels) => Inv(kern)
  BY DEF KernelOK
<1> QED
  BY <1>1, Invariance, PTL

-----------------------------------------------------------------------------
(* The properties of Sched *)

\* Every field of the scheduler's state keeps its type: the slice stays a
\* number because the divisor in schedule() is never 0.
THEOREM TypeCorrect == Spec => []TypeOK
<1>1. Inv(kern) => TypeOK
  BY DEF Inv, Core, QueueOK, TypeOK
<1> QED
  BY <1>1, InvHolds, PTL

\* schedule.c loses no runnable task and queues none twice or asleep.
THEOREM RunQueueIsExact == Spec => []RunQueueExact
<1>1. Inv(kern) => RunQueueExact
  BY DEF Inv, Core, QueueOK, QueueExact, Distinct, RunQueueExact
<1> QED
  BY <1>1, InvHolds, PTL

\* running_task_count always agrees with the list it counts.
THEOREM CountIsExact == Spec => []CountIsQueueLength
<1>1. Inv(kern) => CountIsQueueLength
  BY DEF Inv, Core, QueueOK, CountIsQueueLength
<1> QED
  BY <1>1, InvHolds, PTL

\* insert_task_queue keeps the run queue in vrun_time order.
THEOREM QueueIsSorted == Spec => []QueueSorted
<1>1. Inv(kern) => QueueSorted
  BY DEF Inv, Core, QueueOK, Ordered, QueueSorted
<1> QED
  BY <1>1, InvHolds, PTL

\* NEED_SCHEDULE never survives in a task that is not runnable.
THEOREM FlagsAreFresh == Spec => []FlagOnlyWhenRunnable
<1>1. Inv(kern) => FlagOnlyWhenRunnable
  BY DEF Inv, FlagsOK, FlagOnlyWhenRunnable
<1> QED
  BY <1>1, InvHolds, PTL

\* The fairness bound: no queued task is more than one slice behind.
THEOREM LeadIsBounded == Spec => []BoundedLead
<1>1. Inv(kern) => BoundedLead
  <2> SUFFICES ASSUME Inv(kern), NEW i \in 1..Len(kern.queue)
               PROVE  kern.vrun[kern.current] - kern.vrun[kern.queue[i]] <= MaxSlice
    BY DEF BoundedLead
  <2>1. kern.queue[i] \in Tasks
    BY DEF Inv, Core, QueueOK, KernelType, RunQueues
  <2>2. Contains(kern.queue, kern.queue[i])
    BY DEF Contains
  <2> QED BY <2>1, <2>2 DEF Inv, LeadOK
<1> QED
  BY <1>1, InvHolds, PTL

\* sleep_on and wakeup keep links and states together: no waiter is linked
\* twice or while it runs, and none sleeps where its waker does not look.
THEOREM WaitersAreAsleep == Spec => []WaitersAsleep
<1>1. KernelOK(kern, ExitChannels) => WaitersAsleep
  BY DEF KernelOK, WaitOK, WaitersSleep, LinkedOnce, WakerFindsIt, SleepState, WaitersAsleep
<1> QED
  BY <1>1, Invariance, PTL

\* A task that gets the processor is one that has run least.
THEOREM LeastVrunIsChosen == Spec => LeastVrunRuns
<1> DEFINE A == kern'.current # kern.current /\ kern'.current # Idle =>
                  \A t \in Tasks \ {Idle} : kern'.state[t] = "RUNNING" =>
                    kern'.vrun[kern'.current] <= kern'.vrun[t]
<1>1. KernelOK(kern, ExitChannels) /\ [Next]_vars => [A]_vars
  <2> SUFFICES ASSUME KernelOK(kern, ExitChannels), Next PROVE A
    OBVIOUS
  <2>1. Inv(kern') /\ StepOK(kern, kern')
    BY NextStep DEF KernelOK
  <2>2. ASSUME kern'.current # kern.current, NEW t \in Tasks \ {Idle}, kern'.state[t] = "RUNNING"
        PROVE  kern'.vrun[kern'.current] <= kern'.vrun[t]
    <3>1. Least(kern') /\ QueueExact(kern')
      BY <2>1, <2>2 DEF StepOK, Inv, Core
    <3>2. kern'.vrun[t] \in Nat
      BY <2>1 DEF Inv, Core, QueueOK, KernelType, VrunTimes
    <3>3. CASE t = kern'.current
      BY <3>2, <3>3
    <3>4. CASE t # kern'.current
      BY <3>1, <3>4, <2>2 DEF QueueExact, Least
    <3> QED BY <3>3, <3>4
  <2> QED BY <2>2
<1> QED
  BY <1>1, Invariance, PTL DEF Spec, LeastVrunRuns

=============================================================================
