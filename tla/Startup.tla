------------------------------ MODULE Startup ------------------------------
(***************************************************************************)
(* How the boot processor starts the others.  SMP_init takes SMP_lock,      *)
(* prepares a stack and a TSS for processor global_i, and sends it a        *)
(* start-up IPI; the started processor runs kernel_header.S and Start_SMP   *)
(* and releases the lock, which the boot processor took.                    *)
(*                                                                          *)
(* The processors run in parallel: an action is a stretch of code with one  *)
(* access to memory another processor may be using.                         *)
(***************************************************************************)
EXTENDS Integers

CONSTANTS Last,       \* the highest processor number (3 in SMP.c)
          Garbage     \* preempt_count values left in kmalloc'ed memory

ASSUME StartupAssumption == Last \in Nat \ {0} /\ Garbage \subseteq Int

APs == 1..Last
CPUs == 0..Last
Nobody == -1

VARIABLES
  lock,         \* SMP_lock.lock: 1 free, 0 or less taken
  global_i,
  stack_start,  \* whose stack _stack_start points to
  tss,          \* each processor's TSS descriptor: "absent", "available", "busy"
  bsp,          \* where the boot processor is
  ap,           \* where each started processor is
  stack,        \* whose stack each processor runs on
  rsp0,         \* whose stack its idle task's thread->rsp0 names
  tr,           \* the TSS its task register holds
  preempt       \* preempt_count of the task_struct at the base of each stack

vars == <<lock, global_i, stack_start, tss, bsp, ap, stack, rsp0, tr, preempt>>

TypeOK ==
  /\ lock \in Int /\ lock <= 1
  /\ global_i \in 1..(Last + 1)
  /\ stack_start \in CPUs
  /\ tss \in [CPUs -> {"absent", "available", "busy"}]
  /\ bsp \in {"dec", "spin", "setup", "next", "task_init", "idle"}
  /\ ap \in [APs -> {"off", "head", "init", "ltr", "unlock", "count", "hlt", "fault"}]
  /\ stack \in [APs -> CPUs \cup {Nobody}]
  /\ rsp0 \in [APs -> CPUs \cup {Nobody}]
  /\ tr \in [APs -> CPUs \cup {Nobody}]
  /\ preempt \in [CPUs -> Int]

\* SMP_init up to the first iteration: the lock is free, the boot processor has
\* loaded TSS 0 and is about to take the lock for processor 1.
Init ==
  /\ lock = 1
  /\ global_i = 1
  /\ stack_start = 0
  /\ tss = [c \in CPUs |-> IF c = 0 THEN "busy" ELSE "absent"]
  /\ bsp = "dec"
  /\ ap = [i \in APs |-> "off"]
  /\ stack = [i \in APs |-> Nobody]
  /\ rsp0 = [i \in APs |-> Nobody]
  /\ tr = [i \in APs |-> Nobody]
  /\ preempt \in {p \in [CPUs -> Garbage \cup {1}] : p[0] = 1 /\ \A i \in APs : p[i] \in Garbage}

----------------------------------------------------------------------------
\* The boot processor.

Decrement_Ignored ==
  /\ bsp = "dec"
  /\ lock' = lock - 1
  /\ bsp' = "setup"
  /\ UNCHANGED <<global_i, stack_start, tss, ap, stack, rsp0, tr, preempt>>

\* spin_lock's "lock decq": the lock is taken if the word does not go negative.
Decrement ==
  /\ bsp = "dec"
  /\ lock' = lock - 1
  /\ bsp' = IF lock' >= 0 THEN "setup" ELSE "spin"
  /\ UNCHANGED <<global_i, stack_start, tss, ap, stack, rsp0, tr, preempt>>

\* "pause, cmpq, jle 2b" until the word is positive, then back to the decrement.
SpinEnds ==
  /\ bsp = "spin"
  /\ lock > 0
  /\ bsp' = "dec"
  /\ UNCHANGED <<lock, global_i, stack_start, tss, ap, stack, rsp0, tr, preempt>>

\* The body of the loop: a stack and a TSS for processor global_i, and two start-up
\* IPIs, of which a processor that is already running ignores the second.
StartProcessor ==
  /\ bsp = "setup"
  /\ stack_start' = global_i
  /\ tss' = [tss EXCEPT ![global_i] = "available"]
  /\ ap' = [ap EXCEPT ![global_i] = "head"]
  /\ bsp' = "next"
  /\ UNCHANGED <<lock, global_i, stack, rsp0, tr, preempt>>

\* global_i++, the test of the loop, and spin_lock's preempt_disable.
NextProcessor ==
  /\ bsp = "next"
  /\ global_i' = global_i + 1
  /\ IF global_i' <= Last
       THEN bsp' = "dec" /\ preempt' = [preempt EXCEPT ![0] = @ + 1]
       ELSE bsp' = "task_init" /\ UNCHANGED preempt
  /\ UNCHANGED <<lock, stack_start, tss, ap, stack, rsp0, tr>>

\* The rest of Start_Kernel: task_init resets the idle task's preempt_count, which
\* the three spin_locks have raised and no spin_unlock of this processor lowers;
\* then sti and the idle loop.
task_init ==
  /\ bsp = "task_init"
  /\ preempt' = [preempt EXCEPT ![0] = 0]
  /\ bsp' = "idle"
  /\ UNCHANGED <<lock, global_i, stack_start, tss, ap, stack, rsp0, tr>>

----------------------------------------------------------------------------
\* A started processor i.  current, and so the task_struct it writes, is the one
\* at the base of the stack it runs on.

\* APU_boot.S and kernel_header.S: the stack is whatever _stack_start points to.
LoadStack(i) ==
  /\ ap[i] = "head"
  /\ stack' = [stack EXCEPT ![i] = stack_start]
  /\ ap' = [ap EXCEPT ![i] = "init"]
  /\ UNCHANGED <<lock, global_i, stack_start, tss, bsp, rsp0, tr, preempt>>

CreateIdle_EarlyUnlock(i) ==
  /\ ap[i] = "init"
  /\ rsp0' = [rsp0 EXCEPT ![i] = stack_start]
  /\ ap' = [ap EXCEPT ![i] = "ltr"]
  /\ lock' = 1
  /\ UNCHANGED <<global_i, stack_start, tss, bsp, stack, tr, preempt>>

\* "AP create idle" in Start_SMP; it reads _stack_start a second time.
CreateIdle(i) ==
  /\ ap[i] = "init"
  /\ rsp0' = [rsp0 EXCEPT ![i] = stack_start]
  /\ ap' = [ap EXCEPT ![i] = "ltr"]
  /\ UNCHANGED <<lock, global_i, stack_start, tss, bsp, stack, tr, preempt>>

\* load_TR(10 + (global_i - 1) * 2).  Loading the task register marks the descriptor
\* busy, and loading a busy or absent one raises a general protection fault,
\* whose handler never returns.
LoadTR(i) ==
  LET n == global_i - 1 IN
  /\ ap[i] = "ltr"
  /\ IF tss[n] = "available"
       THEN /\ tss' = [tss EXCEPT ![n] = "busy"]
            /\ tr' = [tr EXCEPT ![i] = n]
            /\ ap' = [ap EXCEPT ![i] = "unlock"]
       ELSE /\ ap' = [ap EXCEPT ![i] = "fault"]
            /\ UNCHANGED <<tss, tr>>
  /\ UNCHANGED <<lock, global_i, stack_start, bsp, stack, rsp0, preempt>>

\* spin_unlock(&SMP_lock), on behalf of the boot processor.
Unlock(i) ==
  /\ ap[i] = "unlock"
  /\ lock' = 1
  /\ preempt' = [preempt EXCEPT ![stack[i]] = @ - 1]
  /\ ap' = [ap EXCEPT ![i] = "count"]
  /\ UNCHANGED <<global_i, stack_start, tss, bsp, stack, rsp0, tr>>

EnterIdle_KeepCount(i) ==
  /\ ap[i] = "count"
  /\ ap' = [ap EXCEPT ![i] = "hlt"]
  /\ UNCHANGED <<lock, global_i, stack_start, tss, bsp, stack, rsp0, tr, preempt>>

\* current->preempt_count = 0, sti, and the hlt loop.
EnterIdle(i) ==
  /\ ap[i] = "count"
  /\ preempt' = [preempt EXCEPT ![stack[i]] = 0]
  /\ ap' = [ap EXCEPT ![i] = "hlt"]
  /\ UNCHANGED <<lock, global_i, stack_start, tss, bsp, stack, rsp0, tr>>

SMP_init == Decrement \/ SpinEnds \/ StartProcessor \/ NextProcessor \/ task_init

Start_SMP(i) == LoadStack(i) \/ CreateIdle(i) \/ LoadTR(i) \/ Unlock(i) \/ EnterIdle(i)

Next == SMP_init \/ \E i \in APs : Start_SMP(i)

Spec == Init /\ [][Next]_vars

\* Every processor that has an instruction to execute executes it.
FairSpec == Spec /\ WF_vars(SMP_init) /\ \A i \in APs : WF_vars(Start_SMP(i))

----------------------------------------------------------------------------
\* A processor that holds the lock handed to it, from its start-up IPI on.
Starting(i) == ap[i] \in {"head", "init", "ltr", "unlock", "fault"}

\* The lock stays taken while a processor starts, and only one starts at a time
\* (spin_lock at SMP.c:107 against spin_unlock at SMP.c:244 on another processor).
OneStartsAtATime ==
  \A i \in APs : Starting(i) =>
    /\ lock <= 0
    /\ \A j \in APs : Starting(j) => j = i
    /\ bsp # "setup"

\* Each processor runs on the stack made for it, and its idle task's rsp0 is that
\* stack, although both come from one variable at two different times (SMP.c:110,
\* kernel_header.S:62, SMP.c:234).  Two processors on one stack would also share
\* current and cpu_id.
OwnStack ==
  \A i \in APs : stack[i] \in {Nobody, i} /\ rsp0[i] \in {Nobody, i}

\* A processor that gets past load_TR holds its own TSS (SMP.c:243 computes it from
\* global_i, which the boot processor is changing).
OwnTSS ==
  \A i \in APs : tr[i] \in {Nobody, i}

\* No processor gets what SMP_init made for another, although all of it is handed
\* over in variables that change under the started processor.
Separate == OwnStack /\ OwnTSS

\* No idle task enters its loop with preempt_count other than 0: ret_from_intr
\* would never reschedule on that processor (SMP.c:245, task.c:831, entry.S:69).
IdleIsPreemptible ==
  /\ bsp = "idle" => preempt[0] = 0
  /\ \A i \in APs : ap[i] = "hlt" => preempt[i] = 0

\* All processors come up ("1 BSP, 3 APs", SMP.c:104).
AllStart == <>(\A i \in APs : ap[i] = "hlt")
=============================================================================
