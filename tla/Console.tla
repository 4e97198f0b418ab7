------------------------------ MODULE Console ------------------------------
(***************************************************************************)
(* color_printk under Pos.printk_lock: any processor prints, and so do the  *)
(* interrupt handlers that arrive on it.  spin_lock_irqsave turns the       *)
(* processor's interrupts off, counts preempt_count up and takes the lock   *)
(* word; spin_unlock_irqrestore undoes the three in the opposite order.     *)
(*                                                                          *)
(* A processor starts with interrupts off, and may print, until its sti.    *)
(* A context is a level of interrupt nesting on a processor: level 0 is the *)
(* interrupted task, level 1 its first handler, and so on.  The processors  *)
(* run in parallel; on one processor only the innermost context runs.       *)
(* schedule replaces the current task outside color_printk only, and the    *)
(* task it resumes is outside too, in a system call or in a handler: a      *)
(* switch leads to a state the steps below reach as well.                   *)
(***************************************************************************)
EXTENDS Integers, FiniteSets

CONSTANTS Processors,       \* the processors
          MaxLevel    \* bound on the nesting of interrupts

ASSUME ConsoleAssumption == IsFiniteSet(Processors) /\ MaxLevel \in Nat

Levels == 0..MaxLevel

VARIABLES
  printk_lock,       \* printk_lock.lock: 1 free, 0 or less taken
  level,      \* the innermost context of each processor
  pc,         \* where each context is
  irq,        \* the interrupt flag of each processor
  saved,      \* the flags variable of each context's color_printk
  counted,    \* color_printk's part of preempt_count of each processor's current task
  up,         \* whether the processor has executed the sti that ends its start-up
  syscall     \* whether its level 0 is inside a system call

console_vars == <<printk_lock, level, pc, irq, saved, counted, up, syscall>>

ConsoleTypeOK ==
  /\ printk_lock \in Int
  /\ level \in [Processors -> Levels]
  /\ pc \in [Processors -> [Levels -> {"out", "dec", "spin", "print"}]]
  /\ irq \in [Processors -> BOOLEAN]
  /\ saved \in [Processors -> [Levels -> BOOLEAN]]
  /\ counted \in [Processors -> Int]
  /\ up \in [Processors -> BOOLEAN]
  /\ syscall \in [Processors -> BOOLEAN]

ConsoleInit ==
  /\ printk_lock = 1
  /\ level = [c \in Processors |-> 0]
  /\ pc = [c \in Processors |-> [l \in Levels |-> "out"]]
  /\ irq = [c \in Processors |-> FALSE]
  /\ saved = [c \in Processors |-> [l \in Levels |-> FALSE]]
  /\ counted = [c \in Processors |-> 0]
  /\ up = [c \in Processors |-> FALSE]
  /\ syscall = [c \in Processors |-> FALSE]

At(c) == pc[c][level[c]]
Goto(c, p) == pc' = [pc EXCEPT ![c][level[c]] = p]

Irqsave_KeepOn(c) ==
  /\ At(c) = "out"
  /\ saved' = [saved EXCEPT ![c][level[c]] = irq[c]]
  /\ counted' = [counted EXCEPT ![c] = @ + 1]
  /\ Goto(c, "dec")
  /\ UNCHANGED <<printk_lock, level, irq, up, syscall>>

\* local_irq_save(flags) and spin_lock's preempt_disable.
spin_lock_irqsave(c) ==
  /\ At(c) = "out"
  /\ saved' = [saved EXCEPT ![c][level[c]] = irq[c]]
  /\ irq' = [irq EXCEPT ![c] = FALSE]
  /\ counted' = [counted EXCEPT ![c] = @ + 1]
  /\ Goto(c, "dec")
  /\ UNCHANGED <<printk_lock, level, up, syscall>>

PrintkDecrement_Signed(c) ==
  /\ At(c) = "dec"
  /\ printk_lock' = printk_lock - 1
  /\ Goto(c, IF printk_lock' >= -1 THEN "print" ELSE "spin")
  /\ UNCHANGED <<level, irq, saved, counted, up, syscall>>

\* "lock decq, jns 3f": taken if the word did not go negative.
PrintkDecrement(c) ==
  /\ At(c) = "dec"
  /\ printk_lock' = printk_lock - 1
  /\ Goto(c, IF printk_lock' >= 0 THEN "print" ELSE "spin")
  /\ UNCHANGED <<level, irq, saved, counted, up, syscall>>

\* "2: pause, cmpq, jle 2b, jmp 1b"
PrintkSpinEnds(c) ==
  /\ At(c) = "spin"
  /\ printk_lock > 0
  /\ Goto(c, "dec")
  /\ UNCHANGED <<printk_lock, level, irq, saved, counted, up, syscall>>

Unlock_Increment(c) ==
  /\ At(c) = "print"
  /\ printk_lock' = printk_lock + 1
  /\ counted' = [counted EXCEPT ![c] = @ - 1]
  /\ irq' = [irq EXCEPT ![c] = saved[c][level[c]]]
  /\ Goto(c, "out")
  /\ UNCHANGED <<level, saved, up, syscall>>

Restore_TurnOn(c) ==
  /\ At(c) = "print"
  /\ printk_lock' = 1
  /\ counted' = [counted EXCEPT ![c] = @ - 1]
  /\ irq' = [irq EXCEPT ![c] = TRUE]
  /\ Goto(c, "out")
  /\ UNCHANGED <<level, saved, up, syscall>>

\* spin_unlock and local_irq_restore(flags).
spin_unlock_irqrestore(c) ==
  /\ At(c) = "print"
  /\ printk_lock' = 1
  /\ counted' = [counted EXCEPT ![c] = @ - 1]
  /\ irq' = [irq EXCEPT ![c] = saved[c][level[c]]]
  /\ Goto(c, "out")
  /\ UNCHANGED <<level, saved, up, syscall>>

\* The sti that ends the start-up of the processor.
sti(c) ==
  /\ ~up[c] /\ At(c) = "out"
  /\ up' = [up EXCEPT ![c] = TRUE]
  /\ irq' = [irq EXCEPT ![c] = TRUE]
  /\ UNCHANGED <<printk_lock, level, pc, saved, counted, syscall>>

\* sysenter: system_call runs with interrupts off (its sti is commented out).
system_call(c) ==
  /\ up[c] /\ level[c] = 0 /\ At(c) = "out" /\ ~syscall[c]
  /\ syscall' = [syscall EXCEPT ![c] = TRUE]
  /\ irq' = [irq EXCEPT ![c] = FALSE]
  /\ UNCHANGED <<printk_lock, level, pc, saved, counted, up>>

\* ret_system_call: sti, sysexit.
ret_system_call(c) ==
  /\ level[c] = 0 /\ At(c) = "out" /\ syscall[c]
  /\ syscall' = [syscall EXCEPT ![c] = FALSE]
  /\ irq' = [irq EXCEPT ![c] = TRUE]
  /\ UNCHANGED <<printk_lock, level, pc, saved, counted, up>>

\* An interrupt gate: the handler starts with interrupts off.
Interrupt(c) ==
  /\ irq[c]
  /\ level[c] < MaxLevel
  /\ level' = [level EXCEPT ![c] = @ + 1]
  /\ irq' = [irq EXCEPT ![c] = FALSE]
  /\ UNCHANGED <<printk_lock, pc, saved, counted, up, syscall>>

\* do_softirq turns interrupts on inside a handler that is not printing.
SoftirqOn(c) ==
  /\ level[c] > 0
  /\ At(c) = "out"
  /\ ~irq[c]
  /\ irq' = [irq EXCEPT ![c] = TRUE]
  /\ UNCHANGED <<printk_lock, level, pc, saved, counted, up, syscall>>

\* The end of do_softirq and of the handler: iretq restores the flag that was on.
Return(c) ==
  /\ level[c] > 0
  /\ At(c) = "out"
  /\ level' = [level EXCEPT ![c] = @ - 1]
  /\ irq' = [irq EXCEPT ![c] = TRUE]
  /\ UNCHANGED <<printk_lock, pc, saved, counted, up, syscall>>

PrintkSpinEnds_Undo(c) ==
  /\ At(c) = "spin"
  /\ printk_lock' = printk_lock + 1
  /\ Goto(c, "dec")
  /\ UNCHANGED <<level, irq, saved, counted, up, syscall>>

Printk_Counting(c) ==
  \/ spin_lock_irqsave(c)
  \/ PrintkDecrement(c)
  \/ PrintkSpinEnds_Undo(c)
  \/ Unlock_Increment(c)

color_printk(c) ==
  \/ spin_lock_irqsave(c)
  \/ PrintkDecrement(c)
  \/ PrintkSpinEnds(c)
  \/ spin_unlock_irqrestore(c)

\* What a processor does with the console, in tasks and in handlers.
ConsoleStep(c) ==
  \/ color_printk(c)
  \/ system_call(c) \/ ret_system_call(c)
  \/ Interrupt(c) \/ SoftirqOn(c) \/ Return(c)

ConsoleNext == \E c \in Processors : ConsoleStep(c) \/ sti(c)

ConsoleSpec == ConsoleInit /\ [][ConsoleNext]_console_vars

\* A processor that is inside color_printk goes on, its interrupts being off; the
\* bus lock of "lock decq" gives no order among processors, hence no more than this.
ConsoleFairSpec ==
  ConsoleSpec /\ \A c \in Processors : WF_console_vars(PrintkDecrement(c) \/ PrintkSpinEnds(c) \/ spin_unlock_irqrestore(c))

----------------------------------------------------------------------------
Printing == {x \in Processors \X Levels : pc[x[1]][x[2]] = "print"}

\* One context of one processor writes the shared buffer and the cursor at a time.
Exclusion == \A x, y \in Printing : x = y

\* A handler never finds the interrupted context of its own processor inside
\* color_printk: it would spin for a lock that cannot be released (printk.c:311).
NoSelfDeadlock ==
  \A c \in Processors, l \in Levels : l < level[c] => pc[c][l] = "out"

\* No handler runs above a system call, and none before the sti of the start-up; a
\* task outside a system call has its interrupts on.
NotInterrupted ==
  \A c \in Processors :
    /\ syscall[c] => level[c] = 0 /\ ~irq[c]
    /\ up[c] /\ ~syscall[c] /\ level[c] = 0 /\ At(c) = "out" => irq[c]
    /\ ~up[c] => level[c] = 0 /\ ~syscall[c] /\ ~irq[c]

\* Outside color_printk its part of preempt_count is 0, inside it is 1.
CountBalanced ==
  \A c \in Processors : counted[c] = IF At(c) = "out" THEN 0 ELSE 1

\* A system call is never interrupted, however often it prints, a task outside one
\* gets its interrupts back, and preempt_count is balanced whatever nested, so that
\* ret_from_intr may reschedule (printk.c:311 and 380, entry.S:69 and 95).  The other
\* modules of this project take a system call as one step because of this.
SystemCallUninterrupted == NotInterrupted /\ CountBalanced

\* Somebody always gets the lock in the end: the lock does not stay free while
\* processors spin for it.
LockIsTaken ==
  (\E c \in Processors : At(c) \in {"dec", "spin"}) ~> (Printing # {})

=============================================================================
