------------------------------- MODULE Timer --------------------------------
(***************************************************************************)
(* Soft interrupts and kernel timers.  The timer interrupt raises          *)
(* TIMER_SIRQ when the first timer of the list is due; every interrupt     *)
(* ends in ret_from_intr, which runs do_softirq while any bit is raised    *)
(* and then calls schedule if NEED_SCHEDULE is set.  do_softirq turns      *)
(* interrupts on, so it is interrupted in turn and runs once more inside   *)
(* itself, and a task may lose the processor while its activations stand   *)
(* anywhere: frames holds the activations on the kernel stack of each      *)
(* task of processor 0, the only one that takes interrupts.                *)
(*                                                                         *)
(* The list is modelled by its pointers, and a step of the innermost       *)
(* activation is a statement, because an interrupt may come after each.    *)
(* Which task schedule picks, and when a tick or a wakeup asks for it, is  *)
(* the subject of Sched and open here.                                     *)
(***************************************************************************)
EXTENDS Integers, Sequences, FiniteSets, SequencesExt

CONSTANTS Tasks,          \* the tasks of processor 0
          Timers,         \* the timer_list structures
          ListHead,       \* timer_list_head
          Delays,         \* the expect_jiffies arguments of init_timer
          MaxJiffies,     \* bound on jiffies
          MaxNest         \* bound on the activations of do_softirq in a task

ASSUME TimerAssumption ==
  /\ Tasks # {} /\ IsFiniteSet(Timers) /\ ListHead \notin Timers
  /\ Delays \subseteq Nat \ {0} /\ MaxJiffies \in Nat /\ MaxNest \in Nat

Nodes == Timers \cup {ListHead}

VARIABLES
  jiffies,
  softirq_status, \* whether bit 0, the only one ever raised, is set
  list,           \* next and prev of every node
  expect,         \* expect_jiffies of every node
  current,        \* the running task
  need_schedule,  \* the tasks whose NEED_SCHEDULE flag is set
  frames,         \* each task's activations of do_softirq: where, and do_timer's tmp
  armed,          \* timers added whose function has not run since
  halted          \* a NULL action was called

vars == <<jiffies, softirq_status, list, expect, current, need_schedule, frames, armed, halted>>

Places == {"while", "first", "load", "empty", "due", "del_prev", "del_next", "func", "clear",
           "rest", "end"}

TypeOK ==
  /\ jiffies \in 0..MaxJiffies
  /\ softirq_status \in BOOLEAN
  /\ list \in [next : [Nodes -> Nodes], prev : [Nodes -> Nodes]]
  /\ expect \in [Nodes -> Nat]
  /\ current \in Tasks /\ need_schedule \subseteq Tasks
  /\ frames \in [Tasks -> Seq([pc : Places, tmp : Nodes])]
  /\ armed \subseteq Timers
  /\ halted \in BOOLEAN

\* jiffies + -1UL with jiffies 0: above every deadline.
Never == MaxJiffies + 1

-----------------------------------------------------------------------------
(* lib.h *)

list_init(l, n) == [next |-> [l.next EXCEPT ![n] = n], prev |-> [l.prev EXCEPT ![n] = n]]

\* Fault variant: the prev pointers are not set.
AddBehind_NoPrev(l, e, n) == [l EXCEPT !.next = [@ EXCEPT ![n] = l.next[e], ![e] = n]]

list_add_to_behind(l, e, n) ==
  [next |-> [l.next EXCEPT ![n] = l.next[e], ![e] = n],
   prev |-> [l.prev EXCEPT ![n] = e, ![l.next[e]] = n]]

\* The two statements of list_del.
del_prev(l, e) == [l EXCEPT !.prev[l.next[e]] = l.prev[e]]
del_next(l, e) == [l EXCEPT !.next[l.prev[e]] = l.next[e]]

list_is_empty(l, n) == l.next[n] = n /\ l.prev[n] = n

-----------------------------------------------------------------------------
(* timer_init *)

Init ==
  /\ jiffies = 0
  /\ softirq_status = FALSE
  /\ list = [next |-> [n \in Nodes |-> n], prev |-> [n \in Nodes |-> n]]
  /\ expect = [n \in Nodes |-> IF n = ListHead THEN Never ELSE 0]
  /\ current \in Tasks
  /\ need_schedule = {}
  /\ frames = [c \in Tasks |-> <<>>]
  /\ armed = {}
  /\ halted = FALSE

\* Where add_timer's walk stops: the first node from the list's first on whose
\* deadline is not earlier, at the latest the head.
InsertPoint(l, x, e) ==
  LET walk[n \in Nodes] == IF x[n] < e THEN walk[l.next[n]] ELSE n
  IN  IF list_is_empty(l, ListHead) THEN l.next[ListHead] ELSE walk[l.next[ListHead]]

\* init_timer and add_timer, called by timer_init only: before HPET_init, so no tick
\* has come.
add_timer(t, d) ==
  /\ jiffies = 0
  /\ t \notin armed
  /\ jiffies + d <= MaxJiffies
  /\ expect' = [expect EXCEPT ![t] = jiffies + d]
  /\ list' = list_add_to_behind(list_init(list, t), InsertPoint(list, expect, jiffies + d), t)
  /\ armed' = armed \cup {t}
  /\ UNCHANGED <<jiffies, softirq_status, current, need_schedule, frames, halted>>

-----------------------------------------------------------------------------
(* Interrupts *)

Running == frames[current]
Activation == [pc |-> "while", tmp |-> ListHead]

\* The flags test and schedule at the end of ret_from_intr; preempt_count is 0 there,
\* as only a holder of a spin lock raises it, with interrupts off.
reschedule(need) ==
  IF current \in need
  THEN need_schedule' = need \ {current} /\ current' \in Tasks
  ELSE need_schedule' = need /\ UNCHANGED current

\* Fault variant: schedule comes first, and do_softirq when the task goes on.
RetFromIntr_ScheduleFirst(raised, need) ==
  IF raised /\ current \notin need
  THEN /\ Len(Running) < MaxNest
       /\ frames' = [frames EXCEPT ![current] = Append(@, Activation)]
       /\ need_schedule' = need
       /\ UNCHANGED current
  ELSE /\ reschedule(need)
       /\ UNCHANGED frames

\* ret_from_intr: softirq_status is tested before anything else.
ret_from_intr(raised, need) ==
  IF raised
  THEN /\ Len(Running) < MaxNest
       /\ frames' = [frames EXCEPT ![current] = Append(@, Activation)]
       /\ need_schedule' = need
       /\ UNCHANGED current
  ELSE /\ reschedule(need)
       /\ UNCHANGED frames

\* Fault variant: the due tick itself does not raise it.
HpetRaise_Later(j) == softirq_status \/ expect[list.next[ListHead]] < j

\* set_softirq_status(TIMER_SIRQ) if the first timer is due.
hpet_raise(j) == softirq_status \/ expect[list.next[ListHead]] <= j

\* A handler asks for the processor when the slice is spent or it wakes a task.
Asks == {need_schedule, need_schedule \cup {current}}

HPET_handler ==
  /\ jiffies < MaxJiffies /\ ~halted
  /\ jiffies' = jiffies + 1
  /\ softirq_status' = hpet_raise(jiffies + 1)
  /\ \E need \in Asks : ret_from_intr(hpet_raise(jiffies + 1), need)
  /\ UNCHANGED <<list, expect, armed, halted>>

\* The interrupt of a device.
OtherIrq ==
  /\ ~halted
  /\ \E need \in Asks : ret_from_intr(softirq_status, need)
  /\ UNCHANGED <<jiffies, softirq_status, list, expect, armed, halted>>

\* A system call of the running task, with interrupts off: it may wake a task, and it
\* may give up the processor.
SystemCall ==
  /\ Running = <<>> /\ ~halted
  /\ \/ need_schedule' \in Asks /\ UNCHANGED current
     \/ need_schedule' = need_schedule \ {current} /\ current' \in Tasks
  /\ UNCHANGED <<jiffies, softirq_status, list, expect, frames, armed, halted>>

-----------------------------------------------------------------------------
(* The innermost activation of do_softirq in the running task *)

At(p) == Running # <<>> /\ ~halted /\ Last(Running).pc = p
Tmp == Last(Running).tmp
Become(e) ==
  /\ frames' = [frames EXCEPT ![current][Len(Running)] = e]
  /\ UNCHANGED <<current, need_schedule>>
Goto(p) == Become([pc |-> p, tmp |-> Tmp])

\* "while (softirq_status)"
While ==
  /\ At("while")
  /\ Goto(IF softirq_status THEN "first" ELSE "end")
  /\ UNCHANGED <<jiffies, softirq_status, list, expect, armed, halted>>

\* cli, and the rest of ret_from_intr.
End ==
  /\ At("end")
  /\ frames' = [frames EXCEPT ![current] = Front(@)]
  /\ reschedule(need_schedule)
  /\ UNCHANGED <<jiffies, softirq_status, list, expect, armed, halted>>

\* The loop at i = 0; the action registered there is do_timer.
First ==
  /\ At("first")
  /\ Goto(IF softirq_status THEN "load" ELSE "rest")
  /\ UNCHANGED <<jiffies, softirq_status, list, expect, armed, halted>>

\* "softirq_status &= ~(1 << i)", after the action.
Clear ==
  /\ At("clear")
  /\ softirq_status' = FALSE
  /\ Goto("rest")
  /\ UNCHANGED <<jiffies, list, expect, armed, halted>>

\* The loop from i = 1 to 63.  1 << 32 is 1 on this processor: a raised bit 0 is
\* found again at i = 32, where no action is registered.
Rest ==
  /\ At("rest")
  /\ halted' = softirq_status
  /\ Goto("while")
  /\ UNCHANGED <<jiffies, softirq_status, list, expect, armed>>

-----------------------------------------------------------------------------
(* do_timer *)

Load ==
  /\ At("load")
  /\ Become([pc |-> "empty", tmp |-> list.next[ListHead]])
  /\ UNCHANGED <<jiffies, softirq_status, list, expect, armed, halted>>

Empty ==
  /\ At("empty")
  /\ Goto(IF list_is_empty(list, ListHead) THEN "clear" ELSE "due")
  /\ UNCHANGED <<jiffies, softirq_status, list, expect, armed, halted>>

Due ==
  /\ At("due")
  /\ Goto(IF expect[Tmp] <= jiffies THEN "del_prev" ELSE "clear")
  /\ UNCHANGED <<jiffies, softirq_status, list, expect, armed, halted>>

DelPrev ==
  /\ At("del_prev")
  /\ list' = del_prev(list, Tmp)
  /\ Goto("del_next")
  /\ UNCHANGED <<jiffies, softirq_status, expect, armed, halted>>

DelNext ==
  /\ At("del_next")
  /\ list' = del_next(list, Tmp)
  /\ Goto("func")
  /\ UNCHANGED <<jiffies, softirq_status, expect, armed, halted>>

\* tmp->func: test_timer, which only prints.
Func ==
  /\ At("func")
  /\ armed' = armed \ {Tmp}
  /\ Goto("load")
  /\ UNCHANGED <<jiffies, softirq_status, list, expect, halted>>

do_timer == Load \/ Empty \/ Due \/ DelPrev \/ DelNext \/ Func

do_softirq == While \/ End \/ First \/ Clear \/ Rest \/ do_timer

Next ==
  \/ \E t \in Timers, d \in Delays : add_timer(t, d)
  \/ HPET_handler
  \/ OtherIrq
  \/ SystemCall
  \/ do_softirq

Spec == Init /\ [][Next]_vars

\* The clock ticks, and a task that could have the processor again and again gets it
\* and goes on in it: an activation's task is never asleep, and schedule picks the
\* task that had least.
FairSpec ==
  /\ Spec
  /\ WF_vars(HPET_handler)
  /\ \A c \in Tasks :
       /\ SF_vars(current # c /\ Next /\ current' = c)
       /\ SF_vars(current = c /\ do_softirq)

-----------------------------------------------------------------------------
\* The nodes next leads to from n on.
After(n) ==
  {m \in Nodes : \A C \in SUBSET Nodes :
     n \in C /\ (\A c \in C : list.next[c] \in C) => m \in C}

\* The list behind the head.
Ring == After(ListHead) \ {ListHead}

\* The timers an activation has unlinked and is about to run.
Unlinked ==
  {t \in Timers : \E c \in Tasks : \E k \in DOMAIN frames[c] :
     frames[c][k].pc = "func" /\ frames[c][k].tmp = t}

\* A program never runs on with a soft interrupt pending, whatever ticks fell into the
\* handling of earlier ones and whichever tasks lost the processor in it (main.c:140,
\* entry.S:66, 79), and then a due timer that no activation has unlinked waits behind
\* one that is not due, for which add_timer's order is to blame (main.c:184).  On the
\* way the loop never calls a NULL action, which a bit raised between its clearing and
\* i = 32 would be (main.c:139).
NothingLeftDue ==
  /\ ~halted
  /\ Running = <<>> =>
       /\ ~softirq_status
       /\ \A t \in armed \ Unlinked : expect[t] <= jiffies =>
            \E u \in armed \ Unlinked : expect[u] > jiffies /\ t \in After(u)

\* An activation that is interrupted, or whose task loses the processor, between
\* reading the first timer and unlinking it unlinks a timer that is already gone.
\* Even so no timer that has not run is dropped, and when no task has an activation
\* left the list is a ring of exactly those (main.c:197, lib.h:198).
NoTimerDropped ==
  /\ TypeOK
  /\ armed \subseteq Ring \cup Unlinked
  /\ (\A c \in Tasks : frames[c] = <<>>) =>
       /\ Ring = armed
       /\ \A n \in Nodes : n \in Ring \cup {ListHead} => list.prev[list.next[n]] = n

\* Late as it may be, behind a later deadline or unlinked by an activation whose task
\* has lost the processor, the function of every timer that was added runs (main.c:184,
\* 192).
TimersRun == \A t \in Timers : t \in armed ~> t \notin armed
=============================================================================
