------------------------------ MODULE Process -------------------------------
(***************************************************************************)
(* Processes: do_fork, do_execve, do_exit, sys_wait4 and sys_brk on top of *)
(* the scheduler, with the address spaces they make, share and free.       *)
(*                                                                         *)
(* All task_structs are linked through next, from the idle task's struct   *)
(* on, new ones right behind it.  sys_wait4 searches that                  *)
(* list for the child and its predecessor tsk, may sleep, and then uses    *)
(* both pointers again without another look.                               *)
(*                                                                         *)
(* A task stands for its task_struct, the channel with the same name for   *)
(* the wait_childexit queue in it.  An mm_struct stands for itself and its *)
(* page tables; pages are the 2 MB pages mapped for user code and for brk. *)
(***************************************************************************)
EXTENDS SchedOps, FiniteSets

CONSTANTS InitTask, DeviceChannels, MaxVrun, MaxDebt,
          Forkers,        \* the tasks whose program calls fork
          MaxChildren,    \* how many unreaped children it has at a time
          MaxPid,         \* bound on global_pid
          MmIds,          \* the mm_structs but init_mm: 1 up to some number
          Pages,          \* the 2 MB pages user space can get: numbers
          MaxBrk,         \* bound on the pages a program asks brk for
          NULL            \* no page; not inside a system call

ASSUME ChannelsAssumption == Channels = DeviceChannels \cup Tasks
ASSUME TaskAssumption == IsFiniteSet(Tasks) /\ InitTask \in Tasks \ {Idle} /\ MaxPid \in Nat
\* The shipped programs: only init, the shell, forks, and it waits for its child
\* before it forks again (user/shell.c:134).
ASSUME ShellAssumption == Forkers \subseteq {InitTask} /\ MaxChildren \in 0..1
ASSUME MmAssumption ==
  /\ MmIds \subseteq Nat \ {0} /\ Pages \subseteq Nat /\ IsFiniteSet(Pages)
  /\ MaxBrk \in Nat \ {0}

VARIABLES kern,           \* the kernel record of SchedOps
          proc,           \* next, pid and parent of each task_struct; global_pid
          mem,            \* the mm_structs, which task has which, PF_VFORK, pages in use
          frame           \* the system call a task sleeps in, with its local variables

vars == <<kern, proc, mem, frame>>

S == INSTANCE Sched WITH kern <- kern, ExitChannels <- Tasks

ProcType ==
  [next : [Tasks -> Tasks], pid : [Tasks -> Nat], parent : [Tasks -> Tasks], global_pid : Nat]

Frames == [op : {"wait4"}, child : Tasks, tsk : Tasks] \cup [op : {"boot", "execve"}]

ASSUME NULLAssumption == NULL \notin Pages /\ NULL \notin Frames

\* Page entries 1 to MaxBrk are for brk; end is end_brk, in pages behind start_brk.
Space == [used : BOOLEAN, code : Pages \cup {NULL}, brk : [1..MaxBrk -> Pages \cup {NULL}],
          end : 0..(MaxBrk + 1)]

ENOMEM == MaxBrk + 1      \* -ENOMEM as an address: above all others
NoSpace == [used |-> FALSE, code |-> NULL, brk |-> [i \in 1..MaxBrk |-> NULL], end |-> 0]
init_mm == 0

MemType ==
  [mm : [Tasks -> MmIds \cup {init_mm}], space : [MmIds -> Space],
   vfork : SUBSET Tasks, used : SUBSET Pages]

\* INIT_TASK, and the first kernel_thread: global_pid starts at 0, so init has
\* the same pid as the idle task, which no walk of the list looks at.
BootProc ==
  [next |-> [t \in Tasks |-> IF t = Idle THEN InitTask ELSE Idle],
   pid |-> [t \in Tasks |-> 0],
   parent |-> [t \in Tasks |-> Idle],
   global_pid |-> 1]

\* kernel_thread adds CLONE_VM: init runs in init_mm until do_execve.
BootMem ==
  [mm |-> [t \in Tasks |-> init_mm], space |-> [m \in MmIds |-> NoSpace],
   vfork |-> {InitTask}, used |-> {}]

-----------------------------------------------------------------------------
(* The task list *)

\* The n-th task_struct behind init_task.
hop(p, n) ==
  LET h[i \in 0..n] == IF i = 0 THEN Idle ELSE p.next[h[i - 1]]
  IN  h[n]

\* The tasks the loop in sys_wait4 looks at, in order.
TaskList(p) ==
  LET len == CHOOSE n \in 0..Cardinality(Tasks) :
               /\ n = Cardinality(Tasks) \/ hop(p, n + 1) = Idle
               /\ \A i \in 1..n : hop(p, i) # Idle
  IN  [i \in 1..len |-> hop(p, i)]

\* The position of the first task_struct with the given pid, 0 for none.
find(p, pid) ==
  IF \E i \in 1..Len(TaskList(p)) : p.pid[TaskList(p)[i]] = pid
  THEN CHOOSE i \in 1..Len(TaskList(p)) :
         /\ p.pid[TaskList(p)[i]] = pid
         /\ \A j \in 1..(i - 1) : p.pid[TaskList(p)[j]] # pid
  ELSE 0

\* The assignments of do_fork to the new task_struct t of current.
link(p, t, cur) ==
  [next |-> [p.next EXCEPT ![t] = p.next[Idle], ![Idle] = t],
   pid |-> [p.pid EXCEPT ![t] = p.global_pid],
   parent |-> [p.parent EXCEPT ![t] = cur],
   global_pid |-> p.global_pid + 1]

\* Fault variant: the predecessor still points to the child.
Unlink_Itself(p, tsk, child) == [p EXCEPT !.next[child] = Idle]

\* tsk->next = child->next
unlink(p, tsk, child) == [p EXCEPT !.next[tsk] = p.next[child]]

-----------------------------------------------------------------------------
(* Address spaces; without a free page the code goes on with NULL and faults *)

FreePages(m) == Pages \ m.used
FreeMms(m) == {i \in MmIds : ~m.space[i].used}
least(T) == CHOOSE x \in T : \A y \in T : x <= y
NewMm(m) == least(FreeMms(m))

\* alloc_pages, and the entry of page table mm it is put in.
MapCode(m, mm) ==
  LET p == least(FreePages(m))
  IN  [m EXCEPT !.space[mm].code = p, !.used = @ \cup {p}]

MapBrk(m, mm, i) ==
  LET p == least(FreePages(m))
  IN  [m EXCEPT !.space[mm].brk[i] = p, !.used = @ \cup {p}]

\* kmalloc of an mm_struct and its tables, which become those of t.
AddMm(m, t) ==
  [m EXCEPT !.mm[t] = NewMm(m), !.space[NewMm(m)] = [NoSpace EXCEPT !.used = TRUE]]

\* copy_flags: the flag is set for CLONE_VM and otherwise stays what memcpy copied.
copy_flags(m, t, cur, vm) ==
  [m EXCEPT !.vfork = IF vm \/ cur \in @ THEN @ \cup {t} ELSE @ \ {t}]

\* copy_mm: a new space with a code page and, if the parent ever moved its brk, one
\* page for it, however many the parent has.
copy_mm(m, t, cur, vm) ==
  IF vm THEN [m EXCEPT !.mm[t] = m.mm[cur]]
  ELSE LET from == m.space[m.mm[cur]]
           code == [MapCode(AddMm(m, t), NewMm(m)) EXCEPT !.space[NewMm(m)].end = from.end]
       IN  IF from.end = 0 THEN code ELSE MapBrk(code, NewMm(m), 1)

CopyPages(m, cur) == IF m.space[m.mm[cur]].end = 0 THEN 1 ELSE 2

\* Fault variant: PF_VFORK is not looked at.
ExitMm_Always(m, t) ==
  [m EXCEPT !.used = @ \ {m.space[m.mm[t]].code}, !.space[m.mm[t]] = NoSpace, !.mm[t] = init_mm]

\* exit_mm: the code page is freed and the mm_struct; the pages for brk are not.
exit_mm(m, t) ==
  IF t \in m.vfork THEN [m EXCEPT !.mm[t] = init_mm]
  ELSE [m EXCEPT !.used = @ \ {m.space[m.mm[t]].code}, !.space[m.mm[t]] = NoSpace, !.mm[t] = init_mm]

\* do_execve up to open_exec_file: a task that shares its parent's space gets its own,
\* any other one keeps its own and the pages in it.
ExecMm(m, t) ==
  LET own == IF t \in m.vfork THEN AddMm(m, t) ELSE m
  IN  IF own.space[own.mm[t]].code = NULL THEN MapCode(own, own.mm[t]) ELSE own

\* do_brk from end_brk on: entries that are mapped already stay.
do_brk(m, mm, new) ==
  LET grown[i \in 0..new] ==
        IF i <= m.space[mm].end THEN m
        ELSE IF grown[i - 1].space[mm].end = ENOMEM \/ grown[i - 1].space[mm].brk[i] # NULL THEN grown[i - 1]
        ELSE IF FreePages(grown[i - 1]) = {} THEN [grown[i - 1] EXCEPT !.space[mm].end = ENOMEM]
        ELSE MapBrk(grown[i - 1], mm, i)
  IN  IF grown[new].space[mm].end = ENOMEM THEN grown[new] ELSE [grown[new] EXCEPT !.space[mm].end = new]

-----------------------------------------------------------------------------

Init ==
  /\ kern = S!BootKernel
  /\ proc = BootProc
  /\ mem = BootMem
  /\ frame = [t \in Tasks |-> IF t = InitTask THEN [op |-> "boot"] ELSE NULL]

InUser == frame[kern.current] = NULL

\* init is a kernel thread until do_execve and runs with interrupts on.
Interruptible == frame[kern.current] \in {NULL, [op |-> "boot"]}

\* The unreaped children of t.  A task is older than its children: a younger one
\* merely sits at the address their dead parent had.
Children(t) ==
  {c \in Tasks : kern.state[c] # "NONE" /\ proc.parent[c] = t /\ proc.pid[t] < proc.pid[c]}

\* sys_fork, and sys_vfork with CLONE_VM.
sys_fork(t, vm) ==
  /\ InUser
  /\ kern.current \in Forkers
  /\ Cardinality(Children(kern.current)) < MaxChildren
  /\ proc.global_pid <= MaxPid
  /\ ~vm => FreeMms(mem) # {} /\ Cardinality(FreePages(mem)) >= CopyPages(mem, kern.current)
  /\ S!SysFork(t)
  /\ proc' = link(proc, t, kern.current)
  /\ mem' = copy_mm(copy_flags(mem, t, kern.current, vm), t, kern.current, vm)
  /\ UNCHANGED frame

\* sys_execve sleeps while open_exec_file reads directories.
sys_execve ==
  /\ kern.current # Idle
  /\ Interruptible /\ (InUser => kern.current \notin Forkers)
  /\ kern.current \in mem.vfork => FreePages(mem) # {} /\ FreeMms(mem) # {}
  /\ S!SysTransfer
  /\ mem' = ExecMm(mem, kern.current)
  /\ frame' = [frame EXCEPT ![kern.current] = [op |-> "execve"]]
  /\ UNCHANGED proc

\* It goes on: without the file it returns as it is, except at start-up, where
\* init.bin is there.
ExecReturns(found) ==
  /\ ~InUser /\ frame[kern.current].op = "execve"
  /\ found \/ kern.current # InitTask
  /\ mem' = IF found THEN [mem EXCEPT !.space[mem.mm[kern.current]].end = 0,
                                      !.vfork = @ \ {kern.current}]
            ELSE mem
  /\ frame' = [frame EXCEPT ![kern.current] = NULL]
  /\ UNCHANGED <<kern, proc>>

\* sys_brk: 0 asks for start_brk and a smaller value is ignored.
sys_brk(new) ==
  /\ InUser /\ kern.current # Idle
  /\ new # 0 /\ new >= mem.space[mem.mm[kern.current]].end
  /\ mem' = do_brk(mem, mem.mm[kern.current], new)
  /\ UNCHANGED <<kern, proc, frame>>

\* exit_notify wakes whoever waits on the parent's wait_childexit.
notify_channel(p, t) == p.parent[t]

sys_exit ==
  /\ InUser
  /\ S!SysExit(notify_channel(proc, kern.current))
  /\ UNCHANGED <<proc, mem, frame>>

\* kfree(child): the struct keeps its contents until it is allocated again.
Reap(tsk, child) ==
  /\ kern' = [kern EXCEPT !.state[child] = "NONE"]
  /\ proc' = unlink(proc, tsk, child)
  /\ mem' = exit_mm(mem, child)
  /\ frame' = [frame EXCEPT ![kern.current] = NULL]

\* Fault variants of the test: the zombie is overlooked; any child is taken.
Await_Never(st) == FALSE

Await_Always(st) == TRUE

\* The test before the sleep.
awaited(st) == st = "ZOMBIE"

\* waitpid(pid, &status, 0) for a child; a pid that is not found, or options
\* that are not 0, only return an error.
sys_wait4(pid) ==
  /\ InUser
  /\ kern.current # Idle
  /\ \E c \in Children(kern.current) : proc.pid[c] = pid
  /\ find(proc, pid) # 0
  /\ LET i     == find(proc, pid)
         child == TaskList(proc)[i]
         tsk   == hop(proc, i - 1)
     IN  IF awaited(kern.state[child])
         THEN Reap(tsk, child)
         ELSE /\ S!SysWait(kern.current)
              /\ frame' = [frame EXCEPT ![kern.current] =
                             [op |-> "wait4", child |-> child, tsk |-> tsk]]
              /\ UNCHANGED <<proc, mem>>

\* interruptible_sleep_on returns; state of the child is not tested again.
WaitReturns ==
  /\ ~InUser /\ frame[kern.current].op = "wait4"
  /\ Reap(frame[kern.current].tsk, frame[kern.current].child)

\* Every other kernel entry leaves the processes alone.
OtherEntry ==
  /\ Interruptible
  /\ \/ S!Tick
     \/ S!QuietIrq
     \/ S!SysTransfer
     \/ \E t \in Tasks : S!DiskIrq(t)
     \/ \E c \in DeviceChannels : S!DeviceIrq(c) \/ (InUser /\ S!SysRead(c))
  /\ UNCHANGED <<proc, mem, frame>>

Next ==
  \/ \E t \in Tasks, vm \in BOOLEAN : sys_fork(t, vm)
  \/ sys_execve
  \/ \E found \in BOOLEAN : ExecReturns(found)
  \/ \E new \in 0..MaxBrk : sys_brk(new)
  \/ sys_exit
  \/ \E pid \in 0..MaxPid : sys_wait4(pid)
  \/ WaitReturns
  \/ OtherEntry

Spec == Init /\ [][Next]_vars

-----------------------------------------------------------------------------
(* Properties *)

TypeOK ==
  /\ kern \in KernelType
  /\ proc \in ProcType
  /\ mem \in MemType
  /\ frame \in [Tasks -> Frames \cup {NULL}]

\* All pointers are well typed, and the list behind init_task holds every allocated
\* task_struct once and no freed one, although wait4 unlinks through a pointer it
\* saved before it slept (sys.c:340).
ListExact ==
  /\ TypeOK
  /\ \A i, j \in 1..Len(TaskList(proc)) : TaskList(proc)[i] = TaskList(proc)[j] => i = j
  /\ \A t \in Tasks \ {Idle} :
       Contains(TaskList(proc), t) <=> kern.state[t] # "NONE"

\* wait4 reaps as soon as it is woken.  A waiter is woken by the exit of the child it
\* asked for and by nothing else, and neither an exit before the call nor one during
\* the sleep is missed (sys.c:328, 337).
ExitIsNoticed ==
  \A t \in Tasks :
    frame[t] # NULL /\ frame[t].op = "wait4" =>
      (kern.state[frame[t].child] = "ZOMBIE" <=> kern.state[t] = "RUNNING")

\* The user pages of a space.
Mapped(s) == ({s.code} \cup {s.brk[i] : i \in 1..MaxBrk}) \ {NULL}

\* Whatever order of fork, vfork, exec, brk, exit and wait4: no page is in two
\* spaces, or in one and free; a task that is there has a space that is there; and
\* two tasks have the same space only while one of them is marked PF_VFORK, so that
\* exit_mm never frees the pages of a task that lives on (task.c:288, 513, 570).
AddressSpacesApart ==
  /\ \A m \in MmIds : Mapped(mem.space[m]) \subseteq mem.used
  /\ \A m, n \in MmIds : m # n => Mapped(mem.space[m]) \cap Mapped(mem.space[n]) = {}
  /\ \A t \in Tasks : kern.state[t] # "NONE" =>
       \/ mem.mm[t] = init_mm /\ (t = Idle \/ t \in mem.vfork)
       \/ mem.mm[t] # init_mm /\ mem.space[mem.mm[t]].used
  /\ \A t, u \in Tasks :
       t # u /\ kern.state[t] # "NONE" /\ kern.state[u] # "NONE" /\ mem.mm[t] = mem.mm[u] =>
         t \in mem.vfork \/ u \in mem.vfork

\* The process calls keep to the scheduler's rules: only zombies are freed.
SchedSpec == S!Spec
=============================================================================
