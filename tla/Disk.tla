-------------------------------- MODULE Disk --------------------------------
(***************************************************************************)
(* The IDE driver of disk.c on top of the scheduler: tasks queue transfers *)
(* and sleep, the drive interrupts once per sector, and the interrupt that *)
(* moves the last sector wakes the owner and issues the next command.      *)
(*                                                                         *)
(* Nothing but the cleared interrupt flag keeps the completion interrupt   *)
(* out of the window between submit() and wait_for_finish(), so a system   *)
(* call is one action here as it is in Sched.                              *)
(***************************************************************************)
EXTENDS SchedOps

CONSTANTS InitTask, ExitChannels, MaxVrun, MaxDebt,   \* as in Sched
          MaxCount,       \* the most sectors one transfer asks for
          NULL            \* no request in use

ASSUME DiskAssumption ==
  /\ InitTask \in Tasks \ {Idle}
  /\ ExitChannels \subseteq Channels
  /\ MaxCount \in Nat \ {0}

VARIABLES kern,           \* the kernel record of SchedOps
          disk            \* disk_request and the drive

vars == <<kern, disk>>

S == INSTANCE Sched WITH kern <- kern

Commands == {"READ", "WRITE", "IDENTIFY"}

\* struct block_buffer_node.  slot is the distance of the buffer pointer from
\* the caller's buffer in sectors, want the caller's count; moved pairs the
\* buffer slots with the sectors they exchanged data with, and lost holds the
\* sectors whose data the drive reported an error for.
Nodes ==
  [task : Tasks, cmd : Commands, want : 1..MaxCount, count : 0..MaxCount,
   slot : 0..MaxCount, moved : SUBSET ((0..MaxCount) \X (0..MaxCount)),
   lost : SUBSET (0..MaxCount)]

ASSUME NULLAssumption == NULL \notin Nodes

\* disk_request; the number of interrupts the drive still owes (external); and
\* whether every ended request left its caller's buffer InPlace (an observer).
DiskType ==
  [queue : Seq(Nodes), in_using : Nodes \cup {NULL}, block_request_count : Nat,
   device : 0..MaxCount, intact : BOOLEAN]

disk_init ==
  [queue |-> <<>>, in_using |-> NULL, block_request_count |-> 0, device |-> 0,
   intact |-> TRUE]

-----------------------------------------------------------------------------
(* The request queue *)

make_request(t, cmd, n) ==
  [task |-> t, cmd |-> cmd, want |-> n, count |-> IF cmd = "IDENTIFY" THEN 0 ELSE n,
   slot |-> 0, moved |-> {}, lost |-> {}]

add_request(d, node) ==
  [d EXCEPT !.queue = Append(@, node), !.block_request_count = @ + 1]

\* What the PIO loops exchange: one sector between slot and the drive.
move(node, sector) == [node EXCEPT !.moved = @ \cup {<<node.slot, sector>>}]

\* Fault variant: the request in use stays on the list.
CmdOut_KeepLink(d) ==
  LET node == Head(d.queue)
  IN  [d EXCEPT !.in_using = IF node.cmd = "WRITE" THEN move(node, 0) ELSE node,
                !.block_request_count = @ - 1,
                !.device = node.want]

\* The oldest request goes to the drive; a write hands over its first sector.
cmd_out(d) ==
  LET node == Head(d.queue)
  IN  [d EXCEPT !.in_using = IF node.cmd = "WRITE" THEN move(node, 0) ELSE node,
                !.queue = Tail(@),
                !.block_request_count = @ - 1,
                !.device = node.want]

submit(d, node) ==
  LET d1 == add_request(d, node)
  IN  IF d1.in_using = NULL THEN cmd_out(d1) ELSE d1

\* The first n sectors of the request have been moved, each once and to or from
\* its own place in the buffer, except those the drive failed to read.
InPlace(node, n) == node.moved = {<<s, s>> : s \in (0..(n - 1)) \ node.lost}

\* Fault variant: waiting requests are forgotten.
End_NoNext(d) ==
  [d EXCEPT !.in_using = NULL, !.intact = @ /\ InPlace(d.in_using, d.in_using.want)]

\* end_request without its wakeup, which is wakeup_process of the owner.
end_request(d) ==
  LET d1 == [d EXCEPT !.in_using = NULL,
                      !.intact = @ /\ InPlace(d.in_using, d.in_using.want)]
  IN  IF d1.block_request_count # 0 THEN cmd_out(d1) ELSE d1

-----------------------------------------------------------------------------
(* The interrupt handlers up to end_request; err is DISK_STATUS_ERROR *)

\* Fault variant: the buffer pointer is not advanced.
Read_NoAdvance(node, sector, err) ==
  [IF err THEN [node EXCEPT !.lost = @ \cup {sector}] ELSE move(node, sector)
     EXCEPT !.count = @ - 1]

read_handler(node, sector, err) ==
  [IF err THEN [node EXCEPT !.lost = @ \cup {sector}] ELSE move(node, sector)
     EXCEPT !.count = @ - 1,
            !.slot = IF node.count = 1 THEN @ ELSE @ + 1]

\* The drive acknowledges sector; the next one, if any, is handed over.
write_handler(node, sector) ==
  IF node.count = 1 THEN [node EXCEPT !.count = 0]
  ELSE move([node EXCEPT !.count = @ - 1, !.slot = @ + 1], sector + 1)

other_handler(node, sector, err) ==
  IF err THEN [node EXCEPT !.lost = @ \cup {sector}] ELSE move(node, sector)

disk_handler(d, err) ==
  LET node   == d.in_using
      sector == node.want - d.device
  IN  [d EXCEPT !.device = @ - 1,
                !.in_using = CASE node.cmd = "READ" -> read_handler(node, sector, err)
                               [] node.cmd = "WRITE" -> write_handler(node, sector)
                               [] node.cmd = "IDENTIFY" -> other_handler(node, sector, err)]

\* Fault variant: every interrupt ends the request.
Finished_Always(node) == TRUE

\* The handlers call end_request when count has reached 0.
finished(node) == node.count = 0

-----------------------------------------------------------------------------

Init ==
  /\ kern = S!BootKernel
  /\ disk = disk_init

\* IDE_transfer, and IDE_ioctl for IDENTIFY.
IDE_transfer(cmd, n) ==
  /\ kern.current # Idle
  /\ cmd = "IDENTIFY" => n = 1
  /\ disk' = submit(disk, make_request(kern.current, cmd, n))
  /\ kern' = wait_for_finish(kern)

DiskIrq(err) ==
  /\ disk.device > 0
  /\ LET d == disk_handler(disk, err)
     IN  \/ /\ ~finished(d.in_using)
            /\ disk' = d
            /\ kern' = ret_from_intr(kern)
         \/ /\ finished(d.in_using)
            /\ disk' = end_request(d)
            /\ kern' = ret_from_intr(wakeup_process(kern, d.in_using.task))

\* Every other kernel entry leaves the driver alone.
OtherEntry ==
  /\ \/ S!Tick
     \/ S!QuietIrq
     \/ \E c \in Channels : S!DeviceIrq(c) \/ S!SysRead(c) \/ S!SysWait(c) \/ S!SysExit(c)
     \/ \E t \in Tasks : S!SysFork(t) \/ S!SysReap(t)
  /\ UNCHANGED disk

Next ==
  \/ \E cmd \in Commands, n \in 1..MaxCount : IDE_transfer(cmd, n)
  \/ \E err \in BOOLEAN : DiskIrq(err)
  \/ OtherEntry

Spec == Init /\ [][Next]_vars

\* The drive answers every command, and interrupts are on outside the kernel.
FairSpec == Spec /\ WF_vars(\E err \in BOOLEAN : DiskIrq(err))

-----------------------------------------------------------------------------
(* Properties *)

TypeOK ==
  /\ kern \in KernelType
  /\ disk \in DiskType

\* disk_handler dereferences in_using unchecked.  Whenever the drive owes an
\* interrupt there is a request in use, it is the one the drive works on (the
\* interrupts owed are the sectors it counts), and the drive is never idle
\* while a request waits.
InterruptHasOwner ==
  /\ TypeOK
  /\ IF disk.in_using = NULL
     THEN disk.device = 0 /\ disk.queue = <<>>
     ELSE disk.device = IF disk.in_using.cmd = "IDENTIFY" THEN 1 ELSE disk.in_using.count

\* The requests not yet ended, the one in use first.
Requests(d) == (IF d.in_using = NULL THEN <<>> ELSE <<d.in_using>>) \o d.queue

Pending(d) == [i \in 1..Len(Requests(d)) |-> Requests(d)[i].task]

\* The tasks that sleep for the disk are exactly the owners of requests, one
\* request each, and block_request_count counts the waiting ones.  With it no
\* wakeup is lost and none is given to a task that does not wait for it.
SleepersOwnRequests ==
  /\ disk.block_request_count = Len(disk.queue)
  /\ \A i, j \in 1..Len(Pending(disk)) : Pending(disk)[i] = Pending(disk)[j] => i = j
  /\ \A t \in Tasks : OnDisk(kern, t) <=> Contains(Pending(disk), t)

\* A transfer of several sectors moves every sector once, to or from its own
\* place in the caller's buffer, except those the drive failed to read: as far
\* as the drive has come while it lasts, and all of them when it has ended.
SectorsInPlace ==
  /\ \A i \in 1..Len(disk.queue) : InPlace(disk.queue[i], 0)
  /\ disk.in_using # NULL =>
       InPlace(disk.in_using, disk.in_using.want - disk.device
                                + IF disk.in_using.cmd = "WRITE" THEN 1 ELSE 0)
  /\ disk.intact

\* The driver keeps to the scheduler's rules: it wakes only tasks that wait
\* for the disk, so each of its steps is a step of Sched.
SchedSpec == S!Spec

Q == INSTANCE BlockQueue WITH pending <- Pending(disk)

\* Every task that waits for a transfer is made runnable again, however many
\* requests are queued and whatever errors the drive reports.
TransfersEnd ==
  \A t \in Tasks : OnDisk(kern, t) ~> kern.state[t] = "RUNNING"

\* The driver implements BlockQueue: requests are served first come, first
\* served, and each is served in the end.
ImplementsBlockQueue == Q!Spec
=============================================================================
