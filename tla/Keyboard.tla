------------------------------ MODULE Keyboard ------------------------------
(***************************************************************************)
(* The keyboard driver of keyboard.c on top of the scheduler: an interrupt *)
(* handler that fills a ring of scan codes and wakes one reader, and       *)
(* keyboard_read, which sleeps at most once when the ring is empty and     *)
(* takes whatever it finds when it runs again.                             *)
(***************************************************************************)
EXTENDS SchedOps, FiniteSets

CONSTANTS InitTask, ExitChannels, MaxVrun, MaxDebt,   \* as in Sched
          keyboard_wait_queue,   \* the channel readers sleep on
          KB_BUF_SIZE,           \* size of the ring (100 in keyboard.h)
          Codes,                 \* scan codes
          ReadSizes,             \* the lengths read() is called with
          MaxTyped,              \* bound on the keys typed between two resets
          MaxUnread              \* bound on the keys typed ahead of the readers

ASSUME KeyboardAssumption ==
  /\ IsFiniteSet(Tasks)
  /\ InitTask \in Tasks \ {Idle}
  /\ ExitChannels \subseteq Channels
  /\ keyboard_wait_queue \in Channels \ ExitChannels
  /\ KB_BUF_SIZE \in Nat \ {0}
  /\ ReadSizes \subseteq Nat \ {0}
  /\ MaxTyped \in Nat /\ MaxUnread \in Nat

VARIABLES kern,           \* the kernel record of SchedOps
          kb,             \* *p_kb; head and tail are offsets into buf
          asked,          \* the count of the keyboard_read a task is in, or 0
          typed,          \* keys typed since the buffer was last reset
          unread,         \* the codes no reader has been given yet
          got,            \* what the last read returned, and what it should have
          halted          \* the kernel stopped in its page-fault handler

vars == <<kern, kb, asked, typed, unread, got, halted>>

S == INSTANCE Sched WITH kern <- kern

\* A byte that is no scan code: never typed, or outside the ring.
Junk == "junk"

KeyboardType ==
  [buf : [0..(KB_BUF_SIZE - 1) -> Codes \cup {Junk}], head : 0..KB_BUF_SIZE,
   tail : Nat, count : Nat]

\* The four assignments open, close, the reset ioctl and keyboard_init share.
reset == [buf |-> [p \in 0..(KB_BUF_SIZE - 1) |-> Junk], head |-> 0, tail |-> 0, count |-> 0]

-----------------------------------------------------------------------------
(* The ring *)

\* keyboard_handler wraps head before it stores, and overwrites unread codes.
put(b, x) ==
  LET h == IF b.head = KB_BUF_SIZE THEN 0 ELSE b.head
  IN  [b EXCEPT !.buf[h] = x, !.count = @ + 1, !.head = h + 1]

byte(b, p) == IF p \in 0..(KB_BUF_SIZE - 1) THEN b.buf[p] ELSE Junk

counter(b, n) == IF b.count >= n THEN n ELSE b.count

room(b) == KB_BUF_SIZE - b.tail

\* The reader's buffer after one copy_to_user, or after the two of a wrapped
\* read: both copies start at buf, and the second one reads from p_head.
copied(b, n) ==
  [i \in 1..counter(b, n) |->
     IF counter(b, n) <= room(b) THEN byte(b, b.tail + i - 1)
     ELSE IF i <= counter(b, n) - room(b) THEN byte(b, b.head + i - 1)
     ELSE IF i <= room(b) THEN byte(b, b.tail + i - 1)
     ELSE Junk]

\* Fault variant: the codes are counted off but not passed over.
Take_KeepTail(b, n) == [b EXCEPT !.count = @ - counter(b, n)]

take(b, n) ==
  [b EXCEPT !.tail = IF counter(b, n) <= room(b) THEN @ + counter(b, n)
                     ELSE b.head + counter(b, n) - room(b),
            !.count = @ - counter(b, n)]

-----------------------------------------------------------------------------

Init ==
  /\ kern = S!BootKernel
  /\ kb = reset
  /\ asked = [t \in Tasks |-> 0]
  /\ typed = 0
  /\ unread = <<>>
  /\ got = [codes |-> <<>>, expect |-> <<>>]
  /\ halted = FALSE

\* The interrupt flag is set: the running task is not inside keyboard_read.
InUser == ~halted /\ asked[kern.current] = 0

\* Fault variants: only the first key in an empty ring wakes a reader; a key wakes
\* two of them.
Wake_FirstKeyOnly(k, b) ==
  IF b.count = 1 THEN wakeup(k, keyboard_wait_queue, "UNINTERRUPTIBLE") ELSE k

Wake_Two(k, b) ==
  wakeup(wakeup(k, keyboard_wait_queue, "UNINTERRUPTIBLE"),
         keyboard_wait_queue, "UNINTERRUPTIBLE")

\* Every key wakes the oldest reader; b is the ring with the key in it.
wake_reader(k, b) == wakeup(k, keyboard_wait_queue, "UNINTERRUPTIBLE")

keyboard_handler(x) ==
  /\ InUser
  /\ typed < MaxTyped
  /\ kb.count < MaxUnread
  /\ kb' = put(kb, x)
  /\ kern' = ret_from_intr(wake_reader(kern, put(kb, x)))
  /\ typed' = typed + 1
  /\ unread' = Append(unread, x)
  /\ UNCHANGED <<asked, got, halted>>

\* The part of keyboard_read after the sleep.  With tail beyond the ring the
\* size of the first copy is negative, a huge unsigned length, and it faults.
Copy(n) ==
  IF room(kb) < 0
  THEN halted' = TRUE /\ UNCHANGED <<kb, asked, unread, got>>
  ELSE /\ asked' = [asked EXCEPT ![kern.current] = 0]
       /\ kb' = take(kb, n)
       /\ got' = [codes |-> copied(kb, n), expect |-> SubSeq(unread, 1, counter(kb, n))]
       /\ unread' = SubSeq(unread, counter(kb, n) + 1, Len(unread))
       /\ UNCHANGED halted

keyboard_read(n) ==
  /\ InUser
  /\ kern.current # Idle
  /\ IF kb.count = 0
     THEN /\ kern' = sleep_on(kern, keyboard_wait_queue, "UNINTERRUPTIBLE")
          /\ asked' = [asked EXCEPT ![kern.current] = n]
          /\ UNCHANGED <<kb, unread, got, halted>>
     ELSE Copy(n) /\ UNCHANGED kern
  /\ UNCHANGED typed

\* sleep_on returns: the reader does not look at count again before it copies.
ReadResumes ==
  /\ ~halted
  /\ asked[kern.current] > 0
  /\ Copy(asked[kern.current])
  /\ UNCHANGED <<kern, typed>>

\* keyboard_open, keyboard_close and keyboard_ioctl(KEY_CMD_RESET_BUFFER).
ResetBuffer ==
  /\ InUser
  /\ kern.current # Idle
  /\ kb' = reset
  /\ typed' = 0
  /\ unread' = <<>>
  /\ got' = [codes |-> <<>>, expect |-> <<>>]
  /\ UNCHANGED <<kern, asked, halted>>

\* Every other kernel entry leaves the driver alone.
OtherEntry ==
  /\ InUser
  /\ \/ S!Tick
     \/ S!QuietIrq
     \/ \E c \in Channels : S!SysWait(c) \/ S!SysExit(c)
     \/ \E t \in Tasks : S!SysFork(t) \/ S!SysReap(t)
  /\ UNCHANGED <<kb, asked, typed, unread, got, halted>>

Halted == halted /\ UNCHANGED vars

Next ==
  \/ \E x \in Codes : keyboard_handler(x)
  \/ \E n \in ReadSizes : keyboard_read(n)
  \/ ReadResumes
  \/ ResetBuffer
  \/ OtherEntry
  \/ Halted

Spec == Init /\ [][Next]_vars

-----------------------------------------------------------------------------
(* Properties *)

TypeOK ==
  /\ kern \in KernelType
  /\ kb \in KeyboardType
  /\ asked \in [Tasks -> ReadSizes \cup {0}]
  /\ typed \in Nat
  /\ unread \in Seq(Codes)
  /\ halted \in BOOLEAN

\* The readers that have been woken and have not run yet.
Woken == {t \in Tasks : asked[t] > 0 /\ kern.state[t] = "RUNNING"}

\* sleep_on is called once, not in a loop, and each key wakes one reader: while
\* a reader still sleeps, at least one woken reader is on its way for every
\* key in the ring, so no reader sleeps on data that nobody will fetch.  And a
\* task sleeps there exactly while it is in keyboard_read and has not been
\* woken, whatever other tasks reset, fork or exit meanwhile.
NoLostWakeup ==
  /\ TypeOK
  /\ kern.wait[keyboard_wait_queue] # <<>> => kb.count <= Cardinality(Woken)
  /\ \A t \in Tasks :
       Contains(kern.wait[keyboard_wait_queue], t)
         <=> asked[t] > 0 /\ kern.state[t] = "UNINTERRUPTIBLE"

\* Until the ring wraps for the first time after a reset, every read returns
\* the oldest unread codes in the order in which they were typed.
FirstLapFifo ==
  typed <= KB_BUF_SIZE => got.codes = got.expect

\* README.md:50: a user reads the keyboard input from KEYBOARD.DEV, that is,
\* every read returns the oldest codes no reader has been given yet.
ReadsKeyboardInput == got.codes = got.expect

\* The driver keeps to the scheduler's rules.
SchedSpec == S!Spec
=============================================================================
