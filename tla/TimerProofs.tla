---------------------------- MODULE TimerProofs -----------------------------
(***************************************************************************)
(* Proofs about Timer: a program never runs on with a soft interrupt       *)
(* pending or with a due timer at the front, and no timer is dropped,      *)
(* although activations unlink timers that are gone and tasks lose the     *)
(* processor while their activations stand anywhere.                       *)
(***************************************************************************)
EXTENDS Timer, SequenceTheorems, WellFoundedInduction, TLAPS

\* A set of naturals that is not empty has a least element.
LEMMA LeastNat ==
  ASSUME NEW T, T \subseteq Nat, T # {}
  PROVE  \E x \in T : \A y \in T : x <= y
<1>1. PICK x \in T : \A y \in T : ~(<<y, x>> \in OpToRel(<, Nat))
  BY WFMin, NatLessThanWellFounded, Zenon
<1>2. \A y \in T : ~(y < x)
  BY <1>1 DEF OpToRel
<1> QED
  BY <1>2

-----------------------------------------------------------------------------
(* The activations of all tasks *)

Frame == [pc : Places, tmp : Nodes]
FramesType == [Tasks -> Seq(Frame)]

\* The activations on the stacks fr, in no order.
Acts(fr) == {e \in Frame : \E c \in Tasks : \E k \in 1..Len(fr[c]) : fr[c][k] = e}

\* The innermost activation on the stack r is e.
Innermost(r, e) == Len(r) \in Nat \ {0} /\ r[Len(r)] = e

\* The activation old of F is e in F2.
Replaced(F, F2, old, e) ==
  /\ F \subseteq Frame /\ F2 \subseteq Frame /\ old \in F /\ e \in F2
  /\ F2 \subseteq F \cup {e} /\ F \ {old} \subseteq F2

\* Assigning to the innermost activation of the running task.
LEMMA BecomeTop ==
  ASSUME frames \in FramesType, current \in Tasks, Running # <<>>, NEW e \in Frame, Become(e)
  PROVE  /\ frames' \in FramesType /\ current' = current /\ need_schedule' = need_schedule
         /\ Innermost(Running, Last(Running)) /\ Last(Running) \in Frame
         /\ Innermost(frames'[current], e)
         /\ Replaced(Acts(frames), Acts(frames'), Last(Running), e)
<1>1. PICK r : r = frames[current] /\ r \in Seq(Frame) /\ r # <<>>
  BY DEF FramesType, Running
<1>2. Len(r) \in Nat \ {0} /\ Len(r) \in 1..Len(r) /\ r \in [1..Len(r) -> Frame] /\ Last(Running) = r[Len(r)]
  <2>1. Len(r) \in Nat \ {0} /\ r \in [1..Len(r) -> Frame]
    BY <1>1, EmptySeq
  <2>2. Last(Running) = r[Len(r)]
    BY <1>1 DEF Running, Last
  <2> QED BY <2>1, <2>2
<1>3. PICK r2 : r2 = [r EXCEPT ![Len(r)] = e]
  OBVIOUS
<1>4. /\ r2 \in Seq(Frame) /\ Len(r2) = Len(r)
      /\ \A k \in 1..Len(r) : r2[k] = IF k = Len(r) THEN e ELSE r[k]
  <2>1. r2 \in Seq(Frame) /\ Len(r2) = Len(r)
    BY <1>1, <1>2, <1>3, ExceptSeq
  <2> QED BY <1>2, <1>3, <2>1
<1>5. frames' = [frames EXCEPT ![current] = r2] /\ current' = current /\ need_schedule' = need_schedule
  BY <1>1, <1>3 DEF Become, Running
<1>6. frames' \in FramesType /\ frames'[current] = r2 /\ \A c \in Tasks : c # current => frames'[c] = frames[c]
  BY <1>4, <1>5 DEF FramesType
<1>7. Innermost(Running, Last(Running)) /\ Innermost(frames'[current], e) /\ Last(Running) \in Frame
  BY <1>1, <1>2, <1>4, <1>6 DEF Innermost, Running
<1>8. Last(Running) \in Acts(frames)
  BY <1>1, <1>2, <1>7 DEF Acts
<1>9. e \in Acts(frames')
  BY <1>2, <1>4, <1>6 DEF Acts
<1>10. ASSUME NEW d \in Acts(frames') PROVE d \in Acts(frames) \cup {e}
  <2>1. PICK c \in Tasks : \E k \in 1..Len(frames'[c]) : frames'[c][k] = d
    BY DEF Acts
  <2>2. PICK k \in 1..Len(frames'[c]) : frames'[c][k] = d
    BY <2>1
  <2>3. CASE c = current
    <3>1. d = e \/ (k \in 1..Len(r) /\ d = r[k])
      BY <1>4, <1>6, <2>2, <2>3
    <3> QED BY <1>1, <2>3, <3>1 DEF Acts
  <2>4. CASE c # current
    BY <1>6, <2>2, <2>4 DEF Acts
  <2> QED BY <2>3, <2>4
<1>11. ASSUME NEW d \in Acts(frames), d # Last(Running) PROVE d \in Acts(frames')
  <2>1. PICK c \in Tasks : \E k \in 1..Len(frames[c]) : frames[c][k] = d
    BY DEF Acts
  <2>2. PICK k \in 1..Len(frames[c]) : frames[c][k] = d
    BY <2>1
  <2>3. d \in Frame
    BY DEF Acts
  <2>4. CASE c = current
    <3>1. k \in 1..Len(r) /\ r[k] = d /\ k # Len(r)
      BY <1>1, <1>2, <1>11, <2>2, <2>4
    <3>2. k \in 1..Len(r2) /\ r2[k] = d
      BY <1>4, <3>1
    <3> QED BY <1>6, <2>3, <3>2 DEF Acts
  <2>5. CASE c # current
    BY <1>6, <2>2, <2>3, <2>5 DEF Acts
  <2> QED BY <2>4, <2>5
<1>12. Replaced(Acts(frames), Acts(frames'), Last(Running), e)
  <2>1. Acts(frames) \subseteq Frame /\ Acts(frames') \subseteq Frame
    BY DEF Acts
  <2> QED BY <1>8, <1>9, <1>10, <1>11, <2>1 DEF Replaced
<1> QED
  BY <1>5, <1>6, <1>7, <1>12

\* A further activation.
LEMMA PushTop ==
  ASSUME frames \in FramesType, current \in Tasks,
         NEW fr2, fr2 = [frames EXCEPT ![current] = Append(@, Activation)]
  PROVE  /\ fr2 \in FramesType /\ Innermost(fr2[current], Activation)
         /\ Activation \in Frame /\ Acts(fr2) = Acts(frames) \cup {Activation}
<1>1. Activation \in Frame
  BY DEF Activation, Frame, Places, Nodes
<1>2. PICK r : r = frames[current] /\ r \in Seq(Frame)
  BY DEF FramesType
<1>3. PICK r2 : r2 = Append(r, Activation)
  OBVIOUS
<1>4. /\ r2 \in Seq(Frame) /\ Len(r) \in Nat /\ Len(r2) = Len(r) + 1
      /\ \A k \in 1..Len(r2) : r2[k] = IF k = Len(r2) THEN Activation ELSE r[k]
  BY <1>1, <1>2, <1>3
<1>5. fr2 \in FramesType /\ fr2[current] = r2 /\ \A c \in Tasks : c # current => fr2[c] = frames[c]
  BY <1>2, <1>3, <1>4 DEF FramesType
<1>6. Innermost(fr2[current], Activation)
  BY <1>4, <1>5 DEF Innermost
<1>7. ASSUME NEW d \in Acts(fr2) PROVE d \in Acts(frames) \cup {Activation}
  <2>1. PICK c \in Tasks : \E k \in 1..Len(fr2[c]) : fr2[c][k] = d
    BY DEF Acts
  <2>2. PICK k \in 1..Len(fr2[c]) : fr2[c][k] = d
    BY <2>1
  <2>3. CASE c = current
    <3>1. d = Activation \/ (k \in 1..Len(r) /\ d = r[k])
      BY <1>4, <1>5, <2>2, <2>3
    <3> QED BY <1>2, <2>3, <3>1 DEF Acts
  <2>4. CASE c # current
    BY <1>5, <2>2, <2>4 DEF Acts
  <2> QED BY <2>3, <2>4
<1>8. ASSUME NEW d \in Acts(frames) PROVE d \in Acts(fr2)
  <2>1. PICK c \in Tasks : \E k \in 1..Len(frames[c]) : frames[c][k] = d
    BY DEF Acts
  <2>2. PICK k \in 1..Len(frames[c]) : frames[c][k] = d
    BY <2>1
  <2>3. d \in Frame
    BY DEF Acts
  <2>4. CASE c = current
    <3>1. k \in 1..Len(r2) /\ r2[k] = d
      BY <1>2, <1>4, <2>2, <2>4
    <3> QED BY <1>5, <2>3, <3>1 DEF Acts
  <2>5. CASE c # current
    BY <1>5, <2>2, <2>3, <2>5 DEF Acts
  <2> QED BY <2>4, <2>5
<1>9. Activation \in Acts(fr2)
  <2>1. Len(r2) \in 1..Len(r2) /\ r2[Len(r2)] = Activation
    BY <1>4
  <2> QED BY <1>1, <1>5, <2>1 DEF Acts
<1> QED
  BY <1>1, <1>5, <1>6, <1>7, <1>8, <1>9

\* The innermost activation old ends.
LEMMA PopTop ==
  ASSUME frames \in FramesType, current \in Tasks, Running # <<>>,
         NEW fr2, fr2 = [frames EXCEPT ![current] = Front(@)]
  PROVE  /\ fr2 \in FramesType /\ Last(Running) \in Acts(frames)
         /\ Innermost(Running, Last(Running))
         /\ Acts(fr2) \subseteq Acts(frames) /\ Acts(frames) \ {Last(Running)} \subseteq Acts(fr2)
<1>1. PICK r : r = frames[current] /\ r \in Seq(Frame) /\ r # <<>>
  BY DEF FramesType, Running
<1>2. PICK n : n = Len(r) - 1
  OBVIOUS
<1>3. Len(r) \in Nat \ {0} /\ n \in Nat /\ Len(r) = n + 1 /\ \A i \in 1..Len(r) : r[i] \in Frame
  BY <1>1, <1>2, EmptySeq
<1>4. Last(Running) = r[Len(r)] /\ Innermost(Running, Last(Running))
  BY <1>1, <1>3 DEF Running, Last, Innermost
<1>5. PICK r2 : r2 = SubSeq(r, 1, n)
  OBVIOUS
<1>6. Front(r) = r2
  BY <1>1, <1>2, <1>5 DEF Front
<1>7. r2 \in Seq(Frame) /\ Len(r2) = n /\ \A i \in 1..n : r2[i] = r[i]
  <2>1. 1 \in Int /\ n \in Nat /\ \A i \in 1..n : r[i] \in Frame
    BY <1>3
  <2>3. /\ r2 \in Seq(Frame) /\ Len(r2) = IF 1 <= n THEN n - 1 + 1 ELSE 0
        /\ \A i \in 1..(n - 1 + 1) : r2[i] = r[1 + i - 1]
    BY <1>5, <2>1, SubSeqProperties
  <2>4. Len(r2) = n /\ n - 1 + 1 = n /\ \A i \in Int : 1 + i - 1 = i
    BY <2>1, <2>3
  <2> QED BY <2>3, <2>4
<1>8. fr2 \in FramesType /\ fr2[current] = r2 /\ \A c \in Tasks : c # current => fr2[c] = frames[c]
  BY <1>1, <1>6, <1>7 DEF FramesType
<1>9. Last(Running) \in Acts(frames)
  BY <1>1, <1>3, <1>4 DEF Acts
<1>10. ASSUME NEW d \in Acts(fr2) PROVE d \in Acts(frames)
  <2>1. PICK c \in Tasks : \E k \in 1..Len(fr2[c]) : fr2[c][k] = d
    BY DEF Acts
  <2>2. PICK k \in 1..Len(fr2[c]) : fr2[c][k] = d
    BY <2>1
  <2>3. d \in Frame
    BY DEF Acts
  <2>4. CASE c = current
    <3>1. k \in 1..Len(r) /\ d = r[k]
      BY <1>3, <1>7, <1>8, <2>2, <2>4
    <3> QED BY <1>1, <2>3, <2>4, <3>1 DEF Acts
  <2>5. CASE c # current
    BY <1>8, <2>2, <2>3, <2>5 DEF Acts
  <2> QED BY <2>4, <2>5
<1>11. ASSUME NEW d \in Acts(frames), d # Last(Running) PROVE d \in Acts(fr2)
  <2>1. PICK c \in Tasks : \E k \in 1..Len(frames[c]) : frames[c][k] = d
    BY DEF Acts
  <2>2. PICK k \in 1..Len(frames[c]) : frames[c][k] = d
    BY <2>1
  <2>3. d \in Frame
    BY DEF Acts
  <2>4. CASE c = current
    <3>1. k \in 1..Len(r) /\ r[k] = d /\ k # Len(r)
      BY <1>1, <1>4, <1>11, <2>2, <2>4
    <3>2. k \in 1..Len(r2) /\ r2[k] = d
      BY <1>3, <1>7, <3>1
    <3> QED BY <1>8, <2>3, <3>2 DEF Acts
  <2>5. CASE c # current
    BY <1>8, <2>2, <2>3, <2>5 DEF Acts
  <2> QED BY <2>4, <2>5
<1> QED
  BY <1>4, <1>8, <1>9, <1>10, <1>11

-----------------------------------------------------------------------------
(* The list while activations stand in it *)

\* Position i of the ring s: the head is at both ends.
Node(s, i) == IF i \in 1..Len(s) THEN s[i] ELSE ListHead

\* s is the list as timer_init made it.  The list now begins at f; activations have
\* come as far as g, and all prev pointers up to m name the head.  Unlinking a timer
\* again, which is gone, takes f back.
Chain(l, s, f, g, m) ==
  /\ s \in Seq(Timers) /\ \A i, k \in 1..Len(s) : s[i] = s[k] => i = k
  /\ g \in 1..(Len(s) + 1) /\ f \in 1..g /\ m \in 1..(Len(s) + 1) /\ m \in {g, g + 1}
  /\ l.next[ListHead] = Node(s, f)
  /\ \A i \in 1..Len(s) : l.next[s[i]] = Node(s, i + 1)
  /\ \A i \in 1..(Len(s) + 1) : l.prev[Node(s, i)] = IF i <= m THEN ListHead ELSE s[i - 1]

\* What activation e may rely on; x is expect, j is jiffies.
FrameOK(e, x, j, s, g, m) ==
  /\ e.pc \in {"empty", "due"} => \E i \in 1..g : e.tmp = Node(s, i)
  /\ e.pc = "del_prev" => \E i \in 1..g : i <= Len(s) /\ e.tmp = s[i] /\ x[s[i]] <= j
  /\ e.pc = "del_next" =>
       \E i \in 1..g : i <= Len(s) /\ i + 1 <= m /\ e.tmp = s[i] /\ x[s[i]] <= j
  /\ e.pc = "func" => \E i \in 1..(g - 1) : e.tmp = s[i]

\* Some activation in F is at p with timer t.
Holding(F, p, t) == \E e \in F : e.pc = p /\ e.tmp = t

\* The timers before g have run, or are about to, those from g on have not.
Stack(x, j, F, a, s, g, m) ==
  /\ \A e \in F : FrameOK(e, x, j, s, g, m)
  /\ \A i \in 1..(g - 1) : x[s[i]] <= j /\ (s[i] \in a => Holding(F, "func", s[i]))
  /\ \A i \in g..Len(s) : s[i] \in a
  /\ \A t \in a : \E i \in 1..Len(s) : s[i] = t
  /\ m = g + 1 => Holding(F, "del_next", s[g])

\* Activation e will move the beginning of the list up to g.
Live(e, s, g) ==
  \/ e.pc \in {"func", "load"}
  \/ e.pc \in {"empty", "due", "del_prev", "del_next"} /\ \E i \in 1..(g - 1) : e.tmp = s[i]

Relinked(F, s, f, g) == f # g => \E e \in F : Live(e, s, g)

\* The timer activations have come to is not due.
Ahead(x, j, s, g) == g <= Len(s) => x[s[g]] > j

\* A bit is pending only while the innermost activation on the running stack r is
\* bound to test it again; st is softirq_status.
TopOK(x, j, st, r, s, g) ==
  /\ ~st => Ahead(x, j, s, g)
  /\ \A e : Innermost(r, e) /\ e.pc = "clear" => Ahead(x, j, s, g)
  /\ st => \E e : Innermost(r, e) /\ e.pc \notin {"rest", "end"}

ListType == [next : [Nodes -> Nodes], prev : [Nodes -> Nodes]]

\* The nodes of a ring.
LEMMA NodeFacts ==
  ASSUME NEW s \in Seq(Timers)
  PROVE  /\ Len(s) \in Nat
         /\ \A i \in 1..Len(s) : s[i] \in Timers /\ s[i] # ListHead /\ s[i] \in Nodes
         /\ \A i \in Int : Node(s, i) \in Nodes
         /\ \A i \in Int : i \notin 1..Len(s) => Node(s, i) = ListHead
         /\ \A i \in 1..Len(s) : Node(s, i) = s[i]
         /\ ListHead \in Nodes
<1>1. Len(s) \in Nat /\ \A i \in 1..Len(s) : s[i] \in Timers
  OBVIOUS
<1> QED
  BY <1>1, TimerAssumption DEF Node, Nodes

\* No node is at two positions of the ring.
LEMMA NodeInjective ==
  ASSUME NEW s \in Seq(Timers), \A i, k \in 1..Len(s) : s[i] = s[k] => i = k,
         NEW i \in 1..(Len(s) + 1), NEW k \in 1..(Len(s) + 1), Node(s, i) = Node(s, k)
  PROVE  i = k
<1>1. \A n \in 1..(Len(s) + 1) : n \in 1..Len(s) \/ n = Len(s) + 1
  BY NodeFacts
<1>2. Len(s) + 1 \notin 1..Len(s) /\ Len(s) + 1 \in Int
  BY NodeFacts
<1> QED
  BY <1>1, <1>2, NodeFacts

\* A witness that does not move stays.
LEMMA HoldingKept ==
  ASSUME NEW F, NEW F2, NEW old, NEW e, Replaced(F, F2, old, e), NEW p, NEW t,
         Holding(F, p, t), old.pc # p \/ old.tmp # t
  PROVE  Holding(F2, p, t)
  BY DEF Replaced, Holding

\* A move that leaves the list alone.
LEMMA Moves ==
  ASSUME NEW x, NEW j, NEW F, NEW a, NEW s, NEW g, NEW m, Stack(x, j, F, a, s, g, m),
         NEW F2, NEW old, NEW e, Replaced(F, F2, old, e), old.pc \notin {"del_next", "func"},
         FrameOK(e, x, j, s, g, m)
  PROVE  Stack(x, j, F2, a, s, g, m)
<1>1. \A d \in F2 : FrameOK(d, x, j, s, g, m)
  BY DEF Stack, Replaced
<1>2. \A p \in {"del_next", "func"} : \A t : Holding(F, p, t) => Holding(F2, p, t)
  BY HoldingKept
<1> QED
  BY <1>1, <1>2 DEF Stack

\* Activations at other places rely on nothing.
LEMMA FreePlace ==
  ASSUME NEW e, e.pc \in {"while", "first", "load", "clear", "rest", "end"}, NEW x, NEW j, NEW s, NEW g, NEW m
  PROVE  FrameOK(e, x, j, s, g, m)
  BY DEF FrameOK

\* A further activation.
LEMMA Pushes ==
  ASSUME NEW x, NEW j, NEW F, NEW a, NEW s, NEW g, NEW m, Stack(x, j, F, a, s, g, m),
         NEW F2, F2 = F \cup {Activation}
  PROVE  Stack(x, j, F2, a, s, g, m)
<1>1. FrameOK(Activation, x, j, s, g, m)
  BY FreePlace DEF Activation
<1>2. \A p, t : Holding(F, p, t) => Holding(F2, p, t)
  BY DEF Holding
<1> QED
  BY <1>1, <1>2 DEF Stack

\* The activation old ends.
LEMMA Pops ==
  ASSUME NEW x, NEW j, NEW F, NEW a, NEW s, NEW g, NEW m, Stack(x, j, F, a, s, g, m),
         NEW F2, NEW old, F2 \subseteq F, F \ {old} \subseteq F2, old.pc = "end"
  PROVE  Stack(x, j, F2, a, s, g, m)
<1>1. \A p \in {"del_next", "func"} : \A t : Holding(F, p, t) => Holding(F2, p, t)
  BY DEF Holding
<1> QED
  BY <1>1 DEF Stack

\* The list still begins in the right place, or some activation will see to it.
LEMMA RelinkedKept ==
  ASSUME NEW F, NEW s, NEW f, NEW g, Relinked(F, s, f, g), NEW F2, NEW old, F \ {old} \subseteq F2,
         f # g => (Live(old, s, g) => \E e \in F2 : Live(e, s, g))
  PROVE  Relinked(F2, s, f, g)
<1> SUFFICES ASSUME f # g PROVE \E e \in F2 : Live(e, s, g)
  BY DEF Relinked
<1>1. PICK d \in F : Live(d, s, g)
  BY DEF Relinked
<1> QED
  BY <1>1

\* Time passes.
LEMMA Later ==
  ASSUME NEW x \in [Nodes -> Nat], NEW j \in Nat, NEW F, NEW a, NEW s \in Seq(Timers),
         NEW g \in 1..(Len(s) + 1), NEW m, Stack(x, j, F, a, s, g, m)
  PROVE  Stack(x, j + 1, F, a, s, g, m)
<1>1. \A i \in 1..Len(s) : x[s[i]] <= j => x[s[i]] <= j + 1
  <2>1. \A i \in 1..Len(s) : s[i] \in Nodes
    BY NodeFacts
  <2>2. \A n \in Nodes : x[n] <= j => x[n] <= j + 1
    <3>1. \A n \in Nodes : x[n] \in Nat
      OBVIOUS
    <3>2. \A y \in Nat : y <= j => y <= j + 1
      OBVIOUS
    <3> QED BY <3>1, <3>2, Zenon
  <2> QED BY <2>1, <2>2, Zenon
<1>2. ASSUME NEW e \in F PROVE FrameOK(e, x, j + 1, s, g, m)
  <2>1. FrameOK(e, x, j, s, g, m)
    BY DEF Stack
  <2>2. \A i \in 1..g : i <= Len(s) => i \in 1..Len(s)
    BY NodeFacts
  <2> QED BY <1>1, <2>1, <2>2 DEF FrameOK
<1>3. \A i \in 1..(g - 1) : i \in 1..Len(s)
  BY NodeFacts
<1> QED
  BY <1>1, <1>2, <1>3 DEF Stack

-----------------------------------------------------------------------------
(* do_timer unlinks a timer, which may be gone already *)

\* list_del's first statement: the next node's prev names the head.
LEMMA UnlinkPrev ==
  ASSUME NEW l \in ListType, NEW s, NEW f, NEW g, NEW m, Chain(l, s, f, g, m),
         NEW i \in 1..g, i <= Len(s), NEW l2, l2 = del_prev(l, s[i]),
         NEW m2, m2 = IF i + 1 <= m THEN m ELSE i + 1
  PROVE  l2 \in ListType /\ Chain(l2, s, f, g, m2) /\ i + 1 <= m2 /\ m <= m2 /\ (m2 # m => i = g)
<1>0. /\ s \in Seq(Timers) /\ Len(s) \in Nat /\ g \in 1..(Len(s) + 1) /\ f \in 1..g
      /\ m \in 1..(Len(s) + 1) /\ m \in {g, g + 1} /\ i \in 1..Len(s)
      /\ \A a, b \in 1..Len(s) : s[a] = s[b] => a = b
      /\ l.next[ListHead] = Node(s, f) /\ \A a \in 1..Len(s) : l.next[s[a]] = Node(s, a + 1)
      /\ \A a \in 1..(Len(s) + 1) : l.prev[Node(s, a)] = IF a <= m THEN ListHead ELSE s[a - 1]
  <2>1. s \in Seq(Timers)
    BY DEF Chain
  <2>2. Len(s) \in Nat
    BY <2>1, NodeFacts
  <2> QED BY <2>1, <2>2 DEF Chain
<1>1. /\ m2 \in 1..(Len(s) + 1) /\ m2 \in {g, g + 1} /\ i + 1 <= m2 /\ m <= m2 /\ (m2 # m => i = g)
      /\ i \in 1..(Len(s) + 1) /\ i + 1 \in 1..(Len(s) + 1) /\ i <= m
      /\ \A a \in 1..(Len(s) + 1) : (IF a <= m2 THEN a <= m \/ a = i + 1 ELSE ~(a <= m) /\ a # i + 1)
  BY <1>0
<1>2. l.next[s[i]] = Node(s, i + 1) /\ l.prev[s[i]] = ListHead /\ s[i] \in Nodes /\ Node(s, i + 1) \in Nodes
  <2>1. Node(s, i) = s[i] /\ s[i] \in Nodes /\ Node(s, i + 1) \in Nodes
    BY <1>0, NodeFacts
  <2> QED BY <1>0, <1>1, <2>1
<1>3. /\ l2 \in ListType /\ l2.next = l.next
      /\ \A n \in Nodes : l2.prev[n] = IF n = Node(s, i + 1) THEN ListHead ELSE l.prev[n]
  <2>1. l2 = [l EXCEPT !.prev = [l.prev EXCEPT ![Node(s, i + 1)] = ListHead]]
    BY <1>2 DEF del_prev
  <2>2. ListHead \in Nodes
    BY DEF Nodes
  <2>3. [l.prev EXCEPT ![Node(s, i + 1)] = ListHead] \in [Nodes -> Nodes]
    BY <2>2 DEF ListType
  <2> QED BY <1>2, <2>1, <2>3 DEF ListType
<1>4. ASSUME NEW a \in 1..(Len(s) + 1)
      PROVE  l2.prev[Node(s, a)] = IF a <= m2 THEN ListHead ELSE s[a - 1]
  <2>1. Node(s, a) \in Nodes
    BY <1>0, NodeFacts
  <2>2. Node(s, a) = Node(s, i + 1) => a = i + 1
    <3>1. /\ s \in Seq(Timers) /\ \A b, c \in 1..Len(s) : s[b] = s[c] => b = c
          /\ a \in 1..(Len(s) + 1) /\ i + 1 \in 1..(Len(s) + 1)
      BY <1>0, <1>1
    <3> QED BY <3>1, NodeInjective, Zenon
  <2>3. l2.prev[Node(s, a)] = IF Node(s, a) = Node(s, i + 1) THEN ListHead ELSE l.prev[Node(s, a)]
    BY <1>3, <2>1, Zenon
  <2>4. l2.prev[Node(s, a)] = IF a = i + 1 THEN ListHead ELSE l.prev[Node(s, a)]
    BY <2>2, <2>3, Zenon
  <2>5. l.prev[Node(s, a)] = IF a <= m THEN ListHead ELSE s[a - 1]
    BY <1>0
  <2>6. IF a <= m2 THEN a <= m \/ a = i + 1 ELSE ~(a <= m) /\ a # i + 1
    BY <1>1
  <2> QED BY <2>4, <2>5, <2>6, Zenon
<1>5. Chain(l2, s, f, g, m2)
  BY <1>0, <1>1, <1>3, <1>4 DEF Chain
<1> QED
  BY <1>1, <1>3, <1>5

\* Its second: the list begins behind the timer, also if that was gone.
LEMMA UnlinkNext ==
  ASSUME NEW l \in ListType, NEW s, NEW f, NEW g, NEW m, Chain(l, s, f, g, m),
         NEW i \in 1..g, i <= Len(s), i + 1 <= m, NEW l2, l2 = del_next(l, s[i]),
         NEW g2, g2 = IF i = g THEN g + 1 ELSE g
  PROVE  l2 \in ListType /\ Chain(l2, s, i + 1, g2, m)
<1>0. /\ s \in Seq(Timers) /\ Len(s) \in Nat /\ g \in 1..(Len(s) + 1) /\ f \in 1..g
      /\ m \in 1..(Len(s) + 1) /\ m \in {g, g + 1} /\ i \in 1..Len(s)
      /\ \A a, b \in 1..Len(s) : s[a] = s[b] => a = b
      /\ l.next[ListHead] = Node(s, f) /\ \A a \in 1..Len(s) : l.next[s[a]] = Node(s, a + 1)
      /\ \A a \in 1..(Len(s) + 1) : l.prev[Node(s, a)] = IF a <= m THEN ListHead ELSE s[a - 1]
  <2>1. s \in Seq(Timers)
    BY DEF Chain
  <2>2. Len(s) \in Nat
    BY <2>1, NodeFacts
  <2> QED BY <2>1, <2>2 DEF Chain
<1>1. /\ g2 \in 1..(Len(s) + 1) /\ i + 1 \in 1..g2 /\ m \in {g2, g2 + 1}
      /\ i \in 1..(Len(s) + 1) /\ i <= m
  BY <1>0
<1>2. /\ l.next[s[i]] = Node(s, i + 1) /\ l.prev[s[i]] = ListHead /\ s[i] \in Nodes
      /\ Node(s, i + 1) \in Nodes /\ ListHead \in Nodes
      /\ \A a \in 1..Len(s) : s[a] \in Nodes /\ s[a] # ListHead
  <2>1. /\ Node(s, i) = s[i] /\ s[i] \in Nodes /\ Node(s, i + 1) \in Nodes /\ ListHead \in Nodes
        /\ \A a \in 1..Len(s) : s[a] \in Nodes /\ s[a] # ListHead
    BY <1>0, NodeFacts
  <2> QED BY <1>0, <1>1, <2>1
<1>3. /\ l2 \in ListType /\ l2.prev = l.prev
      /\ \A n \in Nodes : l2.next[n] = IF n = ListHead THEN Node(s, i + 1) ELSE l.next[n]
  <2>1. l2 = [l EXCEPT !.next = [l.next EXCEPT ![ListHead] = Node(s, i + 1)]]
    BY <1>2 DEF del_next
  <2>2. [l.next EXCEPT ![ListHead] = Node(s, i + 1)] \in [Nodes -> Nodes]
    BY <1>2 DEF ListType
  <2> QED BY <1>2, <2>1, <2>2 DEF ListType
<1>4. l2.next[ListHead] = Node(s, i + 1) /\ \A a \in 1..Len(s) : l2.next[s[a]] = Node(s, a + 1)
  BY <1>0, <1>2, <1>3
<1>5. Chain(l2, s, i + 1, g2, m)
  BY <1>0, <1>1, <1>3, <1>4 DEF Chain
<1> QED
  BY <1>3, <1>5

\* More of the list is behind the activations: what they rely on still holds.
LEMMA FrameLater ==
  ASSUME NEW e, NEW x, NEW j, NEW s, NEW g \in Nat, NEW m \in Nat, FrameOK(e, x, j, s, g, m),
         NEW g2 \in Nat, NEW m2 \in Nat, g <= g2, m <= m2
  PROVE  FrameOK(e, x, j, s, g2, m2)
<1>1. (\A i \in 1..g : i \in 1..g2) /\ \A i \in 1..(g - 1) : i \in 1..(g2 - 1)
  OBVIOUS
<1>2. \A i \in 1..g : i + 1 <= m => i + 1 <= m2
  OBVIOUS
<1> QED
  BY <1>1, <1>2 DEF FrameOK

\* The first half of list_del.
LEMMA StackDelPrev ==
  ASSUME NEW x, NEW j, NEW F, NEW a, NEW s \in Seq(Timers), NEW g \in Nat, NEW m \in Nat,
         Stack(x, j, F, a, s, g, m), NEW i \in 1..g, i <= Len(s), x[s[i]] <= j,
         NEW F2, NEW old, NEW e, e.pc = "del_next", e.tmp = s[i], Replaced(F, F2, old, e),
         old.pc = "del_prev",
         NEW m2 \in Nat, i + 1 <= m2, m <= m2, m2 # m => i = g
  PROVE  Stack(x, j, F2, a, s, g, m2)
<1>1. FrameOK(e, x, j, s, g, m2)
  BY DEF FrameOK
<1>2. \A d \in F : FrameOK(d, x, j, s, g, m2)
  <2>1. g <= g
    OBVIOUS
  <2> QED BY <2>1, FrameLater DEF Stack
<1>3. Holding(F2, "del_next", s[i])
  BY DEF Replaced, Holding
<1>4. \A d \in F2 : FrameOK(d, x, j, s, g, m2)
  BY <1>1, <1>2 DEF Replaced
<1>5. \A p \in {"del_next", "func"} : \A t : Holding(F, p, t) => Holding(F2, p, t)
  BY HoldingKept
<1>6. m2 = g + 1 => Holding(F2, "del_next", s[g])
  BY <1>3, <1>5 DEF Stack
<1> QED
  BY <1>4, <1>5, <1>6 DEF Stack

\* Timer i of s, due, is unlinked: g becomes g2.
Unlinks(x, j, s, g, m, i, g2) ==
  /\ s \in Seq(Timers) /\ \A b, c \in 1..Len(s) : s[b] = s[c] => b = c
  /\ g \in Nat /\ m \in {g, g + 1} /\ m \in 1..(Len(s) + 1)
  /\ i \in 1..g /\ i <= Len(s) /\ i + 1 <= m /\ x[s[i]] <= j
  /\ g2 = IF i = g THEN g + 1 ELSE g

\* The second half.
LEMMA StackDelNext ==
  ASSUME NEW x, NEW j, NEW F, NEW a, NEW s, NEW g, NEW m, Stack(x, j, F, a, s, g, m),
         NEW i, NEW g2, Unlinks(x, j, s, g, m, i, g2),
         NEW F2, NEW old, NEW e, e.pc = "func", e.tmp = s[i], Replaced(F, F2, old, e),
         old.pc = "del_next", old.tmp = s[i]
  PROVE  Stack(x, j, F2, a, s, g2, m)
<1> USE DEF Unlinks
<1>0. /\ g2 \in Nat /\ g <= g2 /\ i \in 1..(g2 - 1) /\ m \in Nat /\ Len(s) \in Nat
      /\ \A b \in 1..(g2 - 1) : b \in 1..(g - 1) \/ (b = g /\ i = g)
      /\ \A b \in g2..Len(s) : b \in g..Len(s)
      /\ m = g2 + 1 => i # g /\ g2 = g
      /\ i # g => g2 = g
      /\ i \in 1..Len(s)
  <2>1. Len(s) \in Nat
    BY NodeFacts
  <2> QED BY <2>1
<1>1. FrameOK(e, x, j, s, g2, m)
  BY <1>0 DEF FrameOK
<1>2. \A d \in F : FrameOK(d, x, j, s, g2, m)
  <2>1. m <= m
    BY <1>0
  <2> QED BY <1>0, <2>1, FrameLater DEF Stack
<1>3. Holding(F2, "func", s[i])
  BY DEF Replaced, Holding
<1>4. \A d \in F2 : FrameOK(d, x, j, s, g2, m)
  BY <1>1, <1>2 DEF Replaced
<1>5. \A t : Holding(F, "func", t) => Holding(F2, "func", t)
  BY HoldingKept
<1>6. ASSUME m = g2 + 1 PROVE Holding(F2, "del_next", s[g2])
  <2>1. m = g + 1 /\ i # g /\ g2 = g
    BY <1>0, <1>6
  <2>2. Holding(F, "del_next", s[g])
    BY <2>1 DEF Stack
  <2>3. g \in 1..Len(s)
    BY <1>0, <2>1
  <2>4. s[g] # s[i]
    BY <1>0, <2>1, <2>3
  <2> QED BY <2>1, <2>2, <2>4, HoldingKept
<1>7. \A b \in 1..(g2 - 1) : x[s[b]] <= j /\ (s[b] \in a => Holding(F2, "func", s[b]))
  BY <1>0, <1>3, <1>5 DEF Stack
<1>8. (\A b \in g2..Len(s) : s[b] \in a) /\ \A t \in a : \E b \in 1..Len(s) : s[b] = t
  BY <1>0 DEF Stack
<1> QED
  BY <1>4, <1>6, <1>7, <1>8 DEF Stack

\* The function of a timer has run.
LEMMA StackFunc ==
  ASSUME NEW x, NEW j, NEW F, NEW a, NEW s \in Seq(Timers), \A b, c \in 1..Len(s) : s[b] = s[c] => b = c,
         NEW g \in 1..(Len(s) + 1), NEW m, Stack(x, j, F, a, s, g, m), NEW F2, NEW old, NEW e, NEW t,
         Replaced(F, F2, old, e), e.pc = "load",
         old.pc = "func", old.tmp = t, NEW a2, a2 = a \ {t}
  PROVE  Stack(x, j, F2, a2, s, g, m)
<1>0. Len(s) \in Nat /\ old \in F
  BY NodeFacts DEF Replaced
<1>1. PICK i \in 1..(g - 1) : t = s[i]
  BY <1>0 DEF Stack, FrameOK
<1>2. /\ i \in 1..Len(s) /\ \A b \in g..Len(s) : b \in 1..Len(s) /\ b # i
  BY <1>0
<1>3. \A b \in g..Len(s) : s[b] \in a2
  BY <1>1, <1>2 DEF Stack
<1>4. \A d \in F2 : FrameOK(d, x, j, s, g, m)
  <2>1. FrameOK(e, x, j, s, g, m)
    BY FreePlace
  <2> QED BY <2>1 DEF Stack, Replaced
<1>5. \A b \in 1..(g - 1) : x[s[b]] <= j /\ (s[b] \in a2 => Holding(F2, "func", s[b]))
  BY HoldingKept DEF Stack
<1>6. m = g + 1 => Holding(F2, "del_next", s[g])
  BY HoldingKept DEF Stack
<1>7. \A u \in a2 : \E b \in 1..Len(s) : s[b] = u
  BY DEF Stack
<1> QED
  BY <1>3, <1>4, <1>5, <1>6, <1>7 DEF Stack

-----------------------------------------------------------------------------
(* add_timer's walk *)

\* The nodes a walk from n for deadline e visits.
Visits(l, x, e, n) ==
  {v \in Nodes : \A C \in SUBSET Nodes :
     n \in C /\ (\A c \in C : x[c] < e => l.next[c] \in C) => v \in C}

\* The walk visits what a walk from the next node visits; it stops where e is not later.
LEMMA VisitsStep ==
  ASSUME NEW l \in ListType, NEW x \in [Nodes -> Nat], NEW e \in Nat, NEW n \in Nodes
  PROVE  /\ x[n] < e => \A v \in Nodes : x[v] >= e =>
              (v \in Visits(l, x, e, n) <=> v \in Visits(l, x, e, l.next[n]))
         /\ x[n] >= e => Visits(l, x, e, n) = {n}
<1> DEFINE Closed(C) == \A c \in C : x[c] < e => l.next[c] \in C
<1>0. l.next[n] \in Nodes /\ x[n] \in Nat
  BY DEF ListType
<1>1. ASSUME x[n] < e, NEW v \in Nodes, x[v] >= e, v \in Visits(l, x, e, n)
      PROVE  v \in Visits(l, x, e, l.next[n])
  <2> SUFFICES ASSUME NEW C \in SUBSET Nodes, l.next[n] \in C, Closed(C) PROVE v \in C
    BY <1>1 DEF Visits
  <2>1. C \cup {n} \in SUBSET Nodes /\ n \in C \cup {n} /\ Closed(C \cup {n})
    OBVIOUS
  <2>2. v \in C \cup {n}
    BY <1>1, <2>1, Zenon DEF Visits
  <2>3. v # n
    BY <1>0, <1>1
  <2> QED BY <2>2, <2>3
<1>2. ASSUME x[n] < e, NEW v \in Nodes, v \in Visits(l, x, e, l.next[n])
      PROVE  v \in Visits(l, x, e, n)
  BY <1>2 DEF Visits
<1>3. ASSUME x[n] >= e PROVE Visits(l, x, e, n) = {n}
  <2>1. {n} \in SUBSET Nodes /\ n \in {n} /\ Closed({n})
    BY <1>0, <1>3
  <2>2. \A v \in Visits(l, x, e, n) : v \in {n}
    BY <2>1, Zenon DEF Visits
  <2>3. n \in Visits(l, x, e, n)
    BY DEF Visits
  <2> QED BY <2>2, <2>3
<1> QED
  BY <1>1, <1>2, <1>3

\* The function add_timer's loop computes.
Walk(l, x, e) == CHOOSE w : w = [n \in Nodes |-> IF x[n] < e THEN w[l.next[n]] ELSE n]

\* The recursive definition of the walk has a solution on every list.
LEMMA WalkEquation ==
  ASSUME NEW l \in ListType, NEW x \in [Nodes -> Nat], NEW e \in Nat, NEW W, W = Walk(l, x, e)
  PROVE  \A n \in Nodes : W[n] = IF x[n] < e THEN W[l.next[n]] ELSE n
<1> DEFINE Stop(n) == CHOOSE v \in Nodes : x[v] >= e /\ v \in Visits(l, x, e, n)
           V == [n \in Nodes |-> Stop(n)]
<1>1. ASSUME NEW n \in Nodes PROVE V[n] = IF x[n] < e THEN V[l.next[n]] ELSE n
  <2>0. l.next[n] \in Nodes /\ x[n] \in Nat
    BY DEF ListType
  <2>1. CASE x[n] < e
    <3>1. \A v \in Nodes : (x[v] >= e /\ v \in Visits(l, x, e, n))
                             <=> (x[v] >= e /\ v \in Visits(l, x, e, l.next[n]))
      BY <2>1, VisitsStep
    <3>2. Stop(n) = Stop(l.next[n])
      BY <3>1, Zenon
    <3> HIDE DEF Stop
    <3>3. V[n] = Stop(n) /\ V[l.next[n]] = Stop(l.next[n])
      BY <2>0
    <3> QED BY <2>1, <3>2, <3>3, Zenon
  <2>2. CASE ~(x[n] < e)
    <3>1. x[n] >= e
      BY <2>0, <2>2
    <3>2. \A v \in Nodes : (x[v] >= e /\ v \in Visits(l, x, e, n)) <=> v = n
      BY <3>1, VisitsStep
    <3>3. Stop(n) = n
      BY <3>2, Zenon
    <3> QED BY <2>2, <3>3
  <2> QED BY <2>1, <2>2
<1> HIDE DEF Stop
<1>2. V = [n \in Nodes |-> IF x[n] < e THEN V[l.next[n]] ELSE n]
  BY <1>1
<1> HIDE DEF V
<1>3. \E w : w = [n \in Nodes |-> IF x[n] < e THEN w[l.next[n]] ELSE n]
  BY <1>2
<1>4. W = [n \in Nodes |-> IF x[n] < e THEN W[l.next[n]] ELSE n]
  BY <1>3, Zenon DEF Walk
<1> QED
  BY <1>4

\* The walk stops at the head or at a timer of the list.
LEMMA WalkStops ==
  ASSUME NEW l \in ListType, NEW s, Chain(l, s, 1, 1, 1), NEW x \in [Nodes -> Nat], NEW e \in Nat,
         e <= x[ListHead]
  PROVE  \E p \in 0..Len(s) : InsertPoint(l, x, e) = Node(s, p)
<1> DEFINE W == Walk(l, x, e)
           On(n) == \E p \in 0..Len(s) : n = Node(s, p)
           N == Len(s) + 1
<1>0. /\ s \in Seq(Timers) /\ Len(s) \in Nat /\ l.next[ListHead] = Node(s, 1)
      /\ \A i \in 1..Len(s) : l.next[Node(s, i)] = Node(s, i + 1)
      /\ \A i \in Int : Node(s, i) \in Nodes /\ (i \notin 1..Len(s) => Node(s, i) = ListHead)
  <2>1. s \in Seq(Timers)
    BY DEF Chain
  <2> QED BY <2>1, NodeFacts DEF Chain
<1>1. InsertPoint(l, x, e) = IF list_is_empty(l, ListHead) THEN l.next[ListHead] ELSE W[l.next[ListHead]]
  BY DEF InsertPoint, Walk
<1>2. \A n \in Nodes : W[n] = IF x[n] < e THEN W[l.next[n]] ELSE n
  BY WalkEquation
<1> HIDE DEF W
<1>3. Node(s, 0) = ListHead /\ Node(s, N) = ListHead /\ 0 \in 0..Len(s)
  BY <1>0
<1>4. W[Node(s, N)] = Node(s, 0)
  <2>1. ListHead \in Nodes /\ ~(x[ListHead] < e)
    BY DEF Nodes
  <2> QED BY <1>2, <1>3, <2>1
<1>5. \A i \in 1..N : On(W[Node(s, i)])
  <2> DEFINE T == {k \in 0..Len(s) : ~On(W[Node(s, N - k)])}
  <2>1. T = {}
    <3> SUFFICES ASSUME T # {} PROVE FALSE
      OBVIOUS
    <3>1. T \subseteq Nat
      BY <1>0
    <3> HIDE DEF T
    <3>2. PICK k \in T : \A y \in T : k <= y
      BY <3>1, LeastNat
    <3>3. k \in 0..Len(s) /\ ~On(W[Node(s, N - k)])
      BY <3>2 DEF T
    <3>4. k # 0
      <4>1. ASSUME k = 0 PROVE N - k = N
        BY <1>0, <4>1
      <4> QED BY <1>3, <1>4, <3>3, <4>1
    <3>5. k - 1 \in 0..Len(s) /\ ~(k <= k - 1)
      BY <1>0, <3>3, <3>4
    <3>6. k - 1 \notin T
      BY <3>2, <3>5
    <3>7. On(W[Node(s, N - (k - 1))])
      BY <3>5, <3>6 DEF T
    <3>8. PICK i \in 1..Len(s) : i = N - k /\ i + 1 = N - (k - 1)
      <4>1. Len(s) \in Nat /\ k \in 0..Len(s)
        BY <1>0, <3>3
      <4>2. N - k \in 1..Len(s) /\ (N - k) + 1 = N - (k - 1)
        BY <3>4, <4>1
      <4> QED BY <4>2
    <3>9. Node(s, i) \in Nodes /\ l.next[Node(s, i)] = Node(s, i + 1) /\ i \in 0..Len(s)
      BY <1>0
    <3>10. W[Node(s, i)] = IF x[Node(s, i)] < e THEN W[Node(s, i + 1)] ELSE Node(s, i)
      <4>1. W[Node(s, i)] = IF x[Node(s, i)] < e THEN W[l.next[Node(s, i)]] ELSE Node(s, i)
        BY <1>2, <3>9, Zenon
      <4> QED BY <3>9, <4>1, Zenon
    <3> QED BY <3>3, <3>7, <3>8, <3>9, <3>10
  <2>2. ASSUME NEW i \in 1..N PROVE On(W[Node(s, i)])
    <3>1. N - i \in 0..Len(s) /\ N - (N - i) = i
      BY <1>0
    <3>2. N - i \notin T
      BY <2>1
    <3>3. On(W[Node(s, N - (N - i))])
      BY <3>1, <3>2
    <3> QED BY <3>1, <3>3
  <2> QED BY <2>2
<1>6. 1 \in 1..N
  BY <1>0
<1>7. CASE list_is_empty(l, ListHead)
  BY <1>1, <1>3, <1>7 DEF list_is_empty
<1>8. CASE ~list_is_empty(l, ListHead)
  BY <1>0, <1>1, <1>5, <1>6, <1>8
<1> QED
  BY <1>7, <1>8

\* The list is a ring of exactly the timers in a.
RingOf(l, a, s) ==
  /\ Chain(l, s, 1, 1, 1)
  /\ \A i \in 1..Len(s) : s[i] \in a
  /\ \A t \in a : \E i \in 1..Len(s) : s[i] = t

\* l2 is the ring l with timer t added.
Extended(l, a, t, l2) ==
  /\ l2 \in ListType /\ \E r : RingOf(l2, a \cup {t}, r)
  /\ l2.next[ListHead] \in {t, l.next[ListHead]}

\* add_timer links a timer that is not in the list behind the point it found.
LEMMA Insert ==
  ASSUME NEW l \in ListType, NEW a, NEW s, RingOf(l, a, s), NEW t \in Timers, t \notin a,
         NEW p \in 0..Len(s), NEW l2, l2 = list_add_to_behind(list_init(l, t), Node(s, p), t)
  PROVE  Extended(l, a, t, l2)
<1> DEFINE n == Len(s)
           r == [i \in 1..(n + 1) |-> IF i <= p THEN s[i] ELSE IF i = p + 1 THEN t ELSE s[i - 1]]
           P == Node(s, p)
           Q == Node(s, p + 1)
<1>0. /\ s \in Seq(Timers) /\ n \in Nat /\ p \in Int
      /\ \A i, k \in 1..n : s[i] = s[k] => i = k
      /\ \A i \in 1..n : s[i] \in Timers /\ s[i] # ListHead /\ s[i] \in Nodes /\ s[i] # t /\ Node(s, i) = s[i]
      /\ l.next[ListHead] = Node(s, 1)
      /\ \A i \in 1..n : l.next[s[i]] = Node(s, i + 1)
      /\ \A i \in 1..(n + 1) : l.prev[Node(s, i)] = IF i <= 1 THEN ListHead ELSE s[i - 1]
      /\ ListHead \in Nodes /\ t # ListHead /\ t \in Nodes
      /\ \A i \in Int : Node(s, i) \in Nodes /\ (i \notin 1..n => Node(s, i) = ListHead)
  <2>1. s \in Seq(Timers) /\ \A i \in 1..n : s[i] # t
    BY DEF Chain, RingOf
  <2>2. t # ListHead /\ t \in Nodes
    BY TimerAssumption DEF Nodes
  <2> QED BY <2>1, <2>2, NodeFacts DEF Chain, RingOf
<1>1. P \in Nodes /\ Q \in Nodes /\ P # t /\ Q # t /\ l.next[P] = Q
  <2>1. \A i \in Int : Node(s, i) # t
    BY <1>0
  <2>2. p = 0 \/ p \in 1..n
    BY <1>0
  <2> QED BY <1>0, <2>1, <2>2
<1> HIDE DEF P, Q
<1>2. /\ l2 \in ListType
      /\ \A u \in Nodes : l2.next[u] = IF u = P THEN t ELSE IF u = t THEN Q ELSE l.next[u]
      /\ \A u \in Nodes : l2.prev[u] = IF u = Q THEN t ELSE IF u = t THEN P ELSE l.prev[u]
  <2> DEFINE nx == [l.next EXCEPT ![t] = t]
             pv == [l.prev EXCEPT ![t] = t]
  <2>1. nx \in [Nodes -> Nodes] /\ pv \in [Nodes -> Nodes] /\ nx[P] = Q
        /\ \A u \in Nodes : u # t => nx[u] = l.next[u] /\ pv[u] = l.prev[u]
    BY <1>0, <1>1 DEF ListType
  <2>2. l2 = [next |-> [nx EXCEPT ![t] = Q, ![P] = t], prev |-> [pv EXCEPT ![t] = P, ![Q] = t]]
    BY <2>1 DEF list_add_to_behind, list_init, P
  <2> HIDE DEF nx, pv
  <2>3. l2.next = [nx EXCEPT ![t] = Q, ![P] = t] /\ l2.prev = [pv EXCEPT ![t] = P, ![Q] = t]
    BY <2>2
  <2>4. l2.next \in [Nodes -> Nodes] /\ l2.prev \in [Nodes -> Nodes] /\ l2 \in ListType
    BY <1>0, <1>1, <2>1, <2>2, <2>3 DEF ListType
  <2> QED BY <1>0, <1>1, <2>1, <2>3, <2>4
<1>3. r \in Seq(Timers) /\ Len(r) = n + 1
  <2>1. \A i \in 1..(n + 1) : (IF i <= p THEN s[i] ELSE IF i = p + 1 THEN t ELSE s[i - 1]) \in Timers
    BY <1>0
  <2> QED BY <1>0, <2>1
<1>4. \A i \in 1..(n + 1) : r[i] = IF i <= p THEN s[i] ELSE IF i = p + 1 THEN t ELSE s[i - 1]
  OBVIOUS
<1> HIDE DEF r
<1>4a. ASSUME NEW b \in 1..(n + 1)
      PROVE  \/ b <= p /\ b \in 1..n /\ r[b] = s[b]
             \/ b = p + 1 /\ r[b] = t
             \/ b > p + 1 /\ b - 1 \in 1..n /\ r[b] = s[b - 1]
  <2>1. r[b] = IF b <= p THEN s[b] ELSE IF b = p + 1 THEN t ELSE s[b - 1]
    BY <1>4
  <2>2. CASE b <= p
    BY <1>0, <2>1, <2>2
  <2>3. CASE b = p + 1
    BY <1>0, <2>1, <2>3
  <2>4. CASE b > p + 1
    <3>1. ~(b <= p) /\ b # p + 1 /\ b - 1 \in 1..n
      BY <1>0, <2>4
    <3> QED BY <2>1, <2>4, <3>1, Zenon
  <2> QED BY <1>0, <2>2, <2>3, <2>4
<1>5. ASSUME NEW i \in 1..(n + 2)
      PROVE  Node(r, i) = IF i <= p THEN Node(s, i) ELSE IF i = p + 1 THEN t ELSE Node(s, i - 1)
  <2>1. CASE i \in 1..(n + 1)
    <3>1. Node(r, i) = r[i]
      BY <1>3, <2>1 DEF Node
    <3>2. r[i] = IF i <= p THEN s[i] ELSE IF i = p + 1 THEN t ELSE s[i - 1]
      BY <1>4, <2>1
    <3>3. /\ i <= p => Node(s, i) = s[i]
          /\ ~(i <= p) /\ i # p + 1 => Node(s, i - 1) = s[i - 1]
      BY <1>0, <2>1
    <3> QED BY <3>1, <3>2, <3>3
  <2>2. CASE i = n + 2
    <3>1. i \notin 1..(n + 1) /\ ~(i <= p) /\ i # p + 1 /\ i - 1 \in Int /\ i - 1 \notin 1..n
      BY <1>0, <2>2
    <3>2. Node(r, i) = ListHead
      BY <1>3, <3>1 DEF Node
    <3>3. Node(s, i - 1) = ListHead
      BY <1>0, <3>1
    <3> QED BY <3>1, <3>2, <3>3
  <2> QED BY <1>0, <2>1, <2>2
<1>6. \A i, k \in 1..Len(r) : r[i] = r[k] => i = k
  <2> SUFFICES ASSUME NEW i \in 1..(n + 1), NEW k \in 1..(n + 1), r[i] = r[k] PROVE i = k
    BY <1>3
  <2>1. ASSUME NEW b \in 1..(n + 1), NEW c \in 1..(n + 1), b < c PROVE r[b] # r[c]
    <3>1. CASE b <= p
      <4>1. b \in 1..n /\ r[b] = s[b]
        BY <1>0, <1>4a, <3>1
      <4>2. r[c] = t \/ (c \in 1..n /\ r[c] = s[c]) \/ (c > p + 1 /\ c - 1 \in 1..n /\ r[c] = s[c - 1])
        BY <1>4a
      <4>3. c > p + 1 => b # c - 1
        BY <1>0, <3>1
      <4>4. b # c
        BY <2>1
      <4> QED BY <1>0, <4>1, <4>2, <4>3, <4>4, Zenon
    <3>2. CASE ~(b <= p)
      <4>1. c > p + 1 /\ ~(c <= p) /\ c # p + 1
        BY <1>0, <2>1, <3>2
      <4>2. c - 1 \in 1..n /\ r[c] = s[c - 1]
        BY <1>4a, <4>1
      <4>3. r[b] = t \/ (b > p + 1 /\ b - 1 \in 1..n /\ r[b] = s[b - 1])
        BY <1>4a, <3>2
      <4>4. b - 1 # c - 1
        BY <2>1
      <4> QED BY <1>0, <4>2, <4>3, <4>4, Zenon
    <3> QED BY <3>1, <3>2
  <2>2. i < k \/ k < i \/ i = k
    OBVIOUS
  <2> QED BY <2>1, <2>2
<1>7. l2.next[ListHead] = Node(r, 1) /\ l2.next[ListHead] = IF p = 0 THEN t ELSE l.next[ListHead]
  <2>1. ListHead = P <=> p = 0
    BY <1>0 DEF P
  <2>2. p # 0 => 1 <= p
    BY <1>0
  <2>3. p = 0 => ~(1 <= p) /\ 1 = p + 1
    BY <1>0
  <2>4. Node(r, 1) = IF 1 <= p THEN Node(s, 1) ELSE IF 1 = p + 1 THEN t ELSE Node(s, 1 - 1)
    <3>1. 1 \in 1..(n + 2)
      BY <1>0
    <3> QED BY <1>5, <3>1
  <2>5. l2.next[ListHead] = IF p = 0 THEN t ELSE l.next[ListHead]
    BY <1>0, <1>2, <2>1
  <2> QED BY <1>0, <2>2, <2>3, <2>4, <2>5
<1>8. ASSUME NEW i \in 1..(n + 1) PROVE l2.next[r[i]] = Node(r, i + 1)
  <2>0. i + 1 \in 1..(n + 2)
    BY <1>0
  <2>1. CASE i <= p
    <3>1. i \in 1..n /\ (s[i] = P <=> i = p)
      BY <1>0, <2>1 DEF P
    <3>2. l2.next[s[i]] = IF i = p THEN t ELSE Node(s, i + 1)
      BY <1>0, <1>2, <2>1, <3>1
    <3>3. Node(r, i + 1) = IF i = p THEN t ELSE Node(s, i + 1)
      BY <1>0, <1>5, <2>0, <2>1
    <3> QED BY <1>0, <1>4, <2>1, <3>2, <3>3
  <2>2. CASE i = p + 1
    <3>1. r[i] = t /\ l2.next[t] = Q
      BY <1>0, <1>1, <1>2, <1>4, <2>2
    <3>2. Node(r, i + 1) = Node(s, p + 1)
      BY <1>0, <1>5, <2>0, <2>2
    <3> QED BY <3>1, <3>2 DEF Q
  <2>3. CASE i > p + 1
    <3>1. i - 1 \in 1..n /\ r[i] = s[i - 1] /\ i - 1 # p /\ (i - 1) + 1 = i /\ (i + 1) - 1 = i
      BY <1>0, <1>4, <2>3
    <3>2. s[i - 1] # P
      <4>1. P = ListHead \/ (p \in 1..n /\ P = s[p])
        BY <1>0, Zenon DEF P
      <4> QED BY <1>0, <3>1, <4>1, Zenon
    <3>3. l2.next[s[i - 1]] = Node(s, i)
      BY <1>0, <1>2, <3>1, <3>2
    <3>4. Node(r, i + 1) = Node(s, i)
      BY <1>0, <1>5, <2>0, <2>3, <3>1
    <3> QED BY <3>1, <3>3, <3>4
  <2> QED BY <1>0, <2>1, <2>2, <2>3
<1>9. ASSUME NEW i \in 1..(n + 2) PROVE l2.prev[Node(r, i)] = IF i <= 1 THEN ListHead ELSE r[i - 1]
  <2>0. \A k \in 1..(n + 1) : Node(s, k) = Q <=> k = p + 1
    BY <1>0, NodeInjective DEF Q
  <2>1. CASE i <= p
    <3>1. i \in 1..(n + 1) /\ Node(r, i) = Node(s, i) /\ i # p + 1 /\ Node(s, i) # t /\ Node(s, i) \in Nodes
      BY <1>0, <1>5, <2>1
    <3>2. l2.prev[Node(s, i)] = IF i <= 1 THEN ListHead ELSE s[i - 1]
      BY <1>0, <1>2, <2>0, <3>1
    <3>3. ~(i <= 1) => r[i - 1] = s[i - 1]
      BY <1>0, <1>4, <2>1
    <3> QED BY <3>1, <3>2, <3>3
  <2>2. CASE i = p + 1
    <3>1. Node(r, i) = t /\ l2.prev[t] = P
      BY <1>0, <1>1, <1>2, <1>5, <2>2
    <3>2. CASE p = 0
      BY <1>0, <2>2, <3>1, <3>2 DEF P
    <3>3. CASE p # 0
      <4>1. P = s[p] /\ r[p] = s[p] /\ ~(i <= 1) /\ i - 1 = p
        BY <1>0, <1>4, <2>2, <3>3 DEF P
      <4> QED BY <3>1, <4>1
    <3> QED BY <3>2, <3>3
  <2>3. CASE i > p + 1
    <3>1. i - 1 \in 1..(n + 1) /\ Node(r, i) = Node(s, i - 1) /\ ~(i <= 1)
          /\ Node(s, i - 1) # t /\ Node(s, i - 1) \in Nodes
      BY <1>0, <1>5, <2>3
    <3>2. l2.prev[Node(s, i - 1)] = IF i - 1 = p + 1 THEN t ELSE IF i - 1 <= 1 THEN ListHead ELSE s[i - 1 - 1]
      BY <1>0, <1>2, <2>0, <3>1
    <3>3. r[i - 1] = IF i - 1 = p + 1 THEN t ELSE s[i - 1 - 1]
      BY <1>0, <1>4, <2>3, <3>1
    <3>4. i - 1 # p + 1 => ~(i - 1 <= 1)
      BY <1>0, <2>3
    <3> QED BY <3>1, <3>2, <3>3, <3>4
  <2> QED BY <1>0, <2>1, <2>2, <2>3
<1>10. Chain(l2, r, 1, 1, 1)
  <2>1. 1 \in 1..(Len(r) + 1) /\ 1 \in 1..1 /\ 1 \in {1, 1 + 1} /\ Len(r) + 1 = n + 2
    BY <1>0, <1>3
  <2> QED BY <1>3, <1>6, <1>7, <1>8, <1>9, <2>1 DEF Chain
<1>11. \A i \in 1..Len(r) : r[i] \in a \cup {t}
  <2>1. \A i \in 1..n : s[i] \in a
    BY DEF RingOf
  <2> QED BY <1>3, <1>4a, <2>1
<1>12. \A u \in a \cup {t} : \E i \in 1..Len(r) : r[i] = u
  <2>1. r[p + 1] = t /\ p + 1 \in 1..(n + 1)
    BY <1>0, <1>4
  <2>2. ASSUME NEW i \in 1..n PROVE \E k \in 1..(n + 1) : r[k] = s[i]
    <3>1. CASE i <= p
      <4>1. i \in 1..(n + 1) /\ r[i] = s[i]
        BY <1>0, <1>4, <3>1
      <4> QED BY <4>1
    <3>2. CASE ~(i <= p)
      <4>1. i + 1 \in 1..(n + 1) /\ r[i + 1] = s[i + 1 - 1] /\ i + 1 - 1 = i
        BY <1>0, <1>4, <3>2
      <4> QED BY <4>1
    <3> QED BY <3>1, <3>2
  <2>3. \A u \in a : \E i \in 1..n : s[i] = u
    BY DEF RingOf
  <2> QED BY <1>3, <2>1, <2>2, <2>3
<1> QED
  BY <1>2, <1>7, <1>10, <1>11, <1>12 DEF RingOf, Extended

-----------------------------------------------------------------------------
(* The inductive invariant *)

Accounted(l, x, j, st, fr, c, a) ==
  \E s, f, g, m :
    /\ Chain(l, s, f, g, m)
    /\ Stack(x, j, Acts(fr), a, s, g, m)
    /\ Relinked(Acts(fr), s, f, g)
    /\ TopOK(x, j, st, fr[c], s, g)
    /\ j = 0 => g = 1

\* Until the first tick nothing is pending and nothing is handled.
Quiescent(j, st, fr) == j = 0 => ~st /\ \A c \in Tasks : fr[c] = <<>>

TimerInv ==
  /\ TypeOK /\ ~halted /\ expect[ListHead] = Never
  /\ Quiescent(jiffies, softirq_status, frames)
  /\ Accounted(list, expect, jiffies, softirq_status, frames, current, armed)

\* What the innermost activation e has made sure of.
Claim(e, x, j, st, s, g) ==
  /\ ~st => Ahead(x, j, s, g)
  /\ e.pc = "clear" => Ahead(x, j, s, g)
  /\ st => e.pc \notin {"rest", "end"}

LEMMA NewTop ==
  ASSUME NEW e, NEW x, NEW j, NEW st, NEW s, NEW g, Claim(e, x, j, st, s, g), NEW r, Innermost(r, e)
  PROVE  TopOK(x, j, st, r, s, g)
  BY DEF Claim, TopOK, Innermost

LEMMA OldTop ==
  ASSUME NEW x, NEW j, NEW st, NEW s, NEW g, NEW r, TopOK(x, j, st, r, s, g), NEW e, Innermost(r, e)
  PROVE  Claim(e, x, j, st, s, g)
  BY DEF Claim, TopOK, Innermost

\* Nothing pending and nothing due ahead is as much as any task needs.
LEMMA Quiet ==
  ASSUME NEW x, NEW j, NEW s, NEW g, Ahead(x, j, s, g), NEW st, ~st, NEW r
  PROVE  TopOK(x, j, st, r, s, g)
  BY DEF TopOK

\* With nothing on its stack a task has nothing pending and nothing due ahead.
LEMMA EmptyStack ==
  ASSUME NEW x, NEW j, NEW s, NEW g, NEW st, TopOK(x, j, st, <<>>, s, g)
  PROVE  ~st /\ Ahead(x, j, s, g)
<1>1. Len(<<>>) = 0
  OBVIOUS
<1> QED
  BY <1>1 DEF TopOK, Innermost

\* No activations.
LEMMA NoActs ==
  ASSUME NEW fr, \A c \in Tasks : fr[c] = <<>>
  PROVE  Acts(fr) = {}
<1>1. \A c \in Tasks : 1..Len(fr[c]) = {}
  OBVIOUS
<1> QED
  BY <1>1 DEF Acts

\* What the ring's parameters are.
LEMMA ChainFacts ==
  ASSUME NEW l, NEW s, NEW f, NEW g, NEW m, Chain(l, s, f, g, m)
  PROVE  /\ s \in Seq(Timers) /\ Len(s) \in Nat /\ f \in Nat /\ g \in Nat /\ m \in Nat
         /\ f \in 1..g /\ g \in 1..(Len(s) + 1) /\ m \in 1..(Len(s) + 1) /\ m \in {g, g + 1}
         /\ \A i, k \in 1..Len(s) : s[i] = s[k] => i = k
         /\ l.next[ListHead] = Node(s, f)
         /\ \A i \in 1..Len(s) : s[i] \in Timers /\ s[i] \in Nodes /\ s[i] # ListHead
         /\ \A i \in 1..Len(s) : Node(s, i) = s[i]
         /\ \A i \in Int : i \notin 1..Len(s) => Node(s, i) = ListHead
<1>1. /\ s \in Seq(Timers) /\ f \in 1..g /\ g \in 1..(Len(s) + 1) /\ m \in 1..(Len(s) + 1)
      /\ m \in {g, g + 1} /\ l.next[ListHead] = Node(s, f)
      /\ \A i, k \in 1..Len(s) : s[i] = s[k] => i = k
  BY DEF Chain
<1>2. Len(s) \in Nat
  BY <1>1, NodeFacts
<1> QED
  BY <1>1, <1>2, NodeFacts

\* The nodes behind a timer of the ring.
LEMMA AfterIs ==
  ASSUME NEW s, NEW f, NEW g, NEW m, Chain(list, s, f, g, m), NEW i \in 1..Len(s), NEW k \in i..Len(s)
  PROVE  s[k] \in After(s[i])
<1>0. /\ s \in Seq(Timers) /\ Len(s) \in Nat /\ i \in Int /\ k \in 1..Len(s)
      /\ \A b \in 1..Len(s) : s[b] \in Nodes /\ Node(s, b) = s[b] /\ list.next[s[b]] = Node(s, b + 1)
  <2>1. /\ s \in Seq(Timers) /\ Len(s) \in Nat
        /\ \A b \in 1..Len(s) : s[b] \in Nodes /\ Node(s, b) = s[b]
    BY ChainFacts
  <2>2. \A b \in 1..Len(s) : list.next[s[b]] = Node(s, b + 1)
    BY DEF Chain
  <2> QED BY <2>1, <2>2
<1> SUFFICES ASSUME NEW C \in SUBSET Nodes, s[i] \in C, \A c \in C : list.next[c] \in C, s[k] \notin C
             PROVE  FALSE
  BY <1>0 DEF After
<1> DEFINE T == {b \in i..Len(s) : s[b] \notin C}
<1>1. T \subseteq Nat /\ k \in T
  BY <1>0
<1>2. PICK b \in T : \A y \in T : b <= y
  BY <1>1, LeastNat
<1>3. b \in i..Len(s) /\ s[b] \notin C /\ b \in 1..Len(s) /\ b # i
  BY <1>0, <1>2
<1>4. b - 1 \in i..Len(s) /\ b - 1 \in 1..Len(s) /\ ~(b <= b - 1) /\ (b - 1) + 1 = b
  BY <1>0, <1>3
<1>5. s[b - 1] \in C
  BY <1>2, <1>4
<1>6. list.next[s[b - 1]] = s[b]
  BY <1>0, <1>3, <1>4
<1> QED
  BY <1>3, <1>5, <1>6

\* The ring, given where it begins.
LEMMA RingIs ==
  ASSUME NEW s, NEW f, NEW g, NEW m, Chain(list, s, f, g, m)
  PROVE  Ring = {s[i] : i \in f..Len(s)}
<1>0. /\ s \in Seq(Timers) /\ Len(s) \in Nat /\ f \in 1..(Len(s) + 1)
      /\ list.next[ListHead] = Node(s, f)
      /\ \A i \in 1..Len(s) : list.next[s[i]] = Node(s, i + 1)
      /\ \A i \in 1..Len(s) : s[i] \in Timers /\ s[i] \in Nodes /\ Node(s, i) = s[i] /\ s[i] # ListHead
      /\ \A i \in Int : i \notin 1..Len(s) => Node(s, i) = ListHead
      /\ ListHead \in Nodes
  <2>1. f \in 1..(Len(s) + 1)
    <3>1. /\ Len(s) \in Nat /\ g \in 1..(Len(s) + 1) /\ f \in 1..g
      BY ChainFacts
    <3> QED BY <3>1
  <2>2. \A i \in 1..Len(s) : list.next[s[i]] = Node(s, i + 1)
    BY DEF Chain
  <2>3. ListHead \in Nodes
    BY DEF Nodes
  <2> QED BY <2>1, <2>2, <2>3, ChainFacts
<1>1. ASSUME NEW n \in Ring PROVE n \in {s[i] : i \in f..Len(s)}
  <2> DEFINE C == {ListHead} \cup {s[i] : i \in f..Len(s)}
  <2>1. \A i \in f..Len(s) : i \in 1..Len(s)
    BY <1>0
  <2>2. \A i \in f..(Len(s) + 1) : Node(s, i) \in C
    <3>1. \A i \in f..(Len(s) + 1) : i \in f..Len(s) \/ (i = Len(s) + 1 /\ i \in Int /\ i \notin 1..Len(s))
      BY <1>0
    <3> QED BY <1>0, <2>1, <3>1
  <2>3. C \in SUBSET Nodes
    BY <1>0, <2>1
  <2>4. f \in f..(Len(s) + 1) /\ \A i \in f..Len(s) : i + 1 \in f..(Len(s) + 1)
    BY <1>0
  <2>5. \A c \in C : list.next[c] \in C
    <3>1. list.next[ListHead] \in C
      BY <1>0, <2>2, <2>4
    <3>2. \A i \in f..Len(s) : list.next[s[i]] \in C
      BY <1>0, <2>1, <2>2, <2>4
    <3> QED BY <3>1, <3>2
  <2>6. n \in C /\ n # ListHead
    <3>1. ListHead \in C
      OBVIOUS
    <3> HIDE DEF C
    <3> QED BY <2>3, <2>5, <3>1 DEF Ring, After
  <2> QED BY <2>6
<1>2. ASSUME NEW i \in f..Len(s) PROVE s[i] \in Ring
  <2>0. i \in 1..Len(s) /\ f \in 1..Len(s) /\ s[i] \in After(s[f])
    <3>1. i \in 1..Len(s) /\ f \in 1..Len(s)
      BY <1>0
    <3> QED BY <3>1, AfterIs
  <2>1. list.next[ListHead] = s[f]
    BY <1>0, <2>0
  <2>2. s[i] \in After(ListHead)
    <3> SUFFICES ASSUME NEW C \in SUBSET Nodes, ListHead \in C, \A c \in C : list.next[c] \in C
                 PROVE  s[i] \in C
      BY <1>0, <2>0 DEF After
    <3>1. s[f] \in C
      BY <2>1
    <3> QED BY <2>0, <3>1 DEF After
  <2> QED BY <1>0, <2>0, <2>2 DEF Ring
<1> QED
  BY <1>1, <1>2

\* An activation about to run a timer's function is one of those Acts has.
LEMMA UnlinkedIs ==
  ASSUME TypeOK
  PROVE  Unlinked = {t \in Timers : Holding(Acts(frames), "func", t)}
<1>1. \A c \in Tasks : frames[c] \in Seq(Frame)
  BY DEF TypeOK, Frame
<1>2. \A c \in Tasks : DOMAIN frames[c] = 1..Len(frames[c]) /\ \A k \in 1..Len(frames[c]) : frames[c][k] \in Frame
  BY <1>1
<1>3. ASSUME NEW t \in Unlinked PROVE t \in Timers /\ Holding(Acts(frames), "func", t)
  <2>0. PICK c \in Tasks : \E k \in DOMAIN frames[c] : frames[c][k].pc = "func" /\ frames[c][k].tmp = t
    BY DEF Unlinked
  <2>1. PICK k \in DOMAIN frames[c] : frames[c][k].pc = "func" /\ frames[c][k].tmp = t
    BY <2>0
  <2>2. frames[c][k] \in Acts(frames)
    BY <1>2, <2>1 DEF Acts
  <2> QED BY <2>1, <2>2 DEF Holding, Unlinked
<1>4. ASSUME NEW t \in Timers, Holding(Acts(frames), "func", t) PROVE t \in Unlinked
  <2>1. PICK e \in Acts(frames) : e.pc = "func" /\ e.tmp = t
    BY <1>4 DEF Holding
  <2>2. PICK c \in Tasks : \E k \in 1..Len(frames[c]) : frames[c][k] = e
    BY DEF Acts
  <2> QED BY <1>2, <2>1, <2>2 DEF Unlinked
<1> QED
  BY <1>3, <1>4

\* The invariant is what NothingLeftDue and NoTimerDropped say, and more.
LEMMA InvImplies == TimerInv => NothingLeftDue /\ NoTimerDropped
<1> SUFFICES ASSUME TimerInv PROVE NothingLeftDue /\ NoTimerDropped
  OBVIOUS
<1>0. TypeOK /\ ~halted /\ jiffies \in Nat /\ expect \in [Nodes -> Nat] /\ armed \subseteq Timers
  <2>1. TypeOK /\ ~halted
    BY DEF TimerInv
  <2>2. jiffies \in 0..MaxJiffies /\ MaxJiffies \in Nat
    BY <2>1, TimerAssumption DEF TypeOK
  <2>3. jiffies \in Nat
    BY <2>2
  <2>4. expect \in [Nodes -> Nat] /\ armed \subseteq Timers
    BY <2>1 DEF TypeOK
  <2> QED BY <2>1, <2>3, <2>4
<1>1. PICK s, f, g, m : /\ Chain(list, s, f, g, m)
                        /\ Stack(expect, jiffies, Acts(frames), armed, s, g, m)
                        /\ Relinked(Acts(frames), s, f, g)
                        /\ TopOK(expect, jiffies, softirq_status, Running, s, g)
  BY DEF TimerInv, Accounted, Running
<1>2. /\ s \in Seq(Timers) /\ Len(s) \in Nat /\ f \in Nat /\ g \in Nat
      /\ f \in 1..g /\ g \in 1..(Len(s) + 1) /\ m \in {g, g + 1}
      /\ \A i, k \in 1..Len(s) : s[i] = s[k] => i = k
      /\ \A i \in 1..Len(s) : s[i] \in Nodes
  BY <1>1, ChainFacts
<1>3. Unlinked = {t \in Timers : Holding(Acts(frames), "func", t)}
  BY <1>0, UnlinkedIs
<1>4. Ring = {s[i] : i \in f..Len(s)}
  BY <1>1, RingIs
<1>5. ASSUME NEW t \in armed \ Unlinked PROVE \E i \in g..Len(s) : s[i] = t
  <2>1. PICK i \in 1..Len(s) : s[i] = t
    BY <1>1 DEF Stack
  <2>2. i \notin 1..(g - 1)
    BY <1>0, <1>1, <1>3, <2>1 DEF Stack
  <2>3. i \in g..Len(s)
    BY <1>2, <2>2
  <2> QED BY <2>1, <2>3
<1>6. NothingLeftDue
  <2>1. ASSUME Running = <<>> PROVE ~softirq_status /\ Ahead(expect, jiffies, s, g)
    BY <1>1, <2>1, EmptyStack
  <2>2. ASSUME Running = <<>>, NEW t \in armed \ Unlinked, expect[t] <= jiffies
        PROVE  \E u \in armed \ Unlinked : expect[u] > jiffies /\ t \in After(u)
    <3>1. PICK i \in g..Len(s) : s[i] = t
      BY <1>5, <2>2
    <3>2. g \in 1..Len(s) /\ g <= Len(s) /\ g \in g..Len(s)
      BY <1>2, <3>1
    <3>3. expect[s[g]] > jiffies
      BY <2>1, <2>2, <3>2 DEF Ahead
    <3>4. t \in After(s[g])
      BY <1>1, <3>1, <3>2, AfterIs
    <3>5. s[g] \in armed
      BY <1>1, <3>2 DEF Stack
    <3>6. s[g] \notin Unlinked
      <4> SUFFICES ASSUME Holding(Acts(frames), "func", s[g]) PROVE FALSE
        BY <1>3
      <4>1. PICK e \in Acts(frames) : e.pc = "func" /\ e.tmp = s[g]
        BY DEF Holding
      <4>2. PICK i2 \in 1..(g - 1) : e.tmp = s[i2]
        BY <1>1, <4>1 DEF Stack, FrameOK
      <4>3. i2 \in 1..Len(s) /\ i2 # g
        BY <1>2
      <4> QED BY <1>2, <3>2, <4>1, <4>2, <4>3
    <3> QED BY <3>3, <3>4, <3>5, <3>6
  <2> QED BY <1>0, <2>1, <2>2 DEF NothingLeftDue
<1>7. armed \subseteq Ring \cup Unlinked
  <2>1. \A i \in g..Len(s) : i \in f..Len(s)
    BY <1>2
  <2> QED BY <1>4, <1>5, <2>1
<1>8. ASSUME \A c \in Tasks : frames[c] = <<>>
      PROVE  /\ Ring = armed
             /\ \A n \in Nodes : n \in Ring \cup {ListHead} => list.prev[list.next[n]] = n
  <2>1. Acts(frames) = {}
    BY <1>8, NoActs
  <2>2. f = g
    BY <1>1, <2>1 DEF Relinked
  <2>3. m = g
    BY <1>1, <1>2, <2>1 DEF Stack, Holding
  <2>4. armed \ Unlinked = armed
    BY <1>3, <2>1 DEF Holding
  <2>5. Ring = armed
    <3>1. \A i \in g..Len(s) : s[i] \in armed
      BY <1>1 DEF Stack
    <3> QED BY <1>4, <1>5, <2>2, <2>4, <3>1
  <2>6. \A i \in 1..(Len(s) + 1) : list.prev[Node(s, i)] = IF i <= g THEN ListHead ELSE s[i - 1]
    BY <1>1, <2>3 DEF Chain
  <2>7. list.prev[list.next[ListHead]] = ListHead
    <3>1. list.next[ListHead] = Node(s, g)
      BY <1>1, <2>2 DEF Chain
    <3>2. g \in 1..(Len(s) + 1) /\ g <= g
      BY <1>2
    <3> QED BY <2>6, <3>1, <3>2
  <2>8. ASSUME NEW i \in g..Len(s) PROVE list.prev[list.next[s[i]]] = s[i]
    <3>1. i \in 1..Len(s) /\ i + 1 \in 1..(Len(s) + 1) /\ ~(i + 1 <= g) /\ i + 1 - 1 = i
      BY <1>2
    <3>2. list.next[s[i]] = Node(s, i + 1)
      BY <1>1, <3>1 DEF Chain
    <3> QED BY <2>6, <3>1, <3>2
  <2> QED BY <1>4, <2>2, <2>5, <2>7, <2>8
<1> QED
  BY <1>0, <1>6, <1>7, <1>8 DEF NoTimerDropped

\* The initial state.
LEMMA InitTimer == Init => TimerInv
<1> SUFFICES ASSUME Init PROVE TimerInv
  OBVIOUS
<1>0. /\ jiffies = 0 /\ softirq_status = FALSE /\ armed = {} /\ halted = FALSE /\ current \in Tasks
      /\ frames = [c \in Tasks |-> <<>>] /\ need_schedule = {}
      /\ list = [next |-> [n \in Nodes |-> n], prev |-> [n \in Nodes |-> n]]
      /\ expect = [n \in Nodes |-> IF n = ListHead THEN Never ELSE 0]
      /\ ListHead \in Nodes
  BY DEF Init, Nodes
<1>1. TypeOK
  <2>1. MaxJiffies \in Nat /\ Never \in Nat
    BY TimerAssumption DEF Never
  <2>2. expect \in [Nodes -> Nat]
    BY <1>0, <2>1
  <2>3. list \in [next : [Nodes -> Nodes], prev : [Nodes -> Nodes]] /\ jiffies \in 0..MaxJiffies
    BY <1>0, <2>1
  <2>4. frames \in [Tasks -> Seq([pc : Places, tmp : Nodes])]
    <3>1. <<>> \in Seq([pc : Places, tmp : Nodes])
      OBVIOUS
    <3> QED BY <1>0, <3>1
  <2>5. armed \subseteq Timers /\ softirq_status \in BOOLEAN /\ halted \in BOOLEAN
        /\ current \in Tasks /\ need_schedule \subseteq Tasks
    BY <1>0
  <2> QED BY <2>2, <2>3, <2>4, <2>5 DEF TypeOK
<1>2. expect[ListHead] = Never /\ list.next[ListHead] = ListHead /\ list.prev[ListHead] = ListHead
  BY <1>0
<1>3. (\A c \in Tasks : frames[c] = <<>>) /\ Acts(frames) = {}
  BY <1>0, NoActs
<1>4. PICK s : s = <<>> /\ s \in Seq(Timers) /\ Len(s) = 0
  <2>1. <<>> \in Seq(Timers) /\ Len(<<>>) = 0
    OBVIOUS
  <2> QED BY <2>1
<1>5. Chain(list, s, 1, 1, 1)
  <2>2. \A i \in Int : Node(s, i) = ListHead
    BY <1>4 DEF Node
  <2>3. \A i \in 1..(Len(s) + 1) : i = 1
    BY <1>4
  <2>4. \A i \in 1..Len(s) : FALSE
    BY <1>4
  <2> QED BY <1>2, <1>4, <2>2, <2>3, <2>4 DEF Chain
<1>6. Stack(expect, jiffies, Acts(frames), armed, s, 1, 1)
  BY <1>0, <1>3, <1>4 DEF Stack
<1>7. TopOK(expect, jiffies, softirq_status, frames[current], s, 1)
  <2>1. Ahead(expect, jiffies, s, 1)
    BY <1>4 DEF Ahead
  <2> QED BY <1>0, <2>1, Quiet
<1>8. Accounted(list, expect, jiffies, softirq_status, frames, current, armed)
  <2>1. Relinked(Acts(frames), s, 1, 1)
    BY DEF Relinked
  <2> QED BY <1>5, <1>6, <1>7, <2>1 DEF Accounted
<1> QED
  BY <1>0, <1>1, <1>2, <1>3, <1>8 DEF TimerInv, Quiescent

\* Every step keeps the invariant.
LEMMA NextTimer == TimerInv /\ [Next]_vars => TimerInv'
<1> SUFFICES ASSUME TimerInv, [Next]_vars PROVE TimerInv'
  OBVIOUS
<1>0. /\ list \in ListType /\ expect \in [Nodes -> Nat] /\ jiffies \in 0..MaxJiffies /\ jiffies \in Nat
      /\ softirq_status \in BOOLEAN /\ frames \in FramesType /\ armed \subseteq Timers
      /\ current \in Tasks /\ need_schedule \subseteq Tasks
      /\ halted = FALSE /\ expect[ListHead] = Never /\ MaxJiffies \in Nat
      /\ Quiescent(jiffies, softirq_status, frames) /\ ListHead \in Nodes
  <2>1. TypeOK /\ ~halted /\ expect[ListHead] = Never /\ Quiescent(jiffies, softirq_status, frames)
    BY DEF TimerInv
  <2>2. jiffies \in 0..MaxJiffies /\ MaxJiffies \in Nat /\ halted \in BOOLEAN
    BY <2>1, TimerAssumption DEF TypeOK
  <2>3. jiffies \in Nat
    BY <2>2
  <2>4. /\ list \in ListType /\ expect \in [Nodes -> Nat] /\ frames \in FramesType
        /\ softirq_status \in BOOLEAN /\ armed \subseteq Timers
        /\ current \in Tasks /\ need_schedule \subseteq Tasks
    BY <2>1 DEF TypeOK, ListType, FramesType, Frame
  <2>5. halted = FALSE /\ ListHead \in Nodes
    BY <2>1, <2>2 DEF Nodes
  <2> QED BY <2>1, <2>2, <2>3, <2>4, <2>5
<1>1. PICK s, f, g, m : /\ Chain(list, s, f, g, m)
                        /\ Stack(expect, jiffies, Acts(frames), armed, s, g, m)
                        /\ Relinked(Acts(frames), s, f, g)
                        /\ TopOK(expect, jiffies, softirq_status, Running, s, g)
                        /\ jiffies = 0 => g = 1
  BY DEF TimerInv, Accounted, Running
<1>2. /\ s \in Seq(Timers) /\ Len(s) \in Nat /\ f \in Nat /\ g \in Nat /\ m \in Nat
      /\ f \in 1..g /\ g \in 1..(Len(s) + 1) /\ m \in 1..(Len(s) + 1) /\ m \in {g, g + 1}
      /\ \A i, k \in 1..Len(s) : s[i] = s[k] => i = k
      /\ list.next[ListHead] = Node(s, f)
      /\ \A i \in 1..Len(s) : s[i] \in Timers /\ s[i] \in Nodes /\ s[i] # ListHead
      /\ \A i \in 1..Len(s) : Node(s, i) = s[i]
      /\ \A i \in Int : i \notin 1..Len(s) => Node(s, i) = ListHead
  BY <1>1, ChainFacts
<1>3. Running # <<>> => jiffies # 0
  BY <1>0 DEF Quiescent, Running
\* What the types need of a step.
<1>4. ASSUME list' \in ListType, expect' \in [Nodes -> Nat], jiffies' \in 0..MaxJiffies,
             softirq_status' \in BOOLEAN, frames' \in FramesType, armed' \subseteq Timers,
             current' \in Tasks, need_schedule' \subseteq Tasks, halted' = FALSE,
             expect'[ListHead] = Never,
             Quiescent(jiffies', softirq_status', frames'),
             Accounted(list', expect', jiffies', softirq_status', frames', current', armed')
      PROVE  TimerInv'
  <2>1. TypeOK'
    BY <1>4 DEF TypeOK, ListType, FramesType, Frame
  <2> QED BY <1>4, <2>1 DEF TimerInv
\* A statement of the innermost activation, which becomes e.
<1>5. ASSUME Running # <<>>, NEW e \in Frame, Become(e), list' \in ListType, armed' \subseteq Timers,
             softirq_status' \in BOOLEAN, halted' = FALSE, UNCHANGED <<jiffies, expect>>,
             NEW f2, NEW g2, NEW m2, Chain(list', s, f2, g2, m2),
             Stack(expect, jiffies, Acts(frames'), armed', s, g2, m2),
             Relinked(Acts(frames'), s, f2, g2), Claim(e, expect, jiffies, softirq_status', s, g2)
      PROVE  TimerInv'
  <2>1. /\ frames' \in FramesType /\ current' = current /\ need_schedule' = need_schedule
        /\ Innermost(frames'[current], e)
    BY <1>0, <1>5, BecomeTop
  <2>2. TopOK(expect, jiffies, softirq_status', frames'[current], s, g2)
    BY <1>5, <2>1, NewTop
  <2>3. jiffies # 0
    BY <1>3, <1>5
  <2>4. Accounted(list', expect, jiffies, softirq_status', frames', current, armed')
    BY <1>5, <2>2, <2>3 DEF Accounted
  <2>5. Quiescent(jiffies, softirq_status', frames')
    BY <2>3 DEF Quiescent
  <2> QED BY <1>0, <1>4, <1>5, <2>1, <2>4, <2>5
\* One that leaves the list and the timers alone, from place q.
<1>6. ASSUME NEW q, At(q), q \notin {"del_next", "func"}, NEW e \in Frame, Become(e),
             FrameOK(e, expect, jiffies, s, g, m),
             f # g => (Live(Last(Running), s, g) => Live(e, s, g)),
             softirq_status' \in BOOLEAN, Claim(e, expect, jiffies, softirq_status', s, g),
             halted' = FALSE, UNCHANGED <<jiffies, list, expect, armed>>
      PROVE  TimerInv'
  <2>1. Running # <<>> /\ Last(Running).pc = q
    BY <1>6 DEF At
  <2>2. Replaced(Acts(frames), Acts(frames'), Last(Running), e)
    BY <1>0, <1>6, <2>1, BecomeTop
  <2>3. Stack(expect, jiffies, Acts(frames'), armed, s, g, m)
    <3>1. Last(Running).pc \notin {"del_next", "func"}
      BY <1>6, <2>1
    <3> QED BY <1>1, <1>6, <2>2, <3>1, Moves
  <2>4. Relinked(Acts(frames'), s, f, g)
    <3>1. Acts(frames) \ {Last(Running)} \subseteq Acts(frames') /\ e \in Acts(frames')
      BY <2>2 DEF Replaced
    <3>2. f # g => (Live(Last(Running), s, g) => \E d \in Acts(frames') : Live(d, s, g))
      BY <1>6, <3>1
    <3> QED BY <1>1, <3>1, <3>2, RelinkedKept
  <2> QED BY <1>0, <1>1, <1>5, <1>6, <2>1, <2>3, <2>4
\* What an activation at place q relies on and has made sure of.
<1>7. ASSUME NEW q, At(q)
      PROVE  /\ Running # <<>> /\ Last(Running).pc = q /\ Last(Running).tmp = Tmp
             /\ Last(Running) \in Frame /\ Tmp \in Nodes
             /\ FrameOK(Last(Running), expect, jiffies, s, g, m)
             /\ Claim(Last(Running), expect, jiffies, softirq_status, s, g)
  <2>1. Running # <<>> /\ Last(Running).pc = q /\ Last(Running).tmp = Tmp
    BY <1>7 DEF At, Tmp
  <2>2. Last(Running) \in Acts(frames) /\ Innermost(Running, Last(Running))
    BY <1>0, <2>1, PopTop
  <2>3. Last(Running) \in Frame
    BY <2>2 DEF Acts
  <2>4. FrameOK(Last(Running), expect, jiffies, s, g, m)
    BY <1>1, <2>2 DEF Stack
  <2>5. Claim(Last(Running), expect, jiffies, softirq_status, s, g)
    BY <1>1, <2>2, OldTop
  <2> QED BY <2>1, <2>3, <2>4, <2>5 DEF Frame
\* An action that only changes the place, from q to p.
<1>8. ASSUME NEW p \in Places, NEW q, At(q), Goto(p)
      PROVE  \E e \in Frame : e.pc = p /\ e.tmp = Tmp /\ Become(e)
  <2>1. Become([pc |-> p, tmp |-> Tmp])
    BY <1>8 DEF Goto
  <2>2. [pc |-> p, tmp |-> Tmp] \in Frame
    BY <1>7, <1>8 DEF Frame
  <2> QED BY <2>1, <2>2
<1>9. CASE While
  <2>1. At("while") /\ UNCHANGED <<jiffies, softirq_status, list, expect, armed, halted>>
    BY <1>9 DEF While
  <2>2. PICK p \in {"first", "end"} : Goto(p) /\ (p = "end" => ~softirq_status)
    BY <1>9 DEF While
  <2>3. PICK e \in Frame : e.pc = p /\ e.tmp = Tmp /\ Become(e)
    BY <1>8, <2>1, <2>2 DEF Places
  <2>4. FrameOK(e, expect, jiffies, s, g, m)
    BY <2>2, <2>3, FreePlace
  <2>5. ~Live(Last(Running), s, g)
    BY <1>7, <2>1 DEF Live
  <2>6. Claim(e, expect, jiffies, softirq_status', s, g)
    BY <1>7, <2>1, <2>2, <2>3 DEF Claim
  <2> QED BY <1>0, <1>6, <2>1, <2>3, <2>4, <2>5, <2>6
<1>10. CASE First
  <2>1. At("first") /\ UNCHANGED <<jiffies, softirq_status, list, expect, armed, halted>>
    BY <1>10 DEF First
  <2>2. PICK p \in {"load", "rest"} : Goto(p) /\ (p = "rest" => ~softirq_status)
    BY <1>10 DEF First
  <2>3. PICK e \in Frame : e.pc = p /\ e.tmp = Tmp /\ Become(e)
    BY <1>8, <2>1, <2>2 DEF Places
  <2>4. FrameOK(e, expect, jiffies, s, g, m)
    BY <2>2, <2>3, FreePlace
  <2>5. ~Live(Last(Running), s, g)
    BY <1>7, <2>1 DEF Live
  <2>6. Claim(e, expect, jiffies, softirq_status', s, g)
    BY <1>7, <2>1, <2>2, <2>3 DEF Claim
  <2> QED BY <1>0, <1>6, <2>1, <2>3, <2>4, <2>5, <2>6
<1>11. CASE Clear
  <2>1. At("clear") /\ UNCHANGED <<jiffies, list, expect, armed, halted>> /\ softirq_status' = FALSE
    BY <1>11 DEF Clear
  <2>2. Goto("rest") /\ "rest" \in Places
    BY <1>11 DEF Clear, Places
  <2>3. PICK e \in Frame : e.pc = "rest" /\ e.tmp = Tmp /\ Become(e)
    BY <1>8, <2>1, <2>2
  <2>4. FrameOK(e, expect, jiffies, s, g, m)
    BY <2>3, FreePlace
  <2>5. ~Live(Last(Running), s, g)
    BY <1>7, <2>1 DEF Live
  <2>6. Claim(e, expect, jiffies, softirq_status', s, g)
    BY <1>7, <2>1, <2>3 DEF Claim
  <2> QED BY <1>0, <1>6, <2>1, <2>3, <2>4, <2>5, <2>6
<1>12. CASE Rest
  <2>1. At("rest") /\ UNCHANGED <<jiffies, softirq_status, list, expect, armed>> /\ halted' = softirq_status
    BY <1>12 DEF Rest
  <2>2. Goto("while") /\ "while" \in Places
    BY <1>12 DEF Rest, Places
  <2>3. PICK e \in Frame : e.pc = "while" /\ e.tmp = Tmp /\ Become(e)
    BY <1>8, <2>1, <2>2
  <2>4. FrameOK(e, expect, jiffies, s, g, m)
    BY <2>3, FreePlace
  <2>5. ~Live(Last(Running), s, g)
    BY <1>7, <2>1 DEF Live
  <2>6. softirq_status = FALSE
    BY <1>0, <1>7, <2>1 DEF Claim
  <2>7. Claim(e, expect, jiffies, softirq_status', s, g)
    BY <1>7, <2>1, <2>3 DEF Claim
  <2> QED BY <1>0, <1>6, <2>1, <2>3, <2>4, <2>5, <2>6, <2>7
<1>13. CASE Load
  <2>1. /\ At("load") /\ UNCHANGED <<jiffies, softirq_status, list, expect, armed, halted>>
        /\ Become([pc |-> "empty", tmp |-> list.next[ListHead]])
    BY <1>13 DEF Load
  <2>2. list.next[ListHead] \in Nodes
    BY <1>0 DEF ListType
  <2>3. PICK e \in Frame : e.pc = "empty" /\ e.tmp = Node(s, f) /\ Become(e)
    <3>1. [pc |-> "empty", tmp |-> list.next[ListHead]] \in Frame
      BY <2>2 DEF Frame, Places
    <3> QED BY <1>2, <2>1, <3>1
  <2>4. FrameOK(e, expect, jiffies, s, g, m)
    BY <1>2, <2>3 DEF FrameOK
  <2>5. ASSUME f # g PROVE Live(e, s, g)
    <3>1. f \in 1..(g - 1) /\ f \in 1..Len(s)
      BY <1>2, <2>5
    <3> QED BY <1>2, <2>3, <3>1 DEF Live
  <2>6. Claim(e, expect, jiffies, softirq_status', s, g)
    BY <1>7, <2>1, <2>3 DEF Claim
  <2> QED BY <1>0, <1>6, <2>1, <2>3, <2>4, <2>5, <2>6
<1>14. CASE Empty
  <2>1. At("empty") /\ UNCHANGED <<jiffies, softirq_status, list, expect, armed, halted>>
    BY <1>14 DEF Empty
  <2>2. PICK p \in {"clear", "due"} : Goto(p) /\ (p = "clear" => list_is_empty(list, ListHead))
    BY <1>14 DEF Empty
  <2>3. PICK e \in Frame : e.pc = p /\ e.tmp = Tmp /\ Become(e)
    BY <1>8, <2>1, <2>2 DEF Places
  <2>4. FrameOK(e, expect, jiffies, s, g, m)
    BY <1>7, <2>1, <2>2, <2>3 DEF FrameOK
  <2>5. ASSUME p = "clear" PROVE f = g /\ Ahead(expect, jiffies, s, g)
    <3>1. Node(s, f) = ListHead
      BY <1>2, <2>2, <2>5 DEF list_is_empty
    <3>2. f \notin 1..Len(s)
      BY <1>2, <3>1
    <3>3. f = Len(s) + 1 /\ g = Len(s) + 1 /\ ~(g <= Len(s))
      BY <1>2, <3>2
    <3> QED BY <3>3 DEF Ahead
  <2>6. f # g => (Live(Last(Running), s, g) => Live(e, s, g))
    BY <1>7, <2>1, <2>2, <2>3, <2>5 DEF Live
  <2>7. Claim(e, expect, jiffies, softirq_status', s, g)
    BY <1>7, <2>1, <2>2, <2>3, <2>5 DEF Claim
  <2> QED BY <1>0, <1>6, <2>1, <2>3, <2>4, <2>6, <2>7
\* The timers activations have gone past are due.
<1>15. \A i \in 1..(g - 1) : i \in 1..Len(s) /\ expect[s[i]] <= jiffies
  BY <1>1, <1>2 DEF Stack
<1>16. CASE Due
  <2>1. At("due") /\ UNCHANGED <<jiffies, softirq_status, list, expect, armed, halted>>
    BY <1>16 DEF Due
  <2>2. PICK p \in {"clear", "del_prev"} : /\ Goto(p)
                                           /\ p = "clear" => ~(expect[Tmp] <= jiffies)
                                           /\ p = "del_prev" => expect[Tmp] <= jiffies
    BY <1>16 DEF Due
  <2>3. PICK e \in Frame : e.pc = p /\ e.tmp = Tmp /\ Become(e)
    BY <1>8, <2>1, <2>2 DEF Places
  <2>4. PICK i \in 1..g : Tmp = Node(s, i)
    BY <1>7, <2>1 DEF FrameOK
  <2>5. ~(expect[ListHead] <= jiffies)
    BY <1>0 DEF Never
  <2>6. expect[Tmp] <= jiffies => i <= Len(s) /\ Tmp = s[i]
    <3>1. CASE i \in 1..Len(s)
      BY <1>2, <2>4, <3>1
    <3>2. CASE i \notin 1..Len(s)
      BY <1>2, <2>4, <2>5, <3>2
    <3> QED BY <3>1, <3>2
  <2>7. FrameOK(e, expect, jiffies, s, g, m)
    BY <2>2, <2>3, <2>6 DEF FrameOK
  <2>8. ASSUME p = "clear" PROVE ~Live(Last(Running), s, g) /\ Ahead(expect, jiffies, s, g)
    <3>1. ~(expect[Tmp] <= jiffies)
      BY <2>2, <2>8
    <3>2. \A k \in 1..(g - 1) : Tmp # s[k]
      BY <1>15, <3>1
    <3>3. ~Live(Last(Running), s, g)
      BY <1>7, <2>1, <3>2 DEF Live
    <3>4. ASSUME g <= Len(s) PROVE expect[s[g]] > jiffies
      <4>1. i \in 1..Len(s) /\ Tmp = s[i]
        BY <1>2, <2>4, <3>4
      <4>2. i = g
        BY <1>2, <3>2, <4>1
      <4>3. expect[Tmp] \in Nat
        BY <1>0, <1>7, <2>1
      <4> QED BY <1>0, <3>1, <4>1, <4>2, <4>3
    <3> QED BY <3>3, <3>4 DEF Ahead
  <2>9. f # g => (Live(Last(Running), s, g) => Live(e, s, g))
    BY <1>7, <2>1, <2>2, <2>3, <2>8 DEF Live
  <2>10. Claim(e, expect, jiffies, softirq_status', s, g)
    BY <1>7, <2>1, <2>2, <2>3, <2>8 DEF Claim
  <2> QED BY <1>0, <1>6, <2>1, <2>3, <2>7, <2>9, <2>10
<1>17. CASE DelPrev
  <2>1. /\ At("del_prev") /\ UNCHANGED <<jiffies, softirq_status, expect, armed, halted>>
        /\ list' = del_prev(list, Tmp) /\ Goto("del_next") /\ "del_next" \in Places
    BY <1>17 DEF DelPrev, Places
  <2>2. PICK i \in 1..g : i <= Len(s) /\ Tmp = s[i] /\ expect[s[i]] <= jiffies
    BY <1>7, <2>1 DEF FrameOK
  <2>3. PICK e \in Frame : e.pc = "del_next" /\ e.tmp = s[i] /\ Become(e)
    BY <1>8, <2>1, <2>2
  <2>4. Replaced(Acts(frames), Acts(frames'), Last(Running), e)
    BY <1>0, <1>7, <2>1, <2>3, BecomeTop
  <2>5. PICK m2 : m2 = IF i + 1 <= m THEN m ELSE i + 1
    OBVIOUS
  <2>6. m2 \in Nat
    BY <1>2, <2>5
  <2>7. list' \in ListType /\ Chain(list', s, f, g, m2) /\ i + 1 <= m2 /\ m <= m2 /\ (m2 # m => i = g)
    <3>1. list' = del_prev(list, s[i])
      BY <2>1, <2>2
    <3> QED BY <1>0, <1>1, <2>2, <2>5, <3>1, UnlinkPrev
  <2>8. Stack(expect, jiffies, Acts(frames'), armed, s, g, m2)
    <3>1. Last(Running).pc = "del_prev"
      BY <1>7, <2>1
    <3> QED BY <1>1, <1>2, <2>2, <2>3, <2>4, <2>6, <2>7, <3>1, StackDelPrev
  <2>9. Relinked(Acts(frames'), s, f, g)
    <3>1. Live(Last(Running), s, g) => Live(e, s, g)
      BY <1>7, <2>1, <2>2, <2>3 DEF Live
    <3>2. Acts(frames) \ {Last(Running)} \subseteq Acts(frames') /\ e \in Acts(frames')
      BY <2>4 DEF Replaced
    <3>3. f # g => (Live(Last(Running), s, g) => \E d \in Acts(frames') : Live(d, s, g))
      BY <3>1, <3>2
    <3> QED BY <1>1, <3>2, <3>3, RelinkedKept
  <2>10. Claim(e, expect, jiffies, softirq_status', s, g)
    BY <1>7, <2>1, <2>3 DEF Claim
  <2> QED BY <1>0, <1>5, <1>7, <2>1, <2>3, <2>7, <2>8, <2>9, <2>10
<1>18. CASE DelNext
  <2>1. /\ At("del_next") /\ UNCHANGED <<jiffies, softirq_status, expect, armed, halted>>
        /\ list' = del_next(list, Tmp) /\ Goto("func") /\ "func" \in Places
    BY <1>18 DEF DelNext, Places
  <2>2. PICK i \in 1..g : i <= Len(s) /\ i + 1 <= m /\ Tmp = s[i] /\ expect[s[i]] <= jiffies
    BY <1>7, <2>1 DEF FrameOK
  <2>3. PICK e \in Frame : e.pc = "func" /\ e.tmp = s[i] /\ Become(e)
    BY <1>8, <2>1, <2>2
  <2>4. Replaced(Acts(frames), Acts(frames'), Last(Running), e)
    BY <1>0, <1>7, <2>1, <2>3, BecomeTop
  <2>5. PICK g2 : g2 = IF i = g THEN g + 1 ELSE g
    OBVIOUS
  <2>6. list' \in ListType /\ Chain(list', s, i + 1, g2, m)
    <3>1. list' = del_next(list, s[i])
      BY <2>1, <2>2
    <3> QED BY <1>0, <1>1, <2>2, <2>5, <3>1, UnlinkNext
  <2>7. Stack(expect, jiffies, Acts(frames'), armed, s, g2, m)
    <3>1. Last(Running).pc = "del_next" /\ Last(Running).tmp = s[i]
      BY <1>7, <2>1, <2>2
    <3>2. Unlinks(expect, jiffies, s, g, m, i, g2)
      BY <1>2, <2>2, <2>5 DEF Unlinks
    <3> QED BY <1>1, <2>3, <2>4, <3>1, <3>2, StackDelNext
  <2>8. Relinked(Acts(frames'), s, i + 1, g2)
    <3>1. e \in Acts(frames') /\ Live(e, s, g2)
      BY <2>3, <2>4 DEF Replaced, Live
    <3> QED BY <3>1 DEF Relinked
  <2>9. Claim(e, expect, jiffies, softirq_status', s, g2)
    <3>1. ~softirq_status => Ahead(expect, jiffies, s, g)
      BY <1>7, <2>1 DEF Claim
    <3>2. Ahead(expect, jiffies, s, g) => i # g
      <4>1. expect[s[i]] \in Nat
        BY <1>0, <1>2, <2>2
      <4> QED BY <1>0, <2>2, <4>1 DEF Ahead
    <3>3. i # g => g2 = g
      BY <2>5
    <3>4. ~softirq_status => Ahead(expect, jiffies, s, g2)
      BY <3>1, <3>2, <3>3
    <3> QED BY <2>1, <2>3, <3>4 DEF Claim
  <2> QED BY <1>0, <1>5, <1>7, <2>1, <2>3, <2>6, <2>7, <2>8, <2>9
<1>19. CASE Func
  <2>1. /\ At("func") /\ UNCHANGED <<jiffies, softirq_status, list, expect, halted>>
        /\ armed' = armed \ {Tmp} /\ Goto("load") /\ "load" \in Places
    BY <1>19 DEF Func, Places
  <2>2. PICK e \in Frame : e.pc = "load" /\ e.tmp = Tmp /\ Become(e)
    BY <1>8, <2>1
  <2>3. Replaced(Acts(frames), Acts(frames'), Last(Running), e)
    BY <1>0, <1>7, <2>1, <2>2, BecomeTop
  <2>4. Stack(expect, jiffies, Acts(frames'), armed', s, g, m)
    <3>1. Last(Running).pc = "func" /\ Last(Running).tmp = Tmp
      BY <1>7, <2>1
    <3> QED BY <1>1, <1>2, <2>1, <2>2, <2>3, <3>1, StackFunc
  <2>5. Relinked(Acts(frames'), s, f, g)
    <3>1. e \in Acts(frames') /\ Live(e, s, g)
      BY <2>2, <2>3 DEF Replaced, Live
    <3> QED BY <3>1 DEF Relinked
  <2>6. Claim(e, expect, jiffies, softirq_status', s, g)
    BY <1>7, <2>1, <2>2 DEF Claim
  <2>7. armed' \subseteq Timers
    BY <1>0, <2>1
  <2> QED BY <1>0, <1>1, <1>5, <1>7, <2>1, <2>2, <2>4, <2>5, <2>6, <2>7
\* When nothing is due ahead and nothing pending, any task may go on.
<1>20. ASSUME softirq_status' = FALSE, jiffies' \in 0..MaxJiffies, jiffies' # 0 \/ jiffies = 0,
              Ahead(expect, jiffies', s, g), Stack(expect, jiffies', Acts(frames'), armed, s, g, m),
              Relinked(Acts(frames'), s, f, g), frames' \in FramesType,
              jiffies' # 0 \/ frames' = frames, current' \in Tasks, need_schedule' \subseteq Tasks,
              UNCHANGED <<list, expect, armed, halted>>
       PROVE  TimerInv'
  <2>1. TopOK(expect, jiffies', softirq_status', frames'[current'], s, g)
    BY <1>20, Quiet
  <2>2. Accounted(list, expect, jiffies', softirq_status', frames', current', armed)
    BY <1>1, <1>20, <2>1 DEF Accounted
  <2>3. Quiescent(jiffies', softirq_status', frames')
    BY <1>0, <1>20 DEF Quiescent
  <2> QED BY <1>0, <1>4, <1>20, <2>2, <2>3
<1>21. ASSUME NEW need \in SUBSET Tasks, reschedule(need)
       PROVE  current' \in Tasks /\ need_schedule' \subseteq Tasks
  BY <1>0, <1>21 DEF reschedule
<1>22. CASE End
  <2>1. /\ At("end") /\ UNCHANGED <<jiffies, softirq_status, list, expect, armed, halted>>
        /\ frames' = [frames EXCEPT ![current] = Front(@)] /\ reschedule(need_schedule)
    BY <1>22 DEF End
  <2>2. softirq_status = FALSE /\ Ahead(expect, jiffies, s, g)
    BY <1>0, <1>7, <2>1 DEF Claim
  <2>3. /\ frames' \in FramesType
        /\ Acts(frames') \subseteq Acts(frames) /\ Acts(frames) \ {Last(Running)} \subseteq Acts(frames')
    BY <1>0, <1>7, <2>1, PopTop
  <2>4. Stack(expect, jiffies, Acts(frames'), armed, s, g, m)
    BY <1>1, <1>7, <2>1, <2>3, Pops
  <2>5. Relinked(Acts(frames'), s, f, g)
    <3>1. f # g => (Live(Last(Running), s, g) => \E d \in Acts(frames') : Live(d, s, g))
      BY <1>7, <2>1 DEF Live
    <3> QED BY <1>1, <2>3, <3>1, RelinkedKept
  <2>6. current' \in Tasks /\ need_schedule' \subseteq Tasks
    BY <1>0, <1>21, <2>1
  <2>7. jiffies # 0
    BY <1>3, <1>7, <2>1
  <2> QED BY <1>0, <1>20, <2>1, <2>2, <2>3, <2>4, <2>5, <2>6, <2>7
\* The end of an interrupt with a bit pending.
<1>23. ASSUME frames' = [frames EXCEPT ![current] = Append(@, Activation)], current' = current,
              need_schedule' \subseteq Tasks, softirq_status' = TRUE,
              jiffies' \in 0..MaxJiffies, jiffies' # 0,
              Stack(expect, jiffies', Acts(frames), armed, s, g, m),
              UNCHANGED <<list, expect, armed, halted>>
       PROVE  TimerInv'
  <2>1. /\ frames' \in FramesType /\ Innermost(frames'[current], Activation)
        /\ Acts(frames') = Acts(frames) \cup {Activation}
    BY <1>0, <1>23, PushTop
  <2>2. Stack(expect, jiffies', Acts(frames'), armed, s, g, m)
    BY <1>23, <2>1, Pushes
  <2>3. Relinked(Acts(frames'), s, f, g)
    BY <1>1, <2>1 DEF Relinked
  <2>4. Claim(Activation, expect, jiffies', softirq_status', s, g)
    BY <1>23 DEF Claim, Activation
  <2>5. TopOK(expect, jiffies', softirq_status', frames'[current'], s, g)
    BY <1>23, <2>1, <2>4, NewTop
  <2>6. Accounted(list, expect, jiffies', softirq_status', frames', current', armed)
    BY <1>1, <1>23, <2>2, <2>3, <2>5 DEF Accounted
  <2>7. Quiescent(jiffies', softirq_status', frames')
    BY <1>23 DEF Quiescent
  <2> QED BY <1>0, <1>4, <1>23, <2>1, <2>6, <2>7
<1>24. \A need \in Asks : need \in SUBSET Tasks
  BY <1>0 DEF Asks
<1>25. CASE HPET_handler
  <2>1. /\ jiffies < MaxJiffies /\ jiffies' = jiffies + 1 /\ UNCHANGED <<list, expect, armed, halted>>
        /\ softirq_status' = hpet_raise(jiffies + 1)
    BY <1>25 DEF HPET_handler
  <2>2. PICK need \in Asks : ret_from_intr(hpet_raise(jiffies + 1), need)
    BY <1>25 DEF HPET_handler
  <2>3. jiffies' \in 0..MaxJiffies /\ jiffies' # 0
    BY <1>0, <2>1
  <2>4. Stack(expect, jiffies', Acts(frames), armed, s, g, m)
    BY <1>0, <1>1, <1>2, <2>1, Later
  <2>5. CASE hpet_raise(jiffies + 1)
    <3>1. /\ frames' = [frames EXCEPT ![current] = Append(@, Activation)]
          /\ current' = current /\ need_schedule' = need
      BY <2>2, <2>5 DEF ret_from_intr
    <3>2. softirq_status' = TRUE
      BY <1>0, <2>1, <2>5 DEF hpet_raise
    <3> QED BY <1>23, <1>24, <2>1, <2>3, <2>4, <3>1, <3>2
  <2>6. CASE ~hpet_raise(jiffies + 1)
    <3>1. frames' = frames /\ reschedule(need)
      BY <2>2, <2>6 DEF ret_from_intr
    <3>2. softirq_status' = FALSE /\ ~(expect[list.next[ListHead]] <= jiffies')
      BY <1>0, <2>1, <2>6 DEF hpet_raise
    <3>3. current' \in Tasks /\ need_schedule' \subseteq Tasks
      BY <1>21, <1>24, <3>1
    <3>4. ASSUME g <= Len(s) PROVE expect[s[g]] > jiffies'
      <4>1. f \in 1..Len(s) /\ list.next[ListHead] = s[f]
        BY <1>2, <3>4
      <4>2. \A i \in 1..(g - 1) : expect[s[i]] <= jiffies'
        BY <2>4 DEF Stack
      <4>3. f = g
        BY <1>2, <3>2, <4>1, <4>2
      <4>4. expect[s[g]] \in Nat
        BY <1>0, <1>2, <4>1, <4>3
      <4> QED BY <1>0, <2>1, <3>2, <4>1, <4>3, <4>4
    <3>5. Ahead(expect, jiffies', s, g)
      BY <3>4 DEF Ahead
    <3> QED BY <1>0, <1>1, <1>20, <2>1, <2>3, <2>4, <3>1, <3>2, <3>3, <3>5
  <2> QED BY <2>5, <2>6
<1>26. CASE OtherIrq
  <2>1. UNCHANGED <<jiffies, softirq_status, list, expect, armed, halted>>
    BY <1>26 DEF OtherIrq
  <2>2. PICK need \in Asks : ret_from_intr(softirq_status, need)
    BY <1>26 DEF OtherIrq
  <2>3. CASE softirq_status
    <3>1. /\ frames' = [frames EXCEPT ![current] = Append(@, Activation)]
          /\ current' = current /\ need_schedule' = need
      BY <2>2, <2>3 DEF ret_from_intr
    <3>2. jiffies # 0 /\ softirq_status = TRUE
      BY <1>0, <2>3 DEF Quiescent
    <3> QED BY <1>0, <1>1, <1>23, <1>24, <2>1, <3>1, <3>2
  <2>4. CASE ~softirq_status
    <3>1. frames' = frames /\ reschedule(need)
      BY <2>2, <2>4 DEF ret_from_intr
    <3>2. current' \in Tasks /\ need_schedule' \subseteq Tasks
      BY <1>21, <1>24, <3>1
    <3>3. Ahead(expect, jiffies, s, g) /\ softirq_status = FALSE
      BY <1>0, <1>1, <2>4 DEF TopOK
    <3> QED BY <1>0, <1>1, <1>20, <2>1, <3>1, <3>2, <3>3
  <2> QED BY <2>3, <2>4
<1>27. CASE SystemCall
  <2>1. Running = <<>> /\ UNCHANGED <<jiffies, softirq_status, list, expect, frames, armed, halted>>
    BY <1>27 DEF SystemCall
  <2>2. current' \in Tasks /\ need_schedule' \subseteq Tasks
    BY <1>0, <1>24, <1>27 DEF SystemCall
  <2>3. Ahead(expect, jiffies, s, g) /\ softirq_status = FALSE
    BY <1>0, <1>1, <2>1, EmptyStack
  <2> QED BY <1>0, <1>1, <1>20, <2>1, <2>2, <2>3
<1>28. ASSUME NEW t \in Timers, NEW d \in Delays, add_timer(t, d) PROVE TimerInv'
  <2>1. /\ jiffies = 0 /\ t \notin armed /\ jiffies + d <= MaxJiffies
        /\ expect' = [expect EXCEPT ![t] = jiffies + d]
        /\ list' = list_add_to_behind(list_init(list, t), InsertPoint(list, expect, jiffies + d), t)
        /\ armed' = armed \cup {t}
        /\ UNCHANGED <<jiffies, softirq_status, current, need_schedule, frames, halted>>
    BY <1>28 DEF add_timer
  <2>2. d \in Nat \ {0} /\ t \in Nodes /\ t # ListHead
    BY TimerAssumption DEF Nodes
  <2>3. jiffies + d = d /\ d <= expect[ListHead]
    BY <1>0, <2>1, <2>2 DEF Never
  <2>4. (\A c \in Tasks : frames[c] = <<>>) /\ softirq_status = FALSE /\ Acts(frames) = {}
    BY <1>0, <2>1, NoActs DEF Quiescent
  <2>5. g = 1 /\ f = 1 /\ m = 1
    <3>1. g = 1
      BY <1>1, <2>1
    <3>2. m = g
      BY <1>1, <1>2, <2>4 DEF Stack, Holding
    <3> QED BY <1>2, <3>1, <3>2
  <2>6. RingOf(list, armed, s)
    <3>1. \A i \in 1..Len(s) : s[i] \in armed
      BY <1>1, <2>5 DEF Stack
    <3>2. \A u \in armed : \E i \in 1..Len(s) : s[i] = u
      BY <1>1 DEF Stack
    <3> QED BY <1>1, <2>5, <3>1, <3>2 DEF RingOf
  <2>7. PICK p \in 0..Len(s) : InsertPoint(list, expect, d) = Node(s, p)
    BY <1>0, <1>1, <2>2, <2>3, <2>5, WalkStops
  <2>8. list' = list_add_to_behind(list_init(list, t), Node(s, p), t)
    BY <2>1, <2>3, <2>7
  <2>9. Extended(list, armed, t, list')
    BY <1>0, <2>1, <2>6, <2>8, Insert
  <2>10. PICK r : RingOf(list', armed', r)
    BY <2>1, <2>9 DEF Extended
  <2>11. Chain(list', r, 1, 1, 1)
    BY <2>10 DEF RingOf
  <2>12. /\ r \in Seq(Timers) /\ Len(r) \in Nat /\ list'.next[ListHead] = Node(r, 1)
         /\ \A i \in 1..Len(r) : r[i] # ListHead /\ Node(r, i) = r[i]
    BY <2>11, ChainFacts
  <2>13. Stack(expect', jiffies, Acts(frames), armed', r, 1, 1)
    <3>1. \A i \in 1..(1 - 1) : FALSE
      OBVIOUS
    <3>2. (\A i \in 1..Len(r) : r[i] \in armed') /\ \A u \in armed' : \E i \in 1..Len(r) : r[i] = u
      BY <2>10 DEF RingOf
    <3> QED BY <2>4, <3>1, <3>2 DEF Stack
  <2>14. /\ expect' \in [Nodes -> Nat] /\ expect'[t] = d
         /\ \A n \in Nodes : n # t => expect'[n] = expect[n]
    BY <1>0, <2>1, <2>2, <2>3
  <2>15. Ahead(expect', 0, r, 1)
    <3> SUFFICES ASSUME 1 <= Len(r) PROVE expect'[r[1]] > 0
      BY DEF Ahead
    <3>1. 1 \in 1..Len(r) /\ r[1] = list'.next[ListHead] /\ r[1] # ListHead
      BY <2>12
    <3>2. r[1] = t \/ r[1] = Node(s, 1)
      BY <1>2, <2>5, <2>9, <3>1 DEF Extended
    <3>3. CASE r[1] = t
      BY <2>2, <2>14, <3>3
    <3>4. CASE r[1] # t
      <4>1. 1 \in 1..Len(s) /\ r[1] = s[1]
        BY <1>2, <3>1, <3>2, <3>4
      <4>2. expect[s[1]] > 0
        BY <1>1, <1>2, <2>1, <2>4, <2>5, <4>1 DEF TopOK, Ahead
      <4>3. expect'[r[1]] = expect[s[1]]
        BY <1>2, <2>14, <3>4, <4>1
      <4> QED BY <4>2, <4>3
    <3> QED BY <3>3, <3>4
  <2>16. TopOK(expect', jiffies, softirq_status, frames[current], r, 1)
    BY <2>1, <2>4, <2>15, Quiet
  <2>17. Accounted(list', expect', jiffies, softirq_status, frames, current, armed')
    <3>1. Relinked(Acts(frames), r, 1, 1)
      BY DEF Relinked
    <3> QED BY <2>11, <2>13, <2>16, <3>1 DEF Accounted
  <2>18. list' \in ListType /\ armed' \subseteq Timers /\ expect'[ListHead] = Never
    BY <1>0, <2>1, <2>2, <2>9, <2>14 DEF Extended
  <2> QED BY <1>0, <1>4, <2>1, <2>14, <2>17, <2>18
<1>29. CASE UNCHANGED vars
  <2>1. UNCHANGED <<jiffies, softirq_status, list, expect, current, need_schedule, frames, armed, halted>>
    BY <1>29 DEF vars
  <2>2. Accounted(list, expect, jiffies, softirq_status, frames, current, armed)
    BY DEF TimerInv
  <2> QED BY <1>0, <1>4, <2>1, <2>2
<1>30. CASE do_softirq
  BY <1>9, <1>10, <1>11, <1>12, <1>13, <1>14, <1>16, <1>17, <1>18, <1>19, <1>22, <1>30 DEF do_softirq, do_timer
<1> QED
  BY <1>25, <1>26, <1>27, <1>28, <1>29, <1>30 DEF Next

-----------------------------------------------------------------------------
\* The invariant holds of every state Timer reaches: which part of the list is
\* unlinked, by the activations of which tasks, and who still has to look.
THEOREM TimerInvariance == Spec => []TimerInv
<1>1. Init => TimerInv
  BY InitTimer
<1>2. TimerInv /\ [Next]_vars => TimerInv'
  BY NextTimer
<1> QED
  BY <1>1, <1>2, PTL DEF Spec

\* A program never runs on with a soft interrupt pending, and then every due timer that
\* still has to run waits behind one that is not due (main.c:140, 184; entry.S:66, 79).
THEOREM NothingIsLeftDue == Spec => []NothingLeftDue
<1>1. TimerInv => NothingLeftDue
  BY InvImplies
<1> QED
  BY <1>1, TimerInvariance, PTL

\* No timer is dropped by activations that unlink what is gone, and without activations
\* the list is a ring of exactly the timers to run (main.c:197, lib.h:198).
THEOREM NoTimerIsDropped == Spec => []NoTimerDropped
<1>1. TimerInv => NoTimerDropped
  BY InvImplies
<1> QED
  BY <1>1, TimerInvariance, PTL
=============================================================================
