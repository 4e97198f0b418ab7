------------------------------ MODULE SmpProofs -----------------------------
(***************************************************************************)
(* Processor start-up for any number of processors, the console lock for   *)
(* any depth of interrupt nesting, and the composition: it keeps to the    *)
(* rules of its parts, so what is proved of them holds of it.              *)
(***************************************************************************)
EXTENDS Smp, TLAPS

-----------------------------------------------------------------------------
(* Startup *)

\* The number of the processor being started, or last started.
Front == IF bsp \in {"setup", "next"} THEN global_i ELSE global_i - 1

\* global_i has not passed the last processor where it is used as an index.
IndexOK == bsp \in {"dec", "spin", "setup", "next"} => global_i <= Last

\* The processor that starts is the front one, _stack_start is its stack, the lock
\* is taken for it, and those behind it are past load_TR.
FrontOK ==
  /\ \A i \in APs : Starting(i) => i = Front /\ stack_start = i /\ lock <= 0 /\ bsp # "setup"
  /\ bsp = "setup" => lock <= 0
  /\ \A i \in APs : i > Front => ap[i] = "off"
  /\ bsp = "setup" => ap[global_i] = "off"

\* The task registers and descriptors agree.
DescriptorsOK ==
  /\ tss[0] = "busy"
  /\ \A i \in APs : ap[i] \in {"unlock", "count", "hlt"} => tss[i] = "busy"
  /\ \A i \in APs : i < Front \/ (i = Front /\ bsp # "setup") => ap[i] # "off"

\* A processor has its stack once it is past kernel_header.S.
StacksOK ==
  \A i \in APs : ap[i] \notin {"off", "head"} => stack[i] = i

IInv == TypeOK /\ IndexOK /\ FrontOK /\ DescriptorsOK /\ StacksOK /\ OwnStack /\ OwnTSS

\* The invariant is inductive.
LEMMA StartupStep ==
  ASSUME IInv, [Next]_vars
  PROVE  IInv'
<1> USE DEF IInv
<1>0. /\ Last \in Nat \ {0} /\ APs = 1..Last /\ CPUs = 0..Last
      /\ \A i \in APs : i \in CPUs /\ i \in Int
  BY StartupAssumption DEF APs, CPUs
<1>1. CASE Decrement
  <2>1. /\ bsp = "dec" /\ bsp' \in {"setup", "spin"} /\ lock' = lock - 1 /\ (bsp' = "setup" => lock = 1)
        /\ UNCHANGED <<global_i, stack_start, tss, ap, stack, rsp0, tr, preempt>>
    BY <1>0, <1>1 DEF Decrement, TypeOK
  <2>2. bsp' = "setup" => \A i \in APs : ~Starting(i)
    BY <1>0, <2>1 DEF FrontOK
  <2>3. TypeOK' /\ IndexOK' /\ OwnStack' /\ OwnTSS' /\ StacksOK'
    BY <1>0, <2>1 DEF TypeOK, IndexOK, OwnStack, OwnTSS, StacksOK
  <2>4. FrontOK'
    BY <1>0, <2>1, <2>2 DEF FrontOK, DescriptorsOK, Front, Starting, TypeOK, IndexOK
  <2>5. DescriptorsOK'
    BY <1>0, <2>1 DEF DescriptorsOK, Front, TypeOK
  <2> QED BY <2>3, <2>4, <2>5
<1>2. CASE SpinEnds
  BY <1>0, <1>2 DEF SpinEnds, TypeOK, IndexOK, FrontOK, DescriptorsOK, StacksOK, OwnStack, OwnTSS, Front, Starting
<1>3. CASE StartProcessor
  <2>1. /\ bsp = "setup" /\ bsp' = "next" /\ stack_start' = global_i
        /\ tss' = [tss EXCEPT ![global_i] = "available"] /\ ap' = [ap EXCEPT ![global_i] = "head"]
        /\ UNCHANGED <<lock, global_i, stack, rsp0, tr, preempt>>
    BY <1>3 DEF StartProcessor
  <2>2. global_i \in 1..Last /\ lock <= 0 /\ (\A i \in APs : ~Starting(i)) /\ ap[global_i] = "off"
    BY <1>0, <2>1 DEF TypeOK, IndexOK, FrontOK
  <2>3. TypeOK' /\ IndexOK' /\ OwnStack' /\ OwnTSS'
    BY <1>0, <2>1, <2>2 DEF TypeOK, IndexOK, OwnStack, OwnTSS
  <2>4. FrontOK'
    BY <1>0, <2>1, <2>2 DEF FrontOK, Front, Starting, TypeOK
  <2>5. DescriptorsOK' /\ StacksOK'
    BY <1>0, <2>1, <2>2 DEF DescriptorsOK, StacksOK, Front, Starting, TypeOK
  <2> QED BY <2>3, <2>4, <2>5
<1>4. CASE NextProcessor
  <2>1. /\ bsp = "next" /\ bsp' \in {"dec", "task_init"} /\ global_i' = global_i + 1
        /\ (bsp' = "dec" => global_i' <= Last)
        /\ UNCHANGED <<lock, stack_start, tss, ap, stack, rsp0, tr>>
    BY <1>4 DEF NextProcessor
  <2>2. global_i \in 1..Last /\ Front' = Front
    BY <1>0, <2>1 DEF TypeOK, IndexOK, Front
  <2>3. preempt' \in [CPUs -> Int]
    BY <1>0, <1>4 DEF NextProcessor, TypeOK
  <2>4. TypeOK' /\ IndexOK' /\ OwnStack' /\ OwnTSS' /\ StacksOK'
    BY <1>0, <2>1, <2>2, <2>3 DEF TypeOK, IndexOK, OwnStack, OwnTSS, StacksOK
  <2>5. FrontOK' /\ DescriptorsOK'
    BY <1>0, <2>1, <2>2 DEF FrontOK, DescriptorsOK, Starting, TypeOK
  <2> QED BY <2>4, <2>5
<1>5. CASE task_init
  <2>1. /\ bsp = "task_init" /\ bsp' = "idle"
        /\ UNCHANGED <<lock, global_i, stack_start, tss, ap, stack, rsp0, tr>>
    BY <1>5 DEF task_init
  <2>2. preempt' \in [CPUs -> Int]
    BY <1>0, <1>5 DEF task_init, TypeOK
  <2>3. TypeOK' /\ IndexOK' /\ OwnStack' /\ OwnTSS' /\ StacksOK'
    BY <1>0, <2>1, <2>2 DEF TypeOK, IndexOK, OwnStack, OwnTSS, StacksOK
  <2>4. FrontOK' /\ DescriptorsOK'
    BY <1>0, <2>1 DEF FrontOK, DescriptorsOK, Front, Starting
  <2> QED BY <2>3, <2>4
<1>6. ASSUME NEW i \in APs, LoadStack(i) \/ CreateIdle(i) PROVE IInv'
  <2>1. /\ ap[i] \in {"head", "init"}
        /\ \E p \in {"init", "ltr"} : ap' = [ap EXCEPT ![i] = p]
        /\ UNCHANGED <<lock, global_i, stack_start, tss, bsp, tr, preempt>>
    BY <1>6 DEF LoadStack, CreateIdle
  <2>2. stack_start = i /\ i = Front
    BY <1>0, <2>1 DEF FrontOK, Starting
  <2>3. /\ stack' = [stack EXCEPT ![i] = i] \/ (stack' = stack /\ stack[i] = i)
        /\ rsp0' = [rsp0 EXCEPT ![i] = i] \/ rsp0' = rsp0
    BY <1>6, <2>2 DEF LoadStack, CreateIdle, StacksOK
  <2>4. TypeOK' /\ IndexOK' /\ OwnTSS'
    <3>1. ap' \in [APs -> {"off", "head", "init", "ltr", "unlock", "count", "hlt", "fault"}]
      BY <2>1 DEF TypeOK
    <3>2. stack' \in [APs -> CPUs \cup {Nobody}] /\ rsp0' \in [APs -> CPUs \cup {Nobody}]
      BY <1>0, <2>3 DEF TypeOK
    <3> QED BY <2>1, <3>1, <3>2 DEF TypeOK, IndexOK, OwnTSS
  <2>5. OwnStack' /\ StacksOK'
    BY <1>0, <2>1, <2>3, SMTT(30) DEF OwnStack, StacksOK, TypeOK
  <2>6. /\ Starting(i) /\ Starting(i)' /\ Front' = Front
        /\ \A j \in APs : j # i => ap'[j] = ap[j]
        /\ ap'[i] \notin {"unlock", "count", "hlt", "off"} /\ ap[i] # "off"
    BY <1>0, <2>1 DEF Front, Starting, TypeOK
  <2>7. FrontOK'
    <3>1. \A j \in APs : Starting(j)' => Starting(j)
      BY <2>6 DEF Starting
    <3>2. bsp # "setup"
      BY <1>0, <2>6 DEF FrontOK
    <3> QED BY <1>0, <2>1, <2>2, <2>6, <3>1, <3>2 DEF FrontOK, TypeOK
  <2>8. DescriptorsOK'
    BY <1>0, <2>1, <2>2, <2>6 DEF DescriptorsOK, TypeOK
  <2> QED BY <2>4, <2>5, <2>7, <2>8
<1>7. ASSUME NEW i \in APs, LoadTR(i) PROVE IInv'
  <2>1. ap[i] = "ltr" /\ i = Front /\ stack[i] = i /\ bsp # "setup"
    BY <1>0, <1>7 DEF LoadTR, FrontOK, StacksOK, Starting
  <2>2. UNCHANGED <<lock, global_i, stack_start, bsp, stack, rsp0, preempt>>
    BY <1>7 DEF LoadTR
  <2>3. CASE tss[global_i - 1] = "available"
    \* The processor behind the front one is busy, so this is the front one's own.
    <3>1. global_i - 1 = i
      <4>1. CASE bsp = "next"
        <5>1. global_i = i
          BY <1>0, <2>1, <4>1 DEF Front
        <5>2. i - 1 \in APs => ap[i - 1] \in {"count", "hlt"}
          BY <1>0, <2>1, <5>1 DEF FrontOK, DescriptorsOK, Starting, TypeOK
        <5>3. tss[i - 1] = "busy"
          BY <1>0, <5>2 DEF DescriptorsOK
        <5> QED BY <2>3, <5>1, <5>3
      <4>2. CASE bsp # "next"
        BY <1>0, <2>1, <4>2 DEF Front
      <4> QED BY <4>1, <4>2
    <3>2. /\ tss' = [tss EXCEPT ![i] = "busy"] /\ tr' = [tr EXCEPT ![i] = i]
          /\ ap' = [ap EXCEPT ![i] = "unlock"]
      BY <1>7, <2>3, <3>1 DEF LoadTR
    <3>3. TypeOK' /\ IndexOK' /\ OwnStack' /\ OwnTSS' /\ StacksOK'
      BY <1>0, <2>1, <2>2, <3>2 DEF TypeOK, IndexOK, OwnStack, OwnTSS, StacksOK
    <3>4. FrontOK' /\ DescriptorsOK'
      BY <1>0, <2>1, <2>2, <3>2 DEF FrontOK, DescriptorsOK, Front, Starting, TypeOK
    <3> QED BY <3>3, <3>4
  <2>4. CASE tss[global_i - 1] # "available"
    <3>1. ap' = [ap EXCEPT ![i] = "fault"] /\ UNCHANGED <<tss, tr>>
      BY <1>7, <2>4 DEF LoadTR
    <3>2. TypeOK' /\ IndexOK' /\ OwnStack' /\ OwnTSS' /\ StacksOK'
      BY <1>0, <2>1, <2>2, <3>1 DEF TypeOK, IndexOK, OwnStack, OwnTSS, StacksOK
    <3>3. FrontOK' /\ DescriptorsOK'
      BY <1>0, <2>1, <2>2, <3>1 DEF FrontOK, DescriptorsOK, Front, Starting, TypeOK
    <3> QED BY <3>2, <3>3
  <2> QED BY <2>3, <2>4
<1>8. ASSUME NEW i \in APs, Unlock(i) PROVE IInv'
  <2>1. /\ ap[i] = "unlock" /\ lock' = 1 /\ ap' = [ap EXCEPT ![i] = "count"]
        /\ preempt' = [preempt EXCEPT ![stack[i]] = @ - 1]
        /\ UNCHANGED <<global_i, stack_start, tss, bsp, stack, rsp0, tr>>
    BY <1>8 DEF Unlock
  <2>2. i = Front /\ stack[i] = i /\ bsp # "setup"
    BY <1>0, <2>1 DEF FrontOK, StacksOK, Starting
  <2>3. TypeOK' /\ IndexOK' /\ OwnStack' /\ OwnTSS' /\ StacksOK'
    BY <1>0, <2>1, <2>2 DEF TypeOK, IndexOK, OwnStack, OwnTSS, StacksOK
  <2>4. FrontOK' /\ DescriptorsOK'
    BY <1>0, <2>1, <2>2 DEF FrontOK, DescriptorsOK, Front, Starting, TypeOK
  <2> QED BY <2>3, <2>4
<1>9. ASSUME NEW i \in APs, EnterIdle(i) PROVE IInv'
  <2>1. /\ ap[i] = "count" /\ ap' = [ap EXCEPT ![i] = "hlt"]
        /\ preempt' = [preempt EXCEPT ![stack[i]] = 0]
        /\ UNCHANGED <<lock, global_i, stack_start, tss, bsp, stack, rsp0, tr>>
    BY <1>9 DEF EnterIdle
  <2>2. TypeOK'
    <3>1. ap' \in [APs -> {"off", "head", "init", "ltr", "unlock", "count", "hlt", "fault"}]
      BY <2>1 DEF TypeOK
    <3>2. preempt' \in [CPUs -> Int]
      <4>1. stack[i] = i
        BY <2>1 DEF StacksOK
      <4> QED BY <1>0, <2>1, <4>1 DEF TypeOK
    <3> QED BY <2>1, <3>1, <3>2 DEF TypeOK
  <2>4. IndexOK' /\ OwnStack' /\ OwnTSS' /\ StacksOK'
    BY <1>0, <2>1 DEF TypeOK, IndexOK, OwnStack, OwnTSS, StacksOK
  <2>3. FrontOK' /\ DescriptorsOK'
    BY <1>0, <2>1 DEF FrontOK, DescriptorsOK, Front, Starting, TypeOK
  <2> QED BY <2>2, <2>3, <2>4
<1>10. CASE UNCHANGED vars
  BY <1>10 DEF vars, TypeOK, IndexOK, FrontOK, DescriptorsOK, StacksOK, OwnStack, OwnTSS, Front, Starting
<1> QED BY <1>1, <1>2, <1>3, <1>4, <1>5, <1>6, <1>7, <1>8, <1>9, <1>10
        DEF Next, SMP_init, Start_SMP

\* The invariant behind the theorems below: the starting processor is the front
\* one, with the lock taken and _stack_start its own.
THEOREM StartupInvariant == Spec => []IInv
<1>1. Init => IInv
  <2> SUFFICES ASSUME Init PROVE IInv
    OBVIOUS
  <2> USE StartupAssumption DEF APs, CPUs, Nobody
  <2>1. preempt \in [CPUs -> Int]
    <3>1. preempt \in [CPUs -> Garbage \cup {1}]
      BY DEF Init
    <3>2. Garbage \cup {1} \subseteq Int
      BY StartupAssumption
    <3> QED BY <3>1, <3>2
  <2>2. TypeOK
    BY <2>1 DEF Init, TypeOK
  <2>3. IndexOK /\ FrontOK
    BY DEF Init, IndexOK, FrontOK, Front, Starting
  <2>4. DescriptorsOK /\ StacksOK /\ OwnStack /\ OwnTSS
    BY DEF Init, DescriptorsOK, StacksOK, OwnStack, OwnTSS, Front
  <2> QED BY <2>2, <2>3, <2>4 DEF IInv
<1> QED BY <1>1, StartupStep, PTL DEF Spec

\* SMP_lock, taken on one processor and released on another, keeps start-ups apart.
THEOREM StartsOneByOne == Spec => []OneStartsAtATime
<1>1. IInv => OneStartsAtATime
  BY DEF IInv, FrontOK, OneStartsAtATime
<1> QED BY <1>1, StartupInvariant, PTL

\* No two processors share a stack, and none holds another's TSS, however the
\* increments of global_i fall.
THEOREM ProcessorsAreSeparate == Spec => []Separate
<1>1. IInv => Separate
  BY DEF IInv, Separate
<1> QED BY <1>1, StartupInvariant, PTL

\* Only a processor on its own stack, past its unlock, enters the hlt loop, and
\* nothing touches its counter afterwards.
LEMMA IdleStep ==
  ASSUME IInv, IdleIsPreemptible, [Next]_vars
  PROVE  IdleIsPreemptible'
<1> USE DEF IInv
<1>0. /\ 0 \in CPUs /\ 0 \notin APs /\ APs \subseteq CPUs
      /\ preempt \in [CPUs -> Int] /\ DOMAIN ap = APs
  BY StartupAssumption DEF APs, CPUs, TypeOK
<1>1. CASE Decrement \/ SpinEnds \/ StartProcessor
  <2>1. preempt' = preempt /\ bsp' # "idle" /\ \A i \in APs : ap'[i] = "hlt" => ap[i] = "hlt"
    BY <1>0, <1>1 DEF Decrement, SpinEnds, StartProcessor
  <2> QED BY <2>1 DEF IdleIsPreemptible
<1>2. CASE NextProcessor \/ task_init
  <2>1. /\ ap' = ap /\ (bsp' = "idle" => preempt'[0] = 0)
        /\ \A i \in APs : preempt'[i] = preempt[i]
    BY <1>0, <1>2 DEF NextProcessor, task_init
  <2> QED BY <2>1 DEF IdleIsPreemptible
<1>3. ASSUME NEW i \in APs, LoadStack(i) \/ CreateIdle(i) \/ LoadTR(i) PROVE IdleIsPreemptible'
  <2>1. /\ preempt' = preempt /\ bsp' = bsp
        /\ \E p \in {"init", "ltr", "unlock", "fault"} : ap' = [ap EXCEPT ![i] = p]
    BY <1>3 DEF LoadStack, CreateIdle, LoadTR
  <2>2. \A j \in APs : ap'[j] = "hlt" => ap[j] = "hlt"
    BY <1>0, <2>1
  <2> QED BY <2>1, <2>2 DEF IdleIsPreemptible
<1>4. ASSUME NEW i \in APs, Unlock(i) \/ EnterIdle(i) PROVE IdleIsPreemptible'
  <2>1. ap[i] \in {"unlock", "count"} /\ stack[i] = i /\ bsp' = bsp
    BY <1>4 DEF Unlock, EnterIdle, StacksOK
  <2>2. \A c \in CPUs : c # i => preempt'[c] = preempt[c]
    BY <1>0, <1>4, <2>1 DEF Unlock, EnterIdle
  <2>3. \A j \in APs : j # i => ap'[j] = ap[j]
    BY <1>0, <1>4 DEF Unlock, EnterIdle
  <2>4. ap'[i] = "hlt" => preempt'[i] = 0
    BY <1>0, <1>4, <2>1 DEF Unlock, EnterIdle
  <2> QED BY <1>0, <2>1, <2>2, <2>3, <2>4 DEF IdleIsPreemptible
<1>5. CASE UNCHANGED vars
  BY <1>5 DEF vars, IdleIsPreemptible
<1> QED BY <1>1, <1>2, <1>3, <1>4, <1>5 DEF Next, SMP_init, Start_SMP

\* Every idle loop is entered with preempt_count 0, whatever kmalloc's memory held.
THEOREM IdleTasksYield == Spec => []IdleIsPreemptible
<1>1. Init => IdleIsPreemptible
  BY DEF Init, IdleIsPreemptible
<1> QED BY <1>1, StartupInvariant, IdleStep, PTL DEF Spec

-----------------------------------------------------------------------------
(* Console *)

\* Only the innermost context of a processor can be inside color_printk, and
\* while it is there the processor takes no interrupt.
Innermost ==
  \A c \in Processors :
    /\ \A l \in Levels : l # level[c] => pc[c][l] = "out"
    /\ At(c) # "out" => ~irq[c]

\* A printing processor has taken the word below 1, and is alone.
WordTaken ==
  /\ printk_lock <= 1
  /\ \A c \in Processors : At(c) = "print" => printk_lock <= 0
  /\ \A c, d \in Processors : At(c) = "print" /\ At(d) = "print" => c = d

\* What color_printk at level 0 will restore.
SavedFlag ==
  \A c \in Processors : level[c] = 0 /\ At(c) # "out" =>
    (saved[c][0] <=> up[c] /\ ~syscall[c])

ConsoleInv ==
  ConsoleTypeOK /\ Innermost /\ WordTaken /\ CountBalanced /\ NotInterrupted /\ SavedFlag

\* Where the processors are after a step that moves only c's innermost context.
LEMMA GotoEffect ==
  ASSUME ConsoleTypeOK, NEW c \in Processors, NEW p \in {"out", "dec", "spin", "print"},
         Goto(c, p), level' = level
  PROVE  /\ pc' \in [Processors -> [Levels -> {"out", "dec", "spin", "print"}]]
         /\ At(c)' = p
         /\ \A d \in Processors : d # c => At(d)' = At(d)
         /\ \A d \in Processors, l \in Levels : l # level[d] => pc'[d][l] = pc[d][l]
  BY DEF ConsoleTypeOK, Goto, At

\* Where the processors are after a step that moves only c's level, from and to
\* contexts that are outside color_printk.
LEMMA LevelEffect ==
  ASSUME ConsoleTypeOK, Innermost, NEW c \in Processors, NEW n \in Levels, At(c) = "out",
         level' = [level EXCEPT ![c] = n], pc' = pc
  PROVE  /\ level' \in [Processors -> Levels]
         /\ level'[c] = n /\ \A d \in Processors : d # c => level'[d] = level[d]
         /\ \A d \in Processors : At(d)' = At(d)
         /\ \A d \in Processors, l \in Levels : l # level'[d] => pc'[d][l] = "out"
  BY DEF ConsoleTypeOK, Innermost, At

\* The invariant is inductive.
LEMMA ConsoleInductive ==
  ASSUME ConsoleInv, [ConsoleNext]_console_vars
  PROVE  ConsoleInv'
<1> USE DEF ConsoleInv
<1>1. ASSUME NEW c \in Processors, spin_lock_irqsave(c) PROVE ConsoleInv'
  <2>0. "dec" \in {"out", "dec", "spin", "print"}
    OBVIOUS
  <2>1. /\ At(c) = "out" /\ At(c)' = "dec" /\ \A d \in Processors : d # c => At(d)' = At(d)
        /\ pc' \in [Processors -> [Levels -> {"out", "dec", "spin", "print"}]]
        /\ \A d \in Processors, l \in Levels : l # level[d] => pc'[d][l] = pc[d][l]
    BY <1>1, <2>0, GotoEffect DEF spin_lock_irqsave
  <2>2. /\ saved' = [saved EXCEPT ![c][level[c]] = irq[c]] /\ irq' = [irq EXCEPT ![c] = FALSE]
        /\ counted' = [counted EXCEPT ![c] = @ + 1] /\ UNCHANGED <<printk_lock, level, up, syscall>>
    BY <1>1 DEF spin_lock_irqsave
  <2>3. ConsoleTypeOK'
    BY <2>1, <2>2 DEF ConsoleTypeOK
  <2>4. Innermost'
    BY <2>1, <2>2 DEF Innermost, ConsoleTypeOK
  <2>5. WordTaken'
    BY <2>1, <2>2 DEF WordTaken
  <2>6. CountBalanced'
    BY <2>1, <2>2 DEF CountBalanced, ConsoleTypeOK
  <2>7. NotInterrupted'
    BY <2>1, <2>2 DEF NotInterrupted, ConsoleTypeOK
  <2>8. SavedFlag'
    BY <2>1, <2>2 DEF SavedFlag, NotInterrupted, ConsoleTypeOK
  <2> QED BY <2>3, <2>4, <2>5, <2>6, <2>7, <2>8
<1>2. ASSUME NEW c \in Processors, PrintkDecrement(c) PROVE ConsoleInv'
  <2> DEFINE p == IF printk_lock' >= 0 THEN "print" ELSE "spin"
  <2>0. p \in {"out", "dec", "spin", "print"}
    OBVIOUS
  <2>1. /\ At(c) = "dec" /\ At(c)' = p /\ \A d \in Processors : d # c => At(d)' = At(d)
        /\ pc' \in [Processors -> [Levels -> {"out", "dec", "spin", "print"}]]
        /\ \A d \in Processors, l \in Levels : l # level[d] => pc'[d][l] = pc[d][l]
    BY <1>2, <2>0, GotoEffect DEF PrintkDecrement
  <2>2. printk_lock' = printk_lock - 1 /\ UNCHANGED <<level, irq, saved, counted, up, syscall>>
    BY <1>2 DEF PrintkDecrement
  <2>3. ConsoleTypeOK'
    BY <2>1, <2>2 DEF ConsoleTypeOK
  <2>4. Innermost'
    BY <2>1, <2>2 DEF Innermost, ConsoleTypeOK
  <2>5. WordTaken'
    <3>1. printk_lock \in Int
      BY DEF ConsoleTypeOK
    <3>2. p = "print" => printk_lock = 1
      BY <2>2, <3>1 DEF WordTaken
    <3>3. p = "print" => \A d \in Processors : At(d) # "print"
      BY <3>1, <3>2 DEF WordTaken
    <3> QED BY <2>1, <2>2, <3>1, <3>2, <3>3 DEF WordTaken
  <2>6. CountBalanced'
    BY <2>1, <2>2 DEF CountBalanced, ConsoleTypeOK
  <2>7. NotInterrupted'
    BY <2>1, <2>2 DEF NotInterrupted, ConsoleTypeOK
  <2>8. SavedFlag'
    BY <2>1, <2>2 DEF SavedFlag, ConsoleTypeOK
  <2> QED BY <2>3, <2>4, <2>5, <2>6, <2>7, <2>8
<1>3. ASSUME NEW c \in Processors, PrintkSpinEnds(c) PROVE ConsoleInv'
  <2>0. "dec" \in {"out", "dec", "spin", "print"}
    OBVIOUS
  <2>1. /\ At(c) = "spin" /\ At(c)' = "dec" /\ \A d \in Processors : d # c => At(d)' = At(d)
        /\ pc' \in [Processors -> [Levels -> {"out", "dec", "spin", "print"}]]
        /\ \A d \in Processors, l \in Levels : l # level[d] => pc'[d][l] = pc[d][l]
    BY <1>3, <2>0, GotoEffect DEF PrintkSpinEnds
  <2>2. UNCHANGED <<printk_lock, level, irq, saved, counted, up, syscall>>
    BY <1>3 DEF PrintkSpinEnds
  <2>3. ConsoleTypeOK' /\ Innermost'
    BY <2>1, <2>2 DEF ConsoleTypeOK, Innermost
  <2>4. WordTaken'
    BY <2>1, <2>2 DEF WordTaken
  <2>5. CountBalanced' /\ NotInterrupted' /\ SavedFlag'
    BY <2>1, <2>2 DEF CountBalanced, NotInterrupted, SavedFlag
  <2> QED BY <2>3, <2>4, <2>5
<1>4. ASSUME NEW c \in Processors, spin_unlock_irqrestore(c) PROVE ConsoleInv'
  <2>0. "out" \in {"out", "dec", "spin", "print"}
    OBVIOUS
  <2>1. /\ At(c) = "print" /\ At(c)' = "out" /\ \A d \in Processors : d # c => At(d)' = At(d)
        /\ pc' \in [Processors -> [Levels -> {"out", "dec", "spin", "print"}]]
        /\ \A d \in Processors, l \in Levels : l # level[d] => pc'[d][l] = pc[d][l]
    BY <1>4, <2>0, GotoEffect DEF spin_unlock_irqrestore
  <2>2. /\ irq' = [irq EXCEPT ![c] = saved[c][level[c]]] /\ printk_lock' = 1
        /\ counted' = [counted EXCEPT ![c] = @ - 1] /\ UNCHANGED <<level, saved, up, syscall>>
    BY <1>4 DEF spin_unlock_irqrestore
  <2>3. ConsoleTypeOK'
    BY <2>1, <2>2 DEF ConsoleTypeOK
  <2>4. Innermost'
    BY <2>1, <2>2 DEF Innermost, ConsoleTypeOK
  <2>5. WordTaken'
    BY <2>1, <2>2 DEF WordTaken
  <2>6. CountBalanced'
    <3>1. counted[c] = 1
      BY <2>1 DEF CountBalanced
    <3>2. counted'[c] = 0 /\ \A d \in Processors : d # c => counted'[d] = counted[d]
      BY <2>2, <3>1 DEF ConsoleTypeOK
    <3> QED BY <2>1, <3>2 DEF CountBalanced
  <2>7. NotInterrupted' /\ SavedFlag'
    BY <2>1, <2>2 DEF NotInterrupted, SavedFlag, ConsoleTypeOK
  <2> QED BY <2>3, <2>4, <2>5, <2>6, <2>7
<1>5. ASSUME NEW c \in Processors, system_call(c) \/ ret_system_call(c) PROVE ConsoleInv'
  <2>1. /\ level[c] = 0 /\ At(c) = "out" /\ UNCHANGED <<printk_lock, level, pc, saved, counted, up>>
        /\ \E b \in BOOLEAN : /\ syscall' = [syscall EXCEPT ![c] = b]
                              /\ irq' = [irq EXCEPT ![c] = ~b]
    BY <1>5 DEF system_call, ret_system_call
  <2>2. \A d \in Processors : At(d)' = At(d)
    BY <2>1 DEF At
  <2>3. ConsoleTypeOK'
    BY <2>1 DEF ConsoleTypeOK
  <2>4. Innermost'
    BY <2>1, <2>2 DEF Innermost, ConsoleTypeOK
  <2>5. WordTaken' /\ CountBalanced'
    BY <2>1, <2>2 DEF WordTaken, CountBalanced
  <2>6. up[c]
    BY <1>5 DEF system_call, ret_system_call, NotInterrupted
  <2>7. NotInterrupted' /\ SavedFlag'
    BY <2>1, <2>2, <2>6 DEF NotInterrupted, SavedFlag, ConsoleTypeOK
  <2> QED BY <2>3, <2>4, <2>5, <2>7
<1>6. ASSUME NEW c \in Processors, Interrupt(c) PROVE ConsoleInv'
  <2>1. /\ irq[c] /\ level' = [level EXCEPT ![c] = level[c] + 1] /\ level[c] < MaxLevel
        /\ irq' = [irq EXCEPT ![c] = FALSE] /\ UNCHANGED <<printk_lock, pc, saved, counted, up, syscall>>
    BY <1>6 DEF Interrupt
  <2>2. At(c) = "out" /\ ~syscall[c] /\ level[c] + 1 \in Levels /\ level[c] + 1 # 0
    BY <2>1, ConsoleAssumption DEF Innermost, NotInterrupted, ConsoleTypeOK, Levels
  <2>3. /\ level' \in [Processors -> Levels]
        /\ level'[c] # 0 /\ \A d \in Processors : d # c => level'[d] = level[d]
        /\ \A d \in Processors : At(d)' = At(d)
        /\ \A d \in Processors, l \in Levels : l # level'[d] => pc'[d][l] = "out"
    BY <2>1, <2>2, LevelEffect
  <2>4. ConsoleTypeOK' /\ Innermost'
    BY <2>1, <2>2, <2>3 DEF ConsoleTypeOK, Innermost
  <2>5. WordTaken' /\ CountBalanced'
    BY <2>1, <2>3 DEF WordTaken, CountBalanced
  <2>6. NotInterrupted' /\ SavedFlag'
    BY <2>1, <2>2, <2>3 DEF NotInterrupted, SavedFlag, ConsoleTypeOK
  <2> QED BY <2>4, <2>5, <2>6
<1>7. ASSUME NEW c \in Processors, SoftirqOn(c) PROVE ConsoleInv'
  <2>1. /\ level[c] > 0 /\ At(c) = "out" /\ irq' = [irq EXCEPT ![c] = TRUE]
        /\ UNCHANGED <<printk_lock, level, pc, saved, counted, up, syscall>>
    BY <1>7 DEF SoftirqOn
  <2>2. \A d \in Processors : At(d)' = At(d)
    BY <2>1 DEF At
  <2>3. ConsoleTypeOK' /\ Innermost'
    BY <2>1, <2>2 DEF ConsoleTypeOK, Innermost
  <2>4. WordTaken' /\ CountBalanced' /\ SavedFlag'
    BY <2>1, <2>2 DEF WordTaken, CountBalanced, SavedFlag
  <2>5. NotInterrupted'
    BY <2>1, <2>2 DEF NotInterrupted, ConsoleTypeOK
  <2> QED BY <2>3, <2>4, <2>5
<1>8. ASSUME NEW c \in Processors, Return(c) PROVE ConsoleInv'
  <2>1. /\ level[c] > 0 /\ At(c) = "out" /\ level' = [level EXCEPT ![c] = level[c] - 1]
        /\ irq' = [irq EXCEPT ![c] = TRUE] /\ UNCHANGED <<printk_lock, pc, saved, counted, up, syscall>>
    BY <1>8 DEF Return
  <2>2. ~syscall[c] /\ level[c] - 1 \in Levels
    BY <2>1, ConsoleAssumption DEF NotInterrupted, ConsoleTypeOK, Levels
  <2>3. /\ level' \in [Processors -> Levels]
        /\ \A d \in Processors : d # c => level'[d] = level[d]
        /\ \A d \in Processors : At(d)' = At(d)
        /\ \A d \in Processors, l \in Levels : l # level'[d] => pc'[d][l] = "out"
    BY <2>1, <2>2, LevelEffect
  <2>4. ConsoleTypeOK' /\ Innermost'
    BY <2>1, <2>3 DEF ConsoleTypeOK, Innermost
  <2>5. WordTaken' /\ CountBalanced'
    BY <2>1, <2>3 DEF WordTaken, CountBalanced
  <2>6. NotInterrupted' /\ SavedFlag'
    BY <2>1, <2>2, <2>3 DEF NotInterrupted, SavedFlag, ConsoleTypeOK
  <2> QED BY <2>4, <2>5, <2>6
<1>10. ASSUME NEW c \in Processors, sti(c) PROVE ConsoleInv'
  <2>1. /\ ~up[c] /\ At(c) = "out" /\ up' = [up EXCEPT ![c] = TRUE]
        /\ irq' = [irq EXCEPT ![c] = TRUE] /\ UNCHANGED <<printk_lock, level, pc, saved, counted, syscall>>
    BY <1>10 DEF sti
  <2>2. \A d \in Processors : At(d)' = At(d)
    BY <2>1 DEF At
  <2>3. ConsoleTypeOK' /\ Innermost'
    BY <2>1, <2>2 DEF ConsoleTypeOK, Innermost
  <2>4. WordTaken' /\ CountBalanced'
    BY <2>1, <2>2 DEF WordTaken, CountBalanced
  <2>5. NotInterrupted' /\ SavedFlag'
    BY <2>1, <2>2 DEF NotInterrupted, SavedFlag, ConsoleTypeOK
  <2> QED BY <2>3, <2>4, <2>5
<1>9. CASE UNCHANGED console_vars
  <2>1. \A d \in Processors : At(d)' = At(d)
    BY <1>9 DEF console_vars, At
  <2> QED BY <1>9, <2>1 DEF console_vars, ConsoleTypeOK, Innermost, WordTaken, CountBalanced,
                             NotInterrupted, SavedFlag
<1> QED BY <1>1, <1>2, <1>3, <1>4, <1>5, <1>6, <1>7, <1>8, <1>10, <1>9 DEF ConsoleNext, ConsoleStep, color_printk

\* The invariant behind the theorems below: only innermost contexts print, with
\* interrupts off, and the lock word of a printing processor is below 1.
THEOREM ConsoleInvariant == ConsoleSpec => []ConsoleInv
<1>1. ConsoleInit => ConsoleInv
  <2> SUFFICES ASSUME ConsoleInit PROVE ConsoleInv
    OBVIOUS
  <2>0. 0 \in Levels
    BY ConsoleAssumption DEF Levels
  <2>1. \A c \in Processors : At(c) = "out"
    BY <2>0 DEF ConsoleInit, At
  <2>2. ConsoleTypeOK
    BY <2>0 DEF ConsoleInit, ConsoleTypeOK
  <2>3. Innermost /\ WordTaken
    BY <2>0, <2>1 DEF ConsoleInit, Innermost, WordTaken
  <2>4. CountBalanced /\ NotInterrupted /\ SavedFlag
    BY <2>0, <2>1 DEF ConsoleInit, CountBalanced, NotInterrupted, SavedFlag
  <2> QED BY <2>2, <2>3, <2>4 DEF ConsoleInv
<1> QED BY <1>1, ConsoleInductive, PTL DEF ConsoleSpec

\* At most one context of all processors is between spin_lock_irqsave and
\* spin_unlock_irqrestore of color_printk.
THEOREM PrintingIsExclusive == ConsoleSpec => []Exclusion
<1>1. ConsoleInv => Exclusion
  <2> SUFFICES ASSUME ConsoleInv, NEW x \in Printing, NEW y \in Printing PROVE x = y
    BY DEF Exclusion
  <2>1. PICK c \in Processors, l \in Levels : x = <<c, l>> /\ pc[c][l] = "print"
    BY DEF Printing
  <2>2. PICK d \in Processors, m \in Levels : y = <<d, m>> /\ pc[d][m] = "print"
    BY DEF Printing
  <2>3. l = level[c] /\ m = level[d]
    BY <2>1, <2>2 DEF ConsoleInv, Innermost
  <2>4. c = d
    BY <2>1, <2>2, <2>3 DEF ConsoleInv, WordTaken, At
  <2> QED BY <2>1, <2>2, <2>3, <2>4
<1> QED BY <1>1, ConsoleInvariant, PTL

\* No handler runs above a context that is inside color_printk.
THEOREM HandlersNeverWaitForThemselves == ConsoleSpec => []NoSelfDeadlock
<1>1. ConsoleInv => NoSelfDeadlock
  BY DEF ConsoleInv, ConsoleTypeOK, Innermost, NoSelfDeadlock, Levels
<1> QED BY <1>1, ConsoleInvariant, PTL

\* System calls are not interrupted, and preempt_count is balanced.
THEOREM SystemCallsAreAtomic == ConsoleSpec => []SystemCallUninterrupted
<1>1. ConsoleInv => SystemCallUninterrupted
  BY DEF ConsoleInv, SystemCallUninterrupted
<1> QED BY <1>1, ConsoleInvariant, PTL

-----------------------------------------------------------------------------
(* The composition *)

\* A step of the composition is a step of each part, or leaves it alone.
LEMMA SmpStep ==
  ASSUME [SmpNext]_smp_vars
  PROVE  [Next]_vars /\ [ConsoleNext]_console_vars
<1>1. CASE BootStep
  <2>1. [Next]_vars
    BY <1>1 DEF BootStep, Next, SMP_init
  <2>2. 0 \in Processors
    BY SmpAssumption, StartupAssumption DEF CPUs
  <2>3. [ConsoleNext]_console_vars
    BY <1>1, <2>2 DEF BootStep, ConsoleNext
  <2> QED BY <2>1, <2>3
<1>2. ASSUME NEW i \in APs, StartedStep(i) PROVE [Next]_vars /\ [ConsoleNext]_console_vars
  <2>1. i \in Processors
    BY SmpAssumption, StartupAssumption DEF CPUs, APs
  <2> QED BY <1>2, <2>1 DEF StartedStep, Next, Start_SMP, ConsoleNext
<1>3. ASSUME NEW c \in CPUs, WorkStep(c) PROVE [Next]_vars /\ [ConsoleNext]_console_vars
  BY <1>3, SmpAssumption DEF WorkStep, ConsoleNext
<1>4. CASE UNCHANGED smp_vars
  BY <1>4 DEF smp_vars
<1> QED BY <1>1, <1>2, <1>3, <1>4 DEF SmpNext

\* The processors that start and print at once behave, seen from SMP_init and
\* Start_SMP, as Startup says and, seen from color_printk, as Console says.
THEOREM SmpImplementsItsParts == SmpSpec => Spec /\ ConsoleSpec
BY SmpStep, PTL DEF SmpSpec, SmpInit, Spec, ConsoleSpec

\* One processor starts at a time and none gets what was made for another, while
\* the others print, take interrupts and make system calls.
THEOREM StartUpUndisturbed == SmpSpec => [](OneStartsAtATime /\ Separate /\ IdleIsPreemptible)
BY SmpImplementsItsParts, StartsOneByOne, ProcessorsAreSeparate, IdleTasksYield, PTL

\* One context of all processors prints at a time, also during the start-up.
THEOREM ConsoleUndisturbed == SmpSpec => [](Exclusion /\ NoSelfDeadlock /\ SystemCallUninterrupted)
BY SmpImplementsItsParts, PrintingIsExclusive, HandlersNeverWaitForThemselves,
   SystemCallsAreAtomic, PTL
=============================================================================
