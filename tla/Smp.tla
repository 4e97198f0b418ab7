-------------------------------- MODULE Smp --------------------------------
(***************************************************************************)
(* The processors from power-on to work: Startup and Console composed.  The *)
(* boot processor prints while it starts the others; a started processor    *)
(* prints, takes interrupts and enters the kernel after the sti that ends   *)
(* its start-up, while the boot processor is still starting the next one.   *)
(*                                                                          *)
(* preempt_count of a processor's current task is the sum of Startup's      *)
(* preempt and Console's counted: both only count up and down, except for   *)
(* the reset to 0 at the end of a start-up, which is outside color_printk.  *)
(***************************************************************************)
EXTENDS Startup, Console

ASSUME SmpAssumption == Processors = CPUs

smp_vars == <<vars, console_vars>>

SmpInit == Init /\ ConsoleInit

\* A started processor prints nothing before its sti: Start_SMP has no color_printk
\* left that is not commented out.
Prints(c) == c \in {0} \cup {i \in APs : ap[i] = "hlt"}

\* SMP_init and the rest of Start_Kernel go on between two calls of color_printk.
BootStep ==
  /\ At(0) = "out"
  /\ \/ (Decrement \/ SpinEnds \/ StartProcessor \/ NextProcessor) /\ UNCHANGED console_vars
     \/ task_init /\ sti(0)

StartedStep(i) ==
  \/ (LoadStack(i) \/ CreateIdle(i) \/ LoadTR(i) \/ Unlock(i)) /\ UNCHANGED console_vars
  \/ EnterIdle(i) /\ sti(i)

WorkStep(c) == Prints(c) /\ ConsoleStep(c) /\ UNCHANGED vars

SmpNext ==
  \/ BootStep
  \/ \E i \in APs : StartedStep(i)
  \/ \E c \in CPUs : WorkStep(c)

SmpSpec == SmpInit /\ [][SmpNext]_smp_vars

\* A processor that is inside color_printk goes on, as in Console.
SmpFairSpec ==
  SmpSpec /\ \A c \in CPUs : WF_smp_vars(WorkStep(c) /\ At(c) # "out")
=============================================================================
