------------------------------ MODULE MCSched -------------------------------
(* Processor 0 with the idle thread, init and a task it forks. *)
EXTENDS Sched

CONSTANTS idle, init, a, kbd, exits

MCChannels == {kbd, exits}
MCExitChannels == {exits}
\* No task of this build has priority 0 or 1: INIT_TASK and do_fork assign 2.
MCHighPriority == {}
MCTasks == {idle, init, a}
=============================================================================
