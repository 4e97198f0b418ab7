------------------------------ MODULE MCTimer -------------------------------
(* Two timers, two tasks, and ticks that fall into the handling of earlier ones. *)
EXTENDS Timer

CONSTANTS head, t1, t2, a, b

MCTimers == {t1, t2}
MCTasks == {a, b}
=============================================================================
