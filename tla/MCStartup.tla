----------------------------- MODULE MCStartup -----------------------------
(***************************************************************************)
(* The four processors of SMP.c:104, with clean and dirty kmalloc memory.   *)
(***************************************************************************)
EXTENDS Startup

MCGarbage == {0, 5}
=============================================================================
