------------------------------- MODULE MCSmp -------------------------------
(***************************************************************************)
(* A boot processor and two others, with clean and dirty kmalloc memory,    *)
(* each of which takes one handler at a time.                                *)
(***************************************************************************)
EXTENDS Smp

MCGarbage == {0, 5}
MCProcessors == 0..2
=============================================================================
