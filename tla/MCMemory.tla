------------------------------ MODULE MCMemory ------------------------------
(***************************************************************************)
(* One small cache that also holds the structures of one large cache (128   *)
(* and 2048 bytes in kmalloc_cache_size), a kernel page, and pages for three *)
(* further slabs or user pages.                                              *)
(***************************************************************************)
EXTENDS Memory

CONSTANTS small, large

MCHeadPage == [c \in {small, large} |-> IF c = small THEN 2 ELSE 3]
MCHeadCount == [c \in {small, large} |-> IF c = small THEN 3 ELSE 2]
MCMoreCount == [c \in {small, large} |-> 2]
MCMapCache == [c \in {large} |-> small]
=============================================================================
