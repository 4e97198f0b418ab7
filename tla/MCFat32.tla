------------------------------ MODULE MCFat32 -------------------------------
(***************************************************************************)
(* A volume with a root directory of two clusters, a subdirectory, a file, *)
(* two empty files, the keyboard's device file and one free cluster, and   *)
(* one FAT entry more than it has clusters.  Both tasks write, one of them *)
(* also reads and lists.                                                   *)
(***************************************************************************)
EXTENDS Fat32, TLC

CONSTANTS t1, t2

Entry(kind, name, first, size) == [kind |-> kind, name |-> name, first |-> first, size |-> size]
Gap == Entry("free", "-", 0, 0)

MCFat == [c \in FatEntries |-> CASE c = 2 -> 6 [] c \in {5, 7} -> 0 [] OTHER -> EOC]

MCDirectory ==
  2 :> <<Entry("dir", "d", 3, 0), Entry("long", "f", 0, 0), Gap>>
  @@ 6 :> <<Entry("device", "k", 0, 0), Entry("file", "f", 4, 2), Entry("file", "g", 0, 0)>>
  @@ 3 :> <<Entry("file", "h", 0, 0), Gap, Gap>>

O(path, flags) == [path |-> path, flags |-> flags]

MCOwned == t1 :> 1 @@ t2 :> 1

MCOpens ==
  t1 :> {O(<<"k">>, {}), O(<<"g">>, {"O_RDWR"}), O(<<"f">>, {"O_APPEND", "O_RDWR"}),
         O(<<"f">>, {"O_DIRECTORY"})}
  @@ t2 :> {O(<<>>, {"O_DIRECTORY"}), O(<<"f">>, {}), O(<<"f">>, {"O_TRUNC"}),
            O(<<"d", "h">>, {}), O(<<"g">>, {"O_RDWR"})}
=============================================================================
