--------------------------- MODULE ProcessProofs ----------------------------
(***************************************************************************)
(* Proofs about Process, for the shell that has one child at a time and    *)
(* any number of task_structs, mm_structs and pages: the task list is      *)
(* exact, exits are noticed, address spaces do not overlap, and only       *)
(* zombies are freed.                                                      *)
(***************************************************************************)
EXTENDS Process, SchedOpsProofs, FiniteSetTheorems

\* What alloc_pages and kmalloc pick is one of those that are free.
LEMMA LeastIn ==
  ASSUME NEW T, T \subseteq Nat, T # {}
  PROVE  least(T) \in T
  BY LeastNat DEF least

-----------------------------------------------------------------------------
(* Pages *)

\* No page is in two spaces, or in one and free.
PagesOK(m) ==
  /\ m \in MemType
  /\ \A i \in MmIds : Mapped(m.space[i]) \subseteq m.used
  /\ \A i, j \in MmIds : i # j => Mapped(m.space[i]) \cap Mapped(m.space[j]) = {}

\* The types behind PagesOK.
LEMMA MemTypes ==
  ASSUME NEW m \in MemType
  PROVE  /\ m.mm \in [Tasks -> MmIds \cup {init_mm}] /\ m.space \in [MmIds -> Space]
         /\ m.vfork \in SUBSET Tasks /\ m.used \in SUBSET Pages
         /\ \A i \in MmIds : /\ m.space[i] \in Space /\ m.space[i].used \in BOOLEAN
                             /\ m.space[i].code \in Pages \cup {NULL}
                             /\ m.space[i].brk \in [1..MaxBrk -> Pages \cup {NULL}]
                             /\ m.space[i].end \in 0..(MaxBrk + 1)
<1>1. m.space \in [MmIds -> Space]
  BY DEF MemType
<1>2. ASSUME NEW s \in Space
      PROVE  /\ s.used \in BOOLEAN /\ s.code \in Pages \cup {NULL}
             /\ s.brk \in [1..MaxBrk -> Pages \cup {NULL}] /\ s.end \in 0..(MaxBrk + 1)
  BY DEF Space
<1> QED
  BY <1>1, <1>2 DEF MemType

\* m2 is m but for space i, which is sp now, and for the pages in use.
Replaces(m, m2, i, sp) ==
  /\ m2 \in MemType /\ m2.mm = m.mm /\ m2.vfork = m.vfork
  /\ m2.space = [m.space EXCEPT ![i] = sp]

\* The pages of sp are in use and in no other space, and those of the others stay in use.
Fresh(m, m2, i, sp) ==
  /\ Mapped(sp) \subseteq m2.used
  /\ \A j \in MmIds : j # i => Mapped(m.space[j]) \subseteq m2.used
                               /\ Mapped(sp) \cap Mapped(m.space[j]) = {}

\* A space may be changed then.
LEMMA ReplacePages ==
  ASSUME NEW m, PagesOK(m), NEW i \in MmIds, NEW sp \in Space, NEW m2, Replaces(m, m2, i, sp),
         Fresh(m, m2, i, sp)
  PROVE  PagesOK(m2)
<1>1. \A j \in MmIds : m2.space[j] = IF j = i THEN sp ELSE m.space[j]
  BY MemTypes DEF PagesOK, Replaces
<1> QED
  BY <1>1 DEF PagesOK, Replaces, Fresh

\* Space i gets one more page; what else may change about it is where its brk ends.
Remaps(m, m2, i) ==
  /\ PagesOK(m2) /\ m2.mm = m.mm /\ m2.vfork = m.vfork
  /\ \A j \in MmIds : j # i => m2.space[j] = m.space[j]
  /\ m2.space[i].used = m.space[i].used
  /\ m.space[i].code # NULL => m2.space[i].code # NULL

\* The page table entries of s2 are those of s, and p.
Entries(s, s2, p) ==
  /\ s2 \in Space /\ s2.used = s.used /\ s2.end = s.end
  /\ Mapped(s2) \subseteq Mapped(s) \cup {p}

\* A page that was free goes into a space.
LEMMA AddPage ==
  ASSUME NEW m, PagesOK(m), NEW i \in MmIds, NEW p \in FreePages(m), NEW sp,
         Entries(m.space[i], sp, p), NEW m2, Replaces(m, m2, i, sp), m2.used = m.used \cup {p},
         m.space[i].code # NULL => sp.code # NULL
  PROVE  Remaps(m, m2, i)
<1>1. /\ \A j \in MmIds : Mapped(m.space[j]) \subseteq m.used
      /\ \A j \in MmIds : j # i => Mapped(m.space[j]) \cap Mapped(m.space[i]) = {}
      /\ p \notin m.used /\ m.space \in [MmIds -> Space]
  BY MemTypes DEF PagesOK, FreePages
<1>2. PagesOK(m2)
  <2>1. Mapped(sp) \subseteq m2.used
    BY <1>1 DEF Entries
  <2>2. ASSUME NEW j \in MmIds, j # i
        PROVE  Mapped(m.space[j]) \subseteq m2.used /\ Mapped(sp) \cap Mapped(m.space[j]) = {}
    BY <1>1, <2>2 DEF Entries
  <2>3. Fresh(m, m2, i, sp) /\ sp \in Space
    BY <2>1, <2>2 DEF Fresh, Entries
  <2> QED BY <2>3, ReplacePages
<1>3. \A j \in MmIds : m2.space[j] = IF j = i THEN sp ELSE m.space[j]
  BY <1>1 DEF Replaces
<1> QED
  BY <1>2, <1>3 DEF Remaps, Replaces, Entries

\* The page a map takes.
LEMMA NewPage ==
  ASSUME NEW m, PagesOK(m), FreePages(m) # {}
  PROVE  least(FreePages(m)) \in FreePages(m) /\ least(FreePages(m)) \in Pages
         /\ least(FreePages(m)) # NULL
<1>1. FreePages(m) \subseteq Nat /\ FreePages(m) \subseteq Pages
  BY MmAssumption DEF FreePages
<1>2. least(FreePages(m)) \in FreePages(m)
  BY <1>1, LeastIn
<1> QED
  BY <1>1, <1>2, NULLAssumption

\* alloc_pages for user code.
LEMMA MapCodeOK ==
  ASSUME NEW m, PagesOK(m), NEW i \in MmIds, FreePages(m) # {}, NEW m2, m2 = MapCode(m, i)
  PROVE  /\ Remaps(m, m2, i) /\ m2.space[i].code # NULL /\ m2.space[i].end = m.space[i].end
         /\ \E p \in FreePages(m) : m2.used = m.used \cup {p}
<1>1. PICK p \in FreePages(m) : p = least(FreePages(m)) /\ p \in Pages /\ p # NULL
  BY NewPage
<1>2. PICK sp : sp = [m.space[i] EXCEPT !.code = p]
  OBVIOUS
<1>3. m \in MemType /\ m.space[i] \in Space
  BY MemTypes DEF PagesOK
<1>4. sp \in Space /\ sp.code = p /\ sp.used = m.space[i].used /\ sp.end = m.space[i].end
      /\ sp.brk = m.space[i].brk
  BY <1>1, <1>2, <1>3 DEF Space
<1>5. m2 = [m EXCEPT !.space = [m.space EXCEPT ![i] = sp], !.used = m.used \cup {p}]
  BY <1>1, <1>2, <1>3 DEF MapCode, MemType
<1>6. Replaces(m, m2, i, sp) /\ m2.used = m.used \cup {p} /\ m2.space[i] = sp
  <2>1. [m.space EXCEPT ![i] = sp] \in [MmIds -> Space] /\ m.used \cup {p} \in SUBSET Pages
    BY <1>1, <1>3, <1>4, MemTypes
  <2> QED BY <1>3, <1>5, <2>1 DEF Replaces, MemType
<1>7. Entries(m.space[i], sp, p)
  BY <1>4 DEF Entries, Mapped
<1>8. Remaps(m, m2, i)
  BY <1>1, <1>4, <1>6, <1>7, AddPage
<1> QED
  BY <1>1, <1>4, <1>6, <1>8

\* alloc_pages for brk.
LEMMA MapBrkOK ==
  ASSUME NEW m, PagesOK(m), NEW i \in MmIds, FreePages(m) # {}, NEW n \in 1..MaxBrk,
         NEW m2, m2 = MapBrk(m, i, n)
  PROVE  Remaps(m, m2, i) /\ m2.space[i].end = m.space[i].end
<1>1. PICK p \in FreePages(m) : p = least(FreePages(m)) /\ p \in Pages /\ p # NULL
  BY NewPage
<1>2. PICK b : b = [m.space[i].brk EXCEPT ![n] = p]
  OBVIOUS
<1>3. PICK sp : sp = [m.space[i] EXCEPT !.brk = b]
  OBVIOUS
<1>4. m \in MemType /\ m.space[i] \in Space /\ m.space[i].brk \in [1..MaxBrk -> Pages \cup {NULL}]
  BY MemTypes DEF PagesOK
<1>5. b \in [1..MaxBrk -> Pages \cup {NULL}] /\ \A k \in 1..MaxBrk : b[k] \in {p, m.space[i].brk[k]}
  BY <1>1, <1>2, <1>4
<1>6. sp \in Space /\ sp.code = m.space[i].code /\ sp.used = m.space[i].used
      /\ sp.end = m.space[i].end /\ sp.brk = b
  BY <1>3, <1>4, <1>5 DEF Space
<1>7. m2 = [m EXCEPT !.space = [m.space EXCEPT ![i] = sp], !.used = m.used \cup {p}]
  BY <1>1, <1>2, <1>3, <1>4 DEF MapBrk, MemType
<1>8. Replaces(m, m2, i, sp) /\ m2.used = m.used \cup {p} /\ m2.space[i] = sp
  <2>1. [m.space EXCEPT ![i] = sp] \in [MmIds -> Space] /\ m.used \cup {p} \in SUBSET Pages
    BY <1>1, <1>4, <1>6, MemTypes
  <2> QED BY <1>4, <1>7, <2>1 DEF Replaces, MemType
<1>9. Entries(m.space[i], sp, p)
  BY <1>5, <1>6 DEF Entries, Mapped
<1>10. Remaps(m, m2, i)
  BY <1>6, <1>8, <1>9, AddPage
<1> QED
  BY <1>6, <1>8, <1>10

\* Steps that change one space compose.
LEMMA RemapsTrans ==
  ASSUME NEW m, NEW m1, NEW m2, NEW i \in MmIds, Remaps(m, m1, i), Remaps(m1, m2, i)
  PROVE  Remaps(m, m2, i)
  BY DEF Remaps

\* The end of brk is no page.
LEMMA SetEndOK ==
  ASSUME NEW m, PagesOK(m), NEW i \in MmIds, NEW e \in 0..(MaxBrk + 1),
         NEW m2, m2 = [m EXCEPT !.space[i].end = e]
  PROVE  Remaps(m, m2, i) /\ m2.used = m.used /\ m2.space[i].end = e
         /\ m2.space[i].code = m.space[i].code
<1>1. PICK sp : sp = [m.space[i] EXCEPT !.end = e]
  OBVIOUS
<1>2. m \in MemType /\ m.space[i] \in Space /\ m.space \in [MmIds -> Space]
  BY MemTypes DEF PagesOK
<1>3. /\ sp \in Space /\ sp.code = m.space[i].code /\ sp.used = m.space[i].used
      /\ sp.brk = m.space[i].brk /\ sp.end = e
  BY <1>1, <1>2 DEF Space
<1>4. m2 = [m EXCEPT !.space = [m.space EXCEPT ![i] = sp]]
  BY <1>1, <1>2 DEF MemType
<1>5. [m.space EXCEPT ![i] = sp] \in [MmIds -> Space]
  BY <1>2, <1>3
<1>6. Replaces(m, m2, i, sp) /\ m2.used = m.used /\ m2.space[i] = sp
  BY <1>2, <1>4, <1>5 DEF Replaces, MemType
<1>7. Mapped(sp) = Mapped(m.space[i])
  BY <1>3 DEF Mapped
<1>8. PagesOK(m2)
  <2>1. Mapped(sp) \subseteq m2.used
    BY <1>6, <1>7 DEF PagesOK
  <2>2. ASSUME NEW j \in MmIds, j # i
        PROVE  Mapped(m.space[j]) \subseteq m2.used /\ Mapped(sp) \cap Mapped(m.space[j]) = {}
    BY <1>6, <1>7, <2>2 DEF PagesOK
  <2>3. Fresh(m, m2, i, sp)
    BY <2>1, <2>2 DEF Fresh
  <2> QED BY <1>3, <1>6, <2>3, ReplacePages
<1>9. \A j \in MmIds : m2.space[j] = IF j = i THEN sp ELSE m.space[j]
  BY <1>2, <1>6 DEF Replaces
<1> QED
  BY <1>3, <1>6, <1>8, <1>9 DEF Remaps, Replaces

\* A space without a page.
LEMMA NoSpaceOK ==
  /\ NoSpace \in Space /\ [NoSpace EXCEPT !.used = TRUE] \in Space
  /\ Mapped(NoSpace) = {} /\ Mapped([NoSpace EXCEPT !.used = TRUE]) = {}
  /\ [NoSpace EXCEPT !.used = TRUE].used = TRUE
<1>1. [i \in 1..MaxBrk |-> NULL] \in [1..MaxBrk -> Pages \cup {NULL}] /\ 0 \in 0..(MaxBrk + 1)
  BY MmAssumption
<1>2. \A i \in 1..MaxBrk : [j \in 1..MaxBrk |-> NULL][i] = NULL
  OBVIOUS
<1>3. NoSpace \in Space /\ [NoSpace EXCEPT !.used = TRUE] \in Space
  BY <1>1 DEF NoSpace, Space
<1>4. /\ NoSpace.code = NULL /\ NoSpace.brk = [i \in 1..MaxBrk |-> NULL]
      /\ [NoSpace EXCEPT !.used = TRUE].code = NULL
      /\ [NoSpace EXCEPT !.used = TRUE].brk = [i \in 1..MaxBrk |-> NULL]
      /\ [NoSpace EXCEPT !.used = TRUE].used = TRUE
  BY DEF NoSpace
<1>5. ASSUME NEW s, s.code = NULL, s.brk = [i \in 1..MaxBrk |-> NULL] PROVE Mapped(s) = {}
  BY <1>2, <1>5 DEF Mapped
<1> QED
  BY <1>3, <1>4, <1>5

\* The mm_struct kmalloc returns was free.
LEMMA NewMmFree ==
  ASSUME NEW m, PagesOK(m), FreeMms(m) # {}
  PROVE  NewMm(m) \in MmIds /\ ~m.space[NewMm(m)].used /\ NewMm(m) # init_mm
<1>1. FreeMms(m) \subseteq Nat
  BY MmAssumption DEF FreeMms
<1>2. NewMm(m) \in FreeMms(m)
  BY <1>1, LeastIn DEF NewMm
<1> QED
  BY <1>2, MmAssumption DEF FreeMms, init_mm

\* t alone moves, into a space that was free; no other space changes.
Moves(m, m2, t, new) ==
  /\ PagesOK(m2) /\ new \in MmIds /\ new # init_mm /\ ~m.space[new].used
  /\ m2.mm = [m.mm EXCEPT ![t] = new] /\ m2.vfork = m.vfork
  /\ \A j \in MmIds : j # new => m2.space[j] = m.space[j]
  /\ m2.space[new].used

\* kmalloc of an mm_struct.
LEMMA AddMmOK ==
  ASSUME NEW m, PagesOK(m), FreeMms(m) # {}, NEW t \in Tasks, NEW m2, m2 = AddMm(m, t)
  PROVE  Moves(m, m2, t, NewMm(m)) /\ m2.used = m.used /\ m2.space[NewMm(m)].code = NULL
<1>1. PICK new : new = NewMm(m) /\ new \in MmIds /\ ~m.space[new].used /\ new # init_mm
  BY NewMmFree
<1>2. PICK sp \in Space : sp = [NoSpace EXCEPT !.used = TRUE] /\ Mapped(sp) = {} /\ sp.used
                          /\ sp.code = NULL
  <2>1. [NoSpace EXCEPT !.used = TRUE].code = NULL
    BY DEF NoSpace
  <2> QED BY <2>1, NoSpaceOK
<1>3. m \in MemType /\ m.space \in [MmIds -> Space] /\ m.mm \in [Tasks -> MmIds \cup {init_mm}]
  BY MemTypes DEF PagesOK
<1>4. PICK m1 : m1 = [m EXCEPT !.mm = [m.mm EXCEPT ![t] = new]]
  OBVIOUS
<1>5. m2 = [m1 EXCEPT !.space = [m.space EXCEPT ![new] = sp]]
  BY <1>1, <1>2, <1>3, <1>4 DEF AddMm, MemType
<1>6. m1 \in MemType /\ m1.space = m.space /\ m1.used = m.used /\ m1.vfork = m.vfork
      /\ m1.mm = [m.mm EXCEPT ![t] = new]
  <2>1. [m.mm EXCEPT ![t] = new] \in [Tasks -> MmIds \cup {init_mm}]
    BY <1>1, <1>3
  <2> QED BY <1>3, <1>4, <2>1 DEF MemType
<1>7. [m.space EXCEPT ![new] = sp] \in [MmIds -> Space]
  BY <1>1, <1>2, <1>3
<1>8. Replaces(m1, m2, new, sp) /\ m2.used = m.used /\ m2.space[new] = sp
  BY <1>1, <1>3, <1>5, <1>6, <1>7 DEF Replaces, MemType
<1>9. PagesOK(m1)
  BY <1>6 DEF PagesOK
<1>10. PagesOK(m2)
  <2>1. Mapped(sp) \subseteq m2.used
    BY <1>2
  <2>2. ASSUME NEW j \in MmIds, j # new
        PROVE  Mapped(m1.space[j]) \subseteq m2.used /\ Mapped(sp) \cap Mapped(m1.space[j]) = {}
    BY <1>2, <1>6, <1>8, <1>9 DEF PagesOK
  <2>3. Fresh(m1, m2, new, sp)
    BY <2>1, <2>2 DEF Fresh
  <2> QED BY <1>1, <1>8, <1>9, <2>3, ReplacePages
<1>11. \A j \in MmIds : j # new => m2.space[j] = m.space[j]
  BY <1>1, <1>3, <1>6, <1>8 DEF Replaces
<1> QED
  BY <1>1, <1>2, <1>6, <1>8, <1>10, <1>11 DEF Moves, Replaces

\* What is done to the new space afterwards.
LEMMA MovesRemaps ==
  ASSUME NEW m, NEW m1, NEW m2, NEW t, NEW new, Moves(m, m1, t, new), Remaps(m1, m2, new)
  PROVE  Moves(m, m2, t, new)
  BY DEF Moves, Remaps


\* t has a space of its own or shares one, with the program's code in it.
Own(m, t) == m.mm[t] # init_mm /\ m.space[m.mm[t]].used /\ m.space[m.mm[t]].code # NULL

\* The flags are no pages.
LEMMA SetFlagsOK ==
  ASSUME NEW m, PagesOK(m), NEW v \in SUBSET Tasks, NEW m2, m2 = [m EXCEPT !.vfork = v]
  PROVE  PagesOK(m2) /\ m2.mm = m.mm /\ m2.space = m.space /\ m2.used = m.used /\ m2.vfork = v
<1>1. m2 \in MemType /\ m2.mm = m.mm /\ m2.space = m.space /\ m2.used = m.used /\ m2.vfork = v
  BY DEF PagesOK, MemType
<1> QED
  BY <1>1 DEF PagesOK

\* alloc_pages succeeds as often as copy_mm calls it.
LEMMA PagesLeft ==
  ASSUME NEW m, NEW n \in 1..2, Cardinality(FreePages(m)) >= n
  PROVE  FreePages(m) # {} /\ (n = 2 => \A p : FreePages(m) \ {p} # {})
<1>1. IsFiniteSet(FreePages(m))
  BY MmAssumption, FS_Subset DEF FreePages
<1>2. FreePages(m) # {}
  BY <1>1, FS_EmptySet
<1>3. ASSUME n = 2, NEW p, FreePages(m) \ {p} = {} PROVE FALSE
  <2>1. FreePages(m) = {p}
    BY <1>2, <1>3
  <2>2. Cardinality({p}) = 1
    BY FS_Singleton
  <2> QED BY <1>3, <2>1, <2>2
<1> QED
  BY <1>2, <1>3

\* copy_mm without CLONE_VM gives the child a space of its own, with a page for its code.
LEMMA CopyMmOK ==
  ASSUME NEW m, PagesOK(m), NEW t \in Tasks, NEW cur \in Tasks, m.mm[cur] \in MmIds,
         FreeMms(m) # {}, Cardinality(FreePages(m)) >= CopyPages(m, cur),
         NEW vm \in BOOLEAN, ~vm, NEW m2, m2 = copy_mm(m, t, cur, vm)
  PROVE  \E new : Moves(m, m2, t, new) /\ m2.space[new].code # NULL
<1>1. PICK new : new = NewMm(m)
  OBVIOUS
<1>2. PICK e \in 0..(MaxBrk + 1) : e = m.space[m.mm[cur]].end
  BY MemTypes DEF PagesOK
<1>3. PICK m3 : m3 = AddMm(m, t)
  OBVIOUS
<1>4. /\ Moves(m, m3, t, new) /\ m3.used = m.used /\ new \in MmIds /\ PagesOK(m3)
  BY <1>1, <1>3, AddMmOK DEF Moves
<1>5. FreePages(m3) = FreePages(m) /\ FreePages(m) # {}
  <2>1. CopyPages(m, cur) \in 1..2
    BY DEF CopyPages
  <2> QED BY <1>4, <2>1, PagesLeft DEF FreePages
<1>6. PICK m4 : m4 = MapCode(m3, new)
  OBVIOUS
<1>7. /\ Remaps(m3, m4, new) /\ m4.space[new].code # NULL
      /\ \E p \in FreePages(m3) : m4.used = m3.used \cup {p}
  BY <1>4, <1>5, <1>6, MapCodeOK
<1>8. PICK m5 : m5 = [m4 EXCEPT !.space[new].end = e]
  OBVIOUS
<1>9. Remaps(m4, m5, new) /\ m5.used = m4.used /\ m5.space[new].code = m4.space[new].code
      /\ PagesOK(m4)
  <2>1. PagesOK(m4)
    BY <1>7 DEF Remaps
  <2> QED BY <1>2, <1>4, <1>8, <2>1, SetEndOK
<1>10. Moves(m, m5, t, new)
  BY <1>4, <1>7, <1>9, MovesRemaps
<1>11. m2 = IF e = 0 THEN m5 ELSE MapBrk(m5, new, 1)
  BY <1>1, <1>2, <1>3, <1>6, <1>8 DEF copy_mm
<1>12. CASE e = 0
  BY <1>7, <1>9, <1>10, <1>11, <1>12
<1>13. CASE e # 0
  <2>1. PICK p : m4.used = m3.used \cup {p}
    BY <1>7
  <2>2. FreePages(m) \ {p} # {}
    <3>1. CopyPages(m, cur) = 2
      BY <1>2, <1>13 DEF CopyPages
    <3> QED BY <3>1, PagesLeft
  <2>3. FreePages(m5) # {}
    BY <1>4, <1>9, <2>1, <2>2 DEF FreePages
  <2>4. PagesOK(m5) /\ 1 \in 1..MaxBrk /\ m2 = MapBrk(m5, new, 1)
    <3>1. 1 \in 1..MaxBrk
      BY MmAssumption
    <3> QED BY <1>9, <1>11, <1>13, <3>1 DEF Remaps
  <2>5. Remaps(m5, m2, new)
    BY <1>4, <2>3, <2>4, MapBrkOK
  <2>6. m2.space[new].code # NULL
    BY <1>7, <1>9, <2>5 DEF Remaps
  <2> QED BY <1>10, <2>5, <2>6, MovesRemaps
<1> QED BY <1>12, <1>13

\* do_execve gives a task that shares its parent's space one of its own; any other
\* one keeps what it has.
LEMMA ExecMmOK ==
  ASSUME NEW m, PagesOK(m), NEW t \in Tasks, NEW m2, m2 = ExecMm(m, t),
         t \in m.vfork => FreePages(m) # {} /\ FreeMms(m) # {}, t \notin m.vfork => Own(m, t)
  PROVE  IF t \in m.vfork THEN \E new : Moves(m, m2, t, new) /\ m2.space[new].code # NULL
         ELSE m2 = m
<1>1. CASE t \notin m.vfork
  BY <1>1 DEF ExecMm, Own
<1>2. CASE t \in m.vfork
  <2>1. PICK m3 : m3 = AddMm(m, t)
    OBVIOUS
  <2>2. PICK new : new = NewMm(m)
    OBVIOUS
  <2>3. Moves(m, m3, t, new) /\ m3.used = m.used /\ m3.space[new].code = NULL
    BY <1>2, <2>1, <2>2, AddMmOK
  <2>4. m3.mm[t] = new /\ new \in MmIds /\ PagesOK(m3)
    <3>1. m.mm \in [Tasks -> MmIds \cup {init_mm}]
      BY MemTypes DEF PagesOK
    <3> QED BY <2>3, <3>1 DEF Moves
  <2>5. m2 = MapCode(m3, new)
    BY <1>2, <2>1, <2>3, <2>4 DEF ExecMm
  <2>6. FreePages(m3) # {}
    BY <1>2, <2>3 DEF FreePages
  <2>7. Remaps(m3, m2, new) /\ m2.space[new].code # NULL
    BY <2>4, <2>5, <2>6, MapCodeOK
  <2>8. Moves(m, m2, t, new)
    BY <2>3, <2>7, MovesRemaps
  <2> QED BY <1>2, <2>7, <2>8
<1> QED BY <1>1, <1>2

\* exit_mm: t loses its space; unless PF_VFORK says that it is the parent's, its code
\* page becomes free and the mm_struct, and no other space changes.
LEMMA ExitMmOK ==
  ASSUME NEW m, PagesOK(m), NEW t \in Tasks, t \notin m.vfork => m.mm[t] \in MmIds,
         NEW m2, m2 = exit_mm(m, t)
  PROVE  /\ PagesOK(m2) /\ m2.mm = [m.mm EXCEPT ![t] = init_mm] /\ m2.vfork = m.vfork
         /\ \A j \in MmIds : t \in m.vfork \/ j # m.mm[t] => m2.space[j] = m.space[j]
<1>0. m \in MemType /\ m.space \in [MmIds -> Space] /\ m.mm \in [Tasks -> MmIds \cup {init_mm}]
      /\ m.used \in SUBSET Pages
  BY MemTypes DEF PagesOK
<1>1. PICK m1 : m1 = [m EXCEPT !.mm = [m.mm EXCEPT ![t] = init_mm]]
  OBVIOUS
<1>2. /\ m1 \in MemType /\ m1.space = m.space /\ m1.used = m.used /\ m1.vfork = m.vfork
      /\ m1.mm = [m.mm EXCEPT ![t] = init_mm]
  <2>1. [m.mm EXCEPT ![t] = init_mm] \in [Tasks -> MmIds \cup {init_mm}]
    BY <1>0
  <2> QED BY <1>0, <1>1, <2>1 DEF MemType
<1>3. PagesOK(m1)
  BY <1>2 DEF PagesOK
<1>4. CASE t \in m.vfork
  <2>1. m2 = m1
    BY <1>1, <1>4 DEF exit_mm
  <2> QED BY <1>2, <1>3, <1>4, <2>1
<1>5. CASE t \notin m.vfork
  <2>1. PICK i \in MmIds : i = m.mm[t]
    BY <1>5
  <2>2. PICK p : p = m.space[i].code
    OBVIOUS
  <2>3. m2 = [m1 EXCEPT !.space = [m.space EXCEPT ![i] = NoSpace], !.used = m.used \ {p}]
    BY <1>0, <1>1, <1>5, <2>1, <2>2 DEF exit_mm, MemType
  <2>4. NoSpace \in Space /\ Mapped(NoSpace) = {}
    BY NoSpaceOK
  <2>5. [m.space EXCEPT ![i] = NoSpace] \in [MmIds -> Space] /\ m.used \ {p} \in SUBSET Pages
    BY <1>0, <2>4
  <2>6. Replaces(m1, m2, i, NoSpace) /\ m2.used = m.used \ {p}
    BY <1>2, <2>3, <2>5 DEF Replaces, MemType
  <2>7. ASSUME NEW j \in MmIds, j # i PROVE Mapped(m.space[j]) \subseteq m.used \ {p}
    <3>1. Mapped(m.space[j]) \subseteq m.used /\ Mapped(m.space[j]) \cap Mapped(m.space[i]) = {}
      BY <2>7 DEF PagesOK
    <3>2. p \in Mapped(m.space[i]) \/ p = NULL
      BY <2>2 DEF Mapped
    <3>3. NULL \notin Mapped(m.space[j])
      BY DEF Mapped
    <3> QED BY <3>1, <3>2, <3>3
  <2>8. Fresh(m1, m2, i, NoSpace)
    BY <1>2, <2>4, <2>6, <2>7 DEF Fresh
  <2>9. PagesOK(m2)
    BY <1>3, <2>4, <2>6, <2>8, ReplacePages
  <2>10. \A j \in MmIds : j # i => m2.space[j] = m.space[j]
    BY <1>0, <1>2, <2>6 DEF Replaces
  <2> QED BY <1>2, <1>5, <2>1, <2>6, <2>9, <2>10 DEF Replaces
<1> QED BY <1>4, <1>5


\* One round of the loop of do_brk, for page table entry i.
BrkRound(x, mm, i) ==
  IF x.space[mm].end = ENOMEM \/ x.space[mm].brk[i] # NULL THEN x
  ELSE IF FreePages(x) = {} THEN [x EXCEPT !.space[mm].end = ENOMEM] ELSE MapBrk(x, mm, i)

\* g lists what the first n rounds leave behind.
BrkLoop(g, m, mm, n) ==
  g = [i \in 0..n |-> IF i <= m.space[mm].end THEN m ELSE BrkRound(g[i - 1], mm, i)]

\* The loop ends, whatever the number of rounds.
LEMMA BrkLoops ==
  ASSUME NEW m, NEW mm, m.space[mm].end \in Nat
  PROVE  \A n \in Nat : \E g : BrkLoop(g, m, mm, n)
<1> DEFINE T == {n \in Nat : ~\E g : BrkLoop(g, m, mm, n)}
<1>1. SUFFICES ASSUME T # {} PROVE FALSE
  OBVIOUS
<1>2. PICK x \in T : \A y \in T : x <= y
  <2>1. T \subseteq Nat
    OBVIOUS
  <2> HIDE DEF T
  <2> QED BY <1>1, <2>1, LeastNat
<1>3. x # 0
  <2>1. SUFFICES ASSUME x = 0 PROVE FALSE
    OBVIOUS
  <2>2. PICK g : g = [i \in 0..0 |-> m]
    OBVIOUS
  <2>3. \A i \in 0..0 : i <= m.space[mm].end
    OBVIOUS
  <2>4. BrkLoop(g, m, mm, 0)
    BY <2>2, <2>3 DEF BrkLoop
  <2> QED BY <1>2, <2>1, <2>4
<1>4. x \in Nat /\ x - 1 \in Nat /\ ~(x <= x - 1)
  BY <1>2, <1>3
<1>5. PICK g : BrkLoop(g, m, mm, x - 1)
  BY <1>2, <1>4
<1>6. PICK last : last = IF x <= m.space[mm].end THEN m ELSE BrkRound(g[x - 1], mm, x)
  OBVIOUS
<1>7. PICK h : h = [i \in 0..x |-> IF i = x THEN last ELSE g[i]]
  OBVIOUS
<1>8. ASSUME NEW i \in 0..x
      PROVE  h[i] = IF i <= m.space[mm].end THEN m ELSE BrkRound(h[i - 1], mm, i)
  <2>1. CASE i = x
    <3>1. x <= m.space[mm].end \/ h[x - 1] = g[x - 1]
      BY <1>4, <1>7
    <3> QED BY <1>4, <1>6, <1>7, <2>1, <3>1
  <2>2. CASE i # x
    <3>1. i \in 0..(x - 1) /\ h[i] = g[i]
      BY <1>4, <1>7, <2>2
    <3>2. g[i] = IF i <= m.space[mm].end THEN m ELSE BrkRound(g[i - 1], mm, i)
      BY <1>5, <3>1 DEF BrkLoop
    <3>3. i <= m.space[mm].end \/ h[i - 1] = g[i - 1]
      BY <1>4, <1>7, <3>1
    <3> QED BY <3>1, <3>2, <3>3
  <2> QED BY <2>1, <2>2
<1>9. BrkLoop(h, m, mm, x)
  <2>1. h = [i \in 0..x |-> h[i]]
    BY <1>7
  <2> QED BY <1>8, <2>1 DEF BrkLoop
<1> QED
  BY <1>2, <1>9

\* A round maps a page or nothing.
LEMMA BrkRoundOK ==
  ASSUME NEW x, PagesOK(x), NEW mm \in MmIds, NEW i \in 1..MaxBrk
  PROVE  Remaps(x, BrkRound(x, mm, i), mm)
<1>1. PICK y : y = BrkRound(x, mm, i)
  OBVIOUS
<1>2. CASE y = x
  BY <1>1, <1>2 DEF Remaps
<1>3. CASE FreePages(x) # {} /\ y = MapBrk(x, mm, i)
  <2>1. Remaps(x, y, mm)
    BY <1>3, MapBrkOK
  <2> QED BY <1>1, <2>1
<1>4. CASE y = [x EXCEPT !.space[mm].end = ENOMEM]
  <2>1. PICK e \in 0..(MaxBrk + 1) : e = ENOMEM
    BY MmAssumption DEF ENOMEM
  <2>2. Remaps(x, y, mm)
    BY <1>4, <2>1, SetEndOK
  <2> QED BY <1>1, <2>2
<1> QED
  BY <1>1, <1>2, <1>3, <1>4 DEF BrkRound

\* So does the loop.
LEMMA BrkLoopOK ==
  ASSUME NEW m, PagesOK(m), NEW mm \in MmIds, NEW n \in 0..MaxBrk, NEW g, BrkLoop(g, m, mm, n)
  PROVE  \A i \in 0..n : Remaps(m, g[i], mm)
<1> DEFINE T == {i \in 0..n : ~Remaps(m, g[i], mm)}
<1>1. SUFFICES ASSUME T # {} PROVE FALSE
  OBVIOUS
<1>2. PICK x \in T : \A y \in T : x <= y
  <2>1. T \subseteq Nat
    OBVIOUS
  <2> HIDE DEF T
  <2> QED BY <1>1, <2>1, LeastNat
<1>3. g[x] = IF x <= m.space[mm].end THEN m ELSE BrkRound(g[x - 1], mm, x)
  BY <1>2 DEF BrkLoop
<1>4. Remaps(m, m, mm)
  BY DEF Remaps
<1>5. ~(x <= m.space[mm].end)
  BY <1>2, <1>3, <1>4
<1>6. m.space[mm].end \in Nat
  BY MemTypes DEF PagesOK
<1>7. x \in 1..MaxBrk /\ x - 1 \in 0..n /\ ~(x <= x - 1)
  BY <1>2, <1>5, <1>6, MmAssumption
<1>8. Remaps(m, g[x - 1], mm)
  BY <1>2, <1>7
<1>9. PICK y : y = BrkRound(g[x - 1], mm, x)
  OBVIOUS
<1>10. Remaps(g[x - 1], y, mm)
  <2>1. PagesOK(g[x - 1])
    BY <1>8 DEF Remaps
  <2> QED BY <1>7, <1>9, <2>1, BrkRoundOK
<1>11. Remaps(m, y, mm)
  BY <1>8, <1>10, RemapsTrans
<1> QED
  BY <1>2, <1>3, <1>5, <1>9, <1>11

\* do_brk changes the one space, and keeps the program's code in it.
LEMMA DoBrkOK ==
  ASSUME NEW m, PagesOK(m), NEW mm \in MmIds, NEW new \in 0..MaxBrk, NEW m2, m2 = do_brk(m, mm, new)
  PROVE  Remaps(m, m2, mm)
<1> DEFINE grown == CHOOSE g : BrkLoop(g, m, mm, new)
<1>1. BrkLoop(grown, m, mm, new)
  <2>1. m.space[mm].end \in Nat
    BY MemTypes DEF PagesOK
  <2>2. new \in Nat
    BY MmAssumption
  <2>3. \E g : BrkLoop(g, m, mm, new)
    <3>1. \A n \in Nat : \E g : BrkLoop(g, m, mm, n)
      BY <2>1, BrkLoops, Zenon
    <3> QED BY <2>2, <3>1, Zenon
  <2> QED BY <2>3
<1>2. m2 = IF grown[new].space[mm].end = ENOMEM THEN grown[new]
           ELSE [grown[new] EXCEPT !.space[mm].end = new]
  BY Zenon DEF do_brk, BrkLoop, BrkRound
<1> HIDE DEF grown
<1>3. PICK x : x = grown[new]
  OBVIOUS
<1>4. Remaps(m, x, mm)
  <2>1. new \in 0..new
    BY MmAssumption
  <2> QED BY <1>1, <1>3, <2>1, BrkLoopOK
<1>5. CASE m2 = x
  BY <1>4, <1>5
<1>6. CASE m2 = [x EXCEPT !.space[mm].end = new]
  <2>1. new \in 0..(MaxBrk + 1) /\ PagesOK(x)
    BY <1>4, MmAssumption DEF Remaps
  <2>2. Remaps(x, m2, mm)
    BY <1>6, <2>1, SetEndOK
  <2> QED BY <1>4, <2>2, RemapsTrans
<1> QED
  BY <1>2, <1>3, <1>5, <1>6


-----------------------------------------------------------------------------
(* The task list *)

\* The task_struct behind init_task that hop reaches, and the two behind it.
LEMMA Hops ==
  ASSUME NEW p, NEW a, a = p.next[Idle], NEW b, b = p.next[a], NEW d, d = p.next[b]
  PROVE  hop(p, 0) = Idle /\ hop(p, 1) = a /\ hop(p, 2) = b /\ hop(p, 3) = d
<1> DEFINE Walks(h, n) == h = [i \in 0..n |-> IF i = 0 THEN Idle ELSE p.next[h[i - 1]]]
           walk == [i \in 0..3 |-> IF i = 0 THEN Idle ELSE IF i = 1 THEN a ELSE IF i = 2 THEN b ELSE d]
<1>1. ASSUME NEW n \in 0..3 PROVE \E h : Walks(h, n)
  <2>1. PICK h : h = [i \in 0..n |-> walk[i]]
    OBVIOUS
  <2>2. ASSUME NEW i \in 0..n PROVE h[i] = IF i = 0 THEN Idle ELSE p.next[h[i - 1]]
    BY <2>1
  <2>3. h = [i \in 0..n |-> h[i]]
    BY <2>1
  <2>4. [i \in 0..n |-> h[i]] = [i \in 0..n |-> IF i = 0 THEN Idle ELSE p.next[h[i - 1]]]
    BY <2>2
  <2>5. Walks(h, n)
    BY <2>3, <2>4
  <2> QED BY <2>5
<1>2. ASSUME NEW n \in 0..3 PROVE hop(p, n) = (CHOOSE h : Walks(h, n))[n]
  BY DEF hop
<1>3. ASSUME NEW n \in 0..3 PROVE \E h : Walks(h, n) /\ hop(p, n) = h[n]
  BY <1>1, <1>2
<1>4. ASSUME NEW n \in 0..3, NEW h, Walks(h, n)
      PROVE  /\ h[0] = Idle /\ (n >= 1 => h[1] = a) /\ (n >= 2 => h[2] = b) /\ (n = 3 => h[3] = d)
  <2>1. \A i \in 0..n : h[i] = IF i = 0 THEN Idle ELSE p.next[h[i - 1]]
    BY <1>4
  <2>2. h[0] = Idle
    BY <2>1
  <2>3. n >= 1 => h[1] = a
    BY <2>1, <2>2
  <2>4. n >= 2 => h[2] = b
    BY <2>1, <2>3
  <2>5. n = 3 => h[3] = d
    BY <2>1, <2>4
  <2> QED BY <2>2, <2>3, <2>4, <2>5
<1> HIDE DEF Walks
<1>5. /\ 0 \in 0..3 /\ 1 \in 0..3 /\ 2 \in 0..3 /\ 3 \in 0..3
  OBVIOUS
<1>6. hop(p, 0) = Idle
  BY <1>3, <1>4, <1>5
<1>7. hop(p, 1) = a
  BY <1>3, <1>4, <1>5
<1>8. hop(p, 2) = b
  BY <1>3, <1>4, <1>5
<1>9. hop(p, 3) = d
  BY <1>3, <1>4, <1>5
<1> QED
  BY <1>6, <1>7, <1>8, <1>9

\* The list is as long as the first walk that comes back to init_task.
LEMMA ListIs ==
  ASSUME NEW p, NEW n \in 1..2, Cardinality(Tasks) \in Nat, Cardinality(Tasks) > n,
         hop(p, n + 1) = Idle, \A i \in 1..n : hop(p, i) # Idle
  PROVE  Len(TaskList(p)) = n /\ \A i \in 1..n : TaskList(p)[i] = hop(p, i)
<1> DEFINE N == Cardinality(Tasks)
           Stops(j) == /\ j = N \/ hop(p, j + 1) = Idle
                       /\ \A i \in 1..j : hop(p, i) # Idle
<1>1. n \in 0..N /\ Stops(n)
  OBVIOUS
<1>2. ASSUME NEW j \in 0..N, Stops(j) PROVE j = n
  <2>1. CASE j < n
    <3>1. j + 1 \in 1..n /\ j # N
      BY <2>1
    <3> QED BY <1>2, <3>1
  <2>2. CASE j > n
    <3>1. n + 1 \in 1..j
      BY <2>2
    <3> QED BY <1>2, <3>1
  <2>3. j < n \/ j > n \/ j = n
    OBVIOUS
  <2> QED BY <2>1, <2>2, <2>3, Zenon
<1>3. (CHOOSE j \in 0..N : Stops(j)) = n
  BY <1>1, <1>2
<1>4. TaskList(p) = [i \in 1..n |-> hop(p, i)]
  BY <1>3 DEF TaskList
<1> QED
  BY <1>4


-----------------------------------------------------------------------------
(* The scheduler Process instantiates is the one SchedOps defines *)

\* The operators of the instance S of Sched are those of SchedOps: the list walk and
\* the insertion of insert_task_queue,
LEMMA SamePoint ==
  /\ \A k, t : S!InsertPoint(k, t) = InsertPoint(k, t)
  /\ \A s, i, x : S!InsertAt(s, i, x) = InsertAt(s, i, x)
<1>1. \A k, t : S!InsertPoint(k, t) = InsertPoint(k, t)
  BY Zenon DEF S!InsertPoint, InsertPoint
<1>2. \A s, i, x : S!InsertAt(s, i, x) = InsertAt(s, i, x)
  BY Zenon DEF S!InsertAt, InsertAt
<1> QED
  BY <1>1, <1>2

\* insert_task_queue itself,
LEMMA SameInsert == \A k, t : S!insert_task_queue(k, t) = insert_task_queue(k, t)
  BY SamePoint DEF S!insert_task_queue, insert_task_queue

\* the parts of schedule,
LEMMA SameParts ==
  /\ \A k : S!get_next_task(k) = get_next_task(k) /\ S!dequeue(k) = dequeue(k)
  /\ \A k, t : S!recharge(k, t) = recharge(k, t)
<1>1. \A k : S!get_next_task(k) = get_next_task(k)
  BY Zenon DEF S!get_next_task, get_next_task
<1>2. \A k : S!dequeue(k) = dequeue(k)
  BY Zenon DEF S!dequeue, dequeue
<1>3. \A k, t : S!recharge(k, t) = recharge(k, t)
  BY Zenon DEF S!recharge, recharge
<1> QED
  BY <1>1, <1>2, <1>3

\* schedule,
LEMMA SameSchedule == \A k : S!schedule(k) = schedule(k)
  BY SameInsert, SameParts DEF S!schedule, schedule

\* ret_from_intr,
LEMMA SameReturn == \A k : S!ret_from_intr(k) = ret_from_intr(k)
  BY SameSchedule DEF S!ret_from_intr, ret_from_intr

\* wakeup_process,
LEMMA SameWakeupProcess == \A k, t : S!wakeup_process(k, t) = wakeup_process(k, t)
  BY SameInsert DEF S!wakeup_process, wakeup_process

\* and wakeup.
LEMMA SameWakeup == \A k, c, st : S!wakeup(k, c, st) = wakeup(k, c, st)
  BY SameWakeupProcess DEF S!wakeup, wakeup

-----------------------------------------------------------------------------
(* Kernel entries that are not about processes *)

Quiet(k, k2) ==
  \/ k2 = ret_from_intr(HPET_handler(k))
  \/ k2 = ret_from_intr(k)
  \/ \E c \in Channels \ Tasks :
       \/ k2 = ret_from_intr(wakeup(k, c, "UNINTERRUPTIBLE"))
       \/ k.current # Idle /\ k2 = sleep_on(k, c, "UNINTERRUPTIBLE")
  \/ k.current # Idle /\ k2 = wait_for_finish(k)
  \/ \E t \in Tasks : OnDisk(k, t) /\ k2 = ret_from_intr(wakeup_process(k, t))

\* Reading a file, in sys_execve too.
LEMMA TransferIsQuiet == S!SysTransfer => kern.current # Idle /\ kern' = wait_for_finish(kern)
  BY SameSchedule DEF S!SysTransfer, S!wait_for_finish, wait_for_finish

\* Those of OtherEntry.
LEMMA OtherIsQuiet == OtherEntry => Quiet(kern, kern')
<1>1. S!Tick => kern' = ret_from_intr(HPET_handler(kern))
  BY SameReturn DEF S!Tick, S!HPET_handler, HPET_handler, S!Weight, Weight
<1>2. S!QuietIrq => kern' = ret_from_intr(kern)
  BY SameReturn DEF S!QuietIrq
<1>3. ASSUME NEW t \in Tasks, S!DiskIrq(t)
      PROVE  OnDisk(kern, t) /\ kern' = ret_from_intr(wakeup_process(kern, t))
  BY <1>3, SameReturn, SameWakeupProcess DEF S!DiskIrq, S!OnDisk, OnDisk
<1>4. ASSUME NEW c \in DeviceChannels, S!DeviceIrq(c)
      PROVE  c \in Channels \ Tasks /\ kern' = ret_from_intr(wakeup(kern, c, "UNINTERRUPTIBLE"))
  BY <1>4, SameReturn, SameWakeup, ChannelsAssumption DEF S!DeviceIrq
<1>5. ASSUME NEW c \in DeviceChannels, S!SysRead(c)
      PROVE  c \in Channels \ Tasks /\ kern.current # Idle /\ kern' = sleep_on(kern, c, "UNINTERRUPTIBLE")
  BY <1>5, SameSchedule, ChannelsAssumption DEF S!SysRead, S!sleep_on, sleep_on
<1> QED
  BY <1>1, <1>2, <1>3, <1>4, <1>5, TransferIsQuiet DEF OtherEntry, Quiet

\* Tasks go to sleep or are woken, but none in a wait4, and no task comes or goes; only
\* the running task can stop running.
Undisturbed(k, k2) ==
  /\ \A t \in Tasks : \/ k2.state[t] = k.state[t]
                      \/ /\ {k.state[t], k2.state[t]} \subseteq {"RUNNING", "UNINTERRUPTIBLE"}
                         /\ k2.state[t] = "RUNNING" \/ t = k.current
  /\ \A t \in Tasks : k2.wait[t] = k.wait[t]

\* The state of one task changes.
LEMMA SetsStateUndisturbed ==
  ASSUME NEW k, WaitType(k), NEW t \in Tasks, NEW st, NEW k2, SetsState(k, k2, t, st),
         {k.state[t], st} \subseteq {"RUNNING", "UNINTERRUPTIBLE"}, st = "RUNNING" \/ t = k.current
  PROVE  Undisturbed(k, k2)
<1>1. \A u \in Tasks : k2.state[u] = IF u = t THEN st ELSE k.state[u]
  BY DEF WaitType, SetsState, TaskStates
<1> QED
  BY <1>1 DEF Undisturbed, SetsState

\* These entries keep the scheduler's invariant and disturb nothing.
LEMMA QuietStep ==
  ASSUME NEW k, KernelOK(k, Tasks), NEW k2, Quiet(k, k2)
  PROVE  KernelOK(k2, Tasks) /\ Undisturbed(k, k2)
<1> DEFINE G == KernelOK(k2, Tasks) /\ Undisturbed(k, k2)
<1>0. /\ Inv(k) /\ WaitOK(k, Tasks) /\ WaitType(k) /\ k.current \in Tasks
      /\ k.state[k.current] = "RUNNING" /\ Tasks \subseteq Channels
  BY KernelTypes, ChannelsAssumption
<1>1. CASE k2 = ret_from_intr(HPET_handler(k))
  <2>1. Keeps(k, k2)
    BY <1>0, <1>1, TickStep
  <2>2. KernelOK(k2, Tasks)
    BY <1>0, <1>1, EntryStep DEF Entry
  <2> QED BY <2>1, <2>2 DEF Keeps, Undisturbed
<1>2. CASE k2 = ret_from_intr(k)
  <2>1. Keeps(k, k2)
    BY <1>0, <1>2, QuietIrqStep
  <2>2. KernelOK(k2, Tasks)
    BY <1>0, <1>2, EntryStep DEF Entry
  <2> QED BY <2>1, <2>2 DEF Keeps, Undisturbed
<1>3. ASSUME NEW c \in Channels \ Tasks, k2 = ret_from_intr(wakeup(k, c, "UNINTERRUPTIBLE")) PROVE G
  <2>1. Wakes(k, k2, c, "UNINTERRUPTIBLE")
    BY <1>0, <1>3, DeviceIrqStep
  <2>2. KernelOK(k2, Tasks)
    BY <1>0, <1>3, EntryStep DEF Entry
  <2>3. CASE Keeps(k, k2)
    BY <2>2, <2>3 DEF Keeps, Undisturbed
  <2>4. CASE ~Keeps(k, k2)
    <3>1. PICK h : h = Head(k.wait[c])
      OBVIOUS
    <3>2. /\ k2.state = [k.state EXCEPT ![h] = "RUNNING"] /\ k.state[h] = "UNINTERRUPTIBLE"
          /\ k2.wait = [k.wait EXCEPT ![c] = Tail(k.wait[c])]
      BY <2>1, <2>4, <3>1 DEF Wakes
    <3>3. \A u \in Tasks : k2.wait[u] = k.wait[u]
      BY <1>0, <1>3, <3>2 DEF WaitType, WaitQueues
    <3>4. \A u \in Tasks : k2.state[u] = IF u = h THEN "RUNNING" ELSE k.state[u]
      BY <1>0, <3>2 DEF WaitType, TaskStates
    <3> QED BY <2>2, <3>2, <3>3, <3>4 DEF Undisturbed
  <2> QED BY <2>3, <2>4
<1>4. ASSUME NEW c \in Channels \ Tasks, k.current # Idle, k2 = sleep_on(k, c, "UNINTERRUPTIBLE") PROVE G
  <2>1. PICK st \in States : st = "UNINTERRUPTIBLE" /\ st # "RUNNING" /\ st = SleepState(c, Tasks)
    BY <1>4 DEF States, SleepState
  <2>2. SleepsOn(k, k2, c, st)
    BY <1>0, <1>4, <2>1, SleepOnStep
  <2>3. KernelOK(k2, Tasks)
    BY <1>0, <1>4, <2>1, EntryStep DEF Entry
  <2>4. \A u \in Tasks : k2.state[u] = IF u = k.current THEN "UNINTERRUPTIBLE" ELSE k.state[u]
    BY <1>0, <2>1, <2>2 DEF WaitType, TaskStates, SleepsOn
  <2>5. \A u \in Tasks : k2.wait[u] = k.wait[u]
    BY <1>0, <1>4, <2>2 DEF WaitType, WaitQueues, SleepsOn
  <2> QED BY <1>0, <2>3, <2>4, <2>5 DEF Undisturbed
<1>5. CASE k.current # Idle /\ k2 = wait_for_finish(k)
  <2>1. KernelOK(k2, Tasks)
    BY <1>0, <1>5, TransferEntry
  <2>2. SetsState(k, k2, k.current, "UNINTERRUPTIBLE")
    BY <1>0, <1>5, TransferStep
  <2>3. PICK st : st = "UNINTERRUPTIBLE"
    OBVIOUS
  <2>4. Undisturbed(k, k2)
    BY <1>0, <2>2, <2>3, SetsStateUndisturbed
  <2> QED BY <2>1, <2>4
<1>6. ASSUME NEW t \in Tasks, OnDisk(k, t), k2 = ret_from_intr(wakeup_process(k, t)) PROVE G
  <2>1. KernelOK(k2, Tasks)
    BY <1>0, <1>6, DiskIrqEntry
  <2>2. SetsState(k, k2, t, "RUNNING") /\ k.state[t] = "UNINTERRUPTIBLE"
    BY <1>0, <1>6, DiskIrqStep DEF OnDisk
  <2>3. PICK st : st = "RUNNING"
    OBVIOUS
  <2>4. Undisturbed(k, k2)
    BY <1>0, <2>2, <2>3, SetsStateUndisturbed
  <2> QED BY <2>1, <2>4
<1> QED
  BY <1>1, <1>2, <1>3, <1>4, <1>5, <1>6 DEF Quiet


-----------------------------------------------------------------------------
(* The inductive invariant *)

Alive(k) == {t \in Tasks : k.state[t] # "NONE"}

\* The shell's child.
Young(k) == Alive(k) \ {Idle, InitTask}

\* init and its one child, which is the younger one.
FamilyOK(k, p) ==
  /\ InitTask \in Alive(k)
  /\ p.parent[Idle] = Idle /\ p.parent[InitTask] = Idle
  /\ p.pid[Idle] = 0 /\ p.pid[InitTask] = 0 /\ p.global_pid >= 1
  /\ \A t \in Young(k) : p.parent[t] = InitTask /\ p.pid[t] >= 1
  /\ \A t, u \in Young(k) : t = u

ListOK(k, p) ==
  /\ p.next[InitTask] = Idle
  /\ Young(k) = {} => p.next[Idle] = InitTask
  /\ \A t \in Young(k) : p.next[Idle] = t /\ p.next[t] = InitTask

\* What a task that sleeps in wait4, at start-up or in execve has on its stack.
WaitFrame(c) == [op |-> "wait4", child |-> c, tsk |-> Idle]
Boots == [op |-> "boot"]
Execs == [op |-> "execve"]

FramesOK(k, f) ==
  /\ f \in [Tasks -> Frames \cup {NULL}]
  /\ \A t \in Tasks \ {InitTask} : f[t] \in {NULL, Execs}
  /\ f[Idle] = NULL
  /\ \A t \in Tasks : k.state[t] \in {"NONE", "ZOMBIE"} => f[t] = NULL
  /\ f[InitTask] \in {NULL, Boots, Execs} \/ \E c \in Young(k) : f[InitTask] = WaitFrame(c)

\* Only init waits for a child, and as long as the child has not exited.
WaitsOK(k, f) ==
  /\ \A t \in Tasks \ {InitTask} : k.wait[t] = <<>>
  /\ k.wait[InitTask] = IF k.state[InitTask] = "INTERRUPTIBLE" THEN <<InitTask>> ELSE <<>>
  /\ k.state[InitTask] = "INTERRUPTIBLE" => f[InitTask] \notin {NULL, Boots, Execs}
  /\ \A c \in Young(k) : f[InitTask] = WaitFrame(c) =>
       k.state[InitTask] = IF k.state[c] = "ZOMBIE" THEN "RUNNING" ELSE "INTERRUPTIBLE"

\* The spaces of the tasks in A: init_mm is for the idle task and for init until its
\* do_execve; a child that shares init's space says so, and has not called execve.
HomesOK(A, m, f) ==
  /\ m.mm[Idle] = init_mm
  /\ f[InitTask] = Boots => m.mm[InitTask] = init_mm /\ InitTask \in m.vfork
  /\ InitTask \in m.vfork => f[InitTask] \in {Boots, Execs}
  /\ f[InitTask] \in {Boots, Execs} \/ InitTask \notin Forkers => A \subseteq {Idle, InitTask}
  /\ \A t \in A \ {Idle} : (t = InitTask /\ f[t] = Boots) \/ Own(m, t)
  /\ \A c \in A \ {Idle, InitTask} : m.mm[c] = m.mm[InitTask] => c \in m.vfork /\ f[c] # Execs

ProcInv ==
  /\ KernelOK(kern, Tasks) /\ proc \in ProcType
  /\ FamilyOK(kern, proc) /\ ListOK(kern, proc)
  /\ FramesOK(kern, frame) /\ WaitsOK(kern, frame)
  /\ PagesOK(mem) /\ HomesOK(Alive(kern), mem, frame)

\* The frames are told apart.
LEMMA FrameFacts ==
  /\ Boots \in Frames /\ Execs \in Frames /\ Boots # Execs /\ NULL \notin {Boots, Execs}
  /\ \A c \in Tasks : WaitFrame(c) \in Frames /\ WaitFrame(c) \notin {NULL, Boots, Execs}
  /\ Boots.op = "boot" /\ Execs.op = "execve"
  /\ \A c : WaitFrame(c).op = "wait4" /\ WaitFrame(c).child = c /\ WaitFrame(c).tsk = Idle
<1>1. /\ Boots.op = "boot" /\ Execs.op = "execve"
      /\ \A c : WaitFrame(c).op = "wait4" /\ WaitFrame(c).child = c /\ WaitFrame(c).tsk = Idle
  BY DEF Boots, Execs, WaitFrame
<1>2. Boots \in Frames /\ Execs \in Frames
  BY DEF Boots, Execs, Frames
<1>3. \A c \in Tasks : WaitFrame(c) \in Frames
  BY IdleAssumption DEF WaitFrame, Frames
<1>4. Boots # Execs /\ \A c : WaitFrame(c) # Boots /\ WaitFrame(c) # Execs
  BY <1>1
<1> QED
  BY <1>1, <1>2, <1>3, <1>4, NULLAssumption

\* The tasks that are always there, and what is known of the running one.
LEMMA Elders ==
  ASSUME NEW k, KernelOK(k, Tasks)
  PROVE  /\ Idle \in Alive(k) /\ Idle \in Tasks /\ InitTask \in Tasks /\ InitTask # Idle
         /\ k.current \in Alive(k) /\ k.current \in Tasks /\ k.state[k.current] = "RUNNING"
         /\ k.state[Idle] = "RUNNING" /\ WaitType(k) /\ Tasks \subseteq Channels
         /\ Inv(k) /\ WaitOK(k, Tasks)
<1>1. k.state[Idle] = "RUNNING"
  BY DEF KernelOK, Inv, Core
<1> QED
  BY <1>1, KernelTypes, IdleAssumption, TaskAssumption, ChannelsAssumption DEF Alive

\* A kernel entry that disturbs nothing.
LEMMA UndisturbedKeeps ==
  ASSUME NEW k, KernelOK(k, Tasks), NEW k2, KernelOK(k2, Tasks), Undisturbed(k, k2),
         NEW p, FamilyOK(k, p), ListOK(k, p), NEW f, FramesOK(k, f), WaitsOK(k, f),
         f[k.current] \in {NULL, Boots, Execs}
  PROVE  /\ Alive(k2) = Alive(k) /\ FamilyOK(k2, p) /\ ListOK(k2, p)
         /\ FramesOK(k2, f) /\ WaitsOK(k2, f)
<1>0. InitTask \in Tasks /\ InitTask # Idle
  BY Elders
<1>1. \A t \in Tasks : \/ k2.state[t] = k.state[t]
                       \/ /\ k.state[t] \in {"RUNNING", "UNINTERRUPTIBLE"}
                          /\ k2.state[t] \in {"RUNNING", "UNINTERRUPTIBLE"}
                          /\ k2.state[t] = "RUNNING" \/ t = k.current
  BY DEF Undisturbed
<1>2. Alive(k2) = Alive(k) /\ Young(k2) = Young(k)
  BY <1>1 DEF Alive, Young
<1>3. FamilyOK(k2, p) /\ ListOK(k2, p)
  BY <1>2 DEF FamilyOK, ListOK
<1>4. \A t \in Tasks : /\ k2.state[t] \in {"NONE", "ZOMBIE"} <=> k.state[t] \in {"NONE", "ZOMBIE"}
                       /\ k2.state[t] = "INTERRUPTIBLE" <=> k.state[t] = "INTERRUPTIBLE"
                       /\ k2.state[t] = "ZOMBIE" <=> k.state[t] = "ZOMBIE"
  BY <1>1
<1>5. FramesOK(k2, f)
  BY <1>2, <1>4 DEF FramesOK
<1>6. \A t \in Tasks : k2.wait[t] = k.wait[t]
  BY DEF Undisturbed
<1>7. ASSUME NEW c \in Young(k2), f[InitTask] = WaitFrame(c)
      PROVE  k2.state[InitTask] = IF k2.state[c] = "ZOMBIE" THEN "RUNNING" ELSE "INTERRUPTIBLE"
  <2>1. c \in Young(k) /\ c \in Tasks
    BY <1>2 DEF Young, Alive
  <2>2. k.current # InitTask
    BY <1>7, <2>1, FrameFacts
  <2>3. k.state[InitTask] = IF k.state[c] = "ZOMBIE" THEN "RUNNING" ELSE "INTERRUPTIBLE"
    BY <1>7, <2>1 DEF WaitsOK
  <2> QED BY <1>0, <1>1, <1>4, <2>1, <2>2, <2>3
<1>8. WaitsOK(k2, f)
  BY <1>0, <1>4, <1>6, <1>7 DEF WaitsOK
<1> QED
  BY <1>2, <1>3, <1>5, <1>8


-----------------------------------------------------------------------------
(* The invariant's parts under each call: the list *)

\* link puts the new child in front of init.
LEMMA LinkOK ==
  ASSUME NEW k, NEW p \in ProcType, FamilyOK(k, p), ListOK(k, p), Young(k) = {},
         NEW t \in Tasks, t \notin Alive(k), Idle \in Alive(k),
         NEW k2, Alive(k2) = Alive(k) \cup {t}, NEW p2, p2 = link(p, t, InitTask)
  PROVE  p2 \in ProcType /\ FamilyOK(k2, p2) /\ ListOK(k2, p2)
<1>0. InitTask \in Tasks /\ Idle \in Tasks /\ t # Idle /\ t # InitTask /\ InitTask # Idle
  BY TaskAssumption, IdleAssumption DEF FamilyOK
<1>1. /\ p.next \in [Tasks -> Tasks] /\ p.pid \in [Tasks -> Nat] /\ p.parent \in [Tasks -> Tasks]
      /\ p.global_pid \in Nat
  BY DEF ProcType
<1>2. PICK nx : nx = [p.next EXCEPT ![t] = p.next[Idle], ![Idle] = t]
  OBVIOUS
<1>3. PICK pd : pd = [p.pid EXCEPT ![t] = p.global_pid]
  OBVIOUS
<1>4. PICK pr : pr = [p.parent EXCEPT ![t] = InitTask]
  OBVIOUS
<1>5. p2 = [next |-> nx, pid |-> pd, parent |-> pr, global_pid |-> p.global_pid + 1]
  BY <1>2, <1>3, <1>4 DEF link
<1>6. nx \in [Tasks -> Tasks] /\ nx[Idle] = t /\ nx[t] = p.next[Idle] /\ nx[InitTask] = p.next[InitTask]
  BY <1>0, <1>1, <1>2
<1>7. /\ pd \in [Tasks -> Nat] /\ pd[t] = p.global_pid
      /\ pd[Idle] = p.pid[Idle] /\ pd[InitTask] = p.pid[InitTask]
  BY <1>0, <1>1, <1>3
<1>8. /\ pr \in [Tasks -> Tasks] /\ pr[t] = InitTask
      /\ pr[Idle] = p.parent[Idle] /\ pr[InitTask] = p.parent[InitTask]
  BY <1>0, <1>1, <1>4
<1>9. /\ p2.next = nx /\ p2.pid = pd /\ p2.parent = pr /\ p2.global_pid = p.global_pid + 1
      /\ p2 \in ProcType
  <2>1. p.global_pid + 1 \in Nat
    BY <1>1
  <2> QED BY <1>5, <1>6, <1>7, <1>8, <2>1 DEF ProcType
<1>10. Young(k2) = {t}
  BY <1>0 DEF Young
<1>11. FamilyOK(k2, p2)
  <2>1. p.global_pid + 1 >= 1 /\ p.global_pid >= 1
    BY <1>1 DEF FamilyOK
  <2> QED BY <1>7, <1>8, <1>9, <1>10, <2>1 DEF FamilyOK
<1>12. ListOK(k2, p2)
  BY <1>6, <1>9, <1>10 DEF ListOK
<1> QED
  BY <1>9, <1>11, <1>12

\* unlink takes it out again.
LEMMA UnlinkOK ==
  ASSUME NEW k, NEW p \in ProcType, FamilyOK(k, p), ListOK(k, p), NEW c \in Young(k),
         NEW k2, Alive(k2) = Alive(k) \ {c}, NEW p2, p2 = unlink(p, Idle, c)
  PROVE  p2 \in ProcType /\ FamilyOK(k2, p2) /\ ListOK(k2, p2)
<1>0. InitTask \in Tasks /\ Idle \in Tasks /\ c # Idle /\ c # InitTask /\ InitTask # Idle
  BY TaskAssumption, IdleAssumption DEF Young
<1>1. p.next \in [Tasks -> Tasks] /\ p.next[c] = InitTask
  BY DEF ProcType, ListOK
<1>2. PICK nx : nx = [p.next EXCEPT ![Idle] = InitTask]
  OBVIOUS
<1>3. p2 = [p EXCEPT !.next = nx]
  BY <1>0, <1>1, <1>2 DEF unlink, ProcType
<1>4. nx \in [Tasks -> Tasks] /\ nx[Idle] = InitTask /\ nx[InitTask] = p.next[InitTask]
  BY <1>0, <1>1, <1>2
<1>5. /\ p2.next = nx /\ p2.pid = p.pid /\ p2.parent = p.parent /\ p2.global_pid = p.global_pid
      /\ p2 \in ProcType
  BY <1>3, <1>4 DEF ProcType
<1>6. Young(k2) = {}
  <2>1. \A u \in Young(k) : u = c
    BY DEF FamilyOK
  <2> QED BY <2>1 DEF Young
<1>7. InitTask \in Alive(k2)
  BY <1>0 DEF FamilyOK
<1> QED
  BY <1>4, <1>5, <1>6, <1>7 DEF FamilyOK, ListOK

\* Behind init_task there is room for init in the list.
LEMMA TwoTasks == IsFiniteSet({Idle, InitTask}) /\ Cardinality({Idle, InitTask}) = 2
<1>1. IsFiniteSet({Idle}) /\ Cardinality({Idle}) = 1
  BY FS_Singleton
<1>2. InitTask \notin {Idle}
  BY TaskAssumption
<1>3. IsFiniteSet({Idle} \cup {InitTask}) /\ Cardinality({Idle} \cup {InitTask}) = 1 + 1
  BY <1>1, <1>2, FS_AddElement
<1>4. {Idle} \cup {InitTask} = {Idle, InitTask} /\ 1 + 1 = 2
  OBVIOUS
<1> QED
  BY <1>3, <1>4, Zenon

\* What the loop of sys_wait4 sees.
LEMMA ListShape ==
  ASSUME NEW k, KernelOK(k, Tasks), NEW p, FamilyOK(k, p), ListOK(k, p)
  PROVE  /\ hop(p, 0) = Idle
         /\ Young(k) = {} => Len(TaskList(p)) = 1 /\ TaskList(p)[1] = InitTask
         /\ \A c \in Young(k) :
              Len(TaskList(p)) = 2 /\ TaskList(p)[1] = c /\ TaskList(p)[2] = InitTask
<1>0. InitTask \in Tasks /\ Idle \in Tasks /\ InitTask # Idle
  BY Elders
<1>1. hop(p, 0) = Idle
  BY Hops
<1>2. Cardinality(Tasks) \in Nat /\ IsFiniteSet(Tasks)
  BY TaskAssumption, FS_CardinalityType
<1>3. ASSUME Young(k) = {} PROVE Len(TaskList(p)) = 1 /\ TaskList(p)[1] = InitTask
  <2>1. hop(p, 1) = InitTask /\ hop(p, 2) = Idle
    BY <1>3, Hops DEF ListOK
  <2>2. Cardinality(Tasks) > 1
    <3>1. Cardinality({Idle, InitTask}) = 2
      BY TwoTasks
    <3>2. {Idle, InitTask} \subseteq Tasks
      BY <1>0
    <3>3. Cardinality({Idle, InitTask}) <= Cardinality(Tasks)
      BY <1>2, <3>2, FS_Subset
    <3> QED BY <1>2, <3>1, <3>3
  <2>3. PICK n \in 1..2 : n = 1
    OBVIOUS
  <2>4. /\ hop(p, n + 1) = Idle /\ \A i \in 1..n : hop(p, i) # Idle
    BY <1>0, <2>1, <2>3
  <2>5. Len(TaskList(p)) = n /\ \A i \in 1..n : TaskList(p)[i] = hop(p, i)
    BY <1>2, <2>2, <2>3, <2>4, ListIs
  <2> QED BY <2>1, <2>3, <2>5
<1>4. ASSUME NEW c \in Young(k)
      PROVE  Len(TaskList(p)) = 2 /\ TaskList(p)[1] = c /\ TaskList(p)[2] = InitTask
  <2>0. c \in Tasks /\ c # Idle /\ c # InitTask
    BY DEF Young, Alive
  <2>1. hop(p, 1) = c /\ hop(p, 2) = InitTask /\ hop(p, 3) = Idle
    BY <1>4, Hops DEF ListOK
  <2>2. Cardinality(Tasks) > 2
    <3>1. IsFiniteSet({Idle, InitTask}) /\ Cardinality({Idle, InitTask}) = 2
      BY TwoTasks
    <3>2. Cardinality({Idle, InitTask} \cup {c}) = 3
      <4>1. PICK T : T = {Idle, InitTask}
        OBVIOUS
      <4>2. IsFiniteSet(T) /\ Cardinality(T) = 2 /\ c \notin T
        BY <2>0, <3>1, <4>1
      <4>3. Cardinality(T \cup {c}) = IF c \in T THEN Cardinality(T) ELSE Cardinality(T) + 1
        BY <4>2, FS_AddElement, Zenon
      <4> QED BY <4>1, <4>2, <4>3
    <3>3. {Idle, InitTask} \cup {c} \subseteq Tasks
      BY <1>0, <2>0
    <3>4. Cardinality({Idle, InitTask} \cup {c}) <= Cardinality(Tasks)
      BY <1>2, <3>3, FS_Subset
    <3> QED BY <1>2, <3>2, <3>4
  <2>3. PICK n \in 1..2 : n = 2
    OBVIOUS
  <2>4. /\ hop(p, n + 1) = Idle /\ \A i \in 1..n : hop(p, i) # Idle
    BY <1>0, <2>0, <2>1, <2>3
  <2>5. Len(TaskList(p)) = n /\ \A i \in 1..n : TaskList(p)[i] = hop(p, i)
    BY <1>2, <2>2, <2>3, <2>4, ListIs
  <2> QED BY <2>1, <2>3, <2>5
<1> QED
  BY <1>1, <1>3, <1>4

\* It finds the child, whose predecessor is init_task.
LEMMA FindOK ==
  ASSUME NEW k, KernelOK(k, Tasks), NEW p \in ProcType, FamilyOK(k, p), ListOK(k, p),
         NEW c \in Young(k)
  PROVE  find(p, p.pid[c]) = 1 /\ TaskList(p)[1] = c /\ hop(p, 0) = Idle
<1>1. hop(p, 0) = Idle /\ Len(TaskList(p)) = 2 /\ TaskList(p)[1] = c /\ TaskList(p)[2] = InitTask
  BY ListShape
<1>2. p.pid[c] # p.pid[InitTask]
  BY DEF FamilyOK
<1>3. PICK pid : pid = p.pid[c]
  OBVIOUS
<1>4. PICK l : l = TaskList(p)
  OBVIOUS
<1> DEFINE First(i) == p.pid[l[i]] = pid /\ \A j \in 1..(i - 1) : p.pid[l[j]] # pid
<1>5. 1 \in 1..Len(l) /\ p.pid[l[1]] = pid /\ First(1)
  BY <1>1, <1>3, <1>4
<1>6. \A i \in 1..Len(l) : First(i) => i = 1
  BY <1>1, <1>2, <1>3, <1>4
<1>7. (CHOOSE i \in 1..Len(l) : First(i)) = 1
  BY <1>5, <1>6
<1>8. find(p, pid) = 1
  BY <1>4, <1>5, <1>7 DEF find
<1> QED
  BY <1>1, <1>3, <1>8


-----------------------------------------------------------------------------
(* The address spaces under each call *)

\* mm as a function on the tasks.
LEMMA MmOf ==
  ASSUME NEW m, PagesOK(m), NEW t \in Tasks, NEW i, NEW f, f = [m.mm EXCEPT ![t] = i]
  PROVE  /\ \A u \in Tasks : f[u] = IF u = t THEN i ELSE m.mm[u]
         /\ \A u \in Tasks : m.mm[u] # init_mm => m.mm[u] \in MmIds
  BY MemTypes DEF PagesOK

\* init, still without a child, is in the system call, and t is free.
Forks(A, f, t) ==
  /\ InitTask \in A /\ A \subseteq {Idle, InitTask} /\ t \notin {Idle, InitTask}
  /\ f[InitTask] = NULL /\ f[t] = NULL /\ InitTask \in Forkers

\* copy_flags and copy_mm for t, with enough memory.
Copied(m, m2, t) ==
  \E vm \in BOOLEAN :
    /\ ~vm => FreeMms(m) # {} /\ Cardinality(FreePages(m)) >= CopyPages(m, InitTask)
    /\ m2 = copy_mm(copy_flags(m, t, InitTask, vm), t, InitTask, vm)

\* fork and vfork: the child is the first one, and init is in a space of its own.
LEMMA HomesFork ==
  ASSUME NEW A \in SUBSET Tasks, NEW m, PagesOK(m), NEW f, HomesOK(A, m, f), NEW t \in Tasks,
         Forks(A, f, t), NEW m2, Copied(m, m2, t)
  PROVE  PagesOK(m2) /\ HomesOK(A \cup {t}, m2, f)
<1> PICK vm \in BOOLEAN :
      /\ ~vm => FreeMms(m) # {} /\ Cardinality(FreePages(m)) >= CopyPages(m, InitTask)
      /\ m2 = copy_mm(copy_flags(m, t, InitTask, vm), t, InitTask, vm)
  BY DEF Copied
<1>0. /\ InitTask \in Tasks /\ Idle \in Tasks /\ InitTask # Idle /\ t # Idle /\ t # InitTask
      /\ f[InitTask] \notin {Boots, Execs} /\ f[t] # Execs
      /\ InitTask \in A /\ A \subseteq {Idle, InitTask} /\ InitTask \in Forkers
  BY TaskAssumption, IdleAssumption, FrameFacts DEF Forks
<1>1. Own(m, InitTask) /\ InitTask \notin m.vfork /\ m.mm[InitTask] \in MmIds /\ m.mm[Idle] = init_mm
  BY <1>0, MemTypes DEF HomesOK, Own, PagesOK
<1>2. PICK m1 : m1 = copy_flags(m, t, InitTask, vm)
  OBVIOUS
<1>3. /\ PagesOK(m1) /\ m1.mm = m.mm /\ m1.space = m.space /\ m1.used = m.used
      /\ m1.vfork = IF vm THEN m.vfork \cup {t} ELSE m.vfork \ {t}
  <2>1. PICK v \in SUBSET Tasks : v = IF vm THEN m.vfork \cup {t} ELSE m.vfork \ {t}
    BY MemTypes DEF PagesOK
  <2>2. m1 = [m EXCEPT !.vfork = v]
    BY <1>1, <1>2, <2>1 DEF copy_flags
  <2>3. PagesOK(m1) /\ m1.mm = m.mm /\ m1.space = m.space /\ m1.used = m.used /\ m1.vfork = v
    BY <2>2, SetFlagsOK
  <2> QED BY <2>1, <2>3
<1>4. InitTask \notin m1.vfork /\ (vm => t \in m1.vfork)
  BY <1>0, <1>1, <1>3
<1>5. m2 = copy_mm(m1, t, InitTask, vm)
  BY <1>2
<1>6. CASE vm
  <2>1. m2 = [m1 EXCEPT !.mm = [m1.mm EXCEPT ![t] = m1.mm[InitTask]]]
    BY <1>5, <1>6 DEF copy_mm
  <2>2. [m1.mm EXCEPT ![t] = m1.mm[InitTask]] \in [Tasks -> MmIds \cup {init_mm}] /\ m1 \in MemType
    BY <1>0, <1>3, MemTypes DEF PagesOK
  <2>3. /\ m2 \in MemType /\ m2.space = m.space /\ m2.used = m1.used /\ m2.vfork = m1.vfork
        /\ m2.mm = [m1.mm EXCEPT ![t] = m1.mm[InitTask]]
    BY <1>3, <2>1, <2>2 DEF MemType
  <2>4. PagesOK(m2)
    BY <1>3, <2>3 DEF PagesOK
  <2>5. m2.mm[t] = m.mm[InitTask] /\ m2.mm[InitTask] = m.mm[InitTask] /\ m2.mm[Idle] = init_mm
    BY <1>0, <1>1, <1>3, <2>3, MmOf
  <2>6. Own(m2, t) /\ Own(m2, InitTask)
    BY <1>1, <2>3, <2>5 DEF Own
  <2> QED BY <1>0, <1>4, <1>6, <2>3, <2>4, <2>5, <2>6 DEF HomesOK
<1>7. CASE ~vm
  <2>1. CopyPages(m1, InitTask) = CopyPages(m, InitTask) /\ FreePages(m1) = FreePages(m)
        /\ FreeMms(m1) = FreeMms(m)
    BY <1>3 DEF CopyPages, FreePages, FreeMms
  <2>2. PICK new : Moves(m1, m2, t, new) /\ m2.space[new].code # NULL
    BY <1>0, <1>1, <1>3, <1>5, <1>7, <2>1, CopyMmOK
  <2>3. m2.mm[t] = new /\ m2.mm[InitTask] = m.mm[InitTask] /\ m2.mm[Idle] = init_mm
    <3>1. m2.mm = [m.mm EXCEPT ![t] = new] /\ m.mm \in [Tasks -> MmIds \cup {init_mm}]
      BY <1>3, <2>2, MemTypes DEF Moves, PagesOK
    <3> QED BY <1>0, <1>1, <3>1
  <2>4. new # m.mm[InitTask] /\ m2.space[m.mm[InitTask]] = m.space[m.mm[InitTask]]
    BY <1>1, <1>3, <2>2 DEF Own, Moves
  <2>5. Own(m2, t) /\ Own(m2, InitTask) /\ m2.mm[t] # m2.mm[InitTask] /\ PagesOK(m2)
    BY <1>1, <2>2, <2>3, <2>4 DEF Own, Moves
  <2>6. InitTask \notin m2.vfork
    BY <1>4, <2>2 DEF Moves
  <2> QED BY <1>0, <2>3, <2>5, <2>6 DEF HomesOK
<1> QED BY <1>6, <1>7

\* execve, up to the sleep.
LEMMA HomesExec ==
  ASSUME NEW A \in SUBSET Tasks, NEW m, PagesOK(m), NEW f \in [Tasks -> Frames \cup {NULL}],
         HomesOK(A, m, f), InitTask \in A, NEW t \in A \ {Idle}, f[t] \in {NULL, Boots},
         f[t] = NULL => t \notin Forkers, t # InitTask => f[t] = NULL,
         t \in m.vfork => FreePages(m) # {} /\ FreeMms(m) # {}, NEW m2, m2 = ExecMm(m, t),
         NEW f2, f2 = [f EXCEPT ![t] = Execs]
  PROVE  PagesOK(m2) /\ HomesOK(A, m2, f2)
<1>0. /\ InitTask \in Tasks /\ Idle \in Tasks /\ InitTask # Idle /\ t \in Tasks
      /\ Boots # Execs /\ NULL # Execs /\ NULL # Boots
  BY TaskAssumption, IdleAssumption, FrameFacts
<1>1. \A u \in Tasks : f2[u] = IF u = t THEN Execs ELSE f[u]
  OBVIOUS
<1>2. t \notin m.vfork => Own(m, t)
  BY <1>0 DEF HomesOK
<1>3. t = InitTask => A \subseteq {Idle, InitTask}
  BY <1>0 DEF HomesOK
<1>4. /\ f2[InitTask] = Boots => t # InitTask /\ f[InitTask] = Boots
      /\ f2[InitTask] \in {Boots, Execs} => t = InitTask \/ f[InitTask] \in {Boots, Execs}
      /\ InitTask \in m.vfork => f2[InitTask] \in {Boots, Execs}
  BY <1>0, <1>1 DEF HomesOK
<1>5. f2[InitTask] \in {Boots, Execs} \/ InitTask \notin Forkers => A \subseteq {Idle, InitTask}
  BY <1>3, <1>4 DEF HomesOK
<1>6. CASE t \notin m.vfork
  <2>1. m2 = m
    BY <1>0, <1>2, <1>6, ExecMmOK
  <2>2. \A u \in A \ {Idle} : (u = InitTask /\ f2[u] = Boots) \/ Own(m, u)
    BY <1>1, <1>2, <1>6 DEF HomesOK
  <2>3. ASSUME NEW c \in A \ {Idle, InitTask}, m.mm[c] = m.mm[InitTask]
        PROVE  c \in m.vfork /\ f2[c] # Execs
    BY <1>1, <1>6, <2>3 DEF HomesOK
  <2>4. HomesOK(A, m, f2)
    BY <1>4, <1>5, <2>2, <2>3 DEF HomesOK
  <2> QED BY <2>1, <2>4
<1>7. CASE t \in m.vfork
  <2>1. PICK new : Moves(m, m2, t, new) /\ m2.space[new].code # NULL
    BY <1>0, <1>2, <1>7, ExecMmOK
  <2>2. \A u \in Tasks : m2.mm[u] = IF u = t THEN new ELSE m.mm[u]
    <3>1. m2.mm = [m.mm EXCEPT ![t] = new] /\ m.mm \in [Tasks -> MmIds \cup {init_mm}]
      BY <2>1, MemTypes DEF Moves, PagesOK
    <3> QED BY <1>0, <3>1
  <2>3. Own(m2, t) /\ m2.vfork = m.vfork /\ PagesOK(m2) /\ new # init_mm /\ new \in MmIds
    BY <1>0, <2>1, <2>2 DEF Own, Moves
  <2>4. ASSUME NEW u \in Tasks, u # t, Own(m, u) PROVE Own(m2, u) /\ m2.mm[u] # new
    <3>1. m.mm[u] \in MmIds /\ m.mm[u] # new
      BY <2>1, <2>4, MemTypes DEF Own, Moves, PagesOK
    <3>2. m2.space[m.mm[u]] = m.space[m.mm[u]]
      BY <2>1, <3>1 DEF Moves
    <3> QED BY <2>2, <2>4, <3>1, <3>2 DEF Own
  <2>5. \A u \in A \ {Idle} : (u = InitTask /\ f2[u] = Boots) \/ Own(m2, u)
    BY <1>1, <2>3, <2>4 DEF HomesOK
  <2>6. ASSUME NEW c \in A \ {Idle, InitTask} PROVE m2.mm[c] # m2.mm[InitTask] \/ (c \in m.vfork /\ f2[c] # Execs)
    <3>1. t # InitTask
      BY <1>3, <2>6
    <3>2. f[InitTask] \notin {Boots, Execs}
      BY <2>6 DEF HomesOK
    <3>3. Own(m, InitTask)
      BY <1>0, <3>2 DEF HomesOK
    <3>4. m2.mm[InitTask] # new /\ m2.mm[InitTask] = m.mm[InitTask]
      BY <1>0, <2>2, <2>4, <3>1, <3>3
    <3>5. CASE c = t
      BY <1>0, <2>2, <3>4, <3>5
    <3>6. CASE c # t
      <4>1. m2.mm[c] = m.mm[c] /\ f2[c] = f[c]
        BY <1>1, <2>2, <3>6
      <4> QED BY <3>4, <4>1 DEF HomesOK
    <3> QED BY <3>5, <3>6
  <2>7. m2.mm[Idle] = init_mm
    BY <1>0, <2>2 DEF HomesOK
  <2>8. f2[InitTask] = Boots => m2.mm[InitTask] = init_mm /\ InitTask \in m.vfork
    BY <1>0, <1>4, <2>2 DEF HomesOK
  <2> QED BY <1>4, <1>5, <2>3, <2>5, <2>6, <2>7, <2>8 DEF HomesOK
<1> QED BY <1>6, <1>7


\* What do_execve does to the space of t once the file is read.
Loaded(m, m2, t) == m2 = [m EXCEPT !.space[m.mm[t]].end = 0, !.vfork = @ \ {t}]

\* execve, when the file has been read or is not there.
LEMMA HomesReturn ==
  ASSUME NEW A \in SUBSET Tasks, NEW m, PagesOK(m), NEW f \in [Tasks -> Frames \cup {NULL}],
         HomesOK(A, m, f), NEW t \in A \ {Idle}, f[t] = Execs, NEW found \in BOOLEAN,
         found \/ t # InitTask, NEW m2, IF found THEN Loaded(m, m2, t) ELSE m2 = m,
         NEW f2, f2 = [f EXCEPT ![t] = NULL]
  PROVE  PagesOK(m2) /\ HomesOK(A, m2, f2)
<1>0. /\ InitTask \in Tasks /\ t \in Tasks /\ Boots # Execs /\ NULL # Execs /\ NULL # Boots
  BY TaskAssumption, FrameFacts
<1>1. \A u \in Tasks : f2[u] = IF u = t THEN NULL ELSE f[u]
  OBVIOUS
<1>2. PICK i \in MmIds : i = m.mm[t]
  BY <1>0, MemTypes DEF HomesOK, Own, PagesOK
<1>3. /\ PagesOK(m2) /\ m2.mm = m.mm /\ m2.vfork = IF found THEN m.vfork \ {t} ELSE m.vfork
      /\ \A u \in Tasks : Own(m, u) => Own(m2, u)
  <2>1. CASE ~found
    <3>1. m2 = m
      BY <2>1
    <3> QED BY <2>1, <3>1
  <2>2. CASE found
    <3>1. PICK m1 : m1 = [m EXCEPT !.space[i].end = 0]
      OBVIOUS
    <3>2. PICK e \in 0..(MaxBrk + 1) : e = 0
      BY MmAssumption
    <3>3. Remaps(m, m1, i) /\ m1.space[i].code = m.space[i].code
      BY <3>1, <3>2, SetEndOK
    <3>4. PagesOK(m1) /\ m1.vfork = m.vfork
      BY <3>3 DEF Remaps
    <3>5. PICK v \in SUBSET Tasks : v = m.vfork \ {t}
      BY MemTypes DEF PagesOK
    <3>6. m2 = [m1 EXCEPT !.vfork = v]
      <4>1. m \in MemType /\ m2 = [m EXCEPT !.space[i].end = 0, !.vfork = m.vfork \ {t}]
        BY <1>2, <2>2 DEF PagesOK, Loaded
      <4> QED BY <3>1, <3>5, <4>1 DEF MemType
    <3>7. PagesOK(m2) /\ m2.mm = m1.mm /\ m2.space = m1.space /\ m2.vfork = v
      BY <3>4, <3>6, SetFlagsOK
    <3>8. ASSUME NEW u \in Tasks, Own(m, u) PROVE Own(m2, u)
      <4>1. m.mm[u] \in MmIds
        BY <3>8, MemTypes DEF Own, PagesOK
      <4> QED BY <3>3, <3>7, <3>8, <4>1 DEF Own, Remaps
    <3> QED BY <2>2, <3>3, <3>5, <3>7, <3>8 DEF Remaps
  <2> QED BY <2>1, <2>2
<1>4. ASSUME NEW u \in A \ {Idle} PROVE (u = InitTask /\ f2[u] = Boots) \/ Own(m2, u)
  <2>1. (u = InitTask /\ f[u] = Boots) \/ Own(m, u)
    BY DEF HomesOK
  <2> QED BY <1>0, <1>1, <1>3, <2>1
<1>5. ASSUME NEW c \in A \ {Idle, InitTask}, m2.mm[c] = m2.mm[InitTask]
      PROVE  c \in m2.vfork /\ f2[c] # Execs
  <2>1. c \in m.vfork /\ f[c] # Execs
    BY <1>3, <1>5 DEF HomesOK
  <2> QED BY <1>1, <1>3, <2>1
<1>6. InitTask \in m2.vfork => f2[InitTask] \in {Boots, Execs}
  <2>1. SUFFICES ASSUME InitTask \in m2.vfork PROVE f2[InitTask] \in {Boots, Execs}
    OBVIOUS
  <2>2. InitTask \in m.vfork /\ t # InitTask
    BY <1>3, <2>1
  <2> QED BY <1>0, <1>1, <2>2 DEF HomesOK
<1>7. f2[InitTask] = Boots => m2.mm[InitTask] = init_mm /\ InitTask \in m2.vfork
  <2>1. SUFFICES ASSUME f2[InitTask] = Boots PROVE m2.mm[InitTask] = init_mm /\ InitTask \in m2.vfork
    OBVIOUS
  <2>2. t # InitTask /\ f[InitTask] = Boots
    BY <1>0, <1>1, <2>1
  <2> QED BY <1>3, <2>2 DEF HomesOK
<1>8. f2[InitTask] \in {Boots, Execs} => f[InitTask] \in {Boots, Execs}
  BY <1>0, <1>1
<1>9. m2.mm[Idle] = init_mm
  BY <1>3 DEF HomesOK
<1>10. f2[InitTask] \in {Boots, Execs} \/ InitTask \notin Forkers => A \subseteq {Idle, InitTask}
  BY <1>8 DEF HomesOK
<1> QED
  BY <1>3, <1>4, <1>5, <1>6, <1>7, <1>9, <1>10 DEF HomesOK

\* brk.
LEMMA HomesBrk ==
  ASSUME NEW A \in SUBSET Tasks, NEW m, PagesOK(m), NEW f, HomesOK(A, m, f),
         NEW i \in MmIds, NEW m2, Remaps(m, m2, i)
  PROVE  PagesOK(m2) /\ HomesOK(A, m2, f)
<1>1. PagesOK(m2) /\ m2.mm = m.mm /\ m2.vfork = m.vfork
  BY DEF Remaps
<1>2. ASSUME NEW u \in Tasks, Own(m, u) PROVE Own(m2, u)
  <2>1. m.mm[u] \in MmIds
    BY <1>2, MemTypes DEF Own, PagesOK
  <2> QED BY <1>2, <2>1 DEF Own, Remaps
<1> QED
  BY <1>1, <1>2 DEF HomesOK

\* init enters or leaves wait4.
LEMMA HomesFrame ==
  ASSUME NEW A \in SUBSET Tasks, NEW m, NEW f \in [Tasks -> Frames \cup {NULL}], HomesOK(A, m, f),
         f[InitTask] \notin {Boots, Execs}, NEW x, x \notin {Boots, Execs},
         NEW f2, f2 = [f EXCEPT ![InitTask] = x]
  PROVE  HomesOK(A, m, f2)
<1>1. f2[InitTask] = x /\ \A u \in Tasks : u # InitTask => f2[u] = f[u]
  BY TaskAssumption
<1>2. \A c \in A \ {Idle, InitTask} : m.mm[c] = m.mm[InitTask] => c \in m.vfork /\ f2[c] # Execs
  BY <1>1 DEF HomesOK
<1> QED
  BY <1>1, <1>2 DEF HomesOK

\* wait4 frees the child's space.
LEMMA HomesReap ==
  ASSUME NEW A \in SUBSET Tasks, NEW m, PagesOK(m), NEW f, HomesOK(A, m, f),
         NEW c \in A \ {Idle, InitTask}, f[InitTask] \notin {Boots, Execs}, InitTask \in A,
         \A u \in A \ {Idle, InitTask} : u = c, NEW m2, m2 = exit_mm(m, c)
  PROVE  PagesOK(m2) /\ HomesOK(A \ {c}, m2, f)
<1>0. InitTask \in Tasks /\ Idle \in Tasks /\ InitTask # Idle /\ c \in Tasks /\ c # Idle /\ c # InitTask
  BY TaskAssumption, IdleAssumption
<1>1. /\ Own(m, c) /\ m.mm[c] \in MmIds /\ Own(m, InitTask) /\ m.mm[InitTask] \in MmIds
      /\ InitTask \notin m.vfork
  BY <1>0, MemTypes DEF HomesOK, Own, PagesOK
<1>2. /\ PagesOK(m2) /\ m2.mm = [m.mm EXCEPT ![c] = init_mm] /\ m2.vfork = m.vfork
      /\ \A j \in MmIds : c \in m.vfork \/ j # m.mm[c] => m2.space[j] = m.space[j]
  BY <1>0, <1>1, ExitMmOK
<1>3. \A u \in Tasks : m2.mm[u] = IF u = c THEN init_mm ELSE m.mm[u]
  BY <1>0, <1>2, MemTypes DEF PagesOK
<1>4. m2.space[m.mm[InitTask]] = m.space[m.mm[InitTask]]
  BY <1>1, <1>2 DEF HomesOK
<1>5. Own(m2, InitTask) /\ m2.mm[Idle] = init_mm
  BY <1>0, <1>1, <1>3, <1>4 DEF Own, HomesOK
<1>6. A \ {c} \subseteq {Idle, InitTask}
  OBVIOUS
<1> QED
  BY <1>1, <1>2, <1>5, <1>6 DEF HomesOK


-----------------------------------------------------------------------------
(* States and wait queues under each call *)

\* do_fork: the new task runs.
LEMMA ForkKeeps ==
  ASSUME NEW k, KernelOK(k, Tasks), NEW f, FramesOK(k, f), WaitsOK(k, f), Young(k) = {},
         f[InitTask] = NULL, NEW t \in Tasks, k.state[t] = "NONE", NEW k2, k2 = do_fork(k, t)
  PROVE  /\ KernelOK(k2, Tasks) /\ Alive(k2) = Alive(k) \cup {t} /\ t \notin Alive(k)
         /\ FramesOK(k2, f) /\ WaitsOK(k2, f) /\ f[t] = NULL
<1>0. Tasks \subseteq Channels /\ WaitType(k) /\ Inv(k) /\ InitTask \in Tasks
  BY Elders
<1>1. KernelOK(k2, Tasks)
  BY <1>0, EntryStep DEF Entry
<1>2. SetsState(k, k2, t, "RUNNING")
  BY <1>0, ForkStep
<1>3. k2.wait = k.wait /\ \A u \in Tasks : k2.state[u] = IF u = t THEN "RUNNING" ELSE k.state[u]
  BY <1>0, <1>2 DEF SetsState, WaitType, TaskStates
<1>4. Alive(k2) = Alive(k) \cup {t} /\ t \notin Alive(k)
  BY <1>3 DEF Alive
<1>5. f[t] = NULL
  BY DEF FramesOK
<1>6. FramesOK(k2, f)
  BY <1>3 DEF FramesOK
<1>7. \A c \in Tasks : f[InitTask] # WaitFrame(c)
  BY FrameFacts
<1>8. WaitsOK(k2, f)
  <2>1. k.state[InitTask] # "INTERRUPTIBLE" /\ k2.state[InitTask] # "INTERRUPTIBLE"
    BY <1>0, <1>3 DEF WaitsOK
  <2>2. \A c \in Young(k2) : c \in Tasks
    BY DEF Young, Alive
  <2> QED BY <1>3, <1>7, <2>1, <2>2 DEF WaitsOK
<1> QED
  BY <1>1, <1>4, <1>5, <1>6, <1>8

\* do_exit: the child's wakes init if it waits; init's finds nobody.
LEMMA ExitKeeps ==
  ASSUME NEW k, KernelOK(k, Tasks), NEW p, FamilyOK(k, p), ListOK(k, p),
         NEW f, FramesOK(k, f), WaitsOK(k, f), f[k.current] = NULL, k.current # Idle,
         NEW k2, k2 = do_exit(k, p.parent[k.current])
  PROVE  /\ KernelOK(k2, Tasks) /\ Alive(k2) = Alive(k) /\ FamilyOK(k2, p) /\ ListOK(k2, p)
         /\ FramesOK(k2, f) /\ WaitsOK(k2, f)
<1>0. /\ Tasks \subseteq Channels /\ WaitType(k) /\ Inv(k) /\ InitTask \in Tasks /\ Idle \in Tasks
      /\ InitTask # Idle /\ k.current \in Alive(k) /\ k.current \in Tasks
      /\ k.state[k.current] = "RUNNING"
  BY Elders
<1>1. PICK q \in Channels : /\ q = p.parent[k.current]
                            /\ q = IF k.current = InitTask THEN Idle ELSE InitTask
  BY <1>0 DEF FamilyOK, Young
<1>2. KernelOK(k2, Tasks)
  BY <1>0, <1>1, EntryStep DEF Entry
<1>3. PICK z : SetsState(k, z, k.current, "ZOMBIE") /\ Wakes(z, k2, q, "INTERRUPTIBLE")
  BY <1>0, <1>1, ExitStep
<1>4. /\ z.wait = k.wait /\ z.state = [k.state EXCEPT ![k.current] = "ZOMBIE"]
      /\ \A u \in Tasks : z.state[u] = IF u = k.current THEN "ZOMBIE" ELSE k.state[u]
  BY <1>0, <1>3 DEF SetsState, WaitType, TaskStates
<1> DEFINE Woken == k.current # InitTask /\ k.state[InitTask] = "INTERRUPTIBLE"
<1>5. /\ \A u \in Tasks : k2.state[u] = IF Woken /\ u = InitTask THEN "RUNNING" ELSE z.state[u]
      /\ \A u \in Tasks : k2.wait[u] = IF Woken /\ u = InitTask THEN <<>> ELSE k.wait[u]
  <2>1. CASE ~Woken
    <3>1. z.wait[q] = <<>>
      BY <1>0, <1>1, <1>4, <2>1 DEF WaitsOK
    <3>2. Keeps(z, k2)
      BY <1>3, <3>1 DEF Wakes
    <3> QED BY <1>4, <2>1, <3>2 DEF Keeps
  <2>2. CASE Woken
    <3>1. q = InitTask /\ z.wait[q] = <<InitTask>> /\ z.state[InitTask] = "INTERRUPTIBLE"
      BY <1>0, <1>1, <1>4, <2>2 DEF WaitsOK
    <3>2. z.wait[q] # <<>> /\ Head(z.wait[q]) = InitTask /\ Tail(z.wait[q]) = <<>>
      BY <3>1
    <3>3. /\ k2.state = [z.state EXCEPT ![InitTask] = "RUNNING"]
          /\ k2.wait = [z.wait EXCEPT ![InitTask] = <<>>]
      BY <1>3, <3>1, <3>2 DEF Wakes
    <3>4. \A u \in Tasks : k2.state[u] = IF u = InitTask THEN "RUNNING" ELSE z.state[u]
      BY <1>0, <1>4, <3>3 DEF WaitType, TaskStates
    <3>5. \A u \in Tasks : k2.wait[u] = IF u = InitTask THEN <<>> ELSE k.wait[u]
      BY <1>0, <1>4, <3>3 DEF WaitType, WaitQueues
    <3> QED BY <2>2, <3>4, <3>5
  <2> QED BY <2>1, <2>2
<1> HIDE DEF Woken
<1>6. \A u \in Tasks : /\ k2.state[u] = "NONE" <=> k.state[u] = "NONE"
                       /\ k2.state[u] = "ZOMBIE" => u = k.current \/ k.state[u] = "ZOMBIE"
  BY <1>0, <1>4, <1>5 DEF Woken
<1>7. Alive(k2) = Alive(k) /\ Young(k2) = Young(k)
  BY <1>6 DEF Alive, Young
<1>8. FamilyOK(k2, p) /\ ListOK(k2, p)
  BY <1>7 DEF FamilyOK, ListOK
<1>9. FramesOK(k2, f)
  BY <1>6, <1>7 DEF FramesOK
<1>10. k2.state[InitTask] # "INTERRUPTIBLE" /\ k2.wait[InitTask] = <<>>
  BY <1>0, <1>4, <1>5 DEF Woken, WaitsOK
<1>11. ASSUME NEW c \in Young(k2), f[InitTask] = WaitFrame(c)
       PROVE  k2.state[InitTask] = IF k2.state[c] = "ZOMBIE" THEN "RUNNING" ELSE "INTERRUPTIBLE"
  <2>1. c \in Young(k) /\ c \in Tasks /\ c # InitTask
    BY <1>7 DEF Young, Alive
  <2>2. k.current # InitTask
    BY <1>11, <2>1, FrameFacts
  <2>3. k.current = c
    BY <1>0, <2>1, <2>2 DEF FamilyOK, Young
  <2>4. k.state[InitTask] = "INTERRUPTIBLE"
    BY <1>0, <1>11, <2>1, <2>3 DEF WaitsOK
  <2> QED BY <1>0, <1>4, <1>5, <2>1, <2>2, <2>3, <2>4 DEF Woken
<1>12. \A u \in Tasks \ {InitTask} : k2.wait[u] = <<>>
  BY <1>5 DEF WaitsOK
<1>13. WaitsOK(k2, f)
  BY <1>10, <1>11, <1>12 DEF WaitsOK
<1> QED
  BY <1>2, <1>7, <1>8, <1>9, <1>13

\* init waits for its child c.
Waits(k, k2, f, f2, c) ==
  /\ k.current = InitTask /\ c \in Young(k) /\ k.state[c] # "ZOMBIE"
  /\ f2 = [f EXCEPT ![InitTask] = WaitFrame(c)]
  /\ k2 = sleep_on(k, InitTask, "INTERRUPTIBLE")

\* interruptible_sleep_on in wait4.
LEMMA SleepKeeps ==
  ASSUME NEW k, KernelOK(k, Tasks), NEW p, FamilyOK(k, p), ListOK(k, p),
         NEW f, FramesOK(k, f), WaitsOK(k, f), NEW k2, NEW f2, NEW c, Waits(k, k2, f, f2, c)
  PROVE  /\ KernelOK(k2, Tasks) /\ Alive(k2) = Alive(k) /\ FamilyOK(k2, p) /\ ListOK(k2, p)
         /\ FramesOK(k2, f2) /\ WaitsOK(k2, f2)
<1>0. /\ Tasks \subseteq Channels /\ WaitType(k) /\ Inv(k) /\ InitTask \in Tasks /\ Idle \in Tasks
      /\ InitTask # Idle /\ k.state[InitTask] = "RUNNING" /\ k.current = InitTask
      /\ c \in Young(k) /\ k.state[c] # "ZOMBIE" /\ f2 = [f EXCEPT ![InitTask] = WaitFrame(c)]
  BY Elders DEF Waits
<1>1. PICK st \in States : st = "INTERRUPTIBLE" /\ st # "RUNNING" /\ st = SleepState(InitTask, Tasks)
  BY <1>0 DEF States, SleepState
<1>2. InitTask \in Channels /\ k.current # Idle /\ k2 = sleep_on(k, InitTask, st)
  BY <1>0, <1>1 DEF Waits
<1>3. KernelOK(k2, Tasks)
  BY <1>0, <1>1, <1>2, EntryStep DEF Entry
<1>4. SleepsOn(k, k2, InitTask, st)
  BY <1>0, <1>1, <1>2, SleepOnStep
<1>5. \A u \in Tasks : k2.state[u] = IF u = InitTask THEN "INTERRUPTIBLE" ELSE k.state[u]
  BY <1>0, <1>1, <1>4 DEF SleepsOn, WaitType, TaskStates
<1>6. \A u \in Tasks : k2.wait[u] = IF u = InitTask THEN <<InitTask>> ELSE k.wait[u]
  <2>1. k.wait[InitTask] = <<>>
    BY <1>0 DEF WaitsOK
  <2>2. Append(<<>>, InitTask) = <<InitTask>>
    OBVIOUS
  <2>3. k2.wait = [k.wait EXCEPT ![InitTask] = <<InitTask>>]
    BY <1>0, <1>4, <2>1, <2>2 DEF SleepsOn
  <2> QED BY <1>0, <2>3 DEF WaitType, WaitQueues
<1>7. Alive(k2) = Alive(k) /\ Young(k2) = Young(k)
  BY <1>0, <1>5 DEF Alive, Young
<1>8. FamilyOK(k2, p) /\ ListOK(k2, p)
  BY <1>7 DEF FamilyOK, ListOK
<1>9. c \in Tasks /\ c # InitTask /\ WaitFrame(c) \in Frames /\ WaitFrame(c) \notin {NULL, Boots, Execs}
  BY <1>0, FrameFacts DEF Young, Alive
<1>10. f2 \in [Tasks -> Frames \cup {NULL}] /\ f2[InitTask] = WaitFrame(c)
       /\ \A u \in Tasks : u # InitTask => f2[u] = f[u]
  BY <1>0, <1>9 DEF FramesOK
<1>11. FramesOK(k2, f2)
  BY <1>0, <1>5, <1>7, <1>10 DEF FramesOK
<1>12. ASSUME NEW d \in Young(k2) PROVE k2.state[d] # "ZOMBIE"
  <2>1. d = c
    BY <1>0, <1>7 DEF FamilyOK
  <2> QED BY <1>0, <1>5, <1>9, <2>1
<1>13. WaitsOK(k2, f2)
  BY <1>0, <1>5, <1>6, <1>9, <1>10, <1>12 DEF WaitsOK
<1> QED
  BY <1>3, <1>7, <1>8, <1>11, <1>13

\* kfree of the child at the end of wait4.
LEMMA ReapKeeps ==
  ASSUME NEW k, KernelOK(k, Tasks), NEW p, FamilyOK(k, p), NEW f, FramesOK(k, f), WaitsOK(k, f),
         k.current = InitTask, NEW c \in Young(k), k.state[c] = "ZOMBIE",
         NEW f2, f2 = [f EXCEPT ![InitTask] = NULL], NEW k2, k2 = [k EXCEPT !.state[c] = "NONE"]
  PROVE  /\ KernelOK(k2, Tasks) /\ Alive(k2) = Alive(k) \ {c}
         /\ FramesOK(k2, f2) /\ WaitsOK(k2, f2)
<1>0. /\ Tasks \subseteq Channels /\ WaitType(k) /\ Inv(k) /\ InitTask \in Tasks /\ Idle \in Tasks
      /\ InitTask # Idle /\ k.state[InitTask] = "RUNNING" /\ c \in Tasks /\ c # InitTask /\ c # Idle
  BY Elders DEF Young, Alive
<1>1. KernelOK(k2, Tasks)
  BY <1>0, EntryStep DEF Entry
<1>2. SetsState(k, k2, c, "NONE")
  BY <1>0, ReapStep
<1>3. k2.wait = k.wait /\ \A u \in Tasks : k2.state[u] = IF u = c THEN "NONE" ELSE k.state[u]
  BY <1>0, <1>2 DEF SetsState, WaitType, TaskStates
<1>4. Alive(k2) = Alive(k) \ {c}
  BY <1>3 DEF Alive
<1>5. Young(k2) = {}
  <2>1. \A u \in Young(k) : u = c
    BY DEF FamilyOK
  <2> QED BY <1>4, <2>1 DEF Young
<1>6. f2 \in [Tasks -> Frames \cup {NULL}] /\ f2[InitTask] = NULL
      /\ \A u \in Tasks : u # InitTask => f2[u] = f[u]
  BY <1>0 DEF FramesOK
<1>7. f[c] = NULL
  BY <1>0 DEF FramesOK
<1>8. FramesOK(k2, f2)
  BY <1>0, <1>3, <1>6, <1>7 DEF FramesOK
<1>9. WaitsOK(k2, f2)
  BY <1>0, <1>3, <1>5 DEF WaitsOK
<1> QED
  BY <1>1, <1>4, <1>8, <1>9


\* execve comes and goes.
LEMMA FrameChange ==
  ASSUME NEW k, NEW f, FramesOK(k, f), NEW t \in Tasks \ {Idle},
         k.state[t] \notin {"NONE", "ZOMBIE"}, NEW x \in {NULL, Execs},
         NEW f2, f2 = [f EXCEPT ![t] = x]
  PROVE  FramesOK(k, f2)
<1>1. f2 \in [Tasks -> Frames \cup {NULL}] /\ \A u \in Tasks : f2[u] = IF u = t THEN x ELSE f[u]
  BY FrameFacts DEF FramesOK
<1>2. InitTask \in Tasks /\ Idle \in Tasks
  BY TaskAssumption, IdleAssumption
<1>3. f2[InitTask] \in {NULL, Boots, Execs} \/ \E c \in Young(k) : f2[InitTask] = WaitFrame(c)
  BY <1>1, <1>2 DEF FramesOK
<1> QED
  BY <1>1, <1>2, <1>3 DEF FramesOK

-----------------------------------------------------------------------------
(* The actions *)

\* The state task_init leaves behind.
LEMMA InitOK == Init => ProcInv /\ S!Init
<1> SUFFICES ASSUME Init PROVE ProcInv /\ S!Init
  OBVIOUS
<1>0. InitTask \in Tasks \ {Idle} /\ Idle \in Tasks
  BY TaskAssumption, IdleAssumption
<1>1. kern = Boot(InitTask)
  BY DEF Init, S!BootKernel, Boot
<1>2. KernelOK(kern, Tasks)
  BY <1>0, <1>1, BootOK
<1>3. /\ \A t \in Tasks : kern.state[t] = IF t \in {Idle, InitTask} THEN "RUNNING" ELSE "NONE"
      /\ \A t \in Tasks : kern.wait[t] = <<>>
  BY <1>1, ChannelsAssumption DEF Boot
<1>4. Alive(kern) = {Idle, InitTask} /\ Young(kern) = {}
  BY <1>0, <1>3 DEF Alive, Young
<1>5. proc \in ProcType /\ FamilyOK(kern, proc) /\ ListOK(kern, proc)
  <2>1. proc = BootProc
    BY DEF Init
  <2> QED BY <1>0, <1>4, <2>1 DEF BootProc, ProcType, FamilyOK, ListOK
<1>6. /\ frame = [t \in Tasks |-> IF t = InitTask THEN Boots ELSE NULL] /\ Boots \in Frames
      /\ Boots # NULL
  BY FrameFacts DEF Init, Boots
<1>7. /\ frame \in [Tasks -> Frames \cup {NULL}] /\ frame[InitTask] = Boots
      /\ \A t \in Tasks \ {InitTask} : frame[t] = NULL
  BY <1>0, <1>6
<1>8. FramesOK(kern, frame)
  BY <1>0, <1>3, <1>7 DEF FramesOK
<1>9. WaitsOK(kern, frame)
  BY <1>0, <1>3, <1>4 DEF WaitsOK
<1>10. mem = BootMem
  BY DEF Init
<1>11. mem \in MemType
  <2>1. NoSpace \in Space
    BY NoSpaceOK
  <2> QED BY <1>0, <1>10, <2>1 DEF BootMem, MemType
<1>12. /\ \A t \in Tasks : mem.mm[t] = init_mm
       /\ \A m \in MmIds : mem.space[m] = NoSpace
       /\ mem.vfork = {InitTask}
  BY <1>10 DEF BootMem
<1>13. PagesOK(mem)
  BY <1>11, <1>12, NoSpaceOK DEF PagesOK
<1>14. HomesOK(Alive(kern), mem, frame)
  BY <1>0, <1>4, <1>7, <1>12 DEF HomesOK
<1> QED
  BY <1>2, <1>5, <1>8, <1>9, <1>13, <1>14 DEF ProcInv, Init, S!Init

\* What ProcInv says of the running task.
LEMMA Running ==
  ASSUME ProcInv
  PROVE  /\ kern.current \in Alive(kern) /\ kern.current \in Tasks /\ InitTask \in Tasks
         /\ Alive(kern) \in SUBSET Tasks /\ InitTask \in Alive(kern) /\ Idle \in Alive(kern)
         /\ frame \in [Tasks -> Frames \cup {NULL}] /\ Idle \in Tasks /\ InitTask # Idle
         /\ kern.current # InitTask => frame[kern.current] \in {NULL, Execs}
  BY Elders DEF ProcInv, FamilyOK, FramesOK, Alive

\* The shell forks when it has no child.
LEMMA NoChildYet ==
  ASSUME ProcInv, kern.current \in Forkers, Cardinality(Children(kern.current)) < MaxChildren
  PROVE  kern.current = InitTask /\ Young(kern) = {}
<1>1. kern.current = InitTask
  BY ShellAssumption
<1>2. IsFiniteSet(Children(InitTask))
  BY TaskAssumption, FS_Subset DEF Children
<1>3. Cardinality(Children(InitTask)) \in Nat
  BY <1>2, FS_CardinalityType
<1>4. Cardinality(Children(InitTask)) = 0
  BY <1>1, <1>3, ShellAssumption
<1>5. Children(InitTask) = {}
  BY <1>2, <1>4, FS_EmptySet
<1>6. ASSUME NEW t \in Young(kern) PROVE FALSE
  <2>1. t \in Tasks /\ kern.state[t] # "NONE"
    BY DEF Young, Alive
  <2>2. proc.parent[t] = InitTask /\ proc.pid[t] >= 1 /\ proc.pid[InitTask] = 0
    BY DEF ProcInv, FamilyOK
  <2>3. proc.pid[t] \in Nat
    BY <2>1 DEF ProcInv, ProcType
  <2>4. t \in Children(InitTask)
    BY <2>1, <2>2, <2>3 DEF Children
  <2> QED BY <1>5, <2>4
<1> QED
  BY <1>1, <1>6

\* fork and vfork.
LEMMA ForkInv ==
  ASSUME ProcInv, NEW t \in Tasks, NEW vm \in BOOLEAN, sys_fork(t, vm)
  PROVE  ProcInv'
<1>1. kern.current = InitTask /\ Young(kern) = {} /\ frame[InitTask] = NULL /\ InitTask \in Forkers
  BY NoChildYet DEF sys_fork, InUser
<1>2. kern.state[t] = "NONE" /\ kern' = do_fork(kern, t)
  BY SameWakeupProcess DEF sys_fork, S!SysFork, S!do_fork, do_fork
<1>3. /\ KernelOK(kern', Tasks) /\ Alive(kern') = Alive(kern) \cup {t} /\ t \notin Alive(kern)
      /\ FramesOK(kern', frame) /\ WaitsOK(kern', frame) /\ frame[t] = NULL
  <2>1. KernelOK(kern, Tasks) /\ FramesOK(kern, frame) /\ WaitsOK(kern, frame)
    BY DEF ProcInv
  <2> QED BY <1>1, <1>2, <2>1, ForkKeeps
<1>4. proc' \in ProcType /\ FamilyOK(kern', proc') /\ ListOK(kern', proc')
  <2>1. proc \in ProcType /\ FamilyOK(kern, proc) /\ ListOK(kern, proc) /\ Idle \in Alive(kern)
    BY Running DEF ProcInv
  <2>2. proc' = link(proc, t, InitTask)
    BY <1>1 DEF sys_fork
  <2> QED BY <1>1, <1>3, <2>1, <2>2, LinkOK
<1>5. PagesOK(mem') /\ HomesOK(Alive(kern'), mem', frame)
  <2>1. /\ Alive(kern) \in SUBSET Tasks /\ InitTask \in Alive(kern) /\ Idle \in Alive(kern)
        /\ PagesOK(mem) /\ HomesOK(Alive(kern), mem, frame)
    BY Running DEF ProcInv
  <2>2. Forks(Alive(kern), frame, t)
    BY <1>1, <1>3, <2>1 DEF Young, Forks
  <2>3. ~vm => FreeMms(mem) # {} /\ Cardinality(FreePages(mem)) >= CopyPages(mem, InitTask)
    BY <1>1 DEF sys_fork
  <2>4. mem' = copy_mm(copy_flags(mem, t, InitTask, vm), t, InitTask, vm)
    BY <1>1, Zenon DEF sys_fork
  <2>5. Copied(mem, mem', t)
    BY <2>3, <2>4, Zenon DEF Copied
  <2>6. PagesOK(mem') /\ HomesOK(Alive(kern) \cup {t}, mem', frame)
    BY <2>1, <2>2, <2>5, HomesFork
  <2> QED BY <1>3, <2>6
<1>6. frame' = frame
  BY DEF sys_fork
<1> QED
  BY <1>3, <1>4, <1>5, <1>6 DEF ProcInv

\* A kernel entry that disturbs nothing, seen from ProcInv.
LEMMA QuietInv ==
  ASSUME ProcInv, Quiet(kern, kern'), frame[kern.current] \in {NULL, Boots, Execs}
  PROVE  /\ KernelOK(kern', Tasks) /\ Undisturbed(kern, kern') /\ Alive(kern') = Alive(kern)
         /\ FamilyOK(kern', proc) /\ ListOK(kern', proc)
         /\ FramesOK(kern', frame) /\ WaitsOK(kern', frame)
<1>1. /\ KernelOK(kern, Tasks) /\ FamilyOK(kern, proc) /\ ListOK(kern, proc)
      /\ FramesOK(kern, frame) /\ WaitsOK(kern, frame)
  BY DEF ProcInv
<1>2. KernelOK(kern', Tasks) /\ Undisturbed(kern, kern')
  BY <1>1, QuietStep
<1> QED
  BY <1>1, <1>2, UndisturbedKeeps

\* Interrupts and reads.
LEMMA OtherInv ==
  ASSUME ProcInv, OtherEntry
  PROVE  ProcInv'
<1>1. frame[kern.current] \in {NULL, Boots, Execs}
  BY DEF OtherEntry, Interruptible, Boots
<1>2. Quiet(kern, kern') /\ proc' = proc /\ mem' = mem /\ frame' = frame
  BY OtherIsQuiet DEF OtherEntry
<1> QED
  BY <1>1, <1>2, QuietInv DEF ProcInv


\* execve, up to the sleep.
LEMMA ExecInv ==
  ASSUME ProcInv, sys_execve
  PROVE  ProcInv'
<1>0. /\ kern.current \in Alive(kern) \ {Idle} /\ Alive(kern) \in SUBSET Tasks
      /\ kern.current \in Tasks /\ InitTask \in Alive(kern) /\ InitTask \in Tasks
      /\ frame \in [Tasks -> Frames \cup {NULL}]
      /\ kern.current # InitTask => frame[kern.current] \in {NULL, Execs}
  BY Running DEF sys_execve
<1>1. /\ frame[kern.current] \in {NULL, Boots} /\ Boots # Execs /\ NULL # Execs /\ Execs \in Frames
      /\ frame[kern.current] = NULL => kern.current \notin Forkers
  BY FrameFacts DEF sys_execve, Interruptible, InUser, Boots
<1>2. kern' = wait_for_finish(kern) /\ kern.current # Idle
  BY TransferIsQuiet DEF sys_execve
<1>3. Quiet(kern, kern')
  BY <1>2 DEF Quiet
<1>4. /\ KernelOK(kern', Tasks) /\ Alive(kern') = Alive(kern)
      /\ FamilyOK(kern', proc) /\ ListOK(kern', proc)
      /\ FramesOK(kern', frame) /\ WaitsOK(kern', frame)
  BY <1>1, <1>3, QuietInv
<1>5. kern'.state[kern.current] = "UNINTERRUPTIBLE"
  <2>1. Inv(kern) /\ WaitType(kern)
    BY Elders DEF ProcInv
  <2>2. SetsState(kern, kern', kern.current, "UNINTERRUPTIBLE")
    BY <1>2, <2>1, TransferStep
  <2> QED BY <1>0, <2>1, <2>2 DEF SetsState, WaitType, TaskStates
<1>6. frame' = [frame EXCEPT ![kern.current] = Execs]
  BY DEF sys_execve, Execs
<1>7. /\ frame' \in [Tasks -> Frames \cup {NULL}]
      /\ \A u \in Tasks : frame'[u] = IF u = kern.current THEN Execs ELSE frame[u]
  BY <1>0, <1>1, <1>6
<1>8. FramesOK(kern', frame')
  <2>1. kern'.state[kern.current] \notin {"NONE", "ZOMBIE"}
    BY <1>5
  <2>2. PICK t \in Tasks \ {Idle} : t = kern.current
    BY <1>0
  <2>3. PICK x \in {NULL, Execs} : x = Execs
    OBVIOUS
  <2> QED BY <1>4, <1>6, <2>1, <2>2, <2>3, FrameChange
<1>9. WaitsOK(kern', frame')
  <2>1. \A c \in Young(kern') : WaitFrame(c) # Execs
    BY FrameFacts DEF Young, Alive
  <2>2. kern.current = InitTask => kern'.state[InitTask] # "INTERRUPTIBLE"
    BY <1>5
  <2> QED BY <1>0, <1>4, <1>7, <2>1, <2>2 DEF WaitsOK
<1>10. PagesOK(mem') /\ HomesOK(Alive(kern), mem', frame')
  <2>1. PagesOK(mem) /\ HomesOK(Alive(kern), mem, frame)
    BY DEF ProcInv
  <2>2. /\ mem' = ExecMm(mem, kern.current)
        /\ kern.current \in mem.vfork => FreePages(mem) # {} /\ FreeMms(mem) # {}
    BY DEF sys_execve
  <2>3. kern.current # InitTask => frame[kern.current] = NULL
    BY <1>0, <1>1
  <2> QED BY <1>0, <1>1, <1>6, <2>1, <2>2, <2>3, HomesExec
<1>11. proc' = proc
  BY DEF sys_execve
<1> QED
  BY <1>4, <1>8, <1>9, <1>10, <1>11 DEF ProcInv

\* execve, after it.
LEMMA ExecReturnsInv ==
  ASSUME ProcInv, NEW found \in BOOLEAN, ExecReturns(found)
  PROVE  ProcInv'
<1>0. /\ kern.current \in Alive(kern) /\ Alive(kern) \in SUBSET Tasks
      /\ kern.current \in Tasks /\ InitTask \in Alive(kern) /\ InitTask \in Tasks
      /\ frame \in [Tasks -> Frames \cup {NULL}]
      /\ kern.current # InitTask => frame[kern.current] \in {NULL, Execs}
  BY Running
<1>1. frame[kern.current] = Execs
  <2>1. frame[kern.current] # NULL /\ frame[kern.current].op = "execve"
    BY DEF ExecReturns, InUser
  <2>2. \A c : WaitFrame(c).op # "execve"
    BY FrameFacts
  <2>3. Boots.op # "execve"
    BY FrameFacts
  <2> QED BY <1>0, <2>1, <2>2, <2>3 DEF ProcInv, FramesOK
<1>2. kern.current # Idle
  BY <1>1, FrameFacts DEF ProcInv, FramesOK
<1>3. kern' = kern /\ proc' = proc /\ frame' = [frame EXCEPT ![kern.current] = NULL]
  BY DEF ExecReturns
<1>4. /\ frame' \in [Tasks -> Frames \cup {NULL}]
      /\ \A u \in Tasks : frame'[u] = IF u = kern.current THEN NULL ELSE frame[u]
  BY <1>0, <1>3
<1>5. FramesOK(kern, frame')
  <2>1. FramesOK(kern, frame) /\ kern.state[kern.current] \notin {"NONE", "ZOMBIE"}
    BY Elders DEF ProcInv
  <2>2. PICK t \in Tasks \ {Idle} : t = kern.current
    BY <1>0, <1>2
  <2>3. PICK x \in {NULL, Execs} : x = NULL
    OBVIOUS
  <2> QED BY <1>3, <2>1, <2>2, <2>3, FrameChange
<1>6. WaitsOK(kern, frame')
  <2>1. \A c \in Young(kern) : WaitFrame(c) # NULL
    BY FrameFacts DEF Young, Alive
  <2>2. kern.state[kern.current] = "RUNNING"
    BY Elders DEF ProcInv
  <2> QED BY <1>0, <1>4, <2>1, <2>2 DEF ProcInv, WaitsOK
<1>7. PagesOK(mem') /\ HomesOK(Alive(kern), mem', frame')
  <2>1. PagesOK(mem) /\ HomesOK(Alive(kern), mem, frame)
    BY DEF ProcInv
  <2>2. /\ found \/ kern.current # InitTask
        /\ IF found THEN Loaded(mem, mem', kern.current) ELSE mem' = mem
    BY DEF ExecReturns, Loaded
  <2>3. PICK t \in Alive(kern) \ {Idle} : t = kern.current
    BY <1>0, <1>2
  <2>4. PICK f2 : f2 = frame' /\ f2 = [frame EXCEPT ![t] = NULL]
    BY <1>3, <2>3
  <2>5. PICK m2 : m2 = mem'
    OBVIOUS
  <2>6. frame[t] = Execs /\ (found \/ t # InitTask)
        /\ IF found THEN Loaded(mem, m2, t) ELSE m2 = mem
    BY <1>1, <2>2, <2>3, <2>5
  <2>7. PagesOK(m2) /\ HomesOK(Alive(kern), m2, f2)
    BY <1>0, <2>1, <2>4, <2>6, HomesReturn
  <2> QED BY <2>4, <2>5, <2>7
<1> QED
  BY <1>3, <1>5, <1>6, <1>7 DEF ProcInv

\* brk.
LEMMA BrkInv ==
  ASSUME ProcInv, NEW new \in 0..MaxBrk, sys_brk(new)
  PROVE  ProcInv'
<1>0. kern.current \in Alive(kern) /\ Alive(kern) \in SUBSET Tasks /\ kern.current \in Tasks
  BY Running
<1>1. frame[kern.current] = NULL /\ kern.current # Idle /\ NULL # Boots
  BY FrameFacts DEF sys_brk, InUser
<1>2. PagesOK(mem) /\ HomesOK(Alive(kern), mem, frame)
  BY DEF ProcInv
<1>3. Own(mem, kern.current)
  BY <1>0, <1>1, <1>2 DEF HomesOK
<1>4. PICK i \in MmIds : i = mem.mm[kern.current]
  BY <1>0, <1>2, <1>3, MemTypes DEF Own, PagesOK
<1>5. mem' = do_brk(mem, i, new)
  BY <1>4 DEF sys_brk
<1>6. Remaps(mem, mem', i)
  BY <1>2, <1>5, DoBrkOK
<1>7. PagesOK(mem') /\ HomesOK(Alive(kern), mem', frame)
  BY <1>0, <1>2, <1>6, HomesBrk
<1>8. kern' = kern /\ proc' = proc /\ frame' = frame
  BY DEF sys_brk
<1> QED
  BY <1>7, <1>8 DEF ProcInv

\* exit.
LEMMA ExitInv ==
  ASSUME ProcInv, sys_exit
  PROVE  ProcInv'
<1>1. frame[kern.current] = NULL /\ proc' = proc /\ mem' = mem /\ frame' = frame
  BY DEF sys_exit, InUser
<1>2. kern.current # Idle /\ kern' = do_exit(kern, proc.parent[kern.current])
  BY SameSchedule, SameWakeup DEF sys_exit, S!SysExit, S!do_exit, do_exit, notify_channel
<1>3. /\ KernelOK(kern, Tasks) /\ FamilyOK(kern, proc) /\ ListOK(kern, proc)
      /\ FramesOK(kern, frame) /\ WaitsOK(kern, frame)
  BY DEF ProcInv
<1>4. /\ KernelOK(kern', Tasks) /\ Alive(kern') = Alive(kern) /\ FamilyOK(kern', proc)
      /\ ListOK(kern', proc) /\ FramesOK(kern', frame) /\ WaitsOK(kern', frame)
  BY <1>1, <1>2, <1>3, ExitKeeps
<1> QED
  BY <1>1, <1>4 DEF ProcInv

\* The end of wait4.
LEMMA ReapInv ==
  ASSUME ProcInv, kern.current = InitTask, NEW c \in Young(kern), kern.state[c] = "ZOMBIE",
         frame[InitTask] \notin {Boots, Execs}, Reap(Idle, c)
  PROVE  ProcInv'
<1>0. /\ Alive(kern) \in SUBSET Tasks /\ InitTask \in Alive(kern) /\ InitTask \in Tasks
      /\ frame \in [Tasks -> Frames \cup {NULL}] /\ c \in Alive(kern) \ {Idle, InitTask}
  BY Running DEF Young
<1>1. /\ kern' = [kern EXCEPT !.state[c] = "NONE"] /\ proc' = unlink(proc, Idle, c)
      /\ mem' = exit_mm(mem, c) /\ frame' = [frame EXCEPT ![InitTask] = NULL]
  BY DEF Reap
<1>2. /\ KernelOK(kern, Tasks) /\ proc \in ProcType /\ FamilyOK(kern, proc) /\ ListOK(kern, proc)
      /\ FramesOK(kern, frame) /\ WaitsOK(kern, frame)
      /\ PagesOK(mem) /\ HomesOK(Alive(kern), mem, frame)
  BY DEF ProcInv
<1>3. /\ KernelOK(kern', Tasks) /\ Alive(kern') = Alive(kern) \ {c}
      /\ FramesOK(kern', frame') /\ WaitsOK(kern', frame')
  <2>1. PICK k2 : k2 = kern' /\ k2 = [kern EXCEPT !.state[c] = "NONE"]
    BY <1>1
  <2>2. PICK f2 : f2 = frame' /\ f2 = [frame EXCEPT ![InitTask] = NULL]
    BY <1>1
  <2>3. /\ KernelOK(k2, Tasks) /\ Alive(k2) = Alive(kern) \ {c}
        /\ FramesOK(k2, f2) /\ WaitsOK(k2, f2)
    BY <1>2, <2>1, <2>2, ReapKeeps
  <2> QED BY <2>1, <2>2, <2>3
<1>4. proc' \in ProcType /\ FamilyOK(kern', proc') /\ ListOK(kern', proc')
  BY <1>1, <1>2, <1>3, UnlinkOK
<1>5. \A u \in Alive(kern) \ {Idle, InitTask} : u = c
  BY <1>2 DEF FamilyOK, Young
<1>6. PagesOK(mem') /\ HomesOK(Alive(kern) \ {c}, mem', frame)
  BY <1>0, <1>1, <1>2, <1>5, HomesReap
<1>7. HomesOK(Alive(kern) \ {c}, mem', frame')
  <2>1. PICK x : x = NULL /\ x \notin {Boots, Execs}
    BY FrameFacts
  <2>2. Alive(kern) \ {c} \in SUBSET Tasks /\ frame' = [frame EXCEPT ![InitTask] = x]
    BY <1>0, <1>1, <2>1
  <2> QED BY <1>0, <1>6, <2>1, <2>2, HomesFrame
<1> QED
  BY <1>3, <1>4, <1>6, <1>7 DEF ProcInv

\* What sys_wait4 finds: init calls it, for its child; it reaps a zombie or sleeps with
\* init_task, the child's predecessor, in its frame.
LEMMA WaitFinds ==
  ASSUME ProcInv, NEW pid, sys_wait4(pid)
  PROVE  \E c \in Young(kern) :
           /\ kern.current = InitTask /\ frame[InitTask] = NULL
           /\ IF kern.state[c] = "ZOMBIE" THEN Reap(Idle, c)
              ELSE /\ S!SysWait(InitTask)
                   /\ frame' = [frame EXCEPT ![InitTask] = WaitFrame(c)]
                   /\ proc' = proc /\ mem' = mem
<1>1. PICK c \in Children(kern.current) : proc.pid[c] = pid
  BY DEF sys_wait4
<1>2. c \in Alive(kern) /\ proc.parent[c] = kern.current /\ kern.current # Idle
  BY DEF Children, Alive, sys_wait4
<1>3. c \in Young(kern) /\ kern.current = InitTask
  BY <1>2 DEF ProcInv, FamilyOK, Young
<1>4. frame[InitTask] = NULL
  BY <1>3 DEF sys_wait4, InUser
<1>5. find(proc, pid) = 1 /\ TaskList(proc)[1] = c /\ hop(proc, 0) = Idle
  <2>1. KernelOK(kern, Tasks) /\ proc \in ProcType /\ FamilyOK(kern, proc) /\ ListOK(kern, proc)
    BY DEF ProcInv
  <2> QED BY <1>1, <1>3, <2>1, FindOK
<1>6. 1 - 1 = 0
  OBVIOUS
<1>7. IF kern.state[c] = "ZOMBIE" THEN Reap(Idle, c)
      ELSE /\ S!SysWait(InitTask)
           /\ frame' = [frame EXCEPT ![InitTask] = WaitFrame(c)]
           /\ proc' = proc /\ mem' = mem
  BY <1>3, <1>5, <1>6 DEF sys_wait4, awaited, WaitFrame
<1> QED
  BY <1>3, <1>4, <1>7

\* wait4.
LEMMA WaitInv ==
  ASSUME ProcInv, NEW pid, sys_wait4(pid)
  PROVE  ProcInv'
<1>1. PICK c \in Young(kern) :
        /\ kern.current = InitTask /\ frame[InitTask] = NULL
        /\ IF kern.state[c] = "ZOMBIE" THEN Reap(Idle, c)
           ELSE /\ S!SysWait(InitTask)
                /\ frame' = [frame EXCEPT ![InitTask] = WaitFrame(c)]
                /\ proc' = proc /\ mem' = mem
  BY WaitFinds
<1>2. frame[InitTask] \notin {Boots, Execs}
  BY <1>1, FrameFacts
<1>3. CASE kern.state[c] = "ZOMBIE"
  BY <1>1, <1>2, <1>3, ReapInv
<1>4. CASE kern.state[c] # "ZOMBIE"
  <2>0. /\ kern.current = InitTask /\ S!SysWait(InitTask) /\ proc' = proc /\ mem' = mem
        /\ frame' = [frame EXCEPT ![InitTask] = WaitFrame(c)]
    BY <1>1, <1>4
  <2>1. kern' = sleep_on(kern, InitTask, "INTERRUPTIBLE")
    BY <2>0, SameSchedule DEF S!SysWait, S!sleep_on, sleep_on
  <2>2. /\ KernelOK(kern, Tasks) /\ proc \in ProcType /\ FamilyOK(kern, proc) /\ ListOK(kern, proc)
        /\ FramesOK(kern, frame) /\ WaitsOK(kern, frame)
        /\ PagesOK(mem) /\ HomesOK(Alive(kern), mem, frame)
    BY DEF ProcInv
  <2>3. /\ KernelOK(kern', Tasks) /\ Alive(kern') = Alive(kern) /\ FamilyOK(kern', proc)
        /\ ListOK(kern', proc) /\ FramesOK(kern', frame') /\ WaitsOK(kern', frame')
    <3>1. Waits(kern, kern', frame, frame', c)
      BY <1>4, <2>0, <2>1 DEF Waits
    <3>2. /\ KernelOK(kern, Tasks) /\ FamilyOK(kern, proc) /\ ListOK(kern, proc)
          /\ FramesOK(kern, frame) /\ WaitsOK(kern, frame)
      BY <2>2
    <3> QED BY <3>1, <3>2, SleepKeeps
  <2>4. HomesOK(Alive(kern), mem, frame')
    <3>1. PICK x : x = WaitFrame(c) /\ x \notin {Boots, Execs}
      BY FrameFacts DEF Young, Alive
    <3>2. Alive(kern) \in SUBSET Tasks /\ frame \in [Tasks -> Frames \cup {NULL}]
      BY Running
    <3> QED BY <1>2, <2>0, <2>2, <3>1, <3>2, HomesFrame
  <2> QED BY <2>0, <2>2, <2>3, <2>4 DEF ProcInv
<1> QED BY <1>3, <1>4

\* wait4, after the sleep: the child it was asked for has exited.
LEMMA WokenByExit ==
  ASSUME ProcInv, WaitReturns
  PROVE  \E c \in Young(kern) : /\ kern.current = InitTask /\ kern.state[c] = "ZOMBIE"
                                /\ frame[InitTask] = WaitFrame(c) /\ Reap(Idle, c)
<1>1. frame[kern.current] # NULL /\ frame[kern.current].op = "wait4"
  BY DEF WaitReturns, InUser
<1>2. frame[kern.current] \notin {NULL, Boots, Execs}
  BY <1>1, FrameFacts
<1>3. kern.current = InitTask
  BY <1>2, Running
<1>4. PICK c \in Young(kern) : frame[InitTask] = WaitFrame(c)
  BY <1>2, <1>3 DEF ProcInv, FramesOK
<1>5. kern.state[InitTask] = "RUNNING"
  BY <1>3, Elders DEF ProcInv
<1>6. kern.state[c] = "ZOMBIE"
  BY <1>4, <1>5 DEF ProcInv, WaitsOK
<1>7. frame[InitTask].tsk = Idle /\ frame[InitTask].child = c
  BY <1>4, FrameFacts
<1>8. Reap(Idle, c)
  BY <1>3, <1>7 DEF WaitReturns
<1> QED
  BY <1>3, <1>4, <1>6, <1>8

\* The rest of wait4.
LEMMA WaitReturnsInv ==
  ASSUME ProcInv, WaitReturns
  PROVE  ProcInv'
<1>1. PICK c \in Young(kern) : /\ kern.current = InitTask /\ kern.state[c] = "ZOMBIE"
                               /\ frame[InitTask] = WaitFrame(c) /\ Reap(Idle, c)
  BY WokenByExit
<1>2. frame[InitTask] \notin {Boots, Execs}
  BY <1>1, FrameFacts DEF Young, Alive
<1> QED
  BY <1>1, <1>2, ReapInv


-----------------------------------------------------------------------------
(* The theorems *)

\* Each step keeps the invariant, ...
LEMMA NextInv == ProcInv /\ [Next]_vars => ProcInv'
<1> SUFFICES ASSUME ProcInv, [Next]_vars PROVE ProcInv'
  OBVIOUS
<1>1. CASE UNCHANGED vars
  BY <1>1 DEF vars, ProcInv
<1>2. ASSUME NEW t \in Tasks, NEW vm \in BOOLEAN, sys_fork(t, vm) PROVE ProcInv'
  BY <1>2, ForkInv
<1>3. CASE sys_execve
  BY <1>3, ExecInv
<1>4. ASSUME NEW found \in BOOLEAN, ExecReturns(found) PROVE ProcInv'
  BY <1>4, ExecReturnsInv
<1>5. ASSUME NEW new \in 0..MaxBrk, sys_brk(new) PROVE ProcInv'
  BY <1>5, BrkInv
<1>6. CASE sys_exit
  BY <1>6, ExitInv
<1>7. ASSUME NEW pid \in 0..MaxPid, sys_wait4(pid) PROVE ProcInv'
  BY <1>7, WaitInv
<1>8. CASE WaitReturns
  BY <1>8, WaitReturnsInv
<1>9. CASE OtherEntry
  BY <1>9, OtherInv
<1> QED
  BY <1>1, <1>2, <1>3, <1>4, <1>5, <1>6, <1>7, <1>8, <1>9 DEF Next

\* ... and is one of the scheduler's kernel entries or none.
LEMMA NextSched == ProcInv /\ [Next]_vars => [S!Next]_(S!vars)
<1> SUFFICES ASSUME ProcInv, [Next]_vars PROVE S!Next \/ kern' = kern
  BY DEF S!vars
<1>0. Tasks \subseteq Channels /\ DeviceChannels \subseteq Channels /\ InitTask \in Tasks /\ InitTask # Idle
  BY ChannelsAssumption, TaskAssumption
<1>1. CASE UNCHANGED vars
  BY <1>1 DEF vars
<1>2. ASSUME NEW t \in Tasks, NEW vm \in BOOLEAN, sys_fork(t, vm) PROVE S!Next
  <2>1. S!SysFork(t)
    BY <1>2 DEF sys_fork
  <2> QED BY <2>1 DEF S!Next
<1>3. CASE sys_execve
  BY <1>3 DEF sys_execve, S!Next
<1>4. ASSUME NEW found \in BOOLEAN, ExecReturns(found) PROVE kern' = kern
  BY <1>4 DEF ExecReturns
<1>5. ASSUME NEW new \in 0..MaxBrk, sys_brk(new) PROVE kern' = kern
  BY <1>5 DEF sys_brk
<1>6. CASE sys_exit
  <2>1. PICK c : S!SysExit(c)
    BY <1>6 DEF sys_exit
  <2>2. c \in Tasks
    BY <2>1 DEF S!SysExit
  <2> QED BY <1>0, <2>1, <2>2 DEF S!Next
<1>7. ASSUME NEW c \in Young(kern), kern.current = InitTask, kern.state[c] = "ZOMBIE", Reap(Idle, c)
      PROVE  S!Next
  <2>1. c \in Tasks
    BY DEF Young, Alive
  <2>2. S!SysReap(c)
    BY <1>0, <1>7 DEF Reap, S!SysReap
  <2> QED BY <2>1, <2>2 DEF S!Next
<1>8. ASSUME NEW pid \in 0..MaxPid, sys_wait4(pid) PROVE S!Next
  <2>1. PICK c \in Young(kern) :
          /\ kern.current = InitTask
          /\ IF kern.state[c] = "ZOMBIE" THEN Reap(Idle, c) ELSE S!SysWait(InitTask)
    BY <1>8, WaitFinds
  <2>2. CASE kern.state[c] = "ZOMBIE"
    BY <1>7, <2>1, <2>2
  <2>3. CASE kern.state[c] # "ZOMBIE"
    <3>1. S!SysWait(InitTask) /\ InitTask \in Channels
      BY <1>0, <2>1, <2>3
    <3> QED BY <3>1 DEF S!Next
  <2> QED BY <2>2, <2>3
<1>9. CASE WaitReturns
  BY <1>7, <1>9, WokenByExit
<1>10. CASE OtherEntry
  <2>1. S!Tick \/ S!QuietIrq \/ S!SysTransfer \/ (\E t \in Tasks : S!DiskIrq(t))
          \/ \E c \in DeviceChannels : S!DeviceIrq(c) \/ S!SysRead(c)
    BY <1>10 DEF OtherEntry
  <2> QED BY <1>0, <2>1 DEF S!Next
<1> QED
  BY <1>1, <1>2, <1>3, <1>4, <1>5, <1>6, <1>8, <1>9, <1>10 DEF Next

\* The inductive invariant: init and at most one child, each with its place in the list,
\* its frame and its address space, whatever the programs call and when interrupts come.
THEOREM ProcessInvariance == Spec => []ProcInv
  BY InitOK, NextInv, PTL DEF Spec

\* The list behind init_task holds every allocated task_struct once and no freed one,
\* although wait4 unlinks through a pointer it saved before it slept.
THEOREM ListIsExact == Spec => []ListExact
<1>1. ProcInv => ListExact
  <2> SUFFICES ASSUME ProcInv PROVE ListExact
    OBVIOUS
  <2>0. KernelOK(kern, Tasks) /\ FamilyOK(kern, proc) /\ ListOK(kern, proc)
    BY DEF ProcInv
  <2>1. TypeOK
    BY DEF ProcInv, KernelOK, Inv, Core, QueueOK, FramesOK, PagesOK, TypeOK
  <2>2. \A t \in Tasks \ {Idle} : kern.state[t] # "NONE" <=> t = InitTask \/ t \in Young(kern)
    BY Running DEF Young, Alive
  <2>3. CASE Young(kern) = {}
    <3>1. Len(TaskList(proc)) = 1 /\ TaskList(proc)[1] = InitTask
      BY <2>0, <2>3, ListShape
    <3>2. \A t \in Tasks \ {Idle} : Contains(TaskList(proc), t) <=> t = InitTask
      BY <3>1 DEF Contains
    <3> QED BY <2>1, <2>2, <2>3, <3>1, <3>2 DEF ListExact
  <2>4. ASSUME NEW c \in Young(kern) PROVE ListExact
    <3>1. Len(TaskList(proc)) = 2 /\ TaskList(proc)[1] = c /\ TaskList(proc)[2] = InitTask
      BY <2>0, ListShape
    <3>2. \A t \in Tasks \ {Idle} : Contains(TaskList(proc), t) <=> t = InitTask \/ t = c
      BY <3>1 DEF Contains
    <3>3. c # InitTask /\ \A t : t \in Young(kern) <=> t = c
      BY <2>0 DEF Young, FamilyOK
    <3>4. \A i, j \in 1..Len(TaskList(proc)) : TaskList(proc)[i] = TaskList(proc)[j] => i = j
      BY <3>1, <3>3
    <3> QED BY <2>1, <2>2, <3>2, <3>3, <3>4 DEF ListExact
  <2> QED BY <2>3, <2>4
<1> QED
  BY <1>1, ProcessInvariance, PTL

\* No exit is missed, and wait4 returns for no other reason.
THEOREM ExitsAreNoticed == Spec => []ExitIsNoticed
<1>1. ProcInv => ExitIsNoticed
  <2> SUFFICES ASSUME ProcInv, NEW t \in Tasks, frame[t] # NULL, frame[t].op = "wait4"
               PROVE  kern.state[frame[t].child] = "ZOMBIE" <=> kern.state[t] = "RUNNING"
    BY DEF ExitIsNoticed
  <2>1. frame[t] \notin {NULL, Boots, Execs}
    BY FrameFacts
  <2>2. t = InitTask
    BY <2>1 DEF ProcInv, FramesOK
  <2>3. PICK c \in Young(kern) : frame[InitTask] = WaitFrame(c)
    BY <2>1, <2>2 DEF ProcInv, FramesOK
  <2>4. frame[InitTask].child = c
    BY <2>3, FrameFacts
  <2>5. kern.state[InitTask] = IF kern.state[c] = "ZOMBIE" THEN "RUNNING" ELSE "INTERRUPTIBLE"
    BY <2>3 DEF ProcInv, WaitsOK
  <2> QED BY <2>2, <2>4, <2>5
<1> QED
  BY <1>1, ProcessInvariance, PTL

\* No order of fork, vfork, execve, brk, exit and wait4 puts a page into two spaces, or
\* frees one that is mapped, or takes the space from under a task.
THEOREM SpacesAreApart == Spec => []AddressSpacesApart
<1>1. ProcInv => AddressSpacesApart
  <2> SUFFICES ASSUME ProcInv PROVE AddressSpacesApart
    OBVIOUS
  <2>0. /\ PagesOK(mem) /\ HomesOK(Alive(kern), mem, frame) /\ FamilyOK(kern, proc)
        /\ InitTask \in Alive(kern) /\ InitTask # Idle
    BY Running DEF ProcInv
  <2>1. ASSUME NEW t \in Tasks, kern.state[t] # "NONE"
        PROVE  \/ mem.mm[t] = init_mm /\ (t = Idle \/ t \in mem.vfork)
               \/ mem.mm[t] # init_mm /\ mem.space[mem.mm[t]].used
    <3>1. t \in Alive(kern)
      BY <2>1 DEF Alive
    <3> QED BY <2>0, <3>1 DEF HomesOK, Own
  <2>2. ASSUME NEW t \in Young(kern), mem.mm[t] = mem.mm[InitTask] PROVE t \in mem.vfork
    BY <2>0, <2>2 DEF HomesOK, Young
  <2>3. ASSUME NEW t \in Tasks, NEW u \in Tasks, t # u, kern.state[t] # "NONE",
               kern.state[u] # "NONE", mem.mm[t] = mem.mm[u]
        PROVE  t \in mem.vfork \/ u \in mem.vfork
    <3>1. \A x \in {t, u} : x = Idle \/ x = InitTask \/ x \in Young(kern)
      BY <2>3 DEF Young, Alive
    <3>2. ASSUME NEW x \in {t, u}, x # Idle, mem.mm[x] = mem.mm[Idle] PROVE x \in mem.vfork
      <4>1. x \in Alive(kern) \ {Idle}
        BY <2>3, <3>2 DEF Alive
      <4> QED BY <2>0, <3>2, <4>1 DEF HomesOK, Own
    <3>3. ~(t \in Young(kern) /\ u \in Young(kern))
      BY <2>0, <2>3 DEF FamilyOK
    <3> QED BY <2>2, <2>3, <3>1, <3>2, <3>3
  <2> QED BY <2>0, <2>1, <2>3 DEF AddressSpacesApart, PagesOK
<1> QED
  BY <1>1, ProcessInvariance, PTL

\* Every process call is one of the scheduler's kernel entries: only zombies are freed.
THEOREM ProcessKeepsSchedRules == Spec => SchedSpec
  BY InitOK, NextSched, ProcessInvariance, PTL DEF Spec, SchedSpec, S!Spec

=============================================================================
