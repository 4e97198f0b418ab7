------------------------------- MODULE Memory -------------------------------
(***************************************************************************)
(* Kernel memory: 2 MB pages taken from a bitmap (alloc_pages, free_pages)  *)
(* and, on top of them, kmalloc's slab caches.  A cache is a circular list  *)
(* of slabs, one page each, that starts with a slab built by slab_init.     *)
(*                                                                          *)
(* A further slab of a small cache (32 to 512 bytes) has its struct Slab    *)
(* and bitmap in its own page.  A further slab of a large cache (1 KB to    *)
(* 1 MB) takes both from small caches, so kmalloc and kfree call themselves,*)
(* one level deep.                                                          *)
(*                                                                          *)
(* slab_create makes a cache of its own, which takes its structures from    *)
(* the small caches; one such cache is modelled.                            *)
(*                                                                          *)
(* kmalloc runs with interrupts off on processor 0 only: a call is a step.  *)
(***************************************************************************)
EXTENDS Integers, Sequences, FiniteSets, SequencesExt

CONSTANTS
  Pages,        \* the page numbers of ZONE_NORMAL
  KernelPages,  \* those below end_of_struct: the kernel and its tables
  Small, Large, \* the caches of the two kinds
  HeadPage,     \* the page slab_init gives each cache
  HeadCount,    \* objects in the first slab of a cache (2 MB / size)
  MoreCount,    \* objects in a further one (fewer where it holds its own map)
  DescCache,    \* the small cache that fits a struct Slab
  MapCache,     \* the small cache that fits the bitmap of each large cache
  CacheCache,   \* the small cache that fits a struct Slab_cache
  OwnCount,     \* objects in a slab of the cache slab_create makes
  OwnMapCache,  \* the small cache that fits the bitmap of such a slab
  MaxOwned      \* bound on the objects the kernel holds at a time

Caches == Small \cup Large

ASSUME MemoryAssumption ==
  /\ IsFiniteSet(Pages) /\ Pages \subseteq Nat /\ KernelPages \subseteq Pages
  /\ Small \cap Large = {}
  /\ HeadPage \in [Caches -> Pages \ KernelPages]
  /\ \A c, d \in Caches : HeadPage[c] = HeadPage[d] => c = d
  /\ HeadCount \in [Caches -> Nat \ {0}] /\ MoreCount \in [Caches -> Nat \ {0}]
  /\ {DescCache, CacheCache, OwnMapCache} \subseteq Small /\ MapCache \in [Large -> Small]
  /\ OwnCount \in Nat \ {0} /\ MaxOwned \in Nat

VARIABLES
  mem,      \* the allocator's own state, see MemType
  owned,    \* addresses kmalloc has returned and nobody has given back
  lent,     \* those slab_malloc has returned and nobody has given back
  user      \* pages mapped into user address spaces

vars == <<mem, owned, lent, user>>

\* An address is a page and the number of the object in it.
Addresses == [page : Pages, index : Nat]
NULL == [page |-> -1, index |-> 0]

\* A slab: its page, the set bits of color_map, its two counters, color_count, and
\* where its struct Slab and color_map were kmalloc'ed (NULL: they were not).
Slabs == [page : Pages, bits : SUBSET Nat, using_count : Int, free_count : Int, color_count : Nat,
          desc : Addresses \cup {NULL}, map : Addresses \cup {NULL}]

\* A struct Slab_cache; pool is the circular list, cache_pool first.
CacheType == [pool : Seq(Slabs), total_free : Int, total_using : Int]

\* Pages are handed out from bits_map; reference_count is in their struct Page.
ZoneType == [
  bits_map : SUBSET Pages, reference_count : [Pages -> Int],
  page_using_count : Int, page_free_count : Int, total_pages_link : Int]

MemType == [
  zone : ZoneType,
  cache : [Caches -> CacheType],       \* kmalloc_cache_size
  own : CacheType,                     \* the cache slab_create has made, ...
  own_at : Addresses \cup {NULL},      \* ... and where it is (NULL: there is none)
  halted : BOOLEAN]                    \* a NULL was dereferenced

TypeOK ==
  mem \in MemType /\ owned \subseteq Addresses /\ lent \subseteq Addresses /\ user \subseteq Pages

\* The struct Slab_cache of slab_create, before or after there is one.
NoCache == [pool |-> <<>>, total_free |-> 0, total_using |-> 0]

NewSlab(p, n, desc, map) ==
  [page |-> p, bits |-> {}, using_count |-> 0, free_count |-> n, color_count |-> n,
   desc |-> desc, map |-> map]

HeadPages == {HeadPage[c] : c \in Caches}

\* The zone once its first pages, up to end_of_struct, are the kernel's.
init_memory == [
  bits_map |-> KernelPages,
  reference_count |-> [p \in Pages |-> IF p \in KernelPages THEN 1 ELSE 0],
  page_using_count |-> Cardinality(KernelPages),
  page_free_count |-> Cardinality(Pages \ KernelPages),
  total_pages_link |-> Cardinality(KernelPages)]

\* Each cache gets its first slab, with a page of its own.
slab_init(z) == [
  zone |-> [z EXCEPT !.bits_map = @ \cup HeadPages,
                     !.reference_count = [p \in Pages |-> @[p] + (IF p \in HeadPages THEN 1 ELSE 0)],
                     !.page_using_count = @ + Cardinality(HeadPages),
                     !.page_free_count = @ - Cardinality(HeadPages),
                     !.total_pages_link = @ + Cardinality(HeadPages)],
  cache |-> [c \in Caches |-> [pool |-> <<NewSlab(HeadPage[c], HeadCount[c], NULL, NULL)>>,
                               total_free |-> HeadCount[c], total_using |-> 0]],
  own |-> NoCache, own_at |-> NULL, halted |-> FALSE]

Init ==
  /\ mem = slab_init(init_memory)
  /\ owned = {}
  /\ lent = {}
  /\ user = {}

----------------------------------------------------------------------------
\* Pages.

Least(S) == CHOOSE n \in S : \A m \in S : n <= m

\* alloc_pages(ZONE_NORMAL, 1, ...) is possible: the zone's counter is tested before
\* the bitmap is searched.
CanAlloc(m) == m.zone.page_free_count >= 1 /\ Pages \ m.zone.bits_map # {}

\* The page it finds: the first clear bit.
FreePage(m) == Least(Pages \ m.zone.bits_map)

\* Page p is the one found.
alloc_pages(z, p) ==
  [z EXCEPT !.bits_map = @ \cup {p}, !.page_using_count = @ + 1, !.page_free_count = @ - 1]

free_pages(z, p) ==
  [z EXCEPT !.bits_map = @ \ {p}, !.page_using_count = @ - 1, !.page_free_count = @ + 1]

page_init(z, p) ==
  IF z.reference_count[p] = 0
    THEN [z EXCEPT !.reference_count[p] = @ + 1, !.total_pages_link = @ + 1]
    ELSE z

page_clean(z, p) ==
  [z EXCEPT !.reference_count[p] = @ - 1, !.total_pages_link = @ - 1]

\* A page for a slab.
GetPage(m) == [m EXCEPT !.zone = page_init(alloc_pages(@, FreePage(m)), FreePage(m))]

ReleasePage_KeepBit(m, p) == [m EXCEPT !.zone = page_clean(@, p)]

ReleasePage(m, p) == [m EXCEPT !.zone = free_pages(page_clean(@, p), p)]

----------------------------------------------------------------------------
\* Objects of a cache, kmalloc's or one's own.

Clear(s) == (0..(s.color_count - 1)) \ s.bits

\* The object a slab gives: its first clear bit.
FirstObject(s) == [page |-> s.page, index |-> Least(Clear(s))]

\* Setting that bit, and clearing bit j ("^=" on a set bit).
SetBit(s) ==
  [s EXCEPT !.bits = @ \cup {Least(Clear(s))}, !.using_count = @ + 1, !.free_count = @ - 1]
ClearBit(s, j) == [s EXCEPT !.bits = @ \ {j}, !.using_count = @ - 1, !.free_count = @ + 1]

\* An object of slab i of cache k is taken, and object j of it given back.
Take(k, i) == [k EXCEPT !.pool[i] = SetBit(@), !.total_free = @ - 1, !.total_using = @ + 1]
GiveBack(k, i, j) ==
  [k EXCEPT !.pool[i] = ClearBit(@, j), !.total_free = @ + 1, !.total_using = @ - 1]

\* The slab the search stops at: the first of the list that has a free object, or
\* cache_pool again.
SearchSlab(k) ==
  LET ready == {i \in 1..Len(k.pool) : k.pool[i].free_count # 0}
  IN IF ready = {} THEN 1 ELSE Least(ready)

\* A new slab at place i of the list.
LinkSlab(k, i, s) == [k EXCEPT !.pool = InsertAt(@, i, s), !.total_free = @ + s.color_count]

Unlink_KeepTotal(k, i) == [k EXCEPT !.pool = RemoveAt(@, i)]

\* list_del(&slab->list) and the correction of total_free.
UnlinkSlab(k, i) ==
  [k EXCEPT !.pool = RemoveAt(@, i), !.total_free = @ - k.pool[i].color_count]

Spare_Three(k, i) ==
  k.pool[i].using_count = 0 /\ k.total_free >= k.pool[i].color_count * 3

\* The slab is empty and the cache has half a slab more than it.
Spare(k, i) ==
  k.pool[i].using_count = 0 /\ k.total_free >= (k.pool[i].color_count * 3) \div 2

\* The slab whose page an address is in.
SlabOf(k, a) == Least({i \in 1..Len(k.pool) : k.pool[i].page = a.page})

----------------------------------------------------------------------------
\* kmalloc.  Results are records: the state after the call and the address.

Failed(m) == [m |-> m, address |-> NULL]

TakeObject(m, c, i) ==
  IF Clear(m.cache[c].pool[i]) = {} THEN Failed(m)
  ELSE [m |-> [m EXCEPT !.cache[c] = Take(@, i)], address |-> FirstObject(m.cache[c].pool[i])]

\* What kmalloc does with the slab kmalloc_create returns: it goes to the end.
AddSlab(m, c, s) == [m EXCEPT !.cache[c] = LinkSlab(@, Len(@.pool) + 1, s)]

\* kmalloc_create for a small cache: a page, with the slab inside.
CreateSmall(m, c) == AddSlab(GetPage(m), c, NewSlab(FreePage(m), MoreCount[c], NULL, NULL))

\* kmalloc from a small cache.
kmalloc_small(m, c) ==
  IF m.cache[c].total_free # 0 THEN TakeObject(m, c, SearchSlab(m.cache[c]))
  ELSE IF CanAlloc(m)
    THEN LET n == CreateSmall(m, c) IN TakeObject(n, c, Len(n.cache[c].pool))
    ELSE Failed(m)

\* kmalloc_create for a large cache: a page, then a struct Slab and a bitmap from
\* small caches.  Neither result is tested, and a NULL halts in do_page_fault.
CreateLarge(m, c) ==
  LET d == kmalloc_small(GetPage(m), DescCache)
      b == kmalloc_small(d.m, MapCache[c])
  IN IF NULL \in {d.address, b.address}
       THEN [b.m EXCEPT !.halted = TRUE]
       ELSE AddSlab(b.m, c, NewSlab(FreePage(m), MoreCount[c], d.address, b.address))

\* kmalloc from a large cache.
kmalloc_large(m, c) ==
  IF m.cache[c].total_free # 0 THEN TakeObject(m, c, SearchSlab(m.cache[c]))
  ELSE IF CanAlloc(m)
    THEN LET n == CreateLarge(m, c)
         IN IF n.halted THEN Failed(n) ELSE TakeObject(n, c, Len(n.cache[c].pool))
    ELSE Failed(m)

kmalloc(m, c) == IF c \in Small THEN kmalloc_small(m, c) ELSE kmalloc_large(m, c)

----------------------------------------------------------------------------
\* kfree.

\* Where kfree finds an address: the cache and a slab whose page it is in.
Holds(m, c, a) == \E i \in 1..Len(m.cache[c].pool) : m.cache[c].pool[i].page = a.page

\* The object is given back; the slab goes if it is a spare one and not the first.
FreeObject(m, c, a) ==
  LET i == SlabOf(m.cache[c], a)
      k == GiveBack(m.cache[c], i, a.index)
      goes == Spare(k, i) /\ i # 1
  IN [m |-> [m EXCEPT !.cache[c] = IF goes THEN UnlinkSlab(k, i) ELSE k],
      goes |-> goes, slab |-> k.pool[i]]

\* kfree of an object in a small cache.
kfree_small(m, c, a) ==
  LET r == FreeObject(m, c, a)
  IN IF r.goes THEN ReleasePage(r.m, r.slab.page) ELSE r.m

\* kfree searches all caches, the small ones first.
KfreeSmall(m, a) == kfree_small(m, CHOOSE c \in Small : Holds(m, c, a), a)

DropSlab_KeepDesc(m, s) == ReleasePage(KfreeSmall(m, s.map), s.page)

\* What is freed with a slab whose structures are not in its page, in this order: its
\* bitmap, its page, its struct Slab.
DropSlab(m, s) == KfreeSmall(ReleasePage(KfreeSmall(m, s.map), s.page), s.desc)

\* kfree of an object in a large cache.
kfree_large(m, c, a) ==
  LET r == FreeObject(m, c, a)
  IN IF r.goes THEN DropSlab(r.m, r.slab) ELSE r.m

kfree(m, a) ==
  IF \E c \in Small : Holds(m, c, a) THEN KfreeSmall(m, a)
  ELSE kfree_large(m, CHOOSE c \in Large : Holds(m, c, a), a)

----------------------------------------------------------------------------
\* A cache of one's own: slab_create, slab_malloc, slab_free and slab_destroy.

\* A struct Slab, a page and a bitmap, each given back if the next is not to be had;
\* page_clean is not called for the page that is given back.
MakeSlab(m) ==
  LET d == kmalloc_small(m, DescCache)
      p == FreePage(d.m)
      b == kmalloc_small(GetPage(d.m), OwnMapCache)
      none == NewSlab(0, 0, NULL, NULL)
  IN CASE d.address = NULL -> [m |-> m, slab |-> none]
       [] d.address # NULL /\ ~CanAlloc(d.m) -> [m |-> KfreeSmall(d.m, d.address), slab |-> none]
       [] d.address # NULL /\ CanAlloc(d.m) /\ b.address = NULL ->
            [m |-> KfreeSmall([b.m EXCEPT !.zone = free_pages(@, p)], d.address), slab |-> none]
       [] OTHER -> [m |-> b.m, slab |-> NewSlab(p, OwnCount, d.address, b.address)]

\* slab_create: the first slab starts with using_count equal to free_count.
slab_create(m) ==
  LET c == kmalloc_small(m, CacheCache)
      r == MakeSlab(c.m)
  IN IF c.address = NULL THEN m
     ELSE IF r.slab.color_count = 0 THEN KfreeSmall(r.m, c.address)
     ELSE [r.m EXCEPT !.own_at = c.address,
                      !.own = [pool |-> <<[r.slab EXCEPT !.using_count = OwnCount]>>,
                               total_free |-> OwnCount, total_using |-> 0]]

OwnObject(m, i) == [m |-> [m EXCEPT !.own = Take(@, i)], address |-> FirstObject(m.own.pool[i])]

\* slab_malloc: a new slab goes right behind the first.
slab_malloc(m) ==
  LET r == MakeSlab(m)
  IN IF m.own.total_free # 0 THEN OwnObject(m, SearchSlab(m.own))
     ELSE IF r.slab.color_count = 0 THEN Failed(r.m)
     ELSE OwnObject([r.m EXCEPT !.own = LinkSlab(@, 2, r.slab)], 2)

\* slab_free releases a slab that empties, the first one too if its count ever got to 0.
slab_free(m, a) ==
  LET i == SlabOf(m.own, a)
      k == GiveBack(m.own, i, a.index)
  IN IF Spare(k, i) THEN DropSlab([m EXCEPT !.own = UnlinkSlab(k, i)], k.pool[i])
     ELSE [m EXCEPT !.own = k]

\* slab_destroy releases every slab, from the first on, and then the cache.
slab_destroy(m) ==
  LET left[n \in 0..Len(m.own.pool)] == IF n = 0 THEN m ELSE DropSlab(left[n - 1], m.own.pool[n])
  IN KfreeSmall([left[Len(m.own.pool)] EXCEPT !.own = NoCache, !.own_at = NULL], m.own_at)

----------------------------------------------------------------------------
\* The rest of the kernel asks for memory and gives back what it owns.

Kmalloc(c) ==
  LET r == kmalloc(mem, c) IN
  /\ ~mem.halted
  /\ Cardinality(owned) < MaxOwned
  /\ mem' = r.m
  /\ owned' = owned \cup ({r.address} \ {NULL})
  /\ UNCHANGED <<lent, user>>

Kfree(a) ==
  /\ ~mem.halted
  /\ mem' = kfree(mem, a)
  /\ owned' = owned \ {a}
  /\ UNCHANGED <<lent, user>>

SlabCreate ==
  /\ ~mem.halted
  /\ mem.own_at = NULL
  /\ mem' = slab_create(mem)
  /\ UNCHANGED <<owned, lent, user>>

SlabMalloc ==
  LET r == slab_malloc(mem) IN
  /\ ~mem.halted
  /\ mem.own_at # NULL
  /\ mem' = r.m
  /\ lent' = lent \cup ({r.address} \ {NULL})
  /\ UNCHANGED <<owned, user>>

SlabFree(a) ==
  /\ ~mem.halted
  /\ mem' = slab_free(mem, a)
  /\ lent' = lent \ {a}
  /\ UNCHANGED <<owned, user>>

\* slab_destroy of a cache that is in use only complains.
SlabDestroy ==
  /\ ~mem.halted
  /\ mem.own_at # NULL /\ mem.own.total_using = 0
  /\ mem' = slab_destroy(mem)
  /\ UNCHANGED <<owned, lent, user>>

\* do_brk, copy_mm and do_execve map a page for the user; its reference_count stays.
MapUserPage ==
  /\ ~mem.halted
  /\ CanAlloc(mem)
  /\ mem' = [mem EXCEPT !.zone = alloc_pages(@, FreePage(mem))]
  /\ user' = user \cup {FreePage(mem)}
  /\ UNCHANGED <<owned, lent>>

\* exit_mm frees the page of the code.
UnmapUserPage(p) ==
  /\ ~mem.halted
  /\ mem' = [mem EXCEPT !.zone = free_pages(@, p)]
  /\ user' = user \ {p}
  /\ UNCHANGED <<owned, lent>>

Next ==
  \/ \E c \in Caches : Kmalloc(c)
  \/ \E a \in owned : Kfree(a)
  \/ SlabCreate \/ SlabMalloc \/ SlabDestroy
  \/ \E a \in lent : SlabFree(a)
  \/ MapUserPage
  \/ \E p \in user : UnmapUserPage(p)

Spec == Init /\ [][Next]_vars

----------------------------------------------------------------------------
SlabSet(k) == {k.pool[i] : i \in 1..Len(k.pool)}
AllSlabs == (UNION {SlabSet(mem.cache[c]) : c \in Caches}) \cup SlabSet(mem.own)
SlabPages == {s.page : s \in AllSlabs}

\* The objects that back the slabs of the large caches and the cache of one's own.
Internal == ((UNION {{s.desc, s.map} : s \in AllSlabs}) \cup {mem.own_at}) \ {NULL}

\* Each slab of a cache, and each of two caches, has a page of its own.
OnePageEach(k) == \A i, j \in 1..Len(k.pool) : k.pool[i].page = k.pool[j].page => i = j
PagesApart(k, l) == \A s \in SlabSet(k), t \in SlabSet(l) : s.page # t.page

\* No page has two uses and none is forgotten: every set bit of the bitmap is the
\* kernel's, a slab's or a user's, each page one of them, and each slab has its
\* own, also after an allocation of several parts failed half way (memory.c:330,
\* 480, 604, 700).
PagesExact ==
  ~mem.halted =>
    /\ TypeOK
    /\ mem.zone.bits_map = KernelPages \cup SlabPages \cup user
    /\ KernelPages \cap SlabPages = {} /\ KernelPages \cap user = {} /\ SlabPages \cap user = {}
    /\ OnePageEach(mem.own)
    /\ \A c \in Caches :
         /\ OnePageEach(mem.cache[c]) /\ PagesApart(mem.cache[c], mem.own)
         /\ \A d \in Caches \ {c} : PagesApart(mem.cache[c], mem.cache[d])

\* The set bits of the slabs are exactly the objects in use: what the kernel owns,
\* and the allocator's own structures.  So nothing is handed out twice, no
\* structure of the allocator is handed out, and nothing is lost when slabs come
\* and go (memory.c:443, 581, 611, 727, 921).
ObjectsExact ==
  ~mem.halted =>
    /\ owned \cap Internal = {}
    /\ UNION {{[page |-> s.page, index |-> j] : j \in s.bits} : s \in AllSlabs}
         = owned \cup lent \cup Internal
    /\ \A s \in AllSlabs : s.bits \subseteq 0..(s.color_count - 1)

\* The sum of a sequence of numbers.
Total(f) ==
  LET sum[n \in 0..Len(f)] == IF n = 0 THEN 0 ELSE sum[n - 1] + f[n]
  IN sum[Len(f)]

FreeCounts(k) == [i \in 1..Len(k.pool) |-> k.pool[i].free_count]
UsingCounts(k) == [i \in 1..Len(k.pool) |-> k.pool[i].using_count]

\* Counters of slabs and caches agree with the bitmaps: kmalloc searches for a free
\* object only because total_free is not 0, and would otherwise fail or write into
\* a full slab (memory.c:408, 428, 601, 755, 909).  The zone's counters are the page
\* bitmap's, and a page a slab or the kernel has is linked once, also after it was a
\* user's or was given back without page_clean (memory.c:13, 23, 339, 383, 699).
CountersExact ==
  ~mem.halted =>
    /\ \A c \in Caches :
         /\ \A s \in SlabSet(mem.cache[c]) : s.using_count = Cardinality(s.bits)
         /\ mem.cache[c].total_free = Total(FreeCounts(mem.cache[c]))
         /\ mem.cache[c].total_using = Total(UsingCounts(mem.cache[c]))
    /\ \A s \in AllSlabs : s.free_count = s.color_count - Cardinality(s.bits)
    /\ mem.own.total_free = Total(FreeCounts(mem.own))
    /\ mem.own.total_using = Cardinality(lent)
    /\ mem.zone.page_using_count = Cardinality(mem.zone.bits_map)
    /\ mem.zone.page_free_count = Cardinality(Pages \ mem.zone.bits_map)
    /\ mem.zone.total_pages_link = Cardinality({p \in Pages : mem.zone.reference_count[p] = 1})
    /\ \A p \in Pages :
         mem.zone.reference_count[p] \in IF p \in KernelPages \cup SlabPages THEN {1} ELSE {0, 1}

\* At most one slab of a cache besides the first is empty.
OneSpare(k) ==
  \A i, j \in 2..Len(k.pool) : k.pool[i].bits = {} /\ k.pool[j].bits = {} => i = j

\* A cache keeps its first slab, which its cache_pool pointer names, and at most one
\* further slab that is empty, although kfree and slab_free decide only at the moment
\* a slab empties (memory.c:589, 918).
OneSpareSlab ==
  ~mem.halted =>
    /\ \A c \in Caches : mem.cache[c].pool[1].page = HeadPage[c] /\ OneSpare(mem.cache[c])
    /\ mem.own_at # NULL =>
         /\ mem.own.pool # <<>> /\ mem.own.pool[1].using_count >= OwnCount
         /\ OneSpare(mem.own)
=============================================================================
