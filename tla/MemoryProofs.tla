---------------------------- MODULE MemoryProofs ----------------------------
(***************************************************************************)
(* Proofs about Memory, for any number of pages, of caches of both kinds   *)
(* and of objects in a slab: pages and objects have one use each, counters *)
(* agree with the bitmaps, and a cache keeps one spare slab.               *)
(***************************************************************************)
EXTENDS Memory, SequenceTheorems, FiniteSetTheorems, WellFoundedInduction, TLAPS

-----------------------------------------------------------------------------
(* Numbers and sequences *)

\* A set of naturals that is not empty has a least element.
LEMMA LeastNat ==
  ASSUME NEW T, T \subseteq Nat, T # {}
  PROVE  \E x \in T : \A y \in T : x <= y
<1>1. PICK x \in T : \A y \in T : ~(<<y, x>> \in OpToRel(<, Nat))
  BY WFMin, NatLessThanWellFounded, Zenon
<1>2. \A y \in T : ~(y < x)
  BY <1>1 DEF OpToRel
<1> QED
  BY <1>2

\* What a search for the first one finds is one of them.
LEMMA LeastIn ==
  ASSUME NEW T, T \subseteq Nat, T # {}
  PROVE  Least(T) \in T
  BY LeastNat DEF Least

\* Induction up to a bound, over a set.
LEMMA UpTo ==
  ASSUME NEW N \in Nat, NEW T, 0 \in T, \A n \in 0..(N - 1) : n \in T => n + 1 \in T
  PROVE  \A n \in 0..N : n \in T
<1> DEFINE Bad == {n \in 0..N : n \notin T}
<1> SUFFICES ASSUME Bad # {} PROVE FALSE
  OBVIOUS
<1>1. PICK x \in Bad : \A y \in Bad : x <= y
  <2>1. Bad \subseteq Nat
    OBVIOUS
  <2> HIDE DEF Bad
  <2> QED BY <2>1, LeastNat, Zenon
<1>2. x # 0 /\ x \in 0..N
  OBVIOUS
<1>3. x - 1 \in 0..(N - 1) /\ (x - 1) + 1 = x
  BY <1>2
<1>4. x - 1 \in T
  BY <1>1, <1>2, <1>3
<1> QED
  BY <1>3, <1>4

\* g is f with x at place i in addition.
Added(f, g, i, x) ==
  /\ Len(g) = Len(f) + 1 /\ i \in 1..Len(g)
  /\ \A k \in 1..Len(g) : g[k] = IF k < i THEN f[k] ELSE IF k = i THEN x ELSE f[k - 1]

\* Linking a slab into a list.
LEMMA InsertAdds ==
  ASSUME NEW S, NEW f \in Seq(S), NEW x \in S, NEW i \in 1..(Len(f) + 1)
  PROVE  InsertAt(f, i, x) \in Seq(S) /\ Added(f, InsertAt(f, i, x), i, x)
<1> DEFINE a == SubSeq(f, 1, i - 1)
           b == SubSeq(f, i, Len(f))
           ax == a \o <<x>>
<1>1. a \in Seq(S) /\ Len(a) = i - 1 /\ \A j \in 1..(i - 1) : a[j] = f[j]
  BY SubSeqProperties
<1>2. b \in Seq(S) /\ Len(b) = Len(f) + 1 - i /\ \A j \in 1..(Len(f) + 1 - i) : b[j] = f[i + j - 1]
  BY SubSeqProperties
<1>3. ax \in Seq(S) /\ Len(ax) = i /\ \A j \in 1..i : ax[j] = IF j < i THEN f[j] ELSE x
  <2> HIDE DEF a
  <2> QED BY <1>1
<1>4. InsertAt(f, i, x) = ax \o b
  BY DEF InsertAt
<1> HIDE DEF a, b, ax
<1>5. /\ ax \o b \in Seq(S)
      /\ Len(ax \o b) = Len(ax) + Len(b)
      /\ \A j \in 1..(Len(ax) + Len(b)) :
           (ax \o b)[j] = IF j <= Len(ax) THEN ax[j] ELSE b[j - Len(ax)]
  BY <1>2, <1>3, ConcatProperties, Zenon
<1>6. Len(ax \o b) = Len(f) + 1
  BY <1>2, <1>3, <1>5
<1>7. Added(f, ax \o b, i, x)
  <2> SUFFICES ASSUME NEW k \in 1..(Len(f) + 1)
               PROVE  (ax \o b)[k] = IF k < i THEN f[k] ELSE IF k = i THEN x ELSE f[k - 1]
    BY <1>6 DEF Added
  <2>1. (ax \o b)[k] = IF k <= i THEN ax[k] ELSE b[k - i]
    BY <1>2, <1>3, <1>5
  <2>2. CASE k <= i
    BY <2>1, <2>2, <1>3
  <2>3. CASE k > i
    <3>1. k - i \in 1..(Len(f) + 1 - i) /\ i + (k - i) - 1 = k - 1
      BY <2>3
    <3>2. b[k - i] = f[k - 1]
      BY <3>1, <1>2
    <3> QED BY <2>1, <2>3, <3>2
  <2>4. k <= i \/ k > i
    OBVIOUS
  <2> QED BY <2>2, <2>3, <2>4, Zenon
<1> QED
  BY <1>4, <1>5, <1>7, Zenon

\* Unlinking one.
LEMMA RemoveAdds ==
  ASSUME NEW S, NEW g \in Seq(S), NEW i \in 1..Len(g)
  PROVE  RemoveAt(g, i) \in Seq(S) /\ Added(RemoveAt(g, i), g, i, g[i])
<1> DEFINE a == SubSeq(g, 1, i - 1)
           b == SubSeq(g, i + 1, Len(g))
<1>1. a \in Seq(S) /\ Len(a) = i - 1 /\ \A j \in 1..(i - 1) : a[j] = g[j]
  BY SubSeqProperties
<1>2. b \in Seq(S) /\ Len(b) = Len(g) - i /\ \A j \in 1..(Len(g) - i) : b[j] = g[i + j]
  BY SubSeqProperties
<1>3. RemoveAt(g, i) = a \o b
  BY DEF RemoveAt
<1> HIDE DEF a, b
<1>4. /\ a \o b \in Seq(S)
      /\ Len(a \o b) = Len(a) + Len(b)
      /\ \A j \in 1..(Len(a) + Len(b)) :
           (a \o b)[j] = IF j <= Len(a) THEN a[j] ELSE b[j - Len(a)]
  BY <1>1, <1>2, ConcatProperties, Zenon
<1>5. Len(g) = Len(a \o b) + 1
  BY <1>1, <1>2, <1>4
<1>6. Added(a \o b, g, i, g[i])
  <2> SUFFICES ASSUME NEW k \in 1..Len(g)
               PROVE  g[k] = IF k < i THEN (a \o b)[k] ELSE IF k = i THEN g[i] ELSE (a \o b)[k - 1]
    BY <1>5 DEF Added
  <2>1. CASE k < i
    BY <2>1, <1>1, <1>2, <1>4
  <2>2. CASE k > i
    <3>1. k - i \in 1..(Len(g) - i) /\ i + (k - i) = k /\ k - 1 \in 1..(Len(a) + Len(b))
          /\ ~(k - 1 <= Len(a)) /\ (k - 1) - Len(a) = k - i
      BY <2>2, <1>1, <1>2
    <3>2. (a \o b)[k - 1] = b[k - i]
      BY <3>1, <1>4
    <3>3. b[k - i] = g[k]
      BY <3>1, <1>2
    <3> QED BY <2>2, <3>2, <3>3
  <2>3. CASE k = i
    BY <2>3
  <2>4. k < i \/ k = i \/ k > i
    OBVIOUS
  <2> QED BY <2>1, <2>2, <2>3, <2>4, Zenon
<1> QED
  BY <1>3, <1>4, <1>6, Zenon

-----------------------------------------------------------------------------
(* The sum of a sequence *)

\* g holds the sums of the first 0, 1, ... Len(f) numbers of f.
Sums(f, g) ==
  g = [n \in 0..Len(f) |-> IF n = 0 THEN 0 ELSE g[n - 1] + f[n]]

\* The same for the first N of them.
SumsTo(f, N, g) ==
  g \in [0..N -> Int] /\ g[0] = 0 /\ \A n \in 1..N : g[n] = g[n - 1] + f[n]

\* There are partial sums.
LEMMA SumsExist ==
  ASSUME NEW f \in Seq(Int)
  PROVE  \E g : Sums(f, g)
<1> DEFINE T == {N \in Nat : N <= Len(f) => \E g : SumsTo(f, N, g)}
<1>1. Len(f) \in Nat
  OBVIOUS
<1>2. 0 \in T
  <2>1. SumsTo(f, 0, [n \in 0..0 |-> 0])
    BY DEF SumsTo
  <2> QED BY <2>1
<1>3. ASSUME NEW n \in 0..(Len(f) - 1), n \in T
      PROVE  n + 1 \in T
  <2>1. PICK g : SumsTo(f, n, g)
    BY <1>1, <1>3
  <2>2. f[n + 1] \in Int
    BY <1>1
  <2> DEFINE h == [j \in 0..(n + 1) |-> IF j = n + 1 THEN g[n] + f[n + 1] ELSE g[j]]
  <2>3. g \in [0..n -> Int] /\ g[0] = 0 /\ \A j \in 1..n : g[j] = g[j - 1] + f[j]
    BY <2>1 DEF SumsTo
  <2>4. h \in [0..(n + 1) -> Int] /\ h[0] = 0
    BY <2>2, <2>3
  <2>5. \A j \in 1..(n + 1) : h[j] = h[j - 1] + f[j]
    BY <2>3
  <2>6. SumsTo(f, n + 1, h)
    <3> HIDE DEF h
    <3> QED BY <2>4, <2>5 DEF SumsTo
  <2> HIDE DEF h
  <2> QED BY <2>6
<1>4. \A n \in 0..Len(f) : n \in T
  <2> HIDE DEF T
  <2> QED BY <1>1, <1>2, <1>3, UpTo, Zenon
<1>5. PICK g : SumsTo(f, Len(f), g)
  BY <1>1, <1>4
<1>6. g \in [0..Len(f) -> Int] /\ g[0] = 0 /\ \A n \in 1..Len(f) : g[n] = g[n - 1] + f[n]
  BY <1>5 DEF SumsTo
<1>7. \A n \in 0..Len(f) : g[n] = IF n = 0 THEN 0 ELSE g[n - 1] + f[n]
  BY <1>1, <1>6
<1>8. Sums(f, g)
  BY <1>6, <1>7, Zenon DEF Sums
<1> QED
  BY <1>8

\* What the recursive function of Total is.
LEMMA TotalIs ==
  ASSUME NEW f \in Seq(Int)
  PROVE  \E g : SumsTo(f, Len(f), g) /\ Total(f) = g[Len(f)]
<1>1. Total(f) = (CHOOSE g : Sums(f, g))[Len(f)]
  BY Zenon DEF Total, Sums
<1>2. PICK g : Sums(f, g) /\ Total(f) = g[Len(f)]
  BY <1>1, SumsExist, Zenon
<1>3. Len(f) \in Nat /\ \A n \in 1..Len(f) : f[n] \in Int
  OBVIOUS
<1>4. g[0] = 0 /\ \A n \in 1..Len(f) : g[n] = g[n - 1] + f[n]
  <2>1. \A n \in 0..Len(f) : g[n] = IF n = 0 THEN 0 ELSE g[n - 1] + f[n]
    BY <1>2, Zenon DEF Sums
  <2> QED BY <1>3, <2>1
<1> DEFINE T == {n \in Nat : n <= Len(f) => g[n] \in Int}
<1>5. 0 \in T
  BY <1>4
<1>6. ASSUME NEW n \in 0..(Len(f) - 1), n \in T
      PROVE  n + 1 \in T
  <2>1. n + 1 \in 1..Len(f) /\ (n + 1) - 1 = n /\ g[n] \in Int
    BY <1>3, <1>6
  <2>2. g[n + 1] = g[n] + f[n + 1]
    BY <1>4, <2>1
  <2> QED BY <1>3, <2>1, <2>2
<1>7. \A n \in 0..Len(f) : n \in T
  <2> HIDE DEF T
  <2> QED BY <1>3, <1>5, <1>6, UpTo, Zenon
<1>8. g \in [0..Len(f) -> Int]
  <2>1. \A n \in 0..Len(f) : g[n] \in Int
    BY <1>3, <1>7
  <2>2. g = [n \in 0..Len(f) |-> g[n]]
    BY <1>2, Zenon DEF Sums
  <2> QED BY <2>1, <2>2
<1> QED
  BY <1>2, <1>4, <1>8 DEF SumsTo

\* The sum of integers is one.
LEMMA TotalInt ==
  ASSUME NEW f \in Seq(Int)
  PROVE  Total(f) \in Int
<1>1. PICK g : SumsTo(f, Len(f), g) /\ Total(f) = g[Len(f)]
  BY TotalIs
<1>2. Len(f) \in Nat
  OBVIOUS
<1> QED
  BY <1>1, <1>2 DEF SumsTo

\* One more number in the sequence, wherever it is.
LEMMA TotalAdded ==
  ASSUME NEW f \in Seq(Int), NEW g \in Seq(Int), NEW i, NEW x \in Int, Added(f, g, i, x)
  PROVE  Total(g) = Total(f) + x
<1>1. PICK s : SumsTo(f, Len(f), s) /\ Total(f) = s[Len(f)]
  BY TotalIs
<1>2. PICK t : SumsTo(g, Len(g), t) /\ Total(g) = t[Len(g)]
  BY TotalIs
<1>3. Len(f) \in Nat /\ Len(g) = Len(f) + 1 /\ i \in 1..Len(g)
  BY DEF Added
<1>a. (\A n \in 0..Len(f) : s[n] \in Int) /\ \A n \in 1..Len(f) : s[n] = s[n - 1] + f[n]
  BY <1>1 DEF SumsTo
<1>b. \A n \in 1..Len(g) : t[n] = t[n - 1] + g[n]
  BY <1>2 DEF SumsTo
<1> DEFINE T == {n \in Nat : n <= Len(g) => t[n] = IF n < i THEN s[n] ELSE s[n - 1] + x}
<1>4. 0 \in T
  BY <1>1, <1>2, <1>3 DEF SumsTo
<1>5. ASSUME NEW n \in 0..(Len(g) - 1), n \in T
      PROVE  n + 1 \in T
  <2>1. n + 1 \in 1..Len(g) /\ (n + 1) - 1 = n /\ n \in Nat
    BY <1>3
  <2>2. t[n + 1] = t[n] + g[n + 1] /\ t[n] = IF n < i THEN s[n] ELSE s[n - 1] + x
    <3>1. n <= Len(g)
      BY <1>3
    <3> QED BY <1>b, <1>5, <2>1, <3>1
  <2>3. g[n + 1] = IF n + 1 < i THEN f[n + 1] ELSE IF n + 1 = i THEN x ELSE f[n]
    BY <2>1 DEF Added
  <2>4. s[n] \in Int
    BY <1>a, <1>3
  <2>5. CASE n + 1 < i
    <3>1. n + 1 \in 1..Len(f)
      BY <1>3, <2>5
    <3>2. s[n + 1] = s[n] + f[n + 1]
      BY <1>a, <2>1, <3>1
    <3> QED BY <1>3, <2>2, <2>3, <2>5, <3>2
  <2>6. CASE n + 1 = i
    BY <1>3, <2>2, <2>3, <2>4, <2>6
  <2>7. CASE n + 1 > i
    <3>1. n \in 1..Len(f) /\ n - 1 \in 0..Len(f) /\ ~(n < i)
      BY <1>3, <2>7
    <3>2. s[n] = s[n - 1] + f[n] /\ s[n - 1] \in Int /\ f[n] \in Int
      BY <1>a, <3>1
    <3>3. g[n + 1] = f[n] /\ t[n] = s[n - 1] + x
      BY <1>3, <2>2, <2>3, <2>7, <3>1
    <3>4. t[n + 1] = s[n] + x
      BY <2>2, <3>2, <3>3
    <3> QED BY <1>3, <2>1, <2>7, <3>4
  <2> QED BY <1>3, <2>5, <2>6, <2>7
<1>6. Len(g) \in T
  <2>1. Len(g) \in Nat /\ Len(g) \in 0..Len(g)
    BY <1>3
  <2> HIDE DEF T
  <2> QED BY <1>4, <1>5, <2>1, UpTo, Zenon
<1>7. t[Len(g)] = s[Len(g) - 1] + x
  BY <1>3, <1>6
<1> QED
  BY <1>1, <1>2, <1>3, <1>7

\* The sum of counts is a count, and 0 only if all are.
LEMMA TotalNat ==
  ASSUME NEW f \in Seq(Nat)
  PROVE  /\ Total(f) \in Nat
         /\ (\A i \in 1..Len(f) : f[i] = 0) => Total(f) = 0
<1>1. f \in Seq(Int) /\ Len(f) \in Nat
  OBVIOUS
<1>2. PICK g : SumsTo(f, Len(f), g) /\ Total(f) = g[Len(f)]
  BY <1>1, TotalIs
<1> DEFINE T == {n \in Nat : n <= Len(f) =>
                   g[n] \in Nat /\ ((\A i \in 1..Len(f) : f[i] = 0) => g[n] = 0)}
<1>3. 0 \in T
  BY <1>2 DEF SumsTo
<1>4. ASSUME NEW n \in 0..(Len(f) - 1), n \in T
      PROVE  n + 1 \in T
  <2>1. n + 1 \in 1..Len(f) /\ (n + 1) - 1 = n /\ n <= Len(f)
    BY <1>1
  <2>2. g[n + 1] = g[n] + f[n + 1] /\ f[n + 1] \in Nat
    BY <1>2, <2>1 DEF SumsTo
  <2> QED BY <1>4, <2>1, <2>2
<1>5. Len(f) \in T
  <2>1. Len(f) \in 0..Len(f)
    BY <1>1
  <2> HIDE DEF T
  <2> QED BY <1>1, <1>3, <1>4, <2>1, UpTo, Zenon
<1> QED
  BY <1>1, <1>2, <1>5

\* One number is replaced.
LEMMA TotalSet ==
  ASSUME NEW f \in Seq(Int), NEW i \in 1..Len(f), NEW x \in Int
  PROVE  Total([f EXCEPT ![i] = x]) = Total(f) - f[i] + x
<1>1. PICK h \in Seq(Int) : Added(h, f, i, f[i])
  BY RemoveAdds
<1>2. PICK g : g = [f EXCEPT ![i] = x]
  OBVIOUS
<1>3. g \in Seq(Int) /\ Len(g) = Len(f) /\ \A k \in 1..Len(f) : g[k] = IF k = i THEN x ELSE f[k]
  BY <1>2
<1>4. Added(h, g, i, x)
  <2>1. Len(f) = Len(h) + 1 /\ \A k \in 1..Len(f) :
          f[k] = IF k < i THEN h[k] ELSE IF k = i THEN f[i] ELSE h[k - 1]
    BY <1>1 DEF Added
  <2>2. ASSUME NEW k \in 1..Len(g)
        PROVE  g[k] = IF k < i THEN h[k] ELSE IF k = i THEN x ELSE h[k - 1]
    <3>1. k \in 1..Len(f)
      BY <1>3
    <3>2. g[k] = IF k = i THEN x ELSE f[k]
      BY <1>3, <3>1, Zenon
    <3>3. f[k] = IF k < i THEN h[k] ELSE IF k = i THEN f[i] ELSE h[k - 1]
      BY <2>1, <3>1, Zenon
    <3>4. CASE k = i
      BY <3>2, <3>4
    <3>5. CASE k # i
      BY <3>2, <3>3, <3>5, Zenon
    <3> QED BY <3>4, <3>5
  <2>3. Len(g) = Len(h) + 1 /\ i \in 1..Len(g)
    BY <2>1, <1>3
  <2> QED BY <2>2, <2>3, Zenon DEF Added
<1>5. f[i] \in Int
  OBVIOUS
<1>6. Total(f) = Total(h) + f[i] /\ Total(g) = Total(h) + x
  BY <1>1, <1>3, <1>4, <1>5, TotalAdded
<1>7. Total(h) \in Int
  BY <1>1, TotalInt
<1> QED
  BY <1>2, <1>5, <1>6, <1>7

\* A sum of counts is as much as any one, and any two, of them.
LEMMA TotalOne ==
  ASSUME NEW f \in Seq(Nat), NEW i \in 1..Len(f)
  PROVE  Total(f) >= f[i]
<1>1. PICK h \in Seq(Nat) : Added(h, f, i, f[i])
  BY RemoveAdds
<1>2. h \in Seq(Int) /\ f \in Seq(Int) /\ f[i] \in Nat
  OBVIOUS
<1>3. Total(f) = Total(h) + f[i]
  BY <1>1, <1>2, TotalAdded
<1>4. Total(h) \in Nat
  BY <1>1, TotalNat
<1> QED
  BY <1>2, <1>3, <1>4

\* The sum is no less than two of the numbers.
LEMMA TotalTwo ==
  ASSUME NEW f \in Seq(Nat), NEW i \in 1..Len(f), NEW j \in 1..Len(f), i < j
  PROVE  Total(f) >= f[i] + f[j]
<1>1. PICK h \in Seq(Nat) : Added(h, f, j, f[j])
  BY RemoveAdds
<1>2. h \in Seq(Int) /\ f \in Seq(Int) /\ f[i] \in Nat /\ f[j] \in Nat
  OBVIOUS
<1>3. Total(f) = Total(h) + f[j]
  BY <1>1, <1>2, TotalAdded
<1>4. i \in 1..Len(h) /\ f[i] = h[i]
  BY <1>1 DEF Added
<1>5. Total(h) >= h[i] /\ Total(h) \in Nat
  BY <1>1, <1>4, TotalOne, TotalNat
<1> QED
  BY <1>2, <1>3, <1>4, <1>5

-----------------------------------------------------------------------------
(* One cache.  What the rest of the allocator sees of a cache is the set of its *)
(* objects in use and, for each of its slabs, the page and the two objects that *)
(* hold its structures.                                                         *)

Back(s) == [page |-> s.page, desc |-> s.desc, map |-> s.map]
Backs(k) == {Back(k.pool[i]) : i \in 1..Len(k.pool)}
First(k) == Back(k.pool[1])
PagesOf(B) == {b.page : b \in B}
Objects(k) ==
  {a \in Addresses : \E i \in 1..Len(k.pool) : k.pool[i].page = a.page /\ a.index \in k.pool[i].bits}

\* A slab of n objects, whose using_count started at off.
SlabOK(s, n, off) ==
  /\ s \in Slabs /\ s.color_count = n
  /\ s.bits \subseteq 0..(n - 1)
  /\ s.free_count = n - Cardinality(s.bits)
  /\ s.using_count = Cardinality(s.bits) + off

\* What the first and what any other slab has.
Nth(i, x, y) == IF i = 1 THEN x ELSE y

\* hc, mc: the objects of the first slab and of any other; off: see SlabOK.
CacheBase(k, hc, mc, off) ==
  /\ k \in CacheType /\ k.pool # <<>>
  /\ \A i \in 1..Len(k.pool) : SlabOK(k.pool[i], Nth(i, hc, mc), Nth(i, off, 0))
  /\ OnePageEach(k)
  /\ k.total_free = Total(FreeCounts(k))
  /\ k.total_using + off = Total(UsingCounts(k))

CacheOK(k, hc, mc, off) == CacheBase(k, hc, mc, off) /\ OneSpare(k)

\* What the counts of a slab say about its bitmap.
LEMMA SlabCounts ==
  ASSUME NEW s, NEW n \in Nat, NEW off \in Nat, SlabOK(s, n, off)
  PROVE  /\ IsFiniteSet(s.bits) /\ Cardinality(s.bits) \in Nat
         /\ Cardinality(s.bits) = 0 <=> s.bits = {}
         /\ s.free_count \in Nat /\ s.using_count \in Nat
         /\ s.free_count # 0 => Clear(s) # {}
         /\ s.free_count = 0 /\ n # 0 => s.bits # {}
<1>1. IsFiniteSet(0..(n - 1)) /\ Cardinality(0..(n - 1)) = n
  <2>1. n - 1 \in Int /\ 0 \in Int
    OBVIOUS
  <2>2. IsFiniteSet(0..(n - 1)) /\ Cardinality(0..(n - 1)) = IF 0 > n - 1 THEN 0 ELSE (n - 1) - 0 + 1
    BY <2>1, FS_Interval, Zenon
  <2> QED BY <2>2
<1>2. s.bits \subseteq 0..(n - 1) /\ s.color_count = n /\ s.free_count = n - Cardinality(s.bits)
      /\ s.using_count = Cardinality(s.bits) + off
  BY DEF SlabOK
<1>3. IsFiniteSet(s.bits) /\ Cardinality(s.bits) <= n
      /\ (Cardinality(s.bits) = n => s.bits = 0..(n - 1))
  BY <1>1, <1>2, FS_Subset
<1>4. Cardinality(s.bits) \in Nat
  BY <1>3, FS_CardinalityType
<1>5. Cardinality(s.bits) = 0 <=> s.bits = {}
  BY <1>3, FS_EmptySet
<1>6. s.free_count # 0 => Clear(s) # {}
  <2> SUFFICES ASSUME Clear(s) = {} PROVE s.free_count = 0
    OBVIOUS
  <2>1. s.bits = 0..(n - 1)
    BY <1>2 DEF Clear
  <2> QED BY <1>1, <1>2, <2>1
<1> QED
  BY <1>2, <1>3, <1>4, <1>5, <1>6

\* The pages of a cache are those of its slabs.
LEMMA CachePages ==
  ASSUME NEW k, NEW p
  PROVE  p \in PagesOf(Backs(k)) <=> \E i \in 1..Len(k.pool) : k.pool[i].page = p
<1>1. \A i \in 1..Len(k.pool) : Back(k.pool[i]) \in Backs(k) /\ Back(k.pool[i]).page = k.pool[i].page
  BY DEF Backs, Back
<1>2. ASSUME p \in PagesOf(Backs(k)) PROVE \E i \in 1..Len(k.pool) : k.pool[i].page = p
  <2>1. PICK b \in Backs(k) : p = b.page
    BY <1>2 DEF PagesOf
  <2>2. PICK i \in 1..Len(k.pool) : b = Back(k.pool[i])
    BY DEF Backs
  <2> QED BY <1>1, <2>1, <2>2
<1>3. ASSUME NEW i \in 1..Len(k.pool), k.pool[i].page = p PROVE p \in PagesOf(Backs(k))
  BY <1>1, <1>3 DEF PagesOf
<1> QED
  BY <1>2, <1>3

\* The parameters a cache is built with.
Params(hc, mc, off) == hc \in Nat \ {0} /\ mc \in Nat \ {0} /\ off \in Nat

\* What a cache in order gives the provers: types, and counts that are numbers.
LEMMA CacheFacts ==
  ASSUME NEW k, NEW hc, NEW mc, NEW off, Params(hc, mc, off), CacheBase(k, hc, mc, off)
  PROVE  /\ k \in CacheType /\ Len(k.pool) \in Nat /\ 1 \in 1..Len(k.pool)
         /\ \A i \in 1..Len(k.pool) : Nth(i, hc, mc) \in Nat \ {0} /\ Nth(i, off, 0) \in Nat
         /\ FreeCounts(k) \in Seq(Nat) /\ Len(FreeCounts(k)) = Len(k.pool)
         /\ UsingCounts(k) \in Seq(Nat) /\ Len(UsingCounts(k)) = Len(k.pool)
<1>1. k \in CacheType /\ k.pool \in Seq(Slabs) /\ k.pool # <<>>
  BY DEF CacheBase, CacheType
<1>2. Len(k.pool) \in Nat /\ 1 \in 1..Len(k.pool)
  BY <1>1
<1>3. \A i \in 1..Len(k.pool) : Nth(i, hc, mc) \in Nat \ {0} /\ Nth(i, off, 0) \in Nat
  BY DEF Params, Nth
<1>4. \A i \in 1..Len(k.pool) : k.pool[i].free_count \in Nat /\ k.pool[i].using_count \in Nat
  BY <1>3, SlabCounts DEF CacheBase
<1> QED
  BY <1>1, <1>2, <1>3, <1>4 DEF FreeCounts, UsingCounts

\* The page names the slab.
LEMMA BacksApart ==
  ASSUME NEW k, NEW hc, NEW mc, NEW off, CacheBase(k, hc, mc, off)
  PROVE  /\ \A b, e \in Backs(k) : b.page = e.page => b = e
         /\ PagesOf(Backs(k)) \subseteq Pages
<1>1. OnePageEach(k) /\ \A i \in 1..Len(k.pool) : k.pool[i] \in Slabs
  BY DEF CacheBase, SlabOK
<1>2. ASSUME NEW b \in Backs(k), NEW e \in Backs(k), b.page = e.page PROVE b = e
  <2>1. PICK i \in 1..Len(k.pool) : b = Back(k.pool[i])
    BY DEF Backs
  <2>2. PICK j \in 1..Len(k.pool) : e = Back(k.pool[j])
    BY DEF Backs
  <2>3. k.pool[i].page = k.pool[j].page
    BY <1>2, <2>1, <2>2 DEF Back
  <2> QED BY <1>1, <2>1, <2>2, <2>3 DEF OnePageEach
<1>3. ASSUME NEW p \in PagesOf(Backs(k)) PROVE p \in Pages
  <2>1. PICK i \in 1..Len(k.pool) : k.pool[i].page = p
    BY CachePages
  <2> QED BY <1>1, <2>1 DEF Slabs
<1> QED
  BY <1>2, <1>3

\* Slab i becomes s: d of its objects more are free.
Changed(k, k2, i, s, d) ==
  /\ k2 = [pool |-> [k.pool EXCEPT ![i] = s], total_free |-> k.total_free + d,
           total_using |-> k.total_using - d]
  /\ Back(s) = Back(k.pool[i])
  /\ s.free_count = k.pool[i].free_count + d /\ s.using_count = k.pool[i].using_count - d

\* Such a change, to a slab in order, leaves the cache in order.
LEMMA ChangedOK ==
  ASSUME NEW k, NEW hc, NEW mc, NEW off, Params(hc, mc, off), CacheBase(k, hc, mc, off),
         NEW i \in 1..Len(k.pool), NEW s, SlabOK(s, Nth(i, hc, mc), Nth(i, off, 0)),
         NEW d \in Int, NEW k2, Changed(k, k2, i, s, d)
  PROVE  /\ CacheBase(k2, hc, mc, off)
         /\ Len(k2.pool) = Len(k.pool)
         /\ \A j \in 1..Len(k.pool) : k2.pool[j] = (IF j = i THEN s ELSE k.pool[j])
         /\ \A j \in 1..Len(k.pool) : Back(k2.pool[j]) = Back(k.pool[j])
         /\ Backs(k2) = Backs(k) /\ First(k2) = First(k)
         /\ k2.total_using = k.total_using - d
<1>1. /\ k \in CacheType /\ Len(k.pool) \in Nat /\ 1 \in 1..Len(k.pool)
      /\ FreeCounts(k) \in Seq(Nat) /\ Len(FreeCounts(k)) = Len(k.pool)
      /\ UsingCounts(k) \in Seq(Nat) /\ Len(UsingCounts(k)) = Len(k.pool)
  BY CacheFacts
<1>2. k.pool \in Seq(Slabs) /\ k.total_free \in Int /\ k.total_using \in Int /\ s \in Slabs
  BY <1>1 DEF CacheType, SlabOK
<1>3. /\ k2.pool = [k.pool EXCEPT ![i] = s] /\ k2.total_free = k.total_free + d
      /\ k2.total_using = k.total_using - d
      /\ k2 = [pool |-> k2.pool, total_free |-> k2.total_free, total_using |-> k2.total_using]
  BY DEF Changed
<1>4. /\ k2.pool \in Seq(Slabs) /\ Len(k2.pool) = Len(k.pool)
      /\ \A j \in 1..Len(k.pool) : k2.pool[j] = (IF j = i THEN s ELSE k.pool[j])
  BY <1>2, <1>3
<1>5. k2 \in CacheType
  <2>1. PICK f, x, y : f = k2.pool /\ x = k2.total_free /\ y = k2.total_using
    OBVIOUS
  <2>2. f \in Seq(Slabs) /\ x \in Int /\ y \in Int
    BY <1>2, <1>3, <1>4, <2>1
  <2>3. k2 = [pool |-> f, total_free |-> x, total_using |-> y]
    BY <1>3, <2>1
  <2> QED BY <2>2, <2>3 DEF CacheType
<1>6. \A j \in 1..Len(k.pool) : Back(k2.pool[j]) = Back(k.pool[j])
  BY <1>4 DEF Changed
<1>7. \A j \in 1..Len(k.pool) : k2.pool[j].page = k.pool[j].page
  BY <1>6 DEF Back
<1>8. OnePageEach(k2)
  BY <1>4, <1>7 DEF OnePageEach, CacheBase
<1>9. \A j \in 1..Len(k2.pool) : SlabOK(k2.pool[j], Nth(j, hc, mc), Nth(j, off, 0))
  BY <1>4 DEF CacheBase
<1>10. k2.pool # <<>>
  BY <1>1, <1>4
<1>11. Backs(k2) = Backs(k) /\ First(k2) = First(k)
  BY <1>1, <1>4, <1>6 DEF Backs, First
<1>14. k.pool[i] \in Slabs
  BY <1>2
<1>12. k2.total_free = Total(FreeCounts(k2))
  <2>1. FreeCounts(k2) = [FreeCounts(k) EXCEPT ![i] = s.free_count]
    BY <1>1, <1>4 DEF FreeCounts
  <2>2. FreeCounts(k)[i] = k.pool[i].free_count /\ k.pool[i].free_count \in Int
        /\ s.free_count = k.pool[i].free_count + d
    <3>1. k.pool[i].free_count \in Int
      BY <1>14 DEF Slabs
    <3>2. FreeCounts(k)[i] = k.pool[i].free_count
      BY DEF FreeCounts
    <3> QED BY <3>1, <3>2 DEF Changed
  <2>3. FreeCounts(k) \in Seq(Int) /\ i \in 1..Len(FreeCounts(k)) /\ s.free_count \in Int
    <3>1. \A f \in Seq(Nat) : f \in Seq(Int)
      OBVIOUS
    <3>2. FreeCounts(k) \in Seq(Int)
      BY <1>1, <3>1, Zenon
    <3>3. s.free_count \in Int
      BY <2>2
    <3> QED BY <1>1, <3>2, <3>3, Zenon
  <2>4. Total(FreeCounts(k2)) = Total(FreeCounts(k)) - FreeCounts(k)[i] + s.free_count
    <3>1. PICK f, x : f = FreeCounts(k) /\ x = s.free_count
      OBVIOUS
    <3>2. Total([f EXCEPT ![i] = x]) = Total(f) - f[i] + x
      BY <2>3, <3>1, TotalSet
    <3> QED BY <2>1, <3>1, <3>2
  <2>5. k.total_free = Total(FreeCounts(k))
    BY DEF CacheBase
  <2> QED BY <1>2, <1>3, <2>2, <2>4, <2>5
<1>13. k2.total_using + off = Total(UsingCounts(k2))
  <2>1. UsingCounts(k2) = [UsingCounts(k) EXCEPT ![i] = s.using_count]
    BY <1>1, <1>4 DEF UsingCounts
  <2>2. UsingCounts(k)[i] = k.pool[i].using_count /\ k.pool[i].using_count \in Int
        /\ s.using_count = k.pool[i].using_count - d
    <3>1. k.pool[i].using_count \in Int
      BY <1>14 DEF Slabs
    <3>2. UsingCounts(k)[i] = k.pool[i].using_count
      BY DEF UsingCounts
    <3> QED BY <3>1, <3>2 DEF Changed
  <2>3. UsingCounts(k) \in Seq(Int) /\ i \in 1..Len(UsingCounts(k)) /\ s.using_count \in Int
    <3>1. \A f \in Seq(Nat) : f \in Seq(Int)
      OBVIOUS
    <3>2. UsingCounts(k) \in Seq(Int)
      BY <1>1, <3>1, Zenon
    <3>3. s.using_count \in Int
      BY <2>2
    <3> QED BY <1>1, <3>2, <3>3, Zenon
  <2>4. Total(UsingCounts(k2)) = Total(UsingCounts(k)) - UsingCounts(k)[i] + s.using_count
    <3>1. PICK f, x : f = UsingCounts(k) /\ x = s.using_count
      OBVIOUS
    <3>2. Total([f EXCEPT ![i] = x]) = Total(f) - f[i] + x
      BY <2>3, <3>1, TotalSet
    <3> QED BY <2>1, <3>1, <3>2
  <2>5. k.total_using + off = Total(UsingCounts(k)) /\ off \in Int
    BY DEF CacheBase, Params
  <2> QED BY <1>2, <1>3, <2>2, <2>4, <2>5
<1> QED
  BY <1>3, <1>4, <1>5, <1>6, <1>8, <1>9, <1>10, <1>11, <1>12, <1>13 DEF CacheBase

\* k2 has one object in use that k has not.
Gives(k, k2, a) ==
  /\ Backs(k2) = Backs(k) /\ First(k2) = First(k)
  /\ a \in Addresses \ Objects(k) /\ Objects(k2) = Objects(k) \cup {a}
  /\ k2.total_using = k.total_using + 1

\* Setting the first clear bit of a slab that has one.
LEMMA TakeOK ==
  ASSUME NEW k, NEW hc, NEW mc, NEW off, Params(hc, mc, off), CacheOK(k, hc, mc, off),
         NEW i \in 1..Len(k.pool), Clear(k.pool[i]) # {}
  PROVE  /\ CacheOK(Take(k, i), hc, mc, off)
         /\ Gives(k, Take(k, i), FirstObject(k.pool[i]))
<1> DEFINE t == k.pool[i]
           N == Nth(i, hc, mc)
           O == Nth(i, off, 0)
<1>1. CacheBase(k, hc, mc, off) /\ OneSpare(k)
  BY DEF CacheOK
<1>2. k \in CacheType /\ Len(k.pool) \in Nat /\ N \in Nat /\ O \in Nat
  BY <1>1, CacheFacts
<1>3. SlabOK(t, N, O) /\ OnePageEach(k)
  BY <1>1 DEF CacheBase
<1>4. t \in Slabs /\ t.color_count = N /\ t.bits \subseteq 0..(N - 1)
      /\ t.free_count = N - Cardinality(t.bits) /\ t.using_count = Cardinality(t.bits) + O
  BY <1>3 DEF SlabOK
<1>5. IsFiniteSet(t.bits) /\ Cardinality(t.bits) \in Nat
  BY <1>2, <1>3, SlabCounts
<1>6. PICK x : x = Least(Clear(t))
  OBVIOUS
<1>7. x \in 0..(N - 1) /\ x \notin t.bits /\ x \in Nat
  <2>1. Clear(t) \subseteq Nat
    BY <1>2, <1>4 DEF Clear
  <2>2. x \in Clear(t)
    BY <1>6, <2>1, LeastIn
  <2> QED BY <1>2, <1>4, <2>2 DEF Clear
<1>8. PICK s : s = SetBit(t) /\ s = [t EXCEPT !.bits = @ \cup {x}, !.using_count = @ + 1, !.free_count = @ - 1]
  BY <1>6 DEF SetBit
<1> HIDE DEF t, N, O
<1>9. /\ s.page = t.page /\ s.desc = t.desc /\ s.map = t.map /\ s.color_count = t.color_count
      /\ s.bits = t.bits \cup {x} /\ s.using_count = t.using_count + 1
      /\ s.free_count = t.free_count - 1
  BY <1>4, <1>8 DEF Slabs
<1>10. s \in Slabs
  <2>1. t.bits \cup {x} \in SUBSET Nat /\ t.using_count + 1 \in Int /\ t.free_count - 1 \in Int
    BY <1>4, <1>7 DEF Slabs
  <2>2. s = [page |-> t.page, bits |-> t.bits \cup {x}, using_count |-> t.using_count + 1,
             free_count |-> t.free_count - 1, color_count |-> t.color_count, desc |-> t.desc, map |-> t.map]
    BY <1>4, <1>8 DEF Slabs
  <2> QED BY <1>4, <2>1, <2>2 DEF Slabs
<1>11. Cardinality(s.bits) = Cardinality(t.bits) + 1
  <2>1. Cardinality(t.bits \cup {x}) = IF x \in t.bits THEN Cardinality(t.bits) ELSE Cardinality(t.bits) + 1
    BY <1>5, FS_AddElement, Zenon
  <2> QED BY <1>7, <1>9, <2>1, Zenon
<1>12. SlabOK(s, N, O)
  <2>1. PICK q \in Nat : q = Cardinality(t.bits)
    BY <1>5
  <2>2. s.color_count = N /\ s.bits \subseteq 0..(N - 1)
    BY <1>4, <1>7, <1>9
  <2>3. t.free_count = N - q /\ t.using_count = q + O /\ Cardinality(s.bits) = q + 1
    BY <1>4, <1>11, <2>1
  <2>4. s.free_count = N - Cardinality(s.bits) /\ s.using_count = Cardinality(s.bits) + O
    BY <1>2, <1>9, <2>3
  <2> QED BY <1>10, <2>2, <2>4 DEF SlabOK
<1>13. Changed(k, Take(k, i), i, s, -1)
  <2>1. Back(s) = Back(k.pool[i])
    BY <1>9 DEF Back, t
  <2>2. s.free_count = k.pool[i].free_count + (-1) /\ s.using_count = k.pool[i].using_count - (-1)
    BY <1>4, <1>9 DEF t, Slabs
  <2>3. k.total_free \in Int /\ k.total_using \in Int
    BY <1>2 DEF CacheType
  <2>4. Take(k, i) = [pool |-> [k.pool EXCEPT ![i] = s], total_free |-> k.total_free - 1,
                      total_using |-> k.total_using + 1]
    <3>1. s = SetBit(k.pool[i])
      BY <1>8 DEF t
    <3>2. Take(k, i) = [k EXCEPT !.pool = [k.pool EXCEPT ![i] = s], !.total_free = k.total_free - 1,
                                 !.total_using = k.total_using + 1]
      BY <3>1, Zenon DEF Take
    <3> QED
      <4>1. PICK P, F, U : P = [k.pool EXCEPT ![i] = s] /\ F = k.total_free - 1 /\ U = k.total_using + 1
        OBVIOUS
      <4>2. Take(k, i) = [k EXCEPT !.pool = P, !.total_free = F, !.total_using = U]
        BY <3>2, <4>1, Zenon
      <4>3. Take(k, i) = [pool |-> P, total_free |-> F, total_using |-> U]
        BY <1>2, <4>2 DEF CacheType
      <4> QED BY <4>1, <4>3, Zenon
  <2>5. Take(k, i) = [pool |-> [k.pool EXCEPT ![i] = s], total_free |-> k.total_free + (-1),
                      total_using |-> k.total_using - (-1)]
    <3>1. k.total_free + (-1) = k.total_free - 1 /\ k.total_using - (-1) = k.total_using + 1
      BY <2>3
    <3> QED BY <2>4, <3>1, Zenon
  <2> QED BY <2>1, <2>2, <2>5 DEF Changed
<1>14. PICK k2 : k2 = Take(k, i)
  OBVIOUS
<1>15. /\ CacheBase(k2, hc, mc, off)
       /\ Len(k2.pool) = Len(k.pool)
       /\ \A j \in 1..Len(k.pool) : k2.pool[j] = (IF j = i THEN s ELSE k.pool[j])
       /\ Backs(k2) = Backs(k) /\ First(k2) = First(k)
       /\ k2.total_using = k.total_using - (-1)
  BY <1>1, <1>12, <1>13, <1>14, ChangedOK DEF N, O
<1>16. \A j \in 1..Len(k.pool) : k2.pool[j].page = k.pool[j].page /\ k.pool[j].bits \subseteq k2.pool[j].bits
  BY <1>9, <1>15 DEF t
<1>17. OneSpare(k2)
  <2> SUFFICES ASSUME NEW j \in 2..Len(k2.pool), NEW n \in 2..Len(k2.pool),
                      k2.pool[j].bits = {}, k2.pool[n].bits = {}
               PROVE  j = n
    BY DEF OneSpare
  <2>1. j \in 2..Len(k.pool) /\ n \in 2..Len(k.pool) /\ j \in 1..Len(k.pool) /\ n \in 1..Len(k.pool)
    BY <1>2, <1>15
  <2>2. k.pool[j].bits = {} /\ k.pool[n].bits = {}
    BY <1>16, <2>1
  <2> QED BY <1>1, <2>1, <2>2 DEF OneSpare
<1>18. PICK a : a = [page |-> t.page, index |-> x]
  OBVIOUS
<1>19. a = FirstObject(k.pool[i]) /\ a \in Addresses /\ a.page = t.page /\ a.index = x
  BY <1>4, <1>6, <1>7, <1>18 DEF FirstObject, t, Addresses, Slabs
<1>20. a \notin Objects(k)
  BY <1>3, <1>7, <1>19 DEF Objects, OnePageEach, t
<1>21. Objects(k2) = Objects(k) \cup {a}
  <2>1. ASSUME NEW e \in Addresses
        PROVE  e \in Objects(k2) <=> e \in Objects(k) \/ e = a
    <3>1. e = a <=> e.page = t.page /\ e.index = x
      BY <1>18 DEF Addresses
    <3>2. e \in Objects(k2) <=> \E j \in 1..Len(k.pool) : k.pool[j].page = e.page /\ e.index \in k2.pool[j].bits
      BY <1>15, <1>16 DEF Objects
    <3>3. \A j \in 1..Len(k.pool) : e.index \in k2.pool[j].bits
            <=> e.index \in k.pool[j].bits \/ (j = i /\ e.index = x)
      BY <1>9, <1>15 DEF t
    <3> QED BY <3>1, <3>2, <3>3 DEF Objects, t
  <2> QED BY <1>19, <2>1 DEF Objects
<1>22. k2.total_using = k.total_using + 1
  BY <1>2, <1>15 DEF CacheType
<1> QED
  BY <1>14, <1>15, <1>17, <1>19, <1>20, <1>21, <1>22 DEF CacheOK, Gives

\* While total_free is not 0 the search ends at a slab with a free object.
LEMMA SearchOK ==
  ASSUME NEW k, NEW hc, NEW mc, NEW off, Params(hc, mc, off), CacheOK(k, hc, mc, off),
         k.total_free # 0
  PROVE  SearchSlab(k) \in 1..Len(k.pool) /\ Clear(k.pool[SearchSlab(k)]) # {}
<1>1. CacheBase(k, hc, mc, off)
  BY DEF CacheOK
<1>2. /\ Len(k.pool) \in Nat
      /\ \A i \in 1..Len(k.pool) : Nth(i, hc, mc) \in Nat /\ Nth(i, off, 0) \in Nat
      /\ FreeCounts(k) \in Seq(Nat) /\ Len(FreeCounts(k)) = Len(k.pool)
  BY <1>1, CacheFacts
<1> DEFINE ready == {i \in 1..Len(k.pool) : k.pool[i].free_count # 0}
<1>3. ready # {}
  <2> SUFFICES ASSUME \A i \in 1..Len(k.pool) : k.pool[i].free_count = 0 PROVE FALSE
    OBVIOUS
  <2>1. \A i \in 1..Len(FreeCounts(k)) : FreeCounts(k)[i] = 0
    BY <1>2 DEF FreeCounts
  <2>2. Total(FreeCounts(k)) = 0
    BY <1>2, <2>1, TotalNat
  <2> QED BY <1>1, <2>2 DEF CacheBase
<1>4. ready \subseteq Nat
  OBVIOUS
<1>5. Least(ready) \in ready /\ SearchSlab(k) = Least(ready)
  <2>1. SearchSlab(k) = Least(ready)
    BY <1>3 DEF SearchSlab
  <2> HIDE DEF ready
  <2> QED BY <1>3, <1>4, <2>1, LeastIn
<1>6. PICK i : i = SearchSlab(k)
  OBVIOUS
<1>7. i \in 1..Len(k.pool) /\ k.pool[i].free_count # 0
  BY <1>5, <1>6
<1>8. SlabOK(k.pool[i], Nth(i, hc, mc), Nth(i, off, 0))
  BY <1>1, <1>7 DEF CacheBase
<1>9. Clear(k.pool[i]) # {}
  BY <1>2, <1>7, <1>8, SlabCounts
<1> QED
  BY <1>6, <1>7, <1>9

\* Where the slab at j is found after one was linked at i.
Shift(i, j) == IF j < i THEN j ELSE j + 1

\* k2 is k with slab s at place i of its list; the first slab stays the first.
Joined(k, k2, i, s) ==
  /\ k.pool \in Seq(Slabs) /\ k.pool # <<>> /\ k2.pool \in Seq(Slabs)
  /\ Added(k.pool, k2.pool, i, s) /\ i # 1

\* Where the slabs are then.
LEMMA JoinedSlabs ==
  ASSUME NEW k, NEW k2, NEW i, NEW s, Joined(k, k2, i, s)
  PROVE  /\ Len(k.pool) \in Nat /\ 1 \in 1..Len(k.pool) /\ Len(k2.pool) = Len(k.pool) + 1
         /\ i \in 2..Len(k2.pool) /\ k2.pool[i] = s /\ s \in Slabs
         /\ \A j \in 1..Len(k.pool) :
              Shift(i, j) \in 1..Len(k2.pool) /\ Shift(i, j) # i /\ k2.pool[Shift(i, j)] = k.pool[j]
         /\ \A n \in 1..Len(k2.pool) : n # i => \E j \in 1..Len(k.pool) : n = Shift(i, j)
         /\ \A j, n \in 1..Len(k.pool) : Shift(i, j) = Shift(i, n) => j = n
         /\ \A j \in 1..Len(k.pool) : Shift(i, j) = 1 <=> j = 1
<1>1. Len(k.pool) \in Nat /\ Len(k.pool) # 0 /\ Len(k2.pool) = Len(k.pool) + 1 /\ i \in 2..Len(k2.pool)
  BY DEF Joined, Added
<1>2. \A n \in 1..Len(k2.pool) :
        k2.pool[n] = IF n < i THEN k.pool[n] ELSE IF n = i THEN s ELSE k.pool[n - 1]
  BY DEF Joined, Added
<1>3. k2.pool[i] = s /\ s \in Slabs
  <2>1. k2.pool[i] = s
    BY <1>1, <1>2
  <2> QED BY <1>1, <2>1 DEF Joined
<1>4. ASSUME NEW j \in 1..Len(k.pool)
      PROVE  Shift(i, j) \in 1..Len(k2.pool) /\ Shift(i, j) # i /\ k2.pool[Shift(i, j)] = k.pool[j]
  <2>1. CASE j < i
    BY <1>1, <1>2, <2>1 DEF Shift
  <2>2. CASE ~(j < i)
    <3>1. Shift(i, j) = j + 1 /\ j + 1 \in 1..Len(k2.pool) /\ ~(j + 1 < i) /\ j + 1 # i /\ (j + 1) - 1 = j
      BY <1>1, <2>2 DEF Shift
    <3>2. k2.pool[j + 1] = k.pool[(j + 1) - 1]
      BY <1>2, <3>1, Zenon
    <3> QED BY <3>1, <3>2
  <2> QED BY <2>1, <2>2
<1>5. ASSUME NEW n \in 1..Len(k2.pool), n # i
      PROVE  \E j \in 1..Len(k.pool) : n = Shift(i, j)
  <2>1. CASE n < i
    BY <1>1, <2>1 DEF Shift
  <2>2. CASE n > i
    <3>1. n - 1 \in 1..Len(k.pool) /\ n = Shift(i, n - 1)
      BY <1>1, <2>2 DEF Shift
    <3> QED BY <3>1
  <2> QED BY <1>1, <1>5, <2>1, <2>2
<1>6. \A j, n \in 1..Len(k.pool) : Shift(i, j) = Shift(i, n) => j = n
  BY <1>1 DEF Shift
<1>7. \A j \in 1..Len(k.pool) : Shift(i, j) = 1 <=> j = 1
  BY <1>1 DEF Shift
<1> QED
  BY <1>1, <1>3, <1>4, <1>5, <1>6, <1>7

\* What the rest of the allocator sees of it, and the sums of the counters.
LEMMA JoinedOK ==
  ASSUME NEW k, NEW k2, NEW i, NEW s, Joined(k, k2, i, s)
  PROVE  /\ Backs(k2) = Backs(k) \cup {Back(s)} /\ First(k2) = First(k)
         /\ s.bits = {} => Objects(k2) = Objects(k)
         /\ Total(FreeCounts(k2)) = Total(FreeCounts(k)) + s.free_count
         /\ Total(UsingCounts(k2)) = Total(UsingCounts(k)) + s.using_count
<1>1. /\ Len(k.pool) \in Nat /\ 1 \in 1..Len(k.pool) /\ Len(k2.pool) = Len(k.pool) + 1
      /\ i \in 2..Len(k2.pool) /\ k2.pool[i] = s /\ s \in Slabs
  BY JoinedSlabs
<1>2. \A j \in 1..Len(k.pool) :
        Shift(i, j) \in 1..Len(k2.pool) /\ Shift(i, j) # i /\ k2.pool[Shift(i, j)] = k.pool[j]
  BY JoinedSlabs
<1>3. \A n \in 1..Len(k2.pool) : n # i => \E j \in 1..Len(k.pool) : n = Shift(i, j)
  BY JoinedSlabs
<1>4. i \in 1..Len(k2.pool)
  BY <1>1
<1>5. First(k2) = First(k)
  <2>1. Shift(i, 1) = 1
    BY <1>1 DEF Shift
  <2> QED BY <1>1, <1>2, <2>1 DEF First
<1>6. Backs(k2) = Backs(k) \cup {Back(s)}
  <2>1. ASSUME NEW b \in Backs(k2) PROVE b \in Backs(k) \cup {Back(s)}
    <3>1. PICK n \in 1..Len(k2.pool) : b = Back(k2.pool[n])
      BY DEF Backs
    <3>2. CASE n = i
      BY <1>1, <3>1, <3>2
    <3>3. CASE n # i
      <4>1. PICK j \in 1..Len(k.pool) : n = Shift(i, j)
        BY <1>3, <3>3
      <4> QED BY <1>2, <3>1, <4>1 DEF Backs
    <3> QED BY <3>2, <3>3
  <2>2. ASSUME NEW b \in Backs(k) PROVE b \in Backs(k2)
    <3>1. PICK j \in 1..Len(k.pool) : b = Back(k.pool[j])
      BY DEF Backs
    <3> QED BY <1>2, <3>1 DEF Backs
  <2>3. Back(s) \in Backs(k2)
    BY <1>1, <1>4 DEF Backs
  <2> QED BY <2>1, <2>2, <2>3
<1>7. ASSUME s.bits = {} PROVE Objects(k2) = Objects(k)
  <2>1. ASSUME NEW a \in Objects(k2) PROVE a \in Objects(k)
    <3>1. PICK n \in 1..Len(k2.pool) : k2.pool[n].page = a.page /\ a.index \in k2.pool[n].bits
      BY DEF Objects
    <3>2. n # i
      BY <1>1, <1>7, <3>1
    <3>3. PICK j \in 1..Len(k.pool) : n = Shift(i, j)
      BY <1>3, <3>2
    <3> QED BY <1>2, <3>1, <3>3 DEF Objects
  <2>2. ASSUME NEW a \in Objects(k) PROVE a \in Objects(k2)
    <3>1. PICK j \in 1..Len(k.pool) : k.pool[j].page = a.page /\ a.index \in k.pool[j].bits
      BY DEF Objects
    <3> QED BY <1>2, <3>1 DEF Objects
  <2> QED BY <2>1, <2>2
<1>8. /\ FreeCounts(k) \in Seq(Int) /\ UsingCounts(k) \in Seq(Int)
      /\ FreeCounts(k2) \in Seq(Int) /\ UsingCounts(k2) \in Seq(Int)
      /\ Len(FreeCounts(k)) = Len(k.pool) /\ Len(FreeCounts(k2)) = Len(k2.pool)
      /\ Len(UsingCounts(k)) = Len(k.pool) /\ Len(UsingCounts(k2)) = Len(k2.pool)
  <2>1. \A j \in 1..Len(k.pool) : k.pool[j].free_count \in Int /\ k.pool[j].using_count \in Int
    <3>1. \A j \in 1..Len(k.pool) : k.pool[j] \in Slabs
      BY DEF Joined
    <3> QED BY <3>1 DEF Slabs
  <2>2. \A j \in 1..Len(k2.pool) : k2.pool[j].free_count \in Int /\ k2.pool[j].using_count \in Int
    <3>1. \A j \in 1..Len(k2.pool) : k2.pool[j] \in Slabs
      BY DEF Joined
    <3> QED BY <3>1 DEF Slabs
  <2> QED BY <1>1, <2>1, <2>2 DEF FreeCounts, UsingCounts
<1>9. s.free_count \in Int /\ s.using_count \in Int
  BY <1>1 DEF Slabs
<1>10. \A n \in 1..Len(k2.pool) :
        k2.pool[n] = IF n < i THEN k.pool[n] ELSE IF n = i THEN s ELSE k.pool[n - 1]
  BY DEF Joined, Added
<1>11. Added(FreeCounts(k), FreeCounts(k2), i, s.free_count)
  <2>1. ASSUME NEW n \in 1..Len(k2.pool)
        PROVE  FreeCounts(k2)[n] = IF n < i THEN FreeCounts(k)[n] ELSE IF n = i THEN s.free_count ELSE FreeCounts(k)[n - 1]
    <3>1. FreeCounts(k2)[n] = k2.pool[n].free_count
      BY DEF FreeCounts
    <3>2. CASE n < i
      <4>1. n \in 1..Len(k.pool)
        BY <1>1, <3>2
      <4>2. FreeCounts(k)[n] = k.pool[n].free_count
        BY <4>1 DEF FreeCounts
      <4> QED BY <1>10, <3>1, <3>2, <4>2
    <3>3. CASE n = i
      BY <1>1, <3>1, <3>3
    <3>4. CASE n > i
      <4>1. n - 1 \in 1..Len(k.pool) /\ ~(n < i) /\ n # i
        BY <1>1, <3>4
      <4>2. FreeCounts(k)[n - 1] = k.pool[n - 1].free_count
        BY <4>1 DEF FreeCounts
      <4>3. k2.pool[n] = k.pool[n - 1]
        BY <1>10, <4>1, Zenon
      <4> QED BY <3>1, <4>1, <4>2, <4>3, Zenon
    <3>5. n < i \/ n = i \/ n > i
      BY <1>1
    <3> QED BY <3>2, <3>3, <3>4, <3>5
  <2> QED BY <1>1, <1>4, <1>8, <2>1 DEF Added
<1>12. Added(UsingCounts(k), UsingCounts(k2), i, s.using_count)
  <2>1. ASSUME NEW n \in 1..Len(k2.pool)
        PROVE  UsingCounts(k2)[n] = IF n < i THEN UsingCounts(k)[n] ELSE IF n = i THEN s.using_count ELSE UsingCounts(k)[n - 1]
    <3>1. UsingCounts(k2)[n] = k2.pool[n].using_count
      BY DEF UsingCounts
    <3>2. CASE n < i
      <4>1. n \in 1..Len(k.pool)
        BY <1>1, <3>2
      <4>2. UsingCounts(k)[n] = k.pool[n].using_count
        BY <4>1 DEF UsingCounts
      <4> QED BY <1>10, <3>1, <3>2, <4>2
    <3>3. CASE n = i
      BY <1>1, <3>1, <3>3
    <3>4. CASE n > i
      <4>1. n - 1 \in 1..Len(k.pool) /\ ~(n < i) /\ n # i
        BY <1>1, <3>4
      <4>2. UsingCounts(k)[n - 1] = k.pool[n - 1].using_count
        BY <4>1 DEF UsingCounts
      <4>3. k2.pool[n] = k.pool[n - 1]
        BY <1>10, <4>1, Zenon
      <4> QED BY <3>1, <4>1, <4>2, <4>3, Zenon
    <3>5. n < i \/ n = i \/ n > i
      BY <1>1
    <3> QED BY <3>2, <3>3, <3>4, <3>5
  <2> QED BY <1>1, <1>4, <1>8, <2>1 DEF Added
<1> QED
  BY <1>5, <1>6, <1>7, <1>8, <1>9, <1>11, <1>12, TotalAdded

\* kmalloc_create and slab_malloc link a new slab only when no object is free.
Fresh(s, n) ==
  s \in Slabs /\ s.bits = {} /\ s.color_count = n /\ s.free_count = n /\ s.using_count = 0

Links(k, k2, i, s) ==
  /\ Backs(k2) = Backs(k) \cup {Back(s)} /\ First(k2) = First(k)
  /\ Objects(k2) = Objects(k) /\ k2.total_using = k.total_using
  /\ i \in 1..Len(k2.pool) /\ k2.pool[i] = s /\ Len(k2.pool) = Len(k.pool) + 1
  /\ Clear(s) # {}

\* A fresh slab joins a cache that has no free object.
LEMMA LinkOK ==
  ASSUME NEW k, NEW hc, NEW mc, NEW off, Params(hc, mc, off), CacheOK(k, hc, mc, off),
         k.total_free = 0, NEW i \in 2..(Len(k.pool) + 1),
         NEW s, Fresh(s, mc), s.page \notin PagesOf(Backs(k)), NEW k2, k2 = LinkSlab(k, i, s)
  PROVE  CacheOK(k2, hc, mc, off) /\ Links(k, k2, i, s)
<1>0. s \in Slabs /\ s.bits = {} /\ s.color_count = mc /\ s.free_count = mc /\ s.using_count = 0
  BY DEF Fresh
<1>1. CacheBase(k, hc, mc, off)
  BY DEF CacheOK
<1>2. /\ k \in CacheType /\ Len(k.pool) \in Nat /\ 1 \in 1..Len(k.pool)
      /\ \A j \in 1..Len(k.pool) : Nth(j, hc, mc) \in Nat \ {0} /\ Nth(j, off, 0) \in Nat
      /\ FreeCounts(k) \in Seq(Nat) /\ Len(FreeCounts(k)) = Len(k.pool)
  BY <1>1, CacheFacts
<1>3. k.pool \in Seq(Slabs) /\ k.total_free \in Int /\ k.total_using \in Int /\ k.pool # <<>>
  BY <1>1, <1>2 DEF CacheType, CacheBase
<1>4. InsertAt(k.pool, i, s) \in Seq(Slabs) /\ Added(k.pool, InsertAt(k.pool, i, s), i, s)
  <2>1. i \in 1..(Len(k.pool) + 1)
    BY <1>2
  <2> QED BY <1>0, <1>3, <2>1, InsertAdds
<1>5. k2 = [pool |-> InsertAt(k.pool, i, s), total_free |-> k.total_free + mc, total_using |-> k.total_using]
  <2>1. k2 = [k EXCEPT !.pool = InsertAt(k.pool, i, s), !.total_free = k.total_free + mc]
    BY <1>0, Zenon DEF LinkSlab
  <2> QED BY <1>2, <2>1 DEF CacheType
<1>6. k2.pool = InsertAt(k.pool, i, s) /\ k2.total_free = k.total_free + mc /\ k2.total_using = k.total_using
  BY <1>5
<1>7. Joined(k, k2, i, s)
  BY <1>2, <1>3, <1>4, <1>6 DEF Joined
<1>8. /\ Len(k2.pool) = Len(k.pool) + 1 /\ i \in 2..Len(k2.pool) /\ k2.pool[i] = s
      /\ \A n \in 1..Len(k2.pool) : n # i => \E j \in 1..Len(k.pool) : n = Shift(i, j)
      /\ \A j \in 1..Len(k.pool) :
           Shift(i, j) \in 1..Len(k2.pool) /\ Shift(i, j) # i /\ k2.pool[Shift(i, j)] = k.pool[j]
  <2>1. Len(k2.pool) = Len(k.pool) + 1 /\ i \in 2..Len(k2.pool) /\ k2.pool[i] = s
    BY <1>7, JoinedSlabs
  <2>2. \A n \in 1..Len(k2.pool) : n # i => \E j \in 1..Len(k.pool) : n = Shift(i, j)
    BY <1>7, JoinedSlabs
  <2>3. \A j \in 1..Len(k.pool) :
           Shift(i, j) \in 1..Len(k2.pool) /\ Shift(i, j) # i /\ k2.pool[Shift(i, j)] = k.pool[j]
    BY <1>7, JoinedSlabs
  <2> QED BY <2>1, <2>2, <2>3, Zenon
<1>9. \A j \in 1..Len(k.pool) : Shift(i, j) = 1 <=> j = 1
  BY <1>7, JoinedSlabs
<1>10. /\ Backs(k2) = Backs(k) \cup {Back(s)} /\ First(k2) = First(k) /\ Objects(k2) = Objects(k)
       /\ Total(FreeCounts(k2)) = Total(FreeCounts(k)) + s.free_count
       /\ Total(UsingCounts(k2)) = Total(UsingCounts(k)) + s.using_count
  BY <1>0, <1>7, JoinedOK
<1>11. mc \in Nat \ {0} /\ off \in Nat
  BY DEF Params
<1>12. SlabOK(s, mc, 0)
  BY <1>0, <1>11, FS_EmptySet DEF SlabOK
<1>13. \A n \in 1..Len(k2.pool) : SlabOK(k2.pool[n], Nth(n, hc, mc), Nth(n, off, 0))
  <2> SUFFICES ASSUME NEW n \in 1..Len(k2.pool)
               PROVE  SlabOK(k2.pool[n], Nth(n, hc, mc), Nth(n, off, 0))
    OBVIOUS
  <2>1. CASE n = i
    BY <1>8, <1>12, <2>1 DEF Nth
  <2>2. CASE n # i
    <3>1. PICK j \in 1..Len(k.pool) : n = Shift(i, j)
      BY <1>8, <2>2
    <3>2. SlabOK(k.pool[j], Nth(j, hc, mc), Nth(j, off, 0))
      BY <1>1 DEF CacheBase
    <3>3. Nth(n, hc, mc) = Nth(j, hc, mc) /\ Nth(n, off, 0) = Nth(j, off, 0)
      BY <1>9, <3>1 DEF Nth
    <3> QED BY <1>8, <3>1, <3>2, <3>3
  <2> QED BY <2>1, <2>2
<1>14. \A j \in 1..Len(k.pool) : k.pool[j].page # s.page
  BY CachePages
<1>15. OnePageEach(k2)
  <2> SUFFICES ASSUME NEW n \in 1..Len(k2.pool), NEW q \in 1..Len(k2.pool), k2.pool[n].page = k2.pool[q].page
               PROVE  n = q
    BY DEF OnePageEach
  <2>1. CASE n # i /\ q # i
    <3>1. PICK j \in 1..Len(k.pool) : n = Shift(i, j)
      BY <1>8, <2>1
    <3>2. PICK h \in 1..Len(k.pool) : q = Shift(i, h)
      BY <1>8, <2>1
    <3>3. k.pool[j].page = k.pool[h].page
      BY <1>8, <3>1, <3>2
    <3> QED BY <1>1, <3>1, <3>2, <3>3 DEF CacheBase, OnePageEach
  <2>2. ASSUME NEW x \in 1..Len(k2.pool), x # i PROVE k2.pool[x].page # s.page
    <3>1. PICK j \in 1..Len(k.pool) : x = Shift(i, j)
      BY <1>8, <2>2
    <3> QED BY <1>8, <1>14, <3>1
  <2> QED BY <1>8, <2>1, <2>2
<1>16. \A j \in 1..Len(k.pool) : k.pool[j].bits # {}
  <2> SUFFICES ASSUME NEW j \in 1..Len(k.pool) PROVE k.pool[j].bits # {}
    OBVIOUS
  <2>1. SlabOK(k.pool[j], Nth(j, hc, mc), Nth(j, off, 0))
    BY <1>1 DEF CacheBase
  <2>2. Total(FreeCounts(k)) = 0
    BY <1>1 DEF CacheBase
  <2>3. FreeCounts(k)[j] = k.pool[j].free_count /\ FreeCounts(k)[j] \in Nat
    BY <1>2 DEF FreeCounts
  <2>4. FreeCounts(k)[j] <= 0
    BY <1>2, <2>2, <2>3, TotalOne
  <2>5. k.pool[j].free_count = 0
    BY <2>3, <2>4
  <2>6. Nth(j, hc, mc) \in Nat /\ Nth(j, hc, mc) # 0 /\ Nth(j, off, 0) \in Nat
    BY <1>2
  <2> QED BY <2>1, <2>5, <2>6, SlabCounts
<1>17. OneSpare(k2)
  <2>1. ASSUME NEW n \in 2..Len(k2.pool), n # i PROVE k2.pool[n].bits # {}
    <3>1. n \in 1..Len(k2.pool)
      OBVIOUS
    <3>2. PICK j \in 1..Len(k.pool) : n = Shift(i, j)
      BY <1>8, <2>1, <3>1
    <3> QED BY <1>8, <1>16, <3>2
  <2> QED BY <1>8, <2>1 DEF OneSpare
<1>18. k2 \in CacheType /\ k2.pool # <<>>
  BY <1>2, <1>3, <1>4, <1>5, <1>6, <1>8, <1>11 DEF CacheType
<1>19. k2.total_free = Total(FreeCounts(k2)) /\ k2.total_using + off = Total(UsingCounts(k2))
  <2>1. k.total_free = Total(FreeCounts(k)) /\ k.total_using + off = Total(UsingCounts(k))
    BY <1>1 DEF CacheBase
  <2> QED BY <1>0, <1>3, <1>6, <1>10, <1>11, <2>1
<1>20. Clear(s) # {}
  <2>1. 0 \in 0..(mc - 1)
    BY <1>11
  <2> QED BY <1>0, <2>1 DEF Clear
<1>21. i \in 1..Len(k2.pool)
  BY <1>8
<1> QED
  <2>1. CacheOK(k2, hc, mc, off)
    BY <1>13, <1>15, <1>17, <1>18, <1>19 DEF CacheOK, CacheBase
  <2> QED BY <1>6, <1>8, <1>10, <1>20, <1>21, <2>1 DEF Links

\* Slab i aside, at most one slab besides the first is empty.
OneSpareBut(k, i) ==
  \A n, q \in 2..Len(k.pool) :
    n # i /\ q # i /\ k.pool[n].bits = {} /\ k.pool[q].bits = {} => n = q

\* list_del of an empty slab that is not the first.
LEMMA UnlinkOK ==
  ASSUME NEW k, NEW hc, NEW mc, NEW off, Params(hc, mc, off), CacheBase(k, hc, mc, off),
         NEW i \in 2..Len(k.pool), k.pool[i].bits = {}, OneSpareBut(k, i),
         NEW k2, k2 = UnlinkSlab(k, i)
  PROVE  /\ CacheOK(k2, hc, mc, off)
         /\ Backs(k2) = Backs(k) \ {Back(k.pool[i])} /\ First(k2) = First(k)
         /\ Back(k.pool[i]) \in Backs(k) /\ Back(k.pool[i]) # First(k)
         /\ Objects(k2) = Objects(k) /\ k2.total_using = k.total_using
<1>1. /\ k \in CacheType /\ Len(k.pool) \in Nat /\ 1 \in 1..Len(k.pool)
  BY CacheFacts
<1>2. k.pool \in Seq(Slabs) /\ k.total_free \in Int /\ k.total_using \in Int /\ OnePageEach(k)
  BY <1>1 DEF CacheType, CacheBase
<1>3. i \in 1..Len(k.pool) /\ i # 1
  BY <1>1
<1>4. PICK s : s = k.pool[i]
  OBVIOUS
<1>5. mc \in Nat /\ off \in Nat /\ SlabOK(s, mc, 0)
  <2>1. SlabOK(s, Nth(i, hc, mc), Nth(i, off, 0))
    BY <1>3, <1>4 DEF CacheBase
  <2> QED BY <1>3, <2>1 DEF Nth, Params
<1>6. s.color_count = mc /\ s.free_count = mc /\ s.using_count = 0
  BY <1>4, <1>5, FS_EmptySet DEF SlabOK
<1>7. RemoveAt(k.pool, i) \in Seq(Slabs) /\ Added(RemoveAt(k.pool, i), k.pool, i, s)
  BY <1>2, <1>3, <1>4, RemoveAdds
<1>8. k2 = [pool |-> RemoveAt(k.pool, i), total_free |-> k.total_free - mc, total_using |-> k.total_using]
  <2>1. k2 = [k EXCEPT !.pool = RemoveAt(k.pool, i), !.total_free = k.total_free - mc]
    BY <1>4, <1>6, Zenon DEF UnlinkSlab
  <2> QED BY <1>1, <2>1 DEF CacheType
<1>9. k2.pool = RemoveAt(k.pool, i) /\ k2.total_free = k.total_free - mc /\ k2.total_using = k.total_using
  BY <1>8
<1>10. Joined(k2, k, i, s)
  <2>1. Len(k2.pool) # 0 /\ k2.pool \in Seq(Slabs)
    BY <1>1, <1>3, <1>7, <1>9 DEF Added
  <2>2. k2.pool # <<>>
    BY <2>1
  <2> QED BY <1>2, <1>3, <1>7, <1>9, <2>1, <2>2 DEF Joined
<1>11. Len(k2.pool) \in Nat /\ Len(k.pool) = Len(k2.pool) + 1 /\ 1 \in 1..Len(k2.pool)
  BY <1>10, JoinedSlabs
<1>12. \A j \in 1..Len(k2.pool) :
         Shift(i, j) \in 1..Len(k.pool) /\ Shift(i, j) # i /\ k.pool[Shift(i, j)] = k2.pool[j]
  BY <1>10, JoinedSlabs
<1>13. \A j, n \in 1..Len(k2.pool) : Shift(i, j) = Shift(i, n) => j = n
  BY <1>10, JoinedSlabs
<1>14. \A j \in 1..Len(k2.pool) : Shift(i, j) = 1 <=> j = 1
  BY <1>10, JoinedSlabs
<1>15. /\ Backs(k) = Backs(k2) \cup {Back(s)} /\ First(k) = First(k2) /\ Objects(k) = Objects(k2)
       /\ Total(FreeCounts(k)) = Total(FreeCounts(k2)) + s.free_count
       /\ Total(UsingCounts(k)) = Total(UsingCounts(k2)) + s.using_count
  BY <1>4, <1>10, JoinedOK
<1>16. \A j \in 1..Len(k2.pool) : SlabOK(k2.pool[j], Nth(j, hc, mc), Nth(j, off, 0))
  <2> SUFFICES ASSUME NEW j \in 1..Len(k2.pool)
               PROVE  SlabOK(k2.pool[j], Nth(j, hc, mc), Nth(j, off, 0))
    OBVIOUS
  <2>1. PICK n : n = Shift(i, j)
    OBVIOUS
  <2>2. n \in 1..Len(k.pool) /\ k.pool[n] = k2.pool[j] /\ (n = 1 <=> j = 1)
    BY <1>12, <1>14, <2>1
  <2>3. SlabOK(k.pool[n], Nth(n, hc, mc), Nth(n, off, 0))
    BY <2>2 DEF CacheBase
  <2> QED BY <2>2, <2>3 DEF Nth
<1>17. OnePageEach(k2)
  <2> SUFFICES ASSUME NEW j \in 1..Len(k2.pool), NEW n \in 1..Len(k2.pool), k2.pool[j].page = k2.pool[n].page
               PROVE  j = n
    BY DEF OnePageEach
  <2>1. PICK x, y : x = Shift(i, j) /\ y = Shift(i, n)
    OBVIOUS
  <2>2. /\ x \in 1..Len(k.pool) /\ k.pool[x].page = k2.pool[j].page
        /\ y \in 1..Len(k.pool) /\ k.pool[y].page = k2.pool[n].page
    BY <1>12, <2>1
  <2>3. x = y
    BY <1>2, <2>2 DEF OnePageEach
  <2> QED BY <1>13, <2>1, <2>3
<1>18. OneSpare(k2)
  <2> SUFFICES ASSUME NEW j \in 2..Len(k2.pool), NEW n \in 2..Len(k2.pool),
                      k2.pool[j].bits = {}, k2.pool[n].bits = {}
               PROVE  j = n
    BY DEF OneSpare
  <2>1. j \in 1..Len(k2.pool) /\ n \in 1..Len(k2.pool) /\ j # 1 /\ n # 1
    BY <1>11
  <2>2. PICK x, y : x = Shift(i, j) /\ y = Shift(i, n)
    OBVIOUS
  <2>3. x \in 2..Len(k.pool) /\ y \in 2..Len(k.pool) /\ x # i /\ y # i
        /\ k.pool[x].bits = {} /\ k.pool[y].bits = {}
    <3>1. x \in 1..Len(k.pool) /\ y \in 1..Len(k.pool) /\ x # 1 /\ y # 1 /\ x # i /\ y # i
      BY <1>12, <1>14, <2>1, <2>2
    <3>2. k.pool[x] = k2.pool[j] /\ k.pool[y] = k2.pool[n]
      BY <1>12, <2>1, <2>2
    <3> QED BY <1>1, <3>1, <3>2
  <2>4. x = y
    BY <2>3 DEF OneSpareBut
  <2> QED BY <1>13, <2>1, <2>2, <2>4
<1>19. k2 \in CacheType /\ k2.pool # <<>>
  <2>1. k.total_free - mc \in Int
    BY <1>2, <1>5
  <2>2. k2 \in CacheType
    BY <1>2, <1>7, <1>8, <2>1 DEF CacheType
  <2> QED BY <1>10, <2>2 DEF Joined
<1>20. k2.total_free = Total(FreeCounts(k2)) /\ k2.total_using + off = Total(UsingCounts(k2))
  <2>1. k.total_free = Total(FreeCounts(k)) /\ k.total_using + off = Total(UsingCounts(k))
    BY DEF CacheBase
  <2>2. FreeCounts(k2) \in Seq(Int) /\ UsingCounts(k2) \in Seq(Int)
    <3>1. \A j \in 1..Len(k2.pool) : k2.pool[j] \in Slabs
      BY <1>10 DEF Joined
    <3>2. \A j \in 1..Len(k2.pool) : k2.pool[j].free_count \in Int /\ k2.pool[j].using_count \in Int
      BY <3>1 DEF Slabs
    <3> QED BY <1>11, <3>2 DEF FreeCounts, UsingCounts
  <2>3. Total(FreeCounts(k2)) \in Int /\ Total(UsingCounts(k2)) \in Int
    BY <2>2, TotalInt
  <2> QED BY <1>2, <1>5, <1>6, <1>9, <1>15, <2>1, <2>3
<1>21. Back(s) \notin Backs(k2) /\ Back(s) # First(k)
  <2>1. s.page # k.pool[1].page /\ \A j \in 1..Len(k2.pool) : s.page # k2.pool[j].page
    BY <1>1, <1>2, <1>3, <1>4, <1>12 DEF OnePageEach
  <2>2. \A t : Back(t).page = t.page
    BY DEF Back
  <2>3. s.page \notin PagesOf(Backs(k2))
    BY <2>1, CachePages
  <2> QED BY <2>1, <2>2, <2>3 DEF First, PagesOf
<1>22. CacheOK(k2, hc, mc, off)
  BY <1>16, <1>17, <1>18, <1>19, <1>20 DEF CacheOK, CacheBase
<1> QED
  BY <1>4, <1>9, <1>15, <1>21, <1>22

\* Clearing a set bit of a slab.
LEMMA GiveBackOK ==
  ASSUME NEW k, NEW hc, NEW mc, NEW off, Params(hc, mc, off), CacheBase(k, hc, mc, off),
         NEW i \in 1..Len(k.pool), NEW x \in k.pool[i].bits, NEW k2, k2 = GiveBack(k, i, x)
  PROVE  /\ CacheBase(k2, hc, mc, off)
         /\ Len(k2.pool) = Len(k.pool) /\ k2.pool[i].bits = k.pool[i].bits \ {x}
         /\ Back(k2.pool[i]) = Back(k.pool[i])
         /\ \A j \in 1..Len(k.pool) : j # i => k2.pool[j] = k.pool[j]
         /\ Backs(k2) = Backs(k) /\ First(k2) = First(k)
         /\ Objects(k2) = Objects(k) \ {[page |-> k.pool[i].page, index |-> x]}
         /\ k2.total_using = k.total_using - 1
<1> DEFINE t == k.pool[i]
           N == Nth(i, hc, mc)
           O == Nth(i, off, 0)
<1>1. k \in CacheType /\ Len(k.pool) \in Nat /\ N \in Nat /\ O \in Nat
  BY CacheFacts
<1>2. SlabOK(t, N, O) /\ OnePageEach(k)
  BY DEF CacheBase
<1>3. t \in Slabs /\ t.color_count = N /\ t.bits \subseteq 0..(N - 1)
      /\ t.free_count = N - Cardinality(t.bits) /\ t.using_count = Cardinality(t.bits) + O
  BY <1>2 DEF SlabOK
<1>4. IsFiniteSet(t.bits) /\ Cardinality(t.bits) \in Nat
  BY <1>1, <1>2, SlabCounts
<1>5. PICK s : s = ClearBit(t, x) /\ s = [t EXCEPT !.bits = @ \ {x}, !.using_count = @ - 1, !.free_count = @ + 1]
  BY DEF ClearBit
<1>6. x \in t.bits
  OBVIOUS
<1> HIDE DEF t, N, O
<1>7. /\ s.page = t.page /\ s.desc = t.desc /\ s.map = t.map /\ s.color_count = t.color_count
      /\ s.bits = t.bits \ {x} /\ s.using_count = t.using_count - 1
      /\ s.free_count = t.free_count + 1
  BY <1>3, <1>5 DEF Slabs
<1>8. s \in Slabs
  <2>1. t.bits \ {x} \in SUBSET Nat /\ t.using_count - 1 \in Int /\ t.free_count + 1 \in Int
    BY <1>3 DEF Slabs
  <2>2. s = [page |-> t.page, bits |-> t.bits \ {x}, using_count |-> t.using_count - 1,
             free_count |-> t.free_count + 1, color_count |-> t.color_count, desc |-> t.desc, map |-> t.map]
    BY <1>3, <1>5 DEF Slabs
  <2> QED BY <1>3, <2>1, <2>2 DEF Slabs
<1>9. Cardinality(s.bits) = Cardinality(t.bits) - 1
  BY <1>4, <1>6, <1>7, FS_RemoveElement
<1>10. SlabOK(s, N, O)
  <2>1. PICK q \in Nat : q = Cardinality(t.bits)
    BY <1>4
  <2>2. s.color_count = N /\ s.bits \subseteq 0..(N - 1)
    BY <1>3, <1>7
  <2>3. t.free_count = N - q /\ t.using_count = q + O /\ Cardinality(s.bits) = q - 1
    BY <1>3, <1>9, <2>1
  <2>4. s.free_count = N - Cardinality(s.bits) /\ s.using_count = Cardinality(s.bits) + O
    BY <1>1, <1>7, <2>3
  <2> QED BY <1>8, <2>2, <2>4 DEF SlabOK
<1>11. Changed(k, k2, i, s, 1)
  <2>1. Back(s) = Back(k.pool[i])
    BY <1>7 DEF Back, t
  <2>2. s.free_count = k.pool[i].free_count + 1 /\ s.using_count = k.pool[i].using_count - 1
    BY <1>7 DEF t
  <2>3. s = ClearBit(k.pool[i], x)
    BY <1>5 DEF t
  <2>4. k2 = [k EXCEPT !.pool = [k.pool EXCEPT ![i] = s], !.total_free = k.total_free + 1,
                       !.total_using = k.total_using - 1]
    BY <2>3, Zenon DEF GiveBack
  <2>5. k2 = [pool |-> [k.pool EXCEPT ![i] = s], total_free |-> k.total_free + 1,
              total_using |-> k.total_using - 1]
        <3>1. PICK P, F, U : P = [k.pool EXCEPT ![i] = s] /\ F = k.total_free + 1 /\ U = k.total_using - 1
      OBVIOUS
    <3>2. k2 = [k EXCEPT !.pool = P, !.total_free = F, !.total_using = U]
      BY <2>4, <3>1, Zenon
    <3>3. k2 = [pool |-> P, total_free |-> F, total_using |-> U]
      BY <1>1, <3>2 DEF CacheType
    <3> QED BY <3>1, <3>3, Zenon
  <2> QED BY <2>1, <2>2, <2>5 DEF Changed
<1>12. /\ CacheBase(k2, hc, mc, off)
       /\ Len(k2.pool) = Len(k.pool)
       /\ \A j \in 1..Len(k.pool) : k2.pool[j] = (IF j = i THEN s ELSE k.pool[j])
       /\ Backs(k2) = Backs(k) /\ First(k2) = First(k)
       /\ k2.total_using = k.total_using - 1
  BY <1>10, <1>11, ChangedOK DEF N, O
<1>13. PICK a : a = [page |-> t.page, index |-> x]
  OBVIOUS
<1>14. Objects(k2) = Objects(k) \ {a}
  <2>1. ASSUME NEW e \in Addresses
        PROVE  e \in Objects(k2) <=> e \in Objects(k) /\ e # a
    <3>1. e = a <=> e.page = t.page /\ e.index = x
      BY <1>13 DEF Addresses
    <3>2. \A j \in 1..Len(k.pool) : k2.pool[j].page = k.pool[j].page
      BY <1>7, <1>12 DEF t
    <3>3. e \in Objects(k2) <=> \E j \in 1..Len(k.pool) : k.pool[j].page = e.page /\ e.index \in k2.pool[j].bits
      BY <1>12, <3>2 DEF Objects
    <3>4. \A j \in 1..Len(k.pool) : e.index \in k2.pool[j].bits
            <=> e.index \in k.pool[j].bits /\ ~(j = i /\ e.index = x)
      BY <1>7, <1>12 DEF t
    <3>5. \A j \in 1..Len(k.pool) : k.pool[j].page = t.page => j = i
      BY <1>2 DEF OnePageEach, t
    <3> QED BY <3>1, <3>3, <3>4, <3>5 DEF Objects, t
  <2> QED BY <2>1 DEF Objects
<1>15. k2.pool[i] = s /\ \A j \in 1..Len(k.pool) : j # i => k2.pool[j] = k.pool[j]
  BY <1>12
<1>16. Back(s) = Back(k.pool[i]) /\ s.bits = k.pool[i].bits \ {x}
  BY <1>7, <1>11 DEF Changed, t
<1> QED
  BY <1>12, <1>13, <1>14, <1>15, <1>16 DEF t

\* kfree and slab_free find the slab an object is in.
LEMMA SlabOfOK ==
  ASSUME NEW k, OnePageEach(k), NEW a \in Objects(k), NEW i, i = SlabOf(k, a)
  PROVE  i \in 1..Len(k.pool) /\ k.pool[i].page = a.page /\ a.index \in k.pool[i].bits
         /\ a = [page |-> k.pool[i].page, index |-> a.index]
<1> DEFINE T == {n \in 1..Len(k.pool) : k.pool[n].page = a.page}
<1>1. PICK j \in 1..Len(k.pool) : k.pool[j].page = a.page /\ a.index \in k.pool[j].bits
  BY DEF Objects
<1>2. T # {} /\ T \subseteq Nat
  BY <1>1
<1>3. i \in T
  <2>1. i = Least(T)
    BY DEF SlabOf
  <2> HIDE DEF T
  <2> QED BY <1>2, <2>1, LeastIn
<1>4. i = j
  BY <1>1, <1>3 DEF OnePageEach
<1>5. a \in Addresses
  BY DEF Objects
<1> QED
  BY <1>1, <1>4, <1>5 DEF Addresses

\* One object less is in use.
Drops(k, k2, a) ==
  /\ First(k2) = First(k) /\ Objects(k2) = Objects(k) \ {a}
  /\ k2.total_using = k.total_using - 1

\* The slab of a freed object stays unless it is a spare one: no second one is empty.
LEMMA FreeKeeps ==
  ASSUME NEW k, NEW hc, NEW mc, NEW off, Params(hc, mc, off), CacheOK(k, hc, mc, off),
         NEW a \in Objects(k), NEW i, i = SlabOf(k, a), NEW k2, k2 = GiveBack(k, i, a.index),
         ~(Spare(k2, i) /\ i # 1)
  PROVE  CacheOK(k2, hc, mc, off) /\ Drops(k, k2, a) /\ Backs(k2) = Backs(k)
<1>1. CacheBase(k, hc, mc, off) /\ OneSpare(k) /\ OnePageEach(k)
  BY DEF CacheOK, CacheBase
<1>2. i \in 1..Len(k.pool) /\ a.index \in k.pool[i].bits /\ a = [page |-> k.pool[i].page, index |-> a.index]
  BY <1>1, SlabOfOK
<1>3. /\ CacheBase(k2, hc, mc, off) /\ Len(k2.pool) = Len(k.pool)
      /\ Backs(k2) = Backs(k) /\ First(k2) = First(k)
      /\ Objects(k2) = Objects(k) \ {[page |-> k.pool[i].page, index |-> a.index]}
      /\ k2.total_using = k.total_using - 1
  BY <1>1, <1>2, GiveBackOK
<1>4. \A j \in 1..Len(k.pool) : j # i => k2.pool[j] = k.pool[j]
  BY <1>1, <1>2, GiveBackOK
<1>5. Len(k.pool) \in Nat /\ mc \in Nat /\ Len(FreeCounts(k2)) = Len(k.pool) /\ FreeCounts(k2) \in Seq(Nat)
  BY <1>1, <1>3, CacheFacts DEF Params
<1>6. ASSUME NEW n \in 2..Len(k.pool), k2.pool[n].bits = {}
      PROVE  /\ n \in 1..Len(k.pool) /\ k2.pool[n].using_count = 0 /\ k2.pool[n].color_count = mc
             /\ FreeCounts(k2)[n] = mc
  <2>1. n \in 1..Len(k.pool) /\ n # 1
    BY <1>5
  <2>2. SlabOK(k2.pool[n], mc, 0)
    <3>1. SlabOK(k2.pool[n], Nth(n, hc, mc), Nth(n, off, 0))
      BY <1>3, <2>1 DEF CacheBase
    <3> QED BY <2>1, <3>1 DEF Nth
  <2>3. k2.pool[n].using_count = 0 /\ k2.pool[n].color_count = mc /\ k2.pool[n].free_count = mc
    BY <1>5, <1>6, <2>2, FS_EmptySet DEF SlabOK
  <2>4. FreeCounts(k2)[n] = k2.pool[n].free_count
    BY <1>3, <2>1 DEF FreeCounts
  <2> QED BY <2>1, <2>3, <2>4
<1>7. ASSUME NEW n \in 2..Len(k.pool), n # i, k2.pool[n].bits = {}, i # 1, k2.pool[i].bits = {}
      PROVE  FALSE
  <2>1. i \in 2..Len(k.pool)
    BY <1>2, <1>5, <1>7
  <2>2. i \in 1..Len(FreeCounts(k2)) /\ n \in 1..Len(FreeCounts(k2)) /\ FreeCounts(k2)[n] = mc
        /\ FreeCounts(k2)[i] = mc /\ k2.pool[i].using_count = 0 /\ k2.pool[i].color_count = mc
    BY <1>5, <1>6, <1>7, <2>1
  <2>3. Total(FreeCounts(k2)) >= mc + mc
    <3>1. CASE i < n
      BY <1>5, <2>2, <3>1, TotalTwo
    <3>2. CASE n < i
      BY <1>5, <2>2, <3>2, TotalTwo
    <3> QED BY <1>7, <2>1, <3>1, <3>2
  <2>4. k2.total_free >= mc + mc /\ k2.total_free \in Int
    BY <1>3, <2>3 DEF CacheBase, CacheType
  <2>5. mc + mc >= (mc * 3) \div 2
    BY <1>5
  <2>6. k2.total_free >= (mc * 3) \div 2
    BY <1>5, <2>4, <2>5
  <2> QED BY <1>7, <2>2, <2>6 DEF Spare
<1>8. OneSpare(k2)
  <2> SUFFICES ASSUME NEW n \in 2..Len(k.pool), NEW q \in 2..Len(k.pool), n # q,
                      k2.pool[n].bits = {}, k2.pool[q].bits = {}
               PROVE  FALSE
    BY <1>3 DEF OneSpare
  <2>1. n \in 1..Len(k.pool) /\ q \in 1..Len(k.pool) /\ n # 1 /\ q # 1
    BY <1>5
  <2>2. CASE n # i /\ q # i
    BY <1>1, <1>4, <2>1, <2>2 DEF OneSpare
  <2>3. CASE n = i
    BY <1>7, <2>1, <2>3
  <2>4. CASE q = i
    BY <1>7, <2>1, <2>4
  <2> QED BY <2>2, <2>3, <2>4
<1> QED
  BY <1>2, <1>3, <1>8 DEF CacheOK, Drops

\* A spare slab goes.
LEMMA FreeDrops ==
  ASSUME NEW k, NEW hc, NEW mc, NEW off, Params(hc, mc, off), CacheOK(k, hc, mc, off),
         NEW a \in Objects(k), NEW i, i = SlabOf(k, a), NEW k1, k1 = GiveBack(k, i, a.index),
         Spare(k1, i), i # 1, NEW k2, k2 = UnlinkSlab(k1, i)
  PROVE  /\ CacheOK(k2, hc, mc, off) /\ Drops(k, k2, a)
         /\ Backs(k2) = Backs(k) \ {Back(k1.pool[i])}
         /\ Back(k1.pool[i]) \in Backs(k) /\ Back(k1.pool[i]) # First(k)
<1>1. CacheBase(k, hc, mc, off) /\ OneSpare(k) /\ OnePageEach(k)
  BY DEF CacheOK, CacheBase
<1>2. i \in 1..Len(k.pool) /\ a.index \in k.pool[i].bits /\ a = [page |-> k.pool[i].page, index |-> a.index]
  BY <1>1, SlabOfOK
<1>3. /\ CacheBase(k1, hc, mc, off) /\ Len(k1.pool) = Len(k.pool)
      /\ Backs(k1) = Backs(k) /\ First(k1) = First(k)
      /\ Objects(k1) = Objects(k) \ {[page |-> k.pool[i].page, index |-> a.index]}
      /\ k1.total_using = k.total_using - 1
  BY <1>1, <1>2, GiveBackOK
<1>4. \A j \in 1..Len(k.pool) : j # i => k1.pool[j] = k.pool[j]
  BY <1>1, <1>2, GiveBackOK
<1>5. Len(k.pool) \in Nat /\ mc \in Nat /\ i \in 2..Len(k1.pool)
  <2>1. Len(k.pool) \in Nat /\ mc \in Nat
    BY <1>1, CacheFacts DEF Params
  <2> QED BY <1>2, <1>3, <2>1
<1>6. SlabOK(k1.pool[i], mc, 0)
  <2>1. SlabOK(k1.pool[i], Nth(i, hc, mc), Nth(i, off, 0))
    BY <1>2, <1>3 DEF CacheBase
  <2> QED BY <2>1 DEF Nth
<1>7. k1.pool[i].bits = {}
  <2>1. k1.pool[i].using_count = 0 /\ k1.pool[i].using_count = Cardinality(k1.pool[i].bits) + 0
    BY <1>6 DEF Spare, SlabOK
  <2>2. 0 \in Nat
    OBVIOUS
  <2>3. Cardinality(k1.pool[i].bits) \in Nat /\ (Cardinality(k1.pool[i].bits) = 0 <=> k1.pool[i].bits = {})
    BY <1>5, <1>6, <2>2, SlabCounts
  <2> QED BY <2>1, <2>3
<1>8. OneSpareBut(k1, i)
  BY <1>1, <1>3, <1>4, <1>5 DEF OneSpare, OneSpareBut
<1>9. /\ CacheOK(k2, hc, mc, off)
      /\ Backs(k2) = Backs(k1) \ {Back(k1.pool[i])} /\ First(k2) = First(k1)
      /\ Back(k1.pool[i]) \in Backs(k1) /\ Back(k1.pool[i]) # First(k1)
      /\ Objects(k2) = Objects(k1) /\ k2.total_using = k1.total_using
  BY <1>3, <1>5, <1>7, <1>8, UnlinkOK
<1> QED
  BY <1>2, <1>3, <1>9 DEF Drops

\* slab_free never finds the first slab spare: its using_count started too high.
LEMMA FirstStays ==
  ASSUME NEW k, NEW hc, NEW mc, NEW off, Params(hc, mc, off), off # 0, CacheOK(k, hc, mc, off),
         NEW a \in Objects(k), NEW i, i = SlabOf(k, a), NEW k1, k1 = GiveBack(k, i, a.index),
         Spare(k1, i)
  PROVE  i # 1
<1>1. CacheBase(k, hc, mc, off) /\ OnePageEach(k)
  BY DEF CacheOK, CacheBase
<1>2. i \in 1..Len(k.pool) /\ a.index \in k.pool[i].bits
  BY <1>1, SlabOfOK
<1>3. CacheBase(k1, hc, mc, off) /\ Len(k1.pool) = Len(k.pool)
  BY <1>1, <1>2, GiveBackOK
<1>4. SUFFICES ASSUME i = 1 PROVE FALSE
  OBVIOUS
<1>5. SlabOK(k1.pool[1], hc, off)
  BY <1>2, <1>3, <1>4 DEF CacheBase, Nth
<1>6. Cardinality(k1.pool[1].bits) \in Nat
  BY <1>5, SlabCounts DEF Params
<1>7. k1.pool[1].using_count = Cardinality(k1.pool[1].bits) + off /\ off \in Nat
  BY <1>5 DEF SlabOK, Params
<1> QED
  BY <1>4, <1>6, <1>7 DEF Spare

-----------------------------------------------------------------------------
(* The zone, the small caches, and those that take their structures from them *)

ZoneOK(z, used, linked) ==
  /\ z \in ZoneType
  /\ z.bits_map = used
  /\ z.page_using_count = Cardinality(used)
  /\ z.page_free_count = Cardinality(Pages \ used)
  /\ z.total_pages_link = Cardinality({p \in Pages : z.reference_count[p] = 1})
  /\ \A p \in Pages : z.reference_count[p] \in {0, 1}
  /\ linked \subseteq Pages /\ \A p \in linked : z.reference_count[p] = 1

\* A cache of kmalloc_cache_size.
KCacheOK(k, c) == CacheOK(k, HeadCount[c], MoreCount[c], 0) /\ First(k).page = HeadPage[c]

SmallCacheOK(k, c) == KCacheOK(k, c) /\ \A b \in Backs(k) : b.desc = NULL /\ b.map = NULL

SmallPages(m) == UNION {PagesOf(Backs(m.cache[c])) : c \in Small}
SmallObjects(m) == UNION {Objects(m.cache[c]) : c \in Small}

\* X: the pages in use that no small cache has; L: those of them that are linked.
SmallOK(m, X, L) ==
  /\ m \in MemType
  /\ \A c \in Small : SmallCacheOK(m.cache[c], c)
  /\ \A c, d \in Small : c # d => PagesOf(Backs(m.cache[c])) \cap PagesOf(Backs(m.cache[d])) = {}
  /\ L \subseteq X /\ X \subseteq Pages /\ SmallPages(m) \cap X = {}
  /\ ZoneOK(m.zone, SmallPages(m) \cup X, SmallPages(m) \cup L)

\* The caches that take structures from the small ones: the large ones and one's own.
OWN == CHOOSE x : x \notin Large
Clients == Large \cup {OWN}
Of(m, c) == IF c = OWN THEN m.own ELSE m.cache[c]

ClientOK(k, c) ==
  IF c = OWN
    THEN k = NoCache \/ ( /\ CacheOK(k, OwnCount, OwnCount, OwnCount)
                          /\ \A b \in Backs(k) : b.desc # NULL /\ b.map # NULL )
    ELSE KCacheOK(k, c) /\ \A b \in Backs(k) : b # First(k) => b.desc # NULL /\ b.map # NULL

AllBacks(m) == UNION {Backs(Of(m, c)) : c \in Clients}
LargeObjects(m) == UNION {Objects(m.cache[c]) : c \in Large}

\* The objects that hold structures of slabs.
Structs(B) == (UNION {{b.desc, b.map} : b \in B}) \ {NULL}

\* No object holds two structures.
OneUse(B) ==
  \A b, e \in B :
    /\ b.desc = e.desc => b = e \/ b.desc = NULL
    /\ b.map = e.map => b = e \/ b.map = NULL
    /\ b.desc = e.map => b.desc = NULL

ClientsOK(m) ==
  /\ \A c \in Clients : ClientOK(Of(m, c), c)
  /\ \A c, d \in Clients : c # d => PagesOf(Backs(Of(m, c))) \cap PagesOf(Backs(Of(m, d))) = {}
  /\ OneUse(AllBacks(m))
  /\ m.own_at = NULL <=> m.own = NoCache
  /\ m.own_at \notin Structs(AllBacks(m))

\* The objects the allocator keeps for itself, and the pages counted as linked outside
\* the small caches.
Taken(m) == Structs(AllBacks(m)) \cup ({m.own_at} \ {NULL})
Linked(m) == KernelPages \cup PagesOf(AllBacks(m))

\* U: the user's pages, W: what kmalloc's callers have, T: what those of slab_malloc have.
Layout(m, U) ==
  /\ SmallOK(m, Linked(m) \cup U, Linked(m)) /\ ClientsOK(m)
  /\ KernelPages \cap PagesOf(AllBacks(m)) = {} /\ Linked(m) \cap U = {}
  /\ Taken(m) \subseteq SmallObjects(m)

Lent(m, T) == T = Objects(m.own) /\ IsFiniteSet(T) /\ m.own.total_using = Cardinality(T)

Book(m, U, W, T) ==
  /\ Layout(m, U) /\ Lent(m, T)
  /\ SmallObjects(m) \cup LargeObjects(m) = W \cup Taken(m) /\ W \cap Taken(m) = {}

MemInv == TypeOK /\ (~mem.halted => Book(mem, user, owned, lent))

\* The assumptions in the forms the proofs use.
LEMMA Constants ==
  /\ IsFiniteSet(Pages) /\ Pages \subseteq Nat /\ KernelPages \subseteq Pages
  /\ Small \cap Large = {} /\ Caches = Small \cup Large
  /\ HeadPage \in [Caches -> Pages \ KernelPages]
  /\ \A c \in Caches : Params(HeadCount[c], MoreCount[c], 0)
  /\ Params(OwnCount, OwnCount, OwnCount)
  /\ NULL \notin Addresses
<1>1. NULL \notin Addresses
  BY MemoryAssumption DEF NULL, Addresses
<1> QED
  BY <1>1, MemoryAssumption DEF Params, Caches

\* Giving back a page undoes what taking it did to the zone's counters, and a page is
\* counted as linked while its reference_count is 1.
LEMMA ZoneAlloc ==
  ASSUME NEW z, NEW used, NEW linked, ZoneOK(z, used, linked), NEW p \in Pages \ used
  PROVE  ZoneOK(alloc_pages(z, p), used \cup {p}, linked)
<1>1. PICK y : y = alloc_pages(z, p)
  OBVIOUS
<1>2. z \in ZoneType /\ used \subseteq Pages /\ z.bits_map = used
  BY DEF ZoneOK, ZoneType
<1>3. /\ y.bits_map = used \cup {p} /\ y.page_using_count = z.page_using_count + 1
      /\ y.page_free_count = z.page_free_count - 1 /\ y.total_pages_link = z.total_pages_link
      /\ y.reference_count = z.reference_count /\ y \in ZoneType
  <2>1. z.bits_map \cup {p} \in SUBSET Pages /\ z.page_using_count + 1 \in Int /\ z.page_free_count - 1 \in Int
    BY <1>2 DEF ZoneType
  <2>2. y = [bits_map |-> z.bits_map \cup {p}, reference_count |-> z.reference_count,
             page_using_count |-> z.page_using_count + 1, page_free_count |-> z.page_free_count - 1,
             total_pages_link |-> z.total_pages_link]
    BY <1>1, <1>2 DEF alloc_pages, ZoneType
  <2>3. y \in ZoneType
    BY <1>2, <2>1, <2>2 DEF ZoneType
  <2> QED BY <1>2, <2>2, <2>3
<1>4. IsFiniteSet(used) /\ IsFiniteSet(Pages \ used)
  BY <1>2, Constants, FS_Subset
<1>5. Cardinality(used \cup {p}) = Cardinality(used) + 1
  BY <1>4, FS_AddElement
<1>6. Cardinality(Pages \ (used \cup {p})) = Cardinality(Pages \ used) - 1
  <2>1. Pages \ (used \cup {p}) = (Pages \ used) \ {p}
    OBVIOUS
  <2> QED BY <1>4, <2>1, FS_RemoveElement
<1>7. ZoneOK(y, used \cup {p}, linked)
  BY <1>3, <1>5, <1>6 DEF ZoneOK
<1> QED
  BY <1>1, <1>7

\* A page of the used ones is freed.
LEMMA ZoneFree ==
  ASSUME NEW z, NEW used, NEW linked, ZoneOK(z, used, linked), NEW p \in used
  PROVE  ZoneOK(free_pages(z, p), used \ {p}, linked)
<1>1. PICK y : y = free_pages(z, p)
  OBVIOUS
<1>2. z \in ZoneType /\ used \subseteq Pages /\ z.bits_map = used
  BY DEF ZoneOK, ZoneType
<1>3. /\ y.bits_map = used \ {p} /\ y.page_using_count = z.page_using_count - 1
      /\ y.page_free_count = z.page_free_count + 1 /\ y.total_pages_link = z.total_pages_link
      /\ y.reference_count = z.reference_count /\ y \in ZoneType
  <2>1. z.bits_map \ {p} \in SUBSET Pages /\ z.page_using_count - 1 \in Int /\ z.page_free_count + 1 \in Int
    BY <1>2 DEF ZoneType
  <2>2. y = [bits_map |-> z.bits_map \ {p}, reference_count |-> z.reference_count,
             page_using_count |-> z.page_using_count - 1, page_free_count |-> z.page_free_count + 1,
             total_pages_link |-> z.total_pages_link]
    BY <1>1, <1>2 DEF free_pages, ZoneType
  <2>3. y \in ZoneType
    BY <1>2, <2>1, <2>2 DEF ZoneType
  <2> QED BY <1>2, <2>2, <2>3
<1>4. IsFiniteSet(used) /\ IsFiniteSet(Pages \ used)
  BY <1>2, Constants, FS_Subset
<1>5. Cardinality(used \ {p}) = Cardinality(used) - 1
  BY <1>4, FS_RemoveElement
<1>6. Cardinality(Pages \ (used \ {p})) = Cardinality(Pages \ used) + 1
  <2>1. Pages \ (used \ {p}) = (Pages \ used) \cup {p} /\ p \notin Pages \ used
    BY <1>2
  <2> QED BY <1>4, <2>1, FS_AddElement
<1>7. ZoneOK(y, used \ {p}, linked)
  BY <1>3, <1>5, <1>6 DEF ZoneOK
<1> QED
  BY <1>1, <1>7

\* The pages whose reference_count is 1.
Referenced(z) == {q \in Pages : z.reference_count[q] = 1}

\* page_init of a page in use links it, once.
LEMMA ZoneInit ==
  ASSUME NEW z, NEW used, NEW linked, ZoneOK(z, used, linked), NEW p \in Pages
  PROVE  ZoneOK(page_init(z, p), used, linked \cup {p})
<1>1. z \in ZoneType /\ z.reference_count \in [Pages -> Int] /\ z.reference_count[p] \in {0, 1}
  BY DEF ZoneOK, ZoneType
<1>2. CASE z.reference_count[p] = 1
  <2>1. page_init(z, p) = z
    BY <1>2 DEF page_init
  <2> QED BY <1>2, <2>1 DEF ZoneOK
<1>3. CASE z.reference_count[p] = 0
  <2>1. PICK r : r = [z.reference_count EXCEPT ![p] = 1]
    OBVIOUS
  <2>2. r \in [Pages -> Int] /\ \A q \in Pages : r[q] = IF q = p THEN 1 ELSE z.reference_count[q]
    BY <1>1, <2>1
  <2>3. PICK y : y = page_init(z, p)
    OBVIOUS
  <2>4. y = [z EXCEPT !.reference_count = r, !.total_pages_link = z.total_pages_link + 1]
    BY <1>1, <1>3, <2>1, <2>3 DEF page_init, ZoneType
  <2>5. /\ y.bits_map = z.bits_map /\ y.page_using_count = z.page_using_count
        /\ y.page_free_count = z.page_free_count /\ y.total_pages_link = z.total_pages_link + 1
        /\ y.reference_count = r /\ y \in ZoneType
    <3>1. z.total_pages_link + 1 \in Int
      BY <1>1 DEF ZoneType
    <3>2. y = [bits_map |-> z.bits_map, reference_count |-> r, page_using_count |-> z.page_using_count,
               page_free_count |-> z.page_free_count, total_pages_link |-> z.total_pages_link + 1]
      BY <1>1, <2>4 DEF ZoneType
    <3>3. y \in ZoneType
      BY <1>1, <2>2, <3>1, <3>2 DEF ZoneType
    <3> QED BY <3>2, <3>3
  <2>6. Referenced(y) = Referenced(z) \cup {p} /\ p \notin Referenced(z)
    BY <1>3, <2>2, <2>5 DEF Referenced
  <2>7. IsFiniteSet(Referenced(z))
    BY Constants, FS_Subset DEF Referenced
  <2>8. Cardinality(Referenced(y)) = Cardinality(Referenced(z)) + 1
    BY <2>6, <2>7, FS_AddElement
  <2>9. y.total_pages_link = Cardinality(Referenced(y))
    BY <2>5, <2>8 DEF ZoneOK, Referenced
  <2>10. (\A q \in Pages : r[q] \in {0, 1}) /\ \A q \in linked \cup {p} : r[q] = 1
    <3>1. linked \subseteq Pages
      <4> SUFFICES ASSUME NEW q \in linked PROVE q \in Pages
        OBVIOUS
      <4> QED BY DEF ZoneOK
    <3> QED BY <2>2, <3>1 DEF ZoneOK
  <2> QED BY <2>3, <2>5, <2>9, <2>10 DEF ZoneOK, Referenced
<1> QED
  BY <1>1, <1>2, <1>3

\* page_clean of a linked page.
LEMMA ZoneClean ==
  ASSUME NEW z, NEW used, NEW linked, ZoneOK(z, used, linked), NEW p \in linked
  PROVE  ZoneOK(page_clean(z, p), used, linked \ {p})
<1>1. z \in ZoneType /\ z.reference_count \in [Pages -> Int] /\ z.reference_count[p] = 1 /\ p \in Pages
      /\ linked \subseteq Pages
  BY DEF ZoneOK, ZoneType
<1>2. PICK r : r = [z.reference_count EXCEPT ![p] = 0]
  OBVIOUS
<1>3. r \in [Pages -> Int] /\ \A q \in Pages : r[q] = IF q = p THEN 0 ELSE z.reference_count[q]
  BY <1>1, <1>2
<1>4. PICK y : y = page_clean(z, p)
  OBVIOUS
<1>5. y = [z EXCEPT !.reference_count = r, !.total_pages_link = z.total_pages_link - 1]
  BY <1>1, <1>2, <1>4 DEF page_clean, ZoneType
<1>6. /\ y.bits_map = z.bits_map /\ y.page_using_count = z.page_using_count
      /\ y.page_free_count = z.page_free_count /\ y.total_pages_link = z.total_pages_link - 1
      /\ y.reference_count = r /\ y \in ZoneType
  <2>1. z.total_pages_link - 1 \in Int
    BY <1>1 DEF ZoneType
  <2>2. y = [bits_map |-> z.bits_map, reference_count |-> r, page_using_count |-> z.page_using_count,
             page_free_count |-> z.page_free_count, total_pages_link |-> z.total_pages_link - 1]
    BY <1>1, <1>5 DEF ZoneType
  <2>3. y \in ZoneType
    BY <1>1, <1>3, <2>1, <2>2 DEF ZoneType
  <2> QED BY <2>2, <2>3
<1>7. Referenced(y) = Referenced(z) \ {p} /\ p \in Referenced(z)
  BY <1>1, <1>3, <1>6 DEF Referenced
<1>8. IsFiniteSet(Referenced(z))
  BY Constants, FS_Subset DEF Referenced
<1>9. Cardinality(Referenced(y)) = Cardinality(Referenced(z)) - 1
  BY <1>7, <1>8, FS_RemoveElement
<1>10. y.total_pages_link = Cardinality(Referenced(y))
  BY <1>6, <1>9 DEF ZoneOK, Referenced
<1>11. (\A q \in Pages : r[q] \in {0, 1}) /\ \A q \in linked \ {p} : r[q] = 1
  BY <1>1, <1>3 DEF ZoneOK
<1> QED
  BY <1>4, <1>6, <1>10, <1>11 DEF ZoneOK, Referenced

-----------------------------------------------------------------------------
(* The small caches *)

\* What a step on the zone or on small caches leaves alone.
Frame(m, n) ==
  /\ n.own = m.own /\ n.own_at = m.own_at /\ n.halted = m.halted
  /\ \A c \in Large : n.cache[c] = m.cache[c]

\* Two steps after one another.
LEMMA FrameTrans ==
  ASSUME NEW a, NEW b, NEW c, Frame(a, b), Frame(b, c)
  PROVE  Frame(a, c)
  BY DEF Frame

\* Assignments to one field of the allocator's state.
SetsZone(m, n, z) == n = [m EXCEPT !.zone = z]
SetsCache(m, n, c, k) == n = [m EXCEPT !.cache[c] = k]

\* The fields after an assignment to the zone ...
LEMMA SetZone ==
  ASSUME NEW m \in MemType, NEW z \in ZoneType, NEW n, SetsZone(m, n, z)
  PROVE  n \in MemType /\ n.zone = z /\ n.cache = m.cache /\ Frame(m, n)
<1>1. n \in MemType /\ n.zone = z /\ n.cache = m.cache /\ n.own = m.own /\ n.own_at = m.own_at
      /\ n.halted = m.halted
  BY DEF MemType, SetsZone
<1> QED
  BY <1>1 DEF Frame

\* ... and after one to a cache.
LEMMA SetCache ==
  ASSUME NEW m \in MemType, NEW c \in Caches, NEW k \in CacheType, NEW n, SetsCache(m, n, c, k)
  PROVE  /\ n \in MemType /\ n.zone = m.zone /\ n.cache[c] = k
         /\ \A d \in Caches : d # c => n.cache[d] = m.cache[d]
         /\ n.own = m.own /\ n.own_at = m.own_at /\ n.halted = m.halted
<1>1. PICK f : f = [m.cache EXCEPT ![c] = k]
  OBVIOUS
<1>2. f \in [Caches -> CacheType] /\ f[c] = k /\ \A d \in Caches : d # c => f[d] = m.cache[d]
  BY <1>1 DEF MemType
<1>3. n = [m EXCEPT !.cache = f]
  BY <1>1 DEF SetsCache
<1>4. n \in MemType /\ n.zone = m.zone /\ n.cache = f /\ n.own = m.own /\ n.own_at = m.own_at
      /\ n.halted = m.halted
  BY <1>2, <1>3 DEF MemType
<1> QED
  BY <1>2, <1>4

\* An object in use is in a page of the cache.
LEMMA ObjectPage ==
  ASSUME NEW k, NEW a \in Objects(k)
  PROVE  a \in Addresses /\ a.page \in PagesOf(Backs(k))
  BY CachePages DEF Objects

\* An object of a small cache is in a page of one.
LEMMA SmallObjectPage ==
  ASSUME NEW m, NEW a \in SmallObjects(m)
  PROVE  a \in Addresses /\ a.page \in SmallPages(m)
<1>1. PICK c \in Small : a \in Objects(m.cache[c])
  BY DEF SmallObjects
<1> QED
  BY <1>1, ObjectPage DEF SmallPages

\* A cache of kmalloc_cache_size has the parameters the lemmas on a cache ask for.
LEMMA KCacheFacts ==
  ASSUME NEW c \in Caches, NEW k, KCacheOK(k, c)
  PROVE  Params(HeadCount[c], MoreCount[c], 0) /\ CacheOK(k, HeadCount[c], MoreCount[c], 0) /\ k \in CacheType
  BY Constants DEF KCacheOK, CacheOK, CacheBase

\* The small caches are untouched, the zone changes.
ZoneFits(m, z, X, L) ==
  /\ L \subseteq X /\ X \subseteq Pages /\ SmallPages(m) \cap X = {}
  /\ ZoneOK(z, SmallPages(m) \cup X, SmallPages(m) \cup L)

\* A step on the zone alone.
LEMMA ZoneStep ==
  ASSUME NEW m, NEW X, NEW L, SmallOK(m, X, L), NEW X2, NEW L2, NEW z, ZoneFits(m, z, X2, L2),
         NEW n, SetsZone(m, n, z)
  PROVE  SmallOK(n, X2, L2) /\ SmallObjects(n) = SmallObjects(m) /\ Frame(m, n) /\ n.cache = m.cache
<1>1. m \in MemType /\ z \in ZoneType
  BY DEF SmallOK, ZoneOK, ZoneFits
<1>2. n \in MemType /\ n.zone = z /\ n.cache = m.cache /\ Frame(m, n)
  BY <1>1, SetZone
<1>3. SmallPages(n) = SmallPages(m) /\ SmallObjects(n) = SmallObjects(m)
  BY <1>2 DEF SmallPages, SmallObjects
<1> QED
  BY <1>2, <1>3 DEF SmallOK, ZoneFits

\* Only other caches and one's own change.
LEMMA OtherStep ==
  ASSUME NEW m, NEW X, NEW L, SmallOK(m, X, L), NEW n \in MemType, n.zone = m.zone,
         \A c \in Small : n.cache[c] = m.cache[c]
  PROVE  SmallOK(n, X, L) /\ SmallObjects(n) = SmallObjects(m)
<1>1. SmallPages(n) = SmallPages(m) /\ SmallObjects(n) = SmallObjects(m)
  BY DEF SmallPages, SmallObjects
<1> QED
  BY <1>1 DEF SmallOK

\* One small cache changes; pages may move between it and the rest.
Moves(k, k2, X, L, X2, L2) ==
  /\ PagesOf(Backs(k2)) \cup X2 = PagesOf(Backs(k)) \cup X
  /\ PagesOf(Backs(k2)) \cup L2 = PagesOf(Backs(k)) \cup L
  /\ PagesOf(Backs(k2)) \cap X2 = {} /\ L2 \subseteq X2 /\ X2 \subseteq Pages

CacheSet(m, n, c, k) == n.cache[c] = k /\ \A d \in Small : d # c => n.cache[d] = m.cache[d]

\* A step on one small cache alone.
LEMMA CacheStep ==
  ASSUME NEW m, NEW X, NEW L, SmallOK(m, X, L), NEW c \in Small, NEW k2, SmallCacheOK(k2, c),
         NEW X2, NEW L2, Moves(m.cache[c], k2, X, L, X2, L2), NEW n, SetsCache(m, n, c, k2)
  PROVE  SmallOK(n, X2, L2) /\ Frame(m, n) /\ CacheSet(m, n, c, k2)
<1> DEFINE P(x) == PagesOf(Backs(x))
<1>1. m \in MemType /\ c \in Caches /\ k2 \in CacheType
  <2>1. c \in Caches
    BY Constants
  <2> QED BY <2>1, KCacheFacts DEF SmallOK, SmallCacheOK
<1>2. /\ n \in MemType /\ n.zone = m.zone /\ n.cache[c] = k2
      /\ \A d \in Caches : d # c => n.cache[d] = m.cache[d]
      /\ n.own = m.own /\ n.own_at = m.own_at /\ n.halted = m.halted
  BY <1>1, SetCache
<1>3. \A d \in Small : d # c => n.cache[d] = m.cache[d]
  <2>1. \A d \in Small : d \in Caches
    BY Constants
  <2> QED BY <1>2, <2>1, Zenon
<1>4. Frame(m, n)
  <2>1. \A d \in Large : d \in Caches /\ d # c
    BY Constants
  <2> QED BY <1>2, <2>1 DEF Frame
<1>5. /\ \A d, e \in Small : d # e => P(m.cache[d]) \cap P(m.cache[e]) = {}
      /\ SmallPages(m) \cap X = {} /\ L \subseteq X
  BY DEF SmallOK
<1>6. \A d \in Small : P(m.cache[d]) \subseteq SmallPages(m) /\ P(n.cache[d]) \subseteq SmallPages(n)
  BY DEF SmallPages
<1>7. /\ P(k2) \cup X2 = P(m.cache[c]) \cup X /\ P(k2) \cup L2 = P(m.cache[c]) \cup L
      /\ P(k2) \cap X2 = {} /\ L2 \subseteq X2 /\ X2 \subseteq Pages
  BY DEF Moves
<1> HIDE DEF P
<1>8. \A d \in Small : d # c => P(n.cache[d]) \cap (P(m.cache[c]) \cup X) = {}
  BY <1>3, <1>5, <1>6
<1>9. \A d, e \in Small : d # e => P(n.cache[d]) \cap P(n.cache[e]) = {}
  <2> SUFFICES ASSUME NEW d \in Small, NEW e \in Small, d # e
               PROVE  P(n.cache[d]) \cap P(n.cache[e]) = {}
    OBVIOUS
  <2>1. CASE d # c /\ e # c
    BY <1>3, <1>5, <2>1
  <2>2. CASE d = c
    BY <1>2, <1>7, <1>8, <2>2
  <2>3. CASE e = c
    BY <1>2, <1>7, <1>8, <2>3
  <2> QED BY <2>1, <2>2, <2>3
<1>10. \A x : x \in SmallPages(n) <=> x \in P(k2) \/ \E d \in Small : d # c /\ x \in P(m.cache[d])
  BY <1>2, <1>3 DEF SmallPages, P
<1>11. \A x : x \in SmallPages(m) <=> x \in P(m.cache[c]) \/ \E d \in Small : d # c /\ x \in P(m.cache[d])
  BY DEF SmallPages, P
<1>12. SmallPages(n) \cup X2 = SmallPages(m) \cup X /\ SmallPages(n) \cup L2 = SmallPages(m) \cup L
  BY <1>7, <1>10, <1>11
<1>13. SmallPages(n) \cap X2 = {}
  <2> SUFFICES ASSUME NEW x \in SmallPages(n), x \in X2 PROVE FALSE
    OBVIOUS
  <2>1. CASE x \in P(k2)
    BY <1>7, <2>1
  <2>2. ASSUME NEW d \in Small, d # c, x \in P(m.cache[d]) PROVE FALSE
    BY <1>3, <1>7, <1>8, <2>2
  <2> QED BY <1>10, <2>1, <2>2
<1>14. \A d \in Small : SmallCacheOK(n.cache[d], d)
  BY <1>2, <1>3 DEF SmallOK
<1>15. SmallOK(n, X2, L2)
  BY <1>2, <1>7, <1>9, <1>12, <1>13, <1>14 DEF SmallOK, P
<1> QED
  BY <1>2, <1>3, <1>4, <1>15 DEF CacheSet

\* n has the small objects of m and a in addition.
Gets(m, n, a) ==
  a \in Addresses \ SmallObjects(m) /\ SmallObjects(n) = SmallObjects(m) \cup {a} /\ Frame(m, n)

\* The page alloc_pages finds, for a slab or for the user.
LEMMA FreePageOK ==
  ASSUME NEW m, NEW X, NEW L, SmallOK(m, X, L), CanAlloc(m), NEW p, p = FreePage(m)
  PROVE  p \in Pages /\ p \notin X /\ p \notin SmallPages(m)
<1>1. m.zone.bits_map = SmallPages(m) \cup X
  BY DEF SmallOK, ZoneOK
<1>2. Pages \ m.zone.bits_map # {} /\ Pages \ m.zone.bits_map \subseteq Nat
  BY Constants DEF CanAlloc
<1>3. p \in Pages \ m.zone.bits_map
  BY <1>2, LeastIn DEF FreePage
<1> QED
  BY <1>1, <1>3

\* alloc_pages without page_init.
LEMMA AllocOK ==
  ASSUME NEW m, NEW X, NEW L, SmallOK(m, X, L), CanAlloc(m), NEW p, p = FreePage(m),
         NEW n, n = [m EXCEPT !.zone = alloc_pages(@, p)]
  PROVE  SmallOK(n, X \cup {p}, L) /\ SmallObjects(n) = SmallObjects(m) /\ Frame(m, n) /\ n.cache = m.cache
<1>1. p \in Pages /\ p \notin X /\ p \notin SmallPages(m)
  BY FreePageOK
<1>2. L \subseteq X /\ X \subseteq Pages /\ SmallPages(m) \cap X = {}
      /\ ZoneOK(m.zone, SmallPages(m) \cup X, SmallPages(m) \cup L)
  BY DEF SmallOK
<1>3. PICK z : z = alloc_pages(m.zone, p)
  OBVIOUS
<1>4. ZoneOK(z, (SmallPages(m) \cup X) \cup {p}, SmallPages(m) \cup L)
  BY <1>1, <1>2, <1>3, ZoneAlloc
<1>5. (SmallPages(m) \cup X) \cup {p} = SmallPages(m) \cup (X \cup {p})
  OBVIOUS
<1>6. ZoneOK(z, SmallPages(m) \cup (X \cup {p}), SmallPages(m) \cup L)
  BY <1>4, <1>5
<1>7. L \subseteq X \cup {p} /\ X \cup {p} \subseteq Pages /\ SmallPages(m) \cap (X \cup {p}) = {}
  BY <1>1, <1>2
<1>8. SetsZone(m, n, z)
  BY <1>3 DEF SetsZone
<1>10. ZoneFits(m, z, X \cup {p}, L)
  BY <1>6, <1>7 DEF ZoneFits
<1> QED
  BY <1>10, <1>8, ZoneStep

\* A page for a slab.
LEMMA GetPageOK ==
  ASSUME NEW m, NEW X, NEW L, SmallOK(m, X, L), CanAlloc(m), NEW p, p = FreePage(m),
         NEW n, n = GetPage(m)
  PROVE  /\ SmallOK(n, X \cup {p}, L \cup {p}) /\ SmallObjects(n) = SmallObjects(m)
         /\ Frame(m, n) /\ n.cache = m.cache
<1>1. p \in Pages /\ p \notin X /\ p \notin SmallPages(m)
  BY FreePageOK
<1>2. L \subseteq X /\ X \subseteq Pages /\ SmallPages(m) \cap X = {}
      /\ ZoneOK(m.zone, SmallPages(m) \cup X, SmallPages(m) \cup L)
  BY DEF SmallOK
<1>3. PICK y, z : y = alloc_pages(m.zone, p) /\ z = page_init(y, p)
  OBVIOUS
<1>4. ZoneOK(y, (SmallPages(m) \cup X) \cup {p}, SmallPages(m) \cup L)
  BY <1>1, <1>2, <1>3, ZoneAlloc
<1>5. ZoneOK(z, (SmallPages(m) \cup X) \cup {p}, (SmallPages(m) \cup L) \cup {p})
  BY <1>1, <1>3, <1>4, ZoneInit
<1>6. (SmallPages(m) \cup X) \cup {p} = SmallPages(m) \cup (X \cup {p})
      /\ (SmallPages(m) \cup L) \cup {p} = SmallPages(m) \cup (L \cup {p})
  OBVIOUS
<1>7. ZoneOK(z, SmallPages(m) \cup (X \cup {p}), SmallPages(m) \cup (L \cup {p}))
  BY <1>5, <1>6
<1>8. L \cup {p} \subseteq X \cup {p} /\ X \cup {p} \subseteq Pages /\ SmallPages(m) \cap (X \cup {p}) = {}
  BY <1>1, <1>2
<1>9. SetsZone(m, n, z)
  BY <1>3 DEF GetPage, SetsZone
<1>10. ZoneFits(m, z, X \cup {p}, L \cup {p})
  BY <1>7, <1>8 DEF ZoneFits
<1> QED
  BY <1>10, <1>9, ZoneStep

\* page_clean and free_pages of a page a slab had.
LEMMA ReleasePageOK ==
  ASSUME NEW m, NEW X, NEW L, SmallOK(m, X, L), NEW p \in L, NEW n, n = ReleasePage(m, p)
  PROVE  /\ SmallOK(n, X \ {p}, L \ {p}) /\ SmallObjects(n) = SmallObjects(m)
         /\ Frame(m, n) /\ n.cache = m.cache
<1>1. L \subseteq X /\ X \subseteq Pages /\ SmallPages(m) \cap X = {}
      /\ ZoneOK(m.zone, SmallPages(m) \cup X, SmallPages(m) \cup L)
  BY DEF SmallOK
<1>2. PICK y, z : y = page_clean(m.zone, p) /\ z = free_pages(y, p)
  OBVIOUS
<1>3. ZoneOK(y, SmallPages(m) \cup X, (SmallPages(m) \cup L) \ {p})
  BY <1>1, <1>2, ZoneClean
<1>4. ZoneOK(z, (SmallPages(m) \cup X) \ {p}, (SmallPages(m) \cup L) \ {p})
  BY <1>1, <1>2, <1>3, ZoneFree
<1>5. (SmallPages(m) \cup X) \ {p} = SmallPages(m) \cup (X \ {p})
      /\ (SmallPages(m) \cup L) \ {p} = SmallPages(m) \cup (L \ {p})
  BY <1>1
<1>6. ZoneOK(z, SmallPages(m) \cup (X \ {p}), SmallPages(m) \cup (L \ {p}))
  BY <1>4, <1>5
<1>7. L \ {p} \subseteq X \ {p} /\ X \ {p} \subseteq Pages /\ SmallPages(m) \cap (X \ {p}) = {}
  BY <1>1
<1>8. SetsZone(m, n, z)
  BY <1>2 DEF ReleasePage, SetsZone
<1>10. ZoneFits(m, z, X \ {p}, L \ {p})
  BY <1>6, <1>7 DEF ZoneFits
<1> QED
  BY <1>10, <1>8, ZoneStep

\* free_pages alone: the page stays counted as linked if it was.
LEMMA FreeOnlyOK ==
  ASSUME NEW m, NEW X, NEW L, SmallOK(m, X, L), NEW p \in X,
         NEW n, n = [m EXCEPT !.zone = free_pages(@, p)]
  PROVE  /\ SmallOK(n, X \ {p}, L \ {p}) /\ SmallObjects(n) = SmallObjects(m)
         /\ Frame(m, n) /\ n.cache = m.cache
<1>1. L \subseteq X /\ X \subseteq Pages /\ SmallPages(m) \cap X = {}
      /\ ZoneOK(m.zone, SmallPages(m) \cup X, SmallPages(m) \cup L)
  BY DEF SmallOK
<1>2. PICK z : z = free_pages(m.zone, p)
  OBVIOUS
<1>3. ZoneOK(z, (SmallPages(m) \cup X) \ {p}, SmallPages(m) \cup L)
  BY <1>1, <1>2, ZoneFree
<1>4. (SmallPages(m) \cup X) \ {p} = SmallPages(m) \cup (X \ {p})
  BY <1>1
<1>5. ZoneOK(z, SmallPages(m) \cup (X \ {p}), SmallPages(m) \cup (L \ {p}))
  BY <1>3, <1>4 DEF ZoneOK
<1>6. L \ {p} \subseteq X \ {p} /\ X \ {p} \subseteq Pages /\ SmallPages(m) \cap (X \ {p}) = {}
  BY <1>1
<1>7. SetsZone(m, n, z)
  BY <1>2 DEF SetsZone
<1>10. ZoneFits(m, z, X \ {p}, L \ {p})
  BY <1>5, <1>6 DEF ZoneFits
<1> QED
  BY <1>10, <1>7, ZoneStep

\* The objects of the small caches when one of them changes.
Only(m, c, a) == \A d \in Small : d # c => a \notin Objects(m.cache[d])

\* They are those of the cache and those of the others.
LEMMA ObjectsSplit ==
  ASSUME NEW m, NEW n, NEW c \in Small, NEW k2, CacheSet(m, n, c, k2)
  PROVE  /\ \A x : x \in SmallObjects(n)
                     <=> x \in Objects(k2) \/ \E d \in Small : d # c /\ x \in Objects(m.cache[d])
         /\ \A x : x \in SmallObjects(m)
                     <=> x \in Objects(m.cache[c]) \/ \E d \in Small : d # c /\ x \in Objects(m.cache[d])
  BY DEF SmallObjects, CacheSet

\* One more object in that cache is one more of them ...
LEMMA ObjectAdded ==
  ASSUME NEW m, NEW n, NEW c \in Small, NEW a, NEW k2, CacheSet(m, n, c, k2), Only(m, c, a),
         Objects(k2) = Objects(m.cache[c]) \cup {a}, a \notin Objects(m.cache[c])
  PROVE  SmallObjects(n) = SmallObjects(m) \cup {a} /\ a \notin SmallObjects(m)
<1>1. \A x : x \in SmallObjects(n)
               <=> x \in Objects(k2) \/ \E d \in Small : d # c /\ x \in Objects(m.cache[d])
  BY ObjectsSplit
<1>2. \A x : x \in SmallObjects(m)
               <=> x \in Objects(m.cache[c]) \/ \E d \in Small : d # c /\ x \in Objects(m.cache[d])
  BY ObjectsSplit
<1> QED
  BY <1>1, <1>2 DEF Only

Loses(m, c, k, a) == Objects(k) = Objects(m.cache[c]) \ {a}

\* ... and one less is one less.
LEMMA ObjectDropped ==
  ASSUME NEW m, NEW n, NEW c \in Small, NEW a, NEW k2, CacheSet(m, n, c, k2), Only(m, c, a),
         Loses(m, c, k2, a)
  PROVE  SmallObjects(n) = SmallObjects(m) \ {a}
<1>1. \A x : x \in SmallObjects(n)
               <=> x \in Objects(k2) \/ \E d \in Small : d # c /\ x \in Objects(m.cache[d])
  BY ObjectsSplit
<1>2. \A x : x \in SmallObjects(m)
               <=> x \in Objects(m.cache[c]) \/ \E d \in Small : d # c /\ x \in Objects(m.cache[d])
  BY ObjectsSplit
<1> QED
  BY <1>1, <1>2 DEF Only, Loses

\* What is known of one small cache.
LEMMA SmallFacts ==
  ASSUME NEW m, NEW X, NEW L, SmallOK(m, X, L), NEW c \in Small
  PROVE  /\ m \in MemType /\ c \in Caches /\ SmallCacheOK(m.cache[c], c)
         /\ Params(HeadCount[c], MoreCount[c], 0) /\ CacheOK(m.cache[c], HeadCount[c], MoreCount[c], 0)
         /\ L \subseteq X /\ X \subseteq Pages /\ PagesOf(Backs(m.cache[c])) \cap X = {}
<1>1. m \in MemType /\ SmallCacheOK(m.cache[c], c) /\ L \subseteq X /\ X \subseteq Pages /\ SmallPages(m) \cap X = {}
  BY DEF SmallOK
<1>2. c \in Caches
  BY Constants
<1>3. PagesOf(Backs(m.cache[c])) \subseteq SmallPages(m)
  BY DEF SmallPages
<1> QED
  BY <1>1, <1>2, <1>3, KCacheFacts DEF SmallCacheOK

\* Objects of one small cache are not in another.
LEMMA ElsewhereOK ==
  ASSUME NEW m, NEW X, NEW L, SmallOK(m, X, L), NEW c \in Small,
         NEW a, a.page \in PagesOf(Backs(m.cache[c])), NEW d \in Small, d # c
  PROVE  a \notin Objects(m.cache[d])
<1>1. PagesOf(Backs(m.cache[c])) \cap PagesOf(Backs(m.cache[d])) = {}
  BY DEF SmallOK
<1> QED
  BY <1>1, ObjectPage

\* Taking an object of a small cache.
LEMMA TakeSmall ==
  ASSUME NEW m, NEW X, NEW L, SmallOK(m, X, L), NEW c \in Small, NEW i \in 1..Len(m.cache[c].pool),
         Clear(m.cache[c].pool[i]) # {}, NEW r, r = TakeObject(m, c, i)
  PROVE  SmallOK(r.m, X, L) /\ Gets(m, r.m, r.address)
<1>1. PICK k, k2, n, a : /\ k = m.cache[c] /\ k2 = Take(k, i) /\ n = [m EXCEPT !.cache[c] = k2]
                         /\ a = FirstObject(k.pool[i])
  OBVIOUS
<1>2. r = [m |-> n, address |-> a]
  BY <1>1 DEF TakeObject
<1>3. /\ SmallCacheOK(k, c) /\ Params(HeadCount[c], MoreCount[c], 0)
      /\ CacheOK(k, HeadCount[c], MoreCount[c], 0) /\ L \subseteq X /\ X \subseteq Pages
      /\ PagesOf(Backs(k)) \cap X = {}
  BY <1>1, SmallFacts
<1>4. CacheOK(k2, HeadCount[c], MoreCount[c], 0) /\ Gives(k, k2, a)
  BY <1>1, <1>3, TakeOK
<1>5. SmallCacheOK(k2, c)
  BY <1>3, <1>4 DEF SmallCacheOK, KCacheOK, Gives
<1>6. Moves(m.cache[c], k2, X, L, X, L)
  BY <1>1, <1>3, <1>4 DEF Moves, Gives
<1>7. SetsCache(m, n, c, k2)
  BY <1>1 DEF SetsCache
<1>8. SmallOK(n, X, L) /\ Frame(m, n) /\ CacheSet(m, n, c, k2)
  BY <1>5, <1>6, <1>7, CacheStep
<1>9. a \in Addresses /\ a.page \in PagesOf(Backs(m.cache[c]))
  <2>1. a \in Objects(k2) /\ Backs(k2) = Backs(k)
    BY <1>4 DEF Gives
  <2> QED BY <1>1, <2>1, ObjectPage
<1>10. Only(m, c, a)
  BY <1>9, ElsewhereOK DEF Only
<1>11. SmallObjects(n) = SmallObjects(m) \cup {a} /\ a \notin SmallObjects(m)
  <2>1. Objects(k2) = Objects(m.cache[c]) \cup {a} /\ a \notin Objects(m.cache[c])
    BY <1>1, <1>4 DEF Gives
  <2> QED BY <1>8, <1>10, <2>1, ObjectAdded
<1> QED
  BY <1>2, <1>8, <1>9, <1>11 DEF Gets

\* kmalloc from a small cache: an object nobody has, or NULL and nothing changed.
LEMMA KmallocSmallOK ==
  ASSUME NEW m, NEW X, NEW L, SmallOK(m, X, L), NEW c \in Small, NEW r, r = kmalloc_small(m, c)
  PROVE  \/ r.address = NULL /\ r.m = m
         \/ r.address # NULL /\ SmallOK(r.m, X, L) /\ Gets(m, r.m, r.address)
<1>1. /\ m \in MemType /\ SmallCacheOK(m.cache[c], c) /\ Params(HeadCount[c], MoreCount[c], 0)
      /\ CacheOK(m.cache[c], HeadCount[c], MoreCount[c], 0) /\ L \subseteq X /\ X \subseteq Pages
      /\ PagesOf(Backs(m.cache[c])) \cap X = {}
  BY SmallFacts
<1>2. \A n, a : Gets(m, n, a) => a # NULL
  BY Constants DEF Gets
<1>3. CASE m.cache[c].total_free # 0
  <2>1. PICK i : i = SearchSlab(m.cache[c])
    OBVIOUS
  <2>2. i \in 1..Len(m.cache[c].pool) /\ Clear(m.cache[c].pool[i]) # {}
    BY <1>1, <1>3, <2>1, SearchOK
  <2>3. r = TakeObject(m, c, i)
    BY <1>3, <2>1 DEF kmalloc_small
  <2>4. SmallOK(r.m, X, L) /\ Gets(m, r.m, r.address)
    BY <2>2, <2>3, TakeSmall
  <2> QED BY <1>2, <2>4
<1>4. CASE m.cache[c].total_free = 0 /\ ~CanAlloc(m)
  BY <1>4 DEF kmalloc_small, Failed
<1>5. CASE m.cache[c].total_free = 0 /\ CanAlloc(m)
  <2>1. PICK p, m1, s, k, k2, n : /\ p = FreePage(m) /\ m1 = GetPage(m) /\ s = NewSlab(p, MoreCount[c], NULL, NULL)
                                  /\ k = m1.cache[c] /\ k2 = LinkSlab(k, Len(k.pool) + 1, s)
                                  /\ n = CreateSmall(m, c)
    OBVIOUS
  <2>2. p \in Pages /\ p \notin X /\ p \notin SmallPages(m)
    BY <1>5, <2>1, FreePageOK
  <2>3. /\ SmallOK(m1, X \cup {p}, L \cup {p}) /\ SmallObjects(m1) = SmallObjects(m)
        /\ Frame(m, m1) /\ m1.cache = m.cache
    BY <1>5, <2>1, GetPageOK
  <2>4. k = m.cache[c] /\ SmallCacheOK(k, c) /\ CacheOK(k, HeadCount[c], MoreCount[c], 0) /\ k.total_free = 0
    BY <1>1, <1>5, <2>1, <2>3
  <2>5. SetsCache(m1, n, c, k2)
    BY <2>1 DEF SetsCache, CreateSmall, AddSlab
  <2>6. p \notin PagesOf(Backs(k))
    BY <2>2, <2>4 DEF SmallPages
  <2>7. Fresh(s, MoreCount[c]) /\ s.page = p /\ s.desc = NULL /\ s.map = NULL
    <3>1. MoreCount[c] \in Nat
      BY <1>1 DEF Params
    <3>2. /\ s \in Slabs /\ s.bits = {} /\ s.color_count = MoreCount[c] /\ s.free_count = MoreCount[c]
          /\ s.using_count = 0 /\ s.page = p /\ s.desc = NULL /\ s.map = NULL
      BY <2>1, <2>2, <3>1 DEF NewSlab, Slabs
    <3> QED BY <3>2 DEF Fresh
  <2>8. PICK i : i = Len(k.pool) + 1 /\ i \in 2..(Len(k.pool) + 1) /\ Len(k.pool) \in Nat
    <3>1. Len(k.pool) \in Nat /\ 1 \in 1..Len(k.pool)
      BY <1>1, <2>4, CacheFacts DEF CacheOK
    <3>2. Len(k.pool) + 1 \in 2..(Len(k.pool) + 1)
      BY <3>1
    <3> QED BY <3>1, <3>2, Zenon
  <2>20. CacheOK(k2, HeadCount[c], MoreCount[c], 0) /\ Links(k, k2, i, s)
    <3>1. k2 = LinkSlab(k, i, s) /\ s.page \notin PagesOf(Backs(k))
      BY <2>1, <2>6, <2>7, <2>8
    <3> QED BY <1>1, <2>4, <2>7, <2>8, <3>1, LinkOK
  <2>9. /\ Backs(k2) = Backs(k) \cup {Back(s)} /\ First(k2) = First(k) /\ Objects(k2) = Objects(k)
        /\ i \in 1..Len(k2.pool) /\ k2.pool[i] = s
        /\ Len(k2.pool) = i /\ Clear(s) # {}
    BY <2>8, <2>20 DEF Links
  <2>10. Back(s).page = p /\ Back(s).desc = NULL /\ Back(s).map = NULL
    BY <2>7 DEF Back
  <2>11. SmallCacheOK(k2, c)
    BY <2>4, <2>9, <2>10, <2>20 DEF SmallCacheOK, KCacheOK
  <2>12. PagesOf(Backs(k2)) = PagesOf(Backs(k)) \cup {p}
    BY <2>9, <2>10 DEF PagesOf
  <2>13. Moves(m1.cache[c], k2, X \cup {p}, L \cup {p}, X, L)
    BY <1>1, <2>1, <2>2, <2>4, <2>12 DEF Moves
  <2>14. SmallOK(n, X, L) /\ Frame(m1, n) /\ CacheSet(m1, n, c, k2)
    BY <2>3, <2>5, <2>11, <2>13, CacheStep
  <2>15. SmallObjects(n) = SmallObjects(m)
    <3>1. \A x : x \in SmallObjects(n) <=> \E d \in Small : x \in Objects(n.cache[d])
      BY DEF SmallObjects
    <3>2. \A d \in Small : Objects(n.cache[d]) = Objects(m1.cache[d])
      BY <2>1, <2>9, <2>14 DEF CacheSet
    <3> QED BY <2>3, <3>1, <3>2 DEF SmallObjects
  <2>16. r = TakeObject(n, c, Len(n.cache[c].pool))
    BY <1>5, <2>1 DEF kmalloc_small
  <2>17. Len(n.cache[c].pool) \in 1..Len(n.cache[c].pool) /\ Clear(n.cache[c].pool[Len(n.cache[c].pool)]) # {}
    BY <2>8, <2>9, <2>14 DEF CacheSet
  <2>18. SmallOK(r.m, X, L) /\ Gets(n, r.m, r.address)
    BY <2>14, <2>16, <2>17, TakeSmall
  <2>19. Gets(m, r.m, r.address)
    BY <2>3, <2>14, <2>15, <2>18, FrameTrans DEF Gets
  <2> QED BY <1>2, <2>18, <2>19
<1> QED
  BY <1>3, <1>4, <1>5

\* kfree of an object of a small cache.
LEMMA KfreeSmallOK ==
  ASSUME NEW m, NEW X, NEW L, SmallOK(m, X, L), NEW a \in SmallObjects(m), NEW n, n = KfreeSmall(m, a)
  PROVE  SmallOK(n, X, L) /\ SmallObjects(n) = SmallObjects(m) \ {a} /\ Frame(m, n)
<1>1. PICK c : c = CHOOSE d \in Small : Holds(m, d, a)
  OBVIOUS
<1>2. c \in Small /\ a \in Objects(m.cache[c])
  <2>1. PICK e \in Small : a \in Objects(m.cache[e])
    BY DEF SmallObjects
  <2>2. \A d : Holds(m, d, a) <=> a.page \in PagesOf(Backs(m.cache[d]))
    BY CachePages DEF Holds
  <2>3. Holds(m, e, a)
    BY <2>1, <2>2, ObjectPage
  <2>4. c \in Small /\ Holds(m, c, a)
    BY <1>1, <2>3
  <2>5. c = e
    BY <2>1, <2>2, <2>4, ElsewhereOK
  <2> QED BY <2>1, <2>5
<1>3. PICK k, i, k1 : k = m.cache[c] /\ i = SlabOf(k, a) /\ k1 = GiveBack(k, i, a.index)
  OBVIOUS
<1>4. /\ SmallCacheOK(k, c) /\ Params(HeadCount[c], MoreCount[c], 0)
      /\ CacheOK(k, HeadCount[c], MoreCount[c], 0) /\ L \subseteq X /\ X \subseteq Pages
      /\ PagesOf(Backs(k)) \cap X = {}
  BY <1>2, <1>3, SmallFacts
<1>5. Only(m, c, a)
  BY <1>2, ObjectPage, ElsewhereOK DEF Only
<1>6. CASE ~(Spare(k1, i) /\ i # 1)
  <2>1. CacheOK(k1, HeadCount[c], MoreCount[c], 0) /\ Drops(k, k1, a) /\ Backs(k1) = Backs(k)
    BY <1>2, <1>3, <1>4, <1>6, FreeKeeps
  <2>2. SmallCacheOK(k1, c)
    BY <1>4, <2>1 DEF SmallCacheOK, KCacheOK, Drops
  <2>3. Moves(m.cache[c], k1, X, L, X, L)
    BY <1>3, <1>4, <2>1 DEF Moves
  <2>4. SetsCache(m, n, c, k1)
    BY <1>1, <1>3, <1>6 DEF SetsCache, KfreeSmall, kfree_small, FreeObject
  <2>5. SmallOK(n, X, L) /\ Frame(m, n) /\ CacheSet(m, n, c, k1)
    BY <1>2, <2>2, <2>3, <2>4, CacheStep
  <2>6. SmallObjects(n) = SmallObjects(m) \ {a}
    <3>1. Loses(m, c, k1, a)
      BY <1>3, <2>1 DEF Drops, Loses
    <3> QED BY <1>2, <1>5, <2>5, <3>1, ObjectDropped
  <2> QED BY <2>5, <2>6
<1>7. CASE Spare(k1, i) /\ i # 1
  <2>1. PICK k2, s, n1, p : k2 = UnlinkSlab(k1, i) /\ s = k1.pool[i] /\ n1 = [m EXCEPT !.cache[c] = k2] /\ p = s.page
    OBVIOUS
  <2>2. /\ CacheOK(k2, HeadCount[c], MoreCount[c], 0) /\ Drops(k, k2, a)
        /\ Backs(k2) = Backs(k) \ {Back(s)} /\ Back(s) \in Backs(k) /\ Back(s) # First(k)
    BY <1>2, <1>3, <1>4, <1>7, <2>1, FreeDrops
  <2>3. SmallCacheOK(k2, c)
    BY <1>4, <2>2 DEF SmallCacheOK, KCacheOK, Drops
  <2>4. PagesOf(Backs(k2)) = PagesOf(Backs(k)) \ {p} /\ p \in PagesOf(Backs(k))
    <3>1. Back(s).page = p
      BY <2>1 DEF Back
    <3>2. \A b, e \in Backs(k) : b.page = e.page => b = e
      BY <1>4, BacksApart DEF CacheOK
    <3> QED BY <2>2, <3>1, <3>2 DEF PagesOf
  <2>5. p \in Pages
    BY <1>4, <2>4, BacksApart DEF CacheOK
  <2>6. Moves(m.cache[c], k2, X, L, X \cup {p}, L \cup {p})
    BY <1>3, <1>4, <2>4, <2>5 DEF Moves
  <2>7. SetsCache(m, n1, c, k2)
    BY <2>1 DEF SetsCache
  <2>8. SmallOK(n1, X \cup {p}, L \cup {p}) /\ Frame(m, n1) /\ CacheSet(m, n1, c, k2)
    BY <1>2, <2>3, <2>6, <2>7, CacheStep
  <2>9. SmallObjects(n1) = SmallObjects(m) \ {a}
    <3>1. Loses(m, c, k2, a)
      BY <1>3, <2>2 DEF Drops, Loses
    <3> QED BY <1>2, <1>5, <2>8, <3>1, ObjectDropped
  <2>10. n = ReleasePage(n1, p)
    BY <1>1, <1>3, <1>7, <2>1 DEF KfreeSmall, kfree_small, FreeObject
  <2>11. p \in L \cup {p}
    OBVIOUS
  <2>12. /\ SmallOK(n, (X \cup {p}) \ {p}, (L \cup {p}) \ {p}) /\ SmallObjects(n) = SmallObjects(n1)
         /\ Frame(n1, n)
    BY <2>8, <2>10, <2>11, ReleasePageOK
  <2>13. (X \cup {p}) \ {p} = X /\ (L \cup {p}) \ {p} = L
    BY <1>4, <2>4
  <2> QED BY <2>8, <2>9, <2>12, <2>13, FrameTrans
<1> QED
  BY <1>6, <1>7

-----------------------------------------------------------------------------
(* The structures of slabs are objects of the small caches *)

\* What is freed with a slab whose structures are not in its page.
LEMMA DropSlabOK ==
  ASSUME NEW m, NEW X, NEW L, SmallOK(m, X, L), NEW s, s.page \in L, s.desc \in SmallObjects(m),
         s.map \in SmallObjects(m), s.desc # s.map, NEW n, n = DropSlab(m, s)
  PROVE  /\ SmallOK(n, X \ {s.page}, L \ {s.page}) /\ Frame(m, n)
         /\ SmallObjects(n) = SmallObjects(m) \ {s.desc, s.map}
<1>1. PICK a, b : a = KfreeSmall(m, s.map) /\ b = ReleasePage(a, s.page)
  OBVIOUS
<1>2. n = KfreeSmall(b, s.desc)
  BY <1>1 DEF DropSlab
<1>3. SmallOK(a, X, L) /\ SmallObjects(a) = SmallObjects(m) \ {s.map} /\ Frame(m, a)
  BY <1>1, KfreeSmallOK
<1>4. SmallOK(b, X \ {s.page}, L \ {s.page}) /\ SmallObjects(b) = SmallObjects(a) /\ Frame(a, b)
  BY <1>1, <1>3, ReleasePageOK
<1>5. s.desc \in SmallObjects(b)
  BY <1>3, <1>4
<1>6. SmallOK(n, X \ {s.page}, L \ {s.page}) /\ SmallObjects(n) = SmallObjects(b) \ {s.desc} /\ Frame(b, n)
  BY <1>2, <1>4, <1>5, KfreeSmallOK
<1>7. Frame(m, n)
  BY <1>3, <1>4, <1>6, FrameTrans
<1>8. SmallObjects(n) = SmallObjects(m) \ {s.desc, s.map}
  BY <1>3, <1>4, <1>6
<1> QED
  BY <1>6, <1>7, <1>8

\* MakeSlab has given a slab that takes objects d and b and page p.
Made(m, n, X, L, p, d, b) ==
  /\ SmallOK(n, X \cup {p}, L \cup {p}) /\ Frame(m, n)
  /\ p \in Pages /\ p \notin X /\ d # b
  /\ {d, b} \subseteq Addresses /\ {d, b} \cap SmallObjects(m) = {}
  /\ SmallObjects(n) = SmallObjects(m) \cup {d, b}

\* It does, or it leaves pages and objects as they were.
LEMMA MakeSlabOK ==
  ASSUME NEW m, NEW X, NEW L, SmallOK(m, X, L), NEW r, r = MakeSlab(m)
  PROVE  \/ /\ r.slab.color_count = 0 /\ SmallOK(r.m, X, L) /\ SmallObjects(r.m) = SmallObjects(m)
            /\ Frame(m, r.m)
         \/ \E p, d, b : r.slab = NewSlab(p, OwnCount, d, b) /\ Made(m, r.m, X, L, p, d, b)
<1>1. PICK d, p, b, none : /\ d = kmalloc_small(m, DescCache) /\ p = FreePage(d.m)
                           /\ b = kmalloc_small(GetPage(d.m), OwnMapCache) /\ none = NewSlab(0, 0, NULL, NULL)
  OBVIOUS
<1>2. DescCache \in Small /\ OwnMapCache \in Small
  BY MemoryAssumption
<1>3. none.color_count = 0
  BY <1>1 DEF NewSlab
<1>4. \/ d.address = NULL /\ d.m = m
      \/ d.address # NULL /\ SmallOK(d.m, X, L) /\ Gets(m, d.m, d.address)
  BY <1>1, <1>2, KmallocSmallOK
<1>5. CASE d.address = NULL
  <2>1. r = [m |-> m, slab |-> none]
    BY <1>1, <1>5 DEF MakeSlab
  <2> QED BY <1>3, <2>1 DEF Frame
<1>6. CASE d.address # NULL /\ ~CanAlloc(d.m)
  <2>1. PICK n : n = KfreeSmall(d.m, d.address)
    OBVIOUS
  <2>2. r = [m |-> n, slab |-> none]
    BY <1>1, <1>6, <2>1 DEF MakeSlab
  <2>3. SmallOK(d.m, X, L) /\ Gets(m, d.m, d.address)
    BY <1>4, <1>6
  <2>4. d.address \in SmallObjects(d.m)
    BY <2>3 DEF Gets
  <2>5. SmallOK(n, X, L) /\ SmallObjects(n) = SmallObjects(d.m) \ {d.address} /\ Frame(d.m, n)
    BY <2>1, <2>3, <2>4, KfreeSmallOK
  <2>6. SmallObjects(n) = SmallObjects(m) /\ Frame(m, n)
    BY <2>3, <2>5, FrameTrans DEF Gets
  <2> QED BY <1>3, <2>2, <2>5, <2>6
<1>7. CASE d.address # NULL /\ CanAlloc(d.m)
  <2>1. SmallOK(d.m, X, L) /\ Gets(m, d.m, d.address)
    BY <1>4, <1>7
  <2>2. p \in Pages /\ p \notin X /\ p \notin SmallPages(d.m)
    BY <1>1, <1>7, <2>1, FreePageOK
  <2>3. PICK g : g = GetPage(d.m)
    OBVIOUS
  <2>4. SmallOK(g, X \cup {p}, L \cup {p}) /\ SmallObjects(g) = SmallObjects(d.m) /\ Frame(d.m, g)
    BY <1>1, <1>7, <2>1, <2>3, GetPageOK
  <2>5. \/ b.address = NULL /\ b.m = g
        \/ b.address # NULL /\ SmallOK(b.m, X \cup {p}, L \cup {p}) /\ Gets(g, b.m, b.address)
    BY <1>1, <1>2, <2>3, <2>4, KmallocSmallOK
  <2>6. CASE b.address = NULL
    <3>1. PICK f, n : f = [b.m EXCEPT !.zone = free_pages(@, p)] /\ n = KfreeSmall(f, d.address)
      OBVIOUS
    <3>2. r = [m |-> n, slab |-> none]
      BY <1>1, <1>7, <2>6, <3>1 DEF MakeSlab
    <3>3. b.m = g /\ p \in X \cup {p}
      BY <2>5, <2>6
    <3>4. L \subseteq X /\ X \subseteq Pages
      BY <2>1 DEF SmallOK
    <3>5. /\ SmallOK(f, (X \cup {p}) \ {p}, (L \cup {p}) \ {p}) /\ SmallObjects(f) = SmallObjects(g)
          /\ Frame(g, f)
      <4>1. SmallOK(b.m, X \cup {p}, L \cup {p})
        BY <2>4, <3>3
      <4>2. PICK h : h = b.m
        OBVIOUS
      <4>3. SmallOK(h, X \cup {p}, L \cup {p}) /\ f = [h EXCEPT !.zone = free_pages(@, p)] /\ h = g
        BY <3>1, <3>3, <4>1, <4>2
      <4> QED BY <3>3, <4>3, FreeOnlyOK
    <3>6. (X \cup {p}) \ {p} = X /\ (L \cup {p}) \ {p} = L
      BY <2>2, <3>4
    <3>7. SmallOK(f, X, L) /\ d.address \in SmallObjects(f)
      BY <2>1, <2>4, <3>5, <3>6 DEF Gets
    <3>8. SmallOK(n, X, L) /\ SmallObjects(n) = SmallObjects(f) \ {d.address} /\ Frame(f, n)
      BY <3>1, <3>7, KfreeSmallOK
    <3>9. Frame(m, n)
      BY <2>1, <2>4, <3>5, <3>8, FrameTrans DEF Gets
    <3>10. SmallObjects(n) = SmallObjects(m)
      BY <2>1, <2>4, <3>5, <3>8 DEF Gets
    <3> QED BY <1>3, <3>2, <3>8, <3>9, <3>10
  <2>7. CASE b.address # NULL
    <3>1. r = [m |-> b.m, slab |-> NewSlab(p, OwnCount, d.address, b.address)]
      BY <1>1, <1>7, <2>7 DEF MakeSlab
    <3>2. SmallOK(b.m, X \cup {p}, L \cup {p}) /\ Gets(g, b.m, b.address)
      BY <2>5, <2>7
    <3>3. Frame(m, b.m)
      BY <2>1, <2>4, <3>2, FrameTrans DEF Gets
    <3>4. Made(m, b.m, X, L, p, d.address, b.address)
      BY <2>1, <2>2, <2>4, <3>2, <3>3 DEF Gets, Made
    <3> QED BY <3>1, <3>4
  <2> QED BY <2>6, <2>7
<1> QED
  BY <1>5, <1>6, <1>7

-----------------------------------------------------------------------------
(* The caches that take their structures from the small ones *)

\* The name for the cache of slab_create is none of theirs.
LEMMA OwnNotLarge == OWN \notin Large
<1>1. PICK x : x \notin Large
  BY NoSetContainsEverything, Zenon
<1> QED
  BY <1>1, Zenon DEF OWN

\* A slab with structures of its own comes or goes.
LEMMA UsePlus ==
  ASSUME NEW B, OneUse(B), NEW b, b.desc \notin Structs(B), b.map \notin Structs(B), b.desc # b.map,
         b.desc # NULL, b.map # NULL
  PROVE  OneUse(B \cup {b}) /\ Structs(B \cup {b}) = Structs(B) \cup {b.desc, b.map}
<1>1. \A e \in B : e.desc # NULL => e.desc \in Structs(B)
  BY DEF Structs
<1>2. \A e \in B : e.map # NULL => e.map \in Structs(B)
  BY DEF Structs
<1>3. OneUse(B \cup {b})
  <2>1. ASSUME NEW x \in B \cup {b}, NEW y \in B \cup {b}, x.desc = y.desc PROVE x = y \/ x.desc = NULL
    BY <1>1, <2>1 DEF OneUse
  <2>2. ASSUME NEW x \in B \cup {b}, NEW y \in B \cup {b}, x.map = y.map PROVE x = y \/ x.map = NULL
    BY <1>2, <2>2 DEF OneUse
  <2>3. ASSUME NEW x \in B \cup {b}, NEW y \in B \cup {b}, x.desc = y.map PROVE x.desc = NULL
    BY <1>1, <1>2, <2>3 DEF OneUse
  <2> QED BY <2>1, <2>2, <2>3 DEF OneUse
<1>4. Structs(B \cup {b}) = Structs(B) \cup {b.desc, b.map}
  <2>1. \A x : x \in Structs(B) <=> x # NULL /\ \E e \in B : x = e.desc \/ x = e.map
    BY DEF Structs
  <2>2. \A x : x \in Structs(B \cup {b})
               <=> x # NULL /\ \E e \in B \cup {b} : x = e.desc \/ x = e.map
    BY DEF Structs
  <2>3. \A x : x \in Structs(B \cup {b}) <=> x \in Structs(B) \/ x \in {b.desc, b.map}
    BY <2>1, <2>2
  <2> QED BY <2>3
<1> QED
  BY <1>3, <1>4

\* ... and without one of them.
LEMMA UseMinus ==
  ASSUME NEW B, OneUse(B), NEW b \in B, b.desc # NULL, b.map # NULL
  PROVE  /\ OneUse(B \ {b}) /\ Structs(B \ {b}) = Structs(B) \ {b.desc, b.map}
         /\ b.desc # b.map /\ {b.desc, b.map} \subseteq Structs(B)
<1>1. OneUse(B \ {b})
  BY DEF OneUse
<1>2. b.desc # b.map
  BY DEF OneUse
<1>3. \A e \in B : e # b => e.desc \notin {b.desc, b.map} /\ e.map \notin {b.desc, b.map}
  BY DEF OneUse
<1>4. \A x : x \in Structs(B) <=> x # NULL /\ \E e \in B : x = e.desc \/ x = e.map
  BY DEF Structs
<1>5. \A x : x \in Structs(B \ {b}) <=> x # NULL /\ \E e \in B : e # b /\ (x = e.desc \/ x = e.map)
  BY DEF Structs
<1>6. Structs(B \ {b}) = Structs(B) \ {b.desc, b.map}
  BY <1>3, <1>4, <1>5
<1> QED
  BY <1>1, <1>2, <1>4, <1>6

\* Only cache c of them changes.
OneClient(m, n, c, k2) == Of(n, c) = k2 /\ \A d \in Clients : d # c => Of(n, d) = Of(m, d)

\* Pages of the slabs of all clients.
LEMMA ClientPages ==
  ASSUME NEW m, NEW p
  PROVE  p \in PagesOf(AllBacks(m)) <=> \E c \in Clients : p \in PagesOf(Backs(Of(m, c)))
  BY DEF AllBacks, PagesOf

\* Their slabs are those of the client that changes and those of the others.
LEMMA BacksSplit ==
  ASSUME NEW m, NEW n, NEW c \in Clients, NEW k2, OneClient(m, n, c, k2)
  PROVE  /\ \A x : x \in AllBacks(n)
                     <=> x \in Backs(k2) \/ \E d \in Clients : d # c /\ x \in Backs(Of(m, d))
         /\ \A x : x \in AllBacks(m)
                     <=> x \in Backs(Of(m, c)) \/ \E d \in Clients : d # c /\ x \in Backs(Of(m, d))
  BY DEF AllBacks, OneClient

\* No two of their slabs have the same page.
LEMMA AllBacksApart ==
  ASSUME NEW m, ClientsOK(m)
  PROVE  /\ \A b, e \in AllBacks(m) : b.page = e.page => b = e
         /\ PagesOf(AllBacks(m)) \subseteq Pages
<1>1. ASSUME NEW c \in Clients
      PROVE  /\ \A b, e \in Backs(Of(m, c)) : b.page = e.page => b = e
             /\ PagesOf(Backs(Of(m, c))) \subseteq Pages
  <2>1. ClientOK(Of(m, c), c)
    BY DEF ClientsOK
  <2>2. CASE Of(m, c) = NoCache
    BY <2>2 DEF NoCache, Backs, PagesOf
  <2>3. CASE Of(m, c) # NoCache
    <3>1. \E hc, mc, off : CacheBase(Of(m, c), hc, mc, off)
      BY <2>1, <2>3 DEF ClientOK, KCacheOK, CacheOK
    <3> QED BY <3>1, BacksApart
  <2> QED BY <2>2, <2>3
<1>2. \A c, d \in Clients : c # d => PagesOf(Backs(Of(m, c))) \cap PagesOf(Backs(Of(m, d))) = {}
  BY DEF ClientsOK
<1>3. ASSUME NEW b \in AllBacks(m), NEW e \in AllBacks(m), b.page = e.page PROVE b = e
  <2>1. PICK c \in Clients : b \in Backs(Of(m, c))
    BY DEF AllBacks
  <2>2. PICK d \in Clients : e \in Backs(Of(m, d))
    BY DEF AllBacks
  <2>3. b.page \in PagesOf(Backs(Of(m, c))) /\ e.page \in PagesOf(Backs(Of(m, d)))
    BY <2>1, <2>2 DEF PagesOf
  <2>4. c = d
    BY <1>2, <1>3, <2>3
  <2> QED BY <1>1, <1>3, <2>1, <2>2, <2>4
<1>4. PagesOf(AllBacks(m)) \subseteq Pages
  BY <1>1, ClientPages
<1> QED
  BY <1>3, <1>4

\* What is left to show of ClientsOK when a cache has changed: own_at.
OwnAtOK(n) == (n.own_at = NULL <=> n.own = NoCache) /\ n.own_at \notin Structs(AllBacks(n))

\* An object of the cache is taken or given back.
LEMMA ClientSame ==
  ASSUME NEW m, ClientsOK(m), NEW c \in Clients, NEW k2, NEW n, OneClient(m, n, c, k2),
         ClientOK(k2, c), Backs(k2) = Backs(Of(m, c))
  PROVE  AllBacks(n) = AllBacks(m) /\ (OwnAtOK(n) => ClientsOK(n))
<1>1. AllBacks(n) = AllBacks(m)
  BY BacksSplit
<1>2. \A d \in Clients : Backs(Of(n, d)) = Backs(Of(m, d))
  BY DEF OneClient
<1>3. \A d \in Clients : ClientOK(Of(n, d), d)
  BY DEF OneClient, ClientsOK
<1>4. \A d, e \in Clients : d # e => PagesOf(Backs(Of(n, d))) \cap PagesOf(Backs(Of(n, e))) = {}
  BY <1>2 DEF ClientsOK
<1>5. OneUse(AllBacks(n))
  BY <1>1 DEF ClientsOK
<1> QED
  BY <1>1, <1>3, <1>4, <1>5 DEF ClientsOK, OwnAtOK

\* It gets a slab.
Joins(m, b) ==
  /\ b.page \notin PagesOf(AllBacks(m)) /\ b.desc # b.map /\ b.desc # NULL /\ b.map # NULL
  /\ b.desc \notin Structs(AllBacks(m)) /\ b.map \notin Structs(AllBacks(m))

\* The clients with the slab it gets.
LEMMA ClientJoin ==
  ASSUME NEW m, ClientsOK(m), NEW c \in Clients, NEW k2, NEW n, OneClient(m, n, c, k2),
         ClientOK(k2, c), NEW b, Backs(k2) = Backs(Of(m, c)) \cup {b}, Joins(m, b)
  PROVE  /\ AllBacks(n) = AllBacks(m) \cup {b} /\ (OwnAtOK(n) => ClientsOK(n))
         /\ Structs(AllBacks(n)) = Structs(AllBacks(m)) \cup {b.desc, b.map}
         /\ PagesOf(AllBacks(n)) = PagesOf(AllBacks(m)) \cup {b.page}
<1>1. AllBacks(n) = AllBacks(m) \cup {b}
  BY BacksSplit
<1>2. \A d \in Clients : ClientOK(Of(n, d), d)
  BY DEF OneClient, ClientsOK
<1>3. OneUse(AllBacks(n)) /\ Structs(AllBacks(n)) = Structs(AllBacks(m)) \cup {b.desc, b.map}
  BY <1>1, UsePlus DEF ClientsOK, Joins
<1>4. PagesOf(AllBacks(n)) = PagesOf(AllBacks(m)) \cup {b.page}
  BY <1>1 DEF PagesOf
<1>5. PagesOf(Backs(k2)) = PagesOf(Backs(Of(m, c))) \cup {b.page}
  BY DEF PagesOf
<1>6. \A d \in Clients : b.page \notin PagesOf(Backs(Of(m, d)))
  BY ClientPages DEF Joins
<1>7. ASSUME NEW d \in Clients, NEW e \in Clients, d # e
      PROVE  PagesOf(Backs(Of(n, d))) \cap PagesOf(Backs(Of(n, e))) = {}
  <2>1. PagesOf(Backs(Of(m, d))) \cap PagesOf(Backs(Of(m, e))) = {}
    BY <1>7 DEF ClientsOK
  <2>2. PagesOf(Backs(Of(n, d))) \subseteq PagesOf(Backs(Of(m, d))) \cup (IF d = c THEN {b.page} ELSE {})
    BY <1>5 DEF OneClient
  <2>3. PagesOf(Backs(Of(n, e))) \subseteq PagesOf(Backs(Of(m, e))) \cup (IF e = c THEN {b.page} ELSE {})
    BY <1>5 DEF OneClient
  <2> QED BY <1>6, <1>7, <2>1, <2>2, <2>3
<1> QED
  BY <1>1, <1>2, <1>3, <1>4, <1>7 DEF ClientsOK, OwnAtOK

\* It loses one.
LEMMA ClientLeave ==
  ASSUME NEW m, ClientsOK(m), NEW c \in Clients, NEW k2, NEW n, OneClient(m, n, c, k2),
         ClientOK(k2, c), NEW b \in Backs(Of(m, c)), Backs(k2) = Backs(Of(m, c)) \ {b},
         b.desc # NULL, b.map # NULL
  PROVE  /\ b \in AllBacks(m) /\ AllBacks(n) = AllBacks(m) \ {b} /\ (OwnAtOK(n) => ClientsOK(n))
         /\ Structs(AllBacks(n)) = Structs(AllBacks(m)) \ {b.desc, b.map}
         /\ b.desc # b.map /\ {b.desc, b.map} \subseteq Structs(AllBacks(m))
         /\ PagesOf(AllBacks(n)) = PagesOf(AllBacks(m)) \ {b.page} /\ b.page \in PagesOf(AllBacks(m))
<1>1. b \in AllBacks(m)
  BY BacksSplit
<1>2. \A x, y \in AllBacks(m) : x.page = y.page => x = y
  BY AllBacksApart
<1>3. \A d \in Clients : d # c => b \notin Backs(Of(m, d))
  <2> SUFFICES ASSUME NEW d \in Clients, d # c, b \in Backs(Of(m, d)) PROVE FALSE
    OBVIOUS
  <2>1. b.page \in PagesOf(Backs(Of(m, d))) /\ b.page \in PagesOf(Backs(Of(m, c)))
    BY DEF PagesOf
  <2> QED BY <2>1 DEF ClientsOK
<1>4. AllBacks(n) = AllBacks(m) \ {b}
  <2>1. \A x : x \in AllBacks(n)
                <=> x \in Backs(k2) \/ \E d \in Clients : d # c /\ x \in Backs(Of(m, d))
    BY BacksSplit
  <2>2. \A x : x \in AllBacks(m)
                <=> x \in Backs(Of(m, c)) \/ \E d \in Clients : d # c /\ x \in Backs(Of(m, d))
    BY BacksSplit
  <2> QED BY <1>3, <2>1, <2>2
<1>5. /\ OneUse(AllBacks(n)) /\ Structs(AllBacks(n)) = Structs(AllBacks(m)) \ {b.desc, b.map}
      /\ b.desc # b.map /\ {b.desc, b.map} \subseteq Structs(AllBacks(m))
  BY <1>1, <1>4, UseMinus DEF ClientsOK
<1>6. PagesOf(AllBacks(n)) = PagesOf(AllBacks(m)) \ {b.page} /\ b.page \in PagesOf(AllBacks(m))
  BY <1>1, <1>2, <1>4 DEF PagesOf
<1>7. \A d \in Clients : ClientOK(Of(n, d), d)
  BY DEF OneClient, ClientsOK
<1>8. ASSUME NEW d \in Clients, NEW e \in Clients, d # e
      PROVE  PagesOf(Backs(Of(n, d))) \cap PagesOf(Backs(Of(n, e))) = {}
  <2>1. PagesOf(Backs(Of(m, d))) \cap PagesOf(Backs(Of(m, e))) = {}
    BY <1>8 DEF ClientsOK
  <2>2. \A x \in Clients : Backs(Of(n, x)) \subseteq Backs(Of(m, x))
    BY DEF OneClient
  <2>3. PagesOf(Backs(Of(n, d))) \subseteq PagesOf(Backs(Of(m, d)))
        /\ PagesOf(Backs(Of(n, e))) \subseteq PagesOf(Backs(Of(m, e)))
    BY <2>2 DEF PagesOf
  <2> QED BY <2>1, <2>3
<1> QED
  BY <1>1, <1>4, <1>5, <1>6, <1>7, <1>8 DEF ClientsOK, OwnAtOK

-----------------------------------------------------------------------------
(* Steps of the whole allocator *)

\* A step on the zone or on small caches does not disturb the clients.
LEMMA FrameSame ==
  ASSUME NEW m, NEW n, Frame(m, n)
  PROVE  /\ \A c \in Clients : Of(n, c) = Of(m, c)
         /\ AllBacks(n) = AllBacks(m) /\ Linked(n) = Linked(m) /\ Taken(n) = Taken(m)
         /\ LargeObjects(n) = LargeObjects(m)
         /\ ClientsOK(m) => ClientsOK(n)
         /\ \A T : Lent(m, T) => Lent(n, T)
<1>1. \A c \in Clients : Of(n, c) = Of(m, c)
  BY DEF Frame, Of, Clients
<1>2. AllBacks(n) = AllBacks(m)
  BY <1>1 DEF AllBacks
<1>3. n.own_at = m.own_at /\ n.own = m.own
  BY DEF Frame
<1>4. Linked(n) = Linked(m) /\ Taken(n) = Taken(m)
  BY <1>2, <1>3 DEF Linked, Taken
<1>5. LargeObjects(n) = LargeObjects(m)
  BY DEF LargeObjects, Frame
<1>6. ClientsOK(m) => ClientsOK(n)
  BY <1>1, <1>2, <1>3 DEF ClientsOK
<1>7. \A T : Lent(m, T) => Lent(n, T)
  BY <1>3 DEF Lent
<1> QED
  BY <1>1, <1>2, <1>4, <1>5, <1>6, <1>7

\* Pages of clients and of small caches are apart, and so are their objects.
LEMMA ApartOK ==
  ASSUME NEW m, NEW U, Layout(m, U)
  PROVE  SmallPages(m) \cap Linked(m) = {} /\ SmallObjects(m) \cap LargeObjects(m) = {}
         /\ NULL \notin SmallObjects(m)
<1>1. SmallPages(m) \cap Linked(m) = {}
  BY DEF Layout, SmallOK
<1>2. ASSUME NEW a \in LargeObjects(m) PROVE a.page \in Linked(m)
  <2>1. PICK c \in Large : a \in Objects(m.cache[c])
    BY DEF LargeObjects
  <2>2. a.page \in PagesOf(Backs(m.cache[c]))
    BY <2>1, ObjectPage
  <2>3. c \in Clients /\ Of(m, c) = m.cache[c]
    BY OwnNotLarge DEF Clients, Of
  <2> QED BY <2>2, <2>3, ClientPages DEF Linked
<1> QED
  BY <1>1, <1>2, SmallObjectPage, Constants

\* A step on the small caches or on the user's pages.
LEMMA BookSmall ==
  ASSUME NEW m, NEW U, NEW W, NEW T, Book(m, U, W, T), NEW n, Frame(m, n),
         NEW U2, SmallOK(n, Linked(m) \cup U2, Linked(m)), Linked(m) \cap U2 = {},
         NEW W2, Taken(m) \subseteq SmallObjects(n), W2 \cap Taken(m) = {},
         SmallObjects(n) \cup LargeObjects(m) = W2 \cup Taken(m)
  PROVE  Book(n, U2, W2, T)
<1>1. /\ AllBacks(n) = AllBacks(m) /\ Linked(n) = Linked(m) /\ Taken(n) = Taken(m)
      /\ LargeObjects(n) = LargeObjects(m) /\ ClientsOK(n) /\ Lent(n, T)
  BY FrameSame DEF Book, Layout
<1>2. Layout(n, U2)
  BY <1>1 DEF Book, Layout
<1> QED
  BY <1>1, <1>2 DEF Book

\* A caller gets an object of a small cache ...
LEMMA BookGets ==
  ASSUME NEW m, NEW U, NEW W, NEW T, Book(m, U, W, T), NEW n, NEW a,
         SmallOK(n, Linked(m) \cup U, Linked(m)), Gets(m, n, a)
  PROVE  Book(n, U, W \cup {a}, T) /\ a \notin W
<1>1. SmallObjects(n) = SmallObjects(m) \cup {a} /\ a \notin SmallObjects(m) /\ Frame(m, n)
  BY DEF Gets
<1>2. /\ Linked(m) \cap U = {} /\ Taken(m) \subseteq SmallObjects(m) /\ W \cap Taken(m) = {}
      /\ SmallObjects(m) \cup LargeObjects(m) = W \cup Taken(m)
  BY DEF Book, Layout
<1>3. a \notin LargeObjects(m)
  <2>1. Layout(n, U)
    <3>1. Linked(n) = Linked(m) /\ Taken(n) = Taken(m) /\ AllBacks(n) = AllBacks(m)
          /\ (ClientsOK(m) => ClientsOK(n))
      BY <1>1, FrameSame
    <3> QED BY <1>1, <1>2, <3>1 DEF Book, Layout
  <2>2. SmallObjects(n) \cap LargeObjects(n) = {} /\ LargeObjects(n) = LargeObjects(m)
    BY <1>1, <2>1, ApartOK, FrameSame
  <2> QED BY <1>1, <2>2
<1>4. Book(n, U, W \cup {a}, T)
  <2>1. Taken(m) \subseteq SmallObjects(n) /\ (W \cup {a}) \cap Taken(m) = {}
        /\ SmallObjects(n) \cup LargeObjects(m) = (W \cup {a}) \cup Taken(m)
    BY <1>1, <1>2
  <2> QED BY <1>1, <1>2, <2>1, BookSmall
<1> QED
  BY <1>1, <1>2, <1>3, <1>4

\* ... and gives one back.
LEMMA BookGivesUp ==
  ASSUME NEW m, NEW U, NEW W, NEW T, Book(m, U, W, T), NEW a \in W, a \in SmallObjects(m),
         NEW n, n = KfreeSmall(m, a)
  PROVE  Book(n, U, W \ {a}, T)
<1>1. /\ Linked(m) \cap U = {} /\ Taken(m) \subseteq SmallObjects(m) /\ W \cap Taken(m) = {}
      /\ SmallObjects(m) \cup LargeObjects(m) = W \cup Taken(m)
      /\ SmallOK(m, Linked(m) \cup U, Linked(m)) /\ Layout(m, U)
  BY DEF Book, Layout
<1>2. SmallOK(n, Linked(m) \cup U, Linked(m)) /\ SmallObjects(n) = SmallObjects(m) \ {a} /\ Frame(m, n)
  BY <1>1, KfreeSmallOK
<1>3. a \notin LargeObjects(m)
  BY <1>1, ApartOK
<1>4. Taken(m) \subseteq SmallObjects(n) /\ (W \ {a}) \cap Taken(m) = {}
      /\ SmallObjects(n) \cup LargeObjects(m) = (W \ {a}) \cup Taken(m)
  BY <1>1, <1>2, <1>3
<1> QED
  BY <1>1, <1>2, <1>4, BookSmall

\* Only the cache of client c changes.
ClientStep(m, n, c, k2) ==
  /\ n \in MemType /\ n.zone = m.zone /\ \A d \in Small : n.cache[d] = m.cache[d]
  /\ OneClient(m, n, c, k2)

\* An assignment to a large cache is such a step ...
LEMMA LargeStep ==
  ASSUME NEW m \in MemType, NEW c \in Large, NEW k2 \in CacheType, NEW n, SetsCache(m, n, c, k2)
  PROVE  /\ ClientStep(m, n, c, k2) /\ c \in Clients /\ Of(m, c) = m.cache[c] /\ n.cache[c] = k2
         /\ n.own = m.own /\ n.own_at = m.own_at /\ n.halted = m.halted
<1>1. c \in Caches /\ Small \cap Large = {} /\ Caches = Small \cup Large
  BY Constants
<1>2. /\ n \in MemType /\ n.zone = m.zone /\ n.cache[c] = k2
      /\ \A d \in Caches : d # c => n.cache[d] = m.cache[d]
      /\ n.own = m.own /\ n.own_at = m.own_at /\ n.halted = m.halted
  BY <1>1, SetCache
<1>3. c \in Clients /\ c # OWN
  BY OwnNotLarge DEF Clients
<1>4. OneClient(m, n, c, k2)
  BY <1>1, <1>2, <1>3 DEF OneClient, Of, Clients
<1>5. \A d \in Small : n.cache[d] = m.cache[d]
  BY <1>1, <1>2
<1> QED
  BY <1>2, <1>3, <1>4, <1>5 DEF ClientStep, Of

\* The cache of slab_create becomes k2 and is at a.
OwnSet(m, n, k2, a) ==
  n = [zone |-> m.zone, cache |-> m.cache, own |-> k2, own_at |-> a, halted |-> m.halted]

\* ... and so is one to the cache of slab_create.
LEMMA OwnStep ==
  ASSUME NEW m \in MemType, NEW k2 \in CacheType, NEW a \in Addresses \cup {NULL}, NEW n, OwnSet(m, n, k2, a)
  PROVE  /\ ClientStep(m, n, OWN, k2) /\ OWN \in Clients /\ Of(m, OWN) = m.own
         /\ n.own = k2 /\ n.own_at = a /\ n.halted = m.halted /\ n.cache = m.cache
<1>1. /\ n.zone = m.zone /\ n.cache = m.cache /\ n.own = k2 /\ n.own_at = a /\ n.halted = m.halted
      /\ n \in MemType
  <2>1. m.zone \in ZoneType /\ m.cache \in [Caches -> CacheType] /\ m.halted \in BOOLEAN
    BY DEF MemType
  <2> QED BY <2>1 DEF MemType, OwnSet
<1>2. OneClient(m, n, OWN, k2)
  BY <1>1 DEF OneClient, Of
<1> QED
  BY <1>1, <1>2 DEF ClientStep, Clients, Of

\* What a step on one client does to the objects of the large caches.
Split(S, A, m, c) ==
  \A x : x \in S <=> x \in A \/ \E d \in Large : d # c /\ x \in Objects(m.cache[d])

\* A step on a large cache ...
LEMMA LargeObjectsOf ==
  ASSUME NEW m, NEW n, NEW c \in Large, NEW k2, OneClient(m, n, c, k2)
  PROVE  /\ Split(LargeObjects(n), Objects(k2), m, c)
         /\ Split(LargeObjects(m), Objects(m.cache[c]), m, c) /\ n.own = m.own
<1>1. \A d \in Large : d \in Clients /\ d # OWN /\ Of(n, d) = n.cache[d] /\ Of(m, d) = m.cache[d]
  BY OwnNotLarge DEF Clients, Of
<1>2. n.cache[c] = k2 /\ \A d \in Large : d # c => n.cache[d] = m.cache[d]
  BY <1>1 DEF OneClient
<1>3. n.own = m.own
  BY <1>1 DEF OneClient, Clients, Of
<1>4. \A x : x \in LargeObjects(n) <=> \E d \in Large : x \in Objects(n.cache[d])
  BY DEF LargeObjects
<1>5. \A x : x \in LargeObjects(m) <=> \E d \in Large : x \in Objects(m.cache[d])
  BY DEF LargeObjects
<1> QED
  BY <1>2, <1>3, <1>4, <1>5 DEF Split

\* ... and one on the cache of slab_create.
LEMMA LargeObjectsOwn ==
  ASSUME NEW m, NEW n, NEW k2, OneClient(m, n, OWN, k2)
  PROVE  LargeObjects(n) = LargeObjects(m) /\ n.own = k2
<1>1. \A d \in Large : d \in Clients /\ d # OWN /\ Of(n, d) = n.cache[d] /\ Of(m, d) = m.cache[d]
  BY OwnNotLarge DEF Clients, Of
<1>2. \A d \in Large : n.cache[d] = m.cache[d]
  BY <1>1 DEF OneClient
<1> QED
  BY <1>2 DEF LargeObjects, OneClient, Of

\* An object of a large cache is of no other.
LEMMA LargeElsewhere ==
  ASSUME NEW m, ClientsOK(m), NEW c \in Large, NEW a \in Objects(m.cache[c]), NEW d \in Large, d # c
  PROVE  a \notin Objects(m.cache[d])
<1>1. c \in Clients /\ d \in Clients /\ Of(m, c) = m.cache[c] /\ Of(m, d) = m.cache[d]
  BY OwnNotLarge DEF Clients, Of
<1>2. PagesOf(Backs(m.cache[c])) \cap PagesOf(Backs(m.cache[d])) = {}
  BY <1>1 DEF ClientsOK
<1> QED
  BY <1>2, ObjectPage

\* An object of a client is taken or given back: pages and structures stay.
LEMMA LayoutSame ==
  ASSUME NEW m, NEW U, Layout(m, U), NEW c \in Clients, NEW k2, NEW n, ClientStep(m, n, c, k2),
         ClientOK(k2, c), Backs(k2) = Backs(Of(m, c)), n.own_at = m.own_at,
         n.own = NoCache <=> m.own = NoCache
  PROVE  Layout(n, U) /\ SmallObjects(n) = SmallObjects(m) /\ Taken(n) = Taken(m)
<1>1. SmallOK(m, Linked(m) \cup U, Linked(m)) /\ ClientsOK(m)
  BY DEF Layout
<1>2. n \in MemType /\ n.zone = m.zone /\ OneClient(m, n, c, k2) /\ \A d \in Small : n.cache[d] = m.cache[d]
  BY DEF ClientStep
<1>3. SmallOK(n, Linked(m) \cup U, Linked(m)) /\ SmallObjects(n) = SmallObjects(m)
  BY <1>1, <1>2, OtherStep
<1>4. AllBacks(n) = AllBacks(m) /\ (OwnAtOK(n) => ClientsOK(n))
  BY <1>1, <1>2, ClientSame
<1>5. OwnAtOK(n)
  BY <1>1, <1>4 DEF OwnAtOK, ClientsOK
<1>6. Linked(n) = Linked(m) /\ Taken(n) = Taken(m)
  BY <1>4 DEF Linked, Taken
<1> QED
  BY <1>3, <1>4, <1>5, <1>6 DEF Layout

\* Where the cache of slab_create may be.
Place(m, n) ==
  /\ n.own_at \in SmallObjects(m) \cup {NULL} /\ n.own_at \notin Structs(AllBacks(m))
  /\ n.own_at = NULL <=> n.own = NoCache

\* A client gets a slab of page p, with structures at d and b.
Grows(k, k2, p, d, b) ==
  \E e : Backs(k2) = Backs(k) \cup {e} /\ e.page = p /\ e.desc = d /\ e.map = b

GrownTo(m, n, U, d, b) ==
  /\ Layout(n, U) /\ SmallObjects(n) = SmallObjects(m) \cup {d, b}
  /\ Taken(n) = (Structs(AllBacks(m)) \cup {d, b}) \cup ({n.own_at} \ {NULL})

\* A client gets a slab, with the page and the structures made for it.
LEMMA LayoutJoin ==
  ASSUME NEW m, NEW U, Layout(m, U), NEW mid, NEW p, NEW d, NEW b,
         Made(m, mid, Linked(m) \cup U, Linked(m), p, d, b),
         NEW c \in Clients, NEW k2, NEW n, ClientStep(mid, n, c, k2), ClientOK(k2, c),
         Grows(Of(m, c), k2, p, d, b), Place(m, n)
  PROVE  GrownTo(m, n, U, d, b)
<1>0. PICK e : Backs(k2) = Backs(Of(m, c)) \cup {e} /\ e.page = p /\ e.desc = d /\ e.map = b
  BY DEF Grows
<1>1. /\ SmallOK(mid, (Linked(m) \cup U) \cup {p}, Linked(m) \cup {p}) /\ Frame(m, mid)
      /\ p \in Pages /\ p \notin Linked(m) /\ p \notin U /\ d # b
      /\ d \in Addresses /\ b \in Addresses /\ d \notin SmallObjects(m) /\ b \notin SmallObjects(m)
      /\ SmallObjects(mid) = SmallObjects(m) \cup {d, b}
  BY DEF Made
<1>2. /\ ClientsOK(m) /\ KernelPages \cap PagesOf(AllBacks(m)) = {} /\ Linked(m) \cap U = {}
      /\ Taken(m) \subseteq SmallObjects(m) /\ KernelPages \subseteq Linked(m)
      /\ PagesOf(AllBacks(m)) \subseteq Linked(m) /\ Structs(AllBacks(m)) \subseteq Taken(m)
  BY DEF Layout, Linked, Taken
<1>3. AllBacks(mid) = AllBacks(m) /\ ClientsOK(mid) /\ Of(mid, c) = Of(m, c)
  BY <1>1, <1>2, FrameSame
<1>4. n \in MemType /\ n.zone = mid.zone /\ OneClient(mid, n, c, k2) /\ \A x \in Small : n.cache[x] = mid.cache[x]
  BY DEF ClientStep
<1>5. d # NULL /\ b # NULL
  BY <1>1, Constants
<1>6. Joins(mid, e)
  BY <1>0, <1>1, <1>2, <1>3, <1>5 DEF Joins
<1>7. Backs(k2) = Backs(Of(mid, c)) \cup {e} /\ e.page = p /\ e.desc = d /\ e.map = b
  BY <1>0, <1>3
<1>8. /\ OwnAtOK(n) => ClientsOK(n)
      /\ Structs(AllBacks(n)) = Structs(AllBacks(m)) \cup {d, b}
      /\ PagesOf(AllBacks(n)) = PagesOf(AllBacks(m)) \cup {p}
  BY <1>3, <1>4, <1>6, <1>7, ClientJoin
<1>9. OwnAtOK(n)
  BY <1>1, <1>5, <1>8 DEF OwnAtOK, Place
<1>10. Linked(n) = Linked(m) \cup {p}
  BY <1>8 DEF Linked
<1>11. SmallOK(n, Linked(n) \cup U, Linked(n)) /\ SmallObjects(n) = SmallObjects(m) \cup {d, b}
  <2>1. (Linked(m) \cup U) \cup {p} = Linked(n) \cup U
    BY <1>10
  <2>2. SmallOK(mid, Linked(n) \cup U, Linked(n))
    BY <1>1, <1>10, <2>1
  <2> QED BY <1>1, <1>4, <2>2, OtherStep
<1>12. Taken(n) = (Structs(AllBacks(m)) \cup {d, b}) \cup ({n.own_at} \ {NULL})
  BY <1>8 DEF Taken
<1>13. Taken(n) \subseteq SmallObjects(n)
  BY <1>2, <1>11, <1>12 DEF Place
<1>14. KernelPages \cap PagesOf(AllBacks(n)) = {} /\ Linked(n) \cap U = {}
  BY <1>1, <1>2, <1>8, <1>10
<1> QED
  BY <1>8, <1>9, <1>11, <1>12, <1>13, <1>14 DEF Layout, GrownTo

\* It loses slab s, whose page and structures are given back.
LEMMA LayoutLeave ==
  ASSUME NEW m, NEW U, Layout(m, U), NEW c \in Clients, NEW k2, NEW m1, ClientStep(m, m1, c, k2),
         ClientOK(k2, c), NEW s, Back(s) \in Backs(Of(m, c)), Backs(k2) = Backs(Of(m, c)) \ {Back(s)},
         s.desc # NULL, s.map # NULL, m1.own_at = m.own_at, m1.own = NoCache <=> m.own = NoCache,
         NEW n, n = DropSlab(m1, s)
  PROVE  /\ Layout(n, U) /\ Frame(m1, n) /\ {s.desc, s.map} \subseteq Taken(m)
         /\ SmallObjects(n) = SmallObjects(m) \ {s.desc, s.map}
         /\ Taken(n) = Taken(m) \ {s.desc, s.map}
<1>1. /\ ClientsOK(m) /\ KernelPages \cap PagesOf(AllBacks(m)) = {} /\ Linked(m) \cap U = {}
      /\ Taken(m) \subseteq SmallObjects(m) /\ SmallOK(m, Linked(m) \cup U, Linked(m))
      /\ PagesOf(AllBacks(m)) \subseteq Linked(m) /\ Structs(AllBacks(m)) \subseteq Taken(m)
  BY DEF Layout, Linked, Taken
<1>2. m1 \in MemType /\ m1.zone = m.zone /\ OneClient(m, m1, c, k2) /\ \A d \in Small : m1.cache[d] = m.cache[d]
  BY DEF ClientStep
<1>3. SmallOK(m1, Linked(m) \cup U, Linked(m)) /\ SmallObjects(m1) = SmallObjects(m)
  BY <1>1, <1>2, OtherStep
<1>4. PICK e : e = Back(s) /\ e.page = s.page /\ e.desc = s.desc /\ e.map = s.map
  BY DEF Back
<1>5. e \in Backs(Of(m, c)) /\ Backs(k2) = Backs(Of(m, c)) \ {e} /\ e.desc # NULL /\ e.map # NULL
  BY <1>4
<1>6. /\ OwnAtOK(m1) => ClientsOK(m1)
      /\ Structs(AllBacks(m1)) = Structs(AllBacks(m)) \ {e.desc, e.map}
      /\ e.desc # e.map /\ {e.desc, e.map} \subseteq Structs(AllBacks(m))
      /\ PagesOf(AllBacks(m1)) = PagesOf(AllBacks(m)) \ {e.page} /\ e.page \in PagesOf(AllBacks(m))
  BY <1>1, <1>2, <1>5, ClientLeave
<1>7. OwnAtOK(m1)
  BY <1>1, <1>6 DEF OwnAtOK, ClientsOK
<1>8. s.page \in Linked(m) /\ s.desc \in SmallObjects(m1) /\ s.map \in SmallObjects(m1) /\ s.desc # s.map
      /\ s.page \notin KernelPages /\ {s.desc, s.map} \subseteq Taken(m)
  <2>1. s.page \in PagesOf(AllBacks(m)) /\ s.desc # s.map
    BY <1>4, <1>6
  <2>2. s.desc \in Taken(m) /\ s.map \in Taken(m)
    BY <1>1, <1>4, <1>6
  <2> QED BY <1>1, <1>3, <2>1, <2>2
<1>9. /\ SmallOK(n, (Linked(m) \cup U) \ {s.page}, Linked(m) \ {s.page}) /\ Frame(m1, n)
      /\ SmallObjects(n) = SmallObjects(m1) \ {s.desc, s.map}
  <2>1. PICK X, L : X = Linked(m) \cup U /\ L = Linked(m)
    OBVIOUS
  <2>2. SmallOK(m1, X, L) /\ s.page \in L
    BY <1>3, <1>8, <2>1
  <2>3. SmallOK(n, X \ {s.page}, L \ {s.page}) /\ Frame(m1, n)
        /\ SmallObjects(n) = SmallObjects(m1) \ {s.desc, s.map}
    BY <1>8, <2>2, DropSlabOK
  <2> QED BY <2>1, <2>3
<1>10. /\ ClientsOK(n) /\ AllBacks(n) = AllBacks(m1) /\ Taken(n) = Taken(m1) /\ Linked(n) = Linked(m1)
  BY <1>6, <1>7, <1>9, FrameSame
<1>11. Linked(n) = Linked(m) \ {s.page}
  BY <1>4, <1>6, <1>8, <1>10 DEF Linked
<1>12. (Linked(m) \cup U) \ {s.page} = Linked(n) \cup U
  BY <1>1, <1>8, <1>11
<1>13. Taken(n) = Taken(m) \ {s.desc, s.map}
  <2>1. m.own_at \notin {s.desc, s.map}
    BY <1>1, <1>4, <1>6 DEF ClientsOK
  <2> QED BY <1>4, <1>6, <1>10, <2>1 DEF Taken
<1>14. KernelPages \cap PagesOf(AllBacks(n)) = {} /\ Linked(n) \cap U = {}
  BY <1>1, <1>6, <1>10, <1>11
<1>15. Taken(n) \subseteq SmallObjects(n) /\ SmallObjects(n) = SmallObjects(m) \ {s.desc, s.map}
  BY <1>1, <1>3, <1>9, <1>13
<1>16. SmallOK(n, Linked(n) \cup U, Linked(n))
  BY <1>9, <1>11, <1>12
<1> QED
  BY <1>8, <1>9, <1>10, <1>13, <1>14, <1>15, <1>16 DEF Layout

-----------------------------------------------------------------------------
(* What objects the callers have *)

\* Fewer objects are in use: A of the large caches, which callers had, and D of the
\* small ones, which held structures.
LEMMA BookLess ==
  ASSUME NEW m, NEW U, NEW W, NEW T, Book(m, U, W, T), NEW n, Layout(n, U), NEW T2, Lent(n, T2),
         NEW D, D \subseteq Taken(m), SmallObjects(n) = SmallObjects(m) \ D, Taken(n) = Taken(m) \ D,
         NEW A, A \subseteq LargeObjects(m), LargeObjects(n) = LargeObjects(m) \ A
  PROVE  Book(n, U, W \ A, T2)
<1>1. /\ Layout(m, U) /\ Taken(m) \subseteq SmallObjects(m) /\ W \cap Taken(m) = {}
      /\ SmallObjects(m) \cup LargeObjects(m) = W \cup Taken(m)
  BY DEF Book, Layout
<1>2. SmallObjects(m) \cap LargeObjects(m) = {}
  BY <1>1, ApartOK
<1>3. (W \ A) \cap Taken(n) = {} /\ SmallObjects(n) \cup LargeObjects(n) = (W \ A) \cup Taken(n)
  BY <1>1, <1>2
<1> QED
  BY <1>3 DEF Book

\* A client gets a slab; slab_create's cache may move from its callers to the allocator.
LEMMA BookJoin ==
  ASSUME NEW m, NEW U, NEW W, NEW T, Book(m, U, W, T), NEW n, Lent(n, T),
         NEW d, NEW b, d \notin SmallObjects(m), b \notin SmallObjects(m),
         GrownTo(m, n, U, d, b), LargeObjects(n) = LargeObjects(m),
         n.own_at = m.own_at \/ (n.own_at \in W /\ m.own_at = NULL)
  PROVE  Book(n, U, W \ {n.own_at}, T)
<1>0. /\ Layout(n, U) /\ SmallObjects(n) = SmallObjects(m) \cup {d, b}
      /\ Taken(n) = (Structs(AllBacks(m)) \cup {d, b}) \cup ({n.own_at} \ {NULL})
  BY DEF GrownTo
<1>1. /\ Layout(m, U) /\ Taken(m) \subseteq SmallObjects(m) /\ W \cap Taken(m) = {}
      /\ SmallObjects(m) \cup LargeObjects(m) = W \cup Taken(m)
      /\ Taken(m) = Structs(AllBacks(m)) \cup ({m.own_at} \ {NULL})
  BY DEF Book, Layout, Taken
<1>2. SmallObjects(n) \cap LargeObjects(n) = {} /\ NULL \notin SmallObjects(m)
  BY <1>0, <1>1, ApartOK
<1>3. d \notin W /\ b \notin W
  BY <1>0, <1>1, <1>2
<1>4. NULL \notin LargeObjects(m)
  BY Constants DEF LargeObjects, Objects
<1>5. NULL \notin W
  BY <1>1, <1>2, <1>4
<1>6. CASE n.own_at = m.own_at
  <2>1. Taken(n) = Taken(m) \cup {d, b} /\ W \ {n.own_at} = W
    BY <1>0, <1>1, <1>5, <1>6
  <2>2. W \cap Taken(n) = {} /\ SmallObjects(n) \cup LargeObjects(n) = W \cup Taken(n)
    BY <1>0, <1>1, <1>3, <2>1
  <2> QED BY <1>0, <2>1, <2>2 DEF Book
<1>7. CASE n.own_at \in W /\ m.own_at = NULL
  <2>1. Taken(m) = Structs(AllBacks(m)) /\ Taken(n) = (Taken(m) \cup {d, b}) \cup {n.own_at}
    BY <1>0, <1>1, <1>5, <1>7
  <2>2. (W \ {n.own_at}) \cap Taken(n) = {}
    BY <1>1, <1>3, <2>1
  <2>3. SmallObjects(n) \cup LargeObjects(n) = (W \ {n.own_at}) \cup Taken(n)
    BY <1>0, <1>1, <1>7, <2>1
  <2> QED BY <1>0, <2>2, <2>3 DEF Book
<1> QED
  BY <1>6, <1>7

-----------------------------------------------------------------------------
(* kmalloc and kfree of the large caches *)

\* What is known of one large cache.
LEMMA LargeFacts ==
  ASSUME NEW m, NEW U, Layout(m, U), NEW c \in Large
  PROVE  /\ m \in MemType /\ c \in Caches /\ c \in Clients /\ c # OWN /\ Of(m, c) = m.cache[c]
         /\ KCacheOK(m.cache[c], c) /\ Params(HeadCount[c], MoreCount[c], 0)
         /\ CacheOK(m.cache[c], HeadCount[c], MoreCount[c], 0)
         /\ \A b \in Backs(m.cache[c]) : b # First(m.cache[c]) => b.desc # NULL /\ b.map # NULL
<1>1. m \in MemType /\ ClientsOK(m)
  BY DEF Layout, SmallOK
<1>2. c \in Caches /\ c \in Clients /\ c # OWN /\ Of(m, c) = m.cache[c]
  BY OwnNotLarge, Constants DEF Clients, Of
<1>3. ClientOK(m.cache[c], c)
  BY <1>1, <1>2 DEF ClientsOK
<1>4. /\ KCacheOK(m.cache[c], c)
      /\ \A b \in Backs(m.cache[c]) : b # First(m.cache[c]) => b.desc # NULL /\ b.map # NULL
  BY <1>2, <1>3 DEF ClientOK
<1> QED
  BY <1>1, <1>2, <1>4, KCacheFacts

\* r is the result of taking an object of slab i.
TakesFrom(m, c, i, r) ==
  i \in 1..Len(m.cache[c].pool) /\ Clear(m.cache[c].pool[i]) # {} /\ r = TakeObject(m, c, i)

\* A caller gets an object of a large cache.
LEMMA BookTakeLarge ==
  ASSUME NEW m, NEW U, NEW W, NEW T, Book(m, U, W, T), NEW c \in Large,
         NEW i, NEW r, TakesFrom(m, c, i, r)
  PROVE  Book(r.m, U, W \cup {r.address}, T) /\ r.address \in Addresses /\ r.m.halted = m.halted
<1> USE DEF TakesFrom
<1>0. /\ Layout(m, U) /\ Taken(m) \subseteq SmallObjects(m) /\ W \cap Taken(m) = {} /\ Lent(m, T)
      /\ SmallObjects(m) \cup LargeObjects(m) = W \cup Taken(m)
  BY DEF Book, Layout
<1>1. PICK k, k2, n, a : /\ k = m.cache[c] /\ k2 = Take(k, i) /\ n = [m EXCEPT !.cache[c] = k2]
                         /\ a = FirstObject(k.pool[i])
  OBVIOUS
<1>2. r = [m |-> n, address |-> a]
  BY <1>1 DEF TakeObject
<1>3. /\ m \in MemType /\ c \in Clients /\ c # OWN /\ Of(m, c) = k
      /\ KCacheOK(k, c) /\ Params(HeadCount[c], MoreCount[c], 0)
      /\ CacheOK(k, HeadCount[c], MoreCount[c], 0)
      /\ \A b \in Backs(k) : b # First(k) => b.desc # NULL /\ b.map # NULL
  BY <1>0, <1>1, LargeFacts
<1>4. CacheOK(k2, HeadCount[c], MoreCount[c], 0) /\ Gives(k, k2, a)
  <2>1. i \in 1..Len(k.pool) /\ Clear(k.pool[i]) # {}
    BY <1>1
  <2> QED BY <1>1, <1>3, <2>1, TakeOK
<1>5. Backs(k2) = Backs(k) /\ First(k2) = First(k) /\ Objects(k2) = Objects(k) \cup {a} /\ a \in Addresses
  BY <1>4 DEF Gives
<1>6. ClientOK(k2, c) /\ k2 \in CacheType
  <2>1. KCacheOK(k2, c)
    BY <1>3, <1>4, <1>5 DEF KCacheOK
  <2>2. k2 \in CacheType
    BY <1>4 DEF CacheOK, CacheBase
  <2> QED BY <1>3, <1>5, <2>1, <2>2 DEF ClientOK
<1>7. SetsCache(m, n, c, k2)
  BY <1>1 DEF SetsCache
<1>8. ClientStep(m, n, c, k2) /\ n.own = m.own /\ n.own_at = m.own_at /\ n.halted = m.halted
  BY <1>3, <1>6, <1>7, LargeStep
<1>9. Backs(k2) = Backs(Of(m, c)) /\ (n.own = NoCache <=> m.own = NoCache)
  BY <1>3, <1>5, <1>8
<1>10. Layout(n, U) /\ SmallObjects(n) = SmallObjects(m) /\ Taken(n) = Taken(m)
  BY <1>0, <1>3, <1>6, <1>8, <1>9, LayoutSame
<1>11. LargeObjects(n) = LargeObjects(m) \cup {a}
  <2>1. OneClient(m, n, c, k2)
    BY <1>8 DEF ClientStep
  <2>2. Split(LargeObjects(n), Objects(k2), m, c) /\ Split(LargeObjects(m), Objects(m.cache[c]), m, c)
    BY <2>1, LargeObjectsOf
  <2>4. \A x : x \in LargeObjects(n) <=> x \in LargeObjects(m) \/ x = a
    BY <1>1, <1>5, <2>2 DEF Split
  <2> QED BY <2>4
<1>12. a \notin Taken(m)
  <2>1. SmallObjects(n) \cap LargeObjects(n) = {}
    BY <1>10, ApartOK
  <2> QED BY <1>0, <1>10, <1>11, <2>1
<1>13. Lent(n, T)
  BY <1>0, <1>8 DEF Lent
<1>14. (W \cup {a}) \cap Taken(n) = {} /\ SmallObjects(n) \cup LargeObjects(n) = (W \cup {a}) \cup Taken(n)
  BY <1>0, <1>10, <1>11, <1>12
<1>15. Book(n, U, W \cup {a}, T)
  BY <1>10, <1>13, <1>14 DEF Book
<1> QED
  BY <1>2, <1>5, <1>8, <1>15

\* The slab kmalloc_create or slab_malloc puts into the list.
LEMMA NewSlabOK ==
  ASSUME NEW p \in Pages, NEW n \in Nat, NEW d \in Addresses, NEW b \in Addresses,
         NEW s, s = NewSlab(p, n, d, b)
  PROVE  Fresh(s, n) /\ s.page = p /\ s.desc = d /\ s.map = b
         /\ Back(s).page = p /\ Back(s).desc = d /\ Back(s).map = b
<1>1. /\ s \in Slabs /\ s.bits = {} /\ s.color_count = n /\ s.free_count = n
      /\ s.using_count = 0 /\ s.page = p /\ s.desc = d /\ s.map = b
  BY DEF NewSlab, Slabs
<1> QED
  BY <1>1 DEF Fresh, Back

\* A NULL halts.
LEMMA HaltOK ==
  ASSUME NEW m \in MemType, NEW n, n = [m EXCEPT !.halted = TRUE]
  PROVE  n \in MemType /\ n.halted
  BY DEF MemType

\* The last slab of cache c has a free object.
LastFree(n, c) ==
  /\ Len(n.cache[c].pool) \in 1..Len(n.cache[c].pool)
  /\ Clear(n.cache[c].pool[Len(n.cache[c].pool)]) # {}

\* A page and both structures are there: the slab goes to the end of the list.
LEMMA AddSlabOK ==
  ASSUME NEW m, NEW U, NEW W, NEW T, Book(m, U, W, T), NEW c \in Large, m.cache[c].total_free = 0,
         NEW mid, NEW p, NEW d, NEW b, Made(m, mid, Linked(m) \cup U, Linked(m), p, d, b),
         NEW n, n = AddSlab(mid, c, NewSlab(p, MoreCount[c], d, b))
  PROVE  Book(n, U, W, T) /\ n.halted = m.halted /\ LastFree(n, c)
<1>0. Layout(m, U) /\ Lent(m, T)
  BY DEF Book
<1>1. PICK k, s, k2, i : /\ k = mid.cache[c] /\ s = NewSlab(p, MoreCount[c], d, b) /\ i = Len(k.pool) + 1
                         /\ k2 = LinkSlab(k, i, s)
  OBVIOUS
<1>2. SetsCache(mid, n, c, k2)
  BY <1>1 DEF AddSlab, SetsCache
<1>3. /\ Frame(m, mid) /\ mid \in MemType /\ p \in Pages /\ p \notin Linked(m)
      /\ d \in Addresses /\ b \in Addresses /\ d \notin SmallObjects(m) /\ b \notin SmallObjects(m)
  BY DEF Made, SmallOK
<1>4. k = m.cache[c] /\ mid.own = m.own /\ mid.own_at = m.own_at /\ mid.halted = m.halted
  BY <1>1, <1>3 DEF Frame
<1>5. /\ c \in Clients /\ c # OWN /\ Of(m, c) = k /\ KCacheOK(k, c)
      /\ Params(HeadCount[c], MoreCount[c], 0) /\ CacheOK(k, HeadCount[c], MoreCount[c], 0)
      /\ \A x \in Backs(k) : x # First(k) => x.desc # NULL /\ x.map # NULL
  BY <1>0, <1>4, LargeFacts
<1>6. /\ Fresh(s, MoreCount[c]) /\ s.page = p
      /\ Back(s).page = p /\ Back(s).desc = d /\ Back(s).map = b
  <2>1. MoreCount[c] \in Nat
    BY <1>5 DEF Params
  <2> QED BY <1>1, <1>3, <2>1, NewSlabOK
<1>7. Len(k.pool) \in Nat /\ i \in 2..(Len(k.pool) + 1)
  <2>1. Len(k.pool) \in Nat /\ 1 \in 1..Len(k.pool)
    BY <1>5, CacheFacts DEF CacheOK
  <2> QED BY <1>1, <2>1
<1>8. s.page \notin PagesOf(Backs(k))
  <2>1. PagesOf(Backs(k)) \subseteq Linked(m)
    BY <1>5, ClientPages DEF Linked
  <2> QED BY <1>3, <1>6, <2>1
<1>9. CacheOK(k2, HeadCount[c], MoreCount[c], 0) /\ Links(k, k2, i, s)
  <2>1. k.total_free = 0
    BY <1>4
  <2> QED BY <1>1, <1>5, <1>6, <1>7, <1>8, <2>1, LinkOK
<1>10. /\ Backs(k2) = Backs(k) \cup {Back(s)} /\ First(k2) = First(k) /\ Objects(k2) = Objects(k)
       /\ i \in 1..Len(k2.pool) /\ k2.pool[i] = s /\ Len(k2.pool) = i /\ Clear(s) # {}
  BY <1>1, <1>9 DEF Links
<1>11. ClientOK(k2, c) /\ k2 \in CacheType
  <2>1. KCacheOK(k2, c)
    BY <1>5, <1>9, <1>10 DEF KCacheOK
  <2>2. k2 \in CacheType
    BY <1>9 DEF CacheOK, CacheBase
  <2>3. d # NULL /\ b # NULL
    BY <1>3, Constants
  <2>4. \A x \in Backs(k2) : x # First(k2) => x.desc # NULL /\ x.map # NULL
    BY <1>5, <1>6, <1>10, <2>3
  <2> QED BY <1>5, <2>1, <2>2, <2>4 DEF ClientOK
<1>12. /\ ClientStep(mid, n, c, k2) /\ n.cache[c] = k2
       /\ n.own = m.own /\ n.own_at = m.own_at /\ n.halted = m.halted
  BY <1>2, <1>3, <1>4, <1>11, LargeStep
<1>13. Place(m, n)
  <2>1. /\ Taken(m) \subseteq SmallObjects(m) /\ m.own_at \notin Structs(AllBacks(m))
        /\ (m.own_at = NULL <=> m.own = NoCache) /\ m.own_at \in Taken(m) \cup {NULL}
    BY <1>0 DEF Layout, ClientsOK, Taken
  <2> QED BY <1>12, <2>1 DEF Place
<1>14. Grows(Of(m, c), k2, p, d, b)
  BY <1>5, <1>6, <1>10 DEF Grows
<1>15. GrownTo(m, n, U, d, b)
  BY <1>0, <1>5, <1>11, <1>12, <1>13, <1>14, LayoutJoin
<1>16. LargeObjects(n) = LargeObjects(m)
  <2>1. OneClient(mid, n, c, k2)
    BY <1>12 DEF ClientStep
  <2>2. Split(LargeObjects(n), Objects(k2), mid, c) /\ Split(LargeObjects(mid), Objects(mid.cache[c]), mid, c)
    BY <2>1, LargeObjectsOf
  <2>4. LargeObjects(n) = LargeObjects(mid)
    BY <1>1, <1>10, <2>2 DEF Split
  <2> QED BY <1>3, <2>4, FrameSame
<1>17. Lent(n, T)
  BY <1>0, <1>12 DEF Lent
<1>18. Book(n, U, W \ {n.own_at}, T)
  BY <1>3, <1>12, <1>15, <1>16, <1>17, BookJoin
<1>19. W \ {n.own_at} = W
  <2>1. NULL \notin W
    <3>1. NULL \notin LargeObjects(m) /\ NULL \notin SmallObjects(m)
      BY Constants DEF LargeObjects, SmallObjects, Objects
    <3> QED BY <3>1 DEF Book
  <2>2. m.own_at # NULL => m.own_at \in Taken(m)
    BY DEF Taken
  <2> QED BY <1>12, <2>1, <2>2 DEF Book
<1> QED
  BY <1>10, <1>12, <1>18, <1>19 DEF LastFree

\* kmalloc_create for a large cache halts or leaves an empty slab at the end.
LEMMA CreateLargeOK ==
  ASSUME NEW m, NEW U, NEW W, NEW T, Book(m, U, W, T), ~m.halted, NEW c \in Large,
         m.cache[c].total_free = 0, CanAlloc(m), NEW n, n = CreateLarge(m, c)
  PROVE  \/ n \in MemType /\ n.halted
         \/ Book(n, U, W, T) /\ ~n.halted /\ LastFree(n, c)
<1>1. PICK X, L : X = Linked(m) \cup U /\ L = Linked(m)
  OBVIOUS
<1>2. SmallOK(m, X, L)
  BY <1>1 DEF Book, Layout
<1>3. DescCache \in Small /\ MapCache[c] \in Small
  BY MemoryAssumption
<1>4. PICK p, g, d, b : /\ p = FreePage(m) /\ g = GetPage(m) /\ d = kmalloc_small(g, DescCache)
                        /\ b = kmalloc_small(d.m, MapCache[c])
  OBVIOUS
<1>5. p \in Pages /\ p \notin X /\ p \notin SmallPages(m)
  BY <1>2, <1>4, FreePageOK
<1>6. SmallOK(g, X \cup {p}, L \cup {p}) /\ SmallObjects(g) = SmallObjects(m) /\ Frame(m, g)
  BY <1>2, <1>4, GetPageOK
<1>7. \/ d.address = NULL /\ d.m = g
      \/ d.address # NULL /\ SmallOK(d.m, X \cup {p}, L \cup {p}) /\ Gets(g, d.m, d.address)
  BY <1>3, <1>4, <1>6, KmallocSmallOK
<1>8. SmallOK(d.m, X \cup {p}, L \cup {p})
  BY <1>6, <1>7
<1>9. \/ b.address = NULL /\ b.m = d.m
      \/ b.address # NULL /\ SmallOK(b.m, X \cup {p}, L \cup {p}) /\ Gets(d.m, b.m, b.address)
  BY <1>3, <1>4, <1>8, KmallocSmallOK
<1>10. b.m \in MemType
  BY <1>8, <1>9 DEF SmallOK
<1>11. CASE NULL \in {d.address, b.address}
  <2>1. n = [b.m EXCEPT !.halted = TRUE]
    BY <1>4, <1>11 DEF CreateLarge
  <2> QED BY <1>10, <2>1, HaltOK
<1>12. CASE NULL \notin {d.address, b.address}
  <2>1. n = AddSlab(b.m, c, NewSlab(p, MoreCount[c], d.address, b.address))
    BY <1>4, <1>12 DEF CreateLarge
  <2>2. Gets(g, d.m, d.address) /\ Gets(d.m, b.m, b.address) /\ SmallOK(b.m, X \cup {p}, L \cup {p})
    BY <1>7, <1>9, <1>12
  <2>3. Frame(m, b.m)
    BY <1>6, <2>2, FrameTrans DEF Gets
  <2>4. /\ d.address # b.address /\ {d.address, b.address} \subseteq Addresses
        /\ {d.address, b.address} \cap SmallObjects(m) = {}
        /\ SmallObjects(b.m) = SmallObjects(m) \cup {d.address, b.address}
    BY <1>6, <2>2 DEF Gets
  <2>5. Made(m, b.m, X, L, p, d.address, b.address)
    BY <1>5, <2>2, <2>3, <2>4 DEF Made
  <2>6. Made(m, b.m, Linked(m) \cup U, Linked(m), p, d.address, b.address)
    BY <1>1, <2>5
  <2>7. Book(n, U, W, T) /\ n.halted = m.halted /\ LastFree(n, c)
    BY <2>1, <2>6, AddSlabOK
  <2> QED BY <2>7
<1> QED
  BY <1>11, <1>12

\* What a call leaves: a state of the right type and, unless it has halted, exact books.
Leaves(n, U, W, T) == n \in MemType /\ (~n.halted => Book(n, U, W, T))

\* Books in order imply the type.
LEMMA BookType ==
  ASSUME NEW m, NEW U, NEW W, NEW T, Book(m, U, W, T)
  PROVE  m \in MemType /\ Leaves(m, U, W, T)
  BY DEF Book, Layout, SmallOK, Leaves

\* kmalloc from a large cache.
LEMMA KmallocLargeOK ==
  ASSUME NEW m, NEW U, NEW W, NEW T, Book(m, U, W, T), ~m.halted, NEW c \in Large,
         NEW r, r = kmalloc_large(m, c)
  PROVE  \/ r.address = NULL /\ Leaves(r.m, U, W, T)
         \/ r.address \in Addresses /\ Leaves(r.m, U, W \cup {r.address}, T)
<1>0. Layout(m, U)
  BY DEF Book
<1>1. Params(HeadCount[c], MoreCount[c], 0) /\ CacheOK(m.cache[c], HeadCount[c], MoreCount[c], 0)
  BY <1>0, LargeFacts
<1>2. CASE m.cache[c].total_free # 0
  <2>1. PICK i : i = SearchSlab(m.cache[c])
    OBVIOUS
  <2>2. i \in 1..Len(m.cache[c].pool) /\ Clear(m.cache[c].pool[i]) # {}
    BY <1>1, <1>2, <2>1, SearchOK
  <2>3. r = TakeObject(m, c, i)
    BY <1>2, <2>1 DEF kmalloc_large
  <2>4. Book(r.m, U, W \cup {r.address}, T) /\ r.address \in Addresses
    <3>1. TakesFrom(m, c, i, r)
      BY <2>2, <2>3 DEF TakesFrom
    <3> QED BY <3>1, BookTakeLarge
  <2> QED BY <2>4, BookType
<1>3. CASE m.cache[c].total_free = 0 /\ ~CanAlloc(m)
  <2>1. r = [m |-> m, address |-> NULL]
    <3>1. r = Failed(m)
      BY <1>3 DEF kmalloc_large
    <3> QED BY <3>1 DEF Failed
  <2>2. r.m = m /\ r.address = NULL
    BY <2>1
  <2> QED BY <2>2, BookType
<1>4. CASE m.cache[c].total_free = 0 /\ CanAlloc(m)
  <2>1. PICK n : n = CreateLarge(m, c)
    OBVIOUS
  <2>2. \/ n \in MemType /\ n.halted
        \/ Book(n, U, W, T) /\ ~n.halted /\ LastFree(n, c)
    BY <1>4, <2>1, CreateLargeOK
  <2>3. r = IF n.halted THEN Failed(n) ELSE TakeObject(n, c, Len(n.cache[c].pool))
    BY <1>4, <2>1 DEF kmalloc_large
  <2>4. CASE n.halted
    <3>1. r = [m |-> n, address |-> NULL]
      BY <2>3, <2>4 DEF Failed
    <3>2. r.m = n /\ r.address = NULL
      BY <3>1
    <3> QED BY <2>2, <2>4, <3>2 DEF Leaves
  <2>5. CASE ~n.halted
    <3>1. PICK i : i = Len(n.cache[c].pool)
      OBVIOUS
    <3>2. i \in 1..Len(n.cache[c].pool) /\ Clear(n.cache[c].pool[i]) # {} /\ r = TakeObject(n, c, i)
      BY <2>2, <2>3, <2>5, <3>1 DEF LastFree
    <3>3. Book(r.m, U, W \cup {r.address}, T) /\ r.address \in Addresses
      <4>1. TakesFrom(n, c, i, r)
        BY <3>2 DEF TakesFrom
      <4>2. Book(n, U, W, T)
        BY <2>2, <2>5
      <4> QED BY <4>1, <4>2, BookTakeLarge
    <3> QED BY <3>3, BookType
  <2> QED BY <2>4, <2>5
<1> QED
  BY <1>2, <1>3, <1>4

\* kmalloc fails, or what it returns is new to its callers and to the allocator.
LEMMA KmallocOK ==
  ASSUME NEW m, NEW U, NEW W, NEW T, Book(m, U, W, T), ~m.halted, NEW c \in Caches,
         NEW r, r = kmalloc(m, c)
  PROVE  \/ r.address = NULL /\ Leaves(r.m, U, W, T)
         \/ r.address \in Addresses /\ Leaves(r.m, U, W \cup {r.address}, T)
<1>1. CASE c \in Small
  <2>1. PICK X, L : X = Linked(m) \cup U /\ L = Linked(m)
    OBVIOUS
  <2>2. SmallOK(m, X, L)
    BY <2>1 DEF Book, Layout
  <2>3. r = kmalloc_small(m, c)
    BY <1>1 DEF kmalloc
  <2>4. \/ r.address = NULL /\ r.m = m
        \/ r.address # NULL /\ SmallOK(r.m, X, L) /\ Gets(m, r.m, r.address)
    BY <1>1, <2>2, <2>3, KmallocSmallOK
  <2>5. CASE r.address = NULL /\ r.m = m
    BY <2>5, BookType
  <2>6. CASE SmallOK(r.m, X, L) /\ Gets(m, r.m, r.address)
    <3>1. Book(r.m, U, W \cup {r.address}, T)
      BY <2>1, <2>6, BookGets
    <3>2. r.address \in Addresses
      BY <2>6 DEF Gets
    <3> QED BY <3>1, <3>2, BookType
  <2> QED BY <2>4, <2>5, <2>6
<1>2. CASE c \notin Small
  <2>1. c \in Large /\ r = kmalloc_large(m, c)
    BY <1>2, Constants DEF kmalloc
  <2> QED BY <2>1, KmallocLargeOK
<1> QED
  BY <1>1, <1>2

\* kfree of an object of a large cache.
LEMMA KfreeLargeOK ==
  ASSUME NEW m, NEW U, NEW W, NEW T, Book(m, U, W, T), NEW c \in Large, NEW a \in Objects(m.cache[c]),
         NEW n, n = kfree_large(m, c, a)
  PROVE  Book(n, U, W \ {a}, T)
<1>0. Layout(m, U) /\ Lent(m, T) /\ ClientsOK(m)
  BY DEF Book, Layout
<1>1. PICK k, i, k1, k2, s, m1 :
        /\ k = m.cache[c] /\ i = SlabOf(k, a) /\ k1 = GiveBack(k, i, a.index) /\ s = k1.pool[i]
        /\ k2 = (IF Spare(k1, i) /\ i # 1 THEN UnlinkSlab(k1, i) ELSE k1)
        /\ m1 = [m EXCEPT !.cache[c] = k2]
  OBVIOUS
<1>2. n = IF Spare(k1, i) /\ i # 1 THEN DropSlab(m1, s) ELSE m1
  BY <1>1 DEF kfree_large, FreeObject
<1>3. SetsCache(m, m1, c, k2)
  BY <1>1 DEF SetsCache
<1>4. /\ m \in MemType /\ c \in Clients /\ c # OWN /\ Of(m, c) = k
      /\ KCacheOK(k, c) /\ Params(HeadCount[c], MoreCount[c], 0)
      /\ CacheOK(k, HeadCount[c], MoreCount[c], 0) /\ a \in Objects(k)
      /\ \A b \in Backs(k) : b # First(k) => b.desc # NULL /\ b.map # NULL
  BY <1>0, <1>1, LargeFacts
<1>5. /\ CacheOK(k2, HeadCount[c], MoreCount[c], 0) /\ Drops(k, k2, a)
      /\ ~(Spare(k1, i) /\ i # 1) => Backs(k2) = Backs(k)
      /\ (Spare(k1, i) /\ i # 1) =>
            /\ Backs(k2) = Backs(k) \ {Back(s)} /\ Back(s) \in Backs(k) /\ Back(s) # First(k)
  <2>1. CASE ~(Spare(k1, i) /\ i # 1)
    <3>1. k2 = k1
      BY <1>1, <2>1
    <3>2. CacheOK(k1, HeadCount[c], MoreCount[c], 0) /\ Drops(k, k1, a) /\ Backs(k1) = Backs(k)
      BY <1>1, <1>4, <2>1, FreeKeeps
    <3> QED BY <2>1, <3>1, <3>2
  <2>2. CASE Spare(k1, i) /\ i # 1
    <3>1. k2 = UnlinkSlab(k1, i)
      BY <1>1, <2>2
    <3>2. /\ CacheOK(k2, HeadCount[c], MoreCount[c], 0) /\ Drops(k, k2, a)
          /\ Backs(k2) = Backs(k) \ {Back(k1.pool[i])}
          /\ Back(k1.pool[i]) \in Backs(k) /\ Back(k1.pool[i]) # First(k)
      BY <1>1, <1>4, <2>2, <3>1, FreeDrops
    <3> QED BY <1>1, <2>2, <3>2
  <2> QED BY <2>1, <2>2
<1>6. ClientOK(k2, c) /\ k2 \in CacheType
  <2>1. KCacheOK(k2, c) /\ First(k2) = First(k)
    BY <1>4, <1>5 DEF KCacheOK, Drops
  <2>2. k2 \in CacheType
    BY <1>5 DEF CacheOK, CacheBase
  <2>3. Backs(k2) \subseteq Backs(k)
    BY <1>5
  <2> QED BY <1>4, <2>1, <2>2, <2>3 DEF ClientOK
<1>7. ClientStep(m, m1, c, k2) /\ m1.own = m.own /\ m1.own_at = m.own_at
  BY <1>3, <1>4, <1>6, LargeStep
<1>8. LargeObjects(m1) = LargeObjects(m) \ {a} /\ a \in LargeObjects(m)
  <2>1. OneClient(m, m1, c, k2)
    BY <1>7 DEF ClientStep
  <2>2. Split(LargeObjects(m1), Objects(k2), m, c) /\ Split(LargeObjects(m), Objects(m.cache[c]), m, c)
    BY <2>1, LargeObjectsOf
  <2>3. \A d \in Large : d # c => a \notin Objects(m.cache[d])
    BY <1>0, LargeElsewhere
  <2>4. Objects(k2) = Objects(m.cache[c]) \ {a}
    BY <1>1, <1>5 DEF Drops
  <2> QED BY <2>2, <2>3, <2>4 DEF Split
<1>9. CASE ~(Spare(k1, i) /\ i # 1)
  <2>1. n = m1 /\ Backs(k2) = Backs(Of(m, c)) /\ (m1.own = NoCache <=> m.own = NoCache)
    BY <1>2, <1>4, <1>5, <1>7, <1>9
  <2>2. Layout(n, U) /\ SmallObjects(n) = SmallObjects(m) /\ Taken(n) = Taken(m)
    BY <1>0, <1>4, <1>6, <1>7, <2>1, LayoutSame
  <2>3. Lent(n, T)
    BY <1>0, <1>7, <2>1 DEF Lent
  <2>4. PICK D : D = {}
    OBVIOUS
  <2>5. {a} \subseteq LargeObjects(m) /\ LargeObjects(n) = LargeObjects(m) \ {a}
    BY <1>8, <2>1
  <2>6. D \subseteq Taken(m) /\ SmallObjects(n) = SmallObjects(m) \ D /\ Taken(n) = Taken(m) \ D
    BY <2>2, <2>4
  <2> QED BY <2>2, <2>3, <2>5, <2>6, BookLess
<1>10. CASE Spare(k1, i) /\ i # 1
  <2>1. /\ n = DropSlab(m1, s) /\ Back(s) \in Backs(Of(m, c)) /\ Backs(k2) = Backs(Of(m, c)) \ {Back(s)}
        /\ (m1.own = NoCache <=> m.own = NoCache)
    BY <1>2, <1>4, <1>5, <1>7, <1>10
  <2>2. s.desc # NULL /\ s.map # NULL
    <3>1. Back(s).desc # NULL /\ Back(s).map # NULL
      BY <1>4, <1>5, <1>10
    <3> QED BY <3>1 DEF Back
  <2>3. /\ Layout(n, U) /\ Frame(m1, n) /\ {s.desc, s.map} \subseteq Taken(m)
        /\ SmallObjects(n) = SmallObjects(m) \ {s.desc, s.map}
        /\ Taken(n) = Taken(m) \ {s.desc, s.map}
    <3>1. ClientStep(m, m1, c, k2) /\ ClientOK(k2, c) /\ c \in Clients /\ m1.own_at = m.own_at
      BY <1>4, <1>6, <1>7
    <3> QED BY <1>0, <2>1, <2>2, <3>1, LayoutLeave
  <2>4. LargeObjects(n) = LargeObjects(m1) /\ Lent(n, T)
    <3>1. Lent(m1, T)
      BY <1>0, <1>7 DEF Lent
    <3> QED BY <2>3, <3>1, FrameSame
  <2>5. {a} \subseteq LargeObjects(m) /\ LargeObjects(n) = LargeObjects(m) \ {a}
    BY <1>8, <2>4
  <2> QED BY <2>3, <2>4, <2>5, BookLess
<1> QED
  BY <1>9, <1>10

\* kfree of what a caller of kmalloc has.
LEMMA KfreeOK ==
  ASSUME NEW m, NEW U, NEW W, NEW T, Book(m, U, W, T), NEW a \in W, NEW n, n = kfree(m, a)
  PROVE  Book(n, U, W \ {a}, T)
<1>0. Layout(m, U) /\ ClientsOK(m) /\ a \in SmallObjects(m) \cup LargeObjects(m)
  BY DEF Book, Layout
<1>1. \A d : Holds(m, d, a) <=> a.page \in PagesOf(Backs(m.cache[d]))
  BY CachePages DEF Holds
<1>2. \A d \in Small : PagesOf(Backs(m.cache[d])) \subseteq SmallPages(m)
  BY DEF SmallPages
<1>3. CASE \E d \in Small : Holds(m, d, a)
  <2>1. a.page \in SmallPages(m)
    BY <1>1, <1>2, <1>3
  <2>2. ASSUME a \in LargeObjects(m) PROVE FALSE
    <3>1. PICK c \in Large : a \in Objects(m.cache[c])
      BY <2>2 DEF LargeObjects
    <3>2. c \in Clients /\ Of(m, c) = m.cache[c]
      BY <1>0, LargeFacts
    <3>3. a.page \in Linked(m)
      BY <3>1, <3>2, ObjectPage, ClientPages DEF Linked
    <3> QED BY <1>0, <2>1, <3>3, ApartOK
  <2>3. a \in SmallObjects(m) /\ n = KfreeSmall(m, a)
    BY <1>0, <1>3, <2>2 DEF kfree
  <2> QED BY <2>3, BookGivesUp
<1>4. CASE ~ \E d \in Small : Holds(m, d, a)
  <2>1. a \notin SmallObjects(m)
    <3> SUFFICES ASSUME NEW d \in Small, a \in Objects(m.cache[d]) PROVE FALSE
      BY DEF SmallObjects
    <3> QED BY <1>1, <1>4, ObjectPage
  <2>2. PICK e \in Large : a \in Objects(m.cache[e])
    BY <1>0, <2>1 DEF LargeObjects
  <2>3. Holds(m, e, a)
    BY <1>1, <2>2, ObjectPage
  <2>4. PICK c : c = CHOOSE d \in Large : Holds(m, d, a)
    OBVIOUS
  <2>5. c \in Large /\ Holds(m, c, a)
    BY <2>3, <2>4
  <2>6. c = e
    <3>1. c \in Clients /\ Of(m, c) = m.cache[c] /\ e \in Clients /\ Of(m, e) = m.cache[e]
      BY <1>0, <2>5, LargeFacts
    <3>2. a.page \in PagesOf(Backs(Of(m, c))) /\ a.page \in PagesOf(Backs(Of(m, e)))
      BY <1>1, <2>3, <2>5, <3>1
    <3> QED BY <1>0, <3>1, <3>2 DEF ClientsOK
  <2>7. n = kfree_large(m, c, a)
    BY <1>4, <2>4 DEF kfree
  <2> QED BY <2>2, <2>6, <2>7, KfreeLargeOK
<1> QED
  BY <1>3, <1>4

-----------------------------------------------------------------------------
(* slab_create, slab_malloc and slab_free *)

\* A cache of one slab.
LEMMA OneSlabOK ==
  ASSUME NEW s, NEW h \in Nat, NEW mc, NEW off \in Nat, SlabOK(s, h, off),
         NEW k, k = [pool |-> <<s>>, total_free |-> s.free_count, total_using |-> s.using_count - off]
  PROVE  /\ CacheOK(k, h, mc, off) /\ Backs(k) = {Back(s)} /\ First(k) = Back(s)
         /\ s.bits = {} => Objects(k) = {}
<1>1. s \in Slabs /\ s.free_count \in Nat /\ s.using_count \in Nat
  BY SlabCounts DEF SlabOK
<1>2. /\ k.pool = <<s>> /\ k.total_free = s.free_count /\ k.total_using = s.using_count - off
      /\ Len(k.pool) = 1 /\ k.pool[1] = s /\ k.pool # <<>> /\ k.pool \in Seq(Slabs)
  BY <1>1
<1>3. k \in CacheType
  BY <1>1, <1>2 DEF CacheType
<1>4. \A x \in Nat : Total(<<x>>) = x
  <2> SUFFICES ASSUME NEW x \in Nat PROVE Total(<<x>>) = x
    OBVIOUS
  <2>1. PICK f, g : f = <<>> /\ g = <<x>>
    OBVIOUS
  <2>2. f \in Seq(Nat) /\ f \in Seq(Int) /\ g \in Seq(Int) /\ Len(f) = 0 /\ Len(g) = 1 /\ g[1] = x
    BY <2>1
  <2>3. Total(f) = 0
    <3>1. \A i \in 1..Len(f) : f[i] = 0
      BY <2>2
    <3> QED BY <2>2, <3>1, TotalNat
  <2>4. Added(f, g, 1, x)
    <3>1. \A i \in 1..Len(g) : i = 1
      BY <2>2
    <3> QED BY <2>2, <3>1 DEF Added
  <2>5. Total(g) = Total(f) + x
    <3>1. x \in Int /\ f \in Seq(Int) /\ g \in Seq(Int)
      BY <2>2
    <3> QED BY <2>4, <3>1, TotalAdded
  <2> QED BY <2>1, <2>3, <2>5
<1>5. FreeCounts(k) = <<s.free_count>> /\ UsingCounts(k) = <<s.using_count>>
  BY <1>2 DEF FreeCounts, UsingCounts
<1>6. k.total_free = Total(FreeCounts(k)) /\ k.total_using + off = Total(UsingCounts(k))
  BY <1>1, <1>2, <1>4, <1>5
<1>7. \A i \in 1..Len(k.pool) : i = 1
  BY <1>2
<1>8. \A i \in 1..Len(k.pool) : SlabOK(k.pool[i], Nth(i, h, mc), Nth(i, off, 0))
  BY <1>2, <1>7 DEF Nth
<1>9. OnePageEach(k) /\ OneSpare(k)
  BY <1>2, <1>7 DEF OnePageEach, OneSpare
<1>10. CacheOK(k, h, mc, off)
  BY <1>2, <1>3, <1>6, <1>8, <1>9 DEF CacheOK, CacheBase
<1>11. Backs(k) = {Back(s)} /\ First(k) = Back(s)
  BY <1>2 DEF Backs, First
<1>12. s.bits = {} => Objects(k) = {}
  BY <1>2, <1>7 DEF Objects
<1> QED
  BY <1>10, <1>11, <1>12

\* Before slab_create.
LEMMA NoCacheFacts ==
  NoCache \in CacheType /\ Backs(NoCache) = {} /\ Objects(NoCache) = {} /\ NoCache.total_using = 0
<1>1. NoCache.pool = <<>> /\ Len(NoCache.pool) = 0 /\ NoCache.total_using = 0
  BY DEF NoCache
<1>2. <<>> \in Seq(Slabs)
  OBVIOUS
<1>3. NoCache \in CacheType
  BY <1>2 DEF NoCache, CacheType
<1> QED
  BY <1>1, <1>3 DEF Backs, Objects

\* The first slab of the cache: its using_count starts at OwnCount.
LEMMA FirstOwnSlab ==
  ASSUME NEW p \in Pages, NEW d \in Addresses, NEW b \in Addresses, NEW s, s = NewSlab(p, OwnCount, d, b),
         NEW k, k = [pool |-> <<[s EXCEPT !.using_count = OwnCount]>>, total_free |-> OwnCount, total_using |-> 0]
  PROVE  /\ ClientOK(k, OWN) /\ k \in CacheType /\ k # NoCache /\ Objects(k) = {} /\ k.total_using = 0
         /\ Grows(NoCache, k, p, d, b)
<1>1. PICK t : t = [s EXCEPT !.using_count = OwnCount]
  OBVIOUS
<1>2. OwnCount \in Nat
  BY Constants DEF Params
<1>3. t = [page |-> p, bits |-> {}, using_count |-> OwnCount, free_count |-> OwnCount,
           color_count |-> OwnCount, desc |-> d, map |-> b]
  BY <1>1 DEF NewSlab
<1>4. /\ t \in Slabs /\ t.bits = {} /\ t.color_count = OwnCount /\ t.free_count = OwnCount
      /\ t.using_count = OwnCount /\ t.page = p /\ t.desc = d /\ t.map = b
  BY <1>2, <1>3 DEF Slabs
<1>5. SlabOK(t, OwnCount, OwnCount)
  BY <1>2, <1>4, FS_EmptySet DEF SlabOK
<1>6. k = [pool |-> <<t>>, total_free |-> t.free_count, total_using |-> t.using_count - OwnCount]
  BY <1>1, <1>2, <1>4
<1>7. CacheOK(k, OwnCount, OwnCount, OwnCount) /\ Backs(k) = {Back(t)} /\ Objects(k) = {}
  BY <1>2, <1>4, <1>5, <1>6, OneSlabOK
<1>8. Back(t).page = p /\ Back(t).desc = d /\ Back(t).map = b
  BY <1>4 DEF Back
<1>9. k.total_using = 0 /\ k # NoCache
  <2>1. k.pool = <<t>> /\ k.total_using = 0
    BY <1>1
  <2> QED BY <2>1 DEF NoCache
<1>10. ClientOK(k, OWN)
  BY <1>7, <1>8, Constants DEF ClientOK
<1>11. k \in CacheType
  BY <1>7 DEF CacheOK, CacheBase
<1>12. Grows(NoCache, k, p, d, b)
  BY <1>7, <1>8, NoCacheFacts DEF Grows
<1> QED
  BY <1>7, <1>9, <1>10, <1>11, <1>12

\* slab_create, also where it fails.
LEMMA SlabCreateOK ==
  ASSUME NEW m, NEW U, NEW W, NEW T, Book(m, U, W, T), m.own_at = NULL, NEW n, n = slab_create(m)
  PROVE  Book(n, U, W, T)
<1>1. PICK X, L : X = Linked(m) \cup U /\ L = Linked(m)
  OBVIOUS
<1>2. SmallOK(m, X, L)
  BY <1>1 DEF Book, Layout
<1>3. PICK q, r, a : q = kmalloc_small(m, CacheCache) /\ r = MakeSlab(q.m) /\ a = q.address
  OBVIOUS
<1>4. CacheCache \in Small
  BY MemoryAssumption
<1>5. \/ a = NULL
      \/ a # NULL /\ SmallOK(q.m, X, L) /\ Gets(m, q.m, a)
  BY <1>2, <1>3, <1>4, KmallocSmallOK
<1>6. CASE a = NULL
  <2>1. n = m
    BY <1>3, <1>6 DEF slab_create
  <2> QED BY <2>1
<1>7. CASE a # NULL
  <2>1. SmallOK(q.m, X, L) /\ Gets(m, q.m, a) /\ Frame(m, q.m) /\ a \in SmallObjects(q.m) /\ a \in Addresses
    BY <1>5, <1>7 DEF Gets
  <2>2. Book(q.m, U, W \cup {a}, T) /\ a \notin W
    BY <1>1, <2>1, BookGets
  <2>3. Linked(q.m) = L /\ q.m.own = NoCache /\ q.m.own_at = NULL
    <3>1. m.own = NoCache
      BY DEF Book, Layout, ClientsOK
    <3> QED BY <1>1, <2>1, <3>1, FrameSame DEF Frame
  <2>4. /\ Layout(q.m, U) /\ Lent(q.m, T) /\ Taken(q.m) \subseteq SmallObjects(q.m)
        /\ (W \cup {a}) \cap Taken(q.m) = {} /\ Linked(q.m) \cap U = {}
        /\ SmallObjects(q.m) \cup LargeObjects(q.m) = (W \cup {a}) \cup Taken(q.m)
    BY <2>2 DEF Book, Layout
  <2>5. \/ /\ r.slab.color_count = 0 /\ SmallOK(r.m, X, L) /\ SmallObjects(r.m) = SmallObjects(q.m)
           /\ Frame(q.m, r.m)
        \/ \E p, d, b : r.slab = NewSlab(p, OwnCount, d, b) /\ Made(q.m, r.m, X, L, p, d, b)
    BY <1>3, <2>1, MakeSlabOK
  <2>6. (W \cup {a}) \ {a} = W
    BY <2>2
  <2>7. CASE /\ r.slab.color_count = 0 /\ SmallOK(r.m, X, L) /\ SmallObjects(r.m) = SmallObjects(q.m)
             /\ Frame(q.m, r.m)
    <3>1. SmallOK(r.m, Linked(q.m) \cup U, Linked(q.m))
      BY <1>1, <2>3, <2>7
    <3>2. Book(r.m, U, W \cup {a}, T)
      BY <2>2, <2>4, <2>7, <3>1, BookSmall
    <3>3. n = KfreeSmall(r.m, a) /\ a \in W \cup {a} /\ a \in SmallObjects(r.m)
      BY <1>3, <1>7, <2>1, <2>7 DEF slab_create
    <3>4. Book(n, U, (W \cup {a}) \ {a}, T)
      BY <3>2, <3>3, BookGivesUp
    <3> QED BY <2>6, <3>4
  <2>8. ASSUME NEW p, NEW d, NEW b, r.slab = NewSlab(p, OwnCount, d, b), Made(q.m, r.m, X, L, p, d, b)
        PROVE  Book(n, U, W, T)
    <3>1. PICK k : k = [pool |-> <<[r.slab EXCEPT !.using_count = OwnCount]>>,
                        total_free |-> OwnCount, total_using |-> 0]
      OBVIOUS
    <3>2. /\ SmallOK(r.m, X \cup {p}, L \cup {p}) /\ p \in Pages /\ d \in Addresses /\ b \in Addresses
          /\ d \notin SmallObjects(q.m) /\ b \notin SmallObjects(q.m) /\ r.m \in MemType /\ Frame(q.m, r.m)
      BY <2>8 DEF Made, SmallOK
    <3>3. /\ ClientOK(k, OWN) /\ k \in CacheType /\ k # NoCache /\ Objects(k) = {} /\ k.total_using = 0
          /\ Grows(NoCache, k, p, d, b)
      BY <2>8, <3>1, <3>2, FirstOwnSlab
    <3>4. r.slab.color_count # 0
      BY <2>8, Constants DEF NewSlab, Params
    <3>5. n = [r.m EXCEPT !.own_at = a, !.own = k]
      BY <1>3, <1>7, <3>1, <3>4 DEF slab_create
    <3>6. OwnSet(r.m, n, k, a)
      BY <3>2, <3>5 DEF OwnSet, MemType
    <3>7. /\ ClientStep(r.m, n, OWN, k) /\ OWN \in Clients /\ Of(q.m, OWN) = NoCache
          /\ n.own = k /\ n.own_at = a
      BY <2>1, <2>3, <3>2, <3>3, <3>6, OwnStep DEF Of
    <3>8. Grows(Of(q.m, OWN), k, p, d, b)
      BY <3>3, <3>7
    <3>9. Place(q.m, n)
      <4>1. Structs(AllBacks(q.m)) \subseteq Taken(q.m)
        BY DEF Taken
      <4> QED BY <1>7, <2>1, <2>4, <3>3, <3>7, <4>1 DEF Place
    <3>10. Made(q.m, r.m, Linked(q.m) \cup U, Linked(q.m), p, d, b)
      BY <1>1, <2>3, <2>8
    <3>11. GrownTo(q.m, n, U, d, b)
      BY <2>4, <3>3, <3>7, <3>8, <3>9, <3>10, LayoutJoin
    <3>12. LargeObjects(n) = LargeObjects(q.m)
      <4>1. OneClient(r.m, n, OWN, k)
        BY <3>7 DEF ClientStep
      <4>2. LargeObjects(n) = LargeObjects(r.m)
        BY <4>1, LargeObjectsOwn
      <4> QED BY <3>2, <4>2, FrameSame
    <3>13. Lent(n, T)
      BY <2>3, <2>4, <3>3, <3>7, NoCacheFacts DEF Lent
    <3>14. n.own_at \in W \cup {a} /\ q.m.own_at = NULL
      BY <2>3, <3>7
    <3>15. Book(n, U, (W \cup {a}) \ {n.own_at}, T)
      BY <2>2, <3>2, <3>11, <3>12, <3>13, <3>14, BookJoin
    <3> QED BY <2>6, <3>7, <3>15
  <2> QED BY <2>5, <2>7, <2>8
<1> QED
  BY <1>6, <1>7

\* The cache of slab_create once there is one.
LEMMA OwnFacts ==
  ASSUME NEW m, NEW U, Layout(m, U), m.own # NoCache
  PROVE  /\ m \in MemType /\ OWN \in Clients /\ Of(m, OWN) = m.own /\ m.own_at # NULL
         /\ CacheOK(m.own, OwnCount, OwnCount, OwnCount) /\ Params(OwnCount, OwnCount, OwnCount)
         /\ OwnCount # 0 /\ \A b \in Backs(m.own) : b.desc # NULL /\ b.map # NULL
<1>1. m \in MemType /\ ClientsOK(m)
  BY DEF Layout, SmallOK
<1>2. OWN \in Clients /\ Of(m, OWN) = m.own
  BY DEF Clients, Of
<1>3. ClientOK(m.own, OWN) /\ m.own_at # NULL
  BY <1>1, <1>2 DEF ClientsOK
<1>4. /\ CacheOK(m.own, OwnCount, OwnCount, OwnCount)
      /\ \A b \in Backs(m.own) : b.desc # NULL /\ b.map # NULL
  BY <1>3 DEF ClientOK
<1>5. Params(OwnCount, OwnCount, OwnCount) /\ OwnCount # 0
  BY Constants DEF Params
<1> QED
  BY <1>1, <1>2, <1>3, <1>4, <1>5

\* A cache that has slabs is not the one before slab_create.
LEMMA CacheThere ==
  ASSUME NEW k, NEW hc, NEW mc, NEW off, CacheOK(k, hc, mc, off)
  PROVE  k # NoCache /\ k \in CacheType
  BY DEF CacheOK, CacheBase, NoCache

\* Only own is assigned.
LEMMA SetOwn ==
  ASSUME NEW m \in MemType, NEW k, NEW n, n = [m EXCEPT !.own = k]
  PROVE  OwnSet(m, n, k, m.own_at) /\ m.own_at \in Addresses \cup {NULL}
  BY DEF MemType, OwnSet

\* A caller gets an object of the cache of slab_create.
LEMMA BookTakeOwn ==
  ASSUME NEW m, NEW U, NEW W, NEW T, Book(m, U, W, T), m.own # NoCache,
         NEW i \in 1..Len(m.own.pool), Clear(m.own.pool[i]) # {}, NEW r, r = OwnObject(m, i)
  PROVE  Book(r.m, U, W, T \cup {r.address}) /\ r.address \in Addresses /\ r.m.halted = m.halted
<1>0. Layout(m, U) /\ Lent(m, T)
  BY DEF Book
<1>1. PICK k, k2, n, a : k = m.own /\ k2 = Take(k, i) /\ n = [m EXCEPT !.own = k2] /\ a = FirstObject(k.pool[i])
  OBVIOUS
<1>2. r = [m |-> n, address |-> a]
  BY <1>1 DEF OwnObject
<1>3. /\ m \in MemType /\ OWN \in Clients /\ Of(m, OWN) = k
      /\ CacheOK(k, OwnCount, OwnCount, OwnCount) /\ Params(OwnCount, OwnCount, OwnCount)
      /\ \A b \in Backs(k) : b.desc # NULL /\ b.map # NULL
  BY <1>0, <1>1, OwnFacts
<1>4. CacheOK(k2, OwnCount, OwnCount, OwnCount) /\ Gives(k, k2, a)
  <2>1. i \in 1..Len(k.pool) /\ Clear(k.pool[i]) # {}
    BY <1>1
  <2> QED BY <1>1, <1>3, <2>1, TakeOK
<1>5. /\ Backs(k2) = Backs(k) /\ Objects(k2) = Objects(k) \cup {a} /\ a \in Addresses /\ a \notin Objects(k)
      /\ k2.total_using = k.total_using + 1
  BY <1>4 DEF Gives
<1>6. ClientOK(k2, OWN) /\ k2 \in CacheType /\ k2 # NoCache
  BY <1>3, <1>4, <1>5, CacheThere DEF ClientOK
<1>7. OwnSet(m, n, k2, m.own_at) /\ m.own_at \in Addresses \cup {NULL}
  BY <1>1, <1>3, SetOwn
<1>8. ClientStep(m, n, OWN, k2) /\ n.own = k2 /\ n.own_at = m.own_at /\ n.halted = m.halted
  BY <1>3, <1>6, <1>7, OwnStep
<1>9. Backs(k2) = Backs(Of(m, OWN)) /\ (n.own = NoCache <=> m.own = NoCache)
  BY <1>3, <1>5, <1>6, <1>8
<1>10. Layout(n, U) /\ SmallObjects(n) = SmallObjects(m) /\ Taken(n) = Taken(m)
  BY <1>0, <1>3, <1>6, <1>8, <1>9, LayoutSame
<1>11. LargeObjects(n) = LargeObjects(m)
  BY <1>8, LargeObjectsOwn DEF ClientStep
<1>12. Lent(n, T \cup {a})
  <2>1. T = Objects(k) /\ IsFiniteSet(T) /\ k.total_using = Cardinality(T) /\ a \notin T
    BY <1>0, <1>1, <1>5 DEF Lent
  <2>2. IsFiniteSet(T \cup {a}) /\ Cardinality(T \cup {a}) = Cardinality(T) + 1
    BY <2>1, FS_AddElement
  <2> QED BY <1>5, <1>8, <2>1, <2>2 DEF Lent
<1>13. Book(n, U, W, T \cup {a})
  BY <1>10, <1>11, <1>12 DEF Book
<1> QED
  BY <1>2, <1>5, <1>8, <1>13

\* slab_malloc fails, or what it returns is new.
LEMMA SlabMallocOK ==
  ASSUME NEW m, NEW U, NEW W, NEW T, Book(m, U, W, T), m.own_at # NULL, NEW r, r = slab_malloc(m)
  PROVE  \/ r.address = NULL /\ Book(r.m, U, W, T)
         \/ r.address \in Addresses /\ Book(r.m, U, W, T \cup {r.address})
<1>0. Layout(m, U) /\ Lent(m, T) /\ m.own # NoCache
  BY DEF Book, Layout, ClientsOK
<1>1. PICK k : k = m.own
  OBVIOUS
<1>2. /\ m \in MemType /\ OWN \in Clients /\ Of(m, OWN) = k
      /\ CacheOK(k, OwnCount, OwnCount, OwnCount) /\ Params(OwnCount, OwnCount, OwnCount)
      /\ \A b \in Backs(k) : b.desc # NULL /\ b.map # NULL
  BY <1>0, <1>1, OwnFacts
<1>3. CASE k.total_free # 0
  <2>1. PICK i : i = SearchSlab(k)
    OBVIOUS
  <2>2. i \in 1..Len(k.pool) /\ Clear(k.pool[i]) # {}
    BY <1>2, <1>3, <2>1, SearchOK
  <2>3. r = OwnObject(m, i) /\ i \in 1..Len(m.own.pool) /\ Clear(m.own.pool[i]) # {}
    BY <1>1, <1>3, <2>1, <2>2 DEF slab_malloc
  <2>4. Book(r.m, U, W, T \cup {r.address}) /\ r.address \in Addresses
    BY <1>0, <2>3, BookTakeOwn, Zenon
  <2> QED BY <2>4
<1>4. CASE k.total_free = 0
  <2>1. PICK X, L, q : X = Linked(m) \cup U /\ L = Linked(m) /\ q = MakeSlab(m)
    OBVIOUS
  <2>2. SmallOK(m, X, L)
    BY <2>1 DEF Book, Layout
  <2>3. \/ /\ q.slab.color_count = 0 /\ SmallOK(q.m, X, L) /\ SmallObjects(q.m) = SmallObjects(m)
           /\ Frame(m, q.m)
        \/ \E p, d, b : q.slab = NewSlab(p, OwnCount, d, b) /\ Made(m, q.m, X, L, p, d, b)
    BY <2>1, <2>2, MakeSlabOK
  <2>4. CASE /\ q.slab.color_count = 0 /\ SmallOK(q.m, X, L) /\ SmallObjects(q.m) = SmallObjects(m)
             /\ Frame(m, q.m)
    <3>1. r = Failed(q.m)
      BY <1>1, <1>4, <2>1, <2>4 DEF slab_malloc
    <3>2. r = [m |-> q.m, address |-> NULL]
      BY <3>1 DEF Failed
    <3>3. r.m = q.m /\ r.address = NULL
      BY <3>2
    <3>4. /\ Taken(m) \subseteq SmallObjects(q.m) /\ W \cap Taken(m) = {} /\ Linked(m) \cap U = {}
          /\ SmallObjects(q.m) \cup LargeObjects(m) = W \cup Taken(m)
          /\ SmallOK(q.m, Linked(m) \cup U, Linked(m))
      BY <2>1, <2>4 DEF Book, Layout
    <3>5. Book(q.m, U, W, T)
      BY <2>4, <3>4, BookSmall
    <3> QED BY <3>3, <3>5
  <2>5. ASSUME NEW p, NEW d, NEW b, q.slab = NewSlab(p, OwnCount, d, b), Made(m, q.m, X, L, p, d, b)
        PROVE  r.address \in Addresses /\ Book(r.m, U, W, T \cup {r.address})
    <3>1. PICK mid, s, k2, n : mid = q.m /\ s = q.slab /\ k2 = LinkSlab(k, 2, s) /\ n = [mid EXCEPT !.own = k2]
      OBVIOUS
    <3>2. /\ p \in Pages /\ p \notin X /\ d \in Addresses /\ b \in Addresses
          /\ d \notin SmallObjects(m) /\ b \notin SmallObjects(m) /\ mid \in MemType /\ Frame(m, mid)
      BY <2>5, <3>1 DEF Made, SmallOK
    <3>3. mid.own = k /\ mid.own_at = m.own_at /\ mid.halted = m.halted
      BY <1>1, <3>2 DEF Frame
    <3>4. /\ Fresh(s, OwnCount) /\ s.page = p
          /\ Back(s).page = p /\ Back(s).desc = d /\ Back(s).map = b
      <4>1. OwnCount \in Nat
        BY <1>2 DEF Params
      <4> QED BY <2>5, <3>1, <3>2, <4>1, NewSlabOK
    <3>5. s.color_count # 0
      BY <1>2, <3>4 DEF Fresh, Params
    <3>6. r = OwnObject(n, 2)
      BY <1>1, <1>4, <2>1, <3>1, <3>3, <3>5 DEF slab_malloc
    <3>7. 2 \in 2..(Len(k.pool) + 1)
      <4>1. Len(k.pool) \in Nat /\ 1 \in 1..Len(k.pool)
        BY <1>2, CacheFacts DEF CacheOK
      <4> QED BY <4>1
    <3>8. s.page \notin PagesOf(Backs(k))
      <4>1. PagesOf(Backs(k)) \subseteq Linked(m)
        BY <1>2, ClientPages DEF Linked
      <4> QED BY <2>1, <3>2, <3>4, <4>1
    <3>9. CacheOK(k2, OwnCount, OwnCount, OwnCount) /\ Links(k, k2, 2, s)
      BY <1>2, <1>4, <3>1, <3>4, <3>7, <3>8, LinkOK
    <3>10. /\ Backs(k2) = Backs(k) \cup {Back(s)} /\ Objects(k2) = Objects(k)
           /\ k2.total_using = k.total_using
           /\ 2 \in 1..Len(k2.pool) /\ k2.pool[2] = s /\ Clear(s) # {}
      BY <3>9 DEF Links
    <3>11. ClientOK(k2, OWN) /\ k2 \in CacheType /\ k2 # NoCache
      <4>1. d # NULL /\ b # NULL
        BY <3>2, Constants
      <4>2. \A x \in Backs(k2) : x.desc # NULL /\ x.map # NULL
        BY <1>2, <3>4, <3>10, <4>1
      <4> QED BY <3>9, <4>2, CacheThere DEF ClientOK
    <3>12. OwnSet(mid, n, k2, mid.own_at) /\ mid.own_at \in Addresses \cup {NULL}
      BY <3>1, <3>2, SetOwn
    <3>13. ClientStep(mid, n, OWN, k2) /\ n.own = k2 /\ n.own_at = m.own_at
      BY <3>2, <3>3, <3>11, <3>12, OwnStep
    <3>14. Place(m, n)
      <4>1. /\ Taken(m) \subseteq SmallObjects(m) /\ m.own_at \notin Structs(AllBacks(m)) /\ m.own_at \in Taken(m)
        BY <1>0 DEF Layout, ClientsOK, Taken
      <4> QED BY <3>11, <3>13, <4>1 DEF Place
    <3>15. Grows(Of(m, OWN), k2, p, d, b)
      BY <1>2, <3>4, <3>10 DEF Grows
    <3>16. GrownTo(m, n, U, d, b)
      <4>1. Made(m, mid, Linked(m) \cup U, Linked(m), p, d, b)
        BY <2>1, <2>5, <3>1
      <4> QED BY <1>0, <1>2, <3>11, <3>13, <3>14, <3>15, <4>1, LayoutJoin
    <3>17. LargeObjects(n) = LargeObjects(m)
      <4>1. OneClient(mid, n, OWN, k2)
        BY <3>13 DEF ClientStep
      <4>2. LargeObjects(n) = LargeObjects(mid)
        BY <4>1, LargeObjectsOwn
      <4> QED BY <3>2, <4>2, FrameSame
    <3>18. Lent(n, T)
      BY <1>0, <1>1, <3>10, <3>13 DEF Lent
    <3>19. Book(n, U, W \ {n.own_at}, T)
      BY <3>2, <3>13, <3>16, <3>17, <3>18, BookJoin
    <3>20. W \ {n.own_at} = W
      BY <3>13 DEF Book, Taken
    <3>21. Book(n, U, W, T) /\ n.own # NoCache /\ 2 \in 1..Len(n.own.pool) /\ Clear(n.own.pool[2]) # {}
      BY <3>10, <3>11, <3>13, <3>19, <3>20
    <3> QED BY <3>6, <3>21, BookTakeOwn, Zenon
  <2> QED BY <2>3, <2>4, <2>5
<1> QED
  BY <1>3, <1>4

\* slab_free of what a caller of slab_malloc has.
LEMMA SlabFreeOK ==
  ASSUME NEW m, NEW U, NEW W, NEW T, Book(m, U, W, T), NEW a \in T, NEW n, n = slab_free(m, a)
  PROVE  Book(n, U, W, T \ {a})
<1>0. Layout(m, U) /\ Lent(m, T) /\ a \in Objects(m.own) /\ m.own # NoCache
  BY NoCacheFacts DEF Book, Lent
<1>1. PICK k, i, k1, k2, s, m1 :
        /\ k = m.own /\ i = SlabOf(k, a) /\ k1 = GiveBack(k, i, a.index) /\ s = k1.pool[i]
        /\ k2 = (IF Spare(k1, i) THEN UnlinkSlab(k1, i) ELSE k1) /\ m1 = [m EXCEPT !.own = k2]
  OBVIOUS
<1>2. n = IF Spare(k1, i) THEN DropSlab(m1, s) ELSE m1
  BY <1>1 DEF slab_free
<1>3. /\ m \in MemType /\ OWN \in Clients /\ Of(m, OWN) = k /\ a \in Objects(k) /\ OwnCount # 0
      /\ CacheOK(k, OwnCount, OwnCount, OwnCount) /\ Params(OwnCount, OwnCount, OwnCount)
      /\ \A b \in Backs(k) : b.desc # NULL /\ b.map # NULL
  BY <1>0, <1>1, OwnFacts
<1>4. Spare(k1, i) => i # 1
  BY <1>1, <1>3, FirstStays
<1>5. /\ CacheOK(k2, OwnCount, OwnCount, OwnCount) /\ Drops(k, k2, a)
      /\ ~Spare(k1, i) => Backs(k2) = Backs(k)
      /\ Spare(k1, i) => Backs(k2) = Backs(k) \ {Back(s)} /\ Back(s) \in Backs(k)
  <2>1. CASE ~Spare(k1, i)
    <3>1. k2 = k1
      BY <1>1, <2>1
    <3>2. CacheOK(k1, OwnCount, OwnCount, OwnCount) /\ Drops(k, k1, a) /\ Backs(k1) = Backs(k)
      BY <1>1, <1>3, <2>1, FreeKeeps
    <3> QED BY <2>1, <3>1, <3>2
  <2>2. CASE Spare(k1, i)
    <3>1. k2 = UnlinkSlab(k1, i) /\ i # 1
      BY <1>1, <1>4, <2>2
    <3>2. /\ CacheOK(k2, OwnCount, OwnCount, OwnCount) /\ Drops(k, k2, a)
          /\ Backs(k2) = Backs(k) \ {Back(k1.pool[i])} /\ Back(k1.pool[i]) \in Backs(k)
      BY <1>1, <1>3, <2>2, <3>1, FreeDrops
    <3> QED BY <1>1, <2>2, <3>2
  <2> QED BY <2>1, <2>2
<1>6. ClientOK(k2, OWN) /\ k2 \in CacheType /\ k2 # NoCache
  <2>1. Backs(k2) \subseteq Backs(k)
    BY <1>5
  <2> QED BY <1>3, <1>5, <2>1, CacheThere DEF ClientOK
<1>7. OwnSet(m, m1, k2, m.own_at) /\ m.own_at \in Addresses \cup {NULL}
  BY <1>1, <1>3, SetOwn
<1>8. ClientStep(m, m1, OWN, k2) /\ m1.own = k2 /\ m1.own_at = m.own_at
  BY <1>3, <1>6, <1>7, OwnStep
<1>9. LargeObjects(m1) = LargeObjects(m)
  BY <1>8, LargeObjectsOwn DEF ClientStep
<1>10. Lent(m1, T \ {a})
  <2>1. T = Objects(k) /\ IsFiniteSet(T) /\ k.total_using = Cardinality(T)
    BY <1>0, <1>1 DEF Lent
  <2>2. IsFiniteSet(T \ {a}) /\ Cardinality(T \ {a}) = Cardinality(T) - 1
    BY <2>1, FS_RemoveElement
  <2>3. Objects(k2) = Objects(k) \ {a} /\ k2.total_using = k.total_using - 1
    BY <1>5 DEF Drops
  <2> QED BY <1>8, <2>1, <2>2, <2>3 DEF Lent
<1>11. m1.own = NoCache <=> m.own = NoCache
  BY <1>0, <1>6, <1>8
<1>12. PICK A : A = {} /\ A \subseteq LargeObjects(m) /\ LargeObjects(m1) = LargeObjects(m) \ A /\ W \ A = W
  BY <1>9
<1>13. CASE ~Spare(k1, i)
  <2>1. n = m1 /\ Backs(k2) = Backs(Of(m, OWN))
    BY <1>2, <1>3, <1>5, <1>13
  <2>2. Layout(n, U) /\ SmallObjects(n) = SmallObjects(m) /\ Taken(n) = Taken(m)
    BY <1>0, <1>3, <1>6, <1>8, <1>11, <2>1, LayoutSame
  <2>3. Lent(n, T \ {a}) /\ LargeObjects(n) = LargeObjects(m)
    BY <1>9, <1>10, <2>1
  <2> QED BY <2>2, <2>3 DEF Book
<1>14. CASE Spare(k1, i)
  <2>1. n = DropSlab(m1, s) /\ Back(s) \in Backs(Of(m, OWN)) /\ Backs(k2) = Backs(Of(m, OWN)) \ {Back(s)}
    BY <1>2, <1>3, <1>5, <1>14
  <2>2. s.desc # NULL /\ s.map # NULL
    <3>1. Back(s).desc # NULL /\ Back(s).map # NULL
      BY <1>3, <1>5, <1>14
    <3> QED BY <3>1 DEF Back
  <2>3. /\ Layout(n, U) /\ Frame(m1, n) /\ {s.desc, s.map} \subseteq Taken(m)
        /\ SmallObjects(n) = SmallObjects(m) \ {s.desc, s.map}
        /\ Taken(n) = Taken(m) \ {s.desc, s.map}
    BY <1>0, <1>3, <1>6, <1>8, <1>11, <2>1, <2>2, LayoutLeave
  <2>4. LargeObjects(n) = LargeObjects(m) \ A /\ Lent(n, T \ {a})
    <3>1. LargeObjects(n) = LargeObjects(m1) /\ Lent(n, T \ {a})
      BY <1>10, <2>3, FrameSame
    <3> QED BY <1>12, <3>1
  <2>5. Book(n, U, W \ A, T \ {a})
    BY <1>12, <2>3, <2>4, BookLess
  <2> QED BY <1>12, <2>5
<1> QED
  BY <1>13, <1>14

-----------------------------------------------------------------------------
(* slab_destroy *)

\* g[n] is the state once the first n slabs of the cache are released, as slab_destroy
\* computes it ...
Left(m, g) ==
  g = [n \in 0..Len(m.own.pool) |-> IF n = 0 THEN m ELSE DropSlab(g[n - 1], m.own.pool[n])]

\* ... and for the first N of them.
LeftTo(m, N, g) ==
  /\ g = [n \in 0..N |-> g[n]] /\ g[0] = m
  /\ \A n \in 1..N : g[n] = DropSlab(g[n - 1], m.own.pool[n])

\* There are such states.
LEMMA LeftExists ==
  ASSUME NEW m, Len(m.own.pool) \in Nat
  PROVE  \E g : Left(m, g)
<1> DEFINE N == Len(m.own.pool)
           T == {n \in Nat : \E g : LeftTo(m, n, g)}
<1>1. 0 \in T
  <2>1. PICK h : h = [n \in 0..0 |-> m]
    OBVIOUS
  <2>2. h[0] = m /\ h = [n \in 0..0 |-> h[n]] /\ \A n \in 1..0 : h[n] = DropSlab(h[n - 1], m.own.pool[n])
    BY <2>1
  <2> QED BY <2>2 DEF LeftTo
<1>2. ASSUME NEW n \in 0..(N - 1), n \in T
      PROVE  n + 1 \in T
  <2>1. PICK g : LeftTo(m, n, g)
    BY <1>2
  <2>2. PICK x : x = DropSlab(g[n], m.own.pool[n + 1])
    OBVIOUS
  <2>3. PICK h : h = [j \in 0..(n + 1) |-> IF j = n + 1 THEN x ELSE g[j]]
    OBVIOUS
  <2>4. n \in Nat /\ g[0] = m /\ \A j \in 1..n : g[j] = DropSlab(g[j - 1], m.own.pool[j])
    <3>1. n \in Nat
      OBVIOUS
    <3> QED BY <2>1, <3>1, Zenon DEF LeftTo
  <2>5. \A j \in 0..(n + 1) : h[j] = IF j = n + 1 THEN x ELSE g[j]
    BY <2>3
  <2>6. h = [j \in 0..(n + 1) |-> h[j]] /\ h[0] = m
    <3>1. h = [j \in 0..(n + 1) |-> h[j]]
      BY <2>3, <2>5
    <3>2. 0 \in 0..(n + 1) /\ 0 # n + 1
      BY <2>4
    <3> QED BY <2>4, <2>5, <3>1, <3>2
  <2>7. ASSUME NEW j \in 1..(n + 1) PROVE h[j] = DropSlab(h[j - 1], m.own.pool[j])
    <3>1. j - 1 \in 0..(n + 1) /\ j - 1 # n + 1 /\ j \in 0..(n + 1)
      BY <2>4
    <3>2. h[j - 1] = g[j - 1]
      BY <2>5, <3>1
    <3>3. CASE j = n + 1
      <4>1. h[j] = x /\ j - 1 = n
        BY <2>4, <2>5, <3>1, <3>3
      <4> QED BY <2>2, <3>2, <3>3, <4>1
    <3>4. CASE j # n + 1
      <4>1. h[j] = g[j] /\ j \in 1..n
        BY <2>4, <2>5, <3>1, <3>4
      <4> QED BY <2>4, <3>2, <4>1
    <3> QED BY <3>3, <3>4
  <2>8. LeftTo(m, n + 1, h)
    BY <2>6, <2>7, Zenon DEF LeftTo
  <2> QED BY <2>4, <2>8
<1>3. \A n \in 0..N : n \in T
  <2>1. N \in Nat
    OBVIOUS
  <2> HIDE DEF T, N
  <2> QED BY <1>1, <1>2, <2>1, UpTo, Zenon
<1>4. PICK g : LeftTo(m, N, g)
  BY <1>3
<1>5. \A n \in 0..N : g[n] = IF n = 0 THEN m ELSE DropSlab(g[n - 1], m.own.pool[n])
  <2>1. g[0] = m /\ \A n \in 1..N : g[n] = DropSlab(g[n - 1], m.own.pool[n])
    BY <1>4 DEF LeftTo
  <2>2. \A n \in 0..N : n = 0 \/ n \in 1..N
    OBVIOUS
  <2> HIDE DEF N
  <2> QED BY <2>1, <2>2, Zenon
<1>6. g = [n \in 0..N |-> g[n]]
  BY <1>4 DEF LeftTo
<1>7. Left(m, g)
  BY <1>5, <1>6, Zenon DEF Left
<1> QED
  BY <1>7

\* slab_destroy is that loop, and then the cache itself goes.
LEMMA DestroyIs ==
  ASSUME NEW m, Len(m.own.pool) \in Nat
  PROVE  \E g : /\ g[0] = m
                /\ \A n \in 1..Len(m.own.pool) : g[n] = DropSlab(g[n - 1], m.own.pool[n])
                /\ slab_destroy(m)
                     = KfreeSmall([g[Len(m.own.pool)] EXCEPT !.own = NoCache, !.own_at = NULL], m.own_at)
<1>1. PICK g : g = CHOOSE h : Left(m, h)
  OBVIOUS
<1>2. slab_destroy(m) = KfreeSmall([g[Len(m.own.pool)] EXCEPT !.own = NoCache, !.own_at = NULL], m.own_at)
  BY <1>1, Zenon DEF slab_destroy, Left
<1>3. Left(m, g)
  BY <1>1, LeftExists, Zenon
<1>4. \A n \in 0..Len(m.own.pool) : g[n] = IF n = 0 THEN m ELSE DropSlab(g[n - 1], m.own.pool[n])
  BY <1>3, Zenon DEF Left
<1>5. 0 \in 0..Len(m.own.pool) /\ \A n \in 1..Len(m.own.pool) : n \in 0..Len(m.own.pool) /\ n # 0
  OBVIOUS
<1>6. g[0] = m /\ \A n \in 1..Len(m.own.pool) : g[n] = DropSlab(g[n - 1], m.own.pool[n])
  BY <1>4, <1>5, Zenon
<1> QED
  BY <1>2, <1>6, Zenon

\* Some slabs go, their structures are used by no other.
LEMMA UseLess ==
  ASSUME NEW B, OneUse(B), NEW G, G \subseteq B
  PROVE  /\ OneUse(B \ G) /\ Structs(B \ G) = Structs(B) \ Structs(G)
         /\ \A e \in B \ G : /\ e.desc # NULL => e.desc \notin Structs(G)
                             /\ e.map # NULL => e.map \notin Structs(G)
<1>1. OneUse(B \ G)
  BY DEF OneUse
<1>2. \A e \in B \ G, x \in G :
        /\ e.desc # NULL => e.desc # x.desc /\ e.desc # x.map
        /\ e.map # NULL => e.map # x.desc /\ e.map # x.map
  BY DEF OneUse
<1>3. \A S : \A x : x \in Structs(S) <=> x # NULL /\ \E e \in S : x = e.desc \/ x = e.map
  BY DEF Structs
<1>4. \A e \in B \ G : /\ e.desc # NULL => e.desc \notin Structs(G)
                       /\ e.map # NULL => e.map \notin Structs(G)
  BY <1>2, <1>3
<1>5. ASSUME NEW x PROVE x \in Structs(B \ G) <=> x \in Structs(B) /\ x \notin Structs(G)
  <2>1. x \in Structs(B \ G) <=> x # NULL /\ \E e \in B \ G : x = e.desc \/ x = e.map
    BY <1>3
  <2>2. x \in Structs(B) <=> x # NULL /\ \E e \in B : x = e.desc \/ x = e.map
    BY <1>3
  <2>3. x \in Structs(G) <=> x # NULL /\ \E e \in G : x = e.desc \/ x = e.map
    BY <1>3
  <2> QED BY <1>4, <2>1, <2>2, <2>3
<1> QED
  BY <1>1, <1>4, <1>5

\* What is released after j slabs.
Gone(k, j) == {Back(k.pool[i]) : i \in 1..j}

\* s is slab j of that cache.
OwnSlab(m, j, s) == s = m.own.pool[j]

\* y is the state once the first j slabs have been dropped: their pages and their structures
\* are free, and nothing else.
LoopOK(m, X, L, y, j) ==
  /\ SmallOK(y, X \ PagesOf(Gone(m.own, j)), L \ PagesOf(Gone(m.own, j))) /\ Frame(m, y)
  /\ SmallObjects(y) = SmallObjects(m) \ Structs(Gone(m.own, j))

\* One turn of the loop.
LEMMA LoopStep ==
  ASSUME NEW m, NEW U, Layout(m, U), m.own # NoCache, NEW X, NEW L, L = Linked(m),
         NEW j \in 0..(Len(m.own.pool) - 1), NEW y, LoopOK(m, X, L, y, j),
         NEW s, OwnSlab(m, j + 1, s), NEW z, z = DropSlab(y, s)
  PROVE  LoopOK(m, X, L, z, j + 1)
<1>1. PICK k : k = m.own
  OBVIOUS
<1>2. /\ OWN \in Clients /\ Of(m, OWN) = k /\ CacheOK(k, OwnCount, OwnCount, OwnCount)
      /\ Params(OwnCount, OwnCount, OwnCount) /\ \A b \in Backs(k) : b.desc # NULL /\ b.map # NULL
  BY <1>1, OwnFacts
<1>3. Len(k.pool) \in Nat /\ OnePageEach(k)
  <2>1. CacheBase(k, OwnCount, OwnCount, OwnCount)
    BY <1>2 DEF CacheOK
  <2>2. Len(k.pool) \in Nat
    BY <1>2, <2>1, CacheFacts
  <2> QED BY <2>1, <2>2 DEF CacheBase
<1>4. j \in Nat /\ j + 1 \in 1..Len(k.pool) /\ \A i \in 1..j : i \in 1..Len(k.pool) /\ i # j + 1
  BY <1>1, <1>3
<1>5. PICK e : e = Back(s) /\ e.page = s.page /\ e.desc = s.desc /\ e.map = s.map
  <2>1. Back(s).page = s.page /\ Back(s).desc = s.desc /\ Back(s).map = s.map
    BY DEF Back
  <2> QED BY <2>1
<1>6. PICK B, G : B = AllBacks(m) /\ G = Gone(k, j)
  OBVIOUS
<1>7. e \in Backs(k) /\ G \subseteq Backs(k) /\ Backs(k) \subseteq B
  <2>1. e \in Backs(k)
    BY <1>1, <1>4, <1>5 DEF Backs, OwnSlab
  <2>2. G \subseteq Backs(k)
    BY <1>4, <1>6 DEF Backs, Gone
  <2>3. Backs(k) \subseteq B
    BY <1>2, <1>6 DEF AllBacks
  <2> QED BY <2>1, <2>2, <2>3
<1>8. s.page \notin PagesOf(G)
  <2> SUFFICES ASSUME NEW x \in G, s.page = x.page PROVE FALSE
    BY DEF PagesOf
  <2>1. PICK i \in 1..j : x = Back(k.pool[i])
    BY <1>6 DEF Gone
  <2>2. k.pool[i].page = k.pool[j + 1].page
    BY <1>1, <2>1 DEF Back, OwnSlab
  <2> QED BY <1>3, <1>4, <2>2 DEF OnePageEach
<1>9. e \notin G
  BY <1>5, <1>8 DEF PagesOf
<1>10. /\ OneUse(B) /\ Structs(B) \subseteq SmallObjects(m) /\ PagesOf(B) \subseteq L
  BY <1>6 DEF Layout, ClientsOK, Taken, Linked
<1>11. e.desc # NULL /\ e.map # NULL /\ e \in B
  BY <1>2, <1>7
<1>12. /\ e.desc \notin Structs(G) /\ e.map \notin Structs(G)
  <2>1. G \subseteq B /\ e \in B \ G
    BY <1>7, <1>9
  <2> QED BY <1>10, <1>11, <2>1, UseLess
<1>13. e.desc # e.map /\ e.desc \in Structs(B) /\ e.map \in Structs(B)
  BY <1>10, <1>11, UseMinus
<1>14. Gone(k, j + 1) = G \cup {e}
  <2>1. \A i : i \in 1..(j + 1) <=> i \in 1..j \/ i = j + 1
    BY <1>4
  <2> QED BY <1>1, <1>5, <1>6, <2>1 DEF Gone, OwnSlab
<1>15. PagesOf(Gone(k, j + 1)) = PagesOf(G) \cup {s.page}
  BY <1>5, <1>14 DEF PagesOf
<1>16. Structs(Gone(k, j + 1)) = Structs(G) \cup {s.desc, s.map}
  <2>1. \A x : x \in Structs(G \cup {e}) <=> x # NULL /\ \E b \in G \cup {e} : x = b.desc \/ x = b.map
    BY DEF Structs
  <2>2. \A x : x \in Structs(G) <=> x # NULL /\ \E b \in G : x = b.desc \/ x = b.map
    BY DEF Structs
  <2>3. \A x : x \in Structs(G \cup {e}) <=> x \in Structs(G) \/ x \in {e.desc, e.map}
    BY <1>11, <2>1, <2>2
  <2>4. Structs(G \cup {e}) = Structs(G) \cup {e.desc, e.map}
    BY <2>3
  <2> QED BY <1>5, <1>14, <2>4
<1>17. PICK X1, L1 : X1 = X \ PagesOf(G) /\ L1 = L \ PagesOf(G)
  OBVIOUS
<1>18. SmallOK(y, X1, L1) /\ Frame(m, y) /\ SmallObjects(y) = SmallObjects(m) \ Structs(G)
  BY <1>1, <1>6, <1>17 DEF LoopOK
<1>19. s.page \in L1
  <2>1. s.page \in PagesOf(B)
    BY <1>5, <1>11 DEF PagesOf
  <2> QED BY <1>8, <1>10, <1>17, <2>1
<1>20. s.desc \in SmallObjects(y) /\ s.map \in SmallObjects(y) /\ s.desc # s.map
  BY <1>5, <1>10, <1>12, <1>13, <1>18
<1>21. /\ SmallOK(z, X1 \ {s.page}, L1 \ {s.page}) /\ Frame(y, z)
       /\ SmallObjects(z) = SmallObjects(y) \ {s.desc, s.map}
  <2>1. SmallOK(y, X1, L1) /\ s.page \in L1 /\ s.desc \in SmallObjects(y)
        /\ s.map \in SmallObjects(y) /\ s.desc # s.map
    BY <1>18, <1>19, <1>20
  <2> QED BY <2>1, DropSlabOK
<1>22. X1 \ {s.page} = X \ PagesOf(Gone(k, j + 1)) /\ L1 \ {s.page} = L \ PagesOf(Gone(k, j + 1))
  BY <1>15, <1>17
<1>23. SmallObjects(z) = SmallObjects(m) \ Structs(Gone(k, j + 1))
  BY <1>16, <1>18, <1>21
<1>24. Frame(m, z)
  BY <1>18, <1>21, FrameTrans
<1>25. SmallOK(z, X \ PagesOf(Gone(k, j + 1)), L \ PagesOf(Gone(k, j + 1)))
  BY <1>21, <1>22
<1> QED
  BY <1>1, <1>23, <1>24, <1>25 DEF LoopOK

\* The cache has no slab left.
LEMMA AllGone ==
  ASSUME NEW m, NEW U, Layout(m, U), m.own # NoCache, NEW z, OneClient(m, z, OWN, NoCache),
         z.own = NoCache, z.own_at = NULL, NEW G, G = Backs(m.own)
  PROVE  /\ ClientsOK(z) /\ G \subseteq AllBacks(m)
         /\ Structs(AllBacks(z)) = Structs(AllBacks(m)) \ Structs(G) /\ Structs(G) \subseteq Structs(AllBacks(m))
         /\ PagesOf(AllBacks(z)) = PagesOf(AllBacks(m)) \ PagesOf(G)
<1>1. ClientsOK(m) /\ OWN \in Clients /\ Of(m, OWN) = m.own
  BY OwnFacts DEF Layout
<1>2. PICK A, B : A = AllBacks(m) /\ B = AllBacks(z)
  OBVIOUS
<1>3. /\ \A x : x \in B <=> x \in Backs(NoCache) \/ \E d \in Clients : d # OWN /\ x \in Backs(Of(m, d))
      /\ \A x : x \in A <=> x \in G \/ \E d \in Clients : d # OWN /\ x \in Backs(Of(m, d))
  <2>1. /\ \A x : x \in AllBacks(z)
                 <=> x \in Backs(NoCache) \/ \E d \in Clients : d # OWN /\ x \in Backs(Of(m, d))
        /\ \A x : x \in AllBacks(m)
                 <=> x \in Backs(Of(m, OWN)) \/ \E d \in Clients : d # OWN /\ x \in Backs(Of(m, d))
    BY <1>1, BacksSplit
  <2> QED BY <1>1, <1>2, <2>1
<1>4. \A d \in Clients, x \in G : d # OWN => x \notin Backs(Of(m, d))
  <2> SUFFICES ASSUME NEW d \in Clients, NEW x \in G, d # OWN, x \in Backs(Of(m, d)) PROVE FALSE
    OBVIOUS
  <2>1. x.page \in PagesOf(Backs(Of(m, d))) /\ x.page \in PagesOf(Backs(Of(m, OWN)))
    BY <1>1 DEF PagesOf
  <2> QED BY <1>1, <2>1 DEF ClientsOK
<1>5. B = A \ G /\ G \subseteq A
  <2>1. Backs(NoCache) = {}
    BY NoCacheFacts
  <2> QED BY <1>3, <1>4, <2>1
<1>6. OneUse(B) /\ Structs(B) = Structs(A) \ Structs(G)
  <2>1. OneUse(A)
    BY <1>1, <1>2 DEF ClientsOK
  <2> QED BY <1>5, <2>1, UseLess
<1>7. PagesOf(B) = PagesOf(A) \ PagesOf(G)
  <2>1. \A b, e \in A : b.page = e.page => b = e
    BY <1>1, <1>2, AllBacksApart
  <2> QED BY <1>5, <2>1 DEF PagesOf
<1>8. Structs(G) \subseteq Structs(A)
  BY <1>5 DEF Structs
<1>9. \A c \in Clients : ClientOK(Of(z, c), c)
  BY <1>1 DEF OneClient, ClientsOK, ClientOK
<1>10. \A c, d \in Clients : c # d => PagesOf(Backs(Of(z, c))) \cap PagesOf(Backs(Of(z, d))) = {}
  <2>1. \A c \in Clients : PagesOf(Backs(Of(z, c))) \subseteq PagesOf(Backs(Of(m, c)))
    <3>1. PagesOf(Backs(NoCache)) = {}
      BY NoCacheFacts DEF PagesOf
    <3> QED BY <3>1 DEF OneClient
  <2> QED BY <1>1, <2>1 DEF ClientsOK
<1>11. NULL \notin Structs(B)
  BY DEF Structs
<1>12. ClientsOK(z)
  BY <1>2, <1>6, <1>9, <1>10, <1>11 DEF ClientsOK
<1> QED
  BY <1>2, <1>5, <1>6, <1>7, <1>8, <1>12

\* slab_destroy gives back every page and every structure of the cache.
LEMMA SlabDestroyOK ==
  ASSUME NEW m, NEW U, NEW W, NEW T, Book(m, U, W, T), m.own_at # NULL, m.own.total_using = 0,
         NEW n, n = slab_destroy(m)
  PROVE  Book(n, U, W, T)
<1>1. /\ Layout(m, U) /\ Lent(m, T) /\ m.own # NoCache /\ ClientsOK(m)
      /\ W \cap Taken(m) = {} /\ SmallObjects(m) \cup LargeObjects(m) = W \cup Taken(m)
      /\ Taken(m) \subseteq SmallObjects(m) /\ KernelPages \cap PagesOf(AllBacks(m)) = {}
      /\ Linked(m) \cap U = {} /\ SmallOK(m, Linked(m) \cup U, Linked(m))
  BY DEF Book, Layout, ClientsOK
<1>2. T = {}
  BY <1>1, FS_EmptySet DEF Lent
<1>3. PICK k, N, o, X, L : k = m.own /\ N = Len(k.pool) /\ o = m.own_at /\ X = Linked(m) \cup U /\ L = Linked(m)
  OBVIOUS
<1>4. N \in Nat
  <2>1. CacheBase(k, OwnCount, OwnCount, OwnCount) /\ Params(OwnCount, OwnCount, OwnCount)
    BY <1>1, <1>3, OwnFacts DEF CacheOK
  <2> QED BY <1>3, <2>1, CacheFacts
<1>5. PICK g : /\ g[0] = m /\ \A j \in 1..N : g[j] = DropSlab(g[j - 1], m.own.pool[j])
               /\ n = KfreeSmall([g[N] EXCEPT !.own = NoCache, !.own_at = NULL], o)
  <2>1. Len(m.own.pool) \in Nat
    BY <1>3, <1>4
  <2>2. PICK h : /\ h[0] = m
                 /\ \A j \in 1..Len(m.own.pool) : h[j] = DropSlab(h[j - 1], m.own.pool[j])
                 /\ slab_destroy(m)
                      = KfreeSmall([h[Len(m.own.pool)] EXCEPT !.own = NoCache, !.own_at = NULL], m.own_at)
    BY <2>1, DestroyIs
  <2>3. Len(m.own.pool) = N
    BY <1>3
  <2> QED BY <1>3, <2>2, <2>3
<1> DEFINE Ok == {j \in Nat : j <= N => LoopOK(m, X, L, g[j], j)}
<1>6. 0 \in Ok
  <2>1. Gone(m.own, 0) = {}
    BY DEF Gone
  <2>2. PagesOf({}) = {} /\ Structs({}) = {}
    BY DEF PagesOf, Structs
  <2>3. Frame(m, m)
    BY DEF Frame
  <2>4. X \ {} = X /\ L \ {} = L /\ SmallObjects(m) \ {} = SmallObjects(m)
    OBVIOUS
  <2>5. LoopOK(m, X, L, g[0], 0)
    BY <1>1, <1>3, <1>5, <2>1, <2>2, <2>3, <2>4 DEF LoopOK
  <2> QED BY <2>5
<1>7. ASSUME NEW j \in 0..(N - 1), j \in Ok PROVE j + 1 \in Ok
  <2>1. j \in Nat /\ j + 1 \in 1..N /\ (j + 1) - 1 = j /\ LoopOK(m, X, L, g[j], j)
    BY <1>4, <1>7
  <2>2. PICK s, y, z : s = m.own.pool[j + 1] /\ y = g[j] /\ z = g[j + 1]
    OBVIOUS
  <2>3. z = DropSlab(y, s)
    BY <1>5, <2>1, <2>2
  <2>4. OwnSlab(m, j + 1, s) /\ LoopOK(m, X, L, y, j) /\ j \in 0..(Len(m.own.pool) - 1)
    BY <1>3, <2>1, <2>2 DEF OwnSlab
  <2>5. LoopOK(m, X, L, z, j + 1)
    BY <1>1, <1>3, <2>3, <2>4, LoopStep
  <2> QED BY <2>1, <2>2, <2>5
<1>8. \A j \in 0..N : j \in Ok
  <2> HIDE DEF Ok
  <2> QED BY <1>4, <1>6, <1>7, UpTo, Zenon
<1>9. PICK y, z : y = g[N] /\ z = [y EXCEPT !.own = NoCache, !.own_at = NULL]
  OBVIOUS
<1>10. PICK G : G = Backs(k) /\ G = Gone(k, N)
  BY <1>3 DEF Backs, Gone
<1>11. /\ SmallOK(y, X \ PagesOf(G), L \ PagesOf(G)) /\ Frame(m, y) /\ y \in MemType
       /\ SmallObjects(y) = SmallObjects(m) \ Structs(G)
  <2>1. LoopOK(m, X, L, y, N)
    BY <1>4, <1>8, <1>9
  <2> QED BY <1>3, <1>10, <2>1 DEF LoopOK, SmallOK
<1>12. OwnSet(y, z, NoCache, NULL)
  BY <1>9, <1>11 DEF OwnSet, MemType
<1>13. ClientStep(y, z, OWN, NoCache) /\ z.own = NoCache /\ z.own_at = NULL
  BY <1>11, <1>12, OwnStep, NoCacheFacts
<1>14. OneClient(y, z, OWN, NoCache) /\ z \in MemType /\ z.zone = y.zone /\ \A c \in Small : z.cache[c] = y.cache[c]
  BY <1>13 DEF ClientStep
<1>15. OneClient(m, z, OWN, NoCache)
  <2>1. \A c \in Clients : Of(y, c) = Of(m, c)
    BY <1>11, FrameSame
  <2> QED BY <1>14, <2>1 DEF OneClient
<1>16. /\ ClientsOK(z)
       /\ Structs(AllBacks(z)) = Structs(AllBacks(m)) \ Structs(G) /\ Structs(G) \subseteq Structs(AllBacks(m))
       /\ PagesOf(AllBacks(z)) = PagesOf(AllBacks(m)) \ PagesOf(G) /\ G \subseteq AllBacks(m)
  <2>1. G = Backs(m.own)
    BY <1>3, <1>10
  <2> QED BY <1>1, <1>13, <1>15, <2>1, AllGone
<1>17. SmallOK(z, X \ PagesOf(G), L \ PagesOf(G)) /\ SmallObjects(z) = SmallObjects(m) \ Structs(G)
  BY <1>11, <1>14, OtherStep
<1>18. PagesOf(G) \subseteq PagesOf(AllBacks(m))
  BY <1>16 DEF PagesOf
<1>19. L \ PagesOf(G) = Linked(z) /\ X \ PagesOf(G) = Linked(z) \cup U
  <2>1. Linked(z) = L \ PagesOf(G)
    BY <1>1, <1>3, <1>16, <1>18 DEF Linked
  <2>2. PagesOf(G) \subseteq Linked(m)
    BY <1>18 DEF Linked
  <2> QED BY <1>1, <1>3, <2>1, <2>2
<1>20. Taken(z) = Structs(AllBacks(m)) \ Structs(G) /\ Taken(m) = Structs(AllBacks(m)) \cup {o}
       /\ o \notin Structs(AllBacks(m))
  BY <1>1, <1>3, <1>13, <1>16 DEF Taken, ClientsOK
<1>21. Layout(z, U)
  <2>1. SmallOK(z, Linked(z) \cup U, Linked(z))
    BY <1>17, <1>19
  <2>2. KernelPages \cap PagesOf(AllBacks(z)) = {} /\ Linked(z) \cap U = {}
    BY <1>1, <1>3, <1>16, <1>19
  <2>3. Taken(z) \subseteq SmallObjects(z)
    BY <1>1, <1>17, <1>20
  <2> QED BY <1>16, <2>1, <2>2, <2>3 DEF Layout
<1>22. Lent(z, T)
  BY <1>2, <1>13, NoCacheFacts, FS_EmptySet DEF Lent
<1>23. LargeObjects(z) = LargeObjects(m)
  <2>1. LargeObjects(z) = LargeObjects(y)
    BY <1>14, LargeObjectsOwn
  <2> QED BY <1>11, <2>1, FrameSame
<1>24. o \in SmallObjects(z) /\ o \notin W
  BY <1>1, <1>16, <1>17, <1>20
<1>25. (W \cup {o}) \cap Taken(z) = {} /\ SmallObjects(z) \cup LargeObjects(z) = (W \cup {o}) \cup Taken(z)
  <2>1. SmallObjects(m) \cap LargeObjects(m) = {}
    BY <1>1, ApartOK
  <2> QED BY <1>1, <1>16, <1>17, <1>20, <1>23, <2>1
<1>26. Book(z, U, W \cup {o}, T)
  BY <1>21, <1>22, <1>25 DEF Book
<1>27. Book(n, U, (W \cup {o}) \ {o}, T)
  <2>1. n = KfreeSmall(z, o) /\ o \in W \cup {o}
    BY <1>5, <1>9
  <2> QED BY <1>24, <1>26, <2>1, BookGivesUp
<1>28. (W \cup {o}) \ {o} = W
  BY <1>24
<1> QED
  BY <1>27, <1>28

-----------------------------------------------------------------------------
(* The user's pages *)

\* A page for the user ...
LEMMA MapOK ==
  ASSUME NEW m, NEW U, NEW W, NEW T, Book(m, U, W, T), CanAlloc(m), NEW p, p = FreePage(m),
         NEW n, n = [m EXCEPT !.zone = alloc_pages(@, p)]
  PROVE  Book(n, U \cup {p}, W, T) /\ p \in Pages
<1>1. PICK X, L : X = Linked(m) \cup U /\ L = Linked(m)
  OBVIOUS
<1>2. SmallOK(m, X, L)
  BY <1>1 DEF Book, Layout
<1>3. p \in Pages /\ p \notin X
  BY <1>2, FreePageOK
<1>4. SmallOK(n, X \cup {p}, L) /\ SmallObjects(n) = SmallObjects(m) /\ Frame(m, n)
  BY <1>2, AllocOK
<1>5. X \cup {p} = Linked(m) \cup (U \cup {p})
  BY <1>1
<1>6. SmallOK(n, Linked(m) \cup (U \cup {p}), Linked(m)) /\ Linked(m) \cap (U \cup {p}) = {}
  BY <1>1, <1>3, <1>4, <1>5 DEF Book, Layout
<1>7. Taken(m) \subseteq SmallObjects(n) /\ W \cap Taken(m) = {}
      /\ SmallObjects(n) \cup LargeObjects(m) = W \cup Taken(m)
  BY <1>4 DEF Book, Layout
<1> QED
  BY <1>3, <1>4, <1>6, <1>7, BookSmall

\* ... and the end of it.
LEMMA UnmapOK ==
  ASSUME NEW m, NEW U, NEW W, NEW T, Book(m, U, W, T), NEW p \in U,
         NEW n, n = [m EXCEPT !.zone = free_pages(@, p)]
  PROVE  Book(n, U \ {p}, W, T)
<1>1. PICK X, L : X = Linked(m) \cup U /\ L = Linked(m)
  OBVIOUS
<1>2. SmallOK(m, X, L) /\ p \in X /\ p \notin L
  BY <1>1 DEF Book, Layout
<1>3. SmallOK(n, X \ {p}, L \ {p}) /\ SmallObjects(n) = SmallObjects(m) /\ Frame(m, n)
  BY <1>2, FreeOnlyOK
<1>4. X \ {p} = Linked(m) \cup (U \ {p}) /\ L \ {p} = Linked(m)
  BY <1>1, <1>2
<1>5. SmallOK(n, Linked(m) \cup (U \ {p}), Linked(m)) /\ Linked(m) \cap (U \ {p}) = {}
  BY <1>3, <1>4 DEF Book, Layout
<1>6. Taken(m) \subseteq SmallObjects(n) /\ W \cap Taken(m) = {}
      /\ SmallObjects(n) \cup LargeObjects(m) = W \cup Taken(m)
  BY <1>3 DEF Book, Layout
<1> QED
  BY <1>3, <1>5, <1>6, BookSmall

-----------------------------------------------------------------------------
(* The initial state *)

HeadCache(c) == [pool |-> <<NewSlab(HeadPage[c], HeadCount[c], NULL, NULL)>>,
                 total_free |-> HeadCount[c], total_using |-> 0]

HeadBack(c) == [page |-> HeadPage[c], desc |-> NULL, map |-> NULL]

\* The cache slab_init leaves.
LEMMA HeadCacheOK ==
  ASSUME NEW c \in Caches, NEW k, k = HeadCache(c)
  PROVE  /\ KCacheOK(k, c) /\ k \in CacheType /\ Backs(k) = {HeadBack(c)} /\ First(k) = HeadBack(c)
         /\ Objects(k) = {}
<1>1. PICK s, h, mc : s = NewSlab(HeadPage[c], HeadCount[c], NULL, NULL) /\ h = HeadCount[c] /\ mc = MoreCount[c]
  OBVIOUS
<1>2. h \in Nat \ {0} /\ HeadPage[c] \in Pages
  BY <1>1, MemoryAssumption
<1>3. s = [page |-> HeadPage[c], bits |-> {}, using_count |-> 0, free_count |-> h,
           color_count |-> h, desc |-> NULL, map |-> NULL]
  BY <1>1 DEF NewSlab
<1>4. /\ s \in Slabs /\ s.bits = {} /\ s.color_count = h /\ s.free_count = h
      /\ s.using_count = 0 /\ s.page = HeadPage[c] /\ s.desc = NULL /\ s.map = NULL
  BY <1>2, <1>3 DEF Slabs
<1>5. Cardinality(s.bits) = 0
  BY <1>4, FS_EmptySet
<1>6. SlabOK(s, h, 0)
  BY <1>2, <1>4, <1>5 DEF SlabOK
<1>7. k = [pool |-> <<s>>, total_free |-> s.free_count, total_using |-> s.using_count - 0]
  BY <1>1, <1>2, <1>4 DEF HeadCache
<1>8. /\ CacheOK(k, h, mc, 0) /\ Backs(k) = {Back(s)} /\ First(k) = Back(s) /\ Objects(k) = {}
  <2>1. h \in Nat /\ 0 \in Nat
    BY <1>2
  <2> QED BY <1>4, <1>6, <1>7, <2>1, OneSlabOK
<1>9. Back(s) = HeadBack(c) /\ HeadBack(c).page = HeadPage[c]
  BY <1>4 DEF Back, HeadBack
<1>10. KCacheOK(k, c)
  BY <1>1, <1>8, <1>9 DEF KCacheOK
<1> QED
  BY <1>8, <1>9, <1>10, KCacheFacts

\* The zone once the kernel and the first slabs have their pages.
LEMMA InitZone ==
  ASSUME NEW z, z = slab_init(init_memory).zone
  PROVE  ZoneOK(z, KernelPages \cup HeadPages, KernelPages \cup HeadPages)
<1>1. PICK K, H : K = KernelPages /\ H = HeadPages
  OBVIOUS
<1>2. K \subseteq Pages /\ H \subseteq Pages /\ K \cap H = {} /\ IsFiniteSet(Pages)
  BY <1>1, MemoryAssumption DEF HeadPages
<1>3. /\ IsFiniteSet(K) /\ IsFiniteSet(H) /\ IsFiniteSet(K \cup H)
      /\ Cardinality(K) \in Nat /\ Cardinality(H) \in Nat /\ Cardinality(Pages) \in Nat
      /\ Cardinality(K \cup H) = Cardinality(K) + Cardinality(H)
      /\ Cardinality(Pages \ K) = Cardinality(Pages) - Cardinality(K)
      /\ Cardinality(Pages \ (K \cup H)) = Cardinality(Pages) - Cardinality(K \cup H)
  <2>1. IsFiniteSet(K) /\ IsFiniteSet(H)
    BY <1>2, FS_Subset
  <2>2. /\ IsFiniteSet(K \cup H)
        /\ Cardinality(K \cup H) = Cardinality(K) + Cardinality(H) - Cardinality(K \cap H)
    BY <2>1, FS_Union
  <2>3. Cardinality(K \cap H) = 0
    BY <1>2, FS_EmptySet
  <2>4. Cardinality(K) \in Nat /\ Cardinality(H) \in Nat /\ Cardinality(Pages) \in Nat
    BY <1>2, <2>1, FS_CardinalityType
  <2>5. /\ Cardinality(Pages \ K) = Cardinality(Pages) - Cardinality(Pages \cap K)
        /\ Cardinality(Pages \ (K \cup H)) = Cardinality(Pages) - Cardinality(Pages \cap (K \cup H))
    BY <1>2, FS_Difference
  <2>6. Pages \cap K = K /\ Pages \cap (K \cup H) = K \cup H
    BY <1>2
  <2>7. Cardinality(K \cup H) = Cardinality(K) + Cardinality(H)
    BY <2>2, <2>3, <2>4
  <2> QED BY <2>1, <2>2, <2>4, <2>5, <2>6, <2>7
<1>4. /\ z.bits_map = K \cup H
      /\ z.reference_count = [p \in Pages |-> (IF p \in K THEN 1 ELSE 0) + (IF p \in H THEN 1 ELSE 0)]
      /\ z.page_using_count = Cardinality(K) + Cardinality(H)
      /\ z.page_free_count = Cardinality(Pages \ K) - Cardinality(H)
      /\ z.total_pages_link = Cardinality(K) + Cardinality(H)
      /\ z = [bits_map |-> z.bits_map, reference_count |-> z.reference_count,
              page_using_count |-> z.page_using_count, page_free_count |-> z.page_free_count,
              total_pages_link |-> z.total_pages_link]
  BY <1>1 DEF slab_init, init_memory
<1>5. \A p \in Pages : z.reference_count[p] = IF p \in K \cup H THEN 1 ELSE 0
  BY <1>2, <1>4
<1>6. z.reference_count \in [Pages -> Int]
  BY <1>4
<1>7. {p \in Pages : z.reference_count[p] = 1} = K \cup H
  BY <1>2, <1>5
<1>8. z \in ZoneType
  <2>1. /\ z.bits_map \subseteq Pages /\ z.page_using_count \in Int /\ z.page_free_count \in Int
        /\ z.total_pages_link \in Int
    BY <1>2, <1>3, <1>4
  <2> QED BY <1>4, <1>6, <2>1 DEF ZoneType
<1>9. /\ z.page_using_count = Cardinality(K \cup H) /\ z.total_pages_link = Cardinality(K \cup H)
      /\ z.page_free_count = Cardinality(Pages \ (K \cup H))
  BY <1>3, <1>4
<1>10. ZoneOK(z, K \cup H, K \cup H)
  BY <1>2, <1>4, <1>5, <1>7, <1>8, <1>9 DEF ZoneOK
<1> QED
  BY <1>1, <1>10

\* Every page in use is the kernel's or that of a first slab, and no object is in use.
LEMMA InitOK ==
  ASSUME NEW m, m = slab_init(init_memory)
  PROVE  ~m.halted /\ Book(m, {}, {}, {})
<1>1. /\ m.zone = slab_init(init_memory).zone /\ m.own = NoCache /\ m.own_at = NULL /\ m.halted = FALSE
      /\ m.cache = [c \in Caches |-> HeadCache(c)]
      /\ m = [zone |-> m.zone, cache |-> m.cache, own |-> m.own, own_at |-> m.own_at, halted |-> m.halted]
  BY DEF slab_init, HeadCache
<1>2. ZoneOK(m.zone, KernelPages \cup HeadPages, KernelPages \cup HeadPages)
  BY <1>1, InitZone
<1>3. \A c \in Caches : /\ KCacheOK(m.cache[c], c) /\ m.cache[c] \in CacheType
                        /\ Backs(m.cache[c]) = {HeadBack(c)} /\ First(m.cache[c]) = HeadBack(c)
                        /\ Objects(m.cache[c]) = {}
  BY <1>1, HeadCacheOK
<1>4. m \in MemType
  <2>1. m.cache \in [Caches -> CacheType]
    BY <1>1, <1>3
  <2>2. m.zone \in ZoneType
    BY <1>2 DEF ZoneOK
  <2> QED BY <1>1, <2>1, <2>2, NoCacheFacts DEF MemType
<1>5. \A c : HeadBack(c).page = HeadPage[c] /\ HeadBack(c).desc = NULL /\ HeadBack(c).map = NULL
  BY DEF HeadBack
<1>6. Caches = Small \cup Large /\ Small \cap Large = {} /\ \A c, d \in Caches : c # d => HeadPage[c] # HeadPage[d]
  BY MemoryAssumption DEF Caches
<1>7. \A c \in Caches : PagesOf(Backs(m.cache[c])) = {HeadPage[c]}
  BY <1>3, <1>5 DEF PagesOf
<1>8. SmallPages(m) = {HeadPage[c] : c \in Small}
  BY <1>6, <1>7 DEF SmallPages
<1>9. SmallObjects(m) = {} /\ LargeObjects(m) = {}
  BY <1>3, <1>6 DEF SmallObjects, LargeObjects
<1>10. /\ Of(m, OWN) = NoCache /\ Backs(Of(m, OWN)) = {} /\ OWN \notin Large
       /\ \A c \in Large : Of(m, c) = m.cache[c] /\ c # OWN
  BY <1>1, OwnNotLarge, NoCacheFacts DEF Of
<1>11. AllBacks(m) = {HeadBack(c) : c \in Large}
  <2>1. \A c \in Large : Backs(Of(m, c)) = {HeadBack(c)}
    BY <1>3, <1>6, <1>10
  <2> QED BY <2>1, <1>10 DEF AllBacks, Clients
<1>12. PagesOf(AllBacks(m)) = {HeadPage[c] : c \in Large}
  BY <1>5, <1>11 DEF PagesOf
<1>13. \A b \in AllBacks(m) : b.desc = NULL /\ b.map = NULL
  BY <1>5, <1>11
<1>14. Structs(AllBacks(m)) = {} /\ Taken(m) = {}
  BY <1>1, <1>13 DEF Structs, Taken
<1>15. ClientsOK(m)
  <2>1. ASSUME NEW c \in Clients PROVE ClientOK(Of(m, c), c)
    <3>1. CASE c = OWN
      BY <3>1, <1>10 DEF ClientOK
    <3>2. CASE c \in Large
      BY <3>2, <1>3, <1>6, <1>10 DEF ClientOK
    <3> QED BY <3>1, <3>2 DEF Clients
  <2>2. ASSUME NEW c \in Clients, NEW d \in Clients, c # d
        PROVE  PagesOf(Backs(Of(m, c))) \cap PagesOf(Backs(Of(m, d))) = {}
    <3>1. \A e \in Clients : PagesOf(Backs(Of(m, e))) = IF e = OWN THEN {} ELSE {HeadPage[e]}
      <4>1. PagesOf({}) = {}
        BY DEF PagesOf
      <4> QED BY <4>1, <1>6, <1>7, <1>10 DEF Clients
    <3> QED BY <2>2, <3>1, <1>6 DEF Clients
  <2>3. OneUse(AllBacks(m))
    BY <1>13 DEF OneUse
  <2>4. m.own_at = NULL <=> m.own = NoCache
    BY <1>1
  <2>5. m.own_at \notin Structs(AllBacks(m))
    BY <1>14
  <2> QED BY <2>1, <2>2, <2>3, <2>4, <2>5 DEF ClientsOK
<1>16. /\ Linked(m) = KernelPages \cup {HeadPage[c] : c \in Large}
       /\ SmallPages(m) \cup Linked(m) = KernelPages \cup HeadPages
       /\ Linked(m) \subseteq Pages /\ KernelPages \cap PagesOf(AllBacks(m)) = {}
       /\ SmallPages(m) \cap Linked(m) = {}
  <2>1. Linked(m) = KernelPages \cup {HeadPage[c] : c \in Large}
    BY <1>12 DEF Linked
  <2>2. HeadPages = {HeadPage[c] : c \in Small} \cup {HeadPage[c] : c \in Large}
    BY <1>6 DEF HeadPages
  <2>3. \A c \in Caches : HeadPage[c] \in Pages /\ HeadPage[c] \notin KernelPages
    BY MemoryAssumption
  <2>4. KernelPages \subseteq Pages
    BY MemoryAssumption
  <2>5. {HeadPage[c] : c \in Small} \cap {HeadPage[c] : c \in Large} = {}
    BY <1>6
  <2> QED BY <2>1, <2>2, <2>3, <2>4, <2>5, <1>6, <1>8, <1>12
<1>17. SmallOK(m, Linked(m), Linked(m))
  <2>1. \A c \in Small : SmallCacheOK(m.cache[c], c)
    BY <1>3, <1>5, <1>6 DEF SmallCacheOK
  <2>2. \A c, d \in Small : c # d => PagesOf(Backs(m.cache[c])) \cap PagesOf(Backs(m.cache[d])) = {}
    BY <1>6, <1>7
  <2> QED BY <1>2, <1>4, <1>16, <2>1, <2>2 DEF SmallOK
<1>18. Lent(m, {})
  BY <1>1, NoCacheFacts, FS_EmptySet DEF Lent
<1>19. Layout(m, {})
  <2>1. Linked(m) \cup {} = Linked(m)
    OBVIOUS
  <2> QED BY <2>1, <1>9, <1>14, <1>15, <1>16, <1>17 DEF Layout
<1>20. ~m.halted
  BY <1>1
<1> QED
  BY <1>9, <1>14, <1>18, <1>19, <1>20 DEF Book

-----------------------------------------------------------------------------
(* Every step keeps the invariant *)

\* No step of the kernel spoils the books: every address kmalloc or slab_malloc has
\* handed out and the user's pages are known to the allocator, and nothing else is in
\* use, also after slabs were built and dropped on the way and after allocations of
\* several parts failed half way (kmalloc, kfree, slab_create, slab_malloc, slab_free,
\* slab_destroy, alloc_pages and free_pages of memory.c).
THEOREM MemoryInvariance == Spec => []MemInv
<1>1. Init => MemInv
  <2> SUFFICES ASSUME Init PROVE MemInv
    OBVIOUS
  <2>1. mem = slab_init(init_memory) /\ owned = {} /\ lent = {} /\ user = {}
    BY DEF Init
  <2>2. Book(mem, {}, {}, {})
    BY <2>1, InitOK
  <2>3. mem \in MemType
    BY <2>2, BookType
  <2> QED BY <2>1, <2>2, <2>3 DEF MemInv, TypeOK
<1>2. MemInv /\ [Next]_vars => MemInv'
  <2> SUFFICES ASSUME MemInv, [Next]_vars PROVE MemInv'
    OBVIOUS
  <2>1. TypeOK /\ (~mem.halted => Book(mem, user, owned, lent))
    BY DEF MemInv
  <2>2. owned \subseteq Addresses /\ lent \subseteq Addresses /\ user \subseteq Pages
    BY <2>1 DEF TypeOK
  <2> DEFINE Kept == Leaves(mem', user', owned', lent') /\ owned' \subseteq Addresses
                     /\ lent' \subseteq Addresses /\ user' \subseteq Pages
  <2>3. ASSUME Kept PROVE MemInv'
    BY <2>3 DEF Leaves, MemInv, TypeOK
  <2>4. ASSUME Book(mem', user', owned', lent') PROVE Leaves(mem', user', owned', lent')
    BY <2>4, BookType
  <2>5. ASSUME NEW c \in Caches, Kmalloc(c) PROVE Kept
    <3>1. PICK r : r = kmalloc(mem, c)
      OBVIOUS
    <3>2. /\ ~mem.halted /\ mem' = r.m /\ owned' = owned \cup ({r.address} \ {NULL})
          /\ lent' = lent /\ user' = user
      BY <2>5, <3>1 DEF Kmalloc
    <3>3. \/ r.address = NULL /\ Leaves(r.m, user, owned, lent)
          \/ r.address \in Addresses /\ Leaves(r.m, user, owned \cup {r.address}, lent)
      BY <2>1, <3>1, <3>2, KmallocOK
    <3>4. CASE r.address = NULL /\ Leaves(r.m, user, owned, lent)
      <4>1. owned' = owned
        BY <3>2, <3>4
      <4> QED BY <2>2, <3>2, <3>4, <4>1
    <3>5. CASE r.address \in Addresses /\ Leaves(r.m, user, owned \cup {r.address}, lent)
      <4>1. owned' = owned \cup {r.address}
        BY <3>2, <3>5, Constants
      <4> QED BY <2>2, <3>2, <3>5, <4>1
    <3> QED BY <3>3, <3>4, <3>5
  <2>6. ASSUME NEW a \in owned, Kfree(a) PROVE Kept
    <3>1. PICK n : n = kfree(mem, a)
      OBVIOUS
    <3>2. ~mem.halted /\ mem' = n /\ owned' = owned \ {a} /\ lent' = lent /\ user' = user
      BY <2>6, <3>1 DEF Kfree
    <3>3. Book(n, user, owned \ {a}, lent)
      BY <2>1, <3>1, <3>2, KfreeOK
    <3> QED BY <2>2, <2>4, <3>2, <3>3
  <2>7. ASSUME SlabCreate PROVE Kept
    <3>1. PICK n : n = slab_create(mem)
      OBVIOUS
    <3>2. ~mem.halted /\ mem.own_at = NULL /\ mem' = n /\ owned' = owned /\ lent' = lent /\ user' = user
      BY <2>7, <3>1 DEF SlabCreate
    <3>3. Book(n, user, owned, lent)
      BY <2>1, <3>1, <3>2, SlabCreateOK
    <3> QED BY <2>2, <2>4, <3>2, <3>3
  <2>8. ASSUME SlabMalloc PROVE Kept
    <3>1. PICK r : r = slab_malloc(mem)
      OBVIOUS
    <3>2. /\ ~mem.halted /\ mem.own_at # NULL /\ mem' = r.m
          /\ lent' = lent \cup ({r.address} \ {NULL}) /\ owned' = owned /\ user' = user
      BY <2>8, <3>1 DEF SlabMalloc
    <3>3. \/ r.address = NULL /\ Book(r.m, user, owned, lent)
          \/ r.address \in Addresses /\ Book(r.m, user, owned, lent \cup {r.address})
      BY <2>1, <3>1, <3>2, SlabMallocOK
    <3>4. CASE r.address = NULL /\ Book(r.m, user, owned, lent)
      <4>1. lent' = lent
        BY <3>2, <3>4
      <4> QED BY <2>2, <2>4, <3>2, <3>4, <4>1
    <3>5. CASE r.address \in Addresses /\ Book(r.m, user, owned, lent \cup {r.address})
      <4>1. lent' = lent \cup {r.address}
        BY <3>2, <3>5, Constants
      <4> QED BY <2>2, <2>4, <3>2, <3>5, <4>1
    <3> QED BY <3>3, <3>4, <3>5
  <2>9. ASSUME SlabDestroy PROVE Kept
    <3>1. PICK n : n = slab_destroy(mem)
      OBVIOUS
    <3>2. /\ ~mem.halted /\ mem.own_at # NULL /\ mem.own.total_using = 0 /\ mem' = n
          /\ owned' = owned /\ lent' = lent /\ user' = user
      BY <2>9, <3>1 DEF SlabDestroy
    <3>3. Book(n, user, owned, lent)
      BY <2>1, <3>1, <3>2, SlabDestroyOK
    <3> QED BY <2>2, <2>4, <3>2, <3>3
  <2>10. ASSUME NEW a \in lent, SlabFree(a) PROVE Kept
    <3>1. PICK n : n = slab_free(mem, a)
      OBVIOUS
    <3>2. ~mem.halted /\ mem' = n /\ lent' = lent \ {a} /\ owned' = owned /\ user' = user
      BY <2>10, <3>1 DEF SlabFree
    <3>3. Book(n, user, owned, lent \ {a})
      BY <2>1, <3>1, <3>2, SlabFreeOK
    <3> QED BY <2>2, <2>4, <3>2, <3>3
  <2>11. ASSUME MapUserPage PROVE Kept
    <3>1. PICK p, n : p = FreePage(mem) /\ n = [mem EXCEPT !.zone = alloc_pages(@, p)]
      OBVIOUS
    <3>2. /\ ~mem.halted /\ CanAlloc(mem) /\ mem' = n /\ user' = user \cup {p}
          /\ owned' = owned /\ lent' = lent
      BY <2>11, <3>1 DEF MapUserPage
    <3>3. Book(n, user \cup {p}, owned, lent) /\ p \in Pages
      BY <2>1, <3>1, <3>2, MapOK
    <3> QED BY <2>2, <2>4, <3>2, <3>3
  <2>12. ASSUME NEW p \in user, UnmapUserPage(p) PROVE Kept
    <3>1. PICK n : n = [mem EXCEPT !.zone = free_pages(@, p)]
      OBVIOUS
    <3>2. ~mem.halted /\ mem' = n /\ user' = user \ {p} /\ owned' = owned /\ lent' = lent
      BY <2>12, <3>1 DEF UnmapUserPage
    <3>3. Book(n, user \ {p}, owned, lent)
      BY <2>1, <3>1, <3>2, UnmapOK
    <3> QED BY <2>2, <2>4, <3>2, <3>3
  <2>13. CASE UNCHANGED vars
    BY <2>13 DEF vars, MemInv, TypeOK
  <2> HIDE DEF Kept
  <2> QED
    BY <2>3, <2>5, <2>6, <2>7, <2>8, <2>9, <2>10, <2>11, <2>12, <2>13, Zenon DEF Next
<1> QED
  BY <1>1, <1>2, PTL DEF Spec

-----------------------------------------------------------------------------
(* What the invariant says of all slabs together *)

\* The slabs of a cache and what the rest of the allocator sees of them.
LEMMA SlabSetIs ==
  ASSUME NEW k
  PROVE  /\ \A s \in SlabSet(k) : Back(s) \in Backs(k)
         /\ \A b \in Backs(k) : \E s \in SlabSet(k) : b = Back(s)
         /\ \A s : s.page = Back(s).page /\ s.desc = Back(s).desc /\ s.map = Back(s).map
  BY DEF SlabSet, Backs, Back

\* Caches whose pages differ.
LEMMA ApartIs ==
  ASSUME NEW k, NEW l, PagesOf(Backs(k)) \cap PagesOf(Backs(l)) = {}
  PROVE  PagesApart(k, l)
  BY SlabSetIs DEF PagesApart, PagesOf

\* A slab of kmalloc's, or of the cache of one's own.
LEMMA SlabsOf ==
  ASSUME NEW U, Layout(mem, U)
  PROVE  /\ \A c \in Caches : KCacheOK(mem.cache[c], c)
         /\ mem.own = NoCache \/ CacheOK(mem.own, OwnCount, OwnCount, OwnCount)
         /\ \A c \in Caches : \A s \in SlabSet(mem.cache[c]) : \E n \in Nat : SlabOK(s, n, 0)
         /\ \A s \in SlabSet(mem.own) : \E n, off \in Nat : SlabOK(s, n, off)
<1>1. ASSUME NEW c \in Caches PROVE KCacheOK(mem.cache[c], c)
  <2>1. CASE c \in Small
    BY <2>1 DEF Layout, SmallOK, SmallCacheOK
  <2>2. CASE c \in Large
    BY <2>2, LargeFacts
  <2> QED BY <2>1, <2>2, Constants
<1>2. mem.own = NoCache \/ CacheOK(mem.own, OwnCount, OwnCount, OwnCount)
  BY OwnFacts
<1>3. ASSUME NEW c \in Caches, NEW s \in SlabSet(mem.cache[c]) PROVE \E n \in Nat : SlabOK(s, n, 0)
  <2>1. PICK k, h, mc : k = mem.cache[c] /\ h = HeadCount[c] /\ mc = MoreCount[c]
    OBVIOUS
  <2>2. CacheBase(k, h, mc, 0) /\ Params(h, mc, 0)
    BY <1>1, <2>1, KCacheFacts DEF CacheOK
  <2>3. PICK i \in 1..Len(k.pool) : s = k.pool[i]
    BY <2>1 DEF SlabSet
  <2>4. SlabOK(s, Nth(i, h, mc), Nth(i, 0, 0))
    BY <2>2, <2>3 DEF CacheBase
  <2>5. Nth(i, 0, 0) = 0 /\ Nth(i, h, mc) \in Nat
    BY <2>2 DEF Nth, Params
  <2> QED BY <2>4, <2>5
<1>4. ASSUME NEW s \in SlabSet(mem.own) PROVE \E n, off \in Nat : SlabOK(s, n, off)
  <2>1. PICK k, h : k = mem.own /\ h = OwnCount
    OBVIOUS
  <2>2. k # NoCache
    BY <2>1 DEF SlabSet, NoCache
  <2>3. CacheBase(k, h, h, h) /\ Params(h, h, h)
    BY <1>2, <2>1, <2>2, Constants DEF CacheOK
  <2>4. PICK i \in 1..Len(k.pool) : s = k.pool[i]
    BY <2>1 DEF SlabSet
  <2>5. SlabOK(s, Nth(i, h, h), Nth(i, h, 0))
    BY <2>3, <2>4 DEF CacheBase
  <2>6. Nth(i, h, 0) \in Nat /\ Nth(i, h, h) \in Nat
    BY <2>3 DEF Nth, Params
  <2> QED BY <2>5, <2>6
<1> QED
  BY <1>1, <1>2, <1>3, <1>4

\* A slab is one of a small cache or one of a client's.
LEMMA SlabSides ==
  ASSUME NEW U, Layout(mem, U)
  PROVE  /\ \A s : s \in AllSlabs <=> \/ \E c \in Small : s \in SlabSet(mem.cache[c])
                                      \/ \E c \in Clients : s \in SlabSet(Of(mem, c))
         /\ \A c \in Large : Of(mem, c) = mem.cache[c] /\ c \in Clients
         /\ Of(mem, OWN) = mem.own /\ OWN \in Clients
<1>1. /\ \A c \in Large : Of(mem, c) = mem.cache[c] /\ c \in Clients
      /\ Of(mem, OWN) = mem.own /\ OWN \in Clients
  BY OwnNotLarge DEF Of, Clients
<1>2. Caches = Small \cup Large
  BY DEF Caches
<1>3. \A c : c \in Clients <=> c \in Large \/ c = OWN
  BY DEF Clients
<1>4. \A s : s \in AllSlabs <=> (\E c \in Caches : s \in SlabSet(mem.cache[c])) \/ s \in SlabSet(mem.own)
  BY DEF AllSlabs
<1> QED
  BY <1>1, <1>2, <1>3, <1>4, Zenon

\* The pages slabs have, and the objects that hold their structures.
LEMMA SlabsHave ==
  ASSUME NEW U, Layout(mem, U)
  PROVE  /\ SlabPages = SmallPages(mem) \cup PagesOf(AllBacks(mem))
         /\ Internal = Taken(mem)
<1>1. ASSUME NEW p PROVE p \in SlabPages <=> p \in SmallPages(mem) \/ p \in PagesOf(AllBacks(mem))
  <2>1. p \in SlabPages <=> \/ \E c \in Small : \E s \in SlabSet(mem.cache[c]) : p = s.page
                            \/ \E c \in Clients : \E s \in SlabSet(Of(mem, c)) : p = s.page
    BY SlabSides DEF SlabPages
  <2>2. \A k : (\E s \in SlabSet(k) : p = s.page) <=> p \in PagesOf(Backs(k))
    BY SlabSetIs DEF PagesOf
  <2>3. p \in SmallPages(mem) <=> \E c \in Small : p \in PagesOf(Backs(mem.cache[c]))
    BY DEF SmallPages
  <2>4. p \in PagesOf(AllBacks(mem)) <=> \E c \in Clients : p \in PagesOf(Backs(Of(mem, c)))
    BY DEF PagesOf, AllBacks
  <2> QED BY <2>1, <2>2, <2>3, <2>4
<1>2. \A c \in Small : \A s \in SlabSet(mem.cache[c]) : s.desc = NULL /\ s.map = NULL
  BY SlabSetIs DEF Layout, SmallOK, SmallCacheOK
<1>3. ASSUME NEW a, a # NULL PROVE a \in Internal <=> a \in Taken(mem)
  <2>1. a \in Internal <=> a = mem.own_at \/ \E s \in AllSlabs : a = s.desc \/ a = s.map
    BY <1>3 DEF Internal
  <2>2. a \in Taken(mem) <=> a = mem.own_at \/ \E b \in AllBacks(mem) : a = b.desc \/ a = b.map
    BY <1>3 DEF Taken, Structs
  <2>3. ASSUME NEW s \in AllSlabs, a = s.desc \/ a = s.map
        PROVE  \E b \in AllBacks(mem) : a = b.desc \/ a = b.map
    <3>1. ~ \E c \in Small : s \in SlabSet(mem.cache[c])
      BY <1>2, <1>3, <2>3
    <3>2. PICK c \in Clients : s \in SlabSet(Of(mem, c))
      BY <3>1, SlabSides
    <3>3. Back(s) \in AllBacks(mem)
      BY <3>2, SlabSetIs DEF AllBacks
    <3> QED BY <2>3, <3>3, SlabSetIs
  <2>4. ASSUME NEW b \in AllBacks(mem), a = b.desc \/ a = b.map
        PROVE  \E s \in AllSlabs : a = s.desc \/ a = s.map
    <3>1. PICK c \in Clients : b \in Backs(Of(mem, c))
      BY DEF AllBacks
    <3>2. PICK s \in SlabSet(Of(mem, c)) : b = Back(s)
      BY <3>1, SlabSetIs
    <3>3. s \in AllSlabs
      BY SlabSides
    <3> QED BY <2>4, <3>2, <3>3, SlabSetIs
  <2> QED BY <2>1, <2>2, <2>3, <2>4
<1>4. NULL \notin Internal /\ NULL \notin Taken(mem)
  BY DEF Internal, Taken, Structs
<1>5. SlabPages = SmallPages(mem) \cup PagesOf(AllBacks(mem))
  BY <1>1
<1>6. Internal = Taken(mem)
  BY <1>3, <1>4
<1> QED
  BY <1>5, <1>6

\* The set bits of the slabs, as addresses.
LEMMA BitsAre ==
  ASSUME NEW U, Layout(mem, U)
  PROVE  UNION {{[page |-> s.page, index |-> j] : j \in s.bits} : s \in AllSlabs}
           = SmallObjects(mem) \cup LargeObjects(mem) \cup Objects(mem.own)
<1> DEFINE Bits(s) == {[page |-> s.page, index |-> j] : j \in s.bits}
<1>1. \A s \in AllSlabs : s \in Slabs
  BY SlabsOf DEF AllSlabs, SlabOK
<1>2. ASSUME NEW k, SlabSet(k) \subseteq AllSlabs, NEW a
      PROVE  a \in Objects(k) <=> \E s \in SlabSet(k) : a \in Bits(s)
  <2>1. ASSUME a \in Objects(k) PROVE \E s \in SlabSet(k) : a \in Bits(s)
    <3>1. PICK i \in 1..Len(k.pool) : k.pool[i].page = a.page /\ a.index \in k.pool[i].bits
      BY <2>1 DEF Objects
    <3>2. a = [page |-> a.page, index |-> a.index]
      BY <2>1 DEF Objects, Addresses
    <3>3. a \in Bits(k.pool[i])
      BY <3>1, <3>2
    <3> QED BY <3>3 DEF SlabSet
  <2>2. ASSUME NEW s \in SlabSet(k), a \in Bits(s) PROVE a \in Objects(k)
    <3>1. PICK i \in 1..Len(k.pool) : s = k.pool[i]
      BY DEF SlabSet
    <3>2. PICK j \in s.bits : a = [page |-> s.page, index |-> j]
      BY <2>2
    <3>3. s \in Slabs
      BY <1>1, <1>2
    <3>4. s.page \in Pages /\ j \in Nat
      BY <3>3 DEF Slabs
    <3>5. a \in Addresses /\ a.page = s.page /\ a.index = j
      BY <3>2, <3>4 DEF Addresses
    <3> QED BY <3>1, <3>5 DEF Objects
  <2> QED BY <2>1, <2>2
<1>3. (\A c \in Caches : SlabSet(mem.cache[c]) \subseteq AllSlabs) /\ SlabSet(mem.own) \subseteq AllSlabs
  BY DEF AllSlabs
<1> HIDE DEF Bits
<1>4. \A a : (\E s \in AllSlabs : a \in Bits(s))
               <=> (\E c \in Caches : a \in Objects(mem.cache[c])) \/ a \in Objects(mem.own)
  <2>1. \A a : \A c \in Caches : a \in Objects(mem.cache[c]) <=> \E s \in SlabSet(mem.cache[c]) : a \in Bits(s)
    BY <1>2, <1>3
  <2>2. \A a : a \in Objects(mem.own) <=> \E s \in SlabSet(mem.own) : a \in Bits(s)
    BY <1>2, <1>3
  <2>3. \A s : s \in AllSlabs <=> (\E c \in Caches : s \in SlabSet(mem.cache[c])) \/ s \in SlabSet(mem.own)
    BY DEF AllSlabs
  <2> QED BY <2>1, <2>2, <2>3
<1>5. \A a : (\E c \in Caches : a \in Objects(mem.cache[c])) <=> a \in SmallObjects(mem) \/ a \in LargeObjects(mem)
  BY DEF Caches, SmallObjects, LargeObjects
<1>6. UNION {Bits(s) : s \in AllSlabs} = SmallObjects(mem) \cup LargeObjects(mem) \cup Objects(mem.own)
  BY <1>4, <1>5
<1> QED
  BY <1>6 DEF Bits

-----------------------------------------------------------------------------
(* The properties *)

\* No page has two uses and none is forgotten: the bitmap of the zone is the kernel's
\* pages, those of the slabs and the user's, all apart, whatever was allocated, freed
\* or given up half way (alloc_pages, free_pages, kmalloc_create and slab_malloc).
THEOREM PagesStayExact == Spec => []PagesExact
<1>1. MemInv => PagesExact
  <2> SUFFICES ASSUME MemInv, ~mem.halted
               PROVE  /\ TypeOK
                      /\ mem.zone.bits_map = KernelPages \cup SlabPages \cup user
                      /\ KernelPages \cap SlabPages = {} /\ KernelPages \cap user = {} /\ SlabPages \cap user = {}
                      /\ OnePageEach(mem.own)
                      /\ \A c \in Caches :
                           /\ OnePageEach(mem.cache[c]) /\ PagesApart(mem.cache[c], mem.own)
                           /\ \A d \in Caches \ {c} : PagesApart(mem.cache[c], mem.cache[d])
    BY DEF PagesExact
  <2>1. TypeOK /\ Layout(mem, user)
    BY DEF MemInv, Book
  <2>2. PICK A, S, P : A = PagesOf(AllBacks(mem)) /\ S = SmallPages(mem) /\ P = SlabPages
    OBVIOUS
  <2>3. P = S \cup A
    BY <2>1, <2>2, SlabsHave
  <2>4. /\ KernelPages \cap A = {} /\ (KernelPages \cup A) \cap user = {} /\ S \cap (KernelPages \cup A \cup user) = {}
        /\ mem.zone.bits_map = S \cup (KernelPages \cup A \cup user)
    BY <2>1, <2>2 DEF Layout, Linked, SmallOK, ZoneOK
  <2>5. /\ mem.zone.bits_map = KernelPages \cup P \cup user
        /\ KernelPages \cap P = {} /\ KernelPages \cap user = {} /\ P \cap user = {}
    BY <2>3, <2>4
  <2>6. OnePageEach(mem.own)
    <3>1. CASE mem.own = NoCache
      BY <3>1 DEF NoCache, OnePageEach
    <3>2. CASE mem.own # NoCache
      BY <2>1, <3>2, SlabsOf DEF CacheOK, CacheBase
    <3> QED BY <3>1, <3>2
  <2>7. \A c \in Caches : OnePageEach(mem.cache[c])
    BY <2>1, SlabsOf DEF KCacheOK, CacheOK, CacheBase
  <2> DEFINE B(c) == PagesOf(Backs(mem.cache[c]))
             O == PagesOf(Backs(mem.own))
  <2>8. \A c \in Small : B(c) \subseteq S
    BY <2>2 DEF SmallPages
  <2>9. (\A c \in Clients : PagesOf(Backs(Of(mem, c))) \subseteq A)
    BY <2>2 DEF AllBacks, PagesOf
  <2>10. (\A c \in Large : B(c) \subseteq A) /\ O \subseteq A
    BY <2>1, <2>9, SlabSides
  <2>11. \A c, d \in Small : c # d => B(c) \cap B(d) = {}
    BY <2>1 DEF Layout, SmallOK
  <2>12. \A c, d \in Clients : c # d => PagesOf(Backs(Of(mem, c))) \cap PagesOf(Backs(Of(mem, d))) = {}
    BY <2>1 DEF Layout, ClientsOK
  <2>13. (\A c, d \in Large : c # d => B(c) \cap B(d) = {}) /\ \A c \in Large : B(c) \cap O = {}
    BY <2>1, <2>12, SlabSides, OwnNotLarge
  <2>14. S \cap A = {}
    BY <2>4
  <2>15. Caches = Small \cup Large
    BY DEF Caches
  <2>16. \A c \in Caches : B(c) \cap O = {} /\ \A d \in Caches \ {c} : B(c) \cap B(d) = {}
    <3> HIDE DEF B, O
    <3> QED BY <2>8, <2>10, <2>11, <2>13, <2>14, <2>15
  <2>17. \A c \in Caches : /\ PagesApart(mem.cache[c], mem.own)
                           /\ \A d \in Caches \ {c} : PagesApart(mem.cache[c], mem.cache[d])
    BY <2>16, ApartIs
  <2> QED BY <2>1, <2>2, <2>5, <2>6, <2>7, <2>17
<1> QED
  BY <1>1, MemoryInvariance, PTL

\* Nothing is handed out twice, no structure of the allocator is handed out and none is
\* lost: the set bits of color_map are what the callers of kmalloc and slab_malloc hold
\* and the struct Slab, bitmaps and struct Slab_cache that the allocator took from its
\* own small caches (kmalloc, kfree, slab_create, slab_malloc, slab_free, slab_destroy).
THEOREM ObjectsStayExact == Spec => []ObjectsExact
<1>1. MemInv => ObjectsExact
  <2> SUFFICES ASSUME MemInv, ~mem.halted
               PROVE  /\ owned \cap Internal = {}
                      /\ UNION {{[page |-> s.page, index |-> j] : j \in s.bits} : s \in AllSlabs}
                           = owned \cup lent \cup Internal
                      /\ \A s \in AllSlabs : s.bits \subseteq 0..(s.color_count - 1)
    BY DEF ObjectsExact
  <2>1. /\ Layout(mem, user) /\ lent = Objects(mem.own) /\ owned \cap Taken(mem) = {}
        /\ SmallObjects(mem) \cup LargeObjects(mem) = owned \cup Taken(mem)
    BY DEF MemInv, Book, Lent
  <2>2. Internal = Taken(mem)
    BY <2>1, SlabsHave
  <2>3. UNION {{[page |-> s.page, index |-> j] : j \in s.bits} : s \in AllSlabs}
          = SmallObjects(mem) \cup LargeObjects(mem) \cup Objects(mem.own)
    BY <2>1, BitsAre
  <2>4. SmallObjects(mem) \cup LargeObjects(mem) \cup Objects(mem.own) = owned \cup lent \cup Internal
    BY <2>1, <2>2
  <2>5. \A s \in AllSlabs : s.bits \subseteq 0..(s.color_count - 1)
    BY <2>1, SlabsOf DEF AllSlabs, SlabOK
  <2>6. UNION {{[page |-> s.page, index |-> j] : j \in s.bits} : s \in AllSlabs} = owned \cup lent \cup Internal
    BY <2>3, <2>4, Zenon
  <2>7. owned \cap Internal = {}
    BY <2>1, <2>2
  <2> QED BY <2>5, <2>6, <2>7
<1> QED
  BY <1>1, MemoryInvariance, PTL

\* The counters kmalloc and slab_malloc trust (total_free, total_using, free_count,
\* using_count) agree with the bitmaps, those of the zone with its bitmap, and a page a
\* slab or the kernel has is linked exactly once (page_init, page_clean, alloc_pages,
\* free_pages, kmalloc, kfree, slab_malloc, slab_free).
THEOREM CountersStayExact == Spec => []CountersExact
<1>1. MemInv => CountersExact
  <2> SUFFICES ASSUME MemInv, ~mem.halted PROVE CountersExact
    BY DEF CountersExact
  <2>1. Layout(mem, user) /\ mem.own.total_using = Cardinality(lent)
    BY DEF MemInv, Book, Lent
  <2>2. ASSUME NEW c \in Caches
        PROVE  /\ \A s \in SlabSet(mem.cache[c]) : s.using_count = Cardinality(s.bits)
               /\ mem.cache[c].total_free = Total(FreeCounts(mem.cache[c]))
               /\ mem.cache[c].total_using = Total(UsingCounts(mem.cache[c]))
    <3>1. PICK k, h, mc : k = mem.cache[c] /\ h = HeadCount[c] /\ mc = MoreCount[c]
      OBVIOUS
    <3>2. CacheBase(k, h, mc, 0)
      BY <2>1, <3>1, SlabsOf DEF KCacheOK, CacheOK
    <3>3. k.total_free = Total(FreeCounts(k)) /\ k.total_using = Total(UsingCounts(k))
      <4>1. k.total_using \in Int
        BY <3>2 DEF CacheBase, CacheType
      <4> QED BY <3>2, <4>1 DEF CacheBase
    <3>4. ASSUME NEW s \in SlabSet(k) PROVE s.using_count = Cardinality(s.bits)
      <4>1. PICK n \in Nat : SlabOK(s, n, 0)
        BY <2>1, <3>1, SlabsOf
      <4>2. Cardinality(s.bits) \in Nat
        BY <4>1, SlabCounts
      <4> QED BY <4>1, <4>2 DEF SlabOK
    <3> QED BY <3>1, <3>3, <3>4
  <2>3. \A s \in AllSlabs : s.free_count = s.color_count - Cardinality(s.bits)
    BY <2>1, SlabsOf DEF AllSlabs, SlabOK
  <2>4. mem.own.total_free = Total(FreeCounts(mem.own))
    <3>1. CASE mem.own = NoCache
      <4>1. Len(NoCache.pool) = 0 /\ NoCache.total_free = 0
        BY DEF NoCache
      <4>2. FreeCounts(NoCache) \in Seq(Nat) /\ Len(FreeCounts(NoCache)) = 0
        BY <4>1 DEF FreeCounts
      <4>3. Total(FreeCounts(NoCache)) = 0
        <5>1. \A i \in 1..Len(FreeCounts(NoCache)) : FreeCounts(NoCache)[i] = 0
          BY <4>2
        <5> QED BY <4>2, <5>1, TotalNat
      <4> QED BY <3>1, <4>1, <4>3
    <3>2. CASE mem.own # NoCache
      BY <2>1, <3>2, SlabsOf DEF CacheOK, CacheBase
    <3> QED BY <3>1, <3>2
  <2>5. ZoneOK(mem.zone, SmallPages(mem) \cup (Linked(mem) \cup user), SmallPages(mem) \cup Linked(mem))
    BY <2>1 DEF Layout, SmallOK
  <2>6. /\ mem.zone.page_using_count = Cardinality(mem.zone.bits_map)
        /\ mem.zone.page_free_count = Cardinality(Pages \ mem.zone.bits_map)
        /\ mem.zone.total_pages_link = Cardinality({p \in Pages : mem.zone.reference_count[p] = 1})
        /\ \A p \in Pages : mem.zone.reference_count[p] \in {0, 1}
        /\ \A p \in SmallPages(mem) \cup Linked(mem) : mem.zone.reference_count[p] = 1
    BY <2>5 DEF ZoneOK
  <2>7. KernelPages \cup SlabPages = SmallPages(mem) \cup Linked(mem)
    BY <2>1, SlabsHave DEF Linked
  <2>8. \A p \in Pages :
          mem.zone.reference_count[p] \in IF p \in KernelPages \cup SlabPages THEN {1} ELSE {0, 1}
    BY <2>6, <2>7
  <2> QED BY <2>1, <2>2, <2>3, <2>4, <2>6, <2>8 DEF CountersExact
<1> QED
  BY <1>1, MemoryInvariance, PTL

\* kfree and slab_free never release the slab a cache_pool pointer names, and no cache
\* keeps more than one further empty slab, although each call looks at the counters
\* only when a slab empties.
THEOREM OneSpareSlabKept == Spec => []OneSpareSlab
<1>1. MemInv => OneSpareSlab
  <2> SUFFICES ASSUME MemInv, ~mem.halted PROVE OneSpareSlab
    BY DEF OneSpareSlab
  <2>1. Layout(mem, user) /\ (mem.own_at = NULL <=> mem.own = NoCache)
    BY DEF MemInv, Book, Layout, ClientsOK
  <2>2. \A c \in Caches : mem.cache[c].pool[1].page = HeadPage[c] /\ OneSpare(mem.cache[c])
    BY <2>1, SlabsOf DEF KCacheOK, CacheOK, First, Back
  <2>3. ASSUME mem.own_at # NULL
        PROVE  mem.own.pool # <<>> /\ mem.own.pool[1].using_count >= OwnCount /\ OneSpare(mem.own)
    <3>1. PICK k, h : k = mem.own /\ h = OwnCount
      OBVIOUS
    <3>2. CacheOK(k, h, h, h) /\ Params(h, h, h)
      BY <2>1, <2>3, <3>1, SlabsOf, Constants
    <3>3. 1 \in 1..Len(k.pool)
      BY <3>2, CacheFacts DEF CacheOK
    <3>4. SlabOK(k.pool[1], h, h) /\ h \in Nat
      BY <3>2, <3>3 DEF CacheOK, CacheBase, Nth, Params
    <3>5. k.pool[1].using_count >= h
      BY <3>4, SlabCounts DEF SlabOK
    <3> QED BY <3>1, <3>2, <3>5 DEF CacheOK, CacheBase
  <2> QED BY <2>2, <2>3 DEF OneSpareSlab
<1> QED
  BY <1>1, MemoryInvariance, PTL
=============================================================================
