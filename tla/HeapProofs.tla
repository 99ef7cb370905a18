----------------------------- MODULE HeapProofs -----------------------------
(***************************************************************************)
(* For every size of the pool and of the headers: the chunks tile the      *)
(* pool, used chunks are those the callers hold, free neighbours are       *)
(* merged, and a pool implements Allocator.                                *)
(***************************************************************************)
EXTENDS Heap, FiniteSetTheorems, TLAPS

OnBoundary(a) == a % HEAP_ALIGN = 0

\* A list that kheap_init, Split, Merge and Unused can leave.
ListOK(h) ==
    /\ \A a \in DOMAIN h :
        a \in Nat /\ h[a].size \in Nat /\ h[a].next \in Nat
        /\ h[a] \in Chunk
    /\ TiledList(h)
    /\ \A a \in DOMAIN h : OnBoundary(a)

\* Coalesced but for the chunks of E, which may have a free neighbour behind them.
CoalescedBut(h, E) ==
    \A a \in DOMAIN h \ E : h[a].used \/ h[a].next = HeadNode \/ h[h[a].next].used

\* HeldUsed of a list.
HeldIn(h, s) ==
    /\ \A a \in DOMAIN h : h[a].used => a + Hdr \in DOMAIN s /\ s[a + Hdr] <= h[a].size
    /\ \A c \in DOMAIN s : \E a \in DOMAIN h : c = a + Hdr /\ h[a].used

\* The inductive invariant.
HInv ==
    /\ TypeOK
    /\ init \/ (DOMAIN hdr = {} /\ DOMAIN held = {})
    /\ ListOK(List) /\ CoalescedBut(List, {}) /\ HeldIn(List, held)

-----------------------------------------------------------------------------
(* Sizes *)

\* The constants, without their alignment.
LEMMA SizeFacts == Hdr \in Nat /\ Hdr > 0 /\ Total \in Nat /\ Hdr <= Total
BY HeapAssumption

\* A rounded size is aligned and not smaller than what was asked.
LEMMA AlignedFacts ==
    ASSUME NEW n \in Nat
    PROVE  Aligned(n) \in Nat /\ n <= Aligned(n) /\ OnBoundary(Aligned(n))
BY DEF Aligned, OnBoundary, HEAP_ALIGN

\* Sums of aligned numbers are aligned.
LEMMA AlignedSum ==
    ASSUME NEW a \in Nat, NEW b \in Nat, OnBoundary(a), OnBoundary(b)
    PROVE  OnBoundary(a + b)
BY DEF OnBoundary, HEAP_ALIGN

\* The size of a chunk for n bytes.
LEMMA ReqFacts ==
    ASSUME NEW n \in Nat
    PROVE  /\ ReqSize(n) \in Nat /\ ReqSize(n) = Hdr + Aligned(n)
           /\ Hdr + n <= ReqSize(n) /\ OnBoundary(ReqSize(n))
<1>1. OnBoundary(Hdr)
  BY HeapAssumption DEF OnBoundary
<1>2. OnBoundary(Hdr + Aligned(n))
  BY <1>1, SizeFacts, AlignedFacts, AlignedSum
<1> QED
  BY <1>2, SizeFacts, AlignedFacts DEF ReqSize

-----------------------------------------------------------------------------
(* The list operations *)

\* kheap_init leaves a list.
LEMMA WholeOK == ListOK(Whole) /\ CoalescedBut(Whole, {})
<1>1. OnBoundary(0)
  BY DEF OnBoundary, HEAP_ALIGN
<1>2. DOMAIN Whole = {0} /\ Whole[0].size = Total - Hdr /\ Whole[0].used = FALSE
      /\ Whole[0].next = Total /\ Whole[0] \in Chunk
  BY SizeFacts DEF Whole, HeadNode, Chunk
<1> DEFINE w == Whole
<1>3. /\ DOMAIN w = {0} /\ w[0].size \in Nat /\ w[0].used = FALSE /\ w[0].next = Total
      /\ w[0] \in Chunk /\ 0 + Hdr + w[0].size = Total /\ Total \in Nat
  BY <1>2, SizeFacts
<1> HIDE DEF w
<1>4. TiledList(w)
  BY <1>3 DEF TiledList, HeadNode
<1>5. ListOK(w) /\ CoalescedBut(w, {})
  BY <1>1, <1>3, <1>4 DEF ListOK, CoalescedBut, HeadNode
<1> QED
  BY <1>5 DEF w

\* Splitting keeps a list a tiling.
LEMMA SplitOK ==
    ASSUME NEW h, ListOK(h), NEW x \in DOMAIN h, NEW n \in Nat, Fits(h, x, n)
    PROVE  ListOK(Split(h, x, n))
<1> DEFINE m == Split(h, x, n)
           y == x + ReqSize(n)
<1>1. /\ ReqSize(n) \in Nat /\ Aligned(n) \in Nat /\ h[x].size >= ReqSize(n)
      /\ ReqSize(n) = Hdr + Aligned(n) /\ OnBoundary(ReqSize(n))
  BY ReqFacts, AlignedFacts DEF Fits
<1>2. /\ DOMAIN m = DOMAIN h \cup {y} /\ x \in Nat /\ y \in Nat /\ x < y
      /\ h[x].size \in Nat /\ h[x].next \in Nat
  BY <1>1, SizeFacts DEF Split, ListOK
<1>3. y \notin DOMAIN h /\ y + Hdr <= h[x].next /\ h[x].next = x + Hdr + h[x].size
  BY <1>1, <1>2, SizeFacts DEF ListOK, TiledList
<1>4. /\ m[x] = [size |-> Aligned(n), used |-> TRUE, next |-> y]
      /\ m[y] = [size |-> h[x].size - ReqSize(n), used |-> FALSE, next |-> h[x].next]
      /\ \A b \in DOMAIN h : b # x => m[b] = h[b]
  BY <1>2, <1>3 DEF Split
<1>5. /\ m[x].size = Aligned(n) /\ m[x].used = TRUE /\ m[x].next = y
      /\ m[y].size = h[x].size - ReqSize(n) /\ m[y].used = FALSE /\ m[y].next = h[x].next
      /\ m[x] \in Chunk /\ m[y] \in Chunk
  BY <1>1, <1>2, <1>4 DEF Chunk
<1>6. OnBoundary(y)
  BY <1>1, <1>2, AlignedSum DEF ListOK
<1> HIDE DEF m, y
<1>7. \A a \in DOMAIN m :
        a \in Nat /\ m[a].size \in Nat /\ m[a].next \in Nat
        /\ m[a] \in Chunk /\ OnBoundary(a)
  <2>1. /\ m[x].size \in Nat /\ m[x].next \in Nat
        /\ m[y].size \in Nat /\ m[y].next \in Nat
    BY <1>1, <1>2, <1>5
  <2> QED
    BY <1>2, <1>4, <1>5, <1>6, <2>1 DEF ListOK
<1>8. 0 \in DOMAIN m
  BY <1>2 DEF ListOK, TiledList
<1>9. \A a \in DOMAIN m : a + Hdr + m[a].size = m[a].next
  <2>1. x + Hdr + m[x].size = m[x].next
    BY <1>1, <1>2, <1>5, SizeFacts DEF y
  <2>2. y + Hdr + m[y].size = m[y].next
    BY <1>1, <1>2, <1>3, <1>5, SizeFacts DEF y
  <2> QED
    BY <1>2, <1>4, <2>1, <2>2 DEF ListOK, TiledList
<1>10. \A a \in DOMAIN m : m[a].next \in DOMAIN m \cup {HeadNode} /\ m[a].next <= Total
  BY <1>2, <1>3, <1>4, <1>5, SizeFacts DEF ListOK, TiledList
<1>11. ASSUME NEW a \in DOMAIN m, NEW b \in DOMAIN m, a < b PROVE m[a].next <= b
  <2>1. \A c, d \in DOMAIN h : c < d => h[c].next <= d
    BY DEF ListOK, TiledList
  <2>2. \A c \in DOMAIN h : c \in Nat /\ h[c].next \in Nat
    BY DEF ListOK
  <2>3. CASE a = x
    BY <1>2, <1>3, <1>5, <1>11, <2>1, <2>2, <2>3, SizeFacts
  <2>4. CASE a = y
    BY <1>2, <1>3, <1>5, <1>11, <2>1, <2>2, <2>4, SizeFacts
  <2>5. CASE a # x /\ a # y
    BY <1>2, <1>3, <1>4, <1>11, <2>1, <2>2, <2>5, SizeFacts
  <2> QED BY <2>3, <2>4, <2>5
<1> QED
  BY <1>7, <1>8, <1>9, <1>10, <1>11 DEF ListOK, TiledList, m

\* What Merge leaves of the two chunks, and of the others.
LEMMA MergeFields ==
    ASSUME NEW h, ListOK(h), NEW x \in DOMAIN h, h[x].next \in DOMAIN h
    PROVE  LET y == h[x].next
               m == Merge(h, x)
           IN  /\ DOMAIN m = DOMAIN h \ {y} /\ x \in DOMAIN m /\ x < y
               /\ m[x] \in Chunk /\ m[x].size = h[x].size + Hdr + h[y].size
               /\ m[x].used = h[x].used /\ m[x].next = h[y].next
               /\ \A b \in DOMAIN m : b # x => m[b] = h[b] /\ h[b].next # y
               /\ y < h[y].next
<1> DEFINE y == h[x].next
           m == Merge(h, x)
<1>1. /\ x \in Nat /\ y \in Nat /\ h[x].size \in Nat /\ h[y].size \in Nat
      /\ h[x].used \in BOOLEAN /\ h[y].next \in Nat
      /\ y = x + Hdr + h[x].size /\ h[y].next = y + Hdr + h[y].size
  BY DEF ListOK, TiledList, Chunk
<1>2. x < y /\ y < h[y].next
  BY <1>1, SizeFacts
<1>3. DOMAIN m = DOMAIN h \ {y} /\ x \in DOMAIN m
  BY <1>2, <1>1 DEF Merge
<1>4. /\ m[x] = [size |-> h[x].size + Hdr + h[y].size, used |-> h[x].used, next |-> h[y].next]
      /\ \A b \in DOMAIN m : b # x => m[b] = h[b]
  BY <1>3 DEF Merge
<1>5. /\ m[x] \in Chunk /\ m[x].size = h[x].size + Hdr + h[y].size
      /\ m[x].used = h[x].used /\ m[x].next = h[y].next
  BY <1>1, <1>4, SizeFacts DEF Chunk
<1>6. ASSUME NEW b \in DOMAIN h, b # x PROVE h[b].next # y
  <2>1. /\ b \in Nat /\ h[b].size \in Nat /\ h[b].next = b + Hdr + h[b].size
        /\ (b < x => h[b].next <= x) /\ (x < b => y <= b)
    BY DEF ListOK, TiledList
  <2> QED BY <1>1, <1>2, <1>6, <2>1, SizeFacts
<1> QED
  BY <1>2, <1>3, <1>4, <1>5, <1>6

\* Merging keeps a list a tiling.
LEMMA MergeOK ==
    ASSUME NEW h, ListOK(h), NEW x \in DOMAIN h, h[x].next \in DOMAIN h
    PROVE  ListOK(Merge(h, x))
<1> DEFINE y == h[x].next
           m == Merge(h, x)
<1>1. /\ DOMAIN m = DOMAIN h \ {y} /\ x \in DOMAIN m /\ x < y
      /\ m[x] \in Chunk /\ m[x].size = h[x].size + Hdr + h[y].size
      /\ m[x].used = h[x].used /\ m[x].next = h[y].next
      /\ \A b \in DOMAIN m : b # x => m[b] = h[b] /\ h[b].next # y
      /\ y < h[y].next
  BY MergeFields
<1>2. /\ \A c \in DOMAIN h : c \in Nat /\ h[c].size \in Nat
                             /\ h[c].next \in Nat /\ h[c] \in Chunk /\ OnBoundary(c)
      /\ \A c \in DOMAIN h : c + Hdr + h[c].size = h[c].next
      /\ \A c \in DOMAIN h : h[c].next \in DOMAIN h \cup {HeadNode} /\ h[c].next <= Total
      /\ \A c, d \in DOMAIN h : c < d => h[c].next <= d
      /\ 0 \in DOMAIN h
  BY DEF ListOK, TiledList
<1>y. y \in DOMAIN h
  OBVIOUS
<1> HIDE DEF m
<1>3. \A a \in DOMAIN m :
        a \in Nat /\ m[a].size \in Nat /\ m[a].next \in Nat
        /\ m[a] \in Chunk /\ OnBoundary(a)
  BY <1>1, <1>2, <1>y, SizeFacts
<1>4. 0 \in DOMAIN m
  BY <1>1, <1>2
<1>5. \A a \in DOMAIN m : a + Hdr + m[a].size = m[a].next
  BY <1>1, <1>2, <1>y, SizeFacts
<1>6. \A a \in DOMAIN m : m[a].next \in DOMAIN m \cup {HeadNode} /\ m[a].next <= Total
  BY <1>1, <1>2, <1>y
<1>7. \A a, b \in DOMAIN m : a < b => m[a].next <= b
  BY <1>1, <1>2, <1>y
<1> QED
  BY <1>3, <1>4, <1>5, <1>6, <1>7 DEF ListOK, TiledList, m

\* Marking a chunk keeps a list a tiling.
LEMMA UnusedOK ==
    ASSUME NEW h, ListOK(h), NEW x \in DOMAIN h
    PROVE  /\ ListOK(Unused(h, x)) /\ DOMAIN Unused(h, x) = DOMAIN h
           /\ ~Unused(h, x)[x].used
           /\ \A a \in DOMAIN h : Unused(h, x)[a].next = h[a].next
           /\ \A a \in DOMAIN h : a # x => Unused(h, x)[a] = h[a]
<1> DEFINE m == Unused(h, x)
<1>1. /\ DOMAIN m = DOMAIN h
      /\ m[x] = [size |-> h[x].size, used |-> FALSE, next |-> h[x].next]
      /\ \A a \in DOMAIN h : a # x => m[a] = h[a]
  BY DEF Unused
<1>2. m[x] \in Chunk /\ m[x].size = h[x].size /\ m[x].next = h[x].next /\ m[x].used = FALSE
  BY <1>1 DEF ListOK, Chunk
<1> HIDE DEF m
<1>3. \A a \in DOMAIN h : m[a].size = h[a].size /\ m[a].next = h[a].next
  BY <1>1, <1>2
<1>4. ListOK(m)
  BY <1>1, <1>2, <1>3 DEF ListOK, TiledList
<1> QED
  BY <1>1, <1>2, <1>3, <1>4 DEF m

-----------------------------------------------------------------------------
(* heap_malloc and heap_free *)

\* The remainder's successor is used or ends the list, and so is what follows it.
LEMMA SplitCoalesced ==
    ASSUME NEW h, ListOK(h), CoalescedBut(h, {}),
           NEW x \in DOMAIN h, NEW n \in Nat, Fits(h, x, n)
    PROVE  CoalescedBut(Split(h, x, n), {})
<1> DEFINE m == Split(h, x, n)
           y == x + ReqSize(n)
<1>1. /\ ReqSize(n) \in Nat /\ h[x].size >= ReqSize(n) /\ ~h[x].used
      /\ ReqSize(n) = Hdr + Aligned(n) /\ Aligned(n) \in Nat
  BY ReqFacts, AlignedFacts DEF Fits
<1>2. /\ x \in Nat /\ y \in Nat /\ x < y /\ DOMAIN m = DOMAIN h \cup {y}
      /\ h[x].next = x + Hdr + h[x].size /\ h[x].size \in Nat
  BY <1>1, SizeFacts DEF Split, ListOK, TiledList
<1>3. y \notin DOMAIN h /\ h[x].next # y
  BY <1>1, <1>2, SizeFacts DEF ListOK, TiledList
<1>4. /\ m[x].used /\ m[y].next = h[x].next
      /\ \A b \in DOMAIN h : b # x => m[b] = h[b]
  BY <1>2, <1>3 DEF Split
<1>5. h[x].next = HeadNode \/ (h[x].next \in DOMAIN h /\ h[x].next # x /\ h[h[x].next].used)
  BY <1>1, <1>2, SizeFacts DEF CoalescedBut, ListOK, TiledList
<1>6. \A a \in DOMAIN h : h[a].next = HeadNode \/ h[a].next \in DOMAIN h
  BY DEF ListOK, TiledList
<1>7. \A a \in DOMAIN h : h[a].used \/ h[a].next = HeadNode \/ h[h[a].next].used
  BY DEF CoalescedBut
<1> HIDE DEF m, y
<1>8. \A a \in DOMAIN m : m[a].used \/ m[a].next = HeadNode \/ m[m[a].next].used
  BY <1>2, <1>3, <1>4, <1>5, <1>6, <1>7
<1> QED
  BY <1>8 DEF CoalescedBut, m

\* The caller's new address is that of the chunk that was free.
LEMMA SplitHeld ==
    ASSUME NEW h, ListOK(h), NEW s, HeldIn(h, s),
           NEW x \in DOMAIN h, NEW n \in Nat, Fits(h, x, n)
    PROVE  /\ x + Hdr \notin DOMAIN s
           /\ HeldIn(Split(h, x, n),
                     [b \in DOMAIN s \cup {x + Hdr} |-> IF b = x + Hdr THEN n ELSE s[b]])
<1> DEFINE m == Split(h, x, n)
           y == x + ReqSize(n)
           t == [b \in DOMAIN s \cup {x + Hdr} |-> IF b = x + Hdr THEN n ELSE s[b]]
<1>1. /\ ReqSize(n) \in Nat /\ h[x].size >= ReqSize(n) /\ ~h[x].used
      /\ ReqSize(n) = Hdr + Aligned(n) /\ Aligned(n) \in Nat /\ n <= Aligned(n)
  BY ReqFacts, AlignedFacts DEF Fits
<1>2. /\ x \in Nat /\ y \in Nat /\ x < y /\ DOMAIN m = DOMAIN h \cup {y}
      /\ h[x].next = x + Hdr + h[x].size /\ h[x].size \in Nat
  BY <1>1, SizeFacts DEF Split, ListOK, TiledList
<1>3. y \notin DOMAIN h
  BY <1>1, <1>2, SizeFacts DEF ListOK, TiledList
<1>4. /\ m[x].used /\ m[x].size = Aligned(n) /\ ~m[y].used
      /\ \A b \in DOMAIN h : b # x => m[b] = h[b]
  BY <1>2, <1>3 DEF Split
<1>5. \A a \in DOMAIN h : a \in Nat /\ (a + Hdr = x + Hdr => a = x)
  BY <1>2, SizeFacts DEF ListOK
<1>6. x + Hdr \notin DOMAIN s
  BY <1>1, <1>5 DEF HeldIn
<1>7. /\ DOMAIN t = DOMAIN s \cup {x + Hdr} /\ t[x + Hdr] = n
      /\ \A c \in DOMAIN s : t[c] = s[c]
  BY <1>6
<1> HIDE DEF m, y, t
<1>8. \A a \in DOMAIN m : m[a].used => a + Hdr \in DOMAIN t /\ t[a + Hdr] <= m[a].size
  BY <1>1, <1>2, <1>4, <1>7 DEF HeldIn
<1>9. \A c \in DOMAIN t : \E a \in DOMAIN m : c = a + Hdr /\ m[a].used
  BY <1>1, <1>2, <1>4, <1>7 DEF HeldIn
<1> QED
  BY <1>6, <1>8, <1>9 DEF HeldIn, m, t

\* Merging with the next chunk: the chunk stays used, and what follows it is used
\* or ends the list.
LEMMA MergeNextOK ==
    ASSUME NEW h, ListOK(h), CoalescedBut(h, {}), NEW x \in DOMAIN h, h[x].used
    PROVE  LET g == MergeNext(h, x)
           IN  /\ ListOK(g) /\ CoalescedBut(g, {})
               /\ x \in DOMAIN g /\ g[x].used
               /\ g[x].next = HeadNode \/ g[g[x].next].used
               /\ DOMAIN g \subseteq DOMAIN h
               /\ \A a \in DOMAIN h : h[a].used => a \in DOMAIN g
               /\ \A a \in DOMAIN g : a # x => g[a] = h[a]
<1> DEFINE y == h[x].next
           g == MergeNext(h, x)
<1>1. CASE y # HeadNode /\ ~h[y].used
  <2>n. h[x].next \in DOMAIN h
    BY <1>1 DEF ListOK, TiledList
  <2>1. g = Merge(h, x) /\ y \in DOMAIN h
    BY <1>1 DEF MergeNext, ListOK, TiledList
  <2> DEFINE m == Merge(h, x)
  <2>f. /\ DOMAIN m = DOMAIN h \ {y} /\ x \in DOMAIN m /\ x < y
        /\ m[x] \in Chunk /\ m[x].size = h[x].size + Hdr + h[y].size
        /\ m[x].used = h[x].used /\ m[x].next = h[y].next
        /\ \A b \in DOMAIN m : b # x => m[b] = h[b] /\ h[b].next # y
        /\ y < h[y].next
    BY <2>n, MergeFields, Zenon
  <2>m. /\ DOMAIN m = DOMAIN h \ {y} /\ x \in DOMAIN m /\ x < y
        /\ m[x].used /\ m[x].next = h[y].next
        /\ \A b \in DOMAIN m : b # x => m[b] = h[b] /\ h[b].next # y
        /\ y < h[y].next
    BY <2>f, Zenon
  <2> HIDE DEF g, y, m
  <2>2. /\ DOMAIN g = DOMAIN h \ {y} /\ x \in DOMAIN g /\ x < y
        /\ g[x].used /\ g[x].next = h[y].next
        /\ \A b \in DOMAIN g : b # x => g[b] = h[b] /\ h[b].next # y
        /\ y < h[y].next
    BY <2>1, <2>m DEF m
  <2>3. ListOK(g)
    BY <2>1, MergeOK DEF y
  <2>4. h[y].next = HeadNode \/ (h[y].next \in DOMAIN g /\ h[y].next # x /\ h[h[y].next].used)
    BY <1>1, <2>1, <2>2 DEF CoalescedBut, ListOK, TiledList
  <2>5. \A a \in DOMAIN h : h[a].used \/ h[a].next = HeadNode \/ h[h[a].next].used
    BY DEF CoalescedBut
  <2>6. \A a \in DOMAIN h : h[a].next = HeadNode \/ h[a].next \in DOMAIN h
    BY DEF ListOK, TiledList
  <2>7. g[x].next = HeadNode \/ g[g[x].next].used
    BY <2>2, <2>4
  <2>8. \A a \in DOMAIN g : g[a].used \/ g[a].next = HeadNode \/ g[g[a].next].used
    BY <2>2, <2>4, <2>5, <2>6, <2>7
  <2> QED
    BY <1>1, <2>2, <2>3, <2>7, <2>8 DEF CoalescedBut, g
<1>2. CASE ~(y # HeadNode /\ ~h[y].used)
  BY <1>2 DEF MergeNext, CoalescedBut
<1> QED
  BY <1>1, <1>2

\* Merging with the chunk before, or marking the chunk, ends with a coalesced
\* list whose used chunks are those of before without x.
LEMMA MergePrevOK ==
    ASSUME NEW g, ListOK(g), CoalescedBut(g, {}), NEW x \in DOMAIN g, g[x].used,
           g[x].next = HeadNode \/ g[g[x].next].used
    PROVE  LET m == MergePrev(g, x)
           IN  /\ ListOK(m) /\ CoalescedBut(m, {})
               /\ \A a \in DOMAIN m : m[a].used => a \in DOMAIN g /\ a # x /\ m[a] = g[a]
               /\ \A a \in DOMAIN g : g[a].used /\ a # x => a \in DOMAIN m /\ m[a] = g[a]
<1> DEFINE m == MergePrev(g, x)
<1>c. \A a \in DOMAIN g : g[a].used \/ g[a].next = HeadNode \/ g[g[a].next].used
  BY DEF CoalescedBut
<1>d. \A a \in DOMAIN g : g[a].next = HeadNode \/ g[a].next \in DOMAIN g
  BY DEF ListOK, TiledList
<1>e. g[x].next # x
  BY SizeFacts DEF ListOK, TiledList
<1>1. CASE FreePrev(g, x) = {}
  <2> DEFINE u == Unused(g, x)
  <2>1. m = u
    BY <1>1 DEF MergePrev
  <2>2. /\ ListOK(u) /\ DOMAIN u = DOMAIN g /\ ~u[x].used
        /\ \A a \in DOMAIN g : u[a].next = g[a].next
        /\ \A a \in DOMAIN g : a # x => u[a] = g[a]
    BY UnusedOK
  <2>3. \A a \in DOMAIN g : g[a].next = x => g[a].used
    BY <1>1 DEF FreePrev
  <2> HIDE DEF u, m
  <2>4. \A a \in DOMAIN u : u[a].used \/ u[a].next = HeadNode \/ u[u[a].next].used
    BY <1>c, <1>d, <1>e, <2>2, <2>3
  <2> QED
    BY <2>1, <2>2, <2>4 DEF CoalescedBut, m
<1>2. CASE FreePrev(g, x) # {}
  <2>1. PICK p \in FreePrev(g, x) : m = Merge(g, p)
    BY <1>2 DEF MergePrev
  <2>2. p \in DOMAIN g /\ g[p].next = x /\ ~g[p].used /\ g[p].next \in DOMAIN g
    BY <2>1 DEF FreePrev
  <2> DEFINE u == Merge(g, p)
  <2>3. /\ DOMAIN u = DOMAIN g \ {x} /\ p \in DOMAIN u /\ p < x
        /\ u[p].used = g[p].used /\ u[p].next = g[x].next
        /\ \A b \in DOMAIN u : b # p => u[b] = g[b] /\ g[b].next # x
        /\ x < g[x].next
    BY <2>2, MergeFields
  <2>4. ListOK(u)
    BY <2>2, MergeOK
  <2> HIDE DEF u, m
  <2>5. g[x].next = HeadNode \/ (g[x].next \in DOMAIN u /\ g[x].next # p /\ u[g[x].next].used)
    BY <1>d, <1>e, <2>2, <2>3
  <2>6. \A a \in DOMAIN u : u[a].used \/ u[a].next = HeadNode \/ u[u[a].next].used
    BY <1>c, <1>d, <2>2, <2>3, <2>5
  <2>7. m = u
    BY <2>1 DEF u
  <2> QED
    BY <2>2, <2>3, <2>4, <2>6, <2>7 DEF CoalescedBut, m
<1> QED
  BY <1>1, <1>2

\* What heap_free does to a list.
LEMMA FreeOK ==
    ASSUME NEW h, ListOK(h), CoalescedBut(h, {}), NEW s, HeldIn(h, s),
           NEW x \in DOMAIN h, h[x].used
    PROVE  LET m == MergePrev(MergeNext(h, x), x)
           IN  /\ ListOK(m) /\ CoalescedBut(m, {})
               /\ HeldIn(m, [b \in DOMAIN s \ {x + Hdr} |-> s[b]])
<1> DEFINE g == MergeNext(h, x)
           m == MergePrev(g, x)
           t == [b \in DOMAIN s \ {x + Hdr} |-> s[b]]
<1>1. /\ ListOK(g) /\ CoalescedBut(g, {})
      /\ x \in DOMAIN g /\ g[x].used
      /\ g[x].next = HeadNode \/ g[g[x].next].used
      /\ DOMAIN g \subseteq DOMAIN h
      /\ \A a \in DOMAIN h : h[a].used => a \in DOMAIN g
      /\ \A a \in DOMAIN g : a # x => g[a] = h[a]
  BY MergeNextOK
<1> HIDE DEF g
<1>2. /\ ListOK(m) /\ CoalescedBut(m, {})
      /\ \A a \in DOMAIN m : m[a].used => a \in DOMAIN g /\ a # x /\ m[a] = g[a]
      /\ \A a \in DOMAIN g : g[a].used /\ a # x => a \in DOMAIN m /\ m[a] = g[a]
  BY <1>1, MergePrevOK
<1>3. \A a \in DOMAIN h : a \in Nat /\ (a + Hdr = x + Hdr => a = x)
  BY SizeFacts DEF ListOK
<1>4. DOMAIN t = DOMAIN s \ {x + Hdr} /\ \A c \in DOMAIN t : t[c] = s[c]
  OBVIOUS
<1> HIDE DEF m, t
<1>5. \A a \in DOMAIN m : m[a].used => a + Hdr \in DOMAIN t /\ t[a + Hdr] <= m[a].size
  BY <1>1, <1>2, <1>3, <1>4 DEF HeldIn
<1>6. \A c \in DOMAIN t : \E a \in DOMAIN m : c = a + Hdr /\ m[a].used
  BY <1>1, <1>2, <1>3, <1>4 DEF HeldIn
<1> QED
  BY <1>2, <1>5, <1>6 DEF HeldIn, m, t, g

-----------------------------------------------------------------------------
(* The invariant *)

\* The pool before its first use: nothing is held.
LEMMA InitHInv == Init => HInv
<1> SUFFICES ASSUME Init PROVE HInv
  OBVIOUS
<1>1. DOMAIN hdr = {} /\ DOMAIN held = {} /\ init = FALSE /\ avail \in Nat
  BY SizeFacts DEF Init
<1>2. List = Whole
  BY <1>1 DEF List
<1>3. ~Whole[0].used /\ DOMAIN Whole = {0}
  BY DEF Whole
<1>4. HeldIn(Whole, held)
  BY <1>1, <1>3 DEF HeldIn
<1> QED
  BY <1>1, <1>2, <1>4, WholeOK DEF HInv, TypeOK

\* heap_malloc that finds a chunk.
LEMMA MallocHInv ==
    ASSUME HInv, NEW n \in Requests, Malloc(n)
    PROVE  HInv'
<1> n \in Nat
  BY HeapAssumption
<1>1. PICK x \in DOMAIN List :
        /\ Fits(List, x, n)
        /\ hdr' = Split(List, x, n)
        /\ held' = [b \in DOMAIN held \cup {x + Hdr} |-> IF b = x + Hdr THEN n ELSE held[b]]
  BY DEF Malloc, FirstFit
<1>2. init' = TRUE /\ avail' \in Nat
  <2>1. avail' = avail - ReqSize(n) /\ ReqSize(n) <= avail /\ avail \in Nat /\ init' = TRUE
    BY DEF Malloc, HInv, TypeOK
  <2>2. ReqSize(n) \in Nat
    BY ReqFacts
  <2> QED BY <2>1, <2>2
<1>3. List' = hdr'
  BY <1>2 DEF List
<1>4. ListOK(hdr') /\ CoalescedBut(hdr', {}) /\ HeldIn(hdr', held')
  <2>1. ListOK(List) /\ CoalescedBut(List, {}) /\ HeldIn(List, held)
    BY DEF HInv
  <2>2. ListOK(Split(List, x, n))
    BY <1>1, <2>1, SplitOK
  <2>3. CoalescedBut(Split(List, x, n), {})
    BY <1>1, <2>1, SplitCoalesced
  <2>4. HeldIn(Split(List, x, n), held')
    BY <1>1, <2>1, SplitHeld
  <2> QED BY <1>1, <2>2, <2>3, <2>4
<1>5. \A a \in DOMAIN held' : a \in Nat /\ held'[a] \in Nat
  BY <1>1, SizeFacts DEF HInv, TypeOK, ListOK
<1>6. \A a \in DOMAIN hdr' : a \in Nat /\ hdr'[a] \in Chunk
  BY <1>4 DEF ListOK
<1> QED
  BY <1>2, <1>3, <1>4, <1>5, <1>6 DEF HInv, TypeOK

\* heap_malloc that fails.
LEMMA MallocFailsHInv ==
    ASSUME HInv, NEW n \in Requests, MallocFails(n)
    PROVE  HInv'
<1>1. hdr' = List /\ init' = TRUE /\ avail' = avail /\ held' = held
  BY DEF MallocFails
<1>2. List' = List
  BY <1>1 DEF List
<1>3. \A a \in DOMAIN hdr' : a \in Nat /\ hdr'[a] \in Chunk
  BY <1>1 DEF HInv, ListOK
<1> QED
  BY <1>1, <1>2, <1>3 DEF HInv, TypeOK

\* heap_free.
LEMMA FreeHInv ==
    ASSUME HInv, NEW x \in DOMAIN hdr, Free(x)
    PROVE  HInv'
<1>1. init /\ init' = init
  BY DEF HInv, Free
<1>2. List = hdr /\ List' = hdr'
  BY <1>1 DEF List
<1>3. /\ hdr' = MergePrev(MergeNext(hdr, x), x) /\ hdr[x].used
      /\ held' = [b \in DOMAIN held \ {x + Hdr} |-> held[b]]
      /\ avail' = avail + Hdr + hdr[x].size
  BY DEF Free
<1>4. ListOK(hdr') /\ CoalescedBut(hdr', {}) /\ HeldIn(hdr', held')
  BY <1>2, <1>3, FreeOK DEF HInv
<1>5. avail' \in Nat
  BY <1>2, <1>3, SizeFacts DEF HInv, TypeOK, ListOK
<1>6. \A a \in DOMAIN held' : a \in Nat /\ held'[a] \in Nat
  BY <1>3 DEF HInv, TypeOK
<1>7. \A a \in DOMAIN hdr' : a \in Nat /\ hdr'[a] \in Chunk
  BY <1>4 DEF ListOK
<1> QED
  BY <1>1, <1>2, <1>4, <1>5, <1>6, <1>7 DEF HInv, TypeOK

\* Every step of the pool keeps the invariant.
LEMMA NextHInv == HInv /\ [Next]_vars => HInv'
<1> SUFFICES ASSUME HInv, [Next]_vars PROVE HInv'
  OBVIOUS
<1>1. CASE UNCHANGED vars
  BY <1>1 DEF vars, HInv, TypeOK, List
<1>2. ASSUME NEW n \in Requests, Malloc(n) PROVE HInv'
  BY <1>2, MallocHInv
<1>3. ASSUME NEW n \in Requests, MallocFails(n) PROVE HInv'
  BY <1>3, MallocFailsHInv
<1>4. ASSUME NEW a \in DOMAIN hdr, Free(a) PROVE HInv'
  BY <1>4, FreeHInv
<1> QED
  BY <1>1, <1>2, <1>3, <1>4 DEF Next

\* The invariant holds in every reachable state of a pool.
THEOREM HeapInvariant == Spec => []HInv
BY InitHInv, NextHInv, PTL DEF Spec

\* A pool's state is well-typed; in particular avail_size never goes below zero
\* and no chunk is given a negative size.
THEOREM HeapTypeOK == Spec => []TypeOK
<1>1. HInv => TypeOK
  BY DEF HInv
<1> QED BY <1>1, HeapInvariant, PTL

\* Splits and merges keep the chunks a tiling of the pool in the order of the
\* addresses, for every sequence of calls and every size.
THEOREM HeapTiled == Spec => []Tiled
<1>1. HInv => Tiled
  BY DEF HInv, ListOK, Tiled
<1> QED BY <1>1, HeapInvariant, PTL

\* The used chunks are those that a caller holds.
THEOREM HeapHeldUsed == Spec => []HeldUsed
<1>1. HInv => HeldUsed
  BY DEF HInv, HeldIn, HeldUsed
<1> QED BY <1>1, HeapInvariant, PTL

\* No two neighbours on the list are both free.
THEOREM HeapCoalesced == Spec => []Coalesced
<1>1. HInv => Coalesced
  BY DEF HInv, CoalescedBut, Coalesced
<1> QED BY <1>1, HeapInvariant, PTL

-----------------------------------------------------------------------------
(* The count of free bytes *)

\* The bytes of the chunk at a.
Bytes(h, a) == a..(h[a].next - 1)

\* Tiling, chunk by chunk.
LEMMA TilingFacts ==
    ASSUME NEW h, ListOK(h)
    PROVE  /\ \A a \in DOMAIN h : /\ a \in Nat /\ h[a].size \in Nat /\ h[a].next \in Nat
                                  /\ h[a].used \in BOOLEAN
                                  /\ h[a].next = a + Hdr + h[a].size
                                  /\ a < h[a].next /\ h[a].next <= Total
           /\ \A a, b \in DOMAIN h : a < b => h[a].next <= b
<1>1. ASSUME NEW a \in DOMAIN h
      PROVE  /\ a \in Nat /\ h[a].size \in Nat /\ h[a].next \in Nat
             /\ h[a].used \in BOOLEAN
             /\ h[a].next = a + Hdr + h[a].size /\ h[a].next <= Total
  BY DEF ListOK, TiledList, Chunk
<1>2. ASSUME NEW a \in DOMAIN h PROVE a < h[a].next
  BY <1>1, SizeFacts
<1> QED
  BY <1>1, <1>2 DEF ListOK, TiledList

\* The free bytes are those of the free chunks, and each is in one chunk only.
LEMMA FreeBytesOf ==
    ASSUME NEW h, ListOK(h)
    PROVE  /\ FreeBytes(h) = UNION {Bytes(h, a) : a \in {b \in DOMAIN h : ~h[b].used}}
           /\ \A a, b \in DOMAIN h : a # b => Bytes(h, a) \cap Bytes(h, b) = {}
           /\ FreeBytes(h) \subseteq 0..(Total - 1)
<1>1. /\ \A a \in DOMAIN h : /\ a \in Nat /\ h[a].size \in Nat /\ h[a].next \in Nat
                             /\ h[a].next = a + Hdr + h[a].size
                             /\ a < h[a].next /\ h[a].next <= Total
      /\ \A a, b \in DOMAIN h : a < b => h[a].next <= b
  BY TilingFacts
<1>2. ASSUME NEW a \in DOMAIN h
      PROVE  Bytes(h, a) = a..(a + Hdr + h[a].size - 1) /\ Bytes(h, a) \subseteq 0..(Total - 1)
  BY <1>1, SizeFacts DEF Bytes
<1>3. ASSUME NEW a \in DOMAIN h, NEW b \in DOMAIN h, a # b
      PROVE  Bytes(h, a) \cap Bytes(h, b) = {}
  <2>1. a < b \/ b < a
    BY <1>1, <1>3
  <2> QED BY <1>1, <2>1 DEF Bytes
<1>4. FreeBytes(h) = UNION {Bytes(h, a) : a \in {b \in DOMAIN h : ~h[b].used}}
  BY <1>2 DEF FreeBytes
<1> QED
  BY <1>2, <1>3, <1>4

\* An interval of bytes is counted by its ends.
LEMMA BytesCounted ==
    ASSUME NEW a \in Nat, NEW b \in Nat, a <= b
    PROVE  IsFiniteSet(a..(b - 1)) /\ Cardinality(a..(b - 1)) = b - a
<1>1. CASE a = b
  <2>1. a..(b - 1) = {}
    BY <1>1
  <2> QED BY <1>1, <2>1, FS_EmptySet
<1>2. CASE a < b
  BY <1>2, FS_Interval
<1> QED BY <1>1, <1>2

\* Adding bytes to the free ones, and taking them away.
LEMMA BytesMoved ==
    ASSUME NEW F, NEW E, F \subseteq 0..(Total - 1), E \subseteq 0..(Total - 1), F \cap E = {}
    PROVE  Cardinality(F \cup E) = Cardinality(F) + Cardinality(E)
           /\ Cardinality(F) \in Nat /\ Cardinality(E) \in Nat
<1>1. IsFiniteSet(0..(Total - 1))
  BY SizeFacts, BytesCounted
<1>2. IsFiniteSet(F) /\ IsFiniteSet(E)
  BY <1>1, FS_Subset
<1>3. Cardinality(F \cup E) = Cardinality(F) + Cardinality(E) - Cardinality(F \cap E)
  BY <1>2, FS_Union
<1>4. Cardinality(F) \in Nat /\ Cardinality(E) \in Nat
  BY <1>2, FS_CardinalityType
<1>5. Cardinality(F \cap E) = 0
  BY FS_EmptySet
<1> QED
  BY <1>3, <1>4, <1>5

\* Splitting takes the new chunk's bytes, which were free.
LEMMA SplitBytes ==
    ASSUME NEW h, ListOK(h), NEW x \in DOMAIN h, NEW n \in Nat, Fits(h, x, n)
    PROVE  LET E == x..((x + ReqSize(n)) - 1)
               F == FreeBytes(Split(h, x, n))
           IN  F \cup E = FreeBytes(h) /\ F \cap E = {} /\ E \subseteq 0..(Total - 1)
<1> DEFINE y == x + ReqSize(n)
           m == Split(h, x, n)
<1>1. /\ \A a \in DOMAIN h : /\ a \in Nat /\ h[a].size \in Nat /\ h[a].next \in Nat
                             /\ h[a].used \in BOOLEAN
                             /\ h[a].next = a + Hdr + h[a].size
                             /\ a < h[a].next /\ h[a].next <= Total
      /\ \A a, b \in DOMAIN h : a < b => h[a].next <= b
  BY TilingFacts
<1>2. ReqSize(n) \in Nat /\ Hdr <= ReqSize(n) /\ ReqSize(n) <= h[x].size /\ ~h[x].used
  BY <1>1, ReqFacts, SizeFacts DEF Fits
<1>3. y \in Nat /\ x < y /\ y < h[x].next /\ y \notin DOMAIN h
  <2>1. y \in Nat /\ x < y /\ y < h[x].next
    BY <1>1, <1>2, SizeFacts
  <2> QED BY <1>1, <2>1
<1>4. ListOK(m)
  BY SplitOK
<1>5. /\ DOMAIN m = DOMAIN h \cup {y}
      /\ m[x] = [size |-> Aligned(n), used |-> TRUE, next |-> y]
      /\ m[y] = [size |-> h[x].size - ReqSize(n), used |-> FALSE, next |-> h[x].next]
      /\ \A b \in DOMAIN h : b # x => m[b] = h[b]
  BY <1>3 DEF Split
<1>6. m[x].used /\ ~m[y].used /\ m[x].next = y /\ m[y].next = h[x].next
  BY <1>5
<1>7. /\ FreeBytes(m) = UNION {Bytes(m, a) : a \in {b \in DOMAIN m : ~m[b].used}}
      /\ \A a, b \in DOMAIN m : a # b => Bytes(m, a) \cap Bytes(m, b) = {}
  BY <1>4, FreeBytesOf
<1>8. FreeBytes(h) = UNION {Bytes(h, a) : a \in {b \in DOMAIN h : ~h[b].used}}
      /\ Bytes(h, x) \subseteq 0..(Total - 1)
  <2>1. FreeBytes(h) = UNION {Bytes(h, a) : a \in {b \in DOMAIN h : ~h[b].used}}
    BY FreeBytesOf
  <2>2. Bytes(h, x) \subseteq 0..(Total - 1)
    BY <1>1, SizeFacts DEF Bytes
  <2> QED BY <2>1, <2>2
<1> HIDE DEF m, y
<1>9. /\ Bytes(h, x) = Bytes(m, x) \cup Bytes(m, y)
      /\ \A b \in DOMAIN h : b # x => Bytes(m, b) = Bytes(h, b)
      /\ Bytes(m, x) = x..(y - 1)
  BY <1>1, <1>3, <1>5, <1>6 DEF Bytes
<1>10. {b \in DOMAIN m : ~m[b].used} = ({b \in DOMAIN h : ~h[b].used} \ {x}) \cup {y}
  BY <1>2, <1>3, <1>5, <1>6
<1>11. FreeBytes(m) \cup Bytes(m, x) = FreeBytes(h)
  BY <1>2, <1>3, <1>7, <1>8, <1>9, <1>10
<1>12. FreeBytes(m) \cap Bytes(m, x) = {}
  BY <1>6, <1>5, <1>7
<1>13. /\ FreeBytes(m) \cup (x..(y - 1)) = FreeBytes(h)
       /\ FreeBytes(m) \cap (x..(y - 1)) = {} /\ x..(y - 1) \subseteq 0..(Total - 1)
  BY <1>8, <1>9, <1>11, <1>12
<1> QED
  BY <1>13, Zenon DEF m, y

\* A used chunk that swallows a free one takes its bytes.
LEMMA MergeNextBytes ==
    ASSUME NEW h, ListOK(h), NEW x \in DOMAIN h, h[x].used
    PROVE  LET g == MergeNext(h, x)
           IN  FreeBytes(g) \cup Bytes(g, x) = FreeBytes(h) \cup Bytes(h, x)
<1> DEFINE y == h[x].next
           g == MergeNext(h, x)
<1>1. CASE y # HeadNode /\ ~h[y].used
  <2>1. h[x].next \in DOMAIN h
    BY <1>1 DEF ListOK, TiledList
  <2>2. g = Merge(h, x)
    BY <1>1 DEF MergeNext
  <2> DEFINE m == Merge(h, x)
  <2>f. /\ DOMAIN m = DOMAIN h \ {y} /\ x \in DOMAIN m /\ x < y
        /\ m[x] \in Chunk /\ m[x].size = h[x].size + Hdr + h[y].size
        /\ m[x].used = h[x].used /\ m[x].next = h[y].next
        /\ \A b \in DOMAIN m : b # x => m[b] = h[b] /\ h[b].next # y
        /\ y < h[y].next
    BY <2>1, MergeFields, Zenon
  <2>3. /\ DOMAIN m = DOMAIN h \ {y} /\ x \in DOMAIN m /\ x < y
        /\ m[x].used = h[x].used /\ m[x].next = h[y].next
        /\ \A b \in DOMAIN m : b # x => m[b] = h[b]
        /\ y < h[y].next
    BY <2>f, Zenon
  <2>4. ListOK(m)
    BY <2>1, MergeOK
  <2>5. FreeBytes(m) = UNION {Bytes(m, a) : a \in {b \in DOMAIN m : ~m[b].used}}
    BY <2>4, FreeBytesOf
  <2>6. FreeBytes(h) = UNION {Bytes(h, a) : a \in {b \in DOMAIN h : ~h[b].used}}
    BY FreeBytesOf
  <2>7. x \in Nat /\ y \in Nat /\ h[y].next \in Nat
    BY <2>1, TilingFacts
  <2>8. y \in DOMAIN h /\ h[x].next = y
    BY <2>1
  <2> HIDE DEF m, y
  <2>9. /\ Bytes(m, x) = Bytes(h, x) \cup Bytes(h, y)
        /\ \A b \in DOMAIN m : b # x => Bytes(m, b) = Bytes(h, b)
    BY <2>3, <2>7, <2>8 DEF Bytes
  <2>10. {b \in DOMAIN m : ~m[b].used} = {b \in DOMAIN h : ~h[b].used} \ {y}
    BY <2>3
  <2>11. FreeBytes(m) \cup Bytes(m, x) = FreeBytes(h) \cup Bytes(h, x)
    BY <1>1, <2>3, <2>5, <2>6, <2>8, <2>9, <2>10
  <2> QED
    BY <2>2, <2>11 DEF m
<1>2. CASE ~(y # HeadNode /\ ~h[y].used)
  BY <1>2 DEF MergeNext
<1> QED
  BY <1>1, <1>2

\* The chunk's bytes become free, alone or as part of the chunk before.
LEMMA MergePrevBytes ==
    ASSUME NEW g, ListOK(g), NEW x \in DOMAIN g, g[x].used
    PROVE  FreeBytes(MergePrev(g, x)) = FreeBytes(g) \cup Bytes(g, x)
<1>g. FreeBytes(g) = UNION {Bytes(g, a) : a \in {b \in DOMAIN g : ~g[b].used}}
  BY FreeBytesOf
<1>1. CASE FreePrev(g, x) = {}
  <2> DEFINE u == Unused(g, x)
  <2>1. MergePrev(g, x) = u
    BY <1>1 DEF MergePrev
  <2>2. /\ ListOK(u) /\ DOMAIN u = DOMAIN g /\ ~u[x].used
        /\ \A a \in DOMAIN g : u[a].next = g[a].next
        /\ \A a \in DOMAIN g : a # x => u[a] = g[a]
    BY UnusedOK
  <2>3. FreeBytes(u) = UNION {Bytes(u, a) : a \in {b \in DOMAIN u : ~u[b].used}}
    BY <2>2, FreeBytesOf
  <2> HIDE DEF u
  <2>4. \A a \in DOMAIN g : Bytes(u, a) = Bytes(g, a)
    BY <2>2 DEF Bytes
  <2>5. {b \in DOMAIN u : ~u[b].used} = {b \in DOMAIN g : ~g[b].used} \cup {x}
    BY <2>2
  <2>6. FreeBytes(u) = FreeBytes(g) \cup Bytes(g, x)
    BY <1>g, <2>3, <2>4, <2>5
  <2> QED BY <2>1, <2>6
<1>2. CASE FreePrev(g, x) # {}
  <2>1. PICK p \in FreePrev(g, x) : MergePrev(g, x) = Merge(g, p)
    BY <1>2 DEF MergePrev
  <2>2. p \in DOMAIN g /\ g[p].next = x /\ ~g[p].used /\ g[p].next \in DOMAIN g
    BY <2>1 DEF FreePrev
  <2> DEFINE u == Merge(g, p)
  <2>3. /\ DOMAIN u = DOMAIN g \ {x} /\ p \in DOMAIN u /\ p < x
        /\ u[p].used = g[p].used /\ u[p].next = g[x].next
        /\ \A b \in DOMAIN u : b # p => u[b] = g[b]
        /\ x < g[x].next
    BY <2>2, MergeFields
  <2>4. ListOK(u)
    BY <2>2, MergeOK
  <2>5. FreeBytes(u) = UNION {Bytes(u, a) : a \in {b \in DOMAIN u : ~u[b].used}}
    BY <2>4, FreeBytesOf
  <2>6. p \in Nat /\ x \in Nat /\ g[x].next \in Nat
    BY <2>2, TilingFacts
  <2> HIDE DEF u
  <2>7. /\ Bytes(u, p) = Bytes(g, p) \cup Bytes(g, x)
        /\ \A b \in DOMAIN u : b # p => Bytes(u, b) = Bytes(g, b)
    BY <2>2, <2>3, <2>6 DEF Bytes
  <2>8. {b \in DOMAIN u : ~u[b].used} = {b \in DOMAIN g : ~g[b].used}
    BY <2>2, <2>3
  <2>9. FreeBytes(u) = FreeBytes(g) \cup Bytes(g, x)
    BY <1>g, <2>2, <2>3, <2>5, <2>7, <2>8
  <2> QED BY <2>1, <2>9 DEF u
<1> QED BY <1>1, <1>2

\* What heap_free counts is what becomes free, whichever neighbours it merges.
LEMMA FreeFreesBytes ==
    ASSUME NEW h, ListOK(h), CoalescedBut(h, {}), NEW x \in DOMAIN h, h[x].used
    PROVE  /\ FreeBytes(MergePrev(MergeNext(h, x), x)) = FreeBytes(h) \cup Bytes(h, x)
           /\ FreeBytes(h) \cap Bytes(h, x) = {} /\ Bytes(h, x) \subseteq 0..(Total - 1)
<1> DEFINE g == MergeNext(h, x)
<1>1. ListOK(g) /\ x \in DOMAIN g /\ g[x].used
  BY MergeNextOK
<1>2. FreeBytes(g) \cup Bytes(g, x) = FreeBytes(h) \cup Bytes(h, x)
  BY MergeNextBytes
<1> HIDE DEF g
<1>3. FreeBytes(MergePrev(g, x)) = FreeBytes(g) \cup Bytes(g, x)
  BY <1>1, MergePrevBytes
<1>4. FreeBytes(h) \cap Bytes(h, x) = {}
  <2>1. /\ FreeBytes(h) = UNION {Bytes(h, a) : a \in {b \in DOMAIN h : ~h[b].used}}
        /\ \A a, b \in DOMAIN h : a # b => Bytes(h, a) \cap Bytes(h, b) = {}
    BY FreeBytesOf
  <2> QED BY <2>1
<1>5. Bytes(h, x) \subseteq 0..(Total - 1)
  BY TilingFacts, SizeFacts DEF Bytes
<1> QED
  BY <1>2, <1>3, <1>4, <1>5 DEF g

\* One step keeps the count exact.
LEMMA NextAvailExact == HInv /\ AvailExact /\ [Next]_vars => AvailExact'
<1> SUFFICES ASSUME HInv, AvailExact, [Next]_vars PROVE AvailExact'
  OBVIOUS
<1>0. ListOK(List) /\ CoalescedBut(List, {}) /\ avail = Cardinality(FreeBytes(List))
  BY DEF HInv, AvailExact
<1>1. CASE UNCHANGED vars
  BY <1>0, <1>1 DEF vars, List, AvailExact
<1>2. ASSUME NEW n \in Requests, Malloc(n) PROVE AvailExact'
  <2>n. n \in Nat
    BY HeapAssumption
  <2>1. PICK x \in DOMAIN List : Fits(List, x, n) /\ hdr' = Split(List, x, n)
    BY <1>2 DEF Malloc, FirstFit
  <2>2. List' = hdr' /\ avail' = avail - ReqSize(n)
    BY <1>2 DEF Malloc, List
  <2> DEFINE E == x..((x + ReqSize(n)) - 1)
             F == FreeBytes(Split(List, x, n))
  <2>3. F \cup E = FreeBytes(List) /\ F \cap E = {} /\ E \subseteq 0..(Total - 1)
    BY <1>0, <2>n, <2>1, SplitBytes
  <2>4. F \subseteq 0..(Total - 1)
    <3>1. FreeBytes(List) \subseteq 0..(Total - 1)
      BY <1>0, FreeBytesOf
    <3> QED BY <2>3, <3>1
  <2>5. Cardinality(E) = ReqSize(n) /\ ReqSize(n) \in Nat
    <3>1. x \in Nat /\ ReqSize(n) \in Nat
      BY <1>0, <2>1, <2>n, TilingFacts, ReqFacts
    <3>2. PICK y \in Nat : y = x + ReqSize(n)
      BY <3>1
    <3>3. Cardinality(x..(y - 1)) = y - x
      <4>1. x <= y
        BY <3>1, <3>2
      <4> QED BY ONLY <3>1, <4>1, BytesCounted
    <3> QED BY <3>1, <3>2, <3>3
  <2> HIDE DEF E, F
  <2>6. Cardinality(F \cup E) = Cardinality(F) + Cardinality(E) /\ Cardinality(F) \in Nat
    BY <2>3, <2>4, BytesMoved
  <2>7. avail' = Cardinality(F)
    <3>1. avail = Cardinality(F \cup E)
      BY <1>0, <2>3
    <3> QED BY <2>2, <2>5, <2>6, <3>1
  <2>8. F = FreeBytes(List')
    BY <2>1, <2>2 DEF F
  <2> QED BY <2>7, <2>8 DEF AvailExact, FreeBytes
<1>3. ASSUME NEW n \in Requests, MallocFails(n) PROVE AvailExact'
  <2>1. List' = List /\ avail' = avail
    BY <1>3 DEF MallocFails, List
  <2> QED BY <1>0, <2>1 DEF AvailExact, FreeBytes
<1>4. ASSUME NEW x \in DOMAIN hdr, Free(x) PROVE AvailExact'
  <2>1. init /\ init' = init
    BY <1>4 DEF HInv, Free
  <2>2. List = hdr /\ List' = hdr'
    BY <2>1 DEF List
  <2>3. /\ hdr' = MergePrev(MergeNext(hdr, x), x) /\ hdr[x].used
        /\ avail' = avail + Hdr + hdr[x].size
    BY <1>4 DEF Free
  <2> DEFINE E == Bytes(hdr, x)
             F == FreeBytes(hdr)
  <2>4. FreeBytes(hdr') = F \cup E /\ F \cap E = {} /\ E \subseteq 0..(Total - 1)
    BY <1>0, <2>2, <2>3, FreeFreesBytes
  <2>5. F \subseteq 0..(Total - 1)
    BY <1>0, <2>2, FreeBytesOf DEF F
  <2>6. Cardinality(E) = Hdr + hdr[x].size /\ Hdr \in Nat /\ hdr[x].size \in Nat
    <3>1. /\ x \in Nat /\ hdr[x].next \in Nat /\ x <= hdr[x].next /\ hdr[x].size \in Nat
          /\ hdr[x].next = x + Hdr + hdr[x].size
      BY <1>0, <2>2, TilingFacts
    <3>2. Cardinality(E) = hdr[x].next - x
      BY <3>1, BytesCounted DEF Bytes
    <3> QED BY <3>1, <3>2, SizeFacts
  <2> HIDE DEF E, F
  <2>7. Cardinality(F \cup E) = Cardinality(F) + Cardinality(E) /\ Cardinality(F) \in Nat
    BY <2>4, <2>5, BytesMoved
  <2>8. avail = Cardinality(F)
    BY <1>0, <2>2 DEF F
  <2>9. avail' = Cardinality(F \cup E)
    BY <2>3, <2>6, <2>7, <2>8
  <2> QED BY <2>2, <2>4, <2>9 DEF AvailExact, FreeBytes
<1> QED
  BY <1>1, <1>2, <1>3, <1>4 DEF Next

\* avail_size is exact: the count that heap_malloc checks before it searches is
\* the number of bytes in free chunks, through any splits and merges.
THEOREM HeapAvailExact == Spec => []AvailExact
<1>1. Init => AvailExact
  <2> SUFFICES ASSUME Init PROVE AvailExact
    OBVIOUS
  <2>1. List = Whole /\ avail = Total
    BY DEF Init, List
  <2>2. /\ DOMAIN Whole = {0} /\ ~Whole[0].used /\ Whole[0].size = Total - Hdr
    BY DEF Whole
  <2>3. FreeBytes(Whole) = 0..(Total - 1)
    <3>1. 0 + Hdr + Whole[0].size - 1 = Total - 1
      BY <2>2, SizeFacts
    <3>2. {b \in DOMAIN Whole : ~Whole[b].used} = {0}
      BY <2>2
    <3> QED BY <3>1, <3>2 DEF FreeBytes
  <2>4. Cardinality(0..(Total - 1)) = Total
    <3>1. Cardinality(0..(Total - 1)) = Total - 0
      BY SizeFacts, BytesCounted
    <3> QED BY <3>1, SizeFacts
  <2> QED BY <2>1, <2>3, <2>4 DEF AvailExact
<1> QED
  BY <1>1, NextAvailExact, HeapInvariant, PTL DEF Spec

-----------------------------------------------------------------------------
(* The refinement *)

\* What heap_malloc returns is a range that Allocator may grant.
LEMMA MallocGrants ==
    ASSUME HInv, NEW n \in Requests, Malloc(n)
    PROVE  Abstract!Next
<1> n \in Nat
  BY HeapAssumption
<1>1. PICK x \in DOMAIN List :
        /\ Fits(List, x, n)
        /\ held' = [b \in DOMAIN held \cup {x + Hdr} |-> IF b = x + Hdr THEN n ELSE held[b]]
  BY DEF Malloc, FirstFit
<1> DEFINE h == List
<1>2. ListOK(h) /\ HeldIn(h, held)
  BY DEF HInv
<1> HIDE DEF h
<1>3. /\ x \in DOMAIN h /\ x \in Nat /\ h[x].size \in Nat /\ h[x].next \in Nat
      /\ h[x].next = x + Hdr + h[x].size /\ h[x].next <= Total
  BY <1>1, <1>2 DEF ListOK, TiledList, h
<1>4. ~h[x].used /\ h[x].size >= ReqSize(n) /\ ReqSize(n) \in Nat /\ Hdr + n <= ReqSize(n)
  BY <1>1, ReqFacts DEF Fits, h
<1>5. x + Hdr \in 0 .. Total /\ x + Hdr + n <= Total
  BY <1>3, <1>4, SizeFacts
<1>6. (x + Hdr) % HEAP_ALIGN = 0
  <2>1. OnBoundary(x) /\ OnBoundary(Hdr)
    BY <1>2, <1>3, HeapAssumption DEF ListOK, OnBoundary
  <2> QED BY <1>3, <2>1, SizeFacts, AlignedSum DEF OnBoundary
<1>7. ASSUME NEW b \in DOMAIN held PROVE Abstract!Apart(x + Hdr, n, b, held[b])
  <2>1. PICK y \in DOMAIN h : b = y + Hdr /\ h[y].used
    BY <1>2 DEF HeldIn
  <2>2. /\ held[b] <= h[y].size /\ held[b] \in Nat /\ y \in Nat /\ h[y].size \in Nat
        /\ h[y].next = y + Hdr + h[y].size /\ y # x
    BY <1>2, <1>4, <2>1 DEF HeldIn, ListOK, TiledList, HInv, TypeOK
  <2>3. (x < y => h[x].next <= y) /\ (y < x => h[y].next <= x)
    BY <1>2, <1>3, <2>1 DEF ListOK, TiledList
  <2> QED
    BY <1>3, <1>4, <2>1, <2>2, <2>3, SizeFacts DEF Abstract!Apart
<1>8. x + Hdr \notin DOMAIN held
  BY <1>7 DEF Abstract!Apart
<1>9. Abstract!Grant(x + Hdr, n)
  BY <1>1, <1>5, <1>6, <1>7, <1>8 DEF Abstract!Grant
<1>10. x + Hdr \in DOMAIN held'
  BY <1>1
<1> QED
  BY <1>8, <1>9, <1>10 DEF Abstract!Next

\* A pool implements Allocator: whatever a caller gets is in the pool, aligned
\* and apart from what every other caller holds.
THEOREM HeapRefinesAllocator == Spec => RefinesAllocator
<1>1. Init => Abstract!Init
  BY DEF Init, Abstract!Init
<1>2. ASSUME HInv, [Next]_vars PROVE [Abstract!Next]_held
  <2>1. CASE UNCHANGED vars
    BY <2>1 DEF vars
  <2>2. ASSUME NEW n \in Requests, Malloc(n) PROVE Abstract!Next
    BY <1>2, <2>2, MallocGrants
  <2>3. ASSUME NEW n \in Requests, MallocFails(n) PROVE UNCHANGED held
    BY <2>3 DEF MallocFails
  <2>4. ASSUME NEW a \in DOMAIN hdr, Free(a) PROVE Abstract!Next
    BY <2>4 DEF Free, Abstract!Next, Abstract!GiveBack
  <2> QED
    BY <1>2, <2>1, <2>2, <2>3, <2>4 DEF Next
<1> QED
  BY <1>1, <1>2, HeapInvariant, PTL DEF Spec, RefinesAllocator, Abstract!Spec
=============================================================================
