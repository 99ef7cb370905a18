-------------------------------- MODULE Heap --------------------------------
(***************************************************************************)
(* A heap pool (kernel/mm/heap.c): the kernel's and the user's are two     *)
(* instances of it.  Headers lie in the pool in front of their payloads    *)
(* and are linked in one list; malloc takes the first chunk that is large  *)
(* enough and splits it, free merges with the neighbours on the list.      *)
(*                                                                         *)
(* Addresses are offsets into the pool.  Callers free what they hold, and  *)
(* free it once.                                                           *)
(***************************************************************************)
EXTENDS Naturals, FiniteSets

CONSTANTS
    Total,      \* HEAP_TOTAL_SIZE
    Hdr,        \* HEAP_HDR_SIZE
    Requests    \* the sizes that are asked for

HEAP_ALIGN == 8

ASSUME HeapAssumption ==
    /\ Total \in Nat /\ Hdr \in Nat \ {0} /\ Hdr <= Total
    /\ Hdr % HEAP_ALIGN = 0 /\ Total % HEAP_ALIGN = 0
    /\ Requests \subseteq Nat

VARIABLES
    hdr,        \* the headers on the list, by address
    avail,      \* avail_size
    init,       \* the pool's init flag
    held        \* what the callers hold: the size asked for, by address

vars == <<hdr, avail, init, held>>

\* head_node, which closes the list, is written as the address behind the pool.
HeadNode == Total

Chunk == [size : Nat, used : BOOLEAN, next : Nat]

Init ==
    /\ hdr = [a \in {} |-> 0]
    /\ avail = Total
    /\ init = FALSE
    /\ held = [a \in {} |-> 0]

-----------------------------------------------------------------------------
\* kheap_init: one free chunk
Whole == [a \in {0} |-> [size |-> Total - Hdr, used |-> FALSE, next |-> HeadNode]]

\* The list that heap_malloc searches; the first call sets it up.
List == IF init THEN hdr ELSE Whole

\* Mutant of Aligned: sizes are taken as they are.
Aligned_None(n) == n

\* Rounded up, by clearing the low bits.
Aligned(n) == (n + HEAP_ALIGN - 1) - ((n + HEAP_ALIGN - 1) % HEAP_ALIGN)

ReqSize(n) == Hdr + Aligned(n)

\* Mutant of Fits: a chunk of just the size asked for is taken, without room
\* for the header of the rest.
Fits_NoHeader(h, a, n) == ~h[a].used /\ h[a].size >= Aligned(n)

Fits(h, a, n) == ~h[a].used /\ h[a].size >= ReqSize(n)

\* The first chunk on the list that fits.  The list is in the order of the
\* addresses: that is Tiled.
FirstFit(h, a, n) ==
    /\ a \in DOMAIN h /\ Fits(h, a, n)
    /\ \A b \in DOMAIN h : b < a => ~Fits(h, b, n)

\* The chunk at a becomes a used one of n bytes, and what is left of it a free
\* one behind it.  That one's header is always in the pool, see Fits, so the
\* code's test for that never fails.
Split(h, a, n) ==
    [b \in DOMAIN h \cup {a + ReqSize(n)} |->
        IF b = a
        THEN [size |-> Aligned(n), used |-> TRUE, next |-> a + ReqSize(n)]
        ELSE IF b = a + ReqSize(n)
        THEN [size |-> h[a].size - ReqSize(n), used |-> FALSE, next |-> h[a].next]
        ELSE h[b]]

\* Mutant of Merge: the header that goes is not counted.
Merge_NoHeader(h, a) ==
    [b \in DOMAIN h \ {h[a].next} |->
        IF b = a
        THEN [size |-> h[a].size + h[h[a].next].size,
              used |-> h[a].used, next |-> h[h[a].next].next]
        ELSE h[b]]

\* The chunk at a swallows the next one, which leaves the list.
Merge(h, a) ==
    [b \in DOMAIN h \ {h[a].next} |->
        IF b = a
        THEN [size |-> h[a].size + Hdr + h[h[a].next].size,
              used |-> h[a].used, next |-> h[h[a].next].next]
        ELSE h[b]]

MergeNext(h, a) ==
    IF h[a].next # HeadNode /\ ~h[h[a].next].used THEN Merge(h, a) ELSE h

\* Marks the chunk at a free.
Unused(h, a) ==
    [b \in DOMAIN h |->
        IF b = a THEN [size |-> h[a].size, used |-> FALSE, next |-> h[a].next] ELSE h[b]]

\* list_prev, when it is a free chunk
FreePrev(h, a) == {p \in DOMAIN h : h[p].next = a /\ ~h[p].used}

\* Mutant of MergePrev: the chunk before is not looked at.
MergePrev_None(h, a) == Unused(h, a)

\* With a free chunk before it, the chunk at a goes and that one stays free.
MergePrev(h, a) ==
    IF FreePrev(h, a) = {} THEN Unused(h, a)
    ELSE Merge(h, CHOOSE p \in FreePrev(h, a) : TRUE)

-----------------------------------------------------------------------------
\* heap_malloc
Malloc(n) ==
    /\ n <= Total /\ ReqSize(n) <= avail
    /\ \E a \in DOMAIN List :
        /\ FirstFit(List, a, n)
        /\ hdr' = Split(List, a, n)
        /\ held' = [b \in DOMAIN held \cup {a + Hdr} |-> IF b = a + Hdr THEN n ELSE held[b]]
    /\ avail' = avail - ReqSize(n)
    /\ init' = TRUE

\* The size is refused, or there is no chunk for it; the pool is set up anyway.
MallocFails(n) ==
    /\ \/ n > Total
       \/ ReqSize(n) > avail
       \/ \A a \in DOMAIN List : ~Fits(List, a, n)
    /\ hdr' = List
    /\ init' = TRUE
    /\ UNCHANGED <<avail, held>>

\* Mutant of Free: the freed bytes are counted after the merge.
Free_CountsMerged(a) ==
    /\ a + Hdr \in DOMAIN held
    /\ hdr[a].used
    /\ avail' = avail + Hdr + MergeNext(hdr, a)[a].size
    /\ hdr' = MergePrev(MergeNext(hdr, a), a)
    /\ held' = [b \in DOMAIN held \ {a + Hdr} |-> held[b]]
    /\ UNCHANGED init

\* heap_free of the payload behind the header at a.  A header that is not marked
\* used would be left alone; HeldUsed says that what a caller holds is marked.
Free(a) ==
    /\ a + Hdr \in DOMAIN held
    /\ hdr[a].used
    /\ avail' = avail + Hdr + hdr[a].size
    /\ hdr' = MergePrev(MergeNext(hdr, a), a)
    /\ held' = [b \in DOMAIN held \ {a + Hdr} |-> held[b]]
    /\ UNCHANGED init

Next ==
    \/ \E n \in Requests : Malloc(n) \/ MallocFails(n)
    \/ \E a \in DOMAIN hdr : Free(a)

Spec == Init /\ [][Next]_vars

-----------------------------------------------------------------------------
TypeOK ==
    /\ \A a \in DOMAIN hdr : a \in Nat /\ hdr[a] \in Chunk
    /\ avail \in Nat
    /\ init \in BOOLEAN
    /\ \A a \in DOMAIN held : a \in Nat /\ held[a] \in Nat

\* Each chunk of a list ends where the next one starts, or the pool ends, and
\* no two overlap.
TiledList(h) ==
    /\ 0 \in DOMAIN h
    /\ \A a \in DOMAIN h :
        /\ a + Hdr + h[a].size = h[a].next
        /\ h[a].next \in DOMAIN h \cup {HeadNode}
        /\ h[a].next <= Total
        /\ \A b \in DOMAIN h : a < b => h[a].next <= b

\* However calls of different sizes interleave, splitting and merging keep the
\* list a tiling of the pool in the order of the addresses: no byte is in two
\* chunks and none is lost, so no header is ever written into a payload
\* (heap_malloc, heap_free).
Tiled == TiledList(List)

\* What the callers hold and what the headers say is the same: used chunks are
\* exactly those that somebody holds, with room for what was asked.
HeldUsed ==
    /\ DOMAIN held = {a + Hdr : a \in {b \in DOMAIN List : List[b].used}}
    /\ \A a \in DOMAIN List : List[a].used => held[a + Hdr] <= List[a].size

\* The bytes of the pool that are in a free chunk, its header included.
FreeBytes(h) ==
    UNION {a..(a + Hdr + h[a].size - 1) : a \in {b \in DOMAIN h : ~h[b].used}}

\* "avail_size tracks the total free bytes (header + payload of every free
\* chunk)" (kheap_init, heap_free).
AvailExact == avail = Cardinality(FreeBytes(List))

\* Free space is never in pieces that could be one: two neighbours on the list
\* are not both free.  When everything is freed, the pool is one chunk again.
Coalesced ==
    \A a \in DOMAIN List :
        List[a].used \/ List[a].next = HeadNode \/ List[List[a].next].used

\* A pool is an allocator, see Allocator.
Abstract == INSTANCE Allocator WITH Align <- HEAP_ALIGN

\* Whatever a caller gets is its own: aligned, in the pool, apart from what the
\* others hold, until it is freed.
RefinesAllocator == Abstract!Spec
=============================================================================
