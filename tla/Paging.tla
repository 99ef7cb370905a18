------------------------------- MODULE Paging -------------------------------
(***************************************************************************)
(* Physical pages and page tables: the bitmap allocator (kernel/mm/pmm.c)  *)
(* and the two-level tables with their pool (arch/i386/paging.c).          *)
(*                                                                         *)
(* An operator on the machine takes a record m and returns the record      *)
(* after the call; m.ok says whether the last call succeeded and m.out     *)
(* holds its result.  Other modules add fields of their own to m.          *)
(*   used, free   the bitmap and free_blocks                               *)
(*   pool         the slots of the paging pool that are in use             *)
(*   ent          the entries that are present, by frame and index         *)
(* A directory is a frame whose entries lead to tables, or straight to a   *)
(* run of PerTable frames (a 4 MB page, big).  Every mapping the kernel    *)
(* makes is writable, so that an entry is its frame and its user bit.      *)
(***************************************************************************)
EXTENDS Naturals, Sequences, FiniteSets, FiniteSetsExt

CONSTANTS
    PageSize,       \* PAGE_SIZE
    PerTable,       \* entries in a table; a directory has enough for all of Word
    TotalBlocks,    \* pages of memory
    KernelDir,      \* the frame of the master directory, in the kernel image
    PoolFrames,     \* the frames of the paging pool
    FirstFree,      \* the first frame behind the bitmap
    HeapBase, HeapEnd,  \* USER_HEAP_BASE and _END
    SpaceTop        \* USER_SPACE_TOP

ASSUME PagingAssumption ==
    /\ PageSize \in Nat \ {0} /\ PerTable \in Nat \ {0}
    /\ TotalBlocks \in Nat /\ FirstFree \in 1 .. TotalBlocks
    /\ PoolFrames \subseteq 1 .. FirstFree - 1
    /\ KernelDir \in (1 .. FirstFree - 1) \ PoolFrames
    /\ {HeapBase, HeapEnd, SpaceTop} \subseteq Nat
    /\ TotalBlocks * PageSize <= HeapBase /\ HeapBase < HeapEnd /\ HeapEnd <= SpaceTop
    /\ \A a \in {HeapBase, HeapEnd, SpaceTop} : a % (PageSize * PerTable) = 0
    /\ Cardinality(PoolFrames) >= (HeapEnd - HeapBase) \div (PageSize * PerTable)

Blocks == 0 .. TotalBlocks - 1
PageOf(a) == a \div PageSize
PD_INDEX(a) == a \div (PageSize * PerTable)
PT_INDEX(a) == (a \div PageSize) % PerTable

PTE_USER_PAGE == {"PRESENT", "RW", "USER"}

Failed(m) == [m EXCEPT !.ok = FALSE, !.out = 0]
Returns(m, x) == [m EXCEPT !.ok = TRUE, !.out = x]

\* The next step of a call, if the one before it succeeded.
Then(m, Step(_)) == IF m.ok THEN Step(m) ELSE m

\* A loop of n rounds from base on.
Loop(Step(_, _), base, n) ==
    LET f[i \in 0 .. n] == IF i = 0 THEN base ELSE Step(f[i - 1], i)
    IN  f[n]

\* What a call takes back when its last step failed.
OrUndo(m, Undo(_)) == IF m.ok THEN m ELSE Failed(Undo(m))

-----------------------------------------------------------------------------
(* pmm.c *)

\* The first free run of n pages; out is its address.
pmm_alloc_pages(m, n) ==
    LET starts == {b \in Blocks : \A i \in b .. b + n - 1 : i \in Blocks \ m.used}
        Taken(b) == [m EXCEPT !.used = @ \cup b .. b + n - 1, !.free = @ - n,
                              !.ok = TRUE, !.out = b * PageSize]
    IN  IF n = 0 \/ starts = {} THEN Failed(m) ELSE Taken(Min(starts))

\* Pages that are free already are passed over.
pmm_free_pages(m, pa, n) ==
    LET back == m.used \cap PageOf(pa) .. PageOf(pa) + n - 1 IN
    [m EXCEPT !.used = @ \ back, !.free = @ + Cardinality(back)]

\* A page of memory the kernel keeps to itself, as pmm_mark_used takes it.
pmm_mark_used(m, b) ==
    IF b \in m.used THEN m ELSE [m EXCEPT !.used = @ \cup {b}, !.free = @ - 1]

-----------------------------------------------------------------------------
(* paging.c *)

Entry(frame, user, big) == [frame |-> frame, user |-> user, big |-> big]

NoEntries == [i \in {} |-> 0]

Present(m, f, i) == i \in DOMAIN m.ent[f]

SetEntry(m, f, i, e) ==
    [m EXCEPT !.ent[f] = [j \in DOMAIN @ \cup {i} |-> IF j = i THEN e ELSE @[j]]]

ClearEntry(m, f, i) ==
    [m EXCEPT !.ent[f] = [j \in DOMAIN @ \ {i} |-> @[j]]]

\* The first free slot, cleared.
arch_paging_pool_alloc(m) ==
    LET Taken(f) == [m EXCEPT !.pool = @ \cup {f}, !.ent[f] = NoEntries,
                              !.ok = TRUE, !.out = f]
    IN  IF PoolFrames \subseteq m.pool THEN Failed(m) ELSE Taken(Min(PoolFrames \ m.pool))

\* Frames outside the pool are ignored.  What a slot held is forgotten here: it
\* is out of reach until the slot is allocated, which clears it.
PoolFree(m, fs) ==
    [m EXCEPT !.pool = @ \ fs,
              !.ent = [f \in DOMAIN @ |-> IF f \in fs \cap PoolFrames THEN NoEntries ELSE @[f]]]

arch_paging_pool_free(m, f) == PoolFree(m, {f})

\* A 4 MB page becomes a table of pages with its permissions; the directory
\* entry is opened to the user if the new page is.
split_4mb_pde(m, dir, i, user) ==
    LET e == m.ent[dir][i]
        Small == [j \in 0 .. PerTable - 1 |-> Entry(e.frame + j, e.user, FALSE)]
    IN  Then(arch_paging_pool_alloc(m), LAMBDA a :
            SetEntry([a EXCEPT !.ent[a.out] = Small],
                     dir, i, Entry(a.out, e.user \/ user, FALSE)))

\* A table for the entry i of a directory, if there is none.
WithTable(m, dir, i, user) ==
    IF ~Present(m, dir, i)
        THEN Then(arch_paging_pool_alloc(m),
                  LAMBDA a : SetEntry(a, dir, i, Entry(a.out, user, FALSE)))
    ELSE IF m.ent[dir][i].big THEN split_4mb_pde(m, dir, i, user)
    ELSE Returns(m, 0)

arch_map_4kb(m, dir, va, pa, user) ==
    Then(WithTable(m, dir, PD_INDEX(va), user), LAMBDA w :
        SetEntry(w, w.ent[dir][PD_INDEX(va)].frame, PT_INDEX(va),
                 Entry(PageOf(pa), user, FALSE)))

\* Below the user heap the supervisor's identity entry is put back.
arch_unmap_4kb(m, dir, va) ==
    LET t == m.ent[dir][PD_INDEX(va)].frame IN
    IF ~Present(m, dir, PD_INDEX(va)) \/ ~Present(m, t, PT_INDEX(va)) THEN m
    ELSE IF va < HeapBase THEN SetEntry(m, t, PT_INDEX(va), Entry(PageOf(va), FALSE, FALSE))
    ELSE ClearEntry(m, t, PT_INDEX(va))

UnmapPages(m, dir, va, n) ==
    LET Step(x, i) == arch_unmap_4kb(x, dir, va + (i - 1) * PageSize)
    IN  Loop(Step, m, n)

\* Mutant of MapPages: what was mapped before the failure stays.
MapPages_NoRollBack(m, dir, va, pa, n) ==
    LET MapPage(x, i) == arch_map_4kb(x, dir, va + (i - 1) * PageSize,
                                      pa + (i - 1) * PageSize, TRUE)
        Step(x, i) == Then(x, LAMBDA y : MapPage(y, i))
    IN  Loop(Step, Returns(m, va), n)

\* The loop of every caller: map page by page; when one fails, unmap those
\* before it.
MapPages(m, dir, va, pa, n) ==
    LET MapPage(x, i) == arch_map_4kb(x, dir, va + (i - 1) * PageSize,
                                      pa + (i - 1) * PageSize, TRUE)
        Step(x, i) == Then(x, LAMBDA y :
            OrUndo(MapPage(y, i), LAMBDA z : UnmapPages(z, dir, va, i - 1)))
    IN  Loop(Step, Returns(m, va), n)

\* The page that va leads to under dir, and whether the user gets there;
\* {} when nothing is mapped.  This is the MMU's walk.
Translate(m, dir, va) ==
    LET d == m.ent[dir][PD_INDEX(va)]
        e == m.ent[d.frame][PT_INDEX(va)]
    IN  IF ~Present(m, dir, PD_INDEX(va)) THEN {}
        ELSE IF d.big THEN {Entry(d.frame + PT_INDEX(va), d.user, FALSE)}
        ELSE IF ~Present(m, d.frame, PT_INDEX(va)) THEN {}
        ELSE {Entry(e.frame, d.user /\ e.user, FALSE)}

\* The tables of the user space that are not the master's go back to the pool.
arch_destroy_address_space(m, dir) ==
    LET own == {i \in DOMAIN m.ent[dir] :
                    /\ i < PD_INDEX(SpaceTop)
                    /\ ~(Present(m, KernelDir, i)
                         /\ m.ent[KernelDir][i].frame = m.ent[dir][i].frame)}
    IN  [PoolFree(m, {m.ent[dir][i].frame : i \in own})
            EXCEPT !.ent[dir] = [i \in DOMAIN @ \ own |-> @[i]]]

\* The directory of a new process starts as the master's.
arch_clone_kernel_pde(m, dir) == [m EXCEPT !.ent[dir] = m.ent[KernelDir]]

\* All of memory under 4 MB pages of the supervisor; everything behind the
\* bitmap free except the modules of the boot loader; then the user heap,
\* backed and mapped for the user in the master directory.
arch_paging_init(m0, modules) ==
    LET big == 0 .. (TotalBlocks - 1) \div PerTable
        m1  == [m0 EXCEPT !.ent[KernelDir] = [i \in big |-> Entry(i * PerTable, FALSE, TRUE)],
                          !.used = 0 .. FirstFree - 1,
                          !.free = TotalBlocks - FirstFree]
        n   == (HeapEnd - HeapBase) \div PageSize
        Mark(x, i) == pmm_mark_used(x, modules[i])
        MapHeap(m) ==
            LET Step(x, i) == arch_map_4kb(x, KernelDir, HeapBase + (i - 1) * PageSize,
                                           m.out + (i - 1) * PageSize, TRUE)
            IN  Loop(Step, m, n)
    IN  Then(pmm_alloc_pages(Loop(Mark, m1, Len(modules)), n), MapHeap)

=============================================================================
