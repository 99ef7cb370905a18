------------------------------- MODULE Memory -------------------------------
(***************************************************************************)
(* The address spaces of the processes: regions and their placement        *)
(* (kernel/mm/vmm.c), shared memory (kernel/ipc/shm.c), device windows     *)
(* (kernel/mmio.c), images (kernel/lib/elf.c), stacks (arch/i386/task.c)   *)
(* and the start and end of a process (kernel/process.c), on top of        *)
(* Paging and Capability.                                                  *)
(*                                                                         *)
(* Every action is one system call, which nothing interrupts; heap is the  *)
(* number of calls of kmalloc that succeed in it.  The region tree is the  *)
(* set of its regions, which it keeps in the order of their addresses      *)
(* (see RBTree).                                                           *)
(***************************************************************************)
EXTENDS Capability, Paging

CONSTANTS
    MaxPid,         \* bound on the pids, which are given out in order
    AnonBase,       \* USER_ANON_BASE
    Images,         \* executables: sequences of [vaddr, memsz, good]
    BootGrants,     \* the lists of capabilities init_thread grants to what it loads
    DevicePages,    \* addresses of the pages of device memory
    AskedPages,     \* the addresses servers ask to map, granted or not
    WindowPages,    \* the addresses at which they ask for them
    Sizes,          \* how much is shared
    HeapRoom,       \* how many calls of kmalloc may succeed in a system call
    Modules,        \* the pages of the boot loader's modules, in order
    MaxThreads,     \* bound on the threads of a process
    MaxCaps,        \* bound on the capabilities of a process that creates others
    MaxRegions,     \* bound on the regions of a process that shares are made into
    ShareToEmpty    \* whether memory is shared with a process that has no region

\* A capability for memory names device memory only.
DeviceOnly(c) ==
    c.type = "MAP_MEM" => \A a \in c.base .. c.base + c.size - 1 :
                            a % PageSize = 0 => a \in DevicePages

ASSUME MemoryAssumption ==
    /\ MaxPid \in Nat
    /\ AnonBase \in HeapEnd .. SpaceTop - 1 /\ AnonBase % PageSize = 0
    /\ Word % (PageSize * PerTable) = 0 /\ SpaceTop < Word
    /\ DevicePages \subseteq {b * PageSize : b \in 0 .. FirstFree - 1}
    /\ AskedPages \subseteq 0 .. FirstFree * PageSize - 1 /\ WindowPages \subseteq 0 .. SpaceTop
    /\ Modules \in Seq(Blocks)
    /\ \A image \in Images : /\ image \in Seq([vaddr : Nat, memsz : Nat, good : BOOLEAN])
                              /\ \A i \in DOMAIN image : image[i].vaddr >= HeapEnd
    /\ \A grants \in BootGrants : /\ grants \in Seq(Capability(PTE_USER_PAGE))
                                   /\ \A i \in DOMAIN grants : DeviceOnly(grants[i])
    /\ HeapRoom \subseteq Nat /\ Sizes \subseteq Nat
    /\ MaxThreads \in Nat /\ MaxCaps \in Nat /\ MaxRegions \in Nat /\ ShareToEmpty \in BOOLEAN

VARIABLES
    used, free,     \* the bitmap of the physical pages and free_blocks
    pool, ent,      \* the pool of paging structures and what they hold
    proc            \* the processes

vars == <<used, free, pool, ent, proc>>

Proc == 0 .. MaxPid
InitProc == 0       \* the process of init_thread

Region == [start : 0 .. Word, size : 0 .. Word, pa : 0 .. Word, own : BOOLEAN]

\* A pid is free, then live, then dead.
NoProcess == [st |-> "free", priv |-> "user", cr3 |-> 0, regs |-> {}, caps |-> {}, stacks |-> {}]

\* The machine at the start of a call in which kmalloc succeeds n times.
Machine(n) == [used |-> used, free |-> free, pool |-> pool, ent |-> ent, proc |-> proc,
               heap |-> n, ok |-> TRUE, out |-> 0]

Becomes(m) ==
    /\ used' = m.used /\ free' = m.free /\ pool' = m.pool /\ ent' = m.ent
    /\ proc' = m.proc

kmalloc(m) == [m EXCEPT !.ok = m.heap > 0, !.heap = IF @ > 0 THEN @ - 1 ELSE @]

Live(m, p) == m.proc[p].st = "live"
Regions(m, p) == m.proc[p].regs
End(r) == r.start + r.size
Covers(r, va) == r.start <= va /\ va < End(r)
Pages(size) == size \div PageSize
AlignDown(a) == a - (a % PageSize)
AlignUp(a) == AlignDown(a + PageSize - 1)

AddRegion(m, p, r) == [m EXCEPT !.proc[p].regs = @ \cup {r}]
DropRegion(m, p, r) == [m EXCEPT !.proc[p].regs = @ \ {r}]

-----------------------------------------------------------------------------
(* vmm.c *)

\* Where a region of this size goes: behind the first region, in the order of
\* addresses, with room in front of the next one, otherwise behind the last;
\* at empty when there is no region; Word when the address space ends first.
FindVa(regs, size, empty) ==
    LET After(r) == {q \in regs : q.start > r.start}
        Over(r)  == End(r) >= Word \/ size > Word - 1 - End(r)
        Fits(r)  == \A q \in After(r) : End(r) + size <= q.start
        stops    == {r \in regs : Over(r) \/ Fits(r)}
        first    == CHOOSE r \in stops : \A q \in stops : r.start <= q.start
    IN  IF regs = {} THEN empty ELSE IF Over(first) THEN Word ELSE End(first)

\* A region at its address, with its mappings; the region goes again when there
\* is no table for them.
NewRegion(m, p, r) ==
    Then(kmalloc(m), LAMBDA h :
        IF r.start = Word THEN Failed(h)
        ELSE Then(OrUndo(MapPages(AddRegion(h, p, r), m.proc[p].cr3,
                                  r.start, r.pa, Pages(r.size)),
                         LAMBDA x : DropRegion(x, p, r)),
                  LAMBDA x : Returns(x, r.start)))

\* Mutant of vmm_alloc_pages: the pages are not given back when mapping fails.
vmm_alloc_pages_LeaksPages(m, p, n) ==
    LET va == FindVa(Regions(m, p), n * PageSize, AnonBase)
    IN  Then(pmm_alloc_pages(m, n), LAMBDA a :
            NewRegion(a, p, [start |-> va, size |-> n * PageSize, pa |-> a.out, own |-> TRUE]))

\* Pages for the user at an address of the kernel's choice, rolled back when
\* there is no bookkeeping, no address or no table for them.
vmm_alloc_pages(m, p, n) ==
    LET va == FindVa(Regions(m, p), n * PageSize, AnonBase)
    IN  Then(pmm_alloc_pages(m, n), LAMBDA a :
            OrUndo(NewRegion(a, p, [start |-> va, size |-> n * PageSize,
                                    pa |-> a.out, own |-> TRUE]),
                   LAMBDA x : pmm_free_pages(x, a.out, n)))

\* A region goes with its mappings, and with its pages when it owns them.
RemoveRegion(m, p, r) ==
    LET x == UnmapPages(DropRegion(m, p, r), m.proc[p].cr3, r.start, Pages(r.size))
    IN  IF r.own THEN pmm_free_pages(x, r.pa, Pages(r.size)) ELSE x

\* Frees the owned region around va, if there is one.
vmm_free_pages(m, p, va) ==
    LET hit == {r \in Regions(m, p) : r.own /\ Covers(r, va)} IN
    IF hit = {} THEN m
    ELSE RemoveRegion(m, p, CHOOSE r \in hit : \A q \in hit : r.start <= q.start)

\* A mapping of pages the process does not own, at an address of the kernel's
\* choice; in a process without regions at the physical address.
vmm_map_memory(m, p, pa, size) ==
    LET base == AlignDown(pa)
        sz   == AlignUp(size + pa - base)
        va   == FindVa(Regions(m, p), sz, base)
    IN  IF \/ ~cap_check(m.proc[p].caps, CapMem(pa, size, PTE_USER_PAGE))
           \/ size = 0 \/ size > Word - 1 - (pa - base) - (PageSize - 1)
            THEN Failed(m)
        ELSE Then(NewRegion(m, p, [start |-> va, size |-> sz, pa |-> base, own |-> FALSE]),
                  LAMBDA x : Returns(x, x.out + pa - base))

Overlaps(r, va, size) == va < End(r) /\ r.start < va + size

\* A mapping at the address the caller names.
vmm_map_fixed(m, p, pa, va, size, own) ==
    IF \/ pa % PageSize # 0 \/ va % PageSize # 0 \/ size % PageSize # 0 \/ size = 0
       \/ ~cap_check(m.proc[p].caps, CapMem(pa, size, PTE_USER_PAGE))
       \/ \E q \in Regions(m, p) : Overlaps(q, va, size)
        THEN Failed(m)
    ELSE NewRegion(m, p, [start |-> va, size |-> size, pa |-> pa, own |-> own])

\* vmm_lookup_region: the lowest region around va, as a set of at most one.
RegionAt(m, p, va) ==
    {r \in Regions(m, p) : /\ Covers(r, va)
                           /\ \A q \in Regions(m, p) : Covers(q, va) => r.start <= q.start}

\* A request to unmap size bytes at va lies in the region.
Inside(r, va, size) ==
    size <= r.size /\ (va + size) % Word >= va /\ va + size <= End(r)

\* Drops the mapping of a region the process does not own.
vmm_unmap_memory(m, p, va, size) ==
    LET at == RegionAt(m, p, va)
        r  == CHOOSE q \in at : TRUE
    IN  IF \/ at = {}
           \/ ~cap_check(m.proc[p].caps, CapMem(r.pa, r.size, {}))
           \/ r.own \/ ~Inside(r, va, size)
            THEN Failed(m)
        ELSE Returns(RemoveRegion(m, p, r), 0)

\* The same for any region; pages it owns are freed.
vmm_unmap_fixed(m, p, va, size) ==
    LET at == RegionAt(m, p, va)
        r  == CHOOSE q \in at : TRUE
    IN  IF \/ at = {}
           \/ ~cap_check(m.proc[p].caps, CapMem(r.pa, r.size, {}))
           \/ ~Inside(r, va, size)
            THEN Failed(m)
        ELSE Returns(RemoveRegion(m, p, r), 0)

\* vmm_va_to_pa: 0 when va is in no region.
vmm_va_to_pa(m, p, va) ==
    LET at == RegionAt(m, p, va)
        r  == CHOOSE q \in at : TRUE
    IN  IF at = {} THEN 0 ELSE r.pa + va - r.start

\* An address space that is a copy of the kernel's, without regions.
vmm_create(m, p) ==
    LET Cloned(a) == [arch_clone_kernel_pde(a, a.out) EXCEPT !.proc[p].cr3 = a.out,
                                                             !.proc[p].regs = {}]
    IN  Then(kmalloc(m), LAMBDA t :             \* the tree
        Then(kmalloc(t), LAMBDA s :             \* its sentinel
        Then(arch_paging_pool_alloc(s), Cloned)))

\* Regions in the order of addresses, then the tables, then the directory.
vmm_destroy(m, p) ==
    LET First(regs) == CHOOSE r \in regs : \A q \in regs : r.start <= q.start
        Step(y, i) == RemoveRegion(y, p, First(Regions(y, p)))
        x   == Loop(Step, m, Cardinality(Regions(m, p)))
        dir == m.proc[p].cr3
    IN  [arch_paging_pool_free(arch_destroy_address_space(x, dir), dir)
            EXCEPT !.proc[p].cr3 = 0]

-----------------------------------------------------------------------------
(* Threads, images and processes *)

\* thread_create_ex_internal: the block, then the stack of a user thread.
ThreadWithStack(m, p) ==
    Then(kmalloc(m), LAMBDA b :
        IF m.proc[p].priv = "kernel" THEN kmalloc(b)
        ELSE Then(vmm_alloc_pages(b, p, 1),
                  LAMBDA x : [x EXCEPT !.proc[p].stacks = @ \cup {x.out}]))

Gone(m, p) == [m EXCEPT !.proc[p] = [NoProcess EXCEPT !.st = "dead"]]

\* p_create_ex up to the inheritance; 3 calls of kmalloc.
NewProcess(m, p, priv) ==
    LET Entered(h) == [h EXCEPT !.proc[p] = [NoProcess EXCEPT !.st = "live", !.priv = priv]]
    IN  Then(kmalloc(m), LAMBDA h :
            OrUndo(vmm_create(Entered(h), p), LAMBDA x : Gone(x, p)))

\* Mutant of p_create_ex: the address space outlives a process that got no thread.
p_create_ex_KeepsSpace(m, p, priv, inherited) ==
    Then(NewProcess(m, p, priv), LAMBDA x :
        OrUndo(ThreadWithStack([x EXCEPT !.proc[p].caps = inherited,
                                         !.heap = @ - Cardinality(inherited)], p),
               LAMBDA t : Gone(t, p)))

\* A process with its first thread, rolled back when the thread fails.
p_create_ex(m, p, priv, inherited) ==
    Then(NewProcess(m, p, priv), LAMBDA x :
        OrUndo(ThreadWithStack([x EXCEPT !.proc[p].caps = inherited,
                                         !.heap = @ - Cardinality(inherited)], p),
               LAMBDA t : Gone(vmm_destroy(t, p), p)))

\* thread_delete gives back the stack.
FreeStack(m, p, va) == [vmm_free_pages(m, p, va) EXCEPT !.proc[p].stacks = @ \ {va}]

\* The threads one by one, the capabilities and the address space.
proc_exit(m, p) ==
    LET Step(y, i) == FreeStack(y, p, CHOOSE va \in y.proc[p].stacks : TRUE)
        x == Loop(Step, m, Cardinality(m.proc[p].stacks))
    IN  Gone(vmm_destroy([x EXCEPT !.proc[p].caps = {}], p), p)

\* cap_grant and cap_revoke on the list of a process.
Granting(m, p, c) ==
    IF ~Grantable(m.proc[p].caps, c) THEN Failed(m)
    ELSE Then(kmalloc(m), LAMBDA h : [h EXCEPT !.proc[p].caps = cap_grant(@, c)])

Revoking(m, p, c) == [m EXCEPT !.proc[p].caps = cap_revoke(@, c)]

\* One PT_LOAD segment of elf_load: pages, the grant, the mapping.
LoadSegment(m, p, seg) ==
    LET base == AlignDown(seg.vaddr)
        size == AlignUp(seg.memsz + seg.vaddr - base)
        GrantAndMap(a, pa, c) ==
            Then(Granting(a, p, c), LAMBDA g :
                OrUndo(vmm_map_fixed(g, p, pa, base, size, TRUE),
                       LAMBDA x : Revoking(x, p, c)))
    IN  IF seg.memsz = 0 THEN m
        ELSE IF ~seg.good \/ seg.vaddr + seg.memsz > SpaceTop THEN Failed(m)
        ELSE Then(pmm_alloc_pages(m, Pages(size)), LAMBDA a :
                OrUndo(GrantAndMap(a, a.out, CapMem(a.out, size, PTE_USER_PAGE)),
                       LAMBDA x : pmm_free_pages(x, a.out, Pages(size))))

\* Stops at the first segment that fails; an image that loads nothing fails.
elf_load(m, p, image) ==
    LET Step(x, i) == Then(x, LAMBDA y : LoadSegment(y, p, image[i]))
    IN  [Loop(Step, m, Len(image)) EXCEPT
            !.ok = @ /\ \E i \in DOMAIN image : image[i].memsz # 0]

\* A process for an image; it exits again when the image does not load.
proc_load_from_elf(m, p, inherited, image) ==
    Then(kmalloc(m), LAMBDA h :                     \* the copy of the image
    Then(p_create_ex(h, p, "user", inherited), LAMBDA x :
        OrUndo(elf_load(x, p, image), LAMBDA y : proc_exit(y, p))))

-----------------------------------------------------------------------------
(* shm.c *)

MayIpc(m, p) ==
    m.proc[p].priv = "kernel" \/ cap_check(m.proc[p].caps, CapPermission("IPC"))

\* Grants the target the pages around [va, va + size), then maps them there.
shm_share(m, curr, target, va, size) ==
    LET pa   == vmm_va_to_pa(m, curr, va)
        base == AlignDown(pa)
        sz   == AlignUp(size + pa - base)
        Beyond(r) == base < r.pa \/ sz > r.size - (base - r.pa)
        GrantAndMap(c) ==
            Then(Granting(m, target, c), LAMBDA g :
                OrUndo(vmm_map_memory(g, target, pa, size), LAMBDA x : Revoking(x, target, c)))
    IN  IF \/ size = 0 \/ ~MayIpc(m, curr) \/ pa = 0
           \/ \E r \in RegionAt(m, curr, va) : Beyond(r)
            THEN Failed(m)
        ELSE GrantAndMap(CapMem(base, sz, PTE_USER_PAGE))

\* Mutant of shm_unshare: the grant goes first, and the unmapping is refused.
shm_unshare_RevokesFirst(m, curr, target, va) ==
    LET Drop(r) == vmm_unmap_memory(Revoking(m, target, CapMem(r.pa, r.size, PTE_USER_PAGE)),
                                    target, r.start, r.size)
        at == RegionAt(m, target, va)
    IN  IF ~MayIpc(m, curr) \/ at = {} THEN Failed(m) ELSE Drop(CHOOSE r \in at : TRUE)

\* Unmaps the region around va in the target, then revokes the grant.
shm_unshare(m, curr, target, va) ==
    LET Drop(r) == Then(vmm_unmap_memory(m, target, r.start, r.size),
                        LAMBDA x : Revoking(x, target, CapMem(r.pa, r.size, PTE_USER_PAGE)))
        at == RegionAt(m, target, va)
    IN  IF ~MayIpc(m, curr) \/ at = {} THEN Failed(m) ELSE Drop(CHOOSE r \in at : TRUE)

-----------------------------------------------------------------------------
(* The system calls *)

Blank == [used |-> {}, free |-> 0, pool |-> {},
          ent |-> [f \in PoolFrames \cup {KernelDir} |-> NoEntries],
          proc |-> [p \in Proc |-> NoProcess],
          heap |-> 3 + 2, ok |-> TRUE, out |-> 0]

\* After arch_paging_init and the creation of init_thread's process.
Booted == p_create_ex(arch_paging_init(Blank, Modules), InitProc, "kernel", {})

Init == \E m \in {Booted} :
    used = m.used /\ free = m.free /\ pool = m.pool /\ ent = m.ent /\ proc = m.proc

\* The list of what a child inherits with room for n calls of kmalloc, after
\* the first few.
Inherited(parent, n, before) ==
    cap_inherit_all(proc[parent].caps, IF n > before THEN n - before ELSE 0)

NextPid(p) == proc[p].st = "free" /\ \A q \in Proc : q < p => proc[q].st # "free"

ProcCreate(parent, p) == \E n \in HeapRoom, priv \in {"kernel", "user"} :
    /\ proc[parent].st = "live" /\ NextPid(p)
    /\ Cardinality(proc[parent].caps) <= MaxCaps
    /\ \/ priv = "user" \/ proc[parent].priv = "kernel"
       \/ cap_check(proc[parent].caps, CapPermission("CREATE_KRNL_PROC"))
    /\ \E s \in Inherited(parent, n, 3) : Becomes(p_create_ex(Machine(n), p, priv, s))

ProcLoadFromElf(parent, p) == \E n \in HeapRoom, image \in Images :
    /\ proc[parent].st = "live" /\ NextPid(p)
    /\ Cardinality(proc[parent].caps) <= MaxCaps
    /\ \E s \in Inherited(parent, n, 4) : Becomes(proc_load_from_elf(Machine(n), p, s, image))

\* load_user_elf_by_name: init_thread loads a server and grants it what it
\* needs before it may run.
LoadServer(p) == \E n \in HeapRoom, image \in Images, grants \in BootGrants :
    LET Grant(x, i) == [x EXCEPT !.proc[p].caps = cap_grant(@, grants[i])]
    IN  /\ proc[InitProc].st = "live" /\ NextPid(p)
        /\ Becomes(Then(proc_load_from_elf(Machine(n), p, {}, image),
                        LAMBDA x : Loop(Grant, x, Len(grants))))

\* Bound: the search for an address never looks below the lowest region, so that
\* regions that come and go may drift upwards; runs stop short of the top.
BelowTop(p, size) == FindVa(proc[p].regs, size, AnonBase) + size <= SpaceTop

\* What HeapRoom amounts to in a call that calls kmalloc at most k times.
RoomFor(k) == {Min({n, k}) : n \in HeapRoom}

ThreadCreate(p) == \E n \in RoomFor(2) :
    /\ proc[p].st = "live" /\ proc[p].priv = "user"
    /\ Cardinality(proc[p].stacks) < MaxThreads
    /\ BelowTop(p, PageSize)
    /\ Becomes(ThreadWithStack(Machine(n), p))

\* Processes follow the protocol of the portal: what is shared is unshared
\* before its owner gives it up.
Lent(r) == \E q \in Proc : \E o \in proc[q].regs :
    ~o.own /\ o.pa < r.pa + r.size /\ r.pa < o.pa + o.size

ThreadDelete(p) == \E va \in proc[p].stacks :
    /\ \A r \in proc[p].regs : Covers(r, va) => ~Lent(r)
    /\ Becomes(FreeStack(Machine(0), p, va))

ProcExit(p) ==
    /\ proc[p].st = "live"
    /\ \A r \in proc[p].regs : r.own => ~Lent(r)
    /\ Becomes(proc_exit(Machine(0), p))

\* Clients of portals share memory of their own, and unshare what they shared.
ShmShare(p, q) == \E n \in RoomFor(2), size \in Sizes, r \in proc[p].regs :
    \E va \in {r.start, r.start + PageSize - 1} :
        /\ r.own
        /\ proc[p].st = "live" /\ proc[q].st = "live"
        /\ Cardinality(proc[q].regs) < MaxRegions /\ BelowTop(q, AlignUp(size + (va % PageSize)))
        /\ ShareToEmpty \/ proc[q].regs # {}
        /\ Becomes(shm_share(Machine(n), p, q, va, size))

ShmUnshare(p, q) == \E r \in proc[q].regs :
    /\ r.pa \notin DevicePages
    /\ proc[p].st = "live" /\ proc[q].st = "live"
    /\ Becomes(shm_unshare(Machine(0), p, q, End(r) - 1))

\* mmio_exec, MAP: a window above the user heap and below the top.  Windows are
\* mapped by servers, which were loaded from an image.
MmioMap(p) == \E n \in RoomFor(1), pa \in AskedPages, va \in WindowPages :
    /\ \E r \in proc[p].regs : r.own /\ r.start < AnonBase
    /\ va >= HeapEnd /\ PageSize <= (SpaceTop - va) % Word
    /\ Becomes(vmm_map_fixed(Machine(n), p, pa, va, PageSize, FALSE))

\* Servers unmap only the windows they mapped.
MmioUnmap(p) == \E va \in WindowPages :
    /\ proc[p].st = "live"
    /\ \A r \in proc[p].regs : Covers(r, va) => r.pa \in DevicePages
    /\ Becomes(vmm_unmap_fixed(Machine(0), p, va, PageSize))

Next ==
    \E p \in Proc :
        \/ LoadServer(p) \/ ThreadCreate(p) \/ ThreadDelete(p) \/ ProcExit(p)
        \/ MmioMap(p) \/ MmioUnmap(p)
        \/ \E q \in Proc : \/ ProcCreate(p, q) \/ ProcLoadFromElf(p, q)
                           \/ ShmShare(p, q) \/ ShmUnshare(p, q)

Spec == Init /\ [][Next]_vars

-----------------------------------------------------------------------------
(* Properties *)

LiveProcs == {p \in Proc : proc[p].st = "live"}
Now == Machine(0)
PagesOf(r) == PageOf(r.pa) .. PageOf(r.pa) + Pages(r.size) - 1
HeapPages == {e.frame : e \in UNION {Translate(Now, KernelDir, va) :
                                va \in {a \in HeapBase .. HeapEnd - 1 : a % PageSize = 0}}}
Owned(p) == UNION {PagesOf(r) : r \in {q \in proc[p].regs : q.own}}

\* Every page is free or has one owner: the kernel, a module, the user heap or
\* one region of one process.  Nothing leaks on a path that fails half way
\* (vmm_alloc_pages, vmm_map_fixed, elf_load, p_create_ex), nothing is handed
\* out twice, and free_blocks counts what is free.
PagesExact ==
    /\ used = 0 .. FirstFree - 1 \cup {Modules[i] : i \in DOMAIN Modules}
                \cup HeapPages \cup UNION {Owned(p) : p \in LiveProcs}
    /\ free = TotalBlocks - Cardinality(used)
    /\ \A p, q \in LiveProcs : \A r \in proc[p].regs, o \in proc[q].regs :
            r.own /\ o.own /\ <<p, r>> # <<q, o>> => PagesOf(r) \cap PagesOf(o) = {}

\* Regions do not overlap and lie in the user's part, above the shared heap, and
\* every thread has its stack in one of them.
RegionsApart(p) ==
    /\ \A r \in proc[p].regs :
        /\ r \in Region /\ r.start >= HeapEnd /\ End(r) <= SpaceTop
        /\ \A o \in proc[p].regs : r # o => End(r) <= o.start \/ End(o) <= r.start
    /\ \A va \in proc[p].stacks : \E r \in proc[p].regs : r.own /\ r.start = va

\* Whoever chose their addresses, the regions of a process keep apart, and its
\* tables map exactly them, for the user, and what the master directory maps for
\* the user heap: no mapping is left behind by an unmap, an exit or a roll-back,
\* none is missing, and none hides another.
TablesExact ==
    \A p \in LiveProcs :
        /\ RegionsApart(p)
        /\ \A b \in PageOf(HeapBase) .. PageOf(Word) - 1 :
            LET va == b * PageSize IN
            Translate(Now, proc[p].cr3, va) =
                IF va < HeapEnd THEN Translate(Now, KernelDir, va)
                ELSE {Entry(PageOf(r.pa + va - r.start), TRUE, FALSE) :
                            r \in {q \in proc[p].regs : Covers(q, va)}}

TablesOf(p) == {ent[proc[p].cr3][i].frame :
                    i \in {j \in DOMAIN ent[proc[p].cr3] : ~ent[proc[p].cr3][j].big}}
KernelTables == {ent[KernelDir][i].frame : i \in {j \in DOMAIN ent[KernelDir] : ~ent[KernelDir][j].big}}

\* A slot of the paging pool is in use exactly if it is a live directory, a
\* table of the master directory or a table of one live directory: vmm_destroy
\* leaks none and frees none that another directory still uses.
PoolExact ==
    /\ pool = KernelTables \cup {proc[p].cr3 : p \in LiveProcs}
                            \cup UNION {TablesOf(p) : p \in LiveProcs}
    /\ \A p, q \in LiveProcs : p # q =>
            /\ proc[p].cr3 # proc[q].cr3
            /\ TablesOf(p) \cap TablesOf(q) = KernelTables
            /\ proc[p].cr3 \notin TablesOf(q)

\* What a process maps without owning it is covered by a capability it holds,
\* and is device memory or memory that some process owns: unmapping and
\* revoking go together (shm_unshare, the roll-back of shm_share).
MappedGranted ==
    \A p \in LiveProcs : \A r \in {q \in proc[p].regs : ~q.own} :
        /\ cap_check(proc[p].caps, CapMem(r.pa, r.size, PTE_USER_PAGE))
        /\ \A b \in PagesOf(r) : b * PageSize \in DevicePages
                              \/ \E q \in LiveProcs : b \in Owned(q)

\* Under every directory every page of memory is found at its own address, for
\* the supervisor only: the kernel clears pages it allocates through this
\* mapping, whichever process is running (paging.c:331, task.c:77).
IdentityIntact ==
    \A p \in LiveProcs : \A b \in Blocks :
        \E e \in Translate(Now, proc[p].cr3, b * PageSize) : e.frame = b

\* No user reaches a page of the kernel, of the modules or of the pool, except
\* device memory: whatever address a server asks for, images load and memory is
\* shared, only what init_thread granted is opened to it (mmio_exec, cap_check).
KernelClosed ==
    \A p \in LiveProcs : \A b \in 0 .. PageOf(Word) - 1 :
        \A e \in Translate(Now, proc[p].cr3, b * PageSize) :
            e.user /\ (e.frame < FirstFree \/ \E i \in DOMAIN Modules : Modules[i] = e.frame)
                => e.frame * PageSize \in DevicePages

=============================================================================
