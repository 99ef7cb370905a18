# A verification project for the osdev microkernel

`src/osdev` is a small microkernel for a single i386 CPU.  A few kernel
services (processes and threads, semaphores, mailboxes, interrupt lines,
portals, shared memory, capabilities) sit behind one system-call gate; drivers
and servers (keyboard, log, namespace, UI) are ordinary threads that talk over
portals and mailboxes.  The modules here model the kernel, from the scheduler to
the page tables, and the namespace, terminal and keyboard servers in TLA+.  TLC
checks them on small instances, and TLAPS proves, for every value of the
constants, the invariants of the scheduler, the portals, the mailboxes and
interrupt lines, the address spaces, the heap, the system call gate, the pool of
locks, the namespace and the console, and that mailboxes, portals and the heap
implement their abstract specifications.

## 1. Inventory

| Component (source) | State | Operations | What makes it correct |
|---|---|---|---|
| threads and processes (`kernel/process.c`) | `thread_head`, `thread_run`, per thread state, `wake_pending`, `waiting_on`, parent; `proc_head`; `thread_ctx_info` | create, delete, yield, block, unblock; process create, load, exit, block, unblock; `schedule_isr` | the lists hold exactly what is not freed; the CPU is on the context and page directory of `thread_run`; a ready thread runs |
| wait queues (`kernel/sync/wait_queue.c`) | waiters list | sleep, wake one / all / by tid | list and `waiting_on` agree; no freed thread on a list |
| semaphores (`kernel/sync/semaphore.c`) | value, wait queue | create, destroy, wait, signal | a waiter is owed a signal and the semaphore is not freed under it |
| portals (`kernel/ipc/portal.c`) | portals, queued requests, request structures | INIT, DESTROY, CALL, WAIT_REPLY, GET_RESULT, CLEANUP, WAIT, GET_REQ, REPLY | a call is answered once, and returns that answer |
| mailboxes (`kernel/ipc/mailbox.c`) | mailmetas with reference counts; per thread a box with mails, subscriptions, handlers and waiters | alloc and release a mail; send to one or to all subscribers; listen, listen_block; subscribe, unsubscribe; register, unregister a handler; end of a mailbox | first in, first out; every mail has one place that gives it back; nobody sleeps on a box with a mail |
| interrupt lines (`kernel/irq.c`) | irqs on each line with owner, minor and enable flag; the PIC's mask | request, release, mask, unmask, dispatch to the owner's mailbox | an irq's owner exists; a line is open exactly while someone has it enabled |
| system calls (`kernel/syscall.c`) | handler table, the shared `syscall_kbuf` | register, unregister, dispatch with copy-in and copy-out | nothing of one caller's config reaches another; nothing is written back to a caller that was switched away |
| capabilities (`kernel/capability.c`) | rights of each process | check, grant, revoke, inherit | a request outside what was granted is refused, at every edge of a range |
| physical memory (`kernel/mm/pmm.c`) | page bitmap, `free_blocks` | alloc, free, mark used | a page has one owner |
| page tables (`arch/i386/paging.c`) | the master directory, directories, tables, the pool they come from | map, unmap, split a 4 MB page, clone, destroy | a directory maps its process's regions and the kernel, the pool loses no frame |
| address spaces (`kernel/mm/vmm.c`, `kernel/mmio.c`, `kernel/lib/elf.c`) | the region tree of each process | alloc and free pages, map and unmap at a chosen or a given address, load an image, create, destroy | a failing map is rolled back; regions, tables and pages agree |
| shared memory (`kernel/ipc/shm.c`) | grants and mappings in the target | share, unshare | mapping and grant come and go together |
| heap (`kernel/mm/heap.c`) | chunk list, `avail_size` | malloc, free, split, merge | chunks tile the heap, no live chunks overlap, `avail_size` is exact |
| spinlocks (`kernel/sync/spinlock.c`) | a pool of locks | alloc, release | a lock has one owner, none is lost on a path that fails |
| red-black tree (`kernel/lib/rbtree.c`) | nodes and the shared nil | insert, delete, search, next, previous | order and balance after any mix of calls |
| namespace server and its clients (`user/server/ns`, `user/userlib.c`) | name table; cached ids | register, unregister, lookup, call with retries | a name resolves to what was registered |
| terminal and keyboard servers (`user/server/display`, `user/server/input`, `arch/i386/kterm.c`) | cursor, screen, mode, saved font, the controller's byte | text, escapes, mode switches, key broadcast and echo | the cursor stays true, the font survives, every key arrives once |

How they meet.  Every service entry is a gate: a system call or an interrupt
runs with IF = 0 from entry to `iret`, and a context switch is only *requested*
inside it (`request_switch_context`) and made by the gate's exit
(`arch_task_context_switch`).  So gates are atomic against each other, and all
the hard behaviour is *between* gates: `portal_call()` is four system calls,
`portal_wait()` is two, `user_mail_listen()` is a loop of two, and the timer
may switch threads between any two of them.  A caller that blocks does not
resume inside the kernel: it returns to user mode behind its system call.
Wakeups are remembered in `wake_pending`, which is what makes the protocols
built on blocking delicate.  Threads and processes may be deleted at any time
by others, while they wait, own interrupt lines, mailboxes or shared memory.

The hazards list in `PROJECT.json` has each of these at its line, with the
properties that watch it, or the reason why none does yet.  Smaller ones without
a property are kept here: a second free of a merged chunk is not noticed
(`heap.c:140`); a 17th subscription is refused (`mailbox.c:553`); the placement of
regions drifts upwards and tables above USER_SPACE_TOP are not freed at exit
(`vmm.c:285`); the window check of `mmio.c:32` wraps above the top; retry loops
give up after 10000 rounds (`userlib.c:137`); the key thread reads `g_mode` outside
the lock (`terminal_server.c:280`); lines that the launcher prints after the server
read the cursor are overwritten (`terminal_server.c:635`); the nodes of inherited
capabilities stay allocated when `p_create_ex` fails behind them
(`process.c:474`); a client whose server exits is not signalled, nor promised that
it would be (`portal.c:206`); the clock's registers are read one by one
(`rtc_server.c:59`).

## 2. Modules and the code

| Module | Models |
|---|---|
| `KThreads` | the state of `process.c`, `wait_queue.c` and `semaphore.c` as one record, and their functions as operators on it |
| `Sched` | all process and thread system calls, the semaphore and wait-queue calls and the timer, issued in any order by the running thread |
| `Portal` | `portal.c`, its clients, one server and threads that compute; mail waits between calls |
| `PortalRPC` | the abstract promise: a portal call is a remote procedure call |
| `Mailbox` | `mailbox.c` and `irq.c`, with what the end of a thread or a process does to them |
| `MailChannel` | the abstract promise: a mailbox is a first-in first-out channel |
| `Heap` | a pool of `heap.c` and its callers |
| `Allocator` | the abstract promise: what callers hold is theirs alone |
| `Capability` | `capability.c`: the list of a process and its checks |
| `Paging` | `pmm.c` and `paging.c` as operators on the machine |
| `Memory` | `vmm.c`, `shm.c`, `mmio.c`, `elf.c` and the memory side of `process.c`, on `Paging` and `Capability` |
| `Syscall` | the registry and the dispatch of `syscall.c` |
| `Locks` | the pool of `spinlock.c` and all its users: processes, threads, mailboxes, mails, semaphores, irqs and lines |
| `RBTree` | `rbtree.c`, with the parent pointer of nil that the fixups use |
| `Namespace` | the namespace server, registering servers and clients of `userlib.c` |
| `Console` | the terminal server's two threads, the keyboard server and the launcher's `kterm` |
| `MCSched`, `MCPortal`, `MCMailbox`, `MCMailboxParts`, `MCMemory`, `MCUnits` | the instances for TLC |
| `KThreadsProofs` | lemmas: what each operator of `KThreads` preserves |
| `SchedProofs` | the inductive invariant of `Sched` and the theorems |
| `HeapProofs` | the inductive invariant of `Heap`, its theorems and the refinement of `Allocator` |
| `PortalProofs` | the inductive invariant of `Portal`, its theorems and the step simulation of `PortalRPC` |
| `MailboxProofs` | the inductive invariant of `Mailbox`, its theorems and the refinement of `MailChannel` |
| `UnitsProofs` | the inductive invariants of `Console`, `Namespace`, `Locks` and `Syscall` and their theorems |
| `PagingProofs` | what the checks of `Capability` decide; mapping and allocating pages, all or nothing; a region comes and goes with its pages and mappings |
| `MemoryProofs` | the inductive invariant of `Memory`, from boot through every system call, and its theorems |

**KThreads.**  The operators are pure functions from record to record, so that
they compose as the C functions call each other in one gate.  They keep the C
names (`thread_block`, `wait_queue_sleep`, `semaphore_signal`, ...).  The record
fields are listed at the head of the module.  `list_add` inserts in front, as
`list.h` does: waiters are woken newest first and the newest thread heads
`thread_head`.  `find_next_runnable` is the circular scan behind `thread_run`
which never returns to `thread_run` itself.

**Sched.**  One action is one gate: its body, then `arch_task_context_switch`.
`ProcCreate` is also the boot path, the only step while no thread exists.
`ProcCreateFails` and `ProcLoadFails` are the roll-back paths; a failing
`thread_create_ex` leaves nothing behind and has no action.  `ProcExit` frees the
threads of the process one after the other; when the running one is among them
the final choice is the first ready thread outside the process behind it, and
the switch is committed before the page directory is destroyed.
`ProcExitHalts` is the `hlt` with interrupts off when nothing is left to run.

**Portal.**  One action per command of `portal_exec`, with the program counter
of the user-library functions that issue them.  The program counter moves when
a call is *issued*: a caller that blocks continues behind the call.  A request is
the first number that is free and that nobody holds a handle of, so that clients
call for ever and `MaxReqs` bounds the requests there are at a time.

**Mailbox.**  The functions of `mailbox.c` are operators on a record of thread
state, mails and boxes; an action is the gate around one of them.  A broadcast
is the code's two passes over `thread_head`: it counts the boxes with handlers
into the reference count, then delivers to each subscriber, by handler or by a
clone, and drops the sender's reference.  Memory for mails is the set `Mails`,
and `hold` records which thread owns which mail by the rule of the API: whoever
allocates or receives a mail owns it until it is sent or released.
`ThreadDelete` gives back the thread's interrupts and its mailbox as
`thread_delete_internal` does; `ProcExit` gives back neither, as
`proc_exit_internal` does.  An interrupt runs `irqline_handler` over the irqs of
the line, newest first.

**Heap.**  Headers are a function from addresses (offsets into the pool) to
size, used flag and next pointer.  `Malloc` takes the first chunk on the list
with `size >= req_size`, which leaves room for the header of the rest, and always
splits it; `Free` merges with the next chunk and then with the previous one, as
the code does.  The lazy `kheap_init` is part of the first call, a failing one
included.  `held` is what the callers got and have not freed yet.

**Paging and Memory.**  Operators take a record of the machine (bitmap, pool,
tables, processes) and return it after the call, with `ok` and `out` as the C
functions' results; `Then` is the next step of a call and `OrUndo` its roll-back,
so that roll-backs compose as in the code.  A system call is one action; `heap` is
how many calls of `kmalloc` succeed in it, chosen anew for each call from
`HeapRoom`: the run takes 1 (memory ends at the second call), 7 (in the middle of
loading an image) and 20 (enough for everything).  The region tree
is the set of its regions; `FindVa` is the search of `vmm_alloc_pages` and
`vmm_mmap_reserve` for a gap.  The instance scales the machine down: two bytes a
page, two entries a table, 19 pages, eight slots in the pool.  What a process
does with memory follows the user library: clients share memory of their own and
unshare it before they give it up (`Lent`).  `MemoryAssumption` has what the layout
and the boot provide: images are linked above the user heap (`user.ld`), what
`init_thread` grants for mapping is device memory (`DeviceOnly`), and the windows
servers ask for lie below the end of the kernel, where the frame buffers are;
`PagingAssumption` that the pool has a table for every 4 MB of the user heap, 4 of
its 2048.  A share is only made where `FindVa` finds room below the top
(`BelowTop`), counted from the start of its first page.

**Capability.**  `InRange` is the code's comparison by subtraction.  Inheritance
copies as many entries as there is memory for.

**Syscall.**  A byte is where it came from, a process or the kernel.  Every process
has its config at the same virtual address, so that the page directory alone
decides whose memory a write-back reaches.  A handler may leave, fill in or repeat
the bytes it knows, and makes something of its caller (`Fates`): it returns, ends
another process, blocks (the tid changes, CR3 not before the gate's exit), deletes
its own thread (likewise) or exits (both change at once).  `StillThere` is the
code's test of tid and CR3.  Threads that are switched away are woken later, and a
process that is gone may be followed by another with memory of its own.

**Locks.**  `lock` gives the slot in every field of the kernel's structures that
holds one; an object is there while its field has a lock.  Creations fail at every
allocation.  A mail is made by one system call and sent, listened for and released
by others, and in between it is in a mailbox or in the hands of a thread, which may
end there.  An interrupt makes and queues its mail in one step, a broadcast makes a
clone for each subscriber that gets one.  Irqs and lines take their locks in the
order that `irq_request_internal` does, which depends on whether a minor is given;
a line without a lock is made all the same, as in the code.  `LocksOwned` is about
sharing and early release; `LocksLost` says which steps lose a lock: the mails in
the hands of a thread that ends, and, at a process's exit, its mailboxes and the
mails in them.

**RBTree.**  Nodes are keys, links a function; nil has a parent, which deletion
sets and the fixup starts from.

**Namespace.**  A request to the server is one step.  `registered` records what
was last accepted for each name.

**Console.**  The text plane is a small grid, the glyph plane is intact or
overwritten, and a key is a printable press or another scancode.  The two threads
of the server take `g_vga_lock` for every character, so that their output
interleaves by character, as in the code.  What a thread does to the screen under
the lock is one step, but each access to the CRT controller's index and data ports
is a step of its own: it is a system call, and `kterm_write`, which takes no lock,
may come between any two of them.  The ghost `cut` records that it did, `short`
that a mail for a scancode could not be allocated: the properties say what holds
without these, and what holds in spite of them.  Text is printed while the launcher
runs; graphics start when it has printed its last line, which is what
`terminal_server.c:641` relies on, so that a mode switch is one step.

Abstractions, and why they are sound for the properties:

* A process is `none`, `live` or `dead`: `PS_PENDING`/`PS_READY` of the pcb are
  written but never read.  Ids come from counters that only grow, so an id
  names one object for ever.
* The timer tick that ends a time slice is `schedule_isr`.  The ticks before it
  do nothing, and neither does a tick that finds `schedule_lock` taken: the
  handler uses a trylock because a holder may run with interrupts on.
* The page directory of a process is named by the process.  Kernel processes
  share the master directory; keeping them apart only makes `CpuCoherent`
  stronger.
* In `Sched`, `Portal` and `Mailbox` capability checks, privileges, names, stacks
  and register contents are left out: they allow every call a privileged caller
  could make.  `Sched` leaves the mailboxes and interrupts of a thread to
  `Mailbox`, its memory to `Memory` and its locks to `Locks`.
* In `Memory`, every mapping the kernel makes is writable, so that an entry is its
  frame and its user bit; TLB flushes and the contents of pages are left out.
  Only servers that init loaded map device windows, at addresses below the top.
* In `Console`, colours and the VGA register tables are left out.
* In `Portal`, a call that fails is rolled back and leaves the state as it
  was, so it has no action; the payload of a request is the request; a mailbox
  holds at most one mail per client, which is enough to wake a listener.
  `portal_destroy()` is called by the server's own thread between two requests.
* In `Mailbox`, every thread has its mailbox from the start, and a call that is
  refused leaves the state as it was and has no action.  A refused irq request
  masks its line again; that changes nothing while `LinesArmed` holds.  The
  magic of a mail to one thread is not looked at by the kernel and is 0.
* In `Heap`, callers free what they hold, once.  A second free of a chunk that
  was merged away is not noticed by the code; it is listed as a hazard.
* `wait_queue_wake_all` and `wait_queue_wake_by_tid` have no caller in the
  kernel yet; they are modelled as API calls on a live queue.

## 3. Runs

| Run | Checks | Shows |
|---|---|---|
| `sched` | `TypeOK`, `WaitersCoherent`, `WaitersCounted`, `ThreadListCoherent`, `NoOrphanThread`, `CpuCoherent`, `ReadyRuns` | the lists, pointers, semaphore values and the CPU agree after any sequence of calls and preemptions, and the circular scan starves no ready thread |
| `portal` | `FreshResult`, `HandlesLive`, `NoLostRequest`, `SemaphoresBalanced`, `RequestsAccounted` | the four-call protocol is right while some thread can always run, and `portal_destroy()` never frees a semaphore with a sleeper |
| `portal_live` | `RefinesRPC`, `CallReturns` | portals implement `PortalRPC`, its fairness included, with clients that call for ever: some waiting call is answered, and a call that does not return is overtaken by newer ones over and over |
| `mailbox` | `MailsAccounted`, `NoSleepWithMail`, `IrqOwnerLive`, `LinesArmed` | reference counts and owners agree after any mix of sends, broadcasts, handlers and ends of threads; no wakeup is lost; a shared line is open exactly while a sharer has it enabled, and deleting a thread releases its irqs |
| `mailbox_live` | `RefinesChannel`, `MailTaken` | a mailbox is a FIFO channel, and a receive loop gets every mail |
| `memory` | `PagesExact`, `TablesExact`, `PoolExact`, `MappedGranted`, `KernelClosed` | pages, regions, tables, the pool and grants agree after any mix of loads, threads, shares, windows and exits, with memory running out anywhere; no user reaches the kernel |
| `units` | `Tiled`, `AvailExact`, `Coalesced`, `RefinesAllocator` | no sequence of calls breaks the heap's list, miscounts its free bytes or hands out a byte twice |
| | `Ordered`, `Balanced` | the tree stays a red-black tree, its links agree and its iteration is sorted |
| | `LookupTrue`, `RightServer` | a name gives what was registered last, and even an old cache leads to a portal of the name's server |
| | `Confined`, `WriteBackBounded` | no config leaks through the shared buffer; a write-back reaches only a caller that goes on running, and no further than both sides agreed |
| | `LocksOwned`, `LocksLost` | no lock is shared or released under its object, and which ones are lost |
| | `CursorTrue`, `TextReadable`, `KeysKept` | unless `kterm` prints within the port accesses the cursor is on the screen and the hardware shows it; the font survives every order of mode switches; scancodes arrive in order and once, and all of them while no allocation fails |
| `portal_idle_result` | `FreshResult`, violated | see the first finding |
| `portal_destroy` | `NoUseAfterFree`, violated | see the second finding |
| `irq_exit` | `IrqOwnerLive`, violated | see the third finding |
| `memory_identity` | `IdentityIntact`, violated | see the fourth finding |
| `console_sync` | `OnScreen`, violated | see the fifth finding |

Parts that share no state need no product of their states.  `MCUnits` puts six of
them side by side: a behaviour picks one and the others keep their initial state,
so that their states add up.  `MCMailboxParts` does the same with two sets of
bounds of one module, mails without interrupts and interrupts with few mails.

Findings, each against a comment in the code that `PROJECT.json` quotes.

1. When no thread but the client is ready, `thread_block_internal` finds nothing
   to switch to and WAIT_REPLY returns at once; or a mail that woke the client
   while it was the only ready thread left `wake_pending` set, and WAIT_REPLY
   consumes that instead of blocking.  GET_RESULT then returns what nobody stored.
   An idle server is hit in the same way: it spins in WAIT, already on the waiters
   list, and every further WAIT takes `req_sem` down by one without adding a
   waiter.  Signals of later requests only raise the value again, and the server
   sleeps while a request is queued (`NoLostRequest` fails under the same
   configuration).
2. DESTROY looks at parked waiters only; a client between CALL and WAIT_REPLY is
   left with a freed handle.
3. `proc_exit_internal` frees the threads of a process without releasing their
   irqs.  The next interrupt on such a line, once the irq is unmasked, dereferences
   the freed owner.
4. `vmm_mmap_reserve` places memory shared with a process that has no region at
   its physical address, in the band where the kernel finds all of memory at its
   own address; a second share is placed behind it and hides the page that lives
   there.  The comments say that no user address lies in that band.
5. The terminal server reads the position of the hardware cursor by four port
   accesses.  `kterm` takes no lock and still prints launcher lines then: a line
   between two of the accesses tears the position, and the server starts below the
   last row of the screen.

With one thread that is always ready, (1) cannot happen: that is what the `portal`
run shows.

`KeysKept` promises that nothing is lost only while no allocation fails.  When one
does, in the interrupt (`irq.c:191`), the scancode stays in the controller and
nobody is told; the controller waits to be read before it interrupts again, the
keyboard server waits for a mail before it reads, and unless another notification
is on its way the keyboard is silent from then on.

Bounds.  `sched`: 3 threads, 2 processes, 1 semaphore, value between -2 and 1.
Three threads are the least for which the circular order matters, for which a
process can lose its running thread with a choice of successors, and for which
two waiters queue while a third wakes or deletes them; two processes are the
least that need a page-directory switch; queues do not interact but through
`waiting_on`, which one queue and the double-sleep guard exercise.  `portal`:
two clients, so that requests queue behind each other; three requests at a time,
so that one is freed while the handle of another is stale, and one client calls
again while the other's request is queued or being served; one computing thread;
two answers, so that a swapped answer is seen.  `portal_idle_result` drops the
computing thread.  `AllOrders` fixes the server in front: the scan is
circular and the thread list is constant in that module, so only the circular
order counts.  `portal_live` has one of these orders and one answer; its calls are
not bounded, only two are in progress at a time, one per client.  `mailbox_live`
uses smaller bounds than `mailbox`.

`mailbox`, first part: two threads of two processes, three mails so that a broadcast has its
original and two clones, two mails in a thread's hands, one magic with one
subscription and one handler.  A second magic or handler would behave as the
first.  Second part: one line, three irqs, so that the line is shared and is requested
again after a release; two mails for the interrupts.  `units`, heap: 160 bytes with
16-byte headers; sizes 0, 9 (rounded), 24, 40 and one that is too large, so that
chunks fit exactly, with and without room for another header, and freed chunks
have free neighbours on one side, on both and on none.  Tree: 8 keys in
any order of inserts and deletes, so that trees are four levels deep and fixups
climb.  Namespace: three
servers and a table of two, so that it is full; two rounds of a retry loop.  Gate:
two callers and configs of 0 to 3 bytes around a buffer of 2.  Locks: 8, one of them
the kernel's own, for two processes, two threads, two mails (one is the clone of the
other in a broadcast), a semaphore, an irq and a line, which would take 15, so that
any creation may be the one that finds the pool empty, at each of its allocations.

Console: texts that print a line, and that clear the screen and home the cursor, as
often as clients ask, and every control frame; a screen of two by two, so that every
second character wraps and every second line scrolls; registers of three values, so
that a position takes both bytes; two keys and a drain limit of one; one launcher
line, which may fall anywhere.  `console_sync` has the real sizes, four lines and no
keys.

`memory`: three pids, of which the first is init's, one thread each; an image of
two pages and one whose segments overlap; three regions in the target of a share;
`kmalloc` fails at the first call, in the middle, or not at all.  Physical pages
and slots of the pool are few enough to run out.  In this run memory is shared
only with processes that have a region; `memory_identity` lifts that.

Deadlock checking is off in `sched`, where the ids may run out and the system may
halt, and in `memory`, where all pids may be dead.

Fairness.  `WF(schedule_isr)`: every gate ends and the PIT fires again.  Nothing
else is assumed in `Sched`.  In `Portal` a thread's next call has strong fairness:
it is enabled only while the thread runs, the scheduler gives it the CPU again
and again, and a time slice suffices to reach the next system call.  No client
has to start a call and no key has to be pressed.  This does not make every call
return: GET_REQ takes the newest request, and a client that calls again each time
may keep an older one waiting for ever.  So `PortalRPC` promises only that while calls wait some
call is answered, and `CallReturns` has the overtaking as its one exception.  In `Mailbox` LISTEN and RELEASE
of a thread have strong fairness for the same reason: a thread that gets the CPU
again and again comes back to its receive loop, `user_mail_listen()` followed by
`user_mail_release()`.

## 4. Proofs

`SchedProofs` proves, for every `Tid`, `Pid` and `WaitQ` (assumptions:
`IdsAssumption`, ids are naturals and the null values are not ids;
`BoundsAssumption`), that `Spec` implies always each of `TypeOK`,
`WaitersCoherent`, `WaitersCounted`, `ThreadListCoherent`, `NoOrphanThread` and
`CpuCoherent`.

The inductive invariant is `IInv == KInv(k) /\ Clean(k) /\ halted \in BOOLEAN`.
None of the properties is inductive alone: that a deleted thread leaves no
pointer behind needs lists and pointers to agree; that the CPU is on a live page
directory needs every live thread to have a live process and the thread list
to hold only live threads.  `KInv` therefore conjoins typing, the three list
facts, `ParentsLive` and `CpuOwed`.

Two refinements make it go through gate bodies that call several functions.
`CpuOwed` describes the CPU in the *middle* of a gate: its context and page
directory are those of `thread_run` once the requested switch is made; `Clean`
says no switch is outstanding.  A gate body takes a `Clean` state to a `KInv`
state, and the gate's exit makes it `Clean` again (`GateIInv`).  And `KInv` is
split into `KCore` and `QueuesCounted`, because inside `semaphore_signal` the
value runs one ahead of the waiters until the wakeup is made.  `KThreadsProofs`
has one lemma per kernel function; `SchedProofs` then has one step per action.

`PortalProofs` proves `FreshResult`, `HandlesLive`, `NoLostRequest`,
`SemaphoresBalanced` and `RequestsAccounted` for any clients, calls, answers and
order of the threads, under one hypothesis, `IdleThread`: some thread is neither a
client nor the server and so is always ready.  It cannot be dropped; the
`portal_idle_result` run is the counterexample.  The invariant ties every semaphore
to the program counters: `req_sem` is the length of the request list less one for a server between
WAIT and GET_REQ, `done_sem` of a request is one for a reply less one for a client
that asked for it (`Owed`), and whoever sleeps is at the step that put it to
sleep (`Sleepers`).  From the first follows that no request is lost, from the
second that a client that comes back from WAIT_REPLY finds an answer.  DESTROY is
why a handle may be stale: the invariant allows that only in front of WAIT_REPLY
and after the portal is gone (`ClientInv`).  `PortalRefinesRPC` is the safety part
of `RefinesRPC`: every step of the protocol is a step of `PortalRPC` or none.

`MailboxProofs` proves `MailsAccounted`, `NoSleepWithMail`, `LinesArmed` and
`Spec => RefinesChannel` for any threads, mails, magics, lines and irqs, and
`IrqOwnerLive` as long as no process exits (`MayExit = FALSE`; `irq_exit` is the
counterexample otherwise).  A call moves mails through several functions, so
`MailsInv(s, h, X)` speaks of any state in the middle of a gate: `X` are the
mails on the way, which have no place and may have any number of references, all
others have one reference and one place or none (`Accounted`); with it go
`Awake`, that a queue with waiters has no mails, and the typing of the thread state.  `broadcast` counts handlers first and
hands out references later: its loop invariant is that the mail still has one
reference per handler to come, and one for the sender.  The loops of `broadcast`,
`release_mailbox` and `irqline_handler` are proved by induction over the number of
steps (`LoopInvariant`, on sets of numbers); that a fold is such a loop is a lemma
for each of them.  The kernel functions are those of `KThreadsProofs`: `KCore`
holds in the mailbox too, where no queue belongs to a semaphore.  For the channel,
`Posted` says that a function only adds mails behind those that are queued.

`HeapProofs` proves for every pool and header size that are multiples of
`HEAP_ALIGN` (`HeapAssumption`) and every set of requests: `TypeOK`, `Tiled`,
`HeldUsed`, `Coalesced`, `AvailExact` and `Spec => RefinesAllocator`.  The invariant `HInv` says
of the list that it is typed, tiled, at aligned addresses, coalesced, and that its
used chunks are the held ones.  They need each other: a split stays in its chunk
because the chunk's end is its next pointer; a merge takes the right neighbour
because the list is in address order; that nothing is granted twice needs the
used chunks to be those that are held.  One lemma per list operation (`SplitOK`,
`MergeOK`, `UnusedOK`, ...) speaks of any list, so that `Free`, which merges twice,
composes them.  `AvailExact` counts the bytes in free chunks: because the chunks tile the heap, a
split takes away, and a merge adds, a set of bytes that is disjoint from the rest,
and the counts add up.

`UnitsProofs` has four parts.  For a screen of any size with at least one column
and two rows, registers that can hold its positions, any payloads, keys and drain
limit (`ConsoleAssumption`): `CursorTrue`, `TextReadable` and `KeysKept`.  The
invariant `ScreenInv` says, step by step, what the index and the registers of the CRT
controller hold after each port access as long as no line of `kterm` fell between
them, bounds the positions of the server and the launcher, says that the server
knows the mode of the hardware and that in mode 0x13 the font is saved or nobody can
overwrite it, and that no cell of a readable text shows a frame.  `KeysInv` is apart
from it, since keys and screen meet only in the echo: the scancodes on their way are
in the order they were typed, whatever fails, and they are all there while nothing
did.

For any servers, clients and table: `LookupTrue` and `RightServer`, from the table
being a map from names to what was registered (`MapTable`), which makes the first
hit of `ns_find` the only one, and from every id in a table or a cache being a
portal of its name's server, now or before.

For any pool and objects (`LocksAssumption`): `LocksOwned` and `LocksLost`.  The
invariant says that locks in fields are taken, of the pool, and nobody else's
(`Kept`), and that an object that is not there has no lock in any of its fields: no
address space without its pcb, no mailbox without its thread (`Parts`).  A call either gives free slots to empty fields
(`Takes`) or empties some fields and gives back the locks of some of them (`Drops`);
each action is shown to be one of the two, and a lock is lost exactly when a field
is emptied whose lock is not given back.

For any callers, numbers and sizes up to any `Top` (`GateAssumption`): `Confined` and
`WriteBackBounded` of the gate.  `Confined` speaks of the callers' memory; the
invariant adds the shape of memory, registry and calls, and nothing about the shared
buffer, which may hold anything: `HandledConfined` shows that what a handler sees is the caller's or
zero, because the clearing covers all that the handler knows and not only what the
caller passed.  `WriteBackBounded` is by cases over what becomes of the caller: where
another thread runs behind the call the test of the tid fails, also while CR3 is
still the caller's.

`PagingProofs` proves what `capability.c` decides, for any word size: `InRange` is
inclusion of ranges (`InRangeIsInclusion`), grants neither wrap nor reach the last
address (`GrantsDoNotWrap`), so that `cap_check` allows exactly what one grant
covers (`CheckedIsGranted`), and a child never gets more than its parent
(`InheritedIsLess`).

It also proves the roll-back of page mappings, for any page size, table size, pool
and number of pages.  `MapPagesAllOrNothing`: the loop of `MapPages` maps all of
its pages to their frames and changes no other address, or, when the pool runs out
of tables at any round, leaves every address where it led.  `AllocPagesAllOrNothing`:
`vmm_alloc_pages` takes the run of pages, the region and the mappings, or gives all
three back, whichever of pages, heap and tables runs out.  The argument is by the
MMU's walk: addresses of different pages have different index pairs
(`IndexOfPage`, `PageIndex`), a directory whose tables are in use and its own
(`Directory`) loses no walk when a table is added (`NewTable`) or written
(`WriteTable`), so that one round changes one page (`MapAt`, `UnmapAt`), and the
loops follow by induction on the rounds (`LoopInvariant`).  The tables that a failed
call added stay in the directory, empty: that is what the code does, and why the
theorems speak of walks and not of entries.  The hypotheses (a directory of that
shape, and nothing mapped at the address `FindVa` finds) hold in every state: they
are part of the invariant of `MemoryProofs`.

`MemoryProofs` proves `PagesExact`, `TablesExact`, `PoolExact`, `MappedGranted` and
`KernelClosed` for any page size, table size, memory, pool, modules, images, grants
and number of processes, wherever pages, tables or the kernel heap run out.  They
rest on one invariant of the machine between two system calls (`MemoryInv`), since
none of them is inductive: that an unmap takes away nothing else needs tables that
belong to one directory, that these go back to the pool exactly once needs every
directory to repeat the master's entries, that a page that is freed is nobody else's
needs regions that own disjoint pages, and that nothing maps it any more needs the
shares to be accounted for.  The parts of it:

* `Core(m, X)`.  `Structs`: every slot of the pool in use is a directory or the
  table of exactly one entry, of a process or of the master directory, whose
  entries every directory repeats.  `AllWalks`: from the user heap on, the walk of
  every directory is what its regions say.  `Identity`: the 4 MB pages of the
  master directory.  `PagesSound`: a page is in use exactly if it is the kernel's, a
  module, of the user heap, owned by one region, or in `X`, the pages that the call
  in progress has in its hands: `X` grows in `pmm_alloc_pages`, shrinks when a
  region is added, and is empty again when the call is over, however it ends.
* `Links(m)`.  What a process maps and does not own is a window on one page of
  device memory or a share, whose pages some region owns and whose capability is
  on its list under that address and size; two shares of a process differ in one
  of them, so that revoking one takes nothing from the other; no capability
  reaches a page of the kernel that is not device memory; every stack is an owned
  region.

`InitSound` follows `arch_paging_init` through its three loops and `p_create_ex` of
the first process.  Then there is one lemma per system call, each put together from
lemmas about the C functions it calls, in the order they call each other: what a
function returns when it gives up (`GivesUp`: the processes are as before and
nothing is in its hands that was not) and when it succeeds (`GetsRegion`,
`LosesRegion`, `Grown`, ...).  The loops (regions of an exiting process, its stacks,
segments of an image, grants, modules, pages) are inductions over the rounds.
`StepSound` joins the calls, and each invariant of the run follows from `MemoryInv`
by a lemma of its own.

All of these theorems assume `~ShareToEmpty`: memory is shared only with processes
that have a region, which is how the run `memory` is set up.  Without it the fourth
finding applies: a region may lie below the heap, among the master's entries.  `IdentityStays` is its
counterpart: the sharing with a process without regions is the only way to lose the
identity mapping, every other mix of calls keeps `IdentityIntact`.

Only model-checked: liveness (`ReadyRuns`, `CallReturns`, `MailTaken`) and the
fairness in `RefinesRPC`, which TLAPS cannot do; and the red-black tree (`Ordered`,
`Balanced`), whose fixups and traversals are recursive operators.

## 5. Not modelled, and the plan

Modelled, in this order: `KThreads` and `Sched`, `Portal`, `Mailbox`, `Heap`,
`Capability`, `Paging` and `Memory`, `RBTree`, `Syscall`, `Namespace`, `Console`,
`Locks`.  Next:

1. `Sched` composed with `Portal`: a server or a client that ends in the middle of
   a call.

Left out for good, and why:

* the assembly of the gates, descriptor tables, the PIC's and the PIT's set-up,
  the exception handler's dump and multiboot parsing: straight-line code on
  hardware; that a gate is atomic and ends in the requested switch is what the
  models take from it;
* `string.c`, logging, `kernel/io.c`: byte copying, formatting and port access
  without state; the clock and log servers, which are that around a portal loop;
* lock, trylock and unlock of a spinlock: with one CPU and interrupts off in a
  gate there is no second party, so that nothing could go wrong in a model of
  them;
* `syscall_exit`, `rbtree_destroy` and other exits that only free memory;
* demos, games and API tests, which were read for how the services are used, and
  the bootloader and bare-bones exercises outside `src/osdev`.
