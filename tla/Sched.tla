------------------------------- MODULE Sched --------------------------------
(***************************************************************************)
(* The process and thread services of the kernel: every system call of     *)
(* proc_syscall_exec and the semaphore calls the IPC services make, issued *)
(* in any order by whichever thread is running, and the timer interrupt    *)
(* that preempts it.  One action is one gate: it runs with interrupts off  *)
(* and ends with the context switch that the gate's exit commits.          *)
(***************************************************************************)
EXTENDS KThreads

CONSTANTS MaxOwed, MaxValue     \* TLC bounds: -MaxOwed <= semaphore.value <= MaxValue

ASSUME BoundsAssumption == MaxOwed \in Nat /\ MaxValue \in Nat

VARIABLES
    k,          \* the kernel's thread state, see KThreads
    halted      \* proc_exit_internal found no thread to go on with

vars == <<k, halted>>

Init ==
    /\ k = [order  |-> <<>>,
            run    |-> NoThread,
            st     |-> [t \in Tid |-> "none"],
            pend   |-> [t \in Tid |-> FALSE],
            parent |-> [t \in Tid |-> NoProc],
            won    |-> [t \in Tid |-> NoQueue],
            wq     |-> [q \in WaitQ |-> <<>>],
            val    |-> [q \in WaitQ |-> 0],
            sem    |-> [q \in WaitQ |-> "none"],
            ps     |-> [p \in Pid |-> "none"],
            ctx    |-> NoThread,
            vcb    |-> NoProc,
            cur    |-> NoThread,
            cr3    |-> NoProc]
    /\ halted = FALSE

-----------------------------------------------------------------------------
\* A thread of the system is executing and enters a gate; new is the kernel
\* state the gate's body leaves.
Gate(new) ==
    /\ k.run # NoThread /\ ~halted
    /\ \E n \in {new} : k' = arch_task_context_switch(n)
    /\ UNCHANGED halted

ThreadCreate(t) ==
    Fresh(k.st, t) /\ Gate(thread_create_ex(k, t, k.parent[k.run], "pending"))

ThreadDelete(t) == Gate(thread_delete(k, t))

ThreadYield == Gate(Reschedule(k))

ThreadBlock(t) == Gate(thread_block(k, t))

ThreadUnblock(t) == Gate(thread_unblock(k, t))

\* p_create_ex, called from a gate or by the boot code (no thread yet).
ProcCreate(p, t) ==
    /\ Fresh(k.ps, p) /\ Fresh(k.st, t) /\ ~halted
    /\ k' = arch_task_context_switch(
                thread_create_ex([k EXCEPT !.ps[p] = "live"], t, p, "pending"))
    /\ UNCHANGED halted

\* No memory or no spinlock: the pcb is rolled back and its pid is spent.
ProcCreateFails(p) ==
    Fresh(k.ps, p) /\ Gate([k EXCEPT !.ps[p] = "dead"])

\* proc_load_from_elf_internal whose elf_load fails: the process it created,
\* its thread still blocked, exits again.  When elf_load succeeds it has done
\* what ProcCreate does.
ProcLoadFails(p, t) ==
    LET loading == thread_create_ex([k EXCEPT !.ps[p] = "live"], t, p, "pending")
    IN  /\ Fresh(k.ps, p) /\ Fresh(k.st, t)
        /\ Gate([FreeThreads(loading, {t}) EXCEPT !.ps[p] = "dead"])

ProcExit(p) ==
    /\ k.ps[p] = "live"
    /\ k.run \in ThreadsOf(k, p) => ExitNext(k, p) # NoThread
    /\ Gate(proc_exit(k, p))

\* The running thread's process exits and nothing else can run: the kernel
\* executes hlt with interrupts off, so what is already freed no longer matters.
ProcExitHalts(p) ==
    /\ k.run # NoThread /\ ~halted
    /\ k.run \in ThreadsOf(k, p)
    /\ ExitNext(k, p) = NoThread
    /\ halted' = TRUE
    /\ UNCHANGED k

\* Both leave wake_pending, the wait queues and the running thread alone.
ProcBlock(p) ==
    Gate([k EXCEPT !.st = [t \in Tid |->
        IF t \in ThreadsOf(k, p) THEN "pending" ELSE k.st[t]]])

ProcUnblock(p) ==
    Gate([k EXCEPT !.st = [t \in Tid |->
        IF t \in ThreadsOf(k, p) THEN "ready" ELSE k.st[t]]])

SemCreate(q) == Fresh(k.sem, q) /\ Gate(semaphore_create(k, q))

SemDestroy(q) == k.sem[q] = "live" /\ Gate(semaphore_destroy(k, q))

SemWait(q) == k.sem[q] = "live" /\ k.val[q] > 0 - MaxOwed /\ Gate(semaphore_wait(k, q))

SemSignal(q) == k.sem[q] = "live" /\ k.val[q] < MaxValue /\ Gate(semaphore_signal(k, q))

WakeAll(q) == k.sem[q] = "live" /\ Gate(wait_queue_wake_all(k, q))

WakeByTid(q, t) == k.sem[q] = "live" /\ Gate(wait_queue_wake_by_tid(k, q, t))

\* schedule_isr: the timer tick that ends the time slice.
schedule_isr == Gate(Reschedule(k))

Next ==
    \/ \E t \in Tid : \/ ThreadCreate(t) \/ ThreadDelete(t)
                      \/ ThreadBlock(t) \/ ThreadUnblock(t)
    \/ ThreadYield
    \/ \E p \in Pid : \/ \E t \in Tid : ProcCreate(p, t) \/ ProcLoadFails(p, t)
                      \/ ProcCreateFails(p)
                      \/ ProcExit(p) \/ ProcExitHalts(p)
                      \/ ProcBlock(p) \/ ProcUnblock(p)
    \/ \E q \in WaitQ : \/ SemCreate(q) \/ SemDestroy(q)
                      \/ SemWait(q) \/ SemSignal(q)
                      \/ WakeAll(q) \/ \E t \in Tid : WakeByTid(q, t)
    \/ schedule_isr

\* The timer interrupt is never masked for good: every gate ends, and the PIT
\* fires again.  Nothing is assumed of the threads.
Spec == Init /\ [][Next]_vars /\ WF_vars(schedule_isr)

-----------------------------------------------------------------------------
TypeOK == ThreadsTyped(k) /\ halted \in BOOLEAN

\* The waiters list of a semaphore holds, once each, exactly the threads whose
\* waiting_on points to it, none of them freed: no waker reaches a freed tcb,
\* whatever deletes, exits, spurious unblocks and repeated waits came before
\* (tcb_detach_wait, wait_queue_sleep_locked).
WaitersCoherent == QueuesCoherent(k)

\* A thread waits only on a semaphore that is not freed, and every signal it
\* still needs finds value <= 0 and so wakes someone: no waiter is stranded,
\* and none is overlooked because the value was too high (semaphore_wait,
\* semaphore_signal, semaphore_destroy).
WaitersCounted == QueuesCounted(k)

\* thread_head lists every thread that is not freed, once, and no other; the
\* running thread is one of them: the scheduler never walks into or resumes a
\* freed tcb (thread_delete_internal, proc_exit_internal).
ThreadListCoherent == ListCoherent(k)

\* No thread outlives its process, so request_switch_context never takes the
\* page directory of a freed pcb (proc_exit_internal).
NoOrphanThread == ParentsLive(k)

\* Between gates the CPU is on the context of thread_run and on the page
\* directory of its process, which is never one that vmm_destroy has freed:
\* the lazy switch of request_switch_context and arch_task_context_switch
\* loses no switch, also when one gate requests several.
CpuCoherent ==
    /\ k.cur = k.run
    /\ k.run # NoThread => k.cr3 = k.parent[k.run] /\ k.ps[k.cr3] = "live"
    /\ k.ctx = NoThread /\ k.vcb = NoProc

\* A ready thread gets the CPU, however the others create, block, wake and
\* delete threads, unless it is itself blocked or deleted first or the system
\* halts: the circular scan of find_next_runnable starves nobody.
ReadyRuns ==
    \A t \in Tid : k.st[t] = "ready" ~> (k.run = t \/ k.st[t] # "ready" \/ halted)
=============================================================================
