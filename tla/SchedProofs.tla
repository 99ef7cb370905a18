---------------------------- MODULE SchedProofs -----------------------------
(***************************************************************************)
(* The safety properties of Sched hold for any number of threads,          *)
(* processes and semaphores.  The argument: the thread state satisfies     *)
(* KInv between gates (KThreadsProofs), every kernel function keeps it,    *)
(* and a gate is a composition of kernel functions.                        *)
(***************************************************************************)
EXTENDS Sched, KThreadsProofs

\* The inductive invariant: KInv with no switch left to make.
IInv == KInv(k) /\ Clean(k) /\ halted \in BOOLEAN

\* The state kernel start-up leaves satisfies the inductive invariant.
LEMMA InitIInv == Init => IInv
<1> SUFFICES ASSUME Init PROVE IInv
  OBVIOUS
<1>1. ThreadsTyped(k)
  BY DEF Init, ThreadsTyped, ThreadState, ObjectState
<1>2. /\ k.order = <<>> /\ k.run = NoThread /\ k.ctx = NoThread /\ k.vcb = NoProc
      /\ k.cur = NoThread /\ \A t \in Tid : k.st[t] = "none"
      /\ \A q \in WaitQ : k.wq[q] = <<>>
      /\ halted = FALSE
  BY DEF Init
<1>3. Members(<<>>) = {} /\ Distinct(<<>>)
  BY DEF Members, Distinct
<1>4. Live(k) = {}
  BY <1>2 DEF Live
<1>5. QueuesCoherent(k) /\ QueuesCounted(k)
  BY <1>2, <1>3, <1>4 DEF QueuesCoherent, QueuesCounted
<1>6. ListCoherent(k) /\ ParentsLive(k) /\ CpuOwed(k) /\ Clean(k)
  BY <1>2, <1>3, <1>4 DEF ListCoherent, ParentsLive, CpuOwed, Clean
<1> QED BY <1>1, <1>2, <1>5, <1>6 DEF IInv, KInv, KCore

\* What a gate keeps: it is enough that its body keeps KInv.
LEMMA GateIInv ==
    ASSUME NEW new, KInv(new), IInv, Gate(new)
    PROVE  IInv'
<1>1. k' = arch_task_context_switch(new) /\ halted' = halted
  BY DEF Gate
<1>2. KInv(k') /\ Clean(k')
  BY <1>1, CommitInv
<1>3. KInv(k)' /\ Clean(k)'
  BY <1>2 DEF KInv, KCore, Clean, CpuOwed, ParentsLive, ListCoherent, QueuesCounted,
              QueuesCoherent, ThreadsTyped, Live
<1> QED BY <1>1, <1>3 DEF IInv

\* A new thread or a new process with its first thread.
LEMMA CreateStep ==
    ASSUME IInv, NEW t \in Tid,
           \/ ThreadCreate(t)
           \/ \E p \in Pid : ProcCreate(p, t) \/ ProcLoadFails(p, t) \/ ProcCreateFails(p)
    PROVE  IInv'
<1>1. KInv(k) /\ Clean(k) /\ ThreadsTyped(k)
  BY DEF IInv, KInv, KCore
<1>2. CASE ThreadCreate(t)
  <2>1. k.st[t] = "none" /\ k.run # NoThread /\ Gate(thread_create_ex(k, t, k.parent[k.run], "pending"))
    BY <1>2 DEF ThreadCreate, Fresh, Gate
  <2>2. k.parent[k.run] \in Pid /\ k.ps[k.parent[k.run]] = "live"
    BY <1>1, <2>1 DEF KInv, KCore, ListCoherent, ParentsLive
  <2>3. KInv(thread_create_ex(k, t, k.parent[k.run], "pending"))
    BY <1>1, <2>1, <2>2, CreateInv
  <2> QED BY <2>1, <2>3, GateIInv
<1>3. ASSUME NEW p \in Pid, ProcCreate(p, t) PROVE IInv'
  <2> DEFINE k1 == [k EXCEPT !.ps[p] = "live"]
             k2 == thread_create_ex(k1, t, p, "pending")
  <2>1. k.st[t] = "none" /\ k' = arch_task_context_switch(k2) /\ halted' = halted
    BY <1>3 DEF ProcCreate, Fresh
  <2>2. "live" \in ObjectState
    BY DEF ObjectState
  <2>3. KInv(k1) /\ Clean(k1) /\ k1.st = k.st /\ k1.ps[p] = "live"
    BY <1>1, <2>2, ProcStateInv
  <2> HIDE DEF k1
  <2>4. KInv(k2)
    BY <2>1, <2>3, CreateInv
  <2> HIDE DEF k2
  <2>5. KInv(k') /\ Clean(k')
    BY <2>1, <2>4, CommitInv
  <2> QED BY <2>1, <2>5 DEF IInv, KInv, KCore, Clean, CpuOwed, ParentsLive, ListCoherent,
                 QueuesCounted, QueuesCoherent, ThreadsTyped, Live
<1>4. ASSUME NEW p \in Pid, ProcCreateFails(p) PROVE IInv'
  <2>1. k.ps[p] = "none" /\ Gate([k EXCEPT !.ps[p] = "dead"])
    BY <1>4 DEF ProcCreateFails, Fresh
  <2>2. \A u \in Live(k) : k.parent[u] # p
    BY <1>1, <2>1 DEF KInv, KCore, ParentsLive
  <2>3. "dead" \in ObjectState
    BY DEF ObjectState
  <2>4. KInv([k EXCEPT !.ps[p] = "dead"])
    BY <1>1, <2>2, <2>3, ProcStateInv
  <2> QED BY <2>1, <2>4, GateIInv
<1>5. ASSUME NEW p \in Pid, ProcLoadFails(p, t) PROVE IInv'
  <2> DEFINE k1 == [k EXCEPT !.ps[p] = "live"]
             k2 == thread_create_ex(k1, t, p, "pending")
             k3 == FreeThreads(k2, {t})
             k4 == [k3 EXCEPT !.ps[p] = "dead"]
  <2>1. /\ k.ps[p] = "none" /\ k.st[t] = "none" /\ k.run \in Tid /\ k.run # t
        /\ t \notin Live(k) /\ NoThread \notin Tid /\ Gate(k4)
    <3>1. k.run # NoThread /\ k.ps[p] = "none" /\ k.st[t] = "none" /\ Gate(k4)
      BY <1>5 DEF ProcLoadFails, Fresh, Gate
    <3>2. t \notin Live(k)
      BY <3>1 DEF Live
    <3> QED BY <1>1, <3>1, <3>2, IdsAssumption DEF KInv, KCore, ListCoherent, ThreadsTyped
  <2>2. "live" \in ObjectState /\ "dead" \in ObjectState
    BY DEF ObjectState
  <2>3. KInv(k1) /\ Clean(k1) /\ k1.st = k.st /\ k1.ps[p] = "live"
    BY <1>1, <2>2, ProcStateInv
  <2>4. k1.run = k.run /\ k1.parent = k.parent
    BY <1>1 DEF ThreadsTyped
  <2> HIDE DEF k1
  <2>5. KInv(k2)
    BY <2>1, <2>3, CreateInv
  <2>6. k2.run = k.run /\ \A u \in Live(k2) \ {t} : u \in Live(k) /\ k2.parent[u] = k.parent[u]
    BY <2>1, <2>3, <2>4 DEF thread_create_ex, KInv, KCore, ThreadsTyped, Live
  <2> HIDE DEF k2
  <2>7. KInv(k3) /\ Live(k3) = Live(k2) \ {t}
    BY <2>1, <2>5, <2>6, FreeInv
  <2>8. k3.parent = k2.parent
    BY <2>5 DEF FreeThreads, KInv, KCore, ThreadsTyped
  <2> HIDE DEF k3
  <2>9. \A u \in Live(k) : k.parent[u] # p
    BY <1>1, <2>1 DEF KInv, KCore, ParentsLive
  <2>10. \A u \in Live(k3) : k3.parent[u] # p
    BY <2>6, <2>7, <2>8, <2>9
  <2>11. KInv(k4)
    BY <2>2, <2>7, <2>10, ProcStateInv
  <2> HIDE DEF k4
  <2> QED BY <2>1, <2>11, GateIInv
<1> QED BY <1>2, <1>3, <1>4, <1>5

\* proc_exit_internal: the switch away from the dying process is made and
\* committed before its threads and its page directory go.
LEMMA ExitStep ==
    ASSUME IInv, NEW p \in Pid, ProcExit(p)
    PROVE  IInv'
<1> DEFINE dying == ThreadsOf(k, p)
           next == NextAmong(k, ReadyThreads(k) \ dying)
           freed == IF k.run \in dying
                    THEN FreeThreads(SwitchTo(k, next), dying)
                    ELSE FreeThreads(k, dying)
           done == arch_task_context_switch(freed)
           gone == [done EXCEPT !.ps[p] = "dead"]
<1>1. KInv(k) /\ Clean(k) /\ ThreadsTyped(k)
  BY DEF IInv, KInv, KCore
<1>2. k.run # NoThread /\ (k.run \in dying => next # NoThread) /\ Gate(gone)
  BY DEF ProcExit, Gate, proc_exit, ExitNext
<1>3. dying \in SUBSET Tid /\ dying \subseteq Live(k)
  BY DEF ThreadsOf, Live
<1>4. /\ KInv(freed) /\ freed.parent = k.parent
      /\ Live(freed) = Live(k) \ dying
  <2>1. CASE k.run \in dying
    <3> DEFINE k1 == SwitchTo(k, next)
    <3>1. next \in Live(k) /\ next \notin dying
      BY <1>2, <2>1, NextAmongFound DEF ReadyThreads, Live
    <3>2. KInv(k1) /\ Live(k1) = Live(k) /\ k1.run = next /\ k1.parent = k.parent
      BY <1>1, <1>2, <3>1, SwitchToCore DEF KInv, KKeeps
    <3> HIDE DEF k1
    <3>3. KInv(FreeThreads(k1, dying)) /\ Live(FreeThreads(k1, dying)) = Live(k1) \ dying
      BY <1>3, <3>1, <3>2, FreeInv
    <3>4. FreeThreads(k1, dying).parent = k1.parent
      BY <3>2 DEF FreeThreads, KInv, KCore, ThreadsTyped
    <3> QED BY <2>1, <3>2, <3>3, <3>4 DEF k1
  <2>2. CASE k.run \notin dying
    <3> HIDE DEF dying
    <3>1. KInv(FreeThreads(k, dying)) /\ Live(FreeThreads(k, dying)) = Live(k) \ dying
      BY <1>1, <1>3, <2>2, FreeInv
    <3>2. FreeThreads(k, dying).parent = k.parent
      BY <1>1 DEF FreeThreads, ThreadsTyped
    <3> QED BY <2>2, <3>1, <3>2
  <2> QED BY <2>1, <2>2
<1> HIDE DEF freed
<1>5. KInv(done) /\ Live(done) = Live(k) \ dying /\ done.parent = k.parent
  BY <1>4, CommitInv
<1> HIDE DEF done
<1>6. \A t \in Live(done) : done.parent[t] # p
  BY <1>5 DEF ThreadsOf
<1>7. "dead" \in ObjectState
  BY DEF ObjectState
<1>8. KInv(gone)
  BY <1>5, <1>6, <1>7, ProcStateInv
<1> HIDE DEF gone
<1> QED BY <1>2, <1>8, GateIInv

\* Deleting, blocking and unblocking threads and processes.
LEMMA ThreadStep ==
    ASSUME IInv, NEW t \in Tid,
           ThreadDelete(t) \/ ThreadBlock(t) \/ ThreadUnblock(t)
    PROVE  IInv'
<1>1. KInv(k) /\ Clean(k)
  BY DEF IInv
<1>2. CASE ThreadDelete(t)
  <2>1. KInv(thread_delete(k, t)) /\ Gate(thread_delete(k, t))
    BY <1>1, <1>2, DeleteInv DEF ThreadDelete, Gate
  <2> QED BY <2>1, GateIInv
<1>3. CASE ThreadBlock(t)
  <2>1. KInv(thread_block(k, t)) /\ Gate(thread_block(k, t))
    BY <1>1, <1>3, BlockInv DEF ThreadBlock, Gate
  <2> QED BY <2>1, GateIInv
<1>4. CASE ThreadUnblock(t)
  <2>1. KInv(thread_unblock(k, t)) /\ Gate(thread_unblock(k, t))
    BY <1>1, <1>4, UnblockInv DEF ThreadUnblock, Gate
  <2> QED BY <2>1, GateIInv
<1> QED BY <1>2, <1>3, <1>4

\* PROC_BLOCK and PROC_UNBLOCK change only the states of the process's threads.
LEMMA ProcStep ==
    ASSUME IInv, NEW p \in Pid, ProcBlock(p) \/ ProcUnblock(p)
    PROVE  IInv'
<1>1. KInv(k) /\ ThreadsTyped(k)
  BY DEF IInv, KInv, KCore
<1>2. ASSUME NEW s \in {"pending", "ready"},
             Gate([k EXCEPT !.st = [t \in Tid |-> IF t \in ThreadsOf(k, p) THEN s ELSE k.st[t]]])
      PROVE  IInv'
  <2> DEFINE k2 == [k EXCEPT !.st = [t \in Tid |-> IF t \in ThreadsOf(k, p) THEN s ELSE k.st[t]]]
  <2>1. ThreadsTyped(k2)
    BY <1>1 DEF ThreadsTyped, ThreadState
  <2>2. k2.order = k.order /\ k2.run = k.run /\ k2.parent = k.parent
        /\ k2.won = k.won /\ k2.wq = k.wq /\ k2.val = k.val /\ k2.sem = k.sem
        /\ k2.ps = k.ps /\ k2.ctx = k.ctx /\ k2.vcb = k.vcb
        /\ k2.cur = k.cur /\ k2.cr3 = k.cr3
        /\ k2.st = [t \in Tid |-> IF t \in ThreadsOf(k, p) THEN s ELSE k.st[t]]
    BY <1>1 DEF ThreadsTyped
  <2>3. Gate(k2)
    BY <1>2
  <2> HIDE DEF k2
  <2>4. Live(k2) = Live(k)
    BY <2>2 DEF Live, ThreadsOf
  <2>5. KInv(k2)
    BY <1>1, <2>1, <2>2, <2>4, StatesOnly DEF KInv, KKeeps
  <2> QED BY <2>3, <2>5, GateIInv
<1> QED BY <1>2 DEF ProcBlock, ProcUnblock

\* Semaphores and their wait queues.
LEMMA SemStep ==
    ASSUME IInv, NEW q \in WaitQ,
           \/ SemCreate(q) \/ SemDestroy(q) \/ SemWait(q) \/ SemSignal(q)
           \/ WakeAll(q) \/ \E t \in Tid : WakeByTid(q, t)
    PROVE  IInv'
<1>1. KInv(k) /\ Clean(k)
  BY DEF IInv
<1>2. CASE SemCreate(q)
  <2>1. KInv(semaphore_create(k, q)) /\ Gate(semaphore_create(k, q))
    BY <1>1, <1>2, SemaphoreInv DEF SemCreate, Fresh
  <2> QED BY <2>1, GateIInv
<1>3. CASE SemDestroy(q)
  <2>1. KInv(semaphore_destroy(k, q)) /\ Gate(semaphore_destroy(k, q))
    BY <1>1, <1>3, SemaphoreInv DEF SemDestroy
  <2> QED BY <2>1, GateIInv
<1>4. CASE SemWait(q)
  <2>1. KInv(semaphore_wait(k, q)) /\ Gate(semaphore_wait(k, q))
    BY <1>1, <1>4, WaitInv DEF SemWait, Gate
  <2> QED BY <2>1, GateIInv
<1>5. CASE SemSignal(q)
  <2>1. KInv(semaphore_signal(k, q)) /\ Gate(semaphore_signal(k, q))
    BY <1>1, <1>5, SignalInv DEF SemSignal
  <2> QED BY <2>1, GateIInv
<1>6. CASE WakeAll(q)
  <2>1. Members(k.wq[q]) \in SUBSET Members(k.wq[q])
    OBVIOUS
  <2>2. KInv(wait_queue_wake_all(k, q)) /\ Gate(wait_queue_wake_all(k, q))
    BY <1>1, <1>6, <2>1, WakeInv DEF WakeAll, wait_queue_wake_all
  <2> QED BY <2>2, GateIInv
<1>7. ASSUME NEW t \in Tid, WakeByTid(q, t) PROVE IInv'
  <2>1. Members(k.wq[q]) \cap {t} \in SUBSET Members(k.wq[q])
    OBVIOUS
  <2>2. KInv(wait_queue_wake_by_tid(k, q, t)) /\ Gate(wait_queue_wake_by_tid(k, q, t))
    BY <1>1, <1>7, <2>1, WakeInv DEF WakeByTid, wait_queue_wake_by_tid
  <2> QED BY <2>2, GateIInv
<1> QED BY <1>2, <1>3, <1>4, <1>5, <1>6, <1>7

\* Every step of the system keeps the inductive invariant.
LEMMA NextIInv == IInv /\ [Next]_vars => IInv'
<1> SUFFICES ASSUME IInv, [Next]_vars PROVE IInv'
  OBVIOUS
<1>1. CASE ThreadYield \/ schedule_isr
  <2>1. KInv(Reschedule(k)) /\ Gate(Reschedule(k))
    BY <1>1, RescheduleInv DEF IInv, ThreadYield, schedule_isr, Gate
  <2> QED BY <2>1, GateIInv
<1>2. ASSUME NEW p \in Pid, ProcExitHalts(p) PROVE IInv'
  BY <1>2 DEF ProcExitHalts, IInv, KInv, KCore, Clean, CpuOwed, ParentsLive, ListCoherent,
              QueuesCounted, QueuesCoherent, ThreadsTyped, Live
<1>3. CASE UNCHANGED vars
  BY <1>3 DEF vars, IInv, KInv, KCore, Clean, CpuOwed, ParentsLive, ListCoherent,
              QueuesCounted, QueuesCoherent, ThreadsTyped, Live
<1>4. ASSUME NEW p \in Pid, ProcCreateFails(p) PROVE IInv'
  <2>1. Tid # {}
    BY <1>4 DEF ProcCreateFails, Gate, IInv, KInv, KCore, ThreadsTyped
  <2> QED BY <1>4, <2>1, CreateStep
<1> QED BY <1>1, <1>2, <1>3, <1>4, CreateStep, ExitStep, ThreadStep, ProcStep, SemStep DEF Next

\* The inductive invariant holds in every reachable state.
LEMMA SchedIInv == Spec => []IInv
BY InitIInv, NextIInv, PTL DEF Spec

\* The thread state is always well-typed.
THEOREM SchedTypeOK == Spec => []TypeOK
<1>1. IInv => TypeOK
  BY DEF IInv, KInv, KCore, TypeOK
<1> QED BY <1>1, SchedIInv, PTL

\* For any number of threads, processes and semaphores, the waiters lists and
\* the waiting_on pointers agree and no freed tcb is on a list: what
\* tcb_detach_wait and wait_queue_sleep_locked are there for.
THEOREM SchedWaitersCoherent == Spec => []WaitersCoherent
<1>1. IInv => WaitersCoherent
  BY DEF IInv, KInv, KCore, WaitersCoherent
<1> QED BY <1>1, SchedIInv, PTL

\* No waiter is stranded on a freed semaphore or behind a value that would
\* let a signal pass it by (semaphore_wait, _signal, _destroy).
THEOREM SchedWaitersCounted == Spec => []WaitersCounted
<1>1. IInv => WaitersCounted
  BY DEF IInv, KInv, WaitersCounted
<1> QED BY <1>1, SchedIInv, PTL

\* thread_head and thread_run never hold a freed thread, and no live thread
\* is missing from the list (thread_delete_internal, proc_exit_internal).
THEOREM SchedThreadListCoherent == Spec => []ThreadListCoherent
<1>1. IInv => ThreadListCoherent
  BY DEF IInv, KInv, KCore, ThreadListCoherent
<1> QED BY <1>1, SchedIInv, PTL

\* No thread outlives its process (proc_exit_internal, p_create_ex).
THEOREM SchedNoOrphanThread == Spec => []NoOrphanThread
<1>1. IInv => NoOrphanThread
  BY DEF IInv, KInv, KCore, NoOrphanThread
<1> QED BY <1>1, SchedIInv, PTL

\* Between gates the CPU is where thread_run says, on a page directory that
\* has not been destroyed (request_switch_context, arch_task_context_switch).
THEOREM SchedCpuCoherent == Spec => []CpuCoherent
<1>1. IInv => CpuCoherent
  <2> SUFFICES ASSUME IInv PROVE CpuCoherent
    OBVIOUS
  <2>1. k.cur = k.run /\ (k.run # NoThread => k.cr3 = k.parent[k.run]) /\ Clean(k)
    BY DEF IInv, KInv, KCore, CpuOwed, Clean
  <2>2. k.run # NoThread => k.ps[k.parent[k.run]] = "live"
    BY DEF IInv, KInv, KCore, ListCoherent, ParentsLive
  <2> QED BY <2>1, <2>2 DEF CpuCoherent, Clean
<1> QED BY <1>1, SchedIInv, PTL
=============================================================================
