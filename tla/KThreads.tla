------------------------------ MODULE KThreads ------------------------------
(***************************************************************************)
(* The kernel's thread state and the functions of kernel/process.c,        *)
(* kernel/sync/wait_queue.c and kernel/sync/semaphore.c that change it.    *)
(*                                                                         *)
(* The state is one record k, so that an operator here is composed with    *)
(* another one exactly as the C functions call each other inside one gate  *)
(* (a syscall or an interrupt runs with IF = 0 from entry to exit):        *)
(*                                                                         *)
(*   order   thread_head, newest thread first (list_add inserts in front)  *)
(*   run     thread_run                                                    *)
(*   st      tcb.state, "none" before creation and "dead" once freed       *)
(*   pend    tcb.wake_pending                                              *)
(*   parent  tcb.parent                                                    *)
(*   won     tcb.waiting_on                                                *)
(*   wq      the waiters list of each semaphore's wait queue               *)
(*   val     semaphore.value                                               *)
(*   sem,ps  semaphores and processes: "none" before creation, "live"      *)
(*           while on semaphore_head or proc_head, "dead" once freed       *)
(*   ctx,vcb thread_ctx_info: the switch requested in this gate            *)
(*   cur,cr3 curr_task_ctx and the page directory the CPU is on            *)
(***************************************************************************)
EXTENDS Integers, Sequences, FiniteSets

CONSTANTS Tid, Pid, WaitQ, NoThread, NoProc, NoQueue

\* Ids come from counters that only go up; -1 or NULL stands for none.
ASSUME IdsAssumption ==
    /\ Tid \subseteq Nat /\ Pid \subseteq Nat /\ WaitQ \subseteq Nat
    /\ NoThread \notin Tid /\ NoProc \notin Pid /\ NoQueue \notin WaitQ

ThreadState == {"none", "ready", "pending", "dead"}
ObjectState == {"none", "live", "dead"}

\* The counter of the objects with states s stands at id.
Fresh(s, id) == s[id] = "none" /\ \A x \in DOMAIN s : x < id => s[x] # "none"

-----------------------------------------------------------------------------
(* list.h *)

list_add(x, s) == [i \in 1 .. Len(s) + 1 |-> IF i = 1 THEN x ELSE s[i - 1]]

Kept(s, D, i) == {j \in 1 .. i : s[j] \notin D}

\* list_del of every node of D, the others keeping their order.
list_del(D, s) ==
    [n \in 1 .. Cardinality(Kept(s, D, Len(s))) |->
        s[CHOOSE i \in 1 .. Len(s) :
            s[i] \notin D /\ Cardinality(Kept(s, D, i)) = n]]

Members(s) == {s[i] : i \in DOMAIN s}

-----------------------------------------------------------------------------
(* The scheduler: kernel/process.c *)

Live(k) == {t \in Tid : k.st[t] \in {"ready", "pending"}}
ReadyThreads(k) == {t \in Tid : k.st[t] = "ready"}
\* Mutant of ThreadsOf: the threads that are blocked are overlooked.
ThreadsOf_ReadyOnly(k, p) == {t \in ReadyThreads(k) : k.parent[t] = p}

ThreadsOf(k, p) == {t \in Live(k) : k.parent[t] = p}

\* How far the scan that starts behind index i goes before it meets index j.
Distance(s, i, j) == IF j > i THEN j - i ELSE j - i + Len(s)

\* The first member of S that the circular walk of thread_head behind
\* thread_run meets; the walk never comes back to thread_run itself.
IsNext(k, S, t) ==
    /\ t \in S \ {k.run}
    /\ \E i, j \in DOMAIN k.order :
        /\ k.order[i] = k.run /\ k.order[j] = t
        /\ \A m \in DOMAIN k.order :
            k.order[m] \in S \ {k.run} =>
                Distance(k.order, i, j) <= Distance(k.order, i, m)

NextAmong(k, S) ==
    IF \E t \in Tid : IsNext(k, S, t)
    THEN CHOOSE t \in Tid : IsNext(k, S, t)
    ELSE NoThread

\* Mutant of find_next_runnable: the scan starts at the head of thread_head.
find_next_runnable_FromHead(k) ==
    LET S == ReadyThreads(k) \ {k.run}
    IN  IF S = {} THEN NoThread
        ELSE k.order[CHOOSE i \in DOMAIN k.order :
                /\ k.order[i] \in S
                /\ \A j \in 1 .. i - 1 : k.order[j] \notin S]

find_next_runnable(k) == NextAmong(k, ReadyThreads(k))

\* Mutant of SwitchTo: the page directory is not noted.
SwitchTo_SamePageDirectory(k, next) ==
    [k EXCEPT !.run = next, !.pend[next] = FALSE, !.ctx = next, !.vcb = NoProc]

\* find_next_runnable consumes the wakeup of the thread it picks;
\* request_switch_context notes the page directory only across processes.
SwitchTo(k, next) ==
    [k EXCEPT !.run = next,
              !.pend[next] = FALSE,
              !.ctx = next,
              !.vcb = IF k.parent[k.run] # k.parent[next]
                      THEN k.parent[next] ELSE NoProc]

\* What a gate's exit does with the requested switch.
arch_task_context_switch(k) ==
    [k EXCEPT !.cr3 = IF k.vcb # NoProc THEN k.vcb ELSE k.cr3,
              !.cur = IF k.ctx # NoThread THEN k.ctx ELSE k.cur,
              !.ctx = NoThread,
              !.vcb = NoProc]

\* schedule_if_needed and thread_yield_internal
Reschedule(k) ==
    LET next == find_next_runnable(k)
    IN  IF next = NoThread THEN k ELSE SwitchTo(k, next)

thread_block(k, t) ==
    CASE t \notin Live(k) -> k
      [] t \in Live(k) /\ k.pend[t] -> [k EXCEPT !.pend[t] = FALSE]
      [] t \in Live(k) /\ ~k.pend[t] ->
            LET parked == [k EXCEPT !.st[t] = "pending"]
            IN  IF t = k.run THEN Reschedule(parked) ELSE parked

thread_unblock(k, t) ==
    IF t \in Live(k) THEN [k EXCEPT !.st[t] = "ready", !.pend[t] = TRUE] ELSE k

\* Mutant of thread_create_ex: the tid is stored as the parent.
thread_create_ex_TidAsParent(k, t, p, initial) ==
    LET first == k.run = NoThread
    IN  [k EXCEPT !.order = list_add(t, k.order),
                  !.st[t] = IF first THEN "ready" ELSE initial,
                  !.parent[t] = t,
                  !.run = IF first THEN t ELSE k.run,
                  !.cur = IF first THEN t ELSE k.cur,
                  !.cr3 = IF first THEN t ELSE k.cr3]

\* A new thread goes to the front of thread_head; the very first one is made
\* ready and its context and page directory are loaded at once.
thread_create_ex(k, t, p, initial) ==
    LET first == k.run = NoThread
    IN  [k EXCEPT !.order = list_add(t, k.order),
                  !.st[t] = IF first THEN "ready" ELSE initial,
                  !.pend[t] = FALSE,
                  !.parent[t] = p,
                  !.won[t] = NoQueue,
                  !.run = IF first THEN t ELSE k.run,
                  !.cur = IF first THEN t ELSE k.cur,
                  !.cr3 = IF first THEN p ELSE k.cr3]

\* Mutant of FreeThreads: no tcb_detach_wait.
FreeThreads_NoDetach(k, D) ==
    [k EXCEPT !.order = list_del(D, k.order),
              !.st = [t \in Tid |-> IF t \in D THEN "dead" ELSE k.st[t]]]

\* tcb_detach_wait, the list_dels and kfree for every thread of D.
FreeThreads(k, D) ==
    [k EXCEPT !.order = list_del(D, k.order),
              !.st = [t \in Tid |-> IF t \in D THEN "dead" ELSE k.st[t]],
              !.won = [t \in Tid |-> IF t \in D THEN NoQueue ELSE k.won[t]],
              !.wq = [q \in WaitQ |-> list_del(D, k.wq[q])]]

\* Mutant of thread_delete: nothing is run instead of the running thread.
thread_delete_NoSwitch(k, t) ==
    IF t \in Live(k) THEN FreeThreads(k, {t}) ELSE k

\* The running thread is only deleted when another one can run.
thread_delete(k, t) ==
    LET next == find_next_runnable(k)
    IN  CASE t \notin Live(k) -> k
          [] t \in Live(k) /\ t # k.run -> FreeThreads(k, {t})
          [] t \in Live(k) /\ t = k.run ->
                IF next = NoThread THEN k ELSE FreeThreads(SwitchTo(k, next), {t})

\* The thread that goes on when process p exits under the running thread.
ExitNext(k, p) == NextAmong(k, ReadyThreads(k) \ ThreadsOf(k, p))

\* proc_exit_internal frees the threads of p newest first.  Each time it
\* reaches the running one it switches to the next ready thread, again one
\* of p's or not: what remains is the first ready thread outside p behind
\* thread_run.  The switch is committed before the page directory goes.
proc_exit(k, p) ==
    LET dying == ThreadsOf(k, p)
        freed == IF k.run \in dying
                 THEN FreeThreads(SwitchTo(k, ExitNext(k, p)), dying)
                 ELSE FreeThreads(k, dying)
    IN  [arch_task_context_switch(freed) EXCEPT !.ps[p] = "dead"]

-----------------------------------------------------------------------------
(* Wait queues and semaphores: kernel/sync *)

\* Nothing happens when the caller already is on some queue.
wait_queue_sleep(k, q) ==
    IF k.won[k.run] # NoQueue
    THEN k
    ELSE thread_block([k EXCEPT !.won[k.run] = q,
                                !.wq[q] = list_add(k.run, k.wq[q])], k.run)

\* Takes D off queue q and unblocks its threads: each waker picks its D.
Wake(k, q, D) ==
    [k EXCEPT !.wq[q] = list_del(D, k.wq[q]),
              !.won = [t \in Tid |-> IF t \in D THEN NoQueue ELSE k.won[t]],
              !.st = [t \in Tid |-> IF t \in D /\ t \in Live(k) THEN "ready" ELSE k.st[t]],
              !.pend = [t \in Tid |-> IF t \in D /\ t \in Live(k) THEN TRUE ELSE k.pend[t]]]

wait_queue_wake_one(k, q) ==
    IF k.wq[q] = <<>> THEN k ELSE Wake(k, q, {k.wq[q][1]})

wait_queue_wake_by_tid(k, q, t) == Wake(k, q, Members(k.wq[q]) \cap {t})

wait_queue_wake_all(k, q) == Wake(k, q, Members(k.wq[q]))

semaphore_create(k, q) ==
    [k EXCEPT !.sem[q] = "live", !.val[q] = 0, !.wq[q] = <<>>]

semaphore_has_waiters(k, q) == k.wq[q] # <<>>

\* Mutant of semaphore_destroy: it does not look for waiters.
semaphore_destroy_Unchecked(k, q) == [k EXCEPT !.sem[q] = "dead"]

\* Refused with E_BUSY, and then without effect, while someone waits.
semaphore_destroy(k, q) ==
    IF semaphore_has_waiters(k, q) THEN k
    ELSE [k EXCEPT !.sem[q] = "dead"]

\* Mutant of semaphore_wait: the first waiter is let through.
semaphore_wait_OffByOne(k, q) ==
    LET taken == [k EXCEPT !.val[q] = k.val[q] - 1]
    IN  IF taken.val[q] < 0 - 1 THEN wait_queue_sleep(taken, q) ELSE taken

\* An id that semaphore_get does not find is E_INVAL.
semaphore_wait(k, q) ==
    IF k.sem[q] # "live" THEN k
    ELSE LET taken == [k EXCEPT !.val[q] = k.val[q] - 1]
         IN  IF taken.val[q] < 0 THEN wait_queue_sleep(taken, q) ELSE taken

\* Mutant of semaphore_signal: the last waiter is not woken.
semaphore_signal_OffByOne(k, q) ==
    LET given == [k EXCEPT !.val[q] = k.val[q] + 1]
    IN  IF given.val[q] < 0 THEN wait_queue_wake_one(given, q) ELSE given

semaphore_signal(k, q) ==
    IF k.sem[q] # "live" THEN k
    ELSE LET given == [k EXCEPT !.val[q] = k.val[q] + 1]
         IN  IF given.val[q] <= 0 THEN wait_queue_wake_one(given, q) ELSE given

-----------------------------------------------------------------------------
(* What holds of the thread state in every specification built on it. *)

Distinct(s) == \A i, j \in DOMAIN s : s[i] = s[j] => i = j

ThreadsTyped(k) ==
    k \in [order  : Seq(Tid),
          run    : Tid \cup {NoThread},
          st     : [Tid -> ThreadState],
          pend   : [Tid -> BOOLEAN],
          parent : [Tid -> Pid \cup {NoProc}],
          won    : [Tid -> WaitQ \cup {NoQueue}],
          wq     : [WaitQ -> Seq(Tid)],
          val    : [WaitQ -> Int],
          sem    : [WaitQ -> ObjectState],
          ps     : [Pid -> ObjectState],
          ctx    : Tid \cup {NoThread},
          vcb    : Pid \cup {NoProc},
          cur    : Tid \cup {NoThread},
          cr3    : Pid \cup {NoProc}]

\* Every waiters list holds, once each, exactly the live threads whose
\* waiting_on points to it.
QueuesCoherent(k) ==
    \A q \in WaitQ :
        /\ \A t \in Tid : t \in Members(k.wq[q]) <=> t \in Live(k) /\ k.won[t] = q
        /\ Distinct(k.wq[q])

\* Whoever waits does so on a live semaphore, and the value owes the waiters
\* at least as many signals as there are of them.
QueuesCounted(k) ==
    \A q \in WaitQ :
        k.wq[q] # <<>> => k.sem[q] = "live" /\ Len(k.wq[q]) <= 0 - k.val[q]

\* thread_head holds, once each, exactly the live threads, and thread_run is
\* one of them as soon as there is one.
ListCoherent(k) ==
    /\ Members(k.order) = Live(k)
    /\ Distinct(k.order)
    /\ IF k.run = NoThread THEN Live(k) = {} ELSE k.run \in Live(k)

\* The process of a live thread is live.
ParentsLive(k) ==
    \A t \in Live(k) : k.parent[t] \in Pid /\ k.ps[k.parent[t]] = "live"

=============================================================================
