---------------------------- MODULE PortalProofs ----------------------------
(***************************************************************************)
(* The safety properties of Portal hold for any number of clients, calls   *)
(* and answers, as long as there is a thread that neither is a client nor  *)
(* the server: the thread that can run whenever these sleep.               *)
(***************************************************************************)
EXTENDS Portal, KThreadsProofs

-----------------------------------------------------------------------------
(* The thread state: what the gates of Portal do to queues and semaphores. *)

\* No thread comes or goes, a thread is ready exactly when it is on no queue,
\* and a queue has at most one waiter.
Queued(s) ==
    /\ ThreadsTyped(s)
    /\ Members(s.order) = Tid /\ s.run \in Tid
    /\ \A t \in Tid : s.st[t] = IF s.won[t] = NoQueue THEN "ready" ELSE "pending"
    /\ \A t \in Tid : s.won[t] # NoQueue => s.wq[s.won[t]] = <<t>>
    /\ \A q \in WaitQ : s.wq[q] # <<>> => \E t \in Tid : s.won[t] = q

\* ... and the running thread is not one that sleeps: the state between gates.
Settled(s) == Queued(s) /\ s.won[s.run] = NoQueue /\ s.pend[s.run] = FALSE

\* The fields the rest of the proof looks at.
Keeps(s, s2) == s2.won = s.won /\ s2.wq = s.wq /\ s2.val = s.val /\ s2.sem = s.sem

\* The exit of a gate leaves queues and semaphores alone.
LEMMA CommitSettled ==
    ASSUME NEW s, Settled(s)
    PROVE  /\ Settled(arch_task_context_switch(s))
           /\ Keeps(s, arch_task_context_switch(s))
<1> DEFINE s2 == arch_task_context_switch(s)
<1>1. ThreadsTyped(s)
  BY DEF Settled, Queued
<1>2. /\ s2.order = s.order /\ s2.run = s.run /\ s2.st = s.st /\ s2.pend = s.pend
      /\ s2.won = s.won /\ s2.wq = s.wq /\ s2.val = s.val /\ s2.sem = s.sem
  BY <1>1 DEF ThreadsTyped, arch_task_context_switch
<1>3. ThreadsTyped(s2)
  BY <1>1, ZenonT(60) DEF ThreadsTyped, arch_task_context_switch
<1> HIDE DEF s2
<1>4. Settled(s2) /\ Keeps(s, s2)
  BY <1>2, <1>3 DEF Settled, Queued, Keeps
<1> QED BY <1>4 DEF s2

\* Another thread that is on no queue can take over from one that went to
\* sleep; at the end of a time slice there need not be another one.
LEMMA RescheduleSettled ==
    ASSUME NEW s, Queued(s),
           Settled(s) \/ \E u \in Tid : u # s.run /\ s.won[u] = NoQueue
    PROVE  Settled(Reschedule(s)) /\ Keeps(s, Reschedule(s))
<1> DEFINE next == find_next_runnable(s)
           s2 == SwitchTo(s, next)
<1>1. ThreadsTyped(s) /\ NoThread \notin Tid
  BY IdsAssumption DEF Queued
<1>2. CASE next = NoThread
  <2>1. ASSUME NEW u \in Tid, u # s.run, s.won[u] = NoQueue PROVE FALSE
    <3>1. u \in ReadyThreads(s)
      BY <2>1 DEF Queued, ReadyThreads
    <3>2. s.order \in Seq(Tid) /\ u \in Members(s.order) /\ s.run \in Members(s.order)
      BY <1>1 DEF ThreadsTyped, Queued
    <3>3. next \in Tid
      BY <2>1, <3>1, <3>2, NextFound DEF find_next_runnable
    <3> QED BY <1>1, <1>2, <3>3
  <2>2. Settled(s) /\ Reschedule(s) = s
    BY <1>2, <2>1 DEF Reschedule
  <2> QED BY <2>2 DEF Keeps
<1>3. CASE next # NoThread
  <2>1. next \in Tid /\ s.st[next] = "ready"
    BY <1>3, NextAmongFound DEF find_next_runnable, ReadyThreads
  <2> HIDE DEF next
  <2>2. s.won[next] = NoQueue
    BY <2>1 DEF Queued
  <2>3. /\ s2.order = s.order /\ s2.run = next /\ s2.st = s.st
        /\ s2.pend = [s.pend EXCEPT ![next] = FALSE]
        /\ s2.won = s.won /\ s2.wq = s.wq /\ s2.val = s.val /\ s2.sem = s.sem
    BY <1>1, <2>1 DEF ThreadsTyped, SwitchTo
  <2>4. ThreadsTyped(s2)
    <3>1. s.run \in Tid
      BY DEF Queued
    <3> QED BY <1>1, <2>1, <3>1 DEF ThreadsTyped, SwitchTo
  <2>5. s2.pend[next] = FALSE
    <3>1. s.pend \in [Tid -> BOOLEAN]
      BY <1>1 DEF ThreadsTyped
    <3> QED BY <2>1, <2>3, <3>1
  <2>6. Reschedule(s) = s2
    BY <1>3 DEF Reschedule, next
  <2> HIDE DEF s2
  <2>7. Settled(s2) /\ Keeps(s, s2)
    BY <2>1, <2>2, <2>3, <2>4, <2>5 DEF Settled, Queued, Keeps
  <2> QED BY <2>6, <2>7
<1> QED BY <1>2, <1>3

\* list_add and list_del on a queue of at most one waiter.
LEMMA OneWaiter ==
    ASSUME NEW t \in Tid
    PROVE  list_add(t, <<>>) = <<t>> /\ list_del({t}, <<t>>) = <<>>
<1>1. list_add(t, <<>>) = <<t>>
  BY DEF list_add
<1>2. <<t>> \in Seq(Tid) /\ Members(<<t>>) \cap {t} # {} /\ Len(<<t>>) = 1
  BY DEF Members
<1> DEFINE u == <<t>>
<1> HIDE DEF u
<1>3. u \in Seq(Tid) /\ Members(u) \cap {t} # {} /\ Len(u) = 1
  BY <1>2 DEF u
<1>4. list_del({t}, u) \in Seq(Tid) /\ Len(list_del({t}, u)) < Len(u)
  BY <1>3, ListDel
<1>5. list_del({t}, u) = <<>>
  BY <1>3, <1>4
<1> QED BY <1>1, <1>5 DEF u

\* wait_queue_sleep: the caller is the queue's waiter and another thread runs.
LEMMA SleepSettled ==
    ASSUME NEW s, Settled(s), NEW q \in WaitQ, s.wq[q] = <<>>,
           NEW u \in Tid, u # s.run, s.won[u] = NoQueue
    PROVE  /\ Settled(wait_queue_sleep(s, q))
           /\ wait_queue_sleep(s, q).won = [s.won EXCEPT ![s.run] = q]
           /\ wait_queue_sleep(s, q).wq = [s.wq EXCEPT ![q] = <<s.run>>]
           /\ wait_queue_sleep(s, q).val = s.val
           /\ wait_queue_sleep(s, q).sem = s.sem
<1> DEFINE t == s.run
           s1 == [s EXCEPT !.won[s.run] = q, !.wq[q] = list_add(s.run, s.wq[q])]
           s2 == [s1 EXCEPT !.st[t] = "pending"]
<1>1. /\ ThreadsTyped(s) /\ t \in Tid /\ s.won[t] = NoQueue /\ s.pend[t] = FALSE
      /\ s.st[t] = "ready" /\ NoQueue \notin WaitQ
  BY IdsAssumption DEF Settled, Queued
<1>2. /\ s.won \in [Tid -> WaitQ \cup {NoQueue}] /\ s.wq \in [WaitQ -> Seq(Tid)]
      /\ s.st \in [Tid -> ThreadState]
  BY <1>1 DEF ThreadsTyped
<1>3. list_add(s.run, s.wq[q]) = <<t>> /\ <<t>> \in Seq(Tid)
  <2>1. s.run \in Tid
    BY <1>1
  <2>2. list_add(s.run, <<>>) = <<s.run>>
    BY <2>1, OneWaiter, Zenon
  <2> QED BY <2>1, <2>2
<1>4. /\ s1.order = s.order /\ s1.run = t /\ s1.st = s.st /\ s1.pend = s.pend
      /\ s1.won = [s.won EXCEPT ![t] = q] /\ s1.wq = [s.wq EXCEPT ![q] = <<t>>]
      /\ s1.val = s.val /\ s1.sem = s.sem
  BY <1>1, <1>3 DEF ThreadsTyped
<1>5. ThreadsTyped(s1)
  BY <1>1, <1>3 DEF ThreadsTyped
<1>6. /\ s2.order = s.order /\ s2.run = t /\ s2.st = [s.st EXCEPT ![t] = "pending"]
      /\ s2.won = [s.won EXCEPT ![t] = q] /\ s2.wq = [s.wq EXCEPT ![q] = <<t>>]
      /\ s2.val = s.val /\ s2.sem = s.sem
  <2> HIDE DEF s1
  <2> QED BY <1>4, <1>5 DEF ThreadsTyped
<1>7. ThreadsTyped(s2)
  <2> HIDE DEF s1
  <2> QED BY <1>1, <1>5 DEF ThreadsTyped, ThreadState
<1>8. wait_queue_sleep(s, q) = Reschedule(s2)
  <2>1. t \in Live(s1) /\ ~s1.pend[t]
    BY <1>1, <1>4 DEF Live
  <2>2. wait_queue_sleep(s, q) = thread_block(s1, t)
    BY <1>1 DEF wait_queue_sleep
  <2> HIDE DEF s1
  <2> QED BY <1>4, <2>1, <2>2 DEF thread_block
<1> HIDE DEF s1, s2, t
<1>9. Queued(s2)
  <2>1. \A x \in Tid : s2.st[x] = IF s2.won[x] = NoQueue THEN "ready" ELSE "pending"
    BY <1>1, <1>2, <1>6 DEF Settled, Queued
  <2>2. ASSUME NEW x \in Tid, s.won[x] = q PROVE FALSE
    <3>1. s.wq[q] = <<x>>
      BY <1>1, <2>2 DEF Settled, Queued
    <3> QED BY <3>1
  <2>3. ASSUME NEW x \in Tid, s2.won[x] # NoQueue PROVE s2.wq[s2.won[x]] = <<x>>
    <3>1. CASE x = t
      BY <1>1, <1>2, <1>6, <3>1
    <3>2. CASE x # t
      BY <1>1, <1>2, <1>6, <2>2, <2>3, <3>2 DEF Settled, Queued
    <3> QED BY <3>1, <3>2
  <2>4. ASSUME NEW p \in WaitQ, s2.wq[p] # <<>> PROVE \E x \in Tid : s2.won[x] = p
    <3>1. CASE p = q
      BY <1>1, <1>2, <1>6, <3>1
    <3>2. CASE p # q
      <4>1. PICK x \in Tid : s.won[x] = p
        BY <1>2, <1>6, <2>4, <3>2 DEF Settled, Queued
      <4>2. s2.won[x] = p
        BY <1>1, <1>2, <1>6, <4>1
      <4> QED BY <4>2
    <3> QED BY <3>1, <3>2
  <2>5. Members(s2.order) = Tid /\ s2.run \in Tid
    BY <1>1, <1>6 DEF Settled, Queued
  <2> QED BY <1>7, <2>1, <2>3, <2>4, <2>5 DEF Queued
<1>10. u # s2.run /\ s2.won[u] = NoQueue
  BY <1>2, <1>6 DEF t
<1>11. Settled(Reschedule(s2)) /\ Keeps(s2, Reschedule(s2))
  BY <1>9, <1>10, RescheduleSettled
<1> QED BY <1>6, <1>8, <1>11 DEF Keeps, t

\* wait_queue_wake_one: the only waiter is ready again and on no queue.
LEMMA WakeSettled ==
    ASSUME NEW s, Settled(s), NEW q \in WaitQ, NEW t \in Tid, s.wq[q] = <<t>>
    PROVE  /\ Settled(wait_queue_wake_one(s, q))
           /\ wait_queue_wake_one(s, q).won = [s.won EXCEPT ![t] = NoQueue]
           /\ wait_queue_wake_one(s, q).wq = [s.wq EXCEPT ![q] = <<>>]
           /\ wait_queue_wake_one(s, q).val = s.val
           /\ wait_queue_wake_one(s, q).sem = s.sem
<1> DEFINE s2 == Wake(s, q, {t})
<1>1. ThreadsTyped(s) /\ NoQueue \notin WaitQ
  BY IdsAssumption DEF Settled, Queued
<1>2. /\ s.won \in [Tid -> WaitQ \cup {NoQueue}] /\ s.wq \in [WaitQ -> Seq(Tid)]
      /\ s.st \in [Tid -> ThreadState] /\ s.pend \in [Tid -> BOOLEAN]
  BY <1>1 DEF ThreadsTyped
<1>3. s.won[t] = q
  <2>1. PICK x \in Tid : s.won[x] = q
    BY DEF Settled, Queued
  <2>2. s.wq[q] = <<x>>
    BY <1>1, <2>1 DEF Settled, Queued
  <2> QED BY <2>1, <2>2
<1>4. t # s.run /\ t \in Live(s)
  BY <1>1, <1>3 DEF Settled, Queued, Live
<1>5. list_del({t}, s.wq[q]) = <<>> /\ <<>> \in Seq(Tid)
  BY OneWaiter
<1>6. wait_queue_wake_one(s, q) = s2
  BY DEF wait_queue_wake_one
<1>7. /\ s2.order = s.order /\ s2.run = s.run
      /\ s2.won = [x \in Tid |-> IF x \in {t} THEN NoQueue ELSE s.won[x]]
      /\ s2.st = [x \in Tid |-> IF x \in {t} /\ x \in Live(s) THEN "ready" ELSE s.st[x]]
      /\ s2.pend = [x \in Tid |-> IF x \in {t} /\ x \in Live(s) THEN TRUE ELSE s.pend[x]]
      /\ s2.wq = [s.wq EXCEPT ![q] = <<>>]
      /\ s2.val = s.val /\ s2.sem = s.sem
  BY <1>1, <1>5 DEF Wake, ThreadsTyped
<1>8. ThreadsTyped(s2)
  BY <1>1, <1>5 DEF Wake, ThreadsTyped, ThreadState
<1> HIDE DEF s2
<1>9. s2.won = [s.won EXCEPT ![t] = NoQueue]
  BY <1>2, <1>7
<1>10. s2.pend[s2.run] = FALSE /\ s2.won[s2.run] = NoQueue
  <2>1. s.run \in Tid /\ s.pend[s.run] = FALSE /\ s.won[s.run] = NoQueue
    BY DEF Settled, Queued
  <2> QED BY <1>4, <1>7, <2>1
<1>11. Queued(s2)
  <2>1. \A x \in Tid : s2.st[x] = IF s2.won[x] = NoQueue THEN "ready" ELSE "pending"
    BY <1>4, <1>7 DEF Settled, Queued
  <2>2. ASSUME NEW x \in Tid, s2.won[x] # NoQueue PROVE s2.wq[s2.won[x]] = <<x>>
    <3>1. x # t /\ s2.won[x] = s.won[x] /\ s.won[x] \in WaitQ
      BY <1>2, <1>7, <2>2
    <3>2. s.wq[s.won[x]] = <<x>>
      BY <1>1, <3>1 DEF Settled, Queued
    <3>3. s.won[x] # q
      BY <3>1, <3>2
    <3> QED BY <1>2, <1>7, <3>1, <3>2, <3>3
  <2>3. ASSUME NEW p \in WaitQ, s2.wq[p] # <<>> PROVE \E x \in Tid : s2.won[x] = p
    <3>1. p # q /\ s.wq[p] # <<>>
      BY <1>2, <1>7, <2>3
    <3>2. PICK x \in Tid : s.won[x] = p
      BY <3>1 DEF Settled, Queued
    <3> QED BY <1>2, <1>3, <1>7, <3>1, <3>2
  <2>4. Members(s2.order) = Tid /\ s2.run \in Tid
    BY <1>7 DEF Settled, Queued
  <2> QED BY <1>8, <2>1, <2>2, <2>3, <2>4 DEF Queued
<1> QED BY <1>6, <1>7, <1>9, <1>10, <1>11 DEF Settled

\* Values and semaphores come and go without the queues.
LEMMA ValueSettled ==
    ASSUME NEW s, Settled(s), NEW q \in WaitQ, NEW v \in Int
    PROVE  /\ Settled([s EXCEPT !.val[q] = v])
           /\ [s EXCEPT !.val[q] = v].val = [s.val EXCEPT ![q] = v]
           /\ [s EXCEPT !.val[q] = v].won = s.won
           /\ [s EXCEPT !.val[q] = v].wq = s.wq
           /\ [s EXCEPT !.val[q] = v].sem = s.sem
           /\ [s EXCEPT !.val[q] = v].run = s.run
<1> DEFINE s2 == [s EXCEPT !.val[q] = v]
<1>1. ThreadsTyped(s)
  BY DEF Settled, Queued
<1>2. /\ s2.order = s.order /\ s2.run = s.run /\ s2.st = s.st /\ s2.pend = s.pend
      /\ s2.won = s.won /\ s2.wq = s.wq /\ s2.sem = s.sem
      /\ s2.val = [s.val EXCEPT ![q] = v]
  BY <1>1 DEF ThreadsTyped
<1>3. ThreadsTyped(s2)
  BY <1>1, ValueTyped
<1> HIDE DEF s2
<1>4. Settled(s2)
  BY <1>2, <1>3 DEF Settled, Queued
<1> QED BY <1>2, <1>4 DEF s2

\* Any states of the semaphores will do as well.
LEMMA SemSettled ==
    ASSUME NEW s, Settled(s), NEW f \in [WaitQ -> ObjectState]
    PROVE  /\ Settled([s EXCEPT !.sem = f])
           /\ [s EXCEPT !.sem = f].sem = f
           /\ [s EXCEPT !.sem = f].val = s.val
           /\ [s EXCEPT !.sem = f].won = s.won
           /\ [s EXCEPT !.sem = f].wq = s.wq
<1> DEFINE s2 == [s EXCEPT !.sem = f]
<1>1. ThreadsTyped(s)
  BY DEF Settled, Queued
<1>2. /\ s2.order = s.order /\ s2.run = s.run /\ s2.st = s.st /\ s2.pend = s.pend
      /\ s2.won = s.won /\ s2.wq = s.wq /\ s2.sem = f /\ s2.val = s.val
  BY <1>1 DEF ThreadsTyped
<1>3. ThreadsTyped(s2)
  BY <1>1 DEF ThreadsTyped
<1> HIDE DEF s2
<1>4. Settled(s2)
  BY <1>2, <1>3 DEF Settled, Queued
<1> QED BY <1>2, <1>4 DEF s2

\* semaphore_create, for a semaphore nobody waits on.
LEMMA CreateSettled ==
    ASSUME NEW s, Settled(s), NEW q \in WaitQ, s.wq[q] = <<>>
    PROVE  /\ Settled(semaphore_create(s, q))
           /\ semaphore_create(s, q).sem = [s.sem EXCEPT ![q] = "live"]
           /\ semaphore_create(s, q).val = [s.val EXCEPT ![q] = 0]
           /\ semaphore_create(s, q).won = s.won
           /\ semaphore_create(s, q).wq = s.wq
<1> DEFINE v == 0
           s1 == [s EXCEPT !.val[q] = v]
           f == [s.sem EXCEPT ![q] = "live"]
           s2 == [s1 EXCEPT !.sem = f]
<1>1. ThreadsTyped(s)
  BY DEF Settled, Queued
<1>2. semaphore_create(s, q) = s2
  <2>1. s.wq = [s.wq EXCEPT ![q] = <<>>]
    BY <1>1 DEF ThreadsTyped
  <2> QED BY <1>1, <2>1 DEF semaphore_create, ThreadsTyped
<1>3. f \in [WaitQ -> ObjectState]
  BY <1>1 DEF ThreadsTyped, ObjectState
<1>4. /\ Settled(s1) /\ s1.won = s.won /\ s1.wq = s.wq
      /\ s1.val = [s.val EXCEPT ![q] = v] /\ v \in Int
  <2>1. v \in Int
    OBVIOUS
  <2> HIDE DEF v
  <2> QED BY <2>1, ValueSettled
<1> HIDE DEF s1, f
<1>5. /\ Settled(s2) /\ s2.sem = f /\ s2.val = s1.val /\ s2.won = s1.won
      /\ s2.wq = s1.wq
  BY <1>3, <1>4, SemSettled
<1> QED BY <1>2, <1>4, <1>5 DEF f

\* semaphore_destroy, for a semaphore nobody waits on.
LEMMA DestroySettled ==
    ASSUME NEW s, Settled(s), NEW q \in WaitQ, s.wq[q] = <<>>
    PROVE  /\ Settled(semaphore_destroy(s, q))
           /\ semaphore_destroy(s, q).sem = [s.sem EXCEPT ![q] = "dead"]
           /\ semaphore_destroy(s, q).val = s.val
           /\ semaphore_destroy(s, q).won = s.won
           /\ semaphore_destroy(s, q).wq = s.wq
<1> DEFINE f == [s.sem EXCEPT ![q] = "dead"]
           s2 == [s EXCEPT !.sem = f]
<1>1. ThreadsTyped(s)
  BY DEF Settled, Queued
<1>2. semaphore_destroy(s, q) = s2
  BY <1>1 DEF semaphore_destroy, semaphore_has_waiters, ThreadsTyped
<1>3. f \in [WaitQ -> ObjectState]
  BY <1>1 DEF ThreadsTyped, ObjectState
<1> HIDE DEF f
<1>4. /\ Settled(s2) /\ s2.sem = f /\ s2.val = s.val /\ s2.won = s.won /\ s2.wq = s.wq
  BY <1>3, SemSettled
<1> QED BY <1>2, <1>4 DEF f

\* semaphore_wait takes one and sleeps when there was none to take.
LEMMA WaitSettled ==
    ASSUME NEW s, Settled(s), NEW q \in WaitQ, s.sem[q] = "live",
           s.wq[q] = <<>>, NEW u \in Tid, u # s.run, s.won[u] = NoQueue
    PROVE  /\ Settled(semaphore_wait(s, q))
           /\ semaphore_wait(s, q).sem = s.sem
           /\ semaphore_wait(s, q).val = [s.val EXCEPT ![q] = s.val[q] - 1]
           /\ semaphore_wait(s, q).won =
                IF s.val[q] <= 0 THEN [s.won EXCEPT ![s.run] = q] ELSE s.won
           /\ semaphore_wait(s, q).wq =
                IF s.val[q] <= 0 THEN [s.wq EXCEPT ![q] = <<s.run>>] ELSE s.wq
<1> DEFINE v == s.val[q] - 1
           s1 == [s EXCEPT !.val[q] = v]
<1>1. s.val \in [WaitQ -> Int]
  BY DEF Settled, Queued, ThreadsTyped
<1>2. s.val[q] \in Int /\ v \in Int
  BY <1>1
<1>3. /\ Settled(s1) /\ s1.won = s.won /\ s1.wq = s.wq /\ s1.sem = s.sem
      /\ s1.run = s.run /\ s1.val = [s.val EXCEPT ![q] = v] /\ s1.val[q] = v
  <2> HIDE DEF v
  <2> QED BY <1>1, <1>2, ValueSettled
<1>4. semaphore_wait(s, q) = IF s1.val[q] < 0 THEN wait_queue_sleep(s1, q) ELSE s1
  BY DEF semaphore_wait
<1>5. s1.val[q] < 0 <=> s.val[q] <= 0
  BY <1>2, <1>3
<1> HIDE DEF s1
<1>6. CASE s.val[q] <= 0
  <2>1. s1.wq[q] = <<>> /\ u # s1.run /\ s1.won[u] = NoQueue
    BY <1>3
  <2> QED BY <1>3, <1>4, <1>5, <1>6, <2>1, SleepSettled
<1>7. CASE ~(s.val[q] <= 0)
  BY <1>3, <1>4, <1>5, <1>7
<1> QED BY <1>6, <1>7

\* semaphore_signal gives one, to the waiter if there is one.
LEMMA SignalSettled ==
    ASSUME NEW s, Settled(s), NEW q \in WaitQ, s.sem[q] = "live", NEW t \in Tid,
           s.wq[q] = IF s.val[q] < 0 THEN <<t>> ELSE <<>>
    PROVE  /\ Settled(semaphore_signal(s, q))
           /\ semaphore_signal(s, q).sem = s.sem
           /\ semaphore_signal(s, q).val = [s.val EXCEPT ![q] = s.val[q] + 1]
           /\ semaphore_signal(s, q).won =
                IF s.val[q] < 0 THEN [s.won EXCEPT ![t] = NoQueue] ELSE s.won
           /\ semaphore_signal(s, q).wq =
                IF s.val[q] < 0 THEN [s.wq EXCEPT ![q] = <<>>] ELSE s.wq
<1> DEFINE v == s.val[q] + 1
           s1 == [s EXCEPT !.val[q] = v]
<1>1. s.val \in [WaitQ -> Int]
  BY DEF Settled, Queued, ThreadsTyped
<1>2. s.val[q] \in Int /\ v \in Int
  BY <1>1
<1>3. /\ Settled(s1) /\ s1.won = s.won /\ s1.wq = s.wq /\ s1.sem = s.sem
      /\ s1.run = s.run /\ s1.val = [s.val EXCEPT ![q] = v] /\ s1.val[q] = v
  <2> HIDE DEF v
  <2> QED BY <1>1, <1>2, ValueSettled
<1>4. semaphore_signal(s, q) = IF s1.val[q] <= 0 THEN wait_queue_wake_one(s1, q) ELSE s1
  BY DEF semaphore_signal
<1>5. s.val[q] < 0 <=> s1.val[q] <= 0
  BY <1>2, <1>3
<1> HIDE DEF s1
<1>6. CASE s.val[q] < 0
  <2>1. s1.wq[q] = <<t>>
    BY <1>3, <1>6
  <2> QED BY <1>3, <1>4, <1>5, <1>6, <2>1, WakeSettled
<1>7. CASE ~(s.val[q] < 0)
  BY <1>3, <1>4, <1>5, <1>7
<1> QED BY <1>6, <1>7

-----------------------------------------------------------------------------
(* The inductive invariant. *)

Steps == {"init", "wait", "get_req", "reply", "compute", "idle", "listen", "take",
          "wait_reply", "get_result", "cleanup"}

\* The type invariant of Portal's own state.
Typed ==
    /\ portal \in ObjectState
    /\ reqs \in Seq(Reqs) /\ Distinct(reqs)
    /\ req \in [Reqs -> [st : ObjectState, client : Tid \cup {NoThread},
                         dequeued : BOOLEAN, resp : Rets \cup {NoReply}]]
    /\ pc \in [Tid -> Steps]
    /\ hold \in [Tid -> Reqs \cup {NoReq}]
    /\ \A t \in Tid \ (Clients \cup {Server}) : hold[t] = NoReq
    /\ result \in [Clients -> Rets \cup {NoReply}]

\* Who sleeps, and on what.
Sleepers ==
    \A t \in Tid : k.won[t] # NoQueue =>
        \/ t = Server /\ pc[t] = "get_req" /\ k.won[t] = ReqSem
        \/ t \in Clients /\ pc[t] = "get_result" /\ k.won[t] = hold[t]
        \/ t \in Clients /\ pc[t] = "take" /\ k.won[t] = MailQ(t)

\* A client has a handle from CALL to CLEANUP, to a request of its own that is
\* freed under it only by DESTROY, and then before it asked for the reply.
InCall == {"wait_reply", "get_result", "cleanup"}

ClientInv(c) ==
    /\ pc[c] \in InCall <=> hold[c] \in Reqs
    /\ hold[c] \in Reqs =>
        /\ req[hold[c]].client = c
        /\ \/ req[hold[c]].st = "live"
           \/ req[hold[c]].st = "dead" /\ pc[c] = "wait_reply" /\ portal = "dead"
    /\ pc[c] = "cleanup" => result[c] \in Rets

\* The value of done_sem: one for the reply that was given, less one for the
\* client that asked for it.
Owed(r) == (IF req[r].resp = NoReply THEN 0 ELSE 1)
            - (IF pc[req[r].client] = "wait_reply" THEN 0 ELSE 1)

LiveReq(r) ==
    /\ req[r].client \in Clients /\ hold[req[r].client] = r /\ portal # "none"
    /\ k.sem[r] = "live" /\ k.val[r] = Owed(r)
    /\ k.wq[r] = IF k.val[r] < 0 THEN <<req[r].client>> ELSE <<>>
    /\ pc[req[r].client] = "cleanup" => req[r].resp # NoReply
    /\ req[r].resp # NoReply => req[r].dequeued

ReqInv(r) ==
    /\ r \in Members(reqs) <=> req[r].st = "live" /\ ~req[r].dequeued
    /\ hold[Server] = r <=>
            req[r].st = "live" /\ req[r].dequeued /\ req[r].resp = NoReply
    /\ IF req[r].st = "live" THEN LiveReq(r) ELSE k.wq[r] = <<>> /\ k.sem[r] # "live"

\* The value of req_sem: one for each request on the list, less one for the
\* server that is about to take one off.
ServerInv ==
    /\ pc[Server] \in {"init", "wait", "get_req", "reply", "compute"}
    /\ pc[Server] = "reply" <=> hold[Server] \in Reqs
    /\ k.sem[ReqSem] = portal
    /\ portal = "none" <=> pc[Server] = "init"
    /\ portal = "dead" <=> pc[Server] = "compute"
    /\ IF portal = "live"
       THEN /\ k.val[ReqSem] = Cardinality(Members(reqs))
                                - (IF pc[Server] = "get_req" THEN 1 ELSE 0)
            /\ k.wq[ReqSem] = IF k.val[ReqSem] < 0 THEN <<Server>> ELSE <<>>
       ELSE reqs = <<>> /\ k.wq[ReqSem] = <<>>

IInv ==
    /\ Settled(k) /\ Typed /\ Sleepers /\ ServerInv
    /\ \A c \in Clients : ClientInv(c)
    /\ \A r \in Reqs : ReqInv(r)

\* The queues are different ones.
LEMMA Queues ==
    /\ ReqSem \in WaitQ /\ Reqs \subseteq WaitQ /\ ReqSem \notin Reqs
    /\ \A c \in Clients : MailQ(c) \in WaitQ \ (Reqs \cup {ReqSem})
    /\ \A c, d \in Clients : MailQ(c) = MailQ(d) => c = d
    /\ NoQueue \notin WaitQ /\ NoReq \notin Reqs /\ NoReply \notin Rets
    /\ Server \in Tid \ Clients /\ Clients \subseteq Tid
    /\ \A r : DoneSem(r) = r
<1>1. Tid \subseteq Nat /\ Clients \subseteq Tid /\ MaxReqs \in Nat
  BY PortalAssumption, IdsAssumption
<1> QED BY <1>1, PortalAssumption, IdsAssumption DEF ReqSem, Reqs, MailQ, DoneSem

\* The requests on the list are a finite set, whose size the list_adds and
\* list_dels change by one.
LEMMA Listed ==
    ASSUME NEW s \in Seq(Reqs)
    PROVE  /\ IsFiniteSet(Members(s)) /\ Cardinality(Members(s)) \in Nat
           /\ Members(s) \subseteq Reqs
           /\ s = <<>> <=> Members(s) = {}
           /\ s = <<>> <=> Cardinality(Members(s)) = 0
           /\ \A r \in Reqs \ Members(s) :
                Cardinality(Members(s) \cup {r}) = Cardinality(Members(s)) + 1
           /\ \A r \in Members(s) :
                Cardinality(Members(s) \ {r}) = Cardinality(Members(s)) - 1
<1>1. Members(s) \subseteq Reqs
  BY DEF Members
<1>2. IsFiniteSet(Reqs)
  BY PortalAssumption, FS_Interval DEF Reqs
<1>3. IsFiniteSet(Members(s)) /\ Cardinality(Members(s)) \in Nat
  BY <1>1, <1>2, FS_Subset, FS_CardinalityType
<1>4. s = <<>> <=> Members(s) = {}
  <2>1. ASSUME Members(s) = {} PROVE s = <<>>
    <3>1. Len(s) \in Nat /\ DOMAIN s = 1 .. Len(s)
      OBVIOUS
    <3>2. 1 \notin DOMAIN s
      BY <2>1 DEF Members
    <3>3. Len(s) = 0
      BY <3>1, <3>2
    <3> QED BY <3>3
  <2>2. Members(<<>>) = {}
    BY DEF Members
  <2> QED BY <2>1, <2>2
<1>5. Members(s) = {} <=> Cardinality(Members(s)) = 0
  BY <1>3, FS_EmptySet
<1> DEFINE M == Members(s)
<1> HIDE DEF M
<1>6. IsFiniteSet(M)
  BY <1>3 DEF M
<1>7. \A r \in Reqs \ M : Cardinality(M \cup {r}) = Cardinality(M) + 1
  BY <1>6, FS_AddElement
<1>8. \A r \in M : Cardinality(M \ {r}) = Cardinality(M) - 1
  BY <1>6, FS_RemoveElement
<1> QED BY <1>1, <1>3, <1>4, <1>5, <1>7, <1>8 DEF M

\* A gate whose body leaves a settled thread state.
LEMMA GateSettled ==
    ASSUME NEW new, Settled(new), Gate(new)
    PROVE  Settled(k)' /\ Keeps(new, k')
<1>1. k' = arch_task_context_switch(new)
  BY DEF Gate
<1>2. Settled(k') /\ Keeps(new, k')
  BY <1>1, CommitSettled
<1> QED BY <1>2 DEF Settled, Queued, ThreadsTyped

\* After boot nobody sleeps and there is no portal.
LEMMA InitIInv == Init => IInv
<1> SUFFICES ASSUME Init PROVE IInv
  OBVIOUS
<1>1. PICK s \in Orders, t \in Tid :
        k = [order  |-> s,
             run    |-> t,
             st     |-> [u \in Tid |-> "ready"],
             pend   |-> [u \in Tid |-> FALSE],
             parent |-> [u \in Tid |-> u],
             won    |-> [u \in Tid |-> NoQueue],
             wq     |-> [q \in WaitQ |-> <<>>],
             val    |-> [q \in WaitQ |-> 0],
             sem    |-> [q \in WaitQ |-> "none"],
             ps     |-> [p \in Pid |-> "live"],
             ctx    |-> NoThread,
             vcb    |-> NoProc,
             cur    |-> t,
             cr3    |-> t]
  BY DEF Init
<1>2. s \in Seq(Tid) /\ Members(s) = Tid /\ Pid = Tid
  <2>1. Cardinality(Tid) \in Nat
    BY PortalAssumption, FS_CardinalityType
  <2> QED BY <2>1, PortalAssumption
<1>3. Settled(k)
  <2>1. ThreadsTyped(k)
    BY <1>1, <1>2 DEF ThreadsTyped, ThreadState, ObjectState
  <2> QED BY <1>1, <1>2, <2>1 DEF Settled, Queued
<1>4. /\ \A u \in Tid : hold[u] = NoReq /\ k.won[u] = NoQueue
      /\ \A q \in WaitQ : k.wq[q] = <<>> /\ k.sem[q] = "none"
      /\ \A r \in Reqs : req[r].st = "none"
      /\ portal = "none" /\ reqs = <<>> /\ pc[Server] = "init"
      /\ \A c \in Clients : pc[c] = "idle"
  BY <1>1, Queues DEF Init
<1>5. Typed
  <2>1. req \in [Reqs -> [st : ObjectState, client : Tid \cup {NoThread},
                          dequeued : BOOLEAN, resp : Rets \cup {NoReply}]]
    BY DEF Init, ObjectState
  <2>2. pc \in [Tid -> Steps]
    <3> DEFINE at(x) == CASE x = Server -> "init"
                          [] x \in Clients -> "idle"
                          [] OTHER -> "compute"
    <3>1. ASSUME NEW x \in Tid PROVE at(x) \in Steps
      <4>1. CASE x = Server
        BY <4>1, Queues DEF Steps
      <4>2. CASE x \in Clients
        BY <4>2, Queues DEF Steps
      <4>3. CASE x # Server /\ x \notin Clients
        BY <4>3 DEF Steps
      <4> QED BY <4>1, <4>2, <4>3
    <3>2. pc = [x \in Tid |-> at(x)]
      BY DEF Init
    <3> HIDE DEF at
    <3> QED BY <3>1, <3>2
  <2> QED BY <2>1, <2>2 DEF Init, Typed, ObjectState, Distinct
<1>6. Members(reqs) = {}
  BY <1>4 DEF Members
<1>7. Sleepers /\ ServerInv
  BY <1>4, Queues DEF Sleepers, ServerInv
<1>8. ASSUME NEW c \in Clients PROVE ClientInv(c)
  BY <1>4, Queues DEF ClientInv, InCall
<1>9. ASSUME NEW r \in Reqs PROVE ReqInv(r)
  BY <1>4, <1>6, Queues DEF ReqInv
<1> QED BY <1>3, <1>5, <1>7, <1>8, <1>9 DEF IInv

\* What the invariant says of the functions the thread state is made of.
LEMMA Fields ==
    ASSUME IInv
    PROVE  /\ Settled(k) /\ Typed /\ Sleepers /\ ServerInv
           /\ \A c \in Clients : ClientInv(c)
           /\ \A r \in Reqs : ReqInv(r)
           /\ k.run \in Tid /\ k.won[k.run] = NoQueue
           /\ k.won \in [Tid -> WaitQ \cup {NoQueue}]
           /\ k.wq \in [WaitQ -> Seq(Tid)]
           /\ k.val \in [WaitQ -> Int]
           /\ k.sem \in [WaitQ -> ObjectState]
BY DEF IInv, Settled, Queued, ThreadsTyped

\* A request keeps its invariant when nothing about it and its client changes.
LEMMA ReqFrame ==
    ASSUME IInv, NEW q \in Reqs, req'[q] = req[q],
           q \in Members(reqs)' <=> q \in Members(reqs),
           hold'[Server] = q <=> hold[Server] = q,
           k'.wq[q] = k.wq[q], k'.val[q] = k.val[q], k'.sem[q] = k.sem[q],
           portal # "none" => portal' # "none",
           \A d \in Clients : hold[d] = q => hold'[d] = q /\ pc'[d] = pc[d]
    PROVE  ReqInv(q)'
<1>1. CASE req[q].st = "live"
  <2>1. LiveReq(q)
    BY <1>1, Fields DEF ReqInv
  <2> DEFINE d == req[q].client
  <2>2. d \in Clients /\ hold[d] = q /\ hold'[d] = q /\ pc'[d] = pc[d]
    BY <2>1 DEF LiveReq
  <2>3. req'[q].client = d
    OBVIOUS
  <2>4. Owed(q)' = Owed(q)
    BY <2>2, <2>3 DEF Owed
  <2>5. LiveReq(q)'
    BY <2>1, <2>2, <2>3, <2>4 DEF LiveReq
  <2> QED BY <1>1, <2>5, Fields DEF ReqInv
<1>2. CASE req[q].st # "live"
  BY <1>2, Fields DEF ReqInv
<1> QED BY <1>1, <1>2

\* INIT: the portal comes with a semaphore that stands at zero.
LEMMA InitStep ==
    ASSUME IInv, PortalInit PROVE IInv'
<1>1. /\ k.run = Server /\ pc[Server] = "init" /\ pc' = [pc EXCEPT ![Server] = "wait"]
      /\ portal' = "live" /\ reqs' = reqs /\ req' = req /\ hold' = hold
      /\ result' = result /\ Gate(semaphore_create(k, ReqSem))
  BY DEF PortalInit, Call
<1>2. portal = "none" /\ reqs = <<>> /\ k.wq[ReqSem] = <<>>
  BY <1>1, Fields DEF ServerInv
<1>3. /\ Settled(k)' /\ k'.won = k.won /\ k'.wq = k.wq
      /\ k'.val = [k.val EXCEPT ![ReqSem] = 0]
      /\ k'.sem = [k.sem EXCEPT ![ReqSem] = "live"]
  <2>1. Settled(semaphore_create(k, ReqSem))
    BY <1>2, Fields, Queues, CreateSettled
  <2>2. Settled(k)' /\ Keeps(semaphore_create(k, ReqSem), k')
    BY <1>1, <2>1, GateSettled
  <2> QED BY <1>2, <2>2, Fields, Queues, CreateSettled DEF Keeps
<1>4. Typed'
  BY <1>1, Fields, Queues DEF Typed, Steps, ObjectState
<1>5. Sleepers'
  BY <1>1, <1>3, Fields, Queues DEF Sleepers, Typed
<1>6. ServerInv'
  <2>1. Cardinality(Members(reqs)) = 0
    BY <1>2, Fields, Listed DEF Typed
  <2> QED BY <1>1, <1>2, <1>3, <2>1, Fields, Queues DEF ServerInv, Typed
<1>7. ASSUME NEW c \in Clients PROVE ClientInv(c)'
  BY <1>1, <1>2, Fields, Queues DEF ClientInv, Typed, InCall
<1>8. ASSUME NEW r \in Reqs PROVE ReqInv(r)'
  BY <1>1, <1>2, <1>3, Fields, Queues DEF ReqInv, LiveReq, Owed, Typed
<1> QED BY <1>3, <1>4, <1>5, <1>6, <1>7, <1>8 DEF IInv

\* The timer: only thread_run moves.
LEMMA TimerStep ==
    ASSUME IInv, schedule_isr PROVE IInv'
<1>1. /\ Gate(Reschedule(k)) /\ portal' = portal /\ reqs' = reqs /\ req' = req
      /\ pc' = pc /\ hold' = hold /\ result' = result
  BY DEF schedule_isr, pvars
<1>2. /\ Settled(k)' /\ k'.won = k.won /\ k'.wq = k.wq /\ k'.val = k.val
      /\ k'.sem = k.sem
  <2>1. Settled(Reschedule(k)) /\ Keeps(k, Reschedule(k))
    BY Fields, RescheduleSettled DEF Settled
  <2> QED BY <1>1, <2>1, GateSettled DEF Keeps
<1>3. Typed' /\ Sleepers' /\ ServerInv'
  BY <1>1, <1>2, Fields DEF Typed, Sleepers, ServerInv
<1>4. ASSUME NEW c \in Clients PROVE ClientInv(c)'
  BY <1>1, Fields DEF ClientInv
<1>5. ASSUME NEW r \in Reqs PROVE ReqInv(r)'
  BY <1>1, <1>2, Fields DEF ReqInv, LiveReq, Owed
<1> QED BY <1>2, <1>3, <1>4, <1>5 DEF IInv

\* CALL: a new request on the list, and a signal that wakes the server if it
\* was waiting for one.
LEMMA CallStep ==
    ASSUME IInv, NEW c \in Clients, PortalCall(c) PROVE IInv'
<1>1. PICK r \in Reqs :
        /\ k.run = c /\ pc[c] = "idle" /\ pc' = [pc EXCEPT ![c] = "wait_reply"]
        /\ portal = "live" /\ req[r].st # "live" /\ \A t \in Tid : hold[t] # r
        /\ req' = [req EXCEPT ![r] = [st |-> "live", client |-> c,
                                      dequeued |-> FALSE, resp |-> NoReply]]
        /\ reqs' = list_add(r, reqs) /\ hold' = [hold EXCEPT ![c] = r]
        /\ portal' = portal /\ result' = result
        /\ Gate(semaphore_signal(semaphore_create(k, r), ReqSem))
  BY Queues DEF PortalCall, Call, Unused
<1> DEFINE k1 == semaphore_create(k, r)
           k2 == semaphore_signal(k1, ReqSem)
<1>2. c \in Tid /\ c # Server /\ r \in WaitQ /\ r # ReqSem /\ ReqSem \in WaitQ
      /\ Server \in Tid
  BY Queues
<1>3. k.wq[r] = <<>> /\ r \notin Members(reqs) /\ hold[c] \notin Reqs
      /\ hold[Server] # r /\ \A d \in Clients : hold[d] # r
  <2>1. k.wq[r] = <<>> /\ r \notin Members(reqs) /\ hold[Server] # r
    BY <1>1, Fields DEF ReqInv
  <2>2. hold[c] \notin Reqs
    BY <1>1, Fields DEF ClientInv, InCall
  <2>3. \A d \in Clients : hold[d] # r
    BY <1>1, Queues
  <2> QED BY <2>1, <2>2, <2>3
<1>4. /\ Settled(k1) /\ k1.won = k.won /\ k1.wq = k.wq
      /\ k1.val = [k.val EXCEPT ![r] = 0] /\ k1.sem = [k.sem EXCEPT ![r] = "live"]
  BY <1>2, <1>3, Fields, CreateSettled
<1> HIDE DEF k1
<1>5. /\ Settled(k2) /\ k2.sem = k1.sem
      /\ k2.val = [k1.val EXCEPT ![ReqSem] = k1.val[ReqSem] + 1]
      /\ k2.won = IF k1.val[ReqSem] < 0 THEN [k1.won EXCEPT ![Server] = NoQueue] ELSE k1.won
      /\ k2.wq = IF k1.val[ReqSem] < 0 THEN [k1.wq EXCEPT ![ReqSem] = <<>>] ELSE k1.wq
  <2>1. k1.sem[ReqSem] = "live"
        /\ k1.wq[ReqSem] = IF k1.val[ReqSem] < 0 THEN <<Server>> ELSE <<>>
    BY <1>1, <1>2, <1>4, Fields DEF ServerInv
  <2> QED BY <1>2, <1>4, <2>1, SignalSettled, ZenonT(60)
<1>6. Gate(k2)
  BY <1>1 DEF k1
<1> HIDE DEF k2
<1>7. Settled(k)' /\ Keeps(k2, k')
  BY <1>5, <1>6, GateSettled
<1> DEFINE v == k.val[ReqSem]
<1>8. /\ Settled(k)' /\ v \in Int
      /\ k'.sem = [k.sem EXCEPT ![r] = "live"]
      /\ k'.val = [k.val EXCEPT ![r] = 0, ![ReqSem] = v + 1]
      /\ k'.won = IF v < 0 THEN [k.won EXCEPT ![Server] = NoQueue] ELSE k.won
      /\ k'.wq = IF v < 0 THEN [k.wq EXCEPT ![ReqSem] = <<>>] ELSE k.wq
  <2>1. k1.val[ReqSem] = v /\ v \in Int
    BY <1>2, <1>4, Fields
  <2> QED BY <1>4, <1>5, <1>7, <2>1 DEF Keeps
<1>9. /\ reqs \in Seq(Reqs) /\ reqs' \in Seq(Reqs) /\ Distinct(reqs')
      /\ Members(reqs') = Members(reqs) \cup {r}
      /\ Cardinality(Members(reqs')) = Cardinality(Members(reqs)) + 1
      /\ Cardinality(Members(reqs)) \in Nat
  <2>1. reqs \in Seq(Reqs) /\ Distinct(reqs)
    BY Fields DEF Typed
  <2>2. /\ reqs' \in Seq(Reqs) /\ Distinct(reqs')
        /\ Members(reqs') = Members(reqs) \cup {r}
    <3> DEFINE s == reqs
    <3>1. s \in Seq(Reqs) /\ Distinct(s) /\ r \notin Members(s)
      BY <1>3, <2>1
    <3> HIDE DEF s
    <3>2. /\ list_add(r, s) \in Seq(Reqs) /\ Distinct(list_add(r, s))
          /\ Members(list_add(r, s)) = Members(s) \cup {r}
      BY ONLY <3>1, r \in Reqs, ListAdd
    <3> QED BY <1>1, <3>2 DEF s
  <2> QED BY <1>3, <2>1, <2>2, Listed
<1>10. Typed'
  BY <1>1, <1>2, <1>9, Fields DEF Typed, Steps, ObjectState
<1>11. Sleepers'
  BY <1>1, <1>2, <1>8, Fields, Queues DEF Sleepers, Typed
<1>12. ServerInv'
  <2> DEFINE n == Cardinality(Members(reqs))
             g == IF pc[Server] = "get_req" THEN 1 ELSE 0
  <2>1. /\ v = n - g /\ n \in Nat /\ g \in {0, 1}
        /\ k.wq[ReqSem] = IF v < 0 THEN <<Server>> ELSE <<>>
    BY <1>1, <1>9, Fields DEF ServerInv
  <2>2. k'.val[ReqSem] = v + 1 /\ k'.sem[ReqSem] = k.sem[ReqSem]
    BY <1>2, <1>8, Fields
  <2>3. pc'[Server] = pc[Server] /\ hold'[Server] = hold[Server]
    BY <1>1, <1>2, Fields DEF Typed
  <2>4. k'.wq[ReqSem] = <<>>
    BY <1>2, <1>8, <2>1, Fields
  <2>5. k'.val[ReqSem] = Cardinality(Members(reqs)') - g /\ k'.val[ReqSem] >= 0
    BY <1>9, <2>1, <2>2
  <2>6. ~(k'.val[ReqSem] < 0)
    BY <1>8, <2>2, <2>5
  <2> QED BY <1>1, <2>2, <2>3, <2>4, <2>5, <2>6, Fields DEF ServerInv
<1>13. ASSUME NEW d \in Clients PROVE ClientInv(d)'
  BY <1>1, <1>2, <1>3, Fields, Queues DEF ClientInv, InCall, Typed
<1>14. ASSUME NEW q \in Reqs PROVE ReqInv(q)'
  <2>1. CASE q = r
    <3>1. Owed(r)' = 0
      BY <1>1, <1>2, Fields DEF Owed, Typed
    <3> QED BY <1>1, <1>2, <1>3, <1>8, <1>9, <2>1, <3>1, Fields, Queues
            DEF ReqInv, LiveReq, Typed
  <2>2. CASE q # r
    <3>1. req'[q] = req[q] /\ (q \in Members(reqs)' <=> q \in Members(reqs))
      BY <1>1, <1>9, <2>2, Fields DEF Typed
    <3>2. hold'[Server] = hold[Server]
      BY <1>1, <1>2, Fields DEF Typed
    <3>3. k'.wq[q] = k.wq[q] /\ k'.val[q] = k.val[q] /\ k'.sem[q] = k.sem[q]
      BY <1>2, <1>8, <2>2, Fields, Queues
    <3>4. \A d \in Clients : hold[d] = q => hold'[d] = q /\ pc'[d] = pc[d]
      BY <1>1, <1>2, <1>3, Fields, Queues DEF Typed
    <3> QED BY <1>1, <3>1, <3>2, <3>3, <3>4, ReqFrame
  <2> QED BY <2>1, <2>2
<1> QED BY <1>8, <1>10, <1>11, <1>12, <1>13, <1>14 DEF IInv

\* The running thread is on no queue.
LEMMA RunningAwake ==
    ASSUME IInv, NEW q \in WaitQ, k.wq[q] = <<k.run>> PROVE FALSE
<1>1. k.wq[q] # <<>>
  OBVIOUS
<1>2. PICK t \in Tid : k.won[t] = q
  BY <1>1, Fields DEF Settled, Queued
<1>3. k.wq[q] = <<t>> /\ q # NoQueue
  BY <1>2, Fields, Queues DEF Settled, Queued
<1> QED BY <1>2, <1>3, Fields

\* A gate that does nothing to the threads.
LEMMA QuietGate ==
    ASSUME IInv, Gate(k)
    PROVE  /\ Settled(k)' /\ k'.won = k.won /\ k'.wq = k.wq /\ k'.val = k.val
           /\ k'.sem = k.sem
BY Fields, GateSettled DEF Keeps

\* The client's request, while the client is between CALL and CLEANUP.
LEMMA ClientsRequest ==
    ASSUME IInv, NEW c \in Clients, pc[c] \in InCall, Deref(c).st = "live"
    PROVE  /\ hold[c] \in Reqs /\ req[hold[c]].st = "live"
           /\ req[hold[c]].client = c /\ LiveReq(hold[c])
           /\ \A d \in Clients : hold[d] = hold[c] => d = c
<1>1. hold[c] \in Reqs /\ req[hold[c]].st = "live" /\ req[hold[c]].client = c
  BY Fields DEF ClientInv, Deref
<1>2. LiveReq(hold[c])
  BY <1>1, Fields DEF ReqInv
<1>3. \A d \in Clients : hold[d] = hold[c] => d = c
  BY <1>1, Fields DEF ClientInv
<1> QED BY <1>1, <1>2, <1>3

\* WAIT_REPLY: the client sleeps unless the reply is there already.
LEMMA WaitReplyStep ==
    ASSUME IInv, NEW c \in Clients, PortalWaitReply(c),
           NEW u \in Tid \ (Clients \cup {Server})
    PROVE  IInv'
<1>0. PICK r : r = hold[c]
  OBVIOUS
<1>1. /\ k.run = c /\ pc[c] = "wait_reply" /\ pc' = [pc EXCEPT ![c] = "get_result"]
      /\ Deref(c).st = "live" /\ Gate(semaphore_wait(k, r))
      /\ portal' = portal /\ reqs' = reqs /\ req' = req /\ hold' = hold
      /\ result' = result
  BY <1>0, Queues DEF PortalWaitReply, Call, pvars
<1>2. /\ r \in Reqs /\ r \in WaitQ /\ r # ReqSem /\ req[r].st = "live"
      /\ req[r].client = c /\ LiveReq(r) /\ c \in Tid /\ c # Server
      /\ \A d \in Clients : hold[d] = r => d = c
  BY <1>0, <1>1, ClientsRequest, Queues DEF InCall
<1> DEFINE v == k.val[r]
<1>3. /\ k.sem[r] = "live" /\ v = (IF req[r].resp = NoReply THEN 0 ELSE 1)
      /\ v \in Int /\ k.wq[r] = <<>>
  BY <1>1, <1>2 DEF LiveReq, Owed
<1>4. u \in Tid /\ u # k.run /\ k.won[u] = NoQueue
  BY <1>1, Fields DEF Sleepers
<1>5. /\ Settled(k)' /\ k'.sem = k.sem /\ k'.val = [k.val EXCEPT ![r] = v - 1]
      /\ k'.won = (IF v <= 0 THEN [k.won EXCEPT ![c] = r] ELSE k.won)
      /\ k'.wq = (IF v <= 0 THEN [k.wq EXCEPT ![r] = <<c>>] ELSE k.wq)
  <2>1. /\ Settled(semaphore_wait(k, r)) /\ semaphore_wait(k, r).sem = k.sem
        /\ semaphore_wait(k, r).val = [k.val EXCEPT ![r] = v - 1]
        /\ semaphore_wait(k, r).won = (IF v <= 0 THEN [k.won EXCEPT ![c] = r] ELSE k.won)
        /\ semaphore_wait(k, r).wq = (IF v <= 0 THEN [k.wq EXCEPT ![r] = <<c>>] ELSE k.wq)
    BY <1>1, <1>2, <1>3, <1>4, Fields, WaitSettled
  <2> QED BY <1>1, <2>1, GateSettled DEF Keeps
<1>6. Typed'
  BY <1>1, <1>2, Fields DEF Typed, Steps
<1>7. Sleepers'
  BY <1>0, <1>1, <1>2, <1>5, Fields, Queues DEF Sleepers, Typed
<1>8. ServerInv'
  BY <1>1, <1>2, <1>5, Fields, Queues DEF ServerInv, Typed
<1>9. ASSUME NEW d \in Clients PROVE ClientInv(d)'
  BY <1>0, <1>1, <1>2, Fields DEF ClientInv, InCall, Typed
<1>10. ASSUME NEW q \in Reqs PROVE ReqInv(q)'
  <2>1. CASE q = r
    <3>1. pc'[c] = "get_result" /\ Owed(r)' = v - 1
      BY <1>1, <1>2, <1>3, Fields DEF Owed, Typed
    <3>2. k'.val[r] = v - 1 /\ k'.sem[r] = "live"
          /\ k'.wq[r] = IF v <= 0 THEN <<c>> ELSE <<>>
      BY <1>2, <1>3, <1>5, Fields
    <3>3. k'.val[r] < 0 <=> v <= 0
      BY <1>3, <3>2
    <3>4. LiveReq(r)'
      BY <1>1, <1>2, <3>1, <3>2, <3>3 DEF LiveReq
    <3> QED BY <1>1, <1>2, <2>1, <3>4, Fields DEF ReqInv
  <2>2. CASE q # r
    <3>1. k'.wq[q] = k.wq[q] /\ k'.val[q] = k.val[q] /\ k'.sem[q] = k.sem[q]
      BY <1>2, <1>5, <2>2, Fields, Queues
    <3>2. \A d \in Clients : hold[d] = q => hold'[d] = q /\ pc'[d] = pc[d]
      BY <1>0, <1>1, <1>2, <2>2, Fields DEF Typed
    <3> QED BY <1>1, <3>1, <3>2, ReqFrame
  <2> QED BY <2>1, <2>2
<1> QED BY <1>5, <1>6, <1>7, <1>8, <1>9, <1>10 DEF IInv

\* GET_RESULT: a client that is awake behind WAIT_REPLY has been answered.
LEMMA GetResultAnswered ==
    ASSUME IInv, NEW c \in Clients, PortalGetResult(c)
    PROVE  req[hold[c]].resp \in Rets
<1> DEFINE r == hold[c]
<1>1. k.run = c /\ pc[c] = "get_result" /\ Deref(c).st = "live"
  BY DEF PortalGetResult, Call
<1>2. r \in Reqs /\ r \in WaitQ /\ req[r].client = c /\ LiveReq(r)
  BY <1>1, ClientsRequest, Queues DEF InCall
<1> HIDE DEF r
<1>3. ASSUME req[r].resp = NoReply PROVE FALSE
  <2>1. k.val[r] = 0 - 1
    BY <1>1, <1>2, <1>3 DEF LiveReq, Owed
  <2>2. k.wq[r] = <<k.run>>
    BY <1>1, <1>2, <2>1 DEF LiveReq
  <2> QED BY <1>2, <2>2, RunningAwake
<1> QED BY <1>2, <1>3, Fields DEF Typed, r

\* GET_RESULT takes a fresh answer.
LEMMA GetResultStep ==
    ASSUME IInv, NEW c \in Clients, PortalGetResult(c) PROVE IInv'
<1>0. PICK r : r = hold[c]
  OBVIOUS
<1>1. /\ k.run = c /\ pc[c] = "get_result" /\ pc' = [pc EXCEPT ![c] = "cleanup"]
      /\ Deref(c).st = "live" /\ Gate(k)
      /\ portal' = portal /\ reqs' = reqs /\ req' = req /\ hold' = hold
      /\ result' = [result EXCEPT ![c] = req[r].resp]
  BY <1>0 DEF PortalGetResult, Call, pvars, Deref
<1>2. /\ r \in Reqs /\ req[r].st = "live" /\ req[r].client = c /\ LiveReq(r)
      /\ c \in Tid /\ c # Server /\ \A d \in Clients : hold[d] = r => d = c
  BY <1>0, <1>1, ClientsRequest, Queues DEF InCall
<1>3. req[r].resp \in Rets /\ req[r].resp # NoReply
  BY <1>0, GetResultAnswered, Queues
<1>4. /\ Settled(k)' /\ k'.won = k.won /\ k'.wq = k.wq /\ k'.val = k.val
      /\ k'.sem = k.sem
  BY <1>1, QuietGate
<1>5. Typed'
  BY <1>1, <1>2, <1>3, Fields DEF Typed, Steps
<1>6. Sleepers'
  BY <1>1, <1>2, <1>4, Fields, Queues DEF Sleepers, Typed
<1>7. ServerInv'
  BY <1>1, <1>2, <1>4, Fields DEF ServerInv, Typed
<1>8. ASSUME NEW d \in Clients PROVE ClientInv(d)'
  BY <1>0, <1>1, <1>2, <1>3, Fields DEF ClientInv, InCall, Typed
<1>9. ASSUME NEW q \in Reqs PROVE ReqInv(q)'
  <2>1. CASE q = r
    <3>1. pc'[c] = "cleanup" /\ Owed(r)' = Owed(r)
      BY <1>1, <1>2, Fields DEF Owed, Typed
    <3>2. LiveReq(r)'
      BY <1>1, <1>2, <1>3, <1>4, <3>1 DEF LiveReq
    <3> QED BY <1>1, <1>2, <2>1, <3>2, Fields DEF ReqInv
  <2>2. CASE q # r
    <3>1. \A d \in Clients : hold[d] = q => hold'[d] = q /\ pc'[d] = pc[d]
      BY <1>0, <1>1, <1>2, <2>2, Fields DEF Typed
    <3> QED BY <1>1, <1>4, <3>1, ReqFrame
  <2> QED BY <2>1, <2>2
<1> QED BY <1>4, <1>5, <1>6, <1>7, <1>8, <1>9 DEF IInv

\* CLEANUP: the request was answered, so it is not on the list, the server does
\* not have it and nobody waits on its semaphore.
LEMMA CleanupStep ==
    ASSUME IInv, NEW c \in Clients, PortalCleanup(c) PROVE IInv'
<1>0. PICK r : r = hold[c]
  OBVIOUS
<1>1. /\ k.run = c /\ pc[c] = "cleanup" /\ pc' = [pc EXCEPT ![c] = "idle"]
      /\ Deref(c).st = "live" /\ Gate(semaphore_destroy(k, r))
      /\ reqs' = (IF req[r].dequeued THEN reqs ELSE list_del({r}, reqs))
      /\ req' = [req EXCEPT ![r].st = "dead"] /\ hold' = [hold EXCEPT ![c] = NoReq]
      /\ portal' = portal /\ result' = result
  BY <1>0, Queues DEF PortalCleanup, Call, Deref
<1>2. /\ r \in Reqs /\ r \in WaitQ /\ r # ReqSem /\ req[r].st = "live"
      /\ req[r].client = c /\ LiveReq(r) /\ c \in Tid /\ c # Server
      /\ \A d \in Clients : hold[d] = r => d = c
  BY <1>0, <1>1, ClientsRequest, Queues DEF InCall
<1>3. /\ req[r].resp # NoReply /\ req[r].dequeued /\ k.wq[r] = <<>>
      /\ r \notin Members(reqs) /\ hold[Server] # r
  <2>1. req[r].resp # NoReply /\ req[r].dequeued
    BY <1>1, <1>2 DEF LiveReq
  <2>2. k.val[r] = 0
    BY <1>1, <1>2, <2>1 DEF LiveReq, Owed
  <2>3. k.wq[r] = <<>>
    BY <1>2, <2>2 DEF LiveReq
  <2>4. r \notin Members(reqs) /\ hold[Server] # r
    BY <1>2, <2>1, Fields DEF ReqInv
  <2> QED BY <2>1, <2>3, <2>4
<1>4. reqs' = reqs
  BY <1>1, <1>3
<1>5. /\ Settled(k)' /\ k'.won = k.won /\ k'.wq = k.wq /\ k'.val = k.val
      /\ k'.sem = [k.sem EXCEPT ![r] = "dead"]
  <2>1. Settled(semaphore_destroy(k, r))
    BY <1>2, <1>3, Fields, DestroySettled
  <2>2. Settled(k)' /\ Keeps(semaphore_destroy(k, r), k')
    BY <1>1, <2>1, GateSettled
  <2> QED BY <1>2, <1>3, <2>2, Fields, DestroySettled DEF Keeps
<1>6. \A q \in Reqs : req'[q] = IF q = r THEN [req[r] EXCEPT !.st = "dead"] ELSE req[q]
  BY <1>1, <1>2, Fields DEF Typed
<1>7. Typed'
  BY <1>1, <1>2, <1>4, Fields, ZenonT(60) DEF Typed, Steps, ObjectState
<1>8. Sleepers'
  BY <1>1, <1>2, <1>5, Fields DEF Sleepers, Typed
<1>9. ServerInv'
  BY <1>1, <1>2, <1>4, <1>5, Fields DEF ServerInv, Typed
<1>10. ASSUME NEW d \in Clients PROVE ClientInv(d)'
  <2>1. CASE d = c
    BY <1>1, <1>2, <2>1, Fields, Queues DEF ClientInv, InCall, Typed
  <2>2. CASE d # c
    <3>1. hold'[d] = hold[d] /\ pc'[d] = pc[d] /\ hold[d] # r
      BY <1>1, <1>2, <2>2, Fields, Queues DEF Typed
    <3> QED BY <1>1, <1>6, <3>1, Fields DEF ClientInv
  <2> QED BY <2>1, <2>2
<1>11. ASSUME NEW q \in Reqs PROVE ReqInv(q)'
  <2>1. hold'[Server] = hold[Server]
    BY <1>1, <1>2, Fields, Queues DEF Typed
  <2>2. CASE q = r
    <3>1. req'[r].st = "dead"
      BY <1>2, <1>6, Fields DEF Typed
    <3>2. k'.sem[r] # "live"
      BY <1>2, <1>5, Fields
    <3> QED BY <1>3, <1>4, <1>5, <2>1, <2>2, <3>1, <3>2 DEF ReqInv
  <2>3. CASE q # r
    <3>1. req'[q] = req[q] /\ k'.sem[q] = k.sem[q]
      BY <1>2, <1>5, <1>6, <2>3, Fields, Queues
    <3>2. \A d \in Clients : hold[d] = q => hold'[d] = q /\ pc'[d] = pc[d]
      BY <1>0, <1>1, <1>2, <2>3, Fields, Queues DEF Typed
    <3> QED BY <1>1, <1>4, <1>5, <2>1, <3>1, <3>2, ReqFrame
  <2> QED BY <2>2, <2>3
<1> QED BY <1>5, <1>7, <1>8, <1>9, <1>10, <1>11 DEF IInv

\* WAIT: the server sleeps when the list is empty.
LEMMA WaitStep ==
    ASSUME IInv, PortalWait, NEW u \in Tid \ (Clients \cup {Server})
    PROVE  IInv'
<1> DEFINE v == k.val[ReqSem]
<1>1. /\ k.run = Server /\ pc[Server] = "wait" /\ pc' = [pc EXCEPT ![Server] = "get_req"]
      /\ portal = "live" /\ Gate(semaphore_wait(k, ReqSem))
      /\ portal' = portal /\ reqs' = reqs /\ req' = req /\ hold' = hold
      /\ result' = result
  BY DEF PortalWait, Call, pvars
<1>2. ReqSem \in WaitQ /\ Server \in Tid /\ Server \notin Clients
  BY Queues
<1>3. /\ v = Cardinality(Members(reqs)) /\ v \in Nat /\ k.wq[ReqSem] = <<>>
      /\ k.sem[ReqSem] = "live"
  <2>1. Cardinality(Members(reqs)) \in Nat
    BY Fields, Listed DEF Typed
  <2>2. v = Cardinality(Members(reqs)) - 0 /\ k.sem[ReqSem] = "live"
        /\ k.wq[ReqSem] = IF v < 0 THEN <<Server>> ELSE <<>>
    BY <1>1, Fields DEF ServerInv
  <2> QED BY <2>1, <2>2
<1>4. u \in Tid /\ u # k.run /\ k.won[u] = NoQueue
  BY <1>1, Fields DEF Sleepers
<1>5. /\ Settled(k)' /\ k'.sem = k.sem /\ k'.val = [k.val EXCEPT ![ReqSem] = v - 1]
      /\ k'.won = (IF v <= 0 THEN [k.won EXCEPT ![Server] = ReqSem] ELSE k.won)
      /\ k'.wq = (IF v <= 0 THEN [k.wq EXCEPT ![ReqSem] = <<Server>>] ELSE k.wq)
  <2> DEFINE k2 == semaphore_wait(k, ReqSem)
  <2>1. /\ Settled(k2) /\ k2.sem = k.sem
        /\ k2.val = [k.val EXCEPT ![ReqSem] = v - 1]
        /\ k2.won = (IF v <= 0 THEN [k.won EXCEPT ![Server] = ReqSem] ELSE k.won)
        /\ k2.wq = (IF v <= 0 THEN [k.wq EXCEPT ![ReqSem] = <<Server>>] ELSE k.wq)
    BY <1>1, <1>2, <1>3, <1>4, Fields, WaitSettled
  <2> QED BY <1>1, <2>1, GateSettled DEF Keeps
<1>6. Typed'
  BY <1>1, <1>2, Fields DEF Typed, Steps
<1>7. Sleepers'
  BY <1>1, <1>2, <1>5, Fields, Queues DEF Sleepers, Typed
<1>8. ServerInv'
  <2>1. /\ k'.val[ReqSem] = v - 1 /\ k'.sem[ReqSem] = "live"
        /\ k'.wq[ReqSem] = (IF v <= 0 THEN <<Server>> ELSE <<>>)
        /\ (k'.val[ReqSem] < 0 <=> v <= 0)
    BY <1>2, <1>3, <1>5, Fields
  <2>2. pc'[Server] = "get_req"
    BY <1>1, <1>2, Fields DEF Typed
  <2> QED BY <1>1, <1>3, <2>1, <2>2, Fields DEF ServerInv
<1>9. ASSUME NEW d \in Clients PROVE ClientInv(d)'
  BY <1>1, <1>2, Fields DEF ClientInv, Typed
<1>10. ASSUME NEW q \in Reqs PROVE ReqInv(q)'
  <2>1. k'.wq[q] = k.wq[q] /\ k'.val[q] = k.val[q] /\ k'.sem[q] = k.sem[q]
    BY <1>2, <1>5, Fields, Queues
  <2>2. \A d \in Clients : hold[d] = q => hold'[d] = q /\ pc'[d] = pc[d]
    BY <1>1, <1>2, Fields DEF Typed
  <2> QED BY <1>1, <2>1, <2>2, ReqFrame
<1> QED BY <1>5, <1>6, <1>7, <1>8, <1>9, <1>10 DEF IInv

\* GET_REQ: a server that is awake behind WAIT finds a request.
LEMMA GetReqFinds ==
    ASSUME IInv, PortalGetReq PROVE reqs # <<>>
<1> SUFFICES ASSUME reqs = <<>> PROVE FALSE
  OBVIOUS
<1>1. k.run = Server /\ pc[Server] = "get_req"
  BY DEF PortalGetReq, Call
<1>2. portal = "live"
  BY <1>1, Fields DEF ServerInv, Typed, ObjectState
<1>3. Cardinality(Members(reqs)) = 0
  BY Fields, Listed DEF Typed
<1>4. k.val[ReqSem] = 0 - 1
  BY <1>1, <1>2, <1>3, Fields DEF ServerInv
<1>5. k.wq[ReqSem] = <<k.run>>
  BY <1>1, <1>2, <1>4, Fields DEF ServerInv
<1> QED BY <1>5, Queues, RunningAwake

\* GET_REQ: the newest request goes from the list to the server.
LEMMA GetReqStep ==
    ASSUME IInv, PortalGetReq PROVE IInv'
<1>1. reqs # <<>> /\ reqs \in Seq(Reqs) /\ Distinct(reqs)
  BY GetReqFinds, Fields DEF Typed
<1>2. PICK r \in Reqs : r = reqs[1] /\ r \in Members(reqs)
  <2>1. 1 \in DOMAIN reqs /\ reqs[1] \in Reqs
    BY <1>1
  <2> QED BY <2>1 DEF Members
<1>3. /\ k.run = Server /\ pc[Server] = "get_req" /\ pc' = [pc EXCEPT ![Server] = "reply"]
      /\ reqs' = list_del({r}, reqs) /\ req' = [req EXCEPT ![r].dequeued = TRUE]
      /\ hold' = [hold EXCEPT ![Server] = r] /\ Gate(k)
      /\ portal' = portal /\ result' = result
  BY <1>1, <1>2 DEF PortalGetReq, Call
<1>4. /\ Settled(k)' /\ k'.won = k.won /\ k'.wq = k.wq /\ k'.val = k.val
      /\ k'.sem = k.sem
  BY <1>3, QuietGate
<1>5. /\ portal = "live" /\ Server \in Tid /\ Server \notin Clients
      /\ hold[Server] \notin Reqs
  BY <1>3, Fields, Queues DEF ServerInv, Typed, ObjectState
<1>6. req[r].st = "live" /\ ~req[r].dequeued /\ req[r].resp = NoReply /\ LiveReq(r)
  BY <1>2, Fields DEF ReqInv, LiveReq
<1>7. /\ reqs' \in Seq(Reqs) /\ Distinct(reqs') /\ Members(reqs') = Members(reqs) \ {r}
      /\ Cardinality(Members(reqs')) = Cardinality(Members(reqs)) - 1
      /\ Cardinality(Members(reqs)) \in Nat
  <2> DEFINE s == reqs
             D == {r}
  <2>1. s \in Seq(Reqs) /\ Distinct(s)
    BY <1>1
  <2> HIDE DEF s, D
  <2>2. /\ list_del(D, s) \in Seq(Reqs) /\ Distinct(list_del(D, s))
        /\ Members(list_del(D, s)) = Members(s) \ D
    BY ONLY <2>1, ListDel
  <2>3. /\ reqs' \in Seq(Reqs) /\ Distinct(reqs') /\ Members(reqs') = Members(reqs) \ {r}
    BY <1>3, <2>2 DEF s, D
  <2> QED BY <1>1, <1>2, <2>3, Listed
<1>8. \A q \in Reqs : req'[q] = IF q = r THEN [req[r] EXCEPT !.dequeued = TRUE] ELSE req[q]
  BY <1>3, Fields DEF Typed
<1>9. /\ req'[r].st = "live" /\ req'[r].dequeued = TRUE /\ req'[r].resp = NoReply
      /\ req'[r].client = req[r].client
  BY <1>6, <1>8, Fields DEF Typed
<1>10. Typed'
  <2>1. req' \in [Reqs -> [st : ObjectState, client : Tid \cup {NoThread},
                           dequeued : BOOLEAN, resp : Rets \cup {NoReply}]]
    BY <1>3, Fields, ZenonT(60) DEF Typed
  <2> QED BY <1>3, <1>5, <1>7, <2>1, Fields DEF Typed, Steps
<1>11. Sleepers'
  <2>1. k.won[Server] = NoQueue
    BY <1>3, Fields
  <2> QED BY <1>3, <1>4, <1>5, <2>1, Fields DEF Sleepers, Typed
<1>12. ServerInv'
  <2>1. pc'[Server] = "reply" /\ hold'[Server] = r
    BY <1>3, <1>5, Fields DEF Typed
  <2>2. /\ k.val[ReqSem] = Cardinality(Members(reqs)) - 1
        /\ k.wq[ReqSem] = IF k.val[ReqSem] < 0 THEN <<Server>> ELSE <<>>
        /\ k.sem[ReqSem] = "live"
    BY <1>3, <1>5, Fields DEF ServerInv
  <2>3. k'.val[ReqSem] = Cardinality(Members(reqs)') - 0
    BY <1>4, <1>7, <2>2
  <2> QED BY <1>3, <1>4, <1>5, <2>1, <2>2, <2>3 DEF ServerInv
<1>13. ASSUME NEW d \in Clients PROVE ClientInv(d)'
  <2>1. hold'[d] = hold[d] /\ pc'[d] = pc[d]
    BY <1>3, <1>5, Fields, Queues DEF Typed
  <2>2. \A q \in Reqs : req'[q].st = req[q].st /\ req'[q].client = req[q].client
    BY <1>6, <1>8, <1>9
  <2> QED BY <1>3, <2>1, <2>2, Fields DEF ClientInv
<1>14. ASSUME NEW q \in Reqs PROVE ReqInv(q)'
  <2>1. hold'[Server] = r /\ \A d \in Clients : hold'[d] = hold[d] /\ pc'[d] = pc[d]
    BY <1>3, <1>5, Fields, Queues DEF Typed
  <2>2. CASE q = r
    <3>1. Owed(r)' = Owed(r)
      BY <1>6, <1>9, <2>1 DEF Owed, LiveReq
    <3>2. LiveReq(r)'
      BY <1>3, <1>4, <1>6, <1>9, <2>1, <3>1 DEF LiveReq
    <3> QED BY <1>7, <1>9, <2>1, <2>2, <3>2 DEF ReqInv
  <2>3. CASE q # r
    BY <1>3, <1>4, <1>5, <1>7, <1>8, <2>1, <2>3, ReqFrame
  <2> QED BY <2>2, <2>3
<1> QED BY <1>4, <1>10, <1>11, <1>12, <1>13, <1>14 DEF IInv

\* REPLY: the answer is stored before the client is signalled.
LEMMA ReplyStep ==
    ASSUME IInv, PortalReply PROVE IInv'
<1>0. PICK r : r = hold[Server]
  OBVIOUS
<1>1. PICK ret \in Rets :
      /\ k.run = Server /\ pc[Server] = "reply" /\ pc' = [pc EXCEPT ![Server] = "wait"]
      /\ req' = [req EXCEPT ![r].resp = ret] /\ hold' = [hold EXCEPT ![Server] = NoReq]
      /\ Gate(semaphore_signal(k, r)) /\ reqs' = reqs /\ portal' = portal
      /\ result' = result
  BY <1>0, Queues DEF PortalReply, Call
<1>2. /\ r \in Reqs /\ r \in WaitQ /\ r # ReqSem /\ Server \in Tid /\ Server \notin Clients
      /\ ret # NoReply
  BY <1>0, <1>1, Fields, Queues DEF ServerInv
<1>3. /\ req[r].st = "live" /\ req[r].dequeued /\ req[r].resp = NoReply /\ LiveReq(r)
      /\ r \notin Members(reqs)
  BY <1>0, <1>2, Fields DEF ReqInv
<1>4. PICK d \in Clients : d = req[r].client
  BY <1>3 DEF LiveReq
<1> DEFINE v == k.val[r]
<1>5. /\ d \in Tid /\ d # Server /\ hold[d] = r /\ k.sem[r] = "live"
      /\ v = 0 - (IF pc[d] = "wait_reply" THEN 0 ELSE 1) /\ pc[d] # "cleanup"
      /\ k.wq[r] = (IF v < 0 THEN <<d>> ELSE <<>>) /\ portal # "none"
  BY <1>3, <1>4, Queues DEF LiveReq, Owed
<1>6. /\ Settled(k)' /\ k'.sem = k.sem /\ k'.val = [k.val EXCEPT ![r] = v + 1]
      /\ k'.won = (IF v < 0 THEN [k.won EXCEPT ![d] = NoQueue] ELSE k.won)
      /\ k'.wq = (IF v < 0 THEN [k.wq EXCEPT ![r] = <<>>] ELSE k.wq)
  <2> DEFINE k2 == semaphore_signal(k, r)
  <2>1. /\ Settled(k2) /\ k2.sem = k.sem /\ k2.val = [k.val EXCEPT ![r] = v + 1]
        /\ k2.won = (IF v < 0 THEN [k.won EXCEPT ![d] = NoQueue] ELSE k.won)
        /\ k2.wq = (IF v < 0 THEN [k.wq EXCEPT ![r] = <<>>] ELSE k.wq)
    <3>1. /\ Settled(k) /\ r \in WaitQ /\ k.sem[r] = "live" /\ d \in Tid
          /\ k.wq[r] = IF k.val[r] < 0 THEN <<d>> ELSE <<>>
      BY <1>2, <1>5, Fields
    <3> QED BY ONLY <3>1, SignalSettled
  <2> QED BY <1>1, <2>1, GateSettled DEF Keeps
<1>7. \A q \in Reqs : req'[q] = IF q = r THEN [req[r] EXCEPT !.resp = ret] ELSE req[q]
  BY <1>1, <1>2, Fields DEF Typed
<1>8. /\ req'[r].st = "live" /\ req'[r].dequeued /\ req'[r].resp = ret
      /\ req'[r].client = d
  BY <1>2, <1>3, <1>4, <1>7, Fields DEF Typed
<1>9. Typed'
  <2>1. req' \in [Reqs -> [st : ObjectState, client : Tid \cup {NoThread},
                           dequeued : BOOLEAN, resp : Rets \cup {NoReply}]]
    BY <1>1, <1>2, Fields, ZenonT(60) DEF Typed
  <2> QED BY <1>1, <1>2, <2>1, Fields DEF Typed, Steps
<1>10. Sleepers'
  BY <1>1, <1>2, <1>5, <1>6, Fields DEF Sleepers, Typed
<1>11. hold'[Server] = NoReq /\ \A e \in Clients : hold'[e] = hold[e] /\ pc'[e] = pc[e]
  BY <1>1, <1>2, Fields, Queues DEF Typed
<1>12. ServerInv'
  <2>1. pc'[Server] = "wait"
    BY <1>1, <1>2, Fields DEF Typed
  <2>2. /\ k'.val[ReqSem] = k.val[ReqSem] /\ k'.wq[ReqSem] = k.wq[ReqSem]
        /\ k'.sem[ReqSem] = k.sem[ReqSem]
    BY <1>2, <1>6, Fields, Queues
  <2> QED BY <1>1, <1>11, <2>1, <2>2, Fields, Queues DEF ServerInv
<1>13. ASSUME NEW e \in Clients PROVE ClientInv(e)'
  <2>1. \A q \in Reqs : req'[q].st = req[q].st /\ req'[q].client = req[q].client
    BY <1>3, <1>4, <1>7, <1>8
  <2> QED BY <1>1, <1>11, <2>1, Fields DEF ClientInv
<1>14. ASSUME NEW q \in Reqs PROVE ReqInv(q)'
  <2>1. CASE q = r
    <3>1. Owed(r)' = 1 - (IF pc[d] = "wait_reply" THEN 0 ELSE 1)
      BY <1>2, <1>8, <1>11 DEF Owed
    <3>2. k'.val[r] = v + 1 /\ k'.sem[r] = "live" /\ k'.wq[r] = <<>> /\ ~(k'.val[r] < 0)
      BY <1>2, <1>5, <1>6, Fields
    <3>3. k'.val[r] = Owed(r)'
      BY <1>5, <3>1, <3>2
    <3>4. LiveReq(r)'
      BY <1>1, <1>2, <1>5, <1>8, <1>11, <3>2, <3>3 DEF LiveReq
    <3> QED BY <1>1, <1>2, <1>3, <1>8, <1>11, <2>1, <3>4, Queues DEF ReqInv
  <2>2. CASE q # r
    <3>1. k'.wq[q] = k.wq[q] /\ k'.val[q] = k.val[q] /\ k'.sem[q] = k.sem[q]
      BY <1>2, <1>6, <2>2, Fields, Queues
    <3>2. hold[Server] # q /\ hold'[Server] # q
      BY <1>0, <1>11, <2>2, Queues
    <3> QED BY <1>1, <1>7, <1>11, <2>2, <3>1, <3>2, ReqFrame
  <2> QED BY <2>1, <2>2
<1> QED BY <1>6, <1>9, <1>10, <1>12, <1>13, <1>14 DEF IInv

\* DESTROY: what is freed are requests whose clients have not asked for the
\* reply yet.
LEMMA DestroyStep ==
    ASSUME IInv, PortalDestroy PROVE IInv'
<1>0. PICK Q : Q = Members(reqs)
  OBVIOUS
<1> DEFINE f == [q \in WaitQ |-> IF q \in Q \cup {ReqSem} THEN "dead" ELSE k.sem[q]]
           k2 == [k EXCEPT !.sem = f]
<1>1. /\ k.run = Server /\ pc[Server] = "wait" /\ pc' = [pc EXCEPT ![Server] = "compute"]
      /\ k.wq[ReqSem] = <<>> /\ \A r \in Q : k.wq[r] = <<>>
      /\ portal' = "dead" /\ reqs' = <<>>
      /\ req' = [r \in Reqs |-> IF r \in Q THEN [req[r] EXCEPT !.st = "dead"] ELSE req[r]]
      /\ hold' = hold /\ result' = result /\ Gate(k2)
  <2>1. {DoneSem(r) : r \in Members(reqs)} = Q
    BY <1>0, Queues
  <2> QED BY <1>0, <2>1, Queues DEF PortalDestroy, Call, semaphore_has_waiters
<1>2. /\ Server \in Tid /\ Server \notin Clients /\ ReqSem \in WaitQ /\ ReqSem \notin Reqs
      /\ Reqs \subseteq WaitQ
  BY Queues
<1>3. /\ portal = "live" /\ hold[Server] \notin Reqs
  BY <1>1, Fields DEF ServerInv, Typed, ObjectState
<1>4. \A r \in Reqs : r \in Q <=> req[r].st = "live" /\ ~req[r].dequeued
  BY <1>0, Fields DEF ReqInv
<1>5. /\ Settled(k)' /\ k'.won = k.won /\ k'.wq = k.wq /\ k'.val = k.val /\ k'.sem = f
  <2>1. f \in [WaitQ -> ObjectState]
    BY Fields DEF ObjectState
  <2> HIDE DEF f
  <2>2. /\ Settled(k2) /\ k2.sem = f /\ k2.val = k.val /\ k2.won = k.won /\ k2.wq = k.wq
    BY <2>1, Fields, SemSettled
  <2> QED BY <1>1, <2>2, GateSettled DEF Keeps
<1>6. \A r \in Reqs : /\ req'[r].client = req[r].client /\ req'[r].resp = req[r].resp
                      /\ req'[r].dequeued = req[r].dequeued
                      /\ req'[r].st = IF r \in Q THEN "dead" ELSE req[r].st
  BY <1>1, Fields DEF Typed
<1>7. Typed'
  <2>1. req' \in [Reqs -> [st : ObjectState, client : Tid \cup {NoThread},
                           dequeued : BOOLEAN, resp : Rets \cup {NoReply}]]
    <3> DEFINE R == [st : ObjectState, client : Tid \cup {NoThread},
                     dequeued : BOOLEAN, resp : Rets \cup {NoReply}]
    <3>1. \A r \in Reqs : req[r] \in R
      BY Fields DEF Typed
    <3>2. \A x \in R : [x EXCEPT !.st = "dead"] \in R
      BY DEF ObjectState
    <3> HIDE DEF R
    <3>3. req' \in [Reqs -> R]
      BY <1>1, <3>1, <3>2
    <3> QED BY <3>3 DEF R
  <2>2. reqs' \in Seq(Reqs) /\ Distinct(reqs')
    BY <1>1 DEF Distinct
  <2> QED BY <1>1, <1>2, <2>1, <2>2, Fields DEF Typed, Steps, ObjectState
<1>8. Sleepers'
  BY <1>1, <1>2, <1>5, Fields DEF Sleepers, Typed
<1>9. Members(reqs)' = {}
  BY <1>1 DEF Members
<1>10. pc'[Server] = "compute" /\ \A c \in Clients : pc'[c] = pc[c]
  BY <1>1, <1>2, Fields, Queues DEF Typed
<1>11. ServerInv'
  <2>1. k'.sem[ReqSem] = "dead"
    BY <1>2, <1>5
  <2> QED BY <1>1, <1>3, <1>5, <1>10, <2>1 DEF ServerInv
<1>12. ASSUME NEW c \in Clients PROVE ClientInv(c)'
  <2>1. ASSUME hold[c] \in Q PROVE pc[c] = "wait_reply"
    <3>0. PICK r \in Reqs : r = hold[c]
      BY <1>0, <2>1, Fields, Listed DEF Typed
    <3>1. LiveReq(r) /\ req[r].client = c /\ ~req[r].dequeued
      BY <1>4, <2>1, <3>0, Fields DEF ReqInv, ClientInv
    <3>2. req[r].resp = NoReply /\ k.val[r] >= 0
      <4>1. k.wq[r] = <<>> /\ k.val[r] \in Int
        BY <1>1, <1>2, <2>1, <3>0, Fields
      <4>2. k.wq[r] = (IF k.val[r] < 0 THEN <<c>> ELSE <<>>) /\ req[r].resp = NoReply
        BY <3>1 DEF LiveReq
      <4>3. <<c>> # <<>>
        OBVIOUS
      <4>4. ASSUME k.val[r] < 0 PROVE FALSE
        <5>1. k.wq[r] = <<c>>
          BY <4>2, <4>4
        <5> QED BY <4>1, <4>3, <5>1, Zenon
      <4> QED BY <4>1, <4>2, <4>4
    <3> QED BY <3>1, <3>2 DEF LiveReq, Owed
  <2>2. CASE hold[c] \in Q
    <3>1. hold[c] \in Reqs
      BY <1>0, <2>2, Fields, Listed DEF Typed
    <3> QED BY <1>1, <1>6, <1>10, <2>1, <2>2, <3>1, Fields DEF ClientInv, InCall
  <2>3. CASE hold[c] \notin Q
    BY <1>1, <1>3, <1>6, <1>10, <2>3, Fields DEF ClientInv
  <2> QED BY <2>2, <2>3
<1>13. ASSUME NEW q \in Reqs PROVE ReqInv(q)'
  <2>1. CASE q \in Q
    BY <1>1, <1>2, <1>3, <1>5, <1>6, <1>9, <2>1, ZenonT(60) DEF ReqInv
  <2>2. CASE q \notin Q
    <3>1. req'[q] = req[q]
      BY <1>1, <2>2
    <3>2. k'.sem[q] = k.sem[q]
      BY <1>2, <1>5, <2>2
    <3> QED BY <1>0, <1>1, <1>5, <1>9, <1>10, <2>2, <3>1, <3>2, ReqFrame
  <2> QED BY <2>1, <2>2
<1> QED BY <1>5, <1>7, <1>8, <1>11, <1>12, <1>13 DEF IInv

\* LISTEN_BLOCK: the client sleeps on its mailbox, with no request in hand.
LEMMA ListenBlockStep ==
    ASSUME IInv, NEW c \in Clients, ListenBlock(c),
           NEW u \in Tid \ (Clients \cup {Server})
    PROVE  IInv'
<1>1. /\ k.run = c /\ pc[c] \in {"idle", "listen"} /\ pc' = [pc EXCEPT ![c] = "take"]
      /\ Gate(IF c \in mail THEN k ELSE wait_queue_sleep(k, MailQ(c)))
      /\ portal' = portal /\ reqs' = reqs /\ req' = req /\ hold' = hold
      /\ result' = result
  BY DEF ListenBlock, pvars
<1>0. PICK m \in WaitQ : m = MailQ(c) /\ m \notin Reqs /\ m # ReqSem
  BY Queues
<1>2. c \in Tid /\ c # Server /\ hold[c] \notin Reqs
  BY <1>1, Fields, Queues DEF ClientInv, InCall
<1>3. u \in Tid /\ u # k.run /\ k.won[u] = NoQueue
  BY <1>1, Fields DEF Sleepers
<1>4. k.wq[m] = <<>>
  <2> SUFFICES ASSUME k.wq[m] # <<>> PROVE FALSE
    OBVIOUS
  <2>1. PICK t \in Tid : k.won[t] = m
    BY Fields DEF Settled, Queued
  <2>2. t = c
    <3>1. k.won[t] # NoQueue
      BY <2>1, Queues
    <3>2. \/ k.won[t] = ReqSem
          \/ t \in Clients /\ pc[t] = "get_result" /\ k.won[t] = hold[t]
          \/ t \in Clients /\ k.won[t] = MailQ(t)
      BY <3>1, Fields DEF Sleepers
    <3>3. ASSUME t \in Clients, pc[t] = "get_result" PROVE hold[t] \in Reqs
      BY <3>3, Fields DEF ClientInv, InCall
    <3> QED BY <1>0, <2>1, <3>2, <3>3, Queues
  <2> QED BY <1>0, <1>1, <2>1, <2>2, Fields, Queues
<1>5. /\ Settled(k)' /\ k'.val = k.val /\ k'.sem = k.sem
      /\ k'.won = k.won \/ k'.won = [k.won EXCEPT ![c] = m]
      /\ k'.wq = k.wq \/ k'.wq = [k.wq EXCEPT ![m] = <<c>>]
  <2>1. CASE c \in mail
    BY <1>1, <2>1, QuietGate
  <2>2. CASE c \notin mail
    <3> DEFINE k2 == wait_queue_sleep(k, m)
    <3>1. /\ Settled(k2) /\ k2.val = k.val /\ k2.sem = k.sem
          /\ k2.won = [k.won EXCEPT ![c] = m] /\ k2.wq = [k.wq EXCEPT ![m] = <<c>>]
      BY <1>1, <1>3, <1>4, Fields, SleepSettled
    <3> QED BY <1>0, <1>1, <2>2, <3>1, GateSettled DEF Keeps
  <2> QED BY <2>1, <2>2
<1>6. Typed'
  BY <1>1, <1>2, Fields DEF Typed, Steps
<1>7. pc'[c] = "take" /\ \A t \in Tid \ {c} : pc'[t] = pc[t]
  BY <1>1, <1>2, Fields DEF Typed
<1>8. Sleepers'
  BY <1>0, <1>1, <1>2, <1>5, <1>7, Fields DEF Sleepers
<1>9. \A q \in Reqs \cup {ReqSem} : k'.wq[q] = k.wq[q]
  BY <1>0, <1>5, Fields, Queues
<1>10. ServerInv'
  BY <1>1, <1>2, <1>5, <1>7, <1>9, Fields, Queues DEF ServerInv
<1>11. ASSUME NEW d \in Clients PROVE ClientInv(d)'
  BY <1>1, <1>2, <1>7, Fields, Queues DEF ClientInv, InCall
<1>12. ASSUME NEW q \in Reqs PROVE ReqInv(q)'
  <2>1. \A d \in Clients : hold[d] = q => hold'[d] = q /\ pc'[d] = pc[d]
    BY <1>1, <1>2, <1>7, Queues
  <2> QED BY <1>1, <1>5, <1>9, <2>1, ReqFrame
<1> QED BY <1>5, <1>6, <1>8, <1>10, <1>11, <1>12 DEF IInv

\* LISTEN never sleeps.
LEMMA ListenStep ==
    ASSUME IInv, NEW c \in Clients, Listen(c) PROVE IInv'
<1>0. PICK next \in {"idle", "listen"} :
      /\ k.run = c /\ pc[c] = "take" /\ pc' = [pc EXCEPT ![c] = next] /\ Gate(k)
      /\ portal' = portal /\ reqs' = reqs /\ req' = req /\ hold' = hold
      /\ result' = result
  BY DEF Listen, Call, pvars
<1>1. c \in Tid /\ c # Server /\ hold[c] \notin Reqs
  BY <1>0, Fields, Queues DEF ClientInv, InCall
<1>2. /\ Settled(k)' /\ k'.won = k.won /\ k'.wq = k.wq /\ k'.val = k.val
      /\ k'.sem = k.sem
  BY <1>0, QuietGate
<1>3. Typed'
  BY <1>0, <1>1, Fields DEF Typed, Steps
<1>4. pc'[c] = next /\ \A t \in Tid \ {c} : pc'[t] = pc[t]
  BY <1>0, <1>1, Fields DEF Typed
<1>5. Sleepers'
  BY <1>0, <1>1, <1>2, <1>4, Fields DEF Sleepers
<1>6. ServerInv'
  BY <1>0, <1>1, <1>2, <1>4, Fields, Queues DEF ServerInv
<1>7. ASSUME NEW d \in Clients PROVE ClientInv(d)'
  BY <1>0, <1>1, <1>4, Fields, Queues DEF ClientInv, InCall
<1>8. ASSUME NEW q \in Reqs PROVE ReqInv(q)'
  <2>1. \A d \in Clients : hold[d] = q => hold'[d] = q /\ pc'[d] = pc[d]
    BY <1>0, <1>1, <1>4, Queues
  <2> QED BY <1>0, <1>2, <2>1, ReqFrame
<1> QED BY <1>2, <1>3, <1>5, <1>6, <1>7, <1>8 DEF IInv

\* A mail wakes nobody but a thread that waits for mail.
LEMMA KeyStep ==
    ASSUME IInv, NEW c \in Clients, KeyInterrupt(c) PROVE IInv'
<1>0. PICK m \in WaitQ : m = MailQ(c) /\ m \notin Reqs /\ m # ReqSem
  BY Queues
<1>1. /\ Gate(wait_queue_wake_one(k, m)) /\ portal' = portal /\ reqs' = reqs
      /\ req' = req /\ pc' = pc /\ hold' = hold /\ result' = result
  BY <1>0 DEF KeyInterrupt, pvars
<1>2. /\ Settled(k)' /\ k'.val = k.val /\ k'.sem = k.sem
      /\ \A t \in Tid : k'.won[t] = k.won[t] \/ k'.won[t] = NoQueue
      /\ \A q \in Reqs \cup {ReqSem} : k'.wq[q] = k.wq[q]
  <2>1. CASE k.wq[m] = <<>>
    <3>1. wait_queue_wake_one(k, m) = k
      BY <2>1 DEF wait_queue_wake_one
    <3> QED BY <1>1, <3>1, QuietGate
  <2>2. CASE k.wq[m] # <<>>
    <3>1. PICK t \in Tid : k.won[t] = m
      BY <2>2, Fields DEF Settled, Queued
    <3>2. k.wq[m] = <<t>>
      BY <3>1, Fields, Queues DEF Settled, Queued
    <3> DEFINE k2 == wait_queue_wake_one(k, m)
    <3>3. /\ Settled(k2) /\ k2.val = k.val /\ k2.sem = k.sem
          /\ k2.won = [k.won EXCEPT ![t] = NoQueue] /\ k2.wq = [k.wq EXCEPT ![m] = <<>>]
      <4>1. Settled(k) /\ k.wq[m] = <<t>>
        BY <3>2, Fields
      <4> QED BY ONLY <4>1, m \in WaitQ, t \in Tid, WakeSettled
    <3>4. Settled(k)' /\ Keeps(k2, k')
      BY <1>1, <3>3, GateSettled
    <3> HIDE DEF k2
    <3> QED BY <1>0, <3>3, <3>4, Fields, Queues DEF Keeps
  <2> QED BY <2>1, <2>2
<1>3. Typed' /\ Sleepers'
  BY <1>1, <1>2, Fields DEF Typed, Sleepers
<1>4. ServerInv'
  BY <1>1, <1>2, Fields DEF ServerInv
<1>5. ASSUME NEW d \in Clients PROVE ClientInv(d)'
  BY <1>1, Fields DEF ClientInv
<1>6. ASSUME NEW q \in Reqs PROVE ReqInv(q)'
  BY <1>1, <1>2, ReqFrame
<1> QED BY <1>2, <1>3, <1>4, <1>5, <1>6 DEF IInv

\* A step that changes nothing keeps everything.
LEMMA Stutter ==
    ASSUME IInv, UNCHANGED vars PROVE IInv'
<1>1. /\ k' = k /\ portal' = portal /\ reqs' = reqs /\ req' = req /\ pc' = pc
      /\ hold' = hold /\ result' = result
  BY DEF vars, pvars
<1>2. Settled(k)'
  BY <1>1, Fields DEF Settled, Queued, ThreadsTyped
<1>3. Typed' /\ Sleepers' /\ ServerInv'
  BY <1>1, Fields DEF Typed, Sleepers, ServerInv
<1>4. ASSUME NEW d \in Clients PROVE ClientInv(d)'
  BY <1>1, Fields DEF ClientInv
<1>5. ASSUME NEW q \in Reqs PROVE ReqInv(q)'
  BY <1>1, ReqFrame
<1> QED BY <1>2, <1>3, <1>4, <1>5 DEF IInv

\* Every step of Portal keeps the invariant, as long as a thread other than the
\* clients and the server can take over when these sleep.
LEMMA NextIInv ==
    ASSUME IInv, [Next]_vars, NEW u \in Tid \ (Clients \cup {Server})
    PROVE  IInv'
<1>1. ASSUME NEW c \in Clients, ClientStep(c) PROVE IInv'
  BY <1>1, CallStep, WaitReplyStep, GetResultStep, CleanupStep, ListenBlockStep,
     ListenStep DEF ClientStep, ClientCall
<1>2. ASSUME NEW c \in Clients, KeyInterrupt(c) PROVE IInv'
  BY <1>2, KeyStep
<1>3. CASE ServerStep
  BY <1>3, InitStep, WaitStep, GetReqStep, ReplyStep, DestroyStep DEF ServerStep
<1>4. CASE schedule_isr
  BY <1>4, TimerStep
<1>5. CASE UNCHANGED vars
  BY <1>5, Stutter
<1> QED BY <1>1, <1>2, <1>3, <1>4, <1>5 DEF Next

-----------------------------------------------------------------------------
(* The theorems. *)

\* There is a thread that is neither a client nor the server, like the threads
\* kernel_main and init leave behind.
IdleThread == Tid \ (Clients \cup {Server}) # {}

\* The inductive invariant holds of every behaviour of portal_exec's callers.
THEOREM PortalInvariant ==
    ASSUME IdleThread PROVE Spec => []IInv
<1>1. IInv /\ [Next]_vars => IInv'
  <2>1. PICK u : u \in Tid \ (Clients \cup {Server})
    BY DEF IdleThread
  <2> QED BY <2>1, NextIInv
<1> QED BY <1>1, InitIInv, PTL DEF Spec

\* What portal_call() returns was stored by a reply to this very request
\* (GET_RESULT: "resp.ret is fresh").
THEOREM PortalFreshResult ==
    ASSUME IdleThread PROVE Spec => []FreshResult
<1>1. IInv => FreshResult
  BY Fields DEF FreshResult, ClientInv
<1> QED BY <1>1, PortalInvariant, PTL

\* As long as the portal exists no thread holds the handle of a freed request,
\* whatever the order of CLEANUP, GET_REQ and REPLY.
THEOREM PortalHandlesLive ==
    ASSUME IdleThread PROVE Spec => []HandlesLive
<1>1. ASSUME IInv, portal # "dead", NEW t \in Tid, hold[t] # NoReq
      PROVE  req[hold[t]].st = "live"
  <2>1. hold[t] \in Reqs
    BY <1>1, Fields DEF Typed
  <2>2. CASE t \in Clients
    BY <1>1, <2>1, <2>2, Fields DEF ClientInv
  <2>3. CASE t = Server
    BY <1>1, <2>1, <2>3, Fields DEF ReqInv
  <2> QED BY <1>1, <2>2, <2>3, Fields DEF Typed
<1>2. IInv => HandlesLive
  BY <1>1 DEF HandlesLive, NoUseAfterFree
<1> QED BY <1>2, PortalInvariant, PTL

\* A server that sleeps in WAIT has nothing to do ("one signal per posted
\* request").
THEOREM PortalNoLostRequest ==
    ASSUME IdleThread PROVE Spec => []NoLostRequest
<1>1. ASSUME IInv, pc[Server] = "get_req", k.st[Server] = "pending"
      PROVE  reqs = <<>>
  <2>1. Server \in Tid
    BY Queues
  <2>2. k.won[Server] # NoQueue
    BY <1>1, <2>1, Fields DEF Settled, Queued
  <2>3. k.won[Server] = ReqSem
    BY <1>1, <2>1, <2>2, Fields, Queues DEF Sleepers
  <2>4. k.wq[ReqSem] = <<Server>>
    BY <1>1, <2>1, <2>2, <2>3, Fields DEF Settled, Queued
  <2>5. portal = "live"
    BY <1>1, Fields DEF ServerInv, Typed, ObjectState
  <2>6. k.val[ReqSem] < 0
    <3>1. k.wq[ReqSem] = IF k.val[ReqSem] < 0 THEN <<Server>> ELSE <<>>
      BY <1>1, <2>5, Fields DEF ServerInv
    <3>2. <<Server>> # <<>>
      OBVIOUS
    <3> QED BY <2>4, <3>1, <3>2, Zenon
  <2>7. k.val[ReqSem] = Cardinality(Members(reqs)) - 1
    BY <1>1, <2>5, Fields DEF ServerInv
  <2>8. reqs \in Seq(Reqs)
    BY <1>1, Fields DEF Typed
  <2>9. Cardinality(Members(reqs)) \in Nat
    BY <2>8, Listed
  <2>10. Cardinality(Members(reqs)) = 0
    BY <2>6, <2>7, <2>9
  <2> QED BY <2>8, <2>10, Listed
<1>2. IInv => NoLostRequest
  BY <1>1 DEF NoLostRequest
<1> QED BY <1>2, PortalInvariant, PTL

\* A semaphore owes exactly what its sleepers wait for, and nobody is parked on
\* one that was freed: no wakeup is lost or doubled, and DESTROY strands no
\* client.
THEOREM PortalSemaphoresBalanced ==
    ASSUME IdleThread PROVE Spec => []SemaphoresBalanced
<1>1. ASSUME IInv, NEW q \in {ReqSem} \cup Reqs, NEW t \in Tid, k.sem[q] = "live",
             k.wq[q] = IF k.val[q] < 0 THEN <<t>> ELSE <<>>,
             k.val[q] \in Int, k.val[q] >= 0 - 1
      PROVE  IF k.sem[q] = "live" /\ k.val[q] < 0 THEN Len(k.wq[q]) = 0 - k.val[q]
             ELSE k.wq[q] = <<>>
  <2>1. CASE k.val[q] < 0
    <3>1. k.wq[q] = <<t>> /\ Len(<<t>>) = 1 /\ k.val[q] = 0 - 1
      BY <1>1, <2>1
    <3>2. Len(k.wq[q]) = 0 - k.val[q]
      BY <3>1
    <3> QED BY <1>1, <2>1, <3>2
  <2>2. CASE ~(k.val[q] < 0)
    BY <1>1, <2>2
  <2> QED BY <2>1, <2>2
<1>2. ASSUME IInv, NEW q \in {ReqSem} \cup Reqs
      PROVE  IF k.sem[q] = "live" /\ k.val[q] < 0 THEN Len(k.wq[q]) = 0 - k.val[q]
             ELSE k.wq[q] = <<>>
  <2>1. CASE q \in Reqs /\ req[q].st = "live"
    <3>1. LiveReq(q)
      BY <1>2, <2>1, Fields DEF ReqInv
    <3> QED BY <1>1, <1>2, <3>1, Queues DEF LiveReq, Owed
  <2>2. CASE q \in Reqs /\ req[q].st # "live"
    <3>1. k.wq[q] = <<>> /\ k.sem[q] # "live"
      BY <1>2, <2>2, Fields DEF ReqInv
    <3> QED BY <3>1
  <2>3. CASE q = ReqSem /\ portal = "live"
    <3>1. Cardinality(Members(reqs)) \in Nat
      BY <1>2, Fields, Listed DEF Typed
    <3> QED BY <1>1, <1>2, <2>3, <3>1, Fields, Queues DEF ServerInv
  <2>4. CASE q = ReqSem /\ portal # "live"
    BY <1>2, <2>4, Fields DEF ServerInv
  <2> QED BY <2>1, <2>2, <2>3, <2>4
<1>3. IInv => SemaphoresBalanced
  BY <1>2 DEF SemaphoresBalanced
<1> QED BY <1>3, PortalInvariant, PTL

\* A request is queued, or handed to the server, or answered.
THEOREM PortalRequestsAccounted ==
    ASSUME IdleThread PROVE Spec => []RequestsAccounted
<1>1. IInv => RequestsAccounted
  BY Fields DEF RequestsAccounted, ReqInv
<1> QED BY <1>1, PortalInvariant, PTL

-----------------------------------------------------------------------------
(* The refinement of PortalRPC, but for its fairness. *)

\* Nothing a caller sees of client d's call changes.
Unseen(d) ==
    /\ InProgress(d)' <=> InProgress(d)
    /\ InProgress(d) => hold'[d] = hold[d] /\ req'[hold[d]].resp = req[hold[d]].resp

LEMMA SeenFrame ==
    ASSUME NEW d \in Clients, Unseen(d)
    PROVE  Phase'[d] = Phase[d] /\ Answer'[d] = Answer[d]
<1>1. CASE InProgress(d)
  BY <1>1 DEF Unseen, Phase, Answer
<1>2. CASE ~InProgress(d)
  BY <1>2 DEF Unseen, Phase, Answer
<1> QED BY <1>1, <1>2

\* A step that nobody sees is a stutter of PortalRPC.
LEMMA UnseenStutters ==
    ASSUME \A d \in Clients : Unseen(d), result' = result
    PROVE  UNCHANGED RPC!vars
<1>1. \A d \in Clients : Phase'[d] = Phase[d] /\ Answer'[d] = Answer[d]
  BY SeenFrame
<1>2. Phase' = Phase /\ Answer' = Answer
  BY <1>1 DEF Phase, Answer
<1> QED BY <1>2 DEF RPC!vars

\* CALL is the request.
LEMMA CallRefines ==
    ASSUME IInv, NEW c \in Clients, PortalCall(c) PROVE RPC!Next
<1>1. PICK r \in Reqs :
        /\ pc[c] = "idle" /\ pc' = [pc EXCEPT ![c] = "wait_reply"]
        /\ \A t \in Tid : hold[t] # r
        /\ req' = [req EXCEPT ![r] = [st |-> "live", client |-> c,
                                      dequeued |-> FALSE, resp |-> NoReply]]
        /\ hold' = [hold EXCEPT ![c] = r] /\ result' = result
  BY DEF PortalCall, Call, Unused
<1>2. c \in Tid /\ Clients \subseteq Tid
  BY Queues
<1>3. ASSUME NEW d \in Clients, d # c PROVE Phase'[d] = Phase[d] /\ Answer'[d] = Answer[d]
  <2>1. pc'[d] = pc[d] /\ hold'[d] = hold[d]
    BY <1>1, <1>2, <1>3, Fields DEF Typed
  <2>2. ASSUME InProgress(d) PROVE req'[hold[d]] = req[hold[d]]
    <3>1. hold[d] \in Reqs
      BY <2>2, Fields DEF ClientInv, InCall, InProgress
    <3>2. hold[d] # r
      BY <1>1, <1>2
    <3> QED BY <1>1, <3>1, <3>2, Fields DEF Typed
  <2>3. Unseen(d)
    BY <2>1, <2>2 DEF Unseen, InProgress
  <2> QED BY <2>3, SeenFrame
<1>4. Phase[c] = "idle" /\ Answer[c] = NoReply
  BY <1>1 DEF Phase, Answer, InProgress
<1>5. Phase'[c] = "called" /\ Answer'[c] = NoReply
  <2>1. pc'[c] = "wait_reply" /\ hold'[c] = r /\ req'[r].resp = NoReply
    BY <1>1, <1>2, Fields DEF Typed
  <2> QED BY <2>1 DEF Phase, Answer, InProgress
<1>6. Phase' = [Phase EXCEPT ![c] = "called"] /\ Answer' = Answer
  <2>1. \A d \in Clients : Phase'[d] = [Phase EXCEPT ![c] = "called"][d]
    BY <1>3, <1>5 DEF Phase
  <2>2. \A d \in Clients : Answer'[d] = Answer[d]
    BY <1>3, <1>4, <1>5
  <2> QED BY <2>1, <2>2 DEF Phase, Answer
<1> QED BY <1>1, <1>4, <1>6 DEF RPC!Next, RPC!Request

\* REPLY is the answer, to the client of the request the server has.
LEMMA ReplyRefines ==
    ASSUME IInv, PortalReply PROVE RPC!Next
<1>0. PICK r : r = hold[Server]
  OBVIOUS
<1>1. PICK ret \in Rets :
      /\ pc[Server] = "reply" /\ pc' = [pc EXCEPT ![Server] = "wait"]
      /\ req' = [req EXCEPT ![r].resp = ret] /\ hold' = [hold EXCEPT ![Server] = NoReq]
      /\ result' = result
  BY <1>0 DEF PortalReply, Call
<1>2. r \in Reqs /\ Server \in Tid /\ Server \notin Clients /\ ret # NoReply
      /\ Clients \subseteq Tid
  BY <1>0, <1>1, Fields, Queues DEF ServerInv
<1>3. req[r].resp = NoReply /\ req[r].st = "live" /\ LiveReq(r)
  BY <1>0, <1>2, Fields DEF ReqInv
<1>4. PICK c \in Clients : c = req[r].client /\ hold[c] = r /\ pc[c] # "cleanup"
  BY <1>3 DEF LiveReq
<1>5. InProgress(c) /\ InProgress(c)'
  <2>1. pc[c] \in InCall
    BY <1>2, <1>4, Fields DEF ClientInv
  <2>2. pc'[c] = pc[c]
    BY <1>1, <1>2, <1>4, Fields DEF Typed
  <2> QED BY <1>4, <2>1, <2>2 DEF InProgress, InCall
<1>6. ASSUME NEW d \in Clients, d # c PROVE Phase'[d] = Phase[d] /\ Answer'[d] = Answer[d]
  <2>1. pc'[d] = pc[d] /\ hold'[d] = hold[d]
    BY <1>1, <1>2, Fields DEF Typed
  <2>2. ASSUME InProgress(d) PROVE req'[hold[d]] = req[hold[d]]
    <3>1. hold[d] \in Reqs
      BY <2>2, Fields DEF ClientInv, InCall, InProgress
    <3>2. hold[d] # r
      BY <1>4, <1>6, <3>1, Fields DEF ClientInv
    <3> QED BY <1>1, <3>1, <3>2, Fields DEF Typed
  <2>3. Unseen(d)
    BY <2>1, <2>2 DEF Unseen, InProgress
  <2> QED BY <2>3, SeenFrame
<1>7. Phase[c] = "called"
  BY <1>3, <1>4, <1>5 DEF Phase
<1>8. Phase'[c] = "answered" /\ Answer'[c] = ret
  <2>1. hold'[c] = r /\ req'[r].resp = ret
    BY <1>1, <1>2, <1>4, Fields DEF Typed
  <2> QED BY <1>2, <1>5, <2>1 DEF Phase, Answer
<1>9. Phase' = [Phase EXCEPT ![c] = "answered"] /\ Answer' = [Answer EXCEPT ![c] = ret]
  <2>1. \A d \in Clients : Phase'[d] = [Phase EXCEPT ![c] = "answered"][d]
    BY <1>6, <1>8 DEF Phase
  <2>2. \A d \in Clients : Answer'[d] = [Answer EXCEPT ![c] = ret][d]
    BY <1>6, <1>8 DEF Answer
  <2> QED BY <2>1, <2>2 DEF Phase, Answer
<1> QED BY <1>1, <1>7, <1>9 DEF RPC!Next, RPC!Answer

\* GET_RESULT is the return.
LEMMA GetResultRefines ==
    ASSUME IInv, NEW c \in Clients, PortalGetResult(c) PROVE RPC!Next
<1>1. /\ pc[c] = "get_result" /\ pc' = [pc EXCEPT ![c] = "cleanup"]
      /\ req' = req /\ hold' = hold /\ result' = [result EXCEPT ![c] = req[hold[c]].resp]
  BY DEF PortalGetResult, Call, pvars, Deref
<1>2. c \in Tid /\ Clients \subseteq Tid /\ req[hold[c]].resp # NoReply
  BY GetResultAnswered, Queues
<1>3. ASSUME NEW d \in Clients, d # c PROVE Phase'[d] = Phase[d] /\ Answer'[d] = Answer[d]
  <2>1. pc'[d] = pc[d]
    BY <1>1, <1>2, <1>3, Fields DEF Typed
  <2>2. Unseen(d)
    BY <1>1, <2>1 DEF Unseen, InProgress
  <2> QED BY <2>2, SeenFrame
<1>4. Phase[c] = "answered" /\ Answer[c] = req[hold[c]].resp
  BY <1>1, <1>2 DEF Phase, Answer, InProgress
<1>5. Phase'[c] = "idle" /\ Answer'[c] = NoReply
  <2>1. pc'[c] = "cleanup"
    BY <1>1, <1>2, Fields DEF Typed
  <2> QED BY <2>1 DEF Phase, Answer, InProgress
<1>6. Phase' = [Phase EXCEPT ![c] = "idle"] /\ Answer' = [Answer EXCEPT ![c] = NoReply]
  <2>1. \A d \in Clients : Phase'[d] = [Phase EXCEPT ![c] = "idle"][d]
    BY <1>3, <1>5 DEF Phase
  <2>2. \A d \in Clients : Answer'[d] = [Answer EXCEPT ![c] = NoReply][d]
    BY <1>3, <1>5 DEF Answer
  <2> QED BY <2>1, <2>2 DEF Phase, Answer
<1> QED BY <1>1, <1>4, <1>6 DEF RPC!Next, RPC!Return

\* The other client calls are not seen, nor are the mailbox and the timer.
LEMMA OthersStutter ==
    ASSUME IInv,
           \/ \E c \in Clients : \/ PortalWaitReply(c) \/ PortalCleanup(c)
                                 \/ ListenBlock(c) \/ Listen(c) \/ KeyInterrupt(c)
           \/ PortalInit \/ PortalWait \/ PortalGetReq \/ PortalDestroy
           \/ schedule_isr \/ UNCHANGED vars
    PROVE  UNCHANGED RPC!vars
<1>0. Server \in Tid \ Clients /\ Clients \subseteq Tid
  BY Queues
<1>1. ASSUME NEW c \in Clients,
             PortalWaitReply(c) \/ ListenBlock(c) \/ Listen(c) \/ KeyInterrupt(c)
      PROVE  UNCHANGED RPC!vars
  <2>1. req' = req /\ hold' = hold /\ result' = result
    BY <1>1 DEF PortalWaitReply, ListenBlock, Listen, KeyInterrupt, pvars
  <2>2. \A d \in Clients : InProgress(d)' <=> InProgress(d)
    BY <1>0, <1>1, Fields
       DEF PortalWaitReply, ListenBlock, Listen, KeyInterrupt, Call, InProgress, Typed
  <2> QED BY <2>1, <2>2, UnseenStutters DEF Unseen
<1>2. ASSUME NEW c \in Clients, PortalCleanup(c) PROVE UNCHANGED RPC!vars
  <2>1. /\ pc[c] = "cleanup" /\ pc' = [pc EXCEPT ![c] = "idle"]
        /\ req' = [req EXCEPT ![hold[c]].st = "dead"] /\ result' = result
        /\ hold' = [hold EXCEPT ![c] = NoReq]
    BY <1>2 DEF PortalCleanup, Call
  <2>2. ASSUME NEW d \in Clients PROVE Unseen(d)
    <3>1. hold[c] \in Reqs
      BY <2>1, Fields DEF ClientInv, InCall
    <3>2. \A q \in Reqs : req'[q].resp = req[q].resp
      BY <2>1, <3>1, Fields DEF Typed
    <3>3. CASE d = c
      BY <1>0, <2>1, <3>3, Fields DEF Unseen, InProgress, Typed
    <3>4. CASE d # c
      <4>1. pc'[d] = pc[d] /\ hold'[d] = hold[d]
        BY <1>0, <2>1, <3>4, Fields DEF Typed
      <4>2. InProgress(d) => hold[d] \in Reqs
        BY Fields DEF ClientInv, InCall, InProgress
      <4> QED BY <3>2, <4>1, <4>2 DEF Unseen, InProgress
    <3> QED BY <3>3, <3>4
  <2> QED BY <2>1, <2>2, UnseenStutters
<1>3. CASE PortalInit \/ PortalWait \/ schedule_isr \/ UNCHANGED vars
  <2>1. req' = req /\ hold' = hold /\ result' = result
    BY <1>3 DEF PortalInit, PortalWait, schedule_isr, vars, pvars
  <2>2. \A d \in Clients : InProgress(d)' <=> InProgress(d)
    BY <1>0, <1>3, Fields
       DEF PortalInit, PortalWait, schedule_isr, vars, Call, InProgress, Typed
  <2> QED BY <2>1, <2>2, UnseenStutters DEF Unseen
<1>4. CASE PortalGetReq
  <2>1. PICK r : r = reqs[1]
    OBVIOUS
  <2>2. /\ pc' = [pc EXCEPT ![Server] = "reply"] /\ hold' = [hold EXCEPT ![Server] = r]
        /\ req' = [req EXCEPT ![r].dequeued = TRUE] /\ result' = result
    BY <1>4, <2>1, GetReqFinds DEF PortalGetReq, Call
  <2>3. r \in Reqs
    BY <1>4, <2>1, GetReqFinds, Fields DEF Typed
  <2>4. ASSUME NEW d \in Clients PROVE Unseen(d)
    <3>1. pc'[d] = pc[d] /\ hold'[d] = hold[d]
      BY <1>0, <2>2, Fields DEF Typed
    <3>2. \A q \in Reqs : req'[q].resp = req[q].resp
      BY <2>2, <2>3, Fields DEF Typed
    <3>3. InProgress(d) => hold[d] \in Reqs
      BY Fields DEF ClientInv, InCall, InProgress
    <3> QED BY <3>1, <3>2, <3>3 DEF Unseen, InProgress
  <2> QED BY <2>2, <2>4, UnseenStutters
<1>5. CASE PortalDestroy
  <2>1. PICK Q : Q = Members(reqs)
    OBVIOUS
  <2>2. /\ pc' = [pc EXCEPT ![Server] = "compute"] /\ hold' = hold /\ result' = result
        /\ req' = [r \in Reqs |-> IF r \in Q THEN [req[r] EXCEPT !.st = "dead"] ELSE req[r]]
    BY <1>5, <2>1 DEF PortalDestroy, Call
  <2>3. ASSUME NEW d \in Clients PROVE Unseen(d)
    <3>1. pc'[d] = pc[d]
      BY <1>0, <2>2, Fields DEF Typed
    <3>2. \A q \in Reqs : req'[q].resp = req[q].resp
      BY <2>2, Fields DEF Typed
    <3>3. InProgress(d) => hold[d] \in Reqs
      BY Fields DEF ClientInv, InCall, InProgress
    <3> QED BY <2>2, <3>1, <3>2, <3>3 DEF Unseen, InProgress
  <2> QED BY <2>2, <2>3, UnseenStutters
<1> QED BY <1>1, <1>2, <1>3, <1>4, <1>5

\* Portal calls are remote procedure calls, fairness aside: every step of the
\* portal is a request, an answer, a return or nothing to its callers.  So a
\* call is answered at most once, portal_call() returns only after that and
\* with that answer.
THEOREM PortalRefinesRPC ==
    ASSUME IdleThread PROVE Spec => RPC!Init /\ [][RPC!Next]_(RPC!vars)
<1>1. ASSUME Init PROVE RPC!Init
  <2>1. \A c \in Clients : pc[c] = "idle"
    BY <1>1, Queues DEF Init
  <2> QED BY <1>1, <2>1 DEF Init, RPC!Init, Phase, Answer, InProgress
<1>2. ASSUME IInv, [Next]_vars PROVE [RPC!Next]_(RPC!vars)
  <2>1. ASSUME NEW c \in Clients, ClientStep(c) \/ KeyInterrupt(c)
        PROVE  [RPC!Next]_(RPC!vars)
    BY <1>2, <2>1, CallRefines, GetResultRefines, OthersStutter DEF ClientStep, ClientCall
  <2>2. CASE ServerStep
    BY <1>2, <2>2, ReplyRefines, OthersStutter DEF ServerStep
  <2>3. CASE schedule_isr \/ UNCHANGED vars
    BY <1>2, <2>3, OthersStutter
  <2> QED BY <1>2, <2>1, <2>2, <2>3 DEF Next
<1> QED BY <1>1, <1>2, PortalInvariant, PTL DEF Spec
=============================================================================
