--------------------------- MODULE KThreadsProofs ---------------------------
(***************************************************************************)
(* What the functions on kernel lists and on the thread state preserve.    *)
(***************************************************************************)
EXTENDS KThreads, FiniteSetTheorems, TLAPS

(* list.h *)

\* list_add puts x in front of a list that does not hold it.
LEMMA ListAdd ==
    ASSUME NEW T, NEW s \in Seq(T), NEW x \in T
    PROVE  /\ list_add(x, s) \in Seq(T)
           /\ Len(list_add(x, s)) = Len(s) + 1
           /\ Members(list_add(x, s)) = Members(s) \cup {x}
           /\ Distinct(s) /\ x \notin Members(s) => Distinct(list_add(x, s))
<1> DEFINE n == Len(s)
           r == list_add(x, s)
<1>1. n \in Nat /\ DOMAIN s = 1 .. n /\ \A i \in 1 .. n : s[i] \in T
  OBVIOUS
<1>2. r = [i \in 1 .. n + 1 |-> IF i = 1 THEN x ELSE s[i - 1]]
  BY DEF list_add
<1>3. \A i \in 1 .. n + 1 : r[i] \in T
  BY <1>1, <1>2
<1>4. r \in Seq(T) /\ Len(r) = n + 1 /\ DOMAIN r = 1 .. n + 1
  BY <1>1, <1>2, <1>3
<1>5. r[1] = x /\ \A i \in 1 .. n : r[i + 1] = s[i]
  BY <1>1, <1>2
<1>6. Members(r) = Members(s) \cup {x}
  <2>1. ASSUME NEW i \in DOMAIN r PROVE r[i] \in Members(s) \cup {x}
    BY <1>1, <1>2, <1>4 DEF Members
  <2>2. ASSUME NEW i \in DOMAIN s PROVE s[i] \in Members(r)
    <3>1. i + 1 \in DOMAIN r BY <1>1, <1>4
    <3> QED BY <3>1, <1>1, <1>5 DEF Members
  <2>3. x \in Members(r)
    <3>1. 1 \in DOMAIN r BY <1>1, <1>4
    <3> QED BY <3>1, <1>5 DEF Members
  <2> QED BY <2>1, <2>2, <2>3 DEF Members
<1>7. ASSUME Distinct(s), x \notin Members(s) PROVE Distinct(r)
  <2>1. \A i \in 1 .. n : s[i] # x
    BY <1>1, <1>7 DEF Members
  <2> QED BY <2>1, <1>1, <1>2, <1>4, <1>7 DEF Distinct
<1> QED BY <1>4, <1>6, <1>7

\* list_del takes exactly the nodes of D out and keeps the rest a list.
LEMMA ListDel ==
    ASSUME NEW T, NEW s \in Seq(T), NEW D
    PROVE  /\ list_del(D, s) \in Seq(T)
           /\ Len(list_del(D, s)) <= Len(s)
           /\ Members(s) \cap D # {} => Len(list_del(D, s)) < Len(s)
           /\ Members(list_del(D, s)) = Members(s) \ D
           /\ Distinct(s) => Distinct(list_del(D, s))
<1> DEFINE n == Len(s)
           K == Kept(s, D, n)
           c == Cardinality(K)
           rank == [i \in K |-> Cardinality(Kept(s, D, i))]
           at(m) == CHOOSE i \in 1 .. n : s[i] \notin D /\ Cardinality(Kept(s, D, i)) = m
           r == list_del(D, s)
<1>1. n \in Nat /\ DOMAIN s = 1 .. n /\ \A i \in 1 .. n : s[i] \in T
  OBVIOUS
<1>2. IsFiniteSet(1 .. n) /\ Cardinality(1 .. n) = n
  <2> HIDE DEF n
  <2>1. Cardinality(1 .. n) = IF 1 > n THEN 0 ELSE n - 1 + 1
    BY <1>1, FS_Interval
  <2> QED BY <1>1, <2>1, FS_Interval
<1>3. ASSUME NEW i \in 1 .. n
      PROVE  /\ Kept(s, D, i) \subseteq K
             /\ IsFiniteSet(Kept(s, D, i))
             /\ Cardinality(Kept(s, D, i)) \in Nat
  <2>1. Kept(s, D, i) \subseteq K /\ Kept(s, D, i) \subseteq 1 .. n
    BY <1>1 DEF Kept
  <2> QED BY <2>1, <1>2, FS_Subset, FS_CardinalityType
<1>4. /\ IsFiniteSet(K) /\ c \in Nat /\ c <= n
      /\ Members(s) \cap D # {} => c < n
  <2>1. K \in SUBSET (1 .. n)
    BY DEF Kept
  <2>2. IsFiniteSet(K) /\ c <= n /\ (n = c => 1 .. n = K)
    BY <2>1, <1>2, FS_Subset
  <2>3. c \in Nat
    BY <2>2, FS_CardinalityType
  <2>4. Members(s) \cap D # {} => 1 .. n # K
    BY <1>1 DEF Members, Kept
  <2> QED BY <2>2, <2>3, <2>4, <1>1
<1>5. rank \in [K -> 1 .. c]
  <2> SUFFICES ASSUME NEW i \in K PROVE Cardinality(Kept(s, D, i)) \in 1 .. c
    OBVIOUS
  <2>1. i \in 1 .. n /\ i \in Kept(s, D, i)
    BY <1>1 DEF Kept
  <2>2. Cardinality(Kept(s, D, i)) <= c
    BY <1>3, <1>4, <2>1, FS_Subset
  <2>3. Cardinality(Kept(s, D, i)) # 0
    BY <1>3, <2>1, FS_EmptySet
  <2> QED BY <1>3, <1>4, <2>1, <2>2, <2>3
<1>6. ASSUME NEW i \in K, NEW j \in K, i < j PROVE rank[i] < rank[j]
  <2>1. i \in 1 .. n /\ j \in 1 .. n
    BY DEF Kept
  <2>2. Kept(s, D, i) \in SUBSET Kept(s, D, j) /\ Kept(s, D, i) # Kept(s, D, j)
    BY <1>1, <1>6, <2>1 DEF Kept
  <2>3. Cardinality(Kept(s, D, i)) <= Cardinality(Kept(s, D, j))
        /\ Cardinality(Kept(s, D, i)) # Cardinality(Kept(s, D, j))
    BY <1>3, <2>1, <2>2, FS_Subset
  <2> QED BY <1>3, <2>1, <2>3
<1>7. rank \in Surjection(K, 1 .. c)
  <2>1. K \subseteq Nat
    BY <1>1 DEF Kept
  <2>2. rank \in Injection(K, 1 .. c)
    <3>1. \A i, j \in K : i < j => rank[i] # rank[j]
      BY <1>5, <1>6, <1>4
    <3> HIDE DEF rank, K
    <3>2. \A i, j \in K : rank[i] = rank[j] => i = j
      BY <2>1, <3>1
    <3> QED BY <1>5, <3>2 DEF Injection, IsInjective
  <2>3. IsFiniteSet(1 .. c) /\ Cardinality(1 .. c) = c
    BY <1>4, FS_Interval
  <2> QED BY <2>2, <2>3, FS_Injection
<1>8. ASSUME NEW m \in 1 .. c
      PROVE  at(m) \in K /\ rank[at(m)] = m
  <2>1. PICK i \in K : rank[i] = m
    BY <1>7 DEF Surjection
  <2>2. i \in 1 .. n /\ s[i] \notin D /\ Cardinality(Kept(s, D, i)) = m
    BY <2>1 DEF Kept
  <2>3. at(m) \in 1 .. n /\ s[at(m)] \notin D /\ Cardinality(Kept(s, D, at(m))) = m
    BY <2>2
  <2> HIDE DEF at
  <2> QED BY <2>3 DEF Kept
<1>9. r = [m \in 1 .. c |-> s[at(m)]]
  BY DEF list_del
<1> HIDE DEF at
<1>10. ASSUME NEW m \in 1 .. c PROVE at(m) \in 1 .. n /\ s[at(m)] \in T \ D
  BY <1>1, <1>8 DEF Kept
<1>11. r \in Seq(T) /\ Len(r) = c /\ DOMAIN r = 1 .. c
  BY <1>4, <1>9, <1>10
<1>12. Members(r) = Members(s) \ D
  <2>1. ASSUME NEW m \in DOMAIN r PROVE r[m] \in Members(s) \ D
    BY <1>1, <1>9, <1>10, <1>11 DEF Members
  <2>2. ASSUME NEW i \in DOMAIN s, s[i] \notin D PROVE s[i] \in Members(r)
    <3>1. i \in K
      BY <1>1, <2>2 DEF Kept
    <3>2. rank[i] \in 1 .. c
      BY <3>1, <1>5
    <3>3. at(rank[i]) = i
      <4>1. at(rank[i]) \in K /\ rank[at(rank[i])] = rank[i]
        BY <3>2, <1>8
      <4>2. K \subseteq Nat
        BY <1>1 DEF Kept
      <4>3. \A a, b \in K : a < b => rank[a] # rank[b]
        BY <1>4, <1>5, <1>6
      <4> HIDE DEF rank, K
      <4> QED BY <3>1, <4>1, <4>2, <4>3
    <3>4. r[rank[i]] = s[i]
      BY <3>2, <3>3, <1>9
    <3> QED BY <3>2, <3>4, <1>11 DEF Members
  <2> QED BY <2>1, <2>2 DEF Members
<1>13. ASSUME Distinct(s) PROVE Distinct(r)
  <2> SUFFICES ASSUME NEW l \in 1 .. c, NEW m \in 1 .. c, r[l] = r[m]
               PROVE  l = m
    BY <1>11 DEF Distinct
  <2>1. s[at(l)] = s[at(m)]
    BY <1>9
  <2>2. at(l) = at(m)
    BY <1>1, <1>10, <1>13, <2>1 DEF Distinct
  <2> QED BY <1>8, <2>2
<1> QED BY <1>1, <1>4, <1>11, <1>12, <1>13

-----------------------------------------------------------------------------
(* The thread state *)

\* No switch is requested: the state a gate starts in.
Clean(k) == k.ctx = NoThread /\ k.vcb = NoProc

\* The exit of the gate will leave the CPU on thread_run and on the page
\* directory of its process.
CpuOwed(k) ==
    /\ (IF k.ctx # NoThread THEN k.ctx ELSE k.cur) = k.run
    /\ k.run # NoThread =>
        (IF k.vcb # NoProc THEN k.vcb ELSE k.cr3) = k.parent[k.run]

\* The inductive invariant of the thread state, inside and between gates.
\* Only inside semaphore_signal is a value ahead of its waiters.
KCore(k) ==
    /\ ThreadsTyped(k) /\ QueuesCoherent(k)
    /\ ListCoherent(k) /\ ParentsLive(k) /\ CpuOwed(k)

KInv(k) == KCore(k) /\ QueuesCounted(k)

\* What a function on queues and threads keeps, whether the queues are those of
\* semaphores or, as a mailbox's, nobody counts their waiters.
KKeeps(k, k2) == KCore(k2) /\ (QueuesCounted(k) => QueuesCounted(k2))

\* The thread the scan finds is one it looks for, and not the running one.
LEMMA NextAmongFound ==
    ASSUME NEW k, NEW S, NextAmong(k, S) # NoThread
    PROVE  NextAmong(k, S) \in (S \ {k.run}) \cap Tid
BY DEF NextAmong, IsNext

\* A set of numbers that is not empty has a least one: the intervals below its
\* members are finite sets, which proper inclusion orders well.
LEMMA Least ==
    ASSUME NEW T \in SUBSET Nat, T # {}
    PROVE  \E x \in T : \A y \in T : x <= y
<1> DEFINE Below == {0 .. x - 1 : x \in T}
<1>1. Below \subseteq FiniteSubsetsOf(Nat)
  <2>1. \A x \in T : 0 .. x - 1 \in SUBSET Nat /\ IsFiniteSet(0 .. x - 1)
    BY FS_Interval
  <2> QED BY <2>1 DEF FiniteSubsetsOf
<1>2. Below # {}
  OBVIOUS
<1>3. PICK b \in Below : \A c \in Below : ~ (<<c, b>> \in StrictSubsetOrdering(Nat))
  <2> HIDE DEF Below
  <2> QED BY <1>1, <1>2, FS_StrictSubsetOrderingWellFounded, WFMin
<1>4. PICK x \in T : b = 0 .. x - 1
  OBVIOUS
<1>5. ASSUME NEW y \in T, y < x PROVE FALSE
  <2>1. 0 .. y - 1 \in Below /\ y \in 0 .. x - 1 /\ y \notin 0 .. y - 1
    BY <1>5
  <2>2. 0 .. y - 1 \subseteq 0 .. x - 1 /\ 0 .. y - 1 # 0 .. x - 1
    BY <1>5, <2>1
  <2>3. <<0 .. y - 1, 0 .. x - 1>> \in StrictSubsetOrdering(Nat)
    BY <2>2 DEF StrictSubsetOrdering
  <2> QED BY <1>3, <1>4, <2>1, <2>3
<1> QED BY <1>5

\* The scan of thread_head finds somebody when there is somebody to find.
LEMMA NextFound ==
    ASSUME NEW k, k.order \in Seq(Tid), NEW S, k.run \in Members(k.order),
           NEW u \in Members(k.order), u \in S, u # k.run
    PROVE  NextAmong(k, S) \in (S \ {k.run}) \cap Tid
<1> DEFINE s == k.order
           n == Len(s)
<1>1. n \in Nat /\ DOMAIN s = 1 .. n /\ \A m \in 1 .. n : s[m] \in Tid
  OBVIOUS
<1>2. PICK i \in 1 .. n : s[i] = k.run
  BY <1>1 DEF Members
<1> DEFINE M == {m \in 1 .. n : s[m] \in S \ {k.run}}
           T == {Distance(s, i, m) : m \in M}
<1>3. T \in SUBSET Nat
  BY <1>1 DEF Distance
<1>4. T # {}
  BY <1>1 DEF Members
<1>5. PICK x \in T : \A y \in T : x <= y
  <2> HIDE DEF T
  <2> QED BY <1>3, <1>4, Least
<1>6. PICK j \in M : x = Distance(s, i, j)
  OBVIOUS
<1>7. IsNext(k, S, s[j]) /\ s[j] \in Tid
  BY <1>1, <1>2, <1>5, <1>6 DEF IsNext
<1>8. IsNext(k, S, NextAmong(k, S)) /\ NextAmong(k, S) \in Tid
  BY <1>7 DEF NextAmong
<1> QED BY <1>8 DEF IsNext

\* Changing states and wakeups only, and no thread's being alive.
LEMMA StatesOnly ==
    ASSUME NEW k, KCore(k), NEW k2, ThreadsTyped(k2), Live(k2) = Live(k),
           k2.order = k.order, k2.run = k.run, k2.parent = k.parent,
           k2.won = k.won, k2.wq = k.wq, k2.val = k.val, k2.sem = k.sem,
           k2.ps = k.ps, k2.ctx = k.ctx, k2.vcb = k.vcb, k2.cur = k.cur,
           k2.cr3 = k.cr3
    PROVE  KKeeps(k, k2)
BY DEF KKeeps, KCore, QueuesCoherent, QueuesCounted, ListCoherent, ParentsLive, CpuOwed

\* SwitchTo loads the context and the page directory of a live thread (the tail
\* of schedule_isr): the structural invariant survives.
LEMMA SwitchToCore ==
    ASSUME NEW k, KCore(k), Clean(k), k.run # NoThread, NEW next \in Live(k)
    PROVE  /\ KKeeps(k, SwitchTo(k, next))
           /\ Live(SwitchTo(k, next)) = Live(k)
           /\ SwitchTo(k, next).run = next
           /\ SwitchTo(k, next).parent = k.parent
           /\ SwitchTo(k, next).ps = k.ps
           /\ SwitchTo(k, next).won = k.won /\ SwitchTo(k, next).wq = k.wq
<1> DEFINE k2 == SwitchTo(k, next)
<1>1. next \in Tid /\ k.run \in Tid /\ NoThread \notin Tid /\ NoProc \notin Pid
  BY IdsAssumption DEF KCore, ThreadsTyped, Live
<1>2. ThreadsTyped(k2)
  BY <1>1 DEF KCore, ThreadsTyped, SwitchTo
<1>3. /\ k2.order = k.order /\ k2.st = k.st /\ k2.parent = k.parent
      /\ k2.won = k.won /\ k2.wq = k.wq /\ k2.val = k.val
      /\ k2.sem = k.sem /\ k2.ps = k.ps /\ k2.cur = k.cur /\ k2.cr3 = k.cr3
      /\ k2.run = next /\ k2.ctx = next
      /\ k2.vcb = IF k.parent[k.run] # k.parent[next]
                  THEN k.parent[next] ELSE NoProc
  BY <1>1 DEF KCore, ThreadsTyped, SwitchTo
<1>4. Live(k2) = Live(k)
  BY <1>3 DEF Live
<1>5. CpuOwed(k2)
  <2>1. k.parent[next] \in Pid
    BY DEF KCore, ParentsLive
  <2>2. k.cr3 = k.parent[k.run]
    BY DEF KCore, CpuOwed, Clean
  <2> QED BY <1>1, <1>3, <2>1, <2>2 DEF CpuOwed
<1>6. QueuesCoherent(k2) /\ ListCoherent(k2) /\ ParentsLive(k2)
      /\ (QueuesCounted(k) => QueuesCounted(k2))
  BY <1>1, <1>3, <1>4 DEF KCore, QueuesCoherent, QueuesCounted, ListCoherent, ParentsLive
<1> HIDE DEF k2
<1> QED BY <1>2, <1>3, <1>4, <1>5, <1>6 DEF KKeeps, KCore, k2

\* schedule_isr keeps the structural invariant, whatever thread the round-robin
\* search finds; nobody comes, goes, waits or is woken.
LEMMA RescheduleCore ==
    ASSUME NEW k, KCore(k), Clean(k), k.run # NoThread
    PROVE  /\ KKeeps(k, Reschedule(k))
           /\ Live(Reschedule(k)) = Live(k) /\ Reschedule(k).run # NoThread
           /\ Reschedule(k).won = k.won /\ Reschedule(k).wq = k.wq
           /\ Reschedule(k).parent = k.parent /\ Reschedule(k).ps = k.ps
<1> DEFINE next == find_next_runnable(k)
<1>1. CASE next = NoThread
  BY <1>1 DEF Reschedule, KKeeps
<1>2. CASE next # NoThread
  <2>1. next \in Live(k)
    BY <1>2, NextAmongFound DEF find_next_runnable, ReadyThreads, Live
  <2> QED BY <1>2, <2>1, SwitchToCore DEF Reschedule
<1> QED BY <1>1, <1>2

LEMMA RescheduleInv ==
    ASSUME NEW k, KInv(k), Clean(k), k.run # NoThread
    PROVE  KInv(Reschedule(k))
BY RescheduleCore DEF KInv, KKeeps

\* thread_block keeps the structural invariant, whether it consumes a pending
\* wakeup, suspends another thread or reschedules the running one.
LEMMA BlockCore ==
    ASSUME NEW k, KCore(k), Clean(k), k.run # NoThread, NEW t \in Tid
    PROVE  /\ KKeeps(k, thread_block(k, t))
           /\ Live(thread_block(k, t)) = Live(k) /\ thread_block(k, t).run # NoThread
           /\ thread_block(k, t).won = k.won /\ thread_block(k, t).wq = k.wq
           /\ thread_block(k, t).parent = k.parent /\ thread_block(k, t).ps = k.ps
<1>1. CASE t \notin Live(k)
  BY <1>1 DEF thread_block, KKeeps
<1>2. CASE t \in Live(k) /\ k.pend[t]
  <2> DEFINE k2 == [k EXCEPT !.pend[t] = FALSE]
  <2>1. ThreadsTyped(k2) /\ Live(k2) = Live(k)
    BY DEF KCore, ThreadsTyped, Live
  <2>2. /\ KKeeps(k, k2) /\ k2.won = k.won /\ k2.wq = k.wq /\ k2.run = k.run
        /\ k2.parent = k.parent /\ k2.ps = k.ps
    BY <2>1, StatesOnly DEF KCore, ThreadsTyped
  <2> QED BY <1>2, <2>1, <2>2 DEF thread_block
<1>3. CASE t \in Live(k) /\ ~k.pend[t]
  <2> DEFINE k2 == [k EXCEPT !.st[t] = "pending"]
  <2>1. ThreadsTyped(k2) /\ Live(k2) = Live(k)
    BY <1>3 DEF KCore, ThreadsTyped, ThreadState, Live
  <2>2. /\ KKeeps(k, k2) /\ Clean(k2) /\ k2.run = k.run
        /\ k2.won = k.won /\ k2.wq = k.wq /\ k2.parent = k.parent /\ k2.ps = k.ps
    <3>1. KKeeps(k, k2)
      BY <2>1, StatesOnly DEF KCore, ThreadsTyped
    <3> QED BY <3>1 DEF Clean, KCore, ThreadsTyped
  <2> HIDE DEF k2
  <2>3. /\ KKeeps(k2, Reschedule(k2)) /\ Live(Reschedule(k2)) = Live(k2)
        /\ Reschedule(k2).run # NoThread
        /\ Reschedule(k2).won = k2.won /\ Reschedule(k2).wq = k2.wq
        /\ Reschedule(k2).parent = k2.parent /\ Reschedule(k2).ps = k2.ps
    BY <2>2, RescheduleCore DEF KKeeps
  <2>4. thread_block(k, t) = IF t = k.run THEN Reschedule(k2) ELSE k2
    BY <1>3 DEF thread_block, k2
  <2> QED BY <2>1, <2>2, <2>3, <2>4 DEF KKeeps
<1> QED BY <1>1, <1>2, <1>3

LEMMA BlockInv ==
    ASSUME NEW k, KInv(k), Clean(k), k.run # NoThread, NEW t \in Tid
    PROVE  KInv(thread_block(k, t))
BY BlockCore DEF KInv, KKeeps

\* thread_unblock touches only the state and the pending-wakeup flag.
LEMMA UnblockInv ==
    ASSUME NEW k, KInv(k), NEW t \in Tid
    PROVE  KInv(thread_unblock(k, t))
<1>1. CASE t \in Live(k)
  <2> DEFINE k2 == [k EXCEPT !.st[t] = "ready", !.pend[t] = TRUE]
  <2>1. ThreadsTyped(k2) /\ Live(k2) = Live(k)
    BY <1>1 DEF KInv, KCore, ThreadsTyped, ThreadState, Live
  <2>2. k2.order = k.order /\ k2.run = k.run /\ k2.parent = k.parent
        /\ k2.won = k.won /\ k2.wq = k.wq /\ k2.val = k.val /\ k2.sem = k.sem
        /\ k2.ps = k.ps /\ k2.ctx = k.ctx /\ k2.vcb = k.vcb
        /\ k2.cur = k.cur /\ k2.cr3 = k.cr3
    BY DEF KInv, KCore, ThreadsTyped
  <2> HIDE DEF k2
  <2>3. KInv(k2)
    BY <2>1, <2>2, StatesOnly DEF KInv, KKeeps
  <2> QED BY <1>1, <2>3 DEF thread_unblock, k2
<1> QED BY <1>1 DEF thread_unblock

\* A new thread of a live process.
LEMMA CreateInv ==
    ASSUME NEW k, KInv(k), Clean(k), NEW t \in Tid, k.st[t] = "none",
           NEW p \in Pid, k.ps[p] = "live"
    PROVE  /\ KInv(thread_create_ex(k, t, p, "pending"))
           /\ Clean(thread_create_ex(k, t, p, "pending"))
<1> DEFINE k2 == thread_create_ex(k, t, p, "pending")
<1>1. ThreadsTyped(k) /\ t \notin Live(k) /\ NoThread \notin Tid
  BY IdsAssumption DEF KInv, KCore, Live
<1>2. list_add(t, k.order) \in Seq(Tid)
  BY <1>1, ListAdd DEF ThreadsTyped
<1>3. ThreadsTyped(k2)
  BY <1>1, <1>2 DEF ThreadsTyped, ThreadState, thread_create_ex
<1>4. /\ k2.order = list_add(t, k.order)
      /\ k2.st = [k.st EXCEPT ![t] = IF k.run = NoThread THEN "ready" ELSE "pending"]
      /\ k2.parent = [k.parent EXCEPT ![t] = p]
      /\ k2.won = [k.won EXCEPT ![t] = NoQueue]
      /\ k2.run = IF k.run = NoThread THEN t ELSE k.run
      /\ k2.cur = IF k.run = NoThread THEN t ELSE k.cur
      /\ k2.cr3 = IF k.run = NoThread THEN p ELSE k.cr3
      /\ k2.wq = k.wq /\ k2.val = k.val /\ k2.sem = k.sem /\ k2.ps = k.ps
      /\ k2.ctx = k.ctx /\ k2.vcb = k.vcb
  BY <1>1 DEF ThreadsTyped, thread_create_ex
<1> HIDE DEF k2
<1>5. Live(k2) = Live(k) \cup {t}
  BY <1>1, <1>4 DEF Live, ThreadsTyped
<1>6. ListCoherent(k2)
  <2>1. Members(k.order) = Live(k) /\ Distinct(k.order)
    BY DEF KInv, KCore, ListCoherent
  <2>2. k.order \in Seq(Tid)
    BY <1>1 DEF ThreadsTyped
  <2> DEFINE s == k.order
  <2>3. s \in Seq(Tid)
    BY <2>2
  <2> HIDE DEF s
  <2>4. Members(list_add(t, s)) = Members(s) \cup {t}
    BY ONLY <2>3, t \in Tid, ListAdd
  <2>5. Distinct(s) /\ t \notin Members(s) => Distinct(list_add(t, s))
    BY ONLY <2>3, t \in Tid, ListAdd
  <2> QED BY <1>1, <1>4, <1>5, <2>1, <2>4, <2>5 DEF KInv, KCore, ListCoherent, s
<1>7. QueuesCoherent(k2)
  BY <1>1, <1>4, <1>5, IdsAssumption DEF KInv, KCore, QueuesCoherent, ThreadsTyped
<1>8. QueuesCounted(k2)
  BY <1>4 DEF KInv, KCore, QueuesCounted
<1>9. ParentsLive(k2)
  BY <1>1, <1>4, <1>5 DEF KInv, KCore, ParentsLive, ThreadsTyped, Live
<1>10. CpuOwed(k2) /\ Clean(k2)
  <2>1. k.run # NoThread => k.run \in Tid /\ k.run # t
    BY <1>1 DEF KInv, KCore, ListCoherent, Live
  <2> QED BY <1>1, <1>4, <2>1 DEF KInv, KCore, CpuOwed, Clean, ThreadsTyped
<1> QED BY <1>3, <1>6, <1>7, <1>8, <1>9, <1>10 DEF KInv, KCore, k2

\* Freeing threads, the running one not among them.
LEMMA FreeCore ==
    ASSUME NEW k, KCore(k), NEW D \in SUBSET Tid, k.run \notin D
    PROVE  /\ KKeeps(k, FreeThreads(k, D))
           /\ Live(FreeThreads(k, D)) = Live(k) \ D
           /\ FreeThreads(k, D).run = k.run
           /\ FreeThreads(k, D).parent = k.parent /\ FreeThreads(k, D).ps = k.ps
           /\ \A t \in Tid : FreeThreads(k, D).won[t] \in {NoQueue, k.won[t]}
           /\ \A q \in WaitQ : k.wq[q] = <<>> => FreeThreads(k, D).wq[q] = <<>>
<1> DEFINE k2 == FreeThreads(k, D)
<1>1. ThreadsTyped(k)
  BY DEF KCore
<1>2. /\ k2.order = list_del(D, k.order)
      /\ k2.st = [t \in Tid |-> IF t \in D THEN "dead" ELSE k.st[t]]
      /\ k2.won = [t \in Tid |-> IF t \in D THEN NoQueue ELSE k.won[t]]
      /\ k2.wq = [q \in WaitQ |-> list_del(D, k.wq[q])]
      /\ k2.run = k.run /\ k2.pend = k.pend /\ k2.parent = k.parent
      /\ k2.val = k.val /\ k2.sem = k.sem /\ k2.ps = k.ps
      /\ k2.ctx = k.ctx /\ k2.vcb = k.vcb /\ k2.cur = k.cur /\ k2.cr3 = k.cr3
  BY <1>1 DEF ThreadsTyped, FreeThreads
<1>3. /\ k2.order \in Seq(Tid)
      /\ Members(k2.order) = Members(k.order) \ D
      /\ Distinct(k.order) => Distinct(k2.order)
  BY <1>1, <1>2, ListDel DEF ThreadsTyped
<1>4. ASSUME NEW q \in WaitQ
      PROVE  /\ k2.wq[q] \in Seq(Tid)
             /\ Members(k2.wq[q]) = Members(k.wq[q]) \ D
             /\ Distinct(k.wq[q]) => Distinct(k2.wq[q])
             /\ Len(k2.wq[q]) <= Len(k.wq[q])
  <2>1. k.wq[q] \in Seq(Tid)
    BY <1>1 DEF ThreadsTyped
  <2> QED BY <1>2, <2>1, ListDel
<1>5. ThreadsTyped(k2)
  <2>1. k2.wq \in [WaitQ -> Seq(Tid)]
    BY <1>2, <1>4
  <2>2. k2.st \in [Tid -> ThreadState] /\ k2.won \in [Tid -> WaitQ \cup {NoQueue}]
    BY <1>1, <1>2 DEF ThreadsTyped, ThreadState
  <2> QED BY <1>1, <1>3, <2>1, <2>2 DEF ThreadsTyped, FreeThreads
<1> HIDE DEF k2
<1>6. Live(k2) = Live(k) \ D
  BY <1>1, <1>2 DEF Live, ThreadsTyped
<1>7. ListCoherent(k2)
  BY <1>2, <1>3, <1>6 DEF KCore, ListCoherent
<1>8. QueuesCoherent(k2)
  BY <1>1, <1>2, <1>4, <1>6, IdsAssumption DEF KCore, QueuesCoherent
<1>9. ASSUME QueuesCounted(k) PROVE QueuesCounted(k2)
  <2> SUFFICES ASSUME NEW q \in WaitQ, k2.wq[q] # <<>>
               PROVE  k2.sem[q] = "live" /\ Len(k2.wq[q]) <= 0 - k2.val[q]
    BY DEF QueuesCounted
  <2>1. k.wq[q] \in Seq(Tid) /\ k.val[q] \in Int
    BY <1>1 DEF ThreadsTyped
  <2>2. k.wq[q] # <<>>
    BY <1>4, <2>1
  <2> QED BY <1>2, <1>4, <2>1, <2>2, <1>9 DEF QueuesCounted
<1>10. ParentsLive(k2) /\ CpuOwed(k2)
  BY <1>2, <1>6 DEF KCore, ParentsLive, CpuOwed
<1>11. \A q \in WaitQ : k.wq[q] = <<>> => k2.wq[q] = <<>>
  <2> SUFFICES ASSUME NEW q \in WaitQ, k.wq[q] = <<>> PROVE k2.wq[q] = <<>>
    OBVIOUS
  <2>1. Len(k.wq[q]) = 0
    OBVIOUS
  <2> QED BY <1>4, <2>1
<1>12. \A t \in Tid : k2.won[t] \in {NoQueue, k.won[t]}
  BY <1>2
<1> QED BY <1>5, <1>6, <1>7, <1>8, <1>9, <1>10, <1>11, <1>12, <1>2 DEF KKeeps, KCore, k2

LEMMA FreeInv ==
    ASSUME NEW k, KInv(k), NEW D \in SUBSET Tid, k.run \notin D
    PROVE  KInv(FreeThreads(k, D)) /\ Live(FreeThreads(k, D)) = Live(k) \ D
BY FreeCore DEF KInv, KKeeps

\* thread_delete keeps the structural invariant, the detaching from a waiters
\* list and the switch away from a running victim included.
LEMMA DeleteCore ==
    ASSUME NEW k, KCore(k), Clean(k), k.run # NoThread, NEW t \in Tid
    PROVE  LET k2 == thread_delete(k, t)
           IN  /\ KKeeps(k, k2) /\ k2.run # NoThread
               /\ Live(k2) \in {Live(k), Live(k) \ {t}}
               /\ (t = k.run => find_next_runnable(k) # NoThread)
                    => Live(k2) = Live(k) \ {t}
               /\ k2.parent = k.parent /\ k2.ps = k.ps
               /\ \A u \in Tid : k2.won[u] \in {NoQueue, k.won[u]}
               /\ \A q \in WaitQ : k.wq[q] = <<>> => k2.wq[q] = <<>>
<1> DEFINE next == find_next_runnable(k)
           Freed(k1, k2) ==
               /\ KKeeps(k1, k2) /\ k2.run = k1.run /\ Live(k2) = Live(k1) \ {t}
               /\ k2.parent = k1.parent /\ k2.ps = k1.ps
               /\ \A u \in Tid : k2.won[u] \in {NoQueue, k1.won[u]}
               /\ \A q \in WaitQ : k1.wq[q] = <<>> => k2.wq[q] = <<>>
<1>1. CASE t \notin Live(k)
  BY <1>1 DEF thread_delete, KKeeps
<1>2. CASE t \in Live(k) /\ t # k.run
  <2>1. Freed(k, FreeThreads(k, {t}))
    BY <1>2, FreeCore
  <2>2. thread_delete(k, t) = FreeThreads(k, {t})
    BY <1>2 DEF thread_delete
  <2> QED BY <2>1, <2>2
<1>3. CASE t \in Live(k) /\ t = k.run /\ next = NoThread
  BY <1>3 DEF thread_delete, KKeeps
<1>4. CASE t \in Live(k) /\ t = k.run /\ next # NoThread
  <2>1. next \in Live(k) /\ next # t
    BY <1>4, NextAmongFound DEF find_next_runnable, ReadyThreads, Live
  <2> DEFINE k1 == SwitchTo(k, next)
             k2 == FreeThreads(k1, {t})
  <2>2. /\ KKeeps(k, k1) /\ k1.run = next /\ Live(k1) = Live(k)
        /\ k1.parent = k.parent /\ k1.ps = k.ps /\ k1.won = k.won /\ k1.wq = k.wq
    BY <2>1, SwitchToCore
  <2> HIDE DEF k1
  <2>3. KCore(k1) /\ k1.run \notin {t} /\ {t} \in SUBSET Tid
    BY <2>1, <2>2 DEF KKeeps
  <2>4. Freed(k1, k2)
    BY <2>3, FreeCore
  <2>5. thread_delete(k, t) = k2
    BY <1>4 DEF thread_delete, k1
  <2> HIDE DEF k2
  <2>6. next # NoThread
    BY <1>4
  <2> HIDE DEF next
  <2> QED BY <2>2, <2>4, <2>5, <2>6 DEF KKeeps
<1> QED BY <1>1, <1>2, <1>3, <1>4

LEMMA DeleteInv ==
    ASSUME NEW k, KInv(k), Clean(k), k.run # NoThread, NEW t \in Tid
    PROVE  KInv(thread_delete(k, t))
BY DeleteCore DEF KInv, KKeeps

\* Waking some of the waiters of q; the value of q is not looked at.
LEMMA WakeCore ==
    ASSUME NEW k, KCore(k), NEW q \in WaitQ, NEW D \in SUBSET Members(k.wq[q])
    PROVE  /\ KCore(Wake(k, q, D))
           /\ Wake(k, q, D).val = k.val /\ Wake(k, q, D).sem = k.sem
           /\ Wake(k, q, D).wq = [k.wq EXCEPT ![q] = list_del(D, k.wq[q])]
           /\ Live(Wake(k, q, D)) = Live(k)
           /\ Wake(k, q, D).order = k.order /\ Wake(k, q, D).run = k.run
           /\ Wake(k, q, D).parent = k.parent /\ Wake(k, q, D).ps = k.ps
           /\ \A t \in Tid : Wake(k, q, D).won[t] \in {NoQueue, k.won[t]}
<1> DEFINE k2 == Wake(k, q, D)
<1>1. ThreadsTyped(k) /\ k.wq[q] \in Seq(Tid) /\ D \subseteq Live(k) /\ D \subseteq Tid
  <2>1. ThreadsTyped(k) /\ k.wq[q] \in Seq(Tid)
    BY DEF KCore, ThreadsTyped
  <2>2. Members(k.wq[q]) \subseteq Tid
    BY <2>1 DEF Members
  <2> QED BY <2>1, <2>2 DEF KCore, QueuesCoherent
<1>2. /\ k2.wq = [k.wq EXCEPT ![q] = list_del(D, k.wq[q])]
      /\ k2.won = [t \in Tid |-> IF t \in D THEN NoQueue ELSE k.won[t]]
      /\ k2.st = [t \in Tid |-> IF t \in D /\ t \in Live(k) THEN "ready" ELSE k.st[t]]
      /\ k2.pend = [t \in Tid |-> IF t \in D /\ t \in Live(k) THEN TRUE ELSE k.pend[t]]
      /\ k2.order = k.order /\ k2.run = k.run /\ k2.parent = k.parent
      /\ k2.val = k.val /\ k2.sem = k.sem /\ k2.ps = k.ps
      /\ k2.ctx = k.ctx /\ k2.vcb = k.vcb /\ k2.cur = k.cur /\ k2.cr3 = k.cr3
  BY <1>1 DEF ThreadsTyped, Wake
<1>3. /\ list_del(D, k.wq[q]) \in Seq(Tid)
      /\ Members(list_del(D, k.wq[q])) = Members(k.wq[q]) \ D
      /\ Distinct(k.wq[q]) => Distinct(list_del(D, k.wq[q]))
  BY <1>1, ListDel
<1>4. ThreadsTyped(k2)
  <2>1. k.st \in [Tid -> ThreadState] /\ k.pend \in [Tid -> BOOLEAN]
        /\ k.won \in [Tid -> WaitQ \cup {NoQueue}] /\ k.wq \in [WaitQ -> Seq(Tid)]
    BY <1>1 DEF ThreadsTyped
  <2>2. k2.st \in [Tid -> ThreadState]
    BY <1>2, <2>1 DEF ThreadState
  <2>3. k2.won \in [Tid -> WaitQ \cup {NoQueue}]
    BY <1>2, <2>1
  <2>4. k2.wq \in [WaitQ -> Seq(Tid)]
    BY <1>2, <1>3, <2>1
  <2>5. k2.pend \in [Tid -> BOOLEAN]
    <3>1. \A t \in Tid : (IF t \in D /\ t \in Live(k) THEN TRUE ELSE k.pend[t]) \in BOOLEAN
      BY <2>1
    <3> HIDE DEF k2
    <3> QED BY <1>2, <3>1, Zenon
  <2> QED BY <1>1, <2>2, <2>3, <2>4, <2>5 DEF ThreadsTyped, Wake
<1> HIDE DEF k2
<1>5. Live(k2) = Live(k)
  BY <1>1, <1>2 DEF Live, ThreadsTyped
<1>6. QueuesCoherent(k2)
  <2> SUFFICES ASSUME NEW r \in WaitQ
               PROVE  /\ \A t \in Tid : t \in Members(k2.wq[r])
                                         <=> t \in Live(k2) /\ k2.won[t] = r
                      /\ Distinct(k2.wq[r])
    BY DEF QueuesCoherent
  <2>1. /\ \A t \in Tid : t \in Members(k.wq[r]) <=> t \in Live(k) /\ k.won[t] = r
        /\ \A t \in Tid : t \in Members(k.wq[q]) <=> t \in Live(k) /\ k.won[t] = q
        /\ Distinct(k.wq[r]) /\ NoQueue # r /\ NoQueue # q
    BY IdsAssumption DEF KCore, QueuesCoherent
  <2>2. CASE r = q
    <3>1. k2.wq[r] = list_del(D, k.wq[q])
      BY <1>1, <1>2, <2>2 DEF ThreadsTyped
    <3> QED BY <1>1, <1>2, <1>3, <1>5, <2>1, <2>2, <3>1
  <2>3. CASE r # q
    <3>1. k2.wq[r] = k.wq[r]
      BY <1>1, <1>2, <2>3 DEF ThreadsTyped
    <3> QED BY <1>1, <1>2, <1>5, <2>1, <2>3, <3>1
  <2> QED BY <2>2, <2>3
<1>7. ListCoherent(k2) /\ ParentsLive(k2) /\ CpuOwed(k2)
  BY <1>2, <1>5 DEF KCore, ListCoherent, ParentsLive, CpuOwed
<1>8. \A t \in Tid : k2.won[t] \in {NoQueue, k.won[t]}
  BY <1>2
<1> QED BY <1>2, <1>4, <1>5, <1>6, <1>7, <1>8 DEF KCore, k2

\* Waking all, some or none of the waiters of q.
LEMMA WakeInv ==
    ASSUME NEW k, KInv(k), NEW q \in WaitQ, NEW D \in SUBSET Members(k.wq[q])
    PROVE  KInv(Wake(k, q, D))
<1> DEFINE k2 == Wake(k, q, D)
<1>1. /\ KCore(k2) /\ k2.val = k.val /\ k2.sem = k.sem
      /\ k2.wq = [k.wq EXCEPT ![q] = list_del(D, k.wq[q])]
  BY WakeCore DEF KInv
<1> HIDE DEF k2
<1>2. k.wq \in [WaitQ -> Seq(Tid)] /\ k.val \in [WaitQ -> Int]
  BY DEF KInv, KCore, ThreadsTyped
<1>3. list_del(D, k.wq[q]) \in Seq(Tid) /\ Len(list_del(D, k.wq[q])) <= Len(k.wq[q])
  BY <1>2, ListDel
<1>4. QueuesCounted(k2)
  <2> SUFFICES ASSUME NEW r \in WaitQ, k2.wq[r] # <<>>
               PROVE  k2.sem[r] = "live" /\ Len(k2.wq[r]) <= 0 - k2.val[r]
    BY DEF QueuesCounted
  <2>1. k.wq[r] \in Seq(Tid) /\ k.val[r] \in Int
    BY <1>2
  <2>2. k2.wq[r] \in Seq(Tid) /\ Len(k2.wq[r]) <= Len(k.wq[r])
    BY <1>1, <1>2, <1>3, <2>1
  <2>3. k.wq[r] # <<>>
    BY <2>1, <2>2
  <2> QED BY <1>1, <2>1, <2>2, <2>3 DEF KInv, QueuesCounted
<1> QED BY <1>1, <1>4 DEF KInv, k2

\* Any integer is a well-typed semaphore value.
LEMMA ValueTyped ==
    ASSUME NEW k, ThreadsTyped(k), NEW q \in WaitQ, NEW v \in Int
    PROVE  ThreadsTyped([k EXCEPT !.val[q] = v])
BY DEF ThreadsTyped

\* semaphore_signal: the value may run ahead of the waiters by one until the
\* wakeup is done.
LEMMA SignalInv ==
    ASSUME NEW k, KInv(k), NEW q \in WaitQ
    PROVE  KInv(semaphore_signal(k, q))
<1> DEFINE k1 == [k EXCEPT !.val[q] = k.val[q] + 1]
           D == {k1.wq[q][1]}
           k2 == Wake(k1, q, D)
<1>1. /\ ThreadsTyped(k) /\ k.wq \in [WaitQ -> Seq(Tid)]
      /\ k.val \in [WaitQ -> Int]
  BY DEF KInv, KCore, ThreadsTyped
<1>2. /\ k1.order = k.order /\ k1.run = k.run /\ k1.st = k.st /\ k1.parent = k.parent
      /\ k1.won = k.won /\ k1.wq = k.wq /\ k1.sem = k.sem /\ k1.ps = k.ps
      /\ k1.ctx = k.ctx /\ k1.vcb = k.vcb /\ k1.cur = k.cur /\ k1.cr3 = k.cr3
      /\ k1.val = [k.val EXCEPT ![q] = k.val[q] + 1]
  BY <1>1 DEF ThreadsTyped
<1>3. ThreadsTyped(k1)
  <2> DEFINE v == k.val[q] + 1
  <2>1. v \in Int
    BY <1>1
  <2> HIDE DEF v
  <2>2. ThreadsTyped([k EXCEPT !.val[q] = v])
    BY <1>1, <2>1, ValueTyped
  <2> QED BY <2>2 DEF v
<1> HIDE DEF k1
<1>4. KCore(k1)
  <2>1. Live(k1) = Live(k)
    BY <1>2 DEF Live
  <2> QED BY <1>2, <1>3, <2>1
          DEF KInv, KCore, QueuesCoherent, ListCoherent, ParentsLive, CpuOwed
<1>5. CASE k.sem[q] # "live"
  BY <1>5 DEF semaphore_signal
<1>6. CASE k.sem[q] = "live" /\ k1.wq[q] = <<>>
  <2>1. QueuesCounted(k1)
    BY <1>1, <1>2, <1>6 DEF KInv, QueuesCounted
  <2>2. semaphore_signal(k, q) = k1
    BY <1>6 DEF semaphore_signal, wait_queue_wake_one, k1
  <2> QED BY <1>4, <2>1, <2>2 DEF KInv
<1>7. CASE k.sem[q] = "live" /\ k1.wq[q] # <<>>
  <2>1. k1.wq[q] \in Seq(Tid) /\ Len(k1.wq[q]) >= 1 /\ Len(k1.wq[q]) <= 0 - k.val[q]
    BY <1>1, <1>2, <1>7 DEF KInv, QueuesCounted
  <2>2. k1.val[q] = k.val[q] + 1 /\ k.val[q] \in Int /\ k1.val[q] <= 0
    BY <1>1, <1>2, <2>1
  <2>3. semaphore_signal(k, q) = k2
    BY <1>7, <2>2 DEF semaphore_signal, wait_queue_wake_one, k1
  <2>4. D \in SUBSET Members(k1.wq[q]) /\ Members(k1.wq[q]) \cap D # {}
    BY <2>1 DEF Members
  <2>5. /\ KCore(k2) /\ k2.val = k1.val /\ k2.sem = k1.sem
        /\ k2.wq = [k1.wq EXCEPT ![q] = list_del(D, k1.wq[q])]
    BY <1>4, <2>4, WakeCore
  <2>6. list_del(D, k1.wq[q]) \in Seq(Tid) /\ Len(list_del(D, k1.wq[q])) < Len(k1.wq[q])
    BY <2>1, <2>4, ListDel
  <2> HIDE DEF k2, D
  <2>7. QueuesCounted(k2)
    <3> SUFFICES ASSUME NEW r \in WaitQ, k2.wq[r] # <<>>
                 PROVE  k2.sem[r] = "live" /\ Len(k2.wq[r]) <= 0 - k2.val[r]
      BY DEF QueuesCounted
    <3>1. CASE r = q
      <4>1. k2.wq[q] = list_del(D, k1.wq[q]) /\ k2.val[q] = k.val[q] + 1
        BY <1>1, <1>2, <2>2, <2>5
      <4> QED BY <1>2, <1>7, <2>1, <2>2, <2>5, <2>6, <3>1, <4>1
    <3>2. CASE r # q
      BY <1>1, <1>2, <2>5, <3>2 DEF KInv, QueuesCounted
    <3> QED BY <3>1, <3>2
  <2> QED BY <2>3, <2>5, <2>7 DEF KInv
<1> QED BY <1>5, <1>6, <1>7

\* wait_queue_sleep: a caller that waits nowhere joins the queue and stops
\* running, or runs on when a wakeup is pending.
LEMMA SleepCore ==
    ASSUME NEW k, KCore(k), Clean(k), k.run # NoThread, NEW q \in WaitQ,
           k.won[k.run] = NoQueue
    PROVE  LET k2 == wait_queue_sleep(k, q)
           IN  /\ KCore(k2) /\ Live(k2) = Live(k) /\ k2.run # NoThread
               /\ k2.parent = k.parent /\ k2.ps = k.ps
               /\ k2.won = [k.won EXCEPT ![k.run] = q]
               /\ k2.wq = [k.wq EXCEPT ![q] = list_add(k.run, k.wq[q])]
               /\ QueuesCounted(k) /\ k.sem[q] = "live" /\ Len(k.wq[q]) < 0 - k.val[q]
                    => QueuesCounted(k2)
<1> DEFINE k2 == [k EXCEPT !.won[k.run] = q, !.wq[q] = list_add(k.run, k.wq[q])]
           s == k.wq[q]
<1>1. /\ ThreadsTyped(k) /\ k.wq \in [WaitQ -> Seq(Tid)] /\ k.val \in [WaitQ -> Int]
      /\ k.won \in [Tid -> WaitQ \cup {NoQueue}]
      /\ k.run \in Tid /\ k.run \in Live(k) /\ NoQueue \notin WaitQ
  BY IdsAssumption DEF KCore, ThreadsTyped, ListCoherent
<1>2. s \in Seq(Tid) /\ k.run \in Tid
  BY <1>1
<1>3. \A r \in WaitQ : k.run \notin Members(k.wq[r])
  BY <1>1 DEF KCore, QueuesCoherent
<1>4. k.run \notin Members(s) /\ Distinct(s)
  BY <1>3 DEF KCore, QueuesCoherent
<1> HIDE DEF s
<1>5. /\ list_add(k.run, s) \in Seq(Tid) /\ Len(list_add(k.run, s)) = Len(s) + 1
      /\ Members(list_add(k.run, s)) = Members(s) \cup {k.run}
      /\ Distinct(list_add(k.run, s))
  <2> DEFINE x == k.run
  <2> HIDE DEF x
  <2>1. x \in Tid /\ x \notin Members(s)
    BY <1>2, <1>4 DEF x
  <2>2. /\ list_add(x, s) \in Seq(Tid) /\ Len(list_add(x, s)) = Len(s) + 1
        /\ Distinct(list_add(x, s))
    BY ONLY <1>2, <1>4, <2>1, ListAdd
  <2>3. Members(list_add(x, s)) = Members(s) \cup {x}
    BY ONLY <1>2, <2>1, ListAdd
  <2> QED BY <2>2, <2>3 DEF x
<1>6. /\ k2.order = k.order /\ k2.run = k.run /\ k2.st = k.st /\ k2.parent = k.parent
      /\ k2.sem = k.sem /\ k2.ps = k.ps /\ k2.val = k.val
      /\ k2.ctx = k.ctx /\ k2.vcb = k.vcb /\ k2.cur = k.cur /\ k2.cr3 = k.cr3
      /\ k2.won = [k.won EXCEPT ![k.run] = q]
      /\ k2.wq = [k.wq EXCEPT ![q] = list_add(k.run, s)]
  BY <1>1 DEF ThreadsTyped, s
<1>7. ThreadsTyped(k2)
  BY <1>1, <1>5, <1>6 DEF ThreadsTyped, s
<1> HIDE DEF k2
<1>8. Live(k2) = Live(k)
  BY <1>6 DEF Live
<1>9. QueuesCoherent(k2)
  <2> SUFFICES ASSUME NEW r \in WaitQ
               PROVE  /\ \A t \in Tid : t \in Members(k2.wq[r])
                                         <=> t \in Live(k2) /\ k2.won[t] = r
                      /\ Distinct(k2.wq[r])
    BY DEF QueuesCoherent
  <2>1. /\ \A t \in Tid : t \in Members(k.wq[r]) <=> t \in Live(k) /\ k.won[t] = r
        /\ Distinct(k.wq[r])
    BY DEF KCore, QueuesCoherent
  <2>2. CASE r = q
    <3>1. k2.wq[r] = list_add(k.run, s) /\ Members(s) = Members(k.wq[r])
      BY <1>1, <1>6, <2>2 DEF s
    <3> QED BY <1>1, <1>5, <1>6, <1>8, <2>1, <2>2, <3>1
  <2>3. CASE r # q
    <3>1. k2.wq[r] = k.wq[r] /\ k.run \notin Members(k.wq[r])
      BY <1>1, <1>3, <1>6, <2>3
    <3> QED BY <1>1, <1>6, <1>8, <2>1, <2>3, <3>1
  <2> QED BY <2>2, <2>3
<1>10. ASSUME QueuesCounted(k), k.sem[q] = "live", Len(k.wq[q]) < 0 - k.val[q]
       PROVE  QueuesCounted(k2)
  <2> SUFFICES ASSUME NEW r \in WaitQ, k2.wq[r] # <<>>
               PROVE  k2.sem[r] = "live" /\ Len(k2.wq[r]) <= 0 - k2.val[r]
    BY DEF QueuesCounted
  <2>1. CASE r = q
    <3>1. k2.wq[q] = list_add(k.run, s) /\ k2.val[q] = k.val[q] /\ k.val[q] \in Int
      BY <1>1, <1>6
    <3>2. Len(s) \in Nat /\ Len(s) < 0 - k.val[q]
      BY <1>2, <1>10 DEF s
    <3> QED BY <1>5, <1>6, <1>10, <2>1, <3>1, <3>2
  <2>2. CASE r # q
    BY <1>1, <1>6, <1>10, <2>2 DEF QueuesCounted
  <2> QED BY <2>1, <2>2
<1>11. ListCoherent(k2) /\ ParentsLive(k2) /\ CpuOwed(k2) /\ Clean(k2)
  BY <1>6, <1>8 DEF KCore, ListCoherent, ParentsLive, CpuOwed, Clean
<1>12. KCore(k2) /\ Clean(k2) /\ k2.run # NoThread
  BY <1>6, <1>7, <1>9, <1>11 DEF KCore
<1> DEFINE k3 == thread_block(k2, k.run)
<1>13. /\ KKeeps(k2, k3) /\ Live(k3) = Live(k2) /\ k3.run # NoThread
       /\ k3.won = k2.won /\ k3.wq = k2.wq /\ k3.parent = k2.parent /\ k3.ps = k2.ps
  BY <1>2, <1>12, BlockCore
<1>14. wait_queue_sleep(k, q) = k3
  BY DEF wait_queue_sleep, k2
<1> HIDE DEF k3
<1> QED BY <1>6, <1>8, <1>10, <1>13, <1>14 DEF KKeeps, s

\* semaphore_wait: the value owes a signal before the caller becomes a waiter,
\* and a caller that is a waiter already only makes it owe more.
LEMMA WaitInv ==
    ASSUME NEW k, KInv(k), Clean(k), k.run # NoThread, NEW q \in WaitQ
    PROVE  KInv(semaphore_wait(k, q))
<1> DEFINE k1 == [k EXCEPT !.val[q] = k.val[q] - 1]
<1>1. /\ ThreadsTyped(k) /\ k.wq \in [WaitQ -> Seq(Tid)] /\ k.val \in [WaitQ -> Int]
  BY DEF KInv, KCore, ThreadsTyped
<1>2. /\ k1.order = k.order /\ k1.run = k.run /\ k1.st = k.st /\ k1.parent = k.parent
      /\ k1.won = k.won /\ k1.wq = k.wq /\ k1.sem = k.sem /\ k1.ps = k.ps
      /\ k1.ctx = k.ctx /\ k1.vcb = k.vcb /\ k1.cur = k.cur /\ k1.cr3 = k.cr3
      /\ k1.val = [k.val EXCEPT ![q] = k.val[q] - 1]
  BY <1>1 DEF ThreadsTyped
<1>3. ThreadsTyped(k1)
  <2> DEFINE v == k.val[q] - 1
  <2>1. v \in Int
    BY <1>1
  <2> HIDE DEF v
  <2>2. ThreadsTyped([k EXCEPT !.val[q] = v])
    BY <1>1, <2>1, ValueTyped
  <2> QED BY <2>2 DEF v
<1> HIDE DEF k1
<1>4. KInv(k1)
  <2>1. Live(k1) = Live(k)
    BY <1>2 DEF Live
  <2>2. KCore(k1)
    BY <1>2, <1>3, <2>1
       DEF KInv, KCore, QueuesCoherent, ListCoherent, ParentsLive, CpuOwed
  <2>3. QueuesCounted(k1)
    <3> SUFFICES ASSUME NEW r \in WaitQ, k1.wq[r] # <<>>
                 PROVE  k1.sem[r] = "live" /\ Len(k1.wq[r]) <= 0 - k1.val[r]
      BY DEF QueuesCounted
    <3>1. k1.val[r] = (IF r = q THEN k.val[q] - 1 ELSE k.val[r]) /\ k.val[r] \in Int
      BY <1>1, <1>2
    <3>2. k.sem[r] = "live" /\ Len(k.wq[r]) <= 0 - k.val[r] /\ Len(k.wq[r]) \in Nat
      BY <1>1, <1>2 DEF KInv, QueuesCounted
    <3> QED BY <1>2, <3>1, <3>2
  <2> QED BY <2>2, <2>3 DEF KInv
<1>5. CASE k.sem[q] # "live"
  BY <1>5 DEF semaphore_wait
<1>6. k1.val[q] \in Int
  BY <1>1, <1>2
<1>7. CASE k.sem[q] = "live" /\ (k1.val[q] >= 0 \/ k1.won[k1.run] # NoQueue)
  <2>1. semaphore_wait(k, q) = k1
    BY <1>6, <1>7 DEF semaphore_wait, wait_queue_sleep, k1
  <2> QED BY <1>4, <2>1
<1>8. CASE k.sem[q] = "live" /\ k1.val[q] < 0 /\ k1.won[k1.run] = NoQueue
  <2>1. semaphore_wait(k, q) = wait_queue_sleep(k1, q)
    BY <1>8 DEF semaphore_wait, k1
  <2>2. Len(k1.wq[q]) < 0 - k1.val[q]
    <3>1. k1.val[q] = k.val[q] - 1 /\ k.val[q] \in Int /\ k1.wq[q] \in Seq(Tid)
      BY <1>1, <1>2
    <3>2. k1.wq[q] = <<>> \/ Len(k1.wq[q]) <= 0 - k.val[q]
      BY <1>2 DEF KInv, QueuesCounted
    <3>3. k1.wq[q] = <<>> => Len(k1.wq[q]) = 0
      OBVIOUS
    <3> QED BY <1>8, <3>1, <3>2, <3>3
  <2>3. Clean(k1) /\ k1.run # NoThread /\ k1.sem[q] = "live"
    BY <1>2, <1>8 DEF Clean
  <2>4. KCore(k1) /\ QueuesCounted(k1) /\ k1.won[k1.run] = NoQueue
    BY <1>4, <1>8 DEF KInv
  <2>5. KCore(wait_queue_sleep(k1, q)) /\ QueuesCounted(wait_queue_sleep(k1, q))
    BY ONLY <2>2, <2>3, <2>4, q \in WaitQ, SleepCore
  <2> QED BY <2>1, <2>5 DEF KInv
<1> QED BY <1>5, <1>6, <1>7, <1>8

\* The exit of the gate: the requested switch is made.
LEMMA CommitCore ==
    ASSUME NEW k, KCore(k)
    PROVE  /\ KKeeps(k, arch_task_context_switch(k))
           /\ Clean(arch_task_context_switch(k))
           /\ arch_task_context_switch(k).run = k.run
           /\ arch_task_context_switch(k).ps = k.ps
           /\ Live(arch_task_context_switch(k)) = Live(k)
           /\ arch_task_context_switch(k).parent = k.parent
           /\ arch_task_context_switch(k).won = k.won
           /\ arch_task_context_switch(k).wq = k.wq
<1> DEFINE k2 == arch_task_context_switch(k)
<1>1. ThreadsTyped(k)
  BY DEF KCore
<1>2. /\ k2.order = k.order /\ k2.run = k.run /\ k2.st = k.st /\ k2.parent = k.parent
      /\ k2.won = k.won /\ k2.wq = k.wq /\ k2.val = k.val /\ k2.sem = k.sem
      /\ k2.ps = k.ps /\ k2.ctx = NoThread /\ k2.vcb = NoProc
      /\ k2.cr3 = (IF k.vcb # NoProc THEN k.vcb ELSE k.cr3)
      /\ k2.cur = (IF k.ctx # NoThread THEN k.ctx ELSE k.cur)
  BY <1>1 DEF ThreadsTyped, arch_task_context_switch
<1>3. ThreadsTyped(k2)
  BY <1>1 DEF ThreadsTyped, arch_task_context_switch
<1> HIDE DEF k2
<1>4. Live(k2) = Live(k)
  BY <1>2 DEF Live
<1>5. CpuOwed(k2) /\ Clean(k2)
  BY <1>2 DEF KCore, CpuOwed, Clean
<1>6. QueuesCoherent(k2) /\ ListCoherent(k2) /\ ParentsLive(k2)
      /\ (QueuesCounted(k) => QueuesCounted(k2))
  BY <1>2, <1>4 DEF KCore, QueuesCoherent, QueuesCounted, ListCoherent, ParentsLive
<1> QED BY <1>2, <1>3, <1>4, <1>5, <1>6 DEF KKeeps, KCore, k2

LEMMA CommitInv ==
    ASSUME NEW k, KInv(k)
    PROVE  /\ KInv(arch_task_context_switch(k))
           /\ Clean(arch_task_context_switch(k))
           /\ arch_task_context_switch(k).run = k.run
           /\ arch_task_context_switch(k).ps = k.ps
           /\ Live(arch_task_context_switch(k)) = Live(k)
           /\ arch_task_context_switch(k).parent = k.parent
BY CommitCore DEF KInv, KKeeps

\* Creating a semaphore nobody can wait on yet, and destroying one.
LEMMA SemaphoreInv ==
    ASSUME NEW k, KInv(k), NEW q \in WaitQ
    PROVE  /\ k.sem[q] # "live" => KInv(semaphore_create(k, q))
           /\ KInv(semaphore_destroy(k, q))
<1>1. ThreadsTyped(k)
  BY DEF KInv, KCore
<1>2. ASSUME NEW s \in {"live", "dead"}, NEW v \in Int, k.wq[q] = <<>>
      PROVE  KInv([k EXCEPT !.sem[q] = s, !.val[q] = v, !.wq[q] = <<>>])
  <2> DEFINE k2 == [k EXCEPT !.sem[q] = s, !.val[q] = v, !.wq[q] = <<>>]
  <2>1. k.sem \in [WaitQ -> ObjectState] /\ k.val \in [WaitQ -> Int]
        /\ k.wq \in [WaitQ -> Seq(Tid)]
    BY <1>1 DEF ThreadsTyped
  <2>2. /\ k2.order = k.order /\ k2.run = k.run /\ k2.st = k.st /\ k2.parent = k.parent
        /\ k2.won = k.won /\ k2.wq = k.wq /\ k2.ps = k.ps /\ k2.ctx = k.ctx
        /\ k2.vcb = k.vcb /\ k2.cur = k.cur /\ k2.cr3 = k.cr3
        /\ k2.sem = [k.sem EXCEPT ![q] = s] /\ k2.val = [k.val EXCEPT ![q] = v]
    BY <1>1, <1>2, <2>1 DEF ThreadsTyped
  <2>3. ThreadsTyped(k2)
    <3>1. s \in ObjectState /\ <<>> \in Seq(Tid)
      BY DEF ObjectState
    <3>2. ThreadsTyped([k EXCEPT !.val[q] = v])
      BY <1>1, ValueTyped
    <3> DEFINE k1 == [k EXCEPT !.val[q] = v]
    <3>3. k2 = [k1 EXCEPT !.sem[q] = s, !.wq[q] = <<>>]
      BY <1>1 DEF ThreadsTyped
    <3> HIDE DEF k1, k2
    <3> QED BY <3>1, <3>2, <3>3 DEF ThreadsTyped, k1
  <2> HIDE DEF k2
  <2>4. Live(k2) = Live(k)
    BY <2>2 DEF Live
  <2>5. QueuesCounted(k2)
    BY <1>2, <2>1, <2>2 DEF KInv, QueuesCounted
  <2>6. QueuesCoherent(k2) /\ ListCoherent(k2) /\ ParentsLive(k2) /\ CpuOwed(k2)
    BY <2>2, <2>4 DEF KInv, KCore, QueuesCoherent, ListCoherent, ParentsLive, CpuOwed
  <2> QED BY <2>3, <2>5, <2>6 DEF KInv, KCore, k2
<1>3. ASSUME k.sem[q] # "live" PROVE KInv(semaphore_create(k, q))
  <2>1. k.wq[q] = <<>>
    BY <1>3 DEF KInv, QueuesCounted
  <2>2. KInv([k EXCEPT !.sem[q] = "live", !.val[q] = 0, !.wq[q] = <<>>])
    <3> DEFINE s == "live"
               v == 0
    <3>1. s \in {"live", "dead"} /\ v \in Int
      OBVIOUS
    <3> HIDE DEF s, v
    <3>2. KInv([k EXCEPT !.sem[q] = s, !.val[q] = v, !.wq[q] = <<>>])
      BY <1>2, <2>1, <3>1, Zenon
    <3> QED BY <3>2, Zenon DEF s, v
  <2> QED BY <2>2 DEF semaphore_create
<1>4. KInv(semaphore_destroy(k, q))
  <2>1. CASE k.wq[q] # <<>>
    BY <2>1 DEF semaphore_destroy, semaphore_has_waiters
  <2>2. CASE k.wq[q] = <<>>
    <3>1. k.val \in [WaitQ -> Int] /\ k.wq \in [WaitQ -> Seq(Tid)]
      BY <1>1 DEF ThreadsTyped
    <3>2. KInv([k EXCEPT !.sem[q] = "dead", !.val[q] = k.val[q], !.wq[q] = <<>>])
      BY <1>2, <2>2, <3>1
    <3>3. [k EXCEPT !.sem[q] = "dead", !.val[q] = k.val[q], !.wq[q] = <<>>]
          = [k EXCEPT !.sem[q] = "dead"]
      BY <1>1, <2>2, <3>1 DEF ThreadsTyped
    <3> QED BY <2>2, <3>2, <3>3 DEF semaphore_destroy, semaphore_has_waiters
  <2> QED BY <2>1, <2>2
<1> QED BY <1>3, <1>4

\* A process comes to life, or goes once it has no thread left.
LEMMA ProcStateCore ==
    ASSUME NEW k, KCore(k), NEW p \in Pid, NEW s \in ObjectState,
           s = "live" \/ \A t \in Live(k) : k.parent[t] # p
    PROVE  /\ KKeeps(k, [k EXCEPT !.ps[p] = s])
           /\ Clean(k) => Clean([k EXCEPT !.ps[p] = s])
           /\ [k EXCEPT !.ps[p] = s].st = k.st
           /\ [k EXCEPT !.ps[p] = s].ps[p] = s
           /\ [k EXCEPT !.ps[p] = s].run = k.run
           /\ [k EXCEPT !.ps[p] = s].won = k.won /\ [k EXCEPT !.ps[p] = s].wq = k.wq
<1> DEFINE k2 == [k EXCEPT !.ps[p] = s]
<1>1. ThreadsTyped(k) /\ k.ps \in [Pid -> ObjectState]
  BY DEF KCore, ThreadsTyped
<1>2. /\ k2.order = k.order /\ k2.run = k.run /\ k2.st = k.st /\ k2.parent = k.parent
      /\ k2.won = k.won /\ k2.wq = k.wq /\ k2.val = k.val /\ k2.sem = k.sem
      /\ k2.ctx = k.ctx /\ k2.vcb = k.vcb /\ k2.cur = k.cur /\ k2.cr3 = k.cr3
      /\ k2.ps = [k.ps EXCEPT ![p] = s]
  BY <1>1 DEF ThreadsTyped
<1>3. ThreadsTyped(k2)
  BY <1>1 DEF ThreadsTyped
<1> HIDE DEF k2
<1>4. Live(k2) = Live(k)
  BY <1>2 DEF Live
<1>5. ParentsLive(k2)
  BY <1>1, <1>2, <1>4 DEF KCore, ParentsLive
<1>6. QueuesCoherent(k2) /\ ListCoherent(k2) /\ CpuOwed(k2)
      /\ (QueuesCounted(k) => QueuesCounted(k2))
  BY <1>2, <1>4 DEF KCore, QueuesCoherent, QueuesCounted, ListCoherent, CpuOwed
<1>7. /\ KKeeps(k, k2) /\ (Clean(k) => Clean(k2)) /\ k2.st = k.st /\ k2.ps[p] = s
      /\ k2.run = k.run /\ k2.won = k.won /\ k2.wq = k.wq
  BY <1>1, <1>2, <1>3, <1>5, <1>6 DEF KKeeps, KCore, Clean
<1> QED BY <1>7 DEF k2

LEMMA ProcStateInv ==
    ASSUME NEW k, KInv(k), NEW p \in Pid, NEW s \in ObjectState,
           s = "live" \/ \A t \in Live(k) : k.parent[t] # p
    PROVE  /\ KInv([k EXCEPT !.ps[p] = s])
           /\ Clean(k) => Clean([k EXCEPT !.ps[p] = s])
           /\ [k EXCEPT !.ps[p] = s].st = k.st
           /\ [k EXCEPT !.ps[p] = s].ps[p] = s
BY ProcStateCore DEF KInv, KKeeps
=============================================================================
