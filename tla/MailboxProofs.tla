---------------------------- MODULE MailboxProofs ---------------------------
(***************************************************************************)
(* The safety properties of Mailbox hold for any number of threads, mails, *)
(* interrupts and lines.                                                   *)
(***************************************************************************)
EXTENDS Mailbox, KThreadsProofs

-----------------------------------------------------------------------------
(* Interrupt lines: only irq, line and unmasked are looked at. *)

Irq == [st : ObjectState, line : Lines \cup {0}, minor : Nat,
        owner : Tid \cup {NoThread}, enabled : BOOLEAN]

LinesTyped ==
    /\ irq \in [Irqs -> Irq]
    /\ line \in [Lines -> Seq(Irqs)]
    /\ unmasked \subseteq Lines

\* A line lists exactly the live irqs that were requested on it, and only live
\* irqs are enabled.
LinesListed ==
    /\ \A n \in Lines, i \in Irqs :
        i \in Members(line[n]) <=> irq[i].st = "live" /\ irq[i].line = n
    /\ \A i \in Irqs : irq[i].st = "live" => irq[i].line \in Lines
    /\ \A i \in Irqs : irq[i].enabled => irq[i].st = "live"

LinesInv == LinesTyped /\ LinesListed /\ LinesArmed

\* The members of a list of Ts are Ts.
LEMMA MembersOf ==
    ASSUME NEW T, NEW s \in Seq(T)
    PROVE  Members(s) \subseteq T
BY DEF Members

\* At boot no line is open and nobody has asked for one.
LEMMA LinesInit ==
    ASSUME Init
    PROVE  LinesInv
<1>1. LinesTyped
  <2>1. <<>> \in Seq(Irqs)
    OBVIOUS
  <2>2. line \in [Lines -> Seq(Irqs)] /\ unmasked \subseteq Lines
    BY <2>1 DEF Init
  <2>3. irq \in [Irqs -> Irq]
    BY DEF Init, Irq, ObjectState
  <2> QED BY <2>2, <2>3 DEF LinesTyped
<1>2. \A n \in Lines : Members(line[n]) = {}
  BY DEF Init, Members
<1>3. \A i \in Irqs : irq[i].st = "none" /\ irq[i].enabled = FALSE
  BY DEF Init
<1>4. unmasked = {}
  BY DEF Init
<1> QED BY <1>1, <1>2, <1>3, <1>4 DEF LinesInv, LinesListed, LinesArmed, Enabled

\* A list has finitely many members.
LEMMA FiniteList ==
    ASSUME NEW T, NEW s \in Seq(T)
    PROVE  IsFiniteSet(Members(s))
<1>1. Len(s) \in Nat /\ DOMAIN s = 1 .. Len(s)
  OBVIOUS
<1>2. IsFiniteSet(1 .. Len(s))
  BY <1>1, FS_Interval
<1> DEFINE f == [i \in 1 .. Len(s) |-> s[i]]
<1>3. f \in Surjection(1 .. Len(s), Members(s))
  BY <1>1 DEF Surjection, Members
<1> HIDE DEF f
<1> QED BY <1>2, <1>3, FS_Surjection

\* irq_request: one of the numbers up to the number of used ones is free.
LEMMA FreeMinor ==
    ASSUME NEW U \in SUBSET Nat, IsFiniteSet(U)
    PROVE  \E x \in 0 .. Cardinality(U) : x \notin U /\ 0 .. x - 1 \subseteq U
<1> DEFINE n == Cardinality(U)
           F == {x \in 0 .. n : x \notin U}
<1>1. n \in Nat
  BY FS_CardinalityType
<1>2. F # {}
  <2>1. SUFFICES ASSUME 0 .. n \subseteq U PROVE FALSE
    OBVIOUS
  <2> HIDE DEF n
  <2>2. Cardinality(0 .. n) = n + 1
    BY <1>1, FS_Interval
  <2>3. Cardinality(0 .. n) <= n
    BY <2>1, FS_Subset DEF n
  <2> QED BY <1>1, <2>2, <2>3
<1>3. PICK x \in F : \A y \in F : x <= y
  <2>1. F \in SUBSET Nat
    BY <1>1
  <2> HIDE DEF F
  <2> QED BY <1>2, <2>1, Least
<1> HIDE DEF n
<1>4. x \in 0 .. n /\ x \notin U
  OBVIOUS
<1>5. ASSUME NEW y \in 0 .. x - 1 PROVE y \in U
  <2>1. y \in 0 .. n /\ y < x
    BY <1>1, <1>4
  <2> QED BY <1>3, <2>1
<1> QED BY <1>4, <1>5 DEF n

\* irq_request puts a new irq on a line, masked: the line stays as open as it was.
LEMMA RequestLines ==
    ASSUME LinesInv, k.run \in Tid, NEW i \in Irqs, NEW n \in Lines,
           NEW minor \in Minors \cup {AnyMinor}, IrqRequest(i, n, minor)
    PROVE  LinesInv'
<1> DEFINE used == {irq[j].minor : j \in Members(line[n])}
           any == CHOOSE x \in 0 .. Cardinality(used) : x \notin used /\ 0 .. x - 1 \subseteq used
           got == IF minor = AnyMinor THEN any ELSE minor
           s == line[n]
<1>1. /\ irq' = [irq EXCEPT ![i] = [st |-> "live", line |-> n, minor |-> got,
                                    owner |-> k.run, enabled |-> FALSE]]
      /\ line' = [line EXCEPT ![n] = list_add(i, s)]
      /\ unmasked' = unmasked
      /\ irq[i].st = "none"
  BY DEF IrqRequest, Fresh
<1>2. irq \in [Irqs -> Irq] /\ s \in Seq(Irqs) /\ line \in [Lines -> Seq(Irqs)]
  BY DEF LinesInv, LinesTyped
<1>3. got \in Nat
  <2> HIDE DEF s
  <2>1. Members(s) \subseteq Irqs /\ IsFiniteSet(Members(s))
    BY <1>2, MembersOf, FiniteList
  <2>2. used = {irq[j].minor : j \in Members(s)}
    BY DEF s
  <2>3. used \in SUBSET Nat
    BY <1>2, <2>1, <2>2 DEF Irq
  <2>4. IsFiniteSet(used)
    <3> DEFINE f == [j \in Members(s) |-> irq[j].minor]
    <3>1. f \in Surjection(Members(s), used)
      BY <2>2 DEF Surjection
    <3> HIDE DEF f, used
    <3> QED BY <2>1, <3>1, FS_Surjection
  <2> HIDE DEF used
  <2>5. Cardinality(used) \in Nat
    BY <2>4, FS_CardinalityType
  <2>6. \E x \in 0 .. Cardinality(used) : x \notin used /\ 0 .. x - 1 \subseteq used
    BY <2>3, <2>4, FreeMinor
  <2>7. any \in 0 .. Cardinality(used)
    BY <2>6
  <2> HIDE DEF any
  <2> QED BY <2>5, <2>7, MailboxAssumption
<1> HIDE DEF s, got
<1>4. list_add(i, s) \in Seq(Irqs) /\ Members(list_add(i, s)) = Members(s) \cup {i}
  BY ONLY <1>2, i \in Irqs, ListAdd
<1>5. LinesTyped'
  <2>1. irq' \in [Irqs -> Irq]
    BY <1>1, <1>2, <1>3 DEF Irq, ObjectState
  <2>2. line' \in [Lines -> Seq(Irqs)]
    BY <1>1, <1>2, <1>4
  <2> QED BY <1>1, <2>1, <2>2 DEF LinesInv, LinesTyped
<1>6. \A l \in Lines : Members(line'[l]) = IF l = n THEN Members(line[n]) \cup {i}
                                           ELSE Members(line[l])
  BY <1>1, <1>2, <1>4 DEF s
<1>7. /\ irq'[i].st = "live" /\ irq'[i].line = n /\ irq'[i].enabled = FALSE
      /\ \A j \in Irqs : j # i => irq'[j] = irq[j]
  BY <1>1, <1>2
<1>8. LinesListed'
  BY <1>1, <1>6, <1>7 DEF LinesInv, LinesListed
<1>9. \A l \in Lines : Enabled(l)' = Enabled(l)
  <2> SUFFICES ASSUME NEW l \in Lines PROVE Enabled(l)' = Enabled(l)
    OBVIOUS
  <2>1. Members(line[l]) \subseteq Irqs /\ i \notin Members(line[l])
    BY <1>1, <1>2, MembersOf DEF LinesInv, LinesListed
  <2>2. Enabled(l)' = {j \in Members(line'[l]) : irq'[j].enabled}
    BY DEF Enabled
  <2> QED BY <1>6, <1>7, <2>1, <2>2 DEF Enabled
<1> QED BY <1>1, <1>5, <1>8, <1>9 DEF LinesInv, LinesArmed

\* irq_release of any set of irqs.
LEMMA ReleaseLines ==
    ASSUME LinesInv, NEW D \in SUBSET Irqs, ReleaseIrqs(D)
    PROVE  LinesInv'
<1>1. /\ irq' = [i \in Irqs |-> IF i \in D THEN [irq[i] EXCEPT !.st = "dead", !.enabled = FALSE]
                                ELSE irq[i]]
      /\ line' = [n \in Lines |-> list_del(D, line[n])]
      /\ unmasked' = {n \in unmasked :
                        D \cap Members(line[n]) = {} \/ Enabled(n) \ D # {}}
  BY DEF ReleaseIrqs
<1>2. irq \in [Irqs -> Irq] /\ line \in [Lines -> Seq(Irqs)] /\ unmasked \subseteq Lines
  BY DEF LinesInv, LinesTyped
<1>3. /\ \A j \in Irqs \ D : irq'[j] = irq[j]
      /\ \A j \in D : irq'[j].st = "dead" /\ irq'[j].enabled = FALSE
  BY <1>1, <1>2 DEF Irq
<1>4. ASSUME NEW n \in Lines
      PROVE  /\ line'[n] \in Seq(Irqs)
             /\ Members(line'[n]) = Members(line[n]) \ D
             /\ Members(line[n]) \subseteq Irqs
  <2>1. line[n] \in Seq(Irqs)
    BY <1>2
  <2>2. line'[n] = list_del(D, line[n])
    BY <1>1
  <2> QED BY <2>1, <2>2, ListDel, MembersOf
<1>5. LinesTyped'
  <2>1. line' \in [Lines -> Seq(Irqs)]
    BY <1>1, <1>4
  <2>2. irq' \in [Irqs -> Irq]
    BY <1>1, <1>2 DEF Irq, ObjectState
  <2>3. unmasked' \subseteq Lines
    BY <1>1, <1>2
  <2> QED BY <2>1, <2>2, <2>3 DEF LinesTyped
<1>6. LinesListed'
  <2>1. ASSUME NEW n \in Lines, NEW i \in Irqs
        PROVE  i \in Members(line'[n]) <=> irq'[i].st = "live" /\ irq'[i].line = n
    BY <1>3, <1>4 DEF LinesInv, LinesListed
  <2>2. \A i \in Irqs : /\ irq'[i].st = "live" => irq'[i].line \in Lines
                        /\ irq'[i].enabled => irq'[i].st = "live"
    BY <1>3 DEF LinesInv, LinesListed
  <2> QED BY <2>1, <2>2 DEF LinesListed
<1>7. \A n \in Lines : Enabled(n)' = Enabled(n) \ D
  <2> SUFFICES ASSUME NEW n \in Lines PROVE Enabled(n)' = Enabled(n) \ D
    OBVIOUS
  <2>1. Enabled(n)' = {j \in Members(line'[n]) : irq'[j].enabled}
    BY DEF Enabled
  <2> QED BY <1>3, <1>4, <2>1 DEF Enabled
<1>8. \A n \in Lines : Enabled(n) \subseteq Members(line[n])
  BY DEF Enabled
<1>9. LinesArmed'
  <2> SUFFICES ASSUME NEW n \in Lines PROVE n \in unmasked' <=> Enabled(n) \ D # {}
    BY <1>7 DEF LinesArmed
  <2>1. n \in unmasked <=> Enabled(n) # {}
    BY DEF LinesInv, LinesArmed
  <2> QED BY <1>1, <1>8, <2>1
<1> QED BY <1>5, <1>6, <1>9 DEF LinesInv

\* irq_mask and irq_unmask: e is what is stored in the irq.
LEMMA EnableLines ==
    ASSUME LinesInv, NEW i \in Irqs, irq[i].st = "live", NEW e \in BOOLEAN,
           irq' = [irq EXCEPT ![i].enabled = e], line' = line,
           unmasked' = IF e THEN unmasked \cup {irq[i].line}
                       ELSE IF Enabled(irq[i].line) \subseteq {i}
                       THEN unmasked \ {irq[i].line} ELSE unmasked
    PROVE  LinesInv'
<1>1. irq \in [Irqs -> Irq] /\ line \in [Lines -> Seq(Irqs)] /\ unmasked \subseteq Lines
  BY DEF LinesInv, LinesTyped
<1>2. /\ \A j \in Irqs : j # i => irq'[j] = irq[j]
      /\ irq'[i].st = irq[i].st /\ irq'[i].line = irq[i].line
  BY <1>1 DEF Irq
<1>3. irq'[i].enabled <=> e
  BY <1>1 DEF Irq
<1>4. irq[i].line \in Lines
  BY DEF LinesInv, LinesListed
<1>5. LinesTyped'
  <2>1. irq' \in [Irqs -> Irq]
    BY <1>1 DEF Irq
  <2>2. unmasked' \subseteq Lines
    BY <1>1, <1>4
  <2> QED BY <1>1, <2>1, <2>2 DEF LinesTyped
<1>6. LinesListed'
  <2>1. \A j \in Irqs : irq'[j].st = irq[j].st /\ irq'[j].line = irq[j].line
    BY <1>2
  <2>2. \A j \in Irqs : irq'[j].enabled => irq[j].st = "live"
    BY <1>2 DEF LinesInv, LinesListed
  <2> QED BY <2>1, <2>2 DEF LinesInv, LinesListed
<1>7. ASSUME NEW n \in Lines
      PROVE  /\ n # irq[i].line => Enabled(n)' = Enabled(n)
             /\ n = irq[i].line => Enabled(n)' = IF e THEN Enabled(n) \cup {i}
                                                 ELSE Enabled(n) \ {i}
  <2>1. Enabled(n)' = {j \in Members(line[n]) : irq'[j].enabled}
    BY DEF Enabled
  <2>2. Members(line[n]) \subseteq Irqs
    BY <1>1, MembersOf
  <2>3. i \in Members(line[n]) <=> n = irq[i].line
    BY DEF LinesInv, LinesListed
  <2>4. \A j \in Members(line[n]) : j # i => (irq'[j].enabled <=> irq[j].enabled)
    BY <1>2, <2>2
  <2> QED BY <1>3, <2>1, <2>3, <2>4 DEF Enabled
<1>8. LinesArmed'
  <2> SUFFICES ASSUME NEW n \in Lines PROVE n \in unmasked' <=> Enabled(n)' # {}
    BY DEF LinesArmed
  <2>1. n \in unmasked <=> Enabled(n) # {}
    BY DEF LinesInv, LinesArmed
  <2>2. CASE n # irq[i].line
    BY <1>7, <2>1, <2>2
  <2>3. CASE n = irq[i].line
    BY <1>7, <2>1, <2>3
  <2> QED BY <2>2, <2>3
<1> QED BY <1>5, <1>6, <1>8 DEF LinesInv

\* Requests, masks, releases and the end of threads change the lines; the other
\* steps do not.
LEMMA LinesStep ==
    ASSUME LinesInv, k.run \in Tid, [Next]_vars
    PROVE  LinesInv'
<1>1. ASSUME UNCHANGED ivars PROVE LinesInv'
  BY <1>1 DEF ivars, LinesInv, LinesTyped, LinesListed, LinesArmed, Enabled
<1>2. ASSUME NEW i \in Irqs, IrqRelease(i) PROVE LinesInv'
  BY <1>2, ReleaseLines DEF IrqRelease
<1>3. ASSUME NEW i \in Irqs, IrqMask(i) PROVE LinesInv'
  BY <1>3, EnableLines DEF IrqMask, IrqsOf
<1>4. ASSUME NEW i \in Irqs, IrqUnmask(i) PROVE LinesInv'
  BY <1>4, EnableLines DEF IrqUnmask, IrqsOf
<1>5. ASSUME NEW i \in Irqs, NEW n \in Lines, NEW minor \in Minors \cup {AnyMinor},
             IrqRequest(i, n, minor)
      PROVE  LinesInv'
  BY <1>5, RequestLines
<1>6. ASSUME NEW t \in Tid, ThreadDelete(t) PROVE LinesInv'
  <2>1. IrqsOf(t) \in SUBSET Irqs
    BY DEF IrqsOf
  <2> QED BY <1>6, <2>1, ReleaseLines DEF ThreadDelete
<1>7. CASE UNCHANGED vars
  BY <1>1, <1>7 DEF vars
<1>8. CASE Next
  <2>1. CASE AllocMail \/ Listen \/ ListenBlock \/ schedule_isr
    BY <1>1, <2>1 DEF AllocMail, Listen, ListenBlock, schedule_isr
  <2>2. ASSUME NEW m \in Mails, ReleaseMail(m) PROVE LinesInv'
    BY <1>1, <2>2 DEF ReleaseMail
  <2>3. ASSUME NEW m \in Mails, NEW to, NEW magic, Send(m, to, magic) PROVE LinesInv'
    BY <1>1, <2>3 DEF Send
  <2>4. ASSUME NEW magic \in Magics, Subscribe(magic) \/ Unsubscribe(magic) PROVE LinesInv'
    BY <1>1, <2>4 DEF Subscribe, Unsubscribe
  <2>5. ASSUME NEW t \in Tid, RegisterHandler(t) \/ UnregisterHandler(t) PROVE LinesInv'
    BY <1>1, <2>5 DEF RegisterHandler, UnregisterHandler
  <2>6. ASSUME NEW n \in Lines, Interrupt(n) PROVE LinesInv'
    BY <1>1, <2>6 DEF Interrupt
  <2>7. ASSUME NEW p \in Pid, ProcExit(p) PROVE LinesInv'
    BY <1>1, <2>7 DEF ProcExit
  <2> QED BY <1>2, <1>3, <1>4, <1>5, <1>6, <1>8, <2>1, <2>2, <2>3, <2>4, <2>5, <2>6, <2>7 DEF Next
<1> QED BY <1>7, <1>8

-----------------------------------------------------------------------------
(* Threads: the structural invariant of KThreadsProofs, and mailboxes on which *)
(* nobody but their thread waits.                                             *)

Threads(x) ==
    /\ KCore(x) /\ x.run # NoThread /\ x.parent = ProcOf
    /\ \A t \in Tid : x.won[t] \in {NoQueue, t}

LEMMA EmptyList ==
    ASSUME NEW T, NEW s \in Seq(T), Members(s) = {}
    PROVE  s = <<>>
<1>1. Len(s) \in Nat /\ DOMAIN s = 1 .. Len(s)
  OBVIOUS
<1>2. ASSUME Len(s) # 0 PROVE FALSE
  <2>1. 1 \in DOMAIN s
    BY <1>1, <1>2
  <2> QED BY <2>1 DEF Members
<1> QED BY <1>1, <1>2

\* wait_queue_wake_one empties the queue of a mailbox.
LEMMA WakeThreads ==
    ASSUME NEW x, Threads(x), NEW t \in Tid
    PROVE  LET y == wait_queue_wake_one(x, MailQ(t))
           IN  /\ Threads(y) /\ y.order = x.order /\ y.run = x.run
               /\ Live(y) = Live(x) /\ y.ps = x.ps
               /\ y.wq = [x.wq EXCEPT ![t] = <<>>]
<1> DEFINE q == x.wq[t]
           D == {x.wq[t][1]}
           y == Wake(x, t, D)
<1>1. /\ x.wq \in [WaitQ -> Seq(Tid)] /\ WaitQ = Tid /\ q \in Seq(Tid)
      /\ NoQueue \notin Tid
  BY MailboxAssumption, IdsAssumption DEF Threads, KCore, ThreadsTyped
<1>2. CASE q = <<>>
  <2>1. wait_queue_wake_one(x, MailQ(t)) = x
    BY <1>2 DEF wait_queue_wake_one, MailQ
  <2>2. x.wq = [x.wq EXCEPT ![t] = <<>>]
    BY <1>1, <1>2
  <2> QED BY <2>1, <2>2
<1>3. CASE q # <<>>
  <2>1. wait_queue_wake_one(x, MailQ(t)) = y
    BY <1>3 DEF wait_queue_wake_one, MailQ
  <2>2. Len(q) >= 1 /\ 1 \in DOMAIN q /\ DOMAIN q = 1 .. Len(q)
    BY <1>1, <1>3
  <2>3. \A u \in Members(q) : u = t
    <3>1. Members(q) \subseteq Tid
      BY <1>1, MembersOf
    <3>2. \A u \in Members(q) : x.won[u] = t
      BY <1>1, <3>1 DEF Threads, KCore, QueuesCoherent
    <3> QED BY <1>1, <3>1, <3>2 DEF Threads
  <2>4. D = {t} /\ D \in SUBSET Members(q)
    BY <2>2, <2>3 DEF Members
  <2>5. list_del(D, q) = <<>>
    <3>1. Members(q) \ D = {}
      BY <2>3, <2>4
    <3> HIDE DEF q, D
    <3>2. list_del(D, q) \in Seq(Tid) /\ Members(list_del(D, q)) = {}
      BY <1>1, <3>1, ListDel
    <3> QED BY <3>2, EmptyList
  <2>6. KCore(x) /\ t \in WaitQ /\ D \in SUBSET Members(x.wq[t])
    BY <1>1, <2>4 DEF Threads
  <2> HIDE DEF D
  <2>7. /\ KCore(y) /\ y.wq = [x.wq EXCEPT ![t] = list_del(D, x.wq[t])]
        /\ Live(y) = Live(x) /\ y.order = x.order /\ y.run = x.run
        /\ y.parent = x.parent /\ y.ps = x.ps
        /\ \A u \in Tid : y.won[u] \in {NoQueue, x.won[u]}
    BY ONLY <2>6, WakeCore
  <2> HIDE DEF y
  <2>8. Threads(y)
    BY <2>7 DEF Threads
  <2> QED BY <2>1, <2>5, <2>7, <2>8
<1> QED BY <1>2, <1>3

\* The exit of a gate.
LEMMA CommitThreads ==
    ASSUME NEW x, Threads(x)
    PROVE  LET y == arch_task_context_switch(x)
           IN  /\ Threads(y) /\ Clean(y) /\ y.run = x.run
               /\ Live(y) = Live(x) /\ y.ps = x.ps /\ y.wq = x.wq
BY CommitCore DEF Threads, KKeeps

LEMMA RescheduleThreads ==
    ASSUME NEW x, Threads(x), Clean(x)
    PROVE  LET y == Reschedule(x)
           IN  Threads(y) /\ Live(y) = Live(x) /\ y.ps = x.ps /\ y.wq = x.wq
BY RescheduleCore DEF Threads, KKeeps

\* A thread goes to sleep on its own mailbox.
LEMMA SleepThreads ==
    ASSUME NEW x, Threads(x), Clean(x)
    PROVE  LET y == wait_queue_sleep(x, MailQ(x.run))
           IN  /\ Threads(y) /\ Live(y) = Live(x) /\ y.ps = x.ps
               /\ \A t \in Tid : t # x.run => y.wq[t] = x.wq[t]
<1> DEFINE y == wait_queue_sleep(x, x.run)
<1>1. /\ x.wq \in [WaitQ -> Seq(Tid)] /\ x.won \in [Tid -> WaitQ \cup {NoQueue}]
      /\ WaitQ = Tid /\ x.run \in Tid
  BY MailboxAssumption DEF Threads, KCore, ThreadsTyped
<1>2. CASE x.won[x.run] # NoQueue
  BY <1>2 DEF wait_queue_sleep, MailQ
<1>3. CASE x.won[x.run] = NoQueue
  <2>1. /\ KCore(y) /\ Live(y) = Live(x) /\ y.run # NoThread
        /\ y.parent = x.parent /\ y.ps = x.ps
        /\ y.won = [x.won EXCEPT ![x.run] = x.run]
        /\ y.wq = [x.wq EXCEPT ![x.run] = list_add(x.run, x.wq[x.run])]
    BY <1>1, <1>3, SleepCore, SMTT(30) DEF Threads
  <2> HIDE DEF y
  <2>2. Threads(y)
    BY <1>1, <2>1 DEF Threads
  <2>3. \A t \in Tid : t # x.run => y.wq[t] = x.wq[t]
    BY <1>1, <2>1
  <2> QED BY <2>1, <2>2, <2>3 DEF y, MailQ
<1> QED BY <1>2, <1>3

\* thread_delete, refused for the running thread when nothing else can run.
LEMMA DeleteThreads ==
    ASSUME NEW x, Threads(x), Clean(x), NEW t \in Tid,
           t = x.run => find_next_runnable(x) # NoThread
    PROVE  LET y == thread_delete(x, t)
           IN  /\ Threads(y) /\ Live(y) = Live(x) \ {t} /\ y.ps = x.ps
               /\ \A u \in Tid : x.wq[u] = <<>> => y.wq[u] = <<>>
<1> DEFINE y == thread_delete(x, t)
<1>1. /\ KKeeps(x, y) /\ y.run # NoThread /\ Live(y) = Live(x) \ {t}
      /\ y.parent = x.parent /\ y.ps = x.ps
      /\ \A u \in Tid : y.won[u] \in {NoQueue, x.won[u]}
      /\ \A q \in WaitQ : x.wq[q] = <<>> => y.wq[q] = <<>>
  BY DeleteCore DEF Threads
<1> HIDE DEF y
<1>2. Threads(y)
  BY <1>1 DEF Threads, KKeeps
<1> QED BY <1>1, <1>2, MailboxAssumption DEF y

\* proc_exit takes exactly the threads of the process away.
LEMMA ExitThreads ==
    ASSUME NEW x, Threads(x), Clean(x), NEW p \in Pid,
           x.run \in ThreadsOf(x, p) => ExitNext(x, p) # NoThread
    PROVE  LET y == proc_exit(x, p)
           IN  /\ Threads(y) /\ Live(y) = Live(x) \ ThreadsOf(x, p)
               /\ y.ps = [x.ps EXCEPT ![p] = "dead"]
               /\ \A u \in Tid : x.wq[u] = <<>> => y.wq[u] = <<>>
<1> DEFINE D == ThreadsOf(x, p)
           x1 == IF x.run \in D THEN SwitchTo(x, ExitNext(x, p)) ELSE x
           x2 == FreeThreads(x1, D)
           x3 == arch_task_context_switch(x2)
           y == [x3 EXCEPT !.ps[p] = "dead"]
<1>1. D \in SUBSET Tid /\ D \subseteq Live(x) /\ \A t \in Live(x) \ D : x.parent[t] # p
  BY DEF ThreadsOf, Live
<1>2. /\ KCore(x1) /\ x1.run # NoThread /\ x1.run \notin D /\ Live(x1) = Live(x)
      /\ x1.parent = x.parent /\ x1.ps = x.ps /\ x1.won = x.won /\ x1.wq = x.wq
  <2>1. CASE x.run \notin D
    BY <2>1 DEF Threads
  <2>2. CASE x.run \in D
    <3> DEFINE next == ExitNext(x, p)
    <3>1. next \in Live(x) /\ next \notin D /\ next # NoThread
      BY <2>2, NextAmongFound DEF ExitNext, ReadyThreads, Live
    <3> HIDE DEF next
    <3>2. /\ KKeeps(x, SwitchTo(x, next)) /\ Live(SwitchTo(x, next)) = Live(x)
          /\ SwitchTo(x, next).run = next /\ SwitchTo(x, next).parent = x.parent
          /\ SwitchTo(x, next).ps = x.ps /\ SwitchTo(x, next).won = x.won
          /\ SwitchTo(x, next).wq = x.wq
      BY <3>1, SwitchToCore DEF Threads
    <3>3. x1 = SwitchTo(x, next)
      BY <2>2 DEF next
    <3> HIDE DEF x1
    <3> QED BY <3>1, <3>2, <3>3 DEF KKeeps
  <2> QED BY <2>1, <2>2
<1>3. proc_exit(x, p) = y
  BY DEF proc_exit
<1> HIDE DEF x1, D
<1>4. /\ KCore(x2) /\ Live(x2) = Live(x1) \ D /\ x2.run = x1.run
      /\ x2.parent = x1.parent /\ x2.ps = x1.ps
      /\ \A t \in Tid : x2.won[t] \in {NoQueue, x1.won[t]}
      /\ \A q \in WaitQ : x1.wq[q] = <<>> => x2.wq[q] = <<>>
  BY <1>1, <1>2, FreeCore DEF KKeeps
<1> HIDE DEF x2
<1>5. /\ KCore(x3) /\ Live(x3) = Live(x2) /\ x3.run = x2.run /\ x3.parent = x2.parent
      /\ x3.ps = x2.ps /\ x3.won = x2.won /\ x3.wq = x2.wq
  BY <1>4, CommitCore DEF KKeeps
<1> HIDE DEF x3
<1>6. \A t \in Live(x3) : x3.parent[t] # p
  BY <1>1, <1>2, <1>4, <1>5
<1>7. "dead" \in ObjectState
  BY DEF ObjectState
<1>8. KKeeps(x3, y) /\ y.st = x3.st /\ y.run = x3.run /\ y.won = x3.won /\ y.wq = x3.wq
  BY <1>5, <1>6, <1>7, ProcStateCore
<1>9. y.parent = x3.parent /\ y.ps = [x3.ps EXCEPT ![p] = "dead"]
  BY <1>5 DEF KCore, ThreadsTyped
<1> HIDE DEF y
<1>10. Live(y) = Live(x) \ D
  BY <1>2, <1>4, <1>5, <1>8 DEF Live
<1>11. Threads(y)
  BY <1>2, <1>4, <1>5, <1>8, <1>9 DEF Threads, KKeeps
<1>12. \A u \in Tid : x.wq[u] = <<>> => y.wq[u] = <<>>
  BY <1>2, <1>4, <1>5, <1>8, MailboxAssumption
<1>13. y.ps = [x.ps EXCEPT ![p] = "dead"]
  BY <1>2, <1>4, <1>5, <1>9
<1> QED BY <1>3, <1>10, <1>11, <1>12, <1>13 DEF D

-----------------------------------------------------------------------------
(* Mails.  s is a state inside or between gates, h says which thread owns what, *)
(* and the mails of X are on the way: a function of mailbox.c has them in hand. *)

Mail == [ref : Nat, magic : Nat]
Box == [st : {"live", "dead"}, mails : Seq(Mails), subs : SUBSET Magics, handlers : Nat]

MailsTyped(s) ==
    /\ s = [k |-> s.k, mail |-> s.mail, box |-> s.box]
    /\ s.mail \in [Mails -> Mail] /\ s.box \in [Tid -> Box]

Queued(s, t) == Members(s.box[t].mails)

Placed(s, h, m) == \E t \in Tid : m \in h[t] \/ m \in Queued(s, t)

\* A mail has at most one place and is there once; it has one reference while it
\* has a place and none otherwise.  The mails on the way have no place yet.
Accounted(s, h, X) ==
    /\ h \in [Tid -> SUBSET Mails]
    /\ \A t, u \in Tid : h[t] \cap Queued(s, u) = {}
    /\ \A t, u \in Tid : t # u => h[t] \cap h[u] = {} /\ Queued(s, t) \cap Queued(s, u) = {}
    /\ \A t \in Tid : Distinct(s.box[t].mails)
    /\ \A m \in Mails \ X : s.mail[m].ref = IF Placed(s, h, m) THEN 1 ELSE 0
    /\ \A m \in X : ~ Placed(s, h, m)

\* Nobody is parked on a mailbox that has a mail.
Awake(s) == \A t \in Tid : s.k.wq[t] # <<>> => s.box[t].mails = <<>>

MailsInv(s, h, X) == Threads(s.k) /\ MailsTyped(s) /\ Accounted(s, h, X) /\ Awake(s)

\* The mailbox of t in the order of its channel: the i-th oldest mail.
Oldest(s, t, i) == s.box[t].mails[Len(s.box[t].mails) + 1 - i]

\* From s to s2 mails were only added behind the ones that are queued, and no
\* thread came, went, or changed its subscriptions and handlers.
Posted(s, s2) ==
    /\ s2.k.order = s.k.order /\ Live(s2.k) = Live(s.k) /\ s2.k.ps = s.k.ps
    /\ \A t \in Tid :
        /\ s2.box[t].subs = s.box[t].subs /\ s2.box[t].handlers = s.box[t].handlers
        /\ Len(s.box[t].mails) <= Len(s2.box[t].mails)
        /\ \A i \in 1 .. Len(s.box[t].mails) :
            /\ Oldest(s2, t, i) = Oldest(s, t, i)
            /\ s2.mail[Oldest(s2, t, i)].magic = s.mail[Oldest(s, t, i)].magic

LEMMA PostedTransitive ==
    ASSUME NEW s1, NEW s2, NEW s3, MailsTyped(s1), MailsTyped(s2), MailsTyped(s3),
           Posted(s1, s2), Posted(s2, s3)
    PROVE  Posted(s1, s3)
<1> SUFFICES ASSUME NEW t \in Tid
             PROVE  /\ Len(s1.box[t].mails) <= Len(s3.box[t].mails)
                    /\ \A i \in 1 .. Len(s1.box[t].mails) :
                        /\ Oldest(s3, t, i) = Oldest(s1, t, i)
                        /\ s3.mail[Oldest(s3, t, i)].magic = s1.mail[Oldest(s1, t, i)].magic
  BY DEF Posted
<1>1. /\ Len(s1.box[t].mails) \in Nat /\ Len(s2.box[t].mails) \in Nat
      /\ Len(s3.box[t].mails) \in Nat
  BY DEF MailsTyped, Box
<1>2. /\ Len(s1.box[t].mails) <= Len(s2.box[t].mails)
      /\ Len(s2.box[t].mails) <= Len(s3.box[t].mails)
  BY DEF Posted
<1>3. ASSUME NEW i \in 1 .. Len(s1.box[t].mails)
      PROVE  /\ Oldest(s3, t, i) = Oldest(s1, t, i)
             /\ s3.mail[Oldest(s3, t, i)].magic = s1.mail[Oldest(s1, t, i)].magic
  <2>1. i \in 1 .. Len(s2.box[t].mails)
    BY <1>1, <1>2
  <2>2. /\ Oldest(s2, t, i) = Oldest(s1, t, i)
        /\ s2.mail[Oldest(s2, t, i)].magic = s1.mail[Oldest(s1, t, i)].magic
    BY DEF Posted
  <2>3. /\ Oldest(s3, t, i) = Oldest(s2, t, i)
        /\ s3.mail[Oldest(s3, t, i)].magic = s2.mail[Oldest(s2, t, i)].magic
    BY <2>1 DEF Posted
  <2> QED BY <2>2, <2>3
<1>4. Len(s1.box[t].mails) <= Len(s3.box[t].mails)
  <2>1. \A a, b, c \in Nat : a <= b /\ b <= c => a <= c
    OBVIOUS
  <2> QED BY ONLY <1>1, <1>2, <2>1, Zenon
<1> QED BY <1>3, <1>4

\* A change of mails that are not queued, the mailboxes left alone.
LEMMA PostedSame ==
    ASSUME NEW s, NEW s2, MailsTyped(s), s2.k = s.k, s2.box = s.box,
           \A t \in Tid : \A m \in Queued(s, t) : s2.mail[m] = s.mail[m]
    PROVE  Posted(s, s2)
<1> SUFFICES ASSUME NEW t \in Tid, NEW i \in 1 .. Len(s.box[t].mails)
             PROVE  s2.mail[Oldest(s, t, i)] = s.mail[Oldest(s, t, i)]
  <2>1. \A t \in Tid : Len(s.box[t].mails) \in Nat
    BY DEF MailsTyped, Box
  <2> QED BY <2>1, SMTT(30) DEF Posted, Oldest
<1>1. s.box[t].mails \in Seq(Mails)
  BY DEF MailsTyped, Box
<1>2. Oldest(s, t, i) \in Queued(s, t)
  <2> DEFINE j == Len(s.box[t].mails) + 1 - i
  <2>1. j \in DOMAIN s.box[t].mails
    BY <1>1
  <2> QED BY <2>1 DEF Oldest, Queued, Members
<1> QED BY <1>2

\* The heap gives a place that is free.
LEMMA FreePlace ==
    ASSUME NEW s, FreeMails(s) # {}
    PROVE  NextMail(s) \in Mails /\ s.mail[NextMail(s)].ref = 0
<1>1. FreeMails(s) \in SUBSET Nat
  BY MailboxAssumption DEF FreeMails
<1>2. \E m \in FreeMails(s) : \A n \in FreeMails(s) : m <= n
  BY <1>1, Least
<1>3. NextMail(s) \in FreeMails(s)
  BY <1>2 DEF NextMail
<1> QED BY <1>3 DEF FreeMails

\* alloc_mail: the new mail is on the way with one reference.
LEMMA AllocMails ==
    ASSUME NEW s, NEW h, NEW X, MailsInv(s, h, X), \A m \in X : s.mail[m].ref # 0,
           FreeMails(s) # {}, NEW magic \in Nat
    PROVE  LET n == NextMail(s)
               s2 == alloc_mail(s, magic)
           IN  /\ n \in Mails \ X /\ MailsInv(s2, h, X \cup {n}) /\ Posted(s, s2)
               /\ s2.k = s.k /\ s2.box = s.box
               /\ s2.mail = [s.mail EXCEPT ![n] = [ref |-> 1, magic |-> magic]]
<1>1. PICK n : n = NextMail(s)
  OBVIOUS
<1> DEFINE s2 == alloc_mail(s, magic)
<1>2. n \in Mails \ X /\ s.mail[n].ref = 0
  BY <1>1, FreePlace
<1>3. MailsTyped(s)
  BY DEF MailsInv
<1>4. s2.k = s.k /\ s2.box = s.box
      /\ s2.mail = [s.mail EXCEPT ![n] = [ref |-> 1, magic |-> magic]]
      /\ s2 = [k |-> s2.k, mail |-> s2.mail, box |-> s2.box]
  BY <1>1, <1>3 DEF MailsTyped, alloc_mail
<1> HIDE DEF s2
<1>5. ~ Placed(s, h, n)
  BY <1>2 DEF MailsInv, Accounted
<1>6. MailsTyped(s2)
  BY <1>2, <1>3, <1>4 DEF MailsTyped, Mail
<1>7. \A t \in Tid : Queued(s2, t) = Queued(s, t)
  BY <1>4 DEF Queued
<1>8. \A m \in Mails : Placed(s2, h, m) <=> Placed(s, h, m)
  BY <1>7 DEF Placed
<1>9. \A m \in Mails : m # n => s2.mail[m] = s.mail[m]
  BY <1>3, <1>4 DEF MailsTyped
<1>10. \A m \in X \cup {n} : ~ Placed(s2, h, m)
  BY <1>5, <1>7 DEF MailsInv, Accounted, Placed
<1>11. \A m \in Mails \ (X \cup {n}) : s2.mail[m].ref = IF Placed(s2, h, m) THEN 1 ELSE 0
  BY <1>8, <1>9 DEF MailsInv, Accounted
<1>12. Accounted(s2, h, X \cup {n})
  BY <1>4, <1>7, <1>10, <1>11 DEF MailsInv, Accounted
<1>13. Posted(s, s2)
  <2>1. \A t \in Tid : \A m \in Queued(s, t) : m \in Mails /\ m # n
    <3> SUFFICES ASSUME NEW t \in Tid PROVE Queued(s, t) \subseteq Mails /\ n \notin Queued(s, t)
      OBVIOUS
    <3>1. s.box[t].mails \in Seq(Mails)
      BY <1>3 DEF MailsTyped, Box
    <3> QED BY <1>5, <3>1, MembersOf DEF Placed, Queued
  <2>2. \A t \in Tid : \A m \in Queued(s, t) : s2.mail[m] = s.mail[m]
    BY <1>9, <2>1
  <2> QED BY ONLY <1>3, <1>4, <2>2, PostedSame
<1>14. MailsInv(s2, h, X \cup {n})
  BY <1>4, <1>6, <1>12 DEF MailsInv, Awake
<1> QED BY <1>1, <1>2, <1>4, <1>13, <1>14 DEF s2

\* release_mail of a mail that is on the way with its only reference.
LEMMA ReleaseMails ==
    ASSUME NEW s, NEW h, NEW m \in Mails, NEW X, m \notin X, MailsInv(s, h, X \cup {m}),
           s.mail[m].ref = 1
    PROVE  LET s2 == release_mail(s, m)
           IN  /\ MailsInv(s2, h, X) /\ Posted(s, s2)
               /\ s2.k = s.k /\ s2.box = s.box
               /\ \A n \in Mails : n # m => s2.mail[n] = s.mail[n]
<1> DEFINE s2 == release_mail(s, m)
<1>1. MailsTyped(s)
  BY DEF MailsInv
<1>2. s2.k = s.k /\ s2.box = s.box
      /\ s2.mail = [s.mail EXCEPT ![m] = [ref |-> 0, magic |-> 0]]
      /\ s2 = [k |-> s2.k, mail |-> s2.mail, box |-> s2.box]
  BY <1>1 DEF MailsTyped, release_mail
<1> HIDE DEF s2
<1>3. MailsTyped(s2)
  BY <1>1, <1>2 DEF MailsTyped, Mail
<1>4. \A t \in Tid : Queued(s2, t) = Queued(s, t)
  BY <1>2 DEF Queued
<1>5. \A n \in Mails : Placed(s2, h, n) <=> Placed(s, h, n)
  BY <1>4 DEF Placed
<1>6. \A n \in Mails : n # m => s2.mail[n] = s.mail[n]
  BY <1>1, <1>2 DEF MailsTyped
<1>7. ~ Placed(s, h, m) /\ s2.mail[m].ref = 0
  BY <1>1, <1>2 DEF MailsInv, Accounted, MailsTyped
<1>8. \A n \in Mails \ X : s2.mail[n].ref = IF Placed(s2, h, n) THEN 1 ELSE 0
  BY <1>5, <1>6, <1>7 DEF MailsInv, Accounted
<1>9. Accounted(s2, h, X)
  BY <1>2, <1>4, <1>8 DEF MailsInv, Accounted, Placed
<1>10. Posted(s, s2)
  <2>1. \A t \in Tid : \A n \in Queued(s, t) : n \in Mails /\ n # m
    <3> SUFFICES ASSUME NEW t \in Tid PROVE Queued(s, t) \subseteq Mails /\ m \notin Queued(s, t)
      OBVIOUS
    <3>1. s.box[t].mails \in Seq(Mails)
      BY <1>1 DEF MailsTyped, Box
    <3> QED BY <1>7, <3>1, MembersOf DEF Placed, Queued
  <2>2. \A t \in Tid : \A n \in Queued(s, t) : s2.mail[n] = s.mail[n]
    BY <1>6, <2>1
  <2> QED BY ONLY <1>1, <1>2, <2>2, PostedSame
<1>11. MailsInv(s2, h, X)
  BY <1>2, <1>3, <1>9 DEF MailsInv, Awake
<1> QED BY <1>2, <1>6, <1>10, <1>11 DEF s2

\* Queueing a mail that is on the way with its only reference.
LEMMA QueueMails ==
    ASSUME NEW s, NEW h, NEW m \in Mails, NEW X, m \notin X, MailsInv(s, h, X \cup {m}),
           s.mail[m].ref = 1, NEW t \in Tid
    PROVE  LET s2 == Queue(s, t, m)
           IN  MailsInv(s2, h, X) /\ Posted(s, s2) /\ s2.mail = s.mail
<1> DEFINE s2 == Queue(s, t, m)
           q == s.box[t].mails
<1>1. MailsTyped(s) /\ q \in Seq(Mails)
  BY DEF MailsInv, MailsTyped, Box
<1>2. /\ s2.k = wait_queue_wake_one(s.k, MailQ(t)) /\ s2.mail = s.mail
      /\ s2 = [k |-> s2.k, mail |-> s2.mail, box |-> s2.box]
      /\ s2.box = [s.box EXCEPT ![t].mails = list_add(m, q)]
  <2>1. s = [k |-> s.k, mail |-> s.mail, box |-> s.box]
    BY <1>1 DEF MailsTyped
  <2>2. s2 = [k |-> wait_queue_wake_one(s.k, MailQ(t)), mail |-> s.mail,
              box |-> [s.box EXCEPT ![t].mails = list_add(m, q)]]
    <3>1. s2 = [s EXCEPT !.k = wait_queue_wake_one(s.k, MailQ(t)),
                          !.box = [s.box EXCEPT ![t].mails = list_add(m, q)]]
      BY <2>1, Zenon DEF Queue
    <3> HIDE DEF s2
    <3> QED BY <2>1, <3>1
  <2> HIDE DEF s2
  <2> QED BY <2>2
<1> HIDE DEF s2
<1>3. \A u \in Tid : u # t => s2.box[u] = s.box[u]
  BY <1>1, <1>2 DEF MailsTyped
<1>4. /\ s2.box[t].mails = list_add(m, q) /\ s2.box[t].subs = s.box[t].subs
      /\ s2.box[t].handlers = s.box[t].handlers
  BY <1>1, <1>2 DEF MailsTyped, Box
<1> HIDE DEF q
<1>5. /\ list_add(m, q) \in Seq(Mails) /\ Len(list_add(m, q)) = Len(q) + 1
      /\ Members(list_add(m, q)) = Members(q) \cup {m}
      /\ Distinct(q) /\ m \notin Members(q) => Distinct(list_add(m, q))
  BY ONLY <1>1, m \in Mails, ListAdd
<1>6. MailsTyped(s2)
  <2>1. s2.box \in [Tid -> Box]
    BY <1>1, <1>2, <1>5, ZenonT(60) DEF MailsTyped, Box
  <2> QED BY <1>1, <1>2, <2>1 DEF MailsTyped
<1>7. \A u \in Tid : Queued(s2, u) = IF u = t THEN Queued(s, t) \cup {m} ELSE Queued(s, u)
  BY <1>3, <1>4, <1>5 DEF Queued, q
<1>8. ~ Placed(s, h, m)
  BY DEF MailsInv, Accounted
<1>9. \A u \in Tid : m \notin h[u] /\ m \notin Queued(s, u)
  BY <1>8 DEF Placed
<1>10. Accounted(s2, h, X)
  <2>1. \A u \in Tid : Distinct(s2.box[u].mails)
    <3>1. Distinct(q) /\ m \notin Members(q)
      BY <1>9 DEF MailsInv, Accounted, Queued, q
    <3> QED BY <1>3, <1>4, <1>5, <3>1 DEF MailsInv, Accounted
  <2>2. \A n \in Mails : Placed(s2, h, n) <=> Placed(s, h, n) \/ n = m
    BY <1>7 DEF Placed
  <2>3. \A n \in X : ~ Placed(s2, h, n)
    BY <1>7 DEF MailsInv, Accounted, Placed
  <2>4. \A u, v \in Tid : h[u] \cap Queued(s2, v) = {}
    BY <1>7, <1>9 DEF MailsInv, Accounted
  <2>5. \A u, v \in Tid : u # v => h[u] \cap h[v] = {} /\ Queued(s2, u) \cap Queued(s2, v) = {}
    BY <1>7, <1>9 DEF MailsInv, Accounted
  <2>6. \A n \in Mails \ X : s2.mail[n].ref = IF Placed(s2, h, n) THEN 1 ELSE 0
    BY <1>2, <2>2 DEF MailsInv, Accounted
  <2>7. h \in [Tid -> SUBSET Mails]
    BY DEF MailsInv, Accounted
  <2> QED BY <2>1, <2>3, <2>4, <2>5, <2>6, <2>7 DEF Accounted
<1>11. /\ Threads(s2.k) /\ s2.k.order = s.k.order /\ Live(s2.k) = Live(s.k)
       /\ s2.k.ps = s.k.ps /\ s2.k.wq = [s.k.wq EXCEPT ![t] = <<>>]
  BY <1>2, WakeThreads DEF MailsInv
<1>12. Awake(s2)
  <2>1. s.k.wq \in [Tid -> Seq(Tid)]
    BY MailboxAssumption DEF MailsInv, Threads, KCore, ThreadsTyped
  <2> QED BY <1>3, <1>11, <2>1 DEF MailsInv, Awake
<1>13. Posted(s, s2)
  <2> SUFFICES ASSUME NEW u \in Tid
               PROVE  /\ s2.box[u].subs = s.box[u].subs
                      /\ s2.box[u].handlers = s.box[u].handlers
                      /\ Len(s.box[u].mails) <= Len(s2.box[u].mails)
                      /\ \A i \in 1 .. Len(s.box[u].mails) : Oldest(s2, u, i) = Oldest(s, u, i)
    BY <1>2, <1>11 DEF Posted
  <2>1. Len(s.box[u].mails) \in Nat
    BY <1>1 DEF MailsTyped, Box
  <2>2. CASE u # t
    BY <1>3, <2>1, <2>2 DEF Oldest
  <2>3. CASE u = t
    <3>1. Len(q) \in Nat
      BY <1>1
    <3>2. \A i \in 1 .. Len(q) : list_add(m, q)[Len(q) + 1 + 1 - i] = q[Len(q) + 1 - i]
      BY <3>1 DEF list_add
    <3>3. s2.box[t].mails = list_add(m, q) /\ s.box[t].mails = q
      BY <1>4 DEF q
    <3>4. \A i \in 1 .. Len(q) : Oldest(s2, t, i) = Oldest(s, t, i)
      BY <1>5, <3>2, <3>3 DEF Oldest
    <3> QED BY <1>4, <1>5, <2>3, <3>1, <3>3, <3>4
  <2> QED BY <2>2, <2>3
<1> QED BY <1>2, <1>6, <1>10, <1>11, <1>12, <1>13 DEF MailsInv, s2

\* send_mail: the reference of a mail that is on the way goes to the mailbox, or
\* is given back when a handler has seen the mail.
LEMMA SendMails ==
    ASSUME NEW s, NEW h, NEW m \in Mails, NEW X, m \notin X, MailsInv(s, h, X \cup {m}),
           s.mail[m].ref = 1, NEW t \in Tid
    PROVE  LET s2 == send_mail(s, t, m)
           IN  /\ MailsInv(s2, h, X) /\ Posted(s, s2)
               /\ \A n \in Mails : n # m => s2.mail[n] = s.mail[n]
<1>1. s.box[t].handlers \in Nat
  BY DEF MailsInv, MailsTyped, Box
<1>2. CASE s.box[t].handlers > 0
  <2>1. send_mail(s, t, m) = release_mail(s, m)
    BY <1>2 DEF send_mail
  <2> QED BY <2>1, ReleaseMails
<1>3. CASE s.box[t].handlers = 0
  <2>1. send_mail(s, t, m) = Queue(s, t, m)
    BY <1>3 DEF send_mail
  <2> QED BY <2>1, QueueMails
<1> QED BY <1>1, <1>2, <1>3

-----------------------------------------------------------------------------
(* Loops over lists. *)

LEMMA Induction ==
    ASSUME NEW S \in SUBSET Nat, 0 \in S, \A n \in S : n + 1 \in S
    PROVE  \A n \in Nat : n \in S
<1> DEFINE T == Nat \ S
<1> SUFFICES ASSUME T # {} PROVE FALSE
  OBVIOUS
<1>1. PICK x \in T : \A y \in T : x <= y
  <2>1. T \in SUBSET Nat
    OBVIOUS
  <2> HIDE DEF T
  <2> QED BY <2>1, Least
<1>2. x # 0 /\ x - 1 \in Nat
  OBVIOUS
<1>3. x - 1 \in S
  BY <1>1, <1>2
<1>4. (x - 1) + 1 \in S
  BY <1>3
<1> QED BY <1>1, <1>2, <1>4

\* The loop bodies of Mailbox under one name.
Do(body, s, e, m) ==
    IF body = "deliver" THEN Deliver(s, e, m)
    ELSE IF body = "dispatch" THEN Dispatch(s, e)
    ELSE release_mail(s, e)

\* The states g a loop over q runs through.
Runs(g, body, base, q, m) ==
    g = [i \in 0 .. Len(q) |-> IF i = 0 THEN base ELSE Do(body, g[i - 1], q[i], m)]

LEMMA LoopRuns ==
    ASSUME NEW body, NEW base, NEW q, Len(q) \in Nat, NEW m
    PROVE  \E g : Runs(g, body, base, q, m)
<1> DEFINE To(n, g) == g = [i \in 0 .. n |-> IF i = 0 THEN base
                                             ELSE Do(body, g[i - 1], q[i], m)]
           S == {n \in Nat : \E g : To(n, g)}
<1>1. 0 \in S
  <2> DEFINE g == [i \in 0 .. 0 |-> base]
  <2>1. To(0, g)
    OBVIOUS
  <2> HIDE DEF To
  <2> QED BY <2>1
<1>2. ASSUME NEW n \in S PROVE n + 1 \in S
  <2>1. PICK g : To(n, g)
    OBVIOUS
  <2> DEFINE g2 == [i \in 0 .. n + 1 |-> IF i <= n THEN g[i]
                                         ELSE Do(body, g[n], q[n + 1], m)]
  <2>2. ASSUME NEW i \in 0 .. n + 1
        PROVE  g2[i] = IF i = 0 THEN base ELSE Do(body, g2[i - 1], q[i], m)
    <3>1. CASE i = 0
      <4>1. g2[0] = g[0] /\ g[0] = base
        BY <2>1
      <4> QED BY <3>1, <4>1
    <3>2. CASE i \in 1 .. n
      <4>1. i \in 0 .. n /\ i - 1 \in 0 .. n /\ i # 0
        BY <3>2
      <4>2. g2[i] = g[i] /\ g2[i - 1] = g[i - 1]
        BY <4>1
      <4>3. g[i] = Do(body, g[i - 1], q[i], m)
        BY <2>1, <4>1
      <4> QED BY <4>1, <4>2, <4>3
    <3>3. CASE i = n + 1
      <4>1. g2[i] = Do(body, g[n], q[n + 1], m) /\ g2[n] = g[n] /\ i - 1 = n /\ i # 0
        BY <3>3
      <4> HIDE DEF g2
      <4> QED BY <3>3, <4>1
    <3> QED BY <3>1, <3>2, <3>3
  <2>3. To(n + 1, g2)
    <3>1. g2 = [i \in 0 .. n + 1 |-> g2[i]]
      OBVIOUS
    <3> HIDE DEF g2
    <3> QED BY <2>2, <3>1
  <2> HIDE DEF To
  <2> QED BY <2>3
<1>3. Len(q) \in S
  <2> HIDE DEF S
  <2>1. S \in SUBSET Nat
    BY DEF S
  <2> QED BY <1>1, <1>2, <2>1, Induction
<1> QED BY <1>3 DEF Runs

\* The loops of broadcast, irqline_handler and release_mailbox.
DeliverAll(s, q, m) == LET Step(acc, t) == Deliver(acc, t, m) IN Loop(Step, s, q)
DispatchAll(s, q) == Loop(Dispatch, s, q)
ReleaseAll(s, q) == LET Step(acc, m) == release_mail(acc, m) IN Loop(Step, s, q)

\* The loop of broadcast, step by step.
LEMMA DeliverLoop ==
    ASSUME NEW base, NEW q, Len(q) \in Nat, NEW m
    PROVE  \E g : /\ g[0] = base /\ DeliverAll(base, q, m) = g[Len(q)]
                  /\ \A i \in 1 .. Len(q) : g[i] = Deliver(g[i - 1], q[i], m)
<1> DEFINE f == CHOOSE g : g = [i \in 0 .. Len(q) |-> IF i = 0 THEN base ELSE Deliver(g[i - 1], q[i], m)]
<1>1. DeliverAll(base, q, m) = f[Len(q)]
  BY DEF Loop, DeliverAll
<1>2. ASSUME NEW g
      PROVE  Runs(g, "deliver", base, q, m) <=>
                g = [i \in 0 .. Len(q) |-> IF i = 0 THEN base ELSE Deliver(g[i - 1], q[i], m)]
  BY DEF Runs, Do
<1>3. Runs(f, "deliver", base, q, m)
  BY <1>2, LoopRuns
<1> HIDE DEF f
<1>4. f[0] = base /\ \A i \in 1 .. Len(q) : f[i] = Deliver(f[i - 1], q[i], m)
  BY <1>3 DEF Runs, Do
<1> QED BY <1>1, <1>4

\* The loop of irqline_handler, step by step.
LEMMA DispatchLoop ==
    ASSUME NEW base, NEW q, Len(q) \in Nat
    PROVE  \E g : /\ g[0] = base /\ DispatchAll(base, q) = g[Len(q)]
                  /\ \A i \in 1 .. Len(q) : g[i] = Dispatch(g[i - 1], q[i])
<1> DEFINE f == CHOOSE g : g = [i \in 0 .. Len(q) |-> IF i = 0 THEN base ELSE Dispatch(g[i - 1], q[i])]
<1>1. DispatchAll(base, q) = f[Len(q)]
  BY DEF Loop, DispatchAll
<1>2. ASSUME NEW g
      PROVE  Runs(g, "dispatch", base, q, 0) <=>
                g = [i \in 0 .. Len(q) |-> IF i = 0 THEN base ELSE Dispatch(g[i - 1], q[i])]
  BY DEF Runs, Do
<1>3. Runs(f, "dispatch", base, q, 0)
  BY <1>2, LoopRuns
<1> HIDE DEF f
<1>4. f[0] = base /\ \A i \in 1 .. Len(q) : f[i] = Dispatch(f[i - 1], q[i])
  BY <1>3 DEF Runs, Do
<1> QED BY <1>1, <1>4

\* The loop of release_mailbox, step by step.
LEMMA ReleaseLoop ==
    ASSUME NEW base, NEW q, Len(q) \in Nat
    PROVE  \E g : /\ g[0] = base /\ ReleaseAll(base, q) = g[Len(q)]
                  /\ \A i \in 1 .. Len(q) : g[i] = release_mail(g[i - 1], q[i])
<1> DEFINE f == CHOOSE g : g = [i \in 0 .. Len(q) |-> IF i = 0 THEN base ELSE release_mail(g[i - 1], q[i])]
<1>1. ReleaseAll(base, q) = f[Len(q)]
  BY DEF Loop, ReleaseAll
<1>2. ASSUME NEW g
      PROVE  Runs(g, "release", base, q, 0) <=>
                g = [i \in 0 .. Len(q) |-> IF i = 0 THEN base ELSE release_mail(g[i - 1], q[i])]
  BY DEF Runs, Do
<1>3. Runs(f, "release", base, q, 0)
  BY <1>2, LoopRuns
<1> HIDE DEF f
<1>4. f[0] = base /\ \A i \in 1 .. Len(q) : f[i] = release_mail(f[i - 1], q[i])
  BY <1>3 DEF Runs, Do
<1> QED BY <1>1, <1>4

\* What holds before a loop of n steps and is kept by each step holds after it:
\* N are the numbers of steps after which it holds.
LEMMA LoopInvariant ==
    ASSUME NEW n \in Nat, NEW N, 0 \in N, \A i \in 1 .. n : i - 1 \in N => i \in N
    PROVE  n \in N
<1> DEFINE S == {i \in Nat : i <= n => i \in N}
<1>1. 0 \in S /\ S \in SUBSET Nat
  OBVIOUS
<1>2. ASSUME NEW i \in S PROVE i + 1 \in S
  <2> SUFFICES ASSUME i + 1 <= n PROVE i + 1 \in N
    OBVIOUS
  <2>1. i + 1 \in 1 .. n /\ (i + 1) - 1 = i /\ i \in N
    OBVIOUS
  <2> QED BY <2>1
<1>3. n \in S
  <2> HIDE DEF S
  <2> QED BY <1>1, <1>2, Induction
<1> QED BY <1>3

-----------------------------------------------------------------------------
(* The functions that loop. *)

\* A mail on the way may be written to: it is nobody's.
LEMMA TouchMails ==
    ASSUME NEW s, NEW h, NEW X, MailsInv(s, h, X), NEW m \in Mails, m \in X,
           NEW v \in Mail
    PROVE  LET s2 == [s EXCEPT !.mail[m] = v]
           IN  /\ MailsInv(s2, h, X) /\ Posted(s, s2)
               /\ s2.k = s.k /\ s2.box = s.box /\ s2.mail = [s.mail EXCEPT ![m] = v]
<1> DEFINE s2 == [s EXCEPT !.mail[m] = v]
<1>1. MailsTyped(s)
  BY DEF MailsInv
<1>2. s2.k = s.k /\ s2.box = s.box /\ s2.mail = [s.mail EXCEPT ![m] = v]
      /\ s2 = [k |-> s2.k, mail |-> s2.mail, box |-> s2.box]
  BY <1>1 DEF MailsTyped
<1> HIDE DEF s2
<1>3. MailsTyped(s2)
  BY <1>1, <1>2 DEF MailsTyped
<1>4. \A t \in Tid : Queued(s2, t) = Queued(s, t)
  BY <1>2 DEF Queued
<1>5. \A n \in Mails : n # m => s2.mail[n] = s.mail[n]
  BY <1>1, <1>2 DEF MailsTyped
<1>6. \A n \in Mails \ X : s2.mail[n].ref = IF Placed(s2, h, n) THEN 1 ELSE 0
  BY <1>4, <1>5 DEF MailsInv, Accounted, Placed
<1>7. Accounted(s2, h, X)
  BY <1>2, <1>4, <1>6 DEF MailsInv, Accounted, Placed
<1>8. Posted(s, s2)
  <2>1. \A t \in Tid : \A n \in Queued(s, t) : n \in Mails /\ n # m
    <3> SUFFICES ASSUME NEW t \in Tid PROVE Queued(s, t) \subseteq Mails /\ m \notin Queued(s, t)
      OBVIOUS
    <3>1. s.box[t].mails \in Seq(Mails)
      BY <1>1 DEF MailsTyped, Box
    <3> QED BY <3>1, MembersOf DEF MailsInv, Accounted, Placed, Queued
  <2>2. \A t \in Tid : \A n \in Queued(s, t) : s2.mail[n] = s.mail[n]
    BY <1>5, <2>1
  <2> QED BY ONLY <1>1, <1>2, <2>2, PostedSame
<1>9. MailsInv(s2, h, X)
  BY <1>2, <1>3, <1>7 DEF MailsInv, Awake
<1> QED BY <1>2, <1>8, <1>9 DEF s2

\* dispatch_user_mode_irq: the mail it makes is queued, seen by a handler, or
\* never made.
LEMMA DispatchMails ==
    ASSUME NEW s, NEW h, MailsInv(s, h, {}), NEW i, irq[i].enabled => irq[i].owner \in Tid
    PROVE  MailsInv(Dispatch(s, i), h, {}) /\ Posted(s, Dispatch(s, i))
<1>1. CASE irq[i].enabled /\ FreeMails(s) # {}
  <2> DEFINE n == NextMail(s)
             s1 == alloc_mail(s, IrqMagic)
             s2 == send_mail(s1, irq[i].owner, n)
  <2>1. IrqMagic \in Nat /\ \A m \in {} : s.mail[m].ref # 0
    BY MailboxAssumption
  <2>2. /\ n \in Mails /\ MailsInv(s1, h, {} \cup {n}) /\ Posted(s, s1)
        /\ s1.mail = [s.mail EXCEPT ![n] = [ref |-> 1, magic |-> IrqMagic]]
    BY <1>1, <2>1, AllocMails
  <2>3. s1.mail[n].ref = 1
    BY <2>2 DEF MailsInv, MailsTyped
  <2>4. n \notin {} /\ irq[i].owner \in Tid
    BY <1>1
  <2>5. Dispatch(s, i) = s2
    BY <1>1 DEF Dispatch
  <2> HIDE DEF s1, n
  <2>6. MailsInv(s2, h, {}) /\ Posted(s1, s2)
    BY <2>2, <2>3, <2>4, SendMails
  <2> HIDE DEF s2
  <2>7. Posted(s, s2)
    BY <2>2, <2>6, PostedTransitive DEF MailsInv
  <2> QED BY <2>5, <2>6, <2>7
<1>2. CASE ~ (irq[i].enabled /\ FreeMails(s) # {})
  <2>1. Dispatch(s, i) = s
    BY <1>2 DEF Dispatch
  <2> QED BY <2>1, PostedSame DEF MailsInv
<1> QED BY <1>1, <1>2

\* irqline_handler keeps the accounts for any number of sharers of the line.
LEMMA InterruptMails ==
    ASSUME NEW s, NEW h, MailsInv(s, h, {}), NEW q, q \in Seq(Irqs),
           \A i \in Members(q) : irq[i].enabled => irq[i].owner \in Tid
    PROVE  MailsInv(DispatchAll(s, q), h, {}) /\ Posted(s, DispatchAll(s, q))
<1> DEFINE n == Len(q)
           end == DispatchAll(s, q)
<1>1. n \in Nat /\ DOMAIN q = 1 .. n
  OBVIOUS
<1>2. PICK g : /\ g[0] = s /\ end = g[Len(q)]
               /\ \A i \in 1 .. Len(q) : g[i] = Dispatch(g[i - 1], q[i])
  BY <1>1, DispatchLoop
<1> HIDE DEF end
<1> DEFINE N == {i \in 0 .. n : MailsInv(g[i], h, {}) /\ Posted(s, g[i])}
<1>3. 0 \in N
  <2>1. Posted(s, s)
    BY PostedSame DEF MailsInv
  <2> QED BY <1>1, <1>2, <2>1
<1>4. ASSUME NEW i \in 1 .. n, i - 1 \in N PROVE i \in N
  <2>1. MailsInv(g[i - 1], h, {}) /\ Posted(s, g[i - 1])
    BY <1>4
  <2>2. g[i] = Dispatch(g[i - 1], q[i])
    BY <1>2
  <2>3. irq[q[i]].enabled => irq[q[i]].owner \in Tid
    BY <1>1 DEF Members
  <2>4. MailsInv(g[i], h, {}) /\ Posted(g[i - 1], g[i])
    BY <2>1, <2>2, <2>3, DispatchMails
  <2>5. Posted(s, g[i])
    BY <2>1, <2>4, PostedTransitive DEF MailsInv
  <2> QED BY <1>1, <2>4, <2>5
<1>5. n \in N
  <2> HIDE DEF N, n
  <2> QED BY <1>1, <1>3, <1>4, LoopInvariant
<1>6. MailsInv(g[n], h, {}) /\ Posted(s, g[n])
  BY <1>5
<1> QED BY <1>2, <1>6 DEF end

\* Handlers of t will see m.
Handled(s, t, m) == t \in Subscribers(s, s.mail[m].magic) /\ s.box[t].handlers > 0

\* One subscriber's share of a broadcast costs one reference where a handler
\* sees the mail, and none where a clone is queued.
LEMMA DeliverMails ==
    ASSUME NEW s, NEW h, NEW m \in Mails, MailsInv(s, h, {m}), NEW t \in Tid,
           s.mail[m].ref >= 1, Handled(s, t, m) => s.mail[m].ref >= 2
    PROVE  LET s2 == Deliver(s, t, m)
           IN  /\ MailsInv(s2, h, {m}) /\ Posted(s, s2)
               /\ s2.mail[m].magic = s.mail[m].magic
               /\ s2.mail[m].ref = IF Handled(s, t, m) THEN s.mail[m].ref - 1 ELSE s.mail[m].ref
<1>1. /\ MailsTyped(s) /\ s.mail[m] \in Mail /\ s.mail[m].ref \in Nat
      /\ s.mail[m].magic \in Nat /\ s.box[t].handlers \in Nat
  BY DEF MailsInv, MailsTyped, Mail, Box
<1>2. Posted(s, s)
  BY <1>1, PostedSame
<1>3. CASE ~ Handled(s, t, m) /\ (t \in Subscribers(s, s.mail[m].magic) => FreeMails(s) = {})
  <2>1. Deliver(s, t, m) = s
    BY <1>1, <1>3 DEF Deliver, Handled
  <2> QED BY <1>2, <1>3, <2>1
<1>4. CASE Handled(s, t, m)
  <2> DEFINE v == [ref |-> s.mail[m].ref - 1, magic |-> s.mail[m].magic]
             s2 == [s EXCEPT !.mail[m] = v]
  <2>1. Deliver(s, t, m) = release_mail(s, m)
    BY <1>4 DEF Deliver, send_mail, Handled
  <2>2. v \in Mail /\ v.ref = s.mail[m].ref - 1 /\ v.magic = s.mail[m].magic
    BY <1>1, <1>4 DEF Mail
  <2>3. release_mail(s, m) = s2
    BY <1>1, <1>4 DEF release_mail
  <2> HIDE DEF v
  <2>4. MailsInv(s2, h, {m}) /\ Posted(s, s2) /\ s2.mail = [s.mail EXCEPT ![m] = v]
    <3>1. PICK X : X = {m}
      OBVIOUS
    <3>2. MailsInv(s, h, X) /\ m \in X
      BY <3>1
    <3>3. MailsInv(s2, h, X) /\ Posted(s, s2) /\ s2.mail = [s.mail EXCEPT ![m] = v]
      BY ONLY <2>2, <3>2, m \in Mails, TouchMails
    <3> QED BY <3>1, <3>3
  <2> HIDE DEF s2
  <2>5. s2.mail[m] = v
    BY <1>1, <2>4 DEF MailsTyped
  <2> QED BY <1>4, <2>1, <2>2, <2>3, <2>4, <2>5
<1>5. CASE ~ Handled(s, t, m) /\ t \in Subscribers(s, s.mail[m].magic) /\ FreeMails(s) # {}
  <2> DEFINE n == NextMail(s)
             g == s.mail[m].magic
             s1 == alloc_mail(s, g)
             s2 == Queue(s1, t, n)
  <2>1. Deliver(s, t, m) = s2
    BY <1>1, <1>5 DEF Deliver, Handled
  <2>2. (\A x \in {m} : s.mail[x].ref # 0) /\ FreeMails(s) # {} /\ g \in Nat
    BY <1>1, <1>5
  <2> HIDE DEF g
  <2>3. /\ n \in Mails \ {m} /\ MailsInv(s1, h, {m} \cup {n}) /\ Posted(s, s1)
        /\ s1.mail = [s.mail EXCEPT ![n] = [ref |-> 1, magic |-> g]]
    BY ONLY <2>2, MailsInv(s, h, {m}), AllocMails
  <2> HIDE DEF n
  <2>4. s1.mail[n].ref = 1 /\ s1.mail[m] = s.mail[m] /\ n \notin {m}
    BY <1>1, <2>3 DEF MailsTyped
  <2> HIDE DEF s1
  <2>5. MailsInv(s2, h, {m}) /\ Posted(s1, s2) /\ s2.mail = s1.mail
    <3>1. PICK X : X = {m}
      OBVIOUS
    <3>2. MailsInv(s1, h, X \cup {n}) /\ n \notin X /\ n \in Mails
      BY <2>3, <2>4, <3>1
    <3>3. MailsInv(s2, h, X) /\ Posted(s1, s2) /\ s2.mail = s1.mail
      BY ONLY <2>4, <3>2, t \in Tid, QueueMails
    <3> QED BY <3>1, <3>3
  <2> HIDE DEF s2
  <2>6. Posted(s, s2)
    BY <2>3, <2>5, PostedTransitive DEF MailsInv
  <2> QED BY <1>5, <2>1, <2>4, <2>5, <2>6
<1> QED BY <1>3, <1>4, <1>5

\* The members of H that list q has behind index i.
Left(q, H, i) == {t \in H : \E j \in i + 1 .. Len(q) : q[j] = t}

\* Walking the list counts them down.
LEMMA LeftCounted ==
    ASSUME NEW T, NEW q \in Seq(T), Distinct(q), NEW H, H \subseteq Members(q)
    PROVE  /\ Left(q, H, 0) = H /\ Left(q, H, Len(q)) = {}
           /\ \A i \in 0 .. Len(q) : Cardinality(Left(q, H, i)) \in Nat
           /\ \A i \in 1 .. Len(q) :
                Cardinality(Left(q, H, i - 1)) =
                    IF q[i] \in H THEN Cardinality(Left(q, H, i)) + 1
                    ELSE Cardinality(Left(q, H, i))
<1>1. Len(q) \in Nat /\ DOMAIN q = 1 .. Len(q)
  OBVIOUS
<1>2. IsFiniteSet(H)
  BY FiniteList, FS_Subset
<1>3. \A i : IsFiniteSet(Left(q, H, i)) /\ Cardinality(Left(q, H, i)) \in Nat
  <2> SUFFICES ASSUME NEW i
               PROVE  IsFiniteSet(Left(q, H, i)) /\ Cardinality(Left(q, H, i)) \in Nat
    OBVIOUS
  <2>1. Left(q, H, i) \subseteq H
    BY DEF Left
  <2>2. IsFiniteSet(Left(q, H, i))
    BY <1>2, <2>1, FS_Subset
  <2> QED BY <2>2, FS_CardinalityType
<1>4. Left(q, H, 0) = H
  BY <1>1 DEF Left, Members
<1>5. Left(q, H, Len(q)) = {}
  BY <1>1 DEF Left
<1>6. ASSUME NEW i \in 1 .. Len(q)
      PROVE  Cardinality(Left(q, H, i - 1)) =
                IF q[i] \in H THEN Cardinality(Left(q, H, i)) + 1
                ELSE Cardinality(Left(q, H, i))
  <2>1. \A j : j \in i .. Len(q) <=> j = i \/ j \in i + 1 .. Len(q)
    BY <1>1
  <2>2. Left(q, H, i - 1) = {t \in H : \E j \in i .. Len(q) : q[j] = t}
    <3>1. (i - 1) + 1 = i
      OBVIOUS
    <3> QED BY <3>1 DEF Left
  <2>3. q[i] \notin Left(q, H, i)
    <3>1. \A j \in i + 1 .. Len(q) : j \in DOMAIN q /\ i \in DOMAIN q /\ j # i
      BY <1>1
    <3> QED BY <3>1 DEF Left, Distinct
  <2>4. CASE q[i] \in H
    <3>1. Left(q, H, i - 1) = Left(q, H, i) \cup {q[i]}
      BY <2>1, <2>2, <2>4 DEF Left
    <3>2. Cardinality(Left(q, H, i) \cup {q[i]}) = Cardinality(Left(q, H, i)) + 1
      BY <1>3, <2>3, FS_AddElement
    <3> QED BY <2>4, <3>1, <3>2
  <2>5. CASE q[i] \notin H
    <3>1. Left(q, H, i - 1) = Left(q, H, i)
      BY <2>1, <2>2, <2>5 DEF Left
    <3> QED BY <2>5, <3>1
  <2> QED BY <2>4, <2>5
<1> QED BY <1>3, <1>4, <1>5, <1>6

\* A broadcast takes as many references as handlers' threads will give back: the
\* mail ends with none, whoever subscribes and however little memory there is.
LEMMA BroadcastMails ==
    ASSUME NEW s, NEW h, NEW m \in Mails, MailsInv(s, h, {m}), s.mail[m].ref = 1
    PROVE  MailsInv(broadcast(s, m), h, {}) /\ Posted(s, broadcast(s, m))
<1> DEFINE magic == s.mail[m].magic
           H == {t \in Subscribers(s, magic) : s.box[t].handlers > 0}
           v == [ref |-> 1 + Cardinality(H), magic |-> magic]
           c == [s EXCEPT !.mail[m] = v]
           q == s.k.order
           n == Len(q)
           end == DeliverAll(c, q, m)
<1>1. /\ MailsTyped(s) /\ s.mail \in [Mails -> Mail] /\ s.mail[m] \in Mail /\ magic \in Nat
      /\ s.box \in [Tid -> Box]
  BY DEF MailsInv, MailsTyped, Mail
<1>2. q \in Seq(Tid) /\ Distinct(q) /\ Members(q) = Live(s.k) /\ n \in Nat /\ DOMAIN q = 1 .. n
  BY DEF MailsInv, Threads, KCore, ThreadsTyped, ListCoherent
<1>3. H \subseteq Members(q)
  BY <1>2 DEF Subscribers
<1>4. broadcast(s, m) = release_mail(end, m)
  <2> DEFINE c0 == [s EXCEPT !.mail[m].ref = @ + Cardinality(H)]
  <2>1. broadcast(s, m) = release_mail(DeliverAll(c0, q, m), m)
    BY DEF broadcast, DeliverAll
  <2>2. [s.mail[m] EXCEPT !.ref = @ + Cardinality(H)] = v
    BY <1>1 DEF Mail
  <2>3. c0 = [s EXCEPT !.mail[m] = [s.mail[m] EXCEPT !.ref = @ + Cardinality(H)]]
    BY <1>1 DEF MailsTyped
  <2> HIDE DEF c0, v
  <2>4. c0 = c
    BY <2>2, <2>3
  <2> QED BY <2>1, <2>4
<1> HIDE DEF H, q
<1>5. /\ Left(q, H, 0) = H /\ Left(q, H, n) = {}
      /\ \A i \in 0 .. n : Cardinality(Left(q, H, i)) \in Nat
      /\ \A i \in 1 .. n :
            Cardinality(Left(q, H, i - 1)) =
                IF q[i] \in H THEN Cardinality(Left(q, H, i)) + 1
                ELSE Cardinality(Left(q, H, i))
  BY ONLY <1>2, <1>3, LeftCounted
<1>6. Cardinality(H) \in Nat /\ v \in Mail /\ v.ref = 1 + Cardinality(H) /\ v.magic = magic
  BY <1>1, <1>2, <1>5 DEF Mail
<1> HIDE DEF v
<1>7. MailsInv(c, h, {m}) /\ Posted(s, c) /\ c.mail[m] = v
  <2>1. PICK X : X = {m}
    OBVIOUS
  <2>2. MailsInv(s, h, X) /\ m \in X
    BY <2>1
  <2>3. MailsInv(c, h, X) /\ Posted(s, c) /\ c.mail = [s.mail EXCEPT ![m] = v]
    BY ONLY <1>6, <2>2, m \in Mails, TouchMails
  <2> QED BY <1>1, <2>1, <2>3
<1> HIDE DEF c
<1>8. PICK g : /\ g[0] = c /\ end = g[Len(q)]
               /\ \A i \in 1 .. Len(q) : g[i] = Deliver(g[i - 1], q[i], m)
  BY <1>2, DeliverLoop
<1> HIDE DEF end
<1> DEFINE Good(x, i) == /\ MailsInv(x, h, {m}) /\ Posted(s, x) /\ x.mail[m].magic = magic
                         /\ x.mail[m].ref = 1 + Cardinality(Left(q, H, i))
           N == {i \in 0 .. n : Good(g[i], i)}
<1>9. 0 \in N
  BY <1>2, <1>5, <1>6, <1>7, <1>8
<1>10. ASSUME NEW i \in 1 .. n, i - 1 \in N PROVE i \in N
  <2> DEFINE x == g[i - 1]
             t == q[i]
             y == Deliver(x, t, m)
  <2>1. Good(x, i - 1) /\ i \in 0 .. n /\ i - 1 \in 0 .. n
    BY <1>2, <1>10
  <2>2. t \in Tid /\ g[i] = y
    BY <1>2, <1>8
  <2> HIDE DEF x, t
  <2>3. Handled(x, t, m) <=> t \in H
    <3>1. Live(x.k) = Live(s.k) /\ x.box[t].subs = s.box[t].subs
          /\ x.box[t].handlers = s.box[t].handlers /\ x.mail[m].magic = magic
      BY <2>1, <2>2 DEF Posted
    <3> HIDE DEF magic
    <3> QED BY <3>1 DEF Handled, Subscribers, H
  <2>4. /\ Cardinality(Left(q, H, i)) \in Nat
        /\ Cardinality(Left(q, H, i - 1)) = IF t \in H THEN Cardinality(Left(q, H, i)) + 1
                                            ELSE Cardinality(Left(q, H, i))
    BY <1>5, <2>1 DEF t
  <2>5. x.mail[m].ref >= 1 /\ (Handled(x, t, m) => x.mail[m].ref >= 2)
    BY <2>1, <2>3, <2>4
  <2>6. MailsInv(x, h, {m})
    BY <2>1
  <2>7. /\ MailsInv(y, h, {m}) /\ Posted(x, y) /\ y.mail[m].magic = x.mail[m].magic
        /\ y.mail[m].ref = IF Handled(x, t, m) THEN x.mail[m].ref - 1 ELSE x.mail[m].ref
    BY ONLY <2>2, <2>5, <2>6, m \in Mails, DeliverMails
  <2> HIDE DEF y
  <2>8. Posted(s, y)
    BY <2>1, <2>7, PostedTransitive DEF MailsInv
  <2>9. y.mail[m].ref = 1 + Cardinality(Left(q, H, i))
    BY <2>1, <2>3, <2>4, <2>7
  <2> QED BY <2>1, <2>2, <2>7, <2>8, <2>9
<1>11. n \in N
  <2> HIDE DEF N, n
  <2> QED BY <1>2, <1>9, <1>10, LoopInvariant
<1>12. Good(end, n)
  BY <1>8, <1>11
<1>13. end.mail[m].ref = 1
  <2>1. Cardinality({}) = 0
    BY FS_EmptySet
  <2> QED BY <1>5, <1>12, <2>1
<1>14. m \notin {} /\ MailsInv(end, h, {} \cup {m})
  <2>1. {} \cup {m} = {m}
    OBVIOUS
  <2> QED BY <1>12, <2>1
<1> DEFINE s2 == release_mail(end, m)
<1>15. MailsInv(s2, h, {}) /\ Posted(end, s2)
  BY ONLY <1>13, <1>14, m \in Mails, ReleaseMails
<1> HIDE DEF s2
<1>16. Posted(s, s2)
  BY <1>1, <1>12, <1>15, PostedTransitive DEF MailsInv
<1> QED BY <1>4, <1>15, <1>16 DEF s2

\* send, for one thread, for a thread that is gone, and for all subscribers: the
\* mail that was on the way is accounted for.
LEMMA SendAnyMails ==
    ASSUME NEW s, NEW h, NEW m \in Mails, MailsInv(s, h, {m}), s.mail[m].ref = 1,
           NEW to \in Tid \cup {AnyTid}
    PROVE  MailsInv(send(s, m, to), h, {}) /\ Posted(s, send(s, m, to))
<1>1. m \notin {} /\ MailsInv(s, h, {} \cup {m})
  <2>1. {} \cup {m} = {m}
    OBVIOUS
  <2> QED BY <2>1
<1>2. CASE to = AnyTid
  <2>1. send(s, m, to) = broadcast(s, m)
    BY <1>2 DEF send
  <2> QED BY <2>1, BroadcastMails
<1>3. CASE to # AnyTid /\ to \notin Live(s.k)
  <2>1. send(s, m, to) = release_mail(s, m)
    BY <1>3 DEF send
  <2> QED BY ONLY <1>1, <2>1, m \in Mails, s.mail[m].ref = 1, ReleaseMails
<1>4. CASE to # AnyTid /\ to \in Live(s.k)
  <2>1. send(s, m, to) = send_mail(s, to, m) /\ to \in Tid
    BY <1>4 DEF send
  <2> QED BY ONLY <1>1, <2>1, m \in Mails, s.mail[m].ref = 1, SendMails
<1> QED BY <1>2, <1>3, <1>4

\* release_mailbox gives back everything that was queued and nothing else.
LEMMA ReleaseMailboxMails ==
    ASSUME NEW s, NEW h, MailsInv(s, h, {}), NEW t \in Tid
    PROVE  LET s2 == release_mailbox(s, t)
           IN  /\ MailsInv(s2, h, {}) /\ s2.k = s.k
               /\ \A u \in Tid : u # t =>
                    s2.box[u] = s.box[u] /\ \A m \in Queued(s, u) : s2.mail[m] = s.mail[m]
<1> DEFINE q == s.box[t].mails
           n == Len(q)
           dead == [st |-> "dead", mails |-> <<>>, subs |-> {}, handlers |-> 0]
           B == [s.box EXCEPT ![t] = dead]
           Emptied(x) == [k |-> x.k, mail |-> x.mail, box |-> B]
           X(i) == {q[j] : j \in i + 1 .. n}
           end == ReleaseAll(s, q)
<1>1. /\ MailsTyped(s) /\ s.mail \in [Mails -> Mail] /\ s.box \in [Tid -> Box]
      /\ s = [k |-> s.k, mail |-> s.mail, box |-> s.box]
  BY DEF MailsInv, MailsTyped
<1>2. q \in Seq(Mails) /\ n \in Nat /\ DOMAIN q = 1 .. n /\ Distinct(q)
      /\ Members(q) = Queued(s, t) /\ Members(q) \subseteq Mails
  BY <1>1, MembersOf DEF MailsInv, Accounted, Queued, Box
<1>3. release_mailbox(s, t) = [end EXCEPT !.box[t] = dead]
  BY DEF release_mailbox, ReleaseAll
<1>4. /\ B \in [Tid -> Box] /\ B[t].mails = <<>> /\ \A u \in Tid : u # t => B[u] = s.box[u]
  <2>1. dead \in Box
    <3>1. <<>> \in Seq(Mails) /\ {} \in SUBSET Magics
      OBVIOUS
    <3> QED BY <3>1 DEF Box
  <2> QED BY <1>1, <2>1
<1> HIDE DEF q, B
<1>5. \A x : Emptied(x).k = x.k /\ Emptied(x).mail = x.mail /\ Emptied(x).box = B
  OBVIOUS
<1>6. MailsInv(Emptied(s), h, Members(q))
  <2> DEFINE e == Emptied(s)
  <2>1. e.k = s.k /\ e.mail = s.mail /\ e.box = B /\ e = [k |-> e.k, mail |-> e.mail, box |-> e.box]
    OBVIOUS
  <2> HIDE DEF e
  <2>2. Members(<<>>) = {}
    BY DEF Members
  <2>3. \A u \in Tid : Queued(e, u) = IF u = t THEN {} ELSE Queued(s, u)
    BY <1>4, <2>1, <2>2 DEF Queued
  <2>4. \A u \in Tid : Distinct(e.box[u].mails)
    <3>1. Distinct(<<>>)
      BY DEF Distinct
    <3> QED BY <1>4, <2>1, <3>1 DEF MailsInv, Accounted
  <2>5. \A m \in Members(q) : ~ Placed(e, h, m)
    BY <1>2, <2>3 DEF MailsInv, Accounted, Placed
  <2>6. \A m \in Mails \ Members(q) : Placed(e, h, m) <=> Placed(s, h, m)
    BY <1>2, <2>3 DEF Placed
  <2>7. Accounted(e, h, Members(q))
    <3>1. h \in [Tid -> SUBSET Mails] /\ \A u, w \in Tid : h[u] \cap Queued(e, w) = {}
      BY <2>3 DEF MailsInv, Accounted
    <3>2. \A u, w \in Tid : u # w => h[u] \cap h[w] = {} /\ Queued(e, u) \cap Queued(e, w) = {}
      BY <2>3 DEF MailsInv, Accounted
    <3>3. \A m \in Mails \ Members(q) : e.mail[m].ref = IF Placed(e, h, m) THEN 1 ELSE 0
      BY <2>1, <2>6 DEF MailsInv, Accounted
    <3> QED BY <2>4, <2>5, <3>1, <3>2, <3>3 DEF Accounted
  <2>8. MailsTyped(e)
    BY <1>1, <1>4, <2>1 DEF MailsTyped
  <2>9. Awake(e)
    BY <1>4, <2>1 DEF MailsInv, Awake
  <2>10. Threads(e.k)
    BY <2>1 DEF MailsInv
  <2> QED BY <2>7, <2>8, <2>9, <2>10 DEF MailsInv, e
<1> HIDE DEF Emptied
<1>7. \A m \in Members(q) : s.mail[m].ref = 1
  BY <1>2 DEF MailsInv, Accounted, Placed
<1>8. PICK g : /\ g[0] = s /\ end = g[Len(q)]
               /\ \A i \in 1 .. Len(q) : g[i] = release_mail(g[i - 1], q[i])
  BY <1>2, ReleaseLoop
<1> HIDE DEF end
<1> DEFINE Good(x, i) == /\ x = [k |-> x.k, mail |-> x.mail, box |-> x.box]
                         /\ x.k = s.k /\ x.box = s.box
                         /\ MailsInv(Emptied(x), h, X(i))
                         /\ \A m \in X(i) : x.mail[m].ref = 1
                         /\ \A m \in Mails \ Members(q) : x.mail[m] = s.mail[m]
           N == {i \in 0 .. n : Good(g[i], i)}
<1>9. 0 \in N
  <2>1. X(0) = Members(q) /\ 0 \in 0 .. n
    BY <1>2 DEF Members
  <2> HIDE DEF X
  <2> QED BY <1>1, <1>6, <1>7, <1>8, <2>1
<1>10. ASSUME NEW i \in 1 .. n, i - 1 \in N PROVE i \in N
  <2> DEFINE x == g[i - 1]
             m == q[i]
             y == release_mail(x, m)
             e2 == release_mail(Emptied(x), m)
  <2>1. Good(x, i - 1) /\ i \in 0 .. n
    BY <1>2, <1>10
  <2>2. g[i] = y /\ m \in Mails /\ m \in Members(q)
    BY <1>2, <1>8 DEF Members
  <2>3. X(i - 1) = X(i) \cup {m} /\ m \notin X(i)
    <3>1. (i - 1) + 1 = i
      OBVIOUS
    <3>2. \A j : j \in i .. n <=> j = i \/ j \in i + 1 .. n
      BY <1>2
    <3>3. \A j \in i + 1 .. n : j \in DOMAIN q /\ i \in DOMAIN q /\ j # i
      BY <1>2
    <3> QED BY <3>1, <3>2, <3>3, <1>2 DEF Distinct
  <2> HIDE DEF X, x, m
  <2>4. MailsInv(Emptied(x), h, X(i) \cup {m}) /\ Emptied(x).mail[m].ref = 1
    BY <1>5, <2>1, <2>3
  <2>5. /\ MailsInv(e2, h, X(i)) /\ e2.k = Emptied(x).k /\ e2.box = Emptied(x).box
        /\ \A a \in Mails : a # m => e2.mail[a] = Emptied(x).mail[a]
    BY ONLY <2>2, <2>3, <2>4, ReleaseMails
  <2>6. /\ y.k = x.k /\ y.box = x.box /\ y = [k |-> y.k, mail |-> y.mail, box |-> y.box]
        /\ y.mail = e2.mail
    <3>1. x.mail[m].ref = 1 /\ x = [k |-> x.k, mail |-> x.mail, box |-> x.box]
      BY <2>1, <2>3
    <3>2. y.k = x.k /\ y.box = x.box /\ y = [k |-> y.k, mail |-> y.mail, box |-> y.box]
          /\ y.mail = [x.mail EXCEPT ![m] = [ref |-> 0, magic |-> 0]]
      BY <3>1 DEF release_mail
    <3>3. Emptied(x) = [k |-> x.k, mail |-> x.mail, box |-> B]
      BY DEF Emptied
    <3>4. e2.mail = [x.mail EXCEPT ![m] = [ref |-> 0, magic |-> 0]]
      BY <2>4, <3>3 DEF release_mail
    <3> QED BY <3>2, <3>4
  <2> HIDE DEF y, e2
  <2>7. Emptied(y) = e2
    <3>1. e2 = [k |-> e2.k, mail |-> e2.mail, box |-> e2.box]
      BY <2>5 DEF MailsInv, MailsTyped
    <3> QED BY <1>5, <2>5, <2>6, <3>1 DEF Emptied
  <2>8. \A a \in Mails : a # m => y.mail[a] = x.mail[a]
    BY <1>5, <2>5, <2>6
  <2>9. X(i) \subseteq Mails
    BY <1>2 DEF X, Members
  <2>10. \A a \in X(i) : y.mail[a].ref = 1
    BY <2>1, <2>3, <2>8, <2>9
  <2>11. \A a \in Mails \ Members(q) : y.mail[a] = s.mail[a]
    BY <2>1, <2>2, <2>8
  <2> QED BY <2>1, <2>2, <2>5, <2>6, <2>7, <2>10, <2>11
<1>11. n \in N
  <2> HIDE DEF N, n
  <2> QED BY <1>2, <1>9, <1>10, LoopInvariant
<1>12. Good(end, n) /\ X(n) = {}
  BY <1>2, <1>8, <1>11
<1> HIDE DEF X
<1> DEFINE s2 == release_mailbox(s, t)
<1>13. s2 = Emptied(end)
  <2>1. end = [k |-> end.k, mail |-> end.mail, box |-> s.box]
    BY <1>12
  <2>2. [end EXCEPT !.box[t] = dead] = [k |-> end.k, mail |-> end.mail, box |-> B]
    <3> HIDE DEF dead
    <3> QED BY <2>1 DEF B
  <2> QED BY <1>3, <2>2 DEF Emptied
<1> HIDE DEF s2
<1>14. MailsInv(s2, h, {}) /\ s2.k = s.k /\ s2.mail = end.mail /\ s2.box = B
  BY <1>5, <1>12, <1>13
<1>15. ASSUME NEW u \in Tid, u # t
       PROVE  s2.box[u] = s.box[u] /\ \A m \in Queued(s, u) : s2.mail[m] = s.mail[m]
  <2>1. s.box[u].mails \in Seq(Mails)
    BY <1>1 DEF Box
  <2>2. Queued(s, u) \subseteq Mails \ Members(q)
    BY <1>2, <1>15, <2>1, MembersOf DEF MailsInv, Accounted, Queued
  <2> QED BY <1>4, <1>12, <1>14, <1>15, <2>2
<1> QED BY <1>14, <1>15 DEF s2

-----------------------------------------------------------------------------
(* From owners and mailboxes to the way and back. *)

\* A thread takes over the mail that was on the way.
LEMMA HoldMails ==
    ASSUME NEW s, NEW h, NEW m \in Mails, MailsInv(s, h, {m}), s.mail[m].ref = 1,
           NEW t \in Tid
    PROVE  MailsInv(s, [h EXCEPT ![t] = @ \cup {m}], {})
<1> DEFINE h2 == [h EXCEPT ![t] = h[t] \cup {m}]
<1>1. h \in [Tid -> SUBSET Mails] /\ ~ Placed(s, h, m)
  BY DEF MailsInv, Accounted
<1>2. /\ h2 \in [Tid -> SUBSET Mails] /\ h2[t] = h[t] \cup {m}
      /\ \A u \in Tid : u # t => h2[u] = h[u]
  BY <1>1
<1> HIDE DEF h2
<1>3. \A u \in Tid : m \notin h[u] /\ m \notin Queued(s, u)
  BY <1>1 DEF Placed
<1>4. \A n \in Mails : Placed(s, h2, n) <=> Placed(s, h, n) \/ n = m
  BY <1>2 DEF Placed
<1>5. \A u, w \in Tid : h2[u] \cap Queued(s, w) = {}
  BY <1>2, <1>3 DEF MailsInv, Accounted
<1>6. \A u, w \in Tid : u # w => h2[u] \cap h2[w] = {} /\ Queued(s, u) \cap Queued(s, w) = {}
  BY <1>2, <1>3 DEF MailsInv, Accounted
<1>7. \A n \in Mails : s.mail[n].ref = IF Placed(s, h2, n) THEN 1 ELSE 0
  BY <1>4 DEF MailsInv, Accounted
<1>8. Accounted(s, h2, {})
  BY <1>2, <1>5, <1>6, <1>7 DEF MailsInv, Accounted
<1> QED BY <1>8 DEF MailsInv, h2

\* A thread gives a mail away.
LEMMA UnholdMails ==
    ASSUME NEW s, NEW h, NEW t \in Tid, NEW m \in h[t], MailsInv(s, h, {})
    PROVE  m \in Mails /\ MailsInv(s, [h EXCEPT ![t] = @ \ {m}], {m}) /\ s.mail[m].ref = 1
<1> DEFINE h2 == [h EXCEPT ![t] = h[t] \ {m}]
<1>1. h \in [Tid -> SUBSET Mails]
  BY DEF MailsInv, Accounted
<1>2. /\ m \in Mails /\ h2 \in [Tid -> SUBSET Mails] /\ h2[t] = h[t] \ {m}
      /\ \A u \in Tid : u # t => h2[u] = h[u]
  BY <1>1
<1> HIDE DEF h2
<1>3. s.mail[m].ref = 1
  BY <1>2 DEF MailsInv, Accounted, Placed
<1>4. ~ Placed(s, h2, m)
  BY <1>2 DEF MailsInv, Accounted, Placed
<1>5. \A n \in Mails : n # m => (Placed(s, h2, n) <=> Placed(s, h, n))
  BY <1>2 DEF Placed
<1>6. \A u, w \in Tid : h2[u] \cap Queued(s, w) = {}
  BY <1>2 DEF MailsInv, Accounted
<1>7. \A u, w \in Tid : u # w => h2[u] \cap h2[w] = {} /\ Queued(s, u) \cap Queued(s, w) = {}
  BY <1>2 DEF MailsInv, Accounted
<1>8. \A n \in Mails \ {m} : s.mail[n].ref = IF Placed(s, h2, n) THEN 1 ELSE 0
  BY <1>5 DEF MailsInv, Accounted
<1>9. Accounted(s, h2, {m})
  BY <1>2, <1>4, <1>6, <1>7, <1>8 DEF MailsInv, Accounted
<1> QED BY <1>2, <1>3, <1>9 DEF MailsInv, h2

\* try_get_mail: the oldest mail is on the way to its receiver.
LEMMA TakeMails ==
    ASSUME NEW s, NEW h, NEW t \in Tid, MailsInv(s, h, {}), s.box[t].mails # <<>>
    PROVE  LET q == s.box[t].mails
               m == q[Len(q)]
               s2 == [s EXCEPT !.box[t].mails = list_del({m}, q)]
           IN  /\ m \in Mails /\ MailsInv(s2, h, {m}) /\ s2.mail[m].ref = 1
               /\ s2.k = s.k /\ s2.mail = s.mail
               /\ s2.box[t].mails = list_del({m}, q)
               /\ \A u \in Tid : u # t => s2.box[u] = s.box[u]
<1> DEFINE q == s.box[t].mails
           m == q[Len(q)]
           r == list_del({m}, q)
           s2 == [s EXCEPT !.box[t].mails = r]
<1>1. /\ MailsTyped(s) /\ s.box \in [Tid -> Box] /\ s.box[t] \in Box
      /\ q \in Seq(Mails) /\ s = [k |-> s.k, mail |-> s.mail, box |-> s.box]
  BY DEF MailsInv, MailsTyped, Box
<1>2. s2 = [s EXCEPT !.box = [s.box EXCEPT ![t].mails = r]]
  BY <1>1, Zenon
<1>3. /\ s2.k = s.k /\ s2.mail = s.mail /\ s2.box = [s.box EXCEPT ![t].mails = r]
      /\ s2 = [k |-> s2.k, mail |-> s2.mail, box |-> s2.box]
  <2> HIDE DEF s2, r, q
  <2> QED BY <1>1, <1>2
<1> HIDE DEF s2
<1>4. Len(q) \in Nat /\ Len(q) \in DOMAIN q
  <2> HIDE DEF q
  <2> QED BY <1>1 DEF q
<1>5. m \in Members(q) /\ Members(q) \subseteq Mails /\ m \in Mails
  BY <1>1, <1>4, MembersOf DEF Members
<1> HIDE DEF m
<1>6. r \in Seq(Mails) /\ Members(r) = Members(q) \ {m} /\ Distinct(r)
  <2>1. Distinct(q)
    BY DEF MailsInv, Accounted
  <2> HIDE DEF q
  <2> QED BY <1>1, <2>1, ListDel
<1> HIDE DEF r
<1>7. s2.box[t].mails = r /\ \A u \in Tid : u # t => s2.box[u] = s.box[u]
  BY <1>1, <1>3 DEF Box
<1>8. MailsTyped(s2)
  <2>1. s2.box \in [Tid -> Box]
    BY <1>1, <1>3, <1>6 DEF Box
  <2> QED BY <1>1, <1>3, <2>1 DEF MailsTyped
<1>9. m \in Queued(s, t) /\ Queued(s, t) = Members(q)
  BY <1>5 DEF Queued
<1>10. \A u \in Tid : Queued(s2, u) = IF u = t THEN Queued(s, t) \ {m} ELSE Queued(s, u)
  BY <1>6, <1>7, <1>9 DEF Queued
<1>11. s2.mail[m].ref = 1
  BY <1>3, <1>5, <1>9 DEF MailsInv, Accounted, Placed
<1>12. ~ Placed(s2, h, m)
  BY <1>9, <1>10 DEF MailsInv, Accounted, Placed
<1>13. \A n \in Mails : n # m => (Placed(s2, h, n) <=> Placed(s, h, n))
  BY <1>10 DEF Placed
<1>14. Accounted(s2, h, {m})
  <2>1. h \in [Tid -> SUBSET Mails] /\ \A u, w \in Tid : h[u] \cap Queued(s2, w) = {}
    BY <1>10 DEF MailsInv, Accounted
  <2>2. \A u, w \in Tid : u # w => h[u] \cap h[w] = {} /\ Queued(s2, u) \cap Queued(s2, w) = {}
    BY <1>10 DEF MailsInv, Accounted
  <2>3. \A u \in Tid : Distinct(s2.box[u].mails)
    BY <1>6, <1>7 DEF MailsInv, Accounted
  <2>4. \A n \in Mails \ {m} : s2.mail[n].ref = IF Placed(s2, h, n) THEN 1 ELSE 0
    BY <1>3, <1>13 DEF MailsInv, Accounted
  <2> QED BY <1>12, <2>1, <2>2, <2>3, <2>4 DEF Accounted
<1>15. Awake(s2)
  BY <1>3, <1>7 DEF MailsInv, Awake
<1>16. MailsInv(s2, h, {m})
  BY <1>3, <1>8, <1>14, <1>15 DEF MailsInv
<1> QED BY <1>3, <1>5, <1>7, <1>11, <1>16 DEF s2, r, m

\* A change of subscriptions and handlers.
LEMMA BoxMails ==
    ASSUME NEW s, NEW h, MailsInv(s, h, {}), NEW t \in Tid, NEW b \in Box,
           b.mails = s.box[t].mails
    PROVE  LET s2 == [s EXCEPT !.box[t] = b]
           IN  /\ MailsInv(s2, h, {}) /\ s2.k = s.k /\ s2.mail = s.mail
               /\ \A u \in Tid : s2.box[u].mails = s.box[u].mails
<1> DEFINE s2 == [s EXCEPT !.box[t] = b]
<1>1. MailsTyped(s)
  BY DEF MailsInv
<1>2. /\ s2.k = s.k /\ s2.mail = s.mail /\ s2.box = [s.box EXCEPT ![t] = b]
      /\ s2 = [k |-> s2.k, mail |-> s2.mail, box |-> s2.box]
  BY <1>1 DEF MailsTyped
<1> HIDE DEF s2
<1>3. MailsTyped(s2) /\ \A u \in Tid : s2.box[u].mails = s.box[u].mails
  BY <1>1, <1>2 DEF MailsTyped
<1>4. \A u \in Tid : Queued(s2, u) = Queued(s, u)
  BY <1>3 DEF Queued
<1>5. \A n \in Mails : Placed(s2, h, n) <=> Placed(s, h, n)
  BY <1>4 DEF Placed
<1>6. Accounted(s2, h, {})
  BY <1>2, <1>3, <1>4, <1>5 DEF MailsInv, Accounted
<1> QED BY <1>2, <1>3, <1>6 DEF MailsInv, Awake, s2

\* A change of the thread state only.
LEMMA KernelMails ==
    ASSUME NEW s, NEW h, MailsInv(s, h, {}), NEW y, Threads(y),
           \A t \in Tid : y.wq[t] # <<>> => s.box[t].mails = <<>>
    PROVE  LET s2 == [s EXCEPT !.k = y]
           IN  MailsInv(s2, h, {}) /\ s2.k = y /\ s2.mail = s.mail /\ s2.box = s.box
<1> DEFINE s2 == [s EXCEPT !.k = y]
<1>1. MailsTyped(s)
  BY DEF MailsInv
<1>2. /\ s2.k = y /\ s2.mail = s.mail /\ s2.box = s.box
      /\ s2 = [k |-> s2.k, mail |-> s2.mail, box |-> s2.box]
  BY <1>1 DEF MailsTyped
<1> HIDE DEF s2
<1>3. MailsTyped(s2)
  BY <1>1, <1>2 DEF MailsTyped
<1>4. \A u \in Tid : Queued(s2, u) = Queued(s, u)
  BY <1>2 DEF Queued
<1>5. \A n \in Mails : Placed(s2, h, n) <=> Placed(s, h, n)
  BY <1>4 DEF Placed
<1>6. Accounted(s2, h, {})
  BY <1>2, <1>4, <1>5 DEF MailsInv, Accounted
<1> QED BY <1>2, <1>3, <1>6 DEF MailsInv, Awake, s2

-----------------------------------------------------------------------------
(* The inductive invariant of Mailbox. *)

Sound == MailsInv(Current, hold, {}) /\ Clean(k)

\* The owner of an irq is a thread, or its process has exited.
Owners ==
    \A i \in Irqs : irq[i].st = "live" =>
        /\ irq[i].owner \in Tid
        /\ irq[i].owner \in Live(k) \/ k.ps[ProcOf[irq[i].owner]] = "dead"

Exits == MayExit \/ \A p \in Pid : k.ps[p] = "live"

MailboxInv == Sound /\ LinesInv /\ Owners /\ Exits

\* From s to s2 mails were only added behind the ones that are queued.
Appended(s, s2) ==
    /\ Live(s2.k) = Live(s.k)
    /\ \A t \in Tid :
        /\ Len(s.box[t].mails) <= Len(s2.box[t].mails)
        /\ \A i \in 1 .. Len(s.box[t].mails) :
            /\ Oldest(s2, t, i) = Oldest(s, t, i)
            /\ s2.mail[Oldest(s2, t, i)].magic = s.mail[Oldest(s, t, i)].magic

\* The state is a record and the running thread one of Tid.
LEMMA SoundFacts ==
    ASSUME Sound
    PROVE  /\ MailsInv(Current, hold, {}) /\ MailsTyped(Current) /\ Threads(k) /\ Clean(k)
           /\ k.run \in Tid /\ k.run \in Live(k)
           /\ Current.k = k /\ Current.mail = mail /\ Current.box = box
<1>1. MailsInv(Current, hold, {}) /\ MailsTyped(Current) /\ Threads(Current.k)
  BY DEF Sound, MailsInv
<1>2. Current.k = k /\ Current.mail = mail /\ Current.box = box
  BY DEF Current
<1>3. k.run \in Tid /\ k.run \in Live(k)
  BY <1>1, <1>2 DEF Threads, KCore, ListCoherent, Live
<1> QED BY <1>1, <1>2, <1>3 DEF Sound

\* A gate whose body leaves everything accounted for.
LEMMA GateMails ==
    ASSUME NEW s, Gate(s), MailsInv(s, hold', {})
    PROVE  /\ Sound' /\ Live(k') = Live(s.k) /\ k'.ps = s.k.ps
           /\ mail' = s.mail /\ box' = s.box
<1>1. k' = arch_task_context_switch(s.k) /\ mail' = s.mail /\ box' = s.box
  BY DEF Gate
<1>2. Threads(k') /\ Clean(k') /\ Live(k') = Live(s.k) /\ k'.ps = s.k.ps /\ k'.wq = s.k.wq
  BY <1>1, CommitThreads DEF MailsInv
<1>3. PICK c : c = [k |-> k', mail |-> mail', box |-> box']
  OBVIOUS
<1>4. c.k = k' /\ c.mail = s.mail /\ c.box = s.box /\ c = [k |-> c.k, mail |-> c.mail, box |-> c.box]
  BY <1>1, <1>3
<1>5. MailsTyped(c)
  BY <1>4 DEF MailsInv, MailsTyped
<1>6. \A t \in Tid : Queued(c, t) = Queued(s, t)
  BY <1>4 DEF Queued
<1>7. \A m \in Mails : Placed(c, hold', m) <=> Placed(s, hold', m)
  BY <1>6 DEF Placed
<1>8. Accounted(c, hold', {})
  BY <1>4, <1>6, <1>7 DEF MailsInv, Accounted
<1>9. Awake(c)
  BY <1>2, <1>4 DEF MailsInv, Awake
<1>10. MailsInv(c, hold', {})
  BY <1>2, <1>4, <1>5, <1>8, <1>9 DEF MailsInv
<1>11. Current' = c
  BY <1>3 DEF Current
<1>12. MailsInv(Current', hold', {})
  BY <1>10, <1>11
<1> QED BY <1>1, <1>2, <1>12 DEF Sound

\* A gate whose body posts to mailboxes.
LEMMA GatePosts ==
    ASSUME Sound, NEW s, Gate(s), MailsInv(s, hold', {}), Posted(Current, s)
    PROVE  Sound' /\ Appended(Current, Current') /\ Live(k') = Live(k) /\ k'.ps = k.ps
<1>1. /\ Sound' /\ Live(k') = Live(s.k) /\ k'.ps = s.k.ps
      /\ mail' = s.mail /\ box' = s.box
  BY GateMails
<1>2. PICK c : c = Current'
  OBVIOUS
<1>3. c.k = k' /\ c.mail = s.mail /\ c.box = s.box
  BY <1>1, <1>2 DEF Current
<1>4. Current.k = k
  BY DEF Current
<1>5. Appended(Current, c)
  BY <1>1, <1>3 DEF Posted, Appended, Oldest
<1> QED BY <1>1, <1>2, <1>4, <1>5 DEF Posted

\* A gate whose body leaves the mailboxes alone.
LEMMA GateKeeps ==
    ASSUME Sound, NEW s, Gate(s), MailsInv(s, hold', {}), Live(s.k) = Live(k),
           s.mail = mail, \A t \in Tid : s.box[t].mails = box[t].mails
    PROVE  Sound' /\ Appended(Current, Current') /\ Live(k') = Live(k) /\ k'.ps = s.k.ps
<1>1. /\ Sound' /\ Live(k') = Live(s.k) /\ k'.ps = s.k.ps
      /\ mail' = s.mail /\ box' = s.box
  BY GateMails
<1>2. PICK c : c = Current'
  OBVIOUS
<1>3. c.k = k' /\ c.mail = mail /\ c.box = s.box
  BY <1>1, <1>2 DEF Current
<1>4. /\ Current.k = k /\ Current.mail = mail /\ Current.box = box
      /\ \A t \in Tid : Len(box[t].mails) \in Nat
  BY SoundFacts DEF MailsTyped, Box
<1>5. \A t \in Tid : Len(box[t].mails) <= Len(box[t].mails)
  BY <1>4
<1>6. Appended(Current, c)
  BY <1>1, <1>3, <1>4, <1>5 DEF Appended, Oldest
<1> QED BY <1>1, <1>2, <1>6

-----------------------------------------------------------------------------
(* One lemma per operation. *)

\* Alloc: what the heap gave is the caller's.
LEMMA AllocStep ==
    ASSUME Sound, AllocMail
    PROVE  Sound' /\ Appended(Current, Current') /\ Live(k') = Live(k) /\ k'.ps = k.ps
<1> DEFINE n == NextMail(Current)
           s == alloc_mail(Current, 0)
<1>1. /\ MailsInv(Current, hold, {}) /\ k.run \in Tid
  BY SoundFacts
<1>2. /\ FreeMails(Current) # {} /\ Gate(s)
      /\ hold' = [hold EXCEPT ![k.run] = @ \cup {n}]
  BY DEF AllocMail
<1>3. PICK X : X = {}
  OBVIOUS
<1>4. /\ n \in Mails \ X /\ MailsInv(s, hold, X \cup {n}) /\ Posted(Current, s)
      /\ s.mail = [Current.mail EXCEPT ![n] = [ref |-> 1, magic |-> 0]]
  <2>1. MailsInv(Current, hold, X) /\ (\A m \in X : Current.mail[m].ref # 0) /\ 0 \in Nat
    BY <1>1, <1>3
  <2> QED BY ONLY <1>2, <2>1, AllocMails
<1>5. n \in Mails /\ MailsInv(s, hold, {n}) /\ s.mail[n].ref = 1
  <2>1. X \cup {n} = {n}
    BY <1>3
  <2>2. n \in Mails /\ n \in DOMAIN Current.mail
    BY <1>1, <1>4 DEF MailsInv, MailsTyped
  <2> HIDE DEF n, s
  <2> QED BY <1>4, <2>1, <2>2
<1> HIDE DEF n, s
<1>6. MailsInv(s, hold', {})
  BY <1>1, <1>2, <1>5, HoldMails
<1> QED BY <1>2, <1>4, <1>6, GatePosts

\* Send: the mail leaves its owner and ends in mailboxes or nowhere.
LEMMA SendStep ==
    ASSUME Sound, NEW m \in Mails, NEW to \in Tid \cup {AnyTid}, NEW magic \in Nat,
           Send(m, to, magic)
    PROVE  Sound' /\ Appended(Current, Current') /\ Live(k') = Live(k) /\ k'.ps = k.ps
<1> DEFINE v == [ref |-> Current.mail[m].ref, magic |-> magic]
           c == [Current EXCEPT !.mail[m] = v]
           s == send(c, m, to)
<1>1. /\ MailsInv(Current, hold, {}) /\ MailsTyped(Current) /\ k.run \in Tid
      /\ Current.mail[m] \in Mail /\ Current = [k |-> Current.k, mail |-> Current.mail, box |-> Current.box]
  BY SoundFacts DEF MailsTyped
<1>2. /\ Gate(send([Current EXCEPT !.mail[m].magic = magic], m, to))
      /\ m \in hold[k.run] /\ hold' = [hold EXCEPT ![k.run] = @ \ {m}]
  BY DEF Send
<1>3. [Current EXCEPT !.mail[m].magic = magic] = c
  <2> HIDE DEF Current
  <2>1. [Current.mail[m] EXCEPT !.magic = magic] = v
    BY <1>1 DEF Mail
  <2>2. [Current EXCEPT !.mail[m].magic = magic]
            = [Current EXCEPT !.mail[m] = [Current.mail[m] EXCEPT !.magic = magic]]
    BY <1>1
  <2> HIDE DEF v
  <2> QED BY <2>1, <2>2
<1>4. MailsInv(Current, hold', {m}) /\ Current.mail[m].ref = 1
  BY <1>1, <1>2, UnholdMails
<1>5. v \in Mail /\ v.ref = 1
  BY <1>4 DEF Mail
<1> HIDE DEF v
<1>6. MailsInv(c, hold', {m}) /\ Posted(Current, c) /\ c.mail[m].ref = 1
  <2>1. PICK X : X = {m}
    OBVIOUS
  <2>2. MailsInv(Current, hold', X) /\ m \in X
    BY <1>4, <2>1
  <2>3. MailsInv(c, hold', X) /\ Posted(Current, c) /\ c.mail = [Current.mail EXCEPT ![m] = v]
    BY ONLY <1>5, <2>2, m \in Mails, TouchMails
  <2>4. c.mail[m] = v
    BY <1>1, <2>3 DEF MailsTyped
  <2> QED BY <1>5, <2>1, <2>3, <2>4
<1> HIDE DEF c
<1>7. MailsInv(s, hold', {}) /\ Posted(c, s)
  BY <1>6, SendAnyMails
<1>8. Gate(s)
  BY <1>2, <1>3
<1> HIDE DEF s
<1>9. Posted(Current, s)
  BY <1>1, <1>6, <1>7, PostedTransitive DEF MailsInv
<1> QED BY <1>7, <1>8, <1>9, GatePosts

\* Release by the owner.
LEMMA ReleaseStep ==
    ASSUME Sound, NEW m \in Mails, ReleaseMail(m)
    PROVE  Sound' /\ Appended(Current, Current') /\ Live(k') = Live(k) /\ k'.ps = k.ps
<1> DEFINE s == release_mail(Current, m)
<1>1. MailsInv(Current, hold, {}) /\ k.run \in Tid
  BY SoundFacts
<1>2. Gate(s) /\ m \in hold[k.run] /\ hold' = [hold EXCEPT ![k.run] = @ \ {m}]
  BY DEF ReleaseMail
<1>3. MailsInv(Current, hold', {m}) /\ Current.mail[m].ref = 1
  BY <1>1, <1>2, UnholdMails
<1>4. m \notin {} /\ MailsInv(Current, hold', {} \cup {m})
  <2>1. {} \cup {m} = {m}
    OBVIOUS
  <2> QED BY <1>3, <2>1
<1>5. MailsInv(s, hold', {}) /\ Posted(Current, s)
  BY ONLY <1>3, <1>4, m \in Mails, ReleaseMails
<1> HIDE DEF s
<1> QED BY <1>2, <1>5, GatePosts

\* From Current the oldest mail of t was taken, and nothing else changed.
Taken(t, s2) ==
    LET q == box[t].mails
    IN  /\ t \in Live(k) /\ q # <<>> /\ Live(s2.k) = Live(k) /\ s2.mail = mail
        /\ s2.box[t].mails = list_del({q[Len(q)]}, q)
        /\ \A u \in Tid : u # t => s2.box[u] = box[u]

\* Listen: the oldest mail goes to its receiver.
LEMMA ListenStep ==
    ASSUME Sound, Listen
    PROVE  Sound' /\ Taken(k.run, Current') /\ Live(k') = Live(k) /\ k'.ps = k.ps
<1> DEFINE t == k.run
           q == box[t].mails
           m == q[Len(q)]
           s == [Current EXCEPT !.box[t].mails = list_del({m}, q)]
<1>1. /\ MailsInv(Current, hold, {}) /\ t \in Tid /\ t \in Live(k)
      /\ Current.k = k /\ Current.mail = mail /\ Current.box = box
  BY SoundFacts
<1>2. q # <<>> /\ hold' = [hold EXCEPT ![t] = @ \cup {m}] /\ Gate(s)
  BY DEF Listen
<1>3. /\ m \in Mails /\ MailsInv(s, hold, {m}) /\ s.mail[m].ref = 1
      /\ s.k = k /\ s.mail = mail
      /\ s.box[t].mails = list_del({m}, q)
      /\ \A u \in Tid : u # t => s.box[u] = box[u]
  <2> DEFINE q0 == Current.box[t].mails
             m0 == q0[Len(q0)]
             s0 == [Current EXCEPT !.box[t].mails = list_del({m0}, q0)]
  <2>1. q0 = q /\ q0 # <<>>
    BY <1>1, <1>2
  <2>2. m0 = m /\ s0 = s
    <3> HIDE DEF q0, q, t
    <3> QED BY <2>1
  <2> HIDE DEF t
  <2>3. /\ m0 \in Mails /\ MailsInv(s0, hold, {m0}) /\ s0.mail[m0].ref = 1
        /\ s0.k = Current.k /\ s0.mail = Current.mail
        /\ s0.box[t].mails = list_del({m0}, q0)
        /\ \A u \in Tid : u # t => s0.box[u] = Current.box[u]
    BY ONLY <1>1, <2>1, TakeMails
  <2> HIDE DEF q0, m0, s0, q, m, s
  <2> QED BY <1>1, <2>1, <2>2, <2>3
<1> HIDE DEF t, s, m
<1>4. MailsInv(s, hold', {})
  BY <1>1, <1>2, <1>3, HoldMails
<1>5. Sound' /\ Live(k') = Live(s.k) /\ k'.ps = s.k.ps /\ mail' = s.mail /\ box' = s.box
  BY <1>2, <1>4, GateMails
<1>6. PICK c : c = Current'
  OBVIOUS
<1>7. c.k = k' /\ c.mail = mail /\ c.box = s.box
  BY <1>3, <1>5, <1>6 DEF Current
<1>8. Taken(t, c)
  BY <1>1, <1>2, <1>3, <1>5, <1>7 DEF Taken, m
<1> QED BY <1>3, <1>5, <1>6, <1>8 DEF t

\* ListenBlock: the caller parks on an empty mailbox, its own.
LEMMA ListenBlockStep ==
    ASSUME Sound, ListenBlock
    PROVE  Sound' /\ Appended(Current, Current') /\ Live(k') = Live(k) /\ k'.ps = k.ps
<1> DEFINE y == wait_queue_sleep(k, MailQ(k.run))
           s == [Current EXCEPT !.k = y]
<1>1. /\ MailsInv(Current, hold, {}) /\ Threads(k) /\ Clean(k) /\ k.run \in Tid
      /\ Current.k = k /\ Current.mail = mail /\ Current.box = box
  BY SoundFacts
<1>2. box[k.run].mails = <<>> /\ Gate(s) /\ hold' = hold
  BY DEF ListenBlock
<1>3. /\ Threads(y) /\ Live(y) = Live(k) /\ y.ps = k.ps
      /\ \A t \in Tid : t # k.run => y.wq[t] = k.wq[t]
  BY <1>1, SleepThreads
<1> HIDE DEF y
<1>4. \A t \in Tid : y.wq[t] # <<>> => Current.box[t].mails = <<>>
  BY <1>1, <1>2, <1>3 DEF MailsInv, Awake
<1>5. MailsInv(s, hold, {}) /\ s.k = y /\ s.mail = Current.mail /\ s.box = Current.box
  BY ONLY <1>1, <1>3, <1>4, KernelMails
<1> HIDE DEF s
<1>6. MailsInv(s, hold', {}) /\ Live(s.k) = Live(k) /\ s.mail = mail
      /\ \A t \in Tid : s.box[t].mails = box[t].mails
  BY <1>1, <1>2, <1>3, <1>5
<1>7. Sound' /\ Appended(Current, Current') /\ Live(k') = Live(k) /\ k'.ps = s.k.ps
  BY ONLY <1>2, <1>6, Sound, GateKeeps
<1> QED BY <1>3, <1>5, <1>7

\* A gate that writes b, with the queue of mails it had, to the mailbox of t.
LEMMA BoxStep ==
    ASSUME Sound, NEW t \in Tid, NEW b \in Box, b.mails = box[t].mails,
           Gate([Current EXCEPT !.box[t] = b]), hold' = hold
    PROVE  Sound' /\ Appended(Current, Current') /\ Live(k') = Live(k) /\ k'.ps = k.ps
<1> DEFINE s == [Current EXCEPT !.box[t] = b]
<1>1. /\ MailsInv(Current, hold, {})
      /\ Current.k = k /\ Current.mail = mail /\ Current.box = box
  BY SoundFacts
<1>2. b.mails = Current.box[t].mails
  BY <1>1
<1>3. /\ MailsInv(s, hold, {}) /\ s.k = Current.k /\ s.mail = Current.mail
      /\ \A u \in Tid : s.box[u].mails = Current.box[u].mails
  BY ONLY <1>1, <1>2, t \in Tid, b \in Box, BoxMails
<1>4. Gate(s)
  OBVIOUS
<1> HIDE DEF s
<1>5. /\ MailsInv(s, hold', {}) /\ Live(s.k) = Live(k) /\ s.mail = mail
      /\ \A u \in Tid : s.box[u].mails = box[u].mails
  BY <1>1, <1>3
<1>6. Sound' /\ Appended(Current, Current') /\ Live(k') = Live(k) /\ k'.ps = s.k.ps
  BY ONLY <1>4, <1>5, Sound, GateKeeps
<1> QED BY <1>1, <1>3, <1>6

\* Subscriptions and handlers.
LEMMA RegistrationStep ==
    ASSUME Sound,
           \/ \E magic \in Magics : Subscribe(magic) \/ Unsubscribe(magic)
           \/ \E t \in Tid : RegisterHandler(t) \/ UnregisterHandler(t)
    PROVE  Sound' /\ Appended(Current, Current') /\ Live(k') = Live(k) /\ k'.ps = k.ps
<1> DEFINE Goal == Sound' /\ Appended(Current, Current') /\ Live(k') = Live(k) /\ k'.ps = k.ps
<1>1. /\ k.run \in Tid /\ Current.box = box /\ box \in [Tid -> Box]
      /\ Current = [k |-> Current.k, mail |-> Current.mail, box |-> Current.box]
  BY SoundFacts DEF MailsTyped
<1>2. ASSUME NEW t \in Tid, NEW u \in SUBSET Magics, hold' = hold,
             Gate([Current EXCEPT !.box[t].subs = u])
      PROVE  Goal
  <2> DEFINE b == [box[t] EXCEPT !.subs = u]
  <2>1. b \in Box /\ b.mails = box[t].mails
    BY <1>1, ZenonT(60) DEF Box
  <2>2. [Current EXCEPT !.box[t].subs = u] = [Current EXCEPT !.box[t] = b]
    BY <1>1
  <2> HIDE DEF b
  <2> QED BY <1>2, <2>1, <2>2, BoxStep
<1>3. ASSUME NEW t \in Tid, NEW u \in Nat, hold' = hold,
             Gate([Current EXCEPT !.box[t].handlers = u])
      PROVE  Goal
  <2> DEFINE b == [box[t] EXCEPT !.handlers = u]
  <2>1. b \in Box /\ b.mails = box[t].mails
    BY <1>1, ZenonT(60) DEF Box
  <2>2. [Current EXCEPT !.box[t].handlers = u] = [Current EXCEPT !.box[t] = b]
    BY <1>1
  <2> HIDE DEF b
  <2> QED BY <1>3, <2>1, <2>2, BoxStep
<1>4. ASSUME NEW magic \in Magics, Subscribe(magic) PROVE Goal
  <2>1. [Current EXCEPT !.box[k.run].subs = @ \cup {magic}]
            = [Current EXCEPT !.box[k.run].subs = box[k.run].subs \cup {magic}]
    BY <1>1
  <2>2. box[k.run].subs \cup {magic} \in SUBSET Magics
    BY <1>1 DEF Box
  <2>3. hold' = hold /\ Gate([Current EXCEPT !.box[k.run].subs = box[k.run].subs \cup {magic}])
    BY <1>4, <2>1 DEF Subscribe
  <2> HIDE DEF Goal
  <2> QED BY <1>1, <1>2, <2>2, <2>3
<1>5. ASSUME NEW magic \in Magics, Unsubscribe(magic) PROVE Goal
  <2>1. [Current EXCEPT !.box[k.run].subs = @ \ {magic}]
            = [Current EXCEPT !.box[k.run].subs = box[k.run].subs \ {magic}]
    BY <1>1
  <2>2. box[k.run].subs \ {magic} \in SUBSET Magics
    BY <1>1 DEF Box
  <2>3. hold' = hold /\ Gate([Current EXCEPT !.box[k.run].subs = box[k.run].subs \ {magic}])
    BY <1>5, <2>1 DEF Unsubscribe
  <2> HIDE DEF Goal
  <2> QED BY <1>1, <1>2, <2>2, <2>3
<1>6. ASSUME NEW t \in Tid, RegisterHandler(t) PROVE Goal
  <2>1. [Current EXCEPT !.box[t].handlers = @ + 1]
            = [Current EXCEPT !.box[t].handlers = box[t].handlers + 1]
    BY <1>1
  <2>2. box[t].handlers + 1 \in Nat
    BY <1>1 DEF Box
  <2>3. hold' = hold /\ Gate([Current EXCEPT !.box[t].handlers = box[t].handlers + 1])
    BY <1>6, <2>1 DEF RegisterHandler
  <2> HIDE DEF Goal
  <2> QED BY <1>3, <2>2, <2>3
<1>7. ASSUME NEW t \in Tid, UnregisterHandler(t) PROVE Goal
  <2>1. [Current EXCEPT !.box[t].handlers = @ - 1]
            = [Current EXCEPT !.box[t].handlers = box[t].handlers - 1]
    BY <1>1
  <2>2. box[t].handlers - 1 \in Nat
    BY <1>1, <1>7 DEF Box, UnregisterHandler
  <2>3. hold' = hold /\ Gate([Current EXCEPT !.box[t].handlers = box[t].handlers - 1])
    BY <1>7, <2>1 DEF UnregisterHandler
  <2> HIDE DEF Goal
  <2> QED BY <1>3, <2>2, <2>3
<1> QED BY <1>4, <1>5, <1>6, <1>7

\* irqline_handler.
LEMMA InterruptStep ==
    ASSUME Sound, LinesInv, NEW n \in Lines, Interrupt(n)
    PROVE  Sound' /\ Appended(Current, Current') /\ Live(k') = Live(k) /\ k'.ps = k.ps
<1> DEFINE s == DispatchAll(Current, line[n])
<1>1. MailsInv(Current, hold, {})
  BY SoundFacts
<1>2. /\ \A i \in Enabled(n) : irq[i].owner \in Live(k)
      /\ Gate(s) /\ hold' = hold
  BY DEF Interrupt, DispatchAll
<1>3. line[n] \in Seq(Irqs)
  BY DEF LinesInv, LinesTyped
<1>4. \A i \in Members(line[n]) : irq[i].enabled => irq[i].owner \in Tid
  BY <1>2 DEF Enabled, Live
<1>5. MailsInv(s, hold, {}) /\ Posted(Current, s)
  BY ONLY <1>1, <1>3, <1>4, InterruptMails
<1> HIDE DEF s
<1> QED BY <1>2, <1>5, GatePosts

\* The system calls on interrupt lines have nothing to do with mails.
LEMMA LineStep ==
    ASSUME Sound, Gate(Current), hold' = hold
    PROVE  Sound' /\ Appended(Current, Current') /\ Live(k') = Live(k) /\ k'.ps = k.ps
<1>1. /\ MailsInv(Current, hold, {}) /\ MailsTyped(Current) /\ Current.k = k
      /\ Current.mail = mail /\ Current.box = box
  BY SoundFacts
<1>2. PICK s : s = Current
  OBVIOUS
<1>3. /\ Gate(s) /\ MailsInv(s, hold', {}) /\ Live(s.k) = Live(k)
      /\ s.mail = mail /\ \A t \in Tid : s.box[t].mails = box[t].mails
  BY <1>1, <1>2
<1>4. Sound' /\ Appended(Current, Current') /\ Live(k') = Live(k) /\ k'.ps = s.k.ps
  BY ONLY <1>3, Sound, GateKeeps
<1> QED BY <1>1, <1>2, <1>4

\* schedule_isr.
LEMMA ScheduleStep ==
    ASSUME Sound, schedule_isr
    PROVE  Sound' /\ Appended(Current, Current') /\ Live(k') = Live(k) /\ k'.ps = k.ps
<1> DEFINE y == Reschedule(k)
           s == [Current EXCEPT !.k = y]
<1>1. /\ MailsInv(Current, hold, {}) /\ Threads(k) /\ Clean(k)
      /\ Current.k = k /\ Current.mail = mail /\ Current.box = box
  BY SoundFacts
<1>2. Gate(s) /\ hold' = hold
  BY <1>1 DEF schedule_isr
<1>3. Threads(y) /\ Live(y) = Live(k) /\ y.ps = k.ps /\ y.wq = k.wq
  BY <1>1, RescheduleThreads
<1> HIDE DEF y
<1>4. \A t \in Tid : y.wq[t] # <<>> => Current.box[t].mails = <<>>
  BY <1>1, <1>3 DEF MailsInv, Awake
<1>5. MailsInv(s, hold, {}) /\ s.k = y /\ s.mail = Current.mail /\ s.box = Current.box
  BY ONLY <1>1, <1>3, <1>4, KernelMails
<1> HIDE DEF s
<1>6. MailsInv(s, hold', {}) /\ Live(s.k) = Live(k) /\ s.mail = mail
      /\ \A t \in Tid : s.box[t].mails = box[t].mails
  BY <1>1, <1>2, <1>3, <1>5
<1>7. Sound' /\ Appended(Current, Current') /\ Live(k') = Live(k) /\ k'.ps = s.k.ps
  BY ONLY <1>2, <1>6, Sound, GateKeeps
<1> QED BY <1>3, <1>5, <1>7

\* From Current the threads of D and their mailboxes went, and nothing else.
Closed(D, s2) ==
    /\ D \subseteq Live(k) /\ Live(s2.k) = Live(k) \ D
    /\ \A t \in Live(k) \ D :
        s2.box[t] = box[t] /\ \A m \in Members(box[t].mails) : s2.mail[m] = mail[m]

\* thread_delete.
LEMMA DeleteStep ==
    ASSUME Sound, NEW t \in Tid, ThreadDelete(t)
    PROVE  Sound' /\ Closed({t}, Current') /\ Live(k') = Live(k) \ {t} /\ k'.ps = k.ps
<1> DEFINE y == thread_delete(k, t)
           s == [Current EXCEPT !.k = y]
           s2 == release_mailbox(s, t)
<1>1. /\ MailsInv(Current, hold, {}) /\ Threads(k) /\ Clean(k)
      /\ Current.k = k /\ Current.mail = mail /\ Current.box = box
  BY SoundFacts
<1>2. /\ t \in Live(k) /\ (t = k.run => find_next_runnable(k) # NoThread)
      /\ Gate(s2) /\ hold' = hold
  BY <1>1 DEF ThreadDelete
<1>3. /\ Threads(y) /\ Live(y) = Live(k) \ {t} /\ y.ps = k.ps
      /\ \A u \in Tid : k.wq[u] = <<>> => y.wq[u] = <<>>
  BY <1>1, <1>2, DeleteThreads
<1> HIDE DEF y
<1>4. \A u \in Tid : y.wq[u] # <<>> => Current.box[u].mails = <<>>
  BY <1>1, <1>3 DEF MailsInv, Awake
<1>5. MailsInv(s, hold, {}) /\ s.k = y /\ s.mail = Current.mail /\ s.box = Current.box
  BY ONLY <1>1, <1>3, <1>4, KernelMails
<1> HIDE DEF s
<1>6. /\ MailsInv(s2, hold, {}) /\ s2.k = s.k
      /\ \A u \in Tid : u # t =>
            s2.box[u] = s.box[u] /\ \A m \in Queued(s, u) : s2.mail[m] = s.mail[m]
  BY ONLY <1>5, t \in Tid, ReleaseMailboxMails
<1> HIDE DEF s2
<1>7. MailsInv(s2, hold', {})
  BY <1>2, <1>6
<1>8. Sound' /\ Live(k') = Live(s2.k) /\ k'.ps = s2.k.ps /\ mail' = s2.mail /\ box' = s2.box
  BY <1>2, <1>7, GateMails
<1>9. PICK c : c = Current'
  OBVIOUS
<1>10. c.k = k' /\ c.mail = s2.mail /\ c.box = s2.box
  BY <1>8, <1>9 DEF Current
<1>11. Closed({t}, c)
  <2>1. \A u \in Live(k) \ {t} : u \in Tid /\ u # t
    BY DEF Live
  <2> QED BY <1>1, <1>2, <1>3, <1>5, <1>6, <1>8, <1>10, <2>1 DEF Closed, Queued
<1> QED BY <1>3, <1>5, <1>6, <1>8, <1>9, <1>11

\* proc_exit.
LEMMA ExitStep ==
    ASSUME Sound, NEW p \in Pid, ProcExit(p)
    PROVE  /\ Sound' /\ Closed(ThreadsOf(k, p), Current')
           /\ Live(k') = Live(k) \ ThreadsOf(k, p) /\ k'.ps = [k.ps EXCEPT ![p] = "dead"]
<1> DEFINE y == proc_exit(k, p)
           s == [Current EXCEPT !.k = y]
<1>1. /\ MailsInv(Current, hold, {}) /\ Threads(k) /\ Clean(k)
      /\ Current.k = k /\ Current.mail = mail /\ Current.box = box
  BY SoundFacts
<1>2. /\ k.run \in ThreadsOf(k, p) => ExitNext(k, p) # NoThread
      /\ Gate(s) /\ hold' = hold
  BY <1>1 DEF ProcExit
<1>3. /\ Threads(y) /\ Live(y) = Live(k) \ ThreadsOf(k, p)
      /\ y.ps = [k.ps EXCEPT ![p] = "dead"]
      /\ \A u \in Tid : k.wq[u] = <<>> => y.wq[u] = <<>>
  BY <1>1, <1>2, ExitThreads
<1> HIDE DEF y
<1>4. \A u \in Tid : y.wq[u] # <<>> => Current.box[u].mails = <<>>
  BY <1>1, <1>3 DEF MailsInv, Awake
<1>5. MailsInv(s, hold, {}) /\ s.k = y /\ s.mail = Current.mail /\ s.box = Current.box
  BY ONLY <1>1, <1>3, <1>4, KernelMails
<1> HIDE DEF s
<1>6. MailsInv(s, hold', {})
  BY <1>2, <1>5
<1>7. Sound' /\ Live(k') = Live(s.k) /\ k'.ps = s.k.ps /\ mail' = s.mail /\ box' = s.box
  BY <1>2, <1>6, GateMails
<1>8. PICK c : c = Current'
  OBVIOUS
<1>9. c.k = k' /\ c.mail = mail /\ c.box = box
  BY <1>1, <1>5, <1>7, <1>8 DEF Current
<1>10. Closed(ThreadsOf(k, p), c)
  BY <1>3, <1>5, <1>7, <1>9 DEF Closed, ThreadsOf
<1> QED BY <1>3, <1>5, <1>7, <1>8, <1>10

-----------------------------------------------------------------------------
(* The theorems. *)

\* At boot every thread is ready, every mailbox empty and every place in the heap free.
LEMMA MailboxStart ==
    ASSUME Init
    PROVE  MailboxInv
<1>1. PICK s \in Orders, t \in Tid :
        k = [order  |-> s,
             run    |-> t,
             st     |-> [u \in Tid |-> "ready"],
             pend   |-> [u \in Tid |-> FALSE],
             parent |-> ProcOf,
             won    |-> [u \in Tid |-> NoQueue],
             wq     |-> [q \in WaitQ |-> <<>>],
             val    |-> [q \in WaitQ |-> 0],
             sem    |-> [q \in WaitQ |-> "none"],
             ps     |-> [p \in Pid |-> "live"],
             ctx    |-> NoThread,
             vcb    |-> NoProc,
             cur    |-> t,
             cr3    |-> ProcOf[t]]
  BY DEF Init
<1>2. /\ s \in Seq(Tid) /\ Members(s) = Tid /\ Distinct(s)
      /\ ProcOf \in [Tid -> Pid] /\ ProcOf[t] \in Pid /\ WaitQ = Tid
  BY MailboxAssumption
<1>3. /\ k.order = s /\ k.run = t /\ k.st = [u \in Tid |-> "ready"] /\ k.parent = ProcOf
      /\ k.won = [u \in Tid |-> NoQueue] /\ k.wq = [q \in WaitQ |-> <<>>]
      /\ k.ps = [p \in Pid |-> "live"] /\ k.ctx = NoThread /\ k.vcb = NoProc
      /\ k.cur = t /\ k.cr3 = ProcOf[t]
  BY <1>1
<1>4. ThreadsTyped(k)
  <2>1. <<>> \in Seq(Tid)
    OBVIOUS
  <2>2. /\ [u \in Tid |-> "ready"] \in [Tid -> ThreadState]
        /\ [u \in Tid |-> FALSE] \in [Tid -> BOOLEAN]
        /\ [u \in Tid |-> NoQueue] \in [Tid -> WaitQ \cup {NoQueue}]
        /\ [q \in WaitQ |-> <<>>] \in [WaitQ -> Seq(Tid)]
        /\ [q \in WaitQ |-> 0] \in [WaitQ -> Int]
        /\ [q \in WaitQ |-> "none"] \in [WaitQ -> ObjectState]
        /\ [p \in Pid |-> "live"] \in [Pid -> ObjectState]
        /\ ProcOf \in [Tid -> Pid \cup {NoProc}]
    BY <1>2, <2>1 DEF ThreadState, ObjectState
  <2> QED BY <1>1, <1>2, <2>2 DEF ThreadsTyped
<1>5. Live(k) = Tid
  BY <1>3 DEF Live
<1>6. QueuesCoherent(k)
  <2>1. \A q \in WaitQ : k.wq[q] = <<>> /\ Members(<<>>) = {} /\ Distinct(<<>>)
    BY <1>3 DEF Members, Distinct
  <2>2. \A u \in Tid : k.won[u] \notin WaitQ
    BY <1>3, IdsAssumption
  <2> QED BY <2>1, <2>2 DEF QueuesCoherent
<1>7. ListCoherent(k) /\ ParentsLive(k)
  BY <1>2, <1>3, <1>5, IdsAssumption DEF ListCoherent, ParentsLive
<1>8. KCore(k) /\ Clean(k)
  BY <1>2, <1>3, <1>4, <1>5, <1>6, <1>7 DEF KCore, Clean, CpuOwed
<1>9. Threads(k)
  BY <1>3, <1>8, IdsAssumption DEF Threads
<1>10. PICK c : c = Current
  OBVIOUS
<1>11. /\ c.k = k /\ c.mail = mail /\ c.box = box
       /\ c = [k |-> c.k, mail |-> c.mail, box |-> c.box]
  BY <1>10 DEF Current
<1>12. /\ mail = [m \in Mails |-> [ref |-> 0, magic |-> 0]]
       /\ box = [u \in Tid |-> [st |-> "live", mails |-> <<>>, subs |-> {}, handlers |-> 0]]
       /\ hold = [u \in Tid |-> {}]
  BY DEF Init
<1>13. MailsTyped(c)
  <2>1. <<>> \in Seq(Mails) /\ {} \in SUBSET Magics
    OBVIOUS
  <2>2. box \in [Tid -> Box]
    BY <1>12, <2>1 DEF Box
  <2>3. mail \in [Mails -> Mail]
    BY <1>12 DEF Mail
  <2> QED BY <1>11, <2>2, <2>3 DEF MailsTyped
<1>14. \A u \in Tid : c.box[u].mails = <<>> /\ hold[u] = {}
  BY <1>11, <1>12
<1>15. \A u \in Tid : Queued(c, u) = {} /\ Distinct(c.box[u].mails)
  BY <1>14 DEF Queued, Members, Distinct
<1>16. \A m \in Mails : ~ Placed(c, hold, m) /\ c.mail[m].ref = 0
  BY <1>11, <1>12, <1>14, <1>15 DEF Placed
<1>17. Accounted(c, hold, {})
  BY <1>12, <1>14, <1>15, <1>16 DEF Accounted
<1>18. MailsInv(c, hold, {})
  BY <1>9, <1>11, <1>13, <1>14, <1>17 DEF MailsInv, Awake
<1>19. \A i \in Irqs : irq[i].st = "none"
  BY DEF Init
<1> QED BY <1>3, <1>8, <1>10, <1>18, <1>19, LinesInit DEF MailboxInv, Sound, Owners, Exits

\* Nobody becomes, or stops being, the owner of a live irq.
LEMMA OwnersKept ==
    ASSUME Owners, Exits, Live(k') = Live(k), k'.ps = k.ps, LinesInv,
           \A i \in Irqs : irq'[i].st = "live" =>
                irq[i].st = "live" /\ irq'[i].owner = irq[i].owner
    PROVE  Owners' /\ Exits'
BY DEF Owners, Exits

\* Every step keeps the invariant.
LEMMA MailboxStep ==
    ASSUME MailboxInv, [Next]_vars
    PROVE  MailboxInv'
<1>1. Sound /\ LinesInv /\ Owners /\ Exits
  BY DEF MailboxInv
<1>2. /\ k.run \in Tid /\ k.run \in Live(k) /\ Threads(k)
  BY <1>1, SoundFacts
<1>3. LinesInv' /\ irq \in [Irqs -> Irq]
  BY <1>1, <1>2, LinesStep DEF LinesInv, LinesTyped
<1>4. ASSUME Sound', Live(k') = Live(k), k'.ps = k.ps, UNCHANGED irq PROVE MailboxInv'
  BY <1>1, <1>3, <1>4, OwnersKept DEF MailboxInv
<1>5. ASSUME NEW D \in SUBSET Irqs, ReleaseIrqs(D)
      PROVE  \A i \in Irqs : irq'[i].st = "live" =>
                i \notin D /\ irq[i].st = "live" /\ irq'[i].owner = irq[i].owner
  BY <1>3, <1>5 DEF ReleaseIrqs, Irq
<1>6. ASSUME NEW i \in Irqs, IrqRelease(i) PROVE MailboxInv'
  <2>1. Sound' /\ Live(k') = Live(k) /\ k'.ps = k.ps
    BY <1>1, <1>6, LineStep DEF IrqRelease
  <2>2. {i} \in SUBSET Irqs /\ ReleaseIrqs({i})
    BY <1>6 DEF IrqRelease
  <2>3. Owners' /\ Exits'
    BY <1>1, <1>5, <2>1, <2>2, OwnersKept
  <2> QED BY <1>3, <2>1, <2>3 DEF MailboxInv
<1>7. ASSUME NEW i \in Irqs, IrqMask(i) \/ IrqUnmask(i) PROVE MailboxInv'
  <2>1. Sound' /\ Live(k') = Live(k) /\ k'.ps = k.ps
    BY <1>1, <1>7, LineStep DEF IrqMask, IrqUnmask
  <2>2. \A j \in Irqs : irq'[j].st = "live" => irq[j].st = "live" /\ irq'[j].owner = irq[j].owner
    BY <1>3, <1>7 DEF IrqMask, IrqUnmask, Irq
  <2>3. Owners' /\ Exits'
    BY <1>1, <2>1, <2>2, OwnersKept
  <2> QED BY <1>3, <2>1, <2>3 DEF MailboxInv
<1>8. ASSUME NEW i \in Irqs, NEW n \in Lines, NEW minor \in Minors \cup {AnyMinor},
             IrqRequest(i, n, minor)
      PROVE  MailboxInv'
  <2>1. Sound' /\ Live(k') = Live(k) /\ k'.ps = k.ps
    BY <1>1, <1>8, LineStep DEF IrqRequest
  <2>2. irq'[i].owner = k.run /\ \A j \in Irqs : j # i => irq'[j] = irq[j]
    BY <1>3, <1>8 DEF IrqRequest
  <2>3. Owners' /\ Exits'
    BY <1>1, <1>2, <2>1, <2>2 DEF Owners, Exits
  <2> QED BY <1>3, <2>1, <2>3 DEF MailboxInv
<1>9. ASSUME NEW t \in Tid, ThreadDelete(t) PROVE MailboxInv'
  <2>1. Sound' /\ Live(k') = Live(k) \ {t} /\ k'.ps = k.ps
    BY <1>1, <1>9, DeleteStep
  <2>2. IrqsOf(t) \in SUBSET Irqs /\ ReleaseIrqs(IrqsOf(t))
    BY <1>9 DEF ThreadDelete, IrqsOf
  <2>3. \A i \in Irqs : irq'[i].st = "live" =>
            irq[i].st = "live" /\ irq'[i].owner = irq[i].owner /\ irq[i].owner # t
    BY <1>5, <2>2 DEF IrqsOf
  <2>4. Owners' /\ Exits'
    BY <1>1, <2>1, <2>3 DEF Owners, Exits
  <2> QED BY <1>3, <2>1, <2>4 DEF MailboxInv
<1>10. ASSUME NEW p \in Pid, ProcExit(p) PROVE MailboxInv'
  <2>1. /\ Sound' /\ Live(k') = Live(k) \ ThreadsOf(k, p)
        /\ k'.ps = [k.ps EXCEPT ![p] = "dead"] /\ irq' = irq /\ MayExit
    BY <1>1, <1>10, ExitStep DEF ProcExit, ivars
  <2>2. \A t \in ThreadsOf(k, p) : ProcOf[t] = p
    BY <1>2 DEF ThreadsOf, Threads
  <2>3. k.ps \in [Pid -> ObjectState] /\ \A t \in Tid : ProcOf[t] \in Pid
    BY <1>2, MailboxAssumption DEF Threads, KCore, ThreadsTyped
  <2>4. Owners'
    BY <1>1, <2>1, <2>2, <2>3 DEF Owners
  <2> QED BY <1>3, <2>1, <2>4 DEF MailboxInv, Exits
<1>11. ASSUME NEW m \in Mails, ReleaseMail(m) PROVE MailboxInv'
  BY <1>1, <1>4, <1>11, ReleaseStep DEF ReleaseMail, ivars
<1>12. ASSUME NEW m \in Mails, NEW to \in Tid \cup {AnyTid}, NEW magic \in Magics \cup {0},
              Send(m, to, magic)
       PROVE  MailboxInv'
  <2>1. magic \in Nat
    BY MailboxAssumption
  <2> QED BY <1>1, <1>4, <1>12, <2>1, SendStep DEF Send, ivars
<1>13. ASSUME \/ \E magic \in Magics : Subscribe(magic) \/ Unsubscribe(magic)
              \/ \E t \in Tid : RegisterHandler(t) \/ UnregisterHandler(t)
       PROVE  MailboxInv'
  <2>1. irq' = irq
    BY <1>13 DEF Subscribe, Unsubscribe, RegisterHandler, UnregisterHandler, ivars
  <2> QED BY <1>1, <1>4, <1>13, <2>1, RegistrationStep
<1>14. CASE AllocMail
  BY <1>1, <1>4, <1>14, AllocStep DEF AllocMail, ivars
<1>15. CASE Listen
  BY <1>1, <1>4, <1>15, ListenStep DEF Listen, ivars
<1>16. CASE ListenBlock
  BY <1>1, <1>4, <1>16, ListenBlockStep DEF ListenBlock, ivars
<1>17. CASE schedule_isr
  BY <1>1, <1>4, <1>17, ScheduleStep DEF schedule_isr, ivars
<1>18. ASSUME NEW n \in Lines, Interrupt(n) PROVE MailboxInv'
  BY <1>1, <1>4, <1>18, InterruptStep DEF Interrupt, ivars
<1>19. CASE UNCHANGED vars
  <2>1. k' = k /\ irq' = irq
    BY <1>19 DEF vars, ivars
  <2>2. Sound'
    <3>1. Current' = Current /\ hold' = hold
      BY <1>19 DEF vars, Current
    <3> QED BY <1>1, <2>1, <3>1 DEF Sound
  <2> QED BY <1>4, <2>1, <2>2
<1> QED BY <1>6, <1>7, <1>8, <1>9, <1>10, <1>11, <1>12, <1>13, <1>14, <1>15, <1>16,
           <1>17, <1>18, <1>19 DEF Next

\* The invariant holds in every reachable state of every instance.
THEOREM MailboxInvariant == Spec => []MailboxInv
<1>1. Init => MailboxInv
  BY MailboxStart
<1>2. MailboxInv /\ [Next]_vars => MailboxInv'
  BY MailboxStep
<1> QED BY <1>1, <1>2, PTL DEF Spec

\* A line is open in the PIC exactly while some irq on it is enabled, for any
\* number of sharers and whatever the order in which they request, mask, unmask,
\* release and die (irqline_mask, irqline_unmask, irq_release).
THEOREM MailboxLinesArmed == Spec => []LinesArmed
<1>1. MailboxInv => LinesArmed
  BY DEF MailboxInv, LinesInv
<1> QED BY <1>1, MailboxInvariant, PTL

\* No thread stays parked on a mailbox that has a mail: neither a send, a
\* broadcast, an interrupt nor the end of another thread leaves a wakeup out
\* (alloc_mailbox, "no lost wakeup").
THEOREM MailboxNoSleepWithMail == Spec => []NoSleepWithMail
<1>1. MailboxInv => NoSleepWithMail
  BY SoundFacts DEF MailboxInv, MailsInv, Awake, NoSleepWithMail, MailQ
<1> QED BY <1>1, MailboxInvariant, PTL

\* Every mail has one reference and one place, or none of both: release_mail,
\* send, broadcast, release_mailbox and the interrupt path neither leak a mail nor
\* free one that somebody still has.
THEOREM MailboxMailsAccounted == Spec => []MailsAccounted
<1>1. ASSUME MailboxInv PROVE MailsAccounted
  <2>1. /\ MailsInv(Current, hold, {}) /\ Current.k = k /\ Current.mail = mail
        /\ Current.box = box
    BY <1>1, SoundFacts DEF MailboxInv
  <2> SUFFICES ASSUME NEW m \in Mails
               PROVE  LET owners == {t \in Tid : m \in hold[t]}
                          queued == UNION {{<<t, i>> : i \in {j \in DOMAIN box[t].mails :
                                                box[t].mails[j] = m}} : t \in Tid}
                      IN  /\ mail[m].ref <= 1
                          /\ Cardinality(owners) + Cardinality(queued) = mail[m].ref
    BY DEF MailsAccounted
  <2> DEFINE owners == {t \in Tid : m \in hold[t]}
             At(t) == {j \in DOMAIN box[t].mails : box[t].mails[j] = m}
             queued == UNION {{<<t, i>> : i \in At(t)} : t \in Tid}
  <2>2. /\ \A t, u \in Tid : ~ (m \in hold[t] /\ m \in Queued(Current, u))
        /\ \A t, u \in Tid : t # u => ~ (m \in hold[t] /\ m \in hold[u])
        /\ \A t, u \in Tid : t # u => ~ (m \in Queued(Current, t) /\ m \in Queued(Current, u))
        /\ \A t \in Tid : Distinct(box[t].mails)
        /\ mail[m].ref = IF Placed(Current, hold, m) THEN 1 ELSE 0
    BY <2>1 DEF MailsInv, Accounted
  <2>3. \A t \in Tid : m \in Queued(Current, t) <=> At(t) # {}
    BY <2>1 DEF Queued, Members
  <2>4. \A x : x \in queued <=> \E t \in Tid : \E i \in At(t) : x = <<t, i>>
    OBVIOUS
  <2>5. Cardinality({}) = 0 /\ \A x : Cardinality({x}) = 1
    BY FS_EmptySet, FS_Singleton
  <2> HIDE DEF queued, At
  <2>6. CASE ~ Placed(Current, hold, m)
    <3>1. owners = {} /\ queued = {}
      BY <2>3, <2>4, <2>6 DEF Placed
    <3> HIDE DEF owners
    <3>2. mail[m].ref <= 1 /\ Cardinality(owners) + Cardinality(queued) = mail[m].ref
      BY <2>2, <2>5, <2>6, <3>1
    <3> QED BY <3>2, Zenon DEF queued, owners, At
  <2>7. ASSUME NEW t \in Tid, m \in hold[t] PROVE owners = {t} /\ queued = {}
    BY <2>2, <2>3, <2>4, <2>7
  <2>8. ASSUME NEW t \in Tid, m \in Queued(Current, t) PROVE owners = {} /\ \E x : queued = {x}
    <3>1. owners = {}
      BY <2>2, <2>8
    <3>2. PICK i : i \in At(t)
      BY <2>3, <2>8
    <3>3. At(t) = {i}
      BY <2>2, <3>2 DEF Distinct, At
    <3>4. \A u \in Tid : u # t => At(u) = {}
      BY <2>2, <2>3, <2>8
    <3>5. queued = {<<t, i>>}
      BY <2>4, <3>3, <3>4
    <3> QED BY <3>1, <3>5
  <2>9. CASE Placed(Current, hold, m)
    <3>1. PICK t \in Tid : m \in hold[t] \/ m \in Queued(Current, t)
      BY <2>9 DEF Placed
    <3> HIDE DEF owners
    <3>2. Cardinality(owners) + Cardinality(queued) = 1
      <4>1. CASE m \in hold[t]
        <5>1. Cardinality(owners) = 1 /\ Cardinality(queued) = 0
          BY <2>5, <2>7, <4>1
        <5> QED BY <5>1
      <4>2. CASE m \in Queued(Current, t)
        <5>1. Cardinality(owners) = 0 /\ Cardinality(queued) = 1
          BY <2>5, <2>8, <4>2
        <5> QED BY <5>1
      <4> QED BY <3>1, <4>1, <4>2
    <3>3. mail[m].ref <= 1 /\ Cardinality(owners) + Cardinality(queued) = mail[m].ref
      BY <2>2, <2>9, <3>2
    <3> QED BY <3>3, Zenon DEF queued, owners, At
  <2> QED BY <2>6, <2>9
<1>2. MailboxInv => MailsAccounted
  BY <1>1
<1> QED BY <1>2, MailboxInvariant, PTL

\* As long as no process exits, the owner that an irq caches is a thread, through
\* any deletions of threads (thread_delete releases their irqs first).
THEOREM MailboxIrqOwnerLive ==
    ASSUME MayExit = FALSE
    PROVE  Spec => []IrqOwnerLive
<1>1. MailboxInv => IrqOwnerLive
  <2> SUFFICES ASSUME MailboxInv, NEW n \in Lines, NEW i \in Members(line[n])
               PROVE  irq[i].owner \in Live(k)
    BY DEF IrqOwnerLive
  <2>1. line[n] \in Seq(Irqs)
    BY DEF MailboxInv, LinesInv, LinesTyped
  <2>2. i \in Irqs /\ irq[i].st = "live"
    BY <2>1, MembersOf DEF MailboxInv, LinesInv, LinesListed
  <2>3. \A p \in Pid : k.ps[p] # "dead"
    BY DEF MailboxInv, Exits
  <2> QED BY <2>2, <2>3, MailboxAssumption DEF MailboxInv, Owners
<1> QED BY <1>1, MailboxInvariant, PTL

-----------------------------------------------------------------------------
(* Mailboxes are channels. *)

\* list_del of the last node of a list.
LEMMA LastDeleted ==
    ASSUME NEW T, NEW q \in Seq(T), Distinct(q), q # <<>>
    PROVE  LET r == list_del({q[Len(q)]}, q)
           IN  /\ r \in Seq(T) /\ Len(r) = Len(q) - 1
               /\ \A i \in 1 .. Len(q) - 1 : r[i] = q[i]
<1>0. PICK n \in Nat : n = Len(q)
  OBVIOUS
<1> DEFINE D == {q[n]}
           r == list_del(D, q)
           at(m) == CHOOSE i \in 1 .. n : q[i] \notin D /\ Cardinality(Kept(q, D, i)) = m
<1>1. n >= 1 /\ DOMAIN q = 1 .. n /\ n - 1 \in Nat
  BY <1>0
<1>2. \A i \in 1 .. n : q[i] \in D <=> i = n
  BY <1>1 DEF Distinct
<1>3. \A i \in 0 .. n - 1 : Kept(q, D, i) = 1 .. i /\ Cardinality(1 .. i) = i
  <2> SUFFICES ASSUME NEW i \in 0 .. n - 1
               PROVE  Kept(q, D, i) = 1 .. i /\ Cardinality(1 .. i) = i
    OBVIOUS
  <2>1. \A j \in 1 .. i : j \in 1 .. n /\ j # n
    BY <1>1
  <2>2. Cardinality(1 .. i) = i
    BY <1>1, FS_Interval
  <2> HIDE DEF D
  <2> QED BY <1>2, <2>1, <2>2 DEF Kept
<1>4. Kept(q, D, n) = 1 .. n - 1
  <2>1. \A j : j \in 1 .. n /\ j # n <=> j \in 1 .. n - 1
    BY <1>1
  <2> HIDE DEF D
  <2> QED BY <1>2, <2>1 DEF Kept
<1>5. Cardinality(Kept(q, D, n)) = n - 1
  BY <1>1, <1>3, <1>4
<1>6. r = [m \in 1 .. n - 1 |-> q[at(m)]]
  BY <1>0, <1>5 DEF list_del
<1>7. ASSUME NEW m \in 1 .. n - 1 PROVE at(m) = m
  <2>1. m \in 1 .. n /\ q[m] \notin D /\ Cardinality(Kept(q, D, m)) = m
    <3>1. m \in 1 .. n /\ m \in 0 .. n - 1 /\ m # n
      BY <1>1
    <3> HIDE DEF D
    <3> QED BY <1>2, <1>3, <3>1
  <2>2. ASSUME NEW i \in 1 .. n, q[i] \notin D, Cardinality(Kept(q, D, i)) = m PROVE i = m
    <3>1. i \in 0 .. n - 1
      BY <1>1, <1>2, <2>2
    <3> QED BY <1>3, <2>2, <3>1
  <2> HIDE DEF D
  <2> QED BY <2>1, <2>2
<1> HIDE DEF at, r
<1>8. r = [m \in 1 .. n - 1 |-> q[m]]
  BY <1>6, <1>7
<1>9. \A m \in 1 .. n - 1 : q[m] \in T
  BY <1>1
<1>10. r \in Seq(T) /\ Len(r) = n - 1
  BY <1>1, <1>8, <1>9
<1> QED BY <1>0, <1>8, <1>10 DEF r

\* A list without its head.
LEMMA TailShift ==
    ASSUME NEW T, NEW n \in Nat, NEW a \in [1 .. n + 1 -> T], NEW b \in [1 .. n -> T],
           \A i \in 1 .. n : b[i] = a[i + 1]
    PROVE  a # <<>> /\ b = Tail(a)
<1>1. PICK m \in Nat : m = n + 1
  OBVIOUS
<1>2. a \in Seq(T) /\ Len(a) = m
  BY <1>1
<1>3. b \in Seq(T) /\ Len(b) = n
  OBVIOUS
<1>4. a # <<>>
  BY <1>1, <1>2
<1>5. Tail(a) \in Seq(T) /\ Len(Tail(a)) = n /\ \A i \in 1 .. n : Tail(a)[i] = a[i + 1]
  BY ONLY <1>1, <1>2, <1>4, n \in Nat
<1> QED BY <1>3, <1>4, <1>5

\* The contents of the channel of t, the oldest first.
Inbox(s, t) ==
    IF t \in Live(s.k)
    THEN [i \in 1 .. Len(s.box[t].mails) |-> <<Oldest(s, t, i), s.mail[Oldest(s, t, i)].magic>>]
    ELSE <<>>

\* What Mailbox maps to inbox.
Inboxes ==
    [t \in Tid |->
        LET q == box[t].mails
        IN  IF t \in Live(k) THEN [i \in 1 .. Len(q) |-> <<q[Len(q) + 1 - i],
                                                mail[q[Len(q) + 1 - i]].magic>>]
            ELSE <<>>]

\* Posting is a step of the channels.
LEMMA PostChannel ==
    ASSUME Sound, Sound', Appended(Current, Current')
    PROVE  Channel!Next
<1>1. PICK c : c = Current
  OBVIOUS
<1>2. PICK d : d = Current'
  OBVIOUS
<1>3. /\ Inboxes = [t \in Tid |-> Inbox(c, t)] /\ Inboxes' = [t \in Tid |-> Inbox(d, t)]
      /\ Live(k) = Live(c.k) /\ Live(k') = Live(d.k)
  <2>1. c.k = k /\ c.mail = mail /\ c.box = box
    BY <1>1 DEF Current
  <2>2. d.k = k' /\ d.mail = mail' /\ d.box = box'
    BY <1>2 DEF Current
  <2> QED BY <2>1, <2>2 DEF Inboxes, Inbox, Oldest
<1>4. Appended(c, d) /\ Live(d.k) = Live(c.k)
  BY <1>1, <1>2 DEF Appended
<1>5. ASSUME NEW t \in Live(k)
      PROVE  /\ Len(Inboxes[t]) <= Len(Inboxes'[t])
             /\ SubSeq(Inboxes'[t], 1, Len(Inboxes[t])) = Inboxes[t]
  <2> DEFINE n == Len(c.box[t].mails)
             n2 == Len(d.box[t].mails)
             a == Inbox(c, t)
             b == Inbox(d, t)
  <2>1. t \in Tid /\ n \in Nat
    BY <1>1, SoundFacts DEF Live, MailsTyped, Box
  <2>2. a = [i \in 1 .. n |-> <<Oldest(c, t, i), c.mail[Oldest(c, t, i)].magic>>]
    BY <1>3 DEF Inbox
  <2>3. b = [i \in 1 .. n2 |-> <<Oldest(d, t, i), d.mail[Oldest(d, t, i)].magic>>]
    BY <1>3, <1>4 DEF Inbox
  <2>4. n <= n2 /\ \A i \in 1 .. n : Oldest(d, t, i) = Oldest(c, t, i)
                            /\ d.mail[Oldest(d, t, i)].magic = c.mail[Oldest(c, t, i)].magic
    BY <1>4, <2>1 DEF Appended
  <2>5. n2 \in Nat
    BY <1>2, <2>1 DEF Sound, MailsInv, MailsTyped, Box
  <2> HIDE DEF a, b, n, n2
  <2>6. Len(a) = n /\ Len(b) = n2
    BY <2>1, <2>2, <2>3, <2>5
  <2>7. \A i \in 1 .. n : b[i] = a[i]
    BY <2>1, <2>2, <2>3, <2>4, <2>5
  <2>8. SubSeq(b, 1, n) = [i \in 1 .. n |-> b[i]]
    BY <2>1, <2>3, <2>4, <2>5
  <2>9. SubSeq(b, 1, n) = a
    BY <2>2, <2>7, <2>8
  <2>10. Inboxes[t] = a /\ Inboxes'[t] = b
    BY <1>3, <2>1 DEF a, b
  <2> QED BY <2>4, <2>6, <2>9, <2>10
<1>6. ASSUME NEW t \in Tid \ Live(k) PROVE Inboxes'[t] = <<>>
  BY <1>3, <1>4 DEF Inbox
<1>7. Live(k') = Live(k)
  BY <1>3, <1>4
<1>8. Channel!Post
  BY <1>5, <1>6, <1>7, Zenon DEF Channel!Post, Inboxes
<1> QED BY <1>8 DEF Channel!Next

\* Listen takes the oldest mail of one channel.
LEMMA TakeChannel ==
    ASSUME Sound, NEW t \in Tid, Taken(t, Current')
    PROVE  Channel!Next
<1>1. PICK c : c = Current
  OBVIOUS
<1>2. PICK d : d = Current'
  OBVIOUS
<1>3. c.k = k /\ c.mail = mail /\ c.box = box
  BY <1>1 DEF Current
<1>4. d.k = k' /\ d.mail = mail' /\ d.box = box'
  BY <1>2 DEF Current
<1>5. Inboxes = [u \in Tid |-> Inbox(c, u)] /\ Inboxes' = [u \in Tid |-> Inbox(d, u)]
  BY <1>3, <1>4 DEF Inboxes, Inbox, Oldest
<1> DEFINE q == c.box[t].mails
           r == d.box[t].mails
<1>6. /\ t \in Live(c.k) /\ q # <<>> /\ Live(d.k) = Live(c.k) /\ d.mail = c.mail
      /\ r = list_del({q[Len(q)]}, q)
      /\ \A u \in Tid : u # t => d.box[u] = c.box[u]
  BY <1>2, <1>3 DEF Taken
<1>7. q \in Seq(Mails) /\ Distinct(q)
  BY <1>1, SoundFacts DEF MailsInv, MailsTyped, Box, Accounted
<1> DEFINE a == Inbox(c, t)
           b == Inbox(d, t)
<1>8. /\ a = [i \in 1 .. Len(q) |-> <<q[Len(q) + 1 - i], c.mail[q[Len(q) + 1 - i]].magic>>]
      /\ b = [i \in 1 .. Len(r) |-> <<r[Len(r) + 1 - i], c.mail[r[Len(r) + 1 - i]].magic>>]
  BY <1>6 DEF Inbox, Oldest
<1> HIDE DEF q, r, a, b
<1>9. PICK n \in Nat : n = Len(q) - 1
  BY <1>6, <1>7
<1>10. Len(q) = n + 1 /\ Len(r) = n /\ \A i \in 1 .. n : r[i] = q[i]
  <2>1. Len(r) = Len(q) - 1 /\ \A i \in 1 .. Len(q) - 1 : r[i] = q[i]
    BY ONLY <1>6, <1>7, LastDeleted
  <2>2. Len(q) \in Nat
    BY <1>7
  <2> QED BY <1>9, <2>1, <2>2
<1>11. /\ a = [i \in 1 .. n + 1 |-> <<q[n + 2 - i], c.mail[q[n + 2 - i]].magic>>]
       /\ b = [i \in 1 .. n |-> <<q[n + 1 - i], c.mail[q[n + 1 - i]].magic>>]
  <2>1. \A i \in 1 .. n + 1 : (n + 1) + 1 - i = n + 2 - i
    OBVIOUS
  <2>2. \A i \in 1 .. n : r[n + 1 - i] = q[n + 1 - i]
    BY <1>10
  <2> QED BY <1>8, <1>10, <2>1, <2>2
<1>12. a # <<>> /\ b = Tail(a)
  <2>1. /\ \A i \in 1 .. n + 1 : n + 2 - i \in 1 .. n + 1
        /\ \A i \in 1 .. n : n + 1 - i \in 1 .. n + 1 /\ n + 2 - (i + 1) = n + 1 - i
                            /\ i + 1 \in 1 .. n + 1
    OBVIOUS
  <2>2. \A i \in 1 .. n + 1 : q[i] \in Mails /\ c.mail[q[i]].magic \in Nat
    BY <1>1, <1>7, <1>10, SoundFacts DEF MailsTyped, Mail
  <2>3. a \in [1 .. n + 1 -> Mails \X Nat] /\ b \in [1 .. n -> Mails \X Nat]
    BY <1>11, <2>1, <2>2
  <2>4. \A i \in 1 .. n : b[i] = a[i + 1]
    BY <1>11, <2>1
  <2> QED BY ONLY n \in Nat, <2>3, <2>4, TailShift
<1>13. \A u \in Tid : u # t => Inbox(d, u) = Inbox(c, u)
  BY <1>6 DEF Inbox, Oldest
<1>14. Inboxes[t] = a /\ Inboxes' = [Inboxes EXCEPT ![t] = Tail(Inboxes[t])]
  BY <1>5, <1>12, <1>13 DEF a, b
<1>15. t \in Live(k) /\ Live(k') = Live(k) /\ Inboxes[t] # <<>>
  BY <1>3, <1>4, <1>6, <1>12, <1>14
<1>16. Channel!Take(t)
  BY <1>14, <1>15, Zenon DEF Channel!Take, Inboxes
<1> QED BY <1>16 DEF Channel!Next

\* Threads that end close their channels.
LEMMA CloseChannel ==
    ASSUME Sound, NEW D, Closed(D, Current')
    PROVE  Channel!Next
<1>1. PICK c : c = Current
  OBVIOUS
<1>2. PICK d : d = Current'
  OBVIOUS
<1>3. c.k = k /\ c.mail = mail /\ c.box = box
  BY <1>1 DEF Current
<1>4. d.k = k' /\ d.mail = mail' /\ d.box = box'
  BY <1>2 DEF Current
<1>5. Inboxes = [u \in Tid |-> Inbox(c, u)] /\ Inboxes' = [u \in Tid |-> Inbox(d, u)]
  BY <1>3, <1>4 DEF Inboxes, Inbox, Oldest
<1>6. /\ D \subseteq Live(c.k) /\ Live(d.k) = Live(c.k) \ D
      /\ \A t \in Live(c.k) \ D : /\ d.box[t] = c.box[t]
                                  /\ \A m \in Members(c.box[t].mails) : d.mail[m] = c.mail[m]
  BY <1>2, <1>3 DEF Closed
<1>7. ASSUME NEW t \in Live(c.k) \ D PROVE Inbox(d, t) = Inbox(c, t)
  <2> DEFINE q == c.box[t].mails
  <2>1. q \in Seq(Mails)
    BY <1>1, SoundFacts DEF MailsTyped, Box, Live
  <2>2. d.box[t] = c.box[t] /\ \A m \in Members(q) : d.mail[m] = c.mail[m]
    BY <1>6
  <2>3. \A i \in 1 .. Len(q) : Oldest(d, t, i) = Oldest(c, t, i) /\ Oldest(c, t, i) \in Members(q)
    <3> SUFFICES ASSUME NEW i \in 1 .. Len(q)
                 PROVE  Oldest(d, t, i) = Oldest(c, t, i) /\ Oldest(c, t, i) \in Members(q)
      OBVIOUS
    <3>1. Len(q) + 1 - i \in DOMAIN q
      BY <2>1
    <3> QED BY <2>2, <3>1 DEF Oldest, Members
  <2>4. \A i \in 1 .. Len(q) : d.mail[Oldest(d, t, i)] = c.mail[Oldest(c, t, i)]
    BY <2>2, <2>3
  <2> QED BY <1>6, <2>2, <2>3, <2>4 DEF Inbox
<1>8. \A t \in Tid : Inbox(d, t) = IF t \in D THEN <<>> ELSE Inbox(c, t)
  BY <1>6, <1>7 DEF Inbox
<1>9. Inboxes' = [t \in Tid |-> IF t \in D THEN <<>> ELSE Inboxes[t]]
  BY <1>5, <1>8
<1>10. D \subseteq Live(k) /\ Live(k') = Live(k) \ D /\ D \in SUBSET Tid
  BY <1>3, <1>4, <1>6 DEF Live
<1>11. Channel!Close(D)
  BY <1>9, <1>10, Zenon DEF Channel!Close, Inboxes
<1> QED BY <1>10, <1>11 DEF Channel!Next

\* Mailbox implements MailChannel: mails are added behind the queued ones by any
\* send, broadcast or interrupt, only the oldest is taken (try_get_mail), and a
\* mailbox is emptied only when its thread ends.
THEOREM MailboxRefinesChannel == Spec => RefinesChannel
<1>1. ASSUME Init PROVE Channel!Init
  <2>1. Live(k) = Tid
    BY <1>1 DEF Init, Live
  <2>2. Inboxes = [t \in Tid |-> <<>>]
    <3>1. \A t \in Tid : box[t].mails = <<>>
      BY <1>1 DEF Init
    <3> QED BY <3>1 DEF Inboxes
  <2> QED BY <2>1, <2>2, Zenon DEF Channel!Init, Inboxes
<1>2. ASSUME MailboxInv, MailboxInv', [Next]_vars PROVE [Channel!Next]_(Channel!vars)
  <2>1. Sound /\ LinesInv /\ Sound'
    BY <1>2 DEF MailboxInv
  <2>2. ASSUME Appended(Current, Current') PROVE Channel!Next
    BY <2>1, <2>2, PostChannel
  <2>3. CASE Listen
    BY <2>1, <2>3, ListenStep, SoundFacts, TakeChannel
  <2>4. ASSUME NEW t \in Tid, ThreadDelete(t) PROVE Channel!Next
    BY <2>1, <2>4, DeleteStep, CloseChannel
  <2>5. ASSUME NEW p \in Pid, ProcExit(p) PROVE Channel!Next
    BY <2>1, <2>5, ExitStep, CloseChannel
  <2>6. ASSUME NEW m \in Mails, NEW to \in Tid \cup {AnyTid}, NEW magic \in Magics \cup {0},
               Send(m, to, magic)
        PROVE  Channel!Next
    <3>1. magic \in Nat
      BY MailboxAssumption
    <3> QED BY <2>1, <2>2, <2>6, <3>1, SendStep
  <2>7. ASSUME NEW m \in Mails, ReleaseMail(m) PROVE Channel!Next
    BY <2>1, <2>2, <2>7, ReleaseStep
  <2>8. ASSUME \/ \E magic \in Magics : Subscribe(magic) \/ Unsubscribe(magic)
               \/ \E t \in Tid : RegisterHandler(t) \/ UnregisterHandler(t)
        PROVE  Channel!Next
    BY <2>1, <2>2, <2>8, RegistrationStep
  <2>9. ASSUME NEW i \in Irqs, NEW n \in Lines, NEW minor \in Minors \cup {AnyMinor},
               IrqRelease(i) \/ IrqMask(i) \/ IrqUnmask(i) \/ IrqRequest(i, n, minor)
        PROVE  Channel!Next
    <3>1. Gate(Current) /\ hold' = hold
      BY <2>9 DEF IrqRelease, IrqMask, IrqUnmask, IrqRequest
    <3> QED BY <2>1, <2>2, <3>1, LineStep
  <2>10. ASSUME NEW i \in Irqs, IrqRelease(i) \/ IrqMask(i) \/ IrqUnmask(i) PROVE Channel!Next
    <3>1. Gate(Current) /\ hold' = hold
      BY <2>10 DEF IrqRelease, IrqMask, IrqUnmask
    <3> QED BY <2>1, <2>2, <3>1, LineStep
  <2>11. ASSUME NEW n \in Lines, Interrupt(n) PROVE Channel!Next
    BY <2>1, <2>2, <2>11, InterruptStep
  <2>12. CASE AllocMail
    BY <2>1, <2>2, <2>12, AllocStep
  <2>13. CASE ListenBlock
    BY <2>1, <2>2, <2>13, ListenBlockStep
  <2>14. CASE schedule_isr
    BY <2>1, <2>2, <2>14, ScheduleStep
  <2>15. CASE UNCHANGED vars
    <3>1. UNCHANGED <<k, mail, box>>
      BY <2>15 DEF vars
    <3>2. Live(k)' = Live(k) /\ Inboxes' = Inboxes
      BY <3>1 DEF Inboxes, Live
    <3>3. UNCHANGED Channel!vars
      BY <3>2, Zenon DEF Channel!vars, Inboxes
    <3> QED BY <3>3
  <2> QED BY <1>2, <2>3, <2>4, <2>5, <2>6, <2>7, <2>8, <2>9, <2>10, <2>11, <2>12, <2>13,
             <2>14, <2>15 DEF Next
<1> QED BY <1>1, <1>2, MailboxInvariant, PTL DEF Spec, RefinesChannel, Channel!Spec
=============================================================================
