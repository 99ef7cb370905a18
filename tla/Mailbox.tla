------------------------------- MODULE Mailbox ------------------------------
(***************************************************************************)
(* Mailboxes (kernel/ipc/mailbox.c) and the interrupt lines that post to   *)
(* them (kernel/irq.c), with the two ways a thread dies: thread_delete     *)
(* gives back its interrupts and its mailbox, proc_exit does not.          *)
(*                                                                         *)
(* Threads issue mailbox calls in any order, within the ownership rule of  *)
(* the API: whoever allocates or receives a mail owns it until it is sent  *)
(* or released.  Mails come from a heap with room for the members of Mails.*)
(***************************************************************************)
EXTENDS KThreads

CONSTANTS
    Orders,         \* the orders on thread_head to start from
    ProcOf,         \* the process of each thread
    Producers,      \* the threads that allocate and send mails
    MaxHold,        \* bound on the mails a thread owns at a time
    Mails,          \* room in the heap for this many mails
    Magics,         \* the magics one can subscribe to; 0 is not one
    IrqMagic,       \* MAIL_MAGIC_IRQ
    AnyTid,         \* MAIL_ANY_TID
    MaxSubs,        \* MAX_SUBSCRIPTION_COUNT
    MaxHandlers,    \* bound on registered handlers
    Irqs, Lines,    \* irq structures (bound on requests) and line numbers
    Minors,         \* the minors that are asked for by number
    AnyMinor,       \* IRQ_ANY_MINOR
    MayExit         \* whether processes exit

ASSUME MailboxAssumption ==
    /\ WaitQ = Tid /\ ProcOf \in [Tid -> Pid] /\ IsFiniteSet(Tid)
    /\ Producers \subseteq Tid
    /\ \A s \in Orders : s \in Seq(Tid) /\ Members(s) = Tid /\ Distinct(s)
    /\ Mails \subseteq Nat /\ Magics \subseteq Nat \ {0} /\ IrqMagic \in Nat
    /\ AnyTid \notin Tid /\ MaxSubs \in Nat /\ MaxHold \in Nat /\ MaxHandlers \in Nat
    /\ Irqs \subseteq Nat /\ Minors \subseteq Nat /\ AnyMinor \notin Nat
    /\ MayExit \in BOOLEAN

MailQ(t) == t           \* the waiters of t's mailbox

VARIABLES
    k,          \* the kernel's thread state, see KThreads
    mail,       \* the mailmetas: ref_count (0 when there is none) and magic
    box,        \* the threads' mailboxes; the newest mail heads the list
    hold,       \* the mails each thread owns
    irq,        \* the irq structures
    line,       \* irqline.irqs, newest first
    unmasked    \* the lines that are unmasked in the PIC

ivars == <<irq, line, unmasked>>
vars == <<k, mail, box, hold, ivars>>

Init ==
    /\ \E s \in Orders, t \in Tid :
        k = [order  |-> s,
             run    |-> t,
             st     |-> [u \in Tid |-> "ready"],
             pend   |-> [u \in Tid |-> FALSE],
             parent |-> ProcOf,
             won    |-> [u \in Tid |-> NoQueue],
             wq     |-> [q \in WaitQ |-> <<>>],
             val    |-> [q \in WaitQ |-> 0],
             sem    |-> [q \in WaitQ |-> "none"],
             ps     |-> [p \in Pid |-> "live"],
             ctx    |-> NoThread,
             vcb    |-> NoProc,
             cur    |-> t,
             cr3    |-> ProcOf[t]]
    /\ mail = [m \in Mails |-> [ref |-> 0, magic |-> 0]]
    /\ box = [t \in Tid |-> [st |-> "live", mails |-> <<>>, subs |-> {}, handlers |-> 0]]
    /\ hold = [t \in Tid |-> {}]
    /\ irq = [i \in Irqs |-> [st |-> "none", line |-> 0, minor |-> 0,
                              owner |-> NoThread, enabled |-> FALSE]]
    /\ line = [n \in Lines |-> <<>>]
    /\ unmasked = {}

-----------------------------------------------------------------------------
(* The kernel's functions on mails, from a state s with fields k, mail, box. *)

\* What Step, done for each element of list s in its order, makes of base.
Loop(Step(_, _), base, s) ==
    LET after[i \in 0 .. Len(s)] ==
            IF i = 0 THEN base ELSE Step(after[i - 1], s[i])
    IN  after[Len(s)]

Current == [k |-> k, mail |-> mail, box |-> box]

FreeMails(s) == {m \in Mails : s.mail[m].ref = 0}

\* The place that alloc_mail gets from the heap.
NextMail(s) == CHOOSE m \in FreeMails(s) : \A n \in FreeMails(s) : m <= n

alloc_mail(s, magic) ==
    [s EXCEPT !.mail[NextMail(s)] = [ref |-> 1, magic |-> magic]]

\* A mail that get_mailmeta does not find is left alone.
release_mail(s, m) ==
    IF s.mail[m].ref = 0 THEN s
    ELSE [s EXCEPT !.mail[m] = [ref |-> @.ref - 1,
                                magic |-> IF @.ref > 1 THEN @.magic ELSE 0]]

\* Mutant of Queue: nobody is woken.
Queue_NoWake(s, t, m) == [s EXCEPT !.box[t].mails = list_add(m, @)]

\* Queueing a mail wakes the thread parked on the mailbox.
Queue(s, t, m) ==
    [s EXCEPT !.box[t].mails = list_add(m, @),
              !.k = wait_queue_wake_one(@, MailQ(t))]

\* Handlers run at once and the delivery's reference is given back.
send_mail(s, t, m) ==
    CASE s.box[t].handlers > 0 -> release_mail(s, m)
      [] s.box[t].handlers = 0 /\ s.mail[m].ref > 0 -> Queue(s, t, m)
      [] OTHER -> s

Subscribers(s, magic) == {t \in Live(s.k) : magic \in s.box[t].subs}

\* One subscriber's share of a broadcast: its handlers see m, its queue gets a
\* clone, or nothing when there is no memory.
Deliver(s, t, m) ==
    CASE t \notin Subscribers(s, s.mail[m].magic) -> s
      [] t \in Subscribers(s, s.mail[m].magic) /\ s.box[t].handlers > 0 -> send_mail(s, t, m)
      [] OTHER -> IF FreeMails(s) = {} THEN s
                  ELSE Queue(alloc_mail(s, s.mail[m].magic), t, NextMail(s))

broadcast(s, m) ==
    LET handling == {t \in Subscribers(s, s.mail[m].magic) : s.box[t].handlers > 0}
        counted  == [s EXCEPT !.mail[m].ref = @ + Cardinality(handling)]
        Step(acc, t) == Deliver(acc, t, m)
    IN  release_mail(Loop(Step, counted, s.k.order), m)

\* Mutant of send: the mail to a thread that is gone is not released.
send_Leaks(s, m, to) ==
    CASE to = AnyTid -> broadcast(s, m)
      [] to # AnyTid /\ to \notin Live(s.k) -> s
      [] OTHER -> send_mail(s, to, m)

send(s, m, to) ==
    CASE to = AnyTid -> broadcast(s, m)
      [] to # AnyTid /\ to \notin Live(s.k) -> release_mail(s, m)
      [] OTHER -> send_mail(s, to, m)

\* Gives back everything that is queued.
release_mailbox(s, t) ==
    LET Step(acc, m) == release_mail(acc, m)
    IN  [Loop(Step, s, s.box[t].mails) EXCEPT
            !.box[t] = [st |-> "dead", mails |-> <<>>, subs |-> {}, handlers |-> 0]]

-----------------------------------------------------------------------------
\* A gate entered from the running thread or an interrupt: s is what its body leaves.
Gate(s) ==
    \E n \in {s} : /\ k' = arch_task_context_switch(n.k)
                   /\ mail' = n.mail
                   /\ box' = n.box

AllocMail ==
    /\ k.run \in Producers
    /\ FreeMails(Current) # {} /\ Cardinality(hold[k.run]) < MaxHold
    /\ Gate(alloc_mail(Current, 0))
    /\ hold' = [hold EXCEPT ![k.run] = @ \cup {NextMail(Current)}]
    /\ UNCHANGED ivars

\* The sender writes the magic into the mail and gives the mail away.  The
\* magic of a mail to one thread is not looked at by the kernel: it is 0 here.
Send(m, to, magic) ==
    /\ k.run \in Producers /\ m \in hold[k.run]
    /\ Gate(send([Current EXCEPT !.mail[m].magic = magic], m, to))
    /\ hold' = [hold EXCEPT ![k.run] = @ \ {m}]
    /\ UNCHANGED ivars

ReleaseMail(m) ==
    /\ m \in hold[k.run]
    /\ Gate(release_mail(Current, m))
    /\ hold' = [hold EXCEPT ![k.run] = @ \ {m}]
    /\ UNCHANGED ivars

\* Mutant of Listen: the newest mail is taken.
Listen_Newest ==
    LET q == box[k.run].mails
    IN  /\ q # <<>> /\ Cardinality(hold[k.run]) < MaxHold
        /\ hold' = [hold EXCEPT ![k.run] = @ \cup {q[1]}]
        /\ Gate([Current EXCEPT !.box[k.run].mails = list_del({q[1]}, q)])
        /\ UNCHANGED ivars

\* try_get_mail takes the oldest mail.
Listen ==
    LET q == box[k.run].mails
    IN  /\ q # <<>> /\ Cardinality(hold[k.run]) < MaxHold
        /\ hold' = [hold EXCEPT ![k.run] = @ \cup {q[Len(q)]}]
        /\ Gate([Current EXCEPT !.box[k.run].mails = list_del({q[Len(q)]}, q)])
        /\ UNCHANGED ivars

ListenBlock ==
    /\ box[k.run].mails = <<>>
    /\ Gate([Current EXCEPT !.k = wait_queue_sleep(k, MailQ(k.run))])
    /\ UNCHANGED <<hold, ivars>>

Subscribe(magic) ==
    /\ Cardinality(box[k.run].subs \cup {magic}) <= MaxSubs
    /\ Gate([Current EXCEPT !.box[k.run].subs = @ \cup {magic}])
    /\ UNCHANGED <<hold, ivars>>

Unsubscribe(magic) ==
    /\ Gate([Current EXCEPT !.box[k.run].subs = @ \ {magic}])
    /\ UNCHANGED <<hold, ivars>>

\* Kernel callers register handlers on any thread's mailbox.
RegisterHandler(t) ==
    /\ t \in Live(k) /\ box[t].handlers < MaxHandlers
    /\ Gate([Current EXCEPT !.box[t].handlers = @ + 1])
    /\ UNCHANGED <<hold, ivars>>

UnregisterHandler(t) ==
    /\ t \in Live(k) /\ box[t].handlers > 0
    /\ Gate([Current EXCEPT !.box[t].handlers = @ - 1])
    /\ UNCHANGED <<hold, ivars>>

-----------------------------------------------------------------------------
(* Interrupt lines: kernel/irq.c *)

IrqsOf(t) == {i \in Irqs : irq[i].st = "live" /\ irq[i].owner = t}

Enabled(n) == {i \in Members(line[n]) : irq[i].enabled}

\* A request is refused when its minor is taken; that leaves everything as it was.
IrqRequest(i, n, minor) ==
    LET used == {irq[j].minor : j \in Members(line[n])}
        got  == IF minor = AnyMinor
                THEN CHOOSE x \in 0 .. Cardinality(used) : x \notin used /\ 0 .. x - 1 \subseteq used
                ELSE minor
    IN  /\ Fresh([j \in Irqs |-> irq[j].st], i)
        /\ got \notin used
        /\ irq' = [irq EXCEPT ![i] = [st |-> "live", line |-> n, minor |-> got,
                                     owner |-> k.run, enabled |-> FALSE]]
        /\ line' = [line EXCEPT ![n] = list_add(i, @)]
        /\ Gate(Current)
        /\ UNCHANGED <<hold, unmasked>>

\* Mutant of ReleaseIrqs: the line is left open.
ReleaseIrqs_NoMask(D) ==
    /\ irq' = [i \in Irqs |-> IF i \in D THEN [irq[i] EXCEPT !.st = "dead", !.enabled = FALSE]
                             ELSE irq[i]]
    /\ line' = [n \in Lines |-> list_del(D, line[n])]
    /\ UNCHANGED unmasked

\* irq_release of every member of D; a line is masked when nobody is left who
\* has it enabled (irqline_mask).
ReleaseIrqs(D) ==
    /\ irq' = [i \in Irqs |-> IF i \in D THEN [irq[i] EXCEPT !.st = "dead", !.enabled = FALSE]
                             ELSE irq[i]]
    /\ line' = [n \in Lines |-> list_del(D, line[n])]
    /\ unmasked' = {n \in unmasked :
                        D \cap Members(line[n]) = {} \/ Enabled(n) \ D # {}}

IrqRelease(i) ==
    /\ i \in IrqsOf(k.run)
    /\ ReleaseIrqs({i})
    /\ Gate(Current)
    /\ UNCHANGED hold

IrqMask(i) ==
    /\ i \in IrqsOf(k.run)
    /\ irq' = [irq EXCEPT ![i].enabled = FALSE]
    /\ unmasked' = IF Enabled(irq[i].line) \subseteq {i}
                   THEN unmasked \ {irq[i].line} ELSE unmasked
    /\ Gate(Current)
    /\ UNCHANGED <<hold, line>>

IrqUnmask(i) ==
    /\ i \in IrqsOf(k.run)
    /\ irq' = [irq EXCEPT ![i].enabled = TRUE]
    /\ unmasked' = unmasked \cup {irq[i].line}
    /\ Gate(Current)
    /\ UNCHANGED <<hold, line>>

\* dispatch_user_mode_irq; without memory the interrupt is dropped.
Dispatch(s, i) ==
    IF irq[i].enabled /\ FreeMails(s) # {}
    THEN send_mail(alloc_mail(s, IrqMagic), irq[i].owner, NextMail(s))
    ELSE s

\* irqline_handler.  What follows the use of a freed owner is undefined;
\* IrqOwnerLive looks at the state before.
Interrupt(n) ==
    /\ n \in unmasked
    /\ \A i \in Enabled(n) : irq[i].owner \in Live(k)
    /\ Gate(Loop(Dispatch, Current, line[n]))
    /\ UNCHANGED <<hold, ivars>>

-----------------------------------------------------------------------------
(* Threads and processes that end: kernel/process.c *)

\* Mutant of ThreadDelete: the interrupts stay registered.
ThreadDelete_KeepsIrqs(t) ==
    /\ t \in Live(k)
    /\ t = k.run => find_next_runnable(k) # NoThread
    /\ Gate(release_mailbox([Current EXCEPT !.k = thread_delete(@, t)], t))
    /\ UNCHANGED <<hold, ivars>>

\* What the thread holds is not given back.
ThreadDelete(t) ==
    /\ t \in Live(k)
    /\ t = k.run => find_next_runnable(k) # NoThread
    /\ ReleaseIrqs(IrqsOf(t))
    /\ Gate(release_mailbox([Current EXCEPT !.k = thread_delete(@, t)], t))
    /\ UNCHANGED hold

\* proc_exit_internal releases neither interrupts nor mailboxes.
ProcExit(p) ==
    /\ MayExit /\ k.ps[p] = "live"
    /\ k.run \in ThreadsOf(k, p) => ExitNext(k, p) # NoThread
    /\ Gate([Current EXCEPT !.k = proc_exit(@, p)])
    /\ UNCHANGED <<hold, ivars>>

\* schedule_isr, at the end of a time slice.
schedule_isr ==
    /\ Gate([Current EXCEPT !.k = Reschedule(@)])
    /\ UNCHANGED <<hold, ivars>>

Next ==
    \/ AllocMail \/ Listen \/ ListenBlock
    \/ \E m \in Mails :
        \/ ReleaseMail(m)
        \/ \E to \in Tid : Send(m, to, 0)
        \/ \E magic \in Magics \cup {0} : Send(m, AnyTid, magic)
    \/ \E magic \in Magics : Subscribe(magic) \/ Unsubscribe(magic)
    \/ \E t \in Tid : RegisterHandler(t) \/ UnregisterHandler(t) \/ ThreadDelete(t)
    \/ \E i \in Irqs :
        \/ IrqRelease(i) \/ IrqMask(i) \/ IrqUnmask(i)
        \/ \E n \in Lines, minor \in Minors \cup {AnyMinor} : IrqRequest(i, n, minor)
    \/ \E n \in Lines : Interrupt(n)
    \/ \E p \in Pid : ProcExit(p)
    \/ schedule_isr

ListenBy(t) == k.run = t /\ Listen
ReleaseBy(t) == k.run = t /\ \E m \in Mails : ReleaseMail(m)

\* The timer keeps firing, and a thread that gets the CPU again and again comes
\* back to its receive loop, which takes a mail and releases what it took.
Spec ==
    /\ Init /\ [][Next]_vars
    /\ WF_vars(schedule_isr)
    /\ \A t \in Tid : SF_vars(ListenBy(t)) /\ SF_vars(ReleaseBy(t))

-----------------------------------------------------------------------------
\* Every mail that has a mailmeta has exactly one reference, and exactly one
\* place that will give it back: one owner, or one mailbox, where it is queued
\* once.  No queue holds a freed mail and none is leaked by a broadcast, a
\* receiver that is gone, a handler or the end of a mailbox (release_mail,
\* send, release_mailbox).
MailsAccounted ==
    \A m \in Mails :
        LET owners == {t \in Tid : m \in hold[t]}
            queued == UNION {{<<t, i>> : i \in {j \in DOMAIN box[t].mails :
                                                box[t].mails[j] = m}} : t \in Tid}
        IN  /\ mail[m].ref <= 1
            /\ Cardinality(owners) + Cardinality(queued) = mail[m].ref

\* "no lost wakeup" (alloc_mailbox): nobody is parked on a mailbox that has a
\* mail, whatever comes between LISTEN_BLOCK and LISTEN.
NoSleepWithMail ==
    \A t \in Tid : k.wq[MailQ(t)] # <<>> => box[t].mails = <<>>

\* The owner that an irq caches is a thread: "deliver to the thread that
\* registered the IRQ (cached owner tcb, no schedule_lock)" (irq.c).
IrqOwnerLive ==
    \A n \in Lines : \A i \in Members(line[n]) : irq[i].owner \in Live(k)

\* A line is open in the PIC exactly while some irq on it is enabled, however
\* requests, masks, releases and deletions of its sharers interleave.
LinesArmed ==
    \A n \in Lines : n \in unmasked <=> Enabled(n) # {}

\* A queued mail is taken, or goes with its mailbox: no parked thread is
\* overlooked and no mail is overtaken for ever.
MailTaken ==
    \A t \in Tid, m \in Mails :
        m \in Members(box[t].mails) /\ t \in Live(k)
            ~> m \notin Members(box[t].mails) \/ t \notin Live(k)

\* Mailboxes are channels, see MailChannel.
Channel == INSTANCE MailChannel WITH
    open <- Live(k),
    inbox <- [t \in Tid |->
                LET q == box[t].mails
                IN  IF t \in Live(k) THEN [i \in 1 .. Len(q) |-> <<q[Len(q) + 1 - i],
                                                        mail[q[Len(q) + 1 - i]].magic>>]
                    ELSE <<>>]

\* Each mailbox is a first-in first-out channel.
RefinesChannel == Channel!Spec
=============================================================================
