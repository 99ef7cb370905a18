------------------------------- MODULE Locks --------------------------------
(***************************************************************************)
(* The pool of spinlocks (kernel/sync/spinlock.c) and the objects that     *)
(* take their locks from it: processes, threads and their mailboxes,       *)
(* mails, semaphores, irqs and irq lines.  The pool is small, and every    *)
(* path that fails half way has to give back what it took.                 *)
(*                                                                         *)
(* A lock is held only inside a gate, so that between the steps a slot is  *)
(* invalid (free) or unlocked.  out says which allocation of a call finds  *)
(* no memory; 0 is the lock of an object that has none.  A call that fails *)
(* before it took anything is no step.  An object is there while its field *)
(* has a lock; only a mailbox may be missing, and an irq line may have no  *)
(* lock.  A mailbox that a program allocates for itself (mailbox_alloc) is *)
(* a mail in hand that it never sends.                                     *)
(***************************************************************************)
EXTENDS Naturals, FiniteSetsExt

CONSTANTS
  SPIN_LOCK_MAX_COUNT,
  Boot,             \* locks of the kernel itself, allocated for good
  Procs, Threads, Mails, Sems, Irqs, Lines

\* The fields that hold a lock: of pcbs, their capabilities and address spaces, of
\* tcbs, mailboxes, mails, the wait queues of semaphores, irqs and irq lines.
Fields ==
  ({"pcb", "cap", "vcb"} \X Procs) \cup ({"tcb", "box"} \X Threads)
    \cup ({"mail"} \X Mails) \cup ({"wq"} \X Sems) \cup ({"irq"} \X Irqs) \cup ({"line"} \X Lines)

VARIABLES
  taken,            \* the slots that are not LOCK_INVALID
  lock,             \* the slot in every field
  parent,           \* the process of a thread
  place,            \* of a mail: in the "box" or in the "hand" of a thread
  irq_owner,        \* the thread that gets an irq's mails, 0 when its tcb is gone
  irqlines          \* the lines that were made

lockVars == <<taken, lock, parent, place, irq_owner, irqlines>>

Slots == 1..SPIN_LOCK_MAX_COUNT

ASSUME LocksAssumption == SPIN_LOCK_MAX_COUNT \in Nat /\ Boot \subseteq Slots

Nowhere == <<"none", 0>>

-----------------------------------------------------------------------------
\* The slot that is handed out; 0 when the pool is empty.
spinlock_alloc(used) == IF Slots \subseteq used THEN 0 ELSE Min(Slots \ used)

With(used, slot) == IF slot = 0 THEN used ELSE used \cup {slot}

\* A call on no lock does nothing.
spinlock_release(used, slots) == used \ slots

\* The fields of the set are empty; whether their locks go back is said beside it.
Cleared(fields) == [o \in Fields |-> IF o \in fields THEN 0 ELSE lock[o]]
LocksOf(fields) == {lock[o] : o \in fields}

PoolInit ==
  /\ taken = Boot
  /\ lock = [o \in Fields |-> 0]
  /\ parent = [t \in Threads |-> 0]
  /\ place = [m \in Mails |-> Nowhere]
  /\ irq_owner = [i \in Irqs |-> 0]
  /\ irqlines = {}

-----------------------------------------------------------------------------
\* Processes and threads.

ProcLives(p) == lock[<<"pcb", p>>] # 0
ThreadLives(t) == lock[<<"tcb", t>>] # 0

\* The locks of a thread made when used is taken.  The mailbox is the last thing to
\* be made; a thread without one lives on.  Without sp there is no thread.
NewThread(used, out) ==
  LET sp == IF out = "stack" THEN 0 ELSE spinlock_alloc(used)
  IN [sp |-> sp, box |-> IF sp = 0 \/ out = "box" THEN 0 ELSE spinlock_alloc(With(used, sp))]

\* thread_create_ex_internal
ThreadCreate(t, p, out) ==
  LET new == NewThread(taken, out)
  IN /\ ProcLives(p) /\ ~ThreadLives(t) /\ new.sp # 0
     /\ taken' = With(With(taken, new.sp), new.box)
     /\ lock' = [lock EXCEPT ![<<"tcb", t>>] = new.sp, ![<<"box", t>>] = new.box]
     /\ parent' = [parent EXCEPT ![t] = p]
     /\ UNCHANGED <<place, irq_owner, irqlines>>

\* Mutant of Undone: the lock of the capabilities is forgotten.
Undone_KeepsCapLock(used, sp, cap, vcb) == spinlock_release(used, {sp, vcb})

\* The roll-back of p_create_ex.
Undone(used, sp, cap, vcb) == spinlock_release(used, {sp, cap, vcb})

\* p_create_ex
ProcCreate(p, t, out) ==
  LET sp == spinlock_alloc(taken)
      cap == spinlock_alloc(With(taken, sp))
      vcb == spinlock_alloc(With(With(taken, sp), cap))
      used == With(With(With(taken, sp), cap), vcb)
      first == NewThread(used, out)
      made == 0 \notin {sp, cap, vcb, first.sp} /\ out # "space"
  IN /\ ~ProcLives(p) /\ ~ThreadLives(t) /\ sp # 0
     /\ IF made
        THEN /\ taken' = With(With(used, first.sp), first.box)
             /\ lock' = [lock EXCEPT ![<<"pcb", p>>] = sp, ![<<"cap", p>>] = cap,
                                     ![<<"vcb", p>>] = vcb, ![<<"tcb", t>>] = first.sp,
                                     ![<<"box", t>>] = first.box]
             /\ parent' = [parent EXCEPT ![t] = p]
        ELSE taken' = Undone(used, sp, cap, vcb) /\ UNCHANGED <<lock, parent>>
     /\ UNCHANGED <<place, irq_owner, irqlines>>

MailFields(at, t) == {<<"mail", m>> : m \in {n \in Mails : place[n] = <<at, t>>}}
IrqFields(t) == {<<"irq", i>> : i \in {j \in Irqs : irq_owner[j] = t}}

\* The threads are gone, and with them the mails nobody can get at any more.
Gone(ts) ==
  /\ parent' = [t \in Threads |-> IF t \in ts THEN 0 ELSE parent[t]]
  /\ place' = [m \in Mails |-> IF place[m][2] \in ts THEN Nowhere ELSE place[m]]
  /\ irq_owner' = [i \in Irqs |-> IF irq_owner[i] \in ts THEN 0 ELSE irq_owner[i]]
  /\ UNCHANGED irqlines

\* thread_delete_internal: the irqs are released, and release_mailbox frees the
\* mails in the box, not those the thread has in hand.
ThreadDelete(t) ==
  LET freed == {<<"tcb", t>>, <<"box", t>>} \cup MailFields("box", t) \cup IrqFields(t)
  IN /\ ThreadLives(t)
     /\ taken' = spinlock_release(taken, LocksOf(freed))
     /\ lock' = Cleared(freed \cup MailFields("hand", t))
     /\ Gone({t})

\* proc_exit_internal frees the threads one by one and leaves their mailboxes,
\* with the mails in them, and their irqs behind.
ProcExit(p) ==
  LET own == {t \in Threads : ThreadLives(t) /\ parent[t] = p}
      freed == {<<"pcb", p>>, <<"cap", p>>, <<"vcb", p>>} \cup ({"tcb"} \X own)
      left == ({"box"} \X own) \cup UNION {MailFields("box", t) \cup MailFields("hand", t) : t \in own}
  IN /\ ProcLives(p)
     /\ taken' = spinlock_release(taken, LocksOf(freed))
     /\ lock' = Cleared(freed \cup left)
     /\ Gone(own)

-----------------------------------------------------------------------------
\* Mails.

\* Mail m is made, with the lock sp, and is put at a place.
MakeMail(m, sp, at) ==
  /\ lock[<<"mail", m>>] = 0 /\ sp # 0
  /\ taken' = With(taken, sp)
  /\ lock' = [lock EXCEPT ![<<"mail", m>>] = sp]
  /\ place' = [place EXCEPT ![m] = at]
  /\ UNCHANGED <<parent, irq_owner, irqlines>>

AllocMail(m, t) == ThreadLives(t) /\ MakeMail(m, spinlock_alloc(taken), <<"hand", t>>)

\* dispatch_user_mode_irq: the mail is made and queued in one interrupt.
Interrupt(i, m) ==
  /\ lock[<<"irq", i>>] # 0 /\ irq_owner[i] # 0 /\ lock[<<"box", irq_owner[i]>>] # 0
  /\ MakeMail(m, spinlock_alloc(taken), <<"box", irq_owner[i]>>)

InHand(m) == place[m][1] = "hand"

\* send, to a mailbox without handlers.
SendMail(m, u) ==
  /\ InHand(m) /\ lock[<<"box", u>>] # 0
  /\ place' = [place EXCEPT ![m] = <<"box", u>>]
  /\ UNCHANGED <<taken, lock, parent, irq_owner, irqlines>>

\* Mutant of CloneLocks: the clone gets a copy of all the original has.
CloneLocks_Copied(m, clones) == [clones -> {lock[<<"mail", m>>]}]

\* The locks the clones may get: the first free ones, in the order of the threads.
CloneLocks(m, clones) ==
  {sp \in [clones -> Slots \ taken] :
     /\ \A c, d \in clones : sp[c] = sp[d] => c = d
     /\ \A c \in clones, x \in Slots \ taken : x < sp[c] => \E d \in clones : sp[d] = x}

\* send of a broadcast: a clone for every subscriber that gets one, and the
\* original goes at the end.
SendToAll(m, clones, to) ==
  /\ InHand(m) /\ \A c \in clones : lock[<<"mail", c>>] = 0 /\ lock[<<"box", to[c]>>] # 0
  /\ \A c, d \in clones : to[c] = to[d] => c = d
  /\ \E sp \in CloneLocks(m, clones) :
       /\ taken' = spinlock_release(taken \cup {sp[c] : c \in clones}, {lock[<<"mail", m>>]})
       /\ lock' = [o \in Fields |-> IF o = <<"mail", m>> THEN 0
                                    ELSE IF o[1] = "mail" /\ o[2] \in clones THEN sp[o[2]]
                                    ELSE lock[o]]
  /\ place' = [n \in Mails |-> IF n = m THEN Nowhere
                               ELSE IF n \in clones THEN <<"box", to[n]>> ELSE place[n]]
  /\ UNCHANGED <<parent, irq_owner, irqlines>>

\* MAILBOX_CTRL_LISTEN takes a mail out of the thread's own mailbox; which one is
\* in Mailbox.
ListenMail(m) ==
  /\ place[m][1] = "box"
  /\ place' = [place EXCEPT ![m][1] = "hand"]
  /\ UNCHANGED <<taken, lock, parent, irq_owner, irqlines>>

\* release_mail; send does the same to a mail whose receiver is gone, has no
\* mailbox, or has handlers.
ReleaseMail(m) ==
  /\ InHand(m)
  /\ taken' = spinlock_release(taken, {lock[<<"mail", m>>]})
  /\ lock' = Cleared({<<"mail", m>>})
  /\ place' = [place EXCEPT ![m] = Nowhere]
  /\ UNCHANGED <<parent, irq_owner, irqlines>>

-----------------------------------------------------------------------------
\* Semaphores.

\* semaphore_create and wait_queue_init
SemCreate(s) ==
  LET wq == spinlock_alloc(taken)
  IN /\ lock[<<"wq", s>>] = 0 /\ wq # 0
     /\ taken' = With(taken, wq)
     /\ lock' = [lock EXCEPT ![<<"wq", s>>] = wq]
     /\ UNCHANGED <<parent, place, irq_owner, irqlines>>

\* semaphore_destroy, without waiters
SemDestroy(s) ==
  /\ lock[<<"wq", s>>] # 0
  /\ taken' = spinlock_release(taken, {lock[<<"wq", s>>]})
  /\ lock' = Cleared({<<"wq", s>>})
  /\ UNCHANGED <<parent, place, irq_owner, irqlines>>

-----------------------------------------------------------------------------
\* Interrupts.  A line is made for its first irq and stays.

\* irqline_alloc, unless the line is there: it does not look whether it got a lock.
LineLock(l, used) == IF l \in irqlines THEN lock[<<"line", l>>] ELSE spinlock_alloc(used)

\* irq_request_internal with IRQ_ANY_MINOR: the line is made before the irq, and
\* stays when there is no lock or no memory for the irq.
IrqRequestAny(i, l, t, out) ==
  LET ln == LineLock(l, taken)
      ir == IF out = "irq" THEN 0 ELSE spinlock_alloc(With(taken, ln))
  IN /\ ThreadLives(t) /\ lock[<<"irq", i>>] = 0
     /\ taken' = With(With(taken, ln), ir)
     /\ lock' = [lock EXCEPT ![<<"line", l>>] = ln, ![<<"irq", i>>] = ir]
     /\ irq_owner' = [irq_owner EXCEPT ![i] = IF ir = 0 THEN 0 ELSE t]
     /\ irqlines' = irqlines \cup {l}
     /\ UNCHANGED <<parent, place>>

\* irq_request_internal with a minor: the irq comes first, and goes again when
\* there is no memory for the line or the minor is in use on it.
IrqRequest(i, l, t, out) ==
  LET ir == spinlock_alloc(taken)
      ln == LineLock(l, With(taken, ir))
  IN /\ ThreadLives(t) /\ lock[<<"irq", i>>] = 0 /\ ir # 0
     /\ \/ /\ out = "none"
           /\ taken' = With(With(taken, ir), ln)
           /\ lock' = [lock EXCEPT ![<<"line", l>>] = ln, ![<<"irq", i>>] = ir]
           /\ irq_owner' = [irq_owner EXCEPT ![i] = t]
           /\ irqlines' = irqlines \cup {l}
        \/ /\ (out = "line" /\ l \notin irqlines) \/ (out = "inuse" /\ l \in irqlines)
           /\ taken' = spinlock_release(With(taken, ir), {ir})
           /\ UNCHANGED <<lock, irq_owner, irqlines>>
     /\ UNCHANGED <<parent, place>>

\* irq_release_internal, by the thread that has the handle.
IrqRelease(i) ==
  /\ lock[<<"irq", i>>] # 0 /\ irq_owner[i] # 0
  /\ taken' = spinlock_release(taken, {lock[<<"irq", i>>]})
  /\ lock' = Cleared({<<"irq", i>>})
  /\ irq_owner' = [irq_owner EXCEPT ![i] = 0]
  /\ UNCHANGED <<parent, place, irqlines>>

-----------------------------------------------------------------------------
PoolNext ==
  \/ \E p \in Procs :
       \/ ProcExit(p)
       \/ \E t \in Threads :
            \/ \E out \in {"none", "space", "stack", "box"} : ProcCreate(p, t, out)
            \/ \E out \in {"none", "stack", "box"} : ThreadCreate(t, p, out)
  \/ \E t \in Threads : ThreadDelete(t)
  \/ \E m \in Mails :
       \/ ListenMail(m) \/ ReleaseMail(m)
       \/ \E t \in Threads : AllocMail(m, t) \/ SendMail(m, t)
       \/ \E clones \in SUBSET (Mails \ {m}) :
            \E to \in [clones -> Threads] : SendToAll(m, clones, to)
       \/ \E i \in Irqs : Interrupt(i, m)
  \/ \E s \in Sems : SemCreate(s) \/ SemDestroy(s)
  \/ \E i \in Irqs :
       \/ IrqRelease(i)
       \/ \E l \in Lines, t \in Threads :
            \/ \E out \in {"none", "irq"} : IrqRequestAny(i, l, t, out)
            \/ \E out \in {"none", "line", "inuse"} : IrqRequest(i, l, t, out)

PoolSpec == PoolInit /\ [][PoolNext]_lockVars

-----------------------------------------------------------------------------
Locked == {o \in Fields : lock[o] # 0}

\* Through creations that fail at any point for want of a lock or of memory,
\* broadcasts, exits and deletions: no lock goes back to the pool while its
\* object lives, and none is shared by two objects or with the kernel itself.
LocksOwned ==
  /\ Boot \cup LocksOf(Locked) \subseteq taken
  /\ \A o, q \in Locked : lock[o] = lock[q] => o = q
  /\ Boot \cap LocksOf(Locked) = {}

\* The locks that are taken and belong to nothing.
Lost == taken \ (Boot \cup LocksOf(Locked))

\* A lock is lost in three ways only, each at the end of a thread: the mails the
\* thread had in hand, and, when the whole process exits, its mailbox and the
\* mails in it.  No roll-back, release or deletion loses any other.
LocksLost ==
  [][\A x \in Lost' \ Lost : \E t \in Threads :
       /\ ThreadLives(t) /\ ~ThreadLives(t)'
       /\ \/ x \in LocksOf(MailFields("hand", t))
          \/ /\ lock'[<<"pcb", parent[t]>>] = 0
             /\ x \in LocksOf({<<"box", t>>} \cup MailFields("box", t))]_lockVars
=============================================================================
