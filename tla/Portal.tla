------------------------------- MODULE Portal -------------------------------
(***************************************************************************)
(* Portal calls (kernel/ipc/portal.c): clients that run portal_call(), one *)
(* server that runs the loop portal_wait() / portal_reply() of the user    *)
(* servers, and threads that just compute.  Between calls a client may     *)
(* park in user_mail_listen() until a key arrives in its mailbox.          *)
(*                                                                         *)
(* Each call of portal_exec is one gate, issued by the running thread; the *)
(* timer may switch threads between any two gates.  A blocked caller goes  *)
(* on in user mode behind its system call, so a thread's program counter   *)
(* moves when it issues the call, not when it is resumed.                  *)
(***************************************************************************)
EXTENDS KThreads

CONSTANTS
    Clients, Server,
    Orders,             \* the orders on thread_head to start from
    MaxReqs,            \* bound on the requests that exist at a time
    Rets,               \* what the server answers
    NoReq, NoReply,     \* NULL; resp.ret as memset leaves it
    MayDestroy          \* whether the server may call portal_destroy()

Reqs == 1 .. MaxReqs
ReqSem == 0                         \* portal.req_sem
DoneSem(r) == r                     \* portal_req.done_sem
MailQ(c) == MaxReqs + 1 + c         \* the waiters of the client's mailbox

ASSUME PortalAssumption ==
    /\ Server \in Tid /\ Clients \subseteq Tid \ {Server} /\ Pid = Tid
    /\ IsFiniteSet(Tid)
    /\ \A s \in Orders : s \in [1 .. Cardinality(Tid) -> Tid] /\ Members(s) = Tid
    /\ MaxReqs \in Nat
    /\ WaitQ = {ReqSem} \cup Reqs \cup {MailQ(c) : c \in Clients}
    /\ NoReq \notin Reqs /\ NoReply \notin Rets
    /\ MayDestroy \in BOOLEAN

VARIABLES
    k,          \* the kernel's thread state, see KThreads
    portal,     \* "none", "live" or "dead"
    reqs,       \* portal.reqs, the newest request first
    req,        \* the portal_req structures
    mapped,     \* the clients whose buffer is shared with the server
    mail,       \* the clients with a mail in their mailbox
    pc,         \* the next system call of each thread
    hold,       \* the request handle each thread has
    result      \* what the client's last portal_call() returns

pvars == <<portal, reqs, req, mapped>>
vars == <<k, pvars, mail, pc, hold, result>>

\* After boot: every thread is in a process of its own and ready; the server
\* has not created its portal yet.
Init ==
    /\ \E s \in Orders, t \in Tid :
        /\ k = [order  |-> s,
                run    |-> t,
                st     |-> [u \in Tid |-> "ready"],
                pend   |-> [u \in Tid |-> FALSE],
                parent |-> [u \in Tid |-> u],
                won    |-> [u \in Tid |-> NoQueue],
                wq     |-> [q \in WaitQ |-> <<>>],
                val    |-> [q \in WaitQ |-> 0],
                sem    |-> [q \in WaitQ |-> "none"],
                ps     |-> [p \in Pid |-> "live"],
                ctx    |-> NoThread,
                vcb    |-> NoProc,
                cur    |-> t,
                cr3    |-> t]
    /\ portal = "none"
    /\ reqs = <<>>
    /\ req = [r \in Reqs |-> [st |-> "none", client |-> NoThread,
                              dequeued |-> FALSE, resp |-> NoReply]]
    /\ mapped = {}
    /\ mail = {}
    /\ pc = [t \in Tid |-> CASE t = Server -> "init"
                             [] t \in Clients -> "idle"
                             [] OTHER -> "compute"]
    /\ hold = [t \in Tid |-> NoReq]
    /\ result = [c \in Clients |-> NoReply]

-----------------------------------------------------------------------------
\* The running thread t issues the system call its program stands at.
Call(t, at, next) == k.run = t /\ pc[t] = at /\ pc' = [pc EXCEPT ![t] = next]

\* The gate's body leaves the thread state new.
Gate(new) == \E n \in {new} : k' = arch_task_context_switch(n)

PortalInit ==
    /\ Call(Server, "init", "wait")
    /\ portal' = "live"
    /\ Gate(semaphore_create(k, ReqSem))
    /\ UNCHANGED <<reqs, req, mapped, mail, hold, result>>

\* kmalloc: a structure that is not in use.  The number of a freed one serves again
\* once no thread has its handle, so that calls may go on for ever and a stale
\* handle is never taken for a live one.
Unused(r) == req[r].st # "live" /\ \A t \in Tid : hold[t] # r

\* Mutant of PortalCall: the request is posted without a signal.
PortalCall_NoSignal(c) ==
    \E r \in Reqs :
        /\ Call(c, "idle", "wait_reply")
        /\ portal = "live" /\ c \notin mapped
        /\ Unused(r) /\ \A s \in Reqs : s < r => ~Unused(s)
        /\ req' = [req EXCEPT ![r] = [st |-> "live", client |-> c,
                                      dequeued |-> FALSE, resp |-> NoReply]]
        /\ reqs' = list_add(r, reqs)
        /\ mapped' = mapped \cup {c}
        /\ hold' = [hold EXCEPT ![c] = r]
        /\ Gate(semaphore_create(k, DoneSem(r)))
        /\ UNCHANGED <<portal, mail, result>>

\* A call that fails (no portal, buffer already shared, no memory) is rolled
\* back and leaves everything as it was.
PortalCall(c) ==
    \E r \in Reqs :
        /\ Call(c, "idle", "wait_reply")
        /\ portal = "live" /\ c \notin mapped
        /\ Unused(r) /\ \A s \in Reqs : s < r => ~Unused(s)
        /\ req' = [req EXCEPT ![r] = [st |-> "live", client |-> c,
                                      dequeued |-> FALSE, resp |-> NoReply]]
        /\ reqs' = list_add(r, reqs)
        /\ mapped' = mapped \cup {c}
        /\ hold' = [hold EXCEPT ![c] = r]
        /\ Gate(semaphore_signal(semaphore_create(k, DoneSem(r)), ReqSem))
        /\ UNCHANGED <<portal, mail, result>>

\* The handle a system call dereferences; what follows the use of a freed
\* one is undefined, and NoUseAfterFree looks at the state before.
Deref(t) == req[hold[t]]

PortalWaitReply(c) ==
    /\ Call(c, "wait_reply", "get_result")
    /\ Deref(c).st = "live"
    /\ Gate(semaphore_wait(k, DoneSem(hold[c])))
    /\ UNCHANGED <<pvars, mail, hold, result>>

PortalGetResult(c) ==
    /\ Call(c, "get_result", "cleanup")
    /\ Deref(c).st = "live"
    /\ result' = [result EXCEPT ![c] = Deref(c).resp]
    /\ Gate(k)
    /\ UNCHANGED <<pvars, mail, hold>>

PortalCleanup(c) ==
    /\ Call(c, "cleanup", "idle")
    /\ Deref(c).st = "live"
    /\ mapped' = mapped \ {c}
    /\ reqs' = IF Deref(c).dequeued THEN reqs ELSE list_del({hold[c]}, reqs)
    /\ req' = [req EXCEPT ![hold[c]].st = "dead"]
    /\ hold' = [hold EXCEPT ![c] = NoReq]
    /\ Gate(semaphore_destroy(k, DoneSem(hold[c])))
    /\ UNCHANGED <<portal, mail, result>>

PortalWait ==
    /\ Call(Server, "wait", "get_req")
    /\ portal = "live"
    /\ Gate(semaphore_wait(k, ReqSem))
    /\ UNCHANGED <<pvars, mail, hold, result>>

\* Mutant of PortalGetReq: the request stays on the list.
PortalGetReq_KeepsEntry ==
    /\ Call(Server, "get_req", IF reqs = <<>> THEN "wait" ELSE "reply")
    /\ IF reqs = <<>>
       THEN UNCHANGED <<req, hold>>
       ELSE /\ req' = [req EXCEPT ![reqs[1]].dequeued = TRUE]
            /\ hold' = [hold EXCEPT ![Server] = reqs[1]]
    /\ Gate(k)
    /\ UNCHANGED <<portal, reqs, mapped, mail, result>>

\* Mutant of PortalGetReq: the request is not marked as handed out.
PortalGetReq_Unmarked ==
    /\ Call(Server, "get_req", IF reqs = <<>> THEN "wait" ELSE "reply")
    /\ IF reqs = <<>>
       THEN UNCHANGED <<reqs, hold>>
       ELSE /\ reqs' = list_del({reqs[1]}, reqs)
            /\ hold' = [hold EXCEPT ![Server] = reqs[1]]
    /\ Gate(k)
    /\ UNCHANGED <<portal, req, mapped, mail, result>>

\* portal_wait() returns NULL when the list is empty, and the server waits again.
PortalGetReq ==
    /\ Call(Server, "get_req", IF reqs = <<>> THEN "wait" ELSE "reply")
    /\ IF reqs = <<>>
       THEN UNCHANGED <<reqs, req, hold>>
       ELSE /\ reqs' = list_del({reqs[1]}, reqs)
            /\ req' = [req EXCEPT ![reqs[1]].dequeued = TRUE]
            /\ hold' = [hold EXCEPT ![Server] = reqs[1]]
    /\ Gate(k)
    /\ UNCHANGED <<portal, mapped, mail, result>>

\* Mutant of PortalReply: the client is not signalled.
PortalReply_NoSignal ==
    \E ret \in Rets :
        /\ Call(Server, "reply", "wait")
        /\ req' = [req EXCEPT ![hold[Server]].resp = ret]
        /\ hold' = [hold EXCEPT ![Server] = NoReq]
        /\ Gate(k)
        /\ UNCHANGED <<portal, reqs, mapped, mail, result>>

PortalReply ==
    \E ret \in Rets :
        /\ Call(Server, "reply", "wait")
        /\ Deref(Server).st = "live"
        /\ req' = [req EXCEPT ![hold[Server]].resp = ret]
        /\ hold' = [hold EXCEPT ![Server] = NoReq]
        /\ Gate(semaphore_signal(k, DoneSem(hold[Server])))
        /\ UNCHANGED <<portal, reqs, mapped, mail, result>>

\* Refused with E_BUSY while a client of a queued request is parked.  The
\* buffers of the queued requests stay shared with the server.
PortalDestroy ==
    LET queued == Members(reqs)
        emptied == [k EXCEPT !.sem = [q \in WaitQ |->
                        IF q \in {DoneSem(r) : r \in queued} \cup {ReqSem}
                        THEN "dead" ELSE k.sem[q]]]
    IN  /\ MayDestroy
        /\ Call(Server, "wait", "compute")
        /\ ~semaphore_has_waiters(k, ReqSem)
        /\ \A r \in queued : ~semaphore_has_waiters(k, DoneSem(r))
        /\ portal' = "dead"
        /\ reqs' = <<>>
        /\ req' = [r \in Reqs |-> IF r \in queued
                                  THEN [req[r] EXCEPT !.st = "dead"] ELSE req[r]]
        /\ Gate(emptied)
        /\ UNCHANGED <<mapped, mail, hold, result>>

-----------------------------------------------------------------------------
(* user_mail_listen(): LISTEN_BLOCK parks unless a mail is there, LISTEN     *)
(* takes it or the loop starts again.                                        *)

ListenBlock(c) ==
    /\ k.run = c /\ pc[c] \in {"idle", "listen"}
    /\ pc' = [pc EXCEPT ![c] = "take"]
    /\ Gate(IF c \in mail THEN k ELSE wait_queue_sleep(k, MailQ(c)))
    /\ UNCHANGED <<pvars, mail, hold, result>>

Listen(c) ==
    /\ Call(c, "take", IF c \in mail THEN "idle" ELSE "listen")
    /\ mail' = mail \ {c}
    /\ Gate(k)
    /\ UNCHANGED <<pvars, hold, result>>

\* An interrupt handler posts a mail to a client (send_mail).
KeyInterrupt(c) ==
    /\ c \notin mail
    /\ mail' = mail \cup {c}
    /\ Gate(wait_queue_wake_one(k, MailQ(c)))
    /\ UNCHANGED <<pvars, pc, hold, result>>

\* schedule_isr, at the end of a time slice.
schedule_isr ==
    /\ Gate(Reschedule(k))
    /\ UNCHANGED <<pvars, mail, pc, hold, result>>

ClientCall(c) ==
    PortalWaitReply(c) \/ PortalGetResult(c) \/ PortalCleanup(c)

ClientStep(c) == PortalCall(c) \/ ClientCall(c) \/ ListenBlock(c) \/ Listen(c)

ServerStep ==
    PortalInit \/ PortalWait \/ PortalGetReq \/ PortalReply \/ PortalDestroy

Next ==
    \/ \E c \in Clients : ClientStep(c) \/ KeyInterrupt(c)
    \/ ServerStep
    \/ schedule_isr

\* The timer keeps firing, and a time slice is long enough for the thread that
\* gets it to reach its next system call.  No client has to start a call.
Fairness ==
    /\ WF_vars(schedule_isr)
    /\ SF_vars(ServerStep)
    /\ \A c \in Clients : SF_vars(ClientCall(c))

Spec == Init /\ [][Next]_vars /\ Fairness

-----------------------------------------------------------------------------
\* "Runs only after the client has been woken ..., so resp.ret is fresh"
\* (portal.c, GET_RESULT): what portal_call() is about to return was stored by
\* a reply to this very request.
FreshResult ==
    \A c \in Clients : pc[c] = "cleanup" => result[c] \in Rets

\* No thread holds the handle of a freed request: not the client between its
\* calls, not the server that is working on one (portal.c, DESTROY: "freeing
\* the req / sem would strand the waiter on a freed handle").
NoUseAfterFree ==
    \A t \in Tid : hold[t] # NoReq => req[hold[t]].st = "live"

\* As long as the portal exists no handle outlives its request: CLEANUP and
\* GET_REQ, in whatever order the client and the server come to them, free
\* nothing that the other still holds (portal.c, CLEANUP).
HandlesLive ==
    portal # "dead" => NoUseAfterFree

\* "Wake the server: one signal per posted request" (portal.c, CALL): a server
\* that sleeps in WAIT has nothing to do, so no request is left behind.
NoLostRequest ==
    pc[Server] = "get_req" /\ k.st[Server] = "pending" /\ k.run # Server =>
        reqs = <<>>

\* No client sleeps on a reply that was already given, and what a semaphore
\* owes is exactly what its sleepers wait for: no wakeup is lost or doubled
\* between semaphore_wait, semaphore_signal and the scheduler.  None is parked on
\* a semaphore that was freed, whenever the server tears its portal down
\* ("freeing the req / sem would strand the waiter on a freed handle", DESTROY).
SemaphoresBalanced ==
    \A q \in {ReqSem} \cup Reqs :
        IF k.sem[q] = "live" /\ k.val[q] < 0 THEN Len(k.wq[q]) = 0 - k.val[q]
        ELSE k.wq[q] = <<>>

\* A request is queued, or handed to the server, or answered: it is on
\* portal.reqs exactly while it is live and not dequeued, and the server has
\* it exactly from GET_REQ to REPLY (portal.c, GET_REQ and CLEANUP).
RequestsAccounted ==
    \A r \in Reqs :
        /\ r \in Members(reqs) <=> req[r].st = "live" /\ ~req[r].dequeued
        /\ hold[Server] = r <=>
               req[r].st = "live" /\ req[r].dequeued /\ req[r].resp = NoReply

\* Another client's request goes in front of c's, which is still queued.
Overtakes(c) == hold[c] \in Members(reqs) /\ Len(reqs') > Len(reqs)

\* portal_call() returns: a posted request is answered and cleaned up, with calls
\* coming in for ever, unless other clients overtake it over and over: GET_REQ takes
\* the newest request (list_add, portal.c), so nothing bounds the wait of the oldest.
CallReturns ==
    \A c \in Clients :
        (pc[c] = "wait_reply" ~> pc[c] = "idle") \/ []<><<Overtakes(c)>>_vars

-----------------------------------------------------------------------------
\* What a caller sees of its call: where it stands, and the answer once there is
\* one, until GET_RESULT has read it.
InProgress(c) == pc[c] \in {"wait_reply", "get_result"}

Phase == [c \in Clients |->
            IF ~InProgress(c) THEN "idle"
            ELSE IF req[hold[c]].resp = NoReply THEN "called" ELSE "answered"]

Answer == [c \in Clients |->
            IF InProgress(c) THEN req[hold[c]].resp ELSE NoReply]

\* The promise of a portal, see PortalRPC.
RPC == INSTANCE PortalRPC WITH
    phase <- Phase, answer <- Answer, returned <- result

\* Portal calls implement remote procedure calls.
RefinesRPC == RPC!Spec
=============================================================================
