------------------------------ MODULE PortalRPC -----------------------------
(***************************************************************************)
(* What a portal promises its clients: portal_call() is a remote procedure *)
(* call.  No call is answered twice, portal_call() returns only after its  *)
(* answer and with that answer.  While calls wait, one of them is answered *)
(* (the newest may always go first), and an answered call returns.         *)
(***************************************************************************)
CONSTANTS Clients, Rets, NoReply

VARIABLES
    phase,      \* of each client: "idle", "called" or "answered"
    answer,     \* the answer to the call in progress
    returned    \* what the last call returned

vars == <<phase, answer, returned>>

Init ==
    /\ phase = [c \in Clients |-> "idle"]
    /\ answer = [c \in Clients |-> NoReply]
    /\ returned = [c \in Clients |-> NoReply]

Request(c) ==
    /\ phase[c] = "idle"
    /\ phase' = [phase EXCEPT ![c] = "called"]
    /\ UNCHANGED <<answer, returned>>

Answer(c) ==
    /\ phase[c] = "called"
    /\ phase' = [phase EXCEPT ![c] = "answered"]
    /\ \E ret \in Rets : answer' = [answer EXCEPT ![c] = ret]
    /\ UNCHANGED returned

Return(c) ==
    /\ phase[c] = "answered"
    /\ phase' = [phase EXCEPT ![c] = "idle"]
    /\ returned' = [returned EXCEPT ![c] = answer[c]]
    /\ answer' = [answer EXCEPT ![c] = NoReply]

Next == \E c \in Clients : Request(c) \/ Answer(c) \/ Return(c)

Spec ==
    /\ Init /\ [][Next]_vars
    /\ WF_vars(\E c \in Clients : Answer(c))
    /\ \A c \in Clients : WF_vars(Return(c))
=============================================================================
