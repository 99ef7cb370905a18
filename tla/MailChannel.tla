----------------------------- MODULE MailChannel ----------------------------
(***************************************************************************)
(* What a mailbox promises: a first-in first-out channel to its thread.    *)
(* Mails are added behind the ones that are there, by one sender or by a   *)
(* broadcast to several channels at once; only the oldest one is taken,    *)
(* and only one at a time; a channel is emptied only when it is closed.    *)
(***************************************************************************)
EXTENDS Sequences, Naturals

CONSTANT Tid

VARIABLES
    open,       \* the threads that have a channel
    inbox       \* the contents of each channel, the oldest first

vars == <<open, inbox>>

Init == open = Tid /\ inbox = [t \in Tid |-> <<>>]

Post ==
    /\ \A t \in open : /\ Len(inbox[t]) <= Len(inbox'[t])
                       /\ SubSeq(inbox'[t], 1, Len(inbox[t])) = inbox[t]
    /\ \A t \in Tid \ open : inbox'[t] = <<>>
    /\ UNCHANGED open

Take(t) ==
    /\ t \in open /\ inbox[t] # <<>>
    /\ inbox' = [inbox EXCEPT ![t] = Tail(@)]
    /\ UNCHANGED open

Close(D) ==
    /\ D \subseteq open
    /\ open' = open \ D
    /\ inbox' = [t \in Tid |-> IF t \in D THEN <<>> ELSE inbox[t]]

Next ==
    \/ Post
    \/ \E t \in Tid : Take(t)
    \/ \E D \in SUBSET Tid : Close(D)

Spec == Init /\ [][Next]_vars
=============================================================================
