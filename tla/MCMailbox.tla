------------------------------ MODULE MCMailbox -----------------------------
(* Mailbox for TLC: the configurations give the constants their values. *)
EXTENDS Mailbox

\* Process 0 has two threads when there are three, process 1 has the last one.
Processes == [t \in Tid |-> IF t < Cardinality(Tid) - 1 THEN 0 ELSE 1]

\* The newest thread heads thread_head.
BootOrder == {[i \in 1 .. Cardinality(Tid) |-> Cardinality(Tid) - i]}
=============================================================================
