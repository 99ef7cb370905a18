----------------------------- MODULE Allocator ------------------------------
(***************************************************************************)
(* What callers of malloc and free rely on: the memory one of them gets is *)
(* in the pool, aligned, and shares no byte with what the others hold.     *)
(***************************************************************************)
EXTENDS Naturals

CONSTANTS Total, Align, Requests

VARIABLE held       \* the size asked for, by address

\* The two ranges share no byte, and do not start at the same place.
Apart(a, m, b, n) == a # b /\ (a + m <= b \/ b + n <= a)

Init == held = [a \in {} |-> 0]

Grant(a, n) ==
    /\ a \in Nat \ DOMAIN held /\ a % Align = 0 /\ a + n <= Total
    /\ \A b \in DOMAIN held : Apart(a, n, b, held[b])
    /\ held' = [b \in DOMAIN held \cup {a} |-> IF b = a THEN n ELSE held[b]]

GiveBack(a) == held' = [b \in DOMAIN held \ {a} |-> held[b]]

Next ==
    \/ \E a \in DOMAIN held' \ DOMAIN held : \E n \in Requests : Grant(a, n)
    \/ \E a \in DOMAIN held : GiveBack(a)

Spec == Init /\ [][Next]_held
=============================================================================
