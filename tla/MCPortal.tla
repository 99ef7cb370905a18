------------------------------ MODULE MCPortal ------------------------------
(* Portal for TLC: the configurations give the constants their values. *)
EXTENDS Portal

\* The scan for the next thread is circular and no thread comes or goes, so
\* only the circular order of the threads matters: the server is put first.
AllOrders ==
    {s \in [1 .. Cardinality(Tid) -> Tid] : Members(s) = Tid /\ s[1] = Server}

\* For the temporal properties: one order.
OneOrder == {s \in AllOrders : \A i, j \in 2 .. Len(s) : i < j => s[i] < s[j]}
=============================================================================
