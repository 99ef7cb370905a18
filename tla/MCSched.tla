------------------------------- MODULE MCSched ------------------------------
(* Sched for TLC: the configurations give the constants their values. *)
EXTENDS Sched
=============================================================================
