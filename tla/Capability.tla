----------------------------- MODULE Capability -----------------------------
(***************************************************************************)
(* Capabilities (kernel/capability.c): what a process may map, which ports *)
(* and interrupt lines it may use and whether it may do IPC.               *)
(*                                                                         *)
(* The list of a process is a set: a grant refuses what is on the list and *)
(* inheritance fills an empty one.  An OWN_IRQ has its line as base; the   *)
(* types that only say "allowed" have the value 1 as base.                 *)
(***************************************************************************)
EXTENDS Naturals, FiniteSets

CONSTANTS
    Word,           \* 2^32: addresses are below it and wrap at it
    MaxIrq          \* the highest line number, 255

ASSUME CapAssumption == Word \in Nat \ {0} /\ MaxIrq \in Nat

Permissions == {"IPC", "CREATE_KRNL_PROC", "CREATE_KRNL_THREAD"}

CapType == Permissions \cup {"OWN_IRQ", "MAP_MEM", "ACCESS_IO"}

Capability(Flags) ==
    [type : CapType, base : 0 .. Word - 1, size : 0 .. Word - 1, flags : SUBSET Flags]

CapMem(base, size, flags) ==
    [type |-> "MAP_MEM", base |-> base, size |-> size, flags |-> flags]

CapPermission(type) == [type |-> type, base |-> 1, size |-> 0, flags |-> {}]

-----------------------------------------------------------------------------
\* Mutant of InRange: the far end is not compared.
InRange_NearEndOnly(d, c) ==
    c.size # 0 /\ c.base >= d.base /\ c.size <= d.size

\* The range of c, not empty, lies in that of d; by subtraction, so that no
\* sum can wrap.
InRange(d, c) ==
    /\ c.size # 0
    /\ c.base >= d.base
    /\ c.size <= d.size
    /\ c.base - d.base <= d.size - c.size

\* Whether the capability d on the list allows the request c.
Allows(d, c) ==
    /\ d.type = c.type
    /\ d.type = "OWN_IRQ" => d.base = c.base
    /\ d.type = "MAP_MEM" => c.flags \subseteq d.flags /\ InRange(d, c)
    /\ d.type = "ACCESS_IO" => InRange(d, c)
    /\ d.type \in Permissions => d.base # 0

cap_check(caps, c) == \E d \in caps : Allows(d, c)

\* A grant is refused for an empty range, one that wraps, a line that does
\* not exist and a permission that is not 1.
GrantCheck(c) ==
    /\ c.type \in {"MAP_MEM", "ACCESS_IO"} =>
            c.size # 0 /\ (c.base + c.size) % Word >= c.base
    /\ c.type = "OWN_IRQ" => c.base <= MaxIrq
    /\ c.type \in Permissions => c.base = 1

\* Whether cap_grant succeeds, given that there is memory for the entry.
Grantable(caps, c) == GrantCheck(c) /\ c \notin caps

cap_grant(caps, c) == IF Grantable(caps, c) THEN caps \cup {c} ELSE caps

cap_revoke(caps, c) == caps \ {c}

\* What a child may get from its parent's list with room for n entries: all of
\* it, or as many as there is room for.
cap_inherit_all(caps, n) ==
    {s \in SUBSET caps : Cardinality(s) = n \/ (Cardinality(s) < n /\ s = caps)}

=============================================================================
