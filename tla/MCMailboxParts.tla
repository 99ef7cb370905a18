--------------------------- MODULE MCMailboxParts ---------------------------
(***************************************************************************)
(* Mailbox with its two halves checked side by side: behaviours without    *)
(* interrupts, and behaviours in which all mails come from interrupts and  *)
(* no process exits.  Their states add up instead of multiplying.          *)
(***************************************************************************)
EXTENDS MCMailbox

VARIABLE part

FromLines == INSTANCE Mailbox WITH Producers <- {}, MaxHandlers <- 0, MaxHold <- 1,
                                   Mails <- {1, 2}, MayExit <- FALSE

PartsInit == Init /\ part \in {"mails", "lines"}

PartsNext ==
    /\ UNCHANGED part
    /\ \/ part = "mails" /\ Next /\ UNCHANGED <<irq, line, unmasked>>
       \/ part = "lines" /\ FromLines!Next

PartsSpec == PartsInit /\ [][PartsNext]_<<vars, part>>
=============================================================================
