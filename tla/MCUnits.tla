------------------------------ MODULE MCUnits -------------------------------
(***************************************************************************)
(* Six parts that share no state, each checked on its own: a behaviour     *)
(* picks one of them, and the others keep their initial state.  The states *)
(* of the parts add up instead of multiplying.                             *)
(***************************************************************************)
EXTENDS Heap, Syscall, Namespace, Locks, Console

CONSTANT TreeKeys

VARIABLES unit, tree, linked

Tree == INSTANCE RBTree WITH Keys <- TreeKeys, held <- linked

treeVars == <<tree, linked>>

\* What the console's clients ask for: a line, clearing the screen and homing the
\* cursor, and every control frame.
MCPayloads ==
  {[kind |-> "text", text |-> t] : t \in {<<"c", "n">>, <<"J", "H">>}}
    \cup {[kind |-> f] : f \in {"clear", "mode13", "mode3", "badmode", "blit"}}

UnitInit ==
  /\ unit \in {"heap", "tree", "names", "gate", "locks", "console"}
  /\ Init /\ Tree!Init /\ NamesInit /\ GateInit /\ PoolInit /\ ScreenInit
  /\ unit # "gate" => cur = CHOOSE c \in Callers : TRUE
  /\ unit # "console" => windows = [text |-> TRUE, frame |-> TRUE]
  /\ unit # "names" => \A c \in Clients : client[c].name = CHOOSE s \in Servers : TRUE

UnitNext ==
  /\ UNCHANGED unit
  /\ \/ unit = "heap" /\ Next /\ UNCHANGED <<treeVars, nameVars, gateVars, lockVars, screenVars>>
     \/ unit = "tree" /\ Tree!Next /\ UNCHANGED <<vars, nameVars, gateVars, lockVars, screenVars>>
     \/ unit = "names" /\ NamesNext /\ UNCHANGED <<vars, treeVars, gateVars, lockVars, screenVars>>
     \/ unit = "gate" /\ GateNext /\ UNCHANGED <<vars, treeVars, nameVars, lockVars, screenVars>>
     \/ unit = "locks" /\ PoolNext /\ UNCHANGED <<vars, treeVars, nameVars, gateVars, screenVars>>
     \/ unit = "console" /\ ScreenNext /\ UNCHANGED <<vars, treeVars, nameVars, gateVars, lockVars>>

UnitSpec ==
  UnitInit
    /\ [][UnitNext]_<<unit, vars, treeVars, nameVars, gateVars, lockVars, screenVars>>

\* The properties of the tree.
Ordered == Tree!Ordered
Balanced == Tree!Balanced
=============================================================================
