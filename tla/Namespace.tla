----------------------------- MODULE Namespace ------------------------------
(***************************************************************************)
(* The namespace server and its clients in userlib.c: servers publish a    *)
(* portal with an id the kernel chooses and register it under a name,      *)
(* clients resolve the name, keep the id in a cache and call it.           *)
(*                                                                         *)
(* A request is one step of the single server thread; that its answer      *)
(* reaches the caller that waits for it is PortalRPC.  Names and ids of a  *)
(* mailbox travel with the portal's id and are left out, and so are        *)
(* requests that are too short or have no name: they change nothing.       *)
(***************************************************************************)
EXTENDS Naturals, Sequences, SequencesExt

CONSTANTS
  Servers,          \* one name each
  Clients,
  NS_MAX_ENTRIES,
  MaxPortals,       \* bound: portals published
  MaxTries          \* rounds of a client's or a server's retry loop

VARIABLES
  up,               \* the namespace server has published its portal
  ns_table,         \* the entries, [name, portal], in the order of the array
  owner,            \* the portals: the server of each id
  server,           \* [pc, portal, tries] of each server
  client,           \* [pc, name, cached, tries] of each client
  registered        \* what was last registered under each name, 0 for nothing

nameVars == <<up, ns_table, owner, server, client, registered>>

-----------------------------------------------------------------------------
\* ns_find; 0 for none.
ns_find(name) ==
  SelectInSeq(ns_table, LAMBDA e : e.name = name)

\* NS_REGISTER overwrites the entry of the name or takes a new one.
TableWith(name, id) ==
  LET entry == [name |-> name, portal |-> id]
  IN IF ns_find(name) # 0 THEN [ns_table EXCEPT ![ns_find(name)] = entry]
     ELSE IF Len(ns_table) < NS_MAX_ENTRIES THEN Append(ns_table, entry)
     ELSE ns_table

Accepted(name) == up /\ (ns_find(name) # 0 \/ Len(ns_table) < NS_MAX_ENTRIES)

\* Mutant of Lookup: a name that is not found gives the first entry.
Lookup_First(name) ==
  IF ~up \/ ns_table = << >> THEN 0
  ELSE ns_table[IF ns_find(name) # 0 THEN ns_find(name) ELSE 1].portal

\* NS_LOOKUP
Lookup(name) == IF up /\ ns_find(name) # 0 THEN ns_table[ns_find(name)].portal ELSE 0

NamesInit ==
  /\ up = FALSE
  /\ ns_table = << >>
  /\ owner = << >>
  /\ server = [s \in Servers |-> [pc |-> "init", portal |-> 0, tries |-> 0]]
  /\ client \in [Clients -> {[pc |-> "resolve", name |-> s, cached |-> 0, tries |-> 0] :
                             s \in Servers}]
  /\ registered = [s \in Servers |-> 0]

-----------------------------------------------------------------------------
NamespaceUp ==
  /\ ~up
  /\ up' = TRUE
  /\ UNCHANGED <<ns_table, owner, server, client, registered>>

\* PORTAL_CTRL_INIT with an id of its own choice.
Publish(s) ==
  /\ server[s].pc = "init" /\ Len(owner) < MaxPortals
  /\ owner' = Append(owner, s)
  /\ server' = [server EXCEPT ![s] = [pc |-> "register", portal |-> Len(owner'), tries |-> 0]]
  /\ UNCHANGED <<up, ns_table, client, registered>>

\* One round of the loop around ns_register; a server that gives up serves all
\* the same, under no name.
Register(s) ==
  LET ok == Accepted(s)
  IN /\ server[s].pc = "register"
     /\ server' = [server EXCEPT ![s].tries = @ + 1,
                     ![s].pc = IF ok \/ server[s].tries + 1 = MaxTries THEN "serve" ELSE @]
     /\ ns_table' = IF up THEN TableWith(s, server[s].portal) ELSE ns_table
     /\ registered' = IF ok THEN [registered EXCEPT ![s] = server[s].portal] ELSE registered
     /\ UNCHANGED <<up, owner, client>>

\* Mutant of Unregister: the array is not closed up, its last entry goes.
Unregister_Last(s) ==
  /\ up /\ server[s].pc = "serve" /\ ns_find(s) # 0
  /\ ns_table' = SubSeq(ns_table, 1, Len(ns_table) - 1)
  /\ registered' = [registered EXCEPT ![s] = 0]
  /\ server' = [server EXCEPT ![s].pc = "init"]
  /\ UNCHANGED <<up, owner, client>>

\* NS_UNREGISTER by the owner of the name, which may publish another portal.
Unregister(s) ==
  /\ up /\ server[s].pc = "serve" /\ ns_find(s) # 0
  /\ ns_table' = RemoveAt(ns_table, ns_find(s))
  /\ registered' = [registered EXCEPT ![s] = 0]
  /\ server' = [server EXCEPT ![s].pc = "init"]
  /\ UNCHANGED <<up, owner, client>>

\* ns_portal_id: the cache, or a lookup that fills it.  After MaxTries rounds
\* console_putstr drops its text.
Resolve(c) ==
  LET id == IF client[c].cached # 0 THEN client[c].cached ELSE Lookup(client[c].name)
      gone == client[c].tries + 1 = MaxTries
  IN /\ client[c].pc = "resolve"
     /\ client' = [client EXCEPT ![c].cached = id, ![c].tries = IF id = 0 THEN @ + 1 ELSE @,
                     ![c].pc = IF id # 0 THEN "call" ELSE IF gone THEN "idle" ELSE @]
     /\ UNCHANGED <<up, ns_table, owner, server, registered>>

\* user_portal_call succeeds or, if the kernel refuses the buffer, fails: the
\* cache is cleared for the next round.
Call(c) ==
  LET gone == client[c].tries + 1 = MaxTries
  IN /\ client[c].pc = "call"
     /\ \/ client' = [client EXCEPT ![c].pc = "idle"]
        \/ client' = [client EXCEPT ![c].cached = 0, ![c].tries = @ + 1,
                        ![c].pc = IF gone THEN "idle" ELSE "resolve"]
     /\ UNCHANGED <<up, ns_table, owner, server, registered>>

\* The next console_putstr of the same process finds the cache.
Again(c) ==
  /\ client[c].pc = "idle"
  /\ client' = [client EXCEPT ![c].pc = "resolve", ![c].tries = 0]
  /\ UNCHANGED <<up, ns_table, owner, server, registered>>

NamesNext ==
  \/ NamespaceUp
  \/ \E s \in Servers : Publish(s) \/ Register(s) \/ Unregister(s)
  \/ \E c \in Clients : Resolve(c) \/ Call(c) \/ Again(c)

NamesSpec == NamesInit /\ [][NamesNext]_nameVars

-----------------------------------------------------------------------------
\* The array is a map: after any sequence of registrations, refused ones in a
\* full table and removals that close the gap included, each name has at most
\* one entry and a lookup gives what was registered under it last.
LookupTrue ==
  /\ \A s \in Servers : up => Lookup(s) = registered[s]
  /\ \A i, j \in DOMAIN ns_table : ns_table[i].name = ns_table[j].name => i = j

\* The id a client is about to call, from a lookup or from a cache that may be
\* as old as the process, is a portal of the server that owns the name.
RightServer ==
  \A c \in Clients :
    client[c].cached # 0 =>
      client[c].cached \in DOMAIN owner /\ owner[client[c].cached] = client[c].name
=============================================================================
