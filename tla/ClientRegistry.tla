-------------------------- MODULE ClientRegistry --------------------------
(***************************************************************************)
(* What the server promises about its clients, without threads, vectors or *)
(* descriptors: a client that connects is given to one cell, stays in that *)
(* cell as long as it is connected, leaves it some time after it has       *)
(* disconnected, and never comes back.  EasyTcpServer implements this.     *)
(***************************************************************************)
EXTENDS FiniteSets, Naturals

CONSTANTS
  Conns,   \* the clients' connections
  Cells,   \* the cells they are given to
  Places   \* how many clients there is surely room for

VARIABLES
  link,     \* link[k]: the client of connection k is not yet connected, up, down
  members,  \* members[c]: the clients in cell c
  left      \* the clients that have been in a cell and are no longer

registryVars == <<link, members, left>>

RegistryInit ==
  /\ link = [k \in Conns |-> "none"]
  /\ members = [c \in Cells |-> {}]
  /\ left = {}

Connect(k) ==
  /\ link[k] = "none"
  /\ link' = [link EXCEPT ![k] = "up"]
  /\ UNCHANGED <<members, left>>

Disconnect(k) ==
  /\ link[k] = "up"
  /\ link' = [link EXCEPT ![k] = "down"]
  /\ UNCHANGED <<members, left>>

Waiting(k) == link[k] # "none" /\ k \notin left \cup UNION {members[d] : d \in Cells}

Join(k, c) ==
  /\ Waiting(k)
  /\ members' = [members EXCEPT ![c] = @ \cup {k}]
  /\ UNCHANGED <<link, left>>

Leave(k, c) ==
  /\ link[k] = "down"
  /\ k \in members[c]
  /\ members' = [members EXCEPT ![c] = @ \ {k}]
  /\ left' = left \cup {k}
  /\ UNCHANGED link

RegistryNext ==
  \E k \in Conns :
    Connect(k) \/ Disconnect(k) \/ \E c \in Cells : Join(k, c) \/ Leave(k, c)

RegistrySpec == RegistryInit /\ [][RegistryNext]_registryVars

\* A client that has closed may still be a member while its place is taken again:
\* there can be more members than places.
RoomLeft == Cardinality(UNION {members[d] : d \in Cells}) < Places

Overdue(k) == link[k] = "down" /\ \E c \in Cells : k \in members[c]

\* Nobody who has connected waits for ever, to be let in while there is room, or to be
\* let go: RegistryNext is fair to every Join and Leave.
RegistryFairness ==
  \A k \in Conns :
    /\ []<>~(Waiting(k) /\ RoomLeft)
    /\ []<>~Overdue(k)
=============================================================================
