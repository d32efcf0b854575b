----------------------------- MODULE Registry ------------------------------
(***************************************************************************)
(* What the table of lobbies promises to the connections that use it.  A   *)
(* code names one lobby from the moment it is opened until the lobby       *)
(* vanishes, and a lobby vanishes in one step, at a moment when nobody is  *)
(* in it and nobody has used it for longer than its time to live.  Who     *)
(* looked a lobby up keeps hold of it, whatever becomes of its code.       *)
(***************************************************************************)
EXTENDS FiniteSets, Integers

CONSTANTS
  Codes,        \* what the players call out to each other
  Lobbies,      \* the lobbies themselves; one that nobody refers to is used again
  Clients,      \* connections
  MaxLobbies,
  NoLobby       \* not in Lobbies

VARIABLES
  lobbies,      \* the lobby behind each code
  at,           \* the lobby each connection has looked up
  members,      \* the connections in each lobby
  expired       \* the lobbies nobody has used for longer than the time to live

registryVars == <<lobbies, at, members, expired>>

OpenCodes(table) == {k \in Codes : table[k] # NoLobby}

\* Nothing leads to this lobby any more.
Unused(l, table) == (\A k \in Codes : table[k] # l) /\ (\A c \in Clients : at[c] # l)

RegistryInit ==
  /\ lobbies = [k \in Codes |-> NoLobby]
  /\ at = [c \in Clients |-> NoLobby]
  /\ members = [l \in Lobbies |-> {}]
  /\ expired = {}

Open(k, l) ==
  /\ Cardinality(OpenCodes(lobbies)) < MaxLobbies
  /\ lobbies[k] = NoLobby
  /\ Unused(l, lobbies)
  /\ lobbies' = [lobbies EXCEPT ![k] = l]
  /\ expired' = expired \ {l}
  /\ UNCHANGED <<at, members>>

LookUp(c, k) ==
  /\ at[c] = NoLobby
  /\ lobbies[k] # NoLobby
  /\ at' = [at EXCEPT ![c] = lobbies[k]]
  /\ UNCHANGED <<lobbies, members, expired>>

\* It enters, or does something where it already is.
Use(c) ==
  /\ at[c] # NoLobby
  /\ members' = [members EXCEPT ![at[c]] = @ \cup {c}]
  /\ expired' = expired \ {at[c]}
  /\ UNCHANGED <<lobbies, at>>

\* Turned away, or gone before it entered.
GoAway(c) ==
  /\ at[c] # NoLobby
  /\ c \notin members[at[c]]
  /\ at' = [at EXCEPT ![c] = NoLobby]
  /\ UNCHANGED <<lobbies, members, expired>>

Depart(c) ==
  /\ at[c] # NoLobby
  /\ members' = [members EXCEPT ![at[c]] = @ \ {c}]
  /\ expired' = expired \ {at[c]}
  /\ at' = [at EXCEPT ![c] = NoLobby]
  /\ UNCHANGED lobbies

Expire(l) ==
  /\ expired' = expired \cup {l}
  /\ UNCHANGED <<lobbies, at, members>>

Vanish(k) ==
  /\ lobbies[k] # NoLobby
  /\ members[lobbies[k]] = {}
  /\ lobbies[k] \in expired
  /\ lobbies' = [lobbies EXCEPT ![k] = NoLobby]
  /\ UNCHANGED <<at, members, expired>>

RegistryNext ==
  \/ \E k \in Codes, l \in Lobbies : Open(k, l)
  \/ \E c \in Clients, k \in Codes : LookUp(c, k)
  \/ \E c \in Clients : Use(c) \/ GoAway(c) \/ Depart(c)
  \/ \E l \in Lobbies : Expire(l)
  \/ \E k \in Codes : Vanish(k)

RegistrySpec == RegistryInit /\ [][RegistryNext]_registryVars
=============================================================================
