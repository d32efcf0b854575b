------------------------------ MODULE Manager ------------------------------
(***************************************************************************)
(* The table of lobbies, server/internal/lobby/manager.go, the reaper that *)
(* sweeps it, and the way of a connection through it (ServeWS in           *)
(* transport/ws.go): look the lobby up, accept the WebSocket, join, play,  *)
(* leave.  Create and Get take the table's mutex for one step; Reap holds  *)
(* it for a whole sweep, but locks each lobby only while it asks it how    *)
(* long it has been idle, so connections that have a lobby in hand go on   *)
(* in between.                                                             *)
(*                                                                         *)
(* Time is what has passed in every lobby since its last activity, as far  *)
(* as the reaper can tell: more than the time to live or not.  What is     *)
(* played in a lobby, and whom it has a place for, is in module Lobby.     *)
(* Codes are normalised before they are looked up, so k is the code a      *)
(* player meant.                                                           *)
(***************************************************************************)
EXTENDS FiniteSets, Integers

CONSTANTS
  Codes,        \* the lobby codes
  Lobbies,      \* Lobby objects; one that nobody refers to is used again
  Clients,      \* connections
  MaxLobbies,
  NoLobby,
  NoCode

ASSUME ManagerAssumption ==
  /\ IsFiniteSet(Codes) /\ NoCode \notin Codes
  /\ NoLobby \notin Lobbies
  /\ MaxLobbies \in Nat

VARIABLES
  lobbies,      \* Manager.lobbies: the lobby behind each code
  at,           \* the lobby each connection's handler has in hand
  members,      \* Lobby.clients
  expired,      \* lobbies whose last activity is longer ago than the time to live
  reaper,       \* RunReaper: "waiting", in Reap ("sweeping") or "stopped"
  unseen,       \* codes the current sweep still has to look at
  condemned,    \* the code it has found idle and is about to delete
  removed,      \* whether it has deleted any
  active        \* the gauge longwave_lobbies_active

tableVars  == <<lobbies, active>>
lobbyVars  == <<members, expired>>
reaperVars == <<reaper, unseen, condemned, removed>>
managerVars == <<tableVars, at, lobbyVars, reaperVars>>

OpenCodes(table) == {k \in Codes : table[k] # NoLobby}

\* Nothing leads to this lobby any more.
Unused(l) == (\A k \in Codes : lobbies[k] # l) /\ (\A c \in Clients : at[c] # l)

\* Reap holds the table's mutex to its end.
TableIsFree == reaper # "sweeping"

ManagerInit ==
  /\ lobbies = [k \in Codes |-> NoLobby]
  /\ at = [c \in Clients |-> NoLobby]
  /\ members = [l \in Lobbies |-> {}]
  /\ expired = {}
  /\ reaper = "waiting"
  /\ unseen = {}
  /\ condemned = NoCode
  /\ removed = FALSE
  /\ active = 0

-----------------------------------------------------------------------------
\* A new lobby under a code that is free.
Create(k, l) ==
  /\ TableIsFree
  /\ Cardinality(OpenCodes(lobbies)) < MaxLobbies
  /\ lobbies[k] = NoLobby
  /\ Unused(l)
  /\ lobbies' = [lobbies EXCEPT ![k] = l]
  /\ expired' = expired \ {l}
  /\ active' = Cardinality(OpenCodes(lobbies'))
  /\ UNCHANGED <<at, members, reaperVars>>

\* Mutant: reads the table without its mutex.
GetUnlocked(c, k) ==
  /\ at[c] = NoLobby
  /\ lobbies[k] # NoLobby
  /\ at' = [at EXCEPT ![c] = lobbies[k]]
  /\ UNCHANGED <<tableVars, lobbyVars, reaperVars>>

\* A connection looks its lobby up.
Get(c, k) ==
  /\ TableIsFree
  /\ at[c] = NoLobby
  /\ lobbies[k] # NoLobby
  /\ at' = [at EXCEPT ![c] = lobbies[k]]
  /\ UNCHANGED <<tableVars, lobbyVars, reaperVars>>

\* The WebSocket handshake fails, or Join() finds no place (module Lobby says when).
GiveUp(c) ==
  /\ at[c] # NoLobby
  /\ c \notin members[at[c]]
  /\ at' = [at EXCEPT ![c] = NoLobby]
  /\ UNCHANGED <<tableVars, lobbyVars, reaperVars>>

Join(c) ==
  /\ at[c] # NoLobby
  /\ c \notin members[at[c]]
  /\ members' = [members EXCEPT ![at[c]] = @ \cup {c}]
  /\ expired' = expired \ {at[c]}
  /\ UNCHANGED <<tableVars, at, reaperVars>>

\* Handle() carries a command out.
Play(c) ==
  /\ at[c] # NoLobby
  /\ c \in members[at[c]]
  /\ expired' = expired \ {at[c]}
  /\ UNCHANGED <<tableVars, at, members, reaperVars>>

Leave(c) ==
  /\ at[c] # NoLobby
  /\ c \in members[at[c]]
  /\ members' = [members EXCEPT ![at[c]] = @ \ {c}]
  /\ expired' = expired \ {at[c]}
  /\ at' = [at EXCEPT ![c] = NoLobby]
  /\ UNCHANGED <<tableVars, reaperVars>>

\* More than the time to live has passed since the last activity.
Expire(l) ==
  /\ l \notin expired
  /\ ~Unused(l)
  /\ expired' = expired \cup {l}
  /\ UNCHANGED <<tableVars, at, members, reaperVars>>

-----------------------------------------------------------------------------
\* The ticker fires and Reap locks the table.
BeginSweep ==
  /\ reaper = "waiting"
  /\ reaper' = "sweeping"
  /\ unseen' = OpenCodes(lobbies)
  /\ UNCHANGED <<tableVars, at, lobbyVars, condemned, removed>>

\* Mutant: goes by the time of the last activity alone.
IsIdleByTheClock(l) == l \in expired

\* IdleSince() > ttl: a lobby with a client in it is never idle.
IsIdle(l) == members[l] = {} /\ l \in expired

\* Mutant: does not tick the code off.
LookAgain(k) ==
  /\ reaper = "sweeping"
  /\ condemned = NoCode
  /\ k \in unseen
  /\ condemned' = IF IsIdle(lobbies[k]) THEN k ELSE NoCode
  /\ UNCHANGED <<tableVars, at, lobbyVars, reaper, unseen, removed>>

\* Mutant: gives up at the first lobby that is in use.
LookUntilBusy(k) ==
  /\ reaper = "sweeping"
  /\ condemned = NoCode
  /\ k \in unseen
  /\ unseen' = IF IsIdle(lobbies[k]) THEN unseen \ {k} ELSE {}
  /\ condemned' = IF IsIdle(lobbies[k]) THEN k ELSE NoCode
  /\ UNCHANGED <<tableVars, at, lobbyVars, reaper, removed>>

\* The next lobby, in no particular order.  Its mutex is held for this step only.
Look(k) ==
  /\ reaper = "sweeping"
  /\ condemned = NoCode
  /\ k \in unseen
  /\ unseen' = unseen \ {k}
  /\ condemned' = IF IsIdle(lobbies[k]) THEN k ELSE NoCode
  /\ UNCHANGED <<tableVars, at, lobbyVars, reaper, removed>>

Delete ==
  /\ condemned # NoCode
  /\ lobbies' = [lobbies EXCEPT ![condemned] = NoLobby]
  /\ condemned' = NoCode
  /\ removed' = TRUE
  /\ UNCHANGED <<active, at, lobbyVars, reaper, unseen>>

\* Mutant: forgets the gauge.
EndSweepSilently ==
  /\ reaper = "sweeping"
  /\ condemned = NoCode
  /\ unseen = {}
  /\ reaper' = "waiting"
  /\ removed' = FALSE
  /\ UNCHANGED <<tableVars, at, lobbyVars, unseen, condemned>>

EndSweep ==
  /\ reaper = "sweeping"
  /\ condemned = NoCode
  /\ unseen = {}
  /\ active' = IF removed THEN Cardinality(OpenCodes(lobbies)) ELSE active
  /\ reaper' = "waiting"
  /\ removed' = FALSE
  /\ UNCHANGED <<lobbies, at, lobbyVars, unseen, condemned>>

\* The context is cancelled; a sweep that has begun is finished first.
StopReaper ==
  /\ reaper = "waiting"
  /\ reaper' = "stopped"
  /\ UNCHANGED <<tableVars, at, lobbyVars, unseen, condemned, removed>>

Sweeping == BeginSweep \/ (\E k \in Codes : Look(k)) \/ Delete \/ EndSweep

ManagerNext ==
  \/ \E k \in Codes, l \in Lobbies : Create(k, l)
  \/ \E c \in Clients, k \in Codes : Get(c, k)
  \/ \E c \in Clients : GiveUp(c) \/ Join(c) \/ Play(c) \/ Leave(c)
  \/ \E l \in Lobbies : Expire(l)
  \/ Sweeping
  \/ StopReaper

ManagerSpec == ManagerInit /\ [][ManagerNext]_managerVars

\* The ticker goes on ticking, a sweep goes on, and time passes.
ManagerFairness ==
  /\ WF_managerVars(Sweeping)
  /\ \A l \in Lobbies : WF_managerVars(Expire(l))

FairManagerSpec == ManagerSpec /\ ManagerFairness

-----------------------------------------------------------------------------
(***************************************************************************)
(* Types, and the lobbies each part may refer to: a connection is only in  *)
(* the lobby it has in hand, and what a sweep has before it is still in    *)
(* the table.                                                              *)
(***************************************************************************)
ManagerTypeOK ==
  /\ lobbies \in [Codes -> Lobbies \cup {NoLobby}]
  /\ at \in [Clients -> Lobbies \cup {NoLobby}]
  /\ members \in [Lobbies -> SUBSET Clients]
  /\ expired \in SUBSET Lobbies
  /\ reaper \in {"waiting", "sweeping", "stopped"}
  /\ removed \in BOOLEAN
  /\ active \in Nat
  /\ \A l \in Lobbies : \A c \in members[l] : at[c] = l
  /\ unseen \in SUBSET OpenCodes(lobbies)
  /\ condemned \in OpenCodes(lobbies) \cup {NoCode}
  /\ condemned \notin unseen
  /\ TableIsFree => unseen = {} /\ condemned = NoCode

(***************************************************************************)
(* Between two sweeps the gauge of open lobbies is what the table holds;   *)
(* Reap sets it only if it has removed something, and only at its end.     *)
(***************************************************************************)
GaugeIsExact == TableIsFree => active = Cardinality(OpenCodes(lobbies))

(***************************************************************************)
(* A sweep that takes its time looks to the connections as if every lobby  *)
(* vanished in the step in which it was found idle: the mutex keeps        *)
(* everybody from looking up a lobby between that step and its deletion.   *)
(***************************************************************************)
Visible == [k \in Codes |-> IF k = condemned THEN NoLobby ELSE lobbies[k]]

Promise == INSTANCE Registry WITH lobbies <- Visible

\* The manager keeps what Registry promises.
ImplementsRegistry == Promise!RegistrySpec

(***************************************************************************)
(* Lobbies nobody comes back to are not kept: while the reaper runs, a     *)
(* lobby without connections is entered again or vanishes from its code.   *)
(***************************************************************************)
EmptyLobbiesVanish ==
  \A k \in Codes, l \in Lobbies :
    lobbies[k] = l /\ members[l] = {}
      ~> lobbies[k] # l \/ members[l] # {} \/ reaper = "stopped"

(***************************************************************************)
(* No occupied lobby is taken from the table (lobby_test.go: "die besetzte *)
(* lobby wurde abgeraeumt, obwohl clients verbunden sind"): when a code is *)
(* deleted, there is no connection in its lobby.                           *)
(***************************************************************************)
ReapStep ==
  \A k \in Codes : lobbies[k] # NoLobby /\ lobbies'[k] # lobbies[k] => members[lobbies[k]] = {}
OccupiedLobbiesStay == [][ReapStep]_managerVars
=============================================================================
