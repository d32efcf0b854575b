--------------------------- MODULE ManagerProofs ---------------------------
(***************************************************************************)
(* Proofs about Manager, for any sets of codes, lobbies and connections of *)
(* which only the codes are finite.                                        *)
(***************************************************************************)
EXTENDS Manager, FiniteSetTheorems, TLAPS

\* A step of one of the connections, or of the time in one of the lobbies.
ConnectionStep ==
  \/ \E c \in Clients, k \in Codes : Get(c, k)
  \/ \E c \in Clients : GiveUp(c) \/ Join(c) \/ Play(c) \/ Leave(c)
  \/ \E l \in Lobbies : Expire(l)

(***************************************************************************)
(* Connections, and time, leave the table and the reaper alone.            *)
(***************************************************************************)
LEMMA ConnectionsSpareTheTable ==
  ConnectionStep => UNCHANGED <<tableVars, reaperVars>>
BY DEF ConnectionStep, Get, GiveUp, Join, Play, Leave, Expire, tableVars, reaperVars

(***************************************************************************)
(* The open codes are finitely many, so there is a number of them.         *)
(***************************************************************************)
LEMMA OpenCodesCount ==
  ASSUME NEW table
  PROVE  /\ IsFiniteSet(OpenCodes(table))
         /\ Cardinality(OpenCodes(table)) \in Nat
<1>1. IsFiniteSet(Codes)
  BY ManagerAssumption
<1>2. OpenCodes(table) \subseteq Codes
  BY DEF OpenCodes
<1>3. IsFiniteSet(OpenCodes(table))
  BY <1>1, <1>2, FS_Subset
<1> QED
  BY <1>3, FS_CardinalityType

-----------------------------------------------------------------------------
(***************************************************************************)
(* The type invariant holds initially and is kept by every step.           *)
(***************************************************************************)
LEMMA InitTyped == ManagerInit => ManagerTypeOK
<1> SUFFICES ASSUME ManagerInit PROVE ManagerTypeOK
  OBVIOUS
<1> USE DEF ManagerInit
<1>1. \A l \in Lobbies : members[l] = {}
  OBVIOUS
<1>2. members \in [Lobbies -> SUBSET Clients]
  OBVIOUS
<1>3. lobbies \in [Codes -> Lobbies \cup {NoLobby}] /\ at \in [Clients -> Lobbies \cup {NoLobby}]
  OBVIOUS
<1>4. TableIsFree
  BY DEF TableIsFree
<1> QED
  BY <1>1, <1>2, <1>3, <1>4 DEF ManagerTypeOK

LEMMA CreateTyped ==
  ASSUME ManagerTypeOK, NEW k \in Codes, NEW l \in Lobbies, Create(k, l)
  PROVE  ManagerTypeOK'
<1>1. active' \in Nat
  BY OpenCodesCount DEF Create
<1>2. unseen' = {} /\ condemned' = NoCode /\ reaper' = reaper
  BY DEF Create, ManagerTypeOK, TableIsFree, reaperVars
<1> QED
  BY <1>1, <1>2, ManagerAssumption
  DEF Create, ManagerTypeOK, OpenCodes, TableIsFree, reaperVars

LEMMA ConnectionTyped ==
  ASSUME ManagerTypeOK, ConnectionStep
  PROVE  ManagerTypeOK'
<1> USE DEF ManagerTypeOK, TableIsFree
<1>1. UNCHANGED <<tableVars, reaperVars>>
  BY ConnectionsSpareTheTable
<1>2. OpenCodes(lobbies') = OpenCodes(lobbies)
  BY <1>1 DEF tableVars, OpenCodes
<1>3. UNCHANGED <<lobbies, active, reaper, unseen, condemned, removed>>
  BY <1>1 DEF tableVars, reaperVars
<1>4. CASE \E c \in Clients, k \in Codes : Get(c, k)
  BY <1>2, <1>3, <1>4, ManagerAssumption DEF Get, lobbyVars
<1>5. CASE \E c \in Clients : GiveUp(c)
  BY <1>2, <1>3, <1>5, ManagerAssumption DEF GiveUp, lobbyVars
<1>6. CASE \E c \in Clients : Join(c)
  <2> PICK c \in Clients : Join(c)
    BY <1>6
  <2>1. at[c] \in Lobbies
    BY DEF Join
  <2> QED
    BY <2>1, <1>2, <1>3 DEF Join
<1>7. CASE \E c \in Clients : Play(c)
  BY <1>2, <1>3, <1>7 DEF Play
<1>8. CASE \E c \in Clients : Leave(c)
  <2> PICK c \in Clients : Leave(c)
    BY <1>8
  <2>1. at[c] \in Lobbies
    BY DEF Leave
  <2> QED
    BY <2>1, <1>2, <1>3 DEF Leave
<1>9. CASE \E l \in Lobbies : Expire(l)
  BY <1>2, <1>3, <1>9 DEF Expire
<1> QED
  BY <1>4, <1>5, <1>6, <1>7, <1>8, <1>9 DEF ConnectionStep

LEMMA ReaperTyped ==
  ASSUME ManagerTypeOK, Sweeping \/ StopReaper
  PROVE  ManagerTypeOK'
<1> USE DEF ManagerTypeOK, TableIsFree, tableVars, lobbyVars, OpenCodes
<1>1. CASE BeginSweep
  BY <1>1, ManagerAssumption DEF BeginSweep
<1>2. CASE \E k \in Codes : Look(k)
  BY <1>2, ManagerAssumption DEF Look
<1>3. CASE Delete
  BY <1>3, ManagerAssumption DEF Delete
<1>4. CASE EndSweep
  <2>1. active' \in Nat
    BY <1>4, OpenCodesCount DEF EndSweep
  <2> QED
    BY <1>4, <2>1, ManagerAssumption DEF EndSweep
<1>5. CASE StopReaper
  BY <1>5, ManagerAssumption DEF StopReaper
<1> QED
  BY <1>1, <1>2, <1>3, <1>4, <1>5 DEF Sweeping

LEMMA NextTyped ==
  ASSUME ManagerTypeOK, [ManagerNext]_managerVars
  PROVE  ManagerTypeOK'
<1>1. CASE \E k \in Codes, l \in Lobbies : Create(k, l)
  BY <1>1, CreateTyped
<1>2. CASE ConnectionStep
  BY <1>2, ConnectionTyped
<1>3. CASE Sweeping \/ StopReaper
  BY <1>3, ReaperTyped
<1>4. CASE UNCHANGED managerVars
  BY <1>4 DEF managerVars, tableVars, lobbyVars, reaperVars, ManagerTypeOK, OpenCodes, TableIsFree
<1> QED
  BY <1>1, <1>2, <1>3, <1>4 DEF ManagerNext, ConnectionStep

(***************************************************************************)
(* Whatever the connections do during a sweep, every connection is only in *)
(* the lobby it has in hand, and the sweep only has open lobbies before    *)
(* it; what Reap is about to delete is still there.                        *)
(***************************************************************************)
THEOREM ManagerTyped == ManagerSpec => []ManagerTypeOK
<1>1. ManagerInit => ManagerTypeOK
  BY InitTyped
<1>2. ManagerTypeOK /\ [ManagerNext]_managerVars => ManagerTypeOK'
  BY NextTyped
<1> QED
  BY <1>1, <1>2, PTL DEF ManagerSpec

-----------------------------------------------------------------------------
(***************************************************************************)
(* The gauge needs what holds in the middle of a sweep too: as long as     *)
(* nothing has been removed, it is still exact, and whatever has been      *)
(* removed is accounted for before the table is free again.                *)
(***************************************************************************)
GaugeInv ==
  /\ ManagerTypeOK
  /\ ~removed => active = Cardinality(OpenCodes(lobbies))
  /\ TableIsFree => ~removed

LEMMA NextGauged ==
  ASSUME GaugeInv, [ManagerNext]_managerVars
  PROVE  GaugeInv'
<1> USE DEF GaugeInv
<1>1. ManagerTypeOK'
  BY NextTyped
<1>2. CASE \E k \in Codes, l \in Lobbies : Create(k, l)
  BY <1>1, <1>2 DEF Create, reaperVars, TableIsFree
<1>3. CASE ConnectionStep
  <2>1. UNCHANGED <<tableVars, reaperVars>>
    BY <1>3, ConnectionsSpareTheTable
  <2> QED
    BY <1>1, <2>1 DEF tableVars, reaperVars, TableIsFree
<1>4. CASE BeginSweep
  BY <1>1, <1>4 DEF BeginSweep, tableVars, TableIsFree
<1>5. CASE \E k \in Codes : Look(k)
  BY <1>1, <1>5 DEF Look, tableVars, TableIsFree
<1>6. CASE Delete
  <2>1. ~TableIsFree
    BY <1>6 DEF Delete, ManagerTypeOK
  <2> QED
    BY <1>1, <1>6, <2>1 DEF Delete, TableIsFree
<1>7. CASE EndSweep
  BY <1>1, <1>7 DEF EndSweep, TableIsFree, ManagerTypeOK
<1>8. CASE StopReaper
  BY <1>1, <1>8 DEF StopReaper, tableVars, TableIsFree
<1>9. CASE UNCHANGED managerVars
  BY <1>1, <1>9 DEF managerVars, tableVars, reaperVars, TableIsFree
<1> QED
  BY <1>2, <1>3, <1>4, <1>5, <1>6, <1>7, <1>8, <1>9 DEF ManagerNext, ConnectionStep, Sweeping

(***************************************************************************)
(* Whenever no sweep is going on, the gauge of open lobbies is the size of *)
(* the table.                                                              *)
(***************************************************************************)
THEOREM ManagerGauge == ManagerSpec => []GaugeIsExact
<1>1. ManagerInit => GaugeInv
  <2> SUFFICES ASSUME ManagerInit PROVE GaugeInv
    OBVIOUS
  <2>1. OpenCodes(lobbies) = {}
    BY DEF ManagerInit, OpenCodes
  <2> QED
    BY <2>1, InitTyped, FS_EmptySet DEF ManagerInit, GaugeInv
<1>2. GaugeInv /\ [ManagerNext]_managerVars => GaugeInv'
  BY NextGauged
<1>3. GaugeInv => GaugeIsExact
  BY DEF GaugeInv, GaugeIsExact
<1> QED
  BY <1>1, <1>2, <1>3, PTL DEF ManagerSpec

-----------------------------------------------------------------------------
(***************************************************************************)
(* What a sweep shows of the table.  While the table is free nothing is    *)
(* condemned, so it is the table itself.                                   *)
(***************************************************************************)
LEMMA FreeTableIsVisible ==
  ASSUME ManagerTypeOK, TableIsFree
  PROVE  Visible = lobbies
BY ManagerAssumption DEF ManagerTypeOK, Visible

LEMMA ConnectionKeepsPromise ==
  ASSUME ManagerTypeOK, ConnectionStep
  PROVE  [Promise!RegistryNext]_Promise!registryVars
<1> USE DEF Promise!registryVars
<1>1. UNCHANGED <<lobbies, condemned>>
  BY ConnectionsSpareTheTable DEF tableVars, reaperVars
<1>2. Visible' = Visible
  BY <1>1 DEF Visible
<1>3. ASSUME NEW c \in Clients, NEW k \in Codes, Get(c, k)
      PROVE  Promise!LookUp(c, k)
  <2>1. Visible = lobbies
    BY <1>3, FreeTableIsVisible DEF Get
  <2> QED
    BY <1>2, <1>3, <2>1 DEF Get, lobbyVars, Promise!LookUp
<1>4. ASSUME NEW c \in Clients, GiveUp(c)
      PROVE  Promise!GoAway(c)
  BY <1>2, <1>4 DEF GiveUp, lobbyVars, Promise!GoAway
<1>5. ASSUME NEW c \in Clients, Join(c)
      PROVE  Promise!Use(c)
  BY <1>2, <1>5 DEF Join, Promise!Use
<1>6. ASSUME NEW c \in Clients, Play(c)
      PROVE  Promise!Use(c)
  <2>1. members = [members EXCEPT ![at[c]] = @ \cup {c}]
    BY <1>6 DEF Play, ManagerTypeOK
  <2> QED
    BY <1>2, <1>6, <2>1 DEF Play, Promise!Use
<1>7. ASSUME NEW c \in Clients, Leave(c)
      PROVE  Promise!Depart(c)
  BY <1>2, <1>7 DEF Leave, Promise!Depart
<1>8. ASSUME NEW l \in Lobbies, Expire(l)
      PROVE  Promise!Expire(l)
  BY <1>2, <1>8 DEF Expire, Promise!Expire
<1> QED
  BY <1>3, <1>4, <1>5, <1>6, <1>7, <1>8 DEF ConnectionStep, Promise!RegistryNext

\* The instance counts as everybody does.
LEMMA SameCardinality ==
  ASSUME NEW S
  PROVE  Promise!Cardinality(S) = Cardinality(S)
BY DEF Promise!Cardinality, Cardinality, Promise!IsFiniteSet, IsFiniteSet

LEMMA CreateKeepsPromise ==
  ASSUME ManagerTypeOK, NEW k \in Codes, NEW l \in Lobbies, Create(k, l)
  PROVE  Promise!Open(k, l)
<1>1. TableIsFree /\ TableIsFree'
  BY DEF Create, TableIsFree, reaperVars
<1>2. Visible = lobbies
  BY <1>1, FreeTableIsVisible
<1>3. ManagerTypeOK'
  BY CreateTyped
<1>4. Visible' = lobbies'
  BY <1>1, <1>3, ManagerAssumption DEF ManagerTypeOK, Visible
<1>5. Promise!Unused(l, Visible)
  BY <1>2 DEF Create, Unused, Promise!Unused
<1>6. Promise!OpenCodes(Visible) = OpenCodes(lobbies)
  BY <1>2 DEF OpenCodes, Promise!OpenCodes
<1>7. Promise!Cardinality(Promise!OpenCodes(Visible)) = Cardinality(OpenCodes(lobbies))
  BY <1>6, SameCardinality
<1> QED
  BY <1>2, <1>4, <1>5, <1>7 DEF Create, Promise!Open

(***************************************************************************)
(* Of a sweep the connections only notice the look at an idle lobby; the   *)
(* deletion that follows changes nothing they could see.                   *)
(***************************************************************************)
LEMMA ReaperKeepsPromise ==
  ASSUME ManagerTypeOK, Sweeping \/ StopReaper
  PROVE  [Promise!RegistryNext]_Promise!registryVars
<1> USE DEF Promise!registryVars, ManagerTypeOK
<1>1. CASE BeginSweep \/ EndSweep \/ StopReaper
  <2>1. UNCHANGED <<lobbies, condemned, at, members, expired>>
    BY <1>1 DEF BeginSweep, EndSweep, StopReaper, tableVars, lobbyVars
  <2> QED
    BY <2>1 DEF Visible
<1>2. CASE Delete
  <2>1. Visible' = Visible
    BY <1>2, ManagerAssumption DEF Delete, Visible, OpenCodes
  <2> QED
    BY <1>2, <2>1 DEF Delete, lobbyVars
<1>3. ASSUME NEW k \in Codes, Look(k), ~IsIdle(lobbies[k])
      PROVE  UNCHANGED Promise!registryVars
  <2>1. UNCHANGED <<lobbies, condemned, at, members, expired>>
    BY <1>3 DEF Look, tableVars, lobbyVars
  <2> QED
    BY <2>1 DEF Visible
<1>4. ASSUME NEW k \in Codes, Look(k), IsIdle(lobbies[k])
      PROVE  Promise!Vanish(k)
  <2>1. condemned = NoCode /\ condemned' = k /\ UNCHANGED <<lobbies, at, members, expired>>
    BY <1>4 DEF Look, tableVars, lobbyVars
  <2>2. Visible = lobbies
    BY <2>1, ManagerAssumption DEF Visible
  <2>3. lobbies[k] # NoLobby
    BY <1>4 DEF Look, OpenCodes
  <2>4. Visible' = [lobbies EXCEPT ![k] = NoLobby]
    BY <2>1 DEF Visible
  <2> QED
    BY <1>4, <2>1, <2>2, <2>3, <2>4 DEF IsIdle, Promise!Vanish
<1> QED
  BY <1>1, <1>2, <1>3, <1>4 DEF Sweeping, Promise!RegistryNext

LEMMA NextKeepsPromise ==
  ASSUME ManagerTypeOK, [ManagerNext]_managerVars
  PROVE  [Promise!RegistryNext]_Promise!registryVars
<1>1. CASE \E k \in Codes, l \in Lobbies : Create(k, l)
  BY <1>1, CreateKeepsPromise DEF Promise!RegistryNext
<1>2. CASE ConnectionStep
  BY <1>2, ConnectionKeepsPromise
<1>3. CASE Sweeping \/ StopReaper
  BY <1>3, ReaperKeepsPromise
<1>4. CASE UNCHANGED managerVars
  BY <1>4 DEF managerVars, tableVars, lobbyVars, reaperVars, Visible, Promise!registryVars
<1> QED
  BY <1>1, <1>2, <1>3, <1>4 DEF ManagerNext, ConnectionStep

(***************************************************************************)
(* A sweep of many steps, with connections joining and leaving in between, *)
(* implements a table from which each lobby vanishes at once, at a moment  *)
(* when it is empty and idle.                                              *)
(***************************************************************************)
THEOREM ManagerKeepsPromise == ManagerSpec => ImplementsRegistry
<1>1. ManagerInit => Promise!RegistryInit
  BY ManagerAssumption DEF ManagerInit, Visible, Promise!RegistryInit
<1>2. ManagerTypeOK /\ [ManagerNext]_managerVars => [Promise!RegistryNext]_Promise!registryVars
  BY NextKeepsPromise
<1> QED
  BY <1>1, <1>2, ManagerTyped, PTL DEF ManagerSpec, ImplementsRegistry, Promise!RegistrySpec
=============================================================================
