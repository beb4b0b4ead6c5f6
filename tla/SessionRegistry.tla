---------------------------- MODULE SessionRegistry ----------------------------
(***************************************************************************)
(* The page sessions of the Node gateway: RemoteControlSessionRegistry     *)
(* (backend/src/services/remoteControlSessionRegistry.ts) with the HTTP    *)
(* routes that use it (backend/src/routes/remote.ts, routes/proxy.ts).     *)
(*                                                                         *)
(* A RemoteControlService is represented by its active generation and the  *)
(* start whose connection it holds; RemoteControlService.tla has the rest. *)
(* Services of the registry have no roomConfigSource, so the only awaits   *)
(* that let another request in are the fetch of a join and the connect of  *)
(* a start.  Times are kept as ticks left: an entry at 0 is idle.          *)
(***************************************************************************)
EXTENDS Naturals, FiniteSets

CONSTANTS
  Requests,     \* the HTTP requests
  Sessions,     \* page session ids
  Rooms,        \* the rooms UU answers a join with
  Services,     \* the RemoteControlService objects that may ever be created
  Absent,       \* no entry, no authorization, no connection
  MaxSessions,  \* maxSessions
  Idle          \* idleTtlMs in ticks

ASSUME AbsentAssumption == Absent \notin Requests \cup Sessions \cup Rooms \cup Services
ASSUME BoundsAssumption == MaxSessions \in Nat \ {0} /\ Idle \in Nat \ {0}

VARIABLES
  stands,       \* where a request stands
  page, room,   \* the session a request is sent for, the room it joins or starts
  svc, gen,     \* the service a start found, the generation it was given
  entry,        \* the registry: session -> service
  authorized,   \* the room an entry is authorized for
  idle,         \* ticks until an entry is idle (lastAccessedAt and timer move together)
  created,      \* services created so far
  activeGen,    \* activeSignalGeneration of each service
  connection,   \* the start whose connection a service holds
  joined        \* history: the rooms a service's entry was authorized for

requestVars == <<stands, page, room, svc, gen>>
entryVars == <<entry, authorized, idle, created, joined>>
serviceVars == <<activeGen, connection>>
registryVars == <<requestVars, entryVars, serviceVars>>

RegistryTypeOK ==
  /\ stands \in [Requests -> {"idle", "joining", "connecting", "done"}]
  /\ page \in [Requests -> Sessions \cup {Absent}]
  /\ room \in [Requests -> Rooms \cup {Absent}]
  /\ svc \in [Requests -> Services \cup {Absent}]
  /\ gen \in [Requests -> Nat]
  /\ entry \in [Sessions -> Services \cup {Absent}]
  /\ authorized \in [Sessions -> Rooms \cup {Absent}]
  /\ idle \in [Sessions -> 0..Idle]
  /\ created \subseteq Services
  /\ joined \in [Services -> SUBSET Rooms]
  /\ activeGen \in [Services -> Nat]
  /\ connection \in [Services -> Requests \cup {Absent}]

RegistryInit ==
  /\ stands = [r \in Requests |-> "idle"]
  /\ page = [r \in Requests |-> Absent] /\ room = [r \in Requests |-> Absent]
  /\ svc = [r \in Requests |-> Absent] /\ gen = [r \in Requests |-> 0]
  /\ entry = [s \in Sessions |-> Absent]
  /\ authorized = [s \in Sessions |-> Absent]
  /\ idle = [s \in Sessions |-> 0]
  /\ created = {}
  /\ joined = [v \in Services |-> {}]
  /\ activeGen = [v \in Services |-> 0]
  /\ connection = [v \in Services |-> Absent]

-----------------------------------------------------------------------------
(* Helpers.  Definitions named Faulty... are plausible bugs of the definition *)
(* they precede; no specification uses them.                                *)

(* The entries a lookup finds idle: pruneExpired evicts them.                *)
Expired == {s \in Sessions : entry[s] # Absent /\ idle[s] = 0}

(* stopSignalGateway on the services of the sessions gone, up to its await.   *)
StopServices(gone) ==
  LET stopped == {entry[s] : s \in gone} \ {Absent}
  IN /\ activeGen' = [v \in Services |-> IF v \in stopped THEN activeGen[v] + 1 ELSE activeGen[v]]
     /\ connection' = [v \in Services |-> IF v \in stopped THEN Absent ELSE connection[v]]

(* get(s): idle entries are evicted, s itself included; a live s is renewed.  *)
Release(gone, s) ==
  /\ entry' = [t \in Sessions |-> IF t \in gone THEN Absent ELSE entry[t]]
  /\ authorized' = [t \in Sessions |-> IF t \in gone THEN Absent ELSE authorized[t]]
  /\ idle' = [t \in Sessions |-> IF t = s /\ entry[s] # Absent /\ s \notin gone THEN Idle
                                 ELSE IF t \in gone THEN 0 ELSE idle[t]]
  /\ UNCHANGED <<created, joined>>

Found(s) == IF s \in Expired THEN Absent ELSE entry[s]

-----------------------------------------------------------------------------
(* POST /api/proxy/uu with a join path *)

JoinCall(r, s) ==
  /\ stands[r] = "idle"
  /\ stands' = [stands EXCEPT ![r] = "joining"]
  /\ page' = [page EXCEPT ![r] = s]
  /\ \E m \in Rooms : room' = [room EXCEPT ![r] = m]
  /\ UNCHANGED <<svc, gen, entryVars, serviceVars>>

(* authorize(): the session's service is found or created, and its entry      *)
(* takes the room of this join.                                             *)
JoinReturns(r) ==
  LET s == page[r]
      live == {t \in Sessions : entry[t] # Absent} \ Expired
  IN /\ stands[r] = "joining"
     /\ stands' = [stands EXCEPT ![r] = "done"]
     /\ StopServices(Expired)
     /\ \/ /\ s \in live \/ Cardinality(live) < MaxSessions
           /\ \E v \in IF s \in live THEN {entry[s]} ELSE Services \ created :
                /\ entry' = [t \in Sessions |-> IF t = s THEN v
                                                ELSE IF t \in Expired THEN Absent ELSE entry[t]]
                /\ created' = created \cup {v}
                /\ joined' = [joined EXCEPT ![v] = @ \cup {room[r]}]
           /\ authorized' = [t \in Sessions |-> IF t = s THEN room[r]
                                                ELSE IF t \in Expired THEN Absent ELSE authorized[t]]
           /\ idle' = [idle EXCEPT ![s] = Idle]
        \/ /\ s \notin live /\ Cardinality(live) >= MaxSessions
           /\ Release(Expired, s)
     /\ UNCHANGED <<page, room, svc, gen>>

(* UU refused the join, or the proxy gave up after UU_PROXY_TIMEOUT_MS.        *)
JoinFails(r) ==
  /\ stands[r] = "joining"
  /\ stands' = [stands EXCEPT ![r] = "done"]
  /\ UNCHANGED <<page, room, svc, gen, entryVars, serviceVars>>

-----------------------------------------------------------------------------
(* The /api/remote routes: the middleware looks the session up first *)

(* POST signal/start for a room the entry is authorized for.                 *)
MayStart(s, m) == Found(s) # Absent /\ authorized[s] = m

StartCall(r, s) ==
  /\ stands[r] = "idle"
  /\ \E m \in Rooms :
       /\ MayStart(s, m)
       /\ room' = [room EXCEPT ![r] = m]
  /\ stands' = [stands EXCEPT ![r] = "connecting"]
  /\ page' = [page EXCEPT ![r] = s]
  /\ svc' = [svc EXCEPT ![r] = entry[s]]
  /\ gen' = [gen EXCEPT ![r] = activeGen[entry[s]] + 1]
  /\ StopServices(Expired \cup {s})
  /\ Release(Expired, s)

(* 403; every other request that changes nothing but the entry's age, the     *)
(* reads and the sends, looks the same.                                     *)
Touch(r, s) ==
  /\ stands[r] = "idle"
  /\ stands' = [stands EXCEPT ![r] = "done"]
  /\ page' = [page EXCEPT ![r] = s]
  /\ StopServices(Expired)
  /\ Release(Expired, s)
  /\ UNCHANGED <<room, svc, gen>>

(* DELETE signal: stop, then release.  stopSignalGateway has nothing to wait  *)
(* for without a roomConfigSource, so no other request comes between.       *)
StopCall(r, s) ==
  /\ stands[r] = "idle"
  /\ stands' = [stands EXCEPT ![r] = "done"]
  /\ page' = [page EXCEPT ![r] = s]
  /\ StopServices(Expired \cup {s})
  /\ Release(Expired \cup {s}, s)
  /\ UNCHANGED <<room, svc, gen>>

-----------------------------------------------------------------------------
(* The connect of a start, the connection, the idle timer *)

FaultyConnects(r) == connection' = [connection EXCEPT ![svc[r]] = r]
Connects(r) ==
  IF gen[r] = activeGen[svc[r]]
  THEN connection' = [connection EXCEPT ![svc[r]] = r]
  ELSE UNCHANGED connection

StartConnected(r) ==
  /\ stands[r] = "connecting"
  /\ stands' = [stands EXCEPT ![r] = "done"]
  /\ Connects(r)
  /\ UNCHANGED <<page, room, svc, gen, entryVars, activeGen>>

StartFailed(r) ==
  /\ stands[r] = "connecting"
  /\ stands' = [stands EXCEPT ![r] = "done"]
  /\ UNCHANGED <<page, room, svc, gen, entryVars, serviceVars>>

ConnectionEnds(v) ==
  /\ connection[v] # Absent
  /\ connection' = [connection EXCEPT ![v] = Absent]
  /\ UNCHANGED <<requestVars, entryVars, activeGen>>

(* The timer of an entry evicts whatever entry its session has now.          *)
FaultyTimerFires(s) == FALSE
TimerFires(s) ==
  /\ s \in Expired
  /\ StopServices({s})
  /\ Release({s}, s)
  /\ UNCHANGED requestVars

Older(ticks) == IF ticks > 0 THEN ticks - 1 ELSE 0

Tick ==
  /\ \E s \in Sessions : idle[s] > 0
  /\ idle' = [s \in Sessions |-> Older(idle[s])]
  /\ UNCHANGED <<requestVars, entry, authorized, created, joined, serviceVars>>

-----------------------------------------------------------------------------
RegistryNext ==
  \/ \E r \in Requests : \/ \E s \in Sessions : JoinCall(r, s) \/ StartCall(r, s)
                                                \/ Touch(r, s) \/ StopCall(r, s)
                         \/ JoinReturns(r) \/ JoinFails(r)
                         \/ StartConnected(r) \/ StartFailed(r)
  \/ \E v \in Services : ConnectionEnds(v)
  \/ \E s \in Sessions : TimerFires(s)
  \/ Tick

RegistrySpec == RegistryInit /\ [][RegistryNext]_registryVars

(* Fetches and connects have timeouts; time passes and timers fire.          *)
RegistryFairness ==
  /\ \A r \in Requests : WF_registryVars(JoinFails(r)) /\ WF_registryVars(StartConnected(r) \/ StartFailed(r))
  /\ \A s \in Sessions : WF_registryVars(TimerFires(s))
  /\ WF_registryVars(Tick)

RegistryFairSpec == RegistrySpec /\ RegistryFairness

-----------------------------------------------------------------------------
(* Properties *)

(* Every upstream connection is held by the service a session is registered   *)
(* with: a start that connects after its session was stopped, evicted or      *)
(* replaced leaves nothing behind that no request or timer can reach.       *)
ConnectionsAreRegistered ==
  \A v \in Services : connection[v] # Absent => \E s \in Sessions : entry[s] = v

(* A service connects only for the page session it is registered for and to  *)
(* a room that very session joined through this gateway.                    *)
ConnectionsAreAuthorized ==
  \A s \in Sessions :
    entry[s] # Absent /\ connection[entry[s]] # Absent =>
      /\ page[connection[entry[s]]] = s
      /\ room[connection[entry[s]]] \in joined[entry[s]]

(* Both: a connection is registered and authorized.                          *)
ConnectionsAreOwned == ConnectionsAreRegistered /\ ConnectionsAreAuthorized

(* A session that no request reaches any more loses its connection: again     *)
(* and again, each service is without one.                                  *)
IdleSessionsEnd ==
  \A v \in Services : []<>(connection[v] = Absent)
=============================================================================
