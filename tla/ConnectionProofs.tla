--------------------------- MODULE ConnectionProofs ---------------------------
(***************************************************************************)
(* Proofs that nothing of a signal connection is lost, from the servers to *)
(* the page.  On Node: every upstream connection is registered and         *)
(* authorized (ConnectionsAreOwned), and the registry keeps within its     *)
(* limit, for any requests, sessions, rooms and services.  On the Worker:  *)
(* nothing of a WebSocket is lost track of (SocketIsOwned), and a          *)
(* connection that is lost is reported once (LossIsReported), for any      *)
(* number of connects, frames, requests and attachments and any limit.  On *)
(* the page, for any number of reads, events, starts and sessions: a read  *)
(* in flight changes nothing once the gateway was stopped or the page left *)
(* (NothingAfterStop), whichever way the gateway numbers its events; and   *)
(* with a gateway that goes on with its numbers, as the Worker does, every *)
(* event is handed to the session or will still be read (NothingWithheld). *)
(***************************************************************************)
EXTENDS SessionRegistry, WorkerSignalSocket, SignalPolling, FiniteSetTheorems, WellFoundedInduction, TLAPS

-----------------------------------------------------------------------------
(* The registry of the Node gateway.                                         *)

\* A service is registered with one session, which authorized the room it is for.
Entries ==
  /\ \A s, t \in Sessions : entry[s] # Absent /\ entry[s] = entry[t] => s = t
  /\ \A s \in Sessions : entry[s] # Absent =>
       entry[s] \in created /\ authorized[s] \in joined[entry[s]]

\* r's session is registered with service v, and joined r's room through it.
OwnedBy(r, v) == page[r] \in Sessions /\ entry[page[r]] = v /\ room[r] \in joined[v]

\* A join knows its session and its room.
Joins == \A r \in Requests : stands[r] = "joining" => page[r] \in Sessions /\ room[r] \in Rooms

\* A start that may still connect was not stopped, evicted or replaced.
Pending ==
  \A r \in Requests : stands[r] = "connecting" =>
    /\ svc[r] \in created /\ gen[r] <= activeGen[svc[r]]
    /\ gen[r] = activeGen[svc[r]] => OwnedBy(r, svc[r])

\* A connection belongs to a start that is done.
Held ==
  \A v \in Services : connection[v] # Absent =>
    v \in created /\ stands[connection[v]] = "done" /\ OwnedBy(connection[v], v)

RegistryInv == RegistryTypeOK /\ Entries /\ Joins /\ Pending /\ Held

-----------------------------------------------------------------------------
\* Stopping services raises their generation and drops their connection.
LEMMA ServicesStopped ==
  ASSUME RegistryTypeOK, NEW gone \in SUBSET Sessions, StopServices(gone)
  PROVE  /\ activeGen' \in [Services -> Nat] /\ connection' \in [Services -> Requests \cup {Absent}]
         /\ \A v \in Services :
              IF \E s \in gone : entry[s] = v
              THEN activeGen'[v] = activeGen[v] + 1 /\ connection'[v] = Absent
              ELSE activeGen'[v] = activeGen[v] /\ connection'[v] = connection[v]
  <1> DEFINE stopped == {entry[s] : s \in gone} \ {Absent}
  <1>1. /\ activeGen' = [v \in Services |-> IF v \in stopped THEN activeGen[v] + 1 ELSE activeGen[v]]
        /\ connection' = [v \in Services |-> IF v \in stopped THEN Absent ELSE connection[v]]
    BY DEF StopServices
  <1>2. \A v \in Services : v \in stopped <=> \E s \in gone : entry[s] = v
    BY AbsentAssumption
  <1> HIDE DEF stopped
  <1> QED  BY <1>1, <1>2 DEF RegistryTypeOK

\* No request begins to connect or to join, and none that is done changes.
NoneBegins ==
  /\ stands' \in [Requests -> {"idle", "joining", "connecting", "done"}]
  /\ page' \in [Requests -> Sessions \cup {Absent}]
  /\ \A r \in Requests : stands'[r] \in {"joining", "connecting"} \/ stands[r] = "done" =>
       stands'[r] = stands[r] /\ page'[r] = page[r]
  /\ UNCHANGED <<room, svc, gen>>

\* Entries that go with their services stopped leave nothing behind.
LEMMA ReleaseKeeps ==
  ASSUME RegistryInv, NEW gone \in SUBSET Sessions, NEW s \in Sessions, StopServices(gone), Release(gone, s),
         NoneBegins
  PROVE  RegistryInv'
  <1>1. /\ entry' = [t \in Sessions |-> IF t \in gone THEN Absent ELSE entry[t]]
        /\ authorized' = [t \in Sessions |-> IF t \in gone THEN Absent ELSE authorized[t]]
        /\ idle' \in [Sessions -> 0..Idle] /\ UNCHANGED <<created, joined>>
    BY BoundsAssumption DEF Release, RegistryInv, RegistryTypeOK
  <1>2. /\ activeGen' \in [Services -> Nat] /\ connection' \in [Services -> Requests \cup {Absent}]
        /\ \A v \in Services :
             IF \E t \in gone : entry[t] = v
             THEN activeGen'[v] = activeGen[v] + 1 /\ connection'[v] = Absent
             ELSE activeGen'[v] = activeGen[v] /\ connection'[v] = connection[v]
    BY ServicesStopped DEF RegistryInv
  <1>3. RegistryTypeOK'
    BY <1>1, <1>2 DEF RegistryInv, RegistryTypeOK, NoneBegins
  <1>4. Entries'
    BY <1>1 DEF RegistryInv, RegistryTypeOK, Entries
  <1>5. Pending'
    <2> SUFFICES ASSUME NEW q \in Requests, stands'[q] = "connecting"
                 PROVE  /\ svc'[q] = svc[q] /\ gen'[q] = gen[q] /\ svc[q] \in created' /\ gen[q] <= activeGen'[svc[q]]
                        /\ gen[q] = activeGen'[svc[q]] => OwnedBy(q, svc[q])'
      BY DEF Pending
    <2>1. stands[q] = "connecting" /\ page'[q] = page[q] /\ UNCHANGED <<room, svc, gen>>
      BY DEF NoneBegins
    <2>2. svc[q] \in Services /\ gen[q] \in Nat /\ activeGen[svc[q]] \in Nat /\ svc[q] # Absent
      BY <2>1, AbsentAssumption DEF RegistryInv, RegistryTypeOK, Pending
    <2> QED  BY <1>1, <1>2, <2>1, <2>2 DEF RegistryInv, RegistryTypeOK, Pending, OwnedBy
  <1>6. Held'
    <2> SUFFICES ASSUME NEW v \in Services, connection'[v] # Absent
                 PROVE  v \in created' /\ stands'[connection'[v]] = "done" /\ OwnedBy(connection[v], v)'
      BY DEF Held
    <2>1. connection'[v] = connection[v] /\ \A t \in gone : entry[t] # v
      BY <1>2
    <2>2. connection[v] \in Requests /\ stands[connection[v]] = "done" /\ OwnedBy(connection[v], v)
      BY <2>1 DEF RegistryInv, RegistryTypeOK, Held
    <2>3. stands'[connection[v]] = "done" /\ page'[connection[v]] = page[connection[v]] /\ room' = room
      BY <2>2 DEF NoneBegins
    <2> QED  BY <1>1, <2>1, <2>2, <2>3 DEF RegistryInv, Held, OwnedBy
  <1>7. Joins'
    BY DEF RegistryInv, Joins, NoneBegins
  <1> QED  BY <1>3, <1>4, <1>5, <1>6, <1>7 DEF RegistryInv

\* A join that is let in: the session's own service, or a new one, takes its room.
LEMMA JoinKeeps ==
  ASSUME RegistryInv, NEW r \in Requests, stands[r] = "joining", stands' = [stands EXCEPT ![r] = "done"],
         StopServices(Expired), NEW v,
         IF entry[page[r]] # Absent /\ page[r] \notin Expired THEN v = entry[page[r]]
         ELSE v \in Services \ created,
         entry' = [t \in Sessions |-> IF t = page[r] THEN v ELSE IF t \in Expired THEN Absent ELSE entry[t]],
         created' = created \cup {v}, joined' = [joined EXCEPT ![v] = @ \cup {room[r]}],
         authorized' = [t \in Sessions |-> IF t = page[r] THEN room[r]
                                           ELSE IF t \in Expired THEN Absent ELSE authorized[t]],
         idle' = [idle EXCEPT ![page[r]] = Idle], UNCHANGED <<page, room, svc, gen>>
  PROVE  RegistryInv'
  <1>0. page[r] \in Sessions /\ room[r] \in Rooms
    BY DEF RegistryInv, Joins
  <1>1. v \in Services /\ v # Absent
    BY <1>0, AbsentAssumption DEF RegistryInv, RegistryTypeOK, Entries
  <1>2. /\ activeGen' \in [Services -> Nat] /\ connection' \in [Services -> Requests \cup {Absent}]
        /\ \A w \in Services :
             IF \E t \in Expired : entry[t] = w
             THEN activeGen'[w] = activeGen[w] + 1 /\ connection'[w] = Absent
             ELSE activeGen'[w] = activeGen[w] /\ connection'[w] = connection[w]
    BY ServicesStopped DEF RegistryInv, Expired
  <1>3. RegistryTypeOK'
    <2>1. idle' \in [Sessions -> 0..Idle] /\ stands' \in [Requests -> {"idle", "joining", "connecting", "done"}]
      BY <1>0, BoundsAssumption DEF RegistryInv, RegistryTypeOK
    <2>2. /\ entry' \in [Sessions -> Services \cup {Absent}]
          /\ authorized' \in [Sessions -> Rooms \cup {Absent}]
      BY <1>0, <1>1 DEF RegistryInv, RegistryTypeOK
    <2>3. created' \subseteq Services /\ joined' \in [Services -> SUBSET Rooms]
      BY <1>0, <1>1 DEF RegistryInv, RegistryTypeOK
    <2> QED  BY <1>2, <2>1, <2>2, <2>3 DEF RegistryInv, RegistryTypeOK
  <1>4. \A t \in Sessions : entry[t] = v => t = page[r]
    BY <1>0, <1>1 DEF RegistryInv, Entries
  <1>5. Entries'
    <2>1. \A t \in Sessions : t # page[r] /\ entry'[t] # Absent =>
            entry'[t] = entry[t] /\ entry[t] # v /\ entry[t] \in created /\ authorized'[t] = authorized[t]
      BY <1>4 DEF RegistryInv, Entries
    <2>2. entry'[page[r]] = v /\ authorized'[page[r]] = room[r] /\ room[r] \in joined'[v] /\ v \in created'
      BY <1>0, <1>1 DEF RegistryInv, RegistryTypeOK
    <2>3. \A w \in Services : joined[w] \subseteq joined'[w]
      BY DEF RegistryInv, RegistryTypeOK
    <2>4. \A t \in Sessions : entry'[t] # Absent =>
            entry'[t] \in created' /\ authorized'[t] \in joined'[entry'[t]]
      BY <2>1, <2>2, <2>3 DEF RegistryInv, RegistryTypeOK, Entries
    <2>5. \A s, t \in Sessions : entry'[s] # Absent /\ entry'[s] = entry'[t] => s = t
      BY <2>1, <2>2, <1>1 DEF RegistryInv, Entries
    <2> QED  BY <2>4, <2>5 DEF Entries
  \* Who owned a service that was not stopped still does.
  <1>6. ASSUME NEW q \in Requests, NEW w \in Services, w # Absent, OwnedBy(q, w), w \in created,
               ~\E t \in Expired : entry[t] = w
        PROVE  OwnedBy(q, w)'
    <2>1. page[q] \in Sessions /\ page[q] \notin Expired /\ entry[page[q]] = w
      BY <1>6 DEF OwnedBy
    <2>2. page[q] = page[r] => w = v
      BY <1>6, <2>1
    <2>3. entry'[page[q]] = w
      BY <2>1, <2>2
    <2>4. room[q] \in joined'[w]
      BY <1>6 DEF RegistryInv, RegistryTypeOK, OwnedBy
    <2> QED  BY <2>1, <2>3, <2>4 DEF OwnedBy
  <1>7. Pending'
    <2> SUFFICES ASSUME NEW q \in Requests, stands'[q] = "connecting"
                 PROVE  /\ svc[q] \in created' /\ gen[q] <= activeGen'[svc[q]]
                        /\ gen[q] = activeGen'[svc[q]] => OwnedBy(q, svc[q])'
      BY DEF Pending
    <2>1. stands[q] = "connecting" /\ svc[q] \in created /\ gen[q] <= activeGen[svc[q]]
      BY DEF RegistryInv, RegistryTypeOK, Pending
    <2>2. svc[q] \in Services /\ gen[q] \in Nat /\ activeGen[svc[q]] \in Nat /\ svc[q] # Absent
      BY <2>1, AbsentAssumption DEF RegistryInv, RegistryTypeOK
    <2>3. CASE \E t \in Expired : entry[t] = svc[q]
      BY <1>2, <2>1, <2>2, <2>3
    <2>4. CASE ~\E t \in Expired : entry[t] = svc[q]
      BY <1>2, <1>6, <2>1, <2>2, <2>4 DEF RegistryInv, Pending
    <2> QED  BY <2>3, <2>4
  <1>8. Held'
    <2> SUFFICES ASSUME NEW w \in Services, connection'[w] # Absent
                 PROVE  w \in created' /\ stands'[connection'[w]] = "done" /\ OwnedBy(connection[w], w)'
                        /\ connection'[w] = connection[w]
      BY DEF Held, OwnedBy
    <2>1. connection'[w] = connection[w] /\ ~\E t \in Expired : entry[t] = w
      BY <1>2
    <2>2. /\ connection[w] \in Requests /\ w \in created /\ w # Absent
          /\ stands[connection[w]] = "done" /\ OwnedBy(connection[w], w)
      BY <2>1, AbsentAssumption DEF RegistryInv, RegistryTypeOK, Held
    <2> QED  BY <1>6, <2>1, <2>2 DEF RegistryInv, RegistryTypeOK
  <1>9. Joins'
    BY DEF RegistryInv, RegistryTypeOK, Joins
  <1> QED  BY <1>3, <1>5, <1>7, <1>8, <1>9 DEF RegistryInv

LEMMA JoinReturnsKeeps == ASSUME RegistryInv, NEW r \in Requests, JoinReturns(r) PROVE RegistryInv'
  <1>1. /\ stands[r] = "joining" /\ stands' = [stands EXCEPT ![r] = "done"] /\ StopServices(Expired)
        /\ UNCHANGED <<page, room, svc, gen>> /\ page[r] \in Sessions
    BY DEF JoinReturns, RegistryInv, Joins
  <1>2. CASE Release(Expired, page[r])
    <2>1. NoneBegins
      BY <1>1 DEF NoneBegins, RegistryInv, RegistryTypeOK
    <2> QED  BY <1>1, <1>2, <2>1, ReleaseKeeps DEF Expired
  <1>3. CASE ~Release(Expired, page[r])
    <2> DEFINE s == page[r]
               live == {t \in Sessions : entry[t] # Absent} \ Expired
    <2>1. s \in live <=> entry[s] # Absent /\ s \notin Expired
      BY <1>1
    <2>2. PICK v \in IF s \in live THEN {entry[s]} ELSE Services \ created :
            /\ entry' = [t \in Sessions |-> IF t = s THEN v ELSE IF t \in Expired THEN Absent ELSE entry[t]]
            /\ created' = created \cup {v}
            /\ joined' = [joined EXCEPT ![v] = @ \cup {room[r]}]
      BY <1>3 DEF JoinReturns
    <2>3. /\ authorized' = [t \in Sessions |-> IF t = s THEN room[r]
                                               ELSE IF t \in Expired THEN Absent ELSE authorized[t]]
          /\ idle' = [idle EXCEPT ![s] = Idle]
      BY <1>3 DEF JoinReturns
    <2> HIDE DEF live
    <2> QED  BY <1>1, <2>1, <2>2, <2>3, JoinKeeps
  <1> QED  BY <1>2, <1>3

LEMMA StopKeeps ==
  ASSUME RegistryInv, NEW r \in Requests, NEW s \in Sessions, Touch(r, s) \/ StopCall(r, s) PROVE RegistryInv'
  <1>1. PICK gone \in {Expired, Expired \cup {s}} : StopServices(gone) /\ Release(gone, s)
    BY DEF Touch, StopCall
  <1>2. NoneBegins
    BY DEF Touch, StopCall, NoneBegins, RegistryInv, RegistryTypeOK
  <1> QED  BY <1>1, <1>2, ReleaseKeeps DEF Expired

LEMMA TimerKeeps == ASSUME RegistryInv, NEW s \in Sessions, TimerFires(s) PROVE RegistryInv'
  BY ReleaseKeeps DEF TimerFires, NoneBegins, requestVars, RegistryInv, RegistryTypeOK

\* A start that replaces the session's connection is the one that may connect.
LEMMA StartCallKeeps ==
  ASSUME RegistryInv, NEW r \in Requests, NEW s \in Sessions, StartCall(r, s) PROVE RegistryInv'
  <1> DEFINE v == entry[s]
  <1>1. PICK m \in Rooms : MayStart(s, m) /\ room' = [room EXCEPT ![r] = m]
    BY DEF StartCall
  <1>2. /\ stands[r] = "idle" /\ stands' = [stands EXCEPT ![r] = "connecting"]
        /\ page' = [page EXCEPT ![r] = s] /\ svc' = [svc EXCEPT ![r] = v]
        /\ gen' = [gen EXCEPT ![r] = activeGen[v] + 1]
        /\ StopServices(Expired \cup {s}) /\ Release(Expired, s)
    BY DEF StartCall
  <1>3. /\ s \notin Expired /\ v \in Services /\ v # Absent /\ v \in created /\ m \in joined[v]
        /\ activeGen[v] \in Nat
    BY <1>1, AbsentAssumption DEF MayStart, Found, RegistryInv, RegistryTypeOK, Entries
  <1>4. /\ entry' = [t \in Sessions |-> IF t \in Expired THEN Absent ELSE entry[t]]
        /\ authorized' = [t \in Sessions |-> IF t \in Expired THEN Absent ELSE authorized[t]]
        /\ idle' \in [Sessions -> 0..Idle] /\ UNCHANGED <<created, joined>>
    BY <1>2, BoundsAssumption DEF Release, RegistryInv, RegistryTypeOK
  <1>5. /\ activeGen' \in [Services -> Nat] /\ connection' \in [Services -> Requests \cup {Absent}]
        /\ \A w \in Services :
             IF \E t \in Expired \cup {s} : entry[t] = w
             THEN activeGen'[w] = activeGen[w] + 1 /\ connection'[w] = Absent
             ELSE activeGen'[w] = activeGen[w] /\ connection'[w] = connection[w]
    BY <1>2, ServicesStopped DEF RegistryInv, Expired
  <1>6. RegistryTypeOK' /\ Entries' /\ Joins'
    <2>1. RegistryTypeOK'
      BY <1>1, <1>2, <1>3, <1>4, <1>5 DEF RegistryInv, RegistryTypeOK
    <2>2. Entries' /\ Joins'
      BY <1>1, <1>2, <1>4 DEF RegistryInv, RegistryTypeOK, Entries, Joins
    <2> QED  BY <2>1, <2>2
  \* Every other request keeps what it owns, unless its service was stopped.
  <1>7. ASSUME NEW q \in Requests, q # r, NEW w, OwnedBy(q, w), ~\E t \in Expired \cup {s} : entry[t] = w
        PROVE  OwnedBy(q, w)'
    BY <1>1, <1>2, <1>4, <1>7 DEF RegistryInv, RegistryTypeOK, OwnedBy
  <1>8. Pending'
    <2> SUFFICES ASSUME NEW q \in Requests, stands'[q] = "connecting"
                 PROVE  /\ svc'[q] \in created' /\ gen'[q] <= activeGen'[svc'[q]]
                        /\ gen'[q] = activeGen'[svc'[q]] => OwnedBy(q, svc[q])'
      BY DEF Pending
    <2>1. CASE q = r
      <3>1. svc'[r] = v /\ gen'[r] = activeGen[v] + 1 /\ activeGen'[v] = activeGen[v] + 1
        BY <1>2, <1>3, <1>5 DEF RegistryInv, RegistryTypeOK
      <3>2. page'[r] = s /\ entry'[s] = v /\ room'[r] = m
        BY <1>1, <1>2, <1>3, <1>4 DEF RegistryInv, RegistryTypeOK
      <3> QED  BY <1>3, <1>4, <2>1, <3>1, <3>2 DEF OwnedBy
    <2>2. CASE q # r
      <3>1. stands[q] = "connecting" /\ svc'[q] = svc[q] /\ gen'[q] = gen[q]
        BY <1>2, <2>2 DEF RegistryInv, RegistryTypeOK
      <3>2. /\ svc[q] \in created /\ gen[q] <= activeGen[svc[q]] /\ svc[q] \in Services
            /\ gen[q] \in Nat /\ activeGen[svc[q]] \in Nat
            /\ gen[q] = activeGen[svc[q]] => OwnedBy(q, svc[q])
        BY <3>1 DEF RegistryInv, RegistryTypeOK, Pending
      <3>3. CASE \E t \in Expired \cup {s} : entry[t] = svc[q]
        BY <1>4, <1>5, <3>1, <3>2, <3>3
      <3>4. CASE ~\E t \in Expired \cup {s} : entry[t] = svc[q]
        <4>1. OwnedBy(q, svc[q]) => OwnedBy(q, svc[q])'
          BY <1>7, <2>2, <3>1, <3>4 DEF OwnedBy
        <4> QED  BY <1>4, <1>5, <3>1, <3>2, <3>4, <4>1
      <3> QED  BY <3>3, <3>4
    <2> QED  BY <2>1, <2>2
  <1>9. Held'
    <2> SUFFICES ASSUME NEW w \in Services, connection'[w] # Absent
                 PROVE  w \in created' /\ stands'[connection'[w]] = "done" /\ OwnedBy(connection[w], w)'
      BY DEF Held
    <2>1. connection'[w] = connection[w] /\ ~\E t \in Expired \cup {s} : entry[t] = w
      BY <1>5
    <2>2. /\ connection[w] \in Requests /\ w \in created /\ connection[w] # r
          /\ stands[connection[w]] = "done" /\ OwnedBy(connection[w], w)
      BY <1>2, <2>1 DEF RegistryInv, RegistryTypeOK, Held
    <2>3. stands'[connection[w]] = "done"
      BY <1>2, <2>2 DEF RegistryInv, RegistryTypeOK
    <2>4. OwnedBy(connection[w], w)'
      BY <1>1, <1>2, <1>4, <2>1, <2>2 DEF RegistryInv, RegistryTypeOK, OwnedBy
    <2> QED  BY <1>4, <2>1, <2>2, <2>3, <2>4
  <1> QED  BY <1>6, <1>8, <1>9 DEF RegistryInv

LEMMA JoinCallKeeps == ASSUME RegistryInv, NEW r \in Requests, NEW s \in Sessions, JoinCall(r, s) PROVE RegistryInv'
  <1>1. /\ stands[r] = "idle" /\ stands' = [stands EXCEPT ![r] = "joining"] /\ page' = [page EXCEPT ![r] = s]
        /\ UNCHANGED <<svc, gen, entryVars, serviceVars>>
    BY DEF JoinCall
  <1>2. PICK m \in Rooms : room' = [room EXCEPT ![r] = m]
    BY DEF JoinCall
  <1>3. RegistryTypeOK' /\ Entries' /\ Joins'
    BY <1>1, <1>2 DEF RegistryInv, RegistryTypeOK, Entries, Joins, entryVars, serviceVars
  <1>4. Pending'
    BY <1>1, <1>2 DEF RegistryInv, RegistryTypeOK, Pending, OwnedBy, entryVars, serviceVars
  <1>5. Held'
    BY <1>1, <1>2 DEF RegistryInv, RegistryTypeOK, Held, OwnedBy, entryVars, serviceVars
  <1> QED  BY <1>3, <1>4, <1>5 DEF RegistryInv

\* A connect that arrives while its start is the service's newest belongs to it.
LEMMA ConnectedKeeps == ASSUME RegistryInv, NEW r \in Requests, StartConnected(r) PROVE RegistryInv'
  <1>1. /\ stands[r] = "connecting" /\ stands' = [stands EXCEPT ![r] = "done"] /\ Connects(r)
        /\ UNCHANGED <<page, room, svc, gen, entryVars, activeGen>>
    BY DEF StartConnected
  <1>2. svc[r] \in created /\ svc[r] \in Services
    BY <1>1 DEF RegistryInv, RegistryTypeOK, Pending
  <1>3. RegistryTypeOK' /\ Entries' /\ Joins' /\ Pending'
    BY <1>1, <1>2 DEF Connects, RegistryInv, RegistryTypeOK, Entries, Joins, Pending, OwnedBy, entryVars
  <1>4. Held'
    <2>1. CASE gen[r] = activeGen[svc[r]]
      <3>1. OwnedBy(r, svc[r]) /\ connection' = [connection EXCEPT ![svc[r]] = r]
        BY <1>1, <2>1 DEF Connects, RegistryInv, Pending
      <3> QED  BY <1>1, <1>2, <3>1 DEF RegistryInv, RegistryTypeOK, Held, OwnedBy, entryVars
    <2>2. CASE gen[r] # activeGen[svc[r]]
      BY <1>1, <2>2 DEF Connects, RegistryInv, RegistryTypeOK, Held, OwnedBy, entryVars
    <2> QED  BY <2>1, <2>2
  <1> QED  BY <1>3, <1>4 DEF RegistryInv

LEMMA EndsKeeps ==
  ASSUME RegistryInv,
         \/ \E r \in Requests : JoinFails(r) \/ StartFailed(r)
         \/ \E v \in Services : ConnectionEnds(v)
         \/ Tick
         \/ UNCHANGED registryVars
  PROVE  RegistryInv'
  <1>1. ASSUME NEW r \in Requests, JoinFails(r) \/ StartFailed(r) PROVE RegistryInv'
    <2>1. /\ stands[r] \in {"joining", "connecting"} /\ stands' = [stands EXCEPT ![r] = "done"]
          /\ UNCHANGED <<page, room, svc, gen, entryVars, serviceVars>>
      BY <1>1 DEF JoinFails, StartFailed
    <2>2. RegistryTypeOK' /\ Entries' /\ Joins' /\ Pending'
      BY <2>1 DEF RegistryInv, RegistryTypeOK, Entries, Joins, Pending, OwnedBy, entryVars, serviceVars
    <2>3. Held'
      BY <2>1 DEF RegistryInv, RegistryTypeOK, Held, OwnedBy, entryVars, serviceVars
    <2> QED  BY <2>2, <2>3 DEF RegistryInv
  <1>2. ASSUME NEW v \in Services, ConnectionEnds(v) PROVE RegistryInv'
    <2>1. connection' = [connection EXCEPT ![v] = Absent] /\ UNCHANGED <<requestVars, entryVars, activeGen>>
      BY <1>2 DEF ConnectionEnds
    <2> QED
      BY <2>1 DEF RegistryInv, RegistryTypeOK, Entries, Joins, Pending, Held, OwnedBy, requestVars, entryVars
  <1>3. CASE Tick
    <2>1. idle' \in [Sessions -> 0..Idle] /\ UNCHANGED <<requestVars, entry, authorized, created, joined, serviceVars>>
      BY <1>3, BoundsAssumption DEF Tick, Older, RegistryInv, RegistryTypeOK
    <2> QED  BY <2>1 DEF RegistryInv, RegistryTypeOK, Entries, Joins, Pending, Held, OwnedBy, requestVars, serviceVars
  <1>4. CASE UNCHANGED registryVars
    BY <1>4 DEF RegistryInv, RegistryTypeOK, Entries, Joins, Pending, Held, OwnedBy, registryVars, requestVars, entryVars, serviceVars
  <1> QED  BY <1>1, <1>2, <1>3, <1>4

-----------------------------------------------------------------------------
\* The inductive invariant of Node's registry: every service has one session, and who may still
\* connect was neither stopped nor replaced (remoteControlSessionRegistry.ts).
THEOREM RegistryInvariance == RegistrySpec => []RegistryInv
<1>1. RegistryInit => RegistryInv
  BY BoundsAssumption, AbsentAssumption DEF RegistryInit, RegistryInv, RegistryTypeOK, Entries, Joins, Pending, Held, OwnedBy
<1>2. RegistryInv /\ [RegistryNext]_registryVars => RegistryInv'
  <2> SUFFICES ASSUME RegistryInv, [RegistryNext]_registryVars PROVE RegistryInv'
    OBVIOUS
  <2>1. ASSUME NEW r \in Requests, NEW s \in Sessions,
               JoinCall(r, s) \/ StartCall(r, s) \/ Touch(r, s) \/ StopCall(r, s)
        PROVE  RegistryInv'
    BY <2>1, JoinCallKeeps, StartCallKeeps, StopKeeps
  <2>2. ASSUME NEW r \in Requests, JoinReturns(r) \/ StartConnected(r) PROVE RegistryInv'
    BY <2>2, JoinReturnsKeeps, ConnectedKeeps
  <2>3. ASSUME NEW s \in Sessions, TimerFires(s) PROVE RegistryInv'
    BY <2>3, TimerKeeps
  <2>4. CASE \/ \E r \in Requests : JoinFails(r) \/ StartFailed(r)
             \/ \E v \in Services : ConnectionEnds(v)
             \/ Tick
             \/ UNCHANGED registryVars
    BY <2>4, EndsKeeps
  <2> QED BY <2>1, <2>2, <2>3, <2>4 DEF RegistryNext
<1> QED  BY <1>1, <1>2, PTL DEF RegistrySpec

\* Every upstream connection is held by the service its page session is registered with, and
\* is for a room that session joined: remoteControlSessionRegistry.ts leaves no connection
\* that no request and no idle timer could reach, whatever starts and joins overlap.
THEOREM ConnectionsStayOwned == RegistrySpec => []ConnectionsAreOwned
<1>1. RegistryInv => ConnectionsAreOwned
  <2> SUFFICES ASSUME RegistryInv PROVE ConnectionsAreOwned
    OBVIOUS
  <2>1. ConnectionsAreRegistered
    BY DEF RegistryInv, Held, OwnedBy, ConnectionsAreRegistered
  <2>2. ConnectionsAreAuthorized
    BY DEF RegistryInv, RegistryTypeOK, Entries, Held, OwnedBy, ConnectionsAreAuthorized
  <2> QED  BY <2>1, <2>2 DEF ConnectionsAreOwned
<1> QED  BY <1>1, RegistryInvariance, PTL

-----------------------------------------------------------------------------
(* The limit of the registry.                                                *)

Live == {s \in Sessions : entry[s] # Absent}
WithinLimit == Cardinality(Live) <= MaxSessions

\* However joins, evictions and stops of any number of page sessions interleave, the registry
\* never holds more than maxSessions entries (authorize() of remoteControlSessionRegistry.ts).
THEOREM RegistryIsBounded == ASSUME IsFiniteSet(Sessions) PROVE RegistrySpec => []WithinLimit
<1>1. RegistryInit => WithinLimit
  <2> SUFFICES ASSUME RegistryInit PROVE WithinLimit
    OBVIOUS
  <2>1. Live = {}
    BY DEF RegistryInit, Live
  <2> QED  BY <2>1, FS_EmptySet, BoundsAssumption DEF WithinLimit
<1>2. RegistryInv /\ WithinLimit /\ [RegistryNext]_registryVars => WithinLimit'
  <2> SUFFICES ASSUME RegistryInv, WithinLimit, [RegistryNext]_registryVars PROVE WithinLimit'
    OBVIOUS
  <2>1. IsFiniteSet(Live) /\ IsFiniteSet(Live')
    BY FS_Subset DEF Live
  \* Most steps add no entry.
  <2>2. CASE Live' \subseteq Live
    <3>1. Cardinality(Live') <= Cardinality(Live) /\ Cardinality(Live) \in Nat /\ Cardinality(Live') \in Nat
      BY <2>1, <2>2, FS_Subset, FS_CardinalityType
    <3> QED  BY <3>1, BoundsAssumption DEF WithinLimit
  \* A join that adds one found fewer than the limit, of those that are not idle.
  <2>3. ASSUME NEW r \in Requests, JoinReturns(r), ~(Live' \subseteq Live) PROVE WithinLimit'
    <3> DEFINE live == Live \ Expired
    <3>0. page[r] \in Sessions
      BY <2>3 DEF JoinReturns, RegistryInv, Joins
    <3>1. Live' \subseteq live \cup {page[r]} /\ page[r] \notin Live /\ Cardinality(live) < MaxSessions
      BY <2>3, <3>0 DEF JoinReturns, Release, Live, RegistryInv, RegistryTypeOK
    <3>2. IsFiniteSet(live) /\ Cardinality(live) \in Nat
      BY <2>1, FS_Subset, FS_CardinalityType
    <3>3. IsFiniteSet(live \cup {page[r]}) /\ Cardinality(live \cup {page[r]}) = Cardinality(live) + 1
      BY <3>1, <3>2, FS_AddElement
    <3>4. Cardinality(Live') <= Cardinality(live) + 1 /\ Cardinality(Live') \in Nat
      BY <2>1, <3>1, <3>3, FS_Subset, FS_CardinalityType
    <3> QED  BY <3>1, <3>2, <3>4, BoundsAssumption DEF WithinLimit
  <2>4. CASE ~\E r \in Requests : JoinReturns(r)
    <3>1. ASSUME NEW gone \in SUBSET Sessions, NEW s, Release(gone, s) PROVE Live' \subseteq Live
      BY <3>1 DEF Release, Live
    <3> SUFFICES Live' \subseteq Live
      BY <2>2
    <3>2. ASSUME entry' = entry PROVE Live' \subseteq Live
      BY <3>2 DEF Live
    <3>3. CASE \E r \in Requests, s \in Sessions : StartCall(r, s) \/ Touch(r, s) \/ StopCall(r, s)
      BY <3>1, <3>3 DEF StartCall, Touch, StopCall, Expired
    <3>4. CASE \E s \in Sessions : TimerFires(s)
      BY <3>1, <3>4 DEF TimerFires, Expired
    <3>5. CASE \E r \in Requests : \/ \E s \in Sessions : JoinCall(r, s)
                                   \/ JoinFails(r) \/ StartConnected(r) \/ StartFailed(r)
      BY <3>2, <3>5 DEF JoinCall, JoinFails, StartConnected, StartFailed, entryVars
    <3>6. CASE Tick \/ UNCHANGED registryVars \/ \E v \in Services : ConnectionEnds(v)
      BY <3>2, <3>6 DEF Tick, ConnectionEnds, entryVars, registryVars
    <3> QED  BY <2>4, <3>3, <3>4, <3>5, <3>6 DEF RegistryNext
  <2> QED  BY <2>2, <2>3, <2>4
<1> QED  BY <1>1, <1>2, RegistryInvariance, PTL DEF RegistrySpec

-----------------------------------------------------------------------------
(* The WebSocket of the Worker.                                              *)

LEMMA NoneIsNoAttempt == Nothing \notin Attempts
  BY SocketAssumption DEF Attempts

USE NoneIsNoAttempt

Places == {"none", "opening", "opened", "handshake", "resolved", "rejected", "connected", "failed"}

\* The part of the type invariant that the arguments need.
ConnTypes ==
  /\ attempt \in [Attempts -> Places]
  /\ ws \in [Attempts -> {"none", "open", "closed", "gone"}]
  /\ socket \in Attempts \cup {Nothing} /\ connecting \in Attempts \cup {Nothing}
  /\ handshake \in Attempts \cup {Nothing} /\ heartbeat \in Attempts \cup {Nothing}
  /\ ended \in [Attempts -> [reports : Nat, closed : BOOLEAN]]

Young == {"none", "opening", "opened"}

\* What a connect() has reached so far tells the object's fields: it has the object to itself
\* until it ends, and its socket is the object's from its handshake on.
Progress ==
  /\ connecting # Nothing => attempt[connecting] \in {"opening", "opened", "handshake", "resolved", "rejected"}
  /\ connecting # Nothing /\ attempt[connecting] \in Young => socket = Nothing
  /\ connecting # Nothing /\ socket # Nothing => connecting = socket
  /\ socket # Nothing => attempt[socket] \notin Young
  /\ handshake # Nothing => handshake = socket /\ attempt[handshake] = "handshake"

\* A WebSocket that nobody owns is not open.
Sockets ==
  \A i \in Attempts :
    /\ ws[i] = "open" => socket = i \/ attempt[i] = "opened"
    /\ attempt[i] \in {"none", "opening"} => ws[i] = "none"

\* Only a socket the object has let go of has been reported or closed, and a connection that
\* was let go of has been.
Fresh(s) == ended[s].reports = 0 /\ ended[s].closed = FALSE
Once(s)  == \/ ended[s].reports = 1 /\ ended[s].closed = FALSE
            \/ ended[s].reports = 0 /\ ended[s].closed = TRUE
Losses ==
  \A s \in Attempts :
    /\ Fresh(s) \/ Once(s)
    /\ attempt[s] \in Young \/ socket = s => Fresh(s)
    /\ attempt[s] = "connected" /\ socket # s => Once(s)

\* Requests wait for the socket they were sent on.
Waiting == \A a \in acks : a.sock = socket /\ a.sock \in Attempts

ConnInv == ConnTypes /\ Progress /\ Sockets /\ Losses

connSeen == <<attempt, ws, socket, connecting, handshake, heartbeat, ended>>

-----------------------------------------------------------------------------
(* Connections. *)

LEMMA ConnSeenUnchanged == ASSUME ConnInv, UNCHANGED connSeen PROVE ConnInv'
  BY DEF ConnInv, ConnTypes, Progress, Sockets, Losses, Fresh, Once, connSeen

\* The object's socket ends, with or without a connect() that waits for its handshake.
LEMMA SocketEnds ==
  ASSUME ConnInv, NEW s \in Attempts, Ends(s), UNCHANGED heartbeat \/ heartbeat' = Nothing
  PROVE ConnInv'
  <1>1. CASE s # socket
    BY <1>1, ConnSeenUnchanged DEF Ends, connVars, protocolVars, connSeen
  <1>2. CASE s = socket
    <2>1. /\ socket' = Nothing /\ connecting' = Nothing /\ handshake' = Nothing /\ heartbeat' = Nothing
          /\ ws' = [ws EXCEPT ![s] = IF @ = "open" THEN "closed" ELSE @]
          /\ attempt' = IF handshake = Nothing THEN attempt ELSE [attempt EXCEPT ![handshake] = "rejected"]
          /\ ended' = IF handshake # Nothing THEN ended ELSE [ended EXCEPT ![s].reports = @ + 1]
      BY <1>2 DEF Ends, RejectHandshake, ReleaseSocket, CloseSocket, ResetProtocolState
    <2>2. ConnTypes'
      BY <2>1 DEF ConnInv, ConnTypes, Places
    <2>3. Progress'
      BY <2>1 DEF Progress
    <2>4. Sockets'
      BY <1>2, <2>1 DEF ConnInv, ConnTypes, Places, Progress, Sockets, Young
    <2>5. ASSUME NEW t \in Attempts
          PROVE  /\ Fresh(t)' \/ Once(t)'
                 /\ attempt'[t] \in Young => Fresh(t)'
                 /\ attempt'[t] = "connected" => Once(t)'
      <3>1. CASE t # s
        BY <1>2, <2>1, <3>1 DEF ConnInv, ConnTypes, Places, Progress, Losses, Fresh, Once, Young
      <3>2. CASE t = s /\ handshake # Nothing
        BY <1>2, <2>1, <3>2 DEF ConnInv, ConnTypes, Places, Progress, Losses, Fresh, Once, Young
      <3>3. CASE t = s /\ handshake = Nothing
        <4>1. Fresh(s) /\ attempt[s] \notin Young
          BY <1>2 DEF ConnInv, Losses, Progress, Fresh, Once
        <4>2. ended'[s].reports = 1 /\ ended'[s].closed = FALSE
          BY <2>1, <3>3, <4>1 DEF ConnInv, ConnTypes, Fresh
        <4>. QED  BY <2>1, <3>3, <4>1, <4>2 DEF Fresh, Once
      <3>. QED  BY <3>1, <3>2, <3>3
    <2>6. Losses'
      BY <2>1, <2>5 DEF Losses
    <2>. QED  BY <2>2, <2>3, <2>4, <2>6 DEF ConnInv
  <1>. QED  BY <1>1, <1>2

LEMMA ConnectKeeps == ASSUME ConnInv, NEW i \in Attempts, Connect(i) PROVE ConnInv'
  <1>. USE DEF Connect, protocolVars, ghostVars
  <1>1. ConnTypes'     BY DEF ConnInv, ConnTypes, Places
  <1>2. Progress'  BY DEF ConnInv, ConnTypes, Progress, Young
  <1>3. Sockets'   BY DEF ConnInv, ConnTypes, Sockets
  <1>4. Losses'    BY DEF ConnInv, ConnTypes, Losses, Fresh, Once, Young
  <1>. QED  BY <1>1, <1>2, <1>3, <1>4 DEF ConnInv

LEMMA OpenKeeps == ASSUME ConnInv, NEW i \in Attempts, Open(i) PROVE ConnInv'
  <1>. USE DEF Open, Aborted, protocolVars, ghostVars
  <1>1. ConnTypes'     BY DEF ConnInv, ConnTypes, Places
  <1>2. Progress'  BY DEF ConnInv, ConnTypes, Progress, Young
  <1>3. Sockets'   BY DEF ConnInv, ConnTypes, Sockets
  <1>4. Losses'    BY DEF ConnInv, ConnTypes, Losses, Fresh, Once, Young
  <1>. QED  BY <1>1, <1>2, <1>3, <1>4 DEF ConnInv

LEMMA OpenedKeeps == ASSUME ConnInv, NEW i \in Attempts, Opened(i) PROVE ConnInv'
  <1>. USE DEF Opened, CloseSocket, protocolVars, ghostVars
  <1>1. ConnTypes'     BY DEF ConnInv, ConnTypes, Places
  <1>2. Progress'  BY DEF ConnInv, ConnTypes, Progress, Young
  <1>3. Sockets'   BY DEF ConnInv, ConnTypes, Progress, Sockets, Young
  <1>4. Losses'    BY DEF ConnInv, ConnTypes, Progress, Losses, Fresh, Once, Young
  <1>. QED  BY <1>1, <1>2, <1>3, <1>4 DEF ConnInv

LEMMA HandshakeTimesOutKeeps ==
  ASSUME ConnInv, NEW i \in Attempts, HandshakeTimesOut(i) PROVE ConnInv'
  <1>. USE DEF HandshakeTimesOut, RejectHandshake, protocolVars, ghostVars
  <1>1. ConnTypes'     BY DEF ConnInv, ConnTypes, Places
  <1>2. Progress'  BY DEF ConnInv, ConnTypes, Progress, Young
  <1>3. Sockets'   BY DEF ConnInv, ConnTypes, Progress, Sockets
  <1>4. Losses'    BY DEF ConnInv, ConnTypes, Progress, Losses, Fresh, Once, Young
  <1>. QED  BY <1>1, <1>2, <1>3, <1>4 DEF ConnInv

\* A connect() that continues after its handshake keeps its socket or gives it up unreported,
\* since it has not returned a connection.
LEMMA SettleKeeps == ASSUME ConnInv, NEW i \in Attempts, Settle(i) PROVE ConnInv'
  <1>. USE DEF Settle, ReleaseSocket, ResetProtocolState, CloseSocket, Aborted, protocolVars, ghostVars
  <1>1. ConnTypes'     BY DEF ConnInv, ConnTypes, Places
  <1>2. Progress'  BY DEF ConnInv, ConnTypes, Progress, Young
  <1>3. Sockets'   BY DEF ConnInv, ConnTypes, Progress, Sockets
  <1>4. ASSUME NEW t \in Attempts
        PROVE  /\ Fresh(t)' \/ Once(t)'
               /\ attempt'[t] \in Young \/ socket' = t => Fresh(t)'
               /\ attempt'[t] = "connected" /\ socket' # t => Once(t)'
    <2>1. CASE t = i  BY <2>1 DEF ConnInv, ConnTypes, Losses, Fresh, Once, Young
    <2>2. CASE t # i  BY <2>2 DEF ConnInv, ConnTypes, Losses, Fresh, Once, Young
    <2>. QED  BY <2>1, <2>2
  <1>5. Losses'
    BY <1>4 DEF Losses
  <1>. QED  BY <1>1, <1>2, <1>3, <1>5 DEF ConnInv

LEMMA MarkKeepsType ==
  ASSUME NEW S, NEW e \in [S -> [reports : Nat, closed : BOOLEAN]], NEW s \in S, NEW b \in BOOLEAN
  PROVE  [e EXCEPT ![s].closed = b] \in [S -> [reports : Nat, closed : BOOLEAN]]
  BY SMT

LEMMA CloseKeeps == ASSUME ConnInv, Close PROVE ConnInv'
  <1>1. /\ socket' = Nothing /\ connecting' = Nothing /\ handshake' = Nothing /\ heartbeat' = Nothing
        /\ attempt' = IF handshake = Nothing THEN attempt ELSE [attempt EXCEPT ![handshake] = "rejected"]
        /\ IF socket = Nothing THEN UNCHANGED <<ws, ended>>
           ELSE /\ ws' = [ws EXCEPT ![socket] = IF @ = "open" THEN "closed" ELSE @]
                /\ ended' = [ended EXCEPT ![socket].closed = TRUE]
    BY DEF Close, RejectHandshake, ResetProtocolState, CloseSocket
  <1>2. ConnTypes'
    <2>1. ended' \in [Attempts -> [reports : Nat, closed : BOOLEAN]]
      <3>1. CASE socket = Nothing
        BY <1>1, <3>1 DEF ConnInv, ConnTypes
      <3>2. CASE socket # Nothing
        <4>. DEFINE R == [reports : Nat, closed : BOOLEAN]
        <4>1. ended \in [Attempts -> R] /\ socket \in Attempts /\ ended' = [ended EXCEPT ![socket].closed = TRUE]
          BY <1>1, <3>2 DEF ConnInv, ConnTypes
        <4>2. [ended EXCEPT ![socket].closed = TRUE] \in [Attempts -> R]
          BY <4>1, MarkKeepsType, Zenon
        <4>. QED  BY <4>1, <4>2, Zenon
      <3>. QED  BY <3>1, <3>2
    <2>. QED  BY <1>1, <2>1 DEF ConnInv, ConnTypes, Places
  <1>3. Progress'  BY <1>1 DEF Progress
  <1>4. Sockets'   BY <1>1 DEF ConnInv, ConnTypes, Progress, Sockets
  <1>5. ASSUME NEW t \in Attempts
        PROVE  /\ Fresh(t)' \/ Once(t)'
               /\ attempt'[t] \in Young => Fresh(t)'
               /\ attempt'[t] = "connected" => Once(t)'
    <2>1. CASE t # socket
      BY <1>1, <2>1 DEF ConnInv, ConnTypes, Places, Progress, Losses, Fresh, Once, Young
    <2>2. CASE t = socket
      <3>1. Fresh(t) /\ attempt[t] \notin Young /\ socket # Nothing
        BY <2>2 DEF ConnInv, Losses, Progress
      <3>2. ended'[t].reports = 0 /\ ended'[t].closed = TRUE
        BY <1>1, <2>2, <3>1 DEF ConnInv, ConnTypes, Fresh
      <3>. QED  BY <1>1, <3>1, <3>2 DEF ConnInv, ConnTypes, Places, Once, Young
    <2>. QED  BY <2>1, <2>2
  <1>6. Losses'
    BY <1>1, <1>5 DEF Losses
  <1>. QED  BY <1>2, <1>3, <1>4, <1>6 DEF ConnInv

LEMMA TransportEndsKeeps == ASSUME ConnInv, NEW s \in Attempts, TransportEnds(s) PROVE ConnInv'
  <1>1. CASE s # socket
    <2>1. /\ ws' = [ws EXCEPT ![s] = "gone"] /\ ws[s] \in {"open", "closed"}
          /\ UNCHANGED <<attempt, socket, connecting, handshake, heartbeat, ended>>
      BY <1>1 DEF TransportEnds, protocolVars
    <2>. QED  BY <2>1 DEF ConnInv, ConnTypes, Progress, Sockets, Losses, Fresh, Once
  <1>2. CASE s = socket
    BY <1>2, SocketEnds DEF TransportEnds, Ends, ReleaseSocket, ResetProtocolState
  <1>. QED  BY <1>1, <1>2

\* A frame that was taken leaves the connection as it is, renews its heartbeat, answers its
\* handshake or ends it.
LEMMA TakeKeeps == ASSUME ConnInv, NEW s \in Attempts, Take(s) PROVE ConnInv'
  <1>1. CASE TakeStale(s) \/ TakeBinary(s)
    BY <1>1, ConnSeenUnchanged DEF TakeStale, TakeBinary, Dropped, connVars, protocolVars, ghostVars, connSeen
  <1>2. CASE TakeBeat(s)
    BY <1>2 DEF TakeBeat, connVars, ConnInv, ConnTypes, Progress, Sockets, Losses, Fresh, Once
  <1>3. CASE TakeConnect(s)
    <2>1. /\ attempt' = IF handshake = Nothing THEN attempt ELSE [attempt EXCEPT ![handshake] = "resolved"]
          /\ handshake' = Nothing /\ UNCHANGED <<ws, socket, connecting, heartbeat, ended>>
      BY <1>3 DEF TakeConnect, ghostVars
    <2>2. ConnTypes'     BY <2>1 DEF ConnInv, ConnTypes, Places
    <2>3. Progress'  BY <2>1 DEF ConnInv, ConnTypes, Progress, Young
    <2>4. Sockets'   BY <2>1 DEF ConnInv, ConnTypes, Progress, Sockets
    <2>5. Losses'    BY <2>1 DEF ConnInv, ConnTypes, Progress, Losses, Fresh, Once, Young
    <2>. QED  BY <2>2, <2>3, <2>4, <2>5 DEF ConnInv
  <1>4. CASE TakeEnd(s)
    BY <1>4, SocketEnds DEF TakeEnd, Invalid, Ends, ReleaseSocket, ResetProtocolState, protocolVars
  <1>5. CASE TakePacket(s)
    BY <1>5, ConnSeenUnchanged DEF TakePacket, ProcessPacket, connVars, ghostVars, connSeen
  <1>6. CASE TakeHeader(s)
    <2>1. CASE binary # Nothing
      BY <1>6, <2>1, SocketEnds
         DEF TakeHeader, Invalid, Ends, ReleaseSocket, ResetProtocolState, protocolVars
    <2>2. CASE binary = Nothing
      BY <1>6, <2>2, ConnSeenUnchanged DEF TakeHeader, connVars, ghostVars, connSeen
    <2>. QED  BY <2>1, <2>2
  <1>7. CASE BytesRead(s) \/ Decoded(s)
    BY <1>7, ConnSeenUnchanged
       DEF BytesRead, Decoded, Dropped, ProcessPacket, connVars, protocolVars, ghostVars, connSeen
  <1>. QED  BY <1>1, <1>2, <1>3, <1>4, <1>5, <1>6, <1>7 DEF Take

LEMMA ConnInvKeeps == ASSUME ConnInv, [SocketNext]_socketVars PROVE ConnInv'
  <1>1. ASSUME NEW i \in Attempts, Connect(i) \/ Continuation(i) PROVE ConnInv'
    BY <1>1, ConnectKeeps, OpenKeeps, OpenedKeeps, HandshakeTimesOutKeeps, SettleKeeps DEF Continuation
  <1>2. ASSUME NEW s \in Attempts, Arrive(s) PROVE ConnInv'
    <2>1. CASE Ends(s)
      BY <2>1, SocketEnds DEF Ends, ReleaseSocket, ResetProtocolState, protocolVars
    <2>2. CASE UNCHANGED <<connVars, protocolVars, ended>>
      BY <2>2, ConnSeenUnchanged DEF connVars, protocolVars, connSeen
    <2>. QED  BY <1>2, <2>1, <2>2 DEF Arrive
  <1>3. CASE HeartbeatFires
    BY <1>3, SocketEnds
       DEF HeartbeatFires, ConnInv, ConnTypes, Ends, ReleaseSocket, ResetProtocolState, protocolVars
  <1>4. CASE Emit \/ AckTimesOut \/ UNCHANGED socketVars
    BY <1>4, ConnSeenUnchanged
       DEF Emit, AckTimesOut, socketVars, connVars, protocolVars, ghostVars, connSeen
  <1>. QED  BY <1>1, <1>2, <1>3, <1>4, TakeKeeps, TransportEndsKeeps, CloseKeeps DEF SocketNext

LEMMA ConnInvInit == ASSUME SocketInit PROVE ConnInv
  BY DEF SocketInit, ConnInv, ConnTypes, Places, Progress, Sockets, Losses, Fresh, Young

-----------------------------------------------------------------------------
(* What is handed to the owner. *)

HandInv == Waiting /\ HandedFromOwnSocket

\* Releasing a socket forgets its requests.
LEMMA EndsForgets ==
  ASSUME HandInv, NEW s \in Attempts, Ends(s), UNCHANGED handed PROVE HandInv'
  BY DEF HandInv, Waiting, HandedFromOwnSocket, Ends, ReleaseSocket, ResetProtocolState,
         connVars, protocolVars

LEMMA TakeHands == ASSUME ConnInv, HandInv, NEW s \in Attempts, Take(s) PROVE HandInv'
  <1>. USE DEF HandInv, Waiting, HandedFromOwnSocket
  <1>1. CASE TakeStale(s) \/ TakeBinary(s)
    BY <1>1 DEF TakeStale, TakeBinary, Dropped, connVars, protocolVars, ghostVars
  <1>2. CASE TakeBeat(s) \/ TakeConnect(s)
    BY <1>2 DEF TakeBeat, TakeConnect, connVars, ghostVars
  <1>3. CASE TakeEnd(s)
    BY <1>3, EndsForgets DEF TakeEnd, Invalid
  <1>4. ASSUME NEW kind, NEW id, ProcessPacket(s, kind, id), s = socket PROVE HandInv'
    BY <1>4 DEF ProcessPacket, ResolveAck, connVars, ghostVars
  <1>5. CASE TakePacket(s)
    BY <1>4, <1>5 DEF TakePacket, Current
  <1>6. CASE TakeHeader(s)
    BY <1>6, EndsForgets DEF TakeHeader, Invalid, connVars, ghostVars
  <1>7. CASE BytesRead(s)
    BY <1>4, <1>7 DEF BytesRead, Dropped, Deliver, connVars, protocolVars, ghostVars
  <1>8. CASE Decoded(s)
    BY <1>8 DEF Decoded, Dropped, Deliver, connVars, protocolVars, ghostVars
  <1>. QED  BY <1>1, <1>2, <1>3, <1>5, <1>6, <1>7, <1>8 DEF Take

LEMMA HandInvKeeps == ASSUME ConnInv, HandInv, [SocketNext]_socketVars PROVE HandInv'
  <1>. USE DEF HandInv, Waiting, HandedFromOwnSocket
  <1>1. ASSUME NEW i \in Attempts, Connect(i) \/ Open(i) \/ HandshakeTimesOut(i) PROVE HandInv'
    BY <1>1 DEF Connect, Open, HandshakeTimesOut, protocolVars, ghostVars
  <1>2. ASSUME NEW i \in Attempts, Opened(i) PROVE HandInv'
    BY <1>2 DEF Opened, ConnInv, ConnTypes, Progress, Young, protocolVars, ghostVars
  <1>3. ASSUME NEW i \in Attempts, Settle(i) PROVE HandInv'
    BY <1>3 DEF Settle, ReleaseSocket, ResetProtocolState, protocolVars, ghostVars
  <1>4. ASSUME NEW s \in Attempts, Arrive(s) PROVE HandInv'
    <2>1. CASE Ends(s)
      BY <1>4, <2>1, EndsForgets DEF Arrive
    <2>2. CASE UNCHANGED <<connVars, protocolVars, ended>>
      BY <1>4, <2>2 DEF Arrive, connVars, protocolVars
    <2>. QED  BY <1>4, <2>1, <2>2 DEF Arrive
  <1>5. ASSUME NEW s \in Attempts, TransportEnds(s) PROVE HandInv'
    <2>1. CASE s # socket
      BY <1>5, <2>1 DEF TransportEnds, protocolVars
    <2>2. CASE s = socket
      BY <1>5, <2>2, EndsForgets DEF TransportEnds
    <2>. QED  BY <2>1, <2>2
  <1>6. CASE HeartbeatFires
    BY <1>6, EndsForgets DEF HeartbeatFires, ConnInv, ConnTypes
  <1>7. CASE Close
    BY <1>7 DEF Close, ResetProtocolState
  <1>8. CASE Emit
    BY <1>8 DEF Emit, ConnInv, ConnTypes, connVars, ghostVars
  <1>9. CASE AckTimesOut \/ UNCHANGED socketVars
    BY <1>9 DEF AckTimesOut, socketVars, connVars, protocolVars, ghostVars
  <1>. QED
    BY <1>1, <1>2, <1>3, <1>4, <1>5, <1>6, <1>7, <1>8, <1>9, TakeHands DEF SocketNext, Continuation

-----------------------------------------------------------------------------
(* The frames in the chains. *)

Chains ==
  /\ queue \in [Attempts -> Seq(Frame)] /\ DOMAIN stage = Attempts /\ queued \in Int
  /\ \A s \in Attempts : stage[s] # "idle" => queue[s] # <<>>
  /\ IsFiniteSet(Chained)

ByteInv == Chains /\ BytesAccounted

LEMMA QueueUnchanged == ASSUME ByteInv, UNCHANGED queueVars PROVE ByteInv'
  BY DEF ByteInv, Chains, BytesAccounted, Chained, queueVars

\* A frame more at the end of a chain is one element more.
LEMMA ChainGrows ==
  ASSUME ByteInv, NEW s \in Attempts, NEW f \in Frame, UNCHANGED stage,
         queue' = [queue EXCEPT ![s] = Append(@, f)], queued' = queued + 1
  PROVE  ByteInv'
  <1>. DEFINE n == Len(queue[s]) + 1
  <1>1. /\ queue' \in [Attempts -> Seq(Frame)] /\ Len(queue'[s]) = n /\ n \in Nat
        /\ queue'[s] # <<>>
        /\ \A t \in Attempts : t # s => queue'[t] = queue[t]
    <2>. DEFINE new == Append(queue[s], f)
    <2>1. queue[s] \in Seq(Frame)
      BY DEF ByteInv, Chains
    <2>2. new \in Seq(Frame) /\ Len(new) = n /\ n \in Nat /\ new # <<>>
      BY <2>1
    <2>3. queue' = [queue EXCEPT ![s] = new] /\ queue \in [Attempts -> Seq(Frame)]
      BY DEF ByteInv, Chains
    <2>. HIDE DEF new
    <2>. QED  BY <2>2, <2>3
  <1>2. Chained' = Chained \cup {<<s, n>>}
    <2>1. {s} \X (1..Len(queue'[s])) = ({s} \X (1..Len(queue[s]))) \cup {<<s, n>>}
      BY <1>1 DEF ByteInv, Chains
    <2>. QED  BY <1>1, <2>1 DEF Chained
  <1>3. <<s, n>> \notin Chained
    BY DEF Chained, ByteInv, Chains
  <1>4. Cardinality(Chained') = Cardinality(Chained) + 1 /\ IsFiniteSet(Chained')
    BY <1>2, <1>3, FS_AddElement DEF ByteInv, Chains
  <1>5. \A t \in Attempts : stage'[t] # "idle" => queue'[t] # <<>>
    BY <1>1 DEF ByteInv, Chains
  <1>. QED  BY <1>1, <1>4, <1>5 DEF ByteInv, Chains, BytesAccounted

\* A frame that leaves its chain is one element less.
LEMMA ChainShrinks ==
  ASSUME ByteInv, NEW s \in Attempts, queue[s] # <<>>, Returned(s)
  PROVE  ByteInv'
  <1>. DEFINE n == Len(queue[s])
  <1>1. /\ queue' \in [Attempts -> Seq(Frame)] /\ Len(queue'[s]) = n - 1 /\ n \in Nat \ {0}
        /\ \A t \in Attempts : t # s => queue'[t] = queue[t]
    BY DEF ByteInv, Chains, Returned
  <1>2. Chained' = Chained \ {<<s, n>>}
    <2>1. {s} \X (1..Len(queue'[s])) = ({s} \X (1..n)) \ {<<s, n>>}
      BY <1>1
    <2>. QED  BY <1>1, <2>1 DEF Chained
  <1>3. <<s, n>> \in Chained
    BY <1>1 DEF Chained
  <1>4. Cardinality(Chained') = Cardinality(Chained) - 1 /\ IsFiniteSet(Chained')
    BY <1>2, <1>3, FS_RemoveElement DEF ByteInv, Chains
  <1>5. DOMAIN stage' = Attempts /\ \A t \in Attempts : stage'[t] # "idle" => queue'[t] # <<>>
    BY <1>1 DEF ByteInv, Chains, Returned
  <1>. QED  BY <1>1, <1>4, <1>5 DEF ByteInv, Chains, BytesAccounted, Returned

LEMMA AwaitsKeeps ==
  ASSUME ByteInv, NEW s \in Attempts, queue[s] # <<>>, NEW what, Awaits(s, what)
  PROVE  ByteInv'
  BY DEF ByteInv, Chains, BytesAccounted, Chained, Awaits

LEMMA ByteInvKeeps == ASSUME ByteInv, [SocketNext]_socketVars PROVE ByteInv'
  <1>1. ASSUME NEW s \in Attempts, Take(s) PROVE ByteInv'
    <2>1. queue[s] # <<>>
      BY <1>1
         DEF Take, TakeStale, TakeBeat, TakeConnect, TakeEnd, TakePacket, TakeHeader, TakeBinary,
             BytesRead, Decoded, Turn, ByteInv, Chains
    <2>2. Returned(s) \/ \E what \in {"bytes", "decode"} : Awaits(s, what)
      BY <1>1
         DEF Take, TakeStale, TakeBeat, TakeConnect, TakeEnd, TakePacket, TakeHeader, TakeBinary,
             BytesRead, Decoded, Dropped, Invalid, ProcessPacket
    <2>. QED  BY <2>1, <2>2, ChainShrinks, AwaitsKeeps
  <1>2. ASSUME NEW s \in Attempts, Arrive(s) PROVE ByteInv'
    <2>1. Sendable \subseteq Frame
      BY SocketAssumption DEF Sendable, Frame, Kinds
    <2>2. \/ UNCHANGED queueVars
          \/ /\ UNCHANGED stage /\ queued' = queued + 1
             /\ \E f \in Sendable : queue' = [queue EXCEPT ![s] = Append(@, f)]
      BY <1>2 DEF Arrive, queueVars
    <2>. QED  BY <2>1, <2>2, QueueUnchanged, ChainGrows
  <1>3. ASSUME NEW i \in Attempts, Connect(i) \/ Continuation(i) \/ TransportEnds(i) PROVE ByteInv'
    BY <1>3, QueueUnchanged
       DEF Connect, Continuation, Open, Opened, HandshakeTimesOut, Settle, TransportEnds
  <1>4. CASE Close \/ Emit \/ AckTimesOut \/ HeartbeatFires \/ UNCHANGED socketVars
    BY <1>4, QueueUnchanged DEF Close, Emit, AckTimesOut, HeartbeatFires, socketVars
  <1>. QED  BY <1>1, <1>2, <1>3, <1>4 DEF SocketNext

-----------------------------------------------------------------------------
(* The theorems. *)

LEMMA InvInit == ASSUME SocketInit PROVE ConnInv /\ HandInv /\ ByteInv
  <1>1. ConnInv
    BY ConnInvInit
  <1>2. HandInv
    BY DEF SocketInit, HandInv, Waiting, HandedFromOwnSocket
  <1>3. Chained = {}
    BY DEF SocketInit, Chained
  <1>4. ByteInv
    BY <1>3, FS_EmptySet DEF SocketInit, ByteInv, Chains, BytesAccounted
  <1>. QED  BY <1>1, <1>2, <1>4

LEMMA InvHolds == SocketSpec => [](ConnInv /\ HandInv /\ ByteInv)
  <1>1. ConnInv /\ HandInv /\ ByteInv /\ [SocketNext]_socketVars => (ConnInv /\ HandInv /\ ByteInv)'
    BY ConnInvKeeps, HandInvKeeps, ByteInvKeeps
  <1>. QED  BY InvInit, <1>1, PTL DEF SocketSpec

\* Neither a WebSocket nor a byte of the frame limit is lost track of, and no packet or answer
\* is taken for one of another socket, however attempts, frames and timers interleave
\* (connect, releaseSocket, enqueueSocketMessage, resolveAck).
THEOREM NothingIsLostTrackOf == SocketSpec => []SocketIsOwned
  <1>1. ConnInv /\ HandInv /\ ByteInv => SocketIsOwned
    BY DEF SocketIsOwned, NoOrphanWebSocket, ConnInv, Sockets, HandInv, ByteInv
  <1>. QED  BY InvHolds, <1>1, PTL

\* A connection that connect() returned and that is lost was closed by the owner or reported
\* to it, and never both or twice (handleRemoteDisconnect, handleSocketError).
THEOREM LossesAreReported == SocketSpec => []LossIsReported
  <1>1. ConnInv => LossIsReported
    BY DEF ConnInv, Losses, LossIsReported, Fresh, Once
  <1>. QED  BY InvHolds, <1>1, PTL

-----------------------------------------------------------------------------
(* The reads of a page, which hand the gateway's events to its session.      *)

\* The part of the type invariant that the argument needs.
ReadTypes ==
  /\ generation \in Nat
  /\ readGen \in [Reads -> Nat]
  /\ pc \in [Reads -> {"idle", "asked", "applying", "sampling"}]

\* No read carries a version the page has not reached.
Versions == \A p \in Reads : readGen[p] <= generation

\* When the gateway is stopped or the page left, nothing polls, and every read in flight
\* began under an earlier version.
AtRest ==
  /\ op \in {"stopping", "stopped", "left"} => ~context
  /\ op \in {"stopped", "left"} =>
       \A p \in Reads : pc[p] # "idle" => readGen[p] < generation

ReadInv == ReadTypes /\ Versions /\ AtRest

\* The variables the invariant speaks of.
readSeen == <<generation, readGen, pc, op, context>>

LEMMA ReadSeenUnchanged == ASSUME ReadInv, UNCHANGED readSeen PROVE ReadInv'
  BY DEF ReadInv, ReadTypes, Versions, AtRest, readSeen

\* A read that moves on, keeps its version.
LEMMA MoveKeeps ==
  ASSUME ReadInv, NEW p \in Reads, pc[p] # "idle",
         NEW place \in {"applying", "sampling"}, MoveTo(p, place),
         UNCHANGED <<generation, op, context>>
  PROVE  ReadInv'
  <1>1. readGen' = readGen /\ pc' = [pc EXCEPT ![p] = place]
    BY DEF MoveTo
  <1> QED  BY <1>1 DEF ReadInv, ReadTypes, Versions, AtRest

\* A read that is over is no longer in flight.
LEMMA OverKeeps ==
  ASSUME ReadInv, NEW p \in Reads, Over(p), UNCHANGED <<generation, op, context>>
  PROVE  ReadInv'
  <1>1. /\ pc' = [pc EXCEPT ![p] = "idle"]
        /\ readGen' = [readGen EXCEPT ![p] = 0]
    BY DEF Over
  <1> QED  BY <1>1 DEF ReadInv, ReadTypes, Versions, AtRest

\* A read begins only while the page is not at rest.
LEMMA AskKeeps ==
  ASSUME ReadInv, NEW p \in Reads, NEW who, Ask(p, who), op \notin {"stopped", "left"}
  PROVE  ReadInv'
  <1>1. /\ pc' = [pc EXCEPT ![p] = "asked"]
        /\ readGen' = [readGen EXCEPT ![p] = generation]
        /\ UNCHANGED <<generation, op, context>>
    BY DEF Ask, pageVars
  <1> QED  BY <1>1 DEF ReadInv, ReadTypes, Versions, AtRest

\* A step that raises the version leaves every read behind.
LEMMA RaiseKeeps ==
  ASSUME ReadInv, generation' = generation + 1, UNCHANGED <<pc, readGen>>,
         op' \in {"stopping", "stopped", "left"} => ~context'
  PROVE  ReadInv'
  BY DEF ReadInv, ReadTypes, Versions, AtRest

\* The inductive invariant of the page's reads: none in flight has a version the page has not
\* reached (useSignalGatewayController.ts).
THEOREM ReadInvariance == Spec => []ReadInv
<1>1. Init => ReadInv
  BY DEF Init, ReadInv, ReadTypes, Versions, AtRest
<1>2. ReadInv /\ [Next]_vars => ReadInv'
  <2> SUFFICES ASSUME ReadInv, [Next]_vars PROVE ReadInv'
    OBVIOUS
  <2>1. CASE Event \/ StatusChanges \/ StageChanges \/ SessionStarts \/ SessionCloses
    <3>1. UNCHANGED readSeen
      BY <2>1 DEF Event, StatusChanges, StageChanges, SessionStarts, SessionCloses, NoSession, Rerun,
                  pageVars, readVars, readSeen
    <3> QED  BY <3>1, ReadSeenUnchanged
  <2>2. ASSUME NEW p \in Reads, Poll(p) \/ CallRead(p) PROVE ReadInv'
    <3>1. op \notin {"stopped", "left"}
      BY <2>2 DEF Poll, CallRead, ReadInv, AtRest
    <3> QED  BY <2>2, <3>1, AskKeeps DEF Poll, CallRead
  <2>3. ASSUME NEW p \in Reads, Answers(p) PROVE ReadInv'
    <3>1. UNCHANGED readSeen
      BY <2>3 DEF Answers, ServeEvents, ServeDiagnostics, pageVars, readSeen
    <3> QED  BY <3>1, ReadSeenUnchanged
  <2>4. ASSUME NEW p \in Reads, Receive(p) \/ Applied(p) PROVE ReadInv'
    <3>1. pc[p] # "idle" /\ UNCHANGED <<generation, op, context>>
      BY <2>4 DEF Receive, Applied, pageVars
    <3>2. MoveTo(p, "applying") \/ MoveTo(p, "sampling")
      BY <2>4 DEF Receive, Applied
    <3> QED  BY <3>1, <3>2, MoveKeeps
  <2>5. ASSUME NEW p \in Reads, Sampled(p) \/ Discarded(p) \/ Fails(p) PROVE ReadInv'
    <3>1. Over(p) /\ UNCHANGED <<generation, op, context>>
      BY <2>5 DEF Sampled, Discarded, Fails, pageVars
    <3> QED  BY <3>1, OverKeeps
  <2>6. CASE Joined \/ StartSent \/ StopSent \/ Stopped \/ Leave
    <3>1. generation' = generation + 1 /\ UNCHANGED <<pc, readGen>>
      BY <2>6 DEF Joined, StartSent, StopSent, Stopped, Leave, ResetSignalEvents, readVars
    <3>2. op' \in {"stopping", "stopped", "left"} => ~context'
      BY <2>6 DEF Joined, StartSent, StopSent, Stopped, Leave
    <3> QED  BY <3>1, <3>2, RaiseKeeps
  <2>7. CASE \/ StartClaims \/ StartLost \/ StartAnswered
             \/ \E up \in BOOLEAN : StartServed(up)
    <3>1. UNCHANGED <<generation, readGen, pc>> /\ op' \in {"none", "claimed", "answered"}
      BY <2>7 DEF StartClaims, StartLost, StartAnswered, StartServed, pageVars, readVars
    <3> QED  BY <3>1 DEF ReadInv, ReadTypes, Versions, AtRest
  <2>8. CASE UNCHANGED vars
    <3>1. UNCHANGED readSeen
      BY <2>8 DEF vars, pageVars, readVars, readSeen
    <3> QED  BY <3>1, ReadSeenUnchanged
  <2> QED
    BY <2>1, <2>2, <2>3, <2>4, <2>5, <2>6, <2>7, <2>8 DEF Next, Read, Settles
<1> QED  BY <1>1, <1>2, PTL DEF Spec

\* Reads still in flight when the gateway was stopped or the page was left change neither
\* the cursor nor the status shown, and hand nothing to a session: isCurrent() of
\* useSignalGatewayController.ts stops each of them.
THEOREM LateReadsAreDropped == Spec => NothingAfterStop
<1> DEFINE Quiet == UNCHANGED <<cursor, shown, given>>
<1>1. ReadInv /\ [Next]_vars => ((op \in {"stopped", "left"} /\ op' = op) => Quiet)
  <2> SUFFICES ASSUME ReadInv, [Next]_vars, op \in {"stopped", "left"}, op' = op PROVE Quiet
    OBVIOUS
  <2>1. ASSUME NEW p \in Reads, pc[p] # "idle" PROVE ~IsCurrent(p)
    BY <2>1 DEF ReadInv, AtRest, ReadTypes, IsCurrent
  <2>2. ASSUME NEW p \in Reads, Read(p) PROVE Quiet
    <3>1. Discarded(p)
      BY <2>1, <2>2 DEF Read, Receive, Applied, Sampled
    <3> QED  BY <3>1 DEF Discarded, pageVars, sessionVars
  <2>3. ASSUME NEW p \in Reads, Answers(p) \/ Fails(p) PROVE Quiet
    BY <2>3 DEF Answers, ServeEvents, ServeDiagnostics, Fails, pageVars, sessionVars
  <2>4. ASSUME NEW p \in Reads, Poll(p) \/ CallRead(p) PROVE Quiet
    BY <2>4 DEF Poll, CallRead, Ask, pageVars, sessionVars
  <2>5. CASE Event \/ StatusChanges \/ StageChanges
    BY <2>5 DEF Event, StatusChanges, StageChanges, pageVars, sessionVars
  <2>6. ~(Joined \/ StartSent \/ StartLost \/ StopSent \/ Leave \/ Settles \/ SessionStarts \/ SessionCloses)
    BY DEF Joined, StartSent, StartLost, StopSent, Leave, Settles, StartClaims, StartServed,
           StartAnswered, Stopped, SessionStarts, SessionCloses
  <2>7. CASE UNCHANGED vars
    BY <2>7 DEF vars, pageVars, sessionVars
  <2> QED  BY <2>2, <2>3, <2>4, <2>5, <2>6, <2>7 DEF Next
<1> QED  BY <1>1, ReadInvariance, PTL DEF Spec, NothingAfterStop

-----------------------------------------------------------------------------
(* No event is withheld (NothingWithheld), of a gateway that goes on with    *)
(* its numbers when it is started again, as the Worker's does.               *)

\* The least number principle, and the greatest element of a bounded set.
Below == {ss \in Nat \X Nat : ss[1] < ss[2]}

LEMMA BelowIsWellFounded == IsWellFoundedOn(Below, Nat)
BY NatLessThanWellFounded, Zenon DEF Below, OpToRel

LEMMA LeastIs ==
  ASSUME NEW T, T \subseteq Nat, T # {}
  PROVE  \E m \in T : \A k \in T : m <= k
<1>1. PICK m \in T : \A k \in T : ~(<<k, m>> \in Below)
  BY BelowIsWellFounded, WFMin
<1>2. ASSUME NEW k \in T PROVE m <= k
  <2>1. <<k, m>> \in Nat \X Nat /\ ~(<<k, m>>[1] < <<k, m>>[2])
    BY <1>1 DEF Below
  <2> QED  BY <2>1
<1> QED  BY <1>2

LEMMA MaxIs ==
  ASSUME NEW S, S \subseteq Nat, S # {}, NEW n \in Nat, \A x \in S : x < n
  PROVE  Max(S) \in S /\ \A x \in S : x <= Max(S)
<1> DEFINE T == {n - x : x \in S}
<1>1. PICK m \in T : \A k \in T : m <= k
  <2>1. T \subseteq Nat
    OBVIOUS
  <2>2. T # {}
    OBVIOUS
  <2> HIDE DEF T
  <2> QED  BY <2>1, <2>2, LeastIs
<1>2. PICK x \in S : m = n - x
  OBVIOUS
<1>3. \A y \in S : x >= y
  BY <1>1, <1>2
<1> QED  BY <1>3 DEF Max

\* The answers have their shapes.
Shapes ==
  /\ log \subseteq Events /\ run \in Nat
  /\ after \in [Reads -> Nat]
  /\ batch \in [Reads -> SUBSET (Events \cup {None})]

\* The numbers in use are below the next one: those of the log, the cursor's, and those of
\* the answers under way.
Numbers ==
  /\ nextId \in Nat /\ cursor \in Nat /\ cursor < nextId
  /\ \A e \in log : 0 < e.id /\ e.id < nextId
  /\ \A p \in Reads : batch[p] # Unserved => \A b \in batch[p] : b \in Events /\ b.id < nextId

\* A read of the present version starts at or before the cursor, and its answer leaves no gap:
\* what comes before one of its events is in it too, or behind the cursor.
NoGap(p) ==
  pc[p] = "asked" /\ readGen[p] = generation =>
    IF batch[p] = Unserved THEN after[p] <= cursor
    ELSE \A b \in batch[p], e \in log : e.id <= b.id => e.id <= cursor \/ e \in batch[p]

Gapless == Shapes /\ Numbers /\ (\A p \in Reads : NoGap(p)) /\ NothingWithheld

\* A step that touches none of what Gapless speaks of, except that reads may end, move on
\* or fall behind.
LEMMA BystanderKeeps ==
  ASSUME ReadInv, Gapless, UNCHANGED <<log, nextId, run, cursor>>,
         generation' = generation \/ (generation' = generation + 1 /\ UNCHANGED readGen),
         \/ UNCHANGED <<session, given, older>>
         \/ session' = None
         \/ older' = log,
         \A p \in Reads : pc'[p] = "asked" =>
           pc[p] = "asked" /\ UNCHANGED <<readGen[p], batch[p], after[p]>>,
         \A p \in Reads : batch'[p] \in {batch[p], Unserved},
         after' \in [Reads -> Nat], batch' \in [Reads -> SUBSET (Events \cup {None})]
  PROVE  Gapless'
<1>1. Shapes' /\ Numbers'
  BY DEF Gapless, Shapes, Numbers, Unserved
<1>2. ASSUME NEW p \in Reads PROVE NoGap(p)'
  BY <1>2 DEF Gapless, NoGap, ReadInv, ReadTypes, Versions, Unserved
<1>3. NothingWithheld'
  BY DEF Gapless, NothingWithheld
<1> QED  BY <1>1, <1>2, <1>3 DEF Gapless

\* A read that is over.
LEMMA EndsGapless ==
  ASSUME ReadInv, Gapless, NEW p \in Reads, Over(p),
         UNCHANGED <<log, nextId, run, cursor, generation, session, given, older>>
  PROVE  Gapless'
<1>1. /\ pc' = [pc EXCEPT ![p] = "idle"] /\ readGen' = [readGen EXCEPT ![p] = 0]
      /\ after' = [after EXCEPT ![p] = 0] /\ batch' = [batch EXCEPT ![p] = {None}]
  BY DEF Over, Unserved
<1>2. after' \in [Reads -> Nat] /\ batch' \in [Reads -> SUBSET (Events \cup {None})]
  BY <1>1 DEF Gapless, Shapes
<1>3. \A q \in Reads : /\ batch'[q] \in {batch[q], Unserved}
                       /\ pc'[q] = "asked" =>
                            pc[q] = "asked" /\ UNCHANGED <<readGen[q], batch[q], after[q]>>
  BY <1>1 DEF Gapless, Shapes, ReadInv, ReadTypes, Unserved
<1> QED  BY <1>2, <1>3, BystanderKeeps

\* A new event gets a number nothing has used.
LEMMA EventKeeps == ASSUME Gapless, Event PROVE Gapless'
<1> USE DEF Gapless, Shapes, Numbers
<1>1. /\ log' = log \cup {[id |-> nextId, run |-> run]} /\ nextId' = nextId + 1
      /\ UNCHANGED <<run, cursor, generation, session, given, older, pc, readGen, after, batch>>
  BY DEF Event, pageVars, sessionVars, readVars
<1>2. Shapes' /\ Numbers'
  BY <1>1 DEF Events
<1>3. ASSUME NEW p \in Reads PROVE NoGap(p)'
  BY <1>1, <1>3 DEF NoGap, Events
<1>4. NothingWithheld'
  BY <1>1 DEF NothingWithheld
<1> QED  BY <1>2, <1>3, <1>4

\* A read begins at the cursor.
LEMMA AskGapless == ASSUME ReadInv, Gapless, NEW p \in Reads, NEW who, Ask(p, who) PROVE Gapless'
<1>1. /\ pc' = [pc EXCEPT ![p] = "asked"] /\ readGen' = [readGen EXCEPT ![p] = generation]
      /\ after' = [after EXCEPT ![p] = cursor] /\ batch' = [batch EXCEPT ![p] = {None}]
      /\ UNCHANGED <<log, nextId, run, cursor, generation, session, given, older>>
  BY DEF Ask, gatewayVars, pageVars, sessionVars, Unserved
<1>2. Shapes' /\ Numbers'
  BY <1>1 DEF Gapless, Shapes, Numbers, Unserved
<1>3. ASSUME NEW q \in Reads PROVE NoGap(q)'
  BY <1>1, <1>3 DEF Gapless, Shapes, Numbers, NoGap, ReadInv, ReadTypes, Unserved
<1>4. NothingWithheld'
  BY <1>1 DEF Gapless, NothingWithheld
<1> QED  BY <1>2, <1>3, <1>4 DEF Gapless

\* The gateway answers with all it holds beyond the number asked for.
LEMMA ServeKeeps == ASSUME ReadInv, Gapless, NEW p \in Reads, ServeEvents(p) PROVE Gapless'
<1>1. /\ pc[p] = "asked" /\ batch[p] = Unserved
      /\ batch' = [batch EXCEPT ![p] = {e \in log : e.id > after[p]}]
      /\ after' = [after EXCEPT ![p] = 0]
      /\ UNCHANGED <<log, nextId, run, cursor, generation, session, given, older, pc, readGen>>
  BY DEF ServeEvents, gatewayVars, pageVars, sessionVars
<1>2. Shapes' /\ Numbers'
  BY <1>1 DEF Gapless, Shapes, Numbers, Unserved, Events
<1>3. ASSUME NEW q \in Reads, q # p PROVE NoGap(q)'
  BY <1>1, <1>3 DEF Gapless, Shapes, NoGap
<1>4. NoGap(p)'
  <2>1. after'[p] = 0 /\ cursor \in Nat
    BY <1>1 DEF Gapless, Shapes, Numbers
  <2>2. ASSUME readGen[p] = generation, NEW e \in log, ~(e.id <= cursor) PROVE e \in batch'[p]
    <3>1. after[p] <= cursor /\ after[p] \in Nat /\ e.id \in Nat
      BY <1>1, <2>2 DEF Gapless, NoGap, Shapes, Events
    <3> QED  BY <1>1, <2>1, <2>2, <3>1 DEF Gapless, Shapes
  <2> QED  BY <1>1, <2>1, <2>2 DEF NoGap
<1>5. NothingWithheld'
  BY <1>1 DEF Gapless, NothingWithheld
<1> QED  BY <1>2, <1>3, <1>4, <1>5 DEF Gapless

\* Both answers are there: the events are handed over, and the cursor moves to the last one.
LEMMA ReceiveKeeps == ASSUME ReadInv, Gapless, NEW p \in Reads, Receive(p) PROVE Gapless'
<1>1. /\ pc[p] = "asked" /\ batch[p] # Unserved /\ readGen[p] = generation
      /\ readSession[p] = session
      /\ UNCHANGED <<log, nextId, run, generation, session, older>>
  BY DEF Receive, BothServed, IsCurrent, gatewayVars
<1>2. /\ pc' \in [Reads -> {"idle", "asked", "applying", "sampling"}]
      /\ pc'[p] # "asked" /\ \A q \in Reads : q # p => pc'[q] = pc[q]
      /\ batch' = [batch EXCEPT ![p] = {None}] /\ UNCHANGED <<readGen, after>>
  BY DEF Receive, MoveTo, Unserved, ReadInv, ReadTypes
<1>3. CASE batch[p] = {}
  <2>1. UNCHANGED <<cursor, given>>
    BY <1>3 DEF Receive
  <2>2. batch' \in [Reads -> SUBSET (Events \cup {None})] /\ after' \in [Reads -> Nat]
    BY <1>2 DEF Gapless, Shapes
  <2>3. \A q \in Reads : /\ batch'[q] \in {batch[q], Unserved}
                         /\ pc'[q] = "asked" =>
                              pc[q] = "asked" /\ UNCHANGED <<readGen[q], batch[q], after[q]>>
    BY <1>2 DEF Gapless, Shapes, Unserved
  <2> QED  BY <1>1, <2>1, <2>2, <2>3, BystanderKeeps
<1>4. CASE batch[p] # {}
  <2> DEFINE ids == {cursor} \cup {e.id : e \in batch[p]}
  <2>1. cursor' = Max(ids) /\ given' = IF session # None THEN given \cup batch[p] ELSE given
    BY <1>1, <1>4 DEF Receive, CursorAfter
  <2>2. Max(ids) \in ids /\ \A x \in ids : x <= Max(ids)
    <3>1. ids \subseteq Nat /\ ids # {} /\ nextId \in Nat /\ \A x \in ids : x < nextId
      BY <1>1 DEF Gapless, Numbers, Events
    <3> HIDE DEF ids
    <3> QED  BY <3>1, MaxIs
  <2>3. cursor' \in Nat /\ cursor <= cursor' /\ cursor' < nextId
    BY <1>1, <2>1, <2>2 DEF Gapless, Numbers, Events
  <2>4. Shapes' /\ Numbers'
    BY <1>1, <1>2, <2>3 DEF Gapless, Shapes, Numbers, Unserved
  <2>5. \A e \in log : e.id \in Nat
    BY DEF Gapless, Shapes, Events
  <2>6. ASSUME NEW q \in Reads PROVE NoGap(q)'
    <3>1. CASE q = p
      BY <1>2, <3>1 DEF NoGap
    <3>2. CASE q # p
      <4>1. NoGap(q) /\ pc'[q] = pc[q] /\ batch'[q] = batch[q] /\ UNCHANGED <<readGen, after>>
        BY <1>2, <3>2 DEF Gapless, Shapes
      <4>2. after[q] \in Nat /\ cursor \in Nat
        BY DEF Gapless, Shapes, Numbers
      <4>3. after[q] <= cursor => after[q] <= cursor'
        BY <2>3, <4>2
      <4>4. \A e \in log : e.id <= cursor => e.id <= cursor'
        BY <2>3, <2>5, <4>2
      <4> QED  BY <1>1, <4>1, <4>3, <4>4 DEF NoGap
    <3> QED  BY <3>1, <3>2
  <2>7. NothingWithheld'
    <3> SUFFICES ASSUME session # None, NEW e \in log, e.id <= cursor'
                 PROVE  e \in given \cup batch[p] \cup older
      BY <1>1, <2>1 DEF NothingWithheld
    <3>1. CASE e.id <= cursor
      BY <3>1 DEF Gapless, NothingWithheld
    <3>2. CASE ~(e.id <= cursor)
      <4>1. PICK b \in batch[p] : e.id <= b.id
        BY <2>1, <2>2, <3>2
      <4> QED  BY <1>1, <3>2, <4>1 DEF Gapless, NoGap
    <3> QED  BY <3>1, <3>2
  <2> QED  BY <2>4, <2>6, <2>7 DEF Gapless
<1> QED  BY <1>3, <1>4

\* A claim or a stop clears the log and leaves the numbers going on.
LEMMA ClearsKeeps ==
  ASSUME ReadInv, Gapless, ~RestartsIds, Clears, UNCHANGED <<session, given, older, pc, readGen, after, batch>>,
         \/ UNCHANGED <<cursor, generation>>
         \/ ResetSignalEvents
  PROVE  Gapless'
<1>1. log' = {} /\ run' = run + 1 /\ nextId' = nextId
  BY DEF Clears
<1>2. Shapes' /\ Numbers'
  BY <1>1 DEF Gapless, Shapes, Numbers, ResetSignalEvents
<1>3. ASSUME NEW p \in Reads PROVE NoGap(p)'
  BY <1>1, <1>3 DEF Gapless, NoGap, ResetSignalEvents, ReadInv, ReadTypes, Versions
<1>4. NothingWithheld'
  BY <1>1 DEF NothingWithheld
<1> QED  BY <1>2, <1>3, <1>4 DEF Gapless

\* A reset leaves every read behind, and nothing is behind the cursor.
LEMMA ResetKeeps ==
  ASSUME ReadInv, Gapless, ResetSignalEvents, UNCHANGED <<log, nextId, run, pc, readGen, after, batch>>,
         NoSession \/ UNCHANGED <<session, given, older>>
  PROVE  Gapless'
<1>1. Shapes' /\ Numbers'
  BY DEF Gapless, Shapes, Numbers, ResetSignalEvents
<1>2. ASSUME NEW p \in Reads PROVE NoGap(p)'
  BY <1>2 DEF NoGap, ResetSignalEvents, ReadInv, ReadTypes, Versions
<1>3. NothingWithheld'
  BY DEF Gapless, Shapes, Numbers, Events, NothingWithheld, ResetSignalEvents
<1> QED  BY <1>1, <1>2, <1>3 DEF Gapless

\* For a gateway that does not start its numbers again, no event is withheld from the browser
\* session: refreshSignalEvents() moves lastSignalEventIdRef only over events it hands over,
\* whichever reads, resets, starts and sessions overlap.
THEOREM EventsAreHandedOver == ASSUME ~RestartsIds PROVE Spec => []NothingWithheld
<1>1. Init => Gapless
  BY DEF Init, Gapless, Shapes, Numbers, NoGap, NothingWithheld, Unserved
<1>2. ReadInv /\ Gapless /\ [Next]_vars => Gapless'
  <2> SUFFICES ASSUME ReadInv, Gapless, [Next]_vars PROVE Gapless'
    OBVIOUS
  <2> USE DEF gatewayVars, pageVars, sessionVars, readVars
  <2>0. Shapes
    BY DEF Gapless
  <2>1. CASE Event
    BY <2>1, EventKeeps
  <2>2. CASE StatusChanges \/ StageChanges \/ StartLost \/ UNCHANGED vars
    BY <2>0, <2>2, BystanderKeeps DEF StatusChanges, StageChanges, StartLost, vars, Shapes
  <2>3. CASE SessionStarts \/ SessionCloses
    BY <2>0, <2>3, BystanderKeeps DEF SessionStarts, SessionCloses, NoSession, Shapes
  <2>4. ASSUME NEW p \in Reads, Poll(p) \/ CallRead(p) PROVE Gapless'
    BY <2>4, AskGapless DEF Poll, CallRead
  <2>5. ASSUME NEW p \in Reads, ServeEvents(p) PROVE Gapless'
    BY <2>5, ServeKeeps
  <2>6. ASSUME NEW p \in Reads, ServeDiagnostics(p) PROVE Gapless'
    BY <2>0, <2>6, BystanderKeeps DEF ServeDiagnostics, Shapes
  <2>7. ASSUME NEW p \in Reads, Receive(p) PROVE Gapless'
    BY <2>7, ReceiveKeeps
  <2>8. ASSUME NEW p \in Reads, Applied(p) PROVE Gapless'
    <3>1. /\ pc' = [pc EXCEPT ![p] = "sampling"] /\ batch' = [batch EXCEPT ![p] = {None}]
          /\ UNCHANGED <<log, nextId, run, cursor, generation, session, given, older, readGen, after>>
      BY <2>8 DEF Applied, MoveTo, Unserved
    <3>2. batch' \in [Reads -> SUBSET (Events \cup {None})] /\ after' \in [Reads -> Nat]
      BY <2>0, <3>1 DEF Shapes
    <3>3. \A q \in Reads : /\ batch'[q] \in {batch[q], Unserved}
                           /\ pc'[q] = "asked" =>
                                pc[q] = "asked" /\ UNCHANGED <<readGen[q], batch[q], after[q]>>
      BY <2>0, <3>1 DEF Shapes, ReadInv, ReadTypes, Unserved
    <3> QED  BY <3>1, <3>2, <3>3, BystanderKeeps
  <2>9. ASSUME NEW p \in Reads, Sampled(p) \/ Discarded(p) \/ Fails(p) PROVE Gapless'
    <3>1. Over(p) /\ UNCHANGED <<log, nextId, run, cursor, generation, session, given, older>>
      BY <2>9 DEF Sampled, Discarded, Fails
    <3> QED  BY <3>1, EndsGapless
  <2>10. CASE Joined \/ StartSent \/ StopSent
    <3>1. /\ ResetSignalEvents /\ UNCHANGED <<log, nextId, run, pc, readGen, after, batch>>
          /\ NoSession \/ UNCHANGED <<session, given, older>>
      BY <2>10 DEF Joined, StartSent, StopSent
    <3> QED  BY <3>1, ResetKeeps
  <2>11. CASE StartClaims \/ Stopped
    <3>1. /\ Clears /\ UNCHANGED <<session, given, older, pc, readGen, after, batch>>
          /\ UNCHANGED <<cursor, generation>> \/ ResetSignalEvents
      BY <2>11 DEF StartClaims, Stopped
    <3> QED  BY <3>1, ClearsKeeps
  <2>12. CASE Leave \/ StartAnswered \/ \E up \in BOOLEAN : StartServed(up)
    BY <2>0, <2>12, BystanderKeeps DEF Leave, StartAnswered, StartServed, NoSession, Shapes
  <2> QED
    BY <2>1, <2>2, <2>3, <2>4, <2>5, <2>6, <2>7, <2>8, <2>9, <2>10, <2>11, <2>12
       DEF Next, Read, Answers, Settles
<1>3. Gapless => NothingWithheld
  BY DEF Gapless
<1> QED  BY <1>1, <1>2, <1>3, ReadInvariance, PTL DEF Spec
=============================================================================
