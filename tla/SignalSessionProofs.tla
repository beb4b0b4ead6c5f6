-------------------------- MODULE SignalSessionProofs --------------------------
(***************************************************************************)
(* What holds of the Durable Object's signal gateway for any set of        *)
(* requests, any number of servers and evictions, any lease, and whether   *)
(* or not the runtime closes its input gate during storage awaits.         *)
(***************************************************************************)
EXTENDS SignalSession, TLAPS

USE RequestsAssumption, BoundsAssumption, GateAssumption

Opening == {"connecting", "connected", "refused"}

\* A request that has not arrived has left nothing behind, and what a request asks decides
\* what it may become.
Requested ==
  \A r \in Requests :
    /\ pc[r] = "idle" => gen[r] = 0 /\ via[r] = None /\ shown[r] = {} /\ late[r] = None /\ sock[r] = "none"
    /\ gen[r] # 0 => kind[r] \in {"start", "stop"}
    /\ kind[r] = "start" /\ pc[r] \in StorageWaits => gen[r] = 0 /\ sock[r] = "none"
    /\ via[r] # None => kind[r] \in Sends
    /\ pc[r] \in {"payload", "awaitAck", "acked", "ackFailed"} \/ r \in ackCallbacks => via[r] # None
    /\ outcome[r] = "connected" => pc[r] = "done"

\* A claim takes a fresh generation and a sequence number that was given out.
Numbering ==
  /\ authSeq <= nextSeq
  /\ \A r \in Requests : seq[r] <= nextSeq /\ gen[r] <= activeGen
  /\ \A r, q \in Requests : gen[r] # 0 /\ gen[r] = gen[q] => r = q

\* The place of a start tells the state of its socket.
SocketPlaces ==
  \A r \in Requests :
    /\ sock[r] # "none" => kind[r] = "start" /\ pc[r] \in Opening \cup {"done"}
    /\ pc[r] \in Opening => kind[r] = "start" /\ gen[r] # 0 /\ sock[r] # "none"
    /\ pc[r] = "connecting" <=> sock[r] = "opening"
    /\ pc[r] = "refused" => sock[r] = "down"

\* The start that claimed last, as long as nobody stopped it, owns status and authorization;
\* the gateway's socket is its own.
Owning ==
  /\ \A r \in Requests : kind[r] = "start" /\ gen[r] # 0 /\ gen[r] = activeGen =>
       owner = r /\ status.session = r /\ authorization = "room"
  /\ socket # None => sock[socket] # "none" /\ gen[socket] # 0 /\ gen[socket] = activeGen
  /\ owner # None => sock[owner] # "none"

\* A start that may still be admitted is authorized: a stop since would have raised authSeq.
Admissible ==
  \A r \in Requests :
    kind[r] = "start" /\ pc[r] \in StorageWaits \ {"auth"} /\ Admitted(r) => authorization = "room"

\* A session that was stopped owns neither the socket nor an event, and never will again.
Gone(q) ==
  /\ q \notin log /\ socket # q /\ sock[q] # "none"
  /\ gen[q] < activeGen \/ pc[q] = "done"

LateOnes ==
  \A r \in Requests : late[r] # None =>
    /\ kind[r] \in Sends \cup Reads => Gone(late[r])
    /\ via[r] # late[r]
    /\ kind[r] = "events" => late[r] \notin shown[r]

Inv ==
  /\ TypeOK /\ Requested /\ Numbering /\ SocketPlaces /\ Owning /\ Admissible /\ LateOnes
  /\ NoOrphanSocket

-----------------------------------------------------------------------------
(* Types.                                                                    *)

LEMMA ReleasedPlaces ==
  ASSUME NEW places \in [Procs -> Places], NEW s
  PROVE  /\ Released(places, s) \in [Procs -> Places]
         /\ \A p \in Procs : \/ Released(places, s)[p] = places[p] /\ ~(p = s /\ places[p] = "connecting")
                             \/ p = s /\ places[p] = "connecting" /\ Released(places, s)[p] = "refused"
                             \/ places[p] = "awaitAck" /\ Released(places, s)[p] = "ackFailed"
  BY DEF Released, Places, StorageWaits

\* A stop, seen variable by variable.
LEMMA StopEffect ==
  ASSUME TypeOK, NEW p \in Procs, pc[p] \in {"idle", "auth"}, StopNow(p)
  PROVE  /\ nextSeq' = nextSeq + 1 /\ authSeq' = nextSeq + 1 /\ activeGen' = activeGen + 1
         /\ owner' = None /\ socket' = None /\ log' = {} /\ lease' = None /\ savedLease' = None
         /\ alarm' = alarm /\ authorization' = "none"
         /\ status' = [phase |-> "closed", session |-> None]
         /\ sock' = [q \in Requests |-> IF q = socket THEN "down" ELSE sock[q]]
         /\ ackCallbacks' \subseteq ackCallbacks
         /\ pc' \in [Procs -> Places] /\ pc'[p] = "delete"
         /\ \A q \in Procs \ {p} :
              \/ pc'[q] = pc[q] /\ ~(q = socket /\ pc[q] = "connecting")
              \/ q = socket /\ pc[q] = "connecting" /\ pc'[q] = "refused"
              \/ pc[q] = "awaitAck" /\ pc'[q] = "ackFailed"
  <1>1. pc' = [Released(pc, socket) EXCEPT ![p] = "delete"]
    BY DEF StopNow
  <1>2. pc' \in [Procs -> Places] /\ pc'[p] = "delete"
    BY <1>1, ReleasedPlaces DEF TypeOK, Places, StorageWaits
  <1>3. \A q \in Procs \ {p} : pc'[q] = Released(pc, socket)[q]
    BY <1>1, ReleasedPlaces DEF TypeOK
  <1>4. \A q \in Procs \ {p} :
              \/ pc'[q] = pc[q] /\ ~(q = socket /\ pc[q] = "connecting")
              \/ q = socket /\ pc[q] = "connecting" /\ pc'[q] = "refused"
              \/ pc[q] = "awaitAck" /\ pc'[q] = "ackFailed"
    BY <1>3, ReleasedPlaces DEF TypeOK
  <1> QED  BY <1>2, <1>4 DEF StopNow, SettleSocket

\* The types that a stop leaves to its caller.
CallTypes ==
  /\ kind' \in [Procs -> Kinds] /\ seq' \in [Requests -> Nat] /\ gen' \in [Requests -> Nat]
  /\ shown' \in [Requests -> SUBSET Requests] /\ late' \in [Requests -> Requests \cup {None}]

LEMMA StopType ==
  ASSUME TypeOK, NEW p \in Procs, pc[p] \in {"idle", "auth"}, StopNow(p), CallTypes,
         UNCHANGED <<left, via, since, outcome, crashes>>
  PROVE  TypeOK'
  <1>1. /\ pc' \in [Procs -> Places] /\ ackCallbacks' \subseteq Requests
        /\ nextSeq' \in Nat /\ authSeq' \in Nat /\ activeGen' \in Nat
        /\ sock' \in [Requests -> {"none", "opening", "up", "down"}]
        /\ socket' = None /\ owner' = None /\ log' = {} /\ lease' = None /\ savedLease' = None
        /\ alarm' = alarm /\ authorization' = "none"
        /\ status' = [phase |-> "closed", session |-> None]
    BY StopEffect DEF TypeOK
  <1> QED  BY <1>1 DEF TypeOK, CallTypes, Deadlines, Phases

LEMMA RenewType ==
  ASSUME TypeOK, NEW p \in Procs, pc[p] \in {"idle", "auth"}, Renew(p), CallTypes,
         UNCHANGED <<left, via, since, outcome, crashes>>
  PROVE  TypeOK'
  <1>1. CASE Expired
    BY <1>1, StopType DEF Renew
  <1>2. CASE ~Expired
    <2>1. pc' \in [Procs -> Places] /\ log' \subseteq Requests
      BY <1>2 DEF Renew, Extend, TypeOK, Places, StorageWaits
    <2>2. lease' \in Deadlines /\ savedLease' \in Deadlines
      BY <1>2 DEF Renew, Extend, TypeOK, Deadlines
    <2>3. UNCHANGED <<sequenceVars, socketVars, authorization, alarm, status>>
      BY <1>2 DEF Renew
    <2> QED  BY <2>1, <2>2, <2>3 DEF TypeOK, CallTypes, sequenceVars, socketVars
  <1> QED  BY <1>1, <1>2

LEMMA ArriveTypes ==
  ASSUME TypeOK, NEW r \in Requests, NEW what \in Kinds, Arrive(r, what)
  PROVE  /\ pc[r] = "idle" /\ UNCHANGED crashes
         /\ kind' = [kind EXCEPT ![r] = what] /\ kind' \in [Procs -> Kinds]
         /\ late' = [late EXCEPT ![r] = IF Expired THEN owner ELSE None]
         /\ late' \in [Requests -> Requests \cup {None}]
  BY DEF Arrive, TypeOK, Procs

LEMMA CallType == ASSUME TypeOK, NEW r \in Requests, Call(r) PROVE TypeOK'
  <1> USE DEF Kinds
  <1>1. CASE StartCall(r)
    <2>1. /\ kind' \in [Procs -> Kinds] /\ late' \in [Requests -> Requests \cup {None}] /\ UNCHANGED crashes
      BY <1>1, ArriveTypes DEF StartCall
    <2>2. pc' \in [Procs -> Places] /\ seq' \in [Requests -> Nat] /\ nextSeq' \in Nat
      BY <1>1 DEF StartCall, TypeOK, Procs, Places, StorageWaits
    <2> QED  BY <1>1, <2>1, <2>2 DEF StartCall, TypeOK, socketVars, leaseVars
  <1>2. CASE StopCall(r)
    <2>1. /\ kind' \in [Procs -> Kinds] /\ late' \in [Requests -> Requests \cup {None}]
          /\ pc[r] = "idle" /\ UNCHANGED crashes
      BY <1>2, ArriveTypes DEF StopCall
    <2>2. /\ seq' \in [Requests -> Nat] /\ gen' \in [Requests -> Nat]
          /\ UNCHANGED <<left, via, since, outcome, shown>> /\ StopNow(r)
      BY <1>2 DEF StopCall, TypeOK
    <2>3. CallTypes
      BY <2>1, <2>2 DEF CallTypes, TypeOK
    <2> QED  BY <2>1, <2>2, <2>3, StopType DEF Procs
  <1>3. CASE AuthorizeCall(r)
    <2>1. /\ kind' \in [Procs -> Kinds] /\ late' \in [Requests -> Requests \cup {None}] /\ UNCHANGED crashes
      BY <1>3, ArriveTypes DEF AuthorizeCall
    <2>2. pc' \in [Procs -> Places]
      BY <1>3 DEF AuthorizeCall, TypeOK, Procs, Places, StorageWaits
    <2> QED  BY <1>3, <2>1, <2>2 DEF AuthorizeCall, TypeOK, socketVars, sequenceVars
  <1>4. CASE RenewingCall(r)
    <2>1. PICK what \in Sends \cup Reads :
            /\ Arrive(r, what)
            /\ IF what = "diagnostics"
               THEN \E seen \in SUBSET log : shown' = [shown EXCEPT ![r] = seen]
               ELSE UNCHANGED shown
      BY <1>4 DEF RenewingCall
    <2>2. shown' \in [Requests -> SUBSET Requests]
      BY <2>1 DEF TypeOK
    <2>3. UNCHANGED <<seq, gen, left, via, since, outcome>> /\ Renew(r)
      BY <1>4 DEF RenewingCall
    <2>4. /\ kind' \in [Procs -> Kinds] /\ late' \in [Requests -> Requests \cup {None}]
          /\ pc[r] = "idle" /\ UNCHANGED crashes
      BY <2>1, ArriveTypes
    <2>5. CallTypes
      BY <2>2, <2>3, <2>4 DEF CallTypes, TypeOK
    <2> QED  BY <2>3, <2>4, <2>5, RenewType DEF Procs
  <1> QED  BY <1>1, <1>2, <1>3, <1>4 DEF Call

LEMMA HandlerType == ASSUME TypeOK, Requested, NEW r \in Requests, Handler(r) PROVE TypeOK'
  <1> USE DEF TypeOK, Procs, Places, StorageWaits, Phases, sequenceVars, socketVars, leaseVars
  <1>1. ASSUME Authorized(r) PROVE TypeOK'
    <2>1. lease' \in Deadlines /\ savedLease' \in Deadlines
      BY <1>1 DEF Authorized, Extend, Deadlines
    <2> QED  BY <1>1, <2>1 DEF Authorized, Extend
  <1>2. ASSUME StartRefused(r) PROVE TypeOK'
    BY <1>2 DEF StartRefused
  <1>3. ASSUME StartRenews(r) PROVE TypeOK'
    <2>1. CallTypes /\ UNCHANGED <<left, via, since, outcome, crashes>> /\ pc[r] = "auth" /\ Renew(r)
      BY <1>3 DEF StartRenews, CallTypes
    <2> QED  BY <2>1, RenewType
  <1>4. ASSUME StartClaim(r) PROVE TypeOK'
    <2>1. pc' \in [Procs -> Places]
      BY <1>4, ReleasedPlaces DEF StartClaim
    <2>2. /\ left' \in [Requests -> Nat] /\ sock' \in [Requests -> {"none", "opening", "up", "down"}]
          /\ ackCallbacks' \subseteq Requests /\ log' = {} /\ owner' = r /\ socket' = r
      BY <1>4 DEF StartClaim
    <2> QED  BY <1>4, <2>1, <2>2 DEF StartClaim
  <1>5. ASSUME StartConnected(r) \/ StartOvertaken(r) PROVE TypeOK'
    BY <1>5 DEF StartConnected, StartOvertaken
  <1>6. ASSUME StartNextServer(r) PROVE TypeOK'
    BY <1>6 DEF StartNextServer, ServersLeft
  <1>7. ASSUME StartFailed(r) PROVE TypeOK'
    BY <1>7 DEF StartFailed
  <1>8. ASSUME SendRefused(r) PROVE TypeOK'
    BY <1>8 DEF SendRefused, Outcomes
  <1>9. ASSUME SendCaptures(r) PROVE TypeOK'
    <2>1. ConnectedSocket = socket /\ socket \in Requests
      BY <1>9 DEF SendCaptures, ConnectedSocket
    <2>2. log' \subseteq Requests
      BY <1>9, <2>1 DEF SendCaptures, Record
    <2> QED  BY <1>9, <2>1, <2>2 DEF SendCaptures
  <1>10. ASSUME ControlAnswered(r) PROVE TypeOK'
    <2>1. log' \subseteq Requests
      BY <1>10 DEF ControlAnswered, Record, Requested
    <2>2. outcome' \in [Requests -> Outcomes]
      BY <1>10 DEF ControlAnswered, Outcomes
    <2> QED  BY <1>10, <2>1, <2>2 DEF ControlAnswered
  <1>11. ASSUME SoacBuilt(r) PROVE TypeOK'
    <2>1. log' \subseteq Requests /\ outcome' \in [Requests -> Outcomes]
      BY <1>11 DEF SoacBuilt, Record, Requested, Outcomes
    <2>2. ackCallbacks' \subseteq Requests
      BY <1>11 DEF SoacBuilt
    <2> QED  BY <1>11, <2>1, <2>2 DEF SoacBuilt
  <1>12. ASSUME ReadAnswered(r) PROVE TypeOK'
    <2>1. log' \subseteq Requests /\ shown' \in [Requests -> SUBSET Requests]
      BY <1>12 DEF ReadAnswered
    <2>2. status' \in [phase : Phases, session : Requests \cup {None}] /\ outcome' \in [Requests -> Outcomes]
      BY <1>12 DEF ReadAnswered, Outcomes
    <2> QED  BY <1>12, <2>1, <2>2 DEF ReadAnswered
  <1> QED  BY <1>1, <1>2, <1>3, <1>4, <1>5, <1>6, <1>7, <1>8, <1>9, <1>10, <1>11, <1>12 DEF Handler

LEMMA TypeStep == ASSUME TypeOK, Requested, [Next]_vars PROVE TypeOK'
  <1>1. ASSUME NEW r \in Requests, Call(r) \/ Handler(r) PROVE TypeOK'
    BY <1>1, CallType, HandlerType
  <1>2. CASE AlarmFires
    <2>1. CASE lease # None /\ lease > 0
      BY <1>2, <2>1 DEF AlarmFires, TypeOK, Procs, Places, StorageWaits, Deadlines, sequenceVars, socketVars
    <2>2. CASE ~(lease # None /\ lease > 0)
      <3>1. StopNow(Alarm) /\ CallTypes /\ UNCHANGED <<left, via, since, outcome, crashes>>
        BY <1>2, <2>2 DEF AlarmFires, CallTypes, TypeOK
      <3> QED  BY <1>2, <3>1, StopType DEF AlarmFires, Procs
    <2> QED  BY <2>1, <2>2
  <1> USE DEF TypeOK, Procs, Places, StorageWaits, Phases, handlerVars, sequenceVars, socketVars, leaseVars
  <1>3. ASSUME NEW p \in Procs, Lease(p) PROVE TypeOK'
    <2>1. ASSUME LeasePut(p) PROVE TypeOK'
      BY <2>1 DEF LeasePut, Deadlines
    <2>2. ASSUME StopDeleted(p) PROVE TypeOK'
      BY <2>2 DEF StopDeleted, Deadlines
    <2>3. ASSUME LeaseDone(p) PROVE TypeOK'
      BY <2>3 DEF LeaseDone
    <2> QED  BY <1>3, <2>1, <2>2, <2>3 DEF Lease
  <1>4. ASSUME NEW r \in Requests, Opens(r) PROVE TypeOK'
    BY <1>4 DEF Opens, SocketConnects, SocketRefused
  <1>5. ASSUME NEW r \in Requests, Environment(r) PROVE TypeOK'
    <2>1. ASSUME SocketEnds(r) PROVE TypeOK'
      <3>1. pc' \in [Procs -> Places] /\ ackCallbacks' \subseteq Requests
        BY <2>1, ReleasedPlaces DEF SocketEnds, SettleSocket
      <3>2. socket' \in Requests \cup {None} /\ status' \in [phase : Phases, session : Requests \cup {None}]
        BY <2>1 DEF SocketEnds
      <3> QED  BY <2>1, <3>1, <3>2 DEF SocketEnds, SettleSocket
    <2>2. ASSUME SocketEvent(r) PROVE TypeOK'
      BY <2>2 DEF SocketEvent, Record
    <2>3. ASSUME AckArrives(r) \/ AckTimesOut(r) PROVE TypeOK'
      BY <2>3 DEF AckArrives, AckTimesOut
    <2>4. ASSUME SoacAck(r) PROVE TypeOK'
      BY <2>4 DEF SoacAck, Requested
    <2> QED  BY <1>5, <2>1, <2>2, <2>3, <2>4 DEF Environment
  <1>6. CASE Tick
    <2>1. \A t \in Deadlines : Sooner(t) \in Deadlines
      BY DEF Deadlines, Sooner
    <2> QED  BY <1>6, <2>1 DEF Tick
  <1>7. CASE Evict
    BY <1>7 DEF Evict, Reconstruct
  <1>8. CASE UNCHANGED vars
    BY <1>8 DEF vars
  <1> QED  BY <1>1, <1>2, <1>3, <1>4, <1>5, <1>6, <1>7, <1>8 DEF Next

-----------------------------------------------------------------------------
(* Steps that change neither sockets, numbers nor owner.                     *)

\* A handler moves on, without opening a socket, becoming admissible or coming back.
Moves(q) ==
  \/ pc'[q] = pc[q]
  \/ /\ pc[q] \notin Opening \cup {"idle", "done"} /\ pc'[q] \notin Opening \cup {"idle", "auth"}
     /\ pc'[q] \in StorageWaits => pc[q] \in StorageWaits \ {"auth"}
     /\ pc'[q] \in {"payload", "awaitAck", "acked", "ackFailed"} => via'[q] # None

Quiet ==
  /\ UNCHANGED <<kind, seq, gen, late, nextSeq, authSeq, activeGen, owner, socket, sock, authorization>>
  /\ status'.session = status.session /\ log' \subseteq log \cup {socket}
  /\ \A q \in Requests :
       /\ Moves(q)
       /\ q \in ackCallbacks' => via'[q] # None
       /\ outcome'[q] = outcome[q] \/ pc'[q] = "done"
       /\ \/ via'[q] = via[q]
          \/ pc[q] = "renewed" /\ kind[q] \in Sends /\ via'[q] = socket /\ socket # None
       /\ \/ shown'[q] = shown[q]
          \/ pc[q] = "renewed" /\ shown'[q] \subseteq log

LEMMA QuietKeeps == ASSUME Inv, TypeOK', Quiet PROVE Inv'
  <1>0. /\ UNCHANGED <<kind, seq, gen, late, nextSeq, authSeq, activeGen, owner, socket, sock, authorization>>
        /\ \A q \in Requests : Moves(q)
    BY DEF Quiet
  <1>1. Requested'
    <2> SUFFICES ASSUME NEW r \in Requests
                 PROVE  /\ pc'[r] = "idle" => gen[r] = 0 /\ via'[r] = None /\ shown'[r] = {} /\ late[r] = None /\ sock[r] = "none"
                        /\ kind[r] = "start" /\ pc'[r] \in StorageWaits => gen[r] = 0 /\ sock[r] = "none"
                        /\ via'[r] # None => kind[r] \in Sends
                        /\ pc'[r] \in {"payload", "awaitAck", "acked", "ackFailed"} \/ r \in ackCallbacks' => via'[r] # None
                        /\ outcome'[r] = "connected" => pc'[r] = "done"
      BY <1>0 DEF Inv, Requested
    <2>1. pc'[r] = "idle" => pc[r] = "idle"
      BY <1>0 DEF Moves
    <2>2. pc[r] = "idle" => via'[r] = via[r] /\ shown'[r] = shown[r]
      BY DEF Quiet
    <2>3. pc[r] = "done" => pc'[r] = "done"
      BY <1>0 DEF Moves
    <2> QED  BY <1>0, <2>1, <2>2, <2>3 DEF Inv, Requested, Quiet, Moves
  <1>2. Numbering' /\ NoOrphanSocket'
    BY <1>0 DEF Inv, Numbering, NoOrphanSocket
  <1>3. SocketPlaces'
    <2> SUFFICES ASSUME NEW r \in Requests
                 PROVE  /\ sock[r] # "none" => kind[r] = "start" /\ pc'[r] \in Opening \cup {"done"}
                        /\ pc'[r] \in Opening => kind[r] = "start" /\ gen[r] # 0 /\ sock[r] # "none"
                        /\ pc'[r] = "connecting" <=> sock[r] = "opening"
                        /\ pc'[r] = "refused" => sock[r] = "down"
      BY <1>0 DEF SocketPlaces
    <2>1. pc[r] \in Opening \cup {"done"} \/ pc'[r] \in Opening => pc'[r] = pc[r]
      BY <1>0 DEF Moves
    <2>2. sock[r] = "opening" => pc'[r] = pc[r]
      BY <2>1 DEF Inv, SocketPlaces, Opening
    <2> QED  BY <2>1, <2>2 DEF Inv, SocketPlaces, Opening
  <1>4. Owning'
    BY <1>0 DEF Inv, Owning, Quiet
  <1>5. Admissible'
    BY <1>0 DEF Inv, Admissible, Admitted, Moves
  <1>6. \A q \in Requests : Gone(q) => Gone(q)'
    <2> SUFFICES ASSUME NEW q \in Requests, Gone(q) PROVE Gone(q)'
      OBVIOUS
    <2>1. q \notin log'
      BY DEF Quiet, Gone
    <2>2. pc[q] = "done" => pc'[q] = "done"
      BY <1>0 DEF Moves
    <2> QED  BY <1>0, <2>1, <2>2 DEF Gone
  <1>7. LateOnes'
    <2> SUFFICES ASSUME NEW r \in Requests, late[r] # None
                 PROVE  /\ kind[r] \in Sends \cup Reads => Gone(late[r])'
                        /\ via'[r] # late[r] /\ (kind[r] = "events" => late[r] \notin shown'[r])
      BY <1>0 DEF LateOnes, Gone
    <2>1. /\ kind[r] \in Sends \cup Reads => Gone(late[r])
          /\ via[r] # late[r] /\ (kind[r] = "events" => late[r] \notin shown[r])
          /\ late[r] \in Requests
      BY DEF Inv, LateOnes, TypeOK
    <2>2. kind[r] \in Sends \cup Reads => Gone(late[r])'
      BY <1>0, <1>6, <2>1
    <2>3. via'[r] # late[r]
      BY <2>1 DEF Quiet, Gone
    <2>4. kind[r] = "events" => late[r] \notin shown'[r]
      BY <2>1 DEF Quiet, Gone, Reads
    <2> QED  BY <2>2, <2>3, <2>4
  <1> QED  BY <1>1, <1>2, <1>3, <1>4, <1>5, <1>7 DEF Inv

\* Most handlers, the lease's storage operations, messages and acks are such steps.
LEMMA QuietSteps ==
  ASSUME Inv,
         \/ \E r \in Requests : \/ Authorized(r) \/ StartRefused(r) \/ SendRefused(r) \/ SendCaptures(r)
                                \/ ControlAnswered(r) \/ SoacBuilt(r) \/ ReadAnswered(r)
                                \/ SocketEvent(r) \/ AckArrives(r) \/ AckTimesOut(r) \/ SoacAck(r)
         \/ \E p \in Procs : Lease(p)
         \/ Tick
  PROVE  Quiet
  <1> USE DEF Procs, sequenceVars, socketVars, leaseVars, handlerVars, Opening, StorageWaits
  <1>0. Requested /\ TypeOK
    BY DEF Inv
  <1>1. ASSUME NEW r \in Requests, Authorized(r) PROVE Quiet
    BY <1>0, <1>1 DEF Authorized, Extend, Quiet, Moves, TypeOK, Requested
  <1>2. ASSUME NEW r \in Requests, StartRefused(r) PROVE Quiet
    BY <1>0, <1>2 DEF StartRefused, Quiet, Moves, TypeOK, Requested
  <1>3. ASSUME NEW r \in Requests, SendRefused(r) PROVE Quiet
    BY <1>0, <1>3 DEF SendRefused, Quiet, Moves, TypeOK, Requested
  <1>4. ASSUME NEW r \in Requests, SendCaptures(r) PROVE Quiet
    <2>1. ConnectedSocket = socket /\ socket # None
      BY <1>4 DEF SendCaptures, ConnectedSocket
    <2>2. log' \subseteq log \cup {socket}
      BY <1>4, <2>1 DEF SendCaptures, Record
    <2>3. via' = [via EXCEPT ![r] = socket] /\ pc[r] = "renewed" /\ kind[r] \in Sends
      BY <1>4, <2>1 DEF SendCaptures
    <2> QED  BY <1>0, <1>4, <2>1, <2>2, <2>3 DEF SendCaptures, Quiet, Moves, TypeOK, Requested
  <1>5. ASSUME NEW r \in Requests, ControlAnswered(r) PROVE Quiet
    <2>1. log' \subseteq log \cup {socket}
      BY <1>5 DEF ControlAnswered, Record, IsCurrent
    <2> QED  BY <1>0, <1>5, <2>1 DEF ControlAnswered, Quiet, Moves, TypeOK, Requested
  <1>6. ASSUME NEW r \in Requests, SoacBuilt(r) PROVE Quiet
    <2>1. log' \subseteq log \cup {socket} /\ ackCallbacks' \subseteq ackCallbacks \cup {r}
      BY <1>6 DEF SoacBuilt, Record, IsCurrent
    <2>2. via[r] # None
      BY <1>0, <1>6 DEF SoacBuilt, Requested
    <2> QED  BY <1>0, <1>6, <2>1, <2>2 DEF SoacBuilt, Quiet, Moves, TypeOK, Requested
  <1>7. ASSUME NEW r \in Requests, ReadAnswered(r) PROVE Quiet
    <2>1. log' \subseteq log /\ status'.session = status.session
      BY <1>0, <1>7 DEF ReadAnswered, TypeOK
    <2>2. \A q \in Requests : shown'[q] = shown[q] \/ (pc[q] = "renewed" /\ shown'[q] \subseteq log)
      BY <1>0, <1>7 DEF ReadAnswered, TypeOK
    <2>3. \A q \in Requests : outcome'[q] = outcome[q] \/ pc'[q] = "done"
      BY <1>0, <1>7 DEF ReadAnswered, TypeOK
    <2> QED  BY <1>0, <1>7, <2>1, <2>2, <2>3 DEF ReadAnswered, Quiet, Moves, TypeOK, Requested
  <1>8. ASSUME NEW r \in Requests, SocketEvent(r) PROVE Quiet
    BY <1>0, <1>8 DEF SocketEvent, Record, IsCurrent, Quiet, Moves, TypeOK, Requested
  <1>9. ASSUME NEW r \in Requests, AckArrives(r) \/ AckTimesOut(r) PROVE Quiet
    <2>1. \A q \in Requests : Moves(q)
      BY <1>0, <1>9 DEF AckArrives, AckTimesOut, Moves, TypeOK, Requested
    <2>2. UNCHANGED <<kind, seq, gen, late, via, shown, outcome, ackCallbacks, nextSeq, authSeq, activeGen, owner, socket, sock, authorization, status, log>>
      BY <1>9 DEF AckArrives, AckTimesOut
    <2>3. \A q \in Requests : q \in ackCallbacks' => via'[q] # None
      BY <1>0, <2>2 DEF Requested
    <2>4. status'.session = status.session /\ log' \subseteq log \cup {socket}
      BY <1>0, <2>2 DEF TypeOK
    <2> QED  BY <2>1, <2>2, <2>3, <2>4 DEF Quiet
  <1>10. ASSUME NEW r \in Requests, SoacAck(r) PROVE Quiet
    BY <1>0, <1>10 DEF SoacAck, IsCurrent, Quiet, Moves, TypeOK, Requested
  <1>11. ASSUME NEW p \in Procs, Lease(p) PROVE Quiet
    BY <1>0, <1>11 DEF Lease, LeasePut, StopDeleted, LeaseDone, Quiet, Moves, TypeOK, Requested
  <1>12. CASE Tick
    BY <1>0, <1>12 DEF Tick, Quiet, Moves, TypeOK, Requested
  <1> QED  BY <1>1, <1>2, <1>3, <1>4, <1>5, <1>6, <1>7, <1>8, <1>9, <1>10, <1>11, <1>12

-----------------------------------------------------------------------------
(* A stop, whoever asks for it: the page, the alarm, or a request that finds *)
(* the lease run out.                                                        *)

\* What the caller changes besides: its own fields, if it only arrives now.
CallerOf(p) ==
  /\ UNCHANGED <<left, via, since, outcome>>
  /\ \A q \in Requests :
       \/ /\ kind'[q] = kind[q] /\ seq'[q] = seq[q] /\ gen'[q] = gen[q]
          /\ shown'[q] = shown[q] /\ late'[q] = late[q]
       \/ /\ q = p /\ pc[p] = "idle"
          /\ kind'[p] \in Sends \cup Reads \cup {"stop"} /\ seq'[p] <= nextSeq + 1
          /\ gen'[p] = 0 \/ (gen'[p] = activeGen + 1 /\ kind'[p] = "stop")
          /\ late'[p] \in {owner, None} /\ (kind'[p] = "events" => shown'[p] = {})

LEMMA StopKeeps ==
  ASSUME Inv, TypeOK', NEW p \in Procs, pc[p] \in {"idle", "auth"}, StopNow(p), CallerOf(p)
  PROVE  Inv'
  <1>1. /\ nextSeq' = nextSeq + 1 /\ authSeq' = nextSeq + 1 /\ activeGen' = activeGen + 1
        /\ owner' = None /\ socket' = None /\ log' = {}
        /\ \A q \in Requests : sock'[q] = IF q = socket THEN "down" ELSE sock[q]
        /\ ackCallbacks' \subseteq ackCallbacks /\ pc'[p] = "delete"
        /\ \A q \in Requests \ {p} :
             \/ pc'[q] = pc[q] /\ ~(q = socket /\ pc[q] = "connecting")
             \/ q = socket /\ pc[q] = "connecting" /\ pc'[q] = "refused"
             \/ pc[q] = "awaitAck" /\ pc'[q] = "ackFailed"
    BY StopEffect DEF Inv, Procs
  <1>2. /\ nextSeq \in Nat /\ activeGen \in Nat
        /\ \A q \in Requests : /\ seq[q] \in Nat /\ seq[q] <= nextSeq
                               /\ gen[q] \in Nat /\ gen[q] <= activeGen
                               /\ seq'[q] \in Nat /\ gen'[q] \in Nat
    BY DEF Inv, TypeOK, Numbering
  <1>3. p # socket /\ (p \in Requests => sock[p] = "none")
    BY DEF Inv, TypeOK, SocketPlaces, Opening, Owning, Procs
  <1>4. Requested'
    <2> SUFFICES ASSUME NEW r \in Requests
                 PROVE  (/\ pc[r] = "idle" => gen[r] = 0 /\ via[r] = None /\ shown[r] = {} /\ late[r] = None /\ sock[r] = "none"
                         /\ gen[r] # 0 => kind[r] \in {"start", "stop"}
                         /\ kind[r] = "start" /\ pc[r] \in StorageWaits => gen[r] = 0 /\ sock[r] = "none"
                         /\ via[r] # None => kind[r] \in Sends
                         /\ pc[r] \in {"payload", "awaitAck", "acked", "ackFailed"} \/ r \in ackCallbacks => via[r] # None
                         /\ outcome[r] = "connected" => pc[r] = "done")'
      BY DEF Requested
    <2>1. CASE r = p
      <3>1. /\ pc'[r] = "delete" /\ sock'[r] = "none" /\ sock[r] = "none" /\ UNCHANGED <<via, outcome>>
            /\ r \in ackCallbacks' => r \in ackCallbacks
        BY <1>1, <1>3, <2>1 DEF CallerOf
      <3>2. via[r] # None => pc[r] # "idle"
        BY DEF Inv, Requested
      <3>3. /\ gen'[r] # 0 => kind'[r] \in {"start", "stop"}
            /\ kind'[r] = "start" => gen'[r] = 0
            /\ via'[r] # None => kind'[r] \in Sends
            /\ outcome'[r] # "connected"
        BY <2>1, <3>1, <3>2 DEF Inv, Requested, CallerOf, Sends, Reads, StorageWaits
      <3>4. r \in ackCallbacks' => via'[r] # None
        BY <3>1 DEF Inv, Requested
      <3> QED  BY <3>1, <3>3, <3>4
    <2>2. CASE r # p
      <3>1. /\ kind'[r] = kind[r] /\ gen'[r] = gen[r] /\ shown'[r] = shown[r] /\ late'[r] = late[r]
            /\ UNCHANGED <<via, outcome>> /\ (r \in ackCallbacks' => r \in ackCallbacks)
        BY <1>1, <2>2 DEF CallerOf
      <3>2. sock[r] = "none" => sock'[r] = "none"
        BY <1>1 DEF Inv, Owning
      <3>3. CASE pc'[r] = pc[r]
        BY <3>1, <3>2, <3>3 DEF Inv, Requested
      <3>4. CASE pc[r] = "connecting" /\ pc'[r] = "refused"
        BY <3>1, <3>2, <3>4 DEF Inv, Requested, StorageWaits
      <3>5. CASE pc[r] = "awaitAck" /\ pc'[r] = "ackFailed"
        BY <3>1, <3>2, <3>5 DEF Inv, Requested, StorageWaits
      <3> QED  BY <1>1, <2>2, <3>3, <3>4, <3>5
    <2> QED  BY <2>1, <2>2
  <1>5. Numbering'
    BY <1>1, <1>2 DEF Inv, Numbering, CallerOf
  <1>6. SocketPlaces'
    <2> SUFFICES ASSUME NEW r \in Requests
                 PROVE  (/\ sock[r] # "none" => kind[r] = "start" /\ pc[r] \in Opening \cup {"done"}
                         /\ pc[r] \in Opening => kind[r] = "start" /\ gen[r] # 0 /\ sock[r] # "none"
                         /\ pc[r] = "connecting" <=> sock[r] = "opening"
                         /\ pc[r] = "refused" => sock[r] = "down")'
      BY DEF SocketPlaces
    <2>1. CASE r = p
      BY <1>1, <1>3, <2>1 DEF Opening
    <2>2. CASE r # p
      <3>1. kind'[r] = kind[r] /\ gen'[r] = gen[r]
        BY <2>2 DEF CallerOf
      <3>2. CASE r = socket
        BY <1>1, <2>2, <3>1, <3>2 DEF Inv, SocketPlaces, Owning, Opening
      <3>3. CASE r # socket
        BY <1>1, <2>2, <3>1, <3>3 DEF Inv, SocketPlaces, Opening
      <3> QED  BY <3>2, <3>3
    <2> QED  BY <2>1, <2>2
  <1>7. Owning' /\ NoOrphanSocket'
    <2>1. \A r \in Requests : kind'[r] = "start" => gen'[r] # activeGen' \/ gen'[r] = 0
      BY <1>1, <1>2 DEF CallerOf, Sends, Reads
    <2>2. NoOrphanSocket'
      BY <1>1 DEF Inv, NoOrphanSocket
    <2> QED  BY <1>1, <2>1, <2>2 DEF Owning
  <1>8. Admissible'
    <2>1. \A r \in Requests : kind'[r] = "start" => seq'[r] < authSeq'
      BY <1>1, <1>2 DEF CallerOf, Sends, Reads
    <2> QED  BY <1>1, <1>2, <2>1 DEF Admissible, Admitted
  <1>9. ASSUME NEW q \in Requests, sock[q] # "none" PROVE Gone(q)'
    <2>1. q # p /\ gen'[q] = gen[q]
      BY <1>3, <1>9 DEF CallerOf
    <2> QED  BY <1>1, <1>2, <1>9, <2>1 DEF Gone
  <1>10. LateOnes'
    <2> SUFFICES ASSUME NEW r \in Requests, late'[r] # None
                 PROVE  /\ kind'[r] \in Sends \cup Reads => Gone(late[r])'
                        /\ via'[r] # late'[r] /\ (kind'[r] = "events" => late'[r] \notin shown'[r])
      BY DEF LateOnes
    <2>1. CASE kind'[r] = kind[r] /\ shown'[r] = shown[r] /\ late'[r] = late[r]
      <3>1. kind[r] \in Sends \cup Reads => sock[late[r]] # "none" /\ late[r] \in Requests
        BY <2>1 DEF Inv, LateOnes, Gone, TypeOK
      <3>2. kind[r] \in Sends \cup Reads => Gone(late[r])'
        BY <1>9, <2>1, <3>1 DEF Gone
      <3> QED  BY <2>1, <3>2 DEF Inv, LateOnes, CallerOf
    <2>2. CASE r = p /\ pc[p] = "idle" /\ late'[p] = owner /\ (kind'[p] = "events" => shown'[p] = {})
      <3>1. owner \in Requests /\ sock[owner] # "none" /\ via'[p] = None
        BY <2>2 DEF Inv, TypeOK, Owning, Requested, CallerOf
      <3>2. Gone(late[r])'
        BY <1>9, <2>2, <3>1 DEF Gone
      <3> QED  BY <2>2, <3>1, <3>2
    <2> QED  BY <2>1, <2>2 DEF CallerOf
  <1> QED  BY <1>4, <1>5, <1>6, <1>7, <1>8, <1>10 DEF Inv

-----------------------------------------------------------------------------
(* A request arrives, and a start has found its authorization.               *)

LEMMA ArriveKeeps ==
  ASSUME Inv, TypeOK', NEW r \in Requests, NEW what \in Kinds, NEW place \in StorageWaits,
         pc[r] = "idle", pc' = [pc EXCEPT ![r] = place], kind' = [kind EXCEPT ![r] = what],
         what = "start" => place = "auth", late'[r] \in {owner, None},
         what \in Sends \cup Reads => late'[r] = None,
         what = "events" => shown'[r] = {},
         \A q \in Requests \ {r} : late'[q] = late[q] /\ shown'[q] = shown[q] /\ seq'[q] = seq[q],
         nextSeq' \in {nextSeq, nextSeq + 1}, seq'[r] <= nextSeq', log' \subseteq log,
         authorization' \in {authorization, "room"},
         UNCHANGED <<gen, via, outcome, authSeq, activeGen, owner, socket, sock, ackCallbacks, status>>
  PROVE  Inv'
  <1>1. /\ pc'[r] = place /\ kind'[r] = what /\ nextSeq \in Nat
        /\ \A q \in Requests \ {r} : pc'[q] = pc[q] /\ kind'[q] = kind[q]
    BY DEF Inv, TypeOK, Procs
  <1>2. gen[r] = 0 /\ via[r] = None /\ sock[r] = "none" /\ outcome[r] # "connected"
    BY DEF Inv, Requested
  <1>3. Requested'
    <2> SUFFICES ASSUME NEW q \in Requests
                 PROVE  (/\ pc[q] = "idle" => gen[q] = 0 /\ via[q] = None /\ shown[q] = {} /\ late[q] = None /\ sock[q] = "none"
                         /\ gen[q] # 0 => kind[q] \in {"start", "stop"}
                         /\ kind[q] = "start" /\ pc[q] \in StorageWaits => gen[q] = 0 /\ sock[q] = "none"
                         /\ via[q] # None => kind[q] \in Sends
                         /\ pc[q] \in {"payload", "awaitAck", "acked", "ackFailed"} \/ q \in ackCallbacks => via[q] # None
                         /\ outcome[q] = "connected" => pc[q] = "done")'
      BY DEF Requested
    <2>1. CASE q = r
      BY <1>1, <1>2, <2>1 DEF Inv, Requested, StorageWaits
    <2>2. CASE q # r
      BY <1>1, <2>2 DEF Inv, Requested
    <2> QED  BY <2>1, <2>2
  <1>4. Numbering'
    BY <1>1 DEF Inv, TypeOK, Numbering
  <1>5. SocketPlaces' /\ NoOrphanSocket'
    BY <1>1, <1>2 DEF Inv, SocketPlaces, NoOrphanSocket, StorageWaits, Opening
  <1>6. Owning'
    BY <1>1, <1>2 DEF Inv, Owning
  <1>7. Admissible'
    BY <1>1 DEF Inv, Admissible, Admitted
  <1>8. \A q \in Requests : Gone(q) => Gone(q)'
    BY <1>1, <1>2 DEF Gone
  <1>9. LateOnes'
    <2> SUFFICES ASSUME NEW q \in Requests, late'[q] # None
                 PROVE  /\ kind'[q] \in Sends \cup Reads => Gone(late[q])'
                        /\ via'[q] # late'[q] /\ (kind'[q] = "events" => late'[q] \notin shown'[q])
      BY DEF LateOnes
    <2>1. CASE q = r
      BY <1>1, <1>2, <2>1 DEF Inv, TypeOK, Kinds, Sends, Reads
    <2>2. CASE q # r
      <3>1. kind[q] \in Sends \cup Reads => Gone(late[q]) /\ late[q] \in Requests
        BY <2>2 DEF Inv, LateOnes, TypeOK
      <3>2. kind[q] \in Sends \cup Reads => Gone(late[q])'
        BY <1>8, <2>2, <3>1 DEF Gone
      <3> QED  BY <1>1, <2>2, <3>2 DEF Inv, LateOnes
    <2> QED  BY <2>1, <2>2
  <1> QED  BY <1>3, <1>4, <1>5, <1>6, <1>7, <1>9 DEF Inv

\* What a renewal that is in time changes.
LEMMA RenewEffect ==
  ASSUME TypeOK, NEW p \in Procs, pc[p] \in {"idle", "auth"}, Renew(p), ~Expired
  PROVE  /\ \E place \in {"put", "renewed"} : pc' = [pc EXCEPT ![p] = place]
         /\ log' \subseteq log
         /\ UNCHANGED <<nextSeq, authSeq, activeGen, owner, socket, sock, ackCallbacks, authorization, status>>
  BY DEF Renew, Extend, sequenceVars, socketVars

LEMMA CallKeeps == ASSUME Inv, TypeOK', NEW r \in Requests, Call(r) PROVE Inv'
  <1>0. TypeOK
    BY DEF Inv
  <1>1. CASE StartCall(r)
    <2>1. /\ pc[r] = "idle" /\ kind' = [kind EXCEPT ![r] = "start"]
          /\ late' = [late EXCEPT ![r] = IF Expired THEN owner ELSE None]
      BY <1>0, <1>1, ArriveTypes DEF StartCall, Kinds
    <2>2. /\ pc' = [pc EXCEPT ![r] = "auth"] /\ seq' = [seq EXCEPT ![r] = nextSeq + 1] /\ nextSeq' = nextSeq + 1
          /\ UNCHANGED <<gen, via, outcome, shown, authSeq, activeGen, owner, socket, sock, ackCallbacks,
                         authorization, status, log>>
      BY <1>1 DEF StartCall, socketVars, leaseVars
    <2>3. /\ late'[r] \in {owner, None} /\ seq'[r] <= nextSeq'
          /\ \A q \in Requests \ {r} : late'[q] = late[q] /\ shown'[q] = shown[q] /\ seq'[q] = seq[q]
      BY <1>0, <2>1, <2>2 DEF TypeOK
    <2> QED  BY <2>1, <2>2, <2>3, ArriveKeeps DEF Kinds, StorageWaits, Sends, Reads
  <1>2. CASE AuthorizeCall(r)
    <2>1. /\ pc[r] = "idle" /\ kind' = [kind EXCEPT ![r] = "authorize"]
          /\ late' = [late EXCEPT ![r] = IF Expired THEN owner ELSE None]
      BY <1>0, <1>2, ArriveTypes DEF AuthorizeCall, Kinds
    <2>2. /\ pc' = [pc EXCEPT ![r] = "authorize"] /\ authorization' = "room"
          /\ UNCHANGED <<seq, gen, via, outcome, shown, nextSeq, authSeq, activeGen, owner, socket, sock,
                         ackCallbacks, status, log>>
      BY <1>2 DEF AuthorizeCall, socketVars, sequenceVars
    <2>3. /\ late'[r] \in {owner, None} /\ seq'[r] <= nextSeq'
          /\ \A q \in Requests \ {r} : late'[q] = late[q] /\ shown'[q] = shown[q] /\ seq'[q] = seq[q]
      BY <1>0, <2>1, <2>2 DEF Inv, TypeOK, Numbering
    <2> QED  BY <2>1, <2>2, <2>3, ArriveKeeps DEF Kinds, StorageWaits, Sends, Reads
  <1>3. CASE StopCall(r)
    <2>1. /\ pc[r] = "idle" /\ kind' = [kind EXCEPT ![r] = "stop"]
          /\ late' = [late EXCEPT ![r] = IF Expired THEN owner ELSE None]
      BY <1>0, <1>3, ArriveTypes DEF StopCall, Kinds
    <2>2. /\ StopNow(r) /\ seq' = [seq EXCEPT ![r] = nextSeq + 1] /\ gen' = [gen EXCEPT ![r] = activeGen + 1]
          /\ UNCHANGED <<left, via, since, outcome, shown>>
      BY <1>3 DEF StopCall
    <2>3. CallerOf(r)
      BY <1>0, <2>1, <2>2 DEF CallerOf, TypeOK, Procs, Reads
    <2> QED  BY <2>1, <2>2, <2>3, StopKeeps DEF Procs
  <1>4. CASE RenewingCall(r)
    <2>1. PICK what \in Sends \cup Reads :
            /\ Arrive(r, what)
            /\ IF what = "diagnostics"
               THEN \E seen \in SUBSET log : shown' = [shown EXCEPT ![r] = seen]
               ELSE UNCHANGED shown
      BY <1>4 DEF RenewingCall
    <2>2. UNCHANGED <<seq, gen, left, via, since, outcome>> /\ Renew(r) /\ what \in Kinds
      BY <1>4 DEF RenewingCall, Kinds
    <2>3. /\ pc[r] = "idle" /\ kind' = [kind EXCEPT ![r] = what]
          /\ late' = [late EXCEPT ![r] = IF Expired THEN owner ELSE None]
      BY <1>0, <2>1, <2>2, ArriveTypes
    <2>4. /\ what = "events" => shown'[r] = {}
          /\ \A q \in Requests \ {r} : late'[q] = late[q] /\ shown'[q] = shown[q]
      BY <1>0, <2>1, <2>3 DEF TypeOK, Inv, Requested
    <2>5. CASE Expired
      <3>1. StopNow(r)
        BY <2>2, <2>5 DEF Renew
      <3>2. gen[r] = 0 /\ seq[r] <= nextSeq + 1
        BY <1>0, <2>3 DEF Inv, TypeOK, Requested, Numbering
      <3>3. CallerOf(r)
        BY <1>0, <2>2, <2>3, <2>4, <3>2 DEF CallerOf, TypeOK, Procs
      <3> QED  BY <2>3, <3>1, <3>3, StopKeeps DEF Procs
    <2>6. CASE ~Expired
      <3>1. /\ \E place \in {"put", "renewed"} : pc' = [pc EXCEPT ![r] = place]
            /\ log' \subseteq log
            /\ UNCHANGED <<nextSeq, authSeq, activeGen, owner, socket, sock, ackCallbacks, authorization, status>>
        BY <1>0, <2>2, <2>3, <2>6, RenewEffect DEF Procs
      <3>2. late'[r] = None /\ seq'[r] <= nextSeq'
        BY <1>0, <2>2, <2>3, <2>6, <3>1 DEF Inv, TypeOK, Numbering
      <3> QED  BY <2>2, <2>3, <2>4, <3>1, <3>2, ArriveKeeps DEF StorageWaits, Sends, Reads
    <2> QED  BY <2>5, <2>6
  <1> QED  BY <1>1, <1>2, <1>3, <1>4 DEF Call

LEMMA StartRenewsKeeps == ASSUME Inv, TypeOK', NEW r \in Requests, StartRenews(r) PROVE Inv'
  <1>1. /\ pc[r] = "auth" /\ authorization = "room" /\ Renew(r) /\ TypeOK
        /\ UNCHANGED <<kind, seq, gen, left, via, since, outcome, shown, late>>
    BY DEF StartRenews, Inv
  <1>2. CASE Expired
    BY <1>1, <1>2, StopKeeps DEF Renew, CallerOf, Procs
  <1>3. CASE ~Expired
    <2>1. PICK place \in {"put", "renewed"} : pc' = [pc EXCEPT ![r] = place]
      BY <1>1, <1>3, RenewEffect DEF Procs
    <2>2. /\ log' \subseteq log
          /\ UNCHANGED <<nextSeq, authSeq, activeGen, owner, socket, sock, ackCallbacks, authorization, status>>
      BY <1>1, <1>3, RenewEffect DEF Procs
    <2>3. pc'[r] = place /\ \A q \in Requests \ {r} : pc'[q] = pc[q]
      BY <1>1, <2>1 DEF TypeOK, Procs
    <2>4. Requested'
      BY <1>1, <2>2, <2>3 DEF Inv, Requested, StorageWaits
    <2>5. Numbering' /\ SocketPlaces' /\ Owning' /\ NoOrphanSocket'
      BY <1>1, <2>2, <2>3 DEF Inv, Numbering, SocketPlaces, Owning, NoOrphanSocket, Opening
    <2>6. Admissible'
      BY <1>1, <2>2 DEF Admissible
    <2>7. \A q \in Requests : Gone(q) => Gone(q)'
      BY <1>1, <2>2, <2>3 DEF Gone
    <2>8. LateOnes'
      <3>1. \A q \in Requests : late[q] # None /\ kind[q] \in Sends \cup Reads => Gone(late[q])'
        <4> SUFFICES ASSUME NEW q \in Requests, late[q] # None, kind[q] \in Sends \cup Reads
                     PROVE  Gone(late[q])'
          OBVIOUS
        <4>1. Gone(late[q]) /\ late[q] \in Requests
          BY DEF Inv, LateOnes, TypeOK
        <4> QED  BY <1>1, <2>7, <4>1 DEF Gone
      <3> QED  BY <1>1, <3>1 DEF Inv, LateOnes
    <2> QED  BY <2>4, <2>5, <2>6, <2>8 DEF Inv
  <1> QED  BY <1>2, <1>3

-----------------------------------------------------------------------------
(* The start of a session, and its socket.                                   *)

LEMMA ClaimKeeps == ASSUME Inv, TypeOK', NEW r \in Requests, StartClaim(r) PROVE Inv'
  <1>1. /\ pc[r] = "renewed" /\ kind[r] = "start" /\ seq[r] >= authSeq
        /\ authSeq' = seq[r] /\ activeGen' = activeGen + 1 /\ gen' = [gen EXCEPT ![r] = activeGen + 1]
        /\ owner' = r /\ socket' = r /\ log' = {} /\ status' = [phase |-> "connecting", session |-> r]
        /\ sock' = [q \in Requests |-> IF q = r THEN "opening" ELSE IF q = socket THEN "down" ELSE sock[q]]
        /\ ackCallbacks' \subseteq ackCallbacks
        /\ pc' = [Released(pc, socket) EXCEPT ![r] = "connecting"]
        /\ UNCHANGED <<kind, seq, via, outcome, shown, late, nextSeq, authorization>>
    BY DEF StartClaim, Admitted, leaseVars
  <1>2. /\ pc'[r] = "connecting"
        /\ \A q \in Requests \ {r} :
             \/ pc'[q] = pc[q] /\ ~(q = socket /\ pc[q] = "connecting")
             \/ q = socket /\ pc[q] = "connecting" /\ pc'[q] = "refused"
             \/ pc[q] = "awaitAck" /\ pc'[q] = "ackFailed"
    <2>1. pc \in [Procs -> Places] /\ r \in Procs
      BY DEF Inv, TypeOK, Procs
    <2>2. Released(pc, socket) \in [Procs -> Places]
      BY <2>1, ReleasedPlaces
    <2>3. pc'[r] = "connecting" /\ \A q \in Requests \ {r} : pc'[q] = Released(pc, socket)[q]
      BY <1>1, <2>1, <2>2 DEF Procs
    <2>4. \A q \in Requests :
             \/ Released(pc, socket)[q] = pc[q] /\ ~(q = socket /\ pc[q] = "connecting")
             \/ q = socket /\ pc[q] = "connecting" /\ Released(pc, socket)[q] = "refused"
             \/ pc[q] = "awaitAck" /\ Released(pc, socket)[q] = "ackFailed"
      BY <2>1, ReleasedPlaces DEF Procs
    <2> QED  BY <2>3, <2>4
  <1>3. authorization = "room" /\ gen[r] = 0 /\ sock[r] = "none" /\ r # socket
    BY <1>1 DEF Inv, Admissible, Admitted, Requested, Owning, StorageWaits
  <1>4. /\ activeGen \in Nat /\ gen'[r] = activeGen + 1
        /\ \A q \in Requests \ {r} : gen'[q] = gen[q] /\ gen[q] \in Nat /\ gen[q] <= activeGen
    BY <1>1 DEF Inv, TypeOK, Numbering
  <1>5. Requested'
    <2> SUFFICES ASSUME NEW q \in Requests
                 PROVE  (/\ pc[q] = "idle" => gen[q] = 0 /\ via[q] = None /\ shown[q] = {} /\ late[q] = None /\ sock[q] = "none"
                         /\ gen[q] # 0 => kind[q] \in {"start", "stop"}
                         /\ kind[q] = "start" /\ pc[q] \in StorageWaits => gen[q] = 0 /\ sock[q] = "none"
                         /\ via[q] # None => kind[q] \in Sends
                         /\ pc[q] \in {"payload", "awaitAck", "acked", "ackFailed"} \/ q \in ackCallbacks => via[q] # None
                         /\ outcome[q] = "connected" => pc[q] = "done")'
      BY DEF Requested
    <2>1. CASE q = r
      BY <1>1, <1>2, <1>3, <2>1 DEF Inv, Requested, StorageWaits
    <2>2. CASE q # r
      <3>1. sock[q] = "none" => sock'[q] = "none"
        BY <1>1, <2>2 DEF Inv, Owning
      <3>2. CASE pc'[q] = pc[q]
        BY <1>1, <1>4, <2>2, <3>1, <3>2 DEF Inv, Requested
      <3>3. CASE pc[q] = "connecting" /\ pc'[q] = "refused"
        BY <1>1, <1>4, <2>2, <3>3 DEF Inv, Requested, StorageWaits
      <3>4. CASE pc[q] = "awaitAck" /\ pc'[q] = "ackFailed"
        BY <1>1, <1>4, <2>2, <3>4 DEF Inv, Requested, StorageWaits
      <3> QED  BY <1>2, <2>2, <3>2, <3>3, <3>4
    <2> QED  BY <2>1, <2>2
  <1>6. Numbering'
    BY <1>1, <1>4 DEF Inv, TypeOK, Numbering
  <1>7. SocketPlaces'
    <2> SUFFICES ASSUME NEW q \in Requests
                 PROVE  (/\ sock[q] # "none" => kind[q] = "start" /\ pc[q] \in Opening \cup {"done"}
                         /\ pc[q] \in Opening => kind[q] = "start" /\ gen[q] # 0 /\ sock[q] # "none"
                         /\ pc[q] = "connecting" <=> sock[q] = "opening"
                         /\ pc[q] = "refused" => sock[q] = "down")'
      BY DEF SocketPlaces
    <2>1. CASE q = r
      BY <1>1, <1>2, <1>4, <2>1 DEF Opening
    <2>2. CASE q # r /\ q = socket
      BY <1>1, <1>2, <1>4, <2>2 DEF Inv, SocketPlaces, Owning, Opening
    <2>3. CASE q # r /\ q # socket
      BY <1>1, <1>2, <1>4, <2>3 DEF Inv, SocketPlaces, Opening
    <2> QED  BY <2>1, <2>2, <2>3
  <1>8. Owning' /\ NoOrphanSocket'
    <2>1. NoOrphanSocket'
      BY <1>1 DEF Inv, NoOrphanSocket
    <2>2. \A q \in Requests : gen'[q] = activeGen' => q = r
      BY <1>1, <1>4
    <2> QED  BY <1>1, <1>3, <1>4, <2>1, <2>2 DEF Owning
  <1>9. Admissible'
    BY <1>1, <1>3 DEF Admissible
  <1>10. \A q \in Requests : Gone(q) => Gone(q)'
    <2> SUFFICES ASSUME NEW q \in Requests, Gone(q) PROVE Gone(q)'
      OBVIOUS
    <2>1. q # r
      BY <1>3 DEF Gone
    <2> QED  BY <1>1, <1>4, <2>1 DEF Gone
  <1>11. LateOnes'
    <2>1. \A q \in Requests : late[q] # None /\ kind[q] \in Sends \cup Reads => Gone(late[q])'
      <3> SUFFICES ASSUME NEW q \in Requests, late[q] # None, kind[q] \in Sends \cup Reads
                   PROVE  Gone(late[q])'
        OBVIOUS
      <3>1. Gone(late[q]) /\ late[q] \in Requests
        BY DEF Inv, LateOnes, TypeOK
      <3> QED  BY <1>1, <1>10, <3>1 DEF Gone
    <2> QED  BY <1>1, <2>1 DEF Inv, LateOnes
  <1> QED  BY <1>5, <1>6, <1>7, <1>8, <1>9, <1>11 DEF Inv

\* A start that is current still owns the gateway, and its socket is there or gone.
LEMMA CurrentOwns ==
  ASSUME Inv, NEW r \in Requests, gen[r] # 0, gen[r] = activeGen, kind[r] = "start"
  PROVE  owner = r /\ status.session = r /\ authorization = "room" /\ socket \in {None, r}
  BY DEF Inv, Owning, TypeOK, Numbering

\* A start whose connect is under way goes on, on the same socket object.
LEMMA StartKeeps ==
  ASSUME Inv, TypeOK', NEW r \in Requests, NEW place \in Opening \cup {"done"},
         pc[r] \in Opening, pc' = [pc EXCEPT ![r] = place],
         sock'[r] # "none", place = "connecting" <=> sock'[r] = "opening",
         place = "refused" => sock'[r] = "down",
         \A q \in Requests \ {r} : sock'[q] = sock[q],
         socket' \in {socket, None} \/ (socket' = r /\ gen[r] = activeGen),
         sock'[r] = "down" \/ socket' = r, socket' # socket => socket \in {None, r},
         status'.session = status.session \/ (gen[r] = activeGen /\ status'.session = r),
         UNCHANGED <<kind, seq, gen, via, outcome, shown, late, nextSeq, authSeq, activeGen, owner,
                     ackCallbacks, authorization, log>>
  PROVE  Inv'
  <1>1. pc'[r] = place /\ \A q \in Requests \ {r} : pc'[q] = pc[q]
    BY DEF Inv, TypeOK, Procs
  <1>2. kind[r] = "start" /\ gen[r] # 0 /\ sock[r] # "none"
    BY DEF Inv, SocketPlaces
  <1>3. via[r] = None /\ r \notin ackCallbacks /\ outcome[r] # "connected"
    BY <1>2 DEF Inv, Requested, Sends, Opening
  <1>4. gen[r] = activeGen => status.session = r /\ owner = r
    BY <1>2, CurrentOwns
  <1>5. Requested'
    <2> SUFFICES ASSUME NEW q \in Requests
                 PROVE  (/\ pc[q] = "idle" => gen[q] = 0 /\ via[q] = None /\ shown[q] = {} /\ late[q] = None /\ sock[q] = "none"
                         /\ gen[q] # 0 => kind[q] \in {"start", "stop"}
                         /\ kind[q] = "start" /\ pc[q] \in StorageWaits => gen[q] = 0 /\ sock[q] = "none"
                         /\ via[q] # None => kind[q] \in Sends
                         /\ pc[q] \in {"payload", "awaitAck", "acked", "ackFailed"} \/ q \in ackCallbacks => via[q] # None
                         /\ outcome[q] = "connected" => pc[q] = "done")'
      BY DEF Requested
    <2>1. CASE q = r
      BY <1>1, <1>2, <1>3, <2>1 DEF StorageWaits, Opening
    <2>2. CASE q # r
      BY <1>1, <2>2 DEF Inv, Requested
    <2> QED  BY <2>1, <2>2
  <1>6. Numbering'
    BY DEF Inv, Numbering
  <1>7. SocketPlaces'
    BY <1>1, <1>2 DEF Inv, SocketPlaces, Opening
  <1>8. Owning'
    <2>1. \A q \in Requests : kind[q] = "start" /\ gen[q] # 0 /\ gen[q] = activeGen =>
            owner = q /\ status'.session = q /\ authorization = "room"
      BY <1>2, <1>4 DEF Inv, Owning, Numbering
    <2>2. socket' # None => sock'[socket'] # "none" /\ gen[socket'] # 0 /\ gen[socket'] = activeGen
      BY <1>2 DEF Inv, Owning, TypeOK
    <2>3. owner # None => sock'[owner] # "none"
      BY DEF Inv, Owning, TypeOK
    <2> QED  BY <2>1, <2>2, <2>3 DEF Owning
  <1>9. NoOrphanSocket'
    BY <1>2 DEF Inv, NoOrphanSocket
  <1>10. Admissible'
    BY <1>1 DEF Inv, Admissible, Admitted, StorageWaits, Opening
  <1>11. \A q \in Requests : Gone(q) => Gone(q)'
    <2> SUFFICES ASSUME NEW q \in Requests, Gone(q) PROVE Gone(q)'
      OBVIOUS
    <2>1. CASE q = r
      BY <1>1, <1>2, <2>1 DEF Gone, Inv, Numbering, TypeOK, Opening
    <2>2. CASE q # r
      BY <1>1, <2>2 DEF Gone, Inv, TypeOK
    <2> QED  BY <2>1, <2>2
  <1>12. LateOnes'
    <2>1. \A q \in Requests : late[q] # None /\ kind[q] \in Sends \cup Reads => Gone(late[q])'
      <3> SUFFICES ASSUME NEW q \in Requests, late[q] # None, kind[q] \in Sends \cup Reads
                   PROVE  Gone(late[q])'
        OBVIOUS
      <3>1. Gone(late[q]) /\ late[q] \in Requests
        BY DEF Inv, LateOnes, TypeOK
      <3> QED  BY <1>11, <3>1 DEF Gone
    <2> QED  BY <2>1 DEF Inv, LateOnes
  <1> QED  BY <1>5, <1>6, <1>7, <1>8, <1>9, <1>10, <1>12 DEF Inv

LEMMA StartStepKeeps ==
  ASSUME Inv, TypeOK', NEW r \in Requests,
         \/ StartConnected(r) \/ StartOvertaken(r) \/ StartNextServer(r) \/ StartFailed(r) \/ Opens(r)
  PROVE  Inv'
  <1> USE DEF sequenceVars, leaseVars
  <1>0. /\ sock \in [Requests -> {"none", "opening", "up", "down"}] /\ socket \in Requests \cup {None}
        /\ status \in [phase : Phases, session : Requests \cup {None}] /\ pc \in [Procs -> Places]
    BY DEF Inv, TypeOK
  <1>1. CASE StartConnected(r)
    <2>1. /\ pc[r] = "connected" /\ r = socket /\ gen[r] = activeGen /\ pc' = [pc EXCEPT ![r] = "done"]
          /\ status'.session = r
          /\ UNCHANGED <<kind, seq, gen, via, outcome, shown, late, nextSeq, authSeq, activeGen, owner,
                         socket, sock, ackCallbacks, authorization, log>>
      BY <1>1 DEF StartConnected, IsCurrent, socketVars
    <2>2. sock[r] # "none" /\ sock[r] # "opening"
      BY <2>1 DEF Inv, SocketPlaces, Opening
    <2> QED  BY <2>1, <2>2, StartKeeps DEF Opening
  <1>2. CASE StartOvertaken(r)
    <2>1. /\ pc[r] = "connected" /\ ~IsCurrent(r, gen[r]) /\ pc' = [pc EXCEPT ![r] = "done"]
          /\ sock' = [sock EXCEPT ![r] = "down"]
          /\ UNCHANGED <<kind, seq, gen, via, outcome, shown, late, nextSeq, authSeq, activeGen, owner,
                         socket, ackCallbacks, authorization, status, log>>
      BY <1>2 DEF StartOvertaken
    <2>2. sock'[r] = "down" /\ \A q \in Requests \ {r} : sock'[q] = sock[q]
      BY <1>0, <2>1
    <2> QED  BY <2>1, <2>2, StartKeeps DEF Opening
  <1>3. CASE StartNextServer(r)
    <2>1. /\ Rejected(r) /\ gen[r] = activeGen /\ pc' = [pc EXCEPT ![r] = "connecting"]
          /\ sock' = [sock EXCEPT ![r] = "opening"] /\ socket' = r
          /\ UNCHANGED <<kind, seq, gen, via, outcome, shown, late, nextSeq, authSeq, activeGen, owner,
                         ackCallbacks, authorization, status, log>>
      BY <1>3 DEF StartNextServer, Yields
    <2>2. sock'[r] = "opening" /\ \A q \in Requests \ {r} : sock'[q] = sock[q]
      BY <1>0, <2>1
    <2>3. pc[r] \in Opening
      BY <2>1 DEF Rejected, Opening
    <2>4. socket \in {None, r}
      BY <2>1, <2>3, CurrentOwns DEF Inv, SocketPlaces
    <2> QED  BY <2>1, <2>2, <2>3, <2>4, StartKeeps DEF Opening
  <1>4. CASE StartFailed(r)
    <2>1. /\ Rejected(r) /\ pc' = [pc EXCEPT ![r] = "done"]
          /\ socket' = IF socket = r THEN None ELSE socket
          /\ status' = IF gen[r] # activeGen THEN status ELSE [phase |-> "error", session |-> r]
          /\ UNCHANGED <<kind, seq, gen, via, outcome, shown, late, nextSeq, authSeq, activeGen, owner,
                         sock, ackCallbacks, authorization, log>>
      BY <1>4 DEF StartFailed, Yields
    <2>2. pc[r] \in Opening /\ sock[r] = "down"
      BY <2>1 DEF Rejected, Opening, Inv, SocketPlaces
    <2>3. status'.session = status.session \/ (gen[r] = activeGen /\ status'.session = r)
      BY <2>1
    <2> QED  BY <2>1, <2>2, <2>3, StartKeeps DEF Opening
  <1>5. CASE SocketConnects(r)
    <2>1. /\ pc[r] = "connecting" /\ pc' = [pc EXCEPT ![r] = "connected"]
          /\ sock' = [sock EXCEPT ![r] = "up"]
          /\ UNCHANGED <<kind, seq, gen, via, outcome, shown, late, nextSeq, authSeq, activeGen, owner,
                         socket, ackCallbacks, authorization, status, log>>
      BY <1>5 DEF SocketConnects
    <2>2. sock'[r] = "up" /\ \A q \in Requests \ {r} : sock'[q] = sock[q]
      BY <1>0, <2>1
    <2>3. socket = r
      BY <2>1 DEF Inv, SocketPlaces, NoOrphanSocket
    <2> QED  BY <2>1, <2>2, <2>3, StartKeeps DEF Opening
  <1>6. CASE SocketRefused(r)
    <2>1. /\ pc[r] = "connecting" /\ pc' = [pc EXCEPT ![r] = "refused"]
          /\ sock' = [sock EXCEPT ![r] = "down"]
          /\ UNCHANGED <<kind, seq, gen, via, outcome, shown, late, nextSeq, authSeq, activeGen, owner,
                         socket, ackCallbacks, authorization, status, log>>
      BY <1>6 DEF SocketRefused
    <2>2. sock'[r] = "down" /\ \A q \in Requests \ {r} : sock'[q] = sock[q]
      BY <1>0, <2>1
    <2> QED  BY <2>1, <2>2, StartKeeps DEF Opening
  <1> QED  BY <1>1, <1>2, <1>3, <1>4, <1>5, <1>6 DEF Opens
\* An established socket is always the gateway's own, so its end empties the gateway.
LEMMA EndsEffect ==
  ASSUME Inv, NEW s \in Requests, SocketEnds(s)
  PROVE  /\ sock[s] = "up" /\ socket = s /\ socket' = None /\ gen[s] # 0 /\ gen[s] = activeGen
         /\ kind[s] = "start" /\ owner = s
         /\ sock' = [q \in Requests |-> IF q = s THEN "down" ELSE sock[q]]
         /\ ackCallbacks' \subseteq ackCallbacks
         /\ \A q \in Requests : pc'[q] = pc[q] \/ (pc[q] = "awaitAck" /\ pc'[q] = "ackFailed")
         /\ \/ status' = status
            \/ \E phase \in {"closed", "error"} : status' = [status EXCEPT !.phase = phase]
         /\ status'.session = status.session
         /\ UNCHANGED <<kind, seq, gen, via, outcome, shown, late, nextSeq, authSeq, activeGen, owner,
                        authorization, log>>
  <1>1. sock[s] = "up" /\ socket = s
    BY DEF SocketEnds, Inv, NoOrphanSocket
  <1>2. gen[s] # 0 /\ gen[s] = activeGen /\ kind[s] = "start" /\ pc[s] # "connecting" /\ None \notin Requests
    BY <1>1 DEF Inv, Owning, SocketPlaces
  <1>3. IsCurrent(s, gen[s])
    BY <1>1, <1>2 DEF IsCurrent
  <1>4. \A q \in Requests : pc'[q] = pc[q] \/ (pc[q] = "awaitAck" /\ pc'[q] = "ackFailed")
    <2>1. pc \in [Procs -> Places] /\ pc' = Released(pc, s)
      BY DEF SocketEnds, Inv, TypeOK
    <2>2. pc[s] # "connecting" /\ Requests \subseteq Procs
      BY <1>2 DEF Procs
    <2>3. SUFFICES ASSUME NEW q \in Requests
                   PROVE  pc'[q] = pc[q] \/ (pc[q] = "awaitAck" /\ pc'[q] = "ackFailed")
      OBVIOUS
    <2>4. Released(pc, s)[q] = CASE q = s /\ pc[q] = "connecting" -> "refused"
                                 [] q \in Requests /\ pc[q] = "awaitAck" /\ via[q] = s -> "ackFailed"
                                 [] OTHER -> pc[q]
      BY <2>2 DEF Released
    <2> QED  BY <2>1, <2>2, <2>4
  <1>5. /\ \/ status' = status
           \/ \E phase \in {"closed", "error"} : status' = [status EXCEPT !.phase = phase]
        /\ status'.session = status.session
    BY <1>3 DEF SocketEnds, Inv, TypeOK
  <1> QED  BY <1>1, <1>2, <1>3, <1>4, <1>5, CurrentOwns DEF SocketEnds, SettleSocket, sequenceVars, leaseVars

LEMMA EndsKeeps == ASSUME Inv, TypeOK', NEW s \in Requests, SocketEnds(s) PROVE Inv'
  <1>1. /\ sock[s] = "up" /\ socket = s /\ socket' = None
        /\ sock' = [q \in Requests |-> IF q = s THEN "down" ELSE sock[q]]
        /\ ackCallbacks' \subseteq ackCallbacks
        /\ \A q \in Requests : pc'[q] = pc[q] \/ (pc[q] = "awaitAck" /\ pc'[q] = "ackFailed")
        /\ status'.session = status.session
        /\ UNCHANGED <<kind, seq, gen, via, outcome, shown, late, nextSeq, authSeq, activeGen, owner,
                       authorization, log>>
    BY EndsEffect
  <1>2. Requested'
    <2> SUFFICES ASSUME NEW q \in Requests
                 PROVE  (/\ pc[q] = "idle" => gen[q] = 0 /\ via[q] = None /\ shown[q] = {} /\ late[q] = None /\ sock[q] = "none"
                         /\ gen[q] # 0 => kind[q] \in {"start", "stop"}
                         /\ kind[q] = "start" /\ pc[q] \in StorageWaits => gen[q] = 0 /\ sock[q] = "none"
                         /\ via[q] # None => kind[q] \in Sends
                         /\ pc[q] \in {"payload", "awaitAck", "acked", "ackFailed"} \/ q \in ackCallbacks => via[q] # None
                         /\ outcome[q] = "connected" => pc[q] = "done")'
      BY DEF Requested
    <2>1. sock[q] = "none" => sock'[q] = "none"
      BY <1>1
    <2>2. CASE pc'[q] = pc[q]
      BY <1>1, <2>1, <2>2 DEF Inv, Requested
    <2>3. CASE pc[q] = "awaitAck" /\ pc'[q] = "ackFailed"
      BY <1>1, <2>1, <2>3 DEF Inv, Requested, StorageWaits
    <2> QED  BY <1>1, <2>2, <2>3
  <1>3. Numbering'
    BY <1>1 DEF Inv, Numbering
  <1>4. SocketPlaces' /\ NoOrphanSocket'
    BY <1>1 DEF Inv, SocketPlaces, NoOrphanSocket, Opening
  <1>5. Owning'
    BY <1>1 DEF Inv, Owning, TypeOK
  <1>6. Admissible'
    BY <1>1 DEF Inv, Admissible, Admitted, StorageWaits
  <1>7. \A q \in Requests : Gone(q) => Gone(q)'
    BY <1>1 DEF Gone
  <1>8. LateOnes'
    <2>1. \A q \in Requests : late[q] # None /\ kind[q] \in Sends \cup Reads => Gone(late[q])'
      <3> SUFFICES ASSUME NEW q \in Requests, late[q] # None, kind[q] \in Sends \cup Reads
                   PROVE  Gone(late[q])'
        OBVIOUS
      <3>1. Gone(late[q]) /\ late[q] \in Requests
        BY DEF Inv, LateOnes, TypeOK
      <3> QED  BY <1>1, <1>7, <3>1 DEF Gone
    <2> QED  BY <1>1, <2>1 DEF Inv, LateOnes
  <1> QED  BY <1>2, <1>3, <1>4, <1>5, <1>6, <1>8 DEF Inv

-----------------------------------------------------------------------------
(* The alarm, and the loss of the instance.                                  *)

LEMMA AlarmKeeps == ASSUME Inv, TypeOK', AlarmFires PROVE Inv'
  <1>1. CASE lease # None /\ lease > 0
    <2>1. /\ \A q \in Requests : pc'[q] = pc[q]
          /\ UNCHANGED <<kind, seq, gen, via, outcome, shown, late, nextSeq, authSeq, activeGen, owner,
                         socket, sock, ackCallbacks, authorization, status, log>>
      BY <1>1 DEF AlarmFires, sequenceVars, socketVars, Inv, TypeOK, Procs
    <2>2. Quiet
      BY <2>1 DEF Quiet, Moves, Inv, Requested
    <2> QED  BY <2>2, QuietKeeps
  <1>2. CASE ~(lease # None /\ lease > 0)
    <2>1. StopNow(Alarm) /\ pc[Alarm] = "idle" /\ CallerOf(Alarm)
      BY <1>2 DEF AlarmFires, CallerOf
    <2> QED  BY <2>1, StopKeeps DEF Procs
  <1> QED  BY <1>1, <1>2

\* An eviction leaves no request under way and no number in use.
LEMMA EvictKeeps == ASSUME Inv, TypeOK', Evict PROVE Inv'
  <1>1. /\ \A q \in Requests : /\ pc'[q] = IF pc[q] = "idle" THEN "idle" ELSE "done"
                               /\ seq'[q] = 0 /\ gen'[q] = 0
                               /\ sock'[q] = IF sock[q] = "none" THEN "none" ELSE "down"
        /\ nextSeq' = 0 /\ authSeq' = 0 /\ activeGen' = 0 /\ socket' = None /\ ackCallbacks' = {}
        /\ UNCHANGED <<kind, via, outcome, shown, late, owner, authorization, status, log>>
    BY DEF Evict, Procs
  <1>2. Requested'
    BY <1>1 DEF Inv, Requested, StorageWaits
  <1>3. Numbering'
    BY <1>1 DEF Numbering
  <1>4. SocketPlaces' /\ NoOrphanSocket'
    BY <1>1 DEF Inv, Requested, SocketPlaces, NoOrphanSocket, Opening
  <1>5. Owning'
    BY <1>1 DEF Inv, Owning, TypeOK
  <1>6. Admissible'
    BY <1>1 DEF Admissible, StorageWaits
  <1>7. \A q \in Requests : Gone(q) => Gone(q)'
    BY <1>1 DEF Gone, Inv, Requested
  <1>8. LateOnes'
    <2>1. \A q \in Requests : late[q] # None /\ kind[q] \in Sends \cup Reads => Gone(late[q])'
      <3> SUFFICES ASSUME NEW q \in Requests, late[q] # None, kind[q] \in Sends \cup Reads
                   PROVE  Gone(late[q])'
        OBVIOUS
      <3>1. Gone(late[q]) /\ late[q] \in Requests
        BY DEF Inv, LateOnes, TypeOK
      <3> QED  BY <1>1, <1>7, <3>1 DEF Gone
    <2> QED  BY <1>1, <2>1 DEF Inv, LateOnes
  <1> QED  BY <1>2, <1>3, <1>4, <1>5, <1>6, <1>8 DEF Inv

-----------------------------------------------------------------------------

LEMMA InitInv == Init => Inv
  BY DEF Init, Inv, TypeOK, Requested, Numbering, SocketPlaces, Owning, Admissible, LateOnes, NoOrphanSocket,
         Procs, Places, Kinds, Outcomes, Deadlines, Phases, StorageWaits, Opening

\* Inv holds of the object in every reachable state, for every set of requests, every number
\* of servers and evictions, and with or without the runtime's input gate.
THEOREM InvInductive == Spec => []Inv
  <1>1. Inv /\ [Next]_vars => Inv'
    <2> SUFFICES ASSUME Inv, [Next]_vars PROVE Inv'
      OBVIOUS
    <2>0. TypeOK'
      BY TypeStep DEF Inv
    <2>1. ASSUME NEW r \in Requests, Call(r) PROVE Inv'
      BY <2>0, <2>1, CallKeeps
    <2>2. ASSUME NEW r \in Requests, Handler(r) PROVE Inv'
      <3>1. CASE StartRenews(r)
        BY <2>0, <3>1, StartRenewsKeeps
      <3>2. CASE StartClaim(r)
        BY <2>0, <3>2, ClaimKeeps
      <3>3. CASE StartConnected(r) \/ StartOvertaken(r) \/ StartNextServer(r) \/ StartFailed(r)
        BY <2>0, <3>3, StartStepKeeps
      <3>4. CASE \/ Authorized(r) \/ StartRefused(r) \/ SendRefused(r) \/ SendCaptures(r)
                 \/ ControlAnswered(r) \/ SoacBuilt(r) \/ ReadAnswered(r)
        <4>1. Quiet
          BY <3>4, QuietSteps
        <4> QED  BY <2>0, <4>1, QuietKeeps
      <3> QED  BY <2>2, <3>1, <3>2, <3>3, <3>4 DEF Handler
    <2>3. ASSUME NEW r \in Requests, Opens(r) PROVE Inv'
      BY <2>0, <2>3, StartStepKeeps
    <2>4. ASSUME NEW r \in Requests, Environment(r) PROVE Inv'
      <3>1. CASE SocketEnds(r)
        BY <2>0, <3>1, EndsKeeps
      <3>2. CASE SocketEvent(r) \/ AckArrives(r) \/ AckTimesOut(r) \/ SoacAck(r)
        <4>1. Quiet
          BY <3>2, QuietSteps
        <4> QED  BY <2>0, <4>1, QuietKeeps
      <3> QED  BY <2>4, <3>1, <3>2 DEF Environment
    <2>5. CASE (\E p \in Procs : Lease(p)) \/ Tick
      <3>1. Quiet
        BY <2>5, QuietSteps
      <3> QED  BY <2>0, <3>1, QuietKeeps
    <2>6. CASE AlarmFires
      BY <2>0, <2>6, AlarmKeeps
    <2>7. CASE Evict
      BY <2>0, <2>7, EvictKeeps
    <2>8. CASE UNCHANGED vars
      <3>1. Quiet
        BY <2>8 DEF vars, handlerVars, sequenceVars, socketVars, leaseVars, Quiet, Moves, Inv, Requested
      <3> QED  BY <2>0, <3>1, QuietKeeps
    <2> QED  BY <2>1, <2>2, <2>3, <2>4, <2>5, <2>6, <2>7, <2>8 DEF Next
  <1> QED  BY InitInv, <1>1, PTL DEF Spec

\* What is open upstream is the gateway's current socket, and its room is authorized, whatever
\* starts, stops, timers and evictions overlap.
THEOREM UpstreamStaysOwned == Spec => []UpstreamIsOwned
  <1>1. Inv => UpstreamIsOwned
    <2> SUFFICES ASSUME Inv PROVE UpstreamIsOwned
      OBVIOUS
    <2>1. socket # None => authorization = "room"
      BY DEF Inv, TypeOK, Owning, SocketPlaces
    <2> QED  BY <2>1 DEF Inv, UpstreamIsOwned, ConnectedRoomIsAuthorized
  <1> QED  BY <1>1, InvInductive, PTL

\* A request that arrives after the deadline is never served the session that ran out, however
\* long the alarm is overdue.
THEOREM ExpiredStaysUnserved == Spec => []ExpiredSessionNotServed
  <1>1. Inv => ExpiredSessionNotServed
    BY DEF Inv, LateOnes, ExpiredSessionNotServed
  <1> QED  BY <1>1, InvInductive, PTL

\* A status answers "connected" only while an upstream socket is up.
THEOREM ConnectedStaysTrue == Spec => ConnectedIsTrue
  <1>1. Inv /\ [Next]_vars =>
          [\A r \in Requests : pc[r] # "done" /\ pc'[r] = "done" /\ outcome'[r] = "connected" =>
             socket # None /\ sock[socket] = "up"]_vars
    <2> SUFFICES ASSUME Inv, Next, NEW r \in Requests, pc[r] # "done", outcome'[r] = "connected"
                 PROVE  socket # None /\ sock[socket] = "up"
      OBVIOUS
    <2>0. outcome[r] # "connected" /\ TypeOK
      BY DEF Inv, Requested
    <2>1. outcome'[r] # outcome[r]
      BY <2>0
    <2>2. PICK q \in Requests : SendRefused(q) \/ ControlAnswered(q) \/ SoacBuilt(q) \/ ReadAnswered(q)
      <3>1. ASSUME NEW q \in Requests, Call(q) PROVE outcome' = outcome
        BY <3>1 DEF Call, StartCall, StopCall, AuthorizeCall, RenewingCall
      <3>2. ASSUME NEW q \in Requests,
                   \/ Authorized(q) \/ StartRefused(q) \/ StartRenews(q) \/ StartClaim(q)
                   \/ StartConnected(q) \/ StartOvertaken(q) \/ StartNextServer(q) \/ StartFailed(q)
                   \/ SendCaptures(q)
            PROVE  outcome' = outcome
        BY <3>2 DEF Authorized, StartRefused, StartRenews, StartClaim, StartConnected, StartOvertaken,
                    StartNextServer, StartFailed, SendCaptures
      <3>3. ASSUME NEW q \in Requests, Opens(q) \/ Environment(q) PROVE outcome' = outcome
        BY <3>3 DEF Opens, SocketConnects, SocketRefused, Environment, SocketEnds, SocketEvent, AckArrives,
                    AckTimesOut, SoacAck, handlerVars
      <3>4. CASE (\E p \in Procs : Lease(p)) \/ AlarmFires \/ Tick \/ Evict
        BY <2>1, <3>4 DEF Lease, LeasePut, StopDeleted, LeaseDone, AlarmFires, Tick, Evict, handlerVars
      <3> QED  BY <2>1, <3>1, <3>2, <3>3, <3>4 DEF Next, Handler
    <2>3. ReadAnswered(q) /\ q = r
      BY <2>0, <2>1, <2>2 DEF TypeOK, SendRefused, ControlAnswered, SoacBuilt, ReadAnswered
    <2>4. status'.phase = "connected" /\ status' = IF Stale THEN [status EXCEPT !.phase = "closed"] ELSE status
      BY <2>0, <2>1, <2>3 DEF ReadAnswered, TypeOK
    <2>5. ~Stale /\ status.phase = "connected"
      BY <2>0, <2>4 DEF TypeOK
    <2> QED  BY <2>5 DEF Stale, Alive
  <1> QED  BY <1>1, InvInductive, PTL DEF Spec, ConnectedIsTrue
-----------------------------------------------------------------------------
(* The object implements what a gateway promises (SignalGateway).            *)

Started == {r \in Requests : sock[r] # "none"}
GatewayStep == Gateway!Next \/ UNCHANGED <<Owner, Started, status, log>>

LEMMA SocketOwns == ASSUME Inv, socket # None PROVE Owner = socket /\ Owner # None
  BY DEF Inv, TypeOK, Owning, SocketPlaces, Owner

LEMMA OwnerStatus == ASSUME Inv, Owner # None PROVE Owner \in Requests /\ status.session = Owner
  BY DEF Inv, TypeOK, Owning, SocketPlaces, Owner

\* The owner changes its mind about the status.
LEMMA ProgressMaps ==
  ASSUME Owner # None, Owner' = Owner, Started' = Started, log' = log,
         NEW phase \in Phases \ {"idle"}, status' = [phase |-> phase, session |-> Owner]
  PROVE  GatewayStep
  BY DEF GatewayStep, Gateway!Next, Gateway!Progress, Gateway!Phases, Phases, Started

\* Events come from the owner, or fall out of the log.
LEMMA LogMaps ==
  ASSUME Inv, TypeOK', Owner' = Owner, Started' = Started, status' = status, log' \subseteq log \cup {socket}
  PROVE  GatewayStep
  <1>1. CASE socket = None
    <2>1. log' \subseteq log
      BY <1>1 DEF TypeOK
    <2>2. Gateway!Forget
      BY <2>1 DEF Gateway!Forget, Started
    <2> QED  BY <2>2 DEF GatewayStep, Gateway!Next
  <1>2. CASE socket # None
    <2>1. Owner # None /\ log' \subseteq log \cup {Owner}
      BY <1>2, SocketOwns
    <2>2. Gateway!Observe
      BY <2>1 DEF Gateway!Observe, Started
    <2> QED  BY <2>2 DEF GatewayStep, Gateway!Next
  <1> QED  BY <1>1, <1>2

LEMMA SameOwner ==
  ASSUME UNCHANGED <<owner, gen, activeGen>> PROVE Owner' = Owner
  BY DEF Owner

\* A read that puts a status right is the owner's progress, or a correction when nobody owns it.
LEMMA StaleMaps ==
  ASSUME Inv, Owner' = Owner, Started' = Started, log' = log, Stale,
         status' = [status EXCEPT !.phase = "closed"]
  PROVE  GatewayStep
  <1>1. CASE Owner = None
    <2>1. Gateway!Correct
      BY <1>1 DEF Gateway!Correct, Started, Stale
    <2> QED  BY <2>1 DEF GatewayStep, Gateway!Next
  <1>2. CASE Owner # None
    <2>1. status' = [phase |-> "closed", session |-> Owner]
      BY <1>2, OwnerStatus DEF Inv, TypeOK
    <2> QED  BY <1>2, <2>1, ProgressMaps DEF Phases
  <1> QED  BY <1>1, <1>2

LEMMA QuietMaps ==
  ASSUME Inv, TypeOK',
         \/ \E r \in Requests : \/ Authorized(r) \/ StartRefused(r) \/ SendRefused(r) \/ SendCaptures(r)
                                \/ ControlAnswered(r) \/ SoacBuilt(r) \/ ReadAnswered(r)
                                \/ SocketEvent(r) \/ AckArrives(r) \/ AckTimesOut(r) \/ SoacAck(r)
         \/ \E p \in Procs : Lease(p)
         \/ Tick
  PROVE  GatewayStep
  <1>1. Quiet
    BY QuietSteps
  <1>2. Owner' = Owner /\ Started' = Started /\ log' \subseteq log \cup {socket}
    BY <1>1, SameOwner DEF Quiet, Started
  <1>3. CASE status' = status
    BY <1>2, <1>3, LogMaps
  <1>4. CASE status' # status
    <2>1. PICK r \in Requests : ReadAnswered(r)
      <3>1. ASSUME NEW r \in Requests,
                   \/ Authorized(r) \/ StartRefused(r) \/ SendRefused(r) \/ SendCaptures(r)
                   \/ ControlAnswered(r) \/ SoacBuilt(r)
                   \/ SocketEvent(r) \/ AckArrives(r) \/ AckTimesOut(r) \/ SoacAck(r)
            PROVE  status' = status
        BY <3>1 DEF Authorized, StartRefused, SendRefused, SendCaptures, ControlAnswered, SoacBuilt,
                    SocketEvent, AckArrives, AckTimesOut, SoacAck
      <3>2. CASE (\E p \in Procs : Lease(p)) \/ Tick
        BY <1>4, <3>2 DEF Lease, LeasePut, StopDeleted, LeaseDone, Tick
      <3> QED  BY <1>4, <3>1, <3>2
    <2>2. Stale /\ status' = [status EXCEPT !.phase = "closed"] /\ log' = log
      BY <1>4, <2>1 DEF ReadAnswered
    <2> QED  BY <1>2, <2>2, StaleMaps
  <1> QED  BY <1>3, <1>4

\* A stop gives the gateway up, and its socket stays one that was begun.
LEMMA StopMaps == ASSUME Inv, NEW p \in Procs, pc[p] \in {"idle", "auth"}, StopNow(p) PROVE GatewayStep
  <1>1. /\ owner' = None /\ log' = {} /\ status' = [phase |-> "closed", session |-> None]
        /\ sock' = [q \in Requests |-> IF q = socket THEN "down" ELSE sock[q]]
    BY StopEffect DEF Inv
  <1>2. Owner' = None
    BY <1>1 DEF Owner
  <1>3. Started' = Started
    BY <1>1 DEF Started, Inv, Owning
  <1>4. Gateway!End
    BY <1>1, <1>2, <1>3 DEF Gateway!End, Started
  <1> QED  BY <1>4 DEF GatewayStep, Gateway!Next

LEMMA CallMaps == ASSUME Inv, TypeOK', NEW r \in Requests, Call(r) PROVE GatewayStep
  <1>0. TypeOK
    BY DEF Inv
  <1>1. CASE StartCall(r) \/ AuthorizeCall(r)
    <2>1. UNCHANGED <<owner, gen, activeGen, sock, status, log>>
      BY <1>1 DEF StartCall, AuthorizeCall, socketVars, sequenceVars
    <2>2. Owner' = Owner /\ Started' = Started
      BY <2>1, SameOwner DEF Started
    <2> QED  BY <2>1, <2>2 DEF GatewayStep
  <1>2. CASE StopCall(r)
    BY <1>2, StopMaps DEF StopCall, Arrive, Procs
  <1>3. CASE RenewingCall(r)
    <2>1. Renew(r) /\ pc[r] = "idle" /\ gen' = gen
      BY <1>3 DEF RenewingCall, Arrive
    <2>2. CASE Expired
      BY <2>1, <2>2, StopMaps DEF Renew, Procs
    <2>3. CASE ~Expired
      <3>1. log' \subseteq log /\ UNCHANGED <<activeGen, owner, sock, status>>
        BY <1>0, <2>1, <2>3, RenewEffect DEF Procs
      <3>2. Owner' = Owner /\ Started' = Started
        BY <2>1, <3>1, SameOwner DEF Started
      <3> QED  BY <3>1, <3>2, LogMaps
    <2> QED  BY <2>2, <2>3
  <1> QED  BY <1>1, <1>2, <1>3 DEF Call

LEMMA RenewMaps == ASSUME Inv, TypeOK', NEW r \in Requests, StartRenews(r) PROVE GatewayStep
  <1>1. Renew(r) /\ pc[r] = "auth" /\ gen' = gen /\ TypeOK
    BY DEF StartRenews, Inv
  <1>2. CASE Expired
    BY <1>1, <1>2, StopMaps DEF Renew, Procs
  <1>3. CASE ~Expired
    <2>1. log' \subseteq log /\ UNCHANGED <<activeGen, owner, sock, status>>
      BY <1>1, <1>3, RenewEffect DEF Procs
    <2>2. Owner' = Owner /\ Started' = Started
      BY <1>1, <2>1, SameOwner DEF Started
    <2> QED  BY <2>1, <2>2, LogMaps
  <1> QED  BY <1>2, <1>3

LEMMA ClaimMaps == ASSUME Inv, NEW r \in Requests, StartClaim(r) PROVE GatewayStep
  <1>1. /\ activeGen' = activeGen + 1 /\ gen' = [gen EXCEPT ![r] = activeGen + 1]
        /\ owner' = r /\ log' = {} /\ status' = [phase |-> "connecting", session |-> r]
        /\ sock' = [q \in Requests |-> IF q = r THEN "opening" ELSE IF q = socket THEN "down" ELSE sock[q]]
    BY DEF StartClaim
  <1>2. sock[r] = "none" /\ activeGen \in Nat /\ gen \in [Requests -> Nat] /\ (socket # None => sock[socket] # "none")
    BY DEF StartClaim, Inv, TypeOK, Requested, Owning, StorageWaits
  <1>3. Owner' = r
    BY <1>1, <1>2 DEF Owner
  <1>4. r \notin Started /\ Started' = Started \cup {r}
    BY <1>1, <1>2 DEF Started
  <1>5. Gateway!Begin(r)
    BY <1>1, <1>3, <1>4 DEF Gateway!Begin, Started
  <1> QED  BY <1>5 DEF GatewayStep, Gateway!Next

LEMMA StartStepMaps ==
  ASSUME Inv, NEW r \in Requests,
         \/ StartConnected(r) \/ StartOvertaken(r) \/ StartNextServer(r) \/ StartFailed(r) \/ Opens(r)
  PROVE  GatewayStep
  <1>1. pc[r] \in Opening /\ kind[r] = "start" /\ gen[r] # 0 /\ sock[r] # "none" /\ sock \in [Requests -> {"none", "opening", "up", "down"}]
    BY DEF StartConnected, StartOvertaken, StartNextServer, StartFailed, Opens, SocketConnects, SocketRefused,
           Rejected, Opening, Inv, SocketPlaces, TypeOK
  <1>2. log' = log /\ UNCHANGED <<owner, gen, activeGen>>
    BY DEF StartConnected, StartOvertaken, StartNextServer, StartFailed, Opens, SocketConnects, SocketRefused,
           sequenceVars
  <1>3. Owner' = Owner
    BY <1>2, SameOwner
  <1>4. Started' = Started
    BY <1>1 DEF StartConnected, StartOvertaken, StartNextServer, StartFailed, Opens, SocketConnects, SocketRefused,
                socketVars, Started
  <1>5. gen[r] = activeGen => Owner = r /\ Owner # None
    BY <1>1, CurrentOwns DEF Owner
  <1>6. CASE StartConnected(r)
    <2>1. gen[r] = activeGen /\ status' = [phase |-> "connected", session |-> r]
      BY <1>6 DEF StartConnected, IsCurrent
    <2> QED  BY <1>2, <1>3, <1>4, <1>5, <2>1, ProgressMaps DEF Phases
  <1>7. CASE StartFailed(r) /\ ~Yields(r)
    <2>1. gen[r] = activeGen /\ status' = [phase |-> "error", session |-> r]
      BY <1>7 DEF StartFailed, Yields
    <2> QED  BY <1>2, <1>3, <1>4, <1>5, <2>1, ProgressMaps DEF Phases
  <1>8. CASE StartOvertaken(r) \/ StartNextServer(r) \/ (StartFailed(r) /\ Yields(r)) \/ Opens(r)
    <2>1. status' = status
      BY <1>8 DEF StartOvertaken, StartNextServer, StartFailed, Opens, SocketConnects, SocketRefused
    <2> QED  BY <1>2, <1>3, <1>4, <2>1 DEF GatewayStep
  <1> QED  BY <1>6, <1>7, <1>8

LEMMA EndsMaps == ASSUME Inv, NEW s \in Requests, SocketEnds(s) PROVE GatewayStep
  <1>1. /\ socket = s /\ sock[s] = "up" /\ sock' = [q \in Requests |-> IF q = s THEN "down" ELSE sock[q]]
        /\ UNCHANGED <<owner, gen, activeGen, log>>
    BY EndsEffect
  <1>2. Owner' = Owner /\ Started' = Started
    BY <1>1, SameOwner DEF Started
  <1>3. CASE status' = status
    BY <1>1, <1>2, <1>3 DEF GatewayStep
  <1>4. ASSUME NEW phase \in {"closed", "error"}, status' = [status EXCEPT !.phase = phase] PROVE GatewayStep
    <2>1. Owner = s /\ Owner # None
      BY <1>1, SocketOwns
    <2>2. status' = [phase |-> phase, session |-> Owner]
      BY <1>4, <2>1, OwnerStatus DEF Inv, TypeOK
    <2> QED  BY <1>1, <1>2, <2>1, <2>2, ProgressMaps DEF Phases
  <1> QED  BY <1>3, <1>4, EndsEffect

\* The Durable Object implements the gateway both servers promise the page: a session begins
\* once, only its owner moves the status and adds events, an eviction loses it, and what lost
\* the gateway never comes back.
THEOREM ImplementsTheGateway == Spec => ImplementsGateway
  <1>1. Init => Gateway!Init
    BY DEF Init, Gateway!Init, Owner
  <1>2. Inv /\ [Next]_vars => GatewayStep
    <2> SUFFICES ASSUME Inv, [Next]_vars PROVE GatewayStep
      OBVIOUS
    <2>0. TypeOK'
      BY TypeStep DEF Inv
    <2>1. ASSUME NEW r \in Requests, Call(r) PROVE GatewayStep
      BY <2>0, <2>1, CallMaps
    <2>2. ASSUME NEW r \in Requests, Handler(r) PROVE GatewayStep
      BY <2>0, <2>2, QuietMaps, RenewMaps, ClaimMaps, StartStepMaps DEF Handler
    <2>3. ASSUME NEW r \in Requests, Opens(r) PROVE GatewayStep
      BY <2>3, StartStepMaps
    <2>4. ASSUME NEW r \in Requests, Environment(r) PROVE GatewayStep
      BY <2>0, <2>4, QuietMaps, EndsMaps DEF Environment
    <2>5. CASE (\E p \in Procs : Lease(p)) \/ Tick
      BY <2>0, <2>5, QuietMaps
    <2>6. CASE AlarmFires
      <3>1. CASE lease # None /\ lease > 0
        <4>1. UNCHANGED <<owner, gen, activeGen, sock, status, log>>
          BY <2>6, <3>1 DEF AlarmFires, sequenceVars, socketVars
        <4> QED  BY <4>1, SameOwner DEF GatewayStep, Started
      <3>2. CASE ~(lease # None /\ lease > 0)
        BY <2>6, <3>2, StopMaps DEF AlarmFires, Procs
      <3> QED  BY <3>1, <3>2
    <2>7. CASE Evict
      <3>1. /\ UNCHANGED <<owner, status, log>> /\ gen' = [r \in Requests |-> 0]
            /\ sock' = [r \in Requests |-> IF sock[r] = "none" THEN "none" ELSE "down"]
        BY <2>7 DEF Evict
      <3>2. Owner' = None
        BY <3>1 DEF Owner, Inv, TypeOK
      <3>3. Started' = Started
        BY <3>1 DEF Started
      <3>4. Gateway!Lose
        BY <3>1, <3>2, <3>3 DEF Gateway!Lose, Started
      <3> QED  BY <3>4 DEF GatewayStep, Gateway!Next
    <2>8. CASE UNCHANGED vars
      <3>1. UNCHANGED <<owner, gen, activeGen, sock, status, log>>
        BY <2>8 DEF vars, handlerVars, sequenceVars, socketVars
      <3> QED  BY <3>1, SameOwner DEF GatewayStep, Started
    <2> QED  BY <2>1, <2>2, <2>3, <2>4, <2>5, <2>6, <2>7, <2>8 DEF Next
  <1>3. GatewayStep => [Gateway!Next]_(Gateway!vars)
    BY DEF GatewayStep, Gateway!vars, Started
  <1> QED  BY <1>1, <1>2, <1>3, InvInductive, PTL DEF Spec, ImplementsGateway, Gateway!Spec
=============================================================================
