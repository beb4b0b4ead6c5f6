----------------------------- MODULE SignalSession -----------------------------
(***************************************************************************)
(* The Cloudflare signal gateway of one page session: the Durable Object   *)
(* RemoteSignalSession (cloudflare/src/signalSession.ts) with its storage  *)
(* (signal/signalSessionStore.ts) and the socket it drives                 *)
(* (signal/workerSignalSocket.ts, here only as the owner of callbacks).    *)
(*                                                                         *)
(* Every RPC is one element of Requests, the alarm handler is the process  *)
(* Alarm.  A handler runs without interruption up to an await; each await  *)
(* is a value of pc.  Times are kept as ticks left: a deadline of 0 has    *)
(* passed.  The instance may be evicted between any two steps: memory and  *)
(* sockets are lost, storage stays.                                        *)
(***************************************************************************)
EXTENDS Naturals, FiniteSets

CONSTANTS
  Requests,     \* the RPCs that reach the object
  Alarm,        \* the alarm handler
  None,         \* no socket, no session, no deadline
  MaxServers,   \* signal servers in a room config (isAuthorizedSignalRoom: at least one)
  Idle,         \* REMOTE_SESSION_IDLE_MS in ticks
  MaxCrashes,   \* bound on evictions
  InputGate     \* does the runtime hold other events back during storage awaits?

ASSUME RequestsAssumption == Alarm \notin Requests /\ None \notin Requests \cup {Alarm} \cup Nat
ASSUME BoundsAssumption   == MaxServers \in Nat \ {0} /\ Idle \in Nat \ {0} /\ MaxCrashes \in Nat
ASSUME GateAssumption     == InputGate \in BOOLEAN

VARIABLES
  (* the handlers *)
  pc, kind,     \* where a handler stands, and which RPC it serves
  seq, gen,     \* requestSequence and generation of a start or stop
  left,         \* signal servers a start has not tried yet
  via, since,   \* socket and generation a send captured
  outcome,      \* what a send or a status read returned
  shown,        \* the sessions whose events a read returned
  late,         \* the session whose lease had run out when the request arrived
  (* the memory of the instance *)
  nextSeq, authSeq, activeGen,
  socket,       \* signalSocket, named by the start that created it
  sock,         \* the WorkerSignalSocket of a start's current attempt
  ackCallbacks, \* SOAC requests whose optional ack is pending
  lease,        \* clientExpiresAt
  (* what storage holds *)
  status, log,  \* signal_state (its cached copy is always equal), signal_events
  authorization, savedLease, alarm,
  (* history *)
  owner,        \* the start that claimed the gateway last, None once it was stopped
  crashes

handlerVars == <<pc, kind, seq, gen, left, via, since, outcome, shown, late>>
sequenceVars == <<nextSeq, authSeq, activeGen, owner>>
socketVars == <<socket, sock, ackCallbacks>>
leaseVars == <<lease, authorization, savedLease, alarm>>
vars == <<handlerVars, sequenceVars, socketVars, leaseVars, status, log, crashes>>

Procs == Requests \cup {Alarm}
Sends == {"control", "soac"}
Reads == {"status", "events", "diagnostics"}
Kinds == Sends \cup Reads \cup {"none", "start", "stop", "authorize"}
Deadlines == 0..Idle \cup {None}
Phases == {"idle", "connecting", "connected", "closed", "error"}
Outcomes == {"none", "null", "ack", "error", "connected", "notConnected"}
StorageWaits == {"auth", "authorize", "put", "delete", "renewed"}
Places == StorageWaits \cup {"idle", "connecting", "connected", "refused", "payload",
                             "awaitAck", "acked", "ackFailed", "done"}

TypeOK ==
  /\ pc \in [Procs -> Places]
  /\ kind \in [Procs -> Kinds]
  /\ seq \in [Requests -> Nat] /\ gen \in [Requests -> Nat] /\ left \in [Requests -> Nat]
  /\ via \in [Requests -> Requests \cup {None}] /\ since \in [Requests -> Nat]
  /\ outcome \in [Requests -> Outcomes]
  /\ shown \in [Requests -> SUBSET Requests]
  /\ late \in [Requests -> Requests \cup {None}]
  /\ nextSeq \in Nat /\ authSeq \in Nat /\ activeGen \in Nat
  /\ socket \in Requests \cup {None}
  /\ sock \in [Requests -> {"none", "opening", "up", "down"}]
  /\ ackCallbacks \subseteq Requests
  /\ lease \in Deadlines /\ savedLease \in Deadlines /\ alarm \in Deadlines
  /\ authorization \in {"none", "room"}
  /\ status \in [phase : Phases, session : Requests \cup {None}]
  /\ log \subseteq Requests
  /\ owner \in Requests \cup {None}
  /\ crashes \in 0..MaxCrashes

Init ==
  /\ pc = [p \in Procs |-> "idle"] /\ kind = [p \in Procs |-> "none"]
  /\ seq = [r \in Requests |-> 0] /\ gen = [r \in Requests |-> 0]
  /\ left = [r \in Requests |-> 0]
  /\ via = [r \in Requests |-> None] /\ since = [r \in Requests |-> 0]
  /\ outcome = [r \in Requests |-> "none"]
  /\ shown = [r \in Requests |-> {}] /\ late = [r \in Requests |-> None]
  /\ nextSeq = 0 /\ authSeq = 0 /\ activeGen = 0
  /\ socket = None /\ sock = [r \in Requests |-> "none"] /\ ackCallbacks = {}
  /\ lease = None /\ savedLease = None /\ alarm = None
  /\ authorization = "none"
  /\ status = [phase |-> "idle", session |-> None] /\ log = {}
  /\ owner = None /\ crashes = 0

-----------------------------------------------------------------------------
(* Helpers.  Definitions named Faulty... are plausible bugs of the definition *)
(* they precede; no specification uses them.                                *)

(* The input gate lets no event in while another handler awaits its storage. *)
GateOpen(p) == InputGate => \A q \in Procs \ {p} : pc[q] \notin StorageWaits

Alive(s) == sock[s] = "up"

(* isCurrentSocket                                                           *)
FaultyIsCurrent(s, generation) == TRUE
IsCurrent(s, generation) == generation = activeGen /\ s = socket

(* connectedSocket                                                           *)
ConnectedSocket ==
  IF status.phase = "connected" /\ socket # None /\ sock[socket] = "up" THEN socket ELSE None

(* What WorkerSignalSocket.close or releaseSocket settles: the connect that  *)
(* waits for the handshake and the acks that are pending on socket s.       *)
Released(places, s) ==
  [q \in Procs |-> CASE q = s /\ places[q] = "connecting" -> "refused"
                     [] q \in Requests /\ places[q] = "awaitAck" /\ via[q] = s -> "ackFailed"
                     [] OTHER -> places[q]]

SettleSocket(s) ==
  /\ sock' = [q \in Requests |-> IF q = s THEN "down" ELSE sock[q]]
  /\ ackCallbacks' = {q \in ackCallbacks : via[q] # s}

(* recordEvent: the event is inserted, then the oldest ones are deleted.     *)
Record(s) == \E kept \in SUBSET (log \cup {s}) : log' = kept

-----------------------------------------------------------------------------
(* The client lease *)

(* stop, up to its first await: storage deletes the authorization and the    *)
(* deadline in one write.                                                   *)
StopNow(p) ==
  /\ nextSeq' = nextSeq + 1
  /\ authSeq' = nextSeq + 1
  /\ activeGen' = activeGen + 1
  /\ owner' = None
  /\ socket' = None
  /\ SettleSocket(socket)
  /\ pc' = [Released(pc, socket) EXCEPT ![p] = "delete"]
  /\ log' = {}
  /\ lease' = None
  /\ status' = [phase |-> "closed", session |-> None]
  /\ authorization' = "none"
  /\ savedLease' = None
  /\ UNCHANGED alarm

(* renewClientLease, up to its first await.                                  *)
Extend(p) ==
  /\ lease' = Idle
  /\ savedLease' = Idle
  /\ pc' = [pc EXCEPT ![p] = "put"]

Expired == lease = 0

FaultyRenew(p) ==
  /\ \E kept \in SUBSET log : log' = kept
  /\ IF lease = None
     THEN pc' = [pc EXCEPT ![p] = "renewed"] /\ UNCHANGED <<lease, savedLease>>
     ELSE Extend(p)
  /\ UNCHANGED <<sequenceVars, socketVars, authorization, alarm, status>>
Renew(p) ==
  IF Expired
  THEN StopNow(p)
  ELSE /\ \E kept \in SUBSET log : log' = kept
       /\ IF lease = None
          THEN pc' = [pc EXCEPT ![p] = "renewed"] /\ UNCHANGED <<lease, savedLease>>
          ELSE Extend(p)
       /\ UNCHANGED <<sequenceVars, socketVars, authorization, alarm, status>>

(* put(clientExpiresAt) is done; setAlarm takes the deadline memory has now.  *)
FaultyLeasePut(p) ==
  /\ pc[p] = "put"
  /\ pc' = [pc EXCEPT ![p] = "renewed"]
  /\ UNCHANGED <<kind, seq, gen, left, via, since, outcome, shown, late, sequenceVars, socketVars,
                 leaseVars, status, log, crashes>>
LeasePut(p) ==
  /\ pc[p] = "put"
  /\ pc' = [pc EXCEPT ![p] = "renewed"]
  /\ alarm' = IF lease = None THEN 0 ELSE lease
  /\ UNCHANGED <<kind, seq, gen, left, via, since, outcome, shown, late, sequenceVars, socketVars,
                 lease, authorization, savedLease, status, log, crashes>>

(* delete() is done: deleteAlarm.                                            *)
StopDeleted(p) ==
  /\ pc[p] = "delete"
  /\ pc' = [pc EXCEPT ![p] = "renewed"]
  /\ alarm' = None
  /\ UNCHANGED <<kind, seq, gen, left, via, since, outcome, shown, late, sequenceVars, socketVars,
                 lease, authorization, savedLease, status, log, crashes>>

(* The last storage operation of a stop, an authorization or the alarm.       *)
LeaseDone(p) ==
  /\ pc[p] = "renewed"
  /\ kind[p] \in {"stop", "authorize", "none"}
  /\ pc' = [pc EXCEPT ![p] = IF p = Alarm THEN "idle" ELSE "done"]
  /\ UNCHANGED <<kind, seq, gen, left, via, since, outcome, shown, late, sequenceVars, socketVars,
                 leaseVars, status, log, crashes>>

(* The platform runs alarm() once its time has come.                         *)
AlarmFires ==
  /\ pc[Alarm] = "idle" /\ alarm = 0 /\ GateOpen(Alarm)
  /\ IF lease # None /\ lease > 0
     THEN /\ alarm' = lease
          /\ pc' = [pc EXCEPT ![Alarm] = "renewed"]
          /\ UNCHANGED <<sequenceVars, socketVars, lease, authorization, savedLease, status, log>>
     ELSE /\ StopNow(Alarm)
  /\ UNCHANGED <<kind, seq, gen, left, via, since, outcome, shown, late, crashes>>

-----------------------------------------------------------------------------
(* The calls: what each RPC does before its first await *)

Arrive(r, what) ==
  /\ pc[r] = "idle"
  /\ GateOpen(r)
  /\ kind' = [kind EXCEPT ![r] = what]
  /\ late' = [late EXCEPT ![r] = IF Expired THEN owner ELSE None]
  /\ UNCHANGED crashes

(* The sequence number is taken before storage is asked for the authorization. *)
StartCall(r) ==
  /\ Arrive(r, "start")
  /\ nextSeq' = nextSeq + 1
  /\ seq' = [seq EXCEPT ![r] = nextSeq + 1]
  /\ pc' = [pc EXCEPT ![r] = "auth"]
  /\ UNCHANGED <<gen, left, via, since, outcome, shown, authSeq, activeGen, owner, socketVars,
                 leaseVars, status, log>>

StopCall(r) ==
  /\ Arrive(r, "stop")
  /\ StopNow(r)
  /\ seq' = [seq EXCEPT ![r] = nextSeq + 1]
  /\ gen' = [gen EXCEPT ![r] = activeGen + 1]
  /\ UNCHANGED <<left, via, since, outcome, shown>>

(* authorizeRoom: a join came back from UU through the proxy.                *)
AuthorizeCall(r) ==
  /\ Arrive(r, "authorize")
  /\ authorization' = "room"
  /\ pc' = [pc EXCEPT ![r] = "authorize"]
  /\ UNCHANGED <<seq, gen, left, via, since, outcome, shown, sequenceVars, socketVars, lease,
                 savedLease, alarm, status, log>>

Authorized(r) ==
  /\ pc[r] = "authorize"
  /\ \E kept \in SUBSET log : log' = kept
  /\ Extend(r)
  /\ UNCHANGED <<kind, seq, gen, left, via, since, outcome, shown, late, sequenceVars, socketVars,
                 authorization, alarm, status, crashes>>

(* getDiagnostics reads the events before it asks for the status.            *)
RenewingCall(r) ==
  /\ \E what \in Sends \cup Reads :
       /\ Arrive(r, what)
       /\ IF what = "diagnostics"
          THEN \E seen \in SUBSET log : shown' = [shown EXCEPT ![r] = seen]
          ELSE UNCHANGED shown
  /\ Renew(r)
  /\ UNCHANGED <<seq, gen, left, via, since, outcome>>

-----------------------------------------------------------------------------
(* start *)

Admitted(r) == seq[r] >= authSeq

(* No authorization, or not for this room; or a newer request was admitted.  *)
StartRefused(r) ==
  /\ pc[r] = "auth" \/ (pc[r] = "renewed" /\ kind[r] = "start" /\ ~Admitted(r))
  /\ pc' = [pc EXCEPT ![r] = "done"]
  /\ UNCHANGED <<kind, seq, gen, left, via, since, outcome, shown, late, sequenceVars, socketVars,
                 leaseVars, status, log, crashes>>

StartRenews(r) ==
  /\ pc[r] = "auth"
  /\ authorization = "room"
  /\ seq[r] >= authSeq
  /\ Renew(r)
  /\ UNCHANGED <<kind, seq, gen, left, via, since, outcome, shown, late, crashes>>

StartClaim(r) ==
  /\ pc[r] = "renewed" /\ kind[r] = "start"
  /\ Admitted(r)
  /\ authSeq' = seq[r]
  /\ activeGen' = activeGen + 1
  /\ gen' = [gen EXCEPT ![r] = activeGen + 1]
  /\ owner' = r
  /\ socket' = r
  /\ sock' = [q \in Requests |-> IF q = r THEN "opening"
                                 ELSE IF q = socket THEN "down" ELSE sock[q]]
  /\ ackCallbacks' = {q \in ackCallbacks : via[q] # socket}
  /\ pc' = [Released(pc, socket) EXCEPT ![r] = "connecting"]
  /\ log' = {}
  /\ status' = [phase |-> "connecting", session |-> r]
  /\ \E n \in 1..MaxServers : left' = [left EXCEPT ![r] = n - 1]
  /\ UNCHANGED <<kind, seq, via, since, outcome, shown, late, nextSeq, leaseVars, crashes>>

(* await connect() resolved and nothing happened to the socket since.        *)
StartConnected(r) ==
  /\ pc[r] = "connected" /\ GateOpen(r)
  /\ IsCurrent(r, gen[r])
  /\ status' = [phase |-> "connected", session |-> r]
  /\ pc' = [pc EXCEPT ![r] = "done"]
  /\ UNCHANGED <<kind, seq, gen, left, via, since, outcome, shown, late, sequenceVars, socketVars,
                 leaseVars, log, crashes>>

(* The socket was closed between the connect and this resumption.             *)
StartOvertaken(r) ==
  /\ pc[r] = "connected" /\ GateOpen(r)
  /\ ~IsCurrent(r, gen[r])
  /\ sock' = [sock EXCEPT ![r] = "down"]
  /\ pc' = [pc EXCEPT ![r] = "done"]
  /\ UNCHANGED <<kind, seq, gen, left, via, since, outcome, shown, late, sequenceVars, socket,
                 ackCallbacks, leaseVars, status, log, crashes>>

(* await connect() rejected, the socket's own check included: give way to a   *)
(* newer request, try the next server, or report the last failure.          *)
Rejected(r) ==
  /\ pc[r] = "refused" \/ (pc[r] = "connected" /\ sock[r] = "down")
  /\ GateOpen(r)

FaultyYields(r) == FALSE
Yields(r) == gen[r] # activeGen

ServersLeft(r) == left[r] > 0

StartNextServer(r) ==
  /\ Rejected(r)
  /\ ~Yields(r) /\ ServersLeft(r)
  /\ left' = [left EXCEPT ![r] = left[r] - 1]
  /\ socket' = r
  /\ sock' = [sock EXCEPT ![r] = "opening"]
  /\ pc' = [pc EXCEPT ![r] = "connecting"]
  /\ UNCHANGED <<kind, seq, gen, via, since, outcome, shown, late, sequenceVars, ackCallbacks,
                 leaseVars, status, log, crashes>>

StartFailed(r) ==
  /\ Rejected(r)
  /\ Yields(r) \/ left[r] = 0
  /\ socket' = IF socket = r THEN None ELSE socket
  /\ status' = IF Yields(r) THEN status ELSE [phase |-> "error", session |-> r]
  /\ pc' = [pc EXCEPT ![r] = "done"]
  /\ UNCHANGED <<kind, seq, gen, left, via, since, outcome, shown, late, sequenceVars, sock,
                 ackCallbacks, leaseVars, log, crashes>>

-----------------------------------------------------------------------------
(* sendControl, sendSoac and the reads, once the lease is renewed *)

SendRefused(r) ==
  /\ pc[r] = "renewed" /\ kind[r] \in Sends
  /\ ConnectedSocket = None
  /\ pc' = [pc EXCEPT ![r] = "done"]
  /\ outcome' = [outcome EXCEPT ![r] = "null"]
  /\ UNCHANGED <<kind, seq, gen, left, via, since, shown, late, sequenceVars, socketVars,
                 leaseVars, status, log, crashes>>

(* A control message goes out at once; a SOAC payload is built first.        *)
SendCaptures(r) ==
  /\ pc[r] = "renewed" /\ kind[r] \in Sends
  /\ ConnectedSocket # None
  /\ via' = [via EXCEPT ![r] = ConnectedSocket]
  /\ since' = [since EXCEPT ![r] = activeGen]
  /\ pc' = [pc EXCEPT ![r] = IF kind[r] = "control" THEN "awaitAck" ELSE "payload"]
  /\ IF kind[r] = "control" THEN Record(ConnectedSocket) ELSE UNCHANGED log
  /\ UNCHANGED <<kind, seq, gen, left, outcome, shown, late, sequenceVars, socketVars,
                 leaseVars, status, crashes>>

ControlAnswered(r) ==
  /\ pc[r] \in {"acked", "ackFailed"} /\ GateOpen(r)
  /\ pc' = [pc EXCEPT ![r] = "done"]
  /\ outcome' = [outcome EXCEPT ![r] = IF ~IsCurrent(via[r], since[r]) THEN "null"
                                       ELSE IF pc[r] = "acked" THEN "ack" ELSE "error"]
  /\ IF pc[r] = "acked" /\ IsCurrent(via[r], since[r]) THEN Record(via[r]) ELSE UNCHANGED log
  /\ UNCHANGED <<kind, seq, gen, left, via, since, shown, late, sequenceVars, socketVars,
                 leaseVars, status, crashes>>

SoacBuilt(r) ==
  /\ pc[r] = "payload" /\ GateOpen(r)
  /\ pc' = [pc EXCEPT ![r] = "done"]
  /\ IF IsCurrent(via[r], since[r])
     THEN /\ Record(via[r])
          /\ ackCallbacks' = ackCallbacks \cup {r}
          /\ UNCHANGED outcome
     ELSE /\ outcome' = [outcome EXCEPT ![r] = "null"]
          /\ UNCHANGED <<log, ackCallbacks>>
  /\ UNCHANGED <<kind, seq, gen, left, via, since, shown, late, sequenceVars, socket, sock,
                 leaseVars, status, crashes>>

(* getStatus puts a status right that outlived its socket.                   *)
FaultyStale == FALSE
Stale == status.phase = "connected" /\ (socket = None \/ ~Alive(socket))

ReadAnswered(r) ==
  /\ pc[r] = "renewed" /\ kind[r] \in Reads
  /\ pc' = [pc EXCEPT ![r] = "done"]
  /\ IF kind[r] = "events"
     THEN /\ \E kept \in SUBSET log : log' = kept /\ shown' = [shown EXCEPT ![r] = kept]
          /\ UNCHANGED <<status, outcome>>
     ELSE /\ status' = IF Stale THEN [status EXCEPT !.phase = "closed"] ELSE status
          /\ outcome' = [outcome EXCEPT ![r] = IF status'.phase = "connected" THEN "connected"
                                               ELSE "notConnected"]
          /\ UNCHANGED <<log, shown>>
  /\ UNCHANGED <<kind, seq, gen, left, via, since, late, sequenceVars, socketVars, leaseVars,
                 crashes>>

-----------------------------------------------------------------------------
(* The socket, its timers, time and eviction *)

SocketConnects(s) ==
  /\ pc[s] = "connecting" /\ GateOpen(s)
  /\ sock' = [sock EXCEPT ![s] = "up"]
  /\ pc' = [pc EXCEPT ![s] = "connected"]
  /\ UNCHANGED <<kind, seq, gen, left, via, since, outcome, shown, late, sequenceVars, socket,
                 ackCallbacks, leaseVars, status, log, crashes>>

(* The upgrade or the handshake fails or takes too long: connect() rejects,  *)
(* no callback runs.                                                        *)
SocketRefused(s) ==
  /\ pc[s] = "connecting" /\ GateOpen(s)
  /\ sock' = [sock EXCEPT ![s] = "down"]
  /\ pc' = [pc EXCEPT ![s] = "refused"]
  /\ UNCHANGED <<kind, seq, gen, left, via, since, outcome, shown, late, sequenceVars, socket,
                 ackCallbacks, leaseVars, status, log, crashes>>

(* onClose and onError of an established socket: a close, a broken frame, a   *)
(* missed heartbeat.                                                        *)
SocketEnds(s) ==
  /\ sock[s] = "up" /\ GateOpen(s)
  /\ SettleSocket(s)
  /\ pc' = Released(pc, s)
  /\ IF IsCurrent(s, gen[s])
     THEN /\ socket' = None
          /\ \E phase \in {"closed", "error"} :
               status' = IF status.phase \in {"connected", "connecting"}
                         THEN [status EXCEPT !.phase = phase] ELSE status
     ELSE UNCHANGED <<socket, status>>
  /\ UNCHANGED <<kind, seq, gen, left, via, since, outcome, shown, late, sequenceVars,
                 leaseVars, log, crashes>>

SocketEvent(s) ==
  /\ sock[s] \in {"opening", "up"} /\ GateOpen(s)
  /\ IsCurrent(s, gen[s])
  /\ Record(s)
  /\ UNCHANGED <<handlerVars, sequenceVars, socketVars, leaseVars, status, crashes>>

AckArrives(r) ==
  /\ pc[r] = "awaitAck" /\ GateOpen(r)
  /\ pc' = [pc EXCEPT ![r] = "acked"]
  /\ UNCHANGED <<kind, seq, gen, left, via, since, outcome, shown, late, sequenceVars, socketVars,
                 leaseVars, status, log, crashes>>

AckTimesOut(r) ==
  /\ pc[r] = "awaitAck" /\ GateOpen(r)
  /\ pc' = [pc EXCEPT ![r] = "ackFailed"]
  /\ UNCHANGED <<kind, seq, gen, left, via, since, outcome, shown, late, sequenceVars, socketVars,
                 leaseVars, status, log, crashes>>

(* The optional ack of a SOAC message, or its timer.                         *)
SoacAck(r) ==
  /\ r \in ackCallbacks /\ GateOpen(r)
  /\ ackCallbacks' = ackCallbacks \ {r}
  /\ IF IsCurrent(via[r], since[r])
     THEN \E kept \in SUBSET (log \cup {via[r]}) : log' = kept
     ELSE UNCHANGED log
  /\ UNCHANGED <<handlerVars, sequenceVars, socket, sock, leaseVars, status, crashes>>

Sooner(t) == IF t = None THEN None ELSE IF t = 0 THEN 0 ELSE t - 1

Tick ==
  /\ {lease, savedLease, alarm} \cap (1..Idle) # {}
  /\ lease' = Sooner(lease)
  /\ savedLease' = Sooner(savedLease)
  /\ alarm' = Sooner(alarm)
  /\ UNCHANGED <<handlerVars, sequenceVars, socketVars, authorization, status, log, crashes>>

(* The instance is evicted and built anew from storage: every RPC under way   *)
(* fails, the sockets end, the numbering starts over.                       *)
Reconstruct == lease' = savedLease

Evict ==
  /\ crashes < MaxCrashes
  /\ crashes' = crashes + 1
  /\ pc' = [p \in Procs |-> IF p = Alarm THEN "idle"
                            ELSE IF pc[p] = "idle" THEN "idle" ELSE "done"]
  /\ seq' = [r \in Requests |-> 0] /\ gen' = [r \in Requests |-> 0]
  /\ nextSeq' = 0 /\ authSeq' = 0 /\ activeGen' = 0
  /\ socket' = None /\ ackCallbacks' = {}
  /\ sock' = [r \in Requests |-> IF sock[r] = "none" THEN "none" ELSE "down"]
  /\ Reconstruct
  /\ UNCHANGED <<kind, left, via, since, outcome, shown, late, owner, authorization, savedLease,
                 alarm, status, log>>

-----------------------------------------------------------------------------
Call(r) == StartCall(r) \/ StopCall(r) \/ AuthorizeCall(r) \/ RenewingCall(r)

Handler(r) ==
  \/ Authorized(r) \/ StartRefused(r) \/ StartRenews(r) \/ StartClaim(r)
  \/ StartConnected(r) \/ StartOvertaken(r) \/ StartNextServer(r) \/ StartFailed(r)
  \/ SendRefused(r) \/ SendCaptures(r) \/ ControlAnswered(r) \/ SoacBuilt(r) \/ ReadAnswered(r)

Lease(p) == LeasePut(p) \/ StopDeleted(p) \/ LeaseDone(p)

Opens(s) == SocketConnects(s) \/ SocketRefused(s)

Environment(r) == SocketEnds(r) \/ SocketEvent(r) \/ AckArrives(r) \/ AckTimesOut(r) \/ SoacAck(r)

Next ==
  \/ \E r \in Requests : Call(r) \/ Handler(r) \/ Opens(r) \/ Environment(r)
  \/ \E p \in Procs : Lease(p)
  \/ AlarmFires \/ Tick \/ Evict

Spec == Init /\ [][Next]_vars

(* Every await settles: storage answers, a connect ends within its timeout,  *)
(* the ack timer fires; time passes and the platform delivers due alarms.    *)
Fairness ==
  /\ \A r \in Requests : WF_vars(Handler(r)) /\ WF_vars(Opens(r)) /\ WF_vars(AckTimesOut(r))
  /\ \A p \in Procs : WF_vars(Lease(p))
  /\ WF_vars(AlarmFires) /\ WF_vars(Tick)

FairSpec == Spec /\ Fairness

-----------------------------------------------------------------------------
(* Properties *)

(* Every upstream socket that is open or opening is the gateway's current    *)
(* one: none outlives a stop, an expired lease or a newer start.            *)
NoOrphanSocket ==
  \A r \in Requests : sock[r] \in {"opening", "up"} => r = socket

(* No upstream connection without a room authorization: a start that arrives *)
(* after the deadline, or is overtaken by a stop between its authorization   *)
(* check and its claim, connects to nothing.                                *)
ConnectedRoomIsAuthorized ==
  socket # None => authorization = "room"

(* What the object holds upstream is its own: no orphan, and authorized.     *)
UpstreamIsOwned == NoOrphanSocket /\ ConnectedRoomIsAuthorized

(* Requests that arrive after the deadline get nothing of the session that   *)
(* ran out, however late the alarm is: neither its socket nor its events.    *)
(* (Diagnostics are the exception: see the README.)                         *)
ExpiredSessionNotServed ==
  \A r \in Requests :
    late[r] # None =>
      /\ via[r] # late[r]
      /\ kind[r] = "events" => late[r] \notin shown[r]

(* A status is "connected" only while an upstream socket is up, also after    *)
(* an eviction.  (gateway.test.ts:61)                                        *)
ConnectedIsTrue ==
  [][\A r \in Requests :
       pc[r] # "done" /\ pc'[r] = "done" /\ outcome'[r] = "connected" =>
         socket # None /\ sock[socket] = "up"]_vars

(* The object implements the gateway specification.                          *)
Owner == IF owner # None /\ gen[owner] # 0 /\ gen[owner] = activeGen THEN owner ELSE None

Gateway == INSTANCE SignalGateway WITH
  Sessions <- Requests,
  current <- Owner,
  started <- {r \in Requests : sock[r] # "none"}

ImplementsGateway == Gateway!Spec

(* An authorization does not outlive a page that has gone away, unless the    *)
(* object was evicted between the writes of its lease (see the README).      *)
AuthorizationEnds ==
  authorization = "room" /\ crashes = 0 ~>
    (authorization = "none" /\ socket = None) \/ crashes > 0
=============================================================================
