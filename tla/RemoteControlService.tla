------------------------- MODULE RemoteControlService -------------------------
(***************************************************************************)
(* The Node signal gateway of one page session: the class                  *)
(* RemoteControlService (backend/src/services/remoteControlService.ts)     *)
(* with the Socket.IO connector it drives                                  *)
(* (backend/src/services/socketIoSignalGatewayConnector.ts).               *)
(*                                                                         *)
(* Every HTTP request is one element of Requests.  A handler runs without  *)
(* interruption up to an await; each await is a value of pc[r], and any    *)
(* other handler, socket callback or timer may run before the handler      *)
(* resumes.  A start request owns one socket at a time (the earlier        *)
(* attempts of its failover loop were disconnected by onConnectError), so  *)
(* the request names its socket, its session and the SignalGatewayConnection *)
(* object built on it.                                                     *)
(***************************************************************************)
EXTENDS Naturals, FiniteSets

CONSTANTS
  Requests,     \* the requests that reach the service
  MaxServers,   \* signal servers in a room config (at least one: the caller checked)
  RoomSource,   \* was the service built with a roomConfigSource?
  None          \* no connection, no session

ASSUME RequestsAssumption == None \notin Requests
ASSUME ServersAssumption  == MaxServers \in Nat \ {0}
ASSUME SourceAssumption   == RoomSource \in BOOLEAN

VARIABLES
  pc,           \* where each handler stands
  seq,          \* requestSequence of a start or stop request, 0 before it has one
  gen,          \* generation a start or stop request was given, 0 before
  left,         \* signal servers a start request has not tried yet
  sock,         \* the socket of a start request
  via, since,   \* connection and generation a send captured before its await
  outcome,      \* what a send returned
  nextSeq,      \* nextSignalRequestSequence
  authSeq,      \* authoritativeSignalRequestSequence
  activeGen,    \* activeSignalGeneration
  connection,   \* signalConnection
  joinContext,  \* activeJoinContext: does it name a device?
  status,       \* signalStatus: the phase, the start whose startedAt it carries, roomClear
  log,          \* the sessions whose events signalEvents retains
  ackCallbacks  \* SOAC requests whose optional ack callback is still registered

requestVars == <<pc, seq, gen, left, via, since, outcome>>
serviceVars == <<nextSeq, authSeq, activeGen, connection, joinContext, status>>
vars == <<requestVars, serviceVars, sock, log, ackCallbacks>>

Phases == {"idle", "connecting", "connected", "closed", "error"}
Clears == {"none", "cleared", "failed"}
Contexts == {"none", "device"}
SocketStates == {"none", "opening", "up", "reconnecting", "down"}
Outcomes == {"none", "null", "ack", "error"}
Places == {"idle", "admit", "connecting", "connected", "refused",
           "lookup", "clearing",
           "awaitAck", "acked", "ackFailed", "soacSent", "soacFailed", "done"}

TypeOK ==
  /\ pc \in [Requests -> Places]
  /\ seq \in [Requests -> Nat]
  /\ gen \in [Requests -> Nat]
  /\ left \in [Requests -> Nat]
  /\ sock \in [Requests -> SocketStates]
  /\ via \in [Requests -> Requests \cup {None}]
  /\ since \in [Requests -> Nat]
  /\ outcome \in [Requests -> Outcomes]
  /\ nextSeq \in Nat
  /\ authSeq \in Nat
  /\ activeGen \in Nat
  /\ connection \in Requests \cup {None}
  /\ joinContext \in Contexts
  /\ status \in [phase : Phases, session : Requests \cup {None}, clear : Clears]
  /\ log \subseteq Requests
  /\ ackCallbacks \subseteq Requests

Init ==
  /\ pc = [r \in Requests |-> "idle"]
  /\ seq = [r \in Requests |-> 0]
  /\ gen = [r \in Requests |-> 0]
  /\ left = [r \in Requests |-> 0]
  /\ sock = [r \in Requests |-> "none"]
  /\ via = [r \in Requests |-> None]
  /\ since = [r \in Requests |-> 0]
  /\ outcome = [r \in Requests |-> "none"]
  /\ nextSeq = 0
  /\ authSeq = 0
  /\ activeGen = 0
  /\ connection = None
  /\ joinContext = "none"
  /\ status = [phase |-> "idle", session |-> None, clear |-> "none"]
  /\ log = {}
  /\ ackCallbacks = {}

-----------------------------------------------------------------------------
(* Helpers *)

Alive(s) == s \in {"up", "reconnecting"}

(* Definitions named Faulty... are plausible bugs of the definition they      *)
(* precede; no specification uses them.                                     *)

(* isCurrentSignalConnection, with what the send captured before its await. *)
FaultyIsCurrent(r) == since[r] = activeGen
IsCurrent(r) == since[r] = activeGen /\ via[r] = connection

(* rejectPendingAcks of the connection c: every emitWithAck waiting on it    *)
(* settles with an error, and its handler resumes later.                    *)
RejectPendingAcks(places, c) ==
  [q \in Requests |-> IF places[q] = "awaitAck" /\ via[q] = c THEN "ackFailed" ELSE places[q]]

(* recordSignalEvent: append, then keep what is young enough and fits.      *)
Record(s) == \E kept \in SUBSET (log \cup {s}) : log' = kept

(* applyConnectionStateUpdate, called by the socket of the start request s. *)
FaultyApplyUpdate(s, phase) ==
  /\ status' = IF phase = "connected"
               THEN [phase |-> "connected", session |-> s, clear |-> "none"]
               ELSE [status EXCEPT !.phase = phase]
  /\ connection' = IF phase \in {"closed", "error"} THEN None ELSE connection

ApplyUpdate(s, phase) ==
  IF gen[s] # activeGen
  THEN UNCHANGED <<status, connection>>
  ELSE /\ status' = IF phase = "connected"
                    THEN [phase |-> "connected", session |-> s, clear |-> "none"]
                    ELSE [status EXCEPT !.phase = phase]
       /\ connection' = IF phase \in {"closed", "error"} THEN None ELSE connection

(* signalConnection?.close(): the socket is down, the pending acks settle.  *)
(* Its synchronous "closed" update carries a superseded generation.         *)
CloseConnection(places) ==
  /\ sock' = [q \in Requests |-> IF q = connection THEN "down" ELSE sock[q]]
  /\ pc' = RejectPendingAcks(places, connection)
  /\ connection' = None

-----------------------------------------------------------------------------
(* startSignalGateway *)

(* The call takes its sequence number before it awaits the room config.     *)
StartCall(r) ==
  /\ pc[r] = "idle"
  /\ nextSeq' = nextSeq + 1
  /\ seq' = [seq EXCEPT ![r] = nextSeq + 1]
  /\ pc' = [pc EXCEPT ![r] = "admit"]
  /\ UNCHANGED <<gen, left, via, since, outcome, authSeq, activeGen, connection,
                 joinContext, status, sock, log, ackCallbacks>>

(* No room config, or a newer start or stop was admitted meanwhile.         *)
StartRefused(r) ==
  /\ pc[r] = "admit"
  /\ pc' = [pc EXCEPT ![r] = "done"]
  /\ UNCHANGED <<seq, gen, left, via, since, outcome, serviceVars, sock, log, ackCallbacks>>

Admitted(r) == seq[r] >= authSeq

(* The start becomes the authoritative request, tears the previous session   *)
(* down and opens a socket to the first of its n servers.                   *)
StartClaim(r) ==
  /\ pc[r] = "admit"
  /\ Admitted(r)
  /\ authSeq' = seq[r]
  /\ activeGen' = activeGen + 1
  /\ gen' = [gen EXCEPT ![r] = activeGen + 1]
  /\ joinContext' \in Contexts
  /\ sock' = [q \in Requests |-> IF q = r THEN "opening"
                                 ELSE IF q = connection THEN "down" ELSE sock[q]]
  /\ pc' = RejectPendingAcks([pc EXCEPT ![r] = "connecting"], connection)
  /\ connection' = None
  /\ log' = {}
  /\ status' = [phase |-> "connecting", session |-> r, clear |-> "none"]
  /\ \E n \in 1..MaxServers : left' = [left EXCEPT ![r] = n - 1]
  /\ UNCHANGED <<seq, via, since, outcome, nextSeq, ackCallbacks>>

(* The connection of a superseded start is closed.                          *)
FaultyCloseLate(r) == UNCHANGED sock
CloseLate(r) == sock' = [sock EXCEPT ![r] = "down"]

(* await connect() resolved: adopt the connection, or close it if this      *)
(* start was superseded while it waited.                                    *)
StartConnected(r) ==
  /\ pc[r] = "connected"
  /\ pc' = [pc EXCEPT ![r] = "done"]
  /\ IF gen[r] = activeGen
     THEN /\ connection' = r
          /\ status' = [phase |-> "connected", session |-> r, clear |-> "none"]
          /\ UNCHANGED sock
     ELSE /\ CloseLate(r)
          /\ UNCHANGED <<connection, status>>
  /\ UNCHANGED <<seq, gen, left, via, since, outcome, nextSeq, authSeq, activeGen,
                 joinContext, log, ackCallbacks>>

ServersLeft(r) == left[r] > 0

(* await connect() rejected: give way to a newer request, try the next      *)
(* server, or report the failure of the last one.                           *)
StartNextServer(r) ==
  /\ pc[r] = "refused"
  /\ gen[r] = activeGen
  /\ ServersLeft(r)
  /\ left' = [left EXCEPT ![r] = left[r] - 1]
  /\ sock' = [sock EXCEPT ![r] = "opening"]
  /\ pc' = [pc EXCEPT ![r] = "connecting"]
  /\ UNCHANGED <<seq, gen, via, since, outcome, serviceVars, log, ackCallbacks>>

StartFailed(r) ==
  /\ pc[r] = "refused"
  /\ gen[r] # activeGen \/ left[r] = 0
  /\ pc' = [pc EXCEPT ![r] = "done"]
  /\ status' = IF gen[r] = activeGen
               THEN [phase |-> "error", session |-> r, clear |-> "none"]
               ELSE status
  /\ UNCHANGED <<seq, gen, left, via, since, outcome, nextSeq, authSeq, activeGen,
                 connection, joinContext, sock, log, ackCallbacks>>

-----------------------------------------------------------------------------
(* stopSignalGateway *)

(* What follows the close once the join context is known: clearByDevice, or  *)
(* nothing left to do.                                                      *)
AfterStop(context) == IF RoomSource /\ context = "device" THEN "clearing" ELSE "done"

StopCall(r) ==
  /\ pc[r] = "idle"
  /\ nextSeq' = nextSeq + 1
  /\ seq' = [seq EXCEPT ![r] = nextSeq + 1]
  /\ authSeq' = nextSeq + 1
  /\ activeGen' = activeGen + 1
  /\ gen' = [gen EXCEPT ![r] = activeGen + 1]
  /\ CloseConnection([pc EXCEPT ![r] = IF RoomSource /\ joinContext = "none" THEN "lookup"
                                       ELSE AfterStop(joinContext)])
  /\ joinContext' = "none"
  /\ status' = [status EXCEPT !.phase = "closed", !.clear = "none"]
  /\ UNCHANGED <<left, via, since, outcome, log, ackCallbacks>>

(* getLatestJoinContext() answered the stop that had no context of its own. *)
StopLookup(r) ==
  /\ pc[r] = "lookup"
  /\ \E context \in Contexts :
       pc' = [pc EXCEPT ![r] = IF gen[r] = activeGen THEN AfterStop(context) ELSE "done"]
  /\ UNCHANGED <<seq, gen, left, via, since, outcome, serviceVars, sock, log, ackCallbacks>>

(* The outcome goes into the status unless a newer request was admitted.     *)
ReportClear(r) ==
  IF gen[r] = activeGen
  THEN \E c \in {"cleared", "failed"} : status' = [status EXCEPT !.clear = c]
  ELSE UNCHANGED status

(* clearByDevice() settled.                                                 *)
StopCleared(r) ==
  /\ pc[r] = "clearing"
  /\ pc' = [pc EXCEPT ![r] = "done"]
  /\ ReportClear(r)
  /\ UNCHANGED <<seq, gen, left, via, since, outcome, nextSeq, authSeq, activeGen,
                 connection, joinContext, sock, log, ackCallbacks>>

-----------------------------------------------------------------------------
(* sendSignalControl and sendSignalSoac *)

(* Both capture the connection and the generation, and record what they send. *)
Capture(r) ==
  /\ pc[r] = "idle"
  /\ connection # None
  /\ via' = [via EXCEPT ![r] = connection]
  /\ since' = [since EXCEPT ![r] = activeGen]
  /\ Record(connection)
  /\ UNCHANGED <<seq, gen, left, serviceVars, sock>>

(* No connection: the route answers 409.                                    *)
SendRefused(r) ==
  /\ pc[r] = "idle"
  /\ connection = None
  /\ pc' = [pc EXCEPT ![r] = "done"]
  /\ outcome' = [outcome EXCEPT ![r] = "null"]
  /\ UNCHANGED <<seq, gen, left, via, since, serviceVars, sock, log, ackCallbacks>>

ControlCall(r) ==
  /\ Capture(r)
  /\ pc' = [pc EXCEPT ![r] = IF sock[connection] = "up" THEN "awaitAck" ELSE "ackFailed"]
  /\ UNCHANGED <<outcome, ackCallbacks>>

ControlAnswered(r) ==
  /\ pc[r] = "acked"
  /\ pc' = [pc EXCEPT ![r] = "done"]
  /\ outcome' = [outcome EXCEPT ![r] = IF IsCurrent(r) THEN "ack" ELSE "null"]
  /\ IF IsCurrent(r) THEN Record(via[r]) ELSE UNCHANGED log
  /\ UNCHANGED <<seq, gen, left, via, since, serviceVars, sock, ackCallbacks>>

ControlFailed(r) ==
  /\ pc[r] = "ackFailed"
  /\ pc' = [pc EXCEPT ![r] = "done"]
  /\ outcome' = [outcome EXCEPT ![r] = IF IsCurrent(r) THEN "error" ELSE "null"]
  /\ UNCHANGED <<seq, gen, left, via, since, serviceVars, sock, log, ackCallbacks>>

SoacCall(r) ==
  /\ Capture(r)
  /\ IF sock[connection] = "up"
     THEN /\ pc' = [pc EXCEPT ![r] = "soacSent"]
          /\ ackCallbacks' = ackCallbacks \cup {r}
     ELSE /\ pc' = [pc EXCEPT ![r] = "soacFailed"]
          /\ UNCHANGED ackCallbacks
  /\ UNCHANGED outcome

SoacReturned(r) ==
  /\ pc[r] \in {"soacSent", "soacFailed"}
  /\ pc' = [pc EXCEPT ![r] = "done"]
  /\ outcome' = [outcome EXCEPT ![r] = IF pc[r] = "soacFailed" THEN "error"
                                       ELSE IF IsCurrent(r) THEN "none" ELSE "null"]
  /\ UNCHANGED <<seq, gen, left, via, since, serviceVars, sock, log, ackCallbacks>>

-----------------------------------------------------------------------------
(* The socket, its timers and the reads *)

SocketUnchanged ==
  UNCHANGED <<seq, gen, left, via, since, outcome, nextSeq, authSeq, activeGen,
              joinContext, log, ackCallbacks>>

(* The first "connect": the update runs before the promise of connect()     *)
(* lets the start resume.                                                   *)
SocketConnects(s) ==
  /\ sock[s] = "opening"
  /\ sock' = [sock EXCEPT ![s] = "up"]
  /\ pc' = [pc EXCEPT ![s] = "connected"]
  /\ ApplyUpdate(s, "connected")
  /\ SocketUnchanged

(* The first "connect_error", an unsafe address or the connect timeout.     *)
SocketRefused(s) ==
  /\ sock[s] = "opening"
  /\ sock' = [sock EXCEPT ![s] = "down"]
  /\ pc' = [pc EXCEPT ![s] = "refused"]
  /\ UNCHANGED <<status, connection>>
  /\ SocketUnchanged

(* The transport is lost and Socket.IO reconnects by itself.                *)
SocketDrops(s) ==
  /\ sock[s] = "up"
  /\ sock' = [sock EXCEPT ![s] = "reconnecting"]
  /\ pc' = RejectPendingAcks(pc, s)
  /\ ApplyUpdate(s, "connecting")
  /\ SocketUnchanged

(* The server ends the Socket.IO session: no reconnection follows.          *)
SocketKicked(s) ==
  /\ sock[s] = "up"
  /\ sock' = [sock EXCEPT ![s] = "down"]
  /\ pc' = RejectPendingAcks(pc, s)
  /\ ApplyUpdate(s, "closed")
  /\ SocketUnchanged

SocketReconnects(s) ==
  /\ sock[s] = "reconnecting"
  /\ sock' = [sock EXCEPT ![s] = "up"]
  /\ UNCHANGED pc
  /\ ApplyUpdate(s, "connected")
  /\ SocketUnchanged

(* A reconnection attempt fails and another one will follow.                *)
SocketRetries(s) ==
  /\ sock[s] = "reconnecting"
  /\ UNCHANGED <<sock, pc>>
  /\ ApplyUpdate(s, "connecting")
  /\ SocketUnchanged

(* The server refuses the reconnection, or the attempts run out.            *)
SocketGivesUp(s) ==
  /\ sock[s] = "reconnecting"
  /\ sock' = [sock EXCEPT ![s] = "down"]
  /\ UNCHANGED pc
  /\ ApplyUpdate(s, "error")
  /\ SocketUnchanged

(* onSignalEvent: only the newest generation records.                       *)
Heard(s) == gen[s] = activeGen

SocketEvent(s) ==
  /\ sock[s] = "up"
  /\ Heard(s)
  /\ Record(s)
  /\ UNCHANGED <<requestVars, serviceVars, sock, ackCallbacks>>

AckArrives(r) ==
  /\ pc[r] = "awaitAck"
  /\ sock[via[r]] = "up"
  /\ pc' = [pc EXCEPT ![r] = "acked"]
  /\ UNCHANGED <<seq, gen, left, via, since, outcome, serviceVars, sock, log, ackCallbacks>>

(* The timer of emitWithAck: STREAMER_CONTROL_EVENT_ACK_TIMEOUT_MS.          *)
FaultyAckTimesOut(r) == FALSE
AckTimesOut(r) ==
  /\ pc[r] = "awaitAck"
  /\ pc' = [pc EXCEPT ![r] = "ackFailed"]
  /\ UNCHANGED <<seq, gen, left, via, since, outcome, serviceVars, sock, log, ackCallbacks>>

(* The optional ack of a SOAC message: the connector interface does not say  *)
(* how late it may call onAck.                                              *)
SoacAck(r) ==
  /\ r \in ackCallbacks
  /\ ackCallbacks' = ackCallbacks \ {r}
  /\ IF IsCurrent(r) THEN Record(via[r]) ELSE UNCHANGED log
  /\ UNCHANGED <<requestVars, serviceVars, sock>>

(* A read prunes the events older than the retention period.                *)
PruneEvents ==
  /\ \E kept \in SUBSET log : log' = kept
  /\ UNCHANGED <<requestVars, serviceVars, sock, ackCallbacks>>

-----------------------------------------------------------------------------
Handler(r) ==
  \/ StartRefused(r) \/ StartClaim(r)
  \/ StartConnected(r) \/ StartNextServer(r) \/ StartFailed(r)
  \/ StopLookup(r) \/ StopCleared(r)
  \/ ControlAnswered(r) \/ ControlFailed(r) \/ SoacReturned(r)

Call(r) == StartCall(r) \/ StopCall(r) \/ SendRefused(r) \/ ControlCall(r) \/ SoacCall(r)

Opens(s) == SocketConnects(s) \/ SocketRefused(s)

Socket(s) ==
  \/ SocketDrops(s) \/ SocketKicked(s) \/ SocketReconnects(s)
  \/ SocketRetries(s) \/ SocketGivesUp(s) \/ SocketEvent(s)

Acks(r) == AckArrives(r) \/ AckTimesOut(r) \/ SoacAck(r)

Next ==
  \/ \E r \in Requests : Call(r) \/ Handler(r) \/ Opens(r) \/ Socket(r) \/ Acks(r)
  \/ PruneEvents

Spec == Init /\ [][Next]_vars

(* The event loop resumes every settled await; a room source answers; a     *)
(* socket that opens connects or fails within timeoutMs; the ack timer fires. *)
Fairness ==
  \A r \in Requests : /\ WF_vars(Handler(r))
                      /\ WF_vars(Opens(r))
                      /\ WF_vars(AckTimesOut(r))

FairSpec == Spec /\ Fairness

-----------------------------------------------------------------------------
(* Properties *)

(* The start requests that got past admission.                              *)
Starts == {r \in Requests : sock[r] # "none"}

(* A socket that is up, or trying to come back, belongs to the service's     *)
(* current connection or to a start that has yet to resume and will adopt or *)
(* close it.  Superseding a start that is still connecting, stopping during  *)
(* failover and late connects leak no upstream socket.                      *)
NoOrphanSocket ==
  \A r \in Requests : Alive(sock[r]) => r = connection \/ pc[r] = "connected"

(* The newest admitted request owns the session: the connection and every    *)
(* phase that claims one come from the start with the active generation, so  *)
(* after a stop there is no connection and the status stays closed whatever  *)
(* superseded starts and their sockets still report.                        *)
NewestRequestOwnsSession ==
  /\ connection # None => gen[connection] = activeGen
  /\ status.phase \in {"connecting", "connected", "error"} =>
       /\ status.session # None
       /\ gen[status.session] = activeGen

(* Requests take effect in the order they were issued: a start that waited   *)
(* for its room config never displaces a start or stop issued after it.     *)
ClaimsFollowIssueOrder ==
  \A r, q \in Requests :
    gen[r] # 0 /\ gen[q] # 0 /\ seq[r] < seq[q] => gen[r] < gen[q]

(* The retained events come from one session, the newest one started: a late *)
(* ack or message of a superseded connection never shows in a newer session. *)
EventsOfNewestSession ==
  \A s \in log : s \in Starts /\ \A r \in Starts : gen[r] <= gen[s]

(* The outcome of a room clear is reported on the status of the stop that     *)
(* asked for it, never on the status of a session started in the meantime.  *)
ClearReportedOnStop ==
  status.clear # "none" =>
    /\ status.phase = "closed"
    /\ \A s \in Starts : gen[s] # activeGen

(* What the service shows, its connection and phase, its events and the       *)
(* outcome of a room clear, is about the newest request.                     *)
ShowsNewestSession ==
  NewestRequestOwnsSession /\ EventsOfNewestSession /\ ClearReportedOnStop

(* A control request is answered with an ack only while the connection it was *)
(* sent on is still the session's: one overtaken by a restart, a stop or a    *)
(* disconnect is answered with null (409).                                   *)
AckFromSendingSession ==
  [][\A r \in Requests :
       outcome[r] # "ack" /\ outcome'[r] = "ack" =>
         via[r] = connection /\ gen[via[r]] = activeGen]_vars

(* Starts and stops take effect in the order in which they were issued, and   *)
(* what a control request reports belongs to the session it was issued to.   *)
RequestsKeepOrder == []ClaimsFollowIssueOrder /\ AckFromSendingSession

(* The service implements the gateway specification: whoever holds the active *)
(* generation is its owner.                                                  *)
Owner == IF \E s \in Starts : gen[s] = activeGen
         THEN CHOOSE s \in Starts : gen[s] = activeGen
         ELSE None

Gateway == INSTANCE SignalGateway WITH
  Sessions <- Requests,
  current <- Owner,
  started <- Starts,
  status <- [phase |-> status.phase, session |-> status.session]

ImplementsGateway == Gateway!Spec

(* Every request is answered: no handler waits forever on a connect, an ack  *)
(* or a room clear.  (Requests are finitely many, so that all are at rest in *)
(* the end says the same as that each is answered, and is cheaper to check.) *)
Waiting == \E r \in Requests : pc[r] \notin {"idle", "done"}

EveryRequestAnswered == Waiting ~> ~Waiting
=============================================================================
