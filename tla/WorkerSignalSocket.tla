--------------------------- MODULE WorkerSignalSocket ---------------------------
(***************************************************************************)
(* The Worker's own Socket.IO client (WorkerSignalSocket): one object that *)
(* opens a WebSocket with fetch, performs the Engine.IO and Socket.IO      *)
(* handshakes, and hands every later frame to a chain of promises, so that *)
(* frames are decoded one at a time although decoding awaits.              *)
(*                                                                         *)
(* Attempt i is the i-th connect() call; its WebSocket is i too.  Frames,  *)
(* timers, close and error events of the transport, close() and emits of   *)
(* the owner come in any order.  A frame accepted on a released socket     *)
(* still passes through that socket's chain, whose end returns its bytes.  *)
(*                                                                         *)
(* Frames, by what the code tells apart: "beat" (Engine.IO open, ping),    *)
(* "connect" (Socket.IO 0), "disconnect" (Engine.IO or Socket.IO close),   *)
(* "error" (connect error, or a frame that does not parse), "event" and    *)
(* "ack" packets, "header" (a packet with n attachments), "binary".  A     *)
(* frame has size 1, or is too large.                                      *)
(***************************************************************************)
EXTENDS Integers, Sequences, FiniteSets

CONSTANTS
  MaxConnects,   \* connect() calls
  MaxFrame,      \* SIGNAL_MAX_FRAME_BYTES, in frames of size 1
  MaxFrames,     \* frames the server sends
  MaxEmits,      \* requests of the owner
  Attachments,   \* binary frames of a packet that has any, at most 10
  Nothing

ASSUME SocketAssumption ==
  /\ {MaxConnects, MaxFrame, MaxFrames, MaxEmits, Attachments} \subseteq Nat
  /\ MaxFrame > 0 /\ Attachments > 0 /\ Nothing \notin Nat

Attempts == 1..MaxConnects
QueueLimit == 4 * MaxFrame

VARIABLES
  attempt,       \* stage of each connect() call
  ws,            \* "none", "open", "closed" (by this side) or "gone"
  socket,        \* this.socket
  connecting,    \* attempt of connectAbortController
  handshake,     \* attempt of handshakeCallbacks
  connected,     \* namespaceConnected
  heartbeat,     \* socket whose heartbeat timer runs
  queue,         \* frames in the chain of each socket
  stage,         \* what the head of a chain awaits: "idle", "bytes", "decode"
  queued,        \* queuedBytes
  binary,        \* pendingBinaryPacket: its kind, id and missing attachments
  acks, nextAck, \* pendingAcks, each with the socket its request went to
  handed,        \* this.socket, or the socket of the request answered, and the
                 \* socket of the packet, for each packet handed to the owner
  greeted,       \* sockets on which the namespace was asked for
  ended,         \* per socket: onClose and onError calls, and close()
  frames, emits

connVars == <<attempt, ws, socket, connecting, handshake>>
protocolVars == <<connected, heartbeat, binary, acks, nextAck>>
queueVars == <<queue, stage, queued>>
ghostVars == <<handed, greeted, ended>>
socketVars == <<connVars, protocolVars, queueVars, ghostVars, frames, emits>>

Kinds == {"beat", "connect", "disconnect", "error", "event", "ack", "header", "binary"}
Frame == [kind : Kinds, n : Nat]
Packet == [kind : {"event", "ack"}, n : {0}, missing : 1..Attachments]

SocketTypeOK ==
  /\ attempt \in [Attempts -> {"none", "opening", "opened", "handshake", "resolved",
                               "rejected", "connected", "failed"}]
  /\ ws \in [Attempts -> {"none", "open", "closed", "gone"}]
  /\ {socket, connecting, handshake, heartbeat} \subseteq Attempts \cup {Nothing}
  /\ connected \in BOOLEAN
  /\ queue \in [Attempts -> Seq(Frame)] /\ stage \in [Attempts -> {"idle", "bytes", "decode"}]
  /\ queued \in 0..QueueLimit
  /\ binary \in Packet \cup {Nothing}
  /\ acks \subseteq [id : 0..MaxEmits, sock : Attempts] /\ nextAck \in 0..MaxEmits
  /\ handed \subseteq (Attempts \cup {Nothing}) \X Attempts
  /\ greeted \subseteq Attempts
  /\ ended \in [Attempts -> [reports : Nat, closed : BOOLEAN]]
  /\ frames \in 0..MaxFrames /\ emits \in 0..MaxEmits

(***************************************************************************)
(* Releasing a socket.                                                     *)
(***************************************************************************)
FaultyResetProtocolState ==
  /\ connected' = FALSE /\ heartbeat' = Nothing /\ binary' = Nothing
  /\ nextAck' = 0 /\ UNCHANGED acks
ResetProtocolState ==
  /\ connected' = FALSE /\ heartbeat' = Nothing /\ binary' = Nothing
  /\ nextAck' = 0 /\ acks' = {}

\* the event loop runs the continuations that are due before its next event;
\* decoding a frame is not one of them, the owner's calls may be
Turn(s) == queue[s] # <<>> /\ stage[s] = "idle"
Drained == /\ \A i \in Attempts : attempt[i] \notin {"opened", "resolved", "rejected"}
           /\ \A s \in Attempts : ~Turn(s)

Aborted(i) == connecting' = IF connecting = i THEN Nothing ELSE connecting

\* rejectHandshake: the connect() that waits will continue with an error
RejectHandshake ==
  /\ handshake' = Nothing
  /\ attempt' = IF handshake = Nothing THEN attempt ELSE [attempt EXCEPT ![handshake] = "rejected"]

CloseSocket(s) == ws' = [ws EXCEPT ![s] = IF @ = "open" THEN "closed" ELSE @]

ReleaseSocket(s) ==
  /\ socket' = Nothing /\ connecting' = Nothing
  /\ ResetProtocolState
  /\ CloseSocket(s)

FaultyEndsAny(s) ==
  /\ RejectHandshake
  /\ ReleaseSocket(s)
  /\ ended' = IF handshake # Nothing THEN ended ELSE [ended EXCEPT ![s].reports = @ + 1]
Ends(s) ==
  IF s # socket THEN UNCHANGED <<connVars, protocolVars, ended>>
  ELSE /\ RejectHandshake
       /\ ReleaseSocket(s)
       /\ ended' = IF handshake # Nothing THEN ended ELSE [ended EXCEPT ![s].reports = @ + 1]

(***************************************************************************)
(* connect().                                                              *)
(***************************************************************************)
Connect(i) ==
  /\ attempt[i] = "none" /\ \A j \in 1..(i - 1) : attempt[j] # "none"
  /\ socket = Nothing /\ connecting = Nothing
  /\ attempt' = [attempt EXCEPT ![i] = "opening"]
  /\ connecting' = i
  /\ UNCHANGED <<ws, socket, handshake, protocolVars, queueVars, ghostVars, frames, emits>>

\* openSignalWebSocket returns an accepted socket, even when its abort was
\* too late to stop it; or it fails, is refused, aborted or times out
Open(i) ==
  /\ attempt[i] = "opening" /\ Drained
  /\ \/ attempt' = [attempt EXCEPT ![i] = "opened"] /\ ws' = [ws EXCEPT ![i] = "open"]
        /\ UNCHANGED connecting
     \/ attempt' = [attempt EXCEPT ![i] = "failed"] /\ Aborted(i) /\ UNCHANGED ws
  /\ UNCHANGED <<socket, handshake, protocolVars, queueVars, ghostVars, frames, emits>>

Opened(i) ==
  /\ attempt[i] = "opened"
  /\ IF connecting = i
     THEN /\ attempt' = [attempt EXCEPT ![i] = "handshake"]
          /\ socket' = i /\ handshake' = i /\ UNCHANGED ws
     ELSE /\ attempt' = [attempt EXCEPT ![i] = "failed"]
          /\ CloseSocket(i) /\ UNCHANGED <<socket, handshake>>
  /\ UNCHANGED <<connecting, protocolVars, queueVars, ghostVars, frames, emits>>

HandshakeTimesOut(i) ==
  /\ handshake = i /\ Drained
  /\ RejectHandshake
  /\ UNCHANGED <<ws, socket, connecting, protocolVars, queueVars, ghostVars, frames, emits>>

\* connect() continues after the handshake: its socket may be gone again
Settle(i) ==
  LET good == attempt[i] = "resolved" /\ socket = i /\ connected
  IN /\ attempt[i] \in {"resolved", "rejected"}
     /\ attempt' = [attempt EXCEPT ![i] = IF good THEN "connected" ELSE "failed"]
     /\ IF socket = i /\ ~good
        THEN ReleaseSocket(i)
        ELSE Aborted(i) /\ UNCHANGED <<socket, ws, protocolVars>>
     /\ UNCHANGED <<handshake, queueVars, ghostVars, frames, emits>>

(***************************************************************************)
(* The owner.                                                              *)
(***************************************************************************)
Close ==
  /\ RejectHandshake
  /\ connecting' = Nothing
  /\ socket' = Nothing
  /\ ResetProtocolState
  /\ IF socket = Nothing THEN UNCHANGED <<ws, ended>>
     ELSE CloseSocket(socket) /\ ended' = [ended EXCEPT ![socket].closed = TRUE]
  /\ socket # Nothing \/ connecting # Nothing
  /\ UNCHANGED <<queueVars, handed, greeted, frames, emits>>

\* emitWithAck and emitWithOptionalAck
Emit ==
  /\ socket # Nothing /\ connected /\ emits < MaxEmits
  /\ acks' = acks \cup {[id |-> nextAck, sock |-> socket]}
  /\ nextAck' = nextAck + 1 /\ emits' = emits + 1
  /\ UNCHANGED <<connVars, connected, heartbeat, binary, queueVars, ghostVars, frames>>

AckTimesOut ==
  /\ Drained /\ \E a \in acks : acks' = acks \ {a}
  /\ UNCHANGED <<connVars, connected, heartbeat, binary, nextAck, queueVars, ghostVars, frames, emits>>

(***************************************************************************)
(* Frames.                                                                 *)
(***************************************************************************)
\* enqueueSocketMessage, for any socket whose transport still delivers; the
\* server connects the namespace when it was asked to
Sendable == [kind : {"beat", "connect", "disconnect", "error", "event", "binary"}, n : {0}]
            \cup [kind : {"ack"}, n : 0..(MaxEmits - 1)]
            \cup [kind : {"header"}, n : {Attachments}]
Arrive(s) ==
  /\ ws[s] \in {"open", "closed"} /\ Drained
  /\ frames < MaxFrames /\ frames' = frames + 1
  /\ \/ /\ queued + 1 <= QueueLimit
        /\ \E f \in Sendable :
             /\ f.kind = "connect" => s \in greeted
             /\ s # socket => f.kind = "event"      \* only its bytes will matter
             /\ queue' = [queue EXCEPT ![s] = Append(@, f)]
        /\ queued' = queued + 1
        /\ UNCHANGED <<connVars, protocolVars, ended>>
     \/ /\ Ends(s)      \* too large, alone or with the frames queued
        /\ UNCHANGED <<queue, queued>>
  /\ UNCHANGED <<stage, handed, greeted, emits>>

Head1(s) == Head(queue[s])
Returned(s) == /\ queue' = [queue EXCEPT ![s] = Tail(@)]
               /\ stage' = [stage EXCEPT ![s] = "idle"]
               /\ queued' = queued - 1
Awaits(s, what) == stage' = [stage EXCEPT ![s] = what] /\ UNCHANGED <<queue, queued>>

Dropped(s) == Returned(s) /\ UNCHANGED <<connVars, protocolVars, ghostVars>>

ResolveAck(s, id) ==
  LET found == {a \in acks : a.id = id}
  IN /\ acks' = acks \ found
     /\ handed' = handed \cup {<<a.sock, s>> : a \in found}

Deliver(s) == handed' = handed \cup {<<socket, s>>}

\* a frame that fails ends its socket
Invalid(s) == Returned(s) /\ Ends(s) /\ UNCHANGED <<handed, greeted>>

\* processSocketIoPacket: an ack is resolved at once, an event is decoded
ProcessPacket(s, kind, id) ==
  IF kind = "ack"
  THEN /\ Returned(s) /\ ResolveAck(s, id)
       /\ UNCHANGED <<connVars, connected, heartbeat, nextAck, greeted, ended>>
  ELSE /\ Awaits(s, "decode")
       /\ UNCHANGED <<connVars, connected, heartbeat, acks, nextAck, ghostVars>>

Current(s, kind) == s = socket /\ Head1(s).kind = kind

\* handleSocketMessage and handleTextFrame, for the head of the chain of s
TakeStale(s) == Turn(s) /\ s # socket /\ Dropped(s)
\* Engine.IO open or ping: the heartbeat is renewed and answered, an open by
\* the request for the namespace
FaultyTakeBeat(s) ==
  /\ Turn(s) /\ Current(s, "beat")
  /\ Returned(s) /\ UNCHANGED heartbeat /\ greeted' = greeted \cup {s}
  /\ UNCHANGED <<connVars, connected, binary, acks, nextAck, handed, ended>>
TakeBeat(s) ==
  /\ Turn(s) /\ Current(s, "beat")
  /\ Returned(s) /\ heartbeat' = s /\ greeted' = greeted \cup {s}
  /\ UNCHANGED <<connVars, connected, binary, acks, nextAck, handed, ended>>
TakeConnect(s) ==
  /\ Turn(s) /\ Current(s, "connect")
  /\ Returned(s) /\ connected' = TRUE
  /\ handshake' = Nothing
  /\ attempt' = IF handshake = Nothing THEN attempt ELSE [attempt EXCEPT ![handshake] = "resolved"]
  /\ UNCHANGED <<ws, socket, connecting, heartbeat, binary, acks, nextAck, ghostVars>>
TakeEnd(s) ==
  /\ Turn(s) /\ (Current(s, "disconnect") \/ Current(s, "error"))
  /\ Invalid(s)
TakePacket(s) ==
  /\ Turn(s) /\ (Current(s, "event") \/ Current(s, "ack"))
  /\ ProcessPacket(s, Head1(s).kind, Head1(s).n)
  /\ UNCHANGED binary
TakeHeader(s) ==
  /\ Turn(s) /\ Current(s, "header")
  /\ IF binary # Nothing THEN Invalid(s)
     ELSE /\ Returned(s)
          /\ \E kind \in {"event", "ack"} :
               binary' = [kind |-> kind, n |-> 0, missing |-> Head1(s).n]
          /\ UNCHANGED <<connVars, connected, heartbeat, acks, nextAck, ghostVars>>
TakeBinary(s) ==
  /\ Turn(s) /\ Current(s, "binary")
  /\ Awaits(s, "bytes")
  /\ UNCHANGED <<connVars, protocolVars, ghostVars>>

\* handleBinaryFrame: a frame of its own, an attachment, or the last one
BytesRead(s) ==
  /\ stage[s] = "bytes"
  /\ \/ s # socket /\ Dropped(s)
     \/ /\ s = socket /\ binary = Nothing
        /\ Deliver(s) /\ Returned(s)
        /\ UNCHANGED <<connVars, protocolVars, greeted, ended>>
     \/ /\ s = socket /\ binary # Nothing /\ binary.missing > 1
        /\ binary' = [binary EXCEPT !.missing = @ - 1] /\ Returned(s)
        /\ UNCHANGED <<connVars, connected, heartbeat, acks, nextAck, ghostVars>>
     \/ /\ s = socket /\ binary # Nothing /\ binary.missing = 1
        /\ binary' = Nothing
        /\ ProcessPacket(s, binary.kind, binary.n)

\* processSocketIoEvent after the asynchronous normalisation
Decoded(s) ==
  /\ stage[s] = "decode"
  /\ \/ s # socket /\ Dropped(s)
     \/ /\ s = socket
        /\ Deliver(s) /\ Returned(s) /\ UNCHANGED <<connVars, protocolVars, greeted, ended>>

Take(s) ==
  /\ \/ TakeStale(s) \/ TakeBeat(s) \/ TakeConnect(s) \/ TakeEnd(s)
     \/ TakePacket(s) \/ TakeHeader(s) \/ TakeBinary(s) \/ BytesRead(s) \/ Decoded(s)
  /\ UNCHANGED <<frames, emits>>

(***************************************************************************)
(* The transport.                                                          *)
(***************************************************************************)
\* a close or error event; the listeners of a released socket stay installed
TransportEnds(s) ==
  /\ ws[s] \in {"open", "closed"} /\ Drained
  /\ IF s # socket
     THEN ws' = [ws EXCEPT ![s] = "gone"]
          /\ UNCHANGED <<attempt, socket, connecting, handshake, protocolVars, ended>>
     ELSE Ends(s)
  /\ UNCHANGED <<queueVars, handed, greeted, frames, emits>>

HeartbeatFires ==
  /\ heartbeat # Nothing /\ Drained
  /\ Ends(heartbeat)
  /\ UNCHANGED <<queueVars, handed, greeted, frames, emits>>

-----------------------------------------------------------------------------
SocketInit ==
  /\ attempt = [i \in Attempts |-> "none"] /\ ws = [i \in Attempts |-> "none"]
  /\ socket = Nothing /\ connecting = Nothing /\ handshake = Nothing
  /\ connected = FALSE /\ heartbeat = Nothing /\ binary = Nothing /\ acks = {} /\ nextAck = 0
  /\ queue = [i \in Attempts |-> <<>>] /\ stage = [i \in Attempts |-> "idle"] /\ queued = 0
  /\ handed = {} /\ greeted = {}
  /\ ended = [i \in Attempts |-> [reports |-> 0, closed |-> FALSE]]
  /\ frames = 0 /\ emits = 0

Continuation(i) == Open(i) \/ Opened(i) \/ HandshakeTimesOut(i) \/ Settle(i)

SocketNext ==
  \/ \E i \in Attempts : Connect(i) \/ Continuation(i)
  \/ \E s \in Attempts : Arrive(s) \/ Take(s) \/ TransportEnds(s)
  \/ Close \/ Emit \/ AckTimesOut \/ HeartbeatFires

SocketSpec == SocketInit /\ [][SocketNext]_socketVars

\* promises are continued and timers fire; the server owes nothing
SocketFairness ==
  /\ \A i \in Attempts : WF_socketVars(Continuation(i)) /\ WF_socketVars(Take(i))
  /\ WF_socketVars(HeartbeatFires)

SocketFairSpec == SocketSpec /\ SocketFairness

-----------------------------------------------------------------------------
(***************************************************************************)
(* Properties.                                                             *)
(***************************************************************************)
\* A WebSocket that was accepted is the object's current one, closed, or about
\* to be looked at by the connect() that opened it (connect, releaseSocket):
\* no interleaving of close(), timeouts and aborts leaves one open.
NoOrphanWebSocket ==
  \A i \in Attempts : ws[i] = "open" => socket = i \/ attempt[i] = "opened"

\* Whatever is handed to the owner came over the object's current socket, and
\* an answer over the socket its request was sent on, although decoding awaits
\* and ack ids start again at 0 with every socket (resolveAck, the comparison
\* with this.socket after each await).
HandedFromOwnSocket == \A pair \in handed : pair[1] = pair[2]

\* queuedBytes is what the chains hold, those of released sockets included:
\* it neither leaks, which would refuse every frame in the end, nor forgets.
Chained == UNION {{s} \X (1..Len(queue[s])) : s \in Attempts}
BytesAccounted == queued = Cardinality(Chained)

\* Neither a WebSocket nor a byte of the frame limit is ever lost track of, and
\* no frame or answer is taken for one of another socket.
SocketIsOwned == NoOrphanWebSocket /\ BytesAccounted /\ HandedFromOwnSocket

\* A connection that connect() returned and that is lost was closed by the
\* owner or reported to it, once (handleRemoteDisconnect, handleSocketError).
LossIsReported ==
  \A s \in Attempts :
    /\ ended[s].reports + (IF ended[s].closed THEN 1 ELSE 0) <= 1
    /\ attempt[s] = "connected" /\ socket # s => ended[s].closed \/ ended[s].reports = 1

\* Every connect() returns or throws, however it is superseded (openSignal-
\* WebSocket and completeHandshake have a timeout each).
ConnectSettles ==
  \A i \in Attempts : []<>(attempt[i] \in {"none", "connected", "failed"})

\* When the server falls silent its socket is let go, and so are the frames
\* still queued (renewHeartbeat, the handshake's timeout, the chain's finally).
SilenceEnds == []<>(socket = Nothing /\ queued = 0)

\* Whatever the server and the network do, attempts and sockets end.
EverythingEnds == ConnectSettles /\ SilenceEnds
=============================================================================
