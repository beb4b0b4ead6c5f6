--------------------------- MODULE RemoteNegotiation ---------------------------
(***************************************************************************)
(* The WebRTC negotiation of the page: BrowserRemoteSession                *)
(* (frontend/src/remote/browserRemoteSession.ts) and the controller that   *)
(* creates, closes and times it out (useBrowserRemoteSessionController.ts).*)
(*                                                                         *)
(* A session object is created by one start and never started again.  The  *)
(* flows that run in it are that start, named like the session, and the    *)
(* reads that bring signal events (SignalPolling.tla).  pc[f] is the await *)
(* a flow stands at.  A browser chains the operations of one peer; here    *)
(* they finish in any order, which covers the chained one.  An operation   *)
(* on a closed peer may finish or never do so: either way the flow is over.*)
(* Data channels, input, clipboard and the debug log are not part of this. *)
(***************************************************************************)
EXTENDS Naturals, Sequences, SequencesExt

CONSTANTS
  MaxSessions,     \* bound: session objects
  Reads,           \* the reads that may overlap
  None,            \* no session; an event without the ids of its session
  Tagged,          \* events carry app_control_id or ice_id
  MaxEvents,       \* bound: signal events
  Settings         \* the surroundings explored: whether the peer has getStats and
                   \* addIceCandidate may reject, and, as bounds, the sessions, reads,
                   \* events and switch_network_notify events there may be

ASSUME NoneAssumption  == None \notin Nat
ASSUME ReadsAssumption == Reads \cap Nat = {} /\ None \notin Reads
ASSUME SwitchAssumption == Tagged \in BOOLEAN
ASSUME BoundsAssumption == {MaxSessions, MaxEvents} \subseteq Nat
ASSUME SettingsAssumption ==
  Settings \subseteq [stats : BOOLEAN, errors : BOOLEAN, sessions : 0..MaxSessions,
                     reads : SUBSET Reads, events : 0..MaxEvents, notifies : Nat]

Sessions == 1..MaxSessions
Flows == Sessions \cup Reads

VARIABLES
  setting,     \* the surroundings of this behaviour
  log,         \* inbound signal events; the id of an event is its index
  \* the page
  sessionRef,  \* sessionRef.current
  ui,          \* the session state React shows
  cursor,      \* lastSignalEventIdRef
  \* the session objects
  generation,  \* lifecycleGeneration
  stage, media,     \* state.stage; tracks and frames have come
  processed,   \* processedSignalEventIds
  queued,      \* queuedCandidates, as event ids
  \* their peer connections
  signaling,   \* signalingState, "none" before there is a peer
  remote,      \* the answer in remoteDescription, 0 if there is none
  added,       \* remote candidates
  offers,      \* history: offers sent over the gateway: [restart: Nat], 0 = first
  \* the flows
  pc, target, flowGen, after, batch, rest

pageVars == <<sessionRef, ui, cursor>>
sessionVars == <<generation, stage, media, processed, queued>>
peerVars == <<signaling, remote, added, offers>>
flowVars == <<pc, target, flowGen, after, batch, rest>>
vars == <<setting, log, pageVars, sessionVars, peerVars, flowVars>>

EventType == [kind : {"answer", "candidate", "notify"}, of : Sessions,
              tag : Sessions \cup {None}, to : 0..MaxEvents]
EventIds == 1..MaxEvents
Stages == {"idle", "controlled", "offered", "connected"}
Places == {"idle", "control", "offer", "local", "soac", "done",
           "asked", "next", "answering", "flushing", "adding", "stats"}

TypeOK ==
  /\ setting \in Settings
  /\ log \in Seq(EventType) /\ Len(log) <= MaxEvents
  /\ sessionRef \in Sessions \cup {None}
  /\ ui \in [stage : Stages, media : BOOLEAN]
  /\ cursor \in 0..MaxEvents
  /\ generation \in [Sessions -> Nat]
  /\ stage \in [Sessions -> Stages] /\ media \in [Sessions -> BOOLEAN]
  /\ processed \in [Sessions -> SUBSET EventIds]
  /\ queued \in [Sessions -> Seq(EventIds)]
  /\ signaling \in [Sessions -> {"none", "stable", "have-local-offer", "closed"}]
  /\ remote \in [Sessions -> 0..MaxEvents]
  /\ added \in [Sessions -> SUBSET EventIds]
  /\ offers \in [Sessions -> Seq(0..MaxEvents)]
  /\ pc \in [Flows -> Places]
  /\ target \in [Flows -> Sessions \cup {None}]
  /\ flowGen \in [Flows -> Nat]
  /\ after \in [Reads -> 0..MaxEvents]
  /\ batch \in [Reads -> Seq(DOMAIN log)] /\ rest \in [Reads -> Seq(DOMAIN log)]
  /\ \A p \in Reads : pc[p] \in {"answering", "flushing", "adding"} => batch[p] # <<>>

Init ==
  /\ setting \in Settings
  /\ log = <<>>
  /\ sessionRef = None /\ ui = [stage |-> "idle", media |-> FALSE] /\ cursor = 0
  /\ generation = [s \in Sessions |-> 0]
  /\ stage = [s \in Sessions |-> "idle"] /\ media = [s \in Sessions |-> FALSE]
  /\ processed = [s \in Sessions |-> {}] /\ queued = [s \in Sessions |-> <<>>]
  /\ signaling = [s \in Sessions |-> "none"] /\ remote = [s \in Sessions |-> 0]
  /\ added = [s \in Sessions |-> {}] /\ offers = [s \in Sessions |-> <<>>]
  /\ pc = [f \in Flows |-> "idle"]
  /\ target = [f \in Flows |-> IF f \in Sessions THEN f ELSE None]
  /\ flowGen = [f \in Flows |-> 0]
  /\ after = [p \in Reads |-> 0]
  /\ batch = [p \in Reads |-> <<>>] /\ rest = [p \in Reads |-> <<>>]

-----------------------------------------------------------------------------
(* Helpers. *)

HasPeer(s) == signaling[s] \in {"stable", "have-local-offer"}

\* isLifecycleGenerationCurrent() for the generation a flow began with.
FaultyCurrent(f) == TRUE
Current(f) == generation[target[f]] = flowGen[f]

Matches(e, s) == log[e].tag \in {None, s}

\* setState() of session s, which publishes what it sets.
SetState(s, newStage, newMedia) ==
  /\ stage' = [stage EXCEPT ![s] = newStage]
  /\ media' = [media EXCEPT ![s] = newMedia]
  /\ ui' = [stage |-> newStage, media |-> newMedia]

\* close() of session s drops the peer; the page sees the last, idle state.
CloseObject(s) ==
  /\ generation' = [generation EXCEPT ![s] = @ + 1]
  /\ signaling' = [signaling EXCEPT ![s] = IF HasPeer(s) THEN "closed" ELSE @]
  /\ remote' = [remote EXCEPT ![s] = 0] /\ added' = [added EXCEPT ![s] = {}]
  /\ processed' = [processed EXCEPT ![s] = {}]
  /\ queued' = [queued EXCEPT ![s] = <<>>]
  /\ SetState(s, "idle", FALSE)

GoTo(f, place) == pc' = [pc EXCEPT ![f] = place]

\* The flow is over, normally or by an exception.
Over(f) ==
  /\ pc' = [pc EXCEPT ![f] = IF f \in Reads THEN "idle" ELSE "done"]
  /\ target' = [target EXCEPT ![f] = IF f \in Reads THEN None ELSE @]
  /\ flowGen' = [flowGen EXCEPT ![f] = 0]
  /\ batch' = [p \in Reads |-> IF p = f THEN <<>> ELSE batch[p]]
  /\ rest' = [p \in Reads |-> IF p = f THEN <<>> ELSE rest[p]]
  /\ UNCHANGED after

\* applySignalEvents() is done with the event at hand and remembers its id.
NextEvent(p) ==
  /\ processed' = [processed EXCEPT ![target[p]] = @ \cup {Head(batch[p])}]
  /\ batch' = [batch EXCEPT ![p] = Tail(@)]
  /\ rest' = [rest EXCEPT ![p] = <<>>]
  /\ GoTo(p, "next")
  /\ UNCHANGED <<target, flowGen, after>>

-----------------------------------------------------------------------------
(* The controller. *)

\* start(): close the former session, create the next one, send the control request.
SessionStarts(s) ==
  /\ s <= setting.sessions
  /\ generation[s] = 0 /\ \A t \in Sessions : t < s => generation[t] > 0
  /\ IF sessionRef = None
     THEN /\ generation' = [generation EXCEPT ![s] = 1]
          /\ UNCHANGED <<signaling, remote, added, processed, queued, stage, media, ui>>
     ELSE /\ generation' = [generation EXCEPT ![sessionRef] = @ + 1, ![s] = 1]
          /\ signaling' = [signaling EXCEPT ![sessionRef] = IF HasPeer(sessionRef) THEN "closed" ELSE @]
          /\ remote' = [remote EXCEPT ![sessionRef] = 0] /\ added' = [added EXCEPT ![sessionRef] = {}]
          /\ processed' = [processed EXCEPT ![sessionRef] = {}]
          /\ queued' = [queued EXCEPT ![sessionRef] = <<>>]
          /\ SetState(sessionRef, "idle", FALSE)
  /\ sessionRef' = s
  /\ flowGen' = [flowGen EXCEPT ![s] = 1]
  /\ GoTo(s, "control")
  /\ UNCHANGED <<setting, log, cursor, offers, target, after, batch, rest>>

\* close(), by a disconnect, a reconnect or when the page is left.
SessionCloses ==
  /\ sessionRef # None
  /\ CloseObject(sessionRef)
  /\ sessionRef' = None
  /\ UNCHANGED <<setting, log, cursor, offers, flowVars>>

\* What the effect of the controller waits for, judged by the state that is shown.
FaultyWaiting(state) == state.stage = "offered" \/ (state.stage = "connected" /\ ~state.media)
Waiting(state) ==
  \/ state.stage \in {"controlled", "offered"}
  \/ state.stage = "connected" /\ ~state.media

\* 20 s have passed: fail() closes the session, which stays the current one.
TimesOut ==
  /\ sessionRef # None /\ Waiting(ui)
  /\ CloseObject(sessionRef)
  /\ UNCHANGED <<setting, log, sessionRef, cursor, offers, flowVars>>

-----------------------------------------------------------------------------
(* start() and createAndSendLocalOffer(). *)

Aborted(f, place) ==
  /\ pc[f] = place /\ ~Current(f)
  /\ Over(f)
  /\ UNCHANGED <<setting, log, pageVars, sessionVars, peerVars>>

\* A request, or an operation of the peer, is refused.
Refused(f) ==
  /\ pc[f] \in {"control", "offer", "local", "soac", "asked"}
  /\ Over(f)
  /\ UNCHANGED <<setting, log, pageVars, sessionVars, peerVars>>

ControlAcked(s) ==
  /\ pc[s] = "control" /\ Current(s)
  /\ signaling' = [signaling EXCEPT ![s] = "stable"]
  /\ processed' = [processed EXCEPT ![s] = {}]
  /\ SetState(s, "controlled", FALSE)
  /\ GoTo(s, "offer")
  /\ UNCHANGED <<setting, log, sessionRef, cursor, generation, queued, remote, added, offers,
                 target, flowGen, after, batch, rest>>

OfferCreated(f) ==
  /\ pc[f] = "offer" /\ Current(f)
  /\ GoTo(f, "local")
  /\ UNCHANGED <<setting, log, pageVars, sessionVars, peerVars, target, flowGen, after, batch, rest>>

\* The event an offer is made for: the notification of a restart, none at first.
Cause(f) == IF f \in Reads THEN Head(batch[f]) ELSE 0

\* setLocalDescription() is done and the offer goes out.
FaultyLocalSet(f) ==
  /\ pc[f] = "local"
  /\ signaling' = [signaling EXCEPT ![target[f]] = IF HasPeer(target[f]) THEN "have-local-offer" ELSE @]
  /\ offers' = [offers EXCEPT ![target[f]] = Append(@, Cause(f))]
  /\ GoTo(f, "soac")
  /\ UNCHANGED <<setting, log, pageVars, sessionVars, remote, added, target, flowGen, after, batch, rest>>
LocalSet(f) ==
  /\ pc[f] = "local" /\ Current(f)
  /\ signaling' = [signaling EXCEPT ![target[f]] = "have-local-offer"]
  /\ offers' = [offers EXCEPT ![target[f]] = Append(@, Cause(f))]
  /\ GoTo(f, "soac")
  /\ UNCHANGED <<setting, log, pageVars, sessionVars, remote, added, target, flowGen, after, batch, rest>>

\* The gateway has answered the first offer: the session is "offered", whatever came meanwhile.
StartOffered(s) ==
  /\ pc[s] = "soac" /\ Current(s)
  /\ SetState(s, "offered", media[s])
  /\ Over(s)
  /\ UNCHANGED <<setting, log, sessionRef, cursor, generation, processed, queued, peerVars>>

RestartSent(p) ==
  /\ pc[p] = "soac" /\ Current(p)
  /\ NextEvent(p)
  /\ UNCHANGED <<setting, log, pageVars, generation, stage, media, queued, peerVars>>

-----------------------------------------------------------------------------
(* A read and applySignalEvents(). *)

Poll(p) ==
  /\ p \in setting.reads /\ pc[p] = "idle" /\ sessionRef # None
  /\ GoTo(p, "asked")
  /\ target' = [target EXCEPT ![p] = sessionRef]
  /\ after' = [after EXCEPT ![p] = cursor]
  /\ UNCHANGED <<setting, log, pageVars, sessionVars, peerVars, flowGen, batch, rest>>

\* What the gateway serves: the events with a greater id.
Unread(p) == [i \in 1..(Len(log) - after[p]) |-> after[p] + i]

Served(p) ==
  /\ pc[p] = "asked" /\ target[p] = sessionRef
  /\ batch' = [batch EXCEPT ![p] = Unread(p)]
  /\ cursor' = Len(log)
  /\ flowGen' = [flowGen EXCEPT ![p] = generation[sessionRef]]
  /\ after' = [after EXCEPT ![p] = 0]
  /\ GoTo(p, "next")
  /\ UNCHANGED <<setting, log, sessionRef, ui, sessionVars, peerVars, target, rest>>

ServedLate(p) ==
  /\ pc[p] = "asked" /\ target[p] # sessionRef
  /\ Over(p)
  /\ UNCHANGED <<setting, log, pageVars, sessionVars, peerVars>>

\* The loop at its next event, which has not been processed yet.
At(p, kind) ==
  /\ pc[p] = "next" /\ batch[p] # <<>> /\ Current(p)
  /\ Head(batch[p]) \notin processed[target[p]]
  /\ log[Head(batch[p])].kind = kind

Applies(p) == HasPeer(target[p]) /\ Matches(Head(batch[p]), target[p])

SkipProcessed(p) ==
  /\ pc[p] = "next" /\ batch[p] # <<>> /\ Current(p)
  /\ Head(batch[p]) \in processed[target[p]]
  /\ batch' = [batch EXCEPT ![p] = Tail(@)]
  /\ UNCHANGED <<setting, log, pageVars, sessionVars, peerVars, pc, target, flowGen, after, rest>>

\* Events of another session, or that come when there is no peer or no offer to answer.
Ignore(p) ==
  /\ \/ At(p, "answer") /\ ~(Applies(p) /\ signaling[target[p]] = "have-local-offer")
     \/ (At(p, "candidate") \/ At(p, "notify")) /\ ~Applies(p)
  /\ NextEvent(p)
  /\ UNCHANGED <<setting, log, pageVars, generation, stage, media, queued, peerVars>>

ApplyAnswer(p) ==
  /\ At(p, "answer") /\ Applies(p) /\ signaling[target[p]] = "have-local-offer"
  /\ GoTo(p, "answering")
  /\ UNCHANGED <<setting, log, pageVars, sessionVars, peerVars, target, flowGen, after, batch, rest>>

\* setRemoteDescription() succeeds: the answer ends the wait, the queue is taken for flushing.
AnswerSet(p) ==
  LET s == target[p] IN
  /\ pc[p] = "answering" /\ Current(p) /\ signaling[s] = "have-local-offer"
  /\ signaling' = [signaling EXCEPT ![s] = "stable"]
  /\ remote' = [remote EXCEPT ![s] = Head(batch[p])]
  /\ SetState(s, "connected", media[s])
  /\ queued' = [queued EXCEPT ![s] = <<>>]
  /\ IF queued[s] = <<>>
     THEN NextEvent(p)
     ELSE /\ rest' = [rest EXCEPT ![p] = queued[s]]
          /\ GoTo(p, "flushing")
          /\ UNCHANGED <<processed, target, flowGen, after, batch>>
  /\ UNCHANGED <<setting, log, sessionRef, cursor, generation, added, offers>>

\* It rejects, because another read was faster or the SDP is no good.
AnswerRejected(p) ==
  /\ pc[p] = "answering" /\ Current(p)
  /\ NextEvent(p)
  /\ UNCHANGED <<setting, log, pageVars, generation, stage, media, queued, peerVars>>

QueueCandidate(p) ==
  /\ At(p, "candidate") /\ Applies(p) /\ remote[target[p]] = 0
  /\ queued' = [queued EXCEPT ![target[p]] = Append(@, Head(batch[p]))]
  /\ NextEvent(p)
  /\ UNCHANGED <<setting, log, pageVars, generation, stage, media, peerVars>>

ApplyCandidate(p) ==
  /\ At(p, "candidate") /\ Applies(p) /\ remote[target[p]] # 0
  /\ GoTo(p, "adding")
  /\ UNCHANGED <<setting, log, pageVars, sessionVars, peerVars, target, flowGen, after, batch, rest>>

CandidateAdded(p) ==
  /\ pc[p] = "adding" /\ Current(p)
  /\ added' = [added EXCEPT ![target[p]] = @ \cup {Head(batch[p])}]
  /\ NextEvent(p)
  /\ UNCHANGED <<setting, log, pageVars, generation, stage, media, queued, signaling, remote, offers>>

\* flushQueuedCandidates(), one candidate after the other.
FaultyFlushed(p) ==
  /\ pc[p] = "flushing" /\ Current(p)
  /\ added' = [added EXCEPT ![target[p]] = @ \cup {Head(rest[p])}]
  /\ NextEvent(p)
  /\ UNCHANGED <<setting, log, pageVars, generation, stage, media, queued, signaling, remote, offers>>
Flushed(p) ==
  /\ pc[p] = "flushing" /\ Current(p)
  /\ added' = [added EXCEPT ![target[p]] = @ \cup {Head(rest[p])}]
  /\ IF Len(rest[p]) = 1
     THEN NextEvent(p)
     ELSE /\ rest' = [rest EXCEPT ![p] = Tail(@)]
          /\ UNCHANGED <<processed, pc, target, flowGen, after, batch>>
  /\ UNCHANGED <<setting, log, pageVars, generation, stage, media, queued, signaling, remote, offers>>

\* addIceCandidate() rejects: the exception ends the read, and with it the batch and the flush.
CandidateRejected(p) ==
  /\ setting.errors
  /\ pc[p] \in {"adding", "flushing"} /\ Current(p)
  /\ Over(p)
  /\ UNCHANGED <<setting, log, pageVars, sessionVars, peerVars>>

\* applySwitchNetworkNotify() restarts ICE with a new offer.
RestartIce(p) ==
  /\ At(p, "notify") /\ Applies(p)
  /\ GoTo(p, "offer")
  /\ UNCHANGED <<setting, log, pageVars, sessionVars, peerVars, target, flowGen, after, batch, rest>>

\* The batch is through: the page samples the peer and shows the session's state.
BatchDone(p) ==
  /\ pc[p] = "next" /\ batch[p] = <<>> /\ Current(p) /\ target[p] = sessionRef
  /\ IF setting.stats /\ HasPeer(target[p])
     THEN GoTo(p, "stats") /\ UNCHANGED <<ui, target, flowGen, after, batch, rest>>
     ELSE /\ ui' = [stage |-> stage[sessionRef], media |-> media[sessionRef]]
          /\ Over(p)
  /\ UNCHANGED <<setting, log, sessionRef, cursor, sessionVars, peerVars>>

\* getStats() returned: the session publishes its state without asking whether it is closed.
Sampled(p) ==
  /\ pc[p] = "stats"
  /\ ui' = [stage |-> stage[target[p]], media |-> media[target[p]]]
  /\ Over(p)
  /\ UNCHANGED <<setting, log, sessionRef, cursor, sessionVars, peerVars>>

\* The session was closed or replaced while the loop waited.
Overtaken(p) ==
  /\ \/ pc[p] \in {"next", "answering", "flushing", "adding"} /\ ~Current(p)
     \/ pc[p] = "next" /\ batch[p] = <<>> /\ target[p] # sessionRef
  /\ Over(p)
  /\ UNCHANGED <<setting, log, pageVars, sessionVars, peerVars>>

-----------------------------------------------------------------------------
(* The controlled device, as far as the gateway passes on its events. *)

Sends(s, kind, to) ==
  /\ Len(log) < setting.events
  /\ \E tag \in (IF Tagged THEN {s} ELSE {s, None}) :
       log' = Append(log, [kind |-> kind, of |-> s, tag |-> tag, to |-> to])
  /\ UNCHANGED <<setting, pageVars, sessionVars, peerVars, flowVars>>

Answers(s) ==
  \E n \in 1..Len(offers[s]) :
    /\ \A i \in 1..Len(log) : ~(log[i].of = s /\ log[i].kind = "answer" /\ log[i].to = n)
    /\ Sends(s, "answer", n)

Trickles(s) == offers[s] # <<>> /\ Sends(s, "candidate", 0)

Notifies(s) ==
  /\ signaling[s] # "none"
  /\ Len(SelectSeq(log, LAMBDA e : e.kind = "notify")) < setting.notifies
  /\ Sends(s, "notify", 0)

\* Tracks and frames arrive.
MediaArrives(s) ==
  /\ HasPeer(s) /\ remote[s] # 0 /\ ~media[s]
  /\ SetState(s, stage[s], TRUE)
  /\ UNCHANGED <<setting, log, sessionRef, cursor, generation, processed, queued, peerVars, flowVars>>

-----------------------------------------------------------------------------
Start(s) ==
  \/ ControlAcked(s) \/ StartOffered(s) \/ Aborted(s, "control")

Offering(f) ==
  \/ OfferCreated(f) \/ LocalSet(f)
  \/ \E place \in {"offer", "local", "soac"} : Aborted(f, place)

Apply(p) ==
  \/ SkipProcessed(p) \/ Ignore(p) \/ ApplyAnswer(p) \/ AnswerSet(p) \/ AnswerRejected(p)
  \/ QueueCandidate(p) \/ ApplyCandidate(p) \/ CandidateAdded(p) \/ Flushed(p)
  \/ CandidateRejected(p) \/ RestartIce(p) \/ RestartSent(p)
  \/ BatchDone(p) \/ Sampled(p) \/ Overtaken(p)

Device(s) == Answers(s) \/ Trickles(s) \/ Notifies(s) \/ MediaArrives(s)

Next ==
  \/ \E s \in Sessions : SessionStarts(s) \/ Start(s) \/ Device(s)
  \/ \E f \in Flows : Offering(f) \/ Refused(f)
  \/ \E p \in Reads : Poll(p) \/ Served(p) \/ ServedLate(p) \/ Apply(p)
  \/ SessionCloses \/ TimesOut

Spec == Init /\ [][Next]_vars

\* The timer of the controller fires.
FairSpec == Spec /\ WF_vars(TimesOut)

-----------------------------------------------------------------------------
(* Properties. *)

Live(s) == generation[s] = 1

\* A session that was closed, failed or replaced stays so: no answer, candidate, offer or
\* start that was still waiting revives its stage or its queue.
ClosedStaysClosed ==
  \A s \in Sessions : generation[s] > 1 =>
    stage[s] = "idle" /\ ~media[s] /\ ~HasPeer(s) /\ queued[s] = <<>>

\* Nothing is negotiated any more in the name of a closed session: its offers, the one of
\* start() as well as those of an ICE restart, are not sent after close().
NoOfferAfterClose ==
  [][\A s \in Sessions : offers'[s] # offers[s] => Live(s)]_vars

\* No candidate waits for an answer that is already there.
QueueEndsWithAnswer == \A s \in Sessions : remote[s] # 0 => queued[s] = <<>>

\* No remote candidate is lost: one that was processed is with the peer, in the queue, or in
\* the hands of a flush, although reads overlap each other and the answer, and none is left
\* in the queue by the answer.  (A candidate that the peer rejects takes those behind it in
\* the queue with it.)
CandidatesAreKept ==
  /\ QueueEndsWithAnswer
  /\ ~setting.errors => \A s \in Sessions : Live(s) =>
       \A e \in processed[s] : log[e].kind = "candidate" /\ log[e].of = s /\ HasPeer(s) =>
         \/ e \in added[s] \cup ToSet(queued[s])
         \/ \E p \in Reads : target[p] = s /\ e \in ToSet(rest[p])

\* An answer or a candidate for one session is never applied to its successor, although both
\* read the same event log.
OwnEventsOnly ==
  \A s \in Sessions :
    /\ remote[s] # 0 => log[remote[s]].of = s
    /\ \A e \in added[s] \cup ToSet(queued[s]) : log[e].of = s

\* The events of the gateway reach the session they belong to, and none but that one.
EventsReachTheirSession == CandidatesAreKept /\ OwnEventsOnly

\* The page shows the state of its current session: what the timer and the controls go by.
\* (Statistics that return late break it: implementation-notes.md:32 says that they check
\* the current session, refreshConnectionStats() does not.)
UiShowsSession == ~setting.stats =>
  ui = IF sessionRef = None THEN [stage |-> "idle", media |-> FALSE]
       ELSE [stage |-> stage[sessionRef], media |-> media[sessionRef]]

\* No session waits forever for an answer or for media: the timer fires for both waits, also
\* when a request of the start never succeeds (implementation-notes.md:33).
\* (A session that replaces another one begins idle, so neither wait passes over to it.)
Unanswered == sessionRef # None /\ stage[sessionRef] \in {"controlled", "offered"}
Dark == sessionRef # None /\ stage[sessionRef] = "connected" /\ ~media[sessionRef]

NegotiationEnds == (Unanswered ~> ~Unanswered) /\ (Dark ~> ~Dark)
=============================================================================
