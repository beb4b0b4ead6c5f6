------------------------ MODULE RemoteNegotiationProofs ------------------------
(***************************************************************************)
(* Proofs about the browser's WebRTC sessions, for any number of sessions, *)
(* overlapping reads and events, with or without statistics and rejected   *)
(* candidates:                                                             *)
(*   - a closed session stays closed and sends no offer                    *)
(*     (ClosedStaysClosed, NoOfferAfterClose);                             *)
(*   - without statistics the page shows its current session               *)
(*     (UiShowsSession);                                                   *)
(*   - when events name their session, none reaches another session and no *)
(*     candidate is lost (EventsReachTheirSession).                        *)
(*                                                                         *)
(* The invariant of the first has two halves that speak of different       *)
(* variables: what a session that is not live looks like, and which        *)
(* generation the flows carry that are about to change a session.  The     *)
(* others build on it.                                                     *)
(***************************************************************************)
EXTENDS RemoteNegotiation, SequenceTheorems, TLAPS

-----------------------------------------------------------------------------
(* The sessions. *)

SessionTypes ==
  /\ generation \in [Sessions -> Nat]
  /\ DOMAIN stage = Sessions /\ DOMAIN media = Sessions /\ DOMAIN queued = Sessions
  /\ DOMAIN signaling = Sessions /\ DOMAIN offers = Sessions
  /\ sessionRef \in Sessions \cup {None}

\* Nothing is set up in session s.
Blank(s) == stage[s] = "idle" /\ ~media[s] /\ ~HasPeer(s) /\ queued[s] = <<>>

\* Only a live session has anything, and the current session has been started.
SessionInv ==
  /\ SessionTypes
  /\ \A s \in Sessions : ~Live(s) => Blank(s)
  /\ sessionRef # None => generation[sessionRef] >= 1

seen == <<generation, stage, media, queued, signaling, offers, sessionRef>>

LEMMA SessionsUnchanged == ASSUME SessionInv, UNCHANGED seen PROVE SessionInv'
  BY DEF SessionInv, SessionTypes, Blank, HasPeer, Live, seen

\* A live session may change in any way.
LEMMA LiveMayChange ==
  ASSUME SessionInv, NEW s \in Sessions, Live(s),
         UNCHANGED <<generation, sessionRef>>,
         DOMAIN stage' = Sessions, DOMAIN media' = Sessions, DOMAIN queued' = Sessions,
         DOMAIN signaling' = Sessions, DOMAIN offers' = Sessions,
         \A t \in Sessions \ {s} :
           UNCHANGED <<stage[t], media[t], queued[t], signaling[t]>>
  PROVE  SessionInv'
  BY DEF SessionInv, SessionTypes, Blank, HasPeer, Live

\* close() leaves a blank session behind.
LEMMA CloseBlanks ==
  ASSUME SessionInv, NEW s \in Sessions, generation[s] >= 1, CloseObject(s),
         UNCHANGED offers, sessionRef' \in {sessionRef, None}
  PROVE  SessionInv'
  <1>1. /\ generation' = [generation EXCEPT ![s] = @ + 1]
        /\ signaling' = [signaling EXCEPT ![s] = IF HasPeer(s) THEN "closed" ELSE @]
        /\ queued' = [queued EXCEPT ![s] = <<>>]
        /\ stage' = [stage EXCEPT ![s] = "idle"]
        /\ media' = [media EXCEPT ![s] = FALSE]
    BY DEF CloseObject, SetState
  <1>2. SessionTypes'
    BY <1>1 DEF SessionInv, SessionTypes
  <1>3. ASSUME NEW t \in Sessions, ~Live(t)' PROVE Blank(t)'
    <2>1. CASE t = s
      BY <1>1, <2>1 DEF SessionInv, SessionTypes, Blank, HasPeer
    <2>2. CASE t # s
      BY <1>1, <1>3, <2>2 DEF SessionInv, SessionTypes, Blank, HasPeer, Live
    <2> QED  BY <2>1, <2>2
  <1>4. (sessionRef # None => generation[sessionRef] >= 1)'
    BY <1>1 DEF SessionInv, SessionTypes
  <1> QED  BY <1>2, <1>3, <1>4 DEF SessionInv

-----------------------------------------------------------------------------
(* The flows. *)

\* The awaits after which a flow changes its session, or goes on to an await that does.
Working == {"control", "offer", "local", "soac", "answering", "flushing", "adding"}

\* A flow that is at work began in the first, the live, generation of its session.
FlowInv ==
  /\ pc \in [Flows -> Places]
  /\ target \in [Flows -> Sessions \cup {None}]
  /\ flowGen \in [Flows -> Nat]
  /\ \A s \in Sessions : target[s] = s
  /\ \A f \in Flows : pc[f] \in Working => target[f] \in Sessions /\ flowGen[f] = 1
  /\ \A f \in Flows : pc[f] \in {"asked", "next"} => target[f] \in Sessions

LEMMA FlowsUnchanged == ASSUME FlowInv, UNCHANGED <<pc, target, flowGen>> PROVE FlowInv'
  BY DEF FlowInv

LEMMA OverKeeps == ASSUME FlowInv, NEW f \in Flows, Over(f) PROVE FlowInv'
  <1>1. Sessions \cap Reads = {}
    BY ReadsAssumption DEF Sessions
  <1>2. /\ pc' = [pc EXCEPT ![f] = IF f \in Reads THEN "idle" ELSE "done"]
        /\ target' = [target EXCEPT ![f] = IF f \in Reads THEN None ELSE @]
        /\ flowGen' = [flowGen EXCEPT ![f] = 0]
    BY DEF Over
  <1> QED  BY <1>1, <1>2 DEF FlowInv, Flows, Places, Working

LEMMA GoToKeeps ==
  ASSUME FlowInv, NEW f \in Flows, NEW place \in Places, GoTo(f, place),
         UNCHANGED <<target, flowGen>>,
         place \in Working => target[f] \in Sessions /\ flowGen[f] = 1,
         place \in {"asked", "next"} => target[f] \in Sessions
  PROVE  FlowInv'
  <1>1. pc' = [pc EXCEPT ![f] = place]
    BY DEF GoTo
  <1> QED  BY <1>1 DEF FlowInv

LEMMA NextEventKeeps ==
  ASSUME FlowInv, NEW p \in Reads, NextEvent(p), target[p] \in Sessions PROVE FlowInv'
  <1>1. GoTo(p, "next") /\ UNCHANGED <<target, flowGen>>
    BY DEF NextEvent
  <1> QED  BY <1>1, GoToKeeps DEF Flows, Places, Working

-----------------------------------------------------------------------------
Inv == SessionInv /\ FlowInv

\* A flow at work that is current has a live session.
LEMMA CurrentIsLive ==
  ASSUME Inv, NEW f \in Flows, pc[f] \in Working, Current(f)
  PROVE  target[f] \in Sessions /\ Live(target[f])
  BY DEF Inv, FlowInv, Current, Live

\* An event is applied by a flow that carries the live generation.
LEMMA AppliesIsLive ==
  ASSUME Inv, NEW p \in Reads, pc[p] = "next", Current(p), Applies(p)
  PROVE  target[p] \in Sessions /\ Live(target[p]) /\ flowGen[p] = 1
  BY DEF Inv, FlowInv, SessionInv, Blank, Applies, Current, Live, Flows

-----------------------------------------------------------------------------
(* The controller. *)

LEMMA ControllerStep ==
  ASSUME Inv, (\E s \in Sessions : SessionStarts(s)) \/ SessionCloses \/ TimesOut
  PROVE  Inv'
<1>1. ASSUME NEW s \in Sessions, SessionStarts(s) PROVE Inv'
  <2>1. sessionRef # s /\ generation[s] = 0 /\ sessionRef' = s /\ UNCHANGED offers
    BY <1>1, NoneAssumption DEF SessionStarts, Inv, SessionInv, SessionTypes, Sessions
  <2>2. SessionTypes'
    BY <1>1, <2>1 DEF SessionStarts, SetState, Inv, SessionInv, SessionTypes
  <2>3. ASSUME NEW t \in Sessions, ~Live(t)' PROVE Blank(t)'
    <3>1. CASE sessionRef = None
      BY <1>1, <2>1, <2>3, <3>1 DEF SessionStarts, Inv, SessionInv, SessionTypes, Blank, HasPeer, Live
    <3>2. CASE sessionRef # None /\ t = sessionRef
      BY <1>1, <3>2 DEF SessionStarts, SetState, Inv, SessionInv, SessionTypes, Blank, HasPeer
    <3>3. CASE sessionRef # None /\ t # sessionRef
      <4>1. t # s
        BY <1>1, <2>1, <2>3, <3>3 DEF SessionStarts, Inv, SessionInv, SessionTypes, Live
      <4>2. generation'[t] = generation[t]
        BY <1>1, <3>3, <4>1 DEF SessionStarts, Inv, SessionInv, SessionTypes
      <4>3. Blank(t)
        BY <2>3, <4>2 DEF Inv, SessionInv, Live
      <4> QED
        BY <1>1, <3>3, <4>3 DEF SessionStarts, SetState, Inv, SessionInv, SessionTypes, Blank, HasPeer
    <3> QED  BY <3>1, <3>2, <3>3
  <2>4. generation'[s] = 1
    BY <1>1, <2>1 DEF SessionStarts, Inv, SessionInv, SessionTypes
  <2>5. SessionInv'
    BY <2>1, <2>2, <2>3, <2>4 DEF SessionInv
  <2>6. /\ pc' = [pc EXCEPT ![s] = "control"] /\ flowGen' = [flowGen EXCEPT ![s] = 1]
        /\ UNCHANGED target
    BY <1>1 DEF SessionStarts, GoTo
  <2>7. FlowInv'
    BY <2>6 DEF Inv, FlowInv, Flows, Places, Working
  <2> QED  BY <2>5, <2>7 DEF Inv
<1>2. CASE SessionCloses \/ TimesOut
  <2>1. /\ sessionRef \in Sessions /\ generation[sessionRef] >= 1
        /\ CloseObject(sessionRef) /\ UNCHANGED offers /\ sessionRef' \in {sessionRef, None}
        /\ UNCHANGED <<pc, target, flowGen>>
    BY <1>2 DEF SessionCloses, TimesOut, Inv, SessionInv, SessionTypes, flowVars
  <2> QED  BY <2>1, CloseBlanks, FlowsUnchanged DEF Inv
<1> QED  BY <1>1, <1>2

-----------------------------------------------------------------------------
(* start() and createAndSendLocalOffer(). *)

LEMMA StartStep ==
  ASSUME Inv, NEW s \in Sessions, ControlAcked(s) \/ StartOffered(s)
  PROVE  Inv'
<1>0. s \in Flows /\ pc[s] \in Working /\ Current(s) /\ target[s] = s
  BY DEF ControlAcked, StartOffered, Flows, Working, Inv, FlowInv
<1>1. Live(s)
  BY <1>0, CurrentIsLive
<1>2. CASE ControlAcked(s)
  <2>1. SessionInv'
    BY <1>1, <1>2, LiveMayChange DEF ControlAcked, SetState, Inv, SessionInv, SessionTypes
  <2>2. FlowInv'
    BY <1>0, <1>2, GoToKeeps DEF ControlAcked, Inv, FlowInv, Places, Working
  <2> QED  BY <2>1, <2>2 DEF Inv
<1>3. CASE StartOffered(s)
  <2>1. SessionInv'
    BY <1>1, <1>3, LiveMayChange DEF StartOffered, SetState, peerVars, Inv, SessionInv, SessionTypes
  <2>2. FlowInv'
    BY <1>0, <1>3, OverKeeps DEF StartOffered, Inv
  <2> QED  BY <2>1, <2>2 DEF Inv
<1> QED  BY <1>2, <1>3

LEMMA OfferStep ==
  ASSUME Inv, NEW f \in Flows, OfferCreated(f) \/ LocalSet(f)
  PROVE  Inv'
<1>1. /\ pc[f] \in Working /\ Current(f) /\ UNCHANGED <<target, flowGen>>
      /\ GoTo(f, "local") \/ GoTo(f, "soac")
  BY DEF OfferCreated, LocalSet, Working
<1>2. target[f] \in Sessions /\ Live(target[f]) /\ flowGen[f] = 1
  BY <1>1, CurrentIsLive DEF Inv, FlowInv
<1>3. FlowInv'
  BY <1>1, <1>2, GoToKeeps DEF Inv, Places, Working
<1>4. CASE OfferCreated(f)
  <2>1. UNCHANGED seen
    BY <1>4 DEF OfferCreated, pageVars, sessionVars, peerVars, seen
  <2> QED  BY <1>3, <2>1, SessionsUnchanged DEF Inv
<1>5. CASE LocalSet(f)
  <2>1. SessionInv'
    BY <1>2, <1>5, LiveMayChange DEF LocalSet, pageVars, sessionVars, Inv, SessionInv, SessionTypes
  <2> QED  BY <1>3, <2>1 DEF Inv
<1> QED  BY <1>4, <1>5

\* A flow that ends changes no session.
LEMMA EndStep ==
  ASSUME Inv, NEW f \in Flows, Over(f), UNCHANGED seen
  PROVE  Inv'
  BY OverKeeps, SessionsUnchanged DEF Inv

-----------------------------------------------------------------------------
(* A read. *)

LEMMA ReadBegins ==
  ASSUME Inv, NEW p \in Reads, Poll(p) \/ Served(p)
  PROVE  Inv'
<1>1. UNCHANGED seen
  BY DEF Poll, Served, pageVars, sessionVars, peerVars, seen
<1>2. CASE Poll(p)
  <2>1. /\ sessionRef \in Sessions
        /\ pc' = [pc EXCEPT ![p] = "asked"] /\ target' = [target EXCEPT ![p] = sessionRef]
        /\ UNCHANGED flowGen
    BY <1>2 DEF Poll, GoTo, Inv, SessionInv, SessionTypes
  <2>2. \A s \in Sessions : s # p
    BY ReadsAssumption DEF Sessions
  <2>3. FlowInv'
    BY <2>1, <2>2 DEF Inv, FlowInv, Flows, Places, Working
  <2> QED  BY <1>1, <2>3, SessionsUnchanged DEF Inv
<1>3. CASE Served(p)
  <2>1. /\ pc[p] = "asked" /\ pc' = [pc EXCEPT ![p] = "next"]
        /\ flowGen' = [flowGen EXCEPT ![p] = generation[sessionRef]]
        /\ target[p] = sessionRef /\ UNCHANGED target
    BY <1>3 DEF Served, GoTo
  <2>2. generation[sessionRef] \in Nat
    BY <2>1 DEF Inv, FlowInv, SessionInv, SessionTypes, Flows
  <2>3. FlowInv'
    BY <2>1, <2>2 DEF Inv, FlowInv, Flows, Places, Working
  <2> QED  BY <1>1, <2>3, SessionsUnchanged DEF Inv
<1> QED  BY <1>2, <1>3

\* The steps of the loop that turn to the next event or to an await, and change no session.
LEMMA LoopStep ==
  ASSUME Inv, NEW p \in Reads,
         \/ SkipProcessed(p) \/ Ignore(p) \/ AnswerRejected(p) \/ RestartSent(p)
         \/ CandidateAdded(p) \/ Flushed(p)
         \/ ApplyAnswer(p) \/ ApplyCandidate(p) \/ RestartIce(p)
  PROVE  Inv'
<1>0. p \in Flows
  BY DEF Flows
<1>1. UNCHANGED seen
  BY DEF SkipProcessed, Ignore, AnswerRejected, RestartSent, CandidateAdded, Flushed, ApplyAnswer,
         ApplyCandidate, RestartIce, pageVars, sessionVars, peerVars, seen
<1>2. CASE SkipProcessed(p)
  BY <1>1, <1>2, FlowsUnchanged, SessionsUnchanged DEF SkipProcessed, Inv
<1>3. CASE Ignore(p) \/ AnswerRejected(p) \/ RestartSent(p) \/ CandidateAdded(p) \/ Flushed(p)
  <2>1. pc[p] \in Working \cup {"next"}
    BY <1>3 DEF Ignore, At, AnswerRejected, RestartSent, CandidateAdded, Flushed, Working
  <2>2. target[p] \in Sessions
    BY <1>0, <2>1 DEF Inv, FlowInv
  <2>3. NextEvent(p) \/ UNCHANGED <<pc, target, flowGen>>
    BY <1>3 DEF Ignore, AnswerRejected, RestartSent, CandidateAdded, Flushed
  <2>4. FlowInv'
    BY <2>2, <2>3, NextEventKeeps, FlowsUnchanged DEF Inv
  <2> QED  BY <1>1, <2>4, SessionsUnchanged DEF Inv
<1>4. CASE ApplyAnswer(p) \/ ApplyCandidate(p) \/ RestartIce(p)
  <2>1. /\ pc[p] = "next" /\ Current(p) /\ Applies(p) /\ UNCHANGED <<target, flowGen>>
        /\ GoTo(p, "answering") \/ GoTo(p, "adding") \/ GoTo(p, "offer")
    BY <1>4 DEF ApplyAnswer, ApplyCandidate, RestartIce, At
  <2>2. target[p] \in Sessions /\ flowGen[p] = 1
    BY <2>1, AppliesIsLive
  <2>3. FlowInv'
    BY <1>0, <2>1, <2>2, GoToKeeps DEF Inv, Places, Working
  <2> QED  BY <1>1, <2>3, SessionsUnchanged DEF Inv
<1> QED  BY <1>2, <1>3, <1>4

\* The steps of the loop that change the session.
LEMMA ApplyStep ==
  ASSUME Inv, NEW p \in Reads, AnswerSet(p) \/ QueueCandidate(p)
  PROVE  Inv'
<1>0. p \in Flows
  BY DEF Flows
<1>1. CASE AnswerSet(p)
  <2>1. pc[p] \in Working /\ Current(p)
    BY <1>1 DEF AnswerSet, Working
  <2>2. target[p] \in Sessions /\ Live(target[p]) /\ flowGen[p] = 1
    BY <1>0, <2>1, CurrentIsLive DEF Inv, FlowInv
  <2>3. SessionInv'
    BY <1>1, <2>2, LiveMayChange DEF AnswerSet, SetState, Inv, SessionInv, SessionTypes
  <2>4. NextEvent(p) \/ (GoTo(p, "flushing") /\ UNCHANGED <<target, flowGen>>)
    BY <1>1 DEF AnswerSet
  <2>5. CASE NextEvent(p)
    BY <2>2, <2>3, <2>5, NextEventKeeps DEF Inv
  <2>6. CASE GoTo(p, "flushing") /\ UNCHANGED <<target, flowGen>>
    <3>1. FlowInv'
      BY <1>0, <2>2, <2>6, GoToKeeps DEF Inv, Places, Working
    <3> QED  BY <2>3, <3>1 DEF Inv
  <2> QED  BY <2>4, <2>5, <2>6
<1>2. CASE QueueCandidate(p)
  <2>1. pc[p] = "next" /\ Current(p) /\ Applies(p) /\ NextEvent(p)
    BY <1>2 DEF QueueCandidate, At
  <2>2. target[p] \in Sessions /\ Live(target[p])
    BY <2>1, AppliesIsLive
  <2>3. SessionInv'
    BY <1>2, <2>2, LiveMayChange
       DEF QueueCandidate, pageVars, peerVars, Inv, SessionInv, SessionTypes
  <2> QED  BY <2>1, <2>2, <2>3, NextEventKeeps DEF Inv
<1> QED  BY <1>1, <1>2

\* The end of a batch: the statistics are sampled, or the read is over.
LEMMA BatchStep ==
  ASSUME Inv, NEW p \in Reads, BatchDone(p)
  PROVE  Inv'
<1>1. UNCHANGED seen
  BY DEF BatchDone, sessionVars, peerVars, seen
<1>2. Over(p) \/ (GoTo(p, "stats") /\ UNCHANGED <<target, flowGen>>)
  BY DEF BatchDone
<1>3. FlowInv'
  BY <1>2, OverKeeps, GoToKeeps DEF Inv, Flows, Places, Working
<1> QED  BY <1>1, <1>3, SessionsUnchanged DEF Inv

-----------------------------------------------------------------------------
\* The two halves hold in every state: a session that is not live is blank, and whatever is
\* about to change a session was begun while it was live.
THEOREM Invariance == Spec => []Inv
<1>1. Init => Inv
  BY DEF Init, Inv, SessionInv, SessionTypes, Blank, HasPeer, Live, FlowInv, Flows, Places, Working
<1>2. Inv /\ [Next]_vars => Inv'
  <2> SUFFICES ASSUME Inv, [Next]_vars PROVE Inv'
    OBVIOUS
  <2>1. CASE (\E s \in Sessions : SessionStarts(s)) \/ SessionCloses \/ TimesOut
    BY <2>1, ControllerStep
  <2>2. ASSUME NEW s \in Sessions, Start(s) PROVE Inv'
    <3>1. CASE Aborted(s, "control")
      <4>1. Over(s) /\ UNCHANGED seen
        BY <3>1 DEF Aborted, pageVars, sessionVars, peerVars, seen
      <4> QED  BY <4>1, EndStep DEF Flows
    <3> QED  BY <2>2, <3>1, StartStep DEF Start
  <2>3. ASSUME NEW f \in Flows, Offering(f) \/ Refused(f) PROVE Inv'
    <3>1. CASE Refused(f) \/ \E place \in {"offer", "local", "soac"} : Aborted(f, place)
      <4>1. Over(f) /\ UNCHANGED seen
        BY <3>1 DEF Refused, Aborted, pageVars, sessionVars, peerVars, seen
      <4> QED  BY <4>1, EndStep
    <3> QED  BY <2>3, <3>1, OfferStep DEF Offering
  <2>4. ASSUME NEW s \in Sessions, Device(s) PROVE Inv'
    <3>1. CASE MediaArrives(s)
      <4>1. Live(s)
        BY <3>1 DEF MediaArrives, Inv, SessionInv, Blank
      <4>2. SessionInv'
        BY <3>1, <4>1, LiveMayChange
           DEF MediaArrives, SetState, peerVars, Inv, SessionInv, SessionTypes
      <4> QED  BY <3>1, <4>2, FlowsUnchanged DEF MediaArrives, flowVars, Inv
    <3>2. CASE Answers(s) \/ Trickles(s) \/ Notifies(s)
      <4>1. UNCHANGED <<pageVars, sessionVars, peerVars, flowVars>>
        BY <3>2 DEF Answers, Trickles, Notifies, Sends
      <4> QED
        BY <4>1, SessionsUnchanged, FlowsUnchanged
           DEF pageVars, sessionVars, peerVars, flowVars, seen, Inv
    <3> QED  BY <2>4, <3>1, <3>2 DEF Device
  <2>5. ASSUME NEW p \in Reads, Poll(p) \/ Served(p) PROVE Inv'
    BY <2>5, ReadBegins
  <2>6. ASSUME NEW p \in Reads, ServedLate(p) \/ Apply(p) PROVE Inv'
    <3>1. CASE ServedLate(p) \/ CandidateRejected(p) \/ Sampled(p) \/ Overtaken(p)
      <4>1. Over(p) /\ UNCHANGED seen
        BY <3>1 DEF ServedLate, CandidateRejected, Sampled, Overtaken, pageVars, sessionVars,
                    peerVars, seen
      <4> QED  BY <4>1, EndStep DEF Flows
    <3> QED  BY <2>6, <3>1, LoopStep, ApplyStep, BatchStep DEF Apply
  <2>7. CASE UNCHANGED vars
    BY <2>7, SessionsUnchanged, FlowsUnchanged
       DEF vars, pageVars, sessionVars, peerVars, flowVars, seen, Inv
  <2> QED  BY <2>1, <2>2, <2>3, <2>4, <2>5, <2>6, <2>7 DEF Next
<1> QED  BY <1>1, <1>2, PTL DEF Spec

\* Whatever start(), an answer, a candidate or an ICE restart was waiting for when a session
\* was closed, failed or replaced, its stage, its media, its peer and its queue stay gone.
THEOREM ClosedForGood == Spec => []ClosedStaysClosed
<1>1. Inv => ClosedStaysClosed
  BY DEF Inv, SessionInv, SessionTypes, Blank, Live, ClosedStaysClosed
<1> QED  BY <1>1, Invariance, PTL

\* Offers are only ever sent for a live session: the generation check that follows
\* setLocalDescription() stops those of a closed one.
THEOREM OffersAreLive == Spec => NoOfferAfterClose
<1> DEFINE LiveOffers == \A s \in Sessions : offers'[s] # offers[s] => Live(s)
<1>1. Inv /\ [Next]_vars => LiveOffers
  <2> SUFFICES ASSUME Inv, [Next]_vars PROVE LiveOffers
    OBVIOUS
  <2>1. ASSUME NEW f \in Flows, LocalSet(f) PROVE LiveOffers
    <3>1. target[f] \in Sessions /\ Live(target[f])
      BY <2>1, CurrentIsLive DEF LocalSet, Working
    <3> QED  BY <2>1, <3>1 DEF LocalSet, Inv, SessionInv, SessionTypes
  <2>2. ASSUME NEW f \in Flows, OfferCreated(f) \/ Refused(f) \/ (\E place \in Places : Aborted(f, place))
        PROVE  UNCHANGED offers
    BY <2>2 DEF OfferCreated, Refused, Aborted, peerVars
  <2>3. ASSUME NEW s \in Sessions,
               SessionStarts(s) \/ ControlAcked(s) \/ StartOffered(s) \/ Device(s)
        PROVE  UNCHANGED offers
    BY <2>3 DEF SessionStarts, ControlAcked, StartOffered, Device, Answers, Trickles, Notifies,
                Sends, MediaArrives, peerVars
  <2>4. ASSUME NEW p \in Reads, Poll(p) \/ Served(p) \/ ServedLate(p) \/ Apply(p)
        PROVE  UNCHANGED offers
    BY <2>4 DEF Poll, Served, ServedLate, Apply, SkipProcessed, Ignore, ApplyAnswer, AnswerSet,
                AnswerRejected, QueueCandidate, ApplyCandidate, CandidateAdded, Flushed,
                CandidateRejected, RestartIce, RestartSent, BatchDone, Sampled, Overtaken, peerVars
  <2>5. CASE SessionCloses \/ TimesOut \/ UNCHANGED vars
    BY <2>5 DEF SessionCloses, TimesOut, vars, peerVars
  <2>6. ASSUME NEW s \in Sessions, Start(s) PROVE UNCHANGED offers
    BY <2>2, <2>3, <2>6 DEF Start, Flows, Places
  <2>7. ASSUME NEW f \in Flows, Offering(f) PROVE LiveOffers
    BY <2>1, <2>2, <2>7 DEF Offering, Places
  <2> QED  BY <2>2, <2>3, <2>4, <2>5, <2>6, <2>7 DEF Next
<1> QED  BY <1>1, Invariance, PTL DEF Spec, NoOfferAfterClose

\* However reads overlap, the queue is empty once there is an answer: it is emptied in the
\* step that sets the answer, and candidates join it only while there is none.
THEOREM QueueIsFlushed == Spec => []QueueEndsWithAnswer
<1> DEFINE Queue == DOMAIN remote = Sessions /\ DOMAIN queued = Sessions /\ QueueEndsWithAnswer
<1>1. Init => Queue
  BY DEF Init, QueueEndsWithAnswer
<1>2. Queue /\ [Next]_vars => Queue'
  <2> SUFFICES ASSUME Queue, [Next]_vars PROVE Queue'
    OBVIOUS
  <2>1. ASSUME UNCHANGED <<remote, queued>> PROVE Queue'
    BY <2>1 DEF QueueEndsWithAnswer
  <2>2. ASSUME NEW s \in Sessions, SessionStarts(s) PROVE Queue'
    BY <2>2 DEF SessionStarts, QueueEndsWithAnswer
  <2>3. CASE SessionCloses \/ TimesOut
    BY <2>3 DEF SessionCloses, TimesOut, CloseObject, QueueEndsWithAnswer
  <2>4. ASSUME NEW p \in Reads, AnswerSet(p) PROVE Queue'
    <3>1. /\ remote' = [remote EXCEPT ![target[p]] = Head(batch[p])]
          /\ queued' = [queued EXCEPT ![target[p]] = <<>>]
      BY <2>4 DEF AnswerSet
    <3> QED  BY <3>1 DEF QueueEndsWithAnswer
  <2>5. ASSUME NEW p \in Reads, QueueCandidate(p) PROVE Queue'
    <3>1. /\ remote[target[p]] = 0 /\ UNCHANGED remote
          /\ queued' = [queued EXCEPT ![target[p]] = Append(@, Head(batch[p]))]
      BY <2>5 DEF QueueCandidate, peerVars
    <3> QED  BY <3>1 DEF QueueEndsWithAnswer
  <2>6. ASSUME NEW s \in Sessions, Start(s) \/ Device(s) PROVE UNCHANGED <<remote, queued>>
    BY <2>6 DEF Start, ControlAcked, StartOffered, Aborted, Device, Answers, Trickles, Notifies,
                Sends, MediaArrives, sessionVars, peerVars
  <2>7. ASSUME NEW f \in Flows, Offering(f) \/ Refused(f) PROVE UNCHANGED <<remote, queued>>
    BY <2>7 DEF Offering, OfferCreated, LocalSet, Aborted, Refused, sessionVars, peerVars
  <2>8. ASSUME NEW p \in Reads, Poll(p) \/ Served(p) \/ ServedLate(p) \/ SkipProcessed(p)
               \/ Ignore(p) \/ ApplyAnswer(p) \/ AnswerRejected(p) \/ ApplyCandidate(p)
               \/ CandidateAdded(p) \/ Flushed(p) \/ CandidateRejected(p) \/ RestartIce(p)
               \/ RestartSent(p) \/ BatchDone(p) \/ Sampled(p) \/ Overtaken(p)
        PROVE  UNCHANGED <<remote, queued>>
    BY <2>8 DEF Poll, Served, ServedLate, SkipProcessed, Ignore, ApplyAnswer, AnswerRejected,
                ApplyCandidate, CandidateAdded, Flushed, CandidateRejected, RestartIce, RestartSent,
                BatchDone, Sampled, Overtaken, sessionVars, peerVars
  <2>9. CASE UNCHANGED vars
    BY <2>1, <2>9 DEF vars, sessionVars, peerVars
  <2> QED  BY <2>1, <2>2, <2>3, <2>4, <2>5, <2>6, <2>7, <2>8, <2>9 DEF Next, Apply
<1> QED  BY <1>1, <1>2, PTL DEF Spec

-----------------------------------------------------------------------------
(* What the page shows.                                                      *)

\* Only the current session is live, and without statistics nothing else is ever shown.
PageInv ==
  /\ media \in [Sessions -> BOOLEAN]
  /\ \A s \in Sessions : Live(s) => s = sessionRef
  /\ ~setting.stats => \A f \in Flows : pc[f] # "stats"
  /\ UiShowsSession

\* No flow begins to sample.
NoSampling == UNCHANGED setting /\ \A f \in Flows : pc'[f] = "stats" => pc[f] = "stats"

LEMMA PageUnchanged ==
  ASSUME PageInv, NoSampling, UNCHANGED <<sessionRef, ui, generation, stage, media>>
  PROVE  PageInv'
  BY DEF PageInv, NoSampling, Live, UiShowsSession

\* A live session sets and publishes its state.
LEMMA PageFollows ==
  ASSUME Inv, PageInv, NoSampling, NEW s \in Sessions, Live(s),
         NEW newStage, NEW newMedia \in BOOLEAN, SetState(s, newStage, newMedia),
         UNCHANGED <<sessionRef, generation>>
  PROVE  PageInv'
  <1>1. s = sessionRef /\ s # None
    BY NoneAssumption DEF PageInv, Sessions
  <1>2. /\ stage' = [stage EXCEPT ![s] = newStage]
        /\ media' = [media EXCEPT ![s] = newMedia]
        /\ ui' = [stage |-> newStage, media |-> newMedia]
    BY DEF SetState
  <1> QED  BY <1>1, <1>2 DEF PageInv, NoSampling, Live, UiShowsSession, Inv, SessionInv, SessionTypes

LEMMA PageCloses ==
  ASSUME Inv, PageInv, NoSampling, sessionRef # None, CloseObject(sessionRef),
         sessionRef' \in {sessionRef, None}
  PROVE  PageInv'
  <1>1. sessionRef \in Sessions /\ generation[sessionRef] >= 1
    BY DEF Inv, SessionInv, SessionTypes
  <1>2. /\ generation' = [generation EXCEPT ![sessionRef] = @ + 1]
        /\ stage' = [stage EXCEPT ![sessionRef] = "idle"]
        /\ media' = [media EXCEPT ![sessionRef] = FALSE]
        /\ ui' = [stage |-> "idle", media |-> FALSE]
    BY DEF CloseObject, SetState
  <1>3. \A t \in Sessions : ~Live(t)'
    BY <1>1, <1>2 DEF PageInv, Live, Inv, SessionInv, SessionTypes
  <1>4. UiShowsSession'
    BY <1>1, <1>2 DEF UiShowsSession, PageInv, Inv, SessionInv, SessionTypes
  <1> QED  BY <1>1, <1>2, <1>3, <1>4 DEF PageInv, NoSampling

LEMMA PageStarts ==
  ASSUME Inv, PageInv, NEW s \in Sessions, SessionStarts(s)
  PROVE  PageInv'
<1>1. /\ generation[s] = 0 /\ sessionRef' = s /\ s # None /\ s # sessionRef
      /\ stage[s] = "idle" /\ media[s] = FALSE
  BY NoneAssumption DEF SessionStarts, PageInv, Inv, SessionInv, SessionTypes, Sessions, Live, Blank
<1>2. NoSampling
  BY DEF SessionStarts, GoTo, NoSampling, Inv, FlowInv, Flows
<1>3. CASE sessionRef = None
  <2>1. generation' = [generation EXCEPT ![s] = 1] /\ UNCHANGED <<stage, media, ui>>
    BY <1>3 DEF SessionStarts
  <2>2. \A t \in Sessions : Live(t)' => t = s
    BY <1>3, <2>1, NoneAssumption DEF PageInv, Live, Inv, SessionInv, SessionTypes, Sessions
  <2> QED  BY <1>1, <1>2, <1>3, <2>1, <2>2 DEF PageInv, NoSampling, UiShowsSession
<1>4. CASE sessionRef # None
  <2>1. /\ generation' = [generation EXCEPT ![sessionRef] = @ + 1, ![s] = 1]
        /\ stage' = [stage EXCEPT ![sessionRef] = "idle"]
        /\ media' = [media EXCEPT ![sessionRef] = FALSE]
        /\ ui' = [stage |-> "idle", media |-> FALSE]
    BY <1>4 DEF SessionStarts, SetState
  <2>2. sessionRef \in Sessions /\ generation[sessionRef] >= 1
    BY <1>4 DEF Inv, SessionInv, SessionTypes
  <2>3. \A t \in Sessions : Live(t)' => t = s
    BY <1>1, <2>1, <2>2 DEF PageInv, Live, Inv, SessionInv, SessionTypes
  <2>4. stage'[s] = "idle" /\ media'[s] = FALSE /\ media' \in [Sessions -> BOOLEAN]
    BY <1>1, <2>1, <2>2 DEF PageInv, Inv, SessionInv, SessionTypes
  <2> QED  BY <1>1, <1>2, <2>1, <2>3, <2>4 DEF PageInv, NoSampling, UiShowsSession
<1> QED  BY <1>3, <1>4

\* Unless statistics return after it was closed, the page shows its current session: what a
\* session publishes, and what is shown at the end of a batch, is the current session's.
THEOREM PageShowsItsSession == Spec => []UiShowsSession
<1>1. Init => PageInv
  BY DEF Init, PageInv, Live, UiShowsSession, Flows
<1>2. Inv /\ PageInv /\ [Next]_vars => PageInv'
  <2> SUFFICES ASSUME Inv, PageInv, [Next]_vars PROVE PageInv'
    OBVIOUS
  <2>0. pc \in [Flows -> Places] /\ Sessions \subseteq Flows /\ Reads \subseteq Flows
    BY DEF Inv, FlowInv, Flows
  <2>1. ASSUME NEW s \in Sessions, SessionStarts(s) PROVE PageInv'
    BY <2>1, PageStarts
  <2>2. CASE SessionCloses \/ TimesOut
    BY <2>2, PageCloses DEF SessionCloses, TimesOut, NoSampling, flowVars
  <2>3. ASSUME NEW s \in Sessions, ControlAcked(s) \/ StartOffered(s) PROVE PageInv'
    <3>1. target[s] = s /\ Live(s)
      BY <2>0, <2>3, CurrentIsLive DEF ControlAcked, StartOffered, Working, Inv, FlowInv
    <3>2. NoSampling
      BY <2>0, <2>3 DEF ControlAcked, StartOffered, GoTo, Over, NoSampling
    <3>3. media[s] \in BOOLEAN
      BY DEF PageInv
    <3>4. /\ UNCHANGED <<sessionRef, generation>>
          /\ SetState(s, "controlled", FALSE) \/ SetState(s, "offered", media[s])
      BY <2>3 DEF ControlAcked, StartOffered
    <3> QED  BY <3>1, <3>2, <3>3, <3>4, PageFollows
  <2>4. ASSUME NEW p \in Reads, AnswerSet(p) PROVE PageInv'
    <3>1. target[p] \in Sessions /\ Live(target[p])
      BY <2>0, <2>4, CurrentIsLive DEF AnswerSet, Working
    <3>2. NoSampling
      BY <2>0, <2>4 DEF AnswerSet, NextEvent, GoTo, NoSampling
    <3>3. media[target[p]] \in BOOLEAN
      BY <3>1 DEF PageInv
    <3> QED  BY <2>4, <3>1, <3>2, <3>3, PageFollows DEF AnswerSet
  <2>5. ASSUME NEW s \in Sessions, MediaArrives(s) PROVE PageInv'
    <3>1. Live(s)
      BY <2>5 DEF MediaArrives, Inv, SessionInv, Blank
    <3> QED  BY <2>5, <3>1, PageFollows DEF MediaArrives, NoSampling, flowVars
  <2>6. ASSUME NEW p \in Reads, BatchDone(p) PROVE PageInv'
    <3>1. sessionRef \in Sessions /\ sessionRef # None
      BY <2>0, <2>6, NoneAssumption DEF BatchDone, Inv, FlowInv, Sessions
    <3>2. UNCHANGED <<setting, sessionRef, generation, stage, media>>
      BY <2>6 DEF BatchDone, sessionVars
    <3>3. CASE setting.stats /\ HasPeer(target[p])
      BY <3>2, <3>3 DEF PageInv, Live, UiShowsSession
    <3>4. CASE ~(setting.stats /\ HasPeer(target[p]))
      <4>1. ui' = [stage |-> stage[sessionRef], media |-> media[sessionRef]] /\ Over(p)
        BY <2>6, <3>4 DEF BatchDone
      <4>2. NoSampling
        BY <2>0, <3>2, <4>1 DEF Over, NoSampling
      <4> QED  BY <3>1, <3>2, <4>1, <4>2 DEF PageInv, NoSampling, Live, UiShowsSession
    <3> QED  BY <3>3, <3>4
  <2>7. ASSUME NEW p \in Reads, Sampled(p) PROVE PageInv'
    BY <2>0, <2>7 DEF Sampled, sessionVars, Over, PageInv, Live, UiShowsSession
  <2>8. ASSUME NEW f \in Flows, Offering(f) \/ Refused(f) \/ Aborted(f, "control") PROVE PageInv'
    <3>1. NoSampling
      BY <2>0, <2>8 DEF Offering, OfferCreated, LocalSet, Refused, Aborted, GoTo, Over, NoSampling
    <3>2. UNCHANGED <<sessionRef, ui, generation, stage, media>>
      BY <2>8 DEF Offering, OfferCreated, LocalSet, Refused, Aborted, pageVars, sessionVars
    <3> QED  BY <3>1, <3>2, PageUnchanged
  <2>9. ASSUME NEW s \in Sessions, Answers(s) \/ Trickles(s) \/ Notifies(s) PROVE PageInv'
    BY <2>9, PageUnchanged
       DEF Answers, Trickles, Notifies, Sends, pageVars, sessionVars, flowVars, NoSampling
  <2>10. ASSUME NEW p \in Reads, Poll(p) \/ Served(p) \/ ServedLate(p) PROVE PageInv'
    <3>1. NoSampling
      BY <2>0, <2>10 DEF Poll, Served, ServedLate, GoTo, Over, NoSampling
    <3> QED
      BY <2>10, <3>1, PageUnchanged DEF Poll, Served, ServedLate, pageVars, sessionVars
  <2>11. ASSUME NEW p \in Reads,
                \/ SkipProcessed(p) \/ Ignore(p) \/ ApplyAnswer(p) \/ AnswerRejected(p)
                \/ QueueCandidate(p) \/ ApplyCandidate(p) \/ CandidateAdded(p) \/ Flushed(p)
                \/ CandidateRejected(p) \/ RestartIce(p) \/ RestartSent(p) \/ Overtaken(p)
         PROVE  PageInv'
    <3>1. NoSampling
      BY <2>0, <2>11 DEF SkipProcessed, Ignore, ApplyAnswer, AnswerRejected, QueueCandidate,
         ApplyCandidate, CandidateAdded, Flushed, CandidateRejected, RestartIce, RestartSent,
         Overtaken, NextEvent, GoTo, Over, NoSampling
    <3>2. UNCHANGED <<sessionRef, ui, generation, stage, media>>
      BY <2>11 DEF SkipProcessed, Ignore, ApplyAnswer, AnswerRejected, QueueCandidate,
         ApplyCandidate, CandidateAdded, Flushed, CandidateRejected, RestartIce, RestartSent,
         Overtaken, pageVars, sessionVars
    <3> QED  BY <3>1, <3>2, PageUnchanged
  <2>12. CASE UNCHANGED vars
    BY <2>12, PageUnchanged DEF vars, pageVars, sessionVars, flowVars, NoSampling
  <2> QED
    BY <2>1, <2>2, <2>3, <2>4, <2>5, <2>6, <2>7, <2>8, <2>9, <2>10, <2>11, <2>12
       DEF Next, Start, Device, Apply, Flows
<1>3. PageInv => UiShowsSession
  BY DEF PageInv
<1> QED  BY <1>1, <1>2, <1>3, Invariance, PTL DEF Spec

-----------------------------------------------------------------------------
(* Whose events a session is given, when every event names its session.      *)

Ids == 1..Len(log)

\* The event e is one of session s.
Own(e, s) == e \in Ids /\ log[e].of = s

\* The awaits at which a read holds on to the event it applies.
Handling == {"answering", "flushing", "adding", "offer", "local", "soac"}
Restarting == {"offer", "local", "soac"}

Events == [kind : {"answer", "candidate", "notify"}, of : Sessions, tag : Sessions, to : Nat]

EventTypes ==
  /\ log \in Seq(Events)
  /\ \A i \in Ids : log[i].tag = log[i].of
  /\ DOMAIN batch = Reads /\ DOMAIN rest = Reads
  /\ after \in [Reads -> Nat] /\ cursor \in Nat
  /\ DOMAIN processed = Sessions /\ DOMAIN queued = Sessions
  /\ DOMAIN remote = Sessions /\ DOMAIN added = Sessions

\* What read p has in its hands: events of the log, the one it applies being of its session,
\* and, only while it flushes, candidates of that session.
ReadHolds(p) ==
  /\ batch[p] \in Seq(Nat) /\ rest[p] \in Seq(Nat)
  /\ ToSet(batch[p]) \subseteq Ids
  /\ \A e \in ToSet(rest[p]) : Own(e, target[p])
  /\ pc[p] = "flushing" <=> rest[p] # <<>>
  /\ pc[p] \in Handling => batch[p] # <<>> /\ Own(Head(batch[p]), target[p])
  /\ pc[p] \in {"answering", "flushing"} => log[Head(batch[p])].kind = "answer"
  /\ pc[p] = "adding" => log[Head(batch[p])].kind = "candidate"
  /\ pc[p] \in Restarting => log[Head(batch[p])].kind = "notify"

\* What session s was given.
SessionHolds(s) ==
  /\ processed[s] \subseteq Ids
  /\ queued[s] \in Seq(Nat)
  /\ \A e \in added[s] \cup ToSet(queued[s]) : Own(e, s)
  /\ remote[s] # 0 => Own(remote[s], s)

EventInv ==
  /\ EventTypes
  /\ \A p \in Reads : ReadHolds(p)
  /\ \A s \in Sessions : SessionHolds(s)

LEMMA EmptyIsNone == <<>> \in Seq(Nat) /\ \A q \in Seq(Nat) : q = <<>> <=> Len(q) = 0
  <1>1. <<>> \in Seq(Nat) /\ Len(<<>>) = 0
    BY EmptySeq
  <1>2. \A q \in Seq(Nat) : q # <<>> => Len(q) \in Nat \ {0}
    BY EmptySeq
  <1> QED  BY <1>1, <1>2

LEMMA InToSet ==
  ASSUME NEW q \in Seq(Nat) PROVE \A x : x \in ToSet(q) <=> \E i \in 1..Len(q) : x = q[i]
  BY DEF ToSet

\* What the loop takes from a sequence of events, and what it adds to one.
LEMMA HeadAndTail ==
  ASSUME NEW q \in Seq(Nat), q # <<>>
  PROVE  /\ Head(q) \in Nat /\ Head(q) \in ToSet(q) /\ Tail(q) \in Seq(Nat)
         /\ ToSet(q) = {Head(q)} \cup ToSet(Tail(q))
         /\ Len(q) = 1 <=> Tail(q) = <<>>
  <1>1. Len(q) \in Nat /\ Len(q) >= 1 /\ Head(q) = q[1] /\ DOMAIN q = 1..Len(q)
    OBVIOUS
  <1>2. /\ Tail(q) \in Seq(Nat) /\ Len(Tail(q)) = Len(q) - 1
        /\ \A i \in 1..Len(Tail(q)) : Tail(q)[i] = q[i + 1]
    BY <1>1
  <1>3. /\ \A x : x \in ToSet(q) <=> \E i \in 1..Len(q) : x = q[i]
        /\ \A x : x \in ToSet(Tail(q)) <=> \E i \in 1..Len(Tail(q)) : x = Tail(q)[i]
    BY <1>2, InToSet
  <1>4. ASSUME NEW x \in ToSet(q) PROVE x \in {Head(q)} \cup ToSet(Tail(q))
    <2>1. PICK i \in 1..Len(q) : x = q[i]
      BY <1>3
    <2>2. CASE i = 1
      BY <1>1, <2>1, <2>2
    <2>3. CASE i # 1
      <3>1. i - 1 \in 1..Len(Tail(q)) /\ Tail(q)[i - 1] = q[i]
        BY <1>1, <1>2, <2>1, <2>3
      <3> QED  BY <1>3, <2>1, <3>1
    <2> QED  BY <2>2, <2>3
  <1>5. ASSUME NEW x \in {Head(q)} \cup ToSet(Tail(q)) PROVE x \in ToSet(q)
    <2>1. CASE x = Head(q)
      BY <1>1, <1>3, <2>1
    <2>2. CASE x \in ToSet(Tail(q))
      <3>1. PICK i \in 1..Len(Tail(q)) : x = Tail(q)[i]
        BY <1>3, <2>2
      <3>2. i + 1 \in 1..Len(q) /\ x = q[i + 1]
        BY <1>1, <1>2, <3>1
      <3> QED  BY <1>3, <3>2
    <2> QED  BY <1>5, <2>1, <2>2
  <1>6. ToSet(q) = {Head(q)} \cup ToSet(Tail(q))
    BY <1>4, <1>5
  <1>7. Head(q) \in ToSet(q)
    BY <1>5
  <1>8. Len(q) = 1 <=> Tail(q) = <<>>
    <2>1. Tail(q) \in Seq(Nat) /\ (Len(q) = 1 <=> Len(Tail(q)) = 0)
      BY <1>1, <1>2
    <2> QED  BY <2>1, EmptyIsNone, Zenon
  <1> QED  BY <1>1, <1>2, <1>6, <1>7, <1>8

LEMMA AppendAdds ==
  ASSUME NEW q \in Seq(Nat), NEW e \in Nat
  PROVE  Append(q, e) \in Seq(Nat) /\ ToSet(Append(q, e)) = ToSet(q) \cup {e}
  <1>1. /\ Len(Append(q, e)) = Len(q) + 1 /\ Append(q, e)[Len(q) + 1] = e
        /\ \A i \in 1..Len(q) : Append(q, e)[i] = q[i]
        /\ Append(q, e) \in Seq(Nat)
    OBVIOUS
  <1>2. /\ \A x : x \in ToSet(q) <=> \E i \in 1..Len(q) : x = q[i]
        /\ \A x : x \in ToSet(Append(q, e)) <=> \E i \in 1..Len(Append(q, e)) : x = Append(q, e)[i]
    BY <1>1, InToSet
  <1>3. ASSUME NEW x \in ToSet(Append(q, e)) PROVE x \in ToSet(q) \cup {e}
    BY <1>1, <1>2
  <1>4. ASSUME NEW x \in ToSet(q) \cup {e} PROVE x \in ToSet(Append(q, e))
    BY <1>1, <1>2
  <1> QED  BY <1>1, <1>3, <1>4

LEMMA NothingInEmpty == ToSet(<<>>) = {} /\ <<>> \in Seq(Nat)
  <1>1. ASSUME NEW q \in Seq(Nat), Len(q) = 0 PROVE ToSet(q) = {}
    <2>1. 1..Len(q) = {}
      BY <1>1
    <2>2. \A x : x \notin ToSet(q)
      BY <2>1, InToSet
    <2> QED  BY <2>2
  <1> QED  BY <1>1, EmptyIsNone, Zenon

\* Read p is not concerned; or it lays down what it held; or it goes on with its new offer.
ReadSame(p) == UNCHANGED <<pc[p], target[p], batch[p], rest[p]>>
ReadCalm(p) ==
  /\ pc'[p] \notin Handling /\ rest'[p] = <<>>
  /\ batch'[p] \in Seq(Nat) /\ ToSet(batch'[p]) \subseteq ToSet(batch[p])
ReadRestarts(p) ==
  /\ {pc[p], pc'[p]} \subseteq Restarting
  /\ UNCHANGED <<target[p], batch[p], rest[p]>>

LEMMA ReadKeeps ==
  ASSUME NEW p \in Reads, ReadHolds(p), UNCHANGED log,
         ReadSame(p) \/ ReadCalm(p) \/ ReadRestarts(p)
  PROVE  ReadHolds(p)'
  <1>1. CASE ReadSame(p)
    BY <1>1 DEF ReadSame, ReadHolds, Own, Ids
  <1>2. CASE ReadCalm(p)
    <2>1. ToSet(rest'[p]) = {} /\ rest'[p] \in Seq(Nat) /\ rest'[p] = <<>>
      BY <1>2, NothingInEmpty DEF ReadCalm
    <2>2. pc'[p] \notin {"answering", "flushing", "adding", "offer", "local", "soac"}
      BY <1>2 DEF ReadCalm, Handling
    <2> QED  BY <1>2, <2>1, <2>2 DEF ReadCalm, ReadHolds, Handling, Restarting, Ids
  <1>3. CASE ReadRestarts(p)
    BY <1>3 DEF ReadRestarts, ReadHolds, Own, Ids, Handling, Restarting
  <1> QED  BY <1>1, <1>2, <1>3

\* Session s keeps what it was given, or loses it.
Forgets(s) ==
  /\ processed'[s] \in {processed[s], {}} /\ added'[s] \in {added[s], {}}
  /\ queued'[s] \in {queued[s], <<>>} /\ remote'[s] \in {remote[s], 0}

LEMMA SessionKeeps ==
  ASSUME NEW s \in Sessions, SessionHolds(s), UNCHANGED log, Forgets(s)
  PROVE  SessionHolds(s)'
  BY NothingInEmpty DEF SessionHolds, Forgets, Own, Ids

LEMMA NothingNew ==
  ASSUME EventInv, EventTypes', UNCHANGED log,
         \A p \in Reads : ReadSame(p) \/ ReadCalm(p) \/ ReadRestarts(p),
         \A s \in Sessions : Forgets(s)
  PROVE  EventInv'
  BY ReadKeeps, SessionKeeps DEF EventInv

\* A flow that is over, and a read that turns to the next event, have laid down all they held.
LEMMA OverIsCalm ==
  ASSUME Inv, EventInv, NEW f \in Flows, Over(f)
  PROVE  /\ DOMAIN batch' = Reads /\ DOMAIN rest' = Reads /\ UNCHANGED after
         /\ \A p \in Reads : ReadSame(p) \/ ReadCalm(p)
  <1>1. /\ pc' = [pc EXCEPT ![f] = IF f \in Reads THEN "idle" ELSE "done"]
        /\ target' = [target EXCEPT ![f] = IF f \in Reads THEN None ELSE @]
        /\ batch' = [p \in Reads |-> IF p = f THEN <<>> ELSE batch[p]]
        /\ rest' = [p \in Reads |-> IF p = f THEN <<>> ELSE rest[p]]
        /\ UNCHANGED after
    BY DEF Over
  <1>2. ASSUME NEW p \in Reads PROVE ReadSame(p) \/ ReadCalm(p)
    <2>1. CASE p = f
      <3>1. pc'[p] = "idle" /\ rest'[p] = <<>> /\ batch'[p] = <<>>
        BY <1>1, <2>1 DEF Inv, FlowInv
      <3> QED  BY <3>1, NothingInEmpty DEF ReadCalm, Handling
    <2>2. CASE p # f
      BY <1>1, <2>2 DEF ReadSame, Inv, FlowInv, Flows
    <2> QED  BY <2>1, <2>2
  <1> QED  BY <1>1, <1>2

LEMMA NextIsCalm ==
  ASSUME Inv, EventInv, NEW p \in Reads, batch[p] # <<>>, target[p] \in Sessions, NextEvent(p)
  PROVE  /\ DOMAIN batch' = Reads /\ DOMAIN rest' = Reads /\ UNCHANGED after
         /\ DOMAIN processed' = Sessions
         /\ \A q \in Reads : ReadSame(q) \/ ReadCalm(q)
         /\ Head(batch[p]) \in Ids
         /\ processed' = [processed EXCEPT ![target[p]] = @ \cup {Head(batch[p])}]
  <1>1. /\ processed' = [processed EXCEPT ![target[p]] = @ \cup {Head(batch[p])}]
        /\ batch' = [batch EXCEPT ![p] = Tail(@)]
        /\ rest' = [rest EXCEPT ![p] = <<>>]
        /\ pc' = [pc EXCEPT ![p] = "next"]
        /\ UNCHANGED <<target, after>>
    BY DEF NextEvent, GoTo
  <1>2. /\ Head(batch[p]) \in Ids
        /\ Tail(batch[p]) \in Seq(Nat) /\ ToSet(Tail(batch[p])) \subseteq ToSet(batch[p])
    BY HeadAndTail DEF EventInv, ReadHolds
  <1>3. ASSUME NEW q \in Reads PROVE ReadSame(q) \/ ReadCalm(q)
    <2>1. CASE q = p
      BY <1>1, <1>2, <2>1 DEF ReadCalm, Handling, EventInv, EventTypes, Inv, FlowInv, Flows
    <2>2. CASE q # p
      BY <1>1, <2>2 DEF ReadSame, Inv, FlowInv, Flows, EventInv, EventTypes
    <2> QED  BY <2>1, <2>2
  <1> QED  BY <1>1, <1>2, <1>3 DEF EventInv, EventTypes

-----------------------------------------------------------------------------
(* No step gives a session an event of another one. *)

sessionEvents == <<processed, added, queued, remote>>

\* A flow is over, and no session changes what it was given.
LEMMA OverStep ==
  ASSUME Inv, EventInv, NEW f \in Flows, Over(f), UNCHANGED <<log, cursor, sessionEvents>>
  PROVE  EventInv'
  <1>1. EventTypes'
    BY OverIsCalm DEF EventInv, EventTypes, sessionEvents, Ids
  <1>2. \A s \in Sessions : Forgets(s)
    BY DEF Forgets, sessionEvents
  <1> QED  BY <1>1, <1>2, OverIsCalm, NothingNew

\* A flow of start() proceeds, and sessions lose what they were given.
LEMMA StartEvents ==
  ASSUME Inv, EventInv,
         \/ \E s \in Sessions : SessionStarts(s) \/ ControlAcked(s) \/ MediaArrives(s)
         \/ SessionCloses \/ TimesOut
  PROVE  EventInv'
<1>1. UNCHANGED <<log, cursor, batch, rest, after, target>>
  BY DEF SessionStarts, SessionCloses, TimesOut, ControlAcked, MediaArrives, flowVars
<1>2. ASSUME NEW p \in Reads PROVE pc'[p] = pc[p]
  <2>1. \A s \in Sessions : p # s
    BY ReadsAssumption DEF Sessions
  <2>2. \/ UNCHANGED pc
        \/ \E s \in Sessions : pc' = [pc EXCEPT ![s] = "control"] \/ pc' = [pc EXCEPT ![s] = "offer"]
    BY DEF SessionStarts, SessionCloses, TimesOut, ControlAcked, MediaArrives, flowVars, GoTo
  <2> QED  BY <2>1, <2>2 DEF Inv, FlowInv, Flows
<1>3. /\ \A s \in Sessions : Forgets(s)
      /\ DOMAIN processed' = Sessions /\ DOMAIN queued' = Sessions
      /\ DOMAIN remote' = Sessions /\ DOMAIN added' = Sessions
  <2>1. ASSUME NEW s \in Sessions, SessionStarts(s) PROVE <1>3!:
    BY <2>1 DEF SessionStarts, Forgets, EventInv, EventTypes
  <2>2. CASE SessionCloses \/ TimesOut
    BY <2>2 DEF SessionCloses, TimesOut, CloseObject, Forgets, EventInv, EventTypes
  <2>3. ASSUME NEW s \in Sessions, ControlAcked(s) \/ MediaArrives(s) PROVE <1>3!:
    BY <2>3 DEF ControlAcked, MediaArrives, peerVars, Forgets, EventInv, EventTypes
  <2> QED  BY <2>1, <2>2, <2>3
<1>4. EventTypes'
  BY <1>1, <1>3 DEF EventInv, EventTypes, Ids
<1>5. \A p \in Reads : ReadSame(p)
  BY <1>1, <1>2 DEF ReadSame
<1> QED  BY <1>1, <1>3, <1>4, <1>5, NothingNew

\* The other steps that give no session anything.
LEMMA FlowEvents ==
  ASSUME Inv, EventInv, NEW f \in Flows,
         \/ f \in Sessions /\ StartOffered(f)
         \/ OfferCreated(f) \/ LocalSet(f) \/ Refused(f) \/ \E place \in Places : Aborted(f, place)
         \/ f \in Reads /\ (Poll(f) \/ ServedLate(f) \/ SkipProcessed(f) \/ CandidateRejected(f)
                            \/ BatchDone(f) \/ Sampled(f) \/ Overtaken(f))
  PROVE  EventInv'
<1>1. UNCHANGED <<log, cursor, sessionEvents>>
  BY DEF StartOffered, OfferCreated, LocalSet, Refused, Aborted, Poll, ServedLate, SkipProcessed,
         CandidateRejected, BatchDone, Sampled, Overtaken, pageVars, sessionVars, peerVars,
         sessionEvents
<1>2. CASE Over(f)
  BY <1>1, <1>2, OverStep
<1>3. ASSUME ~Over(f) PROVE EventInv'
  <2>0. /\ StartOffered(f) => Over(f)
        /\ Refused(f) => Over(f)
        /\ \A place \in Places : Aborted(f, place) => Over(f)
        /\ ServedLate(f) \/ CandidateRejected(f) \/ Sampled(f) \/ Overtaken(f) => Over(f)
        /\ BatchDone(f) =>
             Over(f) \/ (GoTo(f, "stats") /\ UNCHANGED <<target, after, batch, rest>>)
    BY DEF StartOffered, Refused, Aborted, ServedLate, CandidateRejected, BatchDone, Sampled,
           Overtaken
  <2>1. \/ OfferCreated(f) \/ LocalSet(f)
        \/ /\ f \in Reads
           /\ \/ Poll(f) \/ SkipProcessed(f)
              \/ BatchDone(f) /\ GoTo(f, "stats") /\ UNCHANGED <<target, after, batch, rest>>
    BY <1>3, <2>0
  <2>2. \A s \in Sessions : Forgets(s)
    BY <1>1 DEF Forgets, sessionEvents
  <2>3. CASE OfferCreated(f) \/ LocalSet(f)
    <3>1. /\ UNCHANGED <<target, after, batch, rest>> /\ pc[f] \in Restarting
          /\ pc' = [pc EXCEPT ![f] = "local"] \/ pc' = [pc EXCEPT ![f] = "soac"]
      BY <2>3 DEF OfferCreated, LocalSet, GoTo, Restarting
    <3>2. EventTypes'
      BY <1>1, <3>1 DEF EventInv, EventTypes, Ids, sessionEvents
    <3>3. ASSUME NEW p \in Reads PROVE ReadSame(p) \/ ReadRestarts(p)
      BY <3>1 DEF ReadSame, ReadRestarts, Restarting, Inv, FlowInv, Flows
    <3> QED  BY <1>1, <2>2, <3>2, <3>3, NothingNew
  <2>4. ASSUME f \in Reads, Poll(f) PROVE EventInv'
    <3>1. /\ pc[f] = "idle" /\ pc' = [pc EXCEPT ![f] = "asked"] /\ UNCHANGED <<batch, rest>>
          /\ target' = [target EXCEPT ![f] = sessionRef]
          /\ after' = [after EXCEPT ![f] = cursor]
      BY <2>4 DEF Poll, GoTo
    <3>2. cursor \in Nat
      BY DEF EventInv, EventTypes
    <3>3. EventTypes'
      BY <1>1, <3>1, <3>2 DEF EventInv, EventTypes, Ids, sessionEvents
    <3>4. ASSUME NEW p \in Reads PROVE ReadSame(p) \/ ReadCalm(p)
      <4>1. CASE p = f
        BY <2>4, <3>1, <4>1 DEF ReadCalm, Handling, EventInv, ReadHolds, Inv, FlowInv, Flows
      <4>2. CASE p # f
        BY <3>1, <4>2 DEF ReadSame, Inv, FlowInv, Flows
      <4> QED  BY <4>1, <4>2
    <3> QED  BY <1>1, <2>2, <3>3, <3>4, NothingNew
  <2>5. ASSUME f \in Reads, SkipProcessed(f) PROVE EventInv'
    <3>1. /\ pc[f] = "next" /\ batch[f] # <<>> /\ batch' = [batch EXCEPT ![f] = Tail(@)]
          /\ UNCHANGED <<pc, target, after, rest>>
      BY <2>5 DEF SkipProcessed
    <3>2. /\ rest[f] = <<>> /\ Tail(batch[f]) \in Seq(Nat)
          /\ ToSet(Tail(batch[f])) \subseteq ToSet(batch[f])
      BY <2>5, <3>1, HeadAndTail DEF EventInv, ReadHolds
    <3>3. EventTypes'
      BY <1>1, <3>1 DEF EventInv, EventTypes, Ids, sessionEvents
    <3>4. ASSUME NEW p \in Reads PROVE ReadSame(p) \/ ReadCalm(p)
      BY <3>1, <3>2 DEF ReadSame, ReadCalm, Handling, EventInv, EventTypes
    <3> QED  BY <1>1, <2>2, <3>3, <3>4, NothingNew
  <2>6. ASSUME f \in Reads, BatchDone(f), GoTo(f, "stats"), UNCHANGED <<target, after, batch, rest>>
        PROVE  EventInv'
    <3>1. pc[f] = "next" /\ rest[f] = <<>> /\ batch[f] \in Seq(Nat)
      BY <2>6 DEF BatchDone, EventInv, ReadHolds
    <3>2. EventTypes'
      BY <1>1, <2>6 DEF EventInv, EventTypes, Ids, sessionEvents
    <3>3. ASSUME NEW p \in Reads PROVE ReadSame(p) \/ ReadCalm(p)
      BY <2>6, <3>1 DEF ReadSame, ReadCalm, Handling, GoTo, Inv, FlowInv, Flows
    <3> QED  BY <1>1, <2>2, <3>2, <3>3, NothingNew
  <2> QED  BY <2>1, <2>3, <2>4, <2>5, <2>6
<1> QED  BY <1>2, <1>3

\* An answer of the gateway brings events of the log.
LEMMA ServedEvents ==
  ASSUME Inv, EventInv, NEW p \in Reads, Served(p)
  PROVE  EventInv'
<1>1. /\ pc[p] = "asked" /\ pc' = [pc EXCEPT ![p] = "next"]
      /\ batch' = [batch EXCEPT ![p] = Unread(p)] /\ cursor' = Len(log)
      /\ after' = [after EXCEPT ![p] = 0]
      /\ UNCHANGED <<log, target, rest, sessionEvents>>
  BY DEF Served, GoTo, sessionVars, peerVars, sessionEvents
<1>2. Len(log) \in Nat /\ after[p] \in Nat /\ rest[p] = <<>>
  BY <1>1 DEF EventInv, EventTypes, ReadHolds
<1>3. Unread(p) \in Seq(Nat) /\ ToSet(Unread(p)) \subseteq Ids
  <2>1. DEFINE n == Len(log) - after[p]
  <2>2. CASE n > 0
    <3>1. /\ n \in Nat /\ Unread(p) = [i \in 1..n |-> after[p] + i]
          /\ \A i \in 1..n : after[p] + i \in Nat /\ after[p] + i \in Ids
      BY <1>2, <2>2 DEF Unread, Ids
    <3>2. Unread(p) \in Seq(Nat) /\ Len(Unread(p)) = n
      BY <3>1
    <3>3. ASSUME NEW x \in ToSet(Unread(p)) PROVE x \in Ids
      <4>1. PICK i \in 1..n : x = Unread(p)[i]
        BY <3>2, InToSet
      <4> QED  BY <3>1, <4>1
    <3> QED  BY <3>2, <3>3
  <2>3. CASE ~(n > 0)
    <3>1. 1..n = {} /\ Unread(p) = [i \in 1..n |-> after[p] + i]
      BY <1>2, <2>3 DEF Unread
    <3>2. Unread(p) \in [1..0 -> Nat]
      BY <1>2, <3>1
    <3>3. Unread(p) \in Seq(Nat) /\ Len(Unread(p)) = 0
      BY <3>2
    <3> QED  BY <3>3, EmptyIsNone, NothingInEmpty
  <2> QED  BY <2>2, <2>3
<1>4. EventTypes'
  BY <1>1, <1>2 DEF EventInv, EventTypes, Ids, sessionEvents
<1>5. ASSUME NEW q \in Reads PROVE ReadHolds(q)'
  <2>1. CASE q = p
    <3>1. pc'[q] = "next" /\ batch'[q] = Unread(p) /\ rest'[q] = <<>>
      BY <1>1, <1>2, <2>1 DEF EventInv, EventTypes, Inv, FlowInv, Flows
    <3> QED  BY <1>1, <1>3, <3>1, NothingInEmpty DEF ReadHolds, Handling, Restarting, Ids
  <2>2. CASE q # p
    <3>1. ReadSame(q)
      BY <1>1, <2>2 DEF ReadSame, EventInv, EventTypes, Inv, FlowInv, Flows
    <3> QED  BY <1>1, <3>1, ReadKeeps DEF EventInv
  <2> QED  BY <2>1, <2>2
<1>6. \A s \in Sessions : SessionHolds(s)'
  BY <1>1, SessionKeeps DEF Forgets, sessionEvents, EventInv
<1> QED  BY <1>4, <1>5, <1>6 DEF EventInv

\* An event that a read applies is one of its session: it names that session.
LEMMA AppliesOwn ==
  ASSUME EventInv, NEW p \in Reads, batch[p] # <<>>, target[p] \in Sessions, Applies(p)
  PROVE  Own(Head(batch[p]), target[p])
  <1>1. Head(batch[p]) \in Ids
    BY HeadAndTail DEF EventInv, ReadHolds
  <1>2. log[Head(batch[p])] \in Events
    BY <1>1, ElementOfSeq DEF EventInv, EventTypes, Ids
  <1>3. log[Head(batch[p])].tag \in Sessions /\ log[Head(batch[p])].tag = log[Head(batch[p])].of
    BY <1>1, <1>2 DEF Events, EventInv, EventTypes
  <1> QED  BY <1>1, <1>3, NoneAssumption DEF Applies, Matches, Own, Sessions

LEMMA TakenUp ==
  ASSUME Inv, EventInv, NEW p \in Reads,
         ApplyAnswer(p) \/ ApplyCandidate(p) \/ RestartIce(p)
  PROVE  EventInv'
<1>1. /\ pc[p] = "next" /\ batch[p] # <<>> /\ Applies(p) /\ target[p] \in Sessions
      /\ UNCHANGED <<log, cursor, sessionEvents, target, after, batch, rest>>
  BY DEF ApplyAnswer, ApplyCandidate, RestartIce, At, pageVars, sessionVars, peerVars,
         sessionEvents, Inv, FlowInv, Flows
<1>2. \/ pc' = [pc EXCEPT ![p] = "answering"] /\ log[Head(batch[p])].kind = "answer"
      \/ pc' = [pc EXCEPT ![p] = "adding"] /\ log[Head(batch[p])].kind = "candidate"
      \/ pc' = [pc EXCEPT ![p] = "offer"] /\ log[Head(batch[p])].kind = "notify"
  BY DEF ApplyAnswer, ApplyCandidate, RestartIce, At, GoTo
<1>3. Own(Head(batch[p]), target[p])
  BY <1>1, AppliesOwn
<1>4. EventTypes'
  BY <1>1 DEF EventInv, EventTypes, Ids, sessionEvents
<1>5. ASSUME NEW q \in Reads PROVE ReadHolds(q)'
  <2>1. CASE q = p
    <3>1. rest[p] = <<>>
      BY <1>1 DEF EventInv, ReadHolds
    <3>2. \/ pc'[p] = "answering" /\ log[Head(batch[p])].kind = "answer"
          \/ pc'[p] = "adding" /\ log[Head(batch[p])].kind = "candidate"
          \/ pc'[p] = "offer" /\ log[Head(batch[p])].kind = "notify"
      BY <1>2 DEF Inv, FlowInv, Flows
    <3>3. ReadHolds(p)
      BY DEF EventInv
    <3> QED  BY <1>1, <1>3, <2>1, <3>1, <3>2, <3>3 DEF ReadHolds, Own, Ids, Restarting
  <2>2. CASE q # p
    <3>1. ReadSame(q)
      BY <1>1, <1>2, <2>2 DEF ReadSame, Inv, FlowInv, Flows
    <3> QED  BY <1>1, <3>1, ReadKeeps DEF EventInv
  <2> QED  BY <2>1, <2>2
<1>6. \A s \in Sessions : SessionHolds(s)'
  BY <1>1, SessionKeeps DEF Forgets, sessionEvents, EventInv
<1> QED  BY <1>4, <1>5, <1>6 DEF EventInv

\* The event at hand is done with; its session may have been given it, or what was flushed.
LEMMA DoneWith ==
  ASSUME Inv, EventInv, NEW p \in Reads,
         \/ Ignore(p) \/ AnswerRejected(p) \/ RestartSent(p) \/ CandidateAdded(p)
         \/ QueueCandidate(p)
         \/ (AnswerSet(p) \/ Flushed(p)) /\ NextEvent(p)
  PROVE  EventInv'
<1>1. /\ NextEvent(p) /\ UNCHANGED <<log, cursor>>
      /\ pc[p] \in {"next", "answering", "flushing", "adding", "soac"}
  BY DEF Ignore, At, AnswerRejected, RestartSent, CandidateAdded, QueueCandidate, AnswerSet,
         Flushed, pageVars
<1>2. p \in Flows /\ target[p] \in Sessions /\ batch[p] # <<>> /\ Head(batch[p]) \in Nat
  <2>1. p \in Flows /\ target[p] \in Sessions
    BY <1>1 DEF Inv, FlowInv, Flows, Working
  <2>2. pc[p] # "next" => batch[p] # <<>>
    BY <1>1 DEF EventInv, ReadHolds, Handling
  <2>3. pc[p] = "next" => batch[p] # <<>>
    BY DEF Ignore, At, AnswerRejected, RestartSent, CandidateAdded, QueueCandidate, AnswerSet,
           Flushed
  <2>4. batch[p] \in Seq(Nat)
    BY DEF EventInv, ReadHolds
  <2> QED  BY <2>1, <2>2, <2>3, <2>4, HeadAndTail
<1> DEFINE t == target[p]
<1>3. /\ DOMAIN batch' = Reads /\ DOMAIN rest' = Reads /\ UNCHANGED after
      /\ \A q \in Reads : ReadSame(q) \/ ReadCalm(q)
      /\ Head(batch[p]) \in Ids
      /\ processed' = [processed EXCEPT ![t] = @ \cup {Head(batch[p])}]
  BY <1>1, <1>2, NextIsCalm
<1>4. \/ Ignore(p) \/ AnswerRejected(p) \/ RestartSent(p)
      \/ pc[p] = "adding" /\ CandidateAdded(p)
      \/ QueueCandidate(p)
      \/ pc[p] = "answering" /\ AnswerSet(p)
      \/ pc[p] = "flushing" /\ Flushed(p)
  BY DEF CandidateAdded, AnswerSet, Flushed
\* What the session is given is its own.
<1>5. \/ UNCHANGED <<added, queued, remote>>
      \/ /\ \E e \in Nat : Own(e, t) /\ added' = [added EXCEPT ![t] = @ \cup {e}]
         /\ UNCHANGED <<queued, remote>>
      \/ /\ \E e \in Nat : Own(e, t) /\ queued' = [queued EXCEPT ![t] = Append(@, e)]
         /\ UNCHANGED <<added, remote>>
      \/ /\ \E e \in Nat : Own(e, t) /\ remote' = [remote EXCEPT ![t] = e]
         /\ queued' = [queued EXCEPT ![t] = <<>>] /\ UNCHANGED added
  <2>1. CASE Ignore(p) \/ AnswerRejected(p) \/ RestartSent(p)
    BY <2>1 DEF Ignore, AnswerRejected, RestartSent, peerVars
  <2>2. CASE pc[p] = "adding" /\ CandidateAdded(p)
    BY <1>2, <2>2 DEF CandidateAdded, EventInv, ReadHolds, Handling
  <2>3. CASE QueueCandidate(p)
    <3>1. Own(Head(batch[p]), t)
      BY <1>2, <2>3, AppliesOwn DEF QueueCandidate
    <3> QED  BY <1>2, <2>3, <3>1 DEF QueueCandidate, peerVars
  <2>4. CASE pc[p] = "answering" /\ AnswerSet(p)
    BY <1>2, <2>4 DEF AnswerSet, EventInv, ReadHolds, Handling
  <2>5. CASE pc[p] = "flushing" /\ Flushed(p)
    <3>1. rest[p] \in Seq(Nat) /\ rest[p] # <<>> /\ \A e \in ToSet(rest[p]) : Own(e, t)
      BY <2>5 DEF EventInv, ReadHolds
    <3>2. Head(rest[p]) \in Nat /\ Own(Head(rest[p]), t)
      BY <3>1, HeadAndTail
    <3> QED  BY <2>5, <3>2 DEF Flushed
  <2> QED  BY <1>4, <2>1, <2>2, <2>3, <2>4, <2>5
<1>6. EventTypes'
  BY <1>1, <1>3, <1>5 DEF EventInv, EventTypes, Ids
<1>7. ASSUME NEW s \in Sessions PROVE SessionHolds(s)'
  <2>1. SessionHolds(s) /\ EventTypes
    BY DEF EventInv
  <2>2. CASE s # t
    BY <1>1, <1>3, <1>5, <2>1, <2>2, SessionKeeps DEF Forgets, EventTypes
  <2>3. CASE s = t
    <3>1. processed'[s] \subseteq Ids
      BY <1>3, <2>1, <2>3 DEF SessionHolds, EventTypes
    <3>2. CASE UNCHANGED <<added, queued, remote>>
      BY <1>1, <2>1, <3>1, <3>2 DEF SessionHolds, Own, Ids
    <3>3. ASSUME NEW e \in Nat, Own(e, t), added' = [added EXCEPT ![t] = @ \cup {e}],
                 UNCHANGED <<queued, remote>>
          PROVE  SessionHolds(s)'
      BY <1>1, <2>1, <2>3, <3>1, <3>3 DEF SessionHolds, EventTypes, Own, Ids
    <3>4. ASSUME NEW e \in Nat, Own(e, t), queued' = [queued EXCEPT ![t] = Append(@, e)],
                 UNCHANGED <<added, remote>>
          PROVE  SessionHolds(s)'
      <4>1. queued'[s] = Append(queued[s], e)
        BY <2>1, <2>3, <3>4 DEF EventTypes
      <4>2. queued'[s] \in Seq(Nat) /\ ToSet(queued'[s]) = ToSet(queued[s]) \cup {e}
        BY <2>1, <4>1, AppendAdds DEF SessionHolds
      <4> QED  BY <1>1, <2>1, <2>3, <3>1, <3>4, <4>2 DEF SessionHolds, Own, Ids
    <3>5. ASSUME NEW e \in Nat, Own(e, t), remote' = [remote EXCEPT ![t] = e],
                 queued' = [queued EXCEPT ![t] = <<>>], UNCHANGED added
          PROVE  SessionHolds(s)'
      <4>1. queued'[s] = <<>> /\ remote'[s] = e
        BY <2>1, <2>3, <3>5 DEF EventTypes
      <4>2. queued'[s] \in Seq(Nat) /\ ToSet(queued'[s]) = {}
        BY <4>1, NothingInEmpty
      <4> QED  BY <1>1, <2>1, <2>3, <3>1, <3>5, <4>1, <4>2 DEF SessionHolds, Own, Ids
    <3> QED  BY <1>5, <3>2, <3>3, <3>4, <3>5
  <2> QED  BY <2>2, <2>3
<1>8. \A q \in Reads : ReadHolds(q)'
  BY <1>1, <1>3, ReadKeeps DEF EventInv
<1> QED  BY <1>6, <1>7, <1>8 DEF EventInv

\* The answer is set and the queue taken for flushing, or a candidate of it was added.
LEMMA Flushing ==
  ASSUME Inv, EventInv, NEW p \in Reads, AnswerSet(p) \/ Flushed(p), ~NextEvent(p)
  PROVE  EventInv'
<1> DEFINE t == target[p]
<1>1. /\ p \in Flows /\ t \in Sessions /\ batch[p] # <<>> /\ Head(batch[p]) \in Nat
      /\ Own(Head(batch[p]), t) /\ log[Head(batch[p])].kind = "answer"
      /\ UNCHANGED <<log, cursor, target, after, batch, processed>>
  <2>1. pc[p] \in {"answering", "flushing"}
    BY DEF AnswerSet, Flushed
  <2>2. p \in Flows /\ t \in Sessions
    BY <2>1 DEF Inv, FlowInv, Flows, Working
  <2>3. /\ batch[p] \in Seq(Nat) /\ batch[p] # <<>> /\ Own(Head(batch[p]), t)
        /\ log[Head(batch[p])].kind = "answer"
    BY <2>1 DEF EventInv, ReadHolds, Handling
  <2>4. UNCHANGED <<log, cursor, target, after, batch, processed>>
    BY DEF AnswerSet, Flushed, pageVars
  <2> QED  BY <2>2, <2>3, <2>4, HeadAndTail
<1>2. CASE AnswerSet(p)
  <2>1. /\ pc' = [pc EXCEPT ![p] = "flushing"] /\ rest' = [rest EXCEPT ![p] = queued[t]]
        /\ queued[t] # <<>> /\ queued' = [queued EXCEPT ![t] = <<>>]
        /\ remote' = [remote EXCEPT ![t] = Head(batch[p])] /\ UNCHANGED added
    BY <1>2 DEF AnswerSet, GoTo
  <2>2. /\ queued[t] \in Seq(Nat) /\ \A e \in ToSet(queued[t]) : Own(e, t)
        /\ \A s \in Sessions : SessionHolds(s)
    BY <1>1 DEF EventInv, SessionHolds
  <2>3. EventTypes'
    BY <1>1, <2>1 DEF EventInv, EventTypes, Ids
  <2>4. ASSUME NEW q \in Reads PROVE ReadHolds(q)'
    <3>1. CASE q = p
      <4>1. pc'[p] = "flushing" /\ rest'[p] = queued[t] /\ ReadHolds(p)
        BY <2>1 DEF EventInv, EventTypes, Inv, FlowInv, Flows
      <4> QED  BY <1>1, <2>1, <2>2, <3>1, <4>1 DEF ReadHolds, Own, Ids, Handling, Restarting
    <3>2. CASE q # p
      <4>1. ReadSame(q)
        BY <1>1, <2>1, <3>2 DEF ReadSame, EventInv, EventTypes, Inv, FlowInv, Flows
      <4> QED  BY <1>1, <4>1, ReadKeeps DEF EventInv
    <3> QED  BY <3>1, <3>2
  <2>5. ASSUME NEW s \in Sessions PROVE SessionHolds(s)'
    <3>1. CASE s = t
      <4>1. queued'[s] = <<>> /\ remote'[s] = Head(batch[p])
        BY <2>1, <3>1 DEF EventInv, EventTypes
      <4>2. queued'[s] \in Seq(Nat) /\ ToSet(queued'[s]) = {}
        BY <4>1, NothingInEmpty
      <4> QED  BY <1>1, <2>1, <2>2, <3>1, <4>1, <4>2 DEF SessionHolds, Own, Ids
    <3>2. CASE s # t
      BY <1>1, <2>1, <2>2, <3>2, SessionKeeps DEF Forgets, EventInv, EventTypes
    <3> QED  BY <3>1, <3>2
  <2> QED  BY <2>3, <2>4, <2>5 DEF EventInv
<1>3. CASE Flushed(p)
  <2>1. /\ pc[p] = "flushing" /\ Len(rest[p]) # 1 /\ rest' = [rest EXCEPT ![p] = Tail(@)]
        /\ added' = [added EXCEPT ![t] = @ \cup {Head(rest[p])}]
        /\ UNCHANGED <<pc, queued, remote>>
    BY <1>3 DEF Flushed
  <2>2. /\ rest[p] \in Seq(Nat) /\ rest[p] # <<>> /\ \A e \in ToSet(rest[p]) : Own(e, t)
        /\ ReadHolds(p) /\ \A s \in Sessions : SessionHolds(s)
    BY <2>1 DEF EventInv, ReadHolds
  <2>3. /\ Own(Head(rest[p]), t) /\ Tail(rest[p]) \in Seq(Nat) /\ Tail(rest[p]) # <<>>
        /\ \A e \in ToSet(Tail(rest[p])) : Own(e, t)
    BY <2>1, <2>2, HeadAndTail
  <2>4. EventTypes'
    BY <1>1, <2>1 DEF EventInv, EventTypes, Ids
  <2>5. ASSUME NEW q \in Reads PROVE ReadHolds(q)'
    <3>1. CASE q = p
      <4>1. rest'[p] = Tail(rest[p])
        BY <2>1 DEF EventInv, EventTypes
      <4> QED  BY <1>1, <2>1, <2>2, <2>3, <3>1, <4>1 DEF ReadHolds, Own, Ids
    <3>2. CASE q # p
      <4>1. ReadSame(q)
        BY <1>1, <2>1, <3>2 DEF ReadSame, EventInv, EventTypes
      <4> QED  BY <1>1, <4>1, ReadKeeps DEF EventInv
    <3> QED  BY <3>1, <3>2
  <2>6. ASSUME NEW s \in Sessions PROVE SessionHolds(s)'
    <3>1. SessionHolds(s) /\ added'[s] \subseteq added[s] \cup (IF s = t THEN {Head(rest[p])} ELSE {})
      BY <2>1, <2>2 DEF EventInv, EventTypes
    <3> QED  BY <1>1, <2>1, <2>3, <3>1 DEF SessionHolds, Own, Ids
  <2> QED  BY <2>4, <2>5, <2>6 DEF EventInv
<1> QED  BY <1>2, <1>3

\* The device's next event joins the log, with the id of its session.
LEMMA SentEvents ==
  ASSUME Tagged, Inv, EventInv, NEW s \in Sessions, Answers(s) \/ Trickles(s) \/ Notifies(s)
  PROVE  EventInv' /\ Len(log) \in Nat /\ Len(log') = Len(log) + 1
         /\ \A i \in Ids : log'[i] = log[i]
<1>1. PICK e \in Events : log' = Append(log, e) /\ e.tag = e.of
  <2>1. ASSUME NEW kind \in {"answer", "candidate", "notify"}, NEW to \in Nat, Sends(s, kind, to)
        PROVE  \E e \in Events : log' = Append(log, e) /\ e.tag = e.of
    <3>1. log' = Append(log, [kind |-> kind, of |-> s, tag |-> s, to |-> to])
      BY <2>1 DEF Sends
    <3> QED  BY <3>1 DEF Events
  <2>2. \E kind \in {"answer", "candidate", "notify"}, to \in Nat : Sends(s, kind, to)
    <3>1. ASSUME NEW n \in 1..Len(offers[s]) PROVE n \in Nat
      OBVIOUS
    <3> QED  BY <3>1 DEF Answers, Trickles, Notifies
  <2> QED  BY <2>1, <2>2
<1>2. /\ log \in Seq(Events) /\ log' \in Seq(Events) /\ Len(log) \in Nat
      /\ Len(log') = Len(log) + 1 /\ log'[Len(log) + 1] = e
      /\ \A i \in Ids : log'[i] = log[i]
  BY <1>1 DEF EventInv, EventTypes, Ids
<1>3. UNCHANGED <<cursor, sessionEvents, pc, target, after, batch, rest>>
  BY DEF Answers, Trickles, Notifies, Sends, pageVars, sessionVars, peerVars, flowVars,
         sessionEvents
<1>4. EventTypes'
  <2>1. ASSUME NEW i \in Ids' PROVE log'[i].tag = log'[i].of
    <3>1. i \in Ids \/ i = Len(log) + 1
      BY <1>2 DEF Ids
    <3> QED  BY <1>1, <1>2, <3>1 DEF EventInv, EventTypes
  <2> QED  BY <1>2, <1>3, <2>1 DEF EventInv, EventTypes, sessionEvents
<1>5. ASSUME NEW p \in Reads PROVE ReadHolds(p)'
  <2>1. Ids \subseteq Ids' /\ \A i, q : Own(i, q) => Own(i, q)'
    BY <1>2 DEF Own, Ids
  <2>2. ReadHolds(p)
    BY DEF EventInv
  <2>3. pc[p] \in Handling => log'[Head(batch[p])] = log[Head(batch[p])]
    BY <1>2, <2>2 DEF ReadHolds, Own
  <2> QED  BY <1>3, <2>1, <2>2, <2>3 DEF ReadHolds, Handling, Restarting
<1>6. ASSUME NEW q \in Sessions PROVE SessionHolds(q)'
  <2>1. Ids \subseteq Ids' /\ \A i : Own(i, q) => Own(i, q)'
    BY <1>2 DEF Own, Ids
  <2>2. SessionHolds(q)
    BY DEF EventInv
  <2> QED  BY <1>3, <2>1, <2>2 DEF SessionHolds, sessionEvents
<1> QED  BY <1>2, <1>4, <1>5, <1>6 DEF EventInv

\* Whatever the log holds and however reads overlap, no session is given another one's event.
THEOREM EventsAreOwn == ASSUME Tagged PROVE Spec => []EventInv
<1>1. Init => EventInv
  <2> SUFFICES ASSUME Init PROVE EventInv
    OBVIOUS
  <2>1. log = <<>> /\ log \in Seq(Events) /\ Ids = {}
    <3>1. log = <<>>
      BY DEF Init
    <3>2. log \in Seq(Events) /\ Len(log) = 0
      BY <3>1, EmptySeq
    <3> QED  BY <3>1, <3>2 DEF Ids
  <2>2. ASSUME NEW p \in Reads PROVE ReadHolds(p)
    <3>1. batch[p] = <<>> /\ rest[p] = <<>> /\ pc[p] = "idle"
      BY DEF Init, Flows
    <3> QED  BY <3>1, NothingInEmpty DEF ReadHolds, Handling, Restarting
  <2>3. ASSUME NEW s \in Sessions PROVE SessionHolds(s)
    <3>1. processed[s] = {} /\ queued[s] = <<>> /\ added[s] = {} /\ remote[s] = 0
      BY DEF Init
    <3> QED  BY <3>1, NothingInEmpty DEF SessionHolds
  <2> QED  BY <2>1, <2>2, <2>3 DEF Init, EventInv, EventTypes
<1>2. Inv /\ EventInv /\ [Next]_vars => EventInv'
  <2> SUFFICES ASSUME Inv, EventInv, [Next]_vars PROVE EventInv'
    OBVIOUS
  <2>1. ASSUME NEW s \in Sessions, SessionStarts(s) \/ Start(s) PROVE EventInv'
    BY <2>1, StartEvents, FlowEvents DEF Start, Flows, Places
  <2>2. ASSUME NEW s \in Sessions, Device(s) PROVE EventInv'
    BY <2>2, StartEvents, SentEvents DEF Device
  <2>3. ASSUME NEW f \in Flows, Offering(f) \/ Refused(f) PROVE EventInv'
    BY <2>3, FlowEvents DEF Offering, Places
  <2>4. ASSUME NEW p \in Reads, Poll(p) \/ Served(p) \/ ServedLate(p) PROVE EventInv'
    BY <2>4, FlowEvents, ServedEvents DEF Flows
  <2>5. ASSUME NEW p \in Reads, Apply(p) PROVE EventInv'
    <3>1. CASE SkipProcessed(p) \/ CandidateRejected(p) \/ BatchDone(p) \/ Sampled(p) \/ Overtaken(p)
      BY <3>1, FlowEvents DEF Flows
    <3>2. CASE Ignore(p) \/ AnswerRejected(p) \/ QueueCandidate(p) \/ CandidateAdded(p) \/ RestartSent(p)
      BY <3>2, DoneWith
    <3>3. CASE AnswerSet(p) \/ Flushed(p)
      BY <3>3, DoneWith, Flushing
    <3>4. CASE ApplyAnswer(p) \/ ApplyCandidate(p) \/ RestartIce(p)
      BY <3>4, TakenUp
    <3> QED  BY <2>5, <3>1, <3>2, <3>3, <3>4 DEF Apply
  <2>6. CASE SessionCloses \/ TimesOut
    BY <2>6, StartEvents
  <2>7. CASE UNCHANGED vars
    <3>1. UNCHANGED <<log, cursor, sessionEvents, pc, target, after, batch, rest>>
      BY <2>7 DEF vars, pageVars, sessionVars, peerVars, flowVars, sessionEvents
    <3>2. EventTypes' /\ (\A p \in Reads : ReadSame(p)) /\ \A s \in Sessions : Forgets(s)
      BY <3>1 DEF EventInv, EventTypes, Ids, ReadSame, Forgets, sessionEvents
    <3> QED  BY <3>1, <3>2, NothingNew
  <2> QED  BY <2>1, <2>2, <2>3, <2>4, <2>5, <2>6, <2>7 DEF Next
<1> QED  BY <1>1, <1>2, Invariance, PTL DEF Spec

-----------------------------------------------------------------------------
(* No candidate is lost. *)

\* A flow that makes an offer has been started, and has a peer while its session is live.
PeerInv ==
  \A f \in Flows : pc[f] \in Restarting =>
    generation[target[f]] # 0 /\ (Live(target[f]) => HasPeer(target[f]))

LEMMA PeerStep == ASSUME Inv, PeerInv, [Next]_vars PROVE PeerInv'
<1>0. /\ generation \in [Sessions -> Nat] /\ DOMAIN signaling = Sessions
      /\ pc \in [Flows -> Places] /\ Sessions \subseteq Flows /\ Reads \subseteq Flows
      /\ DOMAIN target = Flows
      /\ \A f \in Flows : pc[f] \in Restarting => target[f] \in Sessions
  BY DEF Inv, SessionInv, SessionTypes, FlowInv, Flows, Restarting, Working
\* No flow begins an offer, generations grow, and live sessions keep their peer.
<1> DEFINE Quiet(f) ==
      pc'[f] \in Restarting => /\ pc[f] \in Restarting /\ UNCHANGED target[f]
                               /\ generation'[target[f]] # 0
                               /\ Live(target[f])' => Live(target[f])
                               /\ HasPeer(target[f]) => HasPeer(target[f])' \/ ~Live(target[f])'
<1>1. ASSUME \A f \in Flows : Quiet(f) PROVE PeerInv'
  BY <1>1 DEF PeerInv, Live, HasPeer
<1>2. ASSUME UNCHANGED <<generation, signaling>>,
             \A f \in Flows : pc'[f] \in Restarting => pc[f] \in Restarting /\ UNCHANGED target[f]
      PROVE  PeerInv'
  BY <1>2 DEF PeerInv, Live, HasPeer
<1>3. ASSUME NEW s \in Sessions, SessionStarts(s) PROVE PeerInv'
  <2>1. /\ generation[s] = 0 /\ pc' = [pc EXCEPT ![s] = "control"] /\ UNCHANGED target
        /\ sessionRef \in Sessions \cup {None}
        /\ \/ generation' = [generation EXCEPT ![s] = 1] /\ UNCHANGED signaling
           \/ /\ sessionRef \in Sessions /\ generation[sessionRef] >= 1
              /\ generation' = [generation EXCEPT ![sessionRef] = @ + 1, ![s] = 1]
              /\ \A t \in Sessions : t # sessionRef => signaling'[t] = signaling[t]
    BY <1>0, <1>3 DEF SessionStarts, GoTo, Inv, SessionInv, SessionTypes
  <2>2. ASSUME NEW f \in Flows PROVE Quiet(f)
    BY <1>0, <2>1 DEF PeerInv, Restarting, Live, HasPeer
  <2> QED  BY <1>1, <2>2
<1>4. CASE SessionCloses \/ TimesOut
  <2>1. /\ UNCHANGED <<pc, target>> /\ sessionRef \in Sessions /\ generation[sessionRef] >= 1
        /\ generation' = [generation EXCEPT ![sessionRef] = @ + 1]
        /\ \A t \in Sessions : t # sessionRef => signaling'[t] = signaling[t]
    BY <1>0, <1>4 DEF SessionCloses, TimesOut, CloseObject, flowVars, Inv, SessionInv, SessionTypes
  <2>2. ASSUME NEW f \in Flows PROVE Quiet(f)
    BY <1>0, <2>1 DEF PeerInv, Live, HasPeer
  <2> QED  BY <1>1, <2>2
<1>5. ASSUME NEW f \in Flows, Over(f), UNCHANGED <<generation, signaling>> PROVE PeerInv'
  <2>1. \A g \in Flows : pc'[g] \in Restarting => pc[g] \in Restarting /\ UNCHANGED target[g]
    BY <1>0, <1>5 DEF Over, Restarting
  <2> QED  BY <1>2, <1>5, <2>1
<1>6. ASSUME NEW s \in Sessions, ControlAcked(s) \/ StartOffered(s) \/ Aborted(s, "control")
      PROVE  PeerInv'
  <2>1. CASE ControlAcked(s)
    <3>1. target[s] = s /\ Live(s)
      BY <1>0, <2>1, CurrentIsLive DEF ControlAcked, Working, Inv, FlowInv
    <3>2. /\ signaling' = [signaling EXCEPT ![s] = "stable"] /\ pc' = [pc EXCEPT ![s] = "offer"]
          /\ UNCHANGED <<target, generation>>
      BY <2>1 DEF ControlAcked, GoTo
    <3> QED  BY <1>0, <3>1, <3>2 DEF PeerInv, Live, HasPeer
  <2>2. CASE StartOffered(s) \/ Aborted(s, "control")
    BY <1>0, <1>5, <2>2 DEF StartOffered, Aborted, sessionVars, peerVars
  <2> QED  BY <1>6, <2>1, <2>2
<1>7. ASSUME NEW f \in Flows, Offering(f) \/ Refused(f) PROVE PeerInv'
  <2>1. CASE OfferCreated(f)
    BY <1>0, <1>2, <2>1 DEF OfferCreated, GoTo, sessionVars, peerVars, Restarting
  <2>2. CASE LocalSet(f)
    <3>1. /\ signaling' = [signaling EXCEPT ![target[f]] = "have-local-offer"]
          /\ pc[f] \in Restarting /\ pc' = [pc EXCEPT ![f] = "soac"]
          /\ UNCHANGED <<target, generation>>
      BY <2>2 DEF LocalSet, GoTo, sessionVars, Restarting
    <3>2. ASSUME NEW g \in Flows PROVE Quiet(g)
      BY <1>0, <3>1 DEF PeerInv, Live, HasPeer
    <3> QED  BY <1>1, <3>2
  <2>3. CASE Refused(f) \/ \E place \in Restarting : Aborted(f, place)
    BY <1>5, <2>3 DEF Refused, Aborted, sessionVars, peerVars
  <2> QED  BY <1>7, <2>1, <2>2, <2>3 DEF Offering, Restarting
<1>8. ASSUME NEW s \in Sessions, Device(s) PROVE PeerInv'
  <2>1. UNCHANGED <<generation, signaling, pc, target>>
    BY <1>8 DEF Device, Answers, Trickles, Notifies, Sends, MediaArrives, sessionVars, peerVars,
                flowVars
  <2> QED  BY <1>2, <2>1
<1>9. ASSUME NEW p \in Reads, Poll(p) \/ Served(p) \/ ServedLate(p) PROVE PeerInv'
  <2>1. UNCHANGED <<generation, signaling>>
    BY <1>9 DEF Poll, Served, ServedLate, sessionVars, peerVars
  <2>2. \A g \in Flows : pc'[g] \in Restarting => pc[g] \in Restarting /\ UNCHANGED target[g]
    BY <1>0, <1>9 DEF Poll, Served, ServedLate, GoTo, Over, Restarting
  <2> QED  BY <1>2, <2>1, <2>2
<1>10. ASSUME NEW p \in Reads, Apply(p) PROVE PeerInv'
  <2>1. CASE AnswerSet(p)
    <3>1. /\ signaling' = [signaling EXCEPT ![target[p]] = "stable"] /\ UNCHANGED <<target, generation>>
          /\ pc' = [pc EXCEPT ![p] = "next"] \/ pc' = [pc EXCEPT ![p] = "flushing"]
      BY <2>1 DEF AnswerSet, NextEvent, GoTo
    <3>2. ASSUME NEW g \in Flows PROVE Quiet(g)
      BY <1>0, <3>1 DEF PeerInv, Live, HasPeer, Restarting
    <3> QED  BY <1>1, <3>2
  <2>2. CASE RestartIce(p)
    <3>1. /\ pc' = [pc EXCEPT ![p] = "offer"] /\ UNCHANGED <<target, generation, signaling>>
          /\ pc[p] = "next" /\ Current(p) /\ Applies(p)
      BY <2>2 DEF RestartIce, At, GoTo, sessionVars, peerVars
    <3>2. Live(target[p]) /\ HasPeer(target[p])
      BY <3>1, AppliesIsLive DEF Applies
    <3> QED  BY <1>0, <3>1, <3>2 DEF PeerInv, Live, HasPeer
  <2>3. CASE CandidateRejected(p) \/ Sampled(p) \/ Overtaken(p)
    BY <1>0, <1>5, <2>3 DEF CandidateRejected, Sampled, Overtaken, sessionVars, peerVars
  <2>4. CASE \/ SkipProcessed(p) \/ Ignore(p) \/ ApplyAnswer(p) \/ AnswerRejected(p)
             \/ QueueCandidate(p) \/ ApplyCandidate(p) \/ CandidateAdded(p) \/ Flushed(p)
             \/ RestartSent(p) \/ BatchDone(p)
    <3>1. UNCHANGED <<generation, signaling>>
      BY <2>4 DEF SkipProcessed, Ignore, ApplyAnswer, AnswerRejected, QueueCandidate, ApplyCandidate,
                  CandidateAdded, Flushed, RestartSent, BatchDone, sessionVars, peerVars
    <3>2. \/ UNCHANGED <<pc, target>> \/ Over(p)
          \/ UNCHANGED target /\ \E place \in {"next", "answering", "adding", "stats"} : GoTo(p, place)
      BY <2>4 DEF SkipProcessed, Ignore, ApplyAnswer, AnswerRejected, QueueCandidate, ApplyCandidate,
                  CandidateAdded, Flushed, RestartSent, BatchDone, NextEvent
    <3>3. \A g \in Flows : pc'[g] \in Restarting => pc[g] \in Restarting /\ UNCHANGED target[g]
      BY <1>0, <3>2 DEF GoTo, Over, Restarting
    <3> QED  BY <1>2, <3>1, <3>3
  <2> QED  BY <1>10, <2>1, <2>2, <2>3, <2>4 DEF Apply
<1>11. CASE UNCHANGED vars
  BY <1>2, <1>11 DEF vars, sessionVars, peerVars, flowVars
<1> QED  BY <1>3, <1>4, <1>6, <1>7, <1>8, <1>9, <1>10, <1>11 DEF Next, Start

\* The candidate e is with the peer of session s, in its queue, or being flushed.
Held(e, s) ==
  \/ e \in added[s] \cup ToSet(queued[s])
  \/ \E p \in Reads : target[p] = s /\ e \in ToSet(rest[p])

Kept(s) ==
  Live(s) /\ HasPeer(s) =>
    \A e \in processed[s] : log[e].kind = "candidate" /\ log[e].of = s => Held(e, s)

KeptInv == ~setting.errors => \A s \in Sessions : Kept(s)

\* Nothing of what concerns the candidates of session s changes.
Untouched(s) ==
  /\ Live(s) /\ HasPeer(s)
  /\ UNCHANGED <<processed[s], added[s], queued[s]>>
  /\ \A p \in Reads : target[p] = s /\ rest[p] # <<>> => UNCHANGED <<target[p], rest[p]>>

LEMMA KeptStays ==
  ASSUME EventInv, NEW s \in Sessions, Kept(s), \A i \in Ids : log'[i] = log[i],
         (Live(s) /\ HasPeer(s))' => Untouched(s)
  PROVE  Kept(s)'
<1> SUFFICES ASSUME (Live(s) /\ HasPeer(s))', NEW e \in processed'[s],
                    log'[e].kind = "candidate", log'[e].of = s
             PROVE  Held(e, s)'
  BY DEF Kept
<1>1. e \in Ids /\ e \in processed[s]
  BY DEF Untouched, EventInv, SessionHolds
<1>2. Held(e, s)
  BY <1>1 DEF Kept, Untouched
<1>3. ASSUME NEW p \in Reads, target[p] = s, e \in ToSet(rest[p]) PROVE Held(e, s)'
  <2>1. rest[p] # <<>>
    BY <1>3, NothingInEmpty
  <2> QED  BY <1>3, <2>1 DEF Untouched, Held
<1> QED  BY <1>2, <1>3 DEF Held, Untouched

LEMMA AllStay ==
  ASSUME EventInv, KeptInv, UNCHANGED setting, \A i \in Ids : log'[i] = log[i],
         ~setting.errors =>
           \A s \in Sessions : (Live(s) /\ HasPeer(s))' => Untouched(s)
  PROVE  KeptInv'
  BY KeptStays DEF KeptInv

\* A flow that is over held no candidates of a live session, unless one was rejected.
LEMMA KeptOver ==
  ASSUME Inv, EventInv, KeptInv, NEW f \in Flows, Over(f),
         UNCHANGED <<setting, log, generation, signaling, processed, added, queued>>,
         ~setting.errors /\ f \in Reads /\ pc[f] = "flushing" => ~Live(target[f])
  PROVE  KeptInv'
<1>1. ASSUME ~setting.errors, NEW s \in Sessions, (Live(s) /\ HasPeer(s))' PROVE Untouched(s)
  <2>1. Live(s) /\ HasPeer(s) /\ UNCHANGED <<processed[s], added[s], queued[s]>>
    BY <1>1 DEF Live, HasPeer
  <2>2. ASSUME NEW p \in Reads, target[p] = s, rest[p] # <<>> PROVE UNCHANGED <<target[p], rest[p]>>
    <3>1. pc[p] = "flushing"
      BY <2>2 DEF EventInv, ReadHolds
    <3>2. p # f
      BY <1>1, <2>1, <2>2, <3>1
    <3> QED  BY <3>2 DEF Over, Inv, FlowInv, Flows
  <2> QED  BY <2>1, <2>2 DEF Untouched
<1> QED  BY <1>1, AllStay

\* Sessions are started and closed, and a new peer begins without events.
LEMMA KeptSessions ==
  ASSUME Inv, EventInv, KeptInv,
         \/ \E s \in Sessions : SessionStarts(s) \/ ControlAcked(s) \/ MediaArrives(s)
         \/ SessionCloses \/ TimesOut
  PROVE  KeptInv'
<1>0. UNCHANGED <<setting, log, target, rest>>
  BY DEF SessionStarts, ControlAcked, MediaArrives, SessionCloses, TimesOut, flowVars
<1>1. ASSUME NEW s \in Sessions, SessionStarts(s) PROVE KeptInv'
  <2>0. None \notin Sessions
    BY NoneAssumption DEF Sessions
  <2>1. ~HasPeer(s) /\ generation[s] = 0
    BY <1>1 DEF SessionStarts, Inv, SessionInv, Blank, Live
  <2>2. ASSUME NEW t \in Sessions, (Live(t) /\ HasPeer(t))' PROVE Untouched(t)
    <3>1. \/ sessionRef \notin Sessions /\ generation' = [generation EXCEPT ![s] = 1]
             /\ UNCHANGED <<signaling, processed, added, queued>>
          \/ /\ sessionRef \in Sessions /\ generation[sessionRef] >= 1
             /\ generation' = [generation EXCEPT ![sessionRef] = @ + 1, ![s] = 1]
             /\ \A u \in Sessions : u # sessionRef =>
                  UNCHANGED <<signaling[u], processed[u], added[u], queued[u]>>
      BY <1>1, <2>0 DEF SessionStarts, Inv, SessionInv, SessionTypes, EventInv, EventTypes
    <3>2. t # s
      <4>1. UNCHANGED signaling[s]
        BY <2>1, <3>1
      <4> QED  BY <2>1, <2>2, <4>1 DEF HasPeer
    <3>3. t # sessionRef
      <4>1. sessionRef = t => generation[t] >= 1 /\ generation'[t] = generation[t] + 1
        BY <3>1, <3>2 DEF Inv, SessionInv, SessionTypes
      <4> QED  BY <2>2, <4>1 DEF Live, Inv, SessionInv, SessionTypes
    <3>4. UNCHANGED <<generation[t], signaling[t], processed[t], added[t], queued[t]>>
      BY <3>1, <3>2, <3>3 DEF Inv, SessionInv, SessionTypes
    <3> QED  BY <1>0, <2>2, <3>4 DEF Untouched, Live, HasPeer
  <2> QED  BY <1>0, <2>2, AllStay
<1>2. CASE SessionCloses \/ TimesOut
  <2>1. /\ sessionRef \in Sessions /\ generation[sessionRef] >= 1
        /\ generation' = [generation EXCEPT ![sessionRef] = @ + 1]
        /\ \A u \in Sessions : u # sessionRef =>
             UNCHANGED <<signaling[u], processed[u], added[u], queued[u]>>
    BY <1>2 DEF SessionCloses, TimesOut, CloseObject, Inv, SessionInv, SessionTypes, EventInv,
                EventTypes
  <2>2. ASSUME NEW t \in Sessions, (Live(t) /\ HasPeer(t))' PROVE Untouched(t)
    <3>1. t # sessionRef
      BY <2>1, <2>2 DEF Live, Inv, SessionInv, SessionTypes
    <3>2. UNCHANGED <<generation[t], signaling[t], processed[t], added[t], queued[t]>>
      BY <2>1, <3>1 DEF Inv, SessionInv, SessionTypes
    <3> QED  BY <1>0, <2>2, <3>2 DEF Untouched, Live, HasPeer
  <2> QED  BY <1>0, <2>2, AllStay
<1>3. ASSUME NEW s \in Sessions, ControlAcked(s) PROVE KeptInv'
  <2>1. /\ processed' = [processed EXCEPT ![s] = {}]
        /\ signaling' = [signaling EXCEPT ![s] = "stable"]
        /\ UNCHANGED <<generation, added, queued>>
    BY <1>3 DEF ControlAcked
  <2>2. ASSUME NEW t \in Sessions, Kept(t) PROVE Kept(t)'
    <3>1. CASE t = s
      BY <2>1, <3>1 DEF Kept, EventInv, EventTypes
    <3>2. CASE t # s
      <4>1. UNCHANGED <<processed[t], signaling[t]>>
        BY <2>1, <3>2 DEF EventInv, EventTypes, Inv, SessionInv, SessionTypes
      <4>2. (Live(t) /\ HasPeer(t))' => Untouched(t)
        BY <1>0, <2>1, <4>1 DEF Untouched, Live, HasPeer
      <4> QED  BY <1>0, <2>2, <4>2, KeptStays
    <3> QED  BY <3>1, <3>2
  <2> QED  BY <1>0, <2>2 DEF KeptInv
<1>4. ASSUME NEW s \in Sessions, MediaArrives(s) PROVE KeptInv'
  <2>1. UNCHANGED <<generation, signaling, processed, added, queued>>
    BY <1>4 DEF MediaArrives, peerVars
  <2>2. \A t \in Sessions : (Live(t) /\ HasPeer(t))' => Untouched(t)
    BY <1>0, <2>1 DEF Untouched, Live, HasPeer
  <2> QED  BY <1>0, <2>2, AllStay
<1> QED  BY <1>1, <1>2, <1>3, <1>4

\* The other steps that process no event.
LEMMA KeptFlows ==
  ASSUME Inv, EventInv, PeerInv, KeptInv, NEW f \in Flows,
         \/ f \in Sessions /\ (StartOffered(f) \/ Aborted(f, "control"))
         \/ Offering(f) \/ Refused(f)
         \/ f \in Reads /\ \/ Poll(f) \/ Served(f) \/ ServedLate(f) \/ SkipProcessed(f)
                           \/ ApplyAnswer(f) \/ ApplyCandidate(f) \/ RestartIce(f)
                           \/ CandidateRejected(f) \/ BatchDone(f) \/ Sampled(f) \/ Overtaken(f)
  PROVE  KeptInv'
<1>1. CASE Over(f)
  <2>1. /\ UNCHANGED <<setting, log, generation, signaling, processed, added, queued>>
        /\ ~setting.errors /\ f \in Reads /\ pc[f] = "flushing" => Overtaken(f)
    <3>1. \/ StartOffered(f) \/ Refused(f) \/ ServedLate(f) \/ CandidateRejected(f)
          \/ BatchDone(f) \/ Sampled(f) \/ Overtaken(f)
          \/ \E place \in {"control", "offer", "local", "soac"} : Aborted(f, place)
      <4>1. ~GoTo(f, "local") /\ ~GoTo(f, "soac") /\ (f \in Reads => ~GoTo(f, "asked")
            /\ ~GoTo(f, "next") /\ ~GoTo(f, "answering") /\ ~GoTo(f, "adding") /\ ~GoTo(f, "offer"))
        BY <1>1 DEF Over, GoTo, Inv, FlowInv
      <4>2. f \in Reads /\ pc[f] = "next" => ~UNCHANGED pc
        BY <1>1 DEF Over, Inv, FlowInv
      <4> QED
        BY <4>1, <4>2 DEF Offering, OfferCreated, LocalSet, Poll, Served, SkipProcessed, ApplyAnswer,
                          ApplyCandidate, RestartIce, At
    <3>2. UNCHANGED <<setting, log, generation, signaling, processed, added, queued>>
      BY <3>1 DEF StartOffered, Refused, Aborted, ServedLate, CandidateRejected, BatchDone, Sampled,
                  Overtaken, sessionVars, peerVars
    <3>3. ~setting.errors /\ f \in Reads /\ pc[f] = "flushing" => Overtaken(f)
      BY <3>1 DEF StartOffered, Refused, Aborted, ServedLate, CandidateRejected, BatchDone, Sampled
    <3> QED  BY <3>2, <3>3
  <2>2. Overtaken(f) /\ pc[f] = "flushing" => ~Live(target[f])
    BY DEF Overtaken, Current, Live, Inv, FlowInv, Working
  <2> QED  BY <1>1, <2>1, <2>2, KeptOver
<1>2. ASSUME ~Over(f) PROVE KeptInv'
  <2>1. /\ UNCHANGED <<setting, log, generation, processed, added, queued, rest>>
        /\ \/ UNCHANGED target
           \/ f \in Reads /\ pc[f] = "idle" /\ target' = [target EXCEPT ![f] = sessionRef]
        /\ \/ UNCHANGED signaling
           \/ LocalSet(f)
    BY <1>2 DEF StartOffered, Offering, OfferCreated, LocalSet, Refused, Aborted, Poll, Served,
                ServedLate, SkipProcessed, ApplyAnswer, ApplyCandidate, RestartIce,
                CandidateRejected, BatchDone, Sampled, Overtaken, sessionVars, peerVars
  <2>2. ASSUME NEW s \in Sessions, (Live(s) /\ HasPeer(s))' PROVE HasPeer(s)
    <3>1. CASE UNCHANGED signaling
      BY <2>2, <3>1 DEF HasPeer
    <3>2. CASE LocalSet(f)
      <4>1. /\ pc[f] \in Restarting /\ target[f] \in Sessions
            /\ signaling' = [signaling EXCEPT ![target[f]] = "have-local-offer"]
        BY <3>2 DEF LocalSet, Restarting, Inv, FlowInv, Working
      <4>2. CASE s = target[f]
        BY <2>1, <2>2, <4>1, <4>2 DEF PeerInv, Live
      <4>3. CASE s # target[f]
        BY <2>2, <4>1, <4>3 DEF HasPeer
      <4> QED  BY <4>2, <4>3
    <3> QED  BY <2>1, <3>1, <3>2
  <2>3. ASSUME NEW p \in Reads, rest[p] # <<>> PROVE UNCHANGED <<target[p], rest[p]>>
    BY <2>1, <2>3 DEF EventInv, ReadHolds, Inv, FlowInv, Flows
  <2>4. \A s \in Sessions : (Live(s) /\ HasPeer(s))' => Untouched(s)
    BY <2>1, <2>2, <2>3 DEF Untouched, Live
  <2> QED  BY <2>1, <2>4, AllStay
<1> QED  BY <1>1, <1>2

\* An event is processed: a candidate of the session is with the peer or in the queue.
LEMMA KeptDone ==
  ASSUME Inv, EventInv, KeptInv, NEW p \in Reads,
         \/ Ignore(p) \/ AnswerRejected(p) \/ RestartSent(p) \/ CandidateAdded(p)
         \/ QueueCandidate(p)
         \/ (AnswerSet(p) \/ Flushed(p)) /\ NextEvent(p)
  PROVE  KeptInv'
<1>0. PICK t, b : t = target[p] /\ b = Head(batch[p])
  OBVIOUS
<1>1. /\ NextEvent(p) /\ UNCHANGED <<setting, log, generation, target>>
      /\ processed' = [processed EXCEPT ![t] = @ \cup {b}]
      /\ rest' = [rest EXCEPT ![p] = <<>>]
  <2>1. NextEvent(p) /\ UNCHANGED <<setting, log, generation>>
    BY DEF Ignore, AnswerRejected, RestartSent, CandidateAdded, QueueCandidate, AnswerSet, Flushed,
           pageVars
  <2> QED  BY <1>0, <2>1 DEF NextEvent
<1>2. p \in Flows /\ t \in Sessions
  <2>1. pc[p] \in {"next", "answering", "flushing", "adding", "soac"}
    BY DEF Ignore, At, AnswerRejected, RestartSent, CandidateAdded, QueueCandidate, AnswerSet, Flushed
  <2> QED  BY <1>0, <2>1 DEF Inv, FlowInv, Flows, Working
<1>3. \A s \in Sessions : HasPeer(s)' => HasPeer(s)
  BY <1>0, <1>2 DEF Ignore, AnswerRejected, RestartSent, CandidateAdded, QueueCandidate, AnswerSet, Flushed,
     peerVars, HasPeer, Inv, SessionInv, SessionTypes
\* What was held still is, and the event at hand is held if it is a candidate of the session.
<1>4. /\ \A s \in Sessions \ {t} : UNCHANGED <<added[s], queued[s]>>
      /\ \A e : Held(e, t) => Held(e, t)'
      /\ log[b].kind = "candidate" /\ log[b].of = t /\ HasPeer(t) => Held(b, t)'
  <2>0. /\ EventTypes /\ ReadHolds(p) /\ SessionHolds(t)
        /\ \A q \in Reads : q # p => UNCHANGED rest[q]
    BY <1>1, <1>2 DEF EventInv, EventTypes
  <2>1. ASSUME rest[p] = <<>>, added[t] \subseteq added'[t], ToSet(queued[t]) \subseteq ToSet(queued'[t]),
               NEW e, Held(e, t)
        PROVE  Held(e, t)'
    <3>1. ASSUME NEW q \in Reads, target[q] = t, e \in ToSet(rest[q]) PROVE Held(e, t)'
      BY <1>1, <2>0, <2>1, <3>1, NothingInEmpty DEF Held
    <3> QED  BY <2>1, <3>1 DEF Held
  <2>2. CASE Ignore(p)
    <3>1. UNCHANGED <<added, queued>> /\ rest[p] = <<>> /\ pc[p] = "next"
      BY <2>0, <2>2 DEF Ignore, At, peerVars, ReadHolds
    <3>2. log[b].kind = "candidate" => ~Applies(p)
      BY <1>0, <2>2 DEF Ignore, At
    <3>3. ~Applies(p) /\ HasPeer(t) => log[b].tag # t
      BY <1>0 DEF Applies, Matches
    <3>4. b \in Ids
      BY <1>0, <1>1, <1>2, <2>2, NextIsCalm DEF Ignore, At
    <3>5. log[b].tag = log[b].of
      BY <2>0, <3>4 DEF EventTypes
    <3> QED  BY <2>1, <3>1, <3>2, <3>3, <3>5
  <2>3. CASE AnswerRejected(p) \/ RestartSent(p)
    <3>1. UNCHANGED <<added, queued>> /\ pc[p] \in {"answering", "soac"}
      BY <2>3 DEF AnswerRejected, RestartSent, peerVars
    <3>2. rest[p] = <<>> /\ log[b].kind # "candidate"
      BY <1>0, <2>0, <3>1 DEF ReadHolds, Restarting
    <3> QED  BY <2>1, <3>1, <3>2
  <2>4. CASE CandidateAdded(p)
    <3>1. /\ pc[p] = "adding" /\ added' = [added EXCEPT ![t] = @ \cup {b}] /\ UNCHANGED queued
      BY <1>0, <2>4 DEF CandidateAdded
    <3>2. rest[p] = <<>> /\ added'[t] = added[t] \cup {b}
      BY <1>2, <2>0, <3>1 DEF ReadHolds, EventTypes
    <3>3. \A s \in Sessions \ {t} : UNCHANGED <<added[s], queued[s]>>
      BY <2>0, <3>1 DEF EventTypes
    <3>4. Held(b, t)'
      BY <1>1, <3>2 DEF Held
    <3> QED  BY <2>1, <3>1, <3>2, <3>3, <3>4
  <2>5. CASE QueueCandidate(p)
    <3>1. /\ pc[p] = "next" /\ batch[p] # <<>> /\ UNCHANGED added
          /\ queued' = [queued EXCEPT ![t] = Append(@, b)]
      BY <1>0, <2>5 DEF QueueCandidate, At, peerVars
    <3>2. rest[p] = <<>> /\ b \in Nat
      BY <1>0, <2>0, <3>1, HeadAndTail DEF ReadHolds
    <3>3. ToSet(queued'[t]) = ToSet(queued[t]) \cup {b}
      BY <1>2, <2>0, <3>1, <3>2, AppendAdds DEF EventTypes, SessionHolds
    <3>4. \A s \in Sessions \ {t} : UNCHANGED <<added[s], queued[s]>>
      BY <2>0, <3>1 DEF EventTypes
    <3>5. Held(b, t)'
      BY <1>1, <3>3 DEF Held
    <3> QED  BY <2>1, <3>1, <3>2, <3>3, <3>4, <3>5
  <2>6. CASE AnswerSet(p)
    <3>1. /\ pc[p] = "answering" /\ UNCHANGED added /\ queued' = [queued EXCEPT ![t] = <<>>]
          /\ queued[t] = <<>> \/ pc' = [pc EXCEPT ![p] = "flushing"]
      BY <1>0, <2>6 DEF AnswerSet, GoTo
    <3>2. queued[t] = <<>>
      BY <1>1, <1>2, <3>1 DEF NextEvent, GoTo, Inv, FlowInv
    <3>3. rest[p] = <<>> /\ log[b].kind # "candidate" /\ \A s \in Sessions : UNCHANGED queued[s]
      BY <1>0, <2>0, <3>1, <3>2 DEF ReadHolds, EventTypes
    <3> QED  BY <1>2, <2>1, <3>1, <3>3
  <2>7. CASE Flushed(p)
    <3>1. /\ pc[p] = "flushing" /\ UNCHANGED queued
          /\ added' = [added EXCEPT ![t] = @ \cup {Head(rest[p])}]
          /\ Len(rest[p]) = 1 \/ UNCHANGED pc
      BY <1>0, <2>7 DEF Flushed
    <3>2. Len(rest[p]) = 1
      BY <1>1, <1>2, <3>1 DEF NextEvent, GoTo, Inv, FlowInv
    <3>3. rest[p] \in Seq(Nat) /\ rest[p] # <<>> /\ log[b].kind # "candidate"
      BY <1>0, <2>0, <3>1 DEF ReadHolds
    <3>4. ToSet(rest[p]) = {Head(rest[p])}
      BY <3>2, <3>3, HeadAndTail, NothingInEmpty
    <3>5. /\ added'[t] = added[t] \cup {Head(rest[p])}
          /\ \A s \in Sessions \ {t} : UNCHANGED <<added[s], queued[s]>>
      BY <1>2, <2>0, <3>1 DEF EventTypes
    <3>6. ASSUME NEW e, Held(e, t) PROVE Held(e, t)'
      <4>1. ASSUME NEW q \in Reads, target[q] = t, e \in ToSet(rest[q]) PROVE Held(e, t)'
        BY <1>1, <2>0, <3>4, <3>5, <4>1 DEF Held
      <4> QED  BY <3>1, <3>5, <3>6, <4>1 DEF Held
    <3> QED  BY <3>3, <3>5, <3>6
  <2> QED  BY <2>2, <2>3, <2>4, <2>5, <2>6, <2>7
<1>5. ASSUME ~setting.errors, NEW s \in Sessions, Kept(s) PROVE Kept(s)'
  <2>1. CASE s = t
    <3>1. processed'[s] = processed[s] \cup {b}
      BY <1>1, <2>1 DEF EventInv, EventTypes
    <3> QED  BY <1>1, <1>3, <1>4, <1>5, <2>1, <3>1 DEF Kept, Live
  <2>2. CASE s # t
    <3>1. UNCHANGED processed[s]
      BY <1>1, <2>2 DEF EventInv, EventTypes
    <3>2. ASSUME NEW q \in Reads, target[q] = s PROVE UNCHANGED <<target[q], rest[q]>>
      BY <1>0, <1>1, <2>2, <3>2 DEF EventInv, EventTypes
    <3>3. (Live(s) /\ HasPeer(s))' => Untouched(s)
      BY <1>1, <1>3, <1>4, <2>2, <3>1, <3>2 DEF Untouched, Live
    <3> QED  BY <1>1, <1>5, <3>3, KeptStays
  <2> QED  BY <2>1, <2>2
<1> QED  BY <1>1, <1>5 DEF KeptInv

\* The queue passes into the hands of the flush, and from there to the peer.
LEMMA KeptFlushing ==
  ASSUME Inv, EventInv, KeptInv, NEW p \in Reads, AnswerSet(p) \/ Flushed(p), ~NextEvent(p)
  PROVE  KeptInv'
<1>0. PICK t : t = target[p]
  OBVIOUS
<1>1. UNCHANGED <<setting, log, generation, target, processed>>
  BY DEF AnswerSet, Flushed
<1>2. /\ p \in Flows /\ t \in Sessions
      /\ EventTypes /\ ReadHolds(p) /\ SessionHolds(t)
  <2>1. pc[p] \in {"answering", "flushing"}
    BY DEF AnswerSet, Flushed
  <2> QED  BY <1>0, <2>1 DEF Inv, FlowInv, Flows, Working, EventInv
<1>3. \A s \in Sessions : HasPeer(s)' => HasPeer(s)
  BY <1>0, <1>2 DEF AnswerSet, Flushed, HasPeer, Inv, SessionInv, SessionTypes
<1>4. /\ \A s \in Sessions \ {t} : UNCHANGED <<added[s], queued[s]>>
      /\ \A q \in Reads \ {p} : UNCHANGED rest[q]
      /\ \A e : Held(e, t) => Held(e, t)'
  <2>1. CASE AnswerSet(p)
    <3>1. /\ pc[p] = "answering" /\ UNCHANGED added /\ queued' = [queued EXCEPT ![t] = <<>>]
          /\ rest' = [rest EXCEPT ![p] = queued[t]]
      BY <1>0, <2>1 DEF AnswerSet
    <3>2. rest[p] = <<>> /\ rest'[p] = queued[t]
      BY <1>2, <3>1 DEF ReadHolds, EventTypes
    <3>3. /\ \A s \in Sessions \ {t} : UNCHANGED <<added[s], queued[s]>>
          /\ \A q \in Reads \ {p} : UNCHANGED rest[q]
      BY <1>2, <3>1 DEF EventTypes
    <3>4. ASSUME NEW e, e \in ToSet(queued[t]) PROVE Held(e, t)'
      BY <1>0, <1>1, <3>2, <3>4 DEF Held
    <3>5. ASSUME NEW e, NEW q \in Reads, target[q] = t, e \in ToSet(rest[q]) PROVE Held(e, t)'
      <4>1. q # p
        BY <3>2, <3>5, NothingInEmpty
      <4> QED  BY <1>1, <3>3, <3>5, <4>1 DEF Held
    <3> QED  BY <3>1, <3>3, <3>4, <3>5 DEF Held
  <2>2. CASE Flushed(p)
    <3>1. /\ pc[p] = "flushing" /\ UNCHANGED queued
          /\ added' = [added EXCEPT ![t] = @ \cup {Head(rest[p])}]
          /\ rest' = [rest EXCEPT ![p] = Tail(@)]
      BY <1>0, <2>2 DEF Flushed
    <3>2. rest[p] \in Seq(Nat) /\ rest[p] # <<>>
      BY <1>2, <3>1 DEF ReadHolds
    <3>3. /\ ToSet(rest[p]) = {Head(rest[p])} \cup ToSet(rest'[p])
          /\ added'[t] = added[t] \cup {Head(rest[p])}
          /\ \A s \in Sessions \ {t} : UNCHANGED <<added[s], queued[s]>>
          /\ \A q \in Reads \ {p} : UNCHANGED rest[q]
      BY <1>2, <3>1, <3>2, HeadAndTail DEF EventTypes
    <3>4. ASSUME NEW e, NEW q \in Reads, target[q] = t, e \in ToSet(rest[q]) PROVE Held(e, t)'
      BY <1>1, <3>3, <3>4 DEF Held
    <3> QED  BY <3>1, <3>3, <3>4 DEF Held
  <2> QED  BY <2>1, <2>2
<1>5. ASSUME ~setting.errors, NEW s \in Sessions, Kept(s) PROVE Kept(s)'
  <2>1. CASE s = t
    BY <1>1, <1>3, <1>4, <1>5, <2>1 DEF Kept, Live
  <2>2. CASE s # t
    <3>1. \A q \in Reads : target[q] = s => UNCHANGED <<target[q], rest[q]>>
      BY <1>0, <1>1, <1>4, <2>2
    <3>2. (Live(s) /\ HasPeer(s))' => Untouched(s)
      BY <1>1, <1>3, <1>4, <2>2, <3>1 DEF Untouched, Live
    <3> QED  BY <1>1, <1>5, <3>2, KeptStays
  <2> QED  BY <2>1, <2>2
<1> QED  BY <1>1, <1>5 DEF KeptInv

\* The log grows.
LEMMA KeptSent ==
  ASSUME Tagged, Inv, EventInv, KeptInv, NEW s \in Sessions,
         Answers(s) \/ Trickles(s) \/ Notifies(s)
  PROVE  KeptInv'
<1>1. UNCHANGED <<setting, generation, signaling, processed, added, queued, target, rest>>
  BY DEF Answers, Trickles, Notifies, Sends, sessionVars, peerVars, flowVars
<1>2. \A i \in Ids : log'[i] = log[i]
  BY SentEvents
<1>3. \A t \in Sessions : (Live(t) /\ HasPeer(t))' => Untouched(t)
  BY <1>1 DEF Untouched, Live, HasPeer
<1> QED  BY <1>1, <1>2, <1>3, AllStay

LEMMA KeptStep ==
  ASSUME Tagged, Inv, EventInv, PeerInv, KeptInv, [Next]_vars PROVE KeptInv'
<1>1. ASSUME NEW s \in Sessions, SessionStarts(s) \/ Start(s) PROVE KeptInv'
  BY <1>1, KeptSessions, KeptFlows DEF Start, Flows
<1>2. ASSUME NEW s \in Sessions, Device(s) PROVE KeptInv'
  BY <1>2, KeptSessions, KeptSent DEF Device
<1>3. ASSUME NEW f \in Flows, Offering(f) \/ Refused(f) PROVE KeptInv'
  BY <1>3, KeptFlows
<1>4. ASSUME NEW p \in Reads, Poll(p) \/ Served(p) \/ ServedLate(p) PROVE KeptInv'
  BY <1>4, KeptFlows DEF Flows
<1>5. ASSUME NEW p \in Reads, Apply(p) PROVE KeptInv'
  <2>1. CASE \/ SkipProcessed(p) \/ ApplyAnswer(p) \/ ApplyCandidate(p) \/ RestartIce(p)
             \/ CandidateRejected(p) \/ BatchDone(p) \/ Sampled(p) \/ Overtaken(p)
    BY <2>1, KeptFlows DEF Flows
  <2>2. CASE Ignore(p) \/ AnswerRejected(p) \/ RestartSent(p) \/ CandidateAdded(p) \/ QueueCandidate(p)
    BY <2>2, KeptDone
  <2>3. CASE AnswerSet(p) \/ Flushed(p)
    BY <2>3, KeptDone, KeptFlushing
  <2> QED  BY <1>5, <2>1, <2>2, <2>3 DEF Apply
<1>6. CASE SessionCloses \/ TimesOut
  BY <1>6, KeptSessions
<1>7. CASE UNCHANGED vars
  <2>1. UNCHANGED <<setting, log, generation, signaling, processed, added, queued, target, rest>>
    BY <1>7 DEF vars, sessionVars, peerVars, flowVars
  <2>2. \A t \in Sessions : (Live(t) /\ HasPeer(t))' => Untouched(t)
    BY <2>1 DEF Untouched, Live, HasPeer
  <2> QED  BY <2>1, <2>2, AllStay
<1> QED  BY <1>1, <1>2, <1>3, <1>4, <1>5, <1>6, <1>7 DEF Next

\* The events of the gateway reach the session they belong to and none but that one: when
\* events name their session, no candidate of a live session is lost, however many reads
\* overlap each other and the answer, and nothing is applied to another session.
THEOREM EventsArrive == ASSUME Tagged PROVE Spec => []EventsReachTheirSession
<1>1. Init => PeerInv /\ KeptInv
  BY DEF Init, PeerInv, KeptInv, Kept, Live, Restarting
<1>2. Inv /\ EventInv /\ PeerInv /\ KeptInv /\ [Next]_vars => PeerInv' /\ KeptInv'
  BY PeerStep, KeptStep
<1>3. Inv /\ EventInv /\ PeerInv /\ KeptInv /\ QueueEndsWithAnswer => EventsReachTheirSession
  <2> SUFFICES ASSUME Inv, EventInv, KeptInv, QueueEndsWithAnswer PROVE EventsReachTheirSession
    OBVIOUS
  <2>1. OwnEventsOnly
    BY DEF OwnEventsOnly, EventInv, SessionHolds, Own
  <2>2. CandidatesAreKept
    BY DEF CandidatesAreKept, KeptInv, Kept, Held
  <2> QED  BY <2>1, <2>2 DEF EventsReachTheirSession
<1> QED  BY <1>1, <1>2, <1>3, Invariance, EventsAreOwn, QueueIsFlushed, PTL DEF Spec
=============================================================================
