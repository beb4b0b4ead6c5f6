----------------------------- MODULE SignalPath -----------------------------
(* The way of a room and of the device's messages through the program: the join answer that
   the page stores and the proxy authorizes, the start of the gateway with it, and then what
   the device says, from the wire through the gateway's event log to the browser session and
   to the diagnostics.

   A JSON value is a record of the fields somebody reads, None where the field is absent.
   The interleavings inside a start, a read or a negotiation are those of the modules
   RemoteControlService, SignalPolling and RemoteNegotiation; here each is one step.        *)
EXTENDS Integers, Sequences, FiniteSets, SequencesExt

CONSTANTS None,         \* an absent field or value
          Rooms,        \* the rooms a join may return: [token, servers]
          PrivateServer,\* a signal server that validateSignalServer refuses
          Farewells,    \* the events with which the device may leave
          Lifetime,     \* age at which stored room and authorization end, in ticks
          MaxEvents,    \* events the gateway keeps (SIGNAL_GATEWAY_MAX_EVENTS)
          Budgets       \* bounds: [joins, changes, sessions, said], how often each may happen

ASSUME BoundsAssumption ==
  /\ {Lifetime, MaxEvents} \subseteq Nat \ {0}
  /\ Budgets \subseteq [joins : Nat, changes : Nat, sessions : Nat, said : Nat]
  /\ \A r \in Rooms : r.servers # <<>>

\* The words a field of a message may have.
Words == {"answer", "candidate", "restart_ice", "offer", "", "plain", "packed", "success", "failed"}

\* What may stand in the way of a connection.
Blockers == {"gateway_not_connected", "control_ack_failed", "control_ack_missing", "offer_missing",
             "be_controlled_failed", "controlled_left_before_answer", "answer_missing"}

\* An absent authorization, field, data record, blocker or browser session is none.
ASSUME NoneAssumption ==
  /\ None \notin [token : {r.token : r \in Rooms}, servers : {ToSet(r.servers) : r \in Rooms}, until : Nat]
  /\ None \notin Nat /\ None \notin Words /\ None \notin Blockers
  /\ LET word == Words \cup {None}  number == Nat \cup {None}
     IN  None \notin [type : word, sdp : word, zip : word, ice : number, code : number]
  /\ None \notin [n : Nat, stage : {"controlling", "controlled", "offered", "connected"},
                  signaling : {"stable", "have-local-offer"}, candidates : Nat]

ASSUME FarewellsAssumption == Farewells \subseteq {"leave", "left", "publisher_disconnect", "released"}

VARIABLES
  page,      \* the remote session id the page made for itself
  user,      \* the account of the login state
  now,       \* the clock
  room,      \* the stored room session: [page, user, at, config], or None
  granted,   \* the server's authorization for this page's id, or None
  ended,     \* the server has ended this page's session for idleness
  gateway,   \* "idle", "connected", "error" or "closed"
  log,       \* the gateway's events: [id, inbound, event, items]
  nextId, evicted,
  cursor, missed,  \* last event the page has read; whether one was evicted unread
  browser,   \* the browser session, or None
  told,      \* whether a session has sent its offer, and what the device has said to it since
  facts,     \* what really happened since the gateway started; "recent": the device left the
             \* session that had sent the last offer
  left       \* how much of the bounds is left

roomVars == <<page, user, now, room, granted, ended>>
logVars  == <<log, nextId, evicted>>
readVars == <<cursor, missed, browser>>
vars == <<roomVars, gateway, logVars, readVars, told, facts, left>>

\* Browser sessions are numbered from the last one down.
Sessions == UNION {1..b.sessions : b \in Budgets}
Spend(what) == left[what] > 0 /\ left' = [left EXCEPT ![what] = @ - 1]
Steps == {"acked", "refused", "offered", "answered", "denied", "left", "recent"}
Nothing == [s \in Steps |-> FALSE]
Unsaid == [n \in Sessions |-> [offered |-> FALSE, answered |-> FALSE, candidates |-> 0]]

-----------------------------------------------------------------------------
(* Joining a room.  `records` are the records of the answer's body in the order in which
   the search visits them.                                                                  *)

\* The first record that has a token and a server is the room's.
RoomConfig(body) ==
  LET Like(r) == r.token # None /\ r.servers # <<>>
  IN  IF \E i \in DOMAIN body.records : Like(body.records[i])
      THEN body.records[SelectInSeq(body.records, Like)] ELSE None

Invalid(body) == RoomConfig(body) # None /\ PrivateServer \in ToSet(RoomConfig(body).servers)

Authorized(body) ==
  IF body.code # 0 \/ RoomConfig(body) = None THEN None
  ELSE [token |-> RoomConfig(body).token, servers |-> ToSet(RoomConfig(body).servers),
        until |-> now + Lifetime]

\* The proxy forwards the join and keeps the authorization of its answer.
Proxied(body) ==
  /\ granted' = IF Authorized(body) # None THEN Authorized(body) ELSE granted
  /\ ended' = (ended /\ Authorized(body) = None)

Saved(body) ==
  IF RoomConfig(body) = None THEN None
  ELSE [page |-> page, user |-> user, at |-> now, config |-> RoomConfig(body)]

\* An assisted device that does not tell its platform is not joined: the room is dropped and
\* the assistance cancelled.
Usable(body) == body.assisted /\ (body.code = 0 \/ RoomConfig(body) # None) => body.platform

Bodies ==
  LET body(c, rs) == [code : {c}, records : {rs}, assisted : BOOLEAN, platform : BOOLEAN]
      bare == [token |-> "t0", servers |-> <<>>]
  IN  (UNION {body(0, <<bare, r>>) : r \in Rooms}) \cup body(1, <<bare>>) \cup body(0, <<>>)

Join(body) ==
  /\ Spend("joins") /\ gateway # "connected"
  /\ IF Invalid(body) THEN UNCHANGED <<room, granted, ended>>
     ELSE Proxied(body) /\ room' = IF Usable(body) THEN Saved(body) ELSE None
  /\ UNCHANGED <<page, user, now, gateway, logVars, readVars, told, facts>>

FaultyRoomSession ==
  IF room = None \/ room.user # user \/ now - room.at > Lifetime THEN None ELSE room

\* What the page would start with.
RoomSession ==
  IF \/ room = None \/ room.page # page \/ room.user # user \/ now - room.at > Lifetime
  THEN None ELSE room

IsAuthorized(config) ==
  /\ granted # None
  /\ granted.until > now
  /\ config.token = granted.token
  /\ config.servers # <<>> /\ ToSet(config.servers) \subseteq granted.servers

-----------------------------------------------------------------------------
(* What is on the wire, and what becomes of it in the gateway.                             *)

Item == [word |-> None, code |-> None, ice |-> None, type |-> None, data |-> None]
Data == [type |-> None, sdp |-> None, zip |-> None, ice |-> None, code |-> None]
Says(event, item) == [event |-> event, items |-> <<item>>, pushes |-> <<>>]
Pushes(form, type, item) ==
  [event |-> "bmsg_push", items |-> <<>>, pushes |-> <<[form |-> form, type |-> type, item |-> item]>>]

InboundTypes == {"answer", "candidate", "restart_ice"}
SoacTypes == InboundTypes \cup {"offer"}

AddSoacType(type, item) ==
  IF item.data = None \/ item.data.type # None THEN item ELSE [item EXCEPT !.data.type = type]

FaultyPlainSdp(item) ==
  IF item.data = None \/ item.data.zip # "packed" THEN item
  ELSE [item EXCEPT !.data.sdp = "plain", !.data.zip = None]

\* The description in plain text, from the bytes of gzip_sdp or else of sdp.  (The bytes stay
\* in the payload, but nobody reads them.)
PlainSdp(item) ==
  IF item.data = None THEN item
  ELSE IF item.data.sdp = "plain" \/ "packed" \notin {item.data.zip, item.data.sdp} THEN item
  ELSE [item EXCEPT !.data.sdp = "plain", !.data.zip = None]

\* A push is an object, its JSON text, or a wrapper of that text.  (The device sends one at a time.)
SignalPushes(wire) ==
  IF wire.pushes = <<>> \/ wire.pushes[1].form \in {"object", "text", "wrapped"} THEN wire.pushes ELSE <<>>

Described(type, items) ==
  IF type \in InboundTypes
  THEN [event |-> "soac", items |-> [i \in DOMAIN items |-> AddSoacType(type, items[i])]]
  ELSE [event |-> type, items |-> items]

InboundEvents(wire) ==
  LET parts == <<Described(wire.event, wire.items)>>
               \o [i \in DOMAIN SignalPushes(wire) |->
                     Described(SignalPushes(wire)[i].type, <<SignalPushes(wire)[i].item>>)]
  IN  [i \in DOMAIN parts |-> IF parts[i].event # "soac" THEN parts[i]
         ELSE [parts[i] EXCEPT !.items = [j \in DOMAIN @ |-> PlainSdp(@[j])]]]

\* The log keeps the newest events.
Record(inbound, events, seen) ==
  LET all == log \o [i \in DOMAIN events |-> [id |-> nextId + i - 1, inbound |-> inbound,
                                              event |-> events[i].event, items |-> events[i].items]]
      lost == IF Len(all) > MaxEvents THEN Len(all) - MaxEvents ELSE 0
  IN  /\ log' = SubSeq(all, lost + 1, Len(all))
      /\ nextId' = nextId + Len(events)
      /\ evicted' = (evicted \/ lost > 0)
      /\ missed' = (missed \/ \E i \in 1..lost : all[i].id > seen)

\* What the page sends.  (Its description or candidate is read by the device only.)
Soac(type, n) ==
  [event |-> "soac", items |-> <<[Item EXCEPT !.data = [Data EXCEPT !.type = type, !.ice = n]]>>]

-----------------------------------------------------------------------------
(* The diagnostics: what analyzeRemoteSignalReadiness reads out of the log.                 *)

FaultyAckFails(items) ==
  IF items[1].word # None THEN items[1].word # "success" ELSE items[1].code \notin {None, 0}

\* The first entry of an ack may be its status, its first record is the result.
AckFails(items) ==
  \/ items[1].word \notin {None, "success"}
  \/ \E i \in DOMAIN items : /\ items[i].word = None /\ \A j \in 1..(i - 1) : items[j].word # None
                             /\ items[i].code \notin {None, 0}

TypesOf(items) ==
  UNION {({items[i].type} \cup IF items[i].data = None THEN {} ELSE {items[i].data.type}) \cap SoacTypes
         : i \in DOMAIN items}

\* A result's code and an ice id are looked for in the record and then in its data.
Nested(items, Field(_)) ==
  LET Of(item) == IF Field(item) # None \/ item.data = None THEN Field(item) ELSE Field(item.data)
  IN  IF \E i \in DOMAIN items : Of(items[i]) # None
      THEN Of(items[SelectInSeq(items, LAMBDA item : Of(item) # None)]) ELSE None
Code(items) == Nested(items, LAMBDA r : r.code)
Ice(items)  == Nested(items, LAMBDA r : r.ice)

In(event)   == {i \in DOMAIN log : log[i].inbound /\ log[i].event = event}
Sent(type)  == {i \in DOMAIN log : ~log[i].inbound /\ log[i].event = "soac" /\ type \in TypesOf(log[i].items)}
Terminals   == In("leave") \cup In("left") \cup In("publisher_disconnect") \cup In("released")
Newest(S)   == CHOOSE i \in S : \A j \in S : j <= i

\* The last of the device's farewells, and whether it names the offer before it.
TerminalSignal ==
  IF Terminals = {} THEN None
  ELSE LET i == Newest(Terminals)
           offers == {j \in Sent("offer") : j < i}
           ice == Ice(log[i].items)
       IN  [event |-> log[i].event,
            matches |-> IF ice = None \/ offers = {} THEN None
                        ELSE ice = Ice(log[Newest(offers)].items)]

Checks ==
  [connected |-> gateway = "connected" \/ log # <<>>,
   acked     |-> \E i \in In("control:ack") : ~AckFails(log[i].items),
   refused   |-> \E i \in In("control:ack") : AckFails(log[i].items),
   offered   |-> Sent("offer") # {},
   denied    |-> \E i \in In("be-controlled") : Code(log[i].items) \notin {None, 0},
   answered  |-> \E i \in In("soac") : TypesOf(log[i].items) \cap {"answer", "restart_ice"} # {},
   left      |-> Terminals # {}]

Readiness ==
  LET at(s, b) == [stage |-> s, blocker |-> b]
      c == Checks
  IN  CASE ~c.connected -> at("idle", "gateway_not_connected")
        [] c.connected /\ ~c.acked ->
             at("gateway_connected", IF c.refused THEN "control_ack_failed" ELSE "control_ack_missing")
        [] c.acked /\ ~c.offered -> at("control_acknowledged", "offer_missing")
        [] c.acked /\ c.offered /\ ~c.answered ->
             at("offer_sent", IF c.denied THEN "be_controlled_failed"
                              ELSE IF c.left THEN "controlled_left_before_answer" ELSE "answer_missing")
        [] OTHER -> at("answer_received", None)

-----------------------------------------------------------------------------
(* The gateway and the page.                                                                *)

Init ==
  /\ page = 1 /\ user = 1 /\ now = 0
  /\ room = None /\ granted = None /\ ended = FALSE
  /\ gateway = "idle" /\ log = <<>> /\ nextId = 1 /\ evicted = FALSE
  /\ cursor = 0 /\ missed = FALSE /\ browser = None
  /\ told = Unsaid /\ facts = Nothing
  /\ left \in Budgets

\* What the page has not read yet.
Unread == {e \in ToSet(log) : e.id > cursor}

Emptied == log' = <<>> /\ nextId' = 1 /\ evicted' = FALSE /\ cursor' = 0 /\ missed' = FALSE

\* The page sends the room it has stored.  A refusal (403 on Node, the status of an error on
\* the Worker) leaves the server's session as it is.
Start ==
  /\ RoomSession # None /\ gateway # "connected" /\ browser = None
  /\ IF IsAuthorized(RoomSession.config)
     THEN /\ gateway' \in {"connected", "error"}
          /\ Emptied
          /\ facts' = Nothing /\ told' = Unsaid
     ELSE /\ cursor' = 0
          /\ UNCHANGED <<gateway, logVars, missed, facts, told>>
  /\ UNCHANGED <<roomVars, browser, left>>

\* A stored room that is not this page's, this user's or no longer young is forgotten.
Forget ==
  /\ room # None /\ RoomSession = None /\ room' = None
  /\ UNCHANGED <<page, user, now, granted, ended, gateway, logVars, readVars, told, facts, left>>

GatewayCloses ==
  /\ gateway = "connected" /\ Spend("changes")
  /\ gateway' = "closed"
  /\ UNCHANGED <<roomVars, logVars, readVars, told, facts>>

\* The page, its user and the clock.
Reload ==
  /\ Spend("changes") /\ page' = page + 1
  /\ granted' = None /\ ended' = FALSE
  /\ gateway' = "idle" /\ Emptied /\ browser' = None /\ told' = Unsaid /\ facts' = Nothing
  /\ UNCHANGED <<user, now, room>>

UserChanges ==
  /\ Spend("changes") /\ gateway # "connected" /\ user' = 3 - user
  /\ UNCHANGED <<page, now, room, granted, ended, gateway, logVars, readVars, told, facts>>

Tick ==
  /\ Spend("changes") /\ gateway # "connected" /\ now' = now + 1
  /\ UNCHANGED <<page, user, room, granted, ended, gateway, logVars, readVars, told, facts>>

\* The idle timer or the alarm ends the session of a page that asks for nothing.
IdleEnds ==
  /\ Spend("changes") /\ granted # None /\ granted' = None /\ ended' = TRUE
  /\ gateway' = "idle" /\ log' = <<>> /\ nextId' = 1 /\ evicted' = FALSE
  /\ missed' = (missed \/ Unread # {}) /\ facts' = Nothing
  /\ UNCHANGED <<page, user, now, room, cursor, browser, told>>

\* Events older than the retention are dropped.
Prune ==
  /\ Spend("changes") /\ log # <<>> /\ log' = Tail(log) /\ evicted' = TRUE
  /\ missed' = (missed \/ log[1].id > cursor)
  /\ UNCHANGED <<roomVars, gateway, nextId, cursor, browser, told, facts>>

\* The browser session: control, its ack, the offer, local candidates.
Control ==
  /\ gateway = "connected" /\ browser = None /\ Spend("sessions")
  /\ browser' = [n |-> left.sessions, stage |-> "controlling", signaling |-> "stable", candidates |-> 0]
  /\ Record(FALSE, <<[event |-> "control", items |-> <<Item>>]>>, cursor)
  /\ UNCHANGED <<roomVars, gateway, cursor, told, facts>>

Acks ==
  LET result(c) == [Item EXCEPT !.code = c]
      status(w) == [Item EXCEPT !.word = w]
  IN  [accepts |-> {<<status("success"), result(0)>>, <<result(None)>>},
       refuses |-> {<<status("failed"), result(0)>>, <<status("success"), result(7)>>}]

\* start() goes on with an ack that has a result and no failure.
Acked(items) ==
  /\ browser # None /\ browser.stage = "controlling" /\ gateway = "connected"
  /\ Record(TRUE, <<[event |-> "control:ack", items |-> items]>>, cursor)
  /\ browser' = IF AckFails(items) \/ \A i \in DOMAIN items : items[i].word # None THEN None
                ELSE [browser EXCEPT !.stage = "controlled"]
  /\ facts' = [facts EXCEPT !.acked = @ \/ items \in Acks.accepts,
                            !.refused = @ \/ items \in Acks.refuses]
  /\ UNCHANGED <<roomVars, gateway, cursor, told, left>>

Offer ==
  /\ browser # None /\ browser.stage = "controlled" /\ gateway = "connected"
  /\ browser' = [browser EXCEPT !.stage = "offered", !.signaling = "have-local-offer"]
  /\ Record(FALSE, <<Soac("offer", browser.n)>>, cursor)
  /\ facts' = [facts EXCEPT !.offered = TRUE] /\ told' = [told EXCEPT ![browser.n].offered = TRUE]
  /\ UNCHANGED <<roomVars, gateway, cursor, left>>

Candidate ==
  /\ browser # None /\ browser.stage \in {"offered", "connected"} /\ gateway = "connected"
  /\ Spend("said")
  /\ Record(FALSE, <<Soac("candidate", browser.n)>>, cursor)
  /\ UNCHANGED <<roomVars, gateway, cursor, browser, told, facts>>

BrowserCloses ==
  /\ browser # None /\ browser' = None
  /\ UNCHANGED <<roomVars, gateway, logVars, cursor, missed, told, facts, left>>

-----------------------------------------------------------------------------
(* The device.  The same thing may be said as an event of its own, as a SOAC event or as a
   push, with its type or without, with the description as text, zipped or as bytes.        *)

Ways(type, item) == {Says(type, item)} \cup {Pushes(f, type, item) : f \in {"object", "text", "wrapped"}}

Packings(type) ==
  IF type = "candidate" THEN {<<None, None>>} ELSE {<<"plain", None>>, <<"", "packed">>, <<"packed", None>>}
SoacItem(type, p, n) ==
  [Item EXCEPT !.data = [Data EXCEPT !.type = type, !.sdp = p[1], !.zip = p[2], !.ice = n]]

SoacWays(type, n) ==
  UNION {Ways(type, SoacItem(type, p, n)) \cup Ways(type, SoacItem(None, p, n)) \cup {Says("soac", SoacItem(type, p, n))}
         : p \in Packings(type)}

Hear(wire) ==
  /\ gateway = "connected" /\ Spend("said")
  /\ Record(TRUE, InboundEvents(wire), cursor)
  /\ UNCHANGED <<roomVars, gateway, cursor, browser>>

Answers(n) ==
  /\ told[n].offered
  /\ \E type \in {"answer", "restart_ice"} : \E wire \in SoacWays(type, n) : Hear(wire)
  /\ facts' = [facts EXCEPT !.answered = TRUE] /\ told' = [told EXCEPT ![n].answered = TRUE]

SendsCandidate(n) ==
  /\ told[n].offered /\ \E wire \in SoacWays("candidate", n) : Hear(wire)
  /\ told' = [told EXCEPT ![n].candidates = @ + 1] /\ UNCHANGED facts

Leaves(n) ==
  /\ told[n].offered
  /\ \E event \in Farewells : Hear(Says(event, [Item EXCEPT !.ice = n]))
                           \/ Hear(Pushes("object", event, [Item EXCEPT !.data = [Data EXCEPT !.ice = n]]))
  /\ facts' = [facts EXCEPT !.left = TRUE, !.recent = \A m \in Sessions : told[m].offered => m >= n]
  /\ UNCHANGED told

IsControlled(code) ==
  /\ facts.acked
  /\ \/ Hear(Says("be-controlled", [Item EXCEPT !.code = code]))
     \/ Hear(Pushes("text", "be-controlled", [Item EXCEPT !.data = [Data EXCEPT !.code = code]]))
  /\ facts' = [facts EXCEPT !.denied = @ \/ code # 0] /\ UNCHANGED told

SwitchesNetwork(n) ==
  /\ told[n].offered
  /\ Hear(Says("switch_network_notify", [Item EXCEPT !.ice = n]))
  /\ UNCHANGED <<told, facts>>

-----------------------------------------------------------------------------
(* The page reads the events after its cursor and applies them in order.                    *)

Matches(id, own) == id = None \/ id = own

ApplySoac(b, item) ==
  IF item.data = None THEN b
  ELSE IF ~Matches(item.data.ice, b.n) THEN b
  ELSE CASE item.data.type \in {"answer", "restart_ice"} ->
              IF item.data.sdp # "plain" \/ b.signaling # "have-local-offer" THEN b
              ELSE [b EXCEPT !.stage = "connected", !.signaling = "stable"]
         [] item.data.type = "candidate" -> [b EXCEPT !.candidates = @ + 1]
         [] OTHER -> b

\* An ICE restart is offered at once; several notices of one read are one offer each.
ApplyEvent(s, e) ==
  IF ~e.inbound THEN s
  ELSE CASE e.event = "soac" -> [s EXCEPT !.browser = FoldLeft(ApplySoac, @, e.items)]
         [] e.event = "switch_network_notify" /\ \E i \in DOMAIN e.items : Matches(e.items[i].ice, s.browser.n) ->
              [s EXCEPT !.browser.signaling = "have-local-offer",
                        !.offers = Append(@, Soac("restart_ice", s.browser.n))]
         [] OTHER -> s

\* The browser session after it has applied the events past a cursor, and what it offers then.
Applied(b, after, events) ==
  FoldLeft(LAMBDA s, e : IF e.id <= after THEN s ELSE ApplyEvent(s, e), [browser |-> b, offers |-> <<>>], events)

HasPeer == browser # None /\ browser.stage # "controlling"

Read ==
  /\ Unread # {}
  /\ LET s == IF HasPeer THEN Applied(browser, cursor, log)
              ELSE [browser |-> browser, offers |-> <<>>]
     IN  /\ browser' = s.browser
         /\ cursor' = nextId - 1
         /\ IF gateway = "connected" THEN Record(FALSE, s.offers, nextId - 1) ELSE UNCHANGED <<logVars, missed>>
  /\ UNCHANGED <<roomVars, gateway, told, facts, left>>

Next ==
  \/ \E body \in Bodies : Join(body)
  \/ Start \/ Forget \/ Prune \/ GatewayCloses \/ Reload \/ UserChanges \/ Tick \/ IdleEnds
  \/ Control \/ \E items \in Acks.accepts \cup Acks.refuses : Acked(items)
  \/ Offer
  \/ Candidate \/ BrowserCloses \/ Read
  \/ \E n \in Sessions : Answers(n) \/ SendsCandidate(n) \/ Leaves(n) \/ SwitchesNetwork(n)
  \/ \E code \in {0, 7} : IsControlled(code)

Spec == Init /\ [][Next]_vars

-----------------------------------------------------------------------------
(* Properties.                                                                              *)

\* Whatever form the device chooses, what it says to the browser session arrives there, once,
\* and nothing it says to another session does.
AnswersAreHeard ==
  HasPeer /\ browser.stage # "controlled" /\ Unread = {} /\ ~missed =>
    /\ (browser.stage = "connected") = told[browser.n].answered
    /\ browser.candidates = told[browser.n].candidates

\* The diagnostics name the step that was reached and what stands in the way of the next one,
\* as far as the log still shows it, and tell a farewell to the offer that runs from one to
\* an earlier offer; after an eviction they know less, but nothing untrue.
DiagnosticsTrue ==
  LET d == Readiness
      reached == d.stage
      blocker == d.blocker
      matches == IF TerminalSignal = None THEN None ELSE TerminalSignal.matches
  IN  /\ reached \in {"control_acknowledged", "offer_sent", "answer_received"} => facts.acked
      /\ reached \in {"offer_sent", "answer_received"} => facts.offered
      /\ reached = "answer_received" => facts.answered
      /\ blocker = "control_ack_failed" => facts.refused
      /\ blocker = "be_controlled_failed" => facts.denied
      /\ blocker = "controlled_left_before_answer" => facts.left
      /\ matches # None => matches = facts.recent
      /\ ~evicted =>
           /\ facts.acked /\ facts.offered /\ facts.answered => reached = "answer_received"
           /\ facts.refused /\ ~facts.acked => blocker = "control_ack_failed"
           /\ facts.acked /\ facts.offered /\ ~facts.answered =>
                blocker = IF facts.denied THEN "be_controlled_failed"
                          ELSE IF facts.left THEN "controlled_left_before_answer" ELSE "answer_missing"

\* The room a page would start with is one the server lets it start, over reloads, changes of
\* the user, failed joins and the end of both lifetimes, unless the server has ended the idle
\* session in between.  (At the last tick of its life the page still offers what the server
\* refuses.)
JoinedRoomStarts ==
  RoomSession # None /\ now - RoomSession.at < Lifetime /\ ~ended => IsAuthorized(RoomSession.config)
=============================================================================
