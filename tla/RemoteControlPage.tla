--------------------------- MODULE RemoteControlPage ---------------------------
(***************************************************************************)
(* The control page of the browser: the handlers of                        *)
(* useRemoteControlController, the promises remoteRoomLifecycle keeps      *)
(* outside of any page (pendingJoin, pendingRelease), the stored room of   *)
(* sessionStorage, automatic reconnection, and the product shell that      *)
(* opens pages and starts remote assistance.  The UU service (rooms) and   *)
(* the page's signal gateway answer in any order; gateway requests arrive  *)
(* in the order they are sent, and the newest one owns the connection, as  *)
(* SignalGateway promises.                                                 *)
(*                                                                         *)
(* A handler in flight is an operation in a slot of ops.  React applies    *)
(* the updates of one turn together, so a handler's code between two       *)
(* awaits is one step.  A timer that an effect arms and disarms has no     *)
(* state of its own: it may fire whenever the effect's condition holds.    *)
(***************************************************************************)
EXTENDS Integers, FiniteSets

CONSTANTS
  Owned,         \* the account's devices
  Partner,       \* the device of a remote assistance
  Slots,         \* handlers that may be in flight together, 1..n
  None,
  MaxMounts,     \* bound: the number of the last page opened
  Budgets        \* bounds: pages opened, buttons pressed on them, and faults: requests
                 \* lost or refused, connections broken

Targets == Owned \cup {Partner}

\* roomJoinContext: "occupied" has other controllers in the room, and a join
\* that takes over is "forced"
Contexts == [dev : Targets, mode : {"plain", "occupied", "forced"}]

\* how far the two requests of a release are
Asked == {"sent", "served", "lost"}
Releases == [dev : Targets, stop : Asked, clear : Asked]

ASSUME PageAssumption ==
  /\ IsFiniteSet(Slots) /\ Slots \subseteq Nat /\ Partner \notin Owned
  /\ None \notin Nat \cup Targets /\ None \notin Contexts \cup Releases
  /\ MaxMounts \in Nat /\ Budgets \subseteq [mounts : 0..MaxMounts, calls : Nat, faults : Nat]

VARIABLES
  page,          \* [n, dev]: mount number and device, dev = None elsewhere
  view,          \* React state of the mounted page
  ops,           \* handlers in flight
  pendingJoin,   \* slot whose join is outstanding
  release,       \* the pending release: its device and its two requests
  stored,        \* the room kept in sessionStorage
  assist,        \* the remote assistance being started by the shell
  open,          \* browser sessions that were not closed
  rooms,         \* rooms the service holds for this client
  gateway,       \* room the page's gateway is connected to
  claim,         \* slot whose start on its way will own the gateway
  overtaken,     \* rooms to release while another release was pending
  lost,          \* rooms whose join, clear or authorization was lost
  forgotten,     \* pages on which a join took pendingJoin from another one
  calls, faults  \* what is left of the bounds

uiVars == <<page, view, ops, open>>
gatewayVars == <<gateway, claim>>
roomVars == <<pendingJoin, release, stored, rooms, gatewayVars>>
ghostVars == <<overtaken, lost, forgotten>>
vars == <<uiVars, roomVars, assist, ghostVars, calls, faults>>

Session == 1..(Cardinality(Slots) + 1)

\* a handler: what it asks for (ctx) and the room context it closed over (was)
Free == [pc |-> "free", kind |-> "none", n |-> 0, ctx |-> None, was |-> None, room |-> None]

\* roomJoinContext, whether the join returned a configuration, the gateway
\* status ("closed" stands for connecting too) and the context it was started
\* for, the browser session and its stage, and the recovery counter; "failed"
\* is idle with a failureReason
FreshView(ctx) ==
  [ctx |-> ctx, joined |-> ctx # None, gw |-> "idle", gwCtx |-> None,
   session |-> None, stage |-> "idle", busy |-> FALSE, retrying |-> FALSE,
   attempted |-> FALSE]

Active(o) == page.dev # None /\ ops[o].n = page.n
\* every run of useBusyAction ends with setBusy(null), one nested in or begun
\* beside a handler that still waits as well: the page may begin another one
Ready == page.dev # None /\ ~view.busy
\* two contexts that are missing are equal
SameRoom(c, d) == IF c = None \/ d = None THEN c = d
                  ELSE c.dev = d.dev /\ (c.mode = "forced" <=> d.mode = "forced")
Matches == view.gw = "connected" /\ SameRoom(view.gwCtx, view.ctx)
NeedsTakeover(c) == c # None /\ c.mode = "occupied"

(***************************************************************************)
(* Recovery: useRemoteRecoveryController.                                  *)
(***************************************************************************)
FaultyCanRecover == view.stage = "broken" \/ view.stage = "failed"
CanRecover == \/ view.stage = "failed"
              \/ view.retrying /\ view.stage = "idle"
              \/ view.stage = "connected" /\ ~Matches
              \/ view.stage = "broken"
Healthy == view.stage = "connected" /\ Matches
TimerArmed == Ready /\ CanRecover /\ view.joined

\* the effect that forgets the attempts of a page without a room
Rendered(v) == IF v.joined THEN v ELSE [v EXCEPT !.retrying = FALSE]

\* an update of the page's state by a handler: lost when its page is gone
Shown(o, v) == view' = IF Active(o) THEN Rendered(v) ELSE view

At(o, pc) == ops' = [ops EXCEPT ![o].pc = pc]
Ended(o) == ops' = [ops EXCEPT ![o] = Free]
Idle(v) == [v EXCEPT !.busy = FALSE]

(***************************************************************************)
(* remoteRoomLifecycle: the release that every caller shares.              *)
(***************************************************************************)
Claims(o) == claim' = o /\ gateway' = None

NewRelease(d) == [dev |-> d, stop |-> "sent", clear |-> "sent"]
Releasing(d) ==
  IF release = None
  THEN release' = NewRelease(d) /\ Claims(None) /\ UNCHANGED overtaken
  ELSE overtaken' = overtaken \cup {d} /\ UNCHANGED <<release, gatewayVars>>

ReleaseStopServed ==
  /\ release # None /\ release.stop = "sent"
  /\ release' = [release EXCEPT !.stop = "served"]
  /\ UNCHANGED <<uiVars, pendingJoin, stored, rooms, gatewayVars, assist, ghostVars, calls, faults>>

ReleaseClearServed ==
  /\ release # None /\ release.clear = "sent"
  /\ release' = [release EXCEPT !.clear = "served"]
  /\ rooms' = rooms \ {release.dev}
  /\ UNCHANGED <<uiVars, pendingJoin, stored, gatewayVars, assist, ghostVars, calls, faults>>

ReleaseRequestLost ==
  /\ release # None /\ faults > 0
  /\ \/ release.stop = "sent" /\ release' = [release EXCEPT !.stop = "lost"]
        /\ UNCHANGED lost
     \/ release.clear = "sent" /\ release' = [release EXCEPT !.clear = "lost"]
        /\ lost' = lost \cup {release.dev}
  /\ faults' = faults - 1
  /\ UNCHANGED <<uiVars, pendingJoin, stored, rooms, gatewayVars, assist, overtaken, forgotten, calls>>

\* both requests answered: the stored room goes, and the handlers that
\* awaited this release continue in the same turn
ReleaseSettled ==
  /\ release # None /\ release.stop # "sent" /\ release.clear # "sent"
  /\ LET late == {o \in Slots : ops[o].pc = "lateRelease"}
         stops == {o \in Slots : ops[o].pc = "stopping"}
     IN /\ ops' = [o \in Slots |-> IF o \in late THEN Free
                                  ELSE IF o \in stops THEN [ops[o] EXCEPT !.pc = "stopped"] ELSE ops[o]]
        /\ pendingJoin' = IF pendingJoin \in late THEN None ELSE pendingJoin
        /\ view' = IF release.stop # "lost" /\ \E o \in stops : Active(o)
                   THEN [view EXCEPT !.gwCtx = None, !.gw = "closed"] ELSE view
  /\ release' = None
  /\ stored' = None
  /\ UNCHANGED <<page, open, rooms, gatewayVars, assist, ghostVars, calls, faults>>

(***************************************************************************)
(* Pages come and go.                                                      *)
(***************************************************************************)
Open(d) ==
  /\ page.dev = None /\ page.n < MaxMounts /\ d \in Owned
  /\ page' = [n |-> page.n + 1, dev |-> d]
  /\ view' = FreshView(None)
  /\ UNCHANGED <<ops, open, roomVars, assist, ghostVars, calls, faults>>

\* the clean-up of a page that is unmounted
LeaveRoom == IF view.ctx # None THEN Releasing(view.ctx.dev) ELSE UNCHANGED <<release, overtaken, gatewayVars>>

Unmount ==
  /\ page' = [page EXCEPT !.dev = None]
  /\ view' = FreshView(None)
  /\ open' = open \ {view.session}
  /\ LeaveRoom

Leave ==
  /\ page.dev # None /\ Unmount
  /\ UNCHANGED <<ops, pendingJoin, stored, rooms, assist, lost, forgotten, calls, faults>>

(***************************************************************************)
(* Buttons.                                                                *)
(***************************************************************************)
Begin(o, kind, pc, ctx, room) ==
  /\ ops[o] = Free /\ \A p \in Slots : p < o => ops[p] # Free
  /\ ops' = [ops EXCEPT ![o] =
               [pc |-> pc, kind |-> kind, n |-> page.n, ctx |-> ctx, was |-> IF kind = "reconnect" THEN view.ctx ELSE None, room |-> room]]

MustJoin == ~view.joined \/ NeedsTakeover(view.ctx) \/ view.gw = "error"

\* getNextAction: what the page's button says it does next; only "wait" and
\* "operate", which is local to the page, change nothing here
Offer ==
  CASE MustJoin -> "join"
    [] ~MustJoin /\ (~Matches \/ view.stage \in {"idle", "failed"}) -> "start"
    [] ~MustJoin /\ Matches /\ view.stage = "starting" -> "wait"
    [] ~MustJoin /\ Matches /\ view.stage = "broken" -> "reconnect"
    [] OTHER -> "operate"

\* a failed session may still show its video
CanDisconnect == view.gw = "connected" \/ view.stage # "idle"

\* who controls the device: an own earlier session is taken over unasked
Occupants == {"none", "self", "others"}
JoinMode(occupants, force) ==
  IF force \/ occupants = "self" THEN "forced" ELSE IF occupants = "none" THEN "plain" ELSE "occupied"

\* handleNextAction: join, start the gateway or start the session, whichever
\* the page still lacks; the join is forced when a takeover is due, else as
\* the switch and the occupants of the device say
NextAction(o, attempted, occupants) ==
  /\ Ready
  /\ \/ /\ Offer = "join"
        /\ \E force \in BOOLEAN, who \in occupants :
             LET takeover == view.joined /\ NeedsTakeover(view.ctx)
                 c == [dev |-> page.dev, mode |-> JoinMode(who, force \/ takeover)]
             IN Begin(o, "next", "joinWait", c, None)
     \/ Offer = "start" /\ ~Matches /\ Begin(o, "next", "startWait", view.ctx, None)
     \/ Offer = "start" /\ Matches /\ Begin(o, "next", "sessionWait", None, None)
  /\ view' = [view EXCEPT !.busy = TRUE, !.attempted = attempted]
  /\ UNCHANGED <<page, open, roomVars, assist, ghostVars, faults>>

PressNext(o) ==
  /\ calls > 0 /\ calls' = calls - 1
  /\ NextAction(o, view.attempted, Occupants)

\* useRemoteAutoConnect: once for each page, before any connection, and never
\* against somebody else's
AutoConnect(o) ==
  /\ ~view.attempted /\ view.stage \in {"idle", "failed"} /\ view.gw # "connected"
  /\ NextAction(o, TRUE, Occupants \ {"others"})
  /\ UNCHANGED calls

\* handleReconnectRemote up to its first await, from the page state v: the
\* session is reset; the room is joined again when the gateway is not the
\* room's, except that an assistance only starts its gateway again, which
\* fails at once without a stored room
Reconnect(o, v) ==
  LET reset == [v EXCEPT !.session = None, !.stage = "idle"]
      forced == view.ctx # None /\ view.ctx.mode = "forced"
      failing == ~Matches /\ page.dev = Partner /\ stored = None
  IN /\ \/ Matches /\ Begin(o, "reconnect", "sessionWait", None, None) /\ UNCHANGED gatewayVars
        \/ /\ ~Matches /\ page.dev = Partner /\ stored # None
           /\ Begin(o, "reconnect", "startSent", view.ctx, stored) /\ Claims(o)
        \/ failing /\ UNCHANGED <<ops, gatewayVars>>
        \/ /\ ~Matches /\ page.dev # Partner /\ UNCHANGED gatewayVars
           /\ \E c \in Contexts :
                /\ c.dev = page.dev /\ (c.mode = "forced" <=> forced)
                /\ Begin(o, "reconnect", "joinWait", c, None)
     /\ view' = [reset EXCEPT !.busy = ~failing]
     /\ open' = open \ {view.session}
     /\ UNCHANGED <<page, pendingJoin, release, stored, rooms, assist, ghostVars, faults>>

PressReconnect(o) ==
  /\ Ready /\ calls > 0 /\ calls' = calls - 1
  /\ view.stage = "failed" \/ view.stage = "broken"
  /\ Reconnect(o, view)

\* the recovery timer fires: the attempt is counted (attemptCount), then the
\* handler called
RecoveryFires(o) == TimerArmed /\ Reconnect(o, [view EXCEPT !.retrying = TRUE]) /\ UNCHANGED calls

\* ten healthy seconds
HealthyFires ==
  /\ page.dev # None /\ view.joined /\ Healthy /\ view.retrying
  /\ view' = [view EXCEPT !.retrying = FALSE]
  /\ UNCHANGED <<page, ops, open, roomVars, assist, ghostVars, calls, faults>>

\* stopSignalGateway, alone or before handleReturnToDevices leaves the page; an
\* assistance page without its context is left at once
Stop(o) ==
  /\ Ready /\ CanDisconnect /\ calls > 0 /\ calls' = calls - 1
  /\ \E kind \in {"stop", "return"} :
       Begin(o, kind, IF view.ctx = None THEN "stopSent" ELSE "stopping", None, None)
  /\ IF view.ctx = None THEN Claims(None) /\ UNCHANGED <<release, overtaken>> ELSE LeaveRoom
  /\ IF page.dev = Partner
     THEN page' = [page EXCEPT !.dev = None] /\ view' = FreshView(None)
     ELSE /\ view' = [view EXCEPT !.busy = TRUE, !.ctx = None, !.joined = FALSE, !.gwCtx = None,
                                  !.retrying = FALSE, !.session = None, !.stage = "idle"]
          /\ UNCHANGED page
  /\ open' = open \ {view.session}
  /\ UNCHANGED <<pendingJoin, stored, rooms, assist, lost, forgotten, faults>>

\* stopRemoteSignalGateway without a room: served and answered
StopServed(o) ==
  /\ ops[o].pc = "stopSent"
  /\ At(o, "stopped")
  /\ Shown(o, [view EXCEPT !.gwCtx = None, !.gw = "closed"])
  /\ UNCHANGED <<page, open, roomVars, assist, ghostVars, calls, faults>>

\* the device list is read again, then the stop is done; a return goes to the
\* devices from whatever page is open by then
Stopped(o) ==
  /\ ops[o].pc = "stopped"
  /\ Ended(o)
  /\ IF ops[o].kind = "return" /\ page.dev # None THEN Unmount
     ELSE Shown(o, Idle(view)) /\ UNCHANGED <<page, open, release, overtaken, gatewayVars>>
  /\ UNCHANGED <<pendingJoin, stored, rooms, assist, lost, forgotten, calls, faults>>

(***************************************************************************)
(* joinRoomForDevice.                                                      *)
(***************************************************************************)
\* waitForRoomRelease: the outstanding join first, then the release
FaultyJoinAwaited(o) ==
  /\ \E w \in {<<"joinWait", "joinWait2">>, <<"startWait", "startWait2">>,
               <<"sessionWait", "sessionWait2">>} :
       ops[o].pc = w[1] /\ At(o, w[2])
  /\ UNCHANGED <<page, view, open, roomVars, assist, ghostVars, calls, faults>>
JoinAwaited(o) ==
  /\ \E w \in {<<"joinWait", "joinWait2">>, <<"startWait", "startWait2">>,
               <<"sessionWait", "sessionWait2">>} :
       ops[o].pc = w[1] /\ At(o, w[2])
  /\ pendingJoin = None
  /\ UNCHANGED <<page, view, open, roomVars, assist, ghostVars, calls, faults>>

Awaited(o, pc) == ops[o].pc = pc /\ release = None
\* after both: the request is sent, unless the page is gone; it becomes the
\* pending join, though another handler's, sent in the same turn, may be one
JoinSend(o) ==
  /\ Awaited(o, "joinWait2")
  /\ \/ /\ Active(o) /\ At(o, "joinSent") /\ pendingJoin' = o
        /\ forgotten' = IF pendingJoin = None THEN forgotten ELSE forgotten \cup {ops[pendingJoin].n}
     \/ ~Active(o) /\ Ended(o) /\ UNCHANGED <<pendingJoin, forgotten>>
  /\ UNCHANGED <<page, view, open, release, stored, rooms, gatewayVars, assist, overtaken, lost, calls, faults>>

\* the service admits an account's own device, or answers without a room, as
\* it does for any other device
JoinServed(o) ==
  /\ ops[o].pc = "joinSent"
  /\ \/ /\ ops[o].ctx.dev \in Owned
        /\ At(o, "joined") /\ rooms' = rooms \cup {ops[o].ctx.dev} /\ UNCHANGED faults
     \/ /\ At(o, "refused") /\ UNCHANGED rooms
        /\ IF ops[o].ctx.dev \in Owned THEN faults > 0 /\ faults' = faults - 1 ELSE UNCHANGED faults
  /\ UNCHANGED <<page, view, open, pendingJoin, release, stored, gatewayVars, assist, ghostVars, calls>>

Settled(o) == IF pendingJoin = o THEN None ELSE pendingJoin

FaultyLateAnswer(o) ==
  /\ ops[o].pc \in {"joined", "refused"} /\ ~Active(o)
  /\ pendingJoin' = Settled(o)
  /\ Ended(o)
  /\ UNCHANGED <<page, view, open, release, stored, rooms, gatewayVars, assist, ghostVars, calls, faults>>
\* a late answer: the room is stored by then, and released again, together
\* with whatever is being released
LateAnswer(o) ==
  /\ ops[o].pc \in {"joined", "refused"} /\ ~Active(o)
  /\ stored' = IF ops[o].pc = "joined" THEN ops[o].ctx.dev ELSE None
  /\ Releasing(ops[o].ctx.dev)
  /\ At(o, "lateRelease")
  /\ UNCHANGED <<page, view, open, pendingJoin, rooms, assist, lost, forgotten, calls, faults>>

\* the page takes the room over and forgets the old gateway and session; a
\* room to take over ends the handler, a next action starts the gateway
\* (after waiting again) and a reconnection starts it at once, by then not busy
JoinAnswer(o) ==
  LET op == ops[o]
      joined == op.pc = "joined"
      v == [view EXCEPT !.ctx = op.ctx, !.joined = joined, !.gw = "idle", !.gwCtx = None,
                        !.session = None, !.stage = "idle", !.busy = FALSE]
  IN /\ op.pc \in {"joined", "refused"} /\ Active(o)
     /\ stored' = IF joined THEN op.ctx.dev ELSE None
     /\ pendingJoin' = Settled(o)
     /\ open' = open \ {view.session}
     /\ \/ /\ joined /\ op.kind = "next" /\ ~NeedsTakeover(op.ctx)
           /\ At(o, "startWait") /\ Shown(o, [v EXCEPT !.busy = TRUE]) /\ UNCHANGED gatewayVars
        \/ /\ joined /\ op.kind = "reconnect"
           /\ ops' = [ops EXCEPT ![o].pc = "startSent", ![o].ctx = op.was, ![o].was = None, ![o].room = op.ctx.dev]
           /\ Shown(o, v) /\ Claims(o)
        \/ /\ ~joined \/ (op.kind = "next" /\ NeedsTakeover(op.ctx))
           /\ Ended(o) /\ Shown(o, v) /\ UNCHANGED gatewayVars
     /\ UNCHANGED <<page, release, rooms, assist, ghostVars, calls, faults>>

\* the request fails, before or after the service admitted it
JoinLost(o) ==
  /\ ops[o].pc \in {"joinSent", "joined"} /\ faults > 0
  /\ faults' = faults - 1
  /\ lost' = IF ops[o].pc = "joined" THEN lost \cup {ops[o].ctx.dev} ELSE lost
  /\ pendingJoin' = Settled(o)
  /\ Ended(o)
  /\ Shown(o, Idle(view))
  /\ UNCHANGED <<page, open, release, stored, rooms, gatewayVars, assist, overtaken, forgotten, calls>>

(***************************************************************************)
(* startSignalGateway and the session that follows it.                     *)
(***************************************************************************)
StartSend(o) ==
  /\ Awaited(o, "startWait2")
  /\ \/ ~Active(o) /\ Ended(o) /\ UNCHANGED <<view, gatewayVars>>
     \/ /\ Active(o) /\ ops[o].ctx # None /\ ops[o].ctx.dev = page.dev /\ stored # None
        /\ ops' = [ops EXCEPT ![o].pc = "startSent", ![o].room = stored]
        /\ UNCHANGED view /\ Claims(o)
     \/ /\ Active(o) /\ (ops[o].ctx = None \/ stored = None)
        /\ Ended(o) /\ view' = Idle(view) /\ UNCHANGED gatewayVars
  /\ UNCHANGED <<page, open, pendingJoin, release, stored, rooms, assist, ghostVars, calls, faults>>

FaultyStartServed(o) ==
  /\ ops[o].pc = "startSent" /\ At(o, "started") /\ gateway' = ops[o].room
  /\ UNCHANGED <<page, view, open, claim, pendingJoin, release, stored, rooms, assist, ghostVars, calls, faults>>
\* the gateway connects, or fails, or no longer knows the room's
\* authorization; a start that a newer request overruled is answered with the
\* newest one's status; any answer may be lost
StartServed(o) ==
  /\ ops[o].pc = "startSent"
  /\ \/ claim = o /\ At(o, "started") /\ gateway' = ops[o].room /\ UNCHANGED faults
     \/ /\ claim = o /\ faults > 0 /\ faults' = faults - 1
        /\ \E pc \in {"startFailed", "unauthorized"} : At(o, pc)
        /\ UNCHANGED gateway
     \/ /\ claim # o /\ UNCHANGED <<gateway, faults>>
        /\ \/ gateway # None /\ At(o, "started")
           \/ gateway = None /\ At(o, "overruled")
           \/ gateway = None /\ claim = None /\ At(o, "startFailed")
     \/ /\ faults > 0 /\ faults' = faults - 1
        /\ At(o, "startLost") /\ gateway' \in {gateway, IF claim = o THEN ops[o].room ELSE gateway}
  /\ claim' = IF claim = o THEN None ELSE claim
  /\ UNCHANGED <<page, view, open, pendingJoin, release, stored, rooms, assist, ghostVars, calls>>

\* an assistance whose gateway forgot it: the page drops its context, so that
\* it goes back to the partner page without a release
EndsAssistance(o) == ops[o].kind = "reconnect" /\ Active(o) /\ page.dev = Partner
AssistanceEnds(o) ==
  /\ ops[o].pc = "unauthorized" /\ EndsAssistance(o)
  /\ Ended(o)
  /\ page' = [page EXCEPT !.dev = None] /\ view' = FreshView(None)
  /\ lost' = lost \cup {Partner}
  /\ open' = open \ {view.session}
  /\ UNCHANGED <<roomVars, assist, overtaken, forgotten, calls, faults>>

\* a reconnection shows the gateway as started for the room the page had when
\* the handler began; a handler of a page that is gone stops here
StartAnswer(o) ==
  LET op == ops[o]
      v == [view EXCEPT !.gwCtx = None, !.busy = FALSE]
  IN /\ \/ /\ op.pc = "started"
           /\ ops' = [ops EXCEPT ![o] = IF Active(o) THEN [@ EXCEPT !.pc = "sessionWait", !.ctx = None, !.was = None, !.room = None] ELSE Free]
           /\ Shown(o, [view EXCEPT !.gw = "connected", !.gwCtx = op.ctx, !.busy = op.kind = "next" \/ @])
        \/ /\ op.pc = "startFailed" \/ (op.pc = "unauthorized" /\ ~EndsAssistance(o))
           /\ Ended(o) /\ Shown(o, [v EXCEPT !.gw = "error"])
        \/ op.pc = "overruled" /\ Ended(o) /\ Shown(o, [v EXCEPT !.gw = "closed"])
        \/ op.pc = "startLost" /\ Ended(o) /\ Shown(o, Idle(view))
     /\ UNCHANGED <<page, open, roomVars, assist, ghostVars, calls, faults>>

Starting == {ops[o].room : o \in {p \in Slots : ops[p].pc = "sessionStarting"}}
SessionCreated(o) ==
  /\ Awaited(o, "sessionWait2")
  /\ IF Active(o)
     THEN \E s \in Session \ (Starting \cup (open \ {view.session})) :
            /\ \A t \in 1..(s - 1) : t \in Starting \cup (open \ {view.session})
            /\ ops' = [ops EXCEPT ![o].pc = "sessionStarting", ![o].room = s]
            /\ open' = (open \ {view.session}) \cup {s}
            /\ Shown(o, [view EXCEPT !.session = s, !.stage = "starting"])
     ELSE Ended(o) /\ UNCHANGED <<view, open>>
  /\ UNCHANGED <<page, roomVars, assist, ghostVars, calls, faults>>

\* the offer is out, or start failed, before or after it showed the session
\* as controlled, or it found its session replaced
SessionStarted(o) ==
  /\ ops[o].pc = "sessionStarting"
  /\ Ended(o)
  /\ \/ Shown(o, Idle(view)) /\ UNCHANGED faults
     \/ /\ faults > 0 /\ faults' = faults - 1
        /\ Active(o) /\ view.session = ops[o].room /\ view.stage = "starting"
        /\ view' = Idle([view EXCEPT !.stage = "idle"])
  /\ UNCHANGED <<page, open, roomVars, assist, ghostVars, calls>>

(***************************************************************************)
(* The session and the gateway change by themselves.                       *)
(***************************************************************************)
SessionChanges(stage, v) ==
  /\ page.dev # None /\ view.session # None
  /\ view' = [v EXCEPT !.stage = stage]
  /\ UNCHANGED <<page, ops, roomVars, assist, ghostVars, calls>>

SessionConnects == view.stage = "starting" /\ SessionChanges("connected", view) /\ UNCHANGED <<open, faults>>
SessionBreaks == /\ view.stage = "connected" /\ faults > 0 /\ faults' = faults - 1
                 /\ SessionChanges("broken", view) /\ UNCHANGED open
\* the negotiation deadline: the session is closed, and stays the current one
SessionFails == /\ view.stage = "starting" /\ faults > 0 /\ faults' = faults - 1
                /\ SessionChanges("failed", view) /\ open' = open \ {view.session}

GatewayDrops ==
  /\ gateway # None /\ faults > 0 /\ faults' = faults - 1
  /\ gateway' = None
  /\ UNCHANGED <<uiVars, claim, pendingJoin, release, stored, rooms, assist, ghostVars, calls>>

\* the polls of useSignalGatewayController show it, and a gateway that a newer
\* start has connected; a gateway that is closed may have failed as well
StatusPolled ==
  /\ page.dev # None /\ view.gwCtx # None /\ view.gw # "idle"
  /\ (view.gw = "connected") # (gateway # None)
  /\ \E gw \in IF gateway # None THEN {"connected"} ELSE IF claim = None THEN {"closed", "error"} ELSE {"closed"} :
       view' = [view EXCEPT !.gw = gw]
  /\ UNCHANGED <<page, ops, open, roomVars, assist, ghostVars, calls, faults>>

(***************************************************************************)
(* handleStartRemoteAssistance of the product shell: the partner may       *)
(* confirm long after another page was opened.                             *)
(***************************************************************************)
AssistCall ==
  /\ page.dev = None /\ assist = "idle" /\ page.n < MaxMounts /\ calls > 0
  /\ assist' = "wait" /\ calls' = calls - 1
  /\ UNCHANGED <<uiVars, roomVars, ghostVars, faults>>

AssistAwaited ==
  /\ assist = "wait" /\ pendingJoin = None
  /\ assist' = "wait2"
  /\ UNCHANGED <<uiVars, roomVars, ghostVars, calls, faults>>

AssistSend ==
  /\ assist = "wait2" /\ release = None
  /\ assist' = "sent"
  /\ UNCHANGED <<uiVars, roomVars, ghostVars, calls, faults>>

AssistServed ==
  /\ assist = "sent"
  /\ \/ assist' = "joined" /\ rooms' = rooms \cup {Partner} /\ UNCHANGED faults
     \/ /\ faults > 0 /\ faults' = faults - 1
        /\ assist' = "idle" /\ UNCHANGED rooms
  /\ UNCHANGED <<uiVars, pendingJoin, release, stored, gatewayVars, ghostVars, calls>>

\* the room is stored and the partner's page replaces the one shown
AssistAnswer ==
  /\ assist = "joined" /\ page.n < MaxMounts
  /\ assist' = "idle"
  /\ stored' = Partner
  /\ page' = [n |-> page.n + 1, dev |-> Partner]
  /\ view' = FreshView([dev |-> Partner, mode |-> "plain"])
  /\ open' = open \ {view.session}
  /\ LeaveRoom
  /\ UNCHANGED <<ops, pendingJoin, rooms, lost, forgotten, calls, faults>>

\* no platform in the answer: the room is forgotten and the join cancelled
AssistCancelled ==
  /\ assist = "joined"
  /\ assist' = "idle"
  /\ stored' = None
  /\ rooms' = rooms \ {Partner}
  /\ UNCHANGED <<uiVars, pendingJoin, release, gatewayVars, ghostVars, calls, faults>>

-----------------------------------------------------------------------------
Init ==
  /\ \E b \in Budgets :
       /\ page = [n |-> MaxMounts - b.mounts, dev |-> None]
       /\ calls = b.calls /\ faults = b.faults
  /\ view = FreshView(None)
  /\ ops = [o \in Slots |-> Free]
  /\ pendingJoin = None /\ release = None /\ stored = None /\ assist = "idle"
  /\ open = {} /\ rooms = {} /\ gateway = None /\ claim = None
  /\ overtaken = {} /\ lost = {} /\ forgotten = {}

Handler(o) ==
  \/ PressNext(o) \/ AutoConnect(o) \/ PressReconnect(o) \/ RecoveryFires(o) \/ Stop(o)

Answers(o) ==
  \/ JoinServed(o) \/ LateAnswer(o) \/ JoinAnswer(o)
  \/ StartServed(o) \/ StartAnswer(o) \/ AssistanceEnds(o)
  \/ SessionStarted(o) \/ StopServed(o) \/ Stopped(o)

Release == ReleaseStopServed \/ ReleaseClearServed \/ ReleaseSettled
Assistance == AssistCall \/ AssistServed \/ AssistAnswer \/ AssistCancelled

\* Whoever waited for a join or a release goes on in the turn that settles it,
\* and one that need not wait in the turn that begins it; answers, timers and
\* the user come in a turn of their own.
GoesOn(o) == JoinAwaited(o) \/ JoinSend(o) \/ StartSend(o) \/ SessionCreated(o)
AssistGoesOn == AssistAwaited \/ AssistSend
TurnEnded ==
  /\ pendingJoin = None => assist # "wait" /\ \A o \in Slots : ops[o].pc \notin {"joinWait", "startWait", "sessionWait"}
  /\ release = None => assist # "wait2" /\ \A o \in Slots : ops[o].pc \notin {"joinWait2", "startWait2", "sessionWait2"}

Event ==
  \/ \E o \in Slots : Handler(o) \/ Answers(o) \/ JoinLost(o)
  \/ \E d \in Owned : Open(d)
  \/ Leave \/ Release \/ ReleaseRequestLost \/ Assistance
  \/ HealthyFires \/ SessionConnects \/ SessionBreaks \/ SessionFails
  \/ GatewayDrops \/ StatusPolled

Next ==
  \/ \E o \in Slots : GoesOn(o)
  \/ AssistGoesOn
  \/ TurnEnded /\ Event

Spec == Init /\ [][Next]_vars

\* requests are answered and timers fire; faults and buttons owe nothing
FairSpec ==
  /\ Spec
  /\ WF_vars(Release) /\ WF_vars(StatusPolled)
  /\ \A o \in Slots : WF_vars(Answers(o)) /\ WF_vars(GoesOn(o))
  /\ WF_vars(\E o \in Slots : RecoveryFires(o)) /\ WF_vars(SessionConnects)

-----------------------------------------------------------------------------
(***************************************************************************)
(* Properties.                                                             *)
(***************************************************************************)
\* Once the page is left and every request is answered, the service holds no
\* room of this client (releaseRemoteRoom of the unmount, the late answer of
\* joinRoomForDevice), but for joins, clears and authorizations that were lost
\* and for the rooms of late answers that joined a release already under way.
Quiet == /\ page.dev = None /\ release = None /\ assist = "idle"
         /\ \A o \in Slots : ops[o] = Free
NoRoomLeftBehind == Quiet => rooms \subseteq lost \cup overtaken

\* implementation-notes.md:29 says that leaving the page clears its UU room,
\* without that exception.
LeavingClearsRoom == Quiet => rooms \subseteq lost

\* A join is sent only when no release and no join of an earlier page is
\* outstanding (waitForRoomRelease; implementation-notes.md:29: joining a new
\* target waits for the old join and its clean-up), but for the joins of a page
\* of which pendingJoin remembers the last one only.
Outstanding(n) == \E o \in Slots : /\ ops[o].n < n /\ ops[o].n \notin forgotten
                                   /\ ops[o].pc \in {"joinSent", "joined", "refused", "lateRelease"}
JoinsAreOrdered ==
  [][\A o \in Slots : ops'[o].pc = "joinSent" /\ ops[o].pc # "joinSent"
        => release = None /\ ~Outstanding(ops[o].n)]_vars

\* Handlers that overlap or outlive their page leave no second session behind:
\* the only session not closed is the mounted page's.
OneOpenSession == open \subseteq (IF page.dev = None THEN {} ELSE {view.session})

\* An assistance starts with the room that is stored, and a forgotten join that
\* is answered then stores another one.
Misled == page.dev = Partner /\ forgotten # {}

\* When the page shows its gateway as started for its room and no request is
\* under way, the gateway is connected to that room or dropped, whichever of
\* the starts that overlapped was answered last.
Calm == release = None /\ assist = "idle" /\ \A o \in Slots : ops[o] = Free
ShownGatewayIsOwn ==
  Calm /\ page.dev # None /\ Matches /\ view.ctx # None => gateway \in {view.ctx.dev, None} \/ Misled

\* A start sends the room of the page it was asked on (startRemoteSignalGateway
\* reads sessionStorage, which joins, releases and assistance all write).
StartsOwnRoom ==
  \A o \in Slots : ops[o].pc = "startSent" /\ Active(o) => ops[o].room = page.dev \/ Misled

\* A page on which nothing is under way offers a next step: it is not busy,
\* though handlers nest, overlap and outlive their page, and it waits for a
\* picture, or offers to operate, only on a session that was not closed.
OffersAreReal ==
  Calm /\ page.dev # None =>
    ~view.busy /\ (Offer \in {"wait", "operate"} => view.session \in open)

\* The page mounted last owns everything that runs in its name, also where its
\* own handlers overlap, as reconnections do.
PageOwnsWhatRuns == OneOpenSession /\ ShownGatewayIsOwn /\ StartsOwnRoom /\ OffersAreReal

\* Once retrying has begun it goes on, without the user, until the session is
\* connected or the room is given up: a retry that fails itself is followed by
\* another one (useRemoteRecoveryController, whose own state a failed start
\* leaves "idle").  The exception is a page whose attempts overrule each other
\* for ever: the timer runs while the gateway is awaited (useBusyAction.ts:22),
\* and a gateway slower than the timer and the next join answers none of them.
Overruled == \E o \in Slots : Active(o) /\ ops[o].pc = "overruled"
RetriesGoOn ==
  []<>(view.retrying /\ view.joined /\ page.dev # None => view.stage = "connected" \/ Overruled)

\* The page has at most one start of its gateway on its way: project-audit-
\* 2026-09-05.zh-CN.md:157 (CON-02) asks recovery to begin no connection that
\* is being made already, and implementation-notes.md:10 lists it as done.
OneConnectAtATime ==
  \A o, p \in Slots :
    Active(o) /\ Active(p) /\ ops[o].pc = "startSent" /\ ops[p].pc = "startSent" => o = p
=============================================================================
