----------------------- MODULE RemoteControlPageProofs -----------------------
(***************************************************************************)
(* Proofs about the control page.                                          *)
(*                                                                         *)
(* RoomInv says who will give up each room the service holds: the page,    *)
(* the pending release, a join that was served, the assistance, or nobody, *)
(* and then the room counts as lost or overtaken.  It is inductive however *)
(* pages and handlers overlap, and gives NoRoomLeftBehind.                 *)
(*                                                                         *)
(* OwnInv adds what a page owns, however its handlers overlap.  Its key is *)
(* WentAlone: pendingJoin names a join that is not answered and cleaned    *)
(* up, and whoever waited for it (a handler past waitForRoomRelease, a     *)
(* page with a session, a page that retries) finds in it no join of an     *)
(* earlier page after that.  So the stored room, the gateway and the start *)
(* on its way are the page's own.                                          *)
(***************************************************************************)
EXTENDS RemoteControlPage, TLAPS

Kinds == {"none", "next", "reconnect", "stop", "return"}
Places ==
  {"free", "joinWait", "joinWait2", "joinSent", "joined", "refused", "lateRelease",
   "startWait", "startWait2", "startSent", "started", "startFailed", "unauthorized", "overruled",
   "startLost", "sessionWait", "sessionWait2", "sessionStarting", "stopping", "stopSent", "stopped"}
Ops == [pc : Places, kind : Kinds, n : Nat, ctx : Contexts \cup {None}, was : Contexts \cup {None},
        room : Targets \cup Session \cup {None}]
Views ==
  [ctx : Contexts \cup {None}, joined : BOOLEAN, gw : {"idle", "connected", "closed", "error"},
   gwCtx : Contexts \cup {None}, session : Session \cup {None},
   stage : {"idle", "starting", "connected", "broken", "failed"},
   busy : BOOLEAN, retrying : BOOLEAN, attempted : BOOLEAN]

\* The part of the type invariant that the arguments need.
Types ==
  /\ page \in [n : Nat, dev : Targets \cup {None}]
  /\ view \in Views /\ ops \in [Slots -> Ops]
  /\ pendingJoin \in Slots \cup {None} /\ claim \in Slots \cup {None}
  /\ release \in Releases \cup {None}
  /\ stored \in Targets \cup {None} /\ gateway \in Targets \cup Session \cup {None}
  /\ open \subseteq Session

\* Where a page is, and what its handlers are for.
Pages ==
  /\ page.dev # None => page.n > 0
  /\ page.dev = None => view.ctx = None
  /\ view.ctx # None => view.ctx.dev = page.dev
Handlers ==
  \A o \in Slots : /\ ops[o].n <= page.n
                   /\ Active(o) /\ ops[o].ctx # None => ops[o].ctx.dev = page.dev
                   /\ Active(o) /\ ops[o].was # None => ops[o].was.dev = page.dev

\* A handler that joins says what it joins.
Asking == {"joinWait", "joinWait2", "joinSent", "joined", "refused", "lateRelease"}
JoinsName == \A o \in Slots : ops[o].pc \in Asking => ops[o].ctx # None

-----------------------------------------------------------------------------
(* Types.                                                                    *)

USE PageAssumption

LEMMA ShownType ==
  ASSUME Types, NEW o \in Slots, NEW v \in Views, Shown(o, v)
  PROVE  view' \in Views
  <1>1. [v EXCEPT !.retrying = FALSE] \in Views
    BY DEF Views
  <1>2. view \in Views
    BY DEF Types
  <1> QED  BY <1>1, <1>2 DEF Shown, Rendered

LEMMA AtType ==
  ASSUME Types, NEW o \in Slots, NEW pc \in Places, At(o, pc)
  PROVE  ops' \in [Slots -> Ops]
  BY DEF Types, Ops, At

LEMMA FreeType == Free \in Ops
  BY DEF Free, Ops, Places, Kinds

LEMMA EndedType ==
  ASSUME Types, NEW o \in Slots, Ended(o)
  PROVE  ops' \in [Slots -> Ops]
  BY FreeType DEF Types, Ended

LEMMA FreshType ==
  ASSUME NEW c \in Contexts \cup {None}
  PROVE  FreshView(c) \in Views
  BY DEF FreshView, Views

LEMMA ReleasingType ==
  ASSUME Types, NEW d \in Targets, Releasing(d)
  PROVE  release' \in Releases \cup {None} /\ gateway' \in Targets \cup Session \cup {None} /\ claim' \in Slots \cup {None}
  BY DEF Types, Releasing, NewRelease, Releases, Asked, Claims, gatewayVars

LEMMA LeaveRoomType ==
  ASSUME Types, LeaveRoom
  PROVE  release' \in Releases \cup {None} /\ gateway' \in Targets \cup Session \cup {None} /\ claim' \in Slots \cup {None}
  <1>1. CASE view.ctx # None
    <2>1. view.ctx.dev \in Targets
      BY <1>1 DEF Types, Views, Contexts
    <2> QED  BY <1>1, <2>1, ReleasingType DEF LeaveRoom
  <1>2. CASE view.ctx = None
    BY <1>2 DEF LeaveRoom, Types, gatewayVars
  <1> QED  BY <1>1, <1>2

\* A handler goes on with a room or a session, or for another context.
Moves(o, pc, c, w, r) ==
  ops' = [ops EXCEPT ![o] = [@ EXCEPT !.pc = pc, !.ctx = c, !.was = w, !.room = r]]

LEMMA MovesIs ==
  ASSUME Types, NEW o \in Slots, NEW r \in Targets \cup Session \cup {None}, NEW pc \in Places,
         NEW c \in Contexts \cup {None}, NEW w \in Contexts \cup {None}, Moves(o, pc, c, w, r)
  PROVE  /\ ops' \in [Slots -> Ops]
         /\ \A p \in Slots \ {o} : ops'[p] = ops[p]
         /\ ops'[o].pc = pc /\ ops'[o].kind = ops[o].kind /\ ops'[o].n = ops[o].n
         /\ ops'[o].ctx = c /\ ops'[o].was = w /\ ops'[o].room = r
  <1>1. ops[o] \in Ops
    BY DEF Types
  <1>2. ops'[o] = [ops[o] EXCEPT !.pc = pc, !.ctx = c, !.was = w, !.room = r]
    BY DEF Types, Moves
  <1>3. ops'[o] \in Ops
    BY <1>1, <1>2 DEF Ops
  <1>4. /\ ops'[o].pc = pc /\ ops'[o].kind = ops[o].kind /\ ops'[o].n = ops[o].n
        /\ ops'[o].ctx = c /\ ops'[o].was = w /\ ops'[o].room = r
    BY <1>1, <1>2 DEF Ops
  <1>5. ops' \in [Slots -> Ops] /\ (\A p \in Slots \ {o} : ops'[p] = ops[p])
    BY <1>3 DEF Types, Moves
  <1> QED  BY <1>4, <1>5

GoesOnTo(o, pc, r) == ops' = [ops EXCEPT ![o].pc = pc, ![o].room = r]

LEMMA GoesOnMoves ==
  ASSUME Types, NEW o \in Slots, NEW r \in Targets \cup Session, NEW pc \in Places, GoesOnTo(o, pc, r)
  PROVE  /\ ops' \in [Slots -> Ops]
         /\ \A p \in Slots \ {o} : ops'[p] = ops[p]
         /\ ops'[o].pc = pc /\ ops'[o].kind = ops[o].kind /\ ops'[o].n = ops[o].n
         /\ ops'[o].ctx = ops[o].ctx /\ ops'[o].was = ops[o].was /\ ops'[o].room = r
  <1>1. ops[o] \in Ops
    BY DEF Types
  <1>2. ops'[o] = [[ops[o] EXCEPT !.pc = pc] EXCEPT !.room = r]
    BY DEF Types, GoesOnTo
  <1>3. ops'[o] \in Ops
    BY <1>1, <1>2 DEF Ops
  <1>4. /\ ops'[o].pc = pc /\ ops'[o].kind = ops[o].kind /\ ops'[o].n = ops[o].n
        /\ ops'[o].ctx = ops[o].ctx /\ ops'[o].was = ops[o].was /\ ops'[o].room = r
    BY <1>1, <1>2 DEF Ops
  <1>5. ops' \in [Slots -> Ops] /\ (\A p \in Slots \ {o} : ops'[p] = ops[p])
    BY <1>3 DEF Types, GoesOnTo
  <1> QED  BY <1>4, <1>5

\* A reconnection that joined starts the gateway for the context it closed over.
Restarts(o) ==
  ops' = [ops EXCEPT ![o].pc = "startSent", ![o].ctx = ops[o].was, ![o].was = None, ![o].room = ops[o].ctx.dev]

LEMMA RestartsMoves ==
  ASSUME Types, NEW o \in Slots, Restarts(o)
  PROVE  Moves(o, "startSent", ops[o].was, None, ops[o].ctx.dev)
  BY DEF Types, Restarts, Moves

LEMMA BeginType ==
  ASSUME Types, NEW o \in Slots, NEW kind \in Kinds, NEW pc \in Places,
         NEW c \in Contexts \cup {None}, NEW r \in Targets \cup {None}, Begin(o, kind, pc, c, r)
  PROVE  ops' \in [Slots -> Ops]
  BY DEF Types, Ops, Views, Begin

\* The page's state at the end of a reconnection's first step, of a stop's and of a join.
Resetting(v, b) == [v EXCEPT !.session = None, !.stage = "idle", !.busy = b]
Stopping(v, b, f) ==
  [v EXCEPT !.busy = b, !.ctx = None, !.joined = f, !.gwCtx = None, !.retrying = f,
            !.session = None, !.stage = "idle"]
Joining(v, c, j, b) ==
  [v EXCEPT !.ctx = c, !.joined = j, !.gw = "idle", !.gwCtx = None, !.session = None,
            !.stage = "idle", !.busy = b]

LEMMA ResettingIs ==
  ASSUME NEW v \in Views, NEW b \in BOOLEAN
  PROVE  /\ Resetting(v, b) \in Views
         /\ LET r == Resetting(v, b)
            IN /\ r.ctx = v.ctx /\ r.joined = v.joined /\ r.gw = v.gw /\ r.gwCtx = v.gwCtx
               /\ r.session = None /\ r.stage = "idle" /\ r.busy = b /\ r.retrying = v.retrying
  BY DEF Resetting, Views

LEMMA StoppingIs ==
  ASSUME NEW v \in Views, NEW b \in BOOLEAN, NEW f \in BOOLEAN
  PROVE  /\ Stopping(v, b, f) \in Views
         /\ LET r == Stopping(v, b, f)
            IN /\ r.ctx = None /\ r.joined = f /\ r.gw = v.gw /\ r.gwCtx = None
               /\ r.session = None /\ r.stage = "idle" /\ r.busy = b /\ r.retrying = f
  BY DEF Stopping, Views

LEMMA JoiningIs ==
  ASSUME NEW v \in Views, NEW c \in Contexts \cup {None}, NEW j \in BOOLEAN, NEW b \in BOOLEAN
  PROVE  /\ Joining(v, c, j, b) \in Views
         /\ LET r == Joining(v, c, j, b)
            IN /\ r.ctx = c /\ r.joined = j /\ r.gw = "idle" /\ r.gwCtx = None
               /\ r.session = None /\ r.stage = "idle" /\ r.busy = b /\ r.retrying = v.retrying
  BY DEF Joining, Views

LEMMA JoinedIs ==
  ASSUME view \in Views, NEW c \in Contexts \cup {None}, NEW j \in BOOLEAN
  PROVE  LET r == Joining(view, c, j, FALSE)
         IN /\ r \in Views /\ r.ctx = c /\ r.gw = "idle" /\ r.gwCtx = None /\ r.session = None 
            /\ r.stage = "idle" /\ r.busy = FALSE /\ r.retrying = view.retrying
  BY DEF Joining, Views

\* The page's state when a start is answered, and the handler that goes on then.
Answering(v, gw, c, b) == [v EXCEPT !.gw = gw, !.gwCtx = c, !.busy = b]
Resumes(o) ==
  ops' = [ops EXCEPT ![o] = [@ EXCEPT !.pc = "sessionWait", !.ctx = None, !.was = None, !.room = None]]

LEMMA ResumesIs ==
  ASSUME Types, NEW o \in Slots, Resumes(o)
  PROVE  /\ ops' \in [Slots -> Ops]
         /\ \A p \in Slots \ {o} : ops'[p] = ops[p]
         /\ ops'[o].pc = "sessionWait" /\ ops'[o].kind = ops[o].kind /\ ops'[o].n = ops[o].n
         /\ ops'[o].ctx = None /\ ops'[o].was = None
  <1>1. Moves(o, "sessionWait", None, None, None) /\ "sessionWait" \in Places
    BY DEF Resumes, Moves, Places
  <1> QED  BY <1>1, MovesIs

LEMMA AnswerIs ==
  ASSUME Types, NEW o \in Slots, StartAnswer(o)
  PROVE  /\ IF ops[o].pc = "started" /\ Active(o) THEN Resumes(o) ELSE Ended(o)
         /\ \E v \in Views :
              /\ Shown(o, v) /\ v.ctx = view.ctx /\ v.joined = view.joined /\ v.session = view.session
              /\ v.stage = view.stage /\ v.retrying = view.retrying
              /\ ops[o].pc # "started" => v.busy = FALSE /\ v.gwCtx \in {view.gwCtx, None}
  <1>1. ops[o].ctx \in Contexts \cup {None} /\ view \in Views
    BY DEF Types, Ops
  <1>2. IF ops[o].pc = "started" /\ Active(o) THEN Resumes(o) ELSE Ended(o)
    BY Zenon DEF StartAnswer, Resumes, Ended
  <1>3. CASE ops[o].pc = "started"
    <2> DEFINE b == ops[o].kind = "next" \/ view.busy
    <2>1. Shown(o, Answering(view, "connected", ops[o].ctx, b))
      BY <1>3, Zenon DEF StartAnswer, Answering
    <2>2. b \in BOOLEAN
      BY Zenon
    <2> HIDE DEF b
    <2> DEFINE v == Answering(view, "connected", ops[o].ctx, b)
    <2>3. /\ v \in Views /\ v.ctx = view.ctx /\ v.joined = view.joined /\ v.session = view.session
          /\ v.stage = view.stage /\ v.retrying = view.retrying
      BY <1>1, <2>2 DEF Answering, Views
    <2>4. Shown(o, v)
      BY <2>1
    <2> HIDE DEF v
    <2> QED  BY <1>2, <1>3, <2>3, <2>4
  <1>4. ASSUME NEW gw \in {"error", "closed"}, ops[o].pc # "started", Shown(o, Answering(view, gw, None, FALSE))
        PROVE  \E v \in Views :
              /\ Shown(o, v) /\ v.ctx = view.ctx /\ v.joined = view.joined /\ v.session = view.session
              /\ v.stage = view.stage /\ v.retrying = view.retrying
              /\ ops[o].pc # "started" => v.busy = FALSE /\ v.gwCtx \in {view.gwCtx, None}
    <2> DEFINE v == Answering(view, gw, None, FALSE)
    <2>1. /\ v \in Views /\ v.ctx = view.ctx /\ v.joined = view.joined /\ v.session = view.session
          /\ v.stage = view.stage /\ v.retrying = view.retrying /\ v.busy = FALSE /\ v.gwCtx = None
      BY <1>1 DEF Answering, Views
    <2>2. Shown(o, v)
      BY <1>4
    <2> HIDE DEF v
    <2> QED  BY <2>1, <2>2
  <1>5. CASE ops[o].pc # "started" /\ Shown(o, Idle(view))
    <2> DEFINE v == Idle(view)
    <2>1. /\ v \in Views /\ v.ctx = view.ctx /\ v.joined = view.joined /\ v.session = view.session
          /\ v.stage = view.stage /\ v.retrying = view.retrying /\ v.busy = FALSE /\ v.gwCtx = view.gwCtx
      BY <1>1 DEF Idle, Views
    <2>2. Shown(o, v)
      BY <1>5
    <2> HIDE DEF v
    <2> QED  BY <1>2, <1>5, <2>1, <2>2
  <1>6. \/ ops[o].pc = "started"
        \/ /\ ops[o].pc # "started"
           /\ Shown(o, Idle(view)) \/ \E gw \in {"error", "closed"} : Shown(o, Answering(view, gw, None, FALSE))
    BY Zenon DEF StartAnswer, Answering
  <1> QED  BY <1>2, <1>3, <1>4, <1>5, <1>6

LEMMA TypesKept == ASSUME Types, JoinsName, [Next]_vars PROVE Types'
  <1> USE DEF uiVars, gatewayVars, roomVars, ghostVars
  <1>1. ASSUME NEW o \in Slots, NEW a, NEW w \in SUBSET Occupants, NextAction(o, a, w), a \in BOOLEAN
        PROVE  Types'
    <2>1. view' \in Views
      BY <1>1 DEF NextAction, Types, Views
    <2>2. ops' \in [Slots -> Ops]
      <3>1. CASE Offer = "join"
        <4>1. PICK force \in BOOLEAN, who \in w :
                LET takeover == view.joined /\ NeedsTakeover(view.ctx)
                    c == [dev |-> page.dev, mode |-> JoinMode(who, force \/ takeover)]
                IN Begin(o, "next", "joinWait", c, None)
          BY <1>1, <3>1 DEF NextAction
        <4> QED  BY <1>1, <4>1, BeginType DEF NextAction, Ready, JoinMode, Contexts, Types, Kinds, Places
      <3>2. CASE Begin(o, "next", "startWait", view.ctx, None) \/ Begin(o, "next", "sessionWait", None, None)
        BY <3>2, BeginType DEF Types, Views, Kinds, Places
      <3> QED  BY <1>1, <3>1, <3>2 DEF NextAction
    <2> QED  BY <1>1, <2>1, <2>2 DEF NextAction, Types
  <1>2. ASSUME NEW o \in Slots, NEW v \in Views, v.ctx = view.ctx, Reconnect(o, v), page.dev # None
        PROVE  Types'
    <2> DEFINE b == ~(~Matches /\ page.dev = Partner /\ stored = None)
    <2>0. view' = Resetting(v, b)
      BY <1>2, Zenon DEF Reconnect, Resetting
    <2>1. view' \in Views
      <3>1. b \in BOOLEAN
        BY Zenon
      <3> HIDE DEF b
      <3> QED  BY <2>0, <3>1, ResettingIs
    <2>2. ops' \in [Slots -> Ops] /\ gateway' \in Targets \cup Session \cup {None} /\ claim' \in Slots \cup {None}
      BY <1>2, BeginType DEF Reconnect, Types, Views, Kinds, Places, Claims
    <2> QED  BY <1>2, <2>1, <2>2 DEF Reconnect, Types
  <1>3. ASSUME NEW o \in Slots, PressNext(o) PROVE Types'
    BY <1>1, <1>3 DEF PressNext, Types, Views
  <1>4. ASSUME NEW o \in Slots, AutoConnect(o) PROVE Types'
    BY <1>1, <1>4 DEF AutoConnect
  <1>5. ASSUME NEW o \in Slots, PressReconnect(o) PROVE Types'
    BY <1>2, <1>5 DEF PressReconnect, Ready, Types
  <1>6. ASSUME NEW o \in Slots, RecoveryFires(o) PROVE Types'
    <2>1. [view EXCEPT !.retrying = TRUE] \in Views /\ [view EXCEPT !.retrying = TRUE].ctx = view.ctx
      BY DEF Types, Views
    <2> QED  BY <1>2, <1>6, <2>1 DEF RecoveryFires, TimerArmed, Ready
  <1>7. ASSUME NEW o \in Slots, Stop(o) PROVE Types'
    <2>1. \/ view' = FreshView(None) /\ page' = [page EXCEPT !.dev = None]
          \/ view' = Stopping(view, TRUE, FALSE) /\ page' = page
      BY <1>7, Zenon DEF Stop, Stopping
    <2>4. FreshView(None) \in Views /\ Stopping(view, TRUE, FALSE) \in Views
      BY FreshType, StoppingIs DEF Types
    <2>6. view' \in Views /\ page' \in [n : Nat, dev : Targets \cup {None}]
      BY <2>1, <2>4 DEF Types
    <2>2. ops' \in [Slots -> Ops]
      BY <1>7, BeginType DEF Stop, Kinds, Places
    <2>3. release' \in Releases \cup {None} /\ gateway' \in Targets \cup Session \cup {None} /\ claim' \in Slots \cup {None}
      BY <1>7, LeaveRoomType DEF Stop, Claims, Types
    <2> QED  BY <1>7, <2>6, <2>2, <2>3 DEF Stop, Types
  <1>8. ASSUME NEW o \in Slots, JoinAwaited(o) PROVE Types'
    BY <1>8, AtType DEF JoinAwaited, Places, Types
  <1>9. ASSUME NEW o \in Slots, JoinSend(o) PROVE Types'
    BY <1>9, AtType, EndedType DEF JoinSend, Places, Types
  <1>10. ASSUME NEW o \in Slots, JoinServed(o) PROVE Types'
    BY <1>10, AtType DEF JoinServed, Places, Types
  <1>11. ASSUME NEW o \in Slots, LateAnswer(o), ops[o].ctx # None PROVE Types'
    <2>1. ops[o].ctx.dev \in Targets
      BY <1>11 DEF Types, Ops, Contexts
    <2> QED  BY <1>11, <2>1, AtType, ReleasingType DEF LateAnswer, Places, Types
  <1>12. ASSUME NEW o \in Slots, JoinAnswer(o), ops[o].ctx # None PROVE Types'
    <2> DEFINE j == ops[o].pc = "joined"
               v == Joining(view, ops[o].ctx, j, FALSE)
    <2>1. ops[o].ctx.dev \in Targets
      BY <1>12 DEF Types, Ops, Contexts
    <2>2. v \in Views /\ [v EXCEPT !.busy = TRUE] \in Views
      <3>1. v \in Views
        BY JoiningIs DEF Types, Ops
      <3> HIDE DEF v
      <3> QED  BY <3>1 DEF Views
    <2>3. view' \in Views
      <3>1. Shown(o, v) \/ Shown(o, [v EXCEPT !.busy = TRUE])
        BY <1>12, Zenon DEF JoinAnswer, Joining
      <3> QED  BY <3>1, <2>2, ShownType
    <2>4. ASSUME Restarts(o) PROVE ops' \in [Slots -> Ops]
      <3>1. ops[o].was \in Contexts \cup {None} /\ "startSent" \in Places
        BY DEF Types, Ops, Places
      <3>2. Moves(o, "startSent", ops[o].was, None, ops[o].ctx.dev)
        BY <2>4, RestartsMoves
      <3> QED  BY <2>1, <3>1, <3>2, MovesIs
    <2>5. ops' \in [Slots -> Ops]
      <3>1. At(o, "startWait") \/ Restarts(o) \/ Ended(o)
        BY <1>12, Zenon DEF JoinAnswer, Restarts
      <3> QED  BY <2>4, <3>1, AtType, EndedType DEF Places
    <2> QED  BY <1>12, <2>1, <2>3, <2>5 DEF JoinAnswer, Claims, Settled, Types
  <1>13. ASSUME NEW o \in Slots, StartSend(o) PROVE Types'
    <2>1. view' \in Views
      BY <1>13 DEF StartSend, Idle, Types, Views
    <2>2. ops' \in [Slots -> Ops]
      BY <1>13, GoesOnMoves, EndedType DEF StartSend, GoesOnTo, Types, Places
    <2> QED  BY <1>13, <2>1, <2>2 DEF StartSend, Claims, Types
  <1>14. ASSUME NEW o \in Slots, StartServed(o) PROVE Types'
    <2>1. ops' \in [Slots -> Ops]
      BY <1>14, AtType DEF StartServed, Places
    <2>2. gateway' \in Targets \cup Session \cup {None}
      BY <1>14 DEF StartServed, Types, Ops
    <2> QED  BY <1>14, <2>1, <2>2 DEF StartServed, Types
  <1>15. ASSUME NEW o \in Slots, AssistanceEnds(o) PROVE Types'
    BY <1>15, EndedType, FreshType DEF AssistanceEnds, Types
  <1>16. ASSUME NEW o \in Slots, StartAnswer(o) PROVE Types'
    <2>1. view' \in Views
      BY <1>16, AnswerIs, ShownType
    <2>2. ops' \in [Slots -> Ops]
      BY <1>16, AnswerIs, EndedType, ResumesIs
    <2> QED  BY <1>16, <2>1, <2>2 DEF StartAnswer, Types
  <1>17. ASSUME NEW o \in Slots, SessionCreated(o) PROVE Types'
    <2>1. CASE Active(o)
      <3>1. PICK s \in Session :
              /\ ops' = [ops EXCEPT ![o].pc = "sessionStarting", ![o].room = s]
              /\ open' = (open \ {view.session}) \cup {s}
              /\ Shown(o, [view EXCEPT !.session = s, !.stage = "starting"])
        BY <1>17, <2>1 DEF SessionCreated
      <3>2. [view EXCEPT !.session = s, !.stage = "starting"] \in Views
        BY DEF Types, Views
      <3>3. view' \in Views
        BY <3>1, <3>2, ShownType
      <3>4. ops' \in [Slots -> Ops]
        BY <3>1, GoesOnMoves DEF GoesOnTo, Places
      <3> QED  BY <1>17, <3>1, <3>3, <3>4 DEF SessionCreated, Types
    <2>2. CASE ~Active(o)
      BY <1>17, <2>2, EndedType DEF SessionCreated, Types
    <2> QED  BY <2>1, <2>2
  <1>18. ASSUME NEW o \in Slots, SessionStarted(o) PROVE Types'
    <2>1. Idle(view) \in Views /\ Idle([view EXCEPT !.stage = "idle"]) \in Views
      BY DEF Idle, Types, Views
    <2>2. view' \in Views
      BY <1>18, <2>1, ShownType DEF SessionStarted
    <2> QED  BY <1>18, <2>2, EndedType DEF SessionStarted, Types
  <1>19. ASSUME NEW o \in Slots, StopServed(o) PROVE Types'
    <2>1. [view EXCEPT !.gwCtx = None, !.gw = "closed"] \in Views
      BY DEF Types, Views
    <2>2. view' \in Views
      BY <1>19, <2>1, ShownType DEF StopServed
    <2>3. ops' \in [Slots -> Ops]
      BY <1>19, AtType DEF StopServed, Places
    <2> QED  BY <1>19, <2>2, <2>3 DEF StopServed, Types
  <1>20. ASSUME NEW o \in Slots, Stopped(o) PROVE Types'
    <2>1. ops' \in [Slots -> Ops]
      BY <1>20, EndedType DEF Stopped
    <2>2. CASE Unmount
      BY <1>20, <2>1, <2>2, FreshType, LeaveRoomType DEF Stopped, Unmount, Types
    <2>3. CASE Shown(o, Idle(view)) /\ UNCHANGED <<page, open, release, overtaken, gatewayVars>>
      <3>1. Idle(view) \in Views
        BY DEF Idle, Types, Views
      <3> QED  BY <1>20, <2>1, <2>3, <3>1, ShownType DEF Stopped, Types
    <2> QED  BY <1>20, <2>2, <2>3 DEF Stopped
  <1>21. ASSUME NEW o \in Slots, JoinLost(o) PROVE Types'
    <2>1. Idle(view) \in Views
      BY DEF Idle, Types, Views
    <2> QED  BY <1>21, <2>1, ShownType, EndedType DEF JoinLost, Settled, Types
  <1>22. ASSUME NEW d \in Owned, Open(d) PROVE Types'
    BY <1>22, FreshType DEF Open, Types, Targets
  <1>23. CASE Leave
    BY <1>23, FreshType, LeaveRoomType DEF Leave, Unmount, Types
  <1>24. CASE Release
    <2>1. CASE ReleaseStopServed \/ ReleaseClearServed
      BY <2>1 DEF ReleaseStopServed, ReleaseClearServed, Types, Releases, Asked
    <2>2. CASE ReleaseSettled
      <3>1. view' \in Views
        BY <2>2 DEF ReleaseSettled, Types, Views
      <3>2. ASSUME NEW p \in Slots PROVE [ops[p] EXCEPT !.pc = "stopped"] \in Ops
        BY DEF Types, Ops, Places
      <3>3. ops' \in [Slots -> Ops]
        BY <2>2, <3>2, FreeType DEF ReleaseSettled, Types
      <3> QED  BY <2>2, <3>1, <3>3 DEF ReleaseSettled, Types
    <2> QED  BY <1>24, <2>1, <2>2 DEF Release
  <1>25. CASE ReleaseRequestLost
    BY <1>25 DEF ReleaseRequestLost, Types, Releases, Asked
  <1>26. CASE Assistance \/ AssistGoesOn
    <2>1. CASE AssistAnswer
      <3>1. FreshView([dev |-> Partner, mode |-> "plain"]) \in Views
        BY FreshType DEF Contexts, Targets
      <3> QED  BY <2>1, <3>1, LeaveRoomType DEF AssistAnswer, Types, Targets
    <2> QED  BY <1>26, <2>1 DEF Assistance, AssistGoesOn, AssistCall, AssistAwaited, AssistSend, AssistServed,
                                AssistCancelled, Types
  <1>27. CASE HealthyFires \/ SessionConnects \/ SessionBreaks \/ SessionFails \/ StatusPolled
    <2>1. CASE HealthyFires
      <3>1. [view EXCEPT !.retrying = FALSE] \in Views
        BY DEF Types, Views
      <3> QED  BY <2>1, <3>1 DEF HealthyFires, Types
    <2>2. CASE StatusPolled
      BY <2>2 DEF StatusPolled, Types, Views
    <2>3. ASSUME NEW stage \in {"connected", "broken", "failed"}, SessionChanges(stage, view),
                 open' \subseteq open
          PROVE  Types'
      BY <2>3 DEF SessionChanges, Types, Views
    <2> QED  BY <1>27, <2>1, <2>2, <2>3 DEF SessionConnects, SessionBreaks, SessionFails
  <1>28. CASE GatewayDrops \/ UNCHANGED vars
    BY <1>28 DEF GatewayDrops, vars, Types
  <1> QED
    BY <1>3, <1>4, <1>5, <1>6, <1>7, <1>8, <1>9, <1>10, <1>11, <1>12, <1>13, <1>14, <1>15, <1>16,
       <1>17, <1>18, <1>19, <1>20, <1>21, <1>22, <1>23, <1>24, <1>25, <1>26, <1>27, <1>28
       DEF Next, GoesOn, Event, Handler, Answers, JoinsName, LateAnswer, JoinAnswer, Asking
-----------------------------------------------------------------------------
(* Handlers in flight.                                                       *)

\* What a step may do to the page and to a handler.
PageKeeps == page' = page \/ (page'.n = page.n /\ page'.dev = None) \/ page'.n = page.n + 1
Goes(p)   == /\ ops'[p].n = ops[p].n /\ ops'[p].ctx \in {ops[p].ctx, ops[p].was, None}
             /\ ops'[p].was \in {ops[p].was, None}
             /\ ops'[p].pc \in Asking => ops[p].pc \in Asking /\ ops'[p].ctx = ops[p].ctx
Begins(p) == /\ ops'[p].n = page.n /\ (ops'[p].ctx # None => ops'[p].ctx.dev = page.dev)
             /\ ops'[p].was # None => ops'[p].was.dev = page.dev
             /\ ops'[p].pc \in Asking => ops'[p].ctx # None
OpsKeep   == \A p \in Slots : ops'[p] = Free \/ Goes(p) \/ Begins(p)

LEMMA AtIs ==
  ASSUME Types, NEW o \in Slots, NEW pc, At(o, pc)
  PROVE  /\ \A p \in Slots \ {o} : ops'[p] = ops[p]
         /\ ops'[o].pc = pc /\ ops'[o].kind = ops[o].kind /\ ops'[o].n = ops[o].n
         /\ ops'[o].ctx = ops[o].ctx /\ ops'[o].was = ops[o].was /\ ops'[o].room = ops[o].room
  BY DEF Types, Ops, At

LEMMA EndedIs ==
  ASSUME Types, NEW o \in Slots, Ended(o)
  PROVE  ops'[o] = Free /\ \A p \in Slots \ {o} : ops'[p] = ops[p]
  BY DEF Types, Ended

LEMMA BeginIs ==
  ASSUME Types, NEW o \in Slots, NEW kind, NEW pc, NEW c, NEW r, Begin(o, kind, pc, c, r)
  PROVE  /\ ops[o] = Free /\ \A p \in Slots \ {o} : ops'[p] = ops[p]
         /\ ops'[o].pc = pc /\ ops'[o].kind = kind /\ ops'[o].n = page.n
         /\ ops'[o].ctx = c /\ ops'[o].room = r /\ ops'[o].was \in {view.ctx, None}
  BY DEF Types, Begin

\* A handler of the page shown was one before, of the same page.
LEMMA ActiveBefore ==
  ASSUME Types, Types', Handlers, PageKeeps, NEW o \in Slots, ops'[o].n = ops[o].n, Active(o)'
  PROVE  Active(o) /\ page' = page
  <1>1. page.n \in Nat /\ page'.n \in Nat /\ ops[o].n \in Nat /\ ops[o].n <= page.n
    BY DEF Types, Ops, Handlers
  <1>2. page'.dev # None /\ ops[o].n = page'.n
    BY DEF Active
  <1>3. page' = page
    BY <1>1, <1>2 DEF PageKeeps
  <1> QED  BY <1>2, <1>3 DEF Active

LEMMA HandlersKept ==
  ASSUME Types, Types', Pages', Handlers, JoinsName, PageKeeps, OpsKeep
  PROVE  Handlers' /\ JoinsName'
  <1> SUFFICES ASSUME NEW p \in Slots
               PROVE  /\ ops'[p].n <= page'.n
                      /\ Active(p)' /\ ops'[p].ctx # None => ops'[p].ctx.dev = page'.dev
                      /\ Active(p)' /\ ops'[p].was # None => ops'[p].was.dev = page'.dev
                      /\ ops'[p].pc \in Asking => ops'[p].ctx # None
    BY DEF Handlers, JoinsName
  <1>1. page.n <= page'.n /\ page.n \in Nat /\ page'.n \in Nat
    BY DEF PageKeeps, Types
  <1>2. CASE ops'[p] = Free
    BY <1>1, <1>2 DEF Free, Asking
  <1>3. CASE Goes(p)
    <2>1. ops'[p].n = ops[p].n /\ ops[p].n \in Nat /\ ops[p].n <= page.n
      BY <1>3 DEF Goes, Handlers, Types, Ops
    <2>2. ASSUME Active(p)' PROVE Active(p) /\ page' = page
      BY <2>1, <2>2, ActiveBefore
    <2>3. ops'[p].pc \in Asking => ops'[p].ctx # None
      BY <1>3 DEF Goes, JoinsName
    <2>4. /\ Active(p)' /\ ops'[p].ctx # None => ops'[p].ctx.dev = page'.dev
          /\ Active(p)' /\ ops'[p].was # None => ops'[p].was.dev = page'.dev
      BY <1>3, <2>2 DEF Goes, Handlers
    <2> QED  BY <1>1, <2>1, <2>3, <2>4
  <1>4. CASE Begins(p)
    BY <1>1, <1>4 DEF Begins, PageKeeps, Active
  <1> QED  BY <1>2, <1>3, <1>4 DEF OpsKeep

\* A view of the page that is shown is of its own room.
LEMMA PagesKept ==
  ASSUME Types, Types', Pages,
         \/ page' = page /\ (page.dev = None => view'.ctx = view.ctx)
            /\ (view'.ctx # view.ctx /\ view'.ctx # None => view'.ctx.dev = page.dev)
         \/ page'.dev = None /\ page'.n = page.n /\ view'.ctx = None
         \/ page'.n = page.n + 1 /\ (view'.ctx # None => view'.ctx.dev = page'.dev)
            /\ page'.dev # None
  PROVE  Pages'
  BY DEF Pages, Types

LEMMA ShownKeeps ==
  ASSUME Types, NEW o \in Slots, NEW v \in Views, Shown(o, v)
  PROVE  \/ ~Active(o) /\ view' = view
         \/ /\ Active(o)
            /\ view'.ctx = v.ctx /\ view'.joined = v.joined /\ view'.gw = v.gw
            /\ view'.gwCtx = v.gwCtx /\ view'.session = v.session /\ view'.stage = v.stage
            /\ view'.busy = v.busy /\ (view'.retrying => v.retrying)
  BY DEF Shown, Rendered, Views

-----------------------------------------------------------------------------
(* Every step keeps pages, handlers and rooms together.                      *)

\* The rooms the service holds are known to somebody who will give them up, or lost.
Held(d) ==
  \/ d \in lost \cup overtaken
  \/ view.ctx # None /\ view.ctx.dev = d
  \/ release # None /\ release.dev = d /\ release.clear = "sent"
  \/ \E o \in Slots : ops[o].pc = "joined" /\ ops[o].ctx.dev = d
  \/ assist = "joined" /\ d = Partner
RoomsAreHeld == \A d \in rooms : Held(d)

RoomInv == Types /\ Pages /\ Handlers /\ JoinsName /\ RoomsAreHeld

\* What is released is held by the release, or overtaken.
LEMMA ReleasingHolds ==
  ASSUME Types, NEW d \in Targets, Releasing(d)
  PROVE  /\ overtaken \subseteq overtaken'
         /\ d \in overtaken' \/ (release' # None /\ release'.dev = d /\ release'.clear = "sent")
         /\ release # None => release' = release
  <1>1. NewRelease(d) # None
    BY DEF NewRelease, Releases, Asked
  <1> QED  BY <1>1 DEF Releasing, NewRelease

LEMMA LeaveRoomHolds ==
  ASSUME Types, LeaveRoom
  PROVE  /\ overtaken \subseteq overtaken'
         /\ view.ctx # None =>
              LET d == view.ctx.dev
              IN d \in overtaken' \/ (release' # None /\ release'.dev = d /\ release'.clear = "sent")
         /\ release # None => release' = release
  BY ReleasingHolds DEF LeaveRoom, Types, Views, Contexts

\* Who held a room still does, or somebody else, or the room is gone.
LEMMA RoomsKept ==
  ASSUME RoomsAreHeld,
         lost \subseteq lost', overtaken \subseteq overtaken',
         \A d \in rooms' :
           /\ d \in rooms \/ Held(d)'
           /\ view.ctx # None /\ view.ctx.dev = d => view'.ctx = view.ctx \/ Held(d)'
           /\ release # None /\ release.dev = d /\ release.clear = "sent" =>
                release' = release \/ Held(d)'
           /\ \A p \in Slots : ops[p].pc = "joined" /\ ops[p].ctx.dev = d =>
                (ops'[p].pc = "joined" /\ ops'[p].ctx = ops[p].ctx) \/ Held(d)'
           /\ assist = "joined" /\ d = Partner => assist' = "joined" \/ Held(d)'
  PROVE  RoomsAreHeld'
  <1> SUFFICES ASSUME NEW d \in rooms', d \in rooms PROVE Held(d)'
    BY DEF RoomsAreHeld
  <1>1. Held(d)
    BY DEF RoomsAreHeld
  <1>2. CASE d \in lost \cup overtaken
    BY <1>2 DEF Held
  <1>3. CASE view.ctx # None /\ view.ctx.dev = d
    BY <1>3 DEF Held
  <1>4. CASE release # None /\ release.dev = d /\ release.clear = "sent"
    BY <1>4 DEF Held
  <1>5. CASE \E o \in Slots : ops[o].pc = "joined" /\ ops[o].ctx.dev = d
    BY <1>5 DEF Held
  <1>6. CASE assist = "joined" /\ d = Partner
    BY <1>6 DEF Held
  <1> QED  BY <1>1, <1>2, <1>3, <1>4, <1>5, <1>6 DEF Held

\* A step that takes no room, and takes none from who holds it.
LEMMA PlainKeeps ==
  ASSUME RoomInv, Types', page' = page, view'.ctx = view.ctx, OpsKeep,
         UNCHANGED <<rooms, overtaken, lost>>,
         release' = release \/ /\ release # None /\ release' # None
                               /\ release'.dev = release.dev /\ release'.clear = release.clear,
         \A p \in Slots : ops[p].pc = "joined" => ops'[p] = ops[p],
         assist = "joined" => assist' = "joined"
  PROVE  RoomInv'
  <1>1. PageKeeps /\ Pages'
    BY DEF PageKeeps, Pages, RoomInv
  <1>2. RoomsAreHeld'
    BY RoomsKept DEF RoomInv, Held
  <1> QED  BY <1>1, <1>2, HandlersKept DEF RoomInv

\* A step of handler o alone.
LEMMA OneGoes ==
  ASSUME Types, NEW o \in Slots, \A p \in Slots \ {o} : ops'[p] = ops[p],
         ops'[o] = Free \/ Goes(o) \/ Begins(o)
  PROVE  /\ OpsKeep
         /\ ops[o].pc # "joined" => \A p \in Slots : ops[p].pc = "joined" => ops'[p] = ops[p]
  BY DEF OpsKeep, Goes

\* A page's room that is left is released.
LEMMA LeavingKeeps ==
  ASSUME Types, RoomsAreHeld, LeaveRoom, UNCHANGED lost,
         \A d \in rooms' : d \in rooms \/ Held(d)',
         \A p \in Slots : ops[p].pc = "joined" => ops'[p] = ops[p],
         assist = "joined" => assist' = "joined" \/ (view'.ctx # None /\ view'.ctx.dev = Partner)
  PROVE  RoomsAreHeld'
  <1>1. overtaken \subseteq overtaken' /\ (release # None => release' = release)
    BY LeaveRoomHolds
  <1>2. ASSUME NEW d, view.ctx # None, view.ctx.dev = d PROVE Held(d)'
    <2>1. d \in overtaken' \/ (release' # None /\ release'.dev = d /\ release'.clear = "sent")
      BY <1>2, LeaveRoomHolds
    <2> QED  BY <2>1 DEF Held
  <1>3. ASSUME NEW d, view'.ctx # None, view'.ctx.dev = d PROVE Held(d)'
    BY <1>3 DEF Held
  <1> QED  BY <1>1, <1>2, <1>3, RoomsKept

LEMMA RoomInvKept == ASSUME RoomInv, [Next]_vars PROVE RoomInv'
  <1> USE DEF uiVars, gatewayVars, roomVars, ghostVars
  <1>0. Types /\ Types' /\ JoinsName /\ Pages
    BY TypesKept DEF RoomInv
  <1>1. ASSUME NEW o \in Slots, JoinAwaited(o) PROVE RoomInv'
    <2>1. PICK pc \in {"joinWait2", "startWait2", "sessionWait2"} :
            At(o, pc) /\ (pc = "joinWait2" => ops[o].pc = "joinWait")
      BY <1>1 DEF JoinAwaited
    <2>2. Goes(o) /\ ops[o].pc # "joined"
      <3>1. ops[o].pc \in {"joinWait", "startWait", "sessionWait"}
        BY <1>1 DEF JoinAwaited
      <3>2. ops'[o].pc = pc /\ ops'[o].n = ops[o].n /\ ops'[o].ctx = ops[o].ctx /\ ops'[o].was = ops[o].was
        BY <1>0, <2>1, AtIs
      <3> QED  BY <2>1, <3>1, <3>2 DEF Goes, Asking
    <2>3. OpsKeep /\ \A p \in Slots : ops[p].pc = "joined" => ops'[p] = ops[p]
      <3>1. \A p \in Slots \ {o} : ops'[p] = ops[p]
        BY <1>0, <2>1, AtIs
      <3> QED  BY <1>0, <2>2, <3>1, OneGoes
    <2> QED  BY <1>0, <1>1, <2>3, PlainKeeps DEF JoinAwaited
  <1>2. ASSUME NEW o \in Slots, JoinSend(o) PROVE RoomInv'
    <2>1. (ops'[o] = Free \/ Goes(o)) /\ ops[o].pc # "joined" /\ \A p \in Slots \ {o} : ops'[p] = ops[p]
      BY <1>0, <1>2, AtIs, EndedIs DEF JoinSend, Awaited, Goes, Asking
    <2> QED  BY <1>0, <1>2, <2>1, OneGoes, PlainKeeps DEF JoinSend
  <1>3. ASSUME NEW o \in Slots, StartSend(o) \/ StartServed(o) \/ StartAnswer(o) \/ SessionCreated(o)
                                  \/ SessionStarted(o) \/ StopServed(o)
        PROVE  RoomInv'
    <2>1. /\ ops'[o] = Free \/ Goes(o)
          /\ ops[o].pc # "joined" /\ \A p \in Slots \ {o} : ops'[p] = ops[p]
      <3>1. CASE StartSend(o)
        <4>1. CASE ops' = [ops EXCEPT ![o].pc = "startSent", ![o].room = stored] /\ stored # None
          <5>1. stored \in Targets \cup Session /\ "startSent" \in Places /\ ops[o].pc = "startWait2"
            BY <1>0, <3>1, <4>1 DEF Types, Places, StartSend, Awaited
          <5>2. GoesOnTo(o, "startSent", stored)
            BY <4>1 DEF GoesOnTo
          <5> QED  BY <1>0, <5>1, <5>2, GoesOnMoves DEF Goes, Asking
        <4>2. CASE Ended(o)
          BY <1>0, <3>1, <4>2, EndedIs DEF StartSend, Awaited
        <4> QED  BY <3>1, <4>1, <4>2 DEF StartSend
      <3>2. CASE StartServed(o) \/ StartAnswer(o)
        <4>1. CASE StartServed(o)
          <5>1. PICK pc \in {"started", "startFailed", "unauthorized", "overruled", "startLost"} : At(o, pc)
            BY <4>1 DEF StartServed
          <5>2. ops[o].pc = "startSent"
            BY <4>1 DEF StartServed
          <5> QED  BY <1>0, <5>1, <5>2, AtIs DEF Goes, Asking
        <4>2. CASE StartAnswer(o)
          <5>1. ops[o].pc # "joined" /\ (Resumes(o) \/ Ended(o))
            BY <1>0, <4>2, AnswerIs DEF StartAnswer
          <5> QED  BY <1>0, <5>1, ResumesIs, EndedIs DEF Goes, Asking
        <4> QED  BY <3>2, <4>1, <4>2
      <3>3. CASE SessionCreated(o)
        <4>1. ASSUME NEW s \in Session, ops' = [ops EXCEPT ![o].pc = "sessionStarting", ![o].room = s]
              PROVE  Goes(o) /\ \A p \in Slots \ {o} : ops'[p] = ops[p]
          <5>1. s \in Targets \cup Session /\ "sessionStarting" \in Places
            BY DEF Places
          <5>2. GoesOnTo(o, "sessionStarting", s)
            BY <4>1 DEF GoesOnTo
          <5>3. ops[o].pc = "sessionWait2"
            BY <3>3 DEF SessionCreated, Awaited
          <5> QED  BY <1>0, <5>1, <5>2, <5>3, GoesOnMoves DEF Goes, Asking
        <4> QED  BY <1>0, <3>3, <4>1, EndedIs DEF SessionCreated, Awaited
      <3>4. CASE SessionStarted(o)
        BY <1>0, <3>4, EndedIs DEF SessionStarted
      <3>5. CASE StopServed(o)
        <4>1. At(o, "stopped") /\ ops[o].pc = "stopSent"
          BY <3>5 DEF StopServed
        <4> QED  BY <1>0, <4>1, AtIs DEF Goes, Asking
      <3> QED  BY <1>3, <3>1, <3>2, <3>3, <3>4, <3>5
    <2>2. view'.ctx = view.ctx
      <3>1. CASE StartSend(o)
        BY <1>0, <3>1 DEF StartSend, Idle, Types, Views
      <3>2. CASE StartServed(o)
        BY <3>2 DEF StartServed
      <3>3. CASE StartAnswer(o)
        <4>1. PICK v \in Views : Shown(o, v) /\ v.ctx = view.ctx
          BY <1>0, <3>3, AnswerIs
        <4> QED  BY <1>0, <4>1, ShownKeeps
      <3>4. CASE SessionCreated(o)
        <4>1. ASSUME NEW s \in Session
              PROVE  /\ [view EXCEPT !.session = s, !.stage = "starting"] \in Views
                     /\ [view EXCEPT !.session = s, !.stage = "starting"].ctx = view.ctx
          BY <1>0 DEF Types, Views
        <4>2. CASE view' = view
          BY <4>2
        <4>3. ASSUME NEW s \in Session, Shown(o, [view EXCEPT !.session = s, !.stage = "starting"])
              PROVE  view'.ctx = view.ctx
          BY <1>0, <4>1, <4>3, ShownKeeps
        <4> QED  BY <3>4, <4>2, <4>3 DEF SessionCreated
      <3>5. CASE SessionStarted(o) \/ StopServed(o)
        <4>1. ASSUME NEW v \in Views, v.ctx = view.ctx
              PROVE  Idle(v) \in Views /\ Idle(v).ctx = view.ctx
          BY <4>1 DEF Idle, Views
        <4>2. /\ [view EXCEPT !.stage = "idle"] \in Views /\ [view EXCEPT !.stage = "idle"].ctx = view.ctx
              /\ [view EXCEPT !.gwCtx = None, !.gw = "closed"] \in Views
              /\ [view EXCEPT !.gwCtx = None, !.gw = "closed"].ctx = view.ctx
          BY <1>0 DEF Types, Views
        <4>3. view \in Views
          BY <1>0 DEF Types
        <4>4. ASSUME NEW v \in Views, v.ctx = view.ctx, Shown(o, v)
              PROVE  view'.ctx = view.ctx
          BY <1>0, <4>4, ShownKeeps
        <4>5. CASE SessionStarted(o)
          <5>1. Shown(o, Idle(view)) \/ view' = Idle([view EXCEPT !.stage = "idle"])
            BY <4>5 DEF SessionStarted
          <5>2. Idle(view) \in Views /\ Idle(view).ctx = view.ctx
            BY <4>1, <4>3
          <5>3. Idle([view EXCEPT !.stage = "idle"]).ctx = view.ctx
            BY <4>1, <4>2
          <5> QED  BY <4>4, <5>1, <5>2, <5>3
        <4>6. CASE StopServed(o)
          <5>1. Shown(o, [view EXCEPT !.gwCtx = None, !.gw = "closed"])
            BY <4>6 DEF StopServed
          <5> QED  BY <4>2, <4>4, <5>1
        <4> QED  BY <3>5, <4>5, <4>6
      <3> QED  BY <1>3, <3>1, <3>2, <3>3, <3>4, <3>5
    <2>3. UNCHANGED <<page, release, rooms, assist, overtaken, lost>>
      BY <1>3 DEF StartSend, StartServed, StartAnswer, SessionCreated, SessionStarted, StopServed
    <2> QED  BY <1>0, <2>1, <2>2, <2>3, OneGoes, PlainKeeps
  <1>4. ASSUME NEW o \in Slots, NEW kind, NEW pc, NEW c \in Contexts \cup {None}, NEW r,
               Begin(o, kind, pc, c, r), c # None => c.dev = page.dev,
               pc \in Asking => c # None
        PROVE  /\ OpsKeep /\ \A p \in Slots : ops[p].pc = "joined" => ops'[p] = ops[p]
    <2>1. /\ ops[o] = Free /\ \A p \in Slots \ {o} : ops'[p] = ops[p]
          /\ ops'[o].pc = pc /\ ops'[o].n = page.n /\ ops'[o].ctx = c /\ ops'[o].was \in {view.ctx, None}
      BY <1>0, <1>4, BeginIs
    <2>2. Begins(o) /\ ops[o].pc # "joined"
      BY <1>0, <1>4, <2>1 DEF Begins, Free, Pages
    <2> QED  BY <1>0, <2>1, <2>2, OneGoes
  <1>5. view.ctx \in Contexts \cup {None} /\ (view.ctx # None => view.ctx.dev = page.dev)
    BY <1>0 DEF Types, Views, Pages
  <1>6. ASSUME NEW o \in Slots, NEW a, NEW w, NextAction(o, a, w) PROVE RoomInv'
    <2>1. view'.ctx = view.ctx /\ UNCHANGED <<page, release, rooms, assist, overtaken, lost>>
      BY <1>0, <1>6 DEF NextAction, Types, Views
    <2>2. /\ OpsKeep /\ \A p \in Slots : ops[p].pc = "joined" => ops'[p] = ops[p]
      <3>1. CASE Offer = "join"
        <4>1. PICK mode \in {"plain", "occupied", "forced"} :
                Begin(o, "next", "joinWait", [dev |-> page.dev, mode |-> mode], None)
          BY <1>6, <3>1 DEF NextAction, JoinMode
        <4>2. [dev |-> page.dev, mode |-> mode] \in Contexts
          BY <1>0, <1>6 DEF NextAction, Ready, Types, Contexts
        <4> QED  BY <1>4, <4>1, <4>2
      <3>2. CASE \/ Begin(o, "next", "startWait", view.ctx, None)
                 \/ Begin(o, "next", "sessionWait", None, None)
        BY <1>4, <1>5, <3>2 DEF Asking
      <3> QED  BY <1>6, <3>1, <3>2 DEF NextAction
    <2> QED  BY <1>0, <2>1, <2>2, PlainKeeps
  <1>7. ASSUME NEW o \in Slots, NEW v \in Views, v.ctx = view.ctx, Reconnect(o, v)
        PROVE  RoomInv'
    <2> DEFINE b == ~(~Matches /\ page.dev = Partner /\ stored = None)
    <2>1. view'.ctx = view.ctx
      <3>1. view' = Resetting(v, b)
        BY <1>7, Zenon DEF Reconnect, Resetting
      <3>2. b \in BOOLEAN
        BY Zenon
      <3> HIDE DEF b
      <3> QED  BY <1>7, <3>1, <3>2, ResettingIs
    <2>2. UNCHANGED <<page, release, rooms, assist, overtaken, lost>>
      BY <1>7 DEF Reconnect
    <2>3. /\ OpsKeep /\ \A p \in Slots : ops[p].pc = "joined" => ops'[p] = ops[p]
      <3>1. CASE \E pc \in {"sessionWait", "startSent"}, c \in {None, view.ctx}, r \in {None, stored} :
                    Begin(o, "reconnect", pc, c, r)
        BY <1>4, <1>5, <3>1 DEF Asking
      <3>2. CASE \E c \in Contexts : c.dev = page.dev /\ Begin(o, "reconnect", "joinWait", c, None)
        BY <1>4, <3>2 DEF Asking
      <3>3. CASE UNCHANGED ops
        BY <1>0, <3>3 DEF OpsKeep, Goes
      <3> QED  BY <1>7, <3>1, <3>2, <3>3 DEF Reconnect
    <2> QED  BY <1>0, <2>1, <2>2, <2>3, PlainKeeps
  <1>8. ASSUME NEW o \in Slots, Stop(o) PROVE RoomInv'
    <2>1. \/ view' = FreshView(None) /\ page' = [page EXCEPT !.dev = None]
          \/ view' = Stopping(view, TRUE, FALSE) /\ page' = page
      BY <1>8, Zenon DEF Stop, Stopping
    <2>2. view'.ctx = None /\ (page' = page \/ (page'.n = page.n /\ page'.dev = None))
      <3>1. Stopping(view, TRUE, FALSE).ctx = None
        BY <1>0, StoppingIs, Zenon DEF Types
      <3>2. FreshView(None).ctx = None
        BY DEF FreshView
      <3>3. page' = [page EXCEPT !.dev = None] => page'.n = page.n /\ page'.dev = None
        BY <1>0 DEF Types
      <3> QED  BY <2>1, <3>1, <3>2, <3>3
    <2>3. PageKeeps /\ Pages'
      BY <1>0, <2>2, PagesKept DEF PageKeeps
    <2>4. OpsKeep /\ \A p \in Slots : ops[p].pc = "joined" => ops'[p] = ops[p]
      <3>1. PICK kind \in {"stop", "return"}, pc \in {"stopSent", "stopping"} : Begin(o, kind, pc, None, None)
        BY <1>8 DEF Stop
      <3> QED  BY <1>4, <3>1 DEF Asking
    <2>5. RoomsAreHeld'
      <3>1. UNCHANGED <<rooms, assist, lost>>
        BY <1>8 DEF Stop
      <3>4. RoomsAreHeld
        BY DEF RoomInv
      <3>2. CASE view.ctx = None
        BY <1>8, <2>4, <3>1, <3>2, <3>4, RoomsKept DEF Stop
      <3>3. CASE view.ctx # None
        <4>1. LeaveRoom
          BY <1>8, <3>3 DEF Stop
        <4>2. \A d \in rooms' : d \in rooms
          BY <3>1
        <4> QED  BY <1>0, <2>4, <3>1, <3>4, <4>1, <4>2, LeavingKeeps, Zenon
      <3> QED  BY <3>2, <3>3
    <2> QED  BY <1>0, <2>3, <2>4, <2>5, HandlersKept DEF RoomInv
  <1>9. RoomsAreHeld
    BY DEF RoomInv
  <1>10. ASSUME UNCHANGED ops
         PROVE  OpsKeep /\ \A p \in Slots : ops[p].pc = "joined" => ops'[p] = ops[p]
    BY <1>10 DEF OpsKeep, Goes
  <1>11. ASSUME Unmount, UNCHANGED <<rooms, assist, lost>>, OpsKeep,
                \A p \in Slots : ops[p].pc = "joined" => ops'[p] = ops[p]
         PROVE  RoomInv'
    <2>1. page'.n = page.n /\ page'.dev = None /\ view'.ctx = None
      BY <1>0, <1>11 DEF Unmount, FreshView, Types
    <2>2. PageKeeps /\ Pages'
      BY <1>0, <2>1, PagesKept DEF PageKeeps
    <2>3. RoomsAreHeld'
      <3>1. LeaveRoom /\ \A d \in rooms' : d \in rooms
        BY <1>11 DEF Unmount
      <3> QED  BY <1>0, <1>9, <1>11, <3>1, LeavingKeeps, Zenon
    <2> QED  BY <1>0, <1>11, <2>2, <2>3, HandlersKept DEF RoomInv
  <1>12. CASE Leave
    BY <1>10, <1>11, <1>12 DEF Leave
  <1>13. ASSUME NEW o \in Slots, Stopped(o) PROVE RoomInv'
    <2>1. ops'[o] = Free /\ (\A p \in Slots \ {o} : ops'[p] = ops[p]) /\ ops[o].pc # "joined"
      BY <1>0, <1>13, EndedIs DEF Stopped
    <2>2. OpsKeep /\ \A p \in Slots : ops[p].pc = "joined" => ops'[p] = ops[p]
      BY <1>0, <2>1, OneGoes
    <2>3. CASE Unmount
      BY <1>11, <1>13, <2>2, <2>3 DEF Stopped
    <2>4. CASE Shown(o, Idle(view)) /\ UNCHANGED <<page, open, release, overtaken, gatewayVars>>
      <3>1. view'.ctx = view.ctx
        BY <1>0, <2>4 DEF Shown, Rendered, Idle, Types, Views
      <3> QED  BY <1>0, <1>13, <2>2, <2>4, <3>1, PlainKeeps DEF Stopped
    <2> QED  BY <1>13, <2>3, <2>4 DEF Stopped
  <1>14. ASSUME NEW o \in Slots, JoinServed(o) PROVE RoomInv'
    <2>1. PICK pc \in {"joined", "refused"} : At(o, pc) /\ (pc = "joined" \/ rooms' = rooms)
      BY <1>14 DEF JoinServed
    <2>2. /\ ops'[o].pc = pc /\ ops'[o].n = ops[o].n /\ ops'[o].ctx = ops[o].ctx /\ ops'[o].was = ops[o].was
          /\ \A p \in Slots \ {o} : ops'[p] = ops[p]
      BY <1>0, <2>1, AtIs
    <2>3. ops[o].pc = "joinSent"
      BY <1>14 DEF JoinServed
    <2>4. Goes(o)
      BY <2>2, <2>3 DEF Goes, Asking
    <2>5. OpsKeep /\ \A p \in Slots : ops[p].pc = "joined" => ops'[p] = ops[p]
      BY <1>0, <2>2, <2>3, <2>4, OneGoes
    <2>6. UNCHANGED <<page, view, release, assist, overtaken, lost>> /\ rooms' \subseteq rooms \cup {ops[o].ctx.dev}
      BY <1>14 DEF JoinServed
    <2>7. \A d \in rooms' : d \in rooms \/ Held(d)'
      BY <2>1, <2>2, <2>6 DEF Held
    <2>8. PageKeeps /\ Pages'
      BY <1>0, <2>6 DEF PageKeeps, Pages
    <2>9. RoomsAreHeld'
      BY <1>9, <2>5, <2>6, <2>7, RoomsKept
    <2> QED  BY <1>0, <2>5, <2>8, <2>9, HandlersKept DEF RoomInv
  <1>15. ASSUME NEW o \in Slots, LateAnswer(o) PROVE RoomInv'
    <2>1. At(o, "lateRelease") /\ ops[o].pc \in {"joined", "refused"} /\ Releasing(ops[o].ctx.dev)
      BY <1>15 DEF LateAnswer
    <2>2. /\ ops'[o].pc = "lateRelease" /\ ops'[o].n = ops[o].n /\ ops'[o].ctx = ops[o].ctx /\ ops'[o].was = ops[o].was
          /\ \A p \in Slots \ {o} : ops'[p] = ops[p]
      BY <1>0, <2>1, AtIs
    <2>3. Goes(o)
      BY <2>1, <2>2 DEF Goes, Asking
    <2>4. OpsKeep
      BY <1>0, <2>2, <2>3, OneGoes
    <2>5. UNCHANGED <<page, view, rooms, assist, lost>>
      BY <1>15 DEF LateAnswer
    <2>6. ops[o].ctx.dev \in Targets
      BY <1>0, <2>1 DEF JoinsName, Asking, Types, Ops, Contexts
    <2>7. /\ overtaken \subseteq overtaken' /\ (release # None => release' = release)
          /\ \A d : d = ops[o].ctx.dev => Held(d)'
      <3>1. /\ overtaken \subseteq overtaken' /\ (release # None => release' = release)
            /\ \A d : d = ops[o].ctx.dev =>
                 d \in overtaken' \/ (release' # None /\ release'.dev = d /\ release'.clear = "sent")
        BY <1>0, <2>1, <2>6, ReleasingHolds
      <3> QED  BY <3>1 DEF Held
    <2>8. PageKeeps /\ Pages'
      BY <1>0, <2>5 DEF PageKeeps, Pages
    <2>9. RoomsAreHeld'
      BY <1>9, <2>2, <2>5, <2>7, RoomsKept
    <2> QED  BY <1>0, <2>4, <2>8, <2>9, HandlersKept DEF RoomInv
  <1>16. ASSUME NEW o \in Slots, JoinAnswer(o) PROVE RoomInv'
    <2> DEFINE j == ops[o].pc = "joined"
               v == Joining(view, ops[o].ctx, j, FALSE)
    <2>1. Active(o) /\ ops[o].pc \in {"joined", "refused"}
      BY <1>16 DEF JoinAnswer
    <2>2. ops[o].ctx \in Contexts /\ ops[o].ctx # None /\ ops[o].ctx.dev = page.dev
      BY <1>0, <2>1 DEF JoinsName, Asking, Types, Ops, RoomInv, Handlers
    <2>3. v \in Views /\ v.ctx = ops[o].ctx
      <3>1. view \in Views /\ ops[o].ctx \in Contexts \cup {None}
        BY <1>0, <2>2 DEF Types
      <3> QED  BY <3>1, JoinedIs, Zenon
    <2>4. view'.ctx = ops[o].ctx
      <3>1. Shown(o, v) \/ Shown(o, [v EXCEPT !.busy = TRUE])
        BY <1>16, Zenon DEF JoinAnswer, Joining
      <3> HIDE DEF v
      <3>2. [v EXCEPT !.busy = TRUE] \in Views /\ [v EXCEPT !.busy = TRUE].ctx = v.ctx
        BY <2>3 DEF Views
      <3>3. CASE Shown(o, v)
        BY <1>0, <2>1, <2>3, <3>3, ShownKeeps
      <3>4. CASE Shown(o, [v EXCEPT !.busy = TRUE])
        <4> DEFINE w == [v EXCEPT !.busy = TRUE]
        <4>1. w \in Views /\ w.ctx = ops[o].ctx /\ Shown(o, w)
          BY <2>3, <3>2, <3>4
        <4> HIDE DEF w
        <4> QED  BY <1>0, <2>1, <4>1, ShownKeeps
      <3> QED  BY <3>1, <3>3, <3>4
    <2>5. (ops'[o] = Free \/ Goes(o)) /\ \A p \in Slots \ {o} : ops'[p] = ops[p]
      <3>1. CASE At(o, "startWait")
        <4>1. /\ ops'[o].pc = "startWait" /\ ops'[o].n = ops[o].n /\ ops'[o].ctx = ops[o].ctx /\ ops'[o].was = ops[o].was
              /\ \A p \in Slots \ {o} : ops'[p] = ops[p]
          BY <1>0, <3>1, AtIs
        <4> QED  BY <4>1 DEF Goes, Asking
      <3>2. CASE Restarts(o)
        <4>1. /\ ops[o].ctx.dev \in Targets \cup Session /\ "startSent" \in Places
              /\ ops[o].was \in Contexts \cup {None}
          BY <1>0, <2>2 DEF Contexts, Places, Types, Ops
        <4>2. Moves(o, "startSent", ops[o].was, None, ops[o].ctx.dev)
          BY <1>0, <3>2, RestartsMoves
        <4> QED  BY <1>0, <4>1, <4>2, MovesIs DEF Goes, Asking
      <3>3. CASE Ended(o)
        BY <1>0, <3>3, EndedIs
      <3> QED  BY <1>16, <3>1, <3>2, <3>3 DEF JoinAnswer, Restarts
    <2>6. OpsKeep
      BY <1>0, <2>5, OneGoes
    <2>7. UNCHANGED <<page, release, rooms, assist, overtaken, lost>>
      BY <1>16 DEF JoinAnswer
    <2>8. PageKeeps /\ Pages'
      BY <1>0, <2>1, <2>2, <2>4, <2>7, PagesKept DEF PageKeeps, Active
    <2>9. RoomsAreHeld'
      <3>1. \A d : d = page.dev => Held(d)'
        BY <2>2, <2>4 DEF Held
      <3>2. view.ctx # None => view.ctx.dev = page.dev
        BY <1>0 DEF Pages
      <3> QED  BY <1>9, <2>2, <2>5, <2>7, <3>1, <3>2, RoomsKept
    <2> QED  BY <1>0, <2>6, <2>8, <2>9, HandlersKept DEF RoomInv
  <1>17. ASSUME NEW o \in Slots, JoinLost(o) PROVE RoomInv'
    <2>1. ops'[o] = Free /\ \A p \in Slots \ {o} : ops'[p] = ops[p]
      BY <1>0, <1>17, EndedIs DEF JoinLost
    <2>2. OpsKeep
      BY <1>0, <2>1, OneGoes
    <2>3. view'.ctx = view.ctx
      BY <1>0, <1>17 DEF JoinLost, Shown, Rendered, Idle, Types, Views
    <2>4. UNCHANGED <<page, release, rooms, assist, overtaken>> /\ lost \subseteq lost'
          /\ (ops[o].pc = "joined" => ops[o].ctx.dev \in lost')
      BY <1>17 DEF JoinLost
    <2>5. PageKeeps /\ Pages'
      BY <1>0, <2>3, <2>4 DEF PageKeeps, Pages
    <2>6. RoomsAreHeld'
      <3>1. ops[o].pc = "joined" => \A d : d = ops[o].ctx.dev => Held(d)'
        BY <2>4 DEF Held
      <3> QED  BY <1>9, <2>1, <2>3, <2>4, <3>1, RoomsKept
    <2> QED  BY <1>0, <2>2, <2>5, <2>6, HandlersKept DEF RoomInv
  <1>18. ASSUME NEW o \in Slots, AssistanceEnds(o) PROVE RoomInv'
    <2>1. ops'[o] = Free /\ (\A p \in Slots \ {o} : ops'[p] = ops[p]) /\ ops[o].pc # "joined"
      BY <1>0, <1>18, EndedIs DEF AssistanceEnds
    <2>2. OpsKeep /\ \A p \in Slots : ops[p].pc = "joined" => ops'[p] = ops[p]
      BY <1>0, <2>1, OneGoes
    <2>3. page'.n = page.n /\ page'.dev = None /\ view'.ctx = None /\ page.dev = Partner
          /\ lost' = lost \cup {Partner} /\ UNCHANGED <<release, rooms, assist, overtaken>>
      BY <1>0, <1>18 DEF AssistanceEnds, EndsAssistance, FreshView, Types
    <2>4. PageKeeps /\ Pages'
      BY <1>0, <2>3, PagesKept DEF PageKeeps
    <2>5. RoomsAreHeld'
      <3>1. view.ctx # None => \A d : d = view.ctx.dev => Held(d)'
        BY <1>0, <2>3 DEF Held, Pages
      <3> QED  BY <1>9, <2>2, <2>3, <3>1, RoomsKept
    <2> QED  BY <1>0, <2>2, <2>4, <2>5, HandlersKept DEF RoomInv
  <1>19. ASSUME NEW d \in Owned, Open(d) PROVE RoomInv'
    <2>1. /\ page'.n = page.n + 1 /\ page'.dev = d /\ view'.ctx = None /\ view.ctx = None
          /\ UNCHANGED <<ops, release, rooms, assist, overtaken, lost>>
      BY <1>0, <1>19 DEF Open, FreshView, Pages
    <2>2. OpsKeep
      BY <1>10, <2>1
    <2>3. PageKeeps /\ Pages'
      BY <1>0, <2>1, PagesKept DEF PageKeeps, Targets
    <2>4. RoomsAreHeld'
      BY <1>9, <2>1, RoomsKept
    <2> QED  BY <1>0, <2>2, <2>3, <2>4, HandlersKept DEF RoomInv
  <1>20. CASE AssistAnswer
    <2>1. /\ page'.n = page.n + 1 /\ page'.dev = Partner
          /\ view'.ctx # None /\ view'.ctx.dev = Partner
          /\ UNCHANGED <<ops, rooms, lost>> /\ LeaveRoom
      <3>1. [dev |-> Partner, mode |-> "plain"] \in Contexts
        BY DEF Contexts, Targets
      <3> QED  BY <1>20, <3>1 DEF AssistAnswer, FreshView
    <2>2. OpsKeep /\ \A p \in Slots : ops[p].pc = "joined" => ops'[p] = ops[p]
      BY <1>10, <2>1
    <2>3. PageKeeps /\ Pages'
      BY <1>0, <2>1, PagesKept DEF PageKeeps, Targets
    <2>4. RoomsAreHeld'
      <3>1. \A d \in rooms' : d \in rooms
        BY <2>1
      <3> QED  BY <1>0, <1>9, <2>1, <2>2, <3>1, LeavingKeeps, Zenon
    <2> QED  BY <1>0, <2>2, <2>3, <2>4, HandlersKept DEF RoomInv
  <1>21. CASE ReleaseStopServed
    <2>1. release # None /\ release'.dev = release.dev /\ release'.clear = release.clear /\ release' # None
      BY <1>0, <1>21 DEF ReleaseStopServed, Types, Releases, Asked
    <2> QED  BY <1>0, <1>10, <1>21, <2>1, PlainKeeps DEF ReleaseStopServed
  <1>22. CASE ReleaseClearServed \/ ReleaseRequestLost \/ ReleaseSettled \/ AssistServed \/ AssistCancelled
    <2>1. UNCHANGED <<page, overtaken>> /\ lost \subseteq lost'
      BY <1>22 DEF ReleaseClearServed, ReleaseRequestLost, ReleaseSettled, AssistServed, AssistCancelled
    <2>2. view'.ctx = view.ctx
      <3>1. CASE ReleaseSettled
        BY <1>0, <3>1 DEF ReleaseSettled, Types, Views
      <3> QED  BY <1>22, <3>1 DEF ReleaseClearServed, ReleaseRequestLost, AssistServed, AssistCancelled
    <2>3. OpsKeep /\ \A p \in Slots : ops[p].pc = "joined" => ops'[p] = ops[p]
      <3>1. CASE ReleaseSettled
        <4>1. ASSUME NEW p \in Slots
              PROVE  (ops'[p] = Free \/ Goes(p)) /\ (ops[p].pc = "joined" => ops'[p] = ops[p])
          <5>1. \/ ops[p].pc = "lateRelease" /\ ops'[p] = Free
                \/ ops[p].pc = "stopping" /\ ops'[p] = [ops[p] EXCEPT !.pc = "stopped"]
                \/ ops[p].pc \notin {"lateRelease", "stopping"} /\ ops'[p] = ops[p]
            BY <3>1 DEF ReleaseSettled
          <5> QED  BY <1>0, <5>1 DEF Goes, Asking, Types, Ops
        <4> QED  BY <4>1 DEF OpsKeep
      <3>2. CASE UNCHANGED ops
        BY <1>10, <3>2
      <3> QED  BY <1>22, <3>1, <3>2 DEF ReleaseClearServed, ReleaseRequestLost, AssistServed, AssistCancelled
    <2>4. PageKeeps /\ Pages'
      BY <1>0, <2>1, <2>2 DEF PageKeeps, Pages
    <2>5. RoomsAreHeld'
      <3>1. CASE ReleaseClearServed
        BY <1>9, <2>1, <2>2, <2>3, <3>1, RoomsKept DEF ReleaseClearServed
      <3>2. CASE ReleaseRequestLost
        <4>1. \A d : release.dev = d /\ release.clear = "sent" => Held(d)'
          BY <1>0, <3>2 DEF ReleaseRequestLost, Held, Types, Releases, Asked
        <4>2. UNCHANGED <<rooms, assist>>
          BY <3>2 DEF ReleaseRequestLost
        <4> QED  BY <1>9, <2>1, <2>2, <2>3, <4>1, <4>2, RoomsKept
      <3>3. CASE ReleaseSettled
        BY <1>9, <2>1, <2>2, <2>3, <3>3, RoomsKept DEF ReleaseSettled
      <3>4. CASE AssistServed
        <4>1. \A d \in rooms' : d \in rooms \/ Held(d)'
          BY <3>4 DEF AssistServed, Held
        <4>2. UNCHANGED release /\ assist # "joined"
          BY <3>4 DEF AssistServed
        <4> QED  BY <1>9, <2>1, <2>2, <2>3, <4>1, <4>2, RoomsKept
      <3>5. CASE AssistCancelled
        BY <1>9, <2>1, <2>2, <2>3, <3>5, RoomsKept DEF AssistCancelled
      <3> QED  BY <1>22, <3>1, <3>2, <3>3, <3>4, <3>5
    <2> QED  BY <1>0, <2>3, <2>4, <2>5, HandlersKept DEF RoomInv
  <1>23. CASE AssistCall \/ AssistAwaited \/ AssistSend \/ GatewayDrops \/ UNCHANGED vars
    BY <1>0, <1>10, <1>23, PlainKeeps DEF AssistCall, AssistAwaited, AssistSend, GatewayDrops, vars
  <1>24. CASE HealthyFires \/ SessionConnects \/ SessionBreaks \/ SessionFails \/ StatusPolled
    <2>1. view'.ctx = view.ctx
      BY <1>0, <1>24 DEF HealthyFires, SessionConnects, SessionBreaks, SessionFails, SessionChanges,
                         StatusPolled, Types, Views
    <2>2. UNCHANGED <<page, ops, release, rooms, assist, overtaken, lost>>
      BY <1>24 DEF HealthyFires, SessionConnects, SessionBreaks, SessionFails, SessionChanges, StatusPolled
    <2> QED  BY <1>0, <1>10, <2>1, <2>2, PlainKeeps
  <1>25. ASSUME NEW o \in Slots, Handler(o) PROVE RoomInv'
    <2>1. CASE PressReconnect(o) \/ RecoveryFires(o)
      <3>1. /\ view \in Views
            /\ [view EXCEPT !.retrying = TRUE] \in Views /\ [view EXCEPT !.retrying = TRUE].ctx = view.ctx
        BY <1>0 DEF Types, Views
      <3> QED  BY <1>7, <2>1, <3>1 DEF PressReconnect, RecoveryFires
    <2> QED  BY <1>6, <1>8, <1>25, <2>1 DEF Handler, PressNext, AutoConnect
  <1>26. ASSUME NEW o \in Slots, GoesOn(o) \/ Answers(o) \/ JoinLost(o) PROVE RoomInv'
    BY <1>1, <1>2, <1>3, <1>13, <1>14, <1>15, <1>16, <1>17, <1>18, <1>26 DEF GoesOn, Answers
  <1> QED
    BY <1>12, <1>19, <1>20, <1>21, <1>22, <1>23, <1>24, <1>25, <1>26
       DEF Next, AssistGoesOn, Event, Release, Assistance

LEMMA RoomInvInit == Init => RoomInv
  <1> SUFFICES ASSUME Init PROVE RoomInv
    OBVIOUS
  <1>1. PICK b \in Budgets : page = [n |-> MaxMounts - b.mounts, dev |-> None]
    BY DEF Init
  <1>2. page \in [n : Nat, dev : Targets \cup {None}] /\ page.dev = None /\ page.n >= 0
    BY <1>1
  <1>3. Types /\ JoinsName
    BY <1>2, FreshType, FreeType DEF Init, Types, JoinsName, Free, Asking
  <1>4. Pages /\ Handlers
    BY <1>2 DEF Init, Pages, Handlers, Active, FreshView, Free
  <1>5. RoomsAreHeld
    BY DEF Init, RoomsAreHeld
  <1> QED  BY <1>3, <1>4, <1>5 DEF RoomInv

LEMMA RoomInvHolds == Spec => []RoomInv
  <1>1. Init => RoomInv
    BY RoomInvInit
  <1>2. RoomInv /\ [Next]_vars => RoomInv'
    BY RoomInvKept
  <1> QED  BY <1>1, <1>2, PTL DEF Spec

\* Once a page is left and every request is answered, the service holds no room of this client,
\* but for requests that were lost and for late answers that joined a release already under way:
\* releaseRemoteRoom and joinRoomForDevice, however pages, handlers and assistance overlap.
THEOREM NoRoomIsLeft == Spec => []NoRoomLeftBehind
  <1>1. RoomInv => NoRoomLeftBehind
    BY DEF RoomInv, Pages, RoomsAreHeld, Held, NoRoomLeftBehind, Quiet, Free
  <1> QED  BY <1>1, RoomInvHolds, PTL

-----------------------------------------------------------------------------
(* A page owns what runs in its name.                                        *)

\* A join is remembered until it is answered and cleaned up, unless another one took its place.
Unanswered == {"joinSent", "joined", "refused", "lateRelease"}
Joins ==
  \A o \in Slots : /\ pendingJoin = o => ops[o].pc \in Unanswered
                   /\ ops[o].pc \in Unanswered => pendingJoin = o \/ ops[o].n \in forgotten
                   /\ ops[o].pc = "lateRelease" => ~Active(o) /\ release # None

\* Whoever has waited for a join meets none of an earlier page after that, but a forgotten one.
Clear     == pendingJoin \in Slots => Active(pendingJoin)
Waiting   == {"free", "joinWait", "startWait", "sessionWait", "stopping", "stopSent", "stopped"}
Went      == \/ view.stage # "idle" \/ view.retrying
             \/ \E o \in Slots : Active(o) /\ ops[o].pc \notin Waiting
WentAlone == page.dev # None /\ Went => Clear

\* The stored room is the page's, but while a late answer is cleaned up.
Roomed == \/ view.ctx # None
          \/ \E o \in Slots : Active(o) /\ ops[o].pc \in {"startWait", "startWait2"}
StoredIsOwn ==
  page.dev # None /\ Roomed /\ stored \notin {None, page.dev} =>
    \E o \in Slots : ops[o].pc = "lateRelease"

HasRoom ==
  /\ view.joined => view.ctx # None
  /\ page.dev = Partner => view.ctx # None
  /\ \A o \in Slots : ops[o].pc \in {"startWait", "startWait2"} => ops[o].kind = "next"

\* What the page shows of its gateway, or asks of it, is its own.
ClaimStarts   == claim \in Slots => ops[claim].pc = "startSent"
Mine          == gateway \in {None, page.dev} /\ (claim \in Slots => Active(claim))
Shows         == \/ view.gwCtx # None
                 \/ \E o \in Slots : Active(o) /\ ops[o].pc \in {"startSent", "started"}
GatewayIsMine == page.dev # None /\ Shows => Mine \/ Misled

Sessions ==
  /\ OneOpenSession
  /\ view.stage \in {"starting", "connected", "broken"} => view.session \in open

BusyRuns == page.dev # None /\ view.busy => \E o \in Slots : Active(o)

Owns ==
  /\ Joins /\ WentAlone /\ StoredIsOwn /\ HasRoom
  /\ ClaimStarts /\ StartsOwnRoom /\ GatewayIsMine /\ Sessions /\ BusyRuns

OwnInv == RoomInv /\ Owns

\* One handler goes on, on the page that is shown or not.
LEMMA OneActs ==
  ASSUME page' = page, page.dev # None => page.n > 0, NEW o \in Slots,
         \A p \in Slots \ {o} : ops'[p] = ops[p]
  PROVE  /\ \A p \in Slots \ {o} : Active(p)' <=> Active(p)
         /\ ops'[o].n = ops[o].n => (Active(o)' <=> Active(o))
         /\ ops'[o] = Free => ~Active(o)'
  BY DEF Active, Free

\* The join and the start of a handler are awaited, sent and served.
LEMMA AwaitedOwns ==
  ASSUME OwnInv, NEW o \in Slots, JoinAwaited(o) PROVE Owns'
  <1>1. PICK pc \in {"joinWait2", "startWait2", "sessionWait2"} :
          At(o, pc) /\ (pc = "startWait2" => ops[o].pc = "startWait")
    BY DEF JoinAwaited
  <1>2. /\ ops'[o].pc = pc /\ ops'[o].n = ops[o].n /\ ops'[o].kind = ops[o].kind
        /\ \A p \in Slots \ {o} : ops'[p] = ops[p]
    BY <1>1, AtIs DEF OwnInv, RoomInv
  <1>3. \A p \in Slots : Active(p)' <=> Active(p)
    BY <1>2 DEF Active, JoinAwaited
  <1>4. /\ ops[o].pc \in {"joinWait", "startWait", "sessionWait"} /\ pendingJoin = None
        /\ UNCHANGED <<page, view, open, pendingJoin, release, forgotten, stored, gateway, claim>>
    BY DEF JoinAwaited, roomVars, gatewayVars, ghostVars
  <1>5. Joins' /\ WentAlone'
    BY <1>1, <1>2, <1>3, <1>4 DEF OwnInv, Owns, Joins, Unanswered, WentAlone, Clear
  <1>6. StoredIsOwn' /\ HasRoom'
    BY <1>1, <1>2, <1>3, <1>4 DEF OwnInv, Owns, StoredIsOwn, Roomed, HasRoom
  <1>7. ClaimStarts' /\ StartsOwnRoom' /\ GatewayIsMine'
    BY <1>1, <1>2, <1>3, <1>4 DEF OwnInv, Owns, ClaimStarts, StartsOwnRoom, GatewayIsMine, Mine, Misled, Shows
  <1>8. Sessions' /\ BusyRuns'
    BY <1>1, <1>2, <1>3, <1>4 DEF OwnInv, Owns, Sessions, BusyRuns, OneOpenSession
  <1> QED  BY <1>5, <1>6, <1>7, <1>8 DEF Owns

\* A join is sent by a page that has waited: if it takes pendingJoin from another one, that one is
\* of the same page, and forgotten.
LEMMA JoinSendOwns ==
  ASSUME OwnInv, NEW o \in Slots, JoinSend(o) PROVE Owns'
  <1>1. /\ ops[o].pc = "joinWait2" /\ pendingJoin # o
        /\ UNCHANGED <<page, view, open, release, stored, gateway, claim>>
    BY DEF JoinSend, Awaited, gatewayVars, OwnInv, Owns, Joins, Unanswered
  <1>2. /\ \A p \in Slots \ {o} : ops'[p] = ops[p]
        /\ \/ /\ Active(o) /\ ops'[o].pc = "joinSent" /\ ops'[o].n = ops[o].n
              /\ ops'[o].kind = ops[o].kind /\ pendingJoin' = o
              /\ forgotten' = IF pendingJoin = None THEN forgotten ELSE forgotten \cup {ops[pendingJoin].n}
           \/ ~Active(o) /\ ops'[o] = Free /\ UNCHANGED <<pendingJoin, forgotten>>
    BY AtIs, EndedIs DEF JoinSend, OwnInv, RoomInv
  <1>3. /\ \A p \in Slots : Active(p)' => Active(p)
        /\ \A p \in Slots : Active(p) /\ p # o => Active(p)'
        /\ Active(o)' <=> Active(o)
    BY <1>1, <1>2, OneActs DEF OwnInv, RoomInv, Pages
  <1>4. Joins'
    <2>1. CASE Active(o)
      <3> SUFFICES ASSUME NEW p \in Slots
                   PROVE  /\ pendingJoin' = p => ops'[p].pc \in Unanswered
                          /\ ops'[p].pc \in Unanswered => pendingJoin' = p \/ ops'[p].n \in forgotten'
                          /\ ops'[p].pc = "lateRelease" => ~Active(p)' /\ release' # None
        BY DEF Joins
      <3>1. CASE p = o
        BY <1>2, <2>1, <3>1 DEF Unanswered
      <3>2. CASE p # o
        BY <1>1, <1>2, <1>3, <2>1, <3>2 DEF OwnInv, Owns, Joins
      <3> QED  BY <3>1, <3>2
    <2>2. CASE ~Active(o)
      BY <1>1, <1>2, <1>3, <2>2 DEF OwnInv, Owns, Joins, Unanswered, Free
    <2> QED  BY <2>1, <2>2
  <1>5. WentAlone'
    <2>1. CASE Active(o)
      BY <1>2, <1>3, <2>1 DEF WentAlone, Clear
    <2>2. CASE ~Active(o)
      BY <1>1, <1>2, <1>3, <2>2 DEF OwnInv, Owns, WentAlone, Went, Clear
    <2> QED  BY <2>1, <2>2
  <1>6. StoredIsOwn' /\ HasRoom'
    <2>1. StoredIsOwn'
      BY <1>1, <1>2, <1>3 DEF OwnInv, Owns, StoredIsOwn, Roomed, Free
    <2>2. HasRoom'
      BY <1>1, <1>2 DEF OwnInv, Owns, HasRoom, Free
    <2> QED  BY <2>1, <2>2
  <1>7. ClaimStarts' /\ StartsOwnRoom' /\ GatewayIsMine'
    <2>1. Misled => Misled'
      BY <1>1, <1>2 DEF Misled
    <2>2. ops'[o].pc # "startSent"
      BY <1>2 DEF Free
    <2>3. ClaimStarts'
      BY <1>1, <1>2, <1>3, <2>2 DEF OwnInv, Owns, ClaimStarts
    <2>4. StartsOwnRoom'
      BY <1>1, <1>2, <1>3, <2>1, <2>2 DEF OwnInv, Owns, StartsOwnRoom
    <2>5. GatewayIsMine'
      BY <1>1, <1>2, <1>3, <2>1 DEF OwnInv, Owns, GatewayIsMine, Mine, Shows, Free
    <2> QED  BY <2>3, <2>4, <2>5
  <1>8. Sessions' /\ BusyRuns'
    BY <1>1, <1>2, <1>3 DEF OwnInv, Owns, Sessions, BusyRuns, OneOpenSession, Free
  <1> QED  BY <1>4, <1>5, <1>6, <1>7, <1>8 DEF Owns

LEMMA JoinServedOwns ==
  ASSUME OwnInv, NEW o \in Slots, JoinServed(o) PROVE Owns'
  <1>1. /\ ops[o].pc = "joinSent"
        /\ UNCHANGED <<page, view, open, pendingJoin, release, forgotten, stored, gateway, claim>>
    BY DEF JoinServed, gatewayVars, ghostVars
  <1>2. /\ ops'[o].pc \in {"joined", "refused"} /\ ops'[o].n = ops[o].n /\ ops'[o].kind = ops[o].kind
        /\ \A p \in Slots \ {o} : ops'[p] = ops[p]
    BY AtIs DEF JoinServed, OwnInv, RoomInv
  <1>3. \A p \in Slots : Active(p)' <=> Active(p)
    BY <1>1, <1>2 DEF Active
  <1>4. Joins' /\ WentAlone'
    BY <1>1, <1>2, <1>3 DEF OwnInv, Owns, Joins, Unanswered, WentAlone, Went, Waiting, Clear
  <1>5. StoredIsOwn' /\ HasRoom'
    BY <1>1, <1>2, <1>3 DEF OwnInv, Owns, StoredIsOwn, Roomed, HasRoom
  <1>6. ClaimStarts' /\ StartsOwnRoom' /\ GatewayIsMine'
    BY <1>1, <1>2, <1>3 DEF OwnInv, Owns, ClaimStarts, StartsOwnRoom, GatewayIsMine, Mine, Misled, Shows
  <1>7. Sessions' /\ BusyRuns'
    BY <1>1, <1>2, <1>3 DEF OwnInv, Owns, Sessions, BusyRuns, OneOpenSession
  <1> QED  BY <1>4, <1>5, <1>6, <1>7 DEF Owns

LEMMA StartServedOwns ==
  ASSUME OwnInv, NEW o \in Slots, StartServed(o) PROVE Owns'
  <1>1. /\ ops[o].pc = "startSent" /\ claim' = IF claim = o THEN None ELSE claim
        /\ UNCHANGED <<page, view, open, pendingJoin, release, forgotten, stored>>
    BY DEF StartServed, ghostVars
  <1>2. /\ ops'[o].pc \in {"started", "startFailed", "unauthorized", "overruled", "startLost"}
        /\ ops'[o].n = ops[o].n /\ ops'[o].kind = ops[o].kind
        /\ \A p \in Slots \ {o} : ops'[p] = ops[p]
        /\ gateway' = gateway \/ (claim = o /\ gateway' = ops[o].room)
    <2>1. PICK pc \in {"started", "startFailed", "unauthorized", "overruled", "startLost"} : At(o, pc)
      BY DEF StartServed
    <2>2. gateway' = gateway \/ (claim = o /\ gateway' = ops[o].room)
      BY DEF StartServed
    <2> QED  BY <2>1, <2>2, AtIs DEF OwnInv, RoomInv
  <1>3. \A p \in Slots : Active(p)' <=> Active(p)
    BY <1>1, <1>2 DEF Active
  <1>4. Joins' /\ WentAlone'
    BY <1>1, <1>2, <1>3 DEF OwnInv, Owns, Joins, Unanswered, WentAlone, Went, Waiting, Clear
  <1>5. StoredIsOwn' /\ HasRoom'
    BY <1>1, <1>2, <1>3 DEF OwnInv, Owns, StoredIsOwn, Roomed, HasRoom
  <1>6. ClaimStarts' /\ StartsOwnRoom'
    BY <1>1, <1>2, <1>3 DEF OwnInv, Owns, ClaimStarts, StartsOwnRoom, Misled
  <1>7. GatewayIsMine'
    <2> SUFFICES ASSUME page.dev # None, Shows' PROVE Mine' \/ Misled'
      BY <1>1 DEF GatewayIsMine
    <2>1. Mine \/ Misled
      BY <1>1, <1>2, <1>3 DEF OwnInv, Owns, GatewayIsMine, Shows
    <2>2. CASE gateway' = gateway
      BY <1>1, <1>3, <2>1, <2>2 DEF Mine, Misled
    <2>3. CASE claim = o /\ gateway' = ops[o].room
      <3>1. Misled' <=> Misled
        BY <1>1 DEF Misled
      <3> QED  BY <1>1, <2>1, <2>3, <3>1 DEF OwnInv, Owns, StartsOwnRoom, Mine
    <2> QED  BY <1>2, <2>2, <2>3
  <1>8. Sessions' /\ BusyRuns'
    BY <1>1, <1>2, <1>3 DEF OwnInv, Owns, Sessions, BusyRuns, OneOpenSession
  <1> QED  BY <1>4, <1>5, <1>6, <1>7, <1>8 DEF Owns

\* A handler ends; if its page is still shown, the page is no longer busy and shows no more
\* than it did.
Ends(o) ==
  /\ ops'[o] = Free /\ \A p \in Slots \ {o} : ops'[p] = ops[p]
  /\ pendingJoin' = Settled(o)
  /\ UNCHANGED <<page, open, release, forgotten, stored, gateway, claim>>
ShowsLess ==
  /\ view'.ctx = view.ctx /\ view'.joined = view.joined /\ view'.session = view.session
  /\ view'.gwCtx \in {view.gwCtx, None}
  /\ view'.stage \in {view.stage, "idle"} /\ (view'.retrying => view.retrying)

LEMMA EndsOwns ==
  ASSUME OwnInv, NEW o \in Slots, Ends(o), ops[o].pc \notin {"startSent", "lateRelease"},
         ~Active(o) => view' = view,
         Active(o) => ShowsLess /\ view'.busy = FALSE
  PROVE  Owns'
  <1>1. /\ ops'[o].pc = "free" /\ \A p \in Slots \ {o} : ops'[p] = ops[p]
        /\ pendingJoin' = Settled(o)
        /\ UNCHANGED <<page, open, release, forgotten, stored, gateway, claim>>
    BY DEF Ends, Free
  <1>2. /\ \A p \in Slots : Active(p)' => Active(p)
        /\ \A p \in Slots : Active(p) /\ p # o => Active(p)'
    BY <1>1, OneActs DEF OwnInv, RoomInv, Pages, Ends
  <1>3. ShowsLess
    BY DEF ShowsLess
  <1>4. Joins'
    BY <1>1, <1>2 DEF OwnInv, Owns, Joins, Unanswered, Settled
  <1>5. WentAlone'
    <2>1. Went' => Went
      BY <1>1, <1>2, <1>3 DEF Went, Waiting, ShowsLess
    <2>2. Clear => Clear'
      BY <1>1, <1>2 DEF Clear, Settled
    <2> QED  BY <1>1, <2>1, <2>2 DEF OwnInv, Owns, WentAlone
  <1>6. StoredIsOwn' /\ HasRoom'
    BY <1>1, <1>2, <1>3 DEF OwnInv, Owns, StoredIsOwn, Roomed, HasRoom, ShowsLess
  <1>7. ClaimStarts' /\ StartsOwnRoom'
    BY <1>1, <1>2 DEF OwnInv, Owns, ClaimStarts, StartsOwnRoom, Misled
  <1>8. GatewayIsMine'
    <2>1. Shows' => Shows
      BY <1>1, <1>2, <1>3 DEF Shows, ShowsLess
    <2>2. (Mine => Mine') /\ (Misled => Misled')
      BY <1>1, <1>2 DEF OwnInv, Owns, ClaimStarts, Mine, Misled
    <2> QED  BY <1>1, <2>1, <2>2 DEF OwnInv, Owns, GatewayIsMine
  <1>9. Sessions'
    BY <1>1, <1>2, <1>3 DEF OwnInv, Owns, Sessions, OneOpenSession, ShowsLess
  <1>10. BusyRuns'
    <2>1. CASE Active(o)
      BY <2>1 DEF BusyRuns
    <2>2. CASE ~Active(o)
      BY <1>1, <1>2, <2>2 DEF OwnInv, Owns, BusyRuns
    <2> QED  BY <2>1, <2>2
  <1> QED  BY <1>4, <1>5, <1>6, <1>7, <1>8, <1>9, <1>10 DEF Owns

\* What the page shows once an update of it is rendered.
LEMMA ShownLess ==
  ASSUME Types, NEW o \in Slots, NEW v \in Views, Shown(o, v),
         v.ctx = view.ctx, v.joined = view.joined, v.session = view.session,
         v.gwCtx \in {view.gwCtx, None},
         v.stage \in {view.stage, "idle"}, v.retrying = view.retrying
  PROVE  (~Active(o) => view' = view) /\ (Active(o) => ShowsLess /\ view'.busy = v.busy)
  BY ShownKeeps DEF ShowsLess

LEMMA IdleIs ==
  ASSUME NEW v \in Views
  PROVE  /\ Idle(v) \in Views /\ Idle(v).busy = FALSE
         /\ Idle(v).ctx = v.ctx /\ Idle(v).joined = v.joined /\ Idle(v).session = v.session
         /\ Idle(v).gw = v.gw /\ Idle(v).gwCtx = v.gwCtx /\ Idle(v).stage = v.stage
         /\ Idle(v).retrying = v.retrying
  BY DEF Idle, Views

\* The handler's page, if it is shown, is idle.
LEMMA ShownIdle ==
  ASSUME Types, NEW o \in Slots, Shown(o, Idle(view))
  PROVE  (~Active(o) => view' = view) /\ (Active(o) => ShowsLess /\ view'.busy = FALSE)
  <1> DEFINE v == Idle(view)
  <1>1. /\ v \in Views /\ v.ctx = view.ctx /\ v.joined = view.joined /\ v.session = view.session
        /\ v.gwCtx = view.gwCtx /\ v.stage = view.stage /\ v.retrying = view.retrying /\ v.busy = FALSE
    BY IdleIs DEF Types
  <1>2. Shown(o, v)
    OBVIOUS
  <1> HIDE DEF v
  <1> QED  BY <1>1, <1>2, ShownLess

LEMMA JoinLostOwns == ASSUME OwnInv, NEW o \in Slots, JoinLost(o) PROVE Owns'
  <1>1. Types
    BY DEF OwnInv, RoomInv
  <1>2. Ends(o) /\ ops[o].pc \notin {"startSent", "lateRelease"}
    <2>1. ops'[o] = Free /\ \A p \in Slots \ {o} : ops'[p] = ops[p]
      BY <1>1, EndedIs DEF JoinLost
    <2> QED  BY <2>1 DEF JoinLost, Ends, gatewayVars
  <1>3. Shown(o, Idle(view))
    BY DEF JoinLost
  <1> QED  BY <1>1, <1>2, <1>3, ShownIdle, EndsOwns

LEMMA SessionStartedOwns == ASSUME OwnInv, NEW o \in Slots, SessionStarted(o) PROVE Owns'
  <1>1. Types /\ view \in Views
    BY DEF OwnInv, RoomInv, Types
  <1>2. pendingJoin # o /\ ops[o].pc = "sessionStarting"
    BY DEF SessionStarted, OwnInv, Owns, Joins, Unanswered
  <1>3. Ends(o)
    <2>1. ops'[o] = Free /\ \A p \in Slots \ {o} : ops'[p] = ops[p]
      BY <1>1, EndedIs DEF SessionStarted
    <2> QED  BY <1>2, <2>1 DEF SessionStarted, Ends, Settled, roomVars, gatewayVars, ghostVars
  <1> DEFINE v == [view EXCEPT !.stage = "idle"]
  <1>4. Shown(o, Idle(view)) \/ (Active(o) /\ view' = Idle(v))
    BY DEF SessionStarted
  <1>5. /\ v \in Views /\ v.ctx = view.ctx /\ v.joined = view.joined /\ v.session = view.session
        /\ v.gwCtx = view.gwCtx /\ v.stage = "idle" /\ v.retrying = view.retrying
    BY <1>1 DEF Views
  <1> HIDE DEF v
  <1>6. (~Active(o) => view' = view) /\ (Active(o) => ShowsLess /\ view'.busy = FALSE)
    <2>1. CASE Active(o) /\ view' = Idle(v)
      BY <1>5, <2>1, IdleIs DEF ShowsLess
    <2> QED  BY <1>1, <1>4, <2>1, ShownIdle
  <1> QED  BY <1>2, <1>3, <1>6, EndsOwns

\* A stop is served: the page shows no gateway.
LEMMA StopServedOwns == ASSUME OwnInv, NEW o \in Slots, StopServed(o) PROVE Owns'
  <1>1. Types /\ view \in Views
    BY DEF OwnInv, RoomInv, Types
  <1>2. /\ ops[o].pc = "stopSent" /\ ops'[o].pc = "stopped" /\ ops'[o].n = ops[o].n
        /\ \A p \in Slots \ {o} : ops'[p] = ops[p]
        /\ UNCHANGED <<page, open, pendingJoin, release, forgotten, stored, gateway, claim>>
    BY <1>1, AtIs DEF StopServed, roomVars, gatewayVars, ghostVars
  <1>3. \A p \in Slots : Active(p)' <=> Active(p)
    BY <1>2 DEF Active
  <1> DEFINE v == [view EXCEPT !.gwCtx = None, !.gw = "closed"]
  <1>4. Shown(o, v)
    BY DEF StopServed
  <1>5. /\ v \in Views /\ v.ctx = view.ctx /\ v.joined = view.joined /\ v.session = view.session
        /\ v.gwCtx = None /\ v.stage = view.stage /\ v.retrying = view.retrying /\ v.busy = view.busy
    BY <1>1 DEF Views
  <1> HIDE DEF v
  <1>6. ShowsLess /\ view'.busy = view.busy
    <2>1. (~Active(o) => view' = view) /\ (Active(o) => ShowsLess /\ view'.busy = v.busy)
      BY <1>1, <1>4, <1>5, ShownLess
    <2>2. CASE ~Active(o)
      BY <2>1, <2>2 DEF ShowsLess
    <2> QED  BY <1>5, <2>1, <2>2
  <1>7. Joins' /\ WentAlone'
    <2>1. Went' => Went
      BY <1>2, <1>3, <1>6 DEF Went, Waiting, ShowsLess
    <2>2. Clear => Clear'
      BY <1>2, <1>3 DEF Clear
    <2>3. Joins'
      BY <1>2, <1>3 DEF OwnInv, Owns, Joins, Unanswered
    <2> QED  BY <1>2, <2>1, <2>2, <2>3 DEF OwnInv, Owns, WentAlone
  <1>8. StoredIsOwn' /\ HasRoom'
    BY <1>2, <1>3, <1>6 DEF OwnInv, Owns, StoredIsOwn, Roomed, HasRoom, ShowsLess
  <1>9. ClaimStarts' /\ StartsOwnRoom'
    BY <1>2, <1>3 DEF OwnInv, Owns, ClaimStarts, StartsOwnRoom, Misled
  <1>10. GatewayIsMine'
    BY <1>2, <1>3, <1>6 DEF OwnInv, Owns, GatewayIsMine, Shows, Mine, Misled, ShowsLess
  <1>11. Sessions' /\ BusyRuns'
    BY <1>2, <1>3, <1>6 DEF OwnInv, Owns, Sessions, BusyRuns, OneOpenSession, ShowsLess
  <1> QED  BY <1>7, <1>8, <1>9, <1>10, <1>11 DEF Owns

LEMMA StartSendOwns == ASSUME OwnInv, NEW o \in Slots, StartSend(o) PROVE Owns'
  <1>1. Types /\ view \in Views
    BY DEF OwnInv, RoomInv, Types
  <1>2. /\ pendingJoin # o /\ ops[o].pc = "startWait2" /\ ops[o].kind = "next" /\ release = None
        /\ UNCHANGED <<page, open, pendingJoin, release, forgotten, stored>>
    BY DEF StartSend, Awaited, OwnInv, Owns, Joins, Unanswered, HasRoom, ghostVars
  <1>3. CASE Ended(o) /\ view' = (IF Active(o) THEN Idle(view) ELSE view) /\ UNCHANGED gatewayVars
    <2>1. ops'[o] = Free /\ \A p \in Slots \ {o} : ops'[p] = ops[p]
      BY <1>1, <1>3, EndedIs
    <2>2. Ends(o)
      BY <1>2, <1>3, <2>1 DEF Ends, Settled, gatewayVars
    <2>3. (~Active(o) => view' = view) /\ (Active(o) => ShowsLess /\ view'.busy = FALSE)
      BY <1>1, <1>3, IdleIs DEF ShowsLess
    <2> QED  BY <1>2, <2>2, <2>3, EndsOwns
  <1>4. CASE /\ Active(o) /\ ops[o].ctx # None /\ ops[o].ctx.dev = page.dev /\ stored # None
             /\ GoesOnTo(o, "startSent", stored) /\ UNCHANGED view /\ Claims(o)
    <2>1. stored \in Targets \cup Session /\ "startSent" \in Places
      BY <1>1, <1>4 DEF Types, Places
    <2>2. /\ ops'[o].pc = "startSent" /\ ops'[o].kind = "next" /\ ops'[o].n = ops[o].n
          /\ ops'[o].room = stored /\ \A p \in Slots \ {o} : ops'[p] = ops[p]
      BY <1>1, <1>2, <1>4, <2>1, GoesOnMoves
    <2>3. \A p \in Slots : Active(p)' <=> Active(p)
      BY <1>2, <2>2 DEF Active
    <2>4. stored = page.dev
      <3>1. Roomed /\ page.dev # None
        BY <1>2, <1>4 DEF Roomed, Active
      <3>2. \A p \in Slots : ops[p].pc # "lateRelease"
        BY <1>2 DEF OwnInv, Owns, Joins
      <3> QED  BY <1>4, <3>1, <3>2 DEF OwnInv, Owns, StoredIsOwn
    <2>5. gateway' = None /\ claim' = o
      BY <1>4 DEF Claims
    <2>6. Joins' /\ WentAlone'
      BY <1>2, <1>4, <2>2, <2>3 DEF OwnInv, Owns, Joins, Unanswered, WentAlone, Went, Waiting, Clear
    <2>7. StoredIsOwn' /\ HasRoom'
      BY <1>2, <1>4, <2>2, <2>3 DEF OwnInv, Owns, StoredIsOwn, Roomed, HasRoom
    <2>8. ClaimStarts' /\ StartsOwnRoom' /\ GatewayIsMine'
      BY <1>2, <1>4, <2>2, <2>3, <2>4, <2>5
         DEF OwnInv, Owns, ClaimStarts, StartsOwnRoom, GatewayIsMine, Mine, Misled
    <2>9. Sessions' /\ BusyRuns'
      BY <1>2, <1>4, <2>2, <2>3 DEF OwnInv, Owns, Sessions, BusyRuns, OneOpenSession
    <2> QED  BY <2>6, <2>7, <2>8, <2>9 DEF Owns
  <1> QED  BY <1>3, <1>4 DEF StartSend, GoesOnTo

LEMMA StartAnswerOwns == ASSUME OwnInv, NEW o \in Slots, StartAnswer(o) PROVE Owns'
  <1>1. Types /\ view \in Views
    BY DEF OwnInv, RoomInv, Types
  <1>2. /\ pendingJoin # o /\ ops[o].pc \in {"started", "startFailed", "unauthorized", "overruled", "startLost"}
        /\ UNCHANGED <<page, open, pendingJoin, release, forgotten, stored, gateway, claim>>
    BY DEF StartAnswer, OwnInv, Owns, Joins, Unanswered, roomVars, gatewayVars, ghostVars
  <1>3. PICK v \in Views :
          /\ Shown(o, v) /\ v.ctx = view.ctx /\ v.joined = view.joined /\ v.session = view.session
          /\ v.stage = view.stage /\ v.retrying = view.retrying
          /\ ops[o].pc # "started" => v.busy = FALSE /\ v.gwCtx \in {view.gwCtx, None}
    BY <1>1, AnswerIs
  <1>4. CASE ops[o].pc # "started" \/ ~Active(o)
    <2>1. ops'[o] = Free /\ \A p \in Slots \ {o} : ops'[p] = ops[p]
      BY <1>1, <1>4, AnswerIs, EndedIs
    <2>2. Ends(o)
      BY <1>2, <2>1 DEF Ends, Settled
    <2>3. (~Active(o) => view' = view) /\ (Active(o) => ShowsLess /\ view'.busy = FALSE)
      <3>1. CASE ~Active(o)
        BY <1>3, <3>1 DEF Shown
      <3>2. CASE Active(o)
        <4>1. v.busy = FALSE /\ v.gwCtx \in {view.gwCtx, None}
          BY <1>3, <1>4, <3>2
        <4> QED  BY <1>1, <1>3, <3>2, <4>1, ShownLess
      <3> QED  BY <3>1, <3>2
    <2> QED  BY <1>2, <2>2, <2>3, EndsOwns
  <1>5. CASE ops[o].pc = "started" /\ Active(o)
    <2>1. /\ ops'[o].pc = "sessionWait" /\ ops'[o].kind = ops[o].kind /\ ops'[o].n = ops[o].n
          /\ \A p \in Slots \ {o} : ops'[p] = ops[p]
      BY <1>1, <1>5, AnswerIs, ResumesIs
    <2>2. \A p \in Slots : Active(p)' <=> Active(p)
      BY <1>2, <2>1 DEF Active
    <2>3. /\ view'.ctx = view.ctx /\ view'.joined = view.joined /\ view'.session = view.session
          /\ view'.stage = view.stage /\ (view'.retrying => view.retrying)
      BY <1>1, <1>3, <1>5, ShownKeeps
    <2>4. Joins' /\ WentAlone'
      BY <1>2, <1>5, <2>1, <2>2, <2>3 DEF OwnInv, Owns, Joins, Unanswered, WentAlone, Went, Waiting, Clear
    <2>5. StoredIsOwn' /\ HasRoom'
      BY <1>2, <2>1, <2>2, <2>3 DEF OwnInv, Owns, StoredIsOwn, Roomed, HasRoom
    <2>6. ClaimStarts' /\ StartsOwnRoom'
      BY <1>2, <1>5, <2>1, <2>2 DEF OwnInv, Owns, ClaimStarts, StartsOwnRoom, Misled
    <2>7. GatewayIsMine'
      BY <1>2, <1>5, <2>1, <2>2 DEF OwnInv, Owns, GatewayIsMine, Shows, Mine, Misled
    <2>8. Sessions' /\ BusyRuns'
      BY <1>2, <1>5, <2>1, <2>2, <2>3 DEF OwnInv, Owns, Sessions, BusyRuns, OneOpenSession
    <2> QED  BY <2>4, <2>5, <2>6, <2>7, <2>8 DEF Owns
  <1> QED  BY <1>4, <1>5

LEMMA SessionCreatedOwns == ASSUME OwnInv, NEW o \in Slots, SessionCreated(o) PROVE Owns'
  <1>1. Types /\ view \in Views
    BY DEF OwnInv, RoomInv, Types
  <1>2. /\ pendingJoin # o /\ ops[o].pc = "sessionWait2"
        /\ UNCHANGED <<page, pendingJoin, release, forgotten, stored, gateway, claim>>
    BY DEF SessionCreated, Awaited, OwnInv, Owns, Joins, Unanswered, roomVars, gatewayVars, ghostVars
  <1>3. CASE ~Active(o)
    <2>1. ops'[o] = Free /\ \A p \in Slots \ {o} : ops'[p] = ops[p]
      BY <1>1, <1>3, EndedIs DEF SessionCreated
    <2>2. Ends(o) /\ view' = view
      BY <1>2, <1>3, <2>1 DEF SessionCreated, Ends, Settled
    <2> QED  BY <1>2, <1>3, <2>2, EndsOwns
  <1>4. CASE Active(o)
    <2>1. PICK s \in Session :
            /\ GoesOnTo(o, "sessionStarting", s)
            /\ open' = (open \ {view.session}) \cup {s}
            /\ Shown(o, [view EXCEPT !.session = s, !.stage = "starting"])
      BY <1>4 DEF SessionCreated, GoesOnTo
    <2>2. /\ ops'[o].pc = "sessionStarting" /\ ops'[o].kind = ops[o].kind /\ ops'[o].n = ops[o].n
          /\ \A p \in Slots \ {o} : ops'[p] = ops[p]
      <3>1. s \in Targets \cup Session /\ "sessionStarting" \in Places
        BY DEF Places
      <3> QED  BY <1>1, <2>1, <3>1, GoesOnMoves
    <2>3. \A p \in Slots : Active(p)' <=> Active(p)
      BY <1>2, <2>2 DEF Active
    <2> DEFINE v == [view EXCEPT !.session = s, !.stage = "starting"]
    <2>4. /\ v \in Views /\ v.ctx = view.ctx /\ v.joined = view.joined /\ v.session = s
          /\ v.gwCtx = view.gwCtx /\ v.stage = "starting"
      BY <1>1 DEF Views
    <2>5. /\ view'.ctx = view.ctx /\ view'.joined = view.joined /\ view'.session = s
          /\ view'.gwCtx = view.gwCtx /\ view'.stage = "starting"
      <3>1. Shown(o, v)
        BY <2>1
      <3> HIDE DEF v
      <3> QED  BY <1>1, <1>4, <2>4, <3>1, ShownKeeps
    <2>6. open' = {s}
      BY <1>4, <2>1 DEF OwnInv, Owns, Sessions, OneOpenSession, Active
    <2>7. Joins'
      BY <1>2, <1>4, <2>2, <2>3 DEF OwnInv, Owns, Joins, Unanswered
    <2>8. WentAlone'
      BY <1>2, <1>4, <2>2, <2>3 DEF OwnInv, Owns, WentAlone, Went, Waiting, Clear
    <2>9. StoredIsOwn' /\ HasRoom'
      BY <1>2, <2>2, <2>3, <2>5 DEF OwnInv, Owns, StoredIsOwn, Roomed, HasRoom
    <2>10. ClaimStarts' /\ StartsOwnRoom' /\ GatewayIsMine'
      BY <1>2, <2>2, <2>3, <2>5 DEF OwnInv, Owns, ClaimStarts, StartsOwnRoom, GatewayIsMine, Mine, Misled, Shows
    <2>11. Sessions'
      BY <1>2, <1>4, <2>2, <2>3, <2>5, <2>6 DEF OwnInv, Owns, Sessions, OneOpenSession, Active
    <2>12. BusyRuns'
      BY <1>4, <2>3 DEF BusyRuns
    <2> QED  BY <2>7, <2>8, <2>9, <2>10, <2>11, <2>12 DEF Owns
  <1> QED  BY <1>3, <1>4

LEMMA JoinAnswerOwns == ASSUME OwnInv, NEW o \in Slots, JoinAnswer(o) PROVE Owns'
  <1> DEFINE j == ops[o].pc = "joined"
             v == Joining(view, ops[o].ctx, j, FALSE)
             w == [v EXCEPT !.busy = TRUE]
  <1>1. Types /\ view \in Views
    BY DEF OwnInv, RoomInv, Types
  <1>2. /\ Active(o) /\ ops[o].pc \in {"joined", "refused"} /\ pendingJoin' = Settled(o)
        /\ ops[o].ctx \in Contexts /\ ops[o].ctx # None /\ ops[o].ctx.dev = page.dev
        /\ UNCHANGED <<page, release, forgotten>> /\ stored' \in {None, page.dev} /\ open' = {}
    <2>1. Active(o) /\ ops[o].pc \in {"joined", "refused"}
      BY DEF JoinAnswer
    <2>2. ops[o].ctx # None
      BY <2>1 DEF OwnInv, RoomInv, JoinsName, Asking
    <2>3. ops[o].ctx \in Contexts /\ ops[o].ctx.dev = page.dev
      BY <1>1, <2>1, <2>2 DEF Types, Ops, OwnInv, RoomInv, Handlers
    <2>4. UNCHANGED <<page, release, forgotten>> /\ stored' \in {None, page.dev} /\ pendingJoin' = Settled(o)
      BY <2>3 DEF JoinAnswer, ghostVars
    <2>5. open' = {}
      BY <2>1 DEF JoinAnswer, OwnInv, Owns, Sessions, OneOpenSession, Active
    <2> QED  BY <2>1, <2>2, <2>3, <2>4, <2>5
  <1>3. /\ v \in Views /\ v.ctx = ops[o].ctx /\ v.gwCtx = None /\ v.session = None
        /\ v.stage = "idle" /\ v.busy = FALSE /\ v.retrying = view.retrying
    <2>1. view \in Views /\ ops[o].ctx \in Contexts \cup {None}
      BY <1>1, <1>2
    <2>2. j \in BOOLEAN
      BY Zenon
    <2> HIDE DEF j
    <2> QED  BY <2>1, <2>2 DEF Joining, Views
  <1>4. /\ w \in Views /\ w.ctx = ops[o].ctx /\ w.gwCtx = None /\ w.session = None
        /\ w.stage = "idle" /\ w.retrying = view.retrying
    <2> HIDE DEF v
    <2> QED  BY <1>3 DEF Views
  <1>5. \/ At(o, "startWait") /\ Shown(o, w) /\ ops[o].kind = "next" /\ UNCHANGED <<gateway, claim>>
        \/ Restarts(o) /\ Shown(o, v) /\ Claims(o)
        \/ Ended(o) /\ Shown(o, v) /\ UNCHANGED <<gateway, claim>>
    BY Zenon DEF JoinAnswer, Joining, Restarts, gatewayVars
  <1>6. /\ view'.ctx = ops[o].ctx /\ view'.gwCtx = None /\ view'.session = None
        /\ view'.stage = "idle" /\ (view'.retrying => view.retrying)
        /\ (Shown(o, v) => view'.busy = FALSE)
    <2> HIDE DEF v, w
    <2>1. CASE Shown(o, v)
      BY <1>1, <1>2, <1>3, <2>1, ShownKeeps
    <2>2. CASE Shown(o, w) /\ ~Shown(o, v)
      BY <1>1, <1>2, <1>4, <2>2, ShownKeeps
    <2> QED  BY <1>5, <2>1, <2>2
  <1>7. /\ \A p \in Slots \ {o} : ops'[p] = ops[p]
        /\ \/ /\ ops'[o].pc = "startWait" /\ ops'[o].n = ops[o].n /\ ops'[o].kind = "next"
              /\ UNCHANGED <<gateway, claim>>
           \/ /\ ops'[o].pc = "startSent" /\ ops'[o].n = ops[o].n /\ ops'[o].room = page.dev
              /\ gateway' = None /\ claim' = o
           \/ ops'[o] = Free /\ view'.busy = FALSE /\ UNCHANGED <<gateway, claim>>
    <2> HIDE DEF v, w
    <2>1. CASE At(o, "startWait") /\ ops[o].kind = "next" /\ UNCHANGED <<gateway, claim>>
      BY <1>1, <2>1, AtIs
    <2>2. CASE Restarts(o) /\ Claims(o)
      <3>1. /\ ops[o].ctx.dev \in Targets \cup Session \cup {None} /\ "startSent" \in Places
            /\ ops[o].was \in Contexts \cup {None}
        BY <1>1, <1>2 DEF Contexts, Places, Types, Ops
      <3>2. Moves(o, "startSent", ops[o].was, None, ops[o].ctx.dev)
        BY <1>1, <2>2, RestartsMoves
      <3> QED  BY <1>1, <1>2, <2>2, <3>1, <3>2, MovesIs DEF Claims
    <2>3. CASE Ended(o) /\ Shown(o, v) /\ UNCHANGED <<gateway, claim>>
      BY <1>1, <1>6, <2>3, EndedIs
    <2> QED  BY <1>5, <2>1, <2>2, <2>3
  <1> HIDE DEF v, w, j
  <1>8. /\ \A p \in Slots \ {o} : Active(p)' <=> Active(p)
        /\ ops'[o] # Free => Active(o)'
        /\ ops'[o] = Free => ops'[o].pc = "free" /\ ~Active(o)'
        /\ ops'[o].pc \in {"startWait", "startSent", "free"}
    <2>1. /\ \A p \in Slots \ {o} : Active(p)' <=> Active(p)
          /\ ops'[o] = Free => ~Active(o)'
      BY <1>2, <1>7, OneActs DEF OwnInv, RoomInv, Pages
    <2>2. ops'[o] # Free => Active(o)'
      BY <1>2, <1>7 DEF Active
    <2>3. ops'[o] = Free => ops'[o].pc = "free"
      BY DEF Free
    <2> QED  BY <1>7, <2>1, <2>2, <2>3
  <1>9. Joins'
    BY <1>2, <1>7, <1>8 DEF OwnInv, Owns, Joins, Unanswered, Settled
  <1>10. WentAlone'
    <2>1. Clear
      BY <1>2 DEF OwnInv, Owns, WentAlone, Went, Waiting, Active
    <2>2. pendingJoin' \in Slots => pendingJoin' = pendingJoin /\ pendingJoin # o
      BY <1>2 DEF Settled
    <2>3. Clear'
      BY <1>8, <2>1, <2>2 DEF Clear, Active
    <2> QED  BY <2>3 DEF WentAlone
  <1>11. StoredIsOwn' /\ HasRoom'
    <2>1. page.dev # None /\ view'.ctx # None
      BY <1>2, <1>6 DEF Active
    <2>2. \A p \in Slots : ops'[p].pc \in {"startWait", "startWait2"} => ops'[p].kind = "next"
      BY <1>7, <1>8 DEF OwnInv, Owns, HasRoom
    <2> QED  BY <1>2, <2>1, <2>2 DEF StoredIsOwn, HasRoom
  <1>12. ClaimStarts'
    BY <1>2, <1>7 DEF OwnInv, Owns, ClaimStarts
  <1>13. Misled' <=> Misled
    BY <1>2 DEF Misled
  <1>14. StartsOwnRoom'
    BY <1>2, <1>7, <1>8, <1>13 DEF OwnInv, Owns, StartsOwnRoom
  <1>15. GatewayIsMine'
    <2>1. CASE ops'[o].pc = "startSent"
      <3>1. gateway' = None /\ claim' = o /\ Active(o)'
        BY <1>7, <1>8, <2>1 DEF Free
      <3> QED  BY <3>1 DEF GatewayIsMine, Mine
    <2>2. CASE ops'[o].pc # "startSent"
      <3>1. UNCHANGED <<gateway, claim>>
        BY <1>7, <2>2
      <3>2. Shows' => Shows
        BY <1>6, <1>7, <1>8, <2>2 DEF Shows
      <3>3. claim # o
        BY <1>2 DEF OwnInv, Owns, ClaimStarts
      <3>4. Mine => Mine'
        BY <1>2, <1>8, <3>1, <3>3 DEF Mine, Active
      <3> QED  BY <1>2, <1>13, <3>2, <3>4 DEF OwnInv, Owns, GatewayIsMine
    <2> QED  BY <2>1, <2>2
  <1>16. Sessions'
    BY <1>2, <1>6 DEF Sessions, OneOpenSession
  <1>17. BusyRuns'
    BY <1>7, <1>8 DEF BusyRuns, Free
  <1> QED  BY <1>9, <1>10, <1>11, <1>12, <1>14, <1>15, <1>16, <1>17 DEF Owns

\* A join answered late is released again; once a release settles, the handlers that waited for
\* it end, or are stopped.
LEMMA LateAnswerOwns == ASSUME OwnInv, NEW o \in Slots, LateAnswer(o) PROVE Owns'
  <1>1. Types /\ view \in Views
    BY DEF OwnInv, RoomInv, Types
  <1>2. /\ ~Active(o) /\ ops[o].pc \in {"joined", "refused"} /\ ops'[o].pc = "lateRelease"
        /\ ops'[o].n = ops[o].n /\ \A p \in Slots \ {o} : ops'[p] = ops[p]
        /\ UNCHANGED <<page, view, open, pendingJoin, forgotten>>
    BY <1>1, AtIs DEF LateAnswer
  <1>3. /\ (gateway' = None /\ claim' = None) \/ UNCHANGED <<gateway, claim>>
        /\ release' # None
    <2>1. ops[o].ctx.dev \in Targets
      BY <1>1, <1>2 DEF OwnInv, RoomInv, JoinsName, Asking, Types, Ops, Contexts
    <2>2. NewRelease(ops[o].ctx.dev) # None
      BY <2>1 DEF NewRelease, Releases, Asked
    <2> QED  BY <2>2 DEF LateAnswer, Releasing, Claims, gatewayVars
  <1>4. \A p \in Slots : Active(p)' <=> Active(p)
    BY <1>2 DEF Active
  <1>5. Joins' /\ WentAlone'
    BY <1>2, <1>3, <1>4 DEF OwnInv, Owns, Joins, Unanswered, WentAlone, Went, Waiting, Clear
  <1>6. StoredIsOwn'
    BY <1>2 DEF StoredIsOwn
  <1>7. HasRoom' /\ StartsOwnRoom'
    BY <1>2, <1>4 DEF OwnInv, Owns, HasRoom, StartsOwnRoom, Misled
  <1>8. ClaimStarts'
    BY <1>2, <1>3 DEF OwnInv, Owns, ClaimStarts
  <1>9. GatewayIsMine'
    <2>1. Shows' => Shows
      BY <1>2, <1>4 DEF Shows
    <2>2. (Mine => Mine') /\ (Misled => Misled')
      BY <1>2, <1>3, <1>4 DEF Mine, Misled
    <2> QED  BY <1>2, <2>1, <2>2 DEF OwnInv, Owns, GatewayIsMine
  <1>10. Sessions' /\ BusyRuns'
    BY <1>2, <1>4 DEF OwnInv, Owns, Sessions, BusyRuns, OneOpenSession
  <1> QED  BY <1>5, <1>6, <1>7, <1>8, <1>9, <1>10 DEF Owns

LEMMA ReleaseSettledOwns == ASSUME OwnInv, ReleaseSettled PROVE Owns'
  <1>1. Types /\ view \in Views /\ Pages
    BY DEF OwnInv, RoomInv, Types
  <1>2. stored' = None /\ UNCHANGED <<page, open, forgotten, gateway, claim>>
    BY DEF ReleaseSettled, gatewayVars, ghostVars
  <1>3. \A p \in Slots :
          /\ ops[p].pc \notin {"lateRelease", "stopping"} => ops'[p] = ops[p]
          /\ ops[p].pc = "lateRelease" => ops'[p].pc = "free" /\ ops'[p].n = 0
          /\ ops[p].pc = "stopping" => ops'[p].pc = "stopped" /\ ops'[p].n = ops[p].n
    <2> TAKE p \in Slots
    <2>1. ops'[p] = IF ops[p].pc = "lateRelease" THEN Free
                    ELSE IF ops[p].pc = "stopping" THEN [ops[p] EXCEPT !.pc = "stopped"] ELSE ops[p]
      BY DEF ReleaseSettled
    <2>2. Free.pc = "free" /\ Free.n = 0
      BY DEF Free
    <2> QED  BY <1>1, <2>1, <2>2 DEF Types, Ops
  <1>4. \A p \in Slots : Active(p)' <=> Active(p)
    <2>1. \A p \in Slots : ops[p].pc = "lateRelease" => ~Active(p)
      BY DEF OwnInv, Owns, Joins
    <2> QED  BY <1>1, <1>2, <1>3, <2>1 DEF Active, Pages
  <1>5. /\ pendingJoin \in Slots /\ ops[pendingJoin].pc = "lateRelease" => pendingJoin' = None
        /\ ~(pendingJoin \in Slots /\ ops[pendingJoin].pc = "lateRelease") => pendingJoin' = pendingJoin
    BY DEF ReleaseSettled
  <1>6. ShowsLess /\ view'.busy = view.busy
    <2> DEFINE v == [view EXCEPT !.gwCtx = None, !.gw = "closed"]
    <2>1. /\ v.ctx = view.ctx /\ v.joined = view.joined /\ v.session = view.session
          /\ v.stage = view.stage /\ v.retrying = view.retrying /\ v.gwCtx = None /\ v.busy = view.busy
      BY <1>1 DEF Views
    <2>2. view' = v \/ view' = view
      BY DEF ReleaseSettled
    <2> HIDE DEF v
    <2> QED  BY <2>1, <2>2 DEF ShowsLess
  <1>7. Joins'
    <2> SUFFICES ASSUME NEW p \in Slots
                 PROVE  /\ pendingJoin' = p => ops'[p].pc \in Unanswered
                        /\ ops'[p].pc \in Unanswered => pendingJoin' = p \/ ops'[p].n \in forgotten'
                        /\ ops'[p].pc # "lateRelease"
      BY DEF Joins
    <2>1. /\ pendingJoin = p => ops[p].pc \in Unanswered
          /\ ops[p].pc \in Unanswered => pendingJoin = p \/ ops[p].n \in forgotten
      BY DEF OwnInv, Owns, Joins
    <2>2. pendingJoin' = p => pendingJoin = p /\ ops[p].pc # "lateRelease"
      BY <1>5
    <2>3. ops[p].pc # "lateRelease" /\ pendingJoin = p => pendingJoin' = p
      BY <1>5
    <2>4. CASE ops[p].pc \in {"lateRelease", "stopping"}
      BY <1>3, <2>1, <2>2, <2>4 DEF Unanswered
    <2>5. CASE ops[p].pc \notin {"lateRelease", "stopping"}
      BY <1>2, <1>3, <2>1, <2>2, <2>3, <2>5 DEF Unanswered
    <2> QED  BY <2>4, <2>5
  <1>8. WentAlone'
    <2>1. Went' => Went
      BY <1>3, <1>4, <1>6 DEF Went, Waiting, ShowsLess
    <2>2. Clear => Clear'
      BY <1>4, <1>5 DEF Clear, Active
    <2> QED  BY <1>2, <2>1, <2>2 DEF OwnInv, Owns, WentAlone
  <1>9. StoredIsOwn' /\ HasRoom'
    BY <1>2, <1>3, <1>6 DEF OwnInv, Owns, StoredIsOwn, HasRoom, ShowsLess
  <1>10. ClaimStarts' /\ StartsOwnRoom'
    BY <1>2, <1>3, <1>4 DEF OwnInv, Owns, ClaimStarts, StartsOwnRoom, Misled
  <1>11. GatewayIsMine'
    <2>1. Shows' => Shows
      BY <1>3, <1>4, <1>6 DEF Shows, ShowsLess
    <2>2. (Mine => Mine') /\ (Misled => Misled')
      BY <1>2, <1>4 DEF Mine, Active, Misled
    <2> QED  BY <1>2, <2>1, <2>2 DEF OwnInv, Owns, GatewayIsMine
  <1>12. Sessions'
    BY <1>2, <1>6 DEF OwnInv, Owns, Sessions, OneOpenSession, ShowsLess
  <1>13. BusyRuns'
    BY <1>2, <1>4, <1>6 DEF OwnInv, Owns, BusyRuns
  <1> QED  BY <1>7, <1>8, <1>9, <1>10, <1>11, <1>12, <1>13 DEF Owns

\* No handler runs on the page any more: it was left, or opened just now.
Harmless(e) == e.pc \notin Unanswered \cup {"startSent", "startWait", "startWait2"}
LEMMA AnewOwns ==
  ASSUME OwnInv, NEW c \in Contexts \cup {None}, view' = FreshView(c), open' = {},
         \A p \in Slots : ~Active(p)' /\ (ops'[p] = ops[p] \/ (Harmless(ops[p]) /\ Harmless(ops'[p]))),
         page'.dev = Partner => c # None, c # None => stored' \in {None, page'.dev},
         pendingJoin' = pendingJoin, claim' \in {None, claim}, forgotten' = forgotten,
         release # None => release' # None
  PROVE  Owns'
  <1>1. /\ view'.ctx = c /\ (view'.joined => c # None) /\ view'.gwCtx = None
        /\ view'.stage = "idle" /\ view'.busy = FALSE /\ view'.retrying = FALSE
    BY DEF FreshView
  <1>2. StartsOwnRoom' /\ BusyRuns'
    BY <1>1 DEF StartsOwnRoom, BusyRuns
  <1>3. Joins'
    BY DEF OwnInv, Owns, Joins, Harmless, Unanswered
  <1>4. WentAlone' /\ GatewayIsMine'
    BY <1>1 DEF WentAlone, Went, GatewayIsMine, Shows
  <1>5. StoredIsOwn'
    BY <1>1 DEF StoredIsOwn, Roomed
  <1>6. HasRoom'
    BY <1>1 DEF OwnInv, Owns, HasRoom, Harmless
  <1>7. ClaimStarts'
    BY DEF OwnInv, Owns, ClaimStarts, Harmless
  <1>8. Sessions'
    BY <1>1 DEF Sessions, OneOpenSession
  <1> QED  BY <1>2, <1>3, <1>4, <1>5, <1>6, <1>7, <1>8 DEF Owns

LEMMA PartnerIs == Partner \in Targets /\ Partner # None
  BY DEF Targets

\* The sessions of a page that is left are closed with it.
LEMMA NoneOpen == ASSUME OwnInv PROVE open \ {view.session} = {}
  BY DEF OwnInv, Owns, Sessions, OneOpenSession

LEMMA RoomLeft ==
  ASSUME OwnInv, LeaveRoom
  PROVE  /\ claim' \in {None, claim} /\ gateway' \in {None, gateway}
         /\ release # None => release' # None
  BY DEF LeaveRoom, Releasing, Claims, gatewayVars

LEMMA OpenOwns == ASSUME OwnInv, NEW d \in Owned, Open(d) PROVE Owns'
  <1>1. open' = {}
    BY DEF Open, OwnInv, Owns, Sessions, OneOpenSession
  <1>2. \A p \in Slots : ~Active(p)'
    <2>1. page'.n = page.n + 1 /\ page.n \in Nat /\ ops' = ops
      BY DEF Open, OwnInv, RoomInv, Types
    <2>2. \A p \in Slots : ops[p].n \in Nat /\ ops[p].n <= page.n
      BY DEF OwnInv, RoomInv, Handlers, Types, Ops
    <2> QED  BY <2>1, <2>2 DEF Active
  <1>3. /\ view' = FreshView(None) /\ page'.dev # Partner /\ ops' = ops /\ release' = release
        /\ pendingJoin' = pendingJoin /\ claim' = claim /\ forgotten' = forgotten
    BY DEF Open, roomVars, gatewayVars, ghostVars
  <1> QED  BY <1>1, <1>2, <1>3, AnewOwns

LEMMA LeaveOwns == ASSUME OwnInv, Leave PROVE Owns'
  <1>1. /\ open' = {} /\ page'.dev = None /\ view' = FreshView(None) /\ ops' = ops
        /\ pendingJoin' = pendingJoin /\ claim' \in {None, claim} /\ forgotten' = forgotten
        /\ release # None => release' # None
    BY NoneOpen, RoomLeft DEF Leave, Unmount, OwnInv, RoomInv, Types
  <1>2. \A p \in Slots : ~Active(p)'
    BY <1>1 DEF Active
  <1>3. page'.dev # Partner
    BY <1>1, PartnerIs
  <1> QED  BY <1>1, <1>2, <1>3, AnewOwns

\* A stop is done; a return leaves whatever page is shown.
LEMMA StoppedOwns == ASSUME OwnInv, NEW o \in Slots, Stopped(o) PROVE Owns'
  <1>1. Types
    BY DEF OwnInv, RoomInv
  <1>2. /\ ops[o].pc = "stopped" /\ pendingJoin # o /\ pendingJoin' = pendingJoin /\ stored' = stored
        /\ ops'[o] = Free /\ \A p \in Slots \ {o} : ops'[p] = ops[p]
        /\ forgotten' = forgotten
    BY <1>1, EndedIs DEF Stopped, OwnInv, Owns, Joins, Unanswered
  <1>3. CASE Unmount
    <2>1. /\ open' = {} /\ page'.dev = None /\ view' = FreshView(None)
          /\ claim' \in {None, claim} /\ (release # None => release' # None)
      BY <1>1, <1>3, NoneOpen, RoomLeft DEF Unmount, Types
    <2>2. Harmless(ops[o]) /\ Harmless(ops'[o])
      BY <1>2 DEF Harmless, Unanswered, Free
    <2>3. \A p \in Slots : ~Active(p)'
      BY <2>1 DEF Active
    <2>4. page'.dev # Partner
      BY <2>1, PartnerIs
    <2> QED  BY <1>2, <2>1, <2>2, <2>3, <2>4, AnewOwns
  <1>4. CASE Shown(o, Idle(view)) /\ UNCHANGED <<page, open, release, overtaken, gatewayVars>>
    <2>1. Ends(o)
      BY <1>2, <1>4 DEF Stopped, Ends, Settled, gatewayVars
    <2> QED  BY <1>1, <1>2, <1>4, <2>1, ShownIdle, EndsOwns
  <1> QED  BY <1>3, <1>4 DEF Stopped

LEMMA AssistanceEndsOwns == ASSUME OwnInv, NEW o \in Slots, AssistanceEnds(o) PROVE Owns'
  <1>1. Types
    BY DEF OwnInv, RoomInv
  <1>2. /\ ops[o].pc = "unauthorized"
        /\ ops'[o] = Free /\ \A p \in Slots \ {o} : ops'[p] = ops[p]
        /\ page'.dev = None /\ view' = FreshView(None) /\ open' = open \ {view.session}
        /\ UNCHANGED <<pendingJoin, release, forgotten, stored, claim>>
    BY <1>1, EndedIs DEF AssistanceEnds, roomVars, gatewayVars, Types
  <1>3. open' = {}
    BY <1>2, NoneOpen
  <1>4. Harmless(ops[o]) /\ Harmless(ops'[o])
    BY <1>2 DEF Harmless, Unanswered, Free
  <1>5. \A p \in Slots : ~Active(p)'
    BY <1>2 DEF Active
  <1>6. page'.dev # Partner
    BY <1>2, PartnerIs
  <1> QED  BY <1>2, <1>3, <1>4, <1>5, <1>6, AnewOwns

LEMMA AssistAnswerOwns == ASSUME OwnInv, AssistAnswer PROVE Owns'
  <1> DEFINE c == [dev |-> Partner, mode |-> "plain"]
  <1>1. c \in Contexts \cup {None} /\ c # None
    <2>1. c \in Contexts
      BY DEF Contexts, Targets
    <2> QED  BY <2>1
  <1>2. /\ open' = {} /\ view' = FreshView(c) /\ ops' = ops /\ stored' = Partner /\ page'.dev = Partner
        /\ pendingJoin' = pendingJoin /\ claim' \in {None, claim} /\ forgotten' = forgotten
        /\ release # None => release' # None
    BY NoneOpen, RoomLeft DEF AssistAnswer
  <1>3. \A p \in Slots : ~Active(p)'
    <2>1. page'.n = page.n + 1 /\ page.n \in Nat /\ ops' = ops
      BY DEF AssistAnswer, OwnInv, RoomInv, Types
    <2>2. \A p \in Slots : ops[p].n \in Nat /\ ops[p].n <= page.n
      BY DEF OwnInv, RoomInv, Handlers, Types, Ops
    <2> QED  BY <2>1, <2>2 DEF Active
  <1> HIDE DEF c
  <1> QED  BY <1>1, <1>2, <1>3, AnewOwns

\* A handler begins, beside whatever other handlers still wait.
Begun(o) ==
  /\ ops[o].pc = "free" /\ ~Active(o) /\ ops'[o].n = page.n
  /\ \A p \in Slots \ {o} : ops'[p] = ops[p]
  /\ ops'[o].pc \notin Unanswered
  /\ page.dev # None
  /\ release # None => release' # None
  /\ UNCHANGED <<page, pendingJoin, forgotten, stored>>

LEMMA BegunOwns ==
  ASSUME OwnInv, NEW o \in Slots, Begun(o), view'.ctx \in {view.ctx, None},
         ops'[o].pc \in {"startWait", "startWait2"} => view.ctx # None
  PROVE  /\ \A p \in Slots : Active(p)' <=> Active(p) \/ p = o
         /\ Joins' /\ StoredIsOwn' /\ BusyRuns' /\ (Misled' <=> Misled) /\ (Clear => Clear')
  <1>1. \A p \in Slots : Active(p)' <=> Active(p) \/ p = o
    BY DEF Begun, Active
  <1>2. BusyRuns' /\ (Misled' <=> Misled)
    BY <1>1 DEF BusyRuns, Misled, Begun
  <1>3. Joins'
    <2> SUFFICES ASSUME NEW p \in Slots
                 PROVE  /\ pendingJoin' = p => ops'[p].pc \in Unanswered
                        /\ ops'[p].pc \in Unanswered => pendingJoin' = p \/ ops'[p].n \in forgotten'
                        /\ ops'[p].pc = "lateRelease" => ~Active(p)' /\ release' # None
      BY DEF Joins
    <2>1. /\ pendingJoin = p => ops[p].pc \in Unanswered
          /\ ops[p].pc \in Unanswered => pendingJoin = p \/ ops[p].n \in forgotten
          /\ ops[p].pc = "lateRelease" => ~Active(p) /\ release # None
      BY DEF OwnInv, Owns, Joins
    <2> QED  BY <1>1, <2>1 DEF Begun, Unanswered
  <1>4. StoredIsOwn'
    <2>1. Roomed' => Roomed
      BY <1>1 DEF Begun, Roomed
    <2> QED  BY <2>1 DEF OwnInv, Owns, StoredIsOwn, Begun
  <1>5. Clear => Clear'
    BY <1>1 DEF Begun, Clear
  <1> QED  BY <1>1, <1>2, <1>3, <1>4, <1>5

LEMMA BeginsBeside ==
  ASSUME OwnInv, NEW o \in Slots, NEW kind, NEW pc, NEW c, NEW r, Begin(o, kind, pc, c, r),
         Ready, pc \notin Unanswered, UNCHANGED <<page, pendingJoin, forgotten, stored>>,
         release # None => release' # None
  PROVE  Begun(o) /\ ops'[o].pc = pc /\ ops'[o].kind = kind /\ ops'[o].room = r
  <1>1. Types /\ Pages
    BY DEF OwnInv, RoomInv
  <1>2. /\ ops[o] = Free /\ (\A p \in Slots \ {o} : ops'[p] = ops[p]) /\ ops'[o].pc = pc
        /\ ops'[o].kind = kind /\ ops'[o].n = page.n /\ ops'[o].room = r
    BY <1>1, BeginIs
  <1>3. page.dev # None
    BY DEF Ready
  <1>4. ops[o].pc = "free" /\ ~Active(o)
    BY <1>1, <1>2 DEF Free, Active, Pages
  <1> QED  BY <1>2, <1>3, <1>4 DEF Begun

\* A handler that begins without a start leaves what is shown and claimed as it was.
LEMMA BegunKeeps ==
  ASSUME OwnInv, NEW o \in Slots, Begun(o), ops'[o].pc \notin {"startSent", "started"},
         claim' \in {None, claim}, gateway' \in {None, gateway}, view'.gwCtx \in {view.gwCtx, None},
         \A p \in Slots : Active(p)' <=> Active(p) \/ p = o, Misled' <=> Misled
  PROVE  ClaimStarts' /\ StartsOwnRoom' /\ GatewayIsMine'
  <1>1. ClaimStarts'
    BY DEF OwnInv, Owns, ClaimStarts, Begun
  <1>2. StartsOwnRoom'
    BY DEF OwnInv, Owns, StartsOwnRoom, Begun
  <1>3. Shows' => Shows
    BY DEF Shows, Begun
  <1>4. Mine => Mine'
    BY DEF Mine, Begun
  <1>5. GatewayIsMine'
    BY <1>3, <1>4 DEF OwnInv, Owns, GatewayIsMine, Begun
  <1> QED  BY <1>1, <1>2, <1>5

LEMMA NextActionOwns ==
  ASSUME OwnInv, NEW o \in Slots, NEW a \in BOOLEAN, NEW W \in SUBSET Occupants,
         NextAction(o, a, W)
  PROVE  Owns'
  <1>1. Types /\ view \in Views
    BY DEF OwnInv, RoomInv, Types
  <1>2. Ready /\ UNCHANGED <<page, open, pendingJoin, release, forgotten, stored, gateway, claim>>
    BY DEF NextAction, roomVars, gatewayVars, ghostVars
  <1>3. PICK pc \in {"joinWait", "startWait", "sessionWait"}, c \in Contexts \cup {None} :
          /\ Begin(o, "next", pc, c, None)
          /\ pc = "startWait" => view.ctx # None
    <2>1. Offer = "start" => view.ctx # None
      BY DEF Offer, MustJoin, OwnInv, Owns, HasRoom
    <2>2. view.ctx \in Contexts \cup {None}
      BY <1>1 DEF Views
    <2>3. CASE \E c \in Contexts : Begin(o, "next", "joinWait", c, None)
      BY <2>3
    <2>4. CASE Offer = "start" /\ Begin(o, "next", "startWait", view.ctx, None)
      BY <2>1, <2>2, <2>4
    <2>5. CASE Begin(o, "next", "sessionWait", None, None)
      BY <2>5
    <2>6. page.dev \in Targets
      BY <1>1, <1>2 DEF Ready, Types
    <2>7. \A who \in W, force \in BOOLEAN :
            [dev |-> page.dev, mode |-> JoinMode(who, force)] \in Contexts
      BY <2>6 DEF Contexts, JoinMode
    <2> QED  BY <2>3, <2>4, <2>5, <2>7 DEF NextAction
  <1>4. Begun(o) /\ ops'[o].pc = pc /\ ops'[o].kind = "next"
    BY <1>2, <1>3, BeginsBeside DEF Unanswered
  <1>5. /\ view'.ctx = view.ctx /\ view'.joined = view.joined /\ view'.gw = view.gw
        /\ view'.gwCtx = view.gwCtx /\ view'.session = view.session /\ view'.stage = view.stage
        /\ view'.retrying = view.retrying
    BY <1>1 DEF NextAction, Views
  <1>6. /\ \A p \in Slots : Active(p)' <=> Active(p) \/ p = o
        /\ Joins' /\ StoredIsOwn' /\ BusyRuns' /\ (Misled' <=> Misled) /\ (Clear => Clear')
    BY <1>3, <1>4, <1>5, BegunOwns
  <1>7. \A p \in Slots \ {o} : ops'[p] = ops[p]
    BY <1>4 DEF Begun
  <1>8. WentAlone'
    <2>1. Went' => Went
      BY <1>3, <1>4, <1>5, <1>6, <1>7 DEF Went, Waiting
    <2> QED  BY <1>2, <1>6, <2>1 DEF OwnInv, Owns, WentAlone
  <1>9. HasRoom'
    BY <1>2, <1>3, <1>4, <1>5, <1>6, <1>7 DEF OwnInv, Owns, HasRoom
  <1>10. ClaimStarts' /\ StartsOwnRoom' /\ GatewayIsMine'
    BY <1>2, <1>3, <1>4, <1>5, <1>6, BegunKeeps
  <1>11. Sessions'
    BY <1>2, <1>4, <1>5, <1>6, <1>7 DEF OwnInv, Owns, Sessions, OneOpenSession
  <1> QED  BY <1>6, <1>8, <1>9, <1>10, <1>11 DEF Owns

LEMMA ReconnectOwns ==
  ASSUME OwnInv, Ready, Went, NEW o \in Slots, NEW v \in Views, Reconnect(o, v),
         v.ctx = view.ctx, v.joined = view.joined, v.gw = view.gw, v.gwCtx = view.gwCtx
  PROVE  Owns'
  <1> DEFINE failing == ~Matches /\ page.dev = Partner /\ stored = None
             b == ~failing
             w == Resetting(v, b)
  <1>1. Types /\ view \in Views
    BY DEF OwnInv, RoomInv, Types
  <1>2. UNCHANGED <<page, pendingJoin, release, forgotten, stored>> /\ open' = {} /\ view' = w
    <2>1. view' = w
      BY Zenon DEF Reconnect, Resetting
    <2> QED  BY <2>1, NoneOpen DEF Reconnect, ghostVars
  <1>3. b \in BOOLEAN /\ (failing <=> b = FALSE)
    BY Zenon
  <1>4. /\ view'.ctx = view.ctx /\ view'.joined = view.joined /\ view'.gw = view.gw
        /\ view'.gwCtx = view.gwCtx /\ view'.stage = "idle" /\ view'.busy = b
    <2> HIDE DEF b
    <2> QED  BY <1>2, <1>3, ResettingIs
  <1>5. Clear /\ page.dev # None
    BY DEF Ready, OwnInv, Owns, WentAlone
  <1>6. \/ failing /\ UNCHANGED <<ops, gateway, claim>>
        \/ \E pc \in {"sessionWait", "joinWait"}, c \in Contexts \cup {None} :
             Begin(o, "reconnect", pc, c, None) /\ UNCHANGED <<gateway, claim>>
        \/ /\ Begin(o, "reconnect", "startSent", view.ctx, stored) /\ Claims(o)
           /\ page.dev = Partner /\ stored # None
    BY Zenon DEF Reconnect, gatewayVars
  <1> HIDE DEF b, w
  <1>7. CASE failing /\ UNCHANGED <<ops, gateway, claim>>
    <2>1. \A p \in Slots : Active(p)' <=> Active(p)
      BY <1>2, <1>7 DEF Active
    <2>2. Joins' /\ StoredIsOwn' /\ HasRoom' /\ WentAlone'
      BY <1>2, <1>4, <1>5, <1>7, <2>1
         DEF OwnInv, Owns, Joins, StoredIsOwn, HasRoom, Roomed, WentAlone, Clear
    <2>3. ClaimStarts' /\ StartsOwnRoom' /\ GatewayIsMine'
      BY <1>2, <1>4, <1>7, <2>1
         DEF OwnInv, Owns, ClaimStarts, StartsOwnRoom, GatewayIsMine, Shows, Mine, Misled
    <2>4. Sessions' /\ BusyRuns'
      BY <1>2, <1>3, <1>4, <1>7 DEF Sessions, OneOpenSession, BusyRuns
    <2> QED  BY <2>2, <2>3, <2>4 DEF Owns
  <1>8. ASSUME NEW pc \in {"sessionWait", "joinWait", "startSent"}, NEW c, NEW r,
               Begin(o, "reconnect", pc, c, r),
               \/ pc # "startSent" /\ UNCHANGED <<gateway, claim>>
               \/ /\ pc = "startSent" /\ Claims(o)
                  /\ page.dev = Partner /\ stored # None /\ r = stored
        PROVE  Owns'
    <2>1. Begun(o) /\ ops'[o].pc = pc /\ ops'[o].kind = "reconnect" /\ ops'[o].room = r
      BY <1>2, <1>8, BeginsBeside DEF Unanswered
    <2>2. /\ \A p \in Slots : Active(p)' <=> Active(p) \/ p = o
          /\ Joins' /\ StoredIsOwn' /\ BusyRuns' /\ (Misled' <=> Misled) /\ (Clear => Clear')
      BY <1>4, <2>1, BegunOwns
    <2>3. \A p \in Slots \ {o} : ops'[p] = ops[p]
      BY <2>1 DEF Begun
    <2>4. HasRoom' /\ WentAlone'
      BY <1>2, <1>4, <1>5, <2>1, <2>2, <2>3 DEF OwnInv, Owns, HasRoom, WentAlone
    <2>5. Sessions'
      BY <1>2, <1>4 DEF Sessions, OneOpenSession
    <2>6. ClaimStarts' /\ StartsOwnRoom' /\ GatewayIsMine'
      <3>1. CASE pc # "startSent"
        BY <1>4, <1>8, <2>1, <2>2, <3>1, BegunKeeps
      <3>2. CASE pc = "startSent"
        <4>1. gateway' = None /\ claim' = o /\ r = stored /\ stored # None /\ page.dev = Partner
          BY <1>8, <3>2 DEF Claims
        <4>2. stored = page.dev \/ Misled
          <5>1. Roomed
            BY <4>1 DEF OwnInv, Owns, HasRoom, Roomed
          <5>2. ASSUME NEW p \in Slots, ops[p].pc = "lateRelease" PROVE Misled
            <6>1. pendingJoin # p
              BY <1>5, <5>2 DEF OwnInv, Owns, Joins, Clear
            <6>2. ops[p].n \in forgotten
              BY <5>2, <6>1 DEF OwnInv, Owns, Joins, Unanswered
            <6> QED  BY <4>1, <6>2 DEF Misled
          <5> QED  BY <1>5, <4>1, <5>1, <5>2 DEF OwnInv, Owns, StoredIsOwn
        <4>3. ClaimStarts'
          BY <2>1, <3>2, <4>1 DEF ClaimStarts
        <4>4. StartsOwnRoom'
          BY <1>2, <2>1, <2>2, <2>3, <4>1, <4>2 DEF OwnInv, Owns, StartsOwnRoom
        <4>5. GatewayIsMine'
          BY <2>2, <4>1 DEF GatewayIsMine, Mine
        <4> QED  BY <4>3, <4>4, <4>5
      <3> QED  BY <3>1, <3>2
    <2> QED  BY <2>2, <2>4, <2>5, <2>6 DEF Owns
  <1> QED  BY <1>6, <1>7, <1>8

LEMMA StopOwns == ASSUME OwnInv, NEW o \in Slots, Stop(o) PROVE Owns'
  <1>1. Types /\ view \in Views /\ Ready
    BY DEF OwnInv, RoomInv, Types, Stop
  <1>2. PICK kind \in {"stop", "return"}, pc \in {"stopSent", "stopping"} : Begin(o, kind, pc, None, None)
    BY DEF Stop
  <1>3. /\ open' = {} /\ UNCHANGED <<pendingJoin, forgotten, stored>>
        /\ claim' \in {None, claim} /\ gateway' \in {None, gateway} /\ (release # None => release' # None)
    BY NoneOpen, RoomLeft DEF Stop, Claims
  <1>4. CASE page.dev = Partner
    <2>1. page'.dev = None /\ view' = FreshView(None)
      BY <1>1, <1>4 DEF Stop, Types
    <2>2. /\ \A p \in Slots \ {o} : ops'[p] = ops[p]
          /\ Harmless(ops[o]) /\ Harmless(ops'[o])
      BY <1>1, <1>2, BeginIs DEF Harmless, Unanswered, Free
    <2>3. \A p \in Slots : ~Active(p)'
      BY <2>1 DEF Active
    <2>4. page'.dev # Partner
      BY <2>1, PartnerIs
    <2> QED  BY <1>3, <2>1, <2>2, <2>3, <2>4, AnewOwns
  <1>5. CASE page.dev # Partner
    <2>1. page' = page /\ view' = Stopping(view, TRUE, FALSE)
      BY <1>5 DEF Stop, Stopping
    <2>2. /\ view'.ctx = None /\ view'.joined = FALSE /\ view'.gwCtx = None
          /\ view'.stage = "idle" /\ view'.retrying = FALSE
      BY <1>1, <2>1, StoppingIs
    <2>3. Begun(o) /\ ops'[o].pc = pc /\ ops'[o].kind = kind
      BY <1>1, <1>2, <1>3, <2>1, BeginsBeside DEF Unanswered
    <2>4. /\ \A p \in Slots : Active(p)' <=> Active(p) \/ p = o
          /\ Joins' /\ StoredIsOwn' /\ BusyRuns' /\ (Misled' <=> Misled) /\ (Clear => Clear')
      BY <1>2, <2>2, <2>3, BegunOwns
    <2>5. \A p \in Slots \ {o} : ops'[p] = ops[p]
      BY <2>3 DEF Begun
    <2>6. WentAlone'
      <3>1. Went' => Went
        BY <1>2, <2>2, <2>3, <2>4, <2>5 DEF Went, Waiting
      <3> QED  BY <2>1, <2>4, <3>1 DEF OwnInv, Owns, WentAlone
    <2>7. HasRoom'
      BY <1>2, <1>5, <2>1, <2>2, <2>3, <2>4, <2>5 DEF OwnInv, Owns, HasRoom
    <2>8. ClaimStarts' /\ StartsOwnRoom' /\ GatewayIsMine'
      BY <1>2, <1>3, <2>2, <2>3, <2>4, BegunKeeps
    <2>9. Sessions'
      BY <1>3, <2>2 DEF Sessions, OneOpenSession
    <2> QED  BY <2>4, <2>6, <2>7, <2>8, <2>9 DEF Owns
  <1> QED  BY <1>4, <1>5

\* The session, the gateway and the page's own state change, and no handler.
LEMMA ChangesOwns ==
  ASSUME OwnInv, UNCHANGED <<page, ops, pendingJoin, forgotten, claim>>, stored' \in {None, stored},
         gateway' \in {None, gateway}, release # None => release' # None,
         view'.ctx = view.ctx, view'.joined = view.joined, view'.session = view.session,
         view'.gwCtx = view.gwCtx,
         view'.stage # "idle" \/ view'.retrying => view.stage # "idle" \/ view.retrying,
         view'.busy = view.busy,
         \/ open' = open /\ (view'.stage \in {"starting", "connected", "broken"} =>
                               view.stage \in {"starting", "connected", "broken"})
         \/ open' = open \ {view.session} /\ view'.stage = "failed"
  PROVE  Owns'
  <1>1. \A p \in Slots : Active(p)' <=> Active(p)
    BY DEF Active
  <1>2. Joins' /\ BusyRuns'
    BY <1>1 DEF OwnInv, Owns, Joins, BusyRuns
  <1>3. WentAlone'
    <2>1. Went' => Went
      BY <1>1 DEF Went
    <2>2. Clear => Clear'
      BY <1>1 DEF Clear
    <2> QED  BY <2>1, <2>2 DEF OwnInv, Owns, WentAlone
  <1>4. StoredIsOwn' /\ HasRoom'
    BY <1>1 DEF OwnInv, Owns, StoredIsOwn, HasRoom, Roomed
  <1>5. ClaimStarts' /\ StartsOwnRoom'
    BY <1>1 DEF OwnInv, Owns, ClaimStarts, StartsOwnRoom, Misled
  <1>6. GatewayIsMine'
    <2>1. Shows' => Shows
      BY <1>1 DEF Shows
    <2>2. Mine => Mine'
      BY <1>1 DEF Mine
    <2> QED  BY <2>1, <2>2 DEF OwnInv, Owns, GatewayIsMine, Misled
  <1>7. Sessions'
    BY <1>1 DEF OwnInv, Owns, Sessions, OneOpenSession
  <1> QED  BY <1>2, <1>3, <1>4, <1>5, <1>6, <1>7 DEF Owns

LEMMA SessionChangesOwns ==
  ASSUME OwnInv, SessionConnects \/ SessionBreaks \/ SessionFails PROVE Owns'
  <1>1. PICK stage \in {"connected", "broken", "failed"} :
          /\ SessionChanges(stage, view) /\ view.stage \in {"starting", "connected"}
          /\ open' = IF stage = "failed" THEN open \ {view.session} ELSE open
    BY DEF SessionConnects, SessionBreaks, SessionFails
  <1>2. /\ view'.ctx = view.ctx /\ view'.joined = view.joined /\ view'.session = view.session
        /\ view'.gwCtx = view.gwCtx /\ view'.stage = stage
        /\ view'.busy = view.busy /\ view'.retrying = view.retrying
    BY <1>1 DEF SessionChanges, OwnInv, RoomInv, Types, Views
  <1>3. UNCHANGED <<page, ops, pendingJoin, release, forgotten, stored, gateway, claim>>
    BY <1>1 DEF SessionChanges, roomVars, gatewayVars, ghostVars
  <1> QED  BY <1>1, <1>2, <1>3, ChangesOwns

LEMMA ShowingOwns ==
  ASSUME OwnInv, HealthyFires \/ StatusPolled PROVE Owns'
  <1>1. /\ view'.ctx = view.ctx /\ view'.joined = view.joined /\ view'.session = view.session
        /\ view'.gwCtx = view.gwCtx /\ view'.stage = view.stage
        /\ view'.busy = view.busy /\ (view'.retrying => view.retrying)
    BY DEF HealthyFires, StatusPolled, OwnInv, RoomInv, Types, Views
  <1>2. UNCHANGED <<page, ops, open, pendingJoin, release, forgotten, stored, gateway, claim>>
    BY DEF HealthyFires, StatusPolled, roomVars, gatewayVars, ghostVars
  <1> QED  BY <1>1, <1>2, ChangesOwns

\* The requests of a release, and an assistance until its answer, concern nobody's page.
LEMMA OthersOwn ==
  ASSUME OwnInv, UNCHANGED <<page, view, ops, open, pendingJoin, forgotten, claim>>,
         stored' \in {None, stored}, gateway' \in {None, gateway}, release # None => release' # None
  PROVE  Owns'
  BY ChangesOwns

LEMMA ReleaseOwns ==
  ASSUME OwnInv, ReleaseStopServed \/ ReleaseClearServed \/ ReleaseRequestLost PROVE Owns'
  <1>1. release' # None
    <2>1. release' \in Releases
      BY DEF ReleaseStopServed, ReleaseClearServed, ReleaseRequestLost, OwnInv, RoomInv, Types, Releases, Asked
    <2> QED  BY <2>1
  <1> QED
    BY <1>1, OthersOwn
       DEF ReleaseStopServed, ReleaseClearServed, ReleaseRequestLost, uiVars, gatewayVars, ghostVars

LEMMA HandlerOwns == ASSUME OwnInv, NEW o \in Slots, Handler(o) PROVE Owns'
  <1>1. CASE PressNext(o)
    <2>1. view.attempted \in BOOLEAN
      BY DEF OwnInv, RoomInv, Types, Views
    <2> QED  BY <1>1, <2>1, NextActionOwns DEF PressNext
  <1>2. CASE AutoConnect(o)
    <2>1. TRUE \in BOOLEAN /\ Occupants \ {"others"} \in SUBSET Occupants
      OBVIOUS
    <2> QED  BY <1>2, <2>1, NextActionOwns, Zenon DEF AutoConnect
  <1>3. CASE PressReconnect(o)
    <2>1. Ready /\ Went /\ Reconnect(o, view) /\ view \in Views
      BY <1>3 DEF PressReconnect, Went, OwnInv, RoomInv, Types
    <2> QED  BY <2>1, ReconnectOwns
  <1>4. CASE RecoveryFires(o)
    <2> DEFINE v == [view EXCEPT !.retrying = TRUE]
    <2>1. Ready /\ Went /\ Reconnect(o, v)
      BY <1>4 DEF RecoveryFires, TimerArmed, CanRecover, Went
    <2>2. /\ v \in Views /\ v.ctx = view.ctx /\ v.joined = view.joined /\ v.gw = view.gw
          /\ v.gwCtx = view.gwCtx
      BY DEF OwnInv, RoomInv, Types, Views
    <2> HIDE DEF v
    <2> QED  BY <2>1, <2>2, ReconnectOwns
  <1>5. CASE Stop(o)
    BY <1>5, StopOwns
  <1> QED  BY <1>1, <1>2, <1>3, <1>4, <1>5 DEF Handler

LEMMA OwnsKept == ASSUME OwnInv, [Next]_vars PROVE Owns'
  <1>1. CASE UNCHANGED vars
    BY <1>1, OthersOwn DEF vars, uiVars, roomVars, gatewayVars, ghostVars
  <1>2. ASSUME NEW o \in Slots, GoesOn(o) PROVE Owns'
    BY <1>2, AwaitedOwns, JoinSendOwns, StartSendOwns, SessionCreatedOwns DEF GoesOn
  <1>3. ASSUME NEW o \in Slots, Answers(o) \/ JoinLost(o) PROVE Owns'
    BY <1>3, JoinServedOwns, LateAnswerOwns, JoinAnswerOwns, StartServedOwns, StartAnswerOwns,
       AssistanceEndsOwns, SessionStartedOwns, StopServedOwns, StoppedOwns, JoinLostOwns
       DEF Answers
  <1>4. CASE \E d \in Owned : Open(d)
    BY <1>4, OpenOwns
  <1>5. CASE Leave
    BY <1>5, LeaveOwns
  <1>6. CASE Release \/ ReleaseRequestLost
    BY <1>6, ReleaseOwns, ReleaseSettledOwns DEF Release
  <1>7. CASE AssistCall \/ AssistAwaited \/ AssistSend \/ AssistServed \/ AssistCancelled
    BY <1>7, OthersOwn
       DEF AssistCall, AssistAwaited, AssistSend, AssistServed, AssistCancelled, uiVars, roomVars,
           gatewayVars, ghostVars
  <1>8. CASE AssistAnswer
    BY <1>8, AssistAnswerOwns
  <1>9. CASE HealthyFires \/ StatusPolled
    BY <1>9, ShowingOwns
  <1>10. CASE SessionConnects \/ SessionBreaks \/ SessionFails
    BY <1>10, SessionChangesOwns
  <1>11. CASE GatewayDrops
    BY <1>11, OthersOwn DEF GatewayDrops, uiVars, ghostVars
  <1> QED
    BY <1>1, <1>2, <1>3, <1>4, <1>5, <1>6, <1>7, <1>8, <1>9, <1>10, <1>11, HandlerOwns
       DEF Next, AssistGoesOn, Event, Assistance

LEMMA OwnsInit == Init => Owns
  <1> SUFFICES ASSUME Init PROVE Owns
    OBVIOUS
  <1>1. /\ page.dev = None /\ open = {} /\ pendingJoin = None /\ claim = None /\ stored = None
        /\ \A o \in Slots : ops[o].pc = "free" /\ ~Active(o)
    BY DEF Init, Active, Free
  <1>2. view.ctx = None /\ view.joined = FALSE /\ view.stage = "idle" /\ view.busy = FALSE
    BY DEF Init, FreshView
  <1>3. WentAlone /\ StoredIsOwn /\ StartsOwnRoom /\ GatewayIsMine
    BY <1>1 DEF WentAlone, StoredIsOwn, StartsOwnRoom, GatewayIsMine
  <1>4. Joins
    BY <1>1 DEF Joins, Unanswered
  <1>5. HasRoom /\ ClaimStarts /\ BusyRuns
    BY <1>1, <1>2, PartnerIs DEF HasRoom, ClaimStarts, BusyRuns
  <1>6. Sessions
    BY <1>1, <1>2 DEF Sessions, OneOpenSession
  <1> QED  BY <1>3, <1>4, <1>5, <1>6 DEF Owns

LEMMA OwnInvHolds == Spec => []OwnInv
  <1>1. Init => OwnInv
    BY RoomInvInit, OwnsInit DEF OwnInv
  <1>2. OwnInv /\ [Next]_vars => OwnInv'
    BY RoomInvKept, OwnsKept DEF OwnInv
  <1> QED  BY <1>1, <1>2, PTL DEF Spec

\* However handlers overlap, nest and outlive their page: no session of another page or handler
\* stays open, a start sends the page's own room, the gateway shown as started is the room's, and a
\* page at rest offers a step it can take; a partner's page is excepted once a join was forgotten.
\* (joinRoomForDevice, startRemoteSignalGateway and the handlers of useRemoteControlController.)
THEOREM PageOwns == Spec => []PageOwnsWhatRuns
  <1>1. OwnInv => PageOwnsWhatRuns
    <2> SUFFICES ASSUME OwnInv PROVE PageOwnsWhatRuns
      OBVIOUS
    <2>1. OneOpenSession /\ StartsOwnRoom
      BY DEF OwnInv, Owns, Sessions
    <2>2. ASSUME Calm, page.dev # None PROVE \A o \in Slots : ~Active(o)
      <3>1. page.n > 0 /\ page.n \in Nat
        BY <2>2 DEF OwnInv, RoomInv, Pages, Types
      <3> QED  BY <2>2, <3>1 DEF Calm, Active, Free
    <2>3. ShownGatewayIsOwn
      <3> SUFFICES ASSUME Calm, page.dev # None, Matches, view.ctx # None
                   PROVE  gateway \in {view.ctx.dev, None} \/ Misled
        BY DEF ShownGatewayIsOwn
      <3>1. view.gwCtx # None
        BY DEF Matches, SameRoom
      <3>2. view.ctx.dev = page.dev
        BY DEF OwnInv, RoomInv, Pages
      <3> QED  BY <3>1, <3>2 DEF OwnInv, Owns, GatewayIsMine, Mine, Shows
    <2>4. OffersAreReal
      <3> SUFFICES ASSUME Calm, page.dev # None
                   PROVE  ~view.busy /\ (Offer \in {"wait", "operate"} => view.session \in open)
        BY DEF OffersAreReal
      <3>1. ~view.busy
        BY <2>2 DEF OwnInv, Owns, BusyRuns
      <3>2. view.stage \in {"idle", "starting", "connected", "broken", "failed"}
        BY DEF OwnInv, RoomInv, Types, Views
      <3>3. Offer \in {"wait", "operate"} => view.stage \notin {"idle", "failed"}
        BY DEF Offer
      <3> QED  BY <3>1, <3>2, <3>3 DEF OwnInv, Owns, Sessions
    <2> QED  BY <2>1, <2>3, <2>4 DEF PageOwnsWhatRuns
  <1> QED  BY <1>1, OwnInvHolds, PTL

\* A join is sent by JoinSend, and by nothing else.
Unsent == \A q \in Slots : ops'[q].pc = "joinSent" => ops[q].pc = "joinSent"
LEMMA GoingUnsent ==
  ASSUME Types, NEW p \in Slots,
         \/ \E pc \in Places \ {"joinSent"} : At(p, pc)
         \/ \E pc \in Places \ {"joinSent"}, r \in Targets \cup Session : GoesOnTo(p, pc, r)
         \/ Ended(p) \/ Resumes(p)
         \/ UNCHANGED ops
  PROVE  Unsent
  <1>1. CASE \E pc \in Places \ {"joinSent"} : At(p, pc)
    BY <1>1, AtIs DEF Unsent
  <1>2. CASE \E pc \in Places \ {"joinSent"}, r \in Targets \cup Session : GoesOnTo(p, pc, r)
    BY <1>2, GoesOnMoves DEF Unsent
  <1>3. CASE Ended(p)
    BY <1>3, EndedIs DEF Unsent, Free
  <1>4. CASE Resumes(p)
    BY <1>4, ResumesIs DEF Unsent
  <1>5. CASE UNCHANGED ops
    BY <1>5 DEF Unsent
  <1> QED  BY <1>1, <1>2, <1>3, <1>4, <1>5

LEMMA BeginUnsent ==
  ASSUME Types, NEW p \in Slots, NEW kind, NEW pc, NEW c, NEW r, Begin(p, kind, pc, c, r), pc # "joinSent"
  PROVE  Unsent
  BY BeginIs DEF Unsent

LEMMA OnlyJoinSend ==
  ASSUME Types, JoinsName, [Next]_vars, \A p \in Slots : ~JoinSend(p)
  PROVE  Unsent
  <1>1. ASSUME NEW p \in Slots, Handler(p) PROVE Unsent
    <2>1. \/ \E kind, c, r : \E pc \in Places \ {"joinSent"} : Begin(p, kind, pc, c, r)
          \/ UNCHANGED ops
      <3>1. {"joinWait", "startWait", "sessionWait", "startSent", "stopSent", "stopping"}
              \subseteq Places \ {"joinSent"}
        BY DEF Places
      <3> QED
        BY <1>1, <3>1, Zenon
           DEF Handler, PressNext, AutoConnect, NextAction, PressReconnect, RecoveryFires, Reconnect, Stop
    <2> QED  BY <2>1, BeginUnsent, GoingUnsent
  <1>2. ASSUME NEW p \in Slots, GoesOn(p) \/ Answers(p) \/ JoinLost(p) PROVE Unsent
    <2>1. {"joinWait2", "startWait2", "sessionWait2", "joined", "refused", "lateRelease", "startWait",
           "started", "startFailed", "unauthorized", "overruled", "startLost", "sessionWait", "startSent",
           "sessionStarting", "stopped"} \subseteq Places \ {"joinSent"}
      BY DEF Places
    <2>2. CASE JoinAwaited(p) \/ JoinServed(p) \/ LateAnswer(p) \/ StopServed(p)
      BY <2>1, <2>2, GoingUnsent DEF JoinAwaited, JoinServed, LateAnswer, StopServed
    <2>3. CASE JoinAnswer(p)
      <3>1. At(p, "startWait") \/ Restarts(p) \/ Ended(p)
        BY <2>3, Zenon DEF JoinAnswer, Restarts
      <3>2. CASE Restarts(p)
        <4>1. /\ ops[p].ctx.dev \in Targets \cup Session \cup {None} /\ "startSent" \in Places
              /\ ops[p].was \in Contexts \cup {None}
          BY <2>3 DEF JoinAnswer, JoinsName, Asking, Types, Ops, Contexts, Places
        <4>2. Moves(p, "startSent", ops[p].was, None, ops[p].ctx.dev)
          BY <3>2, RestartsMoves
        <4>3. ops'[p].pc = "startSent" /\ \A q \in Slots \ {p} : ops'[q] = ops[q]
          BY <4>1, <4>2, MovesIs
        <4> QED  BY <4>3 DEF Unsent
      <3> QED  BY <2>1, <3>1, <3>2, GoingUnsent
    <2>4. CASE StartSend(p)
      BY <2>1, <2>4, GoingUnsent DEF StartSend, GoesOnTo, Types
    <2>5. CASE StartServed(p) \/ AssistanceEnds(p)
      BY <2>1, <2>5, GoingUnsent DEF StartServed, AssistanceEnds
    <2>6. CASE StartAnswer(p)
      BY <2>6, AnswerIs, GoingUnsent
    <2>7. CASE SessionCreated(p)
      BY <2>1, <2>7, GoingUnsent DEF SessionCreated, GoesOnTo
    <2>8. CASE SessionStarted(p) \/ Stopped(p) \/ JoinLost(p)
      BY <2>8, GoingUnsent DEF SessionStarted, Stopped, JoinLost
    <2> QED  BY <1>2, <2>2, <2>3, <2>4, <2>5, <2>6, <2>7, <2>8 DEF GoesOn, Answers
  <1>3. CASE ReleaseSettled
    <2> SUFFICES ASSUME NEW p \in Slots, ops'[p].pc = "joinSent" PROVE ops[p].pc = "joinSent"
      BY DEF Unsent
    <2>1. ops'[p] = Free \/ ops'[p] = [ops[p] EXCEPT !.pc = "stopped"] \/ ops'[p] = ops[p]
      BY <1>3 DEF ReleaseSettled
    <2>2. CASE ops'[p] = [ops[p] EXCEPT !.pc = "stopped"]
      <3>1. ops'[p].pc = "stopped"
        BY <2>2 DEF Types, Ops
      <3> QED  BY <3>1
    <2> QED  BY <2>1, <2>2 DEF Free
  <1>4. CASE UNCHANGED ops
    BY <1>4 DEF Unsent
  <1> QED
    BY <1>1, <1>2, <1>3, <1>4
       DEF Next, Event, AssistGoesOn, Release, Assistance, Open, Leave, ReleaseStopServed,
           ReleaseClearServed, ReleaseRequestLost, AssistCall, AssistAwaited, AssistSend, AssistServed,
           AssistAnswer, AssistCancelled, HealthyFires, SessionConnects, SessionBreaks, SessionFails,
           SessionChanges, GatewayDrops, StatusPolled, uiVars, vars

\* A join is sent only when no release is outstanding, nor any join of an earlier page that
\* pendingJoin still remembers, also where the handlers of a page overlap (waitForRoomRelease).
THEOREM JoinsWait == Spec => JoinsAreOrdered
  <1>1. ASSUME OwnInv, [Next]_vars, NEW o \in Slots, ops'[o].pc = "joinSent", ops[o].pc # "joinSent"
        PROVE  release = None /\ ~Outstanding(ops[o].n)
    <2>1. PICK p \in Slots : JoinSend(p)
      BY <1>1, OnlyJoinSend DEF OwnInv, RoomInv, Unsent
    <2>2. release = None /\ ops[p].pc = "joinWait2"
      BY <2>1 DEF JoinSend, Awaited
    <2>3. p = o /\ Active(p)
      <3>1. Types
        BY <1>1 DEF OwnInv, RoomInv
      <3>2. \A q \in Slots \ {p} : ops'[q] = ops[q]
        BY <2>1, <3>1, AtIs, EndedIs DEF JoinSend
      <3>3. ~Active(p) => ops'[p].pc = "free"
        BY <2>1, <3>1, EndedIs DEF JoinSend, Free
      <3> QED  BY <1>1, <3>2, <3>3
    <2>4. Clear
      BY <1>1, <2>2, <2>3 DEF OwnInv, Owns, WentAlone, Went, Waiting, Active
    <2>5. ASSUME NEW q \in Slots, ops[q].n < ops[o].n, ops[q].n \notin forgotten,
                 ops[q].pc \in Unanswered
          PROVE  FALSE
      <3>1. Active(q)
        BY <1>1, <2>4, <2>5 DEF OwnInv, Owns, Joins, Clear
      <3>2. ops[q].n = ops[o].n /\ ops[o].n \in Nat
        BY <1>1, <2>3, <3>1 DEF Active, OwnInv, RoomInv, Types, Ops
      <3> QED  BY <2>5, <3>2
    <2>6. ~Outstanding(ops[o].n)
      BY <2>5 DEF Outstanding, Unanswered
    <2> QED  BY <2>2, <2>6
  <1>2. OwnInv /\ [Next]_vars =>
          [\A o \in Slots : ops'[o].pc = "joinSent" /\ ops[o].pc # "joinSent"
             => release = None /\ ~Outstanding(ops[o].n)]_vars
    BY <1>1
  <1> QED  BY <1>2, OwnInvHolds, PTL DEF Spec, JoinsAreOrdered
=============================================================================
