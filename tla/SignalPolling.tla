----------------------------- MODULE SignalPolling -----------------------------
(***************************************************************************)
(* How the page reads the events of its gateway:                           *)
(* useSignalGatewayController (frontend/src/controllers), with the         *)
(* operations of remoteRoomLifecycle.ts and useRemoteControlController.ts  *)
(* that reset it, and as much of the gateway as a read can see.            *)
(*                                                                         *)
(* A read is one refreshSignalEvents(): two requests which the gateway     *)
(* serves separately, then the hand-over to the browser session, then the  *)
(* connection statistics.  Each is an await, so reads overlap each other,  *)
(* a reset, and the claim of a new start.  The gateway's status is a       *)
(* version number that grows with every change of it.                      *)
(***************************************************************************)
EXTENDS Naturals, FiniteSets, FiniteSetsExt

CONSTANTS
  Reads,        \* the reads that may be in flight at once
  None,         \* no session, no answer yet, no status shown
  RestartsIds,  \* a start numbers its events from 1 (Node) or goes on (Worker)
  Budgets       \* bounds: how many inbound events, starts and stops of the gateway,
                \* browser sessions opened, status changes between starts and
                \* requests that fail a behaviour may have

ASSUME NoneAssumption   == None \notin Nat
ASSUME RestartAssumption == RestartsIds \in BOOLEAN
ASSUME BudgetAssumption ==
  Budgets \subseteq [events : Nat, starts : Nat, sessions : Nat, troubles : Nat]

VARIABLES
  \* the gateway
  log,         \* the events it holds: [id, run]
  nextId,      \* the id of the next event
  run,         \* claims and stops so far
  open,        \* there is a connection events can come from
  version,     \* version of the status
  budget, troubles, born,  \* the bounds and how much is used; born: sessions opened
  \* the page
  op,          \* the gateway operation in progress
  reply,       \* the status version an answered start carries
  context,     \* signalGatewayContext is set: the polling effect runs
  cursor,      \* lastSignalEventIdRef
  generation,  \* generationRef
  shown,       \* signalGatewayStatus
  session,     \* browserSessionRef.current
  given,       \* events the present session was handed
  older,       \* history: events that were there before the present session
  \* the reads
  pc, owner, readGen, readSession, after, batch, diagnostics

gatewayVars == <<log, nextId, run, open, version>>
budgetVars == <<budget, troubles, born>>
pageVars == <<op, reply, context, cursor, generation, shown>>
sessionVars == <<session, given, older>>
readVars == <<pc, owner, readGen, readSession, after, batch, diagnostics>>
vars == <<gatewayVars, budgetVars, pageVars, sessionVars, readVars>>

Events == [id : Nat, run : Nat]

TypeOK ==
  /\ log \subseteq Events /\ nextId \in Nat /\ run \in Nat
  /\ open \in BOOLEAN /\ version \in Nat
  /\ budget \in Budgets /\ troubles \in 0..budget.troubles /\ born \in 0..budget.sessions
  /\ op \in {"none", "starting", "claimed", "answered", "stopping", "stopped", "left"}
  /\ context \in BOOLEAN /\ cursor \in Nat /\ generation \in Nat
  /\ shown \in Nat \cup {None} /\ reply \in Nat
  /\ session \in 1..budget.sessions \cup {None}
  /\ given \subseteq Events /\ older \subseteq Events
  /\ pc \in [Reads -> {"idle", "asked", "applying", "sampling"}]
  /\ owner \in [Reads -> {"effect", "former", "caller"}]
  /\ readGen \in [Reads -> Nat]
  /\ readSession \in [Reads -> 1..budget.sessions \cup {None}]
  /\ after \in [Reads -> Nat]
  /\ \A p \in Reads : batch[p] = {None} \/ batch[p] \subseteq Events
  /\ diagnostics \in [Reads -> Nat \cup {None}]
  /\ \A p \in Reads : pc[p] \in {"applying", "sampling"} => diagnostics[p] # None

Unserved == {None}

Init ==
  /\ log = {} /\ nextId = 1 /\ run = 0 /\ open = FALSE /\ version = 0
  /\ budget \in Budgets /\ troubles = 0 /\ born = 0
  /\ op = "none" /\ reply = 0 /\ context = FALSE /\ cursor = 0 /\ generation = 0 /\ shown = None
  /\ session = None /\ given = {} /\ older = {}
  /\ pc = [p \in Reads |-> "idle"]
  /\ owner = [p \in Reads |-> "caller"]
  /\ readGen = [p \in Reads |-> 0]
  /\ readSession = [p \in Reads |-> None]
  /\ after = [p \in Reads |-> 0]
  /\ batch = [p \in Reads |-> Unserved]
  /\ diagnostics = [p \in Reads |-> None]

-----------------------------------------------------------------------------
(* The gateway. *)

Event ==
  /\ open /\ nextId <= budget.events
  /\ log' = log \cup {[id |-> nextId, run |-> run]}
  /\ nextId' = nextId + 1
  /\ UNCHANGED <<run, open, version, budgetVars, pageVars, sessionVars, readVars>>

\* The connection drops, comes back or fails over: only the status tells.
StatusChanges ==
  /\ run > 0 /\ troubles < budget.troubles
  /\ troubles' = troubles + 1 /\ version' = version + 1
  /\ UNCHANGED <<log, nextId, run, open, budget, born, pageVars, sessionVars, readVars>>

-----------------------------------------------------------------------------
(* A read. *)

\* isCurrent(): nothing was reset, and the browser session is still the same.
FaultyIsCurrent(p) == readSession[p] = session
FaultySameVersion(p) == readGen[p] = generation
IsCurrent(p) == readGen[p] = generation /\ readSession[p] = session

\* The effect forgets its former reads when it runs again (the stage changed,
\* or the context): they go on, and the new one does not know of them.
Rerun(stillOn) ==
  owner' = IF stillOn /\ context THEN owner
           ELSE [p \in Reads |-> IF owner[p] = "effect" THEN "former" ELSE owner[p]]

Ask(p, who) ==
  /\ pc[p] = "idle"
  /\ pc' = [pc EXCEPT ![p] = "asked"]
  /\ owner' = [owner EXCEPT ![p] = who]
  /\ readGen' = [readGen EXCEPT ![p] = generation]
  /\ readSession' = [readSession EXCEPT ![p] = session]
  /\ after' = [after EXCEPT ![p] = cursor]
  /\ batch' = [batch EXCEPT ![p] = Unserved]
  /\ diagnostics' = [diagnostics EXCEPT ![p] = None]
  /\ UNCHANGED <<gatewayVars, budgetVars, pageVars, sessionVars>>

\* The timer of the polling effect; "syncing" stops a second read of the same effect.
Poll(p) ==
  /\ context
  /\ \A q \in Reads : owner[q] = "effect" => pc[q] = "idle"
  /\ Ask(p, "effect")

\* startBrowserRemoteSession() reads once itself when the session has started.
CallRead(p) == session # None /\ op = "none" /\ Ask(p, "caller")

StageChanges ==
  /\ context /\ \E p \in Reads : owner[p] = "effect" /\ pc[p] # "idle"
  /\ Rerun(FALSE)
  /\ UNCHANGED <<gatewayVars, budgetVars, pageVars, sessionVars,
                 pc, readGen, readSession, after, batch, diagnostics>>

ServeEvents(p) ==
  /\ pc[p] = "asked" /\ batch[p] = Unserved
  /\ batch' = [batch EXCEPT ![p] = {e \in log : e.id > after[p]}]
  /\ after' = [after EXCEPT ![p] = 0]
  /\ UNCHANGED <<gatewayVars, budgetVars, pageVars, sessionVars,
                 pc, owner, readGen, readSession, diagnostics>>

ServeDiagnostics(p) ==
  /\ pc[p] = "asked" /\ diagnostics[p] = None
  /\ diagnostics' = [diagnostics EXCEPT ![p] = version]
  /\ UNCHANGED <<gatewayVars, budgetVars, pageVars, sessionVars,
                 pc, owner, readGen, readSession, after, batch>>

\* The read is over; its answers are forgotten.
Over(p) ==
  /\ pc' = [pc EXCEPT ![p] = "idle"]
  /\ owner' = [owner EXCEPT ![p] = "caller"]
  /\ readGen' = [readGen EXCEPT ![p] = 0]
  /\ readSession' = [readSession EXCEPT ![p] = None]
  /\ after' = [after EXCEPT ![p] = 0]
  /\ batch' = [batch EXCEPT ![p] = Unserved]
  /\ diagnostics' = [diagnostics EXCEPT ![p] = None]

\* The events are handed over by now, only the diagnostics are still needed.
MoveTo(p, place) ==
  /\ pc' = [pc EXCEPT ![p] = place]
  /\ batch' = [batch EXCEPT ![p] = Unserved]
  /\ UNCHANGED <<owner, readGen, readSession, after, diagnostics>>

\* Promise.all: a read goes on with both answers.
BothServed(p) == batch[p] # Unserved /\ diagnostics[p] # None

CursorAfter(p) == Max({cursor} \cup {e.id : e \in batch[p]})

\* Both answers are in.
Receive(p) ==
  /\ pc[p] = "asked" /\ BothServed(p)
  /\ IsCurrent(p)
  /\ IF batch[p] # {}
     THEN /\ cursor' = CursorAfter(p)
          /\ given' = IF session # None /\ readSession[p] = session
                      THEN given \cup batch[p] ELSE given
          /\ MoveTo(p, "applying")
     ELSE /\ MoveTo(p, "sampling")
          /\ UNCHANGED <<cursor, given>>
  /\ UNCHANGED <<gatewayVars, budgetVars, op, reply, context, generation, shown, session, older>>

\* applySignalEvents() returned.
Applied(p) ==
  /\ pc[p] = "applying" /\ IsCurrent(p)
  /\ MoveTo(p, "sampling")
  /\ UNCHANGED <<gatewayVars, budgetVars, pageVars, sessionVars>>

\* refreshConnectionStats() returned, or there is no session to ask.
FaultySampled(p) ==
  /\ pc[p] = "sampling" /\ IsCurrent(p)
  /\ shown' = IF shown = None \/ session = None THEN shown ELSE diagnostics[p]
  /\ Over(p)
  /\ UNCHANGED <<gatewayVars, budgetVars, op, reply, context, cursor, generation, sessionVars>>

Sampled(p) ==
  /\ pc[p] = "sampling" /\ IsCurrent(p)
  /\ shown' = IF shown = None THEN None ELSE diagnostics[p]
  /\ Over(p)
  /\ UNCHANGED <<gatewayVars, budgetVars, op, reply, context, cursor, generation, sessionVars>>

\* Whatever a read waited for, it ends when it is no longer current.
Discarded(p) ==
  /\ \/ pc[p] = "asked" /\ BothServed(p)
     \/ pc[p] \in {"applying", "sampling"}
  /\ ~IsCurrent(p)
  /\ Over(p)
  /\ UNCHANGED <<gatewayVars, budgetVars, pageVars, sessionVars>>

\* A request is refused or runs into its deadline, or the session throws.
Fails(p) ==
  /\ pc[p] \in {"asked", "applying"} /\ troubles < budget.troubles
  /\ troubles' = troubles + 1
  /\ Over(p)
  /\ UNCHANGED <<gatewayVars, budget, born, pageVars, sessionVars>>

-----------------------------------------------------------------------------
(* Operations of the page. *)

\* resetSignalEvents()
ResetSignalEvents == cursor' = 0 /\ generation' = generation + 1

NoSession == session' = None /\ given' = {} /\ older' = {}

\* createBrowserRemoteSession(), once the gateway is connected.
SessionStarts ==
  /\ op = "none" /\ context /\ born < budget.sessions
  /\ born' = born + 1 /\ session' = born'
  /\ given' = {} /\ older' = log
  /\ UNCHANGED <<gatewayVars, budget, troubles, pageVars, readVars>>

\* resetBrowserRemoteSession(), by a reconnect or a failure.
SessionCloses ==
  /\ session # None /\ op = "none" /\ NoSession
  /\ UNCHANGED <<gatewayVars, budgetVars, pageVars, readVars>>

\* joinRoomForDevice() succeeded: resetSignalGateway() and no session.
Joined ==
  /\ op \in {"none", "stopped"} /\ context
  /\ op' = "none" /\ context' = FALSE /\ shown' = None
  /\ ResetSignalEvents /\ NoSession /\ Rerun(FALSE)
  /\ UNCHANGED <<gatewayVars, budgetVars, reply, pc, readGen, readSession, after, batch, diagnostics>>

\* startSignalGateway() resets, then asks; the polling goes on meanwhile.
StartSent ==
  /\ op \in {"none", "stopped"} /\ run < budget.starts
  /\ op' = "starting" /\ ResetSignalEvents
  /\ UNCHANGED <<gatewayVars, budgetVars, reply, context, shown, sessionVars, readVars>>

\* The gateway lets go of the old connection and clears its events.
Clears ==
  /\ log' = {} /\ run' = run + 1 /\ version' = version + 1
  /\ nextId' = IF RestartsIds THEN 1 ELSE nextId

StartClaims ==
  /\ op = "starting" /\ Clears /\ open' = FALSE
  /\ op' = "claimed"
  /\ UNCHANGED <<budgetVars, reply, context, cursor, generation, shown, sessionVars, readVars>>

\* The gateway connects, or gives up, and answers with the status it has then.
StartServed(connected) ==
  /\ op = "claimed"
  /\ op' = "answered" /\ open' = connected
  /\ version' = version + 1 /\ reply' = version'
  /\ UNCHANGED <<log, nextId, run, budgetVars, context, cursor, generation, shown, sessionVars, readVars>>

StartAnswered ==
  /\ op = "answered"
  /\ op' = "none" /\ context' = open /\ shown' = reply /\ reply' = 0
  /\ Rerun(open)
  /\ UNCHANGED <<gatewayVars, budgetVars, cursor, generation, sessionVars,
                 pc, readGen, readSession, after, batch, diagnostics>>

\* The request is lost on the way: nothing else of the page changes.
StartLost ==
  /\ op = "starting" /\ troubles < budget.troubles
  /\ troubles' = troubles + 1 /\ op' = "none"
  /\ UNCHANGED <<gatewayVars, budget, born, reply, context, cursor, generation, shown, sessionVars, readVars>>

StopSent ==
  /\ op = "none" /\ run > 0 /\ run < budget.starts
  /\ op' = "stopping" /\ context' = FALSE
  /\ ResetSignalEvents /\ NoSession /\ Rerun(FALSE)
  /\ UNCHANGED <<gatewayVars, budgetVars, reply, shown, pc, readGen, readSession, after, batch, diagnostics>>

Stopped ==
  /\ op = "stopping" /\ Clears /\ open' = FALSE
  /\ op' = "stopped" /\ shown' = version' /\ context' = FALSE
  /\ ResetSignalEvents
  /\ UNCHANGED <<budgetVars, reply, sessionVars, readVars>>

\* The page is left: the effects are cleaned up.
Leave ==
  /\ op \in {"none", "stopped"}
  /\ op' = "left" /\ context' = FALSE /\ generation' = generation + 1
  /\ NoSession /\ Rerun(FALSE)
  /\ UNCHANGED <<gatewayVars, budgetVars, reply, cursor, shown, pc, readGen, readSession, after, batch, diagnostics>>

-----------------------------------------------------------------------------
Read(p) == Receive(p) \/ Applied(p) \/ Sampled(p) \/ Discarded(p)
Answers(p) == ServeEvents(p) \/ ServeDiagnostics(p)
Settles == StartClaims \/ (\E connected \in BOOLEAN : StartServed(connected)) \/ StartAnswered \/ Stopped

Next ==
  \/ Event \/ StatusChanges
  \/ \E p \in Reads : Poll(p) \/ CallRead(p) \/ Answers(p) \/ Read(p) \/ Fails(p)
  \/ StageChanges \/ SessionStarts \/ SessionCloses \/ Joined
  \/ StartSent \/ StartLost \/ StopSent \/ Leave \/ Settles

Spec == Init /\ [][Next]_vars

\* Requests have a deadline of 35 s, WebRTC answers, the interval keeps firing.
Fairness ==
  /\ \A p \in Reads : WF_vars(ServeEvents(p)) /\ WF_vars(ServeDiagnostics(p)) /\ WF_vars(Read(p))
  /\ WF_vars(\E p \in Reads : Poll(p))
  /\ WF_vars(Settles)

FairSpec == Spec /\ Fairness

-----------------------------------------------------------------------------
(* Properties. *)

\* No event is withheld: what the cursor has passed, and so will never be read again, the
\* present browser session was handed, unless it is older than the session.  The audit
\* (docs/project-audit-2026-09-05.zh-CN.md, CON-04) asks this of reads that overlap a reset.
NothingWithheld ==
  session # None => \A e \in log : e.id <= cursor => e \in given \cup older

\* Reads still in flight when the gateway was stopped or the page was left change nothing.
NothingAfterStop ==
  [][(op \in {"stopped", "left"} /\ op' = op) => UNCHANGED <<cursor, shown, given>>]_vars

\* The status on the page catches up with the gateway's whenever polling goes on for good.
StatusConverges ==
  <>[](context /\ op = "none") => <>[](shown = version)
=============================================================================
