----------------------------- MODULE SignalGateway -----------------------------
(***************************************************************************)
(* What a signal gateway promises the page it serves, whichever program    *)
(* implements it: the Node service (RemoteControlService) and the          *)
(* Cloudflare Durable Object (SignalSession) are both shown to implement   *)
(* this specification.                                                     *)
(*                                                                         *)
(* A session begins once, owns the gateway until a newer one begins or it  *)
(* is ended, and is never revived: only the owner moves the status and     *)
(* adds to the event log, and a new owner starts from an empty log.        *)
(***************************************************************************)
CONSTANTS
  Sessions,     \* the sessions that may ever begin
  None          \* no owner

VARIABLES
  current,      \* the session that owns the gateway, None when there is none
  started,      \* the sessions that have begun
  status,       \* what a status request answers: phase, and the session it is about
  log           \* the sessions whose events an events request answers

vars == <<current, started, status, log>>

Phases == {"idle", "connecting", "connected", "closed", "error"}

TypeOK ==
  /\ current \in Sessions \cup {None}
  /\ started \subseteq Sessions
  /\ status \in [phase : Phases, session : Sessions \cup {None}]
  /\ log \subseteq Sessions

Init ==
  /\ current = None
  /\ started = {}
  /\ status = [phase |-> "idle", session |-> None]
  /\ log = {}

(* A start is admitted: it takes the gateway over, with nothing left of the  *)
(* session before it.                                                       *)
Begin(s) ==
  /\ s \notin started
  /\ current' = s
  /\ started' = started \cup {s}
  /\ status' = [phase |-> "connecting", session |-> s]
  /\ log' = {}

(* The owner's connection comes up, breaks, comes back or is given up.       *)
Progress ==
  /\ current # None
  /\ \E phase \in Phases \ {"idle"} : status' = [phase |-> phase, session |-> current]
  /\ UNCHANGED <<current, started, log>>

(* The owner's messages are recorded; older ones may fall out.               *)
Observe ==
  /\ current # None
  /\ \E kept \in SUBSET (log \cup {current}) : log' = kept
  /\ UNCHANGED <<current, started, status>>

(* The page stops the gateway, or leaves it alone for too long.              *)
End ==
  /\ current' = None
  /\ status' \in [phase : {"closed"}, session : {status.session, None}]
  /\ log' \in {log, {}}
  /\ UNCHANGED started

(* Events grow older than the retention period.                              *)
Forget ==
  /\ \E kept \in SUBSET log : log' = kept
  /\ UNCHANGED <<current, started, status>>

(* The instance is lost: nobody owns what it leaves behind.                  *)
Lose ==
  /\ current' = None
  /\ UNCHANGED <<started, status, log>>

(* A status that outlived its instance is put right when it is read.         *)
Correct ==
  /\ current = None
  /\ status.phase = "connected"
  /\ status' = [status EXCEPT !.phase = "closed"]
  /\ UNCHANGED <<current, started, log>>

Next ==
  \/ \E s \in Sessions : Begin(s)
  \/ Progress \/ Observe \/ End \/ Forget \/ Lose \/ Correct

Spec == Init /\ [][Next]_vars

-----------------------------------------------------------------------------
(* Status and events are about one session: a page that polls the two never  *)
(* sees a status of one session beside events of another.                   *)
StatusAndEventsAgree ==
  /\ current # None => status.session = current
  /\ status.session # None => log \subseteq {status.session}

(* A session that lost the gateway never comes back.                         *)
NeverRevived ==
  [][\A s \in Sessions : s \in started /\ current # s => current' # s]_vars
=============================================================================
