---------------------- MODULE RemoteControlServiceProofs ----------------------
(***************************************************************************)
(* What holds of the Node signal gateway for any set of requests, any      *)
(* number of signal servers, with or without a room config source.         *)
(***************************************************************************)
EXTENDS RemoteControlService, TLAPS

USE RequestsAssumption, ServersAssumption, SourceAssumption

(* Sequence numbers and generations: a claim takes a fresh generation, and   *)
(* no claimed request was issued after the authoritative one.               *)
Numbering ==
  /\ authSeq <= nextSeq
  /\ \A r \in Requests :
       /\ seq[r] <= nextSeq
       /\ gen[r] <= activeGen
       /\ gen[r] # 0 => seq[r] <= authSeq
       /\ pc[r] \in {"idle", "admit"} => gen[r] = 0
  /\ \A r, q \in Requests : gen[r] # 0 /\ gen[r] = gen[q] => r = q

(* The place of a start tells the state of its socket; stops have none.      *)
SocketPlaces ==
  \A r \in Requests :
    /\ sock[r] # "none" => gen[r] # 0
    /\ pc[r] = "connecting" <=> sock[r] = "opening"
    /\ pc[r] = "refused" => sock[r] = "down"
    /\ pc[r] = "connected" => sock[r] # "none"
    /\ pc[r] \in {"idle", "admit", "lookup", "clearing"} => sock[r] = "none"

ConnectionAdopted ==
  connection # None => /\ pc[connection] = "done"
                       /\ sock[connection] # "none"

(* While the newest claim is a start the status names it; while it is a stop *)
(* the status is closed.                                                     *)
StatusNamesNewest ==
  /\ \A s \in Starts : gen[s] = activeGen => status.session = s
  /\ \A r \in Requests :
       pc[r] \in {"lookup", "clearing"} =>
         gen[r] # 0 /\ (gen[r] = activeGen => status.phase = "closed")

(* A send that has not been answered, and a callback still registered, know  *)
(* the connection they used.                                                 *)
SendsCaptured ==
  \A r \in Requests :
    pc[r] \in {"awaitAck", "acked", "ackFailed"} \/ r \in ackCallbacks => via[r] # None

SocketInv == SocketPlaces /\ ConnectionAdopted /\ NoOrphanSocket

StatusInv == StatusNamesNewest /\ NewestRequestOwnsSession /\ ClearReportedOnStop

(* Everything below is preserved together: the properties need the numbering  *)
(* to tell the newest claim, and the places to tell what each socket may do. *)
IInv ==
  /\ TypeOK
  /\ Numbering
  /\ ClaimsFollowIssueOrder
  /\ SocketInv
  /\ StatusInv
  /\ SendsCaptured
  /\ EventsOfNewestSession

-----------------------------------------------------------------------------
(* The service's variables keep their types in every behaviour.              *)
LEMMA TypeStep == TypeOK /\ SendsCaptured /\ [Next]_vars => TypeOK' /\ SendsCaptured'
<1> SUFFICES ASSUME TypeOK, SendsCaptured, [Next]_vars PROVE TypeOK' /\ SendsCaptured'
  OBVIOUS
<1> USE DEF TypeOK, SendsCaptured, Places, Phases, Clears, Contexts, SocketStates, Outcomes, requestVars, serviceVars
<1>1. ASSUME NEW r \in Requests, StartCall(r) PROVE TypeOK' /\ SendsCaptured'
  BY <1>1 DEF StartCall
<1>2. ASSUME NEW r \in Requests, StartRefused(r) PROVE TypeOK' /\ SendsCaptured'
  BY <1>2 DEF StartRefused
<1>3. ASSUME NEW r \in Requests, StartClaim(r) PROVE TypeOK' /\ SendsCaptured'
  BY <1>3 DEF StartClaim, Admitted, RejectPendingAcks
<1>4. ASSUME NEW r \in Requests, StartConnected(r) PROVE TypeOK' /\ SendsCaptured'
  BY <1>4 DEF StartConnected, CloseLate
<1>5. ASSUME NEW r \in Requests, StartNextServer(r) PROVE TypeOK' /\ SendsCaptured'
  BY <1>5 DEF StartNextServer, ServersLeft
<1>6. ASSUME NEW r \in Requests, StartFailed(r) PROVE TypeOK' /\ SendsCaptured'
  BY <1>6 DEF StartFailed
<1>7. ASSUME NEW r \in Requests, StopCall(r) PROVE TypeOK' /\ SendsCaptured'
  <2> DEFINE next == IF RoomSource /\ joinContext = "none" THEN "lookup" ELSE AfterStop(joinContext)
  <2>1. next \in {"lookup", "clearing", "done"}
    BY DEF AfterStop
  <2>2. pc' = RejectPendingAcks([pc EXCEPT ![r] = next], connection)
    BY <1>7 DEF StopCall, CloseConnection
  <2> HIDE DEF next
  <2>3. /\ pc' \in [Requests -> Places]
        /\ \A q \in Requests : pc'[q] \in {"awaitAck", "acked", "ackFailed"} =>
                               pc[q] \in {"awaitAck", "acked", "ackFailed"}
    BY <2>1, <2>2 DEF RejectPendingAcks
  <2>4. /\ sock' \in [Requests -> SocketStates]
        /\ connection' = None
    BY <1>7 DEF StopCall, CloseConnection
  <2>5. UNCHANGED <<left, via, since, outcome, log, ackCallbacks>>
    BY <1>7 DEF StopCall
  <2>6. TypeOK'
    <3>1. status' \in [phase : Phases, session : Requests \cup {None}, clear : Clears]
      BY <1>7 DEF StopCall
    <3>2. /\ seq' \in [Requests -> Nat] /\ gen' \in [Requests -> Nat]
          /\ nextSeq' \in Nat /\ authSeq' \in Nat /\ activeGen' \in Nat
          /\ joinContext' \in Contexts
      BY <1>7 DEF StopCall
    <3>3. QED
      BY <2>3, <2>4, <2>5, <3>1, <3>2
  <2>7. SendsCaptured'
    BY <2>3, <2>5
  <2>8. QED
    BY <2>6, <2>7
<1>8. ASSUME NEW r \in Requests, StopLookup(r) PROVE TypeOK' /\ SendsCaptured'
  BY <1>8 DEF StopLookup, AfterStop
<1>9. ASSUME NEW r \in Requests, StopCleared(r) PROVE TypeOK' /\ SendsCaptured'
  BY <1>9 DEF StopCleared, ReportClear
<1>10. ASSUME NEW r \in Requests, SendRefused(r) PROVE TypeOK' /\ SendsCaptured'
  BY <1>10 DEF SendRefused
<1>11. ASSUME NEW r \in Requests, ControlCall(r) PROVE TypeOK' /\ SendsCaptured'
  BY <1>11 DEF ControlCall, Capture, Record
<1>12. ASSUME NEW r \in Requests, ControlAnswered(r) PROVE TypeOK' /\ SendsCaptured'
  BY <1>12 DEF ControlAnswered, Record
<1>13. ASSUME NEW r \in Requests, ControlFailed(r) PROVE TypeOK' /\ SendsCaptured'
  BY <1>13 DEF ControlFailed
<1>14. ASSUME NEW r \in Requests, SoacCall(r) PROVE TypeOK' /\ SendsCaptured'
  BY <1>14 DEF SoacCall, Capture, Record
<1>15. ASSUME NEW r \in Requests, SoacReturned(r) PROVE TypeOK' /\ SendsCaptured'
  BY <1>15 DEF SoacReturned
<1>16. ASSUME NEW r \in Requests, SocketConnects(r) PROVE TypeOK' /\ SendsCaptured'
  BY <1>16 DEF SocketConnects, SocketUnchanged, ApplyUpdate
<1>17. ASSUME NEW r \in Requests, SocketRefused(r) PROVE TypeOK' /\ SendsCaptured'
  BY <1>17 DEF SocketRefused, SocketUnchanged
<1>18. ASSUME NEW r \in Requests, SocketDrops(r) PROVE TypeOK' /\ SendsCaptured'
  BY <1>18 DEF SocketDrops, SocketUnchanged, ApplyUpdate, RejectPendingAcks
<1>19. ASSUME NEW r \in Requests, SocketKicked(r) PROVE TypeOK' /\ SendsCaptured'
  BY <1>19 DEF SocketKicked, SocketUnchanged, ApplyUpdate, RejectPendingAcks
<1>20. ASSUME NEW r \in Requests, SocketReconnects(r) PROVE TypeOK' /\ SendsCaptured'
  BY <1>20 DEF SocketReconnects, SocketUnchanged, ApplyUpdate
<1>21. ASSUME NEW r \in Requests, SocketRetries(r) PROVE TypeOK' /\ SendsCaptured'
  BY <1>21 DEF SocketRetries, SocketUnchanged, ApplyUpdate
<1>22. ASSUME NEW r \in Requests, SocketGivesUp(r) PROVE TypeOK' /\ SendsCaptured'
  BY <1>22 DEF SocketGivesUp, SocketUnchanged, ApplyUpdate
<1>23. ASSUME NEW r \in Requests, SocketEvent(r) PROVE TypeOK' /\ SendsCaptured'
  BY <1>23 DEF SocketEvent, Heard, Record
<1>24. ASSUME NEW r \in Requests, AckArrives(r) PROVE TypeOK' /\ SendsCaptured'
  BY <1>24 DEF AckArrives
<1>25. ASSUME NEW r \in Requests, AckTimesOut(r) PROVE TypeOK' /\ SendsCaptured'
  BY <1>25 DEF AckTimesOut
<1>26. ASSUME NEW r \in Requests, SoacAck(r) PROVE TypeOK' /\ SendsCaptured'
  BY <1>26 DEF SoacAck, Record
<1>27. CASE PruneEvents
  BY <1>27 DEF PruneEvents
<1>28. CASE UNCHANGED vars
  BY <1>28 DEF vars
<1>29. QED
  BY <1>1, <1>2, <1>3, <1>4, <1>5, <1>6, <1>7, <1>8, <1>9, <1>10, <1>11,
     <1>12, <1>13, <1>14, <1>15, <1>16, <1>17, <1>18, <1>19, <1>20, <1>21,
     <1>22, <1>23, <1>24, <1>25, <1>26, <1>27, <1>28
     DEF Next, Call, Handler, Opens, Socket, Acks

\* The state of the service and its requests has its types, and what a request sends was
\* captured when it began.
THEOREM TypeCorrect == Spec => []TypeOK
<1>1. Init => TypeOK /\ SendsCaptured
  BY DEF Init, TypeOK, SendsCaptured, Places, Phases, Clears, Contexts, SocketStates, Outcomes
<1>2. QED
  BY <1>1, TypeStep, PTL DEF Spec

-----------------------------------------------------------------------------
(* The steps that give out neither sequence numbers nor generations.         *)
Unnumbered(r) ==
  \/ StartRefused(r) \/ StartConnected(r) \/ StartNextServer(r) \/ StartFailed(r)
  \/ StopLookup(r) \/ StopCleared(r)
  \/ SendRefused(r) \/ ControlCall(r) \/ ControlAnswered(r) \/ ControlFailed(r)
  \/ SoacCall(r) \/ SoacReturned(r)
  \/ Opens(r) \/ Socket(r) \/ Acks(r)

LEMMA UnnumberedFrame ==
  ASSUME TypeOK, NEW r \in Requests, Unnumbered(r)
  PROVE  /\ UNCHANGED <<seq, gen, nextSeq, authSeq, activeGen>>
         /\ \A q \in Requests : pc'[q] \in {"idle", "admit"} => pc[q] \in {"idle", "admit"}
<1> USE DEF TypeOK, serviceVars, requestVars
<1>1. CASE StartRefused(r) \/ StartConnected(r) \/ StartNextServer(r) \/ StartFailed(r)
  BY <1>1 DEF StartRefused, StartConnected, CloseLate, StartNextServer, ServersLeft, StartFailed
<1>2. CASE StopLookup(r) \/ StopCleared(r)
  BY <1>2 DEF StopLookup, StopCleared, ReportClear, AfterStop
<1>3. CASE SendRefused(r) \/ ControlCall(r) \/ ControlAnswered(r) \/ ControlFailed(r)
  BY <1>3 DEF SendRefused, ControlCall, Capture, ControlAnswered, ControlFailed
<1>4. CASE SoacCall(r) \/ SoacReturned(r)
  BY <1>4 DEF SoacCall, Capture, SoacReturned
<1>5. CASE Opens(r) \/ Socket(r)
  BY <1>5 DEF Opens, Socket, SocketConnects, SocketRefused, SocketDrops, SocketKicked,
     SocketReconnects, SocketRetries, SocketGivesUp, SocketEvent, SocketUnchanged, RejectPendingAcks
<1>6. CASE Acks(r)
  BY <1>6 DEF Acks, AckArrives, AckTimesOut, SoacAck
<1>7. QED
  BY <1>1, <1>2, <1>3, <1>4, <1>5, <1>6 DEF Unnumbered

LEMMA NextCases ==
  [Next]_vars => \/ \E r \in Requests : StartCall(r) \/ StartClaim(r) \/ StopCall(r) \/ Unnumbered(r)
                 \/ PruneEvents
                 \/ UNCHANGED vars
BY DEF Next, Call, Handler, Unnumbered

LEMMA NumberingStep ==
  ASSUME TypeOK, Numbering, ClaimsFollowIssueOrder, [Next]_vars
  PROVE  Numbering' /\ ClaimsFollowIssueOrder'
<1> USE DEF TypeOK, Numbering, ClaimsFollowIssueOrder
<1>1. ASSUME NEW r \in Requests, StartCall(r) PROVE Numbering' /\ ClaimsFollowIssueOrder'
  BY <1>1 DEF StartCall
<1>2. ASSUME NEW r \in Requests, StartClaim(r) PROVE Numbering' /\ ClaimsFollowIssueOrder'
  BY <1>2 DEF StartClaim, Admitted, RejectPendingAcks
<1>3. ASSUME NEW r \in Requests, StopCall(r) PROVE Numbering' /\ ClaimsFollowIssueOrder'
  BY <1>3 DEF StopCall, CloseConnection, RejectPendingAcks, AfterStop
<1>4. ASSUME NEW r \in Requests, Unnumbered(r) PROVE Numbering' /\ ClaimsFollowIssueOrder'
  BY <1>4, UnnumberedFrame
<1>5. CASE PruneEvents \/ UNCHANGED vars
  BY <1>5 DEF PruneEvents, vars, requestVars, serviceVars
<1>6. QED
  BY <1>1, <1>2, <1>3, <1>4, <1>5, NextCases

LEMMA SocketStep ==
  ASSUME TypeOK, TypeOK', Numbering, SocketInv, NewestRequestOwnsSession, [Next]_vars
  PROVE  SocketInv'
<1> USE DEF TypeOK, Numbering, SocketInv, SocketPlaces, ConnectionAdopted, NoOrphanSocket,
            NewestRequestOwnsSession, Alive, SocketStates, requestVars, serviceVars
<1>1. ASSUME NEW r \in Requests, StartCall(r) PROVE SocketInv'
  BY <1>1 DEF StartCall
<1>2. ASSUME NEW r \in Requests, StartRefused(r) PROVE SocketInv'
  BY <1>2 DEF StartRefused
<1>3. ASSUME NEW r \in Requests, StartClaim(r) PROVE SocketInv'
  BY <1>3 DEF StartClaim, Admitted, RejectPendingAcks
<1>4. ASSUME NEW r \in Requests, StartConnected(r) PROVE SocketInv'
  BY <1>4 DEF StartConnected, CloseLate
<1>5. ASSUME NEW r \in Requests, StartNextServer(r) PROVE SocketInv'
  BY <1>5 DEF StartNextServer, ServersLeft
<1>6. ASSUME NEW r \in Requests, StartFailed(r) PROVE SocketInv'
  BY <1>6 DEF StartFailed
<1>7. ASSUME NEW r \in Requests, StopCall(r) PROVE SocketInv'
  BY <1>7 DEF StopCall, CloseConnection, RejectPendingAcks, AfterStop
<1>8. ASSUME NEW r \in Requests, StopLookup(r) PROVE SocketInv'
  BY <1>8 DEF StopLookup, AfterStop
<1>9. ASSUME NEW r \in Requests, StopCleared(r) PROVE SocketInv'
  BY <1>9 DEF StopCleared, ReportClear
<1>10. ASSUME NEW r \in Requests, SendRefused(r) PROVE SocketInv'
  BY <1>10 DEF SendRefused
<1>11. ASSUME NEW r \in Requests, ControlCall(r) PROVE SocketInv'
  BY <1>11 DEF ControlCall, Capture, Record
<1>12. ASSUME NEW r \in Requests, ControlAnswered(r) PROVE SocketInv'
  BY <1>12 DEF ControlAnswered, Record, IsCurrent
<1>13. ASSUME NEW r \in Requests, ControlFailed(r) PROVE SocketInv'
  BY <1>13 DEF ControlFailed
<1>14. ASSUME NEW r \in Requests, SoacCall(r) PROVE SocketInv'
  BY <1>14 DEF SoacCall, Capture, Record
<1>15. ASSUME NEW r \in Requests, SoacReturned(r) PROVE SocketInv'
  BY <1>15 DEF SoacReturned
<1>16. ASSUME NEW r \in Requests, SocketConnects(r) PROVE SocketInv'
  BY <1>16 DEF SocketConnects, SocketUnchanged, ApplyUpdate
<1>17. ASSUME NEW r \in Requests, SocketRefused(r) PROVE SocketInv'
  BY <1>17 DEF SocketRefused, SocketUnchanged
<1>18. ASSUME NEW r \in Requests, SocketDrops(r) PROVE SocketInv'
  BY <1>18 DEF SocketDrops, SocketUnchanged, ApplyUpdate, RejectPendingAcks
<1>19. ASSUME NEW r \in Requests, SocketKicked(r) PROVE SocketInv'
  BY <1>19 DEF SocketKicked, SocketUnchanged, ApplyUpdate, RejectPendingAcks
<1>20. ASSUME NEW r \in Requests, SocketReconnects(r) PROVE SocketInv'
  BY <1>20 DEF SocketReconnects, SocketUnchanged, ApplyUpdate
<1>21. ASSUME NEW r \in Requests, SocketRetries(r) PROVE SocketInv'
  BY <1>21 DEF SocketRetries, SocketUnchanged, ApplyUpdate
<1>22. ASSUME NEW r \in Requests, SocketGivesUp(r) PROVE SocketInv'
  BY <1>22 DEF SocketGivesUp, SocketUnchanged, ApplyUpdate
<1>23. ASSUME NEW r \in Requests, SocketEvent(r) PROVE SocketInv'
  BY <1>23 DEF SocketEvent, Heard, Record
<1>24. ASSUME NEW r \in Requests, AckArrives(r) PROVE SocketInv'
  BY <1>24 DEF AckArrives
<1>25. ASSUME NEW r \in Requests, AckTimesOut(r) PROVE SocketInv'
  BY <1>25 DEF AckTimesOut
<1>26. ASSUME NEW r \in Requests, SoacAck(r) PROVE SocketInv'
  BY <1>26 DEF SoacAck, Record, IsCurrent
<1>27. CASE PruneEvents
  BY <1>27 DEF PruneEvents
<1>28. CASE UNCHANGED vars
  BY <1>28 DEF vars
<1>29. QED
  BY <1>1, <1>2, <1>3, <1>4, <1>5, <1>6, <1>7, <1>8, <1>9, <1>10, <1>11,
     <1>12, <1>13, <1>14, <1>15, <1>16, <1>17, <1>18, <1>19, <1>20, <1>21,
     <1>22, <1>23, <1>24, <1>25, <1>26, <1>27, <1>28
     DEF Next, Call, Handler, Opens, Socket, Acks

LEMMA StatusStep ==
  ASSUME TypeOK, TypeOK', Numbering, SocketPlaces, ConnectionAdopted, StatusInv, [Next]_vars
  PROVE  StatusInv'
<1> USE DEF TypeOK, Numbering, SocketPlaces, StatusInv, StatusNamesNewest,
            NewestRequestOwnsSession, ClearReportedOnStop, Starts, Phases, Clears, requestVars, serviceVars
<1>1. ASSUME NEW r \in Requests, StartCall(r) PROVE StatusInv'
  BY <1>1 DEF StartCall
<1>2. ASSUME NEW r \in Requests, StartRefused(r) PROVE StatusInv'
  BY <1>2 DEF StartRefused
<1>3. ASSUME NEW r \in Requests, StartClaim(r) PROVE StatusInv'
  BY <1>3 DEF StartClaim, Admitted, RejectPendingAcks
<1>4. ASSUME NEW r \in Requests, StartConnected(r) PROVE StatusInv'
  BY <1>4 DEF StartConnected, CloseLate
<1>5. ASSUME NEW r \in Requests, StartNextServer(r) PROVE StatusInv'
  BY <1>5 DEF StartNextServer, ServersLeft
<1>6. ASSUME NEW r \in Requests, StartFailed(r) PROVE StatusInv'
  BY <1>6 DEF StartFailed
<1>7. ASSUME NEW r \in Requests, StopCall(r)
      PROVE  StatusInv'
  <2>1. /\ connection' = None
        /\ \A q \in Requests : sock'[q] # "none" => sock[q] # "none"
    BY <1>7 DEF StopCall, CloseConnection, ConnectionAdopted
  <2>2. status'.phase = "closed" /\ status'.clear = "none"
    BY <1>7 DEF StopCall
  <2>3. /\ activeGen' = activeGen + 1
        /\ gen' = [gen EXCEPT ![r] = activeGen + 1]
        /\ sock[r] = "none"
    BY <1>7 DEF StopCall
  <2>4. \A q \in Requests : sock'[q] # "none" => gen'[q] # activeGen'
    BY <2>1, <2>3
  <2>5. \A q \in Requests : pc'[q] \in {"lookup", "clearing"} => gen'[q] # 0
    BY <1>7, <2>3 DEF StopCall, CloseConnection, RejectPendingAcks
  <2>6. QED
    BY <2>1, <2>2, <2>4, <2>5
<1>8. ASSUME NEW r \in Requests, StopLookup(r) PROVE StatusInv'
  BY <1>8 DEF StopLookup, AfterStop
<1>9. ASSUME NEW r \in Requests, StopCleared(r) PROVE StatusInv'
  BY <1>9 DEF StopCleared, ReportClear
<1>10. ASSUME NEW r \in Requests, SendRefused(r) PROVE StatusInv'
  BY <1>10 DEF SendRefused
<1>11. ASSUME NEW r \in Requests, ControlCall(r) PROVE StatusInv'
  BY <1>11 DEF ControlCall, Capture, Record
<1>12. ASSUME NEW r \in Requests, ControlAnswered(r) PROVE StatusInv'
  BY <1>12 DEF ControlAnswered, Record, IsCurrent
<1>13. ASSUME NEW r \in Requests, ControlFailed(r) PROVE StatusInv'
  BY <1>13 DEF ControlFailed
<1>14. ASSUME NEW r \in Requests, SoacCall(r) PROVE StatusInv'
  BY <1>14 DEF SoacCall, Capture, Record
<1>15. ASSUME NEW r \in Requests, SoacReturned(r) PROVE StatusInv'
  BY <1>15 DEF SoacReturned
<1>16. ASSUME NEW r \in Requests, SocketConnects(r) PROVE StatusInv'
  BY <1>16 DEF SocketConnects, SocketUnchanged, ApplyUpdate
<1>17. ASSUME NEW r \in Requests, SocketRefused(r) PROVE StatusInv'
  BY <1>17 DEF SocketRefused, SocketUnchanged
<1>18. ASSUME NEW r \in Requests, SocketDrops(r) PROVE StatusInv'
  BY <1>18 DEF SocketDrops, SocketUnchanged, ApplyUpdate, RejectPendingAcks
<1>19. ASSUME NEW r \in Requests, SocketKicked(r) PROVE StatusInv'
  BY <1>19 DEF SocketKicked, SocketUnchanged, ApplyUpdate, RejectPendingAcks
<1>20. ASSUME NEW r \in Requests, SocketReconnects(r) PROVE StatusInv'
  BY <1>20 DEF SocketReconnects, SocketUnchanged, ApplyUpdate
<1>21. ASSUME NEW r \in Requests, SocketRetries(r) PROVE StatusInv'
  BY <1>21 DEF SocketRetries, SocketUnchanged, ApplyUpdate
<1>22. ASSUME NEW r \in Requests, SocketGivesUp(r) PROVE StatusInv'
  BY <1>22 DEF SocketGivesUp, SocketUnchanged, ApplyUpdate
<1>23. ASSUME NEW r \in Requests, SocketEvent(r) PROVE StatusInv'
  BY <1>23 DEF SocketEvent, Heard, Record
<1>24. ASSUME NEW r \in Requests, AckArrives(r) PROVE StatusInv'
  BY <1>24 DEF AckArrives
<1>25. ASSUME NEW r \in Requests, AckTimesOut(r) PROVE StatusInv'
  BY <1>25 DEF AckTimesOut
<1>26. ASSUME NEW r \in Requests, SoacAck(r) PROVE StatusInv'
  BY <1>26 DEF SoacAck, Record, IsCurrent
<1>27. CASE PruneEvents
  BY <1>27 DEF PruneEvents
<1>28. CASE UNCHANGED vars
  BY <1>28 DEF vars
<1>29. QED
  BY <1>1, <1>2, <1>3, <1>4, <1>5, <1>6, <1>7, <1>8, <1>9, <1>10, <1>11,
     <1>12, <1>13, <1>14, <1>15, <1>16, <1>17, <1>18, <1>19, <1>20, <1>21,
     <1>22, <1>23, <1>24, <1>25, <1>26, <1>27, <1>28
     DEF Next, Call, Handler, Opens, Socket, Acks

LEMMA EventsStep ==
  ASSUME TypeOK, TypeOK', Numbering, SocketPlaces, SendsCaptured, ConnectionAdopted,
         NewestRequestOwnsSession, EventsOfNewestSession, [Next]_vars
  PROVE  EventsOfNewestSession'
<1> USE DEF TypeOK, Numbering, SocketPlaces, SendsCaptured, ConnectionAdopted,
            NewestRequestOwnsSession, EventsOfNewestSession, Starts, requestVars, serviceVars
<1>1. ASSUME NEW r \in Requests, StartCall(r) PROVE EventsOfNewestSession'
  BY <1>1 DEF StartCall
<1>2. ASSUME NEW r \in Requests, StartRefused(r) PROVE EventsOfNewestSession'
  BY <1>2 DEF StartRefused
<1>3. ASSUME NEW r \in Requests, StartClaim(r) PROVE EventsOfNewestSession'
  BY <1>3 DEF StartClaim, Admitted, RejectPendingAcks
<1>4. ASSUME NEW r \in Requests, StartConnected(r) PROVE EventsOfNewestSession'
  BY <1>4 DEF StartConnected, CloseLate
<1>5. ASSUME NEW r \in Requests, StartNextServer(r) PROVE EventsOfNewestSession'
  BY <1>5 DEF StartNextServer, ServersLeft
<1>6. ASSUME NEW r \in Requests, StartFailed(r) PROVE EventsOfNewestSession'
  BY <1>6 DEF StartFailed
<1>7. ASSUME NEW r \in Requests, StopCall(r) PROVE EventsOfNewestSession'
  BY <1>7 DEF StopCall, CloseConnection, RejectPendingAcks, AfterStop
<1>8. ASSUME NEW r \in Requests, StopLookup(r) PROVE EventsOfNewestSession'
  BY <1>8 DEF StopLookup, AfterStop
<1>9. ASSUME NEW r \in Requests, StopCleared(r) PROVE EventsOfNewestSession'
  BY <1>9 DEF StopCleared, ReportClear
<1>10. ASSUME NEW r \in Requests, SendRefused(r) PROVE EventsOfNewestSession'
  BY <1>10 DEF SendRefused
<1>11. ASSUME NEW r \in Requests, ControlCall(r) PROVE EventsOfNewestSession'
  BY <1>11 DEF ControlCall, Capture, Record
<1>12. ASSUME NEW r \in Requests, ControlAnswered(r) PROVE EventsOfNewestSession'
  BY <1>12 DEF ControlAnswered, Record, IsCurrent
<1>13. ASSUME NEW r \in Requests, ControlFailed(r) PROVE EventsOfNewestSession'
  BY <1>13 DEF ControlFailed
<1>14. ASSUME NEW r \in Requests, SoacCall(r) PROVE EventsOfNewestSession'
  BY <1>14 DEF SoacCall, Capture, Record
<1>15. ASSUME NEW r \in Requests, SoacReturned(r) PROVE EventsOfNewestSession'
  BY <1>15 DEF SoacReturned
<1>16. ASSUME NEW r \in Requests, SocketConnects(r) PROVE EventsOfNewestSession'
  BY <1>16 DEF SocketConnects, SocketUnchanged, ApplyUpdate
<1>17. ASSUME NEW r \in Requests, SocketRefused(r) PROVE EventsOfNewestSession'
  BY <1>17 DEF SocketRefused, SocketUnchanged
<1>18. ASSUME NEW r \in Requests, SocketDrops(r) PROVE EventsOfNewestSession'
  BY <1>18 DEF SocketDrops, SocketUnchanged, ApplyUpdate, RejectPendingAcks
<1>19. ASSUME NEW r \in Requests, SocketKicked(r) PROVE EventsOfNewestSession'
  BY <1>19 DEF SocketKicked, SocketUnchanged, ApplyUpdate, RejectPendingAcks
<1>20. ASSUME NEW r \in Requests, SocketReconnects(r) PROVE EventsOfNewestSession'
  BY <1>20 DEF SocketReconnects, SocketUnchanged, ApplyUpdate
<1>21. ASSUME NEW r \in Requests, SocketRetries(r) PROVE EventsOfNewestSession'
  BY <1>21 DEF SocketRetries, SocketUnchanged, ApplyUpdate
<1>22. ASSUME NEW r \in Requests, SocketGivesUp(r) PROVE EventsOfNewestSession'
  BY <1>22 DEF SocketGivesUp, SocketUnchanged, ApplyUpdate
<1>23. ASSUME NEW r \in Requests, SocketEvent(r) PROVE EventsOfNewestSession'
  BY <1>23 DEF SocketEvent, Heard, Record
<1>24. ASSUME NEW r \in Requests, AckArrives(r) PROVE EventsOfNewestSession'
  BY <1>24 DEF AckArrives
<1>25. ASSUME NEW r \in Requests, AckTimesOut(r) PROVE EventsOfNewestSession'
  BY <1>25 DEF AckTimesOut
<1>26. ASSUME NEW r \in Requests, SoacAck(r) PROVE EventsOfNewestSession'
  BY <1>26 DEF SoacAck, Record, IsCurrent
<1>27. CASE PruneEvents
  BY <1>27 DEF PruneEvents
<1>28. CASE UNCHANGED vars
  BY <1>28 DEF vars
<1>29. QED
  BY <1>1, <1>2, <1>3, <1>4, <1>5, <1>6, <1>7, <1>8, <1>9, <1>10, <1>11,
     <1>12, <1>13, <1>14, <1>15, <1>16, <1>17, <1>18, <1>19, <1>20, <1>21,
     <1>22, <1>23, <1>24, <1>25, <1>26, <1>27, <1>28
     DEF Next, Call, Handler, Opens, Socket, Acks

-----------------------------------------------------------------------------
LEMMA InitIInv == Init => IInv
<1> SUFFICES ASSUME Init PROVE IInv
  OBVIOUS
<1>1. TypeOK /\ Numbering /\ ClaimsFollowIssueOrder /\ SendsCaptured
  BY DEF Init, TypeOK, Numbering, ClaimsFollowIssueOrder, SendsCaptured, Places, Phases,
         Clears, Contexts, SocketStates, Outcomes
<1>2. SocketInv /\ StatusInv /\ EventsOfNewestSession
  BY DEF Init, SocketInv, SocketPlaces, ConnectionAdopted, NoOrphanSocket, Alive, StatusInv,
         StatusNamesNewest, NewestRequestOwnsSession, ClearReportedOnStop, Starts,
         EventsOfNewestSession
<1>3. QED
  BY <1>1, <1>2 DEF IInv

LEMMA StepIInv == IInv /\ [Next]_vars => IInv'
<1> SUFFICES ASSUME IInv, [Next]_vars PROVE IInv'
  OBVIOUS
<1>1. TypeOK' /\ SendsCaptured'
  BY TypeStep DEF IInv
<1>2. Numbering' /\ ClaimsFollowIssueOrder'
  BY NumberingStep DEF IInv
<1>3. SocketInv'
  BY <1>1, SocketStep DEF IInv, StatusInv
<1>4. StatusInv'
  BY <1>1, StatusStep DEF IInv, SocketInv
<1>5. EventsOfNewestSession'
  BY <1>1, EventsStep DEF IInv, SocketInv, StatusInv
<1>6. QED
  BY <1>1, <1>2, <1>3, <1>4, <1>5 DEF IInv

\* The inductive invariant of the service: numbering, places, status owner and retained events
\* (remoteControlService.ts).
THEOREM Invariance == Spec => []IInv
BY InitIInv, StepIInv, PTL DEF Spec

(* The service leaks no upstream socket, whatever starts and stops overlap.   *)
THEOREM NoSocketLeaks == Spec => []NoOrphanSocket
<1>1. IInv => NoOrphanSocket
  BY DEF IInv, SocketInv
<1>2. QED
  BY <1>1, Invariance, PTL

(* The newest admitted request owns the connection, the phase and the event  *)
(* log, and the outcome of a room clear shows on the stop it belongs to.     *)
THEOREM NewestWins == Spec => []ShowsNewestSession
<1>1. IInv => ShowsNewestSession
  BY DEF IInv, StatusInv, ShowsNewestSession
<1>2. QED
  BY <1>1, Invariance, PTL

(* Requests are admitted in the order in which they were issued.             *)
THEOREM IssueOrder == Spec => []ClaimsFollowIssueOrder
<1>1. IInv => ClaimsFollowIssueOrder
  BY DEF IInv
<1>2. QED
  BY <1>1, Invariance, PTL

(* A control request is acknowledged only by the connection that still is the *)
(* session's.                                                                *)
THEOREM AckedByCurrentConnection == Spec => AckFromSendingSession
<1> DEFINE Acked(r) == outcome[r] # "ack" /\ outcome'[r] = "ack" =>
                         via[r] = connection /\ gen[via[r]] = activeGen
<1>1. IInv /\ [Next]_vars => [\A r \in Requests : Acked(r)]_vars
  <2> SUFFICES ASSUME IInv, Next, NEW q \in Requests PROVE Acked(q)
    OBVIOUS
  <2> USE DEF IInv, TypeOK, SendsCaptured, StatusInv, NewestRequestOwnsSession, requestVars, serviceVars
  <2>1. ASSUME NEW r \in Requests, ControlAnswered(r) PROVE Acked(q)
    BY <2>1 DEF ControlAnswered, IsCurrent
  <2>2. ASSUME NEW r \in Requests,
               SendRefused(r) \/ ControlFailed(r) \/ SoacReturned(r)
        PROVE  Acked(q)
    BY <2>2 DEF SendRefused, ControlFailed, SoacReturned
  <2>3. ASSUME NEW r \in Requests,
               \/ StartCall(r) \/ StartRefused(r) \/ StartClaim(r) \/ StartConnected(r)
               \/ StartNextServer(r) \/ StartFailed(r)
               \/ StopCall(r) \/ StopLookup(r) \/ StopCleared(r)
        PROVE  Acked(q)
    BY <2>3 DEF StartCall, StartRefused, StartClaim, Admitted, StartConnected, CloseLate, StartNextServer, ServersLeft,
       StartFailed, StopCall, StopLookup, StopCleared
  <2>4. ASSUME NEW r \in Requests,
               ControlCall(r) \/ SoacCall(r) \/ Opens(r) \/ Socket(r) \/ Acks(r)
        PROVE  Acked(q)
    BY <2>4 DEF ControlCall, SoacCall, Opens, Socket, Acks, SocketConnects, SocketRefused,
       SocketDrops, SocketKicked, SocketReconnects, SocketRetries, SocketGivesUp,
       SocketUnchanged, SocketEvent, AckArrives, AckTimesOut, SoacAck
  <2>5. CASE PruneEvents
    BY <2>5 DEF PruneEvents
  <2>6. QED
    BY <2>1, <2>2, <2>3, <2>4, <2>5 DEF Next, Call, Handler
<1>2. QED
  BY <1>1, Invariance, PTL DEF Spec, AckFromSendingSession

(* Requests keep their order, and acks stay with the session they belong to.  *)
THEOREM OrderKept == Spec => RequestsKeepOrder
BY IssueOrder, AckedByCurrentConnection DEF RequestsKeepOrder

-----------------------------------------------------------------------------
(* The service implements what a gateway promises (SignalGateway).           *)
Shown == [phase |-> status.phase, session |-> status.session]
GatewayStep == Gateway!Next \/ UNCHANGED <<Owner, Starts, Shown, log>>

(* The owner of the gateway is the start that holds the active generation.    *)
OwnerHoldsGeneration ==
  /\ \A s \in Starts : gen[s] = activeGen => Owner = s
  /\ (\A s \in Starts : gen[s] # activeGen) => Owner = None

LEMMA OwnerIs == IInv => OwnerHoldsGeneration
<1> SUFFICES ASSUME IInv PROVE OwnerHoldsGeneration
  OBVIOUS
<1>1. \A s, q \in Starts : gen[s] = activeGen /\ gen[q] = activeGen => s = q
  BY DEF IInv, TypeOK, Numbering, SocketInv, SocketPlaces, Starts
<1>2. ASSUME NEW s \in Starts, gen[s] = activeGen PROVE Owner = s
  BY <1>1, <1>2 DEF Owner
<1>3. ASSUME \A s \in Starts : gen[s] # activeGen PROVE Owner = None
  BY <1>3 DEF Owner
<1> QED
  BY <1>2, <1>3 DEF OwnerHoldsGeneration

(* The active connection is the owner's, and what the owner shows is its own. *)
LEMMA ConnectionOwns ==
  ASSUME IInv, connection # None
  PROVE  Owner = connection /\ connection \in Starts
BY OwnerIs DEF IInv, TypeOK, SocketInv, ConnectionAdopted, StatusInv, NewestRequestOwnsSession,
   OwnerHoldsGeneration, Starts

LEMMA OwnerStays ==
  ASSUME UNCHANGED <<gen, activeGen>>,
         \A r \in Requests : sock'[r] = "none" <=> sock[r] = "none"
  PROVE  Starts' = Starts /\ Owner' = Owner
<1>1. Starts' = Starts
  BY DEF Starts
<1> QED
  BY <1>1 DEF Owner

(* The owner's connection moves the status.                                  *)
LEMMA ProgressMaps ==
  ASSUME IInv, NEW s \in Starts, gen[s] = activeGen,
         Owner' = Owner, Starts' = Starts, log' = log,
         NEW phase \in Phases \ {"idle"}, status'.phase = phase, status'.session = s
  PROVE  GatewayStep
<1>1. Owner = s /\ s # None
  BY OwnerIs, RequestsAssumption DEF OwnerHoldsGeneration, Starts
<1>2. Gateway!Progress
  BY <1>1 DEF Gateway!Progress, Gateway!Phases, Phases
<1> QED
  BY <1>2 DEF GatewayStep, Gateway!Next

(* What is recorded on the active connection is the owner's.                  *)
LEMMA RecordMaps ==
  ASSUME IInv, NEW s \in Starts, gen[s] = activeGen, Record(s) \/ UNCHANGED log,
         Owner' = Owner, Starts' = Starts, status' = status
  PROVE  GatewayStep
<1>1. Owner = s /\ s # None
  BY OwnerIs, RequestsAssumption DEF OwnerHoldsGeneration, Starts
<1>2. CASE Record(s)
  <2>1. Gateway!Observe
    BY <1>1, <1>2 DEF Gateway!Observe, Record
  <2> QED
    BY <2>1 DEF GatewayStep, Gateway!Next
<1>3. CASE UNCHANGED log
  BY <1>3 DEF GatewayStep, Shown
<1> QED
  BY <1>2, <1>3

(* A callback of the socket s moves the status only while s is the owner.     *)
LEMMA UpdateMaps ==
  ASSUME IInv, NEW s \in Starts, NEW phase \in Phases \ {"idle"}, ApplyUpdate(s, phase),
         Owner' = Owner, Starts' = Starts, log' = log
  PROVE  GatewayStep
<1>1. CASE gen[s] # activeGen
  BY <1>1 DEF ApplyUpdate, GatewayStep, Shown
<1>2. CASE gen[s] = activeGen
  <2>1. status.session = s
    BY <1>2 DEF IInv, StatusInv, StatusNamesNewest
  <2>2. status'.phase = phase /\ status'.session = s
    BY <1>2, <2>1 DEF ApplyUpdate, IInv, TypeOK
  <2> QED
    BY <1>2, <2>2, ProgressMaps
<1> QED
  BY <1>1, <1>2

LEMMA SocketMaps ==
  ASSUME IInv, NEW s \in Requests, Opens(s) \/ Socket(s)
  PROVE  GatewayStep
<1> USE DEF SocketUnchanged
<1>1. s \in Starts
  BY DEF Opens, Socket, SocketConnects, SocketRefused, SocketDrops, SocketKicked, SocketReconnects,
     SocketRetries, SocketGivesUp, SocketEvent, Starts
<1>2. Starts' = Starts /\ Owner' = Owner
  <2>1. /\ UNCHANGED <<gen, activeGen>>
        /\ \A r \in Requests : sock'[r] = "none" <=> sock[r] = "none"
    BY DEF Opens, Socket, SocketConnects, SocketRefused, SocketDrops, SocketKicked, SocketReconnects,
       SocketRetries, SocketGivesUp, SocketEvent, requestVars, serviceVars, IInv, TypeOK
  <2> QED
    BY <2>1, OwnerStays
<1>3. CASE SocketConnects(s) \/ SocketReconnects(s)
  <2>1. ApplyUpdate(s, "connected") /\ log' = log
    BY <1>3 DEF SocketConnects, SocketReconnects
  <2> QED
    BY <1>1, <1>2, <2>1, UpdateMaps DEF Phases
<1>4. CASE SocketRefused(s)
  BY <1>2, <1>4 DEF SocketRefused, GatewayStep, Shown
<1>5. CASE SocketDrops(s) \/ SocketRetries(s)
  <2>1. ApplyUpdate(s, "connecting") /\ log' = log
    BY <1>5 DEF SocketDrops, SocketRetries
  <2> QED
    BY <1>1, <1>2, <2>1, UpdateMaps DEF Phases
<1>6. CASE SocketKicked(s)
  <2>1. ApplyUpdate(s, "closed") /\ log' = log
    BY <1>6 DEF SocketKicked
  <2> QED
    BY <1>1, <1>2, <2>1, UpdateMaps DEF Phases
<1>7. CASE SocketGivesUp(s)
  <2>1. ApplyUpdate(s, "error") /\ log' = log
    BY <1>7 DEF SocketGivesUp
  <2> QED
    BY <1>1, <1>2, <2>1, UpdateMaps DEF Phases
<1>8. CASE SocketEvent(s)
  <2>1. gen[s] = activeGen /\ Record(s) /\ status' = status
    BY <1>8 DEF SocketEvent, Heard, serviceVars
  <2> QED
    BY <1>1, <1>2, <2>1, RecordMaps
<1> QED
  BY <1>3, <1>4, <1>5, <1>6, <1>7, <1>8 DEF Opens, Socket

(* Sends record on the connection they captured, as long as it is current.    *)
LEMMA SendMaps ==
  ASSUME IInv, NEW r \in Requests,
         \/ SendRefused(r) \/ ControlCall(r) \/ ControlAnswered(r) \/ ControlFailed(r)
         \/ SoacCall(r) \/ SoacReturned(r) \/ Acks(r)
  PROVE  GatewayStep
<1> USE DEF requestVars, serviceVars
<1>1. UNCHANGED <<gen, activeGen, sock, status, connection>>
  BY DEF SendRefused, ControlCall, ControlAnswered, ControlFailed, SoacCall, SoacReturned, Capture,
     Acks, AckArrives, AckTimesOut, SoacAck
<1>2. Starts' = Starts /\ Owner' = Owner
  BY <1>1, OwnerStays
<1>3. CASE log' = log
  BY <1>1, <1>2, <1>3 DEF GatewayStep, Shown
<1>4. CASE log' # log
  <2>1. connection # None /\ Record(connection)
    BY <1>4 DEF SendRefused, ControlCall, ControlAnswered, ControlFailed, SoacCall, SoacReturned, Capture,
       Acks, AckArrives, AckTimesOut, SoacAck, IsCurrent, IInv, SendsCaptured
  <2>2. connection \in Starts /\ gen[connection] = activeGen
    BY <2>1, ConnectionOwns DEF IInv, StatusInv, NewestRequestOwnsSession
  <2> QED
    BY <1>1, <1>2, <2>1, <2>2, RecordMaps
<1> QED
  BY <1>3, <1>4

(* A start that resumes reports only for the owner; before it claims it is    *)
(* nothing to the gateway.                                                   *)
LEMMA StartMaps ==
  ASSUME IInv, NEW r \in Requests,
         \/ StartCall(r) \/ StartRefused(r) \/ StartConnected(r) \/ StartNextServer(r) \/ StartFailed(r)
  PROVE  GatewayStep
<1> USE DEF requestVars, serviceVars
<1>1. Starts' = Starts /\ Owner' = Owner /\ log' = log
  <2>1. /\ UNCHANGED <<gen, activeGen, log>>
        /\ \A q \in Requests : sock'[q] = "none" <=> sock[q] = "none"
    BY DEF StartCall, StartRefused, StartConnected, CloseLate, StartNextServer, StartFailed, IInv, TypeOK,
       SocketInv, SocketPlaces
  <2> QED
    BY <2>1, OwnerStays
<1>2. CASE status' = status
  BY <1>1, <1>2 DEF GatewayStep, Shown
<1>3. CASE status' # status
  <2>1. gen[r] = activeGen /\ pc[r] \in {"connected", "refused"}
    BY <1>3 DEF StartCall, StartRefused, StartConnected, StartNextServer, StartFailed
  <2>2. r \in Starts
    BY <2>1 DEF IInv, SocketInv, SocketPlaces, Starts
  <2>3. status'.session = r /\ status'.phase \in {"connected", "error"}
    BY <1>3 DEF StartCall, StartRefused, StartConnected, StartNextServer, StartFailed
  <2> QED
    BY <1>1, <2>1, <2>2, <2>3, ProgressMaps DEF Phases
<1> QED
  BY <1>2, <1>3

(* A claim takes the gateway over, from a clean log.                          *)
LEMMA ClaimMaps == ASSUME IInv, IInv', NEW r \in Requests, StartClaim(r) PROVE GatewayStep
<1>1. r \notin Starts /\ Starts' = Starts \cup {r}
  BY DEF StartClaim, IInv, TypeOK, SocketInv, SocketPlaces, ConnectionAdopted, Starts
<1>2. gen'[r] = activeGen' /\ log' = {} /\ status'.phase = "connecting" /\ status'.session = r
  BY DEF StartClaim, IInv, TypeOK
<1>3. OwnerHoldsGeneration'
  BY OwnerIs, PTL
<1>4. Owner' = r
  BY <1>1, <1>2, <1>3 DEF OwnerHoldsGeneration
<1>5. Gateway!Begin(r)
  BY <1>1, <1>2, <1>4 DEF Gateway!Begin
<1> QED
  BY <1>5 DEF GatewayStep, Gateway!Next

(* A stop ends the session, whatever it still has to clear.                   *)
LEMMA StopMaps ==
  ASSUME IInv, IInv', NEW r \in Requests, StopCall(r) \/ StopLookup(r) \/ StopCleared(r)
  PROVE  GatewayStep
<1>1. CASE StopCall(r)
  <2>1. Starts' = Starts
    BY <1>1 DEF StopCall, CloseConnection, IInv, TypeOK, SocketInv, ConnectionAdopted, Starts
  <2>2. r \notin Starts /\ \A s \in Starts : gen'[s] # activeGen'
    BY <1>1 DEF StopCall, IInv, TypeOK, Numbering, SocketInv, SocketPlaces, Starts
  <2>3. OwnerHoldsGeneration'
    BY OwnerIs, PTL
  <2>4. Owner' = None
    BY <2>1, <2>2, <2>3 DEF OwnerHoldsGeneration
  <2>5. status'.phase = "closed" /\ status'.session = status.session /\ log' = log
    BY <1>1 DEF StopCall, IInv, TypeOK
  <2>6. Gateway!End
    BY <2>1, <2>4, <2>5 DEF Gateway!End
  <2> QED
    BY <2>6 DEF GatewayStep, Gateway!Next
<1>2. CASE StopLookup(r) \/ StopCleared(r)
  <2>1. /\ UNCHANGED <<gen, activeGen, sock, log>>
        /\ status'.phase = status.phase /\ status'.session = status.session
    BY <1>2 DEF StopLookup, StopCleared, ReportClear, serviceVars, IInv, TypeOK
  <2> QED
    BY <2>1, OwnerStays DEF GatewayStep, Shown
<1> QED
  BY <1>1, <1>2

(* The Node service implements the gateway both servers promise the page:     *)
(* only the start with the active generation moves the status and adds        *)
(* events, a stop ends it, and a superseded start never comes back.          *)
THEOREM ImplementsTheGateway == Spec => ImplementsGateway
<1>1. Init => Gateway!Init
  BY DEF Init, Gateway!Init, Owner, Starts
<1>2. IInv /\ IInv' /\ [Next]_vars => GatewayStep
  <2> SUFFICES ASSUME IInv, IInv', [Next]_vars PROVE GatewayStep
    OBVIOUS
  <2>1. ASSUME NEW r \in Requests, Call(r) \/ Handler(r) \/ Acks(r) PROVE GatewayStep
    BY <2>1, StartMaps, ClaimMaps, StopMaps, SendMaps DEF Call, Handler
  <2>2. ASSUME NEW r \in Requests, Opens(r) \/ Socket(r) PROVE GatewayStep
    BY <2>2, SocketMaps
  <2>3. CASE PruneEvents
    <3>1. UNCHANGED <<gen, activeGen, sock, status>> /\ \E kept \in SUBSET log : log' = kept
      BY <2>3 DEF PruneEvents, requestVars, serviceVars
    <3>2. Gateway!Forget
      BY <3>1, OwnerStays DEF Gateway!Forget
    <3> QED
      BY <3>2 DEF GatewayStep, Gateway!Next
  <2>4. CASE UNCHANGED vars
    <3>1. UNCHANGED <<gen, activeGen, sock, status, log>>
      BY <2>4 DEF vars, requestVars, serviceVars
    <3> QED
      BY <3>1, OwnerStays DEF GatewayStep, Shown
  <2> QED
    BY <2>1, <2>2, <2>3, <2>4 DEF Next
<1>3. GatewayStep => [Gateway!Next]_(Gateway!vars)
  BY DEF GatewayStep, Gateway!vars, Shown
<1> QED
  BY <1>1, <1>2, <1>3, Invariance, PTL DEF Spec, ImplementsGateway, Gateway!Spec
=============================================================================
