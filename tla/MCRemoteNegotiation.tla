-------------------------- MODULE MCRemoteNegotiation --------------------------
(* RemoteNegotiation for TLC: one session whose reads overlap, with three    *)
(* events or with an ICE restart, and two sessions that follow each other.   *)
EXTENDS RemoteNegotiation

CONSTANTS p1, p2

Overlapping(events, notifies) ==
  [sessions |-> 1, reads |-> {p1, p2}, stats |-> TRUE, errors |-> FALSE,
   events |-> events, notifies |-> notifies]
Successive ==
  [sessions |-> 2, reads |-> {p1}, stats |-> FALSE, errors |-> TRUE,
   events |-> 3, notifies |-> 1]

Surroundings == {Overlapping(3, 0), Overlapping(2, 1), Successive}
=============================================================================
