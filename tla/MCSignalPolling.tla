---------------------------- MODULE MCSignalPolling ----------------------------
(* SignalPolling for TLC: a gateway that is stopped and started again, two   *)
(* browser sessions, and a status that changes or a request that fails.      *)
EXTENDS SignalPolling

Explored ==
  { [events |-> 1, starts |-> 2, sessions |-> 1, troubles |-> 0],
    [events |-> 2, starts |-> 1, sessions |-> 2, troubles |-> 0],
    [events |-> 1, starts |-> 1, sessions |-> 1, troubles |-> 1] }
=============================================================================
