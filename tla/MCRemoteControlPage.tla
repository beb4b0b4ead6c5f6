-------------------------- MODULE MCRemoteControlPage --------------------------
(* RemoteControlPage for TLC: two pages, of two devices or one, with a press  *)
(* and a fault between them, and one page with two faults, so that a retry    *)
(* fails as well, or with two presses, so that a second stop may follow a     *)
(* first that failed.                                                         *)
EXTENDS RemoteControlPage

MCBudgets == {[mounts |-> 2, calls |-> 1, faults |-> 1], [mounts |-> 1, calls |-> 0, faults |-> 2],
              [mounts |-> 1, calls |-> 2, faults |-> 1]}
\* one page without presses: its own recovery is enough
MCFaulty == {[mounts |-> 1, calls |-> 0, faults |-> 2]}
=============================================================================
