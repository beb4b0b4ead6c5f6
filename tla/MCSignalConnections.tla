------------------------- MODULE MCSignalConnections -------------------------
(***************************************************************************)
(* The connections of both gateways to the signal server: the Node         *)
(* gateway's registry of services and the Worker's WebSocket, one          *)
(* behaviour following one of them.                                        *)
(***************************************************************************)
EXTENDS SessionRegistry, WorkerSignalSocket

VARIABLE scope

MCInit ==
  /\ RegistryInit /\ SocketInit
  /\ scope \in {"registry", "socket"}

MCNext ==
  \/ scope = "registry" /\ RegistryNext /\ UNCHANGED <<socketVars, scope>>
  \/ scope = "socket" /\ SocketNext /\ UNCHANGED <<registryVars, scope>>

MCFairSpec ==
  /\ MCInit /\ [][MCNext]_<<registryVars, socketVars, scope>>
  /\ RegistryFairness /\ SocketFairness
=============================================================================
