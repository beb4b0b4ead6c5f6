----------------------- MODULE MCRemoteControlService -----------------------
(* RemoteControlService for TLC: requests are interchangeable.              *)
EXTENDS RemoteControlService, TLC

RequestSymmetry == Permutations(Requests)
=============================================================================
