-------------------------- MODULE MCRemoteClipboard --------------------------
(* RemoteClipboard for TLC: a text of one short block and one of two full ones. *)
EXTENDS RemoteClipboard

SizeOf == [t \in Texts |-> IF t = "long" THEN 2 ELSE 1]
=============================================================================
