---------------------------- MODULE MCRemoteInput ----------------------------
(***************************************************************************)
(* The keys and buttons of a stage, where its pointer is, and the channels *)
(* they use: a behaviour follows one of the three.                         *)
(***************************************************************************)
EXTENDS RemoteInput, RemotePointing, RemoteWire

VARIABLE scope

\* The left and the right Command (Windows) key.
FamilyOf == [k \in Modifiers |-> "Meta"]

\* A wide stage, a tall one and one that is not laid out.
MCLayouts == {[left |-> 3, top |-> 2, width |-> 12, height |-> 6],
              [left |-> 0, top |-> 5, width |-> 5, height |-> 9],
              [left |-> 0, top |-> 0, width |-> 0, height |-> 0]}
\* One video changes its shape, the other keeps it.
MCSizes  == <<{<<8, 6>>, <<3, 4>>}, {<<3, 4>>}>>
\* Inside the stage and outside of it.
MCPoints == {<<4, 3>>, <<14, 9>>}
\* Up, and clearly so for a desktop.
MCWheels == {<<1, -3>>}

MCInit ==
  /\ InputInit /\ PointingInit /\ WireInit
  /\ scope \in {"keys", "pointing", "wire"}
  /\ scope # "pointing" => layout = CHOOSE l \in Layouts : TRUE
  /\ scope # "keys" => mac /\ readsLocal
  /\ scope # "pointing" => desktop
  /\ scope # "wire" => blobs

MCNext ==
  \/ scope = "keys" /\ InputNext /\ UNCHANGED <<pointingVars, wireVars>>
  \/ scope = "pointing" /\ PointingNext /\ UNCHANGED <<inputVars, wireVars>>
  \/ scope = "wire" /\ WireNext /\ UNCHANGED <<inputVars, pointingVars>>

MCSpec == MCInit /\ [][MCNext /\ UNCHANGED scope]_<<inputVars, pointingVars, wireVars, scope>>
=============================================================================
