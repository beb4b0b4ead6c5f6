---------------------------- MODULE MCSignalPath ----------------------------
(***************************************************************************)
(* A page's account and its rooms, one behaviour following one of them.    *)
(***************************************************************************)
EXTENDS SignalPath, ProductAccount

VARIABLE scope

MCRooms == {[token |-> "t1", servers |-> <<"s1", "s2">>], [token |-> "t2", servers |-> <<"s1", "private">>]}
\* Rooms in every order, and the messages of the sessions of one room.
MCBudgets == {[joins |-> 2, changes |-> 5, sessions |-> 0, said |-> 0],
              [joins |-> 1, changes |-> 1, sessions |-> 1, said |-> 2],
              [joins |-> 1, changes |-> 0, sessions |-> 2, said |-> 2]}
\* A login kept from a device whose client id is none that the page makes up.
MCExports == {[token |-> "b", user |-> "b", client |-> 0, device |-> 0]}

MCSpent == [joins |-> 1, changes |-> 0, sessions |-> 2, said |-> 2]

MCInit ==
  /\ Init /\ AccountInit
  /\ \/ scope = "room" /\ store = Nobody
     \/ scope = "account" /\ left = MCSpent

MCNext ==
  \/ scope = "room" /\ Next /\ UNCHANGED <<accountVars, scope>>
  \/ scope = "account" /\ AccountNext /\ UNCHANGED <<vars, scope>>

MCSpec == MCInit /\ [][MCNext]_<<vars, accountVars, scope>>
=============================================================================
