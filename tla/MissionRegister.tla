-------------------------- MODULE MissionRegister ---------------------------
(***************************************************************************)
(* What the commands of a Sternsystem promise about its missions, whatever *)
(* git does: a mission is opened while no other one is, it is closed or    *)
(* aborted once, and an opening that could not be published is withdrawn   *)
(* without a trace.  MissionLifecycle implements it when one process works *)
(* at a time (its RefinesRegister).                                        *)
(***************************************************************************)
EXTENDS Naturals

CONSTANT Missions

VARIABLE state

Init == state = [m \in Missions |-> "none"]

Open(m) ==
  /\ state[m] = "none"
  /\ \A n \in Missions : state[n] # "open"
  /\ state' = [state EXCEPT ![m] = "open"]

End(m) ==
  /\ state[m] = "open"
  /\ \E end \in {"closed", "aborted", "none"} : state' = [state EXCEPT ![m] = end]

Next == \E m \in Missions : Open(m) \/ End(m)

Spec == Init /\ [][Next]_state
=============================================================================
