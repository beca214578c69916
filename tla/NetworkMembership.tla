-------------------------- MODULE NetworkMembership --------------------------
(***************************************************************************)
(* What the join procedure promises: a device that is not a member tries,  *)
(* each try ends with the network's answer, a refused device tries again,  *)
(* and a device that the network accepts again and again becomes a member. *)
(* A member may leave, and a device that has left comes back.              *)
(***************************************************************************)
VARIABLE phase

Init == phase = "out"

Try    == phase = "out"    /\ phase' = "trying"
Refuse == phase = "trying" /\ phase' = "out"
Accept == phase = "trying" /\ phase' = "member"

Leave  == phase = "member" /\ phase' = "away"
Rejoin == phase = "away"   /\ phase' = "member"

Next == Try \/ Refuse \/ Accept \/ Leave \/ Rejoin

Spec == Init /\ [][Next]_phase

FairSpec ==
  /\ Spec
  /\ WF_phase(Try) /\ WF_phase(Refuse \/ Accept) /\ SF_phase(Accept)
  /\ WF_phase(Rejoin)

=============================================================================
