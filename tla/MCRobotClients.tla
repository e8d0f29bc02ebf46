--------------------------- MODULE MCRobotClients ---------------------------
(* Values for the constants of RobotClients.                               *)
EXTENDS RobotClients

MCDeltas == {-1, 3}
MCMisses == {-1, 0}
MCProbe == <<2, -1>>
MCLeaderAt == {-3}
MCTolerance == [unit \in Units |-> IF unit = "m" THEN 1 ELSE 2]
MCCasts ==
  {{client} : client \in Clients} \cup {{"probe", "pixel"}, {"servo", "yam"}, {"exec", "pixel"}}
MixedCasts == {{"yam", "pixel"}}

(* The hypothesis of SmallSteps, on this instance.                         *)
ASSUME MCRestoreIsSlow == RestoreIsSlow
=============================================================================
