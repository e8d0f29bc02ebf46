----------------------------- MODULE RobotPose -----------------------------
(***************************************************************************)
(* The control server as its clients see it: one vector of joint positions *)
(* for both arms, left first, which get_joint_pos returns and              *)
(* command_joint_pos sets as a whole (migrated/can-mac/scripts/            *)
(* yam_control_ws_server.py).  YamControl has its inside; here a call is a *)
(* step.  A part of the vector stands for joints that move together, as an *)
(* integer away from their limits; an arm is where it was last told to be. *)
(***************************************************************************)
EXTENDS Integers, FiniteSets

CONSTANT
  MaxFaults     (* bound: how often an arm fails under a command            *)

ASSUME PoseAssumption == MaxFaults \in Nat

VARIABLES
  pose,         (* left: the left arm; right, grip: the right arm and its   *)
                (* gripper                                                  *)
  up,           (* both arms are connected                                  *)
  faults        (* how often one has failed                                 *)

robotVars == <<pose, up, faults>>

Arms == {"left", "right"}
Parts == Arms \cup {"grip"}

RobotInit == pose = [part \in Parts |-> 0] /\ up = TRUE /\ faults = 0

Distance(a, b) == IF a > b THEN a - b ELSE b - a
Clip(x, most) == IF x > most THEN most ELSE IF x < -most THEN -most ELSE x
(* From a to b by at most a step.                                          *)
Stepped(a, b, most) == a + Clip(b - a, most)

Accepted(q) == up /\ pose' = q /\ UNCHANGED <<up, faults>>

(* No arm moves while one is disconnected; one that fails under the        *)
(* command raises after the left arm was served.                           *)
Rejected(q) ==
  \/ ~up /\ UNCHANGED robotVars
  \/ /\ up /\ faults < MaxFaults
     /\ up' = FALSE /\ faults' = faults + 1
     /\ \/ UNCHANGED pose
        \/ pose' = [pose EXCEPT !["left"] = q["left"]]

Reconnects == ~up /\ up' = TRUE /\ UNCHANGED <<pose, faults>>
=============================================================================
