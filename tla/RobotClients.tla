---------------------------- MODULE RobotClients ----------------------------
(***************************************************************************)
(* The programs of ExecLoop, PlannedMotion and Teleop as clients of one    *)
(* control server.  A run has some of them, its cast; nothing in the       *)
(* server keeps others away.                                               *)
(***************************************************************************)
EXTENDS ExecLoop, Teleop

CONSTANT
  Casts         (* the casts, each of members of Clients                    *)

Clients == {"exec", "probe", "pixel", "servo", "so", "yam"}

ASSUME CastAssumption == Casts \subseteq SUBSET Clients

VARIABLE
  cast          (* who takes part                                           *)

vars == <<robotVars, task, execVars, teleopVars, cast>>

Init ==
  RobotInit /\ MotionInit /\ ExecInit /\ TeleopInit /\ cast \in Casts

(* Steps of a member of the cast, and what they leave alone.               *)
Moves(client, A) == client \in cast /\ A /\ UNCHANGED <<teleopVars, cast>>

MoverStep ==
  \/ Moves("exec", ExecStep)
  \/ Moves("probe", ProbeStep) /\ UNCHANGED execVars
  \/ Moves("pixel", PixelStep) /\ UNCHANGED execVars
  \/ Moves("servo", ServoStep) /\ UNCHANGED execVars

Teleoperates(client, A) == client \in cast /\ A /\ UNCHANGED <<task, execVars, cast>>

LeaderStep ==
  /\ cast \cap {"so", "yam"} # {}
  /\ LeaderMoved /\ UNCHANGED <<task, execVars, cast>>

SoStep ==
  \/ Teleoperates("so", Switchboard)
  \/ \E b \in Bridges :
       \/ Teleoperates("so", BridgeEnds(b))
       \/ Teleoperates("so", BridgeSyncs(b))
       \/ Teleoperates("so", Follows(b))
       \/ Teleoperates("so", Serves(b))
       \/ Teleoperates("so", Closes(b))

RobotStep == Reconnects /\ UNCHANGED <<task, execVars, teleopVars, cast>>

Next ==
  \/ MoverStep \/ LeaderStep \/ SoStep \/ RobotStep
  \/ Teleoperates("yam", HandStep)

Spec == Init /\ [][Next]_vars

(* The loop of a bridge and the server's handlers run on; the server tries *)
(* to reconnect; a bridge told to stop is killed in the end.  The leader's *)
(* person, the web clients and the other programs owe nothing.             *)
Fairness ==
  /\ WF_vars(RobotStep)
  /\ \A b \in Bridges :
       /\ WF_vars(Teleoperates("so", Follows(b)))
       /\ WF_vars(Teleoperates("so", Serves(b)))
       /\ WF_vars(Teleoperates("so", Closes(b)))
       /\ WF_vars(bridge[b].stop /\ Teleoperates("so", BridgeEnds(b)))

LiveSpec == Spec /\ Fairness

-----------------------------------------------------------------------------
(* What the checks say about distances is so: what the gripper gained is   *)
(* above the tolerance of a unit when they say closer, and within one when *)
(* they say farther.  And a Cartesian move that was measured and gained    *)
(* too little in either unit is the last thing the model is let do (the    *)
(* help of --stop-on-failed-progress).                                     *)
AstrayMoveIsLast ==
  \A i \in DOMAIN transcript :
    LET move == transcript[i] IN
      /\ move.check = "closer" => \E unit \in Units : move.gain > Tolerance[unit]
      /\ move.check = "farther" => \E unit \in Units : move.gain <= Tolerance[unit]
      /\ /\ move.check \in {"closer", "farther"} /\ move.tool = "cartesian"
         /\ \A unit \in Units : move.gain <= Tolerance[unit]
         => i = Len(transcript) /\ TaskAt("exec", "done")

(* A probe that ends well and had the robot for itself leaves it where it  *)
(* found it, both arms and the gripper, however its moves fell out.        *)
ProbeRestores ==
  cast = {"probe"} /\ TaskAt("probe", "done") => pose = task["probe"].base

(* The moves of a probe, each of most segments or fewer, come to no more   *)
(* segments than there are steps on the way back (PROBES: four moves of at *)
(* most four segments; --restore-steps is 32 unless it is given).          *)
RestoreIsSlow ==
  \E most \in 0 .. RestoreSteps :
    /\ most * Len(Probe) <= RestoreSteps
    /\ \A i \in DOMAIN Probe : Segments(Probe[i]) <= most

(* The longest step a client may take: a servo that probes, or returns     *)
(* from it, goes by --probe-delta.                                         *)
LongestStep(client) ==
  CASE client = "yam" -> MaxStep
    [] client = "servo" /\ task["servo"].at \in {"probes", "returns"} -> Distance(ProbeDelta, 0)
    [] OTHER -> MaxJoint

(* A program that has the robot for itself moves an arm by no more than    *)
(* its bound at a time, whatever failed before, however its moves fell out *)
(* and however the leader's button was pressed; so_leader_ws_bridge.py is  *)
(* not one of these: what it does not send it has still stepped over.  For *)
(* the probe it depends on RestoreIsSlow: restore_joint_pos has no bound   *)
(* but the number of its steps.                                            *)
StepsAreBounded ==
  [][ \A client \in Clients \ {"so"}, part \in Arms :
        cast = {client} =>
          Distance(pose[part], pose'[part]) <= LongestStep(client) ]_vars

(* However web clients start and stop it, one leader bridge at most is     *)
(* alive, and it is the one the switchboard can stop.                      *)
OneBridge == \A b \in Bridges : LiveBridge(b) => runtime = b

(* A bridge that keeps running brings its arms to where the leader is, in  *)
(* both modes: also with rejected commands and lost arms on the way.       *)
FollowerCatchesUp ==
  \A b \in Bridges :
    <>[](cast = {"so"} /\ bridge[b].at = "runs")
      => <>[](\A arm \in bridge[b].arms : pose[arm] = TargetArm(bridge[b], arm))

(* yam_leader_ws_bridge.py:4-6: it "updates only the selected follower     *)
(* slice, leaving the other arm unchanged".                                *)
OtherArmUnchanged ==
  [][ Teleoperates("yam", HandStep) /\ up' => pose'["right"] = pose["right"] ]_vars
=============================================================================
