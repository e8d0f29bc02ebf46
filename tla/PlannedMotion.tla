--------------------------- MODULE PlannedMotion ---------------------------
(***************************************************************************)
(* Programs that read the pose, plan from it, and send the plan command by *)
(* command: yam_cartesian_control.py, alone or as the child of             *)
(* yam_intentional_probe.py and yam_exec_loop.py, yam_move_to_depth_pixel  *)
(* .py and yam_visual_servo_touch.py (migrated/can-mac/scripts).  All of   *)
(* them are asked to move the right arm.  Kinematics, depth and image      *)
(* tracking are left out: what they compute is any value the code lets     *)
(* pass.                                                                   *)
(***************************************************************************)
EXTENDS RobotPose, Sequences

CONSTANTS
  Deltas,       (* the displacements a move may be asked for, in units of   *)
                (* --max-segment-m                                          *)
  MaxJoint,     (* --max-joint-delta, and the servo's --max-joint-step      *)
  Misses,       (* by how much inverse kinematics misses                    *)
  Probe,        (* the displacements of one entry of PROBES                 *)
  RestoreSteps, (* --restore-steps                                          *)
  Rounds,       (* --iterations of the servo                                *)
  ProbeDelta    (* --probe-delta of the servo, which nothing bounds         *)

ASSUME MotionAssumption ==
  /\ Deltas \subseteq Int /\ Misses \subseteq Int
  /\ MaxJoint \in Nat \ {0}
  /\ Probe \in Seq(Int) /\ RestoreSteps \in Nat \ {0} /\ Rounds \in Nat \ {0}
  /\ ProbeDelta \in Int

VARIABLE
  task          (* program -> where it is: base, the pose it read; plan,    *)
                (* the poses it will command; goes, the displacement asked  *)
                (* for; todo, the moves of a probe or rounds of a servo     *)

Movers == {"exec", "probe", "pixel", "servo"}

Fresh ==
  [at |-> "none", base |-> [part \in Parts |-> 0], plan |-> <<>>, goes |-> 0,
   todo |-> <<>>]

MotionInit == task = [p \in Movers |-> Fresh]

TaskAt(p, at) == task[p].at = at
Becomes(p, t) == task' = [task EXCEPT ![p] = t]
TaskGoes(p, at) == Becomes(p, [task[p] EXCEPT !.at = at])

(* An exception ends a program; Done is its regular end.                   *)
Raises(p) == Becomes(p, [Fresh EXCEPT !.at = "raised"])
Done(p, last) == Becomes(p, [Fresh EXCEPT !.at = "done", !.base = last])

(***************************************************************************)
(* yam_cartesian_control.py                                                *)
(***************************************************************************)

Segments(d) == IF d = 0 THEN 1 ELSE Distance(d, 0)

(* What inverse kinematics finds for a segment, scaled down to MaxJoint.   *)
UnboundedArmTarget(now, desired) == desired
BoundedArmTarget(now, desired) == Stepped(now, desired, MaxJoint)

(* Every segment starts where the one before it is to end, and carries the *)
(* rest of the vector along as it was read.                                *)
CartesianPlan(q, d, miss) ==
  LET n == Segments(d)
      arm[i \in 0 .. n] ==
        IF i = 0 THEN q["right"]
        ELSE BoundedArmTarget(arm[i - 1], arm[i - 1] + d \div n + miss[i])
  IN [i \in 1 .. n |-> [q EXCEPT !["right"] = arm[i]]]

(* A plan that did not converge is only sent if that is allowed; unless it *)
(* was started by the loop it ends with the segment that did not.          *)
PlanCartesian(p) ==
  /\ TaskAt(p, "plans")
  /\ \/ Raises(p)
     \/ /\ up
        /\ \E miss \in [1 .. Segments(task[p].goes) -> Misses] :
             LET plan == CartesianPlan(pose, task[p].goes, miss)
             IN \E last \in DOMAIN plan :
                  /\ p = "exec" => last = Len(plan)
                  /\ Becomes(p, [task[p] EXCEPT !.at = "moves", !.plan = SubSeq(plan, 1, last)])
  /\ UNCHANGED robotVars

(* Joints 1 to 3 stay where they were read: for the pose, the same again.  *)
PlanWrist(p) ==
  /\ TaskAt(p, "aims")
  /\ \/ Raises(p)
     \/ /\ up
        /\ Becomes(p, [task[p] EXCEPT !.at = "moves", !.plan = <<pose>>])
  /\ UNCHANGED robotVars

(* A command of the plan, of whose steps the last one counts; the status   *)
(* is looked at before each segment.  A parent may run out of patience and *)
(* kill it.                                                                *)
SendPlanned(p) ==
  /\ TaskAt(p, "moves") /\ task[p].plan # <<>>
  /\ LET q == Head(task[p].plan)
     IN \/ Accepted(q) /\ Becomes(p, [task[p] EXCEPT !.plan = Tail(@)])
        \/ Rejected(q) /\ Raises(p)
        \/ UNCHANGED robotVars /\ Raises(p)

Sent(p) == TaskAt(p, "moves") /\ task[p].plan = <<>>

(***************************************************************************)
(* yam_intentional_probe.py                                                *)
(***************************************************************************)

ProbeBegins ==
  /\ TaskAt("probe", "none")
  /\ Becomes("probe", [Fresh EXCEPT !.at = "looks", !.todo = Probe])
  /\ UNCHANGED robotVars

(* A snapshot; the first one is the baseline.  Then the next move.         *)
ProbeLooks ==
  /\ TaskAt("probe", "looks")
  /\ \/ Raises("probe")
     \/ LET t == [task["probe"] EXCEPT !.base = IF task["probe"].todo = Probe THEN pose ELSE @]
        IN /\ up
           /\ IF t.todo = <<>>
                THEN Becomes("probe", [t EXCEPT !.at = "restores"])
                ELSE Becomes("probe", [t EXCEPT !.at = "plans", !.goes = Head(t.todo),
                                                !.todo = Tail(@)])
  /\ UNCHANGED robotVars

ProbeMoved ==
  /\ Sent("probe") /\ TaskGoes("probe", "looks")
  /\ UNCHANGED robotVars

(* From the pose it reads to the baseline, in equal steps.                 *)
RestoreAlmost(now, base) ==
  [i \in 1 .. RestoreSteps |->
     [part \in Parts |-> now[part] + ((base[part] - now[part]) * (i - 1)) \div RestoreSteps]]

RestorePlan(now, base) ==
  [i \in 1 .. RestoreSteps |->
     [part \in Parts |-> now[part] + ((base[part] - now[part]) * i) \div RestoreSteps]]

RestoreJointPos ==
  /\ TaskAt("probe", "restores")
  /\ \/ Raises("probe")
     \/ up /\ Becomes("probe", [task["probe"] EXCEPT !.at = "restoring",
                                  !.plan = RestorePlan(pose, task["probe"].base)])
  /\ UNCHANGED robotVars

RestoreStep ==
  /\ TaskAt("probe", "restoring")
  /\ LET plan == task["probe"].plan
     IN IF plan = <<>>
          THEN /\ Raises("probe") \/ Done("probe", task["probe"].base)
               /\ UNCHANGED robotVars
          ELSE \/ /\ Accepted(Head(plan))
                  /\ Becomes("probe", [task["probe"] EXCEPT !.plan = Tail(@)])
               \/ Rejected(Head(plan)) /\ Raises("probe")

(***************************************************************************)
(* yam_move_to_depth_pixel.py: one command, if inverse kinematics          *)
(* converges.                                                              *)
(***************************************************************************)

PixelPlans ==
  /\ TaskAt("pixel", "none")
  /\ \/ Raises("pixel")
     \/ /\ up
        /\ \E d \in Deltas :
             Becomes("pixel", [Fresh EXCEPT !.at = "moves",
               !.plan = <<[pose EXCEPT !["right"] = BoundedArmTarget(@, @ + d)]>>])
  /\ UNCHANGED robotVars

PixelMoved ==
  /\ Sent("pixel") /\ Done("pixel", task["pixel"].base)
  /\ UNCHANGED robotVars

(***************************************************************************)
(* yam_visual_servo_touch.py, with one joint                               *)
(***************************************************************************)

ServoBegins ==
  /\ TaskAt("servo", "none")
  /\ \/ Raises("servo")
     \/ up /\ Becomes("servo", [Fresh EXCEPT !.at = "observes", !.base = pose,
                                  !.todo = [i \in 1 .. Rounds |-> i]])
  /\ UNCHANGED robotVars

(* The target may be lost, or tracked with too low a score.                *)
ServoObserves ==
  /\ TaskAt("servo", "observes")
  /\ Raises("servo") \/ TaskGoes("servo", "probes")
  /\ UNCHANGED robotVars

ServoSends(at, q, next) ==
  /\ TaskAt("servo", at)
  /\ \/ Accepted(q) /\ TaskGoes("servo", next)
     \/ Rejected(q) /\ Raises("servo")

(* estimate_jacobian: out by --probe-delta, a look, and back.              *)
ServoProbes ==
  ServoSends("probes", [task["servo"].base EXCEPT !["right"] = @ + ProbeDelta], "probed")
ServoProbed ==
  /\ TaskAt("servo", "probed")
  /\ Raises("servo") \/ TaskGoes("servo", "returns")
  /\ UNCHANGED robotVars
ServoReturns == ServoSends("returns", task["servo"].base, "updates")

(* plan_update, bounded by --max-joint-step.                               *)
ServoUpdates ==
  \E d \in Deltas :
    ServoSends("updates", [task["servo"].base EXCEPT !["right"] = @ + Clip(d, MaxJoint)], "reads")

(* The pose is read again for the next round.                              *)
ServoReads ==
  /\ TaskAt("servo", "reads")
  /\ \/ Raises("servo")
     \/ LET rest == Tail(task["servo"].todo)
        IN /\ up
           /\ IF rest = <<>> THEN Done("servo", pose)
              ELSE Becomes("servo", [task["servo"] EXCEPT !.at = "observes", !.base = pose,
                                                          !.todo = rest])
  /\ UNCHANGED robotVars

ProbeStep ==
  \/ ProbeBegins \/ ProbeLooks \/ PlanCartesian("probe") \/ ProbeMoved \/ RestoreJointPos \/ RestoreStep
  \/ SendPlanned("probe")
PixelStep == PixelPlans \/ SendPlanned("pixel") \/ PixelMoved
ServoStep ==
  \/ ServoBegins \/ ServoObserves \/ ServoProbes \/ ServoProbed \/ ServoReturns
  \/ ServoUpdates \/ ServoReads
=============================================================================
