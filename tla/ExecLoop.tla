------------------------------ MODULE ExecLoop ------------------------------
(***************************************************************************)
(* yam_exec_loop.py (migrated/can-mac/scripts), with --execute: it         *)
(* observes, lets a model choose a tool, runs the tool and, if the arm     *)
(* moved, observes again to see whether the gripper came closer.           *)
(***************************************************************************)
EXTENDS PlannedMotion

CONSTANTS
  Target,       (* where the right arm touches the target                   *)
  MaxDelta,     (* --max-cartesian-delta                                    *)
  MaxSteps,     (* --max-steps                                              *)
  Tolerance     (* --progress-tolerance-m and --progress-tolerance-px       *)

(* The units a distance is measured in: metres and pixels.                 *)
Units == {"m", "px"}

ASSUME ExecAssumption ==
  /\ Target \in Int /\ MaxDelta \in Nat /\ MaxSteps \in Nat \ {0}
  /\ Tolerance \in [Units -> Nat]

VARIABLES
  round,        (* the action of the step, and the observations around it   *)
  located,      (* args._located_target_pixel and _located_gripper_pixel:   *)
                (* what is at them, or nothing                              *)
  transcript    (* the records of the steps                                 *)

execVars == <<round, located, transcript>>

Tools == {"cartesian", "wrist", "gripper"}
NoObservation == [px |-> {}, m |-> {}, real |-> 0]
NoRound == [tool |-> "none", done |-> FALSE, before |-> NoObservation,
            after |-> NoObservation, moved |-> FALSE]
Nothing == [target |-> {}, gripper |-> {}]

ExecInit ==
  /\ round = NoRound /\ located = Nothing /\ transcript = <<>>

(* _observe_with_locator: the pixels of the last observation are forgotten,*)
(* the locator finds some of them in the new picture, and the distance is  *)
(* measured between them if both are there, in metres if both have depth.  *)
(* The two units measure one line, with a tolerance each; the pixels that  *)
(* --target-pixel and --gripper-pixel may fix are not given.               *)
StillLocated(seen) ==
  [target  |-> IF "target" \in seen THEN {Target} ELSE located.target,
   gripper |-> IF "gripper" \in seen THEN {pose["right"]} ELSE located.gripper]

Located(seen) ==
  [target  |-> IF "target" \in seen THEN {Target} ELSE {},
   gripper |-> IF "gripper" \in seen THEN {pose["right"]} ELSE {}]

Observation(depth) ==
  LET px == {Distance(t, g) : t \in located'.target, g \in located'.gripper}
  IN [px |-> px, m |-> IF depth THEN px ELSE {}, real |-> Distance(Target, pose["right"])]

(* A snapshot needs the robot and the cameras, or the program ends.        *)
Findings == SUBSET {"target", "gripper"}

Observes(next, seen) ==
  up /\ TaskGoes("exec", next) /\ located' = Located(seen) /\ UNCHANGED transcript

ExecObserves ==
  /\ TaskAt("exec", "none")
  /\ \/ Raises("exec") /\ UNCHANGED execVars
     \/ \E seen \in Findings, depth \in BOOLEAN :
          /\ Observes("decides", seen)
          /\ round' = [NoRound EXCEPT !.before = Observation(depth)]
  /\ UNCHANGED robotVars

(* The model's answer; hard_stop is a method the control server does not   *)
(* have, and its error ends the program, like an arm that is missing.      *)
ExecDecides ==
  /\ TaskAt("exec", "decides")
  /\ \/ Raises("exec") /\ UNCHANGED round
     \/ \E tool \in Tools, done \in BOOLEAN, d \in Deltas :
          /\ up /\ round' = [round EXCEPT !.tool = tool, !.done = done]
          /\ Becomes("exec", [task["exec"] EXCEPT
               !.at = CASE tool = "cartesian" -> "plans"
                        [] tool = "wrist"     -> "aims"
                        [] OTHER              -> "grips",
               !.goes = IF tool = "cartesian" THEN Clip(d, MaxDelta) ELSE 0])
  /\ UNCHANGED <<robotVars, located, transcript>>

(* _set_gripper reads the whole vector and sends it back.                  *)
ExecGrips ==
  /\ TaskAt("exec", "grips")
  /\ \/ Raises("exec")
     \/ \E value \in {0, 1} :
          up /\ Becomes("exec", [task["exec"] EXCEPT
                  !.at = "gripping", !.plan = <<[pose EXCEPT !["grip"] = value]>>])
  /\ UNCHANGED <<robotVars, execVars>>

ExecGripped ==
  /\ TaskAt("exec", "gripping")
  /\ \/ Accepted(task["exec"].plan[1]) /\ Becomes("exec", [Fresh EXCEPT !.at = "records"])
     \/ Rejected(task["exec"].plan[1]) /\ Raises("exec")
  /\ UNCHANGED execVars

(* Only a tool that reports "executed" is followed by an observation.      *)
ExecMoved ==
  /\ Sent("exec") /\ TaskGoes("exec", "checks")
  /\ round' = [round EXCEPT !.moved = TRUE]
  /\ UNCHANGED <<robotVars, located, transcript>>

ExecChecks ==
  /\ TaskAt("exec", "checks")
  /\ \/ Raises("exec") /\ UNCHANGED execVars
     \/ \E seen \in Findings, depth \in BOOLEAN :
          /\ Observes("records", seen)
          /\ round' = [round EXCEPT !.after = Observation(depth)]
  /\ UNCHANGED robotVars

(* _progress_check, in a unit both observations have: less than the        *)
(* tolerance of that unit is no progress.                                  *)
ProgressCheck(before, after) ==
  LET units == {unit \in Units : before[unit] # {} /\ after[unit] # {}}
      unit  == IF "m" \in units THEN "m" ELSE "px"
  IN IF units = {} THEN "invalid"
     ELSE IF \E b \in before[unit], a \in after[unit] : b - a > Tolerance[unit]
          THEN "closer" ELSE "farther"

Record ==
  [tool     |-> round.tool,
   executed |-> round.moved,
   check    |-> IF round.moved THEN ProgressCheck(round.before, round.after) ELSE "none",
   gain     |-> round.before.real - round.after.real]

(* --stop-on-failed-progress.                                              *)
StopsAfter(record) == record.tool = "cartesian" /\ record.check = "farther"

ExecRecords ==
  /\ TaskAt("exec", "records")
  /\ transcript' = Append(transcript, Record)
  /\ IF round.done \/ StopsAfter(Record) \/ Len(transcript) + 1 = MaxSteps
       THEN Done("exec", task["exec"].base)
       ELSE Becomes("exec", Fresh)
  /\ round' = NoRound
  /\ UNCHANGED <<robotVars, located>>

ExecStep ==
  \/ ExecObserves \/ ExecDecides \/ ExecGrips \/ ExecGripped \/ ExecMoved
  \/ ExecChecks \/ ExecRecords
  \/ PlanCartesian("exec") /\ UNCHANGED execVars
  \/ PlanWrist("exec") /\ UNCHANGED execVars
  \/ SendPlanned("exec") /\ UNCHANGED execVars
=============================================================================
