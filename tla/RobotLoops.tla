---------------------------- MODULE RobotLoops ----------------------------
(***************************************************************************)
(* The programs that move the robot by themselves, as processes of one     *)
(* machine: hybrid_robot_loop.py, local_modal_robot_bridge.py,             *)
(* direct_robot_control.py, direct_bimanual_parallel.py and                *)
(* yam_samba_dance_ws.py (all migrated/can-mac/scripts), next to the       *)
(* control server and a CAN bridge, which only start, serve and end here.  *)
(* What they share is the file HARD_STOP.                                  *)
(*                                                                         *)
(* A step ends where another process may write or remove the file or send  *)
(* a signal and the program can tell: between its look at the file, the    *)
(* model's answer and each command to the robot.                           *)
(***************************************************************************)
EXTENDS Naturals, FiniteSets

CONSTANTS
  Pids,         (* the process ids; one is free again when its process ends *)
  Batch,        (* --execute-action-steps: targets taken from one answer    *)
  Corrections   (* bound: commands of one _maybe_correct_chip_box           *)

ASSUME LoopAssumption ==
  IsFiniteSet(Pids) /\ Batch \in Nat \ {0} /\ Corrections \in Nat \ {0}

VARIABLES
  stopFile,     (* HARD_STOP exists                                         *)
  socket,       (* /tmp/can0.sock exists                                    *)
  proc,         (* pid -> its process                                       *)
  asked,        (* an operator asked for a hard stop and took it back never *)
  after         (* pid -> commands sent since then                          *)

loopVars == <<stopFile, socket, proc, asked, after>>

Polling == {"hybrid", "modal", "direct", "both", "dance"}

(* flag: STOP_REQUESTED, or a signal that is not yet handled; left: the    *)
(* commands of the current batch still to send; shell: a child of yamctl   *)
(* or of a script in their process group, where killpg(pid) does not find  *)
(* it.                                                                     *)
Gone ==
  [prog |-> "none", at |-> "none", opts |-> {}, flag |-> FALSE, left |-> 0,
   shell |-> FALSE]

Live(p) == proc[p].prog # "none"
Running(prog) == {p \in Pids : proc[p].prog = prog}

LoopInit ==
  /\ stopFile \in BOOLEAN /\ socket \in BOOLEAN
  /\ proc = [p \in Pids |-> Gone]
  /\ asked = FALSE
  /\ after = [p \in Pids |-> 0]

(* Popen, of a program with options opts.                                  *)
Spawned(p, prog, opts, shell) ==
  [proc EXCEPT ![p] = [Gone EXCEPT !.prog = prog, !.at = "starts",
                                   !.opts = opts, !.shell = shell]]

At(p, prog, at) == proc[p].prog = prog /\ proc[p].at = at
(* The options are read at the start only.                                 *)
Goes(p, at, n) ==
  proc' = [proc EXCEPT ![p].at = at, ![p].left = n, ![p].opts = {}]
Continues(p, at, n) == Goes(p, at, n) /\ UNCHANGED after
Exits(p) ==
  /\ proc' = [proc EXCEPT ![p] = Gone]
  /\ after' = [after EXCEPT ![p] = 0]
Stopped(p) == proc[p].flag \/ stopFile
Keeps == UNCHANGED <<stopFile, socket, asked>>

(* command_joint_pos.  The count stops one above what any program may send. *)
Commands(p) ==
  after' = [after EXCEPT ![p] = IF asked /\ @ <= Batch + Corrections THEN @ + 1 ELSE @]

(***************************************************************************)
(* Starting.                                                               *)
(***************************************************************************)

(* A refusal while HARD_STOP exists.                                       *)
Refuses(p) == stopFile /\ "ignore" \notin proc[p].opts

HybridStart(p) ==
  /\ At(p, "hybrid", "starts")
  /\ IF Refuses(p)
       THEN Exits(p) /\ Keeps
       ELSE /\ Goes(p, "opens", 0) /\ UNCHANGED socket
            /\ IF "clear" \in proc[p].opts
                 THEN /\ stopFile' = FALSE /\ asked' = FALSE
                      /\ after' = [q \in Pids |-> 0]
                 ELSE UNCHANGED <<stopFile, asked, after>>

(* Sources are checked, the policy is warmed up, arms and cameras are      *)
(* opened: any of them may end the program before its loop.                *)
HybridOpen(p) ==
  /\ At(p, "hybrid", "opens")
  /\ Continues(p, "turn", 0) \/ Exits(p)
  /\ Keeps

ModalStart(p) ==
  /\ At(p, "modal", "starts")
  /\ Continues(p, "turn", 0) \/ Exits(p)
  /\ stopFile' = FALSE
  /\ UNCHANGED <<socket, asked>>

DirectStart(p) ==
  /\ At(p, "direct", "starts")
  /\ (~Refuses(p) /\ Continues(p, "turn", 0)) \/ Exits(p)
  /\ Keeps

BothStart(p) ==
  /\ At(p, "both", "starts")
  /\ (~Refuses(p) /\ Continues(p, "turn", 0)) \/ Exits(p)
  /\ Keeps

Served == \E q \in Pids : At(q, "control", "serves")

DanceStart(p) ==
  /\ At(p, "dance", "starts")
  /\ (~Refuses(p) /\ Served /\ Continues(p, "turn", 0)) \/ Exits(p)
  /\ Keeps

(* The control server removes the file before it opens the arms.           *)
ControlStart(p) ==
  /\ At(p, "control", "starts") /\ ~proc[p].flag
  /\ Continues(p, "serves", 0)
  /\ stopFile' = FALSE
  /\ UNCHANGED <<socket, asked>>

(* slcan_bridge.py, and the Rust bridge, remove the socket and bind it     *)
(* again, or fail on the adapter in between.                               *)
BridgeStart(p) ==
  /\ At(p, "bridge", "starts") /\ ~proc[p].flag
  /\ \/ Continues(p, "serves", 0) /\ socket' = TRUE
     \/ Exits(p) /\ socket' = FALSE
  /\ UNCHANGED <<stopFile, asked>>

(***************************************************************************)
(* Running.                                                                *)
(***************************************************************************)

(* Joint states that are missing or too hot, a camera that fails.          *)
Blocked(p) == Exits(p)

(* What can be taken from an answer: no target, when it has no action of a *)
(* usable shape, up to Batch of them.                                      *)
Extracted == 0 .. Batch

HybridTurnOn(p) ==
  /\ At(p, "hybrid", "turn") /\ ~proc[p].flag
  /\ Continues(p, "asks", 0) \/ Blocked(p)
  /\ Keeps

HybridTurn(p) ==
  /\ At(p, "hybrid", "turn")
  /\ (~Stopped(p) /\ Continues(p, "asks", 0)) \/ Blocked(p)
  /\ Keeps

(* The policy answers; its warnings only count with --stop-on-model-warning. *)
HybridAnswer(p) ==
  /\ At(p, "hybrid", "asks")
  /\ (\E n \in Extracted : Continues(p, "moves", n)) \/ Exits(p)
  /\ Keeps

(* The targets are sent without another look at HARD_STOP or at the        *)
(* temperatures; a single arm may be corrected after them.                 *)
HybridMove(p) ==
  /\ At(p, "hybrid", "moves") /\ proc[p].left > 0
  /\ (Goes(p, "moves", proc[p].left - 1) /\ Commands(p)) \/ Exits(p)
  /\ Keeps

HybridAfter(p) ==
  /\ At(p, "hybrid", "moves") /\ proc[p].left = 0
  /\ (\E n \in 0 .. Corrections : Continues(p, "corrects", n)) \/ Exits(p)
  /\ Keeps

HybridCorrect(p) ==
  /\ At(p, "hybrid", "corrects")
  /\ IF proc[p].left > 0
       THEN Goes(p, "corrects", proc[p].left - 1) /\ Commands(p)
       ELSE Continues(p, "turn", 0) \/ Exits(p)
  /\ Keeps

ModalTurn(p) ==
  /\ At(p, "modal", "turn")
  /\ (~Stopped(p) /\ Continues(p, "asks", 0)) \/ Blocked(p)
  /\ Keeps

ModalAnswer(p) ==
  /\ At(p, "modal", "asks")
  /\ (\E n \in Extracted : Continues(p, "moves", n)) \/ Exits(p)
  /\ Keeps

(* The temperatures are looked at before each target, HARD_STOP is not.    *)
ModalMove(p) ==
  /\ At(p, "modal", "moves")
  /\ \/ proc[p].left > 0 /\ Goes(p, "moves", proc[p].left - 1) /\ Commands(p)
     \/ proc[p].left = 0 /\ Continues(p, "turn", 0)
     \/ Blocked(p)
  /\ Keeps

(* One interpolated step after another, each after a look at the file.     *)
DirectTurn(p) ==
  /\ At(p, "direct", "turn")
  /\ (~Stopped(p) /\ Continues(p, "moves", 1)) \/ Blocked(p)
  /\ Keeps

(* The left arm's command, then the right arm's.                           *)
BothTurnOnSignal(p) ==
  /\ At(p, "both", "turn")
  /\ (~proc[p].flag /\ Continues(p, "moves", 2)) \/ (proc[p].flag /\ Exits(p))
  /\ Keeps

BothTurn(p) ==
  /\ At(p, "both", "turn")
  /\ (~Stopped(p) /\ Continues(p, "moves", 2)) \/ Blocked(p)
  /\ Keeps

(* A dance that is stopped breaks off and restores the pose it began with. *)
DanceTurn(p) ==
  /\ At(p, "dance", "turn")
  /\ \/ Stopped(p) /\ Continues(p, "restores", 0)
     \/ ~Stopped(p) /\ Continues(p, "moves", 1)
     \/ ~Stopped(p) /\ Continues(p, "restores", 0)
     \/ Exits(p)
  /\ Keeps

(* The dance moves the robot through the control server.                   *)
Reached(p) == proc[p].prog = "dance" => Served

StepMove(p) ==
  /\ proc[p].prog \in {"direct", "both", "dance"} /\ proc[p].at = "moves"
  /\ \/ proc[p].left > 0 /\ Reached(p) /\ Goes(p, "moves", proc[p].left - 1) /\ Commands(p)
     \/ proc[p].left = 0 /\ Continues(p, "turn", 0)
     \/ Exits(p)
  /\ Keeps

(* _interpolate_to looks at the file before each of its steps and raises.  *)
DanceRestore(p) ==
  /\ At(p, "dance", "restores")
  /\ \/ ~Stopped(p) /\ Continues(p, "restoring", 1)
     \/ Exits(p)
  /\ Keeps

DanceRestoreMove(p) ==
  /\ At(p, "dance", "restoring")
  /\ (Reached(p) /\ Goes(p, "restores", 0) /\ Commands(p)) \/ Exits(p)
  /\ Keeps

(***************************************************************************)
(* Signals.                                                                *)
(***************************************************************************)

(* A program that has not installed its handlers (it may have them before  *)
(* its first look at HARD_STOP), and the bridge, which has none, die of a  *)
(* signal; the bridge leaves its socket behind.                            *)
Dies(p) ==
  /\ proc[p].flag /\ (proc[p].at = "starts" \/ proc[p].prog = "bridge")
  /\ Exits(p) /\ Keeps

(* The handler of the control server closes it.                            *)
ControlEnds(p) == At(p, "control", "serves") /\ proc[p].flag /\ Exits(p) /\ Keeps

(* A bridge that loses its adapter removes its socket.                     *)
BridgeEnds(p) ==
  /\ At(p, "bridge", "serves") /\ ~proc[p].flag
  /\ Exits(p) /\ socket' = FALSE
  /\ UNCHANGED <<stopFile, asked>>

LoopStep(p) ==
  \/ HybridStart(p) \/ HybridOpen(p) \/ HybridTurn(p) \/ HybridAnswer(p)
  \/ HybridMove(p) \/ HybridAfter(p) \/ HybridCorrect(p)
  \/ ModalStart(p) \/ ModalTurn(p) \/ ModalAnswer(p) \/ ModalMove(p)
  \/ DirectStart(p) \/ DirectTurn(p) \/ BothStart(p) \/ BothTurn(p) \/ StepMove(p)
  \/ DanceStart(p) \/ DanceTurn(p) \/ DanceRestore(p) \/ DanceRestoreMove(p)
  \/ ControlStart(p) \/ BridgeStart(p) \/ Dies(p) \/ ControlEnds(p)
=============================================================================
