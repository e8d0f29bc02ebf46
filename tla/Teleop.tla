------------------------------- MODULE Teleop -------------------------------
(***************************************************************************)
(* A person moves a leader arm and a follower arm moves along: the leader  *)
(* switchboard (leader_switchboard.py), which starts and stops             *)
(* so_leader_ws_bridge.py for its web clients, and yam_leader_ws_bridge.py *)
(* (all migrated/can-mac/scripts), which is started by hand.  The leader's *)
(* gripper is locked or still.                                             *)
(***************************************************************************)
EXTENDS RobotPose, Sequences

CONSTANTS
  Bridges,      (* the processes that may be so_leader_ws_bridge.py         *)
  NoBridge,
  Webs,         (* the web clients of the switchboard                       *)
  MaxStep,      (* --max-step, --max-joint-step                             *)
  Reach,        (* --max-joint-delta                                        *)
  MaxInFlight,  (* --max-in-flight                                          *)
  LeaderAt,     (* where the leader may be moved to                         *)
  LeaderMoves   (* bound: how often it is                                   *)

ASSUME TeleopAssumption ==
  /\ NoBridge \notin Bridges
  /\ MaxStep \in Nat \ {0} /\ Reach \in Nat /\ MaxInFlight \in Nat \ {0}
  /\ LeaderAt \subseteq Int /\ LeaderMoves \in Nat

VARIABLES
  leader,       (* the position of the leader arm                           *)
  moves,        (* how often it has been moved                              *)
  bridge,       (* so_leader_ws_bridge.py, per process                      *)
  wire,         (* its connection: commands the server has not served, and  *)
                (* replies the bridge has not drained                       *)
  runtime,      (* the switchboard's Runtime.proc                           *)
  web,          (* web client -> the request it waits for; the one that is  *)
                (* not idle holds runtime_lock                              *)
  hand          (* yam_leader_ws_bridge.py                                  *)

teleopVars == <<leader, moves, bridge, wire, runtime, web, hand>>

Origin == [part \in Parts |-> 0]
Off == [at |-> "none", arms |-> {}, wait |-> FALSE, base |-> Origin, lead |-> 0,
        command |-> Origin, flight |-> 0, stop |-> FALSE]
Silent == [queue |-> <<>>, replies |-> 0]
NoHand == [at |-> "none", command |-> Origin, synced |-> FALSE, pressed |-> FALSE,
           deadman |-> FALSE]

TeleopInit ==
  /\ leader = 0 /\ moves = 0
  /\ bridge = [b \in Bridges |-> Off] /\ wire = [b \in Bridges |-> Silent]
  /\ runtime = NoBridge
  /\ web = [w \in Webs |-> "idle"]
  /\ hand = NoHand

LeaderMoved ==
  /\ moves < LeaderMoves /\ moves' = moves + 1
  /\ leader' \in LeaderAt
  /\ UNCHANGED <<robotVars, bridge, wire, runtime, web, hand>>

(***************************************************************************)
(* The switchboard.                                                        *)
(***************************************************************************)

LiveBridge(b) == bridge[b].at # "none"
RuntimeLives == runtime # NoBridge /\ LiveBridge(runtime)

WebGoes(w, at) == web' = [web EXCEPT ![w] = at]

(* Runtime.stop, at the beginning of a start and of a stop: SIGINT, and    *)
(* SIGTERM and SIGKILL for a process that does not end.                    *)
WebAsks(w) ==
  /\ \A v \in Webs : web[v] = "idle"
  /\ \E request \in {"start", "stop"} : WebGoes(w, request)
  /\ bridge' = IF RuntimeLives THEN [bridge EXCEPT ![runtime].stop = TRUE] ELSE bridge
  /\ UNCHANGED <<robotVars, leader, moves, wire, runtime, hand>>

WebStopped(w) ==
  /\ web[w] = "stop" /\ ~RuntimeLives
  /\ runtime' = NoBridge /\ WebGoes(w, "idle")
  /\ UNCHANGED <<robotVars, leader, moves, bridge, wire, hand>>

(* Popen; a process that has ended and whose connection is closed may be   *)
(* used again here.                                                        *)
SpawnsAtOnce(w) ==
  /\ web[w] = "start"
  /\ \E b \in Bridges, arms \in {{"left"}, Arms}, wait \in BOOLEAN :
       /\ ~LiveBridge(b) /\ wire[b] = Silent
       /\ bridge' = [bridge EXCEPT ![b] = [Off EXCEPT !.at = "starts", !.arms = arms, !.wait = wait]]
       /\ runtime' = b
  /\ WebGoes(w, "check")
  /\ UNCHANGED <<robotVars, leader, moves, wire, hand>>

WebSpawns(w) ==
  /\ web[w] = "start" /\ ~RuntimeLives
  /\ \E b \in Bridges, arms \in {{"left"}, Arms}, wait \in BOOLEAN :
       /\ ~LiveBridge(b) /\ wire[b] = Silent
       /\ bridge' = [bridge EXCEPT ![b] = [Off EXCEPT !.at = "starts", !.arms = arms, !.wait = wait]]
       /\ runtime' = b
  /\ WebGoes(w, "check")
  /\ UNCHANGED <<robotVars, leader, moves, wire, hand>>

(* After a while: an error if the process has ended by then.               *)
WebChecks(w) ==
  /\ web[w] = "check"
  /\ runtime' = IF RuntimeLives THEN runtime ELSE NoBridge
  /\ WebGoes(w, "idle")
  /\ UNCHANGED <<robotVars, leader, moves, bridge, wire, hand>>

(***************************************************************************)
(* so_leader_ws_bridge.py                                                  *)
(***************************************************************************)

(* A signal, or an error of the serial line or of the connection; what it  *)
(* has sent may still be on the way.                                       *)
BridgeEnds(b) ==
  /\ LiveBridge(b) /\ bridge' = [bridge EXCEPT ![b] = Off]
  /\ UNCHANGED <<robotVars, leader, moves, wire, runtime, web, hand>>

(* The pose and the leader are read as a pair: no relative motion yet.     *)
BridgeSyncs(b) ==
  /\ bridge[b].at = "starts" /\ up
  /\ bridge' = [bridge EXCEPT ![b].at = "runs", ![b].base = pose, ![b].lead = leader,
                              ![b].command = pose]
  /\ UNCHANGED <<robotVars, leader, moves, wire, runtime, web, hand>>

TargetArm(s, arm) == s.base[arm] + Clip(leader - s.lead, Reach)

(* The command pose goes on by a step whether it is sent or not.           *)
NextCommand(s) ==
  [part \in Parts |->
     IF part \in s.arms THEN Stepped(s.command[part], TargetArm(s, part), MaxStep)
     ELSE s.base[part]]

(* One round without waiting: replies are drained, good or bad, and the    *)
(* command is sent if not too many are unanswered.                         *)
FiresUncounted(b) ==
  /\ bridge[b].at = "runs" /\ ~bridge[b].wait
  /\ LET s      == bridge[b]
         flight == s.flight
         q      == NextCommand(s)
         sends  == flight < MaxInFlight
     IN /\ bridge' = [bridge EXCEPT ![b].command = q,
                                    ![b].flight = flight + (IF sends THEN 1 ELSE 0)]
        /\ wire' = [wire EXCEPT ![b] =
             [queue |-> IF sends THEN Append(@.queue, q) ELSE @.queue, replies |-> 0]]
  /\ UNCHANGED <<robotVars, leader, moves, runtime, web, hand>>

BridgeFires(b) ==
  /\ bridge[b].at = "runs" /\ ~bridge[b].wait
  /\ LET s      == bridge[b]
         flight == s.flight - wire[b].replies
         q      == NextCommand(s)
         sends  == flight < MaxInFlight
     IN /\ bridge' = [bridge EXCEPT ![b].command = q,
                                    ![b].flight = flight + (IF sends THEN 1 ELSE 0)]
        /\ wire' = [wire EXCEPT ![b] =
             [queue |-> IF sends THEN Append(@.queue, q) ELSE @.queue, replies |-> 0]]
  /\ UNCHANGED <<robotVars, leader, moves, runtime, web, hand>>

(* One round that waits for the reply; an error ends the bridge.           *)
BridgeWaits(b) ==
  /\ bridge[b].at = "runs" /\ bridge[b].wait
  /\ LET q == NextCommand(bridge[b])
     IN \/ Accepted(q) /\ bridge' = [bridge EXCEPT ![b].command = q]
        \/ Rejected(q) /\ bridge' = [bridge EXCEPT ![b] = Off]
  /\ UNCHANGED <<leader, moves, wire, runtime, web, hand>>

(* The server's handler of the connection.                                 *)
Serves(b) ==
  /\ wire[b].queue # <<>>
  /\ Accepted(Head(wire[b].queue)) \/ Rejected(Head(wire[b].queue))
  /\ wire' = [wire EXCEPT ![b].queue = Tail(@), ![b].replies = @ + 1]
  /\ UNCHANGED <<leader, moves, bridge, runtime, web, hand>>

(* A connection whose bridge has ended is closed.                          *)
Closes(b) ==
  /\ ~LiveBridge(b) /\ wire[b] # Silent
  /\ wire' = [wire EXCEPT ![b] = Silent]
  /\ UNCHANGED <<robotVars, leader, moves, bridge, runtime, web, hand>>

(***************************************************************************)
(* yam_leader_ws_bridge.py, for the left arm.                              *)
(***************************************************************************)

HandStarts ==
  /\ hand.at = "none" /\ up
  /\ \E deadman \in BOOLEAN :
       hand' = [NoHand EXCEPT !.at = "reads", !.command = pose, !.deadman = deadman]
  /\ UNCHANGED <<robotVars, leader, moves, bridge, wire, runtime, web>>

(* The button is held to follow, or pressed to start and to stop: then the *)
(* whole pose is read again.                                               *)
HandReads ==
  /\ hand.at = "reads"
  /\ \E pressed \in BOOLEAN :
       LET toggled == ~hand.deadman /\ pressed /\ ~hand.pressed
       IN hand' = IF toggled /\ ~up THEN [NoHand EXCEPT !.at = "raised"]
                  ELSE [hand EXCEPT
                          !.at = "sends", !.pressed = pressed,
                          !.synced = IF hand.deadman THEN pressed ELSE @ # toggled,
                          !.command = IF toggled THEN pose ELSE @]
  /\ UNCHANGED <<robotVars, leader, moves, bridge, wire, runtime, web>>

(* The follower's joints go to where the leader's are.                     *)
HandSends ==
  /\ hand.at = "sends"
  /\ LET q == [hand.command EXCEPT !["left"] = Stepped(@, leader, MaxStep)]
     IN IF hand.synced
          THEN \/ Accepted(q) /\ hand' = [hand EXCEPT !.at = "reads", !.command = q]
               \/ Rejected(q) /\ hand' = [NoHand EXCEPT !.at = "raised"]
          ELSE hand' = [hand EXCEPT !.at = "reads"] /\ UNCHANGED robotVars
  /\ UNCHANGED <<leader, moves, bridge, wire, runtime, web>>

Switchboard == \E w \in Webs : WebAsks(w) \/ WebStopped(w) \/ WebSpawns(w) \/ WebChecks(w)
Follows(b) == BridgeFires(b) \/ BridgeWaits(b)
HandStep == HandStarts \/ HandReads \/ HandSends
=============================================================================
