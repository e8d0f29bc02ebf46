----------------------------- MODULE YamControl -----------------------------
(***************************************************************************)
(* The arm control server                                                  *)
(* (migrated/can-mac/scripts/yam_control_ws_server.py): two arms, each     *)
(* with a robot object that drives its CAN channel, and one thread per RPC *)
(* client.  Reconnecting, commanding and closing hold the server's lock;   *)
(* reading the robots, and marking an arm failed after a read, do not.     *)
(*                                                                         *)
(* A robot is a member of Robots from the moment the factory opens it; it  *)
(* is alive until it is closed.  Time is reduced to whether the retry time *)
(* of an arm has come (due).                                               *)
(***************************************************************************)
EXTENDS Naturals, Sequences, FiniteSets

CONSTANTS
  Threads,      (* RPC client connections, each served by a thread         *)
  Robots,       (* bound: the robot objects that may exist at a time       *)
  None,         (* no robot, no lock holder                                *)
  Settings,     (* the settings to check, see below                        *)
  FloatLimit    (* the largest power of two the retry delay can have       *)

Arms == {"left", "right"}
ArmOrder == <<"left", "right">>   (* the order of the dictionary of arms   *)

(* What a run varies: the methods each client calls (get_joint_pos,        *)
(* get_observations, get_robot_info, num_dofs and zero_torque_mode have    *)
(* one shape, "read"), the arms whose robots and connections may fail, and *)
(* whether the CAN bridge may die and fail to start.                       *)
MethodNames == {"read", "command", "reconnect", "close"}
Setting ==
  [methods : [Threads -> SUBSET MethodNames], unreliable : SUBSET Arms,
   bridgeFails : BOOLEAN]

ASSUME ControlAssumption ==
  /\ None \notin Robots \cup Threads
  /\ Settings \subseteq Setting
  /\ FloatLimit \in Nat \ {0}
  /\ IsFiniteSet(Threads)
  /\ \E f \in [Arms -> Robots] : f["left"] # f["right"]

VARIABLES
  setting,      (* the setting of this behaviour                           *)
  robot,        (* runtime.robot of each arm                               *)
  connected,    (* runtime.connected                                       *)
  due,          (* next_reconnect_at <= now                                *)
  attempts,     (* runtime.reconnect_attempts                              *)
  closed,       (* server.closed                                           *)
  lock,         (* holder of server.lock                                   *)
  bridge,       (* whether the bridge runs with its sockets                *)
  alive,        (* robots opened by the factory and not closed             *)
  call          (* the call each thread is in                              *)

arms == <<robot, connected, due, attempts>>
vars == <<setting, arms, closed, lock, bridge, alive, call>>

Unreliable == setting.unreliable
BridgeFails == setting.bridgeFails

(* todo: the arms still to visit; list: the arms to connect or to close;   *)
(* got: the robots _require_robot returned.                                *)
Idle ==
  [pc |-> "idle", method |-> "none", todo |-> <<>>, list |-> <<>>,
   got |-> [a \in Arms |-> None]]

(* start(), 184-193, has started the bridge and tried to connect each arm. *)
Init ==
  /\ setting \in Settings
  /\ connected \in [Arms -> BOOLEAN]
  /\ \A a \in Arms \ Unreliable : connected[a]
  /\ LET opened == CHOOSE f \in [Arms -> Robots] : f["left"] # f["right"]
     IN robot = [a \in Arms |-> IF connected[a] THEN opened[a] ELSE None]
  /\ alive = {robot[a] : a \in Arms} \ {None}
  /\ due = connected
  /\ attempts = [a \in Arms |-> IF connected[a] THEN 0 ELSE 1]
  /\ closed = FALSE
  /\ lock = None
  /\ bridge = TRUE
  /\ call = [th \in Threads |-> Idle]

-----------------------------------------------------------------------------
At(th, pc) == call[th].pc = pc
Arm(th) == Head(call[th].todo)
Goto(th, pc) == call' = [call EXCEPT ![th].pc = pc]

(* The call ends: its result or error is sent to the client, and a "with   *)
(* lock" block it is in releases the lock.                                 *)
Return(th) ==
  /\ call' = [call EXCEPT ![th] = Idle]
  /\ lock' = IF lock = th THEN None ELSE lock

Acquire(th) == lock = None /\ lock' = th

Disconnected(a) == robot[a] = None \/ ~connected[a]

(* _schedule_reconnect, 238-241.  The delay is a float times 2 to the      *)
(* number of earlier attempts: beyond FloatLimit the product raises, after *)
(* the attempt was counted and before the retry time is set.  The count    *)
(* goes on from there but makes no difference: it stops at FloatLimit + 1. *)
Schedule(a) ==
  /\ attempts' = [attempts EXCEPT ![a] = IF @ > FloatLimit THEN @ ELSE @ + 1]
  /\ due' = [due EXCEPT ![a] = IF attempts[a] < FloatLimit THEN FALSE ELSE @]

ScheduleRaises(a) == attempts[a] >= FloatLimit

-----------------------------------------------------------------------------
(* A client calls a method: _handle_rpc_method, 448-480.                   *)
Begin(th) ==
  /\ At(th, "idle")
  /\ \E method \in setting.methods[th] :
       call' = [call EXCEPT ![th] =
         [Idle EXCEPT
            !.method = method,
            !.pc = CASE method = "reconnect" -> "lock reconnect"
                     [] method = "close" -> "lock close"
                     [] OTHER -> "check",
            !.todo = IF method \in {"read", "command"} THEN ArmOrder ELSE <<>>]]
  /\ UNCHANGED <<arms, closed, lock, bridge, alive>>

(* _require_robot, 294-303: three reads of the runtime, without the lock.  *)
Check(th) ==
  /\ At(th, "check")
  /\ Goto(th, IF Disconnected(Arm(th)) THEN "lock retry" ELSE "recheck")
  /\ UNCHANGED <<arms, closed, lock, bridge, alive>>

Recheck(th) ==
  /\ At(th, "recheck")
  /\ IF Disconnected(Arm(th)) THEN Return(th)
     ELSE Goto(th, "fetch") /\ UNCHANGED lock
  /\ UNCHANGED <<arms, closed, bridge, alive>>

(* The robot is returned: a read uses it at once (308-314), a command      *)
(* first collects the robots of both arms (332).                           *)
Fetch(th) ==
  /\ At(th, "fetch")
  /\ LET got == [call[th].got EXCEPT ![Arm(th)] = robot[Arm(th)]]
         rest == Tail(call[th].todo)
     IN \/ /\ call[th].method = "read"
           /\ call' = [call EXCEPT ![th].got = got, ![th].pc = "read"]
        \/ /\ call[th].method = "command" /\ rest # <<>>
           /\ call' = [call EXCEPT ![th].got = got, ![th].pc = "check", ![th].todo = rest]
        \/ /\ call[th].method = "command" /\ rest = <<>>
           /\ call' = [call EXCEPT ![th].got = got, ![th].pc = "lock command",
                                   ![th].todo = ArmOrder]
  /\ UNCHANGED <<arms, closed, lock, bridge, alive>>

(* reconnect_due_arms, 256-265, and the reconnect method, 457-461: both    *)
(* connect a list of arms under the lock.                                  *)
DueArms ==
  LET Due(a) == IF ~connected[a] /\ due[a] THEN <<a>> ELSE <<>>
  IN Due("left") \o Due("right")

LockRetry(th) ==
  /\ At(th, "lock retry")
  /\ Acquire(th)
  /\ call' = [call EXCEPT ![th].pc = "connect", ![th].list = DueArms]
  /\ UNCHANGED <<arms, closed, bridge, alive>>

LockReconnect(th) ==
  /\ At(th, "lock reconnect")
  /\ Acquire(th)
  /\ call' = [call EXCEPT ![th].pc = "connect", ![th].list = ArmOrder]
  /\ UNCHANGED <<arms, closed, bridge, alive>>

Connected(th) ==
  /\ At(th, "connect")
  /\ call[th].list = <<>>
  /\ IF call[th].method = "reconnect" THEN Return(th)
     ELSE Goto(th, "recheck") /\ lock' = None
  /\ UNCHANGED <<arms, closed, bridge, alive>>

NextToConnect(th) == call' = [call EXCEPT ![th].list = Tail(@)] /\ UNCHANGED lock

(* Robots that neither live nor are referred to.                           *)
Unused ==
  Robots \ (alive \cup {robot[a] : a \in Arms}
                  \cup {call[th].got[a] : th \in Threads, a \in Arms})

(* A closed server connects nothing (209-210).  Mutant: it does.           *)
MayConnectAlways == TRUE
MayConnect == ~closed

(* The factory opens a robot; the one the arm had is forgotten, not closed.*)
Opens(th, a) ==
  /\ Unused # {}
  /\ LET opened == CHOOSE r \in Unused : TRUE IN
       /\ robot' = [robot EXCEPT ![a] = opened]
       /\ alive' = alive \cup {opened}
  /\ connected' = [connected EXCEPT ![a] = TRUE]
  /\ due' = [due EXCEPT ![a] = TRUE]
  /\ attempts' = [attempts EXCEPT ![a] = 0]
  /\ NextToConnect(th)

(* Mutant: the arm keeps the robot it had.                                 *)
OpenFailsKeepingRobot(th, a) ==
  /\ a \in Unreliable \/ Unused = {}
  /\ connected' = [connected EXCEPT ![a] = FALSE]
  /\ Schedule(a)
  /\ IF ScheduleRaises(a) THEN Return(th) ELSE NextToConnect(th)
  /\ UNCHANGED <<robot, alive>>

(* The factory raises: it may on an unreliable arm, and does when the      *)
(* bound on robots is reached.                                             *)
OpenFails(th, a) ==
  /\ a \in Unreliable \/ Unused = {}
  /\ robot' = [robot EXCEPT ![a] = None]
  /\ connected' = [connected EXCEPT ![a] = FALSE]
  /\ Schedule(a)
  /\ IF ScheduleRaises(a) THEN Return(th) ELSE NextToConnect(th)
  /\ UNCHANGED alive

(* _connect_arm, 207-236, of the next arm on the list: the bridge is       *)
(* ensured (84-86, 54-69), which may raise, and the factory is called.     *)
ConnectArm(th) ==
  /\ At(th, "connect")
  /\ call[th].list # <<>>
  /\ LET a == Head(call[th].list) IN
     \/ /\ ~MayConnect
        /\ NextToConnect(th)
        /\ UNCHANGED <<arms, bridge, alive>>
     \/ /\ MayConnect /\ ~bridge /\ BridgeFails
        /\ Return(th)
        /\ UNCHANGED <<arms, bridge, alive>>
     \/ /\ MayConnect
        /\ bridge' = TRUE
        /\ Opens(th, a) \/ OpenFails(th, a)
  /\ UNCHANGED closed

-----------------------------------------------------------------------------
(* A call of a robot can fail on an unreliable arm, without the bridge, or *)
(* when it is closed, and does fail when another thread has set the robot  *)
(* to None.                                                                *)
MayFail(th) ==
  Arm(th) \in Unreliable \/ ~bridge \/ call[th].got[Arm(th)] \notin alive
MaySucceed(th) == call[th].got[Arm(th)] # None

(* The next arm, or the end of the call.                                   *)
NextArm(th, pc) ==
  LET rest == Tail(call[th].todo) IN
  IF rest = <<>> THEN Return(th)
  ELSE /\ call' = [call EXCEPT ![th].todo = rest, ![th].pc = pc]
       /\ lock' = IF lock = th THEN None ELSE lock

(* _joint_pos_one, 308-314, and its likes: no lock is held.                *)
ReadRobot(th) ==
  /\ At(th, "read")
  /\ \/ MaySucceed(th) /\ NextArm(th, "check")
     \/ MayFail(th) /\ Goto(th, "mark") /\ UNCHANGED lock
  /\ UNCHANGED <<arms, closed, bridge, alive>>

(* command_joint_pos, 333-342: the lock is taken for each arm in turn.     *)
LockCommand(th) ==
  /\ At(th, "lock command")
  /\ Acquire(th)
  /\ Goto(th, "command")
  /\ UNCHANGED <<arms, closed, bridge, alive>>

(* Mutant: a failing command is repeated until it succeeds, in the lock.    *)
CommandRobotUntilDone(th) ==
  /\ At(th, "command")
  /\ \/ MaySucceed(th) /\ NextArm(th, "lock command")
     \/ MayFail(th) /\ UNCHANGED <<call, lock>>
  /\ UNCHANGED <<arms, closed, bridge, alive>>

CommandRobot(th) ==
  /\ At(th, "command")
  /\ \/ MaySucceed(th) /\ NextArm(th, "lock command")
     \/ MayFail(th) /\ Goto(th, "mark") /\ UNCHANGED lock
  /\ UNCHANGED <<arms, closed, bridge, alive>>

(* _mark_arm_failed, 243-254: the flag, then the robot the arm has by now  *)
(* is closed (closing may itself fail), then it is forgotten.              *)
MarkDisconnected(th) ==
  /\ At(th, "mark")
  /\ connected' = [connected EXCEPT ![Arm(th)] = FALSE]
  /\ Goto(th, "mark close")
  /\ UNCHANGED <<robot, due, attempts, closed, lock, bridge, alive>>

MarkClose(th) ==
  /\ At(th, "mark close")
  /\ alive' \in {alive \ {robot[Arm(th)]}, alive}
  /\ Goto(th, "mark forget")
  /\ UNCHANGED <<arms, closed, lock, bridge>>

MarkForget(th) ==
  /\ At(th, "mark forget")
  /\ robot' = [robot EXCEPT ![Arm(th)] = None]
  /\ Schedule(Arm(th))
  /\ Return(th)
  /\ UNCHANGED <<connected, closed, bridge, alive>>

-----------------------------------------------------------------------------
(* close(), 195-205: once only.  A robot whose closing raises ends the     *)
(* call; nothing is closed after it.                                       *)
LockClose(th) ==
  /\ At(th, "lock close")
  /\ lock = None
  /\ IF closed
     THEN Return(th)
     ELSE /\ lock' = th
          /\ call' = [call EXCEPT ![th].pc = "close", ![th].list = ArmOrder]
  /\ closed' = TRUE
  /\ UNCHANGED <<arms, bridge, alive>>

CloseArm(th) ==
  /\ At(th, "close")
  /\ call[th].list # <<>>
  /\ LET a == Head(call[th].list) IN
     \/ /\ alive' = alive \ {robot[a]}
        /\ robot' = [robot EXCEPT ![a] = None]
        /\ connected' = [connected EXCEPT ![a] = FALSE]
        /\ NextToConnect(th)
     \/ /\ robot[a] # None /\ a \in Unreliable
        /\ Return(th)
        /\ UNCHANGED <<alive, robot, connected>>
  /\ UNCHANGED <<due, attempts, closed, bridge>>

CloseBridge(th) ==
  /\ At(th, "close")
  /\ call[th].list = <<>>
  /\ bridge' = FALSE
  /\ Return(th)
  /\ UNCHANGED <<arms, closed, alive>>

-----------------------------------------------------------------------------
(* The retry time of an arm comes.                                         *)
Tick(a) ==
  /\ ~due[a]
  /\ due' = [due EXCEPT ![a] = TRUE]
  /\ UNCHANGED <<robot, connected, attempts, closed, lock, bridge, alive, call>>

BridgeDies ==
  /\ BridgeFails /\ bridge
  /\ bridge' = FALSE
  /\ UNCHANGED <<arms, closed, lock, alive, call>>

(* A step inside a call.                                                   *)
Step(th) ==
  \/ Check(th) \/ Recheck(th) \/ Fetch(th)
  \/ LockRetry(th) \/ LockReconnect(th) \/ Connected(th) \/ ConnectArm(th)
  \/ ReadRobot(th) \/ LockCommand(th) \/ CommandRobot(th)
  \/ MarkDisconnected(th) \/ MarkClose(th) \/ MarkForget(th)
  \/ LockClose(th) \/ CloseArm(th) \/ CloseBridge(th)

Next ==
  /\ \/ \E th \in Threads : Begin(th) \/ Step(th)
     \/ \E a \in Arms : Tick(a)
     \/ BridgeDies
  /\ UNCHANGED setting

Spec == Init /\ [][Next]_vars

(* Every thread of the process runs, and robot calls return.               *)
LiveSpec == Spec /\ \A th \in Threads : WF_vars(Step(th) /\ UNCHANGED setting)

-----------------------------------------------------------------------------
Quiet == \A th \in Threads : At(th, "idle")

(* The server serves one client.                                           *)
OneClient == Cardinality({th \in Threads : setting.methods[th] # {}}) = 1

(* Between the calls of one client the table tells the truth: an arm is    *)
(* marked connected when it has a robot, and the robot is alive.  Without  *)
(* it an arm is stuck: reconnect_due_arms (256-265) only takes arms that   *)
(* are marked disconnected.                                                *)
TableIsTrue ==
  OneClient /\ Quiet => \A a \in Arms :
    IF connected[a] THEN robot[a] \in alive ELSE robot[a] = None

(* close() is for good: once it has begun no robot is opened any more, and *)
(* no call starts the bridge again (195-211).                              *)
ClosedForGood ==
  [][closed => alive' \subseteq alive /\ (bridge' => bridge)]_vars

(* Every critical section ends: no call waits for the lock it holds, and   *)
(* every way out of a call releases it.                                    *)
LockIsReleased == \A th \in Threads : lock = th ~> lock # th

(* README of can-mac, line 79: the server retries disconnected arms.  When *)
(* no call is under way, an arm without a robot is one that a retry takes. *)
DisconnectedIsRetried ==
  Quiet /\ ~closed => \A a \in Arms : robot[a] = None => ~connected[a]
=============================================================================
