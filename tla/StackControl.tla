--------------------------- MODULE StackControl ---------------------------
(***************************************************************************)
(* yamctl (migrated/can-mac/_yamtest/cli.py) in a terminal and the         *)
(* dashboard (dashboard.py) in a browser: they start programs, stop them   *)
(* by their pid files and set and clear HARD_STOP, while the programs of   *)
(* RobotLoops run.                                                         *)
(*                                                                         *)
(* The operator has a terminal and a browser and runs one command at a     *)
(* time; another one may use the dashboard meanwhile, and anybody may set  *)
(* or clear HARD_STOP at any time.  A command runs step by step: each look *)
(* at the process list, at a pid file, at HARD_STOP or at the socket, each *)
(* start, each signal and each write of a pid file is a step.              *)
(***************************************************************************)
EXTENDS RobotLoops, Sequences

CONSTANTS
  Casts,        (* who works (operators) and what may be started (programs);*)
                (* one of them is chosen at the start                       *)
  NoPid         (* no pid file                                              *)

ASSUME StackAssumption ==
  /\ Casts \subseteq [operators : SUBSET {"operator", "dashboard"},
                      programs  : SUBSET (Polling \cup {"control", "bridge", "script"})]
  /\ NoPid \notin Pids

VARIABLES
  cast,         (* the member of Casts                                      *)
  pidfile,      (* logs/<name>.pid                                          *)
  op,           (* operator -> the command it is in                         *)
  crossed       (* history: bridges have been started by two at a time      *)

stackVars == <<cast, loopVars, pidfile, op, crossed>>

Operators == cast.operators
Programs == cast.programs

Names == {"model", "control", "bridge"}
NameOf(prog) == IF prog \in {"hybrid", "modal"} THEN "model" ELSE prog

(* want: the program the command is to start; now: the one it is starting  *)
(* in the background, which is the bridge before want; todo: the names     *)
(* still to be stopped, or the steps still to be taken after them; child:  *)
(* what it waits for in the foreground, or is about to write to a pid file. *)
Idle == [pc |-> "idle", want |-> "none", now |-> "none", opts |-> {}, back |-> FALSE,
         todo |-> <<>>, child |-> NoPid]

StackInit ==
  /\ cast \in Casts
  /\ LoopInit
  /\ pidfile = [name \in Names |-> NoPid]
  /\ op = [o \in {"operator", "dashboard"} |-> Idle]
  /\ crossed = FALSE

Begins(o, command) == op[o] = Idle /\ op' = [op EXCEPT ![o] = command]
Proceeds(o, pc) == op' = [op EXCEPT ![o].pc = pc]
Undertakes(o, prog, pc) == op' = [op EXCEPT ![o].pc = pc, ![o].now = prog]
Ends(o) == op' = [op EXCEPT ![o] = Idle]

(***************************************************************************)
(* The process list and the pid files.                                     *)
(***************************************************************************)

(* _pid_running of _read_pid: whatever process has that pid now.           *)
PidRunning(name) == pidfile[name] # NoPid /\ Live(pidfile[name])

(* _discover_pid, _discover_bridge_pid.                                    *)
Patterns ==
  [model |-> {"hybrid", "modal", "both"}, control |-> {"control"}, bridge |-> {"bridge"}]
Discovered(name) == {p \in Pids : proc[p].prog \in Patterns[name]}

(* _robot_owner_lines.  A dance is no owner.                               *)
Owners == {p \in Pids :
             proc[p].prog \in {"hybrid", "modal", "direct", "both", "control"}}

(***************************************************************************)
(* _start_background, of the program now.                                  *)
(***************************************************************************)

(* cmd_start_bridge waits for the socket, other commands end.              *)
Returns(o) ==
  op' = [op EXCEPT ![o] = IF @.now = "bridge"
                            THEN [@ EXCEPT !.pc = "wait", !.now = "none", !.child = NoPid]
                            ELSE Idle]

Holds(o, p, pc) == op' = [op EXCEPT ![o].pc = pc, ![o].child = p]

LookAtPid(o) ==
  /\ op[o].pc = "look"
  /\ IF PidRunning(NameOf(op[o].now)) THEN Returns(o) ELSE Proceeds(o, "list")
  /\ UNCHANGED <<loopVars, pidfile>>

ListProcesses(o) ==
  /\ op[o].pc = "list"
  /\ LET found == Discovered(NameOf(op[o].now))
     IN \/ \E p \in found : Holds(o, p, "record")
        \/ found = {} /\ Proceeds(o, "spawn")
  /\ UNCHANGED <<loopVars, pidfile>>

(* A bridge gets no options.                                               *)
Spawn(o) ==
  /\ op[o].pc = "spawn"
  /\ \E p \in Pids :
       /\ ~Live(p) /\ Holds(o, p, "record")
       /\ proc' = Spawned(p, op[o].now, IF op[o].now = "bridge" THEN {} ELSE op[o].opts, FALSE)
  /\ UNCHANGED <<stopFile, socket, asked, after, pidfile>>

(* Mutant: a pid file that is there, from whatever process, is kept.       *)
RecordOnce(o) ==
  /\ op[o].pc = "record"
  /\ LET name == NameOf(op[o].now)
     IN pidfile' = [pidfile EXCEPT ![name] = IF @ = NoPid THEN op[o].child ELSE @]
  /\ Returns(o) /\ UNCHANGED loopVars

Record(o) ==
  /\ op[o].pc = "record"
  /\ pidfile' = [pidfile EXCEPT ![NameOf(op[o].now)] = op[o].child]
  /\ Returns(o) /\ UNCHANGED loopVars

StartBackground(o) == LookAtPid(o) \/ ListProcesses(o) \/ Spawn(o) \/ Record(o)

(***************************************************************************)
(* Commands that start a program.                                          *)
(***************************************************************************)

StartsModel(o) ==
  \E prog \in Programs \cap {"hybrid", "modal"}, back \in BOOLEAN,
     opts \in SUBSET {"clear", "ignore"} :
    Begins(o, [Idle EXCEPT !.pc = "guard", !.want = prog, !.opts = opts, !.back = back])

StartsDirect(o) ==
  \E prog \in Programs \cap {"direct", "both"}, opts \in SUBSET {"ignore"} :
    Begins(o, [Idle EXCEPT !.pc = "guard", !.want = prog, !.opts = opts])

StartsControl(o) ==
  \E prog \in Programs \cap {"control"}, back \in BOOLEAN :
    Begins(o, [Idle EXCEPT !.pc = "guard", !.want = prog, !.back = back])

StartsBridge(o) ==
  "bridge" \in Programs /\ Begins(o, [Idle EXCEPT !.pc = "bridge", !.now = "bridge"])

(* Where a start goes on behind the guard.                                 *)
Admitted(o) ==
  CASE op[o].want = "modal"   -> Proceeds(o, "check")
    [] op[o].want = "control" -> Proceeds(o, "launch")
    [] OTHER                  -> Undertakes(o, "bridge", "bridge")

(* _ensure_no_robot_owner, without --allow-concurrent-owner.               *)
GuardOpen(o) ==
  /\ op[o].pc = "guard"
  /\ IF op[o].back /\ Running(op[o].want) # {} THEN Ends(o) ELSE Admitted(o)
  /\ UNCHANGED <<loopVars, pidfile>>

Guard(o) ==
  /\ op[o].pc = "guard"
  /\ IF Owners # {} THEN Ends(o) ELSE Admitted(o)
  /\ UNCHANGED <<loopVars, pidfile>>

(* yamctl run: --clear-stop, then the look at HARD_STOP; the program gets  *)
(* neither option.                                                         *)
ChecksOut(o) ==
  op' = [op EXCEPT ![o].pc = "bridge", ![o].now = "bridge", ![o].opts = {}]

CheckStop(o) ==
  /\ op[o].pc = "check"
  /\ IF "clear" \in op[o].opts
       THEN /\ stopFile' = FALSE /\ asked' = FALSE
            /\ after' = [p \in Pids |-> 0] /\ ChecksOut(o)
       ELSE /\ UNCHANGED <<stopFile, asked, after>>
            /\ IF stopFile /\ "ignore" \notin op[o].opts THEN Ends(o) ELSE ChecksOut(o)
  /\ UNCHANGED <<socket, proc, pidfile>>

(* cmd_start_bridge: a socket, and a bridge in the process list, are       *)
(* enough; a second look at the list finds the pid for the pid file.       *)
AfterBridge(o) ==
  op' = [op EXCEPT ![o] = IF @.want = "none" THEN Idle
                          ELSE [@ EXCEPT !.pc = "launch", !.now = "none", !.child = NoPid]]

LookForSocket(o) ==
  /\ op[o].pc = "bridge"
  /\ Proceeds(o, IF socket THEN "lines" ELSE "look")
  /\ UNCHANGED <<loopVars, pidfile>>

(* unlink raises when the socket has been removed meanwhile.               *)
LookForBridge(o) ==
  /\ op[o].pc = "lines"
  /\ IF Discovered("bridge") # {} THEN Proceeds(o, "adopts") /\ UNCHANGED socket
     ELSE /\ socket' = FALSE
          /\ IF socket THEN Proceeds(o, "look") ELSE Ends(o)
  /\ UNCHANGED <<stopFile, proc, asked, after, pidfile>>

DiscoverBridge(o) ==
  /\ op[o].pc = "adopts"
  /\ \/ \E p \in Discovered("bridge") : Holds(o, p, "adopt")
     \/ Discovered("bridge") = {} /\ AfterBridge(o)
  /\ UNCHANGED <<loopVars, pidfile>>

AdoptBridge(o) ==
  /\ op[o].pc = "adopt"
  /\ pidfile' = [pidfile EXCEPT !["bridge"] = op[o].child]
  /\ AfterBridge(o) /\ UNCHANGED loopVars

(* _wait_for_socket, for a while.                                          *)
WaitForSocket(o) ==
  /\ op[o].pc = "wait"
  /\ (socket /\ AfterBridge(o)) \/ (~socket /\ Ends(o))
  /\ UNCHANGED <<loopVars, pidfile>>

StartBridge(o) ==
  \/ LookForSocket(o) \/ LookForBridge(o) \/ DiscoverBridge(o) \/ AdoptBridge(o)
  \/ WaitForSocket(o)

(* In the background, or as a child of yamctl.                             *)
Launch(o) ==
  /\ op[o].pc = "launch"
  /\ \/ op[o].back /\ Undertakes(o, op[o].want, "look") /\ UNCHANGED proc
     \/ /\ ~op[o].back
        /\ \E p \in Pids :
             /\ ~Live(p) /\ proc' = Spawned(p, op[o].want, op[o].opts, TRUE)
             /\ op' = [op EXCEPT ![o] = [Idle EXCEPT !.pc = "waits", !.child = p]]
  /\ UNCHANGED <<stopFile, socket, asked, after, pidfile>>

(* The child has ended, or Ctrl-C reached both: the child goes on until it *)
(* handles the signal.                                                     *)
ChildEnds(o) ==
  /\ op[o].pc = "waits" /\ ~Live(op[o].child)
  /\ Ends(o) /\ UNCHANGED <<loopVars, pidfile>>

Interrupt(o) ==
  /\ op[o].pc = "waits" /\ Live(op[o].child)
  /\ proc' = [proc EXCEPT ![op[o].child].flag = TRUE]
  /\ Ends(o) /\ UNCHANGED <<stopFile, socket, asked, after, pidfile>>

(* A demo that is started by hand next to a control server.                *)
StartsDance ==
  /\ "dance" \in Programs /\ Running("dance") = {}
  /\ \E p \in Pids : ~Live(p) /\ proc' = Spawned(p, "dance", {}, TRUE)
  /\ UNCHANGED <<stopFile, socket, asked, after, pidfile, op, crossed>>

(* Bridges are started by two at a time: a command looks for a bridge or   *)
(* starts one while another one does, or the script starts one then, or    *)
(* next to a bridge that runs.                                             *)
StartingBridge(commands) == {o \in Operators : commands[o].now = "bridge"}
Crosses ==
  crossed' = (crossed \/ \E x, y \in StartingBridge(op') : x # y)

(* start_bimanual_bridges.sh in a terminal of its own, which looks for no  *)
(* bridge of yamctl: the bridges are its children.                         *)
BridgeByHand ==
  /\ "script" \in Programs
  /\ \E p \in Pids : ~Live(p) /\ proc' = Spawned(p, "bridge", {}, TRUE)
  /\ socket' = FALSE
  /\ crossed' = (crossed \/ Running("bridge") # {} \/ StartingBridge(op) # {})
  /\ UNCHANGED <<stopFile, asked, after, pidfile, op>>

(***************************************************************************)
(* Commands that stop.                                                     *)
(***************************************************************************)

SetStop ==
  /\ stopFile' = TRUE /\ asked' = TRUE
  /\ after' = [p \in Pids |-> 0]

ClearStop ==
  /\ stopFile' = FALSE /\ asked' = FALSE
  /\ after' = [p \in Pids |-> 0]

(* yamctl hard-stop and clear-stop, from any terminal or the dashboard.    *)
HardStops == SetStop /\ UNCHANGED <<socket, proc, pidfile, op, crossed>>
ClearsStop == ClearStop /\ UNCHANGED <<socket, proc, pidfile, op, crossed>>

(* yamctl stop, with or without --hard-stop.                               *)
Stops(o) ==
  /\ \E names \in {<<"model", "control", "bridge">>, <<"model">>} :
       Begins(o, [Idle EXCEPT !.pc = "stop", !.todo = names])
  /\ SetStop \/ UNCHANGED <<stopFile, asked, after>>
  /\ UNCHANGED <<socket, proc, pidfile>>

(* _stop_pid: the signal goes to the group of whatever has the pid; a pid  *)
(* that leads no group raises, and the other names are not stopped.  What  *)
(* the list shows of the script's bridge may be the script, which leads    *)
(* its group, or a child.                                                  *)
StopPid(o) ==
  /\ op[o].pc = "stop" /\ Head(op[o].todo) \in Names
  /\ LET name == Head(op[o].todo)
         p    == pidfile[name]
         rest == [op[o] EXCEPT !.todo = Tail(@)]
         next == op' = [op EXCEPT ![o] = IF rest.todo = <<>> THEN Idle ELSE rest]
     IN \/ ~PidRunning(name) /\ next /\ UNCHANGED proc
        \/ PidRunning(name) /\ proc[p].shell /\ Ends(o) /\ UNCHANGED proc
        \/ /\ PidRunning(name) /\ (proc[p].shell => proc[p].prog = "bridge")
           /\ next /\ proc' = [proc EXCEPT ![p].flag = TRUE]
  /\ UNCHANGED <<stopFile, socket, asked, after, pidfile>>

(* The dashboard's "restart model": stop with a hard stop, and clear it.   *)
RestartsModel(o) ==
  /\ Begins(o, [Idle EXCEPT !.pc = "stop", !.todo = <<"model", "clear">>])
  /\ SetStop
  /\ UNCHANGED <<socket, proc, pidfile>>

ClearAfterStop(o) ==
  /\ op[o].pc = "stop" /\ Head(op[o].todo) = "clear"
  /\ ClearStop /\ Ends(o)
  /\ UNCHANGED <<socket, proc, pidfile>>

(* The dashboard's "restart bridge": stop, and start without waiting.      *)
RestartsBridge(o) ==
  /\ "bridge" \in Programs
  /\ Begins(o, [Idle EXCEPT !.pc = "stop", !.todo = <<"bridge", "start">>])
  /\ UNCHANGED <<loopVars, pidfile>>

StartAfterStop(o) ==
  /\ op[o].pc = "stop" /\ Head(op[o].todo) = "start"
  /\ op' = [op EXCEPT ![o] = [Idle EXCEPT !.pc = "bridge", !.now = "bridge"]]
  /\ UNCHANGED <<loopVars, pidfile>>

(***************************************************************************)
(* The machine.                                                            *)
(***************************************************************************)

Terminal(o) ==
  /\ o = "operator"
  /\ \/ StartsModel(o) /\ UNCHANGED <<loopVars, pidfile>>
     \/ StartsDirect(o) /\ UNCHANGED <<loopVars, pidfile>>
     \/ StartsControl(o) /\ UNCHANGED <<loopVars, pidfile>>
     \/ StartsBridge(o) /\ UNCHANGED <<loopVars, pidfile>>
     \/ Stops(o) \/ Guard(o) \/ CheckStop(o) \/ Launch(o) \/ ChildEnds(o) \/ Interrupt(o)

Dashboard(o) ==
  RestartsModel(o) \/ RestartsBridge(o) \/ ClearAfterStop(o) \/ StartAfterStop(o)

Operator(o) ==
  \/ Terminal(o) \/ Dashboard(o)
  \/ StopPid(o) \/ StartBridge(o) \/ StartBackground(o)

Process(p) == LoopStep(p) /\ UNCHANGED <<cast, pidfile, op, crossed>>
BridgeFails(p) == BridgeEnds(p) /\ UNCHANGED <<pidfile, op, crossed>>

StackNext ==
  /\ \/ \E o \in Operators : Operator(o) /\ Crosses
     \/ \E p \in Pids : Process(p) \/ BridgeFails(p)
     \/ StartsDance \/ BridgeByHand \/ HardStops \/ ClearsStop
  /\ UNCHANGED cast

StackSpec == StackInit /\ [][StackNext]_stackVars

(* The operating system runs every process.  Nothing is assumed of the     *)
(* operators.                                                              *)
LiveStackSpec == StackSpec /\ \A p \in Pids : WF_stackVars(Process(p))

(***************************************************************************)
(* Properties.                                                             *)
(***************************************************************************)

MostAfter(prog) ==
  CASE prog = "hybrid" -> Batch + Corrections
    [] prog = "modal"  -> Batch
    [] prog = "both"   -> 2
    [] OTHER           -> 1

(* While HARD_STOP exists, a program that was moving the robot when it was *)
(* written sends the rest of one batch at most (hybrid_robot_loop.py 626,  *)
(* local_modal_robot_bridge.py 429, direct_robot_control.py 133,           *)
(* direct_bimanual_parallel.py 189, yam_samba_dance_ws.py 106 and 179),    *)
(* also one that is started, interrupted or told to ignore the file then.  *)
StopIsObeyed ==
  stopFile => \A p \in Pids : Live(p) => after[p] <= MostAfter(proc[p].prog)

(* A program that polls HARD_STOP ends while the file exists: no wait, no  *)
(* refusal and no restored pose keeps it going.                            *)
StoppedLoopsEnd ==
  \A p \in Pids :
    (stopFile /\ proc[p].prog \in Polling) ~> (~stopFile \/ ~Live(p))

(* Started from one terminal through the guard of yamctl (cli.py 173-180), *)
(* no two programs that command the arms directly live at the same time,   *)
(* whatever was interrupted, stopped or failed before.                     *)
OneOwner == \A p, q \in Owners : p = q

(* Every program that yamctl runs in the background, and not another one   *)
(* of its name, is in the pid file of its name, where yamctl stop finds    *)
(* it, or is about to be written there (cli.py 218): models and control    *)
(* servers always, a bridge as long as bridges have been started by one at *)
(* a time.                                                                 *)
WrittenNext(p) ==
  \E o \in Operators : /\ op[o].pc = "record" /\ op[o].child = p
                       /\ NameOf(op[o].now) = NameOf(proc[p].prog)

BackgroundIsReachable ==
  \A p \in Pids :
    Live(p) /\ ~proc[p].shell /\ (proc[p].prog = "bridge" => ~crossed) =>
      pidfile[NameOf(proc[p].prog)] = p \/ WrittenNext(p)

(* "Create HARD_STOP so model loops exit" (cli.py 941): once an operator   *)
(* asked for a hard stop, and none took it back, no program sends more     *)
(* than the rest of one batch.                                             *)
HardStopEndsLoops ==
  asked => \A p \in Pids : Live(p) => after[p] <= MostAfter(proc[p].prog)
=============================================================================
