# Verification of robot-task-ws

TLA+ specifications of this repository, the TLC configurations that check
them, and TLAPS proofs of their main properties.  Paths are relative to the
repository root.

## 1. The system

The repository holds a small WebSocket protocol for robot task execution
(`src/robot_task_ws`, `docs`, `schemas`, `examples/python`, `web`) and the
robot stack it is to replace (`migrated/can-mac`): CAN bridges, a two-arm
control server, camera servers, teleoperation bridges, model-driven control
loops and the command-line tool that starts and stops them.

| Part | State it keeps | Operations | Talks to | What makes it correct |
|---|---|---|---|---|
| Change store `src/robot_task_ws/change_store.py` | resources: revision, document, last ids | `get`, `apply`, `snapshot` | called by the coordinator | compare-and-swap, all-or-nothing patches, no lost update |
| Patch interpreter, same file 70-111 | none | `apply_operation`, `resolve_parent`, `decode_pointer_part` | called by `apply` | an operation changes what its path names and nothing else |
| Coordinator `src/robot_task_ws/coordinator.py` | clients, pending and claimed tasks, latest messages | one branch of `handle_message` per message type; handler life cycle; `broadcast` | every client by WebSocket | no task missed, one claimant, revisions in order, slow or broken clients harm nobody else |
| Protocol clients `examples/python/worker.py`, `submit_task.py`, `package_change_demo.py` | what they have seen | register, claim, result, patch, wait | coordinator | a task is done by its claimant; an edit survives conflicts |
| Viewer `web/viewer.html` | mirror of reports, tasks, resources, robots; pending RPC ids | `handleProtocol`, `connectControl`, `connectCamera` | coordinator, control server, camera server | the mirror converges to the coordinator's state |
| Legacy adapters `examples/python/legacy_*.py`, `so_leader_protocol_bridge.py` | two sockets, one lock | poll, forward commands, relay frames | coordinator and legacy servers | a `stop` reaches the robot; replies match requests |
| Arm control server `migrated/can-mac/scripts/yam_control_ws_server.py` | per arm: robot object, connected flag, retry time; lock; bridge process | one RPC per method, reconnect, close | CAN bridge, robot library, RPC clients (one thread each) | a disconnected arm is retried; commands reach both arms; close is final |
| CAN bridges `migrated/can-mac/can-bridge` | USB transfers, sockets, queues | rx and tx loops, framing, supervision | robot library, USB adapters | the reads of the adapter are kept in flight; a frame is passed on when it has come |
| Camera servers `multi_camera_ws_server.py`, `orbbec_camera_server.py`, `camera_http_server.py`, `http_camera_fetch.py` | newest frame per feed, reset flags, worker processes | capture loop, reset, publish, subscribe | cameras, WebSocket clients | the newest frame wins; a stale feed is reset; nobody waits for ever |
| Teleoperation `so_leader_ws_bridge.py`, `yam_leader_ws_bridge.py`, `leader_switchboard.py` | synchronised and executing flags, child processes | read leader, arm, toggle, command | control server, serial devices | no jump on synchronisation; one leader at a time |
| Model loops `yam_exec_loop.py`, `hybrid_robot_loop.py`, `local_modal_robot_bridge.py`, `direct_*.py` | memory, stop file, last pose | observe, decide, execute, hard stop | control server, cameras, model endpoints | bounded motion; the stop file stops motion |
| Motion planning `yam_cartesian_control.py`, `yam_samba_dance_ws.py`, `yam_visual_servo_touch.py`, `yam_intentional_probe.py` | a plan | plan, execute | control server | every step within its joint limit |
| Process control `_yamtest/cli.py`, `dashboard.py`, `start_bimanual_bridges.sh` | pid files, stop file | start, stop, hard-stop | all of the above | one owner of the robot; a stop is not undone |

### What is hard about it

* **Coordinator.**  One asyncio task per connection; tasks interleave at every
  `await`.  A broadcast fixes its recipients and schedules its sends, a reply
  is written at once: frames reach a client in an order that is not the order
  the handlers ran in.  The replay loop of `client.register` walks a
  dictionary that other handlers change.  A client that does not read makes
  every broadcasting handler wait.  A frame that raises ends its handler
  between other handlers' sends.
* **Store.**  Patches are lists; one that fails half way must leave nothing.
  JSON pointers, array indices and escapes have edges.
* **Control server.**  One thread per RPC client; some paths take the lock and
  some do not; a failing arm is closed while another thread reconnects it.
* **CAN bridge.**  Connections share eight USB reads under an async mutex, and a
  task may be aborted wherever it awaits.
* **Cameras.**  A reading thread, reset threads and clients test and change the
  fields of a feed; a worker process is terminated with half an item in its queue.
* **Programs that move the robot.**  They share a file, a process list and the
  robot, and nothing keeps two of them apart; each plans from a pose it read and
  sends what it planned later, while others move the arms, arms fail and come
  back, and somebody asks for a stop.

`PROJECT.json` lists each hazard at its line, with the properties that cover it.

## 2. How the project is built

Each component has a module of its own; modules that compose are named last.

| Part | Modules | Proofs |
|---|---|---|
| Store | `ChangeStore` (operators), `ChangeStoreLog` (with a history) | `ChangeStoreProofs`, `StoreProofs` |
| Patch interpreter | `JsonPatch`, `PatchWalk` | `StoreProofs` |
| Coordinator | `Coordinator` (server steps), `OpenClients` (any clients) | `OpenClientsProofs` |
| Its promise | `Announcements` (abstract), `OpenBroadcasts` (the refinement) | `OpenClientsProofs` |
| Protocol clients | `ExampleClients` (with `Coordinator`) | `ExampleProofs` |
| Control adapter | `LegacyAdapter` | `StopProofs` |
| Arm control server | `YamControl` (inside), `RobotPose` (as its clients see it) | `ArmProofs` (`YamControl`) |
| CAN bridge | `CanBridge` | `ArmProofs` |
| Cameras | `CameraFeed`, `OrbbecFeed` | `CameraProofs` |
| Programs as processes | `RobotLoops`, `StackControl` (with `yamctl` and the dashboard) | `StopProofs` |
| Programs as clients of the robot | `PlannedMotion`, `ExecLoop`, `Teleop`, `RobotClients` (all of them) | `RobotClientsProofs` |

`MC*` modules give the constants their values.  Four of them (`MCStore`,
`MCArms`, `MCStops`, `MCCameras`) check two parts that share no state in one
run: a behaviour is one of either part, and the other part stays where it is.
`StoreProofs`, `ArmProofs`, `StopProofs` and `CameraProofs` follow that division,
with one part for each of the two.  The lemmas about sequences that several proofs need are in
`ChangeStoreProofs`, which `OpenClientsProofs` and `ExampleProofs` extend.

Parameters are CONSTANTS with named assumptions, each operation is an action,
invariants are conjunctions of named parts.  There are no RECURSIVE operators:
what walks a path or a plan is a recursive function of its length, about which
facts can be proved.  The store takes the interpreter as the constant
`PatchResult`; `MCStore` is where the two meet.

What would come next: packages that retry after a conflict, as
`docs/concurrency.md` describes (no program of the repository does); the
subscription loop of the camera server.

## 3. The modules

### ChangeStore, ChangeStoreLog

`resources` is the dictionary of `change_store.py:30`; its domain is the set of
ids ever looked up, because `get` is a `setdefault`.  `Accept`, `Conflict` and
`Refuse` are the three ways through `apply` (46-67): the change is stored, the
base revision differs, an operation raises.  A refused change still leaves the
fresh resource of its id in the dictionary.  A document is a member of `Docs`, a
list of operations a member of `Patches`, and what the one does to the other is
`PatchResult`.

`ChangeStoreLog` calls `apply` with arbitrary arguments and keeps, per
resource, the accepted changes with the document each one left.  Properties:

| Property | Says |
|---|---|
| `StoreMatchesLog` | revision = number of accepted changes; state and ids are those of the last one: a refused change leaves no trace |
| `LogIsChain` | each document is the previous one with that entry's patch applied: no lost update |
| `SwapsOnItsBase` | a change that named a base was applied to exactly that revision |
| `SameRevisionSameState` | a resource never changes without a new revision (proved; it follows from the first two) |

### JsonPatch, PatchWalk

`JsonPatch` is the interpreter (70-111): a JSON value is a scalar, an object (a
function on tokens) or an array (a sequence).  `Trail` lists the containers that
`resolve_parent` goes through, creating missing objects; `ApplyToParent` is the
last step, in `apply_operation`; and `Descend` puts what became of each container
back into the one above it, which is what changing it in place does.  Python's
negative indices, the clamping of `list.insert` and the escapes are kept;
`int()` of a token is the constant `IntOf`, `NotInt` where it raises.  An operation
that raises yields `Failed`, and `ApplyOperations` then drops the copy, as `apply`
does.

`PatchWalk` builds every document of up to `MaxSize` elements and asks of every
operation on it what any path leads to (`At`) before and after:

| Property | Says |
|---|---|
| `TouchesOnlyItsPath` | a path that parts from the operation's leads to what it led to before, and the path itself, when it ends in an object, to the value put there, or to nothing after `remove`. Two paths part at the first token that names another place (`Place`: "-1" and the index of the last element are one place) |
| `ArraysShiftByOne` | when the path ends in an array, `add` inserts its value there and loses nothing, `remove` drops one element, `replace` changes one |
| `DecodeUndoesEncode` | decoding undoes the RFC 6901 escaping of every token of up to `MaxToken` characters |

The objects that a `remove` creates on its way (line 106) lie on its own path.

### Coordinator, OpenClients

| Code | Model |
|---|---|
| `state.clients` | `clients[c]`: absent, `{}` ("unknown") or registered |
| `state.pending_tasks` | `pending[t]`: rank of insertion, 0 if absent; `arrivals` counts insertions |
| `state.claimed_tasks`, `state.latest` | `claimed`, `latest` |
| `state.changes` | `resources` of `ChangeStore` |
| a handler coroutine | `handler[c]`: pc, and the iterator of the replay loop (its dictionary size and position) |
| a connection | `up[c]`, `scheduled[c]` (broadcast sends not started), `wire[c]` (frames written, not read) |

`Handle(c, m)` is one call of `handle_message` up to where it waits; it needs
`Ready(c)`: the handler is in its read loop and all sends it awaits are done.
`Sending(c)` is that wait: a scheduled send of c, or a frame of c above the
high-water mark of an open connection.  `Reply` writes at once or, on a closed
connection, raises and ends the handler (`EndHandler`, the `finally` clause).
`Broadcast` appends to `scheduled`; `StartSend` writes the next scheduled frame,
silently dropping it on a closed connection (`return_exceptions=True`).  Sends to
one connection start in the order they were scheduled and frames arrive in the
order they were written (one TCP stream, FIFO event loop).
`ReplayTask` is one turn of the loop in lines 48-49, with Python's check that a
dictionary did not change its size.  `Connect` puts the client into the table
before `hello` is sent and outside the `try`: its second disjunct is the peer
that is gone by then, whose entry stays.

`OpenClients` gives every connection a repertoire (a member of `Repertoires`, chosen
at the start), of which it sends each message once, in any order, read at its own pace and, if `Fragile`, break.  `told` is a history
variable.  Properties:

| Property | Says |
|---|---|
| `NoTaskMissed` | after its replay a registered client has been sent every pending task |
| `RegisteredIsServed` | a client listed as registered has a live handler |
| `ClaimsAgree` | every client sees claims and results of a task alternate, ending in the coordinator's own view |
| `HandlersRecover` | a handler that waits for its sends does not wait for ever |
| `ReplayEnds` | every registration ends in the read loop or with the connection closed |

A handler may end in the middle of a replay because a dictionary changed its size
("dictionary changed size during iteration"): the client is then disconnected,
which `ReplayEnds` admits and `NoTaskMissed` is not about.  A claim is never
released when its worker disconnects, and a claim that arrives after the result
of its task stays: `ClaimsAgree` speaks of agreement and order only.

### Announcements, OpenBroadcasts

`Announcements` is the promise, without handlers, tables or connections: one
log of granted claims, results and accepted changes, a place in it for every
member, and four actions (`Announce`, `Join`, `Hear`, `Leave`).  `BoardSpec` has
fairness: a member that stays hears everything.

`OpenBroadcasts` adds three history variables to `OpenClients`: the log grows
when the coordinator's tables change, a client's place and what it has seen
change when it connects and when it reads an announcement.  A client is a member
while its handler and its connection live; one that left may still read what was
written to it.  `IsAnnouncementBoard` is
`Board!BoardSpec` under this mapping: each step of the coordinator is a step of
the board or a stutter, and its fairness gives the board's.  It is stronger than
`ClaimsAgree`, since it orders announcements of different kinds, the accepted
revisions among them, and asks that they arrive.

### ExampleClients

Composes `Coordinator` with the programs instead of arbitrary clients.  `at[c]`
is where a program is, `inbox[c]` the frames it has sent and its handler has not
received (a handler takes them one by one, in order), `answer[c]` what ended it.
`Open` is `websockets.connect`, `WorkerStart`, `WorkerServe`, `SubmitterStart`, ...
are the programs from one `await` to the next, `Exit` leaves `async with`, `CutOff`
is a program that finds its connection closed, `Break` a connection that breaks
with frames on their way.

| Property | Says |
|---|---|
| `NothingLeftBehind` | once everything is handled, a pending task means that no worker serves and a claim that is held that its worker is gone |
| `SubmitterReturns` | a submitter gets a result once a worker serves whose connection holds |
| `OneWins` | of changes to one base at most one package is told "accepted" |
| `PackageReturns` | a package that has sent its change gets the answer to it |

### LegacyAdapter

| Code | Model |
|---|---|
| the two coroutines under `asyncio.gather` | `at["poll"]`, `at["forward"]`; `alive` becomes false when one of them raises |
| `asyncio.Lock` | `waiting`: the holder and, in order, those that wait |
| the call of `legacy_rpc` under way | `doing[c]` |
| the RPC connection | `requests`, `replies`, `link`; the server takes one request after the other |

Relayed messages are numbered, so that an order between them can be stated.

| Property | Says |
|---|---|
| `OneReader` | the coroutines never read the shared connection at the same time, and no reply is left for the wrong one |
| `InOrder` | commands and stops take effect in the order they were relayed, at most once |
| `StopWaitsForOnePoll` | a stop that was read waits for one call of the poll, not two |
| `StopIsForwarded` | a relayed stop is sent to the control server unless the adapter ended or its link is lost |
| `StopTakesEffect` | a relayed stop takes effect on the robot: violated, see below |

### CameraFeed, OrbbecFeed

`CameraFeed` has the reading thread, the reset threads and a client's thread of
an OpenCV feed; a step ends where another thread may see or change a field, so
the two reads of `_same_jpeg_since` in one expression are two steps, and
`request_reset` is three: the test (230), the assignment of `reset_thread`
(`Assign`) and the start of what is then assigned (`Begin`).  Pictures
are a small set: a stuck camera shows the same one again.  Time is whether
`latest_t` and `_same_jpeg_since` are older than their limits.

| Property | Says |
|---|---|
| `OneCapture` | whatever requests race, at most one capture is open, and it is the feed's or about to be installed |
| `StuckIsReset`, `LostIsRetried` | a stuck picture and a lost capture lead to a reset while the reading thread lives |

The reading thread may die (`pc` "dead"): it tests `_same_jpeg_since` (269) and
`latest_t` (288) for `None` and subtracts them afterwards, without the lock, and a
reset may set them to `None` in between.  It also dies in line 237 when a client,
which had assigned its own reset thread over the one of the reading thread, or had
it overwritten, has started the assigned one first: a `Thread` starts once, and the
second start raises.  Nothing starts the reading thread again, so a
`reset_camera` that meets one of these moments stops the feed for good; the
properties admit it and say what holds otherwise.  A frame that was read is taken to
encode (297).

`OrbbecFeed` has the worker process, its queue, the thread of the server that
takes frames and restarts a dead worker, and resets.  `multiprocessing.Queue` is
modelled by what it does: slots taken by `put` and given back by `get`, a buffer
that dies with the process, a feeder thread that writes under a lock.

| Property | Says |
|---|---|
| `AbsenceIsExplained` | a camera that lost its frame has an error to show, also when old frames arrive after a reset |
| `SlotsComeBack` | a worker never waits for ever for a slot that was not lost with a terminated worker |
| `WorkerRestarts` | a dead worker is started again, unless half an item is left in the queue |

The exception is real: frames are larger than a pipe, so a worker is mostly
inside a write.  Terminated there it leaves half an item, on which `get` blocks
whatever its timeout, and the writers' lock taken; the queue is reused for the
next worker (586-589), so none is started or heard again.

### YamControl

| Code | Model |
|---|---|
| `ArmRuntime.robot`, `connected`, `reconnect_attempts` | `robot[a]`, `connected[a]`, `attempts[a]` |
| `next_reconnect_at` | `due[a]`: whether that time has come; `Tick` lets it come |
| `YamControlServer.closed`, `lock` | `closed`, `lock` (the thread that holds it) |
| the two bridge processes | `bridge` |
| robot objects of the robot library | `alive`, a subset of `Robots`: opened and not closed |
| a thread of the RPC server | `call[th]`: the method, where it is, the arms still to visit, the robots it collected |

A step ends where another thread may run and tell the difference: at each
acquisition of the lock, between the reads of `_require_robot`, around every
call of a robot, and between the three assignments of `_mark_arm_failed`, which a
read runs without the lock and a command with it.  The `with lock` blocks of
`command_joint_pos` (one per arm), `reconnect_due_arms`, the `reconnect` method
and `close` are the steps between an `Acquire` and the `Return`, `NextArm` or
`Connected` that releases; every exception that leaves a block is a `Return`.
`get_joint_pos`, `get_observations`, `get_robot_info`, `num_dofs` and
`zero_torque_mode` are one method `read`: the same loop around a different
robot call.  `get_status` changes nothing.

| Property | Says |
|---|---|
| `TableIsTrue` | with one client, between calls, a connected arm has a live robot and a disconnected one has none |
| `ClosedForGood` | once close has begun no robot is opened and the bridge is not started again |
| `LockIsReleased` | every critical section ends |
| `DisconnectedIsRetried` | what `migrated/can-mac/README.md` line 79 says; the code does otherwise, see below |

### CanBridge

| Code (`can-bridge/src/main.rs`) | Model |
|---|---|
| a connection: its handler and the task `rx_task` | `handler[c]`, `rx[c]` |
| the mutex around `bulk_in` | `locks`: its holder and those that wait; tokio's mutex is fair |
| the reads, `NUM_IN_FLIGHT` of them | `flying` (submitted), `full` (completed), `held[c]` (taken by a task) |

A task takes a completion under the lock (`Takes`), asks for the lock again and
submits a new read (`Resubmits`), and only then forwards the frame.  `abort()`
acts where the task awaits (`Aborted`).  `poll_next` panics when nothing is
submitted (`Panics`).  What a completion holds — a frame, the echo of a sent
one, an error — decides where the task goes after it.

| Property | Says |
|---|---|
| `OneReadPerEnd` | a read that is neither submitted nor completed is with one task that is about to submit it, or was with one whose connection has ended |
| `FrameMovesOn` | a task that is alone and has taken a read does not keep it, although the bus is silent |

Both say what holds, and both have an edge.  A task aborted at line 255 takes
its read with it: after eight such ends every later connection panics and hears
nothing until the bridge is restarted.  And the lock is held while a task waits
for the bus (248-250): with two connections, a task that has a frame waits for
the lock until the *next* frame comes, and each frame goes to one connection
only.  Since `reconnect` of the control server opens a second connection without
closing the first (`Opens` in `YamControl`), two connections do occur.

### RobotLoops, StackControl

`RobotLoops` has the programs that move the robot by themselves, as processes:
`hybrid_robot_loop.py`, `local_modal_robot_bridge.py`, `direct_robot_control.py`,
`direct_bimanual_parallel.py`, `yam_samba_dance_ws.py`.  `proc[p]` is what
process id p runs and where it is; `stopFile` is HARD_STOP; `asked` remembers
that a hard stop was asked for and not taken back, `after[p]` counts the
commands a process sent since.

`StackControl` adds `yamctl` and the dashboard: `pidfile` is `logs/<name>.pid`,
`op[o]` the command an operator is in, step by step; `crossed` is a history
variable.  Process ids are used again, so a pid file may name another program.

| Code (`_yamtest/cli.py`) | Model |
|---|---|
| `_start_background` (183-220): the pid file, the process list, `Popen`, the write of the pid file | `LookAtPid`, `ListProcesses`, `Spawn`, `Record`: four steps of `StartBackground`, between which other operators and processes act; `op[o].now` is the program being started, `op[o].child` the pid to be written |
| `cmd_start_bridge` (469-491) | `LookForSocket`, `LookForBridge`, `DiscoverBridge`, `AdoptBridge`, `StartBackground`, `WaitForSocket` |
| `_ensure_no_robot_owner`, the look at HARD_STOP, the start | `Guard`, `CheckStop`, `Launch` |
| `_stop_pid`, name by name | `StopPid` |
| `start_bimanual_bridges.sh`, which looks for no bridge of `yamctl` | `BridgeByHand`, at any time |

The look and the start being apart, a terminal and the dashboard may both find no
bridge and start one each; the later write of `bridge.pid` then leaves the other
bridge outside every pid file.  The model has these behaviours, and `crossed` tells
them: it becomes true, for good, when a command is about to start a bridge while
another one is, or when the script starts one then or next to a bridge that runs.
`BackgroundIsReachable` says of bridges what holds until then.  A `yamctl` that
is killed between its `Popen` and its write is not modelled.

| Property | Says |
|---|---|
| `StopIsObeyed` | while HARD_STOP exists a program sends the rest of one batch at most |
| `StoppedLoopsEnd` | it then ends, whatever it waits for, refuses or restores |
| `OneOwner` | through `yamctl`'s guard one terminal never runs two programs that command the arms; two terminals may |
| `BackgroundIsReachable` | models and control servers that run in the background are in the pid file of their name, or about to be written there, where `yamctl stop` finds them: they are started from the one terminal; and so are bridges, as long as they have been started by one at a time |
| `HardStopEndsLoops` | what `cli.py` 941 says; the code does otherwise, see below |

`StopIsObeyed` speaks of the file, `HardStopEndsLoops` of the request: a loop
that deletes the file when it starts satisfies the first and not the second.

### RobotPose, PlannedMotion, ExecLoop, Teleop, RobotClients

`RobotPose` is the control server seen by a client: one vector for both arms,
read and set as a whole, and arms that fail under a command and come back.
Joint values are integers, in units of the step bounds; kinematics and images are
any value the code lets through.

`PlannedMotion` has `yam_cartesian_control.py` (segments with their bound),
`yam_intentional_probe.py`, `yam_move_to_depth_pixel.py` and
`yam_visual_servo_touch.py`; `ExecLoop` has `yam_exec_loop.py` with its located
pixels, its distance check with a tolerance for each unit, and its transcript (pixels
and metres measure one line; pixels that `--target-pixel` and `--gripper-pixel`
fix are not given); `Teleop` has the switchboard with
its lock, `so_leader_ws_bridge.py` in both modes (waiting for each reply or with
commands in flight) and `yam_leader_ws_bridge.py` with its button.
`RobotClients` puts a cast of them on one robot.

| Property | Says |
|---|---|
| `StepsAreBounded` | a program that has the robot for itself moves an arm by no more than its bound at a time, after failures and misses too; the servo goes by `--probe-delta` when it probes and returns, which nothing in the code compares with `--max-joint-step`, and by the latter otherwise (its probes are of one joint in the model, of each in the code) |
| `ProbeRestores` | a probe that ends well leaves both arms and the gripper where it found them |
| `AstrayMoveIsLast` | the distances behind a check are of this picture and true: "closer" means a gain above the tolerance of a unit, the opposite a gain within one; and a measured Cartesian move whose gain is within both is the last |
| `OneBridge` | one leader bridge at most is alive, and it is the one the switchboard can stop |
| `FollowerCatchesUp` | a bridge that keeps running brings its arms to the leader, with rejected and skipped commands on the way |
| `OtherArmUnchanged` | what `yam_leader_ws_bridge.py` 4-6 says; the code does otherwise, see below |

## 4. What the runs check

| Run | Bounds and why they are enough |
|---|---|
| `store` | Two resources, two revisions each, two packages; patches that add, nest, remove and fail after a first good operation, run by the real interpreter: every outcome meets every other on the same and on another resource. Paths of up to two tokens over a key and the three array tokens, values of each kind, documents of up to `MaxSize` elements: objects in arrays, arrays in objects, arrays with both ends. Tokens of up to `MaxToken` characters over the five that matter. |
| `open_clients` | Three kinds of traffic among three clients, one of which may break. Replays: two tasks requested while two workers register and one returns a result, so that the table grows and shrinks under both replays. Claims: two workers claim one task and return results in all orders. Patches that are current, stale, without base or failing, and a frame that raises. |
| `broadcasts` | A claim, a result and a change, with a listener that may break; and a replay, a relayed stop and a refused frame; buffers of zero frames, so every send waits for its reader. |
| `examples` | A submitter and two workers, one of which may break at any point, also after claiming; two submitters and one worker, so that a result of another's task ends the first; the two packages of the demo with one base. |
| `arms` | The server with one client and all methods, where both arms and the bridge may fail at any step; with two clients, of which the first does not reconnect and the second does not read, and one arm may fail. Three robot objects: two for the arms and one that a call still holds or `reconnect` has replaced. The bridge with three connections that are used again and two reads: both can be lost, and one can be held while another is polled for. |
| `yam_retried` | Two clients that read: violated, see below. |
| `stops` | Two processes, so that one id is used again while the other lives; each kind of program under one operator, who may do anything in any order, bridges under one next to the script, and bridges under two; in the last two casts two bridges do come to run, and one of them outside `bridge.pid`; batches and corrections of one. The adapter with three relayed messages: a stop before, between and after commands while the poll runs; refusals and a broken link. |
| `adapter_loses_stop` | Commands may be refused: violated, see below. |
| `hard_stop_erased` | One model loop, two processes: violated, see below. |
| `cameras` | OpenCV: two pictures, two reset threads (the second finds the first's lock taken), three captures (the feed's, one a read still holds, one being opened), reads and opens may fail. Orbbec: two cameras, a queue of two slots (full and empty are two items apart), resets at any point. |
| `robot_clients` | Each program alone, and three pairs that share the robot; one arm failure; moves of one to three segments, of which each may miss; two bridges and two web clients; a leader that moves by more than a step. Two probe moves and two rounds: the second starts where the first missed. The servo's probe is longer than its step, and a gain of two is progress in metres and none in pixels. Four restore steps: nothing in the code bounds a step of the way back when `--restore-steps` is small, and `RestoreIsSlow`, an assumption of the run, says what is enough. |
| `other_arm_moved` | The leader bridge of one arm and a program that moves the other: violated, see below. |

`HighWater` is one frame in `open_clients`: a second unread frame blocks its
sender.  A run with several repertoires, casts or settings chooses one at the
start of each behaviour.  `Robots` bounds the robot objects at a time (an open
that finds none left fails).  `FloatLimit` is the number of doublings a retry
delay survives: 1024 in the code, 1 in the runs, so that both sides of the
overflow are reached after two failures.

The deadlock check is on in `arms` and `yam_retried`.  It is off elsewhere:
clients that have sent everything stop, an adapter that has ended, a reading
thread that has died and a blocked `get` leave nothing to do, programs end, the
walks over patches reach their bounds.

### Fairness

* Coordinator: the event loop runs what can run (`Deliver`, `Replay`, `Close`),
  and every client reads its next frame or, if it may break, breaks: the
  websockets library pings each peer and closes a connection that does not
  answer, which is what bounds a slow reader.  Nothing is assumed of sending
  messages or of connecting.
* `ExampleClients`: a program reads what it is sent, and frames arrive; not that
  programs are started or connections break.  A handler ends on a closed
  connection only after the frames sent before, so the hypothesis of
  `SubmitterReturns` excludes connections that may break.
* `arms`: each thread inside a call goes on (the operating system runs every
  thread, and a robot call returns or raises), and the runtime runs each task of
  the bridge that can go on.  Nothing is assumed of clients, of the bus, of the
  retry time or of the server's lock: a thread may wait while another takes it
  again and again.
* `stops`: the operating system runs every process; the event loop of the adapter
  runs both coroutines, sleeps end and the server answers.  Nothing is assumed of
  operators, messages, failures or breaks.
* `cameras`: threads and the queue's feeder run, and time passes.  Nothing is
  assumed of a worker, of captures that fail, or of resets that clients ask for.
* `robot_clients`: a bridge that runs goes on, the server serves its connection and
  reconnects arms, and a bridge that was told to stop is killed in the end
  (`leader_switchboard.py` waits and then kills).

### Disagreements with the documentation

* `yam_retried` — "The server retries disconnected arms" (can-mac README, line
  79).  A read that fails runs `_mark_arm_failed` without the lock; when another
  client reconnects the arm between its first and its last assignment, the new
  robot is forgotten but the arm stays marked connected.  Every later call fails
  with `robot_not_connected`, and no retry takes the arm.
* `adapter_loses_stop` — `stop`: "Requests immediate stop. Any safety-aware client
  may emit it." (`docs/protocol.md` 258).  An error reply to `command_joint_pos`
  is not caught in `forward_commands`, as the error of a stop is; it ends the
  adapter, and a stop behind that command is never forwarded.
* `hard_stop_erased` — "Create HARD_STOP so model loops exit." (`cli.py` 941).
  `local_modal_robot_bridge.py` removes the file when it starts, and looks at
  nothing before: a stop that is set between `yamctl`'s look at the file and the
  start of the loop — a bridge is started and waited for in between — is erased.
* `other_arm_moved` — "updates only the selected follower slice, leaving the other
  arm unchanged" (`yam_leader_ws_bridge.py` 4-6).  Each command carries the other
  arm as it was read at the last toggle, and moves it back there in one step.

Met while modelling, without a run of their own:

* The can-mac README says that "Command calls fail fast if either arm is
  disconnected" (line 80), but `_require_robot` first reconnects what is due,
  and such a command may then move both arms.
* The retry delay is computed before it is capped: after 1024 failures `2 ** n`
  no longer fits a float, the attempt raises and the retry time is not set again
  (`ScheduleRaises`).
* A `reset_camera` between a test for `None` and the subtraction that follows it,
  or between the assignment and the start of a reset thread, ends the reading
  thread, and a worker terminated inside a write ends its feeds; all are described
  with the camera modules.
* Two that start a bridge at a time — a terminal and the dashboard, or one of them
  and `start_bimanual_bridges.sh` — start two, of which one is in no pid file and
  `yamctl stop` does not reach it (`cli.py` 185-218, described with `StackControl`).
  The help of the command only says to skip it when another bridge is already
  there (971-972).  And a bridge that the script started is adopted into
  `bridge.pid` over `yamctl`'s own.
* The bridge's lock and its lost reads, described with `CanBridge`.
* `so_leader_ws_bridge.py` 216 reads the pose to "prevent a startup jump"; a
  command of the previous bridge that the server has not yet served comes after.
  In the mode that does not wait, its own idea of the pose runs ahead of commands
  that are rejected.
* `restart-bridge` (dashboard) starts the next bridge while the old one dies, may
  adopt the dying one, and then leaves none.
* The guidance of `yam_exec_loop.py` (457) promises a distance check after every
  physical step; a gripper command has none.
* The switchboard's zero-gravity switch calls a method the control server does
  not have.

## 5. What is proved

`ChangeStoreProofs` and `StoreProofs`, first part: for any sets of resources,
documents and patches and any `PatchResult` into `Docs \cup {Invalid}`, the type
invariant, `StoreMatchesLog`, `LogIsChain`, `SwapsOnItsBase` and
`SameRevisionSameState`.  The first is inductive with the type invariant;
`LogIsChain` and `SwapsOnItsBase` rest on it, because what was patched is only known to
be the last document of the log, at the revision of its length, through
`StoreMatchesLog`.

`StoreProofs`, second part: for any tokens with any `int()`, any operations, paths
and characters, and documents and tokens of any size, `TouchesOnlyItsPath`,
`ArraysShiftByOne` and `DecodeUndoesEncode`.  The first two need that documents stay
JSON (`DocumentInv`): a document is a value all of whose elements, down to the
last, are values (`IsDocument`), and is never mistaken for an operation that
failed.  The argument then follows three trails down one path, step by step
(`FollowsTrail`): where the path leads in the old document, with missing objects
created; where the operation's changes put it; and where the other path leads.
As long as the tokens of the two paths name the same places, the new document
leads to the changed containers, and the old one to the old ones or, where an
object was created, to nothing; at the token where they part, a container that has
changed at one place is what it was at every other (`EnterPut`).  For the decoding
it is the order of the replacements that counts: what is escaped, and what is
half decoded, never ends in a "~" that waits for the next character (`Waits`), so
that each character of the token can be decoded by itself (`AppendUndone`).
From single operations to lists of any length: a list fails or makes JSON of JSON
(`ChangesKeepDocuments`, what `StoreAssumption` asks of `PatchResult`), and leaves
alone what lies beside the paths of all its operations (`ChangesKeepTheRest`).
Recursive functions are reasoned about by induction with the set of numbers for
which a fact holds (`SetInduction`).

`OpenClientsProofs`, first part: for any connections, tasks, repertoires and buffer sizes,
the type invariant and `ReplayInv`, from which `NoTaskMissed` and
`RegisteredIsServed` follow.  `NoTaskMissed` is not inductive: in the middle of a
replay one must know what has been sent.  `ReplayInv` adds that ranks tell
pending tasks apart, that a replay starts at cursor 0, and that a client in its
replay has been told of every pending task up to its cursor; a request that
arrives meanwhile has a larger rank and is broadcast to the client, because a
registered client is in the table.

`OpenClientsProofs`, second part: for the same constants, `ClaimsAgree` and the safety part of
`IsAnnouncementBoard`: initial states map to initial states of `Announcements`, and
every step to one of its steps or a stutter.  `ClaimsAgree` speaks of the frames on
their way to a client: what is on the wire, then what is scheduled, as one stream.
A broadcast appends to it, the start of a send and reading keep its order, and a
reply, which overtakes the scheduled sends, goes into the middle of it and is never
a claim or a result: that is why it does no harm.  `ClaimsInv` adds what the links of
a connection are like when it opens, breaks and ends, and that a claim which no
result follows is the one the coordinator holds.  The refinement follows the same
streams: `HearsLog` says that what is on its way to a client is the log after the
place it has read up to, and all of it while its connection is open.

`ExampleProofs`: for any cast of workers, submitters and packages on any
connections, `NothingLeftBehind` and `OneWins`.  `NothingLeftBehind` speaks of the
time when nothing is under way, and `OneWins` of what packages were told, so neither
is inductive.  `ProgramsInv` says what is under way.  Tasks (`WorkersOK`): of a worker
with an open connection, a claim it has sent is followed by its result, the
result of a claim it holds is still to be received, and while a task is pending a
registered worker will come to it in its replay, or has its request on the way, or
its own result is.  That is why it does no harm that two workers do one task, and
that a claim taken after the other's result leaves an entry behind: the claim's own
result follows and removes it.  As in `ReplayInv`, ranks tell pending tasks apart, which is what
lets the replay go on by its cursor.  Packages (`PackagesOK`): a change counts as
accepted while its acceptance is on its way to anybody; then its resource is past
its base for good, so that no second change with that base can be accepted.  A
package knows its answer by the id of its change alone, so that the ids of any
two packages must differ: that conjunct of `ProgramAssumption` is true of
`package_change_demo.py`, which takes its own name and the time in nanoseconds as
the id.

`ArmProofs`, first part: for any connections and reads, `OneReadPerEnd`.  `ReadInv`
adds to it where a task is when it holds a read and that no read is in two places.
The mutex has no part in the argument: what keeps the reads is that a task goes
from its completion to the resubmission and nowhere else.

`ArmProofs`, second part: for any clients, robot objects and settings, `TableIsTrue` and
`ClosedForGood`.  `TableIsTrue` speaks of the time between calls; `ArmsInv` adds what
holds within one: which calls are in the lock (`LockIsHeld`), that the two arms never
share a robot object, so that closing one leaves the other alive (`OwnRobots`), and
that an arm that is half marked as failed is already marked disconnected
(`TableHolds`).  `OneInTheLock` follows for any number of clients.  `ClosedForGood` needs
no invariant: every call that opens a robot looks at `closed` in the same critical
section.

`StopProofs`, first part: for any number of messages, `OneReader`, `InOrder` and
`StopWaitsForOnePoll`, none of them inductive.  `AdapterInv` adds the queue of the
lock (who waits is in it, and only its first has sent), that at most one request
or reply is under way and belongs to the one that waits for it, that a broken
connection has nothing on it, that the message the forwarder holds stands between
those that took effect and those it has not read, and that a poll sent while the
forwarder waits leaves the forwarder first in the queue.

`StopProofs`, second part: for any process ids, casts and lengths of a batch,
`StopIsObeyed`, `OneOwner` and `BackgroundIsReachable`, with every look, start and
write of `yamctl` a step of its own and any operators and script in between.  What a program sent since
HARD_STOP was written is not bounded by itself: what it sent together with what it
may still send before it looks at the file is (`WithinBudget`).  `OneOwner` needs that
no owner lives from the moment a command of `yamctl` has passed its guard until it
starts its own program (`GuardHolds`).  `BackgroundIsReachable`
needs to know what a start under way has seen (`OwnersFound`, `BridgesInOrder`): until
`crossed`, at most one operator is about to start a bridge, none runs while it is
past its look at the process list, one bridge at most runs (`OneBridgeRuns`), and
what it is to write is that bridge.  After `crossed` nothing is known of bridges,
and nothing is claimed; models and control servers have one terminal behind the
guard, so what is known of them needs no such condition.

`CameraProofs`, first part: for any captures and reset threads, `OneCapture`.  `FeedInv`
adds who holds the reset lock and which captures may be open at each point of a
reset.  The argument does not need `request_reset` to start one thread at a time, and
it may start two: between its test and the start another thread passes the test.

`CameraProofs`, second part: for any cameras and any size of the queue,
`AbsenceIsExplained`; that free slots, buffered items and items in the pipe never
exceed `maxsize` (`QueueIsBounded`: slots may be lost, never made); and that the
thread of the server is frozen only after a worker was terminated inside a write, which is the exception that
`WorkerRestarts` makes.  `OrbbecInv` joins them with what the queue may hold and with
`WritersLive`: a process that holds the lock of the writers lives and has something
to write, so that half an item takes the slot of the item it was.

`RobotClientsProofs`: for any bridges, requests, rounds, moves, plans and errors of
inverse kinematics, `OneBridge`, `AstrayMoveIsLast`, `ProbeRestores` and, as an action property,
`StepsAreBounded`.  `OneBridge` is inductive given the types.  `AstrayMoveIsLast`, for any tolerances, needs what
every observation says of the target and that the loop has ended when its last
record stops it.  `ProbeRestores` needs where the way back ends (`ProbeGoesBack`).
`StepsAreBounded`, for any `--probe-delta`, needs that the plan of a client that moves alone goes on from where
the robot is (`PlanFromHere`), and, for the probe, how far it can be from its base:
its theorem has the hypothesis `RestoreIsSlow`, that the way back has as many steps as
the moves have segments, which the run evaluates (`yam_intentional_probe.py` has
four segments at most and 32 steps unless told otherwise).  A plan is a recursive
function of its segments; that each goes on from the one before is proved by
induction, with the set of numbers for which it holds.

Assumptions, all evaluated by the runs: `StoreAssumption`, `MaxRevisionAssumption`,
`TokenAssumption` (`int()` of a token is an integer or `NotInt`, which is none),
`OperationAssumption` (paths are sequences of tokens, and the values of operations
JSON),
`CoordinatorAssumption` (finitely many tasks, `NoOne` is no client id),
`RepertoireAssumption`, `ProgramAssumption` (every connection of a cast has a program
and what it sends, packages have ids of their own), `BridgeAssumption` (`NoRead` is no read), `ControlAssumption` (finitely
many threads, `None` is neither robot nor thread), `AdapterAssumption`, `LoopAssumption`
and `StackAssumption` (finitely many process ids, `NoPid` is none of them), `FeedAssumption`,
`OrbbecAssumption` (finitely many cameras), `PoseAssumption`, `MotionAssumption`,
`ExecAssumption`, `TeleopAssumption` (numbers are numbers, bounds are not zero) and
`CastAssumption`.

Only model-checked: the liveness properties, the fairness of `IsAnnouncementBoard`
among them (out of the prover's reach).  Every invariant of a passing run
has a theorem, and so have its action properties, `ClosedForGood` and
`StepsAreBounded`.

## 6. What is not modelled

* The viewer (shows what it is sent and sends nothing), the camera adapter and
  the leader protocol bridge (one coroutine each, nothing shared; what the
  coordinator does with their frames is modelled).
* Of the control server: its signal handler (a second signal during `close()`
  waits for the lock its own thread holds), the spawning and polling of the
  bridge process, clamping and shape checks of joint values.  That
  `zero_torque_mode` leaves the second arm alone when the first raises is one
  outcome of a read.
* Of the CAN bridges: frames to the bus, the set-up of the adapter, the serial
  bridge (one loop that serves one client at a time), the Python client and the
  start script.
* Of the camera server: the subscription loop, image conversion, camera
  specifications; the one-camera servers.
* Of process control: cameras, viewer and policy server, which nothing waits
  for; smoke tests, status, logs and options; a second terminal; a `yamctl` that is
  killed in the middle of a start.
* Kinematics, depth, tracking and models: any value the code lets through.
* A restart of the coordinator, which forgets everything: no client of the
  repository detects one or reconnects.
* The sharing of a value object between two operations of one patch list
  (`change_store.py:94`); that a message for another robot is told by its
  `robotId` (it is a kind of message).  Timestamps, wording, logging and pages.
  Probes, datasets and policies: one-shot scripts without shared state.
