---------------------------- MODULE Coordinator ----------------------------
(***************************************************************************)
(* The reference coordinator (src/robot_task_ws/coordinator.py): one       *)
(* asyncio process, one handler coroutine per WebSocket connection, shared *)
(* dictionaries of clients, tasks, latest messages and resources.          *)
(*                                                                         *)
(* Handlers interleave only where the code awaits a send.  A reply is      *)
(* "await ws.send(...)": the frame is written at once, and the handler     *)
(* then waits while the connection is over its high-water mark.  A         *)
(* broadcast is "await gather(...)": it fixes its recipients at once but   *)
(* only schedules the sends, which write their frames later, in the order  *)
(* they were scheduled; the handler waits for all of them.  A reply can    *)
(* therefore overtake broadcasts that are scheduled to the same client.    *)
(*                                                                         *)
(* A connection is a member of Conns and is used once: a client that comes *)
(* back is another connection, perhaps with the same client id.            *)
(***************************************************************************)
EXTENDS ChangeStore, Sequences, FiniteSets

CONSTANTS
  Conns,              (* WebSocket connections                             *)
  Tasks,              (* task ids                                          *)
  ClientIds,          (* the client_id field of claims                     *)
  NoOne,              (* no claimant                                       *)
  Sources,            (* camera, robot, leader and component ids           *)
  HighWater           (* frames a connection buffers before a send waits   *)

ASSUME CoordinatorAssumption ==
  /\ IsFiniteSet(Tasks)
  /\ NoOne \notin ClientIds
  /\ HighWater \in Nat

VARIABLES
  clients,    (* state.clients: connection -> "absent", "unknown" ({}) or "registered" *)
  pending,    (* state.pending_tasks: task -> rank of insertion, 0 if absent *)
  arrivals,   (* insertions into pending_tasks so far                      *)
  claimed,    (* state.claimed_tasks: task -> client id or NoOne           *)
  latest,     (* state.latest: key -> message                              *)
  handler,    (* where the handler of a connection is                      *)
  up,         (* whether the connection is open                            *)
  scheduled,  (* connection -> broadcast sends not started yet             *)
  wire        (* connection -> frames written, not read by the client yet  *)

tables == <<clients, pending, arrivals, claimed, latest, resources>>
links == <<up, scheduled, wire>>
serverVars == <<tables, handler, links>>

TelemetryTypes == {"image.frame", "robot.state", "leader.state", "status.report"}
RelayTypes == {"motor.command", "stop"}
RejectedTypes == {"wrong_protocol", "unknown_type", "invalid_json", "incomplete_patch"}

(* What a client may send.  "malformed" is a frame whose handling raises,  *)
(* and the rejected types are the frames that are answered with an error.  *)
Message ==
  [type : {"client.register", "malformed"} \cup RelayTypes \cup RejectedTypes]
    \cup [type : {"task.request", "task.result"}, id : Tasks]
    \cup [type : {"task.claim"}, id : Tasks, client : ClientIds]
    \cup [type : TelemetryTypes, source : Sources]
    \cup [type : {"state.patch"}, change : Change]

Hello == [type |-> "hello"]
TaskRequest(t) == [type |-> "task.request", id |-> t]
Error(code) == [type |-> "error", code |-> code]

PendingTasks == {t \in Tasks : pending[t] > 0}

(* snapshot(), 172-194.                                                    *)
Snapshot ==
  [type |-> "snapshot", pending |-> PendingTasks, claimed |-> claimed,
   latest |-> latest, resources |-> resources]

Accepted(ch, resource) ==
  [type |-> "state.accepted", resource |-> ch.resource, change |-> ch.change,
   package |-> ch.package, revision |-> resource.revision, state |-> resource.state]

ConflictReply(ch) ==
  [type |-> "state.conflict", resource |-> ch.resource, change |-> ch.change,
   package |-> ch.package, expected |-> ch.base,
   actual |-> Get(ch.resource).revision, state |-> Get(ch.resource).state]

-----------------------------------------------------------------------------
(* A handler that awaits a send does nothing else: a scheduled one, or one *)
(* whose frame lies above the high-water mark of an open connection.       *)
Sending(c) ==
  \E d \in Conns :
    \/ \E i \in DOMAIN scheduled[d] : scheduled[d][i].by = c
    \/ up[d] /\ \E i \in DOMAIN wire[d] : i > HighWater /\ wire[d][i].by = c

Ready(c) == handler[c].pc = "read" /\ ~Sending(c)

(* broadcast(), 29-36: schedules the message to every client but excluded. *)
Broadcast(by, message, excluded) ==
  scheduled' = [d \in Conns |->
    IF clients[d] # "absent" /\ d \notin excluded
    THEN Append(scheduled[d], [message |-> message, by |-> by])
    ELSE scheduled[d]]

Written(c, message) ==
  [wire EXCEPT ![c] = Append(@, [message |-> message, by |-> c])]

(* Mutant: no finally clause drops the client.                             *)
EndHandlerKeepsClient(c) ==
  /\ handler' = [handler EXCEPT ![c].pc = "ended"]
  /\ up' = [up EXCEPT ![c] = FALSE]
  /\ UNCHANGED clients

(* The handler ends, normally or by an exception: its finally clause drops *)
(* the client (223-224), and the connection is closed.                     *)
EndHandler(c) ==
  /\ handler' = [handler EXCEPT ![c].pc = "ended"]
  /\ clients' = [clients EXCEPT ![c] = "absent"]
  /\ up' = [up EXCEPT ![c] = FALSE]

(* await ws.send(...) to the sender itself: a closed connection raises.    *)
Reply(c, message) ==
  \/ /\ up[c]
     /\ wire' = Written(c, message)
     /\ UNCHANGED <<clients, handler, up>>
  \/ /\ ~up[c]
     /\ EndHandler(c)
     /\ UNCHANGED wire

(* remember_latest(), 156-170: the last message of each type and source.   *)
LatestKey(m) ==
  <<m.type, IF m.type = "state.accepted" THEN m.resource ELSE m.source>>

RememberLatest(m) ==
  latest' = [key \in DOMAIN latest \cup {LatestKey(m)} |->
               IF key = LatestKey(m) THEN m ELSE latest[key]]

-----------------------------------------------------------------------------
(* handler(), 196-213.  The client is in the table before hello is sent,   *)
(* and the try block only begins after it: if the peer is already gone the *)
(* entry is never removed.                                                 *)
Connect(c) ==
  /\ handler[c].pc = "new"
  /\ clients' = [clients EXCEPT ![c] = "unknown"]
  /\ \/ /\ wire' = Written(c, Hello)
        /\ up' = [up EXCEPT ![c] = TRUE]
        /\ handler' = [handler EXCEPT ![c].pc = "read"]
     \/ /\ handler' = [handler EXCEPT ![c].pc = "ended"]
        /\ UNCHANGED <<wire, up>>
  /\ UNCHANGED <<pending, arrivals, claimed, latest, resources, scheduled>>

(* Mutant: the pending tasks are not replayed.                             *)
HandleRegisterOnly(c, m) ==
  /\ m.type = "client.register"
  /\ \/ /\ up[c]
        /\ clients' = [clients EXCEPT ![c] = "registered"]
        /\ wire' = Written(c, Snapshot)
        /\ UNCHANGED <<handler, up>>
     \/ /\ ~up[c]
        /\ EndHandler(c)
        /\ UNCHANGED wire
  /\ UNCHANGED <<pending, arrivals, claimed, latest, resources, scheduled>>

(* client.register, 45-50: store the registration, send the snapshot, and  *)
(* go on to replay the pending tasks.                                      *)
HandleRegister(c, m) ==
  /\ m.type = "client.register"
  /\ \/ /\ up[c]
        /\ clients' = [clients EXCEPT ![c] = "registered"]
        /\ handler' = [handler EXCEPT ![c].pc = "snapshot"]
        /\ wire' = Written(c, Snapshot)
        /\ UNCHANGED up
     \/ /\ ~up[c]
        /\ EndHandler(c)
        /\ UNCHANGED wire
  /\ UNCHANGED <<pending, arrivals, claimed, latest, resources, scheduled>>

(* Mutant: the loop waits for the table to have its old size again.        *)
ReplayTaskWaits(c) ==
  LET size == IF handler[c].pc = "snapshot" THEN Cardinality(PendingTasks)
              ELSE handler[c].size
      ahead == {t \in PendingTasks : pending[t] > handler[c].cursor}
  IN
  /\ handler[c].pc \in {"snapshot", "replay"}
  /\ ~Sending(c)
  /\ size = Cardinality(PendingTasks)
  /\ \/ /\ ahead = {}
        /\ handler' = [handler EXCEPT ![c] = [pc |-> "read", size |-> 0, cursor |-> 0]]
        /\ UNCHANGED <<clients, up, wire>>
     \/ /\ \E t \in ahead :
             /\ up[c]
             /\ wire' = Written(c, TaskRequest(t))
             /\ handler' = [handler EXCEPT
                  ![c] = [pc |-> "replay", size |-> size, cursor |-> pending[t]]]
             /\ UNCHANGED <<clients, up>>
  /\ UNCHANGED <<pending, arrivals, claimed, latest, resources, scheduled>>

(* The loop "for task in pending_tasks.values(): await ws.send(task)".     *)
(* The iterator is created once the snapshot is sent, and remembers the    *)
(* size of the dictionary: a change of size that another handler made      *)
(* while a send was awaited raises, also after the last task.              *)
ReplayTask(c) ==
  LET size == IF handler[c].pc = "snapshot" THEN Cardinality(PendingTasks)
              ELSE handler[c].size
      ahead == {t \in PendingTasks : pending[t] > handler[c].cursor}
  IN
  /\ handler[c].pc \in {"snapshot", "replay"}
  /\ ~Sending(c)
  /\ \/ /\ size # Cardinality(PendingTasks)
        /\ EndHandler(c)
        /\ UNCHANGED wire
     \/ /\ size = Cardinality(PendingTasks)
        /\ ahead = {}
        /\ handler' = [handler EXCEPT ![c] = [pc |-> "read", size |-> 0, cursor |-> 0]]
        /\ UNCHANGED <<clients, up, wire>>
     \/ /\ size = Cardinality(PendingTasks)
        /\ \E t \in ahead :
             /\ \A other \in ahead : pending[t] <= pending[other]
             /\ \/ /\ up[c]
                   /\ wire' = Written(c, TaskRequest(t))
                   /\ handler' = [handler EXCEPT
                        ![c] = [pc |-> "replay", size |-> size, cursor |-> pending[t]]]
                   /\ UNCHANGED <<clients, up>>
                \/ /\ ~up[c]
                   /\ EndHandler(c)
                   /\ UNCHANGED wire
  /\ UNCHANGED <<pending, arrivals, claimed, latest, resources, scheduled>>

(* task.request, 52-56: a dictionary keeps the place of a key it has.      *)
HandleTaskRequest(c, m) ==
  /\ m.type = "task.request"
  /\ IF pending[m.id] > 0 THEN UNCHANGED <<pending, arrivals>>
     ELSE /\ arrivals' = arrivals + 1
          /\ pending' = [pending EXCEPT ![m.id] = arrivals + 1]
  /\ Broadcast(c, m, {c})
  /\ UNCHANGED <<clients, claimed, latest, resources, handler, up, wire>>

(* Mutant: a claim is granted whoever holds the task.                      *)
HandleTaskClaimAlways(c, m) ==
  /\ m.type = "task.claim"
  /\ claimed' = [claimed EXCEPT ![m.id] = m.client]
  /\ Broadcast(c, m, {})
  /\ UNCHANGED <<clients, handler, up, wire>>
  /\ UNCHANGED <<pending, arrivals, latest, resources>>

(* handle_task_claim(), 91-106.                                            *)
HandleTaskClaim(c, m) ==
  /\ m.type = "task.claim"
  /\ \/ /\ claimed[m.id] # NoOne
        /\ Reply(c, Error("already_claimed"))
        /\ UNCHANGED <<claimed, scheduled>>
     \/ /\ claimed[m.id] = NoOne
        /\ claimed' = [claimed EXCEPT ![m.id] = m.client]
        /\ Broadcast(c, m, {})
        /\ UNCHANGED <<clients, handler, up, wire>>
  /\ UNCHANGED <<pending, arrivals, latest, resources>>

(* task.result, 62-67: whoever sends it.                                   *)
HandleTaskResult(c, m) ==
  /\ m.type = "task.result"
  /\ pending' = [pending EXCEPT ![m.id] = 0]
  /\ claimed' = [claimed EXCEPT ![m.id] = NoOne]
  /\ Broadcast(c, m, {})
  /\ UNCHANGED <<clients, arrivals, latest, resources, handler, up, wire>>

(* image.frame, robot.state, leader.state, status.report, 69-72.           *)
HandleTelemetry(c, m) ==
  /\ m.type \in TelemetryTypes
  /\ RememberLatest(m)
  /\ Broadcast(c, m, {c})
  /\ UNCHANGED <<clients, pending, arrivals, claimed, resources, handler, up, wire>>

(* motor.command and stop, 78-80.                                          *)
HandleRelay(c, m) ==
  /\ m.type \in RelayTypes
  /\ Broadcast(c, m, {c})
  /\ UNCHANGED <<tables, handler, up, wire>>

(* Mutant: the author of a change gets its acceptance as a reply.          *)
HandlePatchReplies(c, m) ==
  /\ m.type = "state.patch"
  /\ \/ /\ Accept(m.change)
        /\ LET accepted == Accepted(m.change, ChangedResource(m.change)) IN
             /\ RememberLatest(accepted)
             /\ Broadcast(c, accepted, {c})
             /\ Reply(c, accepted)
     \/ /\ Conflict(m.change)
        /\ Reply(c, ConflictReply(m.change))
        /\ UNCHANGED <<latest, scheduled>>
     \/ /\ Refuse(m.change)
        /\ Reply(c, Error("invalid_patch"))
        /\ UNCHANGED <<latest, scheduled>>
  /\ UNCHANGED <<pending, arrivals, claimed>>

(* handle_state_patch(), 108-154.  The message is a change of the store.   *)
HandlePatch(c, m) ==
  /\ m.type = "state.patch"
  /\ \/ /\ Accept(m.change)
        /\ LET accepted == Accepted(m.change, ChangedResource(m.change)) IN
             /\ RememberLatest(accepted)
             /\ Broadcast(c, accepted, {})
        /\ UNCHANGED <<clients, handler, up, wire>>
     \/ /\ Conflict(m.change)
        /\ Reply(c, ConflictReply(m.change))
        /\ UNCHANGED <<latest, scheduled>>
     \/ /\ Refuse(m.change)
        /\ Reply(c, Error("invalid_patch"))
        /\ UNCHANGED <<latest, scheduled>>
  /\ UNCHANGED <<pending, arrivals, claimed>>

(* Frames that are answered with an error: 41-43, 82-89, 127-137, 218-220. *)
HandleRejected(c, m) ==
  /\ m.type \in RejectedTypes
  /\ Reply(c, Error(m.type))
  /\ UNCHANGED <<pending, arrivals, claimed, latest, resources, scheduled>>

(* A frame whose handling raises (a field the code indexes is missing, or  *)
(* the JSON value is no object): the exception ends the handler.           *)
HandleMalformed(c, m) ==
  /\ m.type = "malformed"
  /\ EndHandler(c)
  /\ UNCHANGED <<pending, arrivals, claimed, latest, resources, scheduled, wire>>

(* handle_message(), 38-89.  Frames that were received before a connection *)
(* closed are still handled.                                               *)
Handle(c, m) ==
  /\ Ready(c)
  /\ \/ HandleRegister(c, m)
     \/ HandleTaskRequest(c, m)
     \/ HandleTaskClaim(c, m)
     \/ HandleTaskResult(c, m)
     \/ HandleTelemetry(c, m)
     \/ HandleRelay(c, m)
     \/ HandlePatch(c, m)
     \/ HandleRejected(c, m)
     \/ HandleMalformed(c, m)

-----------------------------------------------------------------------------
(* Mutant: a send to a closed connection never completes.                  *)
StartSendOpen(c) ==
  /\ scheduled[c] # <<>>
  /\ up[c]
  /\ scheduled' = [scheduled EXCEPT ![c] = Tail(@)]
  /\ wire' = [wire EXCEPT ![c] = Append(@, Head(scheduled[c]))]
  /\ UNCHANGED <<tables, handler, up>>

(* A scheduled send starts: it writes its frame, or fails silently on a    *)
(* closed connection (return_exceptions=True).                             *)
StartSend(c) ==
  /\ scheduled[c] # <<>>
  /\ scheduled' = [scheduled EXCEPT ![c] = Tail(@)]
  /\ wire' = IF up[c] THEN [wire EXCEPT ![c] = Append(@, Head(scheduled[c]))] ELSE wire
  /\ UNCHANGED <<tables, handler, up>>

(* The connection breaks, or its client goes away: unread frames are lost. *)
Drop(c) ==
  /\ up[c]
  /\ up' = [up EXCEPT ![c] = FALSE]
  /\ wire' = [wire EXCEPT ![c] = <<>>]
  /\ UNCHANGED <<tables, handler, scheduled>>

(* The handler of a closed connection finds no more frames and ends.       *)
Finish(c) ==
  /\ Ready(c)
  /\ ~up[c]
  /\ EndHandler(c)
  /\ UNCHANGED <<pending, arrivals, claimed, latest, resources, scheduled, wire>>

(* The client reads its next frame.                                        *)
Read(c) ==
  /\ wire[c] # <<>>
  /\ wire' = [wire EXCEPT ![c] = Tail(@)]
  /\ UNCHANGED <<tables, handler, up, scheduled>>

ServerInit ==
  /\ StoreInit
  /\ clients = [c \in Conns |-> "absent"]
  /\ pending = [t \in Tasks |-> 0]
  /\ arrivals = 0
  /\ claimed = [t \in Tasks |-> NoOne]
  /\ latest = [key \in {} |-> Hello]
  /\ handler = [c \in Conns |-> [pc |-> "new", size |-> 0, cursor |-> 0]]
  /\ up = [c \in Conns |-> FALSE]
  /\ scheduled = [c \in Conns |-> <<>>]
  /\ wire = [c \in Conns |-> <<>>]
=============================================================================
