--------------------------- MODULE LegacyAdapter ---------------------------
(***************************************************************************)
(* The bridge between the coordinator and the arm control server           *)
(* (examples/python/legacy_yam_control_adapter.py): one asyncio process in *)
(* which a polling and a forwarding coroutine share the RPC connection     *)
(* through one lock.  The control server answers one request of the        *)
(* connection after the other (yam_control_ws_server.py, 510-527).         *)
(***************************************************************************)
EXTENDS Naturals, Sequences, SequencesExt

CONSTANTS
  MaxMessages,  (* bound: messages the coordinator relays to the adapter   *)
  CommandsFail, (* whether the server may refuse a command                 *)
  StopsFail,    (* whether the server may refuse zero_torque_mode          *)
  LinkBreaks    (* whether the connection to the server may break          *)

ASSUME AdapterAssumption ==
  /\ MaxMessages \in Nat
  /\ {CommandsFail, StopsFail, LinkBreaks} \subseteq BOOLEAN

Coroutines == {"poll", "forward"}
Kinds == {"motor.command", "stop", "other"}

VARIABLES
  emitted,      (* messages relayed so far                                 *)
  inbox,        (* messages the adapter has not read                       *)
  waiting,      (* the asyncio lock: its holder, then those that wait      *)
  at,           (* coroutine -> where it is                                *)
  doing,        (* coroutine -> the method of its call, and the message    *)
  requests,     (* requests on their way to the server                     *)
  replies,      (* replies on their way to the adapter                     *)
  link,         (* whether the connection to the server is open            *)
  alive,        (* whether the adapter runs                                *)
  done,         (* history: the messages that took effect on the robot     *)
  passed        (* history: polls sent since the current stop was read     *)

calls == <<waiting, at, doing>>
wires == <<requests, replies>>
vars == <<emitted, inbox, calls, wires, link, alive, done, passed>>

Poll(method) == [method |-> method, n |-> 0]

Init ==
  /\ emitted = 0
  /\ inbox = <<>>
  /\ waiting = <<>>
  /\ at = [c \in Coroutines |-> IF c = "poll" THEN "sleep" ELSE "read"]
  /\ doing = [c \in Coroutines |-> Poll("get_status")]
  /\ requests = <<>>
  /\ replies = <<>>
  /\ link = TRUE
  /\ alive = TRUE
  /\ done = <<>>
  /\ passed = 0

-----------------------------------------------------------------------------
(* The coordinator relays a message.                                       *)
Emit(kind) ==
  /\ emitted < MaxMessages
  /\ emitted' = emitted + 1
  /\ inbox' = Append(inbox, [kind |-> kind, n |-> emitted + 1])
  /\ UNCHANGED <<calls, wires, link, alive, done, passed>>

(* legacy_rpc, 29-36: a coroutine asks for the lock.                       *)
Ask(c, call) ==
  /\ waiting' = Append(waiting, c)
  /\ at' = [at EXCEPT ![c] = "lock"]
  /\ doing' = [doing EXCEPT ![c] = call]

(* poll_legacy: the sleep is over.                                         *)
PollWakes ==
  /\ alive
  /\ at["poll"] = "sleep"
  /\ Ask("poll", Poll("get_status"))
  /\ UNCHANGED <<emitted, inbox, wires, link, alive, done, passed>>

(* What the poll got is published; it then asks for the joint positions,   *)
(* or sleeps (66-87).                                                      *)
PollPublishes ==
  /\ alive
  /\ \/ /\ at["poll"] = "publish" /\ doing["poll"].method = "get_status"
        /\ Ask("poll", Poll("get_joint_pos"))
     \/ /\ at["poll"] = "publish error" \/ doing["poll"].method = "get_joint_pos"
        /\ at["poll"] \in {"publish", "publish error"}
        /\ at' = [at EXCEPT !["poll"] = "sleep"]
        /\ UNCHANGED <<waiting, doing>>
  /\ UNCHANGED <<emitted, inbox, wires, link, alive, done, passed>>

(* Mutant: stops overtake what was sent before them.                       *)
ForwardReadsStopsFirst ==
  /\ alive
  /\ at["forward"] = "read"
  /\ \E i \in DOMAIN inbox :
       /\ inbox[i].kind = "stop"
       /\ inbox' = RemoveAt(inbox, i)
       /\ Ask("forward", [method |-> "zero_torque_mode", n |-> inbox[i].n])
  /\ passed' = 0
  /\ UNCHANGED <<emitted, wires, link, alive, done>>

(* forward_commands, 90-99: a message for another robot, or without joint  *)
(* positions, is skipped.                                                  *)
ForwardReads ==
  /\ alive
  /\ at["forward"] = "read"
  /\ inbox # <<>>
  /\ inbox' = Tail(inbox)
  /\ LET m == Head(inbox) IN
     \/ /\ m.kind = "other"
        /\ UNCHANGED calls
     \/ /\ m.kind = "motor.command"
        /\ Ask("forward", [method |-> "command_joint_pos", n |-> m.n])
     \/ /\ m.kind = "stop"
        /\ Ask("forward", [method |-> "zero_torque_mode", n |-> m.n])
  /\ passed' = 0
  /\ UNCHANGED <<emitted, wires, link, alive, done>>

(* Leaving "async with lock": the holder, the first, goes.                *)
Release == waiting' = Tail(waiting)

(* Mutant: the two calls of a poll share one acquisition of the lock.      *)
SucceedHolding(c) ==
  /\ IF doing[c].method = "get_status"
     THEN /\ at' = [at EXCEPT ![c] = "lock"]
          /\ doing' = [doing EXCEPT ![c] = Poll("get_joint_pos")]
          /\ UNCHANGED waiting
     ELSE /\ Release
          /\ at' = [at EXCEPT ![c] = IF c = "poll" THEN "publish" ELSE "read"]
          /\ UNCHANGED doing
  /\ UNCHANGED alive

Succeed(c) ==
  /\ Release
  /\ at' = [at EXCEPT ![c] = IF c = "poll" THEN "publish" ELSE "read"]
  /\ UNCHANGED <<doing, alive>>

(* A call raises: the poll publishes the error (79-86) and a failing stop  *)
(* is ignored (98-101), but the error of a command leaves forward_commands *)
(* and ends the adapter.                                                   *)
Fail(c) ==
  /\ Release
  /\ at' = [at EXCEPT ![c] = IF c = "poll" THEN "publish error" ELSE "read"]
  /\ alive' = (doing[c].method # "command_joint_pos")
  /\ UNCHANGED doing

(* Mutant: the lock is not waited for.                                     *)
MaySendAnyTime(c) == TRUE

(* The holder of the lock sends its request.                               *)
MaySend(c) == Head(waiting) = c

Send(c) ==
  /\ alive
  /\ at[c] = "lock"
  /\ MaySend(c)
  /\ \/ /\ link
        /\ requests' = Append(requests, [by |-> c, call |-> doing[c]])
        /\ at' = [at EXCEPT ![c] = "reply"]
        /\ passed' = IF c = "poll" /\ passed < 2 THEN passed + 1 ELSE passed
        /\ UNCHANGED <<waiting, doing, alive>>
     \/ /\ ~link
        /\ Fail(c)
        /\ UNCHANGED <<requests, passed>>
  /\ UNCHANGED <<emitted, inbox, replies, link, done>>

(* Mutant: error replies are skipped.                                      *)
ReceiveResultsOnly(c) ==
  /\ alive
  /\ at[c] = "reply"
  /\ \/ /\ replies # <<>>
        /\ replies' = Tail(replies)
        /\ LET reply == Head(replies) IN
           \/ reply.to # c /\ UNCHANGED <<calls, alive>>
           \/ reply.to = c /\ reply.ok /\ Succeed(c)
           \/ reply.to = c /\ ~reply.ok /\ UNCHANGED <<calls, alive>>
     \/ /\ ~link /\ replies = <<>>
        /\ Fail(c)
        /\ UNCHANGED replies
  /\ UNCHANGED <<emitted, inbox, requests, link, done, passed>>

(* Lines 38-46: replies with another id are skipped.                       *)
Receive(c) ==
  /\ alive
  /\ at[c] = "reply"
  /\ \/ /\ replies # <<>>
        /\ replies' = Tail(replies)
        /\ LET reply == Head(replies) IN
           \/ reply.to # c /\ UNCHANGED <<calls, alive>>
           \/ reply.to = c /\ reply.ok /\ Succeed(c)
           \/ reply.to = c /\ ~reply.ok /\ Fail(c)
     \/ /\ ~link /\ replies = <<>>
        /\ Fail(c)
        /\ UNCHANGED replies
  /\ UNCHANGED <<emitted, inbox, requests, link, done, passed>>

-----------------------------------------------------------------------------
MayRefuse(method) ==
  \/ method = "command_joint_pos" /\ CommandsFail
  \/ method = "zero_torque_mode" /\ StopsFail
  \/ method \in {"get_status", "get_joint_pos"}

(* The control server handles the next request of the connection.          *)
Answer ==
  /\ requests # <<>>
  /\ requests' = Tail(requests)
  /\ LET request == Head(requests)
         Reply(ok) == IF link /\ alive
                      THEN replies' = Append(replies, [to |-> request.by, ok |-> ok])
                      ELSE UNCHANGED replies
     IN
     \/ /\ Reply(TRUE)
        /\ done' = IF request.by = "forward" THEN Append(done, request.call) ELSE done
     \/ /\ MayRefuse(request.call.method)
        /\ Reply(FALSE)
        /\ UNCHANGED done
  /\ UNCHANGED <<emitted, inbox, calls, link, alive, passed>>

(* The connection to the server breaks, with what is on it.                *)
Break ==
  /\ LinkBreaks /\ link
  /\ link' = FALSE
  /\ requests' = <<>>
  /\ replies' = <<>>
  /\ UNCHANGED <<emitted, inbox, calls, alive, done, passed>>

Step(c) == Send(c) \/ Receive(c)

Next ==
  \/ \E kind \in Kinds : Emit(kind)
  \/ PollWakes \/ PollPublishes \/ ForwardReads
  \/ \E c \in Coroutines : Step(c)
  \/ Answer \/ Break

Spec == Init /\ [][Next]_vars

(* The event loop runs both coroutines, and the server answers.            *)
LiveSpec ==
  /\ Spec
  /\ WF_vars(ForwardReads) /\ WF_vars(Answer)
  /\ \A c \in Coroutines : WF_vars(Step(c))

-----------------------------------------------------------------------------
(* One reader: the two coroutines never wait for a reply of the shared     *)
(* connection at the same time, and a reply is there for the one that      *)
(* waits (29-46; websockets refuses a second recv).                        *)
OneReader ==
  /\ ~\A c \in Coroutines : at[c] = "reply"
  /\ alive => \A i \in DOMAIN replies : at[replies[i].to] = "reply"

(* Commands and stops take effect in the order the coordinator relayed     *)
(* them, each at most once: nothing that was sent before a stop moves the  *)
(* robot after it.                                                         *)
InOrder ==
  \A i, j \in DOMAIN done : i < j => done[i].n < done[j].n

(* A stop that has been read waits for at most one call of the poll        *)
(* (asyncio.Lock is first come, first served).                             *)
StopWaitsForOnePoll ==
  at["forward"] = "lock" /\ doing["forward"].method = "zero_torque_mode" => passed <= 1

(* A stop that is relayed is sent to the control server, whatever calls    *)
(* fail before it, unless the adapter has ended or its connection is lost. *)
StopIsForwarded ==
  \A n \in 1 .. MaxMessages :
    (\E i \in DOMAIN inbox : inbox[i].kind = "stop" /\ inbox[i].n = n)
      ~> \/ at["forward"] = "reply" /\ doing["forward"].n = n
         \/ ~alive \/ ~link

(* A stop that is relayed to the adapter takes effect on the robot         *)
(* (docs/protocol.md, 258).                                                *)
StopTakesEffect ==
  \A n \in 1 .. MaxMessages :
    (\E i \in DOMAIN inbox : inbox[i].kind = "stop" /\ inbox[i].n = n)
      ~> (\E i \in DOMAIN done : done[i].method = "zero_torque_mode" /\ done[i].n = n)
=============================================================================
