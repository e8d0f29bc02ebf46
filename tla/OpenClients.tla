---------------------------- MODULE OpenClients ----------------------------
(***************************************************************************)
(* The coordinator with arbitrary clients: every connection sends each     *)
(* message of its repertoire at most once, in any order, reads at its own  *)
(* pace, and may break at any time.  A behaviour has one of Repertoires.   *)
(***************************************************************************)
EXTENDS Coordinator

CONSTANTS
  Repertoires,        (* functions: connection -> messages it may send     *)
  Fragile             (* bound: the connections that may break             *)

ASSUME RepertoireAssumption ==
  /\ Repertoires \subseteq [Conns -> SUBSET Message]
  /\ Fragile \subseteq Conns

VARIABLES
  todo,       (* messages a connection has not sent yet                    *)
  told        (* history: tasks a client has been told of, or has asked for*)

vars == <<serverVars, todo, told>>

Init ==
  /\ ServerInit
  /\ todo \in Repertoires
  /\ told = [c \in Conns |-> {}]

Listeners(c) == {d \in Conns : clients[d] # "absent"} \cup {c}

ConnectClient(c) == Connect(c) /\ UNCHANGED <<todo, told>>

Exchange(c) ==
  \E m \in todo[c] :
    /\ Handle(c, m)
    /\ todo' = [todo EXCEPT ![c] = @ \ {m}]
    /\ told' = IF m.type = "task.request"
               THEN [d \in Conns |-> IF d \in Listeners(c) THEN told[d] \cup {m.id}
                                     ELSE told[d]]
               ELSE told

(* told grows with the task the replay writes to the client.               *)
Replay(c) ==
  /\ ReplayTask(c)
  /\ told' = [told EXCEPT ![c] =
       @ \cup {t \in Tasks : wire' = Written(c, TaskRequest(t))}]
  /\ UNCHANGED todo

Deliver(c) == StartSend(c) /\ UNCHANGED <<todo, told>>
Close(c) == Finish(c) /\ UNCHANGED <<todo, told>>
Break(c) == Drop(c) /\ UNCHANGED <<todo, told>>
Consume(c) == Read(c) /\ UNCHANGED <<todo, told>>

Next ==
  \E c \in Conns :
    \/ ConnectClient(c) \/ Exchange(c) \/ Replay(c) \/ Deliver(c)
    \/ Close(c) \/ (c \in Fragile /\ Break(c)) \/ Consume(c)

Spec == Init /\ [][Next]_vars

(* The event loop runs every task that can run, and the keepalive pings of *)
(* the websockets library close a connection whose client stopped reading. *)
Fairness ==
  \A c \in Conns :
    WF_vars(Deliver(c)) /\ WF_vars(Replay(c)) /\ WF_vars(Close(c))
    /\ WF_vars(Consume(c) \/ (c \in Fragile /\ Break(c)))

LiveSpec == Spec /\ Fairness

-----------------------------------------------------------------------------
HandlerStates == {"new", "snapshot", "replay", "read", "ended"}

TypeOK ==
  /\ StoreTypeOK
  /\ clients \in [Conns -> {"absent", "unknown", "registered"}]
  /\ pending \in [Tasks -> Nat]
  /\ arrivals \in Nat
  /\ claimed \in [Tasks -> ClientIds \cup {NoOne}]
  /\ handler \in [Conns -> [pc : HandlerStates, size : Nat, cursor : Nat]]
  /\ up \in [Conns -> BOOLEAN]
  /\ DOMAIN scheduled = Conns
  /\ DOMAIN wire = Conns
  /\ todo \in [Conns -> SUBSET Message]
  /\ told \in [Conns -> SUBSET Tasks]

(* No registered client misses a task: once the replay of client.register  *)
(* is over, every task that is still pending has been replayed to it or    *)
(* broadcast to it, whatever other handlers did to the table between the   *)
(* sends of the loop (45-50, 52-56, 62-67).                                *)
NoTaskMissed ==
  \A c \in Conns :
    clients[c] = "registered" /\ handler[c].pc = "read" => PendingTasks \subseteq told[c]

(* A client the coordinator lists as registered has a handler that reads   *)
(* its messages; only an unregistered entry can outlive its handler.       *)
RegisteredIsServed ==
  \A c \in Conns :
    /\ clients[c] = "registered" => handler[c].pc \in {"snapshot", "replay", "read"}
    /\ handler[c].pc \in {"snapshot", "replay"} => clients[c] = "registered"

(* The frames on their way to a client, in the order it will read them; a  *)
(* send that starts on a closed connection writes nothing.                 *)
Stream(c) == IF up[c] THEN wire[c] \o scheduled[c] ELSE wire[c]
Frame(c, i) == Stream(c)[i].message
About(c, types) == {i \in DOMAIN Stream(c) : Frame(c, i).type \in types}

(* Every client sees the claims of a task one after the other: between two *)
(* claims there is a result, and the last one it sees is the claim that    *)
(* the coordinator holds, or a result when it holds none (62-67, 91-106).  *)
ClaimsAgree ==
  \A c \in Conns, t \in Tasks :
    LET events == {i \in About(c, {"task.claim", "task.result"}) : Frame(c, i).id = t}
        IsClaim(i) == Frame(c, i).type = "task.claim"
    IN
    /\ \A i, j \in events :
         i < j /\ IsClaim(i) /\ IsClaim(j)
           => \E k \in events : i < k /\ k < j /\ ~IsClaim(k)
    /\ clients[c] # "absent" =>
         \A i \in events :
           (\A j \in events : j <= i) =>
             claimed[t] = IF IsClaim(i) THEN Frame(c, i).client ELSE NoOne

(* A handler that waits for its sends is never stuck on another client: it *)
(* reads its next message, or ends, once every slow client has read or has *)
(* been closed (29-36).                                                    *)
HandlersRecover ==
  \A c \in Conns : Sending(c) ~> ~Sending(c)

(* A registration completes: the replay ends in the read loop, or the      *)
(* connection is closed.                                                   *)
ReplayEnds ==
  \A c \in Conns : handler[c].pc = "snapshot" ~> handler[c].pc \in {"read", "ended"}
=============================================================================
