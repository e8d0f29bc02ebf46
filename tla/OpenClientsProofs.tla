------------------------- MODULE OpenClientsProofs -------------------------
(***************************************************************************)
(* Proofs about the coordinator with arbitrary clients, for any number of  *)
(* connections and tasks and whatever the clients send: type correctness,  *)
(* that no registered client misses a pending task, that every client sees *)
(* the claims of a task one after the other, and the safety part of the    *)
(* refinement of Announcements.  The last two follow the stream of frames  *)
(* of a client through every step.                                         *)
(***************************************************************************)
EXTENDS OpenBroadcasts, ChangeStoreProofs, FiniteSetTheorems

(* The type of the messages a handler receives.                            *)
LEMMA MessageFields ==
  ASSUME NEW m \in Message
  PROVE  /\ m.type \in {"task.request", "task.result", "task.claim"} => m.id \in Tasks
         /\ m.type = "task.claim" => m.client \in ClientIds
         /\ m.type = "state.patch" => m.change \in Change
BY DEF Message, RelayTypes, RejectedTypes, TelemetryTypes

(* Ending a handler keeps the types of what it touches.                    *)
LEMMA EndHandlerType ==
  ASSUME TypeOK, NEW c \in Conns, EndHandler(c)
  PROVE  /\ clients' \in [Conns -> {"absent", "unknown", "registered"}]
         /\ handler' \in [Conns -> [pc : HandlerStates, size : Nat, cursor : Nat]]
         /\ up' \in [Conns -> BOOLEAN]
BY DEF TypeOK, EndHandler, HandlerStates

(* So does a reply, whether it is written or finds the connection closed.  *)
LEMMA ReplyType ==
  ASSUME TypeOK, NEW c \in Conns, NEW message, Reply(c, message)
  PROVE  /\ clients' \in [Conns -> {"absent", "unknown", "registered"}]
         /\ handler' \in [Conns -> [pc : HandlerStates, size : Nat, cursor : Nat]]
         /\ up' \in [Conns -> BOOLEAN]
         /\ DOMAIN wire' = Conns
<1>1. CASE UNCHANGED <<clients, handler, up>> /\ wire' = Written(c, message)
  BY <1>1 DEF TypeOK, Written
<1>2. CASE EndHandler(c) /\ UNCHANGED wire
  BY <1>2, EndHandlerType DEF TypeOK
<1>3. QED
  BY <1>1, <1>2 DEF Reply

(* Handling one message keeps the types of the server's variables.         *)
LEMMA HandleType ==
  ASSUME TypeOK, NEW c \in Conns, NEW m \in Message, Handle(c, m)
  PROVE  /\ StoreTypeOK'
         /\ clients' \in [Conns -> {"absent", "unknown", "registered"}]
         /\ pending' \in [Tasks -> Nat]
         /\ arrivals' \in Nat
         /\ claimed' \in [Tasks -> ClientIds \cup {NoOne}]
         /\ handler' \in [Conns -> [pc : HandlerStates, size : Nat, cursor : Nat]]
         /\ up' \in [Conns -> BOOLEAN]
         /\ DOMAIN scheduled' = Conns
         /\ DOMAIN wire' = Conns
<1>1. resources' = resources => StoreTypeOK'
  BY DEF TypeOK, StoreTypeOK
<1>2. CASE HandleRegister(c, m)
  <2>1. CASE EndHandler(c) /\ UNCHANGED wire
    BY <1>1, <1>2, <2>1, EndHandlerType DEF HandleRegister, TypeOK
  <2>2. CASE ~(EndHandler(c) /\ UNCHANGED wire)
    <3>1. /\ clients' = [clients EXCEPT ![c] = "registered"]
          /\ handler' = [handler EXCEPT ![c].pc = "snapshot"]
          /\ wire' = Written(c, Snapshot)
          /\ UNCHANGED <<pending, arrivals, claimed, resources, up, scheduled>>
      BY <1>2, <2>2 DEF HandleRegister
    <3>2. handler' \in [Conns -> [pc : HandlerStates, size : Nat, cursor : Nat]]
      BY <3>1 DEF TypeOK, HandlerStates
    <3>3. QED
      BY <1>1, <3>1, <3>2 DEF TypeOK, Written
  <2>3. QED
    BY <2>1, <2>2
<1>3. CASE HandleTaskRequest(c, m)
  <2>1. pending' \in [Tasks -> Nat] /\ arrivals' \in Nat
    BY <1>3, MessageFields DEF HandleTaskRequest, TypeOK
  <2>2. DOMAIN scheduled' = Conns
    BY <1>3 DEF HandleTaskRequest, Broadcast
  <2>3. QED
    BY <1>1, <1>3, <2>1, <2>2 DEF HandleTaskRequest, TypeOK
<1>4. CASE HandleTaskClaim(c, m)
  <2>1. CASE Reply(c, Error("already_claimed")) /\ UNCHANGED <<claimed, scheduled>>
    BY <1>1, <1>4, <2>1, ReplyType DEF HandleTaskClaim, TypeOK
  <2>2. CASE ~(Reply(c, Error("already_claimed")) /\ UNCHANGED <<claimed, scheduled>>)
    <3>1. claimed' = [claimed EXCEPT ![m.id] = m.client]
      BY <1>4, <2>2 DEF HandleTaskClaim
    <3>2. m.client \in ClientIds
      BY <1>4, MessageFields DEF HandleTaskClaim
    <3>3. claimed' \in [Tasks -> ClientIds \cup {NoOne}]
      BY <3>1, <3>2 DEF TypeOK
    <3>4. QED
      BY <1>1, <1>4, <2>2, <3>3 DEF HandleTaskClaim, TypeOK, Broadcast
  <2>3. QED
    BY <2>1, <2>2
<1>5. CASE HandleTaskResult(c, m)
  <2>1. /\ pending' = [pending EXCEPT ![m.id] = 0]
        /\ claimed' = [claimed EXCEPT ![m.id] = NoOne]
    BY <1>5 DEF HandleTaskResult
  <2>2. pending' \in [Tasks -> Nat] /\ claimed' \in [Tasks -> ClientIds \cup {NoOne}]
    BY <2>1 DEF TypeOK
  <2>3. QED
    BY <1>1, <1>5, <2>2 DEF HandleTaskResult, TypeOK, Broadcast
<1>6. CASE HandleTelemetry(c, m)
  BY <1>1, <1>6 DEF HandleTelemetry, TypeOK, Broadcast
<1>7. CASE HandleRelay(c, m)
  BY <1>1, <1>7 DEF HandleRelay, TypeOK, Broadcast, tables
<1>8. CASE HandlePatch(c, m)
  <2>1. StoreTypeOK'
    BY <1>8, StoreStepType, MessageFields DEF HandlePatch, TypeOK
  <2>2. CASE UNCHANGED <<clients, handler, up, wire>> /\ DOMAIN scheduled' = Conns
    BY <1>8, <2>1, <2>2 DEF HandlePatch, TypeOK
  <2>3. CASE UNCHANGED scheduled /\ \E message : Reply(c, message)
    BY <1>8, <2>1, <2>3, ReplyType DEF HandlePatch, TypeOK
  <2>4. QED
    BY <1>8, <2>2, <2>3 DEF HandlePatch, Broadcast
<1>9. CASE HandleRejected(c, m)
  BY <1>1, <1>9, ReplyType DEF HandleRejected, TypeOK
<1>10. CASE HandleMalformed(c, m)
  BY <1>1, <1>10, EndHandlerType DEF HandleMalformed, TypeOK
<1>11. QED
  BY <1>2, <1>3, <1>4, <1>5, <1>6, <1>7, <1>8, <1>9, <1>10 DEF Handle

-----------------------------------------------------------------------------
(* Type correctness of the coordinator and its clients.                    *)
THEOREM TypeCorrect == Spec => []TypeOK
<1>1. Init => TypeOK
  BY RepertoireAssumption
     DEF Init, ServerInit, StoreInit, TypeOK, StoreTypeOK, HandlerStates
<1>2. TypeOK /\ [Next]_vars => TypeOK'
  <2> SUFFICES ASSUME TypeOK, [Next]_vars PROVE TypeOK'
    OBVIOUS
  <2>0. resources' = resources => StoreTypeOK'
    BY DEF TypeOK, StoreTypeOK
  <2>1. ASSUME NEW c \in Conns, ConnectClient(c) PROVE TypeOK'
    <3>1. /\ clients' \in [Conns -> {"absent", "unknown", "registered"}]
          /\ up' \in [Conns -> BOOLEAN]
          /\ DOMAIN wire' = Conns
      BY <2>1 DEF ConnectClient, Connect, TypeOK, Written
    <3>2. handler' \in [Conns -> [pc : HandlerStates, size : Nat, cursor : Nat]]
      <4>1. PICK pc \in HandlerStates : handler' = [handler EXCEPT ![c].pc = pc]
        BY <2>1 DEF ConnectClient, Connect, HandlerStates
      <4>2. QED
        BY <4>1 DEF TypeOK
    <3>3. QED
      BY <2>0, <2>1, <3>1, <3>2 DEF ConnectClient, Connect, TypeOK
  <2>2. ASSUME NEW c \in Conns, Exchange(c) PROVE TypeOK'
    <3> PICK m \in todo[c] : /\ Handle(c, m)
                             /\ todo' = [todo EXCEPT ![c] = @ \ {m}]
                             /\ told' = IF m.type = "task.request"
                                        THEN [d \in Conns |->
                                                IF d \in Listeners(c)
                                                THEN told[d] \cup {m.id} ELSE told[d]]
                                        ELSE told
      BY <2>2 DEF Exchange
    <3>1. m \in Message
      BY DEF TypeOK
    <3>2. told' \in [Conns -> SUBSET Tasks]
      BY <3>1, MessageFields DEF TypeOK
    <3>3. todo' \in [Conns -> SUBSET Message]
      BY DEF TypeOK
    <3>4. QED
      BY <3>1, <3>2, <3>3, HandleType DEF TypeOK
  <2>3. ASSUME NEW c \in Conns, Replay(c) PROVE TypeOK'
    <3>1. PendingTasks \subseteq Tasks /\ Cardinality(PendingTasks) \in Nat
      BY CoordinatorAssumption, FS_Subset, FS_CardinalityType DEF PendingTasks
    <3>2. told' \in [Conns -> SUBSET Tasks]
      BY <2>3 DEF Replay, TypeOK
    <3>3. CASE EndHandler(c) /\ UNCHANGED wire
      BY <2>0, <2>3, <3>2, <3>3, EndHandlerType DEF Replay, ReplayTask, TypeOK
    <3>4. CASE ~(EndHandler(c) /\ UNCHANGED wire)
      <4>1. /\ UNCHANGED <<clients, up, pending, arrivals, claimed, resources, scheduled, todo>>
            /\ DOMAIN wire' = Conns
        BY <2>3, <3>4 DEF Replay, ReplayTask, TypeOK, Written
      <4>2. \E pc \in {"read", "replay"}, size, cursor \in Nat :
              handler' = [handler EXCEPT ![c] = [pc |-> pc, size |-> size, cursor |-> cursor]]
        BY <2>3, <3>1, <3>4 DEF Replay, ReplayTask, TypeOK
      <4>3. handler' \in [Conns -> [pc : HandlerStates, size : Nat, cursor : Nat]]
        BY <4>2 DEF TypeOK, HandlerStates
      <4>4. QED
        BY <2>0, <3>2, <4>1, <4>3 DEF TypeOK
    <3>5. QED
      BY <3>3, <3>4
  <2>4. ASSUME NEW c \in Conns, Deliver(c) \/ Break(c) \/ Consume(c) PROVE TypeOK'
    BY <2>0, <2>4 DEF Deliver, StartSend, Break, Drop, Consume, Read, TypeOK, tables
  <2>5. ASSUME NEW c \in Conns, Close(c) PROVE TypeOK'
    BY <2>0, <2>5, EndHandlerType DEF Close, Finish, TypeOK
  <2>6. CASE UNCHANGED vars
    BY <2>0, <2>6 DEF vars, serverVars, tables, links, TypeOK
  <2>7. QED
    BY <2>1, <2>2, <2>3, <2>4, <2>5, <2>6 DEF Next
<1>3. QED
  BY <1>1, <1>2, PTL DEF Spec
-----------------------------------------------------------------------------
(* The strengthening of NoTaskMissed.  Ranks tell the pending tasks apart, *)
(* a replay that has not begun is at cursor 0, and one under way has told  *)
(* its client of every pending task up to its cursor.                      *)
RanksDistinct ==
  /\ \A t \in Tasks : pending[t] <= arrivals
  /\ \A t, u \in Tasks : pending[t] > 0 /\ pending[t] = pending[u] => t = u

CursorStart ==
  \A c \in Conns : handler[c].pc \in {"new", "snapshot", "read"} => handler[c].cursor = 0

ReplayedTold ==
  \A c \in Conns : handler[c].pc = "replay" =>
    \A t \in PendingTasks : pending[t] <= handler[c].cursor => t \in told[c]

ReplaySafe ==
  /\ RanksDistinct
  /\ CursorStart
  /\ ReplayedTold
  /\ NoTaskMissed
  /\ RegisteredIsServed

ReplayInv == TypeOK /\ ReplaySafe

(* What the invariant speaks of.                                           *)
replayVars == <<clients, handler, pending, arrivals, told>>

LEMMA QuietStep ==
  ASSUME ReplaySafe, UNCHANGED replayVars
  PROVE  ReplaySafe'
BY DEF ReplaySafe, RanksDistinct, CursorStart, ReplayedTold, NoTaskMissed,
       RegisteredIsServed, PendingTasks, replayVars

(* The end of a handler takes its client out of reach of the invariant.    *)
LEMMA EndStep ==
  ASSUME ReplayInv, NEW c \in Conns, EndHandler(c), UNCHANGED <<pending, arrivals>>,
         \A d \in Conns : told[d] \subseteq told'[d]
  PROVE  ReplaySafe'
<1>1. PICK pc : pc = "ended" /\ handler' = [handler EXCEPT ![c].pc = pc]
  BY DEF EndHandler
<1>2. /\ clients' = [clients EXCEPT ![c] = "absent"]
      /\ DOMAIN clients = Conns /\ DOMAIN handler = Conns
  BY DEF EndHandler, ReplayInv, TypeOK
<1>3. \A d \in Conns : d # c => handler'[d] = handler[d] /\ clients'[d] = clients[d]
  BY <1>1, <1>2
<1>4. handler'[c].pc = "ended" /\ clients'[c] = "absent"
  BY <1>1, <1>2 DEF ReplayInv, TypeOK
<1>5. RanksDistinct' /\ PendingTasks' = PendingTasks
  BY DEF ReplayInv, ReplaySafe, RanksDistinct, PendingTasks
<1>6. CursorStart' /\ ReplayedTold'
  BY <1>3, <1>4, <1>5 DEF ReplayInv, ReplaySafe, CursorStart, ReplayedTold
<1>7. NoTaskMissed' /\ RegisteredIsServed'
  BY <1>3, <1>4, <1>5 DEF ReplayInv, ReplaySafe, NoTaskMissed, RegisteredIsServed
<1>8. QED
  BY <1>5, <1>6, <1>7 DEF ReplaySafe

(* A step of the handler of c that starts a connection, registers its      *)
(* client or finishes its replay: it moves c alone, and to a place where   *)
(* the invariant holds by itself.                                          *)
LEMMA MoveStep ==
  ASSUME ReplayInv, NEW c \in Conns, UNCHANGED <<pending, arrivals, told>>,
         \A d \in Conns : d # c => handler'[d] = handler[d] /\ clients'[d] = clients[d],
         handler'[c].pc \in {"snapshot", "read", "ended"},
         handler'[c].cursor = 0 \/ handler'[c].pc = "ended",
         handler'[c].pc = "snapshot" => clients'[c] = "registered",
         clients'[c] = "registered" => handler'[c].pc # "ended",
         clients'[c] = "registered" /\ handler'[c].pc = "read" => PendingTasks \subseteq told[c]
  PROVE  ReplaySafe'
<1>1. RanksDistinct' /\ PendingTasks' = PendingTasks
  BY DEF ReplayInv, ReplaySafe, RanksDistinct, PendingTasks
<1>2. CursorStart' /\ ReplayedTold'
  BY <1>1 DEF ReplayInv, ReplaySafe, CursorStart, ReplayedTold
<1>3. NoTaskMissed'
  BY <1>1 DEF ReplayInv, ReplaySafe, NoTaskMissed
<1>4. RegisteredIsServed'
  BY DEF ReplayInv, ReplaySafe, RegisteredIsServed
<1>5. QED
  BY <1>1, <1>2, <1>3, <1>4 DEF ReplaySafe

(* A request: a new task gets a rank above every other one, and everybody  *)
(* in the table is told of it.                                             *)
LEMMA RequestStep ==
  ASSUME ReplayInv, NEW c \in Conns, NEW m \in Message, HandleTaskRequest(c, m),
         told' = [d \in Conns |-> IF d \in Listeners(c) THEN told[d] \cup {m.id}
                                  ELSE told[d]]
  PROVE  ReplaySafe'
<1>1. /\ m.id \in Tasks
      /\ UNCHANGED <<clients, handler>>
      /\ pending \in [Tasks -> Nat] /\ arrivals \in Nat
  BY MessageFields DEF HandleTaskRequest, ReplayInv, TypeOK
<1>2. \A t \in Tasks : t # m.id => pending'[t] = pending[t]
  BY <1>1 DEF HandleTaskRequest
<1>3. \/ UNCHANGED <<pending, arrivals>>
      \/ pending[m.id] = 0 /\ pending'[m.id] = arrivals + 1 /\ arrivals' = arrivals + 1
  BY <1>1 DEF HandleTaskRequest
<1>4. RanksDistinct'
  BY <1>1, <1>2, <1>3 DEF ReplayInv, ReplaySafe, RanksDistinct
<1>5. \A d \in Conns : clients[d] = "registered" => m.id \in told'[d]
  BY DEF Listeners
<1>6. \A d \in Conns : told[d] \subseteq told'[d]
  OBVIOUS
<1>7. \A t \in PendingTasks' : t = m.id \/ (t \in PendingTasks /\ pending'[t] = pending[t])
  BY <1>2 DEF PendingTasks
<1>8. CursorStart' /\ RegisteredIsServed'
  BY <1>1 DEF ReplayInv, ReplaySafe, CursorStart, RegisteredIsServed
<1>9. ReplayedTold'
  <2> SUFFICES ASSUME NEW d \in Conns, handler'[d].pc = "replay",
                      NEW t \in PendingTasks', pending'[t] <= handler'[d].cursor
               PROVE  t \in told'[d]
    BY DEF ReplayedTold
  <2>1. clients[d] = "registered"
    BY <1>1 DEF ReplayInv, ReplaySafe, RegisteredIsServed
  <2>2. CASE t = m.id
    BY <1>5, <2>1, <2>2
  <2>3. CASE t \in PendingTasks /\ pending'[t] = pending[t]
    BY <1>1, <1>6, <2>3 DEF ReplayInv, ReplaySafe, ReplayedTold
  <2>4. QED
    BY <1>7, <2>2, <2>3
<1>10. NoTaskMissed'
  <2> SUFFICES ASSUME NEW d \in Conns, clients'[d] = "registered", handler'[d].pc = "read",
                      NEW t \in PendingTasks'
               PROVE  t \in told'[d]
    BY DEF NoTaskMissed
  <2>1. clients[d] = "registered" /\ handler[d].pc = "read"
    BY <1>1
  <2>2. PendingTasks \subseteq told[d]
    BY <2>1 DEF ReplayInv, ReplaySafe, NoTaskMissed
  <2>3. t = m.id \/ t \in PendingTasks
    BY <1>7
  <2>4. QED
    BY <1>5, <1>6, <2>1, <2>2, <2>3
<1>11. QED
  BY <1>4, <1>8, <1>9, <1>10 DEF ReplaySafe

(* A result only takes a task out of the table.                            *)
LEMMA ResultStep ==
  ASSUME ReplayInv, NEW c \in Conns, NEW m \in Message, HandleTaskResult(c, m),
         UNCHANGED told
  PROVE  ReplaySafe'
<1>1. /\ m.id \in Tasks
      /\ UNCHANGED <<clients, handler, arrivals>>
      /\ pending \in [Tasks -> Nat]
      /\ pending' = [pending EXCEPT ![m.id] = 0]
  BY MessageFields DEF HandleTaskResult, ReplayInv, TypeOK
<1>2. \A t \in Tasks : pending'[t] = pending[t] \/ pending'[t] = 0
  BY <1>1
<1>3. \A t \in PendingTasks' : t \in PendingTasks /\ pending'[t] = pending[t]
  BY <1>2 DEF PendingTasks
<1>4. arrivals \in Nat
  BY DEF ReplayInv, TypeOK
<1>5. RanksDistinct'
  BY <1>1, <1>2, <1>4 DEF ReplayInv, ReplaySafe, RanksDistinct
<1>6. CursorStart' /\ RegisteredIsServed'
  BY <1>1 DEF ReplayInv, ReplaySafe, CursorStart, RegisteredIsServed
<1>7. ReplayedTold' /\ NoTaskMissed'
  BY <1>1, <1>3 DEF ReplayInv, ReplaySafe, ReplayedTold, NoTaskMissed
<1>8. QED
  BY <1>5, <1>6, <1>7 DEF ReplaySafe

(* The replay loop.  When it ends, every pending task lies at or below its *)
(* cursor; when it sends, the task it sends is the only new one at or      *)
(* below its new cursor.                                                   *)
LEMMA ReplayStep ==
  ASSUME ReplayInv, NEW c \in Conns, Replay(c)
  PROVE  ReplaySafe'
<1> DEFINE ahead == {t \in PendingTasks : pending[t] > handler[c].cursor}
<1>1. /\ handler[c].pc \in {"snapshot", "replay"}
      /\ clients[c] = "registered"
      /\ UNCHANGED <<pending, arrivals>>
  BY DEF Replay, ReplayTask, ReplayInv, ReplaySafe, RegisteredIsServed
<1>2. /\ told \in [Conns -> SUBSET Tasks] /\ pending \in [Tasks -> Nat]
      /\ DOMAIN handler = Conns /\ handler[c].cursor \in Nat
  BY DEF ReplayInv, TypeOK
<1>3. /\ \A d \in Conns : told[d] \subseteq told'[d]
      /\ told' = [told EXCEPT ![c] = @ \cup {t \in Tasks : wire' = Written(c, TaskRequest(t))}]
  BY <1>2 DEF Replay
<1>4. \A t \in PendingTasks \ ahead : t \in told[c]
  <2>1. \A t \in PendingTasks \ ahead : pending[t] > 0 /\ pending[t] <= handler[c].cursor
    BY <1>2 DEF PendingTasks
  <2>2. CASE handler[c].pc = "snapshot"
    BY <1>2, <2>1, <2>2 DEF ReplayInv, ReplaySafe, CursorStart, PendingTasks
  <2>3. CASE handler[c].pc = "replay"
    BY <2>1, <2>3 DEF ReplayInv, ReplaySafe, ReplayedTold
  <2>4. QED
    BY <1>1, <2>2, <2>3
<1>5. \/ EndHandler(c) /\ UNCHANGED wire
      \/ /\ ahead = {}
         /\ handler' = [handler EXCEPT ![c] = [pc |-> "read", size |-> 0, cursor |-> 0]]
         /\ UNCHANGED <<clients, wire>>
      \/ \E t \in ahead :
           /\ \A other \in ahead : pending[t] <= pending[other]
           /\ wire' = Written(c, TaskRequest(t))
           /\ \E size : handler' = [handler EXCEPT
                ![c] = [pc |-> "replay", size |-> size, cursor |-> pending[t]]]
           /\ UNCHANGED clients
  BY DEF Replay, ReplayTask
<1>6. CASE EndHandler(c) /\ UNCHANGED wire
  BY <1>1, <1>3, <1>6, EndStep
<1>7. CASE /\ ahead = {}
           /\ handler' = [handler EXCEPT ![c] = [pc |-> "read", size |-> 0, cursor |-> 0]]
           /\ UNCHANGED <<clients, wire>>
  <2>1. /\ \A d \in Conns : d # c => handler'[d] = handler[d]
        /\ handler'[c].pc = "read" /\ handler'[c].cursor = 0
        /\ PendingTasks' = PendingTasks
    BY <1>1, <1>2, <1>7 DEF PendingTasks
  <2>2. RanksDistinct' /\ CursorStart' /\ RegisteredIsServed'
    BY <1>1, <1>7, <2>1
       DEF ReplayInv, ReplaySafe, RanksDistinct, CursorStart, RegisteredIsServed
  <2>3. ReplayedTold'
    BY <1>1, <1>3, <2>1 DEF ReplayInv, ReplaySafe, ReplayedTold
  <2>4. PendingTasks \subseteq told'[c]
    BY <1>3, <1>4, <1>7
  <2>5. NoTaskMissed'
    BY <1>3, <1>7, <2>1, <2>4 DEF ReplayInv, ReplaySafe, NoTaskMissed
  <2>6. QED
    BY <2>2, <2>3, <2>5 DEF ReplaySafe
<1>8. ASSUME NEW t \in ahead,
             \A other \in ahead : pending[t] <= pending[other],
             wire' = Written(c, TaskRequest(t)),
             \E size : handler' = [handler EXCEPT
               ![c] = [pc |-> "replay", size |-> size, cursor |-> pending[t]]],
             UNCHANGED clients
      PROVE  ReplaySafe'
  <2>1. /\ \A d \in Conns : d # c => handler'[d] = handler[d]
        /\ handler'[c].pc = "replay" /\ handler'[c].cursor = pending[t]
        /\ PendingTasks' = PendingTasks
    BY <1>1, <1>2, <1>8 DEF PendingTasks
  <2>2. RanksDistinct' /\ CursorStart' /\ RegisteredIsServed'
    BY <1>1, <1>8, <2>1
       DEF ReplayInv, ReplaySafe, RanksDistinct, CursorStart, RegisteredIsServed
  <2>3. t \in Tasks /\ t \in told'[c]
    BY <1>2, <1>3, <1>8 DEF PendingTasks
  <2>4. \A u \in PendingTasks : pending[u] <= pending[t] => u \in told'[c]
    <3> SUFFICES ASSUME NEW u \in PendingTasks, pending[u] <= pending[t], u \in ahead
                 PROVE  u \in told'[c]
      BY <1>3, <1>4
    <3>1. pending[u] = pending[t] /\ u \in Tasks /\ pending[u] > 0
      BY <1>2, <1>8, <2>3 DEF PendingTasks
    <3>2. u = t
      BY <2>3, <3>1 DEF ReplayInv, ReplaySafe, RanksDistinct
    <3>3. QED
      BY <2>3, <3>2
  <2>5. ReplayedTold'
    BY <1>1, <1>3, <2>1, <2>4 DEF ReplayInv, ReplaySafe, ReplayedTold
  <2>6. NoTaskMissed'
    BY <1>3, <1>8, <2>1 DEF ReplayInv, ReplaySafe, NoTaskMissed
  <2>7. QED
    BY <2>2, <2>5, <2>6 DEF ReplaySafe
<1>9. QED
  BY <1>5, <1>6, <1>7, <1>8

(* What Exchange does to the tables, message by message.                   *)
LEMMA ExchangeStep ==
  ASSUME ReplayInv, NEW c \in Conns, Exchange(c)
  PROVE  ReplaySafe'
<1> PICK m \in todo[c] : /\ Handle(c, m)
                         /\ told' = IF m.type = "task.request"
                                    THEN [d \in Conns |->
                                            IF d \in Listeners(c)
                                            THEN told[d] \cup {m.id} ELSE told[d]]
                                    ELSE told
  BY DEF Exchange
<1>1. m \in Message
  BY DEF ReplayInv, TypeOK
<1>2. \A message : Reply(c, message) /\ UNCHANGED <<pending, arrivals, told>> => ReplaySafe'
  <2> SUFFICES ASSUME NEW message, Reply(c, message), UNCHANGED <<pending, arrivals, told>>
               PROVE  ReplaySafe'
    OBVIOUS
  <2>1. CASE UNCHANGED <<clients, handler, up>>
    BY <2>1, QuietStep DEF ReplayInv, replayVars
  <2>2. CASE EndHandler(c)
    BY <2>2, EndStep
  <2>3. QED
    BY <2>1, <2>2 DEF Reply
<1>3. CASE HandleRegister(c, m)
  <2>1. UNCHANGED <<pending, arrivals, told>>
    BY <1>3 DEF HandleRegister
  <2>2. CASE EndHandler(c)
    BY <2>1, <2>2, EndStep
  <2>3. CASE ~EndHandler(c)
    <3>1. /\ clients' = [clients EXCEPT ![c] = "registered"]
          /\ handler' = [handler EXCEPT ![c].pc = "snapshot"]
          /\ handler[c].pc = "read"
      BY <1>3, <2>3 DEF HandleRegister, Handle, Ready
    <3>2. /\ \A d \in Conns : d # c => handler'[d] = handler[d] /\ clients'[d] = clients[d]
          /\ clients'[c] = "registered"
          /\ handler'[c].pc = "snapshot" /\ handler'[c].cursor = 0
      BY <3>1 DEF ReplayInv, ReplaySafe, TypeOK, CursorStart
    <3>3. QED
      BY <2>1, <3>2, MoveStep
  <2>4. QED
    BY <2>2, <2>3
<1>4. CASE HandleTaskRequest(c, m)
  <2>1. told' = [d \in Conns |-> IF d \in Listeners(c) THEN told[d] \cup {m.id} ELSE told[d]]
    BY <1>4 DEF HandleTaskRequest
  <2>2. QED
    BY <1>1, <1>4, <2>1, RequestStep
<1>5. CASE HandleTaskClaim(c, m)
  <2>1. UNCHANGED <<pending, arrivals, told>>
    BY <1>5 DEF HandleTaskClaim
  <2>2. CASE UNCHANGED <<clients, handler>>
    BY <2>1, <2>2, QuietStep DEF ReplayInv, replayVars
  <2>3. CASE Reply(c, Error("already_claimed"))
    BY <1>2, <2>1, <2>3
  <2>4. QED
    BY <1>5, <2>2, <2>3 DEF HandleTaskClaim
<1>6. CASE HandleTaskResult(c, m)
  <2>1. UNCHANGED told
    BY <1>6 DEF HandleTaskResult
  <2>2. QED
    BY <1>1, <1>6, <2>1, ResultStep
<1>7. CASE HandleTelemetry(c, m) \/ HandleRelay(c, m)
  <2>1. UNCHANGED replayVars
    BY <1>7 DEF HandleTelemetry, HandleRelay, TelemetryTypes, RelayTypes, tables, replayVars
  <2>2. QED
    BY <2>1, QuietStep DEF ReplayInv
<1>8. CASE HandlePatch(c, m)
  <2>1. UNCHANGED <<pending, arrivals, told>>
    BY <1>8 DEF HandlePatch
  <2>2. CASE UNCHANGED <<clients, handler>>
    BY <2>1, <2>2, QuietStep DEF ReplayInv, replayVars
  <2>3. CASE \E message : Reply(c, message)
    BY <1>2, <2>1, <2>3
  <2>4. QED
    BY <1>8, <2>2, <2>3 DEF HandlePatch
<1>9. CASE HandleRejected(c, m)
  <2>1. UNCHANGED <<pending, arrivals, told>>
    BY <1>9 DEF HandleRejected, RejectedTypes
  <2>2. QED
    BY <1>2, <1>9, <2>1 DEF HandleRejected
<1>10. CASE HandleMalformed(c, m)
  <2>1. EndHandler(c) /\ UNCHANGED <<pending, arrivals, told>>
    BY <1>10 DEF HandleMalformed
  <2>2. QED
    BY <2>1, EndStep
<1>11. QED
  BY <1>3, <1>4, <1>5, <1>6, <1>7, <1>8, <1>9, <1>10 DEF Handle

(* The strengthened invariant holds of the coordinator.                    *)
THEOREM ReplayInvariant == Spec => []ReplayInv
<1>1. Init => ReplaySafe
  BY DEF Init, ServerInit, ReplaySafe, RanksDistinct, CursorStart, ReplayedTold,
         NoTaskMissed, RegisteredIsServed, PendingTasks
<1>2. TypeOK /\ ReplaySafe /\ [Next]_vars => ReplaySafe'
  <2> SUFFICES ASSUME ReplayInv, [Next]_vars PROVE ReplaySafe'
    BY DEF ReplayInv
  <2>1. ASSUME NEW c \in Conns, ConnectClient(c) PROVE ReplaySafe'
    <3>1. /\ UNCHANGED <<pending, arrivals, told>>
          /\ clients' = [clients EXCEPT ![c] = "unknown"]
          /\ \/ handler' = [handler EXCEPT ![c].pc = "read"]
             \/ handler' = [handler EXCEPT ![c].pc = "ended"]
          /\ handler[c].pc = "new"
      BY <2>1 DEF ConnectClient, Connect
    <3>2. /\ \A d \in Conns : d # c => handler'[d] = handler[d] /\ clients'[d] = clients[d]
          /\ clients'[c] = "unknown"
          /\ handler'[c].pc \in {"read", "ended"} /\ handler'[c].cursor = 0
      BY <3>1 DEF ReplayInv, ReplaySafe, TypeOK, CursorStart
    <3>3. QED
      BY <3>1, <3>2, MoveStep
  <2>2. ASSUME NEW c \in Conns, Exchange(c) PROVE ReplaySafe'
    BY <2>2, ExchangeStep
  <2>3. ASSUME NEW c \in Conns, Replay(c) PROVE ReplaySafe'
    BY <2>3, ReplayStep
  <2>4. ASSUME NEW c \in Conns, Deliver(c) \/ Break(c) \/ Consume(c) PROVE ReplaySafe'
    BY <2>4, QuietStep
       DEF ReplayInv, Deliver, StartSend, Break, Drop, Consume, Read, tables, replayVars
  <2>5. ASSUME NEW c \in Conns, Close(c) PROVE ReplaySafe'
    BY <2>5, EndStep DEF Close, Finish
  <2>6. CASE UNCHANGED vars
    BY <2>6, QuietStep DEF ReplayInv, vars, serverVars, tables, replayVars
  <2>7. QED
    BY <2>1, <2>2, <2>3, <2>4, <2>5, <2>6 DEF Next
<1>3. QED
  BY <1>1, <1>2, TypeCorrect, PTL DEF Spec, ReplayInv

(* No registered client misses a pending task, for any number of clients   *)
(* and tasks: the replay loop of client.register (45-50) against requests  *)
(* (52-56) and results (62-67) that other handlers process between its     *)
(* sends.                                                                  *)
THEOREM ReplayMissesNoTask == Spec => []NoTaskMissed
BY ReplayInvariant, PTL DEF ReplayInv, ReplaySafe

(* A registered client has a live handler (45-50, 196-224).                *)
THEOREM NoRegisteredGhost == Spec => []RegisteredIsServed
BY ReplayInvariant, PTL DEF ReplayInv, ReplaySafe

-----------------------------------------------------------------------------
(* Sequences that a server writes and a client reads: joining what is      *)
(* written and what is scheduled, in the ways the steps do it.             *)

(* A scheduled frame goes to the end of the stream, a started send does    *)
(* not move in it, and the client reads the first frame.                   *)
LEMMA JoinedAppend ==
  ASSUME NEW w, NEW q, NEW e, IsSequence(w), IsSequence(q)
  PROVE  w \o Append(q, e) = Append(w \o q, e)
<1> PICK S : e \in S /\ w \in Seq(S) /\ q \in Seq(S)
  BY CommonSet
<1>1. <<e>> \in Seq(S)
  OBVIOUS
<1>2. w \o q \in Seq(S)
  BY ConcatProperties
<1>3. QED
  BY <1>1, <1>2, AppendIsConcat, ConcatAssociative

LEMMA JoinedMove ==
  ASSUME NEW w, NEW q, IsSequence(w), IsSequence(q), q # <<>>
  PROVE  Append(w, Head(q)) \o Tail(q) = w \o q
<1> PICK S : w \in Seq(S) /\ q \in Seq(S)
  BY CommonSet
<1>1. Head(q) \in S /\ Tail(q) \in Seq(S) /\ <<Head(q)>> \in Seq(S)
  BY HeadTailProperties
<1>2. Append(w, Head(q)) \o Tail(q) = w \o (<<Head(q)>> \o Tail(q))
  BY <1>1, AppendIsConcat, ConcatAssociative
<1>3. <<Head(q)>> \o Tail(q) = q
  <2>1. <<Head(q)>> \o Tail(q) \in Seq(S)
    BY <1>1, ConcatProperties
  <2>2. /\ Len(<<Head(q)>>) = 1 /\ <<Head(q)>>[1] = Head(q)
        /\ Len(q) \in Nat \ {0} /\ Head(q) = q[1]
        /\ Len(Tail(q)) = Len(q) - 1
        /\ \A i \in 1..(Len(q) - 1) : Tail(q)[i] = q[i + 1]
    BY HeadTailProperties, EmptySeq, LenProperties
  <2>3. /\ Len(<<Head(q)>> \o Tail(q)) = Len(q)
        /\ \A i \in 1..Len(q) : (<<Head(q)>> \o Tail(q))[i] =
             IF i <= 1 THEN <<Head(q)>>[i] ELSE Tail(q)[i - 1]
    BY <1>1, <2>2, ConcatProperties
  <2>4. \A i \in 1..Len(q) : (<<Head(q)>> \o Tail(q))[i] = q[i]
    BY <2>2, <2>3
  <2>5. QED
    BY <2>1, <2>3, <2>4, SeqEqual
<1>4. QED
  BY <1>2, <1>3

LEMMA JoinedTail ==
  ASSUME NEW w, NEW q, IsSequence(w), IsSequence(q), w # <<>>
  PROVE  /\ Tail(w) \o q = Tail(w \o q)
         /\ w \o q # <<>>
         /\ (w \o q)[1] = Head(w)
<1> PICK S : w \in Seq(S) /\ q \in Seq(S)
  BY CommonSet
<1>1. IsSequence(Tail(w)) /\ IsSequence(w \o q)
  BY SequenceClosed
<1>2. Len(w) > 0 /\ Len(w) \in Nat /\ Len(q) \in Nat
  BY SequenceFacts
<1>3. Len(w \o q) = Len(w) + Len(q) /\ w \o q # <<>>
  BY <1>2, ConcatFacts, EmptySeq
<1>4. /\ Len(Tail(w)) = Len(w) - 1
      /\ \A i \in 1..(Len(w) - 1) : Tail(w)[i] = w[i + 1]
      /\ Head(w) = w[1]
  BY TailFacts
<1>5. /\ Len(Tail(w \o q)) = Len(w) + Len(q) - 1
      /\ \A i \in 1..(Len(w) + Len(q) - 1) : Tail(w \o q)[i] = (w \o q)[i + 1]
  BY <1>1, <1>3, TailFacts
<1>6. /\ Len(Tail(w) \o q) = Len(w) + Len(q) - 1
      /\ \A i \in 1..(Len(w) + Len(q) - 1) : (Tail(w) \o q)[i] =
           IF i <= Len(w) - 1 THEN Tail(w)[i] ELSE q[i - (Len(w) - 1)]
  BY <1>1, <1>2, <1>4, ConcatFacts
<1>7. \A i \in 1..(Len(w) + Len(q)) :
        (w \o q)[i] = IF i <= Len(w) THEN w[i] ELSE q[i - Len(w)]
  BY ConcatFacts
<1>8. \A i \in 1..(Len(w) + Len(q) - 1) : (Tail(w) \o q)[i] = Tail(w \o q)[i]
  <2> TAKE i \in 1..(Len(w) + Len(q) - 1)
  <2>1. i + 1 \in 1..(Len(w) + Len(q)) /\ i + 1 - Len(w) = i - (Len(w) - 1)
    BY <1>2
  <2>2. CASE i <= Len(w) - 1
    BY <1>2, <1>4, <1>5, <1>6, <1>7, <2>1, <2>2
  <2>3. CASE ~(i <= Len(w) - 1)
    BY <1>2, <1>5, <1>6, <1>7, <2>1, <2>3
  <2>4. QED
    BY <2>2, <2>3
<1>9. Tail(w) \o q \in Seq(S) /\ Tail(w \o q) \in Seq(S)
  BY <1>3, HeadTailProperties, ConcatProperties
<1>10. Tail(w) \o q = Tail(w \o q)
  BY <1>5, <1>6, <1>8, <1>9, SeqEqual
<1>11. (w \o q)[1] = Head(w)
  BY <1>2, <1>4, <1>7
<1>12. QED
  BY <1>3, <1>10, <1>11

(* A reply is written between what is written and what is scheduled.       *)
LEMMA JoinedInsert ==
  ASSUME NEW w, NEW q, NEW e, IsSequence(w), IsSequence(q)
  PROVE  LET s == w \o q
             r == Append(w, e) \o q
         IN  /\ Len(r) = Len(s) + 1
             /\ \A i \in 1..Len(w) : r[i] = s[i]
             /\ r[Len(w) + 1] = e
             /\ \A i \in (Len(w) + 2)..(Len(s) + 1) : r[i] = s[i - 1]
<1>1. IsSequence(Append(w, e))
  BY SequenceClosed
<1>2. Len(w) \in Nat /\ Len(q) \in Nat
  BY SequenceFacts
<1>3. /\ Len(Append(w, e)) = Len(w) + 1
      /\ \A i \in 1..Len(w) : Append(w, e)[i] = w[i]
      /\ Append(w, e)[Len(w) + 1] = e
  BY AppendFacts
<1>4. /\ Len(w \o q) = Len(w) + Len(q)
      /\ \A i \in 1..(Len(w) + Len(q)) :
           (w \o q)[i] = IF i <= Len(w) THEN w[i] ELSE q[i - Len(w)]
  BY ConcatFacts
<1>5. /\ Len(Append(w, e) \o q) = Len(w) + 1 + Len(q)
      /\ \A i \in 1..(Len(w) + 1 + Len(q)) : (Append(w, e) \o q)[i] =
           IF i <= Len(w) + 1 THEN Append(w, e)[i] ELSE q[i - (Len(w) + 1)]
  BY <1>1, <1>3, ConcatFacts
<1>6. \A i \in 1..Len(w) : (Append(w, e) \o q)[i] = (w \o q)[i]
  BY <1>2, <1>3, <1>4, <1>5
<1>7. (Append(w, e) \o q)[Len(w) + 1] = e
  BY <1>2, <1>3, <1>5
<1>8. \A i \in (Len(w) + 2)..(Len(w) + Len(q) + 1) :
        (Append(w, e) \o q)[i] = (w \o q)[i - 1]
  <2> TAKE i \in (Len(w) + 2)..(Len(w) + Len(q) + 1)
  <2>1. /\ i \in 1..(Len(w) + 1 + Len(q)) /\ ~(i <= Len(w) + 1)
        /\ i - 1 \in 1..(Len(w) + Len(q)) /\ ~(i - 1 <= Len(w))
        /\ i - 1 - Len(w) = i - (Len(w) + 1)
    BY <1>2
  <2>2. QED
    BY <1>4, <1>5, <2>1
<1>9. QED
  BY <1>4, <1>5, <1>6, <1>7, <1>8

(* r is s with one more element e, somewhere.                              *)
Inserted(s, r, e) ==
  \E n \in 0..Len(s) :
    /\ Len(r) = Len(s) + 1
    /\ \A i \in 1..n : r[i] = s[i]
    /\ r[n + 1] = e
    /\ \A i \in (n + 2)..(Len(s) + 1) : r[i] = s[i - 1]

LEMMA JoinedInserted ==
  ASSUME NEW w, NEW q, NEW e, IsSequence(w), IsSequence(q)
  PROVE  Inserted(w \o q, Append(w, e) \o q, e)
<1>1. Len(w) \in Nat /\ Len(q) \in Nat /\ Len(w \o q) = Len(w) + Len(q)
  BY SequenceFacts, ConcatFacts
<1>2. Len(w) \in 0..Len(w \o q)
  BY <1>1
<1>3. QED
  BY <1>2, JoinedInsert DEF Inserted

LEMMA AppendInserted ==
  ASSUME NEW s, NEW e, IsSequence(s)
  PROVE  Inserted(s, Append(s, e), e)
<1>1. Len(s) \in Nat /\ Len(s) \in 0..Len(s)
  BY SequenceFacts
<1>2. /\ Len(Append(s, e)) = Len(s) + 1
      /\ \A i \in 1..Len(s) : Append(s, e)[i] = s[i]
      /\ Append(s, e)[Len(s) + 1] = e
      /\ \A i \in (Len(s) + 2)..(Len(s) + 1) : Append(s, e)[i] = s[i - 1]
  BY <1>1, AppendFacts
<1>3. QED
  BY <1>1, <1>2 DEF Inserted

-----------------------------------------------------------------------------
(* Claims and results of a task in a sequence of frames.                   *)
ClaimOf(f, t) == f.message.type = "task.claim" /\ f.message.id = t
ResultOf(f, t) == f.message.type = "task.result" /\ f.message.id = t

(* Between two claims of a task there is a result.                         *)
Alternates(s, t) ==
  \A i, j \in 1..Len(s) :
    i < j /\ ClaimOf(s[i], t) /\ ClaimOf(s[j], t)
      => \E k \in 1..Len(s) : i < k /\ k < j /\ ResultOf(s[k], t)

(* A claim that no result follows is held; after a result that no claim    *)
(* follows, the task is free.                                              *)
Settled(s, t, holder) ==
  /\ \A i \in 1..Len(s) : ClaimOf(s[i], t) =>
       /\ s[i].message.client # NoOne
       /\ \/ s[i].message.client = holder
          \/ \E k \in 1..Len(s) : i < k /\ ResultOf(s[k], t)
  /\ \A i \in 1..Len(s) : ResultOf(s[i], t) =>
       \/ holder = NoOne
       \/ \E k \in 1..Len(s) : i < k /\ ClaimOf(s[k], t)

LEMMA EmptyStream ==
  ASSUME NEW t, NEW holder
  PROVE  Alternates(<<>>, t) /\ Settled(<<>>, t, holder)
BY EmptySeq DEF Alternates, Settled

(* A frame that is neither, wherever it is written, changes nothing.       *)
LEMMA OtherInserted ==
  ASSUME NEW s, NEW r, NEW e, NEW t, NEW holder, Len(s) \in Nat,
         Inserted(s, r, e), ~ClaimOf(e, t), ~ResultOf(e, t)
  PROVE  /\ Alternates(s, t) => Alternates(r, t)
         /\ Settled(s, t, holder) => Settled(r, t, holder)
<1> PICK n \in 0..Len(s) :
      /\ Len(r) = Len(s) + 1
      /\ \A i \in 1..n : r[i] = s[i]
      /\ r[n + 1] = e
      /\ \A i \in (n + 2)..(Len(s) + 1) : r[i] = s[i - 1]
  BY DEF Inserted
<1> DEFINE Old(i) == IF i <= n THEN i ELSE i - 1
           New(i) == IF i <= n THEN i ELSE i + 1
<1>1. \A i \in 1..Len(r) : i # n + 1 => Old(i) \in 1..Len(s) /\ r[i] = s[Old(i)]
  OBVIOUS
<1>2. \A i \in 1..Len(s) : New(i) \in 1..Len(r) /\ r[New(i)] = s[i] /\ New(i) # n + 1
  OBVIOUS
<1>3. \A i, j \in 1..Len(r) : i # n + 1 /\ j # n + 1 /\ i < j => Old(i) < Old(j)
  OBVIOUS
<1>4. \A i \in 1..Len(r), k \in 1..Len(s) :
        i # n + 1 => (Old(i) < k => i < New(k)) /\ (k < Old(i) => New(k) < i)
  OBVIOUS
<1>5. \A i \in 1..Len(r) : ClaimOf(r[i], t) \/ ResultOf(r[i], t) => i # n + 1
  OBVIOUS
<1> HIDE DEF Old, New
<1>6. ASSUME Alternates(s, t) PROVE Alternates(r, t)
  <2> SUFFICES ASSUME NEW i \in 1..Len(r), NEW j \in 1..Len(r), i < j,
                      ClaimOf(r[i], t), ClaimOf(r[j], t)
               PROVE  \E k \in 1..Len(r) : i < k /\ k < j /\ ResultOf(r[k], t)
    BY DEF Alternates
  <2>1. /\ Old(i) \in 1..Len(s) /\ Old(j) \in 1..Len(s) /\ Old(i) < Old(j)
        /\ r[i] = s[Old(i)] /\ r[j] = s[Old(j)]
    BY <1>1, <1>3, <1>5
  <2>2. PICK k \in 1..Len(s) : Old(i) < k /\ k < Old(j) /\ ResultOf(s[k], t)
    BY <1>6, <2>1 DEF Alternates
  <2>3. New(k) \in 1..Len(r) /\ i < New(k) /\ New(k) < j /\ ResultOf(r[New(k)], t)
    BY <1>2, <1>4, <1>5, <2>2
  <2>4. QED
    BY <2>3
<1>7. ASSUME Settled(s, t, holder) PROVE Settled(r, t, holder)
  <2>1. ASSUME NEW i \in 1..Len(r), ClaimOf(r[i], t)
        PROVE  /\ r[i].message.client # NoOne
               /\ \/ r[i].message.client = holder
                  \/ \E k \in 1..Len(r) : i < k /\ ResultOf(r[k], t)
    <3>1. Old(i) \in 1..Len(s) /\ r[i] = s[Old(i)] /\ i # n + 1
      BY <1>1, <1>5, <2>1
    <3>2. /\ r[i].message.client # NoOne
          /\ \/ r[i].message.client = holder
             \/ \E k \in 1..Len(s) : Old(i) < k /\ ResultOf(s[k], t)
      BY <1>7, <2>1, <3>1 DEF Settled
    <3>3. QED
      BY <1>2, <1>4, <3>1, <3>2
  <2>2. ASSUME NEW i \in 1..Len(r), ResultOf(r[i], t)
        PROVE  \/ holder = NoOne
               \/ \E k \in 1..Len(r) : i < k /\ ClaimOf(r[k], t)
    <3>1. Old(i) \in 1..Len(s) /\ r[i] = s[Old(i)] /\ i # n + 1
      BY <1>1, <1>5, <2>2
    <3>2. holder = NoOne \/ \E k \in 1..Len(s) : Old(i) < k /\ ClaimOf(s[k], t)
      BY <1>7, <2>2, <3>1 DEF Settled
    <3>3. QED
      BY <1>2, <1>4, <3>1, <3>2
  <2>3. QED
    BY <2>1, <2>2 DEF Settled
<1>8. QED
  BY <1>6, <1>7

(* A claim of a free task, and a result.                                   *)
LEMMA EventAppended ==
  ASSUME NEW s, NEW e, NEW t, NEW holder, NEW after, IsSequence(s),
         Alternates(s, t), Settled(s, t, holder),
         \/ ClaimOf(e, t) /\ holder = NoOne /\ after = e.message.client /\ after # NoOne
         \/ ResultOf(e, t) /\ after = NoOne
  PROVE  Alternates(Append(s, e), t) /\ Settled(Append(s, e), t, after)
<1> DEFINE r == Append(s, e)
           n == Len(s) + 1
<1>1. /\ Len(s) \in Nat /\ Len(r) = n /\ n \in 1..Len(r)
      /\ \A i \in 1..Len(s) : i \in 1..Len(r) /\ i < n /\ r[i] = s[i]
      /\ \A i \in 1..Len(r) : i = n \/ i \in 1..Len(s)
      /\ r[n] = e
  BY SequenceFacts, AppendFacts
<1> HIDE DEF r, n
<1>2. ~(ClaimOf(e, t) /\ ResultOf(e, t))
  BY DEF ClaimOf, ResultOf
<1>3. \A i \in 1..Len(s) : ClaimOf(r[i], t) =>
        \/ ResultOf(r[n], t)
        \/ \E k \in 1..Len(s) : i < k /\ ResultOf(r[k], t)
  BY <1>1 DEF Settled
<1>4. Alternates(r, t)
  <2> SUFFICES ASSUME NEW i \in 1..Len(r), NEW j \in 1..Len(r), i < j,
                      ClaimOf(r[i], t), ClaimOf(r[j], t)
               PROVE  \E k \in 1..Len(r) : i < k /\ k < j /\ ResultOf(r[k], t)
    BY DEF Alternates
  <2>1. i \in 1..Len(s)
    BY <1>1
  <2>2. CASE j = n
    BY <1>1, <1>2, <1>3, <2>1, <2>2
  <2>3. CASE j \in 1..Len(s)
    BY <1>1, <2>1, <2>3 DEF Alternates
  <2>4. QED
    BY <1>1, <2>2, <2>3
<1>5. Settled(r, t, after)
  <2>1. ASSUME NEW i \in 1..Len(r), ClaimOf(r[i], t)
        PROVE  /\ r[i].message.client # NoOne
               /\ \/ r[i].message.client = after
                  \/ \E k \in 1..Len(r) : i < k /\ ResultOf(r[k], t)
    <3>1. CASE i = n
      BY <1>1, <1>2, <2>1, <3>1
    <3>2. CASE i \in 1..Len(s)
      <4>1. r[i].message.client # NoOne
        BY <1>1, <2>1, <3>2 DEF Settled
      <4>2. QED
        BY <1>1, <1>3, <2>1, <3>2, <4>1
    <3>3. QED
      BY <1>1, <3>1, <3>2
  <2>2. ASSUME NEW i \in 1..Len(r), ResultOf(r[i], t)
        PROVE  \/ after = NoOne
               \/ \E k \in 1..Len(r) : i < k /\ ClaimOf(r[k], t)
    BY <1>1, <1>2, <2>2
  <2>3. QED
    BY <2>1, <2>2 DEF Settled
<1>6. QED
  BY <1>4, <1>5 DEF r

(* What is read is gone from the front.                                    *)
LEMMA FirstRead ==
  ASSUME NEW s, NEW t, NEW holder, IsSequence(s), s # <<>>
  PROVE  /\ Alternates(s, t) => Alternates(Tail(s), t)
         /\ Settled(s, t, holder) => Settled(Tail(s), t, holder)
<1> DEFINE r == Tail(s)
<1>1. /\ Len(s) \in Nat /\ Len(r) = Len(s) - 1
      /\ \A i \in 1..Len(r) : i + 1 \in 1..Len(s) /\ r[i] = s[i + 1]
      /\ \A i \in 1..Len(r), k \in 1..Len(s) :
           i + 1 < k => k - 1 \in 1..Len(r) /\ r[k - 1] = s[k]
  BY SequenceFacts, TailFacts
<1> HIDE DEF r
<1>2. ASSUME Alternates(s, t) PROVE Alternates(r, t)
  <2> SUFFICES ASSUME NEW i \in 1..Len(r), NEW j \in 1..Len(r), i < j,
                      ClaimOf(r[i], t), ClaimOf(r[j], t)
               PROVE  \E k \in 1..Len(r) : i < k /\ k < j /\ ResultOf(r[k], t)
    BY DEF Alternates
  <2>1. i + 1 \in 1..Len(s) /\ j + 1 \in 1..Len(s) /\ i + 1 < j + 1
    BY <1>1
  <2>2. PICK k \in 1..Len(s) : i + 1 < k /\ k < j + 1 /\ ResultOf(s[k], t)
    BY <1>1, <1>2, <2>1 DEF Alternates
  <2>3. k - 1 \in 1..Len(r) /\ i < k - 1 /\ k - 1 < j /\ ResultOf(r[k - 1], t)
    BY <1>1, <2>2
  <2>4. QED
    BY <2>3
<1>3. ASSUME Settled(s, t, holder) PROVE Settled(r, t, holder)
  <2>1. ASSUME NEW i \in 1..Len(r), ClaimOf(r[i], t)
        PROVE  /\ r[i].message.client # NoOne
               /\ \/ r[i].message.client = holder
                  \/ \E k \in 1..Len(r) : i < k /\ ResultOf(r[k], t)
    <3>1. /\ r[i].message.client # NoOne
          /\ \/ r[i].message.client = holder
             \/ \E k \in 1..Len(s) : i + 1 < k /\ ResultOf(s[k], t)
      BY <1>1, <1>3, <2>1 DEF Settled
    <3>2. \A k \in 1..Len(s) : i + 1 < k => i < k - 1
      BY <1>1
    <3>3. QED
      BY <1>1, <3>1, <3>2
  <2>2. ASSUME NEW i \in 1..Len(r), ResultOf(r[i], t)
        PROVE  \/ holder = NoOne
               \/ \E k \in 1..Len(r) : i < k /\ ClaimOf(r[k], t)
    <3>1. holder = NoOne \/ \E k \in 1..Len(s) : i + 1 < k /\ ClaimOf(s[k], t)
      BY <1>1, <1>3, <2>2 DEF Settled
    <3>2. \A k \in 1..Len(s) : i + 1 < k => i < k - 1
      BY <1>1
    <3>3. QED
      BY <1>1, <3>1, <3>2
  <2>3. QED
    BY <2>1, <2>2 DEF Settled
<1>4. QED
  BY <1>2, <1>3 DEF r

(* What is written when a connection closes is a prefix.                   *)
LEMMA PrefixLeft ==
  ASSUME NEW w, NEW q, NEW t, IsSequence(w), IsSequence(q), Alternates(w \o q, t)
  PROVE  Alternates(w, t)
<1>1. /\ Len(w) \in Nat /\ Len(w \o q) \in Nat
      /\ \A i \in 1..Len(w) : i \in 1..Len(w \o q) /\ (w \o q)[i] = w[i]
      /\ \A k \in 1..Len(w \o q), j \in 1..Len(w) : k < j => k \in 1..Len(w)
  BY SequenceFacts, ConcatFacts
<1>2. QED
  BY <1>1 DEF Alternates

-----------------------------------------------------------------------------
(* What the links of a connection are like: a closed connection of a       *)
(* client that is still in the table holds no frame, an open one belongs   *)
(* to a client in the table, and before the handler there is nothing.      *)
Linked(c) ==
  /\ IsSequence(wire[c]) /\ IsSequence(scheduled[c])
  /\ clients[c] # "absent" /\ ~up[c] => wire[c] = <<>>
  /\ up[c] => clients[c] # "absent"
  /\ handler[c].pc = "new" =>
       ~up[c] /\ clients[c] = "absent" /\ wire[c] = <<>> /\ scheduled[c] = <<>>

Links == \A c \in Conns : Linked(c)

(* The types the proofs about streams need, and no more.                   *)
Maps ==
  /\ DOMAIN clients = Conns
  /\ DOMAIN handler = Conns /\ \A c \in Conns : DOMAIN handler[c] = {"pc", "size", "cursor"}
  /\ DOMAIN up = Conns
  /\ DOMAIN scheduled = Conns /\ DOMAIN wire = Conns
  /\ up \in [Conns -> BOOLEAN]
  /\ claimed \in [Tasks -> ClientIds \cup {NoOne}]
  /\ todo \in [Conns -> SUBSET Message]

LEMMA TypeMaps == TypeOK => Maps
BY DEF TypeOK, Maps

LEMMA Streams ==
  ASSUME Links, NEW c \in Conns
  PROVE  IsSequence(Stream(c))
BY SequenceClosed DEF Links, Linked, Stream

(* A broadcast is scheduled at the end of the stream of every client that  *)
(* is connected, but the excluded ones.                                    *)
LEMMA BroadcastStream ==
  ASSUME Maps, Links, NEW c \in Conns, NEW message, NEW excluded,
         Broadcast(c, message, excluded), UNCHANGED <<clients, handler, up, wire>>
  PROVE  /\ Links'
         /\ \A d \in Conns :
              Stream(d)' = IF up[d] /\ d \notin excluded
                           THEN Append(Stream(d), [message |-> message, by |-> c])
                           ELSE Stream(d)
<1> DEFINE f == [message |-> message, by |-> c]
<1>1. \A d \in Conns :
        scheduled'[d] = IF clients[d] # "absent" /\ d \notin excluded
                        THEN Append(scheduled[d], f) ELSE scheduled[d]
  BY DEF Broadcast
<1> HIDE DEF f
<1>2. Links'
  <2> SUFFICES ASSUME NEW d \in Conns PROVE Linked(d)'
    BY DEF Links
  <2>1. Linked(d)
    BY DEF Links
  <2>2. IsSequence(scheduled'[d])
    BY <1>1, <2>1, SequenceClosed DEF Linked
  <2>3. handler[d].pc = "new" => scheduled'[d] = <<>>
    BY <1>1, <2>1 DEF Linked
  <2>4. QED
    BY <2>1, <2>2, <2>3 DEF Linked
<1>3. ASSUME NEW d \in Conns
      PROVE  Stream(d)' = IF up[d] /\ d \notin excluded
                          THEN Append(Stream(d), f) ELSE Stream(d)
  <2>1. Linked(d)
    BY DEF Links
  <2>2. CASE up[d] /\ d \notin excluded
    <3>1. scheduled'[d] = Append(scheduled[d], f)
      BY <1>1, <2>1, <2>2 DEF Linked
    <3>2. IsSequence(wire[d]) /\ IsSequence(scheduled[d])
      BY <2>1 DEF Linked
    <3>3. wire[d] \o Append(scheduled[d], f) = Append(wire[d] \o scheduled[d], f)
      <4> DEFINE w == wire[d]
                 q == scheduled[d]
      <4>1. IsSequence(w) /\ IsSequence(q)
        BY <3>2
      <4> HIDE DEF w, q
      <4>2. w \o Append(q, f) = Append(w \o q, f)
        BY <4>1, JoinedAppend
      <4>3. QED
        BY <4>2 DEF w, q
    <3>4. QED
      BY <2>2, <3>1, <3>3 DEF Stream
  <2>3. CASE ~(up[d] /\ d \notin excluded)
    BY <1>1, <2>3 DEF Stream
  <2>4. QED
    BY <2>2, <2>3
<1>4. QED
  BY <1>2, <1>3 DEF f

(* A frame that a handler writes to its own client overtakes what is       *)
(* scheduled.                                                              *)
LEMMA WriteStream ==
  ASSUME Maps, Links, NEW c \in Conns, NEW message,
         up[c], wire' = Written(c, message), UNCHANGED <<up, scheduled>>,
         \A d \in Conns : d # c => clients'[d] = clients[d] /\ handler'[d] = handler[d],
         clients'[c] # "absent", handler'[c].pc # "new"
  PROVE  /\ Links'
         /\ Inserted(Stream(c), Stream(c)', [message |-> message, by |-> c])
         /\ \A d \in Conns : d # c => Stream(d)' = Stream(d)
<1> DEFINE f == [message |-> message, by |-> c]
<1>1. wire'[c] = Append(wire[c], f) /\ \A d \in Conns : d # c => wire'[d] = wire[d]
  BY DEF Written, Maps
<1> HIDE DEF f
<1>2. Linked(c)
  BY DEF Links
<1>3. Links'
  <2> SUFFICES ASSUME NEW d \in Conns PROVE Linked(d)'
    BY DEF Links
  <2>1. CASE d = c
    <3>1. IsSequence(wire'[c])
      BY <1>1, <1>2, SequenceClosed DEF Linked
    <3>2. QED
      BY <1>2, <2>1, <3>1 DEF Linked
  <2>2. CASE d # c
    BY <1>1, <2>2 DEF Links, Linked
  <2>3. QED
    BY <2>1, <2>2
<1>4. Inserted(wire[c] \o scheduled[c], Append(wire[c], f) \o scheduled[c], f)
  BY <1>2, JoinedInserted DEF Linked
<1>5. Inserted(Stream(c), Stream(c)', f)
  BY <1>1, <1>4 DEF Stream
<1>6. \A d \in Conns : d # c => Stream(d)' = Stream(d)
  BY <1>1 DEF Stream
<1>7. QED
  BY <1>3, <1>5, <1>6 DEF f

(* When a handler ends, what is scheduled to its client is lost.           *)
LEMMA EndStream ==
  ASSUME Maps, Links, NEW c \in Conns, EndHandler(c), UNCHANGED <<wire, scheduled>>
  PROVE  /\ Links'
         /\ Stream(c)' = wire[c]
         /\ \A d \in Conns : d # c => Stream(d)' = Stream(d)
<1>1. /\ clients'[c] = "absent" /\ up'[c] = FALSE
      /\ \A d \in Conns : d # c =>
           clients'[d] = clients[d] /\ up'[d] = up[d] /\ handler'[d] = handler[d]
  BY DEF EndHandler, Maps
<1>2. handler'[c].pc # "new"
  BY DEF EndHandler, Maps
<1>3. \A d \in Conns : Linked(d)'
  BY <1>1, <1>2 DEF Links, Linked
<1>4. QED
  BY <1>1, <1>3 DEF Links, Stream

(* A step that touches no link.                                            *)
LEMMA IdleStream ==
  ASSUME Links, UNCHANGED <<clients, up, scheduled, wire>>,
         \A d \in Conns : handler'[d].pc = "new" => handler[d].pc = "new"
  PROVE  Links' /\ \A d \in Conns : Stream(d)' = Stream(d)
BY DEF Links, Linked, Stream

LEMMA ConnectStream ==
  ASSUME Maps, Links, NEW c \in Conns, Connect(c)
  PROVE  /\ Links'
         /\ Stream(c) = <<>> /\ ~up[c]
         /\ \/ up'[c] /\ Inserted(<<>>, Stream(c)', [message |-> Hello, by |-> c])
            \/ ~up'[c] /\ Stream(c)' = <<>>
         /\ \A d \in Conns : d # c => Stream(d)' = Stream(d) /\ up'[d] = up[d]
<1> DEFINE f == [message |-> Hello, by |-> c]
<1>1. ~up[c] /\ wire[c] = <<>> /\ scheduled[c] = <<>> /\ Stream(c) = <<>>
  BY DEF Connect, Links, Linked, Stream
<1>2. /\ clients'[c] = "unknown" /\ UNCHANGED scheduled
      /\ handler'[c].pc \in {"read", "ended"}
      /\ \A d \in Conns : d # c => clients'[d] = clients[d] /\ handler'[d] = handler[d]
  BY DEF Connect, Maps
<1>3. \A d \in Conns : d # c => wire'[d] = wire[d] /\ up'[d] = up[d]
  BY DEF Connect, Maps, Written
<1>4. \/ up'[c] /\ wire'[c] = Append(<<>>, f)
      \/ ~up'[c] /\ wire'[c] = <<>>
  BY <1>1 DEF Connect, Maps, Written
<1> HIDE DEF f
<1>5. IsSequence(wire'[c]) /\ IsSequence(scheduled[c])
  BY <1>1, <1>4, SequenceClosed DEF Links, Linked
<1>6. \A d \in Conns : Linked(d)'
  <2> SUFFICES ASSUME NEW d \in Conns PROVE Linked(d)'
    OBVIOUS
  <2>1. CASE d = c
    BY <1>2, <1>4, <1>5, <2>1 DEF Linked
  <2>2. CASE d # c
    BY <1>2, <1>3, <2>2 DEF Links, Linked
  <2>3. QED
    BY <2>1, <2>2
<1>7. CASE up'[c] /\ wire'[c] = Append(<<>>, f)
  <2>1. IsSequence(<<>>)
    BY <1>1 DEF Links, Linked
  <2>2. <<>> \o <<>> = <<>>
    BY <2>1, ConcatEmptySeq DEF IsSequence
  <2>3. Inserted(<<>>, Append(<<>>, f) \o <<>>, f)
    BY <2>1, <2>2, JoinedInserted
  <2>4. Stream(c)' = Append(<<>>, f) \o <<>>
    BY <1>1, <1>2, <1>7 DEF Stream
  <2>5. QED
    BY <1>1, <1>3, <1>6, <1>7, <1>2, <2>3, <2>4 DEF Links, Stream, f
<1>8. CASE ~up'[c] /\ wire'[c] = <<>>
  BY <1>1, <1>2, <1>3, <1>6, <1>8 DEF Links, Stream
<1>9. QED
  BY <1>4, <1>7, <1>8

(* A scheduled send that starts moves nothing in the stream.               *)
LEMMA DeliverStream ==
  ASSUME Maps, Links, NEW c \in Conns, StartSend(c)
  PROVE  Links' /\ \A d \in Conns : Stream(d)' = Stream(d)
<1>1. /\ scheduled[c] # <<>> /\ UNCHANGED <<clients, handler, up>>
      /\ scheduled'[c] = Tail(scheduled[c])
      /\ wire'[c] = IF up[c] THEN Append(wire[c], Head(scheduled[c])) ELSE wire[c]
      /\ \A d \in Conns : d # c => wire'[d] = wire[d] /\ scheduled'[d] = scheduled[d]
  BY DEF StartSend, Maps, tables
<1>2. Linked(c)
  BY DEF Links
<1>3. IsSequence(wire'[c]) /\ IsSequence(scheduled'[c])
  BY <1>1, <1>2, SequenceClosed DEF Linked
<1>4. \A d \in Conns : Linked(d)'
  <2> SUFFICES ASSUME NEW d \in Conns PROVE Linked(d)'
    OBVIOUS
  <2>1. CASE d = c
    BY <1>1, <1>2, <1>3, <2>1 DEF Linked
  <2>2. CASE d # c
    BY <1>1, <2>2 DEF Links, Linked
  <2>3. QED
    BY <2>1, <2>2
<1>5. Append(wire[c], Head(scheduled[c])) \o Tail(scheduled[c]) = wire[c] \o scheduled[c]
  BY <1>1, <1>2, JoinedMove DEF Linked
<1>6. \A d \in Conns : Stream(d)' = Stream(d)
  BY <1>1, <1>5 DEF Stream
<1>7. QED
  BY <1>4, <1>6 DEF Links

LEMMA DropStream ==
  ASSUME Maps, Links, NEW c \in Conns, Drop(c)
  PROVE  /\ Links' /\ ~up'[c]
         /\ Stream(c)' = <<>>
         /\ \A d \in Conns : d # c => Stream(d)' = Stream(d) /\ up'[d] = up[d]
<1>1. /\ UNCHANGED <<clients, handler, scheduled>> /\ ~up'[c] /\ wire'[c] = <<>>
      /\ \A d \in Conns : d # c => wire'[d] = wire[d] /\ up'[d] = up[d]
      /\ up[c]
  BY DEF Drop, Maps, tables
<1>2. IsSequence(<<>>) /\ handler[c].pc # "new"
  BY <1>1, EmptySeq, SequenceOver DEF Links, Linked
<1>3. \A d \in Conns : Linked(d)'
  <2> SUFFICES ASSUME NEW d \in Conns PROVE Linked(d)'
    OBVIOUS
  <2>1. CASE d = c
    BY <1>1, <1>2, <2>1 DEF Links, Linked
  <2>2. CASE d # c
    BY <1>1, <2>2 DEF Links, Linked
  <2>3. QED
    BY <2>1, <2>2
<1>4. QED
  BY <1>1, <1>3 DEF Links, Stream

(* The client reads the first frame of its stream.                         *)
LEMMA ReadStream ==
  ASSUME Maps, Links, NEW c \in Conns, Read(c)
  PROVE  /\ Links' /\ UNCHANGED up
         /\ Stream(c) # <<>> /\ Stream(c)[1] = Head(wire[c])
         /\ Stream(c)' = Tail(Stream(c))
         /\ \A d \in Conns : d # c => Stream(d)' = Stream(d)
<1>1. /\ UNCHANGED <<clients, handler, scheduled, up>>
      /\ wire[c] # <<>> /\ wire'[c] = Tail(wire[c])
      /\ \A d \in Conns : d # c => wire'[d] = wire[d]
  BY DEF Read, Maps, tables
<1>2. Linked(c)
  BY DEF Links
<1>3. IsSequence(Tail(wire[c])) /\ handler[c].pc # "new"
  BY <1>1, <1>2, SequenceClosed DEF Linked
<1>4. \A d \in Conns : Linked(d)'
  <2> SUFFICES ASSUME NEW d \in Conns PROVE Linked(d)'
    OBVIOUS
  <2>1. CASE d = c
    BY <1>1, <1>2, <1>3, <2>1 DEF Linked
  <2>2. CASE d # c
    BY <1>1, <2>2 DEF Links, Linked
  <2>3. QED
    BY <2>1, <2>2
<1>5. CASE up[c]
  <2>1. /\ Tail(wire[c]) \o scheduled[c] = Tail(wire[c] \o scheduled[c])
        /\ wire[c] \o scheduled[c] # <<>>
        /\ (wire[c] \o scheduled[c])[1] = Head(wire[c])
    BY <1>1, <1>2, JoinedTail DEF Linked
  <2>2. QED
    BY <1>1, <1>4, <1>5, <2>1 DEF Links, Stream
<1>6. CASE ~up[c]
  <2>1. Head(wire[c]) = wire[c][1]
    BY <1>1, <1>2, TailFacts DEF Linked
  <2>2. QED
    BY <1>1, <1>4, <1>6, <2>1 DEF Links, Stream
<1>7. QED
  BY <1>5, <1>6

-----------------------------------------------------------------------------
(* What a step of a handler does to the links.                             *)
Moves(c) ==
  \A d \in Conns : d # c => clients'[d] = clients[d] /\ handler'[d] = handler[d]

Announces(c, message) ==
  Broadcast(c, message, {}) /\ UNCHANGED <<clients, handler, up, wire>>

Relays(c, message) ==
  /\ ~IsAnnouncement(message)
  /\ \E excluded : Broadcast(c, message, excluded)
  /\ UNCHANGED <<clients, handler, up, wire>>

Answers(c) ==
  /\ up[c]
  /\ \E message : ~IsAnnouncement(message) /\ wire' = Written(c, message)
  /\ UNCHANGED <<up, scheduled>>
  /\ Moves(c)
  /\ clients'[c] # "absent" /\ handler'[c].pc # "new"

Ends(c) == EndHandler(c) /\ UNCHANGED <<wire, scheduled>>

LEMMA ReplyEffect ==
  ASSUME Maps, Links, NEW c \in Conns, NEW message, Reply(c, message),
         ~IsAnnouncement(message), UNCHANGED scheduled, handler[c].pc # "new"
  PROVE  Answers(c) \/ Ends(c)
<1>1. CASE up[c] /\ wire' = Written(c, message) /\ UNCHANGED <<clients, handler, up>>
  BY <1>1 DEF Answers, Moves, Links, Linked
<1>2. CASE EndHandler(c) /\ UNCHANGED wire
  BY <1>2 DEF Ends
<1>3. QED
  BY <1>1, <1>2 DEF Reply

(* The effect of handling a message: it announces what Announcing says, or *)
(* it relays, answers or ends and leaves the claims alone.                 *)
LEMMA HandleEffect ==
  ASSUME Maps, Links, NEW c \in Conns, NEW m \in Message, Handle(c, m)
  PROVE  \/ /\ m.type = "task.claim" /\ claimed[m.id] = NoOne
            /\ claimed' = [claimed EXCEPT ![m.id] = m.client]
            /\ Announces(c, m)
         \/ /\ m.type = "task.result"
            /\ claimed' = [claimed EXCEPT ![m.id] = NoOne]
            /\ Announces(c, m)
         \/ /\ m.type = "state.patch" /\ Accept(m.change)
            /\ UNCHANGED claimed
            /\ Announces(c, Accepted(m.change, ChangedResource(m.change)))
         \/ /\ ~Announcing(m)
            /\ UNCHANGED claimed
            /\ Relays(c, m) \/ Answers(c) \/ Ends(c)
<1>1. handler[c].pc # "new"
  BY DEF Handle, Ready
<1>2. \A code : ~IsAnnouncement(Error(code))
  BY DEF IsAnnouncement, AnnouncedTypes, Error
<1>3. CASE HandleRegister(c, m)
  <2>1. ~Announcing(m) /\ UNCHANGED <<claimed, scheduled>>
    BY <1>3 DEF HandleRegister, Announcing
  <2>2. CASE /\ up[c] /\ clients' = [clients EXCEPT ![c] = "registered"]
             /\ handler' = [handler EXCEPT ![c].pc = "snapshot"]
             /\ wire' = Written(c, Snapshot) /\ UNCHANGED up
    <3>1. ~IsAnnouncement(Snapshot)
      BY DEF IsAnnouncement, AnnouncedTypes, Snapshot
    <3>2. Moves(c) /\ clients'[c] = "registered" /\ handler'[c].pc = "snapshot"
      BY <2>2 DEF Maps, Moves
    <3>3. Answers(c)
      BY <2>1, <2>2, <3>1, <3>2 DEF Answers
    <3>4. QED
      BY <2>1, <3>3
  <2>3. CASE EndHandler(c) /\ UNCHANGED wire
    BY <2>1, <2>3 DEF Ends
  <2>4. QED
    BY <1>3, <2>2, <2>3 DEF HandleRegister
<1>4. CASE HandleTaskRequest(c, m)
  BY <1>4 DEF HandleTaskRequest, Relays, IsAnnouncement, AnnouncedTypes, Announcing
<1>5. CASE HandleTaskClaim(c, m)
  <2>1. CASE claimed[m.id] # NoOne
    <3>1. /\ ~Announcing(m) /\ UNCHANGED <<claimed, scheduled>>
          /\ Reply(c, Error("already_claimed"))
      BY <1>5, <2>1 DEF HandleTaskClaim, Announcing
    <3>2. QED
      BY <1>1, <1>2, <3>1, ReplyEffect
  <2>2. CASE claimed[m.id] = NoOne
    BY <1>5, <2>2 DEF HandleTaskClaim, Announces
  <2>3. QED
    BY <2>1, <2>2
<1>6. CASE HandleTaskResult(c, m)
  BY <1>6 DEF HandleTaskResult, Announces
<1>7. CASE HandleTelemetry(c, m) \/ HandleRelay(c, m)
  BY <1>7 DEF HandleTelemetry, HandleRelay, TelemetryTypes, RelayTypes, tables,
              Relays, IsAnnouncement, AnnouncedTypes, Announcing
<1>8. CASE HandlePatch(c, m)
  <2>1. m.type = "state.patch" /\ UNCHANGED claimed
    BY <1>8 DEF HandlePatch
  <2>2. CASE /\ Accept(m.change)
             /\ Broadcast(c, Accepted(m.change, ChangedResource(m.change)), {})
             /\ UNCHANGED <<clients, handler, up, wire>>
    BY <2>1, <2>2 DEF Announces
  <2>3. CASE /\ Conflict(m.change) /\ Reply(c, ConflictReply(m.change))
             /\ UNCHANGED scheduled
    <3>1. ~Announcing(m)
      BY <2>1, <2>3 DEF Announcing, Conflict
    <3>2. ~IsAnnouncement(ConflictReply(m.change))
      BY DEF IsAnnouncement, AnnouncedTypes, ConflictReply
    <3>3. Answers(c) \/ Ends(c)
      BY <1>1, <2>3, <3>2, ReplyEffect
    <3>4. QED
      BY <2>1, <3>1, <3>3
  <2>4. CASE Refuse(m.change) /\ Reply(c, Error("invalid_patch")) /\ UNCHANGED scheduled
    <3>1. ~Announcing(m)
      BY <2>1, <2>4 DEF Announcing, Refuse
    <3>2. Answers(c) \/ Ends(c)
      BY <1>1, <1>2, <2>4, ReplyEffect
    <3>3. QED
      BY <2>1, <3>1, <3>2
  <2>5. QED
    BY <1>8, <2>2, <2>3, <2>4 DEF HandlePatch
<1>9. CASE HandleRejected(c, m)
  <2>1. ~Announcing(m) /\ UNCHANGED <<claimed, scheduled>> /\ Reply(c, Error(m.type))
    BY <1>9 DEF HandleRejected, RejectedTypes, Announcing
  <2>2. QED
    BY <1>1, <1>2, <2>1, ReplyEffect
<1>10. CASE HandleMalformed(c, m)
  BY <1>10 DEF HandleMalformed, Ends, Announcing
<1>11. QED
  BY <1>3, <1>4, <1>5, <1>6, <1>7, <1>8, <1>9, <1>10 DEF Handle

(* The replay only writes requests, which announce nothing.                *)
LEMMA ReplayEffect ==
  ASSUME Maps, Links, NEW c \in Conns, ReplayTask(c)
  PROVE  /\ UNCHANGED claimed
         /\ \/ Answers(c)
            \/ Ends(c)
            \/ UNCHANGED <<clients, up, scheduled, wire>> /\ Moves(c) /\ handler'[c].pc = "read"
<1>1. UNCHANGED <<claimed, scheduled>> /\ handler[c].pc \in {"snapshot", "replay"}
  BY DEF ReplayTask
<1>2. CASE EndHandler(c) /\ UNCHANGED wire
  BY <1>1, <1>2 DEF Ends
<1>3. CASE /\ handler' = [handler EXCEPT ![c] = [pc |-> "read", size |-> 0, cursor |-> 0]]
           /\ UNCHANGED <<clients, up, wire>>
  BY <1>1, <1>3 DEF Maps, Moves
<1>4. CASE /\ up[c] /\ UNCHANGED <<clients, up>>
           /\ \E t : wire' = Written(c, TaskRequest(t))
           /\ \E size, cursor : handler' = [handler EXCEPT
                ![c] = [pc |-> "replay", size |-> size, cursor |-> cursor]]
  <2>1. \E message : ~IsAnnouncement(message) /\ wire' = Written(c, message)
    <3>1. \A t : ~IsAnnouncement(TaskRequest(t))
      BY DEF IsAnnouncement, AnnouncedTypes, TaskRequest
    <3>2. QED
      BY <1>4, <3>1
  <2>2. Moves(c) /\ handler'[c].pc = "replay"
    BY <1>4 DEF Maps, Moves
  <2>3. clients'[c] # "absent"
    BY <1>4 DEF Links, Linked
  <2>4. QED
    BY <1>1, <1>4, <2>1, <2>2, <2>3 DEF Answers
<1>5. QED
  <2>1. \/ EndHandler(c) /\ UNCHANGED wire
        \/ /\ handler' = [handler EXCEPT ![c] = [pc |-> "read", size |-> 0, cursor |-> 0]]
           /\ UNCHANGED <<clients, up, wire>>
        \/ /\ up[c] /\ UNCHANGED <<clients, up>>
           /\ \E t : wire' = Written(c, TaskRequest(t))
           /\ \E size, cursor : handler' = [handler EXCEPT
                ![c] = [pc |-> "replay", size |-> size, cursor |-> cursor]]
    BY DEF ReplayTask
  <2>2. QED
    BY <1>2, <1>3, <1>4, <2>1

-----------------------------------------------------------------------------
(* The strengthening of ClaimsAgree: the stream of every client alternates *)
(* claims and results, and that of an open connection ends in what the     *)
(* coordinator holds.                                                      *)
ClaimsSettled ==
  \A c \in Conns, t \in Tasks :
    /\ Alternates(Stream(c), t)
    /\ up[c] => Settled(Stream(c), t, claimed[t])

ClaimsInv == Maps /\ Links /\ ClaimsSettled

(* A frame that is no announcement is neither a claim nor a result.        *)
LEMMA Unannounced ==
  ASSUME NEW message, ~IsAnnouncement(message), NEW c, NEW t
  PROVE  /\ ~ClaimOf([message |-> message, by |-> c], t)
         /\ ~ResultOf([message |-> message, by |-> c], t)
BY DEF IsAnnouncement, AnnouncedTypes, ClaimOf, ResultOf

(* An announcement settles the task it is about, and no other one.         *)
LEMMA AnnounceSettles ==
  ASSUME ClaimsInv, NEW c \in Conns, NEW message, Announces(c, message),
         NEW t \in Tasks,
         LET f == [message |-> message, by |-> c] IN
           \/ /\ ClaimOf(f, t) /\ claimed[t] = NoOne
              /\ claimed'[t] = message.client /\ message.client # NoOne
           \/ ResultOf(f, t) /\ claimed'[t] = NoOne
           \/ ~ClaimOf(f, t) /\ ~ResultOf(f, t) /\ claimed'[t] = claimed[t]
  PROVE  \A d \in Conns :
           Alternates(Stream(d), t)' /\ (up'[d] => Settled(Stream(d), t, claimed[t])')
<1> DEFINE f == [message |-> message, by |-> c]
<1>1. UNCHANGED up /\ \A d \in Conns :
        Stream(d)' = IF up[d] THEN Append(Stream(d), f) ELSE Stream(d)
  BY BroadcastStream DEF Announces, ClaimsInv
<1>2. f.message = message
  OBVIOUS
<1> SUFFICES ASSUME NEW d \in Conns
             PROVE  /\ Alternates(Stream(d), t)'
                    /\ up'[d] => Settled(Stream(d), t, claimed[t])'
  OBVIOUS
<1>3. IsSequence(Stream(d)) /\ Len(Stream(d)) \in Nat
  BY Streams, SequenceFacts DEF ClaimsInv
<1>4. Alternates(Stream(d), t) /\ (up[d] => Settled(Stream(d), t, claimed[t]))
  BY DEF ClaimsInv, ClaimsSettled
<1>5. /\ Alternates(Stream(d), t)' <=> Alternates(Stream(d)', t)
      /\ Settled(Stream(d), t, claimed[t])' <=> Settled(Stream(d)', t, claimed'[t])
  BY DEF Alternates, Settled, ClaimOf, ResultOf
<1> HIDE DEF f
<1>6. CASE ~up[d]
  BY <1>1, <1>4, <1>5, <1>6
<1>7. CASE up[d] /\ ~ClaimOf(f, t) /\ ~ResultOf(f, t) /\ claimed'[t] = claimed[t]
  <2>1. Inserted(Stream(d), Append(Stream(d), f), f)
    BY <1>3, AppendInserted
  <2>2. Alternates(Append(Stream(d), f), t) /\ Settled(Append(Stream(d), f), t, claimed[t])
    BY <1>3, <1>4, <1>7, <2>1, OtherInserted
  <2>3. QED
    BY <1>1, <1>5, <1>7, <2>2
<1>8. CASE /\ up[d]
           /\ \/ /\ ClaimOf(f, t) /\ claimed[t] = NoOne
                 /\ claimed'[t] = f.message.client /\ f.message.client # NoOne
              \/ ResultOf(f, t) /\ claimed'[t] = NoOne
  <2>1. /\ Alternates(Append(Stream(d), f), t)
        /\ Settled(Append(Stream(d), f), t, claimed'[t])
    BY <1>3, <1>4, <1>8, EventAppended
  <2>2. QED
    BY <1>1, <1>5, <1>8, <2>1
<1>9. QED
  BY <1>2, <1>6, <1>7, <1>8 DEF f

(* A stream that no claim or result enters stays settled, if the claims of *)
(* the coordinator do not change.                                          *)
LEMMA QuietSettles ==
  ASSUME ClaimsInv, UNCHANGED claimed, NEW t \in Tasks, NEW d \in Conns,
         \/ Stream(d)' = Stream(d) /\ up'[d] = up[d]
         \/ /\ up'[d] = up[d]
            /\ \E e : Inserted(Stream(d), Stream(d)', e) /\ ~ClaimOf(e, t) /\ ~ResultOf(e, t)
         \/ up'[d] = up[d] /\ Stream(d) # <<>> /\ Stream(d)' = Tail(Stream(d))
         \/ ~up'[d] /\ Stream(d)' = wire[d]
         \/ Stream(d)' = <<>>
         \/ \E e : Inserted(<<>>, Stream(d)', e) /\ ~ClaimOf(e, t) /\ ~ResultOf(e, t)
  PROVE  Alternates(Stream(d), t)' /\ (up'[d] => Settled(Stream(d), t, claimed[t])')
<1>1. IsSequence(Stream(d)) /\ Len(Stream(d)) \in Nat
  BY Streams, SequenceFacts DEF ClaimsInv
<1>2. Alternates(Stream(d), t) /\ (up[d] => Settled(Stream(d), t, claimed[t]))
  BY DEF ClaimsInv, ClaimsSettled
<1>3. /\ Alternates(Stream(d), t)' <=> Alternates(Stream(d)', t)
      /\ Settled(Stream(d), t, claimed[t])' <=> Settled(Stream(d)', t, claimed[t])
  BY DEF Alternates, Settled, ClaimOf, ResultOf
<1>4. CASE Stream(d)' = Stream(d) /\ up'[d] = up[d]
  BY <1>2, <1>3, <1>4
<1>5. ASSUME NEW e, Inserted(Stream(d), Stream(d)', e), ~ClaimOf(e, t), ~ResultOf(e, t),
             up'[d] = up[d]
      PROVE  Alternates(Stream(d), t)' /\ (up'[d] => Settled(Stream(d), t, claimed[t])')
  BY <1>1, <1>2, <1>3, <1>5, OtherInserted
<1>6. CASE up'[d] = up[d] /\ Stream(d) # <<>> /\ Stream(d)' = Tail(Stream(d))
  BY <1>1, <1>2, <1>3, <1>6, FirstRead
<1>7. CASE ~up'[d] /\ Stream(d)' = wire[d]
  <2>1. Alternates(wire[d], t)
    <3>1. IsSequence(wire[d]) /\ IsSequence(scheduled[d])
      BY DEF ClaimsInv, Links, Linked
    <3>2. CASE up[d]
      BY <1>2, <3>1, <3>2, PrefixLeft DEF Stream
    <3>3. CASE ~up[d]
      BY <1>2, <3>3 DEF Stream
    <3>4. QED
      BY <3>2, <3>3
  <2>2. QED
    BY <1>3, <1>7, <2>1
<1>8. CASE Stream(d)' = <<>>
  BY <1>3, <1>8, EmptyStream
<1>9. ASSUME NEW e, Inserted(<<>>, Stream(d)', e), ~ClaimOf(e, t), ~ResultOf(e, t)
      PROVE  Alternates(Stream(d), t)' /\ (up'[d] => Settled(Stream(d), t, claimed[t])')
  <2>1. Len(<<>>) \in Nat
    BY EmptySeq
  <2>2. Alternates(Stream(d)', t) /\ Settled(Stream(d)', t, claimed[t])
    BY <1>9, <2>1, EmptyStream, OtherInserted
  <2>3. QED
    BY <1>3, <2>2
<1>10. QED
  BY <1>4, <1>5, <1>6, <1>7, <1>8, <1>9

(* A step of a handler that announces nothing.                             *)
LEMMA EffectSettles ==
  ASSUME ClaimsInv, NEW c \in Conns, UNCHANGED claimed,
         (\E message : Relays(c, message)) \/ Answers(c) \/ Ends(c)
  PROVE  Links' /\ ClaimsSettled'
<1>1. ASSUME NEW message, Relays(c, message) PROVE Links' /\ ClaimsSettled'
  <2>1. PICK excluded : Broadcast(c, message, excluded)
    BY <1>1 DEF Relays
  <2>2. /\ Links' /\ UNCHANGED up
        /\ \A d \in Conns :
             Stream(d)' = IF up[d] /\ d \notin excluded
                          THEN Append(Stream(d), [message |-> message, by |-> c])
                          ELSE Stream(d)
    BY <1>1, <2>1, BroadcastStream DEF Relays, ClaimsInv
  <2>3. \A t : /\ ~ClaimOf([message |-> message, by |-> c], t)
               /\ ~ResultOf([message |-> message, by |-> c], t)
    BY <1>1, Unannounced DEF Relays
  <2>4. ASSUME NEW d \in Conns, NEW t \in Tasks
        PROVE  Alternates(Stream(d), t)' /\ (up'[d] => Settled(Stream(d), t, claimed[t])')
    <3>1. Inserted(Stream(d), Append(Stream(d), [message |-> message, by |-> c]),
                   [message |-> message, by |-> c])
      BY Streams, AppendInserted DEF ClaimsInv
    <3>2. \/ Stream(d)' = Stream(d)
          \/ \E e : Inserted(Stream(d), Stream(d)', e) /\ ~ClaimOf(e, t) /\ ~ResultOf(e, t)
      BY <2>2, <2>3, <3>1
    <3>3. QED
      BY <2>2, <3>2, QuietSettles
  <2>5. QED
    BY <2>2, <2>4 DEF ClaimsSettled
<1>2. CASE Answers(c)
  <2>1. PICK message : ~IsAnnouncement(message) /\ wire' = Written(c, message)
    BY <1>2 DEF Answers
  <2>2. /\ Links' /\ UNCHANGED up
        /\ Inserted(Stream(c), Stream(c)', [message |-> message, by |-> c])
        /\ \A d \in Conns : d # c => Stream(d)' = Stream(d)
    BY <1>2, <2>1, WriteStream DEF Answers, Moves, ClaimsInv
  <2>3. \A t : /\ ~ClaimOf([message |-> message, by |-> c], t)
               /\ ~ResultOf([message |-> message, by |-> c], t)
    BY <2>1, Unannounced
  <2>4. \A d \in Conns, t \in Tasks :
          Alternates(Stream(d), t)' /\ (up'[d] => Settled(Stream(d), t, claimed[t])')
    BY <2>2, <2>3, QuietSettles
  <2>5. QED
    BY <2>2, <2>4 DEF ClaimsSettled
<1>3. CASE Ends(c)
  <2>1. /\ Links' /\ Stream(c)' = wire[c] /\ ~up'[c]
        /\ \A d \in Conns : d # c => Stream(d)' = Stream(d) /\ up'[d] = up[d]
    BY <1>3, EndStream DEF Ends, EndHandler, Maps, ClaimsInv
  <2>2. \A d \in Conns, t \in Tasks :
          Alternates(Stream(d), t)' /\ (up'[d] => Settled(Stream(d), t, claimed[t])')
    BY <2>1, QuietSettles
  <2>3. QED
    BY <2>1, <2>2 DEF ClaimsSettled
<1>4. QED
  BY <1>1, <1>2, <1>3

(* What an exchange announces settles its task.                            *)
LEMMA ExchangeSettles ==
  ASSUME ClaimsInv, NEW c \in Conns, NEW m \in Message, Handle(c, m)
  PROVE  Links' /\ ClaimsSettled'
<1>1. claimed \in [Tasks -> ClientIds \cup {NoOne}] /\ Maps /\ Links
  BY DEF ClaimsInv, Maps
<1>2. \A message : Announces(c, message) => Links'
  BY BroadcastStream DEF Announces, ClaimsInv
<1>3. CASE /\ m.type = "task.claim" /\ claimed[m.id] = NoOne
           /\ claimed' = [claimed EXCEPT ![m.id] = m.client]
           /\ Announces(c, m)
  <2>1. m.id \in Tasks /\ m.client # NoOne
    BY <1>3, MessageFields, CoordinatorAssumption
  <2>2. claimed'[m.id] = m.client /\ \A t \in Tasks : t # m.id => claimed'[t] = claimed[t]
    BY <1>1, <1>3, <2>1
  <2>3. \A t \in Tasks :
          LET f == [message |-> m, by |-> c] IN
            \/ ClaimOf(f, t) /\ claimed[t] = NoOne /\ claimed'[t] = m.client
            \/ ~ClaimOf(f, t) /\ ~ResultOf(f, t) /\ claimed'[t] = claimed[t]
    BY <1>3, <2>2 DEF ClaimOf, ResultOf
  <2>4. \A t \in Tasks, d \in Conns :
          Alternates(Stream(d), t)' /\ (up'[d] => Settled(Stream(d), t, claimed[t])')
    BY <1>3, <2>1, <2>3, AnnounceSettles
  <2>5. QED
    BY <1>2, <1>3, <2>4 DEF ClaimsSettled
<1>4. CASE /\ m.type = "task.result"
           /\ claimed' = [claimed EXCEPT ![m.id] = NoOne]
           /\ Announces(c, m)
  <2>1. m.id \in Tasks
    BY <1>4, MessageFields
  <2>2. claimed'[m.id] = NoOne /\ \A t \in Tasks : t # m.id => claimed'[t] = claimed[t]
    BY <1>1, <1>4, <2>1
  <2>3. \A t \in Tasks :
          LET f == [message |-> m, by |-> c] IN
            \/ ResultOf(f, t) /\ claimed'[t] = NoOne
            \/ ~ClaimOf(f, t) /\ ~ResultOf(f, t) /\ claimed'[t] = claimed[t]
    BY <1>4, <2>2 DEF ClaimOf, ResultOf
  <2>4. \A t \in Tasks, d \in Conns :
          Alternates(Stream(d), t)' /\ (up'[d] => Settled(Stream(d), t, claimed[t])')
    BY <1>4, <2>3, AnnounceSettles
  <2>5. QED
    BY <1>2, <1>4, <2>4 DEF ClaimsSettled
<1>5. ASSUME NEW message, message.type = "state.accepted", Announces(c, message),
             UNCHANGED claimed
      PROVE  Links' /\ ClaimsSettled'
  <2>1. \A t \in Tasks :
          LET f == [message |-> message, by |-> c] IN
            ~ClaimOf(f, t) /\ ~ResultOf(f, t) /\ claimed'[t] = claimed[t]
    BY <1>5 DEF ClaimOf, ResultOf
  <2>2. \A t \in Tasks, d \in Conns :
          Alternates(Stream(d), t)' /\ (up'[d] => Settled(Stream(d), t, claimed[t])')
    BY <1>5, <2>1, AnnounceSettles
  <2>3. QED
    BY <1>2, <1>5, <2>2 DEF ClaimsSettled
<1>6. CASE UNCHANGED claimed /\ (Relays(c, m) \/ Answers(c) \/ Ends(c))
  BY <1>6, EffectSettles
<1>7. Accepted(m.change, ChangedResource(m.change)).type = "state.accepted"
  BY DEF Accepted
<1>8. QED
  BY <1>1, <1>3, <1>4, <1>5, <1>6, <1>7, HandleEffect

(* The strengthened invariant holds of the coordinator.                    *)
THEOREM ClaimsInvariant == Spec => []ClaimsInv
<1>1. Init => Links /\ ClaimsSettled
  <2> SUFFICES ASSUME Init PROVE Links /\ ClaimsSettled
    OBVIOUS
  <2>1. \A c \in Conns : /\ clients[c] = "absent" /\ ~up[c]
                         /\ wire[c] = <<>> /\ scheduled[c] = <<>>
    BY DEF Init, ServerInit
  <2>2. IsSequence(<<>>)
    BY EmptySeq, SequenceOver
  <2>3. QED
    BY <2>1, <2>2, EmptyStream DEF Links, Linked, ClaimsSettled, Stream
<1>2. TypeOK /\ TypeOK' /\ Links /\ ClaimsSettled /\ [Next]_vars => Links' /\ ClaimsSettled'
  <2> SUFFICES ASSUME TypeOK, Links, ClaimsSettled, [Next]_vars
               PROVE  Links' /\ ClaimsSettled'
    OBVIOUS
  <2>0. ClaimsInv
    BY TypeMaps DEF ClaimsInv
  <2>1. ASSUME NEW c \in Conns, ConnectClient(c) PROVE Links' /\ ClaimsSettled'
    <3>1. UNCHANGED claimed
      BY <2>1 DEF ConnectClient, Connect
    <3>2. /\ Links'
          /\ \/ up'[c] /\ Inserted(<<>>, Stream(c)', [message |-> Hello, by |-> c])
             \/ ~up'[c] /\ Stream(c)' = <<>>
          /\ \A d \in Conns : d # c => Stream(d)' = Stream(d) /\ up'[d] = up[d]
      BY <2>0, <2>1, ConnectStream DEF ConnectClient, ClaimsInv
    <3>3. ~IsAnnouncement(Hello)
      BY DEF IsAnnouncement, AnnouncedTypes, Hello
    <3>4. \A d \in Conns, t \in Tasks :
            Alternates(Stream(d), t)' /\ (up'[d] => Settled(Stream(d), t, claimed[t])')
      BY <2>0, <3>1, <3>2, <3>3, Unannounced, QuietSettles
    <3>5. QED
      BY <3>2, <3>4 DEF ClaimsSettled
  <2>2. ASSUME NEW c \in Conns, Exchange(c) PROVE Links' /\ ClaimsSettled'
    <3>1. PICK m \in todo[c] : Handle(c, m)
      BY <2>2 DEF Exchange
    <3>2. m \in Message
      BY DEF TypeOK
    <3>3. QED
      BY <2>0, <3>1, <3>2, ExchangeSettles
  <2>3. ASSUME NEW c \in Conns, Replay(c) PROVE Links' /\ ClaimsSettled'
    <3>1. UNCHANGED claimed /\ ReplayTask(c)
      BY <2>3 DEF Replay, ReplayTask
    <3>2. CASE Answers(c) \/ Ends(c)
      BY <2>0, <3>1, <3>2, EffectSettles
    <3>3. CASE /\ UNCHANGED <<clients, up, scheduled, wire>>
               /\ Moves(c) /\ handler'[c].pc = "read"
      <4>1. Links' /\ \A d \in Conns : Stream(d)' = Stream(d)
        BY <3>3, IdleStream DEF Moves
      <4>2. \A d \in Conns, t \in Tasks :
              Alternates(Stream(d), t)' /\ (up'[d] => Settled(Stream(d), t, claimed[t])')
        BY <2>0, <3>1, <3>3, <4>1, QuietSettles
      <4>3. QED
        BY <4>1, <4>2 DEF ClaimsSettled
    <3>4. QED
      BY <2>0, <3>1, <3>2, <3>3, ReplayEffect DEF ClaimsInv
  <2>4. ASSUME NEW c \in Conns, Deliver(c) PROVE Links' /\ ClaimsSettled'
    <3>1. UNCHANGED <<claimed, up>>
      BY <2>4 DEF Deliver, StartSend, tables
    <3>2. Links' /\ \A d \in Conns : Stream(d)' = Stream(d)
      BY <2>0, <2>4, DeliverStream DEF Deliver, ClaimsInv
    <3>3. \A d \in Conns, t \in Tasks :
            Alternates(Stream(d), t)' /\ (up'[d] => Settled(Stream(d), t, claimed[t])')
      BY <2>0, <3>1, <3>2, QuietSettles
    <3>4. QED
      BY <3>2, <3>3 DEF ClaimsSettled
  <2>5. ASSUME NEW c \in Conns, Close(c) PROVE Links' /\ ClaimsSettled'
    <3>1. UNCHANGED claimed /\ Ends(c)
      BY <2>5 DEF Close, Finish, Ends
    <3>2. QED
      BY <2>0, <3>1, EffectSettles
  <2>6. ASSUME NEW c \in Conns, Break(c) PROVE Links' /\ ClaimsSettled'
    <3>1. UNCHANGED claimed
      BY <2>6 DEF Break, Drop, tables
    <3>2. /\ Links' /\ Stream(c)' = <<>>
          /\ \A d \in Conns : d # c => Stream(d)' = Stream(d) /\ up'[d] = up[d]
      BY <2>0, <2>6, DropStream DEF Break, ClaimsInv
    <3>3. \A d \in Conns, t \in Tasks :
            Alternates(Stream(d), t)' /\ (up'[d] => Settled(Stream(d), t, claimed[t])')
      BY <2>0, <3>1, <3>2, QuietSettles
    <3>4. QED
      BY <3>2, <3>3 DEF ClaimsSettled
  <2>7. ASSUME NEW c \in Conns, Consume(c) PROVE Links' /\ ClaimsSettled'
    <3>1. UNCHANGED claimed
      BY <2>7 DEF Consume, Read, tables
    <3>2. /\ Links' /\ UNCHANGED up
          /\ Stream(c) # <<>> /\ Stream(c)' = Tail(Stream(c))
          /\ \A d \in Conns : d # c => Stream(d)' = Stream(d)
      BY <2>0, <2>7, ReadStream DEF Consume, ClaimsInv
    <3>3. \A d \in Conns, t \in Tasks :
            Alternates(Stream(d), t)' /\ (up'[d] => Settled(Stream(d), t, claimed[t])')
      BY <2>0, <3>1, <3>2, QuietSettles
    <3>4. QED
      BY <3>2, <3>3 DEF ClaimsSettled
  <2>8. CASE UNCHANGED vars
    <3>1. UNCHANGED <<claimed, clients, handler, up, scheduled, wire>>
      BY <2>8 DEF vars, serverVars, tables, links
    <3>2. Links' /\ \A d \in Conns : Stream(d)' = Stream(d)
      BY <3>1, IdleStream
    <3>3. \A d \in Conns, t \in Tasks :
            Alternates(Stream(d), t)' /\ (up'[d] => Settled(Stream(d), t, claimed[t])')
      BY <2>0, <3>1, <3>2, QuietSettles
    <3>4. QED
      BY <3>2, <3>3 DEF ClaimsSettled
  <2>9. QED
    BY <2>1, <2>2, <2>3, <2>4, <2>5, <2>6, <2>7, <2>8 DEF Next
<1>3. TypeOK /\ Links /\ ClaimsSettled => ClaimsInv
  BY TypeMaps DEF ClaimsInv
<1>4. QED
  BY <1>1, <1>2, <1>3, TypeCorrect, PTL DEF Spec

(* Every client sees the claims of a task one after the other, and the     *)
(* last of them is the one the coordinator holds (62-67, 91-106), whatever *)
(* replies overtake the broadcasts and whenever connections break.         *)
THEOREM ClaimsNeverOverlap == Spec => []ClaimsAgree
<1>1. ClaimsInv => ClaimsAgree
  <2> SUFFICES ASSUME ClaimsInv, NEW c \in Conns, NEW t \in Tasks
               PROVE  LET events == {i \in About(c, {"task.claim", "task.result"}) :
                                       Frame(c, i).id = t}
                          IsClaim(i) == Frame(c, i).type = "task.claim"
                      IN
                      /\ \A i, j \in events :
                           i < j /\ IsClaim(i) /\ IsClaim(j)
                             => \E k \in events : i < k /\ k < j /\ ~IsClaim(k)
                      /\ clients[c] # "absent" =>
                           \A i \in events :
                             (\A j \in events : j <= i) =>
                               claimed[t] = IF IsClaim(i) THEN Frame(c, i).client ELSE NoOne
    BY DEF ClaimsAgree
  <2> DEFINE s == Stream(c)
             events == {i \in About(c, {"task.claim", "task.result"}) : Frame(c, i).id = t}
             IsClaim(i) == Frame(c, i).type = "task.claim"
  <2>1. IsSequence(s) /\ Len(s) \in Nat /\ DOMAIN s = 1..Len(s)
    BY Streams, SequenceFacts DEF ClaimsInv
  <2>2. /\ Alternates(s, t)
        /\ clients[c] # "absent" => Settled(s, t, claimed[t])
    BY EmptyStream DEF ClaimsInv, ClaimsSettled, Links, Linked, Stream
  <2>3. /\ events \subseteq 1..Len(s)
        /\ \A i \in 1..Len(s) : i \in events <=> ClaimOf(s[i], t) \/ ResultOf(s[i], t)
        /\ \A i \in events : IsClaim(i) <=> ClaimOf(s[i], t)
        /\ \A i \in events : ~IsClaim(i) <=> ResultOf(s[i], t)
        /\ \A i \in events : Frame(c, i).client = s[i].message.client
    BY <2>1 DEF About, Frame, ClaimOf, ResultOf
  <2> HIDE DEF s, events, IsClaim
  <2>4. ASSUME NEW i \in events, NEW j \in events, i < j, IsClaim(i), IsClaim(j)
        PROVE  \E k \in events : i < k /\ k < j /\ ~IsClaim(k)
    <3>1. PICK k \in 1..Len(s) : i < k /\ k < j /\ ResultOf(s[k], t)
      BY <2>2, <2>3, <2>4 DEF Alternates
    <3>2. QED
      BY <2>3, <3>1
  <2>5. ASSUME clients[c] # "absent", NEW i \in events, \A j \in events : j <= i
        PROVE  claimed[t] = IF IsClaim(i) THEN Frame(c, i).client ELSE NoOne
    <3>1. i \in 1..Len(s) /\ ~\E k \in 1..Len(s) :
            i < k /\ (ClaimOf(s[k], t) \/ ResultOf(s[k], t))
      BY <2>1, <2>3, <2>5
    <3>2. CASE IsClaim(i)
      BY <2>2, <2>3, <2>5, <3>1, <3>2 DEF Settled
    <3>3. CASE ~IsClaim(i)
      BY <2>2, <2>3, <2>5, <3>1, <3>3 DEF Settled
    <3>4. QED
      BY <3>2, <3>3
  <2>6. QED
    BY <2>4, <2>5 DEF events, IsClaim
<1>2. QED
  BY <1>1, ClaimsInvariant, PTL

-----------------------------------------------------------------------------
(* The announcements of s are those of lg after the first `from' of them,  *)
(* in order and without a gap, up to the one at `to'; f gives the place in *)
(* lg after each frame of s.                                               *)
Walks(f, s, lg) ==
  /\ f \in [0..Len(s) -> 0..Len(lg)]
  /\ \A i \in 1..Len(s) :
       IF IsAnnouncement(s[i].message)
       THEN f[i] = f[i - 1] + 1 /\ lg[f[i]] = s[i].message
       ELSE f[i] = f[i - 1]

Follows(s, from, to, lg) ==
  \E f : Walks(f, s, lg) /\ f[0] = from /\ f[Len(s)] = to

LEMMA EmptyFollows ==
  ASSUME NEW lg, IsSequence(lg), NEW from \in 0..Len(lg)
  PROVE  Follows(<<>>, from, from, lg)
<1> DEFINE f == [i \in 0..0 |-> from]
<1>1. Len(<<>>) = 0
  BY EmptySeq
<1>2. f \in [0..0 -> 0..Len(lg)] /\ f[0] = from
  OBVIOUS
<1> HIDE DEF f
<1>3. Walks(f, <<>>, lg)
  BY <1>1, <1>2 DEF Walks
<1>4. QED
  BY <1>1, <1>2, <1>3 DEF Follows

(* A frame that announces nothing, wherever it is written.                 *)
LEMMA OtherFollows ==
  ASSUME NEW s, NEW r, NEW e, NEW from, NEW to, NEW lg,
         Len(s) \in Nat, IsSequence(lg), Inserted(s, r, e),
         ~IsAnnouncement(e.message), Follows(s, from, to, lg)
  PROVE  Follows(r, from, to, lg)
<1> PICK n \in 0..Len(s) :
      /\ Len(r) = Len(s) + 1
      /\ \A i \in 1..n : r[i] = s[i]
      /\ r[n + 1] = e
      /\ \A i \in (n + 2)..(Len(s) + 1) : r[i] = s[i - 1]
  BY DEF Inserted
<1> PICK f : Walks(f, s, lg) /\ f[0] = from /\ f[Len(s)] = to
  BY DEF Follows
<1> DEFINE g == [i \in 0..Len(r) |-> IF i <= n THEN f[i] ELSE f[i - 1]]
<1>1. f \in [0..Len(s) -> 0..Len(lg)] /\ Len(lg) \in Nat
  BY SequenceFacts DEF Walks
<1>2. g \in [0..Len(r) -> 0..Len(lg)]
  BY <1>1
<1>3. \A i \in 0..Len(r) : g[i] = IF i <= n THEN f[i] ELSE f[i - 1]
  OBVIOUS
<1> HIDE DEF g
<1>4. g[0] = from /\ g[Len(r)] = to
  BY <1>3
<1>5. ASSUME NEW i \in 1..Len(r)
      PROVE  IF IsAnnouncement(r[i].message)
             THEN g[i] = g[i - 1] + 1 /\ lg[g[i]] = r[i].message
             ELSE g[i] = g[i - 1]
  <2>1. i - 1 \in 0..Len(r) /\ i \in 0..Len(r)
    OBVIOUS
  <2>2. CASE i <= n
    <3>1. i \in 1..Len(s) /\ r[i] = s[i] /\ g[i] = f[i] /\ g[i - 1] = f[i - 1]
      BY <1>3, <2>1, <2>2
    <3>2. QED
      BY <3>1 DEF Walks
  <2>3. CASE i = n + 1
    <3>1. r[i] = e /\ g[i] = f[n] /\ g[i - 1] = f[n]
      BY <1>3, <2>1, <2>3
    <3>2. QED
      BY <3>1
  <2>4. CASE i > n + 1
    <3>1. /\ i - 1 \in 1..Len(s) /\ r[i] = s[i - 1]
          /\ g[i] = f[i - 1] /\ g[i - 1] = f[(i - 1) - 1]
      BY <1>3, <2>1, <2>4
    <3>2. QED
      BY <3>1 DEF Walks
  <2>5. QED
    BY <2>2, <2>3, <2>4
<1>6. QED
  BY <1>2, <1>4, <1>5 DEF Walks, Follows

(* The log grows.                                                          *)
LEMMA LogGrows ==
  ASSUME NEW s, NEW from, NEW to, NEW lg, NEW m, IsSequence(lg), Len(s) \in Nat,
         Follows(s, from, to, lg)
  PROVE  Follows(s, from, to, Append(lg, m))
<1> PICK f : Walks(f, s, lg) /\ f[0] = from /\ f[Len(s)] = to
  BY DEF Follows
<1> DEFINE more == Append(lg, m)
<1>1. /\ Len(lg) \in Nat /\ Len(more) = Len(lg) + 1
      /\ \A i \in 1..Len(lg) : more[i] = lg[i]
  BY SequenceFacts, AppendFacts
<1> HIDE DEF more
<1>2. f \in [0..Len(s) -> 0..Len(lg)]
  BY DEF Walks
<1>3. f \in [0..Len(s) -> 0..Len(more)]
  BY <1>1, <1>2
<1>4. ASSUME NEW i \in 1..Len(s)
      PROVE  IF IsAnnouncement(s[i].message)
             THEN f[i] = f[i - 1] + 1 /\ more[f[i]] = s[i].message
             ELSE f[i] = f[i - 1]
  <2>1. f[i] \in 0..Len(lg) /\ f[i - 1] \in 0..Len(lg)
    BY <1>2
  <2>2. f[i] = f[i - 1] + 1 => f[i] \in 1..Len(lg)
    BY <1>1, <2>1
  <2>3. QED
    BY <1>1, <2>2 DEF Walks
<1>5. QED
  BY <1>3, <1>4 DEF Walks, Follows, more

(* An announcement enters the log and the stream.                          *)
LEMMA AnnouncementFollows ==
  ASSUME NEW s, NEW from, NEW lg, NEW e, IsSequence(lg), IsSequence(s),
         IsAnnouncement(e.message), Follows(s, from, Len(lg), lg)
  PROVE  Follows(Append(s, e), from, Len(Append(lg, e.message)), Append(lg, e.message))
<1> DEFINE r == Append(s, e)
           more == Append(lg, e.message)
<1>1. /\ Len(s) \in Nat /\ Len(r) = Len(s) + 1
      /\ \A i \in 1..Len(s) : r[i] = s[i]
      /\ r[Len(s) + 1] = e
  BY SequenceFacts, AppendFacts
<1>2. /\ Len(lg) \in Nat /\ Len(more) = Len(lg) + 1
      /\ more[Len(lg) + 1] = e.message
  BY SequenceFacts, AppendFacts
<1>3. Follows(s, from, Len(lg), more)
  BY <1>1, LogGrows
<1> HIDE DEF r, more
<1> PICK f : Walks(f, s, more) /\ f[0] = from /\ f[Len(s)] = Len(lg)
  BY <1>3 DEF Follows
<1> DEFINE g == [i \in 0..Len(r) |-> IF i <= Len(s) THEN f[i] ELSE Len(more)]
<1>4. f \in [0..Len(s) -> 0..Len(more)]
  BY DEF Walks
<1>5. g \in [0..Len(r) -> 0..Len(more)]
  BY <1>1, <1>2, <1>4
<1>6. \A i \in 0..Len(r) : g[i] = IF i <= Len(s) THEN f[i] ELSE Len(more)
  OBVIOUS
<1> HIDE DEF g
<1>7. g[0] = from /\ g[Len(r)] = Len(more)
  BY <1>1, <1>6
<1>8. ASSUME NEW i \in 1..Len(r)
      PROVE  IF IsAnnouncement(r[i].message)
             THEN g[i] = g[i - 1] + 1 /\ more[g[i]] = r[i].message
             ELSE g[i] = g[i - 1]
  <2>1. i - 1 \in 0..Len(r) /\ i \in 0..Len(r)
    BY <1>1
  <2>2. CASE i <= Len(s)
    <3>1. i \in 1..Len(s) /\ r[i] = s[i] /\ g[i] = f[i] /\ g[i - 1] = f[i - 1]
      BY <1>1, <1>6, <2>1, <2>2
    <3>2. QED
      BY <3>1 DEF Walks
  <2>3. CASE i = Len(s) + 1
    <3>1. r[i] = e /\ g[i] = Len(more) /\ g[i - 1] = Len(lg)
      BY <1>1, <1>6, <2>1, <2>3
    <3>2. QED
      BY <1>2, <3>1
  <2>4. QED
    BY <1>1, <2>2, <2>3
<1>9. QED
  BY <1>5, <1>7, <1>8 DEF Walks, Follows, r, more

(* The client reads a frame.                                               *)
LEMMA ReadFollows ==
  ASSUME NEW s, NEW from, NEW to, NEW lg, IsSequence(s), IsSequence(lg), s # <<>>,
         Follows(s, from, to, lg)
  PROVE  /\ IsAnnouncement(s[1].message) =>
              /\ from \in Nat /\ from < Len(lg) /\ lg[from + 1] = s[1].message
              /\ Follows(Tail(s), from + 1, to, lg)
         /\ ~IsAnnouncement(s[1].message) => Follows(Tail(s), from, to, lg)
<1> DEFINE r == Tail(s)
<1> PICK f : Walks(f, s, lg) /\ f[0] = from /\ f[Len(s)] = to
  BY DEF Follows
<1>1. /\ Len(s) \in Nat /\ Len(s) > 0 /\ Len(r) = Len(s) - 1 /\ Len(lg) \in Nat
      /\ \A i \in 1..Len(r) : r[i] = s[i + 1]
  BY SequenceFacts, TailFacts
<1> HIDE DEF r
<1> DEFINE g == [i \in 0..Len(r) |-> f[i + 1]]
<1>2. f \in [0..Len(s) -> 0..Len(lg)]
  BY DEF Walks
<1>3. g \in [0..Len(r) -> 0..Len(lg)]
  BY <1>1, <1>2
<1>4. \A i \in 0..Len(r) : g[i] = f[i + 1]
  OBVIOUS
<1> HIDE DEF g
<1>5. g[0] = f[1] /\ g[Len(r)] = to
  BY <1>1, <1>4
<1>6. ASSUME NEW i \in 1..Len(r)
      PROVE  IF IsAnnouncement(r[i].message)
             THEN g[i] = g[i - 1] + 1 /\ lg[g[i]] = r[i].message
             ELSE g[i] = g[i - 1]
  <2>1. i + 1 \in 1..Len(s) /\ i \in 0..Len(r) /\ i - 1 \in 0..Len(r)
    BY <1>1
  <2>2. r[i] = s[i + 1] /\ g[i] = f[i + 1]
    BY <1>1, <1>4, <2>1
  <2>3. (i + 1) - 1 = i /\ (i - 1) + 1 = i
    OBVIOUS
  <2>4. g[i - 1] = f[i]
    BY <1>4, <2>1, <2>3
  <2>5. IF IsAnnouncement(s[i + 1].message)
        THEN f[i + 1] = f[(i + 1) - 1] + 1 /\ lg[f[i + 1]] = s[i + 1].message
        ELSE f[i + 1] = f[(i + 1) - 1]
    BY <2>1 DEF Walks
  <2>6. QED
    BY <2>2, <2>3, <2>4, <2>5
<1>7. Follows(r, f[1], to, lg)
  BY <1>3, <1>5, <1>6 DEF Walks, Follows
<1>8. 1 \in 1..Len(s) /\ f[1] \in 0..Len(lg) /\ f[0] \in 0..Len(lg)
  <2>1. 1 \in 1..Len(s) /\ 1 \in 0..Len(s) /\ 0 \in 0..Len(s)
    BY <1>1
  <2>2. QED
    BY <1>2, <2>1
<1>9. IF IsAnnouncement(s[1].message)
      THEN f[1] = f[1 - 1] + 1 /\ lg[f[1]] = s[1].message
      ELSE f[1] = f[1 - 1]
  BY <1>8 DEF Walks
<1>10. QED
  BY <1>1, <1>7, <1>8, <1>9 DEF r

(* What is left of the stream when the connection closes.                  *)
LEMMA PrefixFollows ==
  ASSUME NEW w, NEW q, NEW from, NEW to, NEW lg, IsSequence(w), IsSequence(q),
         Follows(w \o q, from, to, lg)
  PROVE  \E end \in 0..Len(lg) : Follows(w, from, end, lg)
<1> DEFINE s == w \o q
<1> PICK f : Walks(f, s, lg) /\ f[0] = from
  BY DEF Follows
<1>1. /\ Len(w) \in Nat /\ Len(s) \in Nat /\ Len(w) <= Len(s)
      /\ \A i \in 1..Len(w) : s[i] = w[i]
  BY SequenceFacts, ConcatFacts
<1> HIDE DEF s
<1> DEFINE g == [i \in 0..Len(w) |-> f[i]]
<1>2. f \in [0..Len(s) -> 0..Len(lg)]
  BY DEF Walks
<1>3. g \in [0..Len(w) -> 0..Len(lg)]
  BY <1>1, <1>2
<1>4. \A i \in 0..Len(w) : g[i] = f[i]
  OBVIOUS
<1> HIDE DEF g
<1>5. ASSUME NEW i \in 1..Len(w)
      PROVE  IF IsAnnouncement(w[i].message)
             THEN g[i] = g[i - 1] + 1 /\ lg[g[i]] = w[i].message
             ELSE g[i] = g[i - 1]
  <2>1. i \in 1..Len(s) /\ s[i] = w[i] /\ g[i] = f[i] /\ g[i - 1] = f[i - 1]
    BY <1>1, <1>4
  <2>2. QED
    BY <2>1 DEF Walks
<1>6. Follows(w, g[0], g[Len(w)], lg)
  BY <1>3, <1>5 DEF Walks, Follows
<1>7. g[0] = from /\ g[Len(w)] \in 0..Len(lg)
  BY <1>1, <1>3, <1>4
<1>8. QED
  BY <1>6, <1>7

-----------------------------------------------------------------------------
(* The invariant of the refinement: what is on its way to a client are the *)
(* announcements of the log after the place it has read up to, all of them *)
(* as long as its connection is open.                                      *)
HearsLog(c) ==
  IF up[c] THEN Follows(Stream(c), place[c], Len(log), log)
  ELSE \E end \in 0..Len(log) : Follows(Stream(c), place[c], end, log)

BoardOK ==
  /\ IsSequence(log)
  /\ DOMAIN place = Conns /\ DOMAIN seen = Conns
  /\ \A c \in Conns : place[c] \in 0..Len(log) /\ HearsLog(c)

(* What a step announces, if it leaves the place of every client alone.    *)
LEMMA AnnounceHeard ==
  ASSUME Maps, Links, BoardOK, NEW c \in Conns, NEW message, IsAnnouncement(message),
         Announces(c, message), log' = Append(log, message), UNCHANGED <<place, seen>>
  PROVE  BoardOK'
<1> DEFINE f == [message |-> message, by |-> c]
<1>1. UNCHANGED up /\ \A d \in Conns :
        Stream(d)' = IF up[d] THEN Append(Stream(d), f) ELSE Stream(d)
  BY BroadcastStream DEF Announces
<1>2. f.message = message
  OBVIOUS
<1> HIDE DEF f
<1>3. /\ IsSequence(log) /\ IsSequence(log') /\ Len(log) \in Nat
      /\ Len(log') = Len(log) + 1
  BY SequenceClosed, SequenceFacts, AppendFacts DEF BoardOK
<1>4. ASSUME NEW d \in Conns PROVE HearsLog(d)'
  <2>1. IsSequence(Stream(d)) /\ Len(Stream(d)) \in Nat
    BY Streams, SequenceFacts
  <2>2. HearsLog(d)
    BY DEF BoardOK
  <2>3. CASE up[d]
    <3>1. Follows(Stream(d), place[d], Len(log), log)
      BY <2>2, <2>3 DEF HearsLog
    <3>2. Follows(Append(Stream(d), f), place[d], Len(log'), log')
      BY <1>2, <1>3, <2>1, <3>1, AnnouncementFollows
    <3>3. QED
      BY <1>1, <2>3, <3>2 DEF HearsLog
  <2>4. CASE ~up[d]
    <3>1. PICK end \in 0..Len(log) : Follows(Stream(d), place[d], end, log)
      BY <2>2, <2>4 DEF HearsLog
    <3>2. Follows(Stream(d), place[d], end, log') /\ end \in 0..Len(log')
      BY <1>3, <2>1, <3>1, LogGrows
    <3>3. QED
      BY <1>1, <2>4, <3>2 DEF HearsLog
  <2>5. QED
    BY <2>3, <2>4
<1>5. \A d \in Conns : place'[d] \in 0..Len(log')
  BY <1>3 DEF BoardOK
<1>6. QED
  BY <1>3, <1>4, <1>5 DEF BoardOK

(* A stream that no announcement enters, or that a closing connection cuts.*)
LEMMA QuietHeard ==
  ASSUME Maps, Links, BoardOK, UNCHANGED <<log, place>>, NEW d \in Conns,
         \/ Stream(d)' = Stream(d) /\ up'[d] = up[d]
         \/ /\ up'[d] = up[d]
            /\ \E e : Inserted(Stream(d), Stream(d)', e) /\ ~IsAnnouncement(e.message)
         \/ ~up'[d] /\ Stream(d)' = wire[d]
         \/ ~up'[d] /\ Stream(d)' = <<>>
  PROVE  HearsLog(d)'
<1>1. IsSequence(Stream(d)) /\ Len(Stream(d)) \in Nat /\ IsSequence(log) /\ HearsLog(d)
  BY Streams, SequenceFacts DEF BoardOK
<1>2. CASE Stream(d)' = Stream(d) /\ up'[d] = up[d]
  BY <1>1, <1>2 DEF HearsLog
<1>3. ASSUME NEW e, Inserted(Stream(d), Stream(d)', e), ~IsAnnouncement(e.message),
             up'[d] = up[d]
      PROVE  HearsLog(d)'
  <2>1. \A to : Follows(Stream(d), place[d], to, log)
          => Follows(Stream(d)', place[d], to, log)
    BY <1>1, <1>3, OtherFollows
  <2>2. QED
    BY <1>1, <1>3, <2>1 DEF HearsLog
<1>4. CASE ~up'[d] /\ Stream(d)' = wire[d]
  <2>1. IsSequence(wire[d]) /\ IsSequence(scheduled[d])
    BY DEF Links, Linked
  <2>2. \E end \in 0..Len(log) : Follows(wire[d], place[d], end, log)
    <3>1. CASE up[d]
      <4>1. Follows(wire[d] \o scheduled[d], place[d], Len(log), log)
        BY <1>1, <3>1 DEF HearsLog, Stream
      <4>2. QED
        BY <1>1, <2>1, <4>1, PrefixFollows
    <3>2. CASE ~up[d]
      BY <1>1, <3>2 DEF HearsLog, Stream
    <3>3. QED
      BY <3>1, <3>2
  <2>3. QED
    BY <1>4, <2>2 DEF HearsLog
<1>5. CASE ~up'[d] /\ Stream(d)' = <<>>
  <2>1. place[d] \in 0..Len(log) /\ Follows(<<>>, place[d], place[d], log)
    BY <1>1, EmptyFollows DEF BoardOK
  <2>2. QED
    BY <1>5, <2>1 DEF HearsLog
<1>6. QED
  BY <1>2, <1>3, <1>4, <1>5

(* A step that changes no history is heard by nobody, or is a client that  *)
(* leaves.                                                                 *)
LEMMA Stays ==
  ASSUME UNCHANGED up, \A d \in Conns : handler'[d].pc = "new" <=> handler[d].pc = "new"
  PROVE  Membership' = Membership
BY DEF Membership

LEMMA Leaves ==
  ASSUME NEW c \in Conns, ~up'[c], handler'[c].pc # "new",
         \A d \in Conns : d # c => up'[d] = up[d] /\ handler'[d] = handler[d]
  PROVE  \/ Membership' = Membership
         \/ /\ Membership[c] # "left"
            /\ Membership' = [Membership EXCEPT ![c] = "left"]
<1>1. Membership' = [Membership EXCEPT ![c] = "left"]
  BY DEF Membership
<1>2. Membership[c] = "left" => [Membership EXCEPT ![c] = "left"] = Membership
  BY DEF Membership
<1>3. QED
  BY <1>1, <1>2

BoardStep == Board!BoardNext \/ UNCHANGED Board!boardVars

LEMMA LeaveStep ==
  ASSUME NEW c \in Conns, ~up'[c], handler'[c].pc # "new", UNCHANGED <<log, place, seen>>,
         \A d \in Conns : d # c => up'[d] = up[d] /\ handler'[d] = handler[d]
  PROVE  BoardStep
BY Leaves DEF BoardStep, Board!BoardNext, Board!Leave, Board!boardVars

LEMMA StayStep ==
  ASSUME UNCHANGED <<up, log, place, seen>>,
         \A d \in Conns : handler'[d].pc = "new" <=> handler[d].pc = "new"
  PROVE  BoardStep
BY Stays DEF BoardStep, Board!boardVars

(* A handler step that announces nothing.                                  *)
LEMMA EffectHeard ==
  ASSUME Maps, Links, BoardOK, NEW c \in Conns, handler[c].pc # "new",
         UNCHANGED history,
         \/ \E message : Relays(c, message)
         \/ Answers(c)
         \/ Ends(c)
  PROVE  BoardOK' /\ BoardStep
<1>0. UNCHANGED <<log, place, seen>>
  BY DEF history
<1>1. ASSUME NEW message, Relays(c, message) PROVE BoardOK' /\ BoardStep
  <2>1. PICK excluded : Broadcast(c, message, excluded)
    BY <1>1 DEF Relays
  <2>2. /\ UNCHANGED <<up, handler>>
        /\ \A d \in Conns :
             Stream(d)' = IF up[d] /\ d \notin excluded
                          THEN Append(Stream(d), [message |-> message, by |-> c])
                          ELSE Stream(d)
    BY <1>1, <2>1, BroadcastStream DEF Relays
  <2>3. \A d \in Conns :
          \/ Stream(d)' = Stream(d)
          \/ \E e : Inserted(Stream(d), Stream(d)', e) /\ ~IsAnnouncement(e.message)
    <3> TAKE d \in Conns
    <3> DEFINE f == [message |-> message, by |-> c]
    <3>1. ~IsAnnouncement(f.message)
      BY <1>1 DEF Relays
    <3> HIDE DEF f
    <3>2. Inserted(Stream(d), Append(Stream(d), f), f)
      BY Streams, AppendInserted
    <3>3. Stream(d)' = Append(Stream(d), f) \/ Stream(d)' = Stream(d)
      BY <2>2 DEF f
    <3>4. QED
      BY <3>1, <3>2, <3>3
  <2>4. \A d \in Conns : HearsLog(d)'
    BY <1>0, <2>2, <2>3, QuietHeard
  <2>5. QED
    BY <1>0, <2>2, <2>4, StayStep DEF BoardOK
<1>2. CASE Answers(c)
  <2>1. PICK message : ~IsAnnouncement(message) /\ wire' = Written(c, message)
    BY <1>2 DEF Answers
  <2>2. /\ UNCHANGED up /\ handler'[c].pc # "new"
        /\ Inserted(Stream(c), Stream(c)', [message |-> message, by |-> c])
        /\ \A d \in Conns : d # c => Stream(d)' = Stream(d) /\ handler'[d] = handler[d]
    BY <1>2, <2>1, WriteStream DEF Answers, Moves
  <2>3. [message |-> message, by |-> c].message = message
    OBVIOUS
  <2>4. \E e : Inserted(Stream(c), Stream(c)', e) /\ ~IsAnnouncement(e.message)
    BY <2>1, <2>2, <2>3
  <2>5. \A d \in Conns : HearsLog(d)'
    BY <1>0, <2>2, <2>4, QuietHeard
  <2>6. QED
    BY <1>0, <2>2, <2>5, StayStep DEF BoardOK
<1>3. CASE Ends(c)
  <2>1. /\ Stream(c)' = wire[c] /\ ~up'[c] /\ handler'[c].pc # "new"
        /\ \A d \in Conns : d # c =>
             Stream(d)' = Stream(d) /\ up'[d] = up[d] /\ handler'[d] = handler[d]
    BY <1>3, EndStream DEF Ends, EndHandler, Maps
  <2>2. \A d \in Conns : HearsLog(d)'
    BY <1>0, <2>1, QuietHeard
  <2>3. QED
    BY <1>0, <2>1, <2>2, LeaveStep DEF BoardOK
<1>4. QED
  BY <1>1, <1>2, <1>3

(* What is announced is one of the abstract announcements.                 *)
LEMMA AnnouncementType ==
  ASSUME StoreTypeOK, NEW m \in Message,
         \/ m.type \in {"task.claim", "task.result"}
         \/ m.type = "state.patch" /\ PatchApplies(m.change)
  PROVE  AnnouncementOf(m) \in Announced /\ IsAnnouncement(AnnouncementOf(m))
<1>1. CASE m.type = "task.claim"
  <2>1. m \in [type : {"task.claim"}, id : Tasks, client : ClientIds]
    BY <1>1 DEF Message, RelayTypes, RejectedTypes, TelemetryTypes
  <2>2. QED
    BY <1>1, <2>1 DEF AnnouncementOf, Announced, IsAnnouncement, AnnouncedTypes
<1>2. CASE m.type = "task.result"
  <2>1. m \in [type : {"task.request", "task.result"}, id : Tasks]
    BY <1>2 DEF Message, RelayTypes, RejectedTypes, TelemetryTypes
  <2>2. m \in [type : {"task.result"}, id : Tasks]
    BY <1>2, <2>1
  <2>3. QED
    BY <1>2, <2>2 DEF AnnouncementOf, Announced, IsAnnouncement, AnnouncedTypes
<1>3. CASE m.type = "state.patch" /\ PatchApplies(m.change)
  <2>1. m.change \in Change
    BY <1>3, MessageFields
  <2>2. ChangedResource(m.change) \in Resource
    BY <1>3, <2>1, ChangedType
  <2>3. Accepted(m.change, ChangedResource(m.change)) \in
          [type : {"state.accepted"}, resource : Resources, change : ChangeIds,
           package : Packages, revision : Nat, state : Docs]
    BY <2>1, <2>2 DEF Accepted, Change, Resource
  <2>4. QED
    BY <1>3, <2>3 DEF AnnouncementOf, Announced, IsAnnouncement, AnnouncedTypes
<1>4. QED
  BY <1>1, <1>2, <1>3

LEMMA ExchangeBoard ==
  ASSUME TypeOK, Maps, Links, BoardOK, NEW c \in Conns, LoggedExchange(c)
  PROVE  BoardOK' /\ BoardStep
<1> PICK m \in todo[c] : Handle(c, m) /\ todo' = [todo EXCEPT ![c] = @ \ {m}]
  BY DEF LoggedExchange, Exchange
<1>1. m \in Message /\ todo'[c] = todo[c] \ {m}
  BY DEF Maps
<1> DEFINE chosen == CHOOSE x \in todo[c] : x \notin todo'[c]
<1>2. chosen = m
  BY <1>1
<1>3. /\ log' = IF Announcing(m) THEN Append(log, AnnouncementOf(m)) ELSE log
      /\ UNCHANGED <<place, seen>>
  <2>1. /\ log' = IF Announcing(chosen) THEN Append(log, AnnouncementOf(chosen)) ELSE log
        /\ UNCHANGED <<place, seen>>
    BY Zenon DEF LoggedExchange
  <2> HIDE DEF chosen
  <2>2. QED
    BY <1>2, <2>1
<1>4. handler[c].pc # "new" /\ StoreTypeOK
  BY DEF Handle, Ready, TypeOK
<1>5. CASE /\ ~Announcing(m)
           /\ Relays(c, m) \/ Answers(c) \/ Ends(c)
  <2>1. UNCHANGED history
    BY <1>3, <1>5 DEF history
  <2>2. QED
    BY <1>4, <1>5, <2>1, EffectHeard
<1>6. ASSUME Announcing(m), Announces(c, AnnouncementOf(m)),
             \/ m.type \in {"task.claim", "task.result"}
             \/ m.type = "state.patch" /\ PatchApplies(m.change)
      PROVE  BoardOK' /\ BoardStep
  <2>1. log' = Append(log, AnnouncementOf(m))
    BY <1>3, <1>6
  <2>2. AnnouncementOf(m) \in Announced /\ IsAnnouncement(AnnouncementOf(m))
    BY <1>1, <1>4, <1>6, AnnouncementType
  <2>3. BoardOK'
    BY <1>3, <1>6, <2>1, <2>2, AnnounceHeard
  <2>4. Membership' = Membership
    BY <1>6, Stays DEF Announces
  <2>5. PICK S : AnnouncementOf(m) \in S /\ log \in Seq(S)
    <3>1. IsSequence(log)
      BY DEF BoardOK
    <3>2. QED
      BY <3>1, CommonSet
  <2>6. /\ log' # <<>> /\ Len(log') = Len(log) + 1 /\ Len(log) \in Nat
        /\ log' \in Seq(S)
        /\ \A i \in 1..Len(log) : log'[i] = log[i]
        /\ log'[Len(log) + 1] = AnnouncementOf(m)
    BY <2>1, <2>5, AppendProperties, LenProperties
  <2>7. Board!Front(log') = log
    <3>1. \A i \in 1..Len(log) : log'[i] \in S
      BY <2>5, <2>6, ElementOfSeq
    <3>2. Board!Front(log') = SubSeq(log', 1, Len(log))
      BY <2>6 DEF Board!Front
    <3>3. /\ SubSeq(log', 1, Len(log)) \in Seq(S)
          /\ Len(SubSeq(log', 1, Len(log))) = IF 1 <= Len(log) THEN Len(log) - 1 + 1 ELSE 0
          /\ \A i \in 1..(Len(log) - 1 + 1) : SubSeq(log', 1, Len(log))[i] = log'[1 + i - 1]
      BY <2>6, <3>1, SubSeqProperties
    <3>4. /\ Len(SubSeq(log', 1, Len(log))) = Len(log)
          /\ \A i \in 1..Len(log) : SubSeq(log', 1, Len(log))[i] = log[i]
      BY <2>6, <3>3
    <3>5. QED
      BY <2>5, <3>2, <3>3, <3>4, SeqEqual
  <2>8. Board!Last(log') \in Announced
    BY <2>2, <2>6 DEF Board!Last
  <2>9. Board!Announce
    BY <1>3, <2>4, <2>6, <2>7, <2>8 DEF Board!Announce
  <2>10. QED
    BY <2>3, <2>9 DEF BoardStep, Board!BoardNext
<1>7. CASE m.type = "task.claim" /\ claimed[m.id] = NoOne /\ Announces(c, m)
  BY <1>6, <1>7 DEF Announcing, AnnouncementOf
<1>8. CASE m.type = "task.result" /\ Announces(c, m)
  BY <1>6, <1>8 DEF Announcing, AnnouncementOf
<1>9. CASE /\ m.type = "state.patch" /\ Accept(m.change)
           /\ Announces(c, Accepted(m.change, ChangedResource(m.change)))
  BY <1>6, <1>9 DEF Announcing, AnnouncementOf, Accept
<1>10. QED
  BY <1>1, <1>5, <1>7, <1>8, <1>9, HandleEffect

LEMMA ConnectBoard ==
  ASSUME Maps, Links, BoardOK, NEW c \in Conns, LoggedConnect(c)
  PROVE  BoardOK' /\ BoardStep
<1>1. /\ Connect(c) /\ UNCHANGED <<log, seen>>
      /\ place' = IF up'[c] THEN [place EXCEPT ![c] = Len(log)] ELSE place
  BY DEF LoggedConnect, ConnectClient
<1>2. /\ Stream(c) = <<>> /\ ~up[c]
      /\ \/ up'[c] /\ Inserted(<<>>, Stream(c)', [message |-> Hello, by |-> c])
         \/ ~up'[c] /\ Stream(c)' = <<>>
      /\ \A d \in Conns : d # c => Stream(d)' = Stream(d) /\ up'[d] = up[d]
  BY <1>1, ConnectStream
<1>3. /\ handler[c].pc = "new" /\ handler'[c].pc # "new"
      /\ \A d \in Conns : d # c => handler'[d] = handler[d]
  BY <1>1 DEF Connect, Maps
<1>4. IsSequence(log) /\ Len(log) \in Nat /\ DOMAIN place = Conns /\ DOMAIN seen = Conns
  BY SequenceFacts DEF BoardOK
<1>5. CASE up'[c]
  <2>1. place'[c] = Len(log) /\ \A d \in Conns : d # c => place'[d] = place[d]
    BY <1>1, <1>4, <1>5
  <2>2. Follows(Stream(c)', Len(log), Len(log), log)
    <3>1. Len(log) \in 0..Len(log) /\ Len(<<>>) \in Nat
      BY <1>4, EmptySeq
    <3>2. Follows(<<>>, Len(log), Len(log), log)
      BY <1>4, <3>1, EmptyFollows
    <3>3. ~IsAnnouncement([message |-> Hello, by |-> c].message)
      BY DEF IsAnnouncement, AnnouncedTypes, Hello
    <3>4. QED
      BY <1>2, <1>4, <1>5, <3>1, <3>2, <3>3, OtherFollows
  <2>3. \A d \in Conns : HearsLog(d)'
    <3> SUFFICES ASSUME NEW d \in Conns PROVE HearsLog(d)'
      OBVIOUS
    <3>1. CASE d = c
      BY <1>1, <1>5, <2>1, <2>2, <3>1 DEF HearsLog
    <3>2. CASE d # c
      BY <1>1, <1>2, <2>1, <3>2 DEF HearsLog, BoardOK
    <3>3. QED
      BY <3>1, <3>2
  <2>4. \A d \in Conns : place'[d] \in 0..Len(log')
    BY <1>1, <1>4, <2>1 DEF BoardOK
  <2>5. BoardOK'
    BY <1>1, <1>4, <1>5, <2>3, <2>4 DEF BoardOK
  <2>6. Membership[c] = "out" /\ Membership' = [Membership EXCEPT ![c] = "in"]
    BY <1>2, <1>3, <1>5 DEF Membership
  <2>7. Board!Join(c)
    BY <1>1, <1>5, <2>6 DEF Board!Join
  <2>8. QED
    BY <2>5, <2>7 DEF BoardStep, Board!BoardNext
<1>6. CASE ~up'[c]
  <2>1. UNCHANGED <<log, place, seen>>
    BY <1>1, <1>6
  <2>2. \A d \in Conns : HearsLog(d)'
    BY <1>2, <1>6, <2>1, QuietHeard
  <2>3. BoardOK'
    BY <2>1, <2>2 DEF BoardOK
  <2>4. QED
    BY <1>2, <1>3, <1>6, <2>1, <2>3, LeaveStep
<1>7. QED
  BY <1>5, <1>6

LEMMA ConsumeBoard ==
  ASSUME Maps, Links, BoardOK, NEW c \in Conns, LoggedConsume(c)
  PROVE  BoardOK' /\ BoardStep
<1> DEFINE m == Head(wire[c]).message
<1>1. /\ Read(c) /\ UNCHANGED log
      /\ IF IsAnnouncement(m)
         THEN /\ seen' = [seen EXCEPT ![c] = Append(@, m)]
              /\ place' = [place EXCEPT ![c] = @ + 1]
         ELSE UNCHANGED <<place, seen>>
  BY DEF LoggedConsume, Consume
<1>2. /\ UNCHANGED up
      /\ Stream(c) # <<>> /\ Stream(c)[1].message = m
      /\ Stream(c)' = Tail(Stream(c))
      /\ \A d \in Conns : d # c => Stream(d)' = Stream(d)
  BY <1>1, ReadStream
<1>3. /\ UNCHANGED handler /\ wire[c] # <<>>
      /\ DOMAIN place = Conns /\ DOMAIN seen = Conns
  BY <1>1 DEF Read, BoardOK
<1> HIDE DEF m
<1>4. IsSequence(Stream(c)) /\ IsSequence(log)
  BY Streams DEF BoardOK
<1>5. \A to : Follows(Stream(c), place[c], to, log) =>
        /\ IsAnnouncement(m) =>
             /\ place[c] \in Nat /\ place[c] < Len(log) /\ log[place[c] + 1] = m
             /\ Follows(Tail(Stream(c)), place[c] + 1, to, log)
        /\ ~IsAnnouncement(m) => Follows(Tail(Stream(c)), place[c], to, log)
  BY <1>2, <1>4, ReadFollows
<1>6. \E to : Follows(Stream(c), place[c], to, log)
  BY DEF BoardOK, HearsLog
<1>7. \A d \in Conns : HearsLog(d)'
  <2> SUFFICES ASSUME NEW d \in Conns PROVE HearsLog(d)'
    OBVIOUS
  <2>1. HearsLog(d)
    BY DEF BoardOK
  <2>2. CASE d # c
    BY <1>1, <1>2, <1>3, <2>1, <2>2 DEF HearsLog
  <2>3. CASE d = c /\ IsAnnouncement(m)
    <3>1. place'[c] = place[c] + 1
      BY <1>1, <1>3, <2>3
    <3>2. QED
      BY <1>1, <1>2, <1>5, <2>1, <2>3, <3>1 DEF HearsLog
  <2>4. CASE d = c /\ ~IsAnnouncement(m)
    BY <1>1, <1>2, <1>5, <2>1, <2>4 DEF HearsLog
  <2>5. QED
    BY <2>2, <2>3, <2>4
<1>8. CASE IsAnnouncement(m)
  <2>1. /\ place[c] \in Nat /\ place[c] < Len(log) /\ log[place[c] + 1] = m
        /\ Len(log) \in Nat
    BY <1>4, <1>5, <1>6, <1>8, SequenceFacts
  <2>2. place'[c] = place[c] + 1 /\ \A d \in Conns : d # c => place'[d] = place[d]
    BY <1>1, <1>3, <1>8
  <2>3. \A d \in Conns : place'[d] \in 0..Len(log')
    BY <1>1, <2>1, <2>2 DEF BoardOK
  <2>4. BoardOK'
    BY <1>1, <1>3, <1>4, <1>7, <1>8, <2>3 DEF BoardOK
  <2>5. Membership' = Membership /\ Membership[c] # "out"
    <3>1. handler[c].pc # "new"
      BY <1>3 DEF Links, Linked
    <3>2. QED
      BY <1>2, <1>3, <3>1 DEF Membership
  <2>6. Board!Hear(c)
    BY <1>1, <1>8, <2>1, <2>5 DEF Board!Hear
  <2>7. QED
    BY <2>4, <2>6 DEF BoardStep, Board!BoardNext
<1>9. CASE ~IsAnnouncement(m)
  <2>1. UNCHANGED <<log, place, seen, up, handler>>
    BY <1>1, <1>2, <1>3, <1>9
  <2>2. BoardOK'
    BY <1>7, <2>1 DEF BoardOK
  <2>3. QED
    BY <2>1, <2>2, StayStep
<1>10. QED
  BY <1>8, <1>9

LEMMA QuietBoard ==
  ASSUME Maps, Links, BoardOK, NEW c \in Conns, Quietly(c)
  PROVE  BoardOK' /\ BoardStep
<1>1. UNCHANGED history /\ UNCHANGED <<log, place, seen>>
  BY DEF Quietly, history
<1>2. CASE Replay(c)
  <2>1. ReplayTask(c) /\ handler[c].pc # "new"
    BY <1>2 DEF Replay, ReplayTask
  <2>2. CASE Answers(c) \/ Ends(c)
    BY <1>1, <2>1, <2>2, EffectHeard
  <2>3. CASE UNCHANGED <<clients, up, scheduled, wire>> /\ Moves(c) /\ handler'[c].pc = "read"
    <3>1. \A d \in Conns : handler'[d].pc = "new" <=> handler[d].pc = "new"
      BY <2>1, <2>3 DEF Moves
    <3>2. \A d \in Conns : Stream(d)' = Stream(d)
      BY <2>3, <3>1, IdleStream
    <3>3. \A d \in Conns : HearsLog(d)'
      BY <1>1, <2>3, <3>2, QuietHeard
    <3>4. QED
      BY <1>1, <2>3, <3>1, <3>3, StayStep DEF BoardOK
  <2>4. QED
    BY <2>1, <2>2, <2>3, ReplayEffect
<1>3. CASE Deliver(c)
  <2>1. StartSend(c) /\ UNCHANGED <<handler, up>>
    BY <1>3 DEF Deliver, StartSend
  <2>2. \A d \in Conns : Stream(d)' = Stream(d)
    BY <2>1, DeliverStream
  <2>3. \A d \in Conns : HearsLog(d)'
    BY <1>1, <2>1, <2>2, QuietHeard
  <2>4. QED
    BY <1>1, <2>1, <2>3, StayStep DEF BoardOK
<1>4. CASE Close(c)
  <2>1. Ends(c) /\ handler[c].pc # "new"
    BY <1>4 DEF Close, Finish, Ends, Ready
  <2>2. QED
    BY <1>1, <2>1, EffectHeard
<1>5. CASE Break(c)
  <2>1. Drop(c) /\ up[c] /\ UNCHANGED handler
    BY <1>5 DEF Break, Drop
  <2>2. /\ ~up'[c] /\ Stream(c)' = <<>>
        /\ \A d \in Conns : d # c => Stream(d)' = Stream(d) /\ up'[d] = up[d]
    BY <2>1, DropStream
  <2>3. handler[c].pc # "new"
    BY <2>1 DEF Links, Linked
  <2>4. \A d \in Conns : HearsLog(d)'
    BY <1>1, <2>2, QuietHeard
  <2>5. QED
    BY <1>1, <2>1, <2>2, <2>3, <2>4, LeaveStep DEF BoardOK
<1>6. QED
  BY <1>2, <1>3, <1>4, <1>5 DEF Quietly

(* The coordinator implements Announcements, but for its fairness: its     *)
(* initial states map to initial states, and every step to a step of the   *)
(* board or to a stutter.  One log of granted claims, results and accepted *)
(* changes, that every client reads in its order and without a gap (29-36, *)
(* 62-67, 91-154), for any number of clients, tasks and resources.         *)
THEOREM AnnouncementsAreALog ==
  BroadcastSpec => Board!BoardInit /\ [][Board!BoardNext]_(Board!boardVars)
<1>1. BroadcastInit => Board!BoardInit /\ BoardOK
  <2> SUFFICES ASSUME BroadcastInit PROVE Board!BoardInit /\ BoardOK
    OBVIOUS
  <2>1. /\ \A c \in Conns : handler[c].pc = "new" /\ ~up[c] /\ wire[c] = <<>>
        /\ log = <<>> /\ place = [c \in Conns |-> 0] /\ seen = [c \in Conns |-> <<>>]
    BY DEF BroadcastInit, Init, ServerInit
  <2>2. Membership = [c \in Conns |-> "out"]
    BY <2>1 DEF Membership
  <2>3. IsSequence(<<>>) /\ Len(<<>>) = 0
    BY EmptySeq, SequenceOver
  <2>4. Follows(<<>>, 0, 0, <<>>)
    BY <2>3, EmptyFollows
  <2>5. \A c \in Conns : place[c] \in 0..Len(log) /\ HearsLog(c)
    BY <2>1, <2>3, <2>4 DEF HearsLog, Stream
  <2>6. QED
    BY <2>1, <2>2, <2>3, <2>5 DEF Board!BoardInit, BoardOK
<1>2. TypeOK /\ ClaimsInv /\ BoardOK /\ [BroadcastNext]_<<vars, history>>
        => BoardOK' /\ BoardStep
  <2> SUFFICES ASSUME TypeOK, ClaimsInv, BoardOK, [BroadcastNext]_<<vars, history>>
               PROVE  BoardOK' /\ BoardStep
    OBVIOUS
  <2>1. Maps /\ Links
    BY DEF ClaimsInv
  <2>2. ASSUME NEW c \in Conns,
               LoggedExchange(c) \/ LoggedConnect(c) \/ LoggedConsume(c) \/ Quietly(c)
        PROVE  BoardOK' /\ BoardStep
    BY <2>1, <2>2, ExchangeBoard, ConnectBoard, ConsumeBoard, QuietBoard
  <2>3. CASE UNCHANGED <<vars, history>>
    <3>1. UNCHANGED <<handler, up, wire, scheduled, log, place, seen, clients>>
      BY <2>3 DEF vars, serverVars, tables, links, history
    <3>2. \A d \in Conns : Stream(d)' = Stream(d)
      BY <3>1 DEF Stream
    <3>3. \A d \in Conns : HearsLog(d)'
      BY <2>1, <3>1, <3>2, QuietHeard
    <3>4. QED
      BY <3>1, <3>3, StayStep DEF BoardOK
  <2>4. QED
    BY <2>2, <2>3 DEF BroadcastNext
<1>3. BroadcastInit => Init
  BY DEF BroadcastInit
<1>4. [BroadcastNext]_<<vars, history>> => [Next]_vars
  <2>1. BroadcastNext => Next
    BY DEF BroadcastNext, LoggedExchange, LoggedConnect, LoggedConsume, Quietly, Next
  <2>2. QED
    BY <2>1
<1>5. BoardStep <=> [Board!BoardNext]_(Board!boardVars)
  BY DEF BoardStep
<1>6. QED
  BY <1>1, <1>2, <1>3, <1>4, <1>5, TypeCorrect, ClaimsInvariant, PTL
     DEF BroadcastSpec, Spec
=============================================================================
