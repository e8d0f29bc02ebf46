----------------------------- MODULE StopProofs -----------------------------
(***************************************************************************)
(* The two ways to stop the robot, as MCStops runs them: the stop message  *)
(* that the adapter forwards (first part), and HARD_STOP, the pid files    *)
(* and the guard of the stack (second part).                               *)
(*                                                                         *)
(* The adapter: OneReader, InOrder and StopWaitsForOnePoll, for any number *)
(* of relayed messages.  None is inductive.  AdapterInv adds the queue of  *)
(* the lock (who waits is in it, and only its head has sent), that at most *)
(* one request or reply is under way, which the head sent, and where the   *)
(* message the forwarder holds stands between those that took effect and   *)
(* those that it has not read.                                             *)
(*                                                                         *)
(* The stack: StopIsObeyed, OneOwner and BackgroundIsReachable, for any    *)
(* process ids, casts and lengths of a batch.  StackInv adds what a        *)
(* program may still send before it looks at HARD_STOP (WithinBudget),     *)
(* that there is no owner while a command is past the guard (GuardHolds),  *)
(* and what is known of what a command has found: an owner that is about   *)
(* to be written to a pid file is the only one (OwnersFound), and as long  *)
(* as bridges are started by one at a time (~crossed) at most one runs,    *)
(* which is the one that is about to be written, or none when one is about *)
(* to be spawned (BridgesInOrder): a bridge found in the process list is   *)
(* written over the pid file of whatever was there.                        *)
(***************************************************************************)
EXTENDS LegacyAdapter, StackControl, SequenceTheorems, TLAPS

(***************************************************************************)
(* The adapter.                                                            *)
(***************************************************************************)

Methods == {"get_status", "get_joint_pos", "command_joint_pos", "zero_torque_mode"}
Calls == [method : Methods, n : Nat]
Places == {"sleep", "publish", "publish error", "read", "lock", "reply"}

AdapterTypeOK ==
  /\ emitted \in Nat
  /\ inbox \in Seq([kind : Kinds, n : Nat])
  /\ at \in [Coroutines -> Places]
  /\ at["poll"] # "read" /\ at["forward"] \in {"read", "lock", "reply"}
  /\ doing \in [Coroutines -> Calls]
  /\ done \in Seq(Calls)
  /\ passed \in Nat

Other(c) == IF c = "poll" THEN "forward" ELSE "poll"
Waits(c) == at[c] \in {"lock", "reply"}

(* The lock's queue: those that wait, of which only the first has sent.    *)
Queue ==
  \/ waiting = <<>> /\ \A c \in Coroutines : ~Waits(c)
  \/ \E c \in Coroutines : waiting = <<c>> /\ Waits(c) /\ ~Waits(Other(c))
  \/ \E c \in Coroutines :
       waiting = <<c, Other(c)>> /\ Waits(c) /\ at[Other(c)] = "lock"

(* At most one request or reply is under way, for the one that waits.      *)
Asked(c) == requests = <<[by |-> c, call |-> doing[c]]>> /\ replies = <<>>
Answered(c) ==
  requests = <<>> /\ \E ok \in BOOLEAN : replies = <<[to |-> c, ok |-> ok]>>

OneUnderWay ==
  \/ requests = <<>> /\ replies = <<>>
  \/ \E c \in Coroutines : at[c] = "reply" /\ (Asked(c) \/ Answered(c))

(* Messages are read, sent and carried out in the order of their numbers.  *)
Unserved == at["forward"] = "lock" \/ (at["forward"] = "reply" /\ requests # <<>>)

Ordered ==
  /\ \A i \in DOMAIN inbox : inbox[i].n <= emitted
  /\ \A i, j \in DOMAIN inbox : i < j => inbox[i].n < inbox[j].n
  /\ \A i \in DOMAIN done : done[i].n <= emitted
  /\ \A i \in DOMAIN done, j \in DOMAIN inbox : done[i].n < inbox[j].n
  /\ Waits("forward") =>
       /\ doing["forward"].n <= emitted
       /\ \A j \in DOMAIN inbox : doing["forward"].n < inbox[j].n
  /\ Unserved => \A i \in DOMAIN done : done[i].n < doing["forward"].n

(* A poll that was sent while the forwarder waits has not asked again.     *)
PolledOnce ==
  at["forward"] = "lock" =>
    \/ passed = 0
    \/ passed = 1 /\ (at["poll"] = "reply" \/ Head(waiting) = "forward")

(* A broken connection has nothing on it.                                  *)
LinkDown == ~link => requests = <<>> /\ replies = <<>>

AdapterInv ==
  AdapterTypeOK /\ Queue /\ OneUnderWay /\ LinkDown /\ Ordered /\ InOrder /\ PolledOnce

-----------------------------------------------------------------------------
(* Heads, tails and extensions of queues of two at most.                   *)
LEMMA Short ==
  ASSUME NEW c \in Coroutines, NEW d \in Coroutines
  PROVE  /\ Append(<<>>, c) = <<c>> /\ Append(<<c>>, d) = <<c, d>>
         /\ Tail(<<c>>) = <<>> /\ Tail(<<c, d>>) = <<d>>
         /\ Head(<<c>>) = c /\ Head(<<c, d>>) = c
         /\ <<c>> # <<>> /\ <<c, d>> # <<>> /\ <<c>> # <<d, c>> /\ <<c>> # <<c, d>>
<1>1. Append(<<>>, c) = <<c>>
  OBVIOUS
<1>2. Append(<<c>>, d) = <<c, d>>
  <2>1. <<c>> \in Seq(Coroutines) /\ <<c, d>> \in Seq(Coroutines)
    OBVIOUS
  <2>2. Len(Append(<<c>>, d)) = 2 /\ Append(<<c>>, d) \in Seq(Coroutines)
    BY <2>1, AppendProperties
  <2>3. Append(<<c>>, d)[1] = c /\ Append(<<c>>, d)[2] = d
    BY <2>1, AppendProperties
  <2>4. Len(<<c, d>>) = 2 /\ <<c, d>>[1] = c /\ <<c, d>>[2] = d
    OBVIOUS
  <2>5. \A i \in 1 .. 2 : Append(<<c>>, d)[i] = <<c, d>>[i]
    BY <2>3, <2>4
  <2> QED
    BY <2>1, <2>2, <2>4, <2>5, SeqEqual
<1>3. Tail(<<c>>) = <<>>
  OBVIOUS
<1>4. Tail(<<c, d>>) = <<d>>
  OBVIOUS
<1>5. Head(<<c>>) = c /\ Head(<<c, d>>) = c
  OBVIOUS
<1>6. <<c>> # <<>> /\ <<c, d>> # <<>>
  OBVIOUS
<1>7. <<c>> # <<d, c>> /\ <<c>> # <<c, d>>
  <2>1. Len(<<c>>) = 1 /\ Len(<<d, c>>) = 2 /\ Len(<<c, d>>) = 2
    OBVIOUS
  <2> QED
    BY <2>1
<1> QED
  BY <1>1, <1>2, <1>3, <1>4, <1>5, <1>6, <1>7

(* Nothing waits and nothing is under way at the start.                    *)
LEMMA AdapterStarts == Init => AdapterInv
<1> SUFFICES ASSUME Init PROVE AdapterInv
  OBVIOUS
<1>1. AdapterTypeOK
  <2>1. inbox \in Seq([kind : Kinds, n : Nat]) /\ done \in Seq(Calls)
    BY EmptySeq DEF Init
  <2>2. at["poll"] = "sleep" /\ at["forward"] = "read" /\ at \in [Coroutines -> Places]
    BY DEF Init, Coroutines, Places
  <2>3. doing \in [Coroutines -> Calls]
    BY DEF Init, Calls, Methods, Poll
  <2> QED
    BY <2>1, <2>2, <2>3 DEF Init, AdapterTypeOK
<1>2. Queue
  BY DEF Init, Queue, Waits, Coroutines
<1>3. OneUnderWay
  BY DEF Init, OneUnderWay
<1>4. Ordered /\ InOrder
  <2>1. DOMAIN inbox = {} /\ DOMAIN done = {}
    BY EmptySeq, LenProperties DEF Init
  <2>2. at["forward"] = "read"
    BY DEF Init, Coroutines
  <2> QED
    BY <2>1, <2>2 DEF Ordered, InOrder, Unserved, Waits
<1>5. PolledOnce /\ LinkDown
  BY DEF Init, PolledOnce, LinkDown, Coroutines
<1> QED
  BY <1>1, <1>2, <1>3, <1>4, <1>5 DEF AdapterInv

-----------------------------------------------------------------------------
(* Who asks for the lock comes last.                                       *)
LEMMA AskQueues ==
  ASSUME AdapterInv, NEW c \in Coroutines, NEW call, ~Waits(c), Ask(c, call)
  PROVE  Queue'
<1>1. /\ at'[c] = "lock" /\ at'[Other(c)] = at[Other(c)]
      /\ Other(c) \in Coroutines /\ Other(Other(c)) = c /\ Other(c) # c
      /\ Coroutines = {c, Other(c)}
  BY DEF AdapterInv, AdapterTypeOK, Ask, Coroutines, Other
<1>2. CASE waiting = <<>>
  <2>1. waiting' = <<c>>
    BY <1>2, Short DEF Ask
  <2>2. ~Waits(Other(c))
    BY <1>1, <1>2, Short DEF AdapterInv, Queue
  <2> QED
    BY <1>1, <2>1, <2>2 DEF Queue, Waits
<1>3. CASE waiting = <<Other(c)>> /\ Waits(Other(c))
  <2>1. waiting' = <<Other(c), c>>
    BY <1>1, <1>3, Short DEF Ask
  <2> QED
    BY <1>1, <1>3, <2>1 DEF Queue, Waits
<1>4. \/ waiting = <<>>
      \/ waiting = <<Other(c)>> /\ Waits(Other(c))
  <2>1. ASSUME NEW d \in Coroutines, waiting = <<d>> /\ Waits(d)
        PROVE  waiting = <<Other(c)>> /\ Waits(Other(c))
    BY <1>1, <2>1
  <2>2. ASSUME NEW d \in Coroutines, Waits(d) /\ at[Other(d)] = "lock"
        PROVE  FALSE
    BY <1>1, <2>2 DEF Waits
  <2> QED
    BY <2>1, <2>2 DEF AdapterInv, Queue
<1> QED
  BY <1>2, <1>3, <1>4

(* Who leaves the lock was first in the queue.                             *)
Leaves(c) ==
  /\ Release /\ UNCHANGED doing
  /\ \E pc \in {"publish", "publish error", "read"} : at' = [at EXCEPT ![c] = pc]

(* Who leaves the lock leaves its queue in order.                          *)
LEMMA LeaveQueues ==
  ASSUME AdapterInv, NEW c \in Coroutines, Waits(c),
         at[c] = "reply" \/ Head(waiting) = c, Leaves(c)
  PROVE  Queue'
<1>1. /\ ~Waits(c)' /\ at'[Other(c)] = at[Other(c)]
      /\ Other(c) \in Coroutines /\ Other(Other(c)) = c /\ Other(c) # c
      /\ Coroutines = {c, Other(c)}
  BY DEF AdapterInv, AdapterTypeOK, Leaves, Coroutines, Other, Waits
<1>2. \/ waiting = <<c>> /\ ~Waits(Other(c))
      \/ waiting = <<c, Other(c)>> /\ at[Other(c)] = "lock"
  <2>1. waiting # <<>>
    BY DEF AdapterInv, Queue
  <2>2. ~(waiting = <<Other(c)>> /\ ~Waits(c))
    OBVIOUS
  <2>3. ~(waiting = <<Other(c), c>> /\ at[c] = "lock")
    BY <1>1, Short
  <2> QED
    BY <1>1, <2>1, <2>2, <2>3 DEF AdapterInv, Queue
<1>3. CASE waiting = <<c>> /\ ~Waits(Other(c))
  <2>1. waiting' = <<>>
    BY <1>1, <1>3, Short DEF Leaves, Release
  <2> QED
    BY <1>1, <1>3, <2>1 DEF Queue, Waits
<1>4. CASE waiting = <<c, Other(c)>> /\ at[Other(c)] = "lock"
  <2>1. waiting' = <<Other(c)>>
    BY <1>1, <1>4, Short DEF Leaves, Release
  <2> QED
    BY <1>1, <1>4, <2>1 DEF Queue, Waits
<1> QED
  BY <1>2, <1>3, <1>4

(* Only the first of the queue has sent anything.                          *)
LEMMA HeadReplies ==
  ASSUME AdapterInv, NEW c \in Coroutines, at[c] = "reply"
  PROVE  waiting # <<>> /\ Head(waiting) = c
<1>1. Other(c) \in Coroutines /\ Other(Other(c)) = c /\ Coroutines = {c, Other(c)}
  BY DEF Coroutines, Other
<1>2. Waits(c)
  BY DEF Waits
<1>3. ~(\A d \in Coroutines : ~Waits(d))
  BY <1>2
<1>4. PICK d \in Coroutines :
        \/ waiting = <<d>> /\ Waits(d) /\ ~Waits(Other(d))
        \/ waiting = <<d, Other(d)>> /\ Waits(d) /\ at[Other(d)] = "lock"
  BY <1>3 DEF AdapterInv, Queue
<1>5. d = c
  BY <1>1, <1>2, <1>4
<1> QED
  BY <1>1, <1>4, <1>5, Short

(* What is under way belongs to the coroutine that waits for its reply.    *)
LEMMA UnderWayOf ==
  ASSUME AdapterInv, NEW c \in Coroutines, Waits(c), Head(waiting) = c
  PROVE  \/ requests = <<>> /\ replies = <<>>
         \/ at[c] = "reply" /\ (Asked(c) \/ Answered(c))
BY HeadReplies DEF AdapterInv, OneUnderWay

-----------------------------------------------------------------------------
(* A call keeps the types of what it writes.                               *)
LEMMA AskTypes ==
  ASSUME AdapterInv, NEW c \in Coroutines, NEW call \in Calls, Ask(c, call)
  PROVE  /\ at' \in [Coroutines -> Places]
         /\ at'["poll"] # "read" /\ at'["forward"] \in {"read", "lock", "reply"}
         /\ doing' \in [Coroutines -> Calls]
         /\ at'[c] = "lock" /\ doing'[c] = call
         /\ \A d \in Coroutines \ {c} : at'[d] = at[d] /\ doing'[d] = doing[d]
BY DEF AdapterInv, AdapterTypeOK, Ask, Coroutines, Places

(* A call that finds the lock free puts one request under way.             *)
LEMMA AskUnderWay ==
  ASSUME AdapterInv, NEW c \in Coroutines, NEW call \in Calls, ~Waits(c), Ask(c, call),
         UNCHANGED <<requests, replies, link>>
  PROVE  OneUnderWay' /\ LinkDown'
<1>1. LinkDown'
  BY DEF AdapterInv, LinkDown
<1>2. CASE requests = <<>> /\ replies = <<>>
  BY <1>1, <1>2 DEF OneUnderWay
<1>3. CASE \E d \in Coroutines : at[d] = "reply" /\ (Asked(d) \/ Answered(d))
  <2>1. PICK d \in Coroutines : at[d] = "reply" /\ (Asked(d) \/ Answered(d))
    BY <1>3
  <2>2. d # c
    BY <2>1 DEF Waits
  <2>3. at'[d] = "reply" /\ doing'[d] = doing[d]
    BY <2>1, <2>2, AskTypes
  <2>4. Asked(d)' \/ Answered(d)'
    BY <2>1, <2>3 DEF Asked, Answered
  <2> QED
    BY <1>1, <2>3, <2>4 DEF OneUnderWay
<1> QED
  BY <1>2, <1>3 DEF AdapterInv, OneUnderWay

(* The poll asks, when its sleep is over or for the joint positions.       *)
LEMMA PollAsks ==
  ASSUME AdapterInv, NEW call \in Calls, ~Waits("poll"), Ask("poll", call),
         UNCHANGED <<emitted, inbox, wires, link, done, passed>>
  PROVE  AdapterInv'
<1>1. UNCHANGED <<requests, replies>> /\ "poll" \in Coroutines /\ "forward" \in Coroutines
  BY DEF wires, Coroutines
<1>2. /\ at'["forward"] = at["forward"] /\ doing'["forward"] = doing["forward"]
      /\ at'["poll"] = "lock"
  BY <1>1, AskTypes
<1>3. AdapterTypeOK'
  BY <1>1, AskTypes DEF AdapterInv, AdapterTypeOK
<1>4. Queue'
  BY <1>1, AskQueues
<1>5. OneUnderWay' /\ LinkDown'
  BY <1>1, AskUnderWay
<1>6. Ordered' /\ InOrder'
  BY <1>1, <1>2 DEF AdapterInv, Ordered, InOrder, Unserved, Waits
<1>7. PolledOnce'
  <2> SUFFICES ASSUME at["forward"] = "lock"
               PROVE  \/ passed = 0
                      \/ passed = 1 /\ Head(waiting') = "forward"
    BY <1>1, <1>2 DEF PolledOnce
  <2>1. waiting = <<"forward">>
    <3>1. \A d \in Coroutines : Waits(d) => d = "forward"
      BY DEF Coroutines
    <3>2. Waits("forward")
      BY DEF Waits
    <3>3. \A d \in Coroutines : ~(Waits(d) /\ at[Other(d)] = "lock")
      <4>1. Waits("poll") <=> at["poll"] \in {"lock", "reply"}
        BY DEF Waits
      <4> QED
        BY <3>1, <4>1 DEF Other
    <3> QED
      BY <1>1, <3>1, <3>2, <3>3 DEF AdapterInv, Queue
  <2>2. Head(waiting') = "forward"
    BY <1>1, <2>1, Short DEF Ask
  <2>3. passed = 0 \/ passed = 1
    BY DEF AdapterInv, PolledOnce
  <2> QED
    BY <2>2, <2>3
<1> QED
  BY <1>3, <1>4, <1>5, <1>6, <1>7 DEF AdapterInv

-----------------------------------------------------------------------------
(* A call ends, and nothing of it is left on the connection.               *)
LEMMA CallEnds ==
  ASSUME AdapterInv, NEW c \in Coroutines, Waits(c),
         at[c] = "reply" \/ Head(waiting) = c, Leaves(c),
         at'["poll"] # "read", at'["forward"] \in {"read", "lock", "reply"},
         requests' = <<>>, replies' = <<>>,
         requests # <<>> => c = "forward",
         UNCHANGED <<emitted, inbox, link, done, passed>>
  PROVE  AdapterInv'
<1>1. /\ at' \in [Coroutines -> Places] /\ ~Waits(c)'
      /\ \A d \in Coroutines \ {c} : at'[d] = at[d]
      /\ "poll" \in Coroutines /\ "forward" \in Coroutines
  BY DEF AdapterInv, AdapterTypeOK, Leaves, Coroutines, Places, Waits
<1>2. AdapterTypeOK'
  BY <1>1 DEF AdapterInv, AdapterTypeOK, Leaves
<1>3. Queue'
  BY LeaveQueues
<1>4. OneUnderWay' /\ LinkDown'
  BY DEF OneUnderWay, LinkDown
<1>5. Waits("forward")' => Waits("forward")
  BY <1>1 DEF Waits
<1>6. Unserved' => Unserved
  BY <1>1 DEF Unserved, Waits
<1>7. Ordered' /\ InOrder'
  BY <1>5, <1>6 DEF AdapterInv, Ordered, InOrder, Leaves
<1>8. PolledOnce'
  <2> SUFFICES ASSUME at'["forward"] = "lock"
               PROVE  \/ passed = 0
                      \/ passed = 1 /\ Head(waiting') = "forward"
    BY DEF PolledOnce
  <2>1. c = "poll" /\ at["forward"] = "lock"
    BY <1>1 DEF Waits, Coroutines
  <2>2. Head(waiting) = "poll"
    BY <2>1, HeadReplies
  <2>3. waiting = <<"poll", "forward">>
    <3>1. Other("poll") = "forward" /\ Other("forward") = "poll"
      BY DEF Other
    <3>2. Waits("poll") /\ Waits("forward")
      BY <2>1 DEF Waits
    <3>3. \/ waiting = <<"poll", "forward">>
          \/ waiting = <<"forward", "poll">>
      BY <3>1, <3>2, <1>1 DEF AdapterInv, Queue, Coroutines
    <3> QED
      BY <1>1, <2>2, <3>3, Short
  <2>4. Head(waiting') = "forward"
    BY <1>1, <2>3, Short DEF Leaves, Release
  <2>5. passed = 0 \/ passed = 1
    BY <2>1 DEF AdapterInv, PolledOnce
  <2> QED
    BY <2>4, <2>5
<1> QED
  BY <1>2, <1>3, <1>4, <1>7, <1>8 DEF AdapterInv

(* The numbers are numbers.                                                *)
LEMMA Numbers ==
  ASSUME AdapterInv
  PROVE  /\ emitted \in Nat /\ Len(inbox) \in Nat /\ Len(done) \in Nat
         /\ DOMAIN inbox = 1 .. Len(inbox) /\ DOMAIN done = 1 .. Len(done)
         /\ \A i \in DOMAIN inbox : inbox[i].n \in Nat
         /\ \A i \in DOMAIN done : done[i].n \in Nat
         /\ \A c \in Coroutines : doing[c] \in Calls /\ doing[c].n \in Nat
<1>1. inbox \in Seq([kind : Kinds, n : Nat]) /\ done \in Seq(Calls)
  BY DEF AdapterInv, AdapterTypeOK
<1>2. /\ Len(inbox) \in Nat /\ DOMAIN inbox = 1 .. Len(inbox)
      /\ \A i \in DOMAIN inbox : inbox[i] \in [kind : Kinds, n : Nat]
  BY <1>1, LenProperties, ElementOfSeq
<1>3. /\ Len(done) \in Nat /\ DOMAIN done = 1 .. Len(done)
      /\ \A i \in DOMAIN done : done[i] \in Calls
  BY <1>1, LenProperties, ElementOfSeq
<1> QED
  BY <1>2, <1>3 DEF AdapterInv, AdapterTypeOK, Calls

(* The coordinator relays a message.                                       *)
LEMMA EmitKeeps ==
  ASSUME AdapterInv, NEW kind \in Kinds, Emit(kind)
  PROVE  AdapterInv'
<1> DEFINE m == [kind |-> kind, n |-> emitted + 1]
<1>1. /\ emitted' = emitted + 1 /\ inbox' = Append(inbox, m)
      /\ UNCHANGED <<waiting, at, doing, requests, replies, link, alive, done, passed>>
  BY DEF Emit, calls, wires
<1>2. m \in [kind : Kinds, n : Nat] /\ m.n = emitted + 1
  BY Numbers
<1>3. /\ inbox' \in Seq([kind : Kinds, n : Nat]) /\ Len(inbox') = Len(inbox) + 1
      /\ \A i \in 1 .. Len(inbox) : inbox'[i] = inbox[i]
      /\ inbox'[Len(inbox) + 1] = m
  <2> HIDE DEF m
  <2> QED
    BY <1>1, <1>2, AppendProperties DEF AdapterInv, AdapterTypeOK
<1>4. DOMAIN inbox' = 1 .. Len(inbox) + 1
  BY <1>3, LenProperties
<1>5. \A j \in DOMAIN inbox' :
        \/ j \in DOMAIN inbox /\ inbox'[j].n = inbox[j].n
        \/ j = Len(inbox) + 1 /\ inbox'[j].n = emitted + 1
  BY <1>2, <1>3, <1>4, Numbers
<1>6. AdapterTypeOK'
  BY <1>1, <1>3, Numbers DEF AdapterInv, AdapterTypeOK
<1>7. Ordered' /\ InOrder'
  <2>1. \A i \in DOMAIN inbox' : inbox'[i].n <= emitted'
    BY <1>1, <1>5, Numbers DEF AdapterInv, Ordered
  <2>2. \A i, j \in DOMAIN inbox' : i < j => inbox'[i].n < inbox'[j].n
    BY <1>5, Numbers DEF AdapterInv, Ordered
  <2>3. \A i \in DOMAIN done : done[i].n <= emitted'
    BY <1>1, Numbers DEF AdapterInv, Ordered
  <2>4. \A i \in DOMAIN done, j \in DOMAIN inbox' : done[i].n < inbox'[j].n
    BY <1>5, Numbers DEF AdapterInv, Ordered
  <2>5. Waits("forward") =>
          /\ doing["forward"].n <= emitted'
          /\ \A j \in DOMAIN inbox' : doing["forward"].n < inbox'[j].n
    BY <1>1, <1>5, Numbers DEF AdapterInv, Ordered, Coroutines
  <2> QED
    BY <1>1, <2>1, <2>2, <2>3, <2>4, <2>5
       DEF AdapterInv, Ordered, InOrder, Waits, Unserved
<1>8. Queue' /\ OneUnderWay' /\ LinkDown' /\ PolledOnce'
  BY <1>1 DEF AdapterInv, Queue, Waits, OneUnderWay, Asked, Answered, LinkDown, PolledOnce
<1> QED
  BY <1>6, <1>7, <1>8 DEF AdapterInv

(* The poll wakes up and asks for the status.                              *)
LEMMA PollWakesKeeps == AdapterInv /\ PollWakes => AdapterInv'
<1> SUFFICES ASSUME AdapterInv, PollWakes PROVE AdapterInv'
  OBVIOUS
<1>1. Poll("get_status") \in Calls
  BY DEF Poll, Calls, Methods
<1>2. ~Waits("poll")
  BY DEF PollWakes, Waits
<1> QED
  BY <1>1, <1>2, PollAsks DEF PollWakes

(* The poll publishes, or reports an error.                                *)
LEMMA PollPublishesKeeps == AdapterInv /\ PollPublishes => AdapterInv'
<1> SUFFICES ASSUME AdapterInv, PollPublishes PROVE AdapterInv'
  OBVIOUS
<1>1. ~Waits("poll")
  BY DEF PollPublishes, Waits
<1>2. CASE Ask("poll", Poll("get_joint_pos"))
  <2>1. Poll("get_joint_pos") \in Calls
    BY DEF Poll, Calls, Methods
  <2> QED
    BY <1>1, <1>2, <2>1, PollAsks DEF PollPublishes
<1>3. CASE at' = [at EXCEPT !["poll"] = "sleep"] /\ UNCHANGED <<waiting, doing>>
  <2>1. /\ UNCHANGED <<emitted, inbox, requests, replies, link, done, passed>>
        /\ "poll" \in Coroutines /\ "forward" \in Coroutines
    BY DEF PollPublishes, wires, Coroutines
  <2>2. /\ at' \in [Coroutines -> Places] /\ at'["poll"] = "sleep"
        /\ at'["forward"] = at["forward"]
    BY <1>3, <2>1 DEF AdapterInv, AdapterTypeOK, Coroutines, Places
  <2>3. \A d \in Coroutines : Waits(d)' <=> Waits(d)
    BY <1>1, <2>2 DEF Waits, Coroutines
  <2>4. \A d \in Coroutines : Waits(d) => at'[d] = at[d]
    BY <1>1, <2>2 DEF Coroutines
  <2>5. AdapterTypeOK'
    BY <1>3, <2>1, <2>2 DEF AdapterInv, AdapterTypeOK
  <2>6. Queue'
    <3>1. \A d \in Coroutines : Other(d) \in Coroutines
      BY DEF Other, Coroutines
    <3>2. \A d \in Coroutines : at[d] = "lock" => at'[d] = "lock"
      BY <2>4 DEF Waits
    <3> QED
      BY <1>3, <2>3, <3>1, <3>2 DEF AdapterInv, Queue
  <2>7. OneUnderWay' /\ LinkDown'
    <3>1. \A d \in Coroutines : at[d] = "reply" => at'[d] = "reply"
      BY <2>4 DEF Waits
    <3>2. \A d \in Coroutines : Asked(d)' <=> Asked(d)
      BY <1>3, <2>1 DEF Asked
    <3>3. \A d \in Coroutines : Answered(d)' <=> Answered(d)
      BY <2>1 DEF Answered
    <3> QED
      BY <2>1, <3>1, <3>2, <3>3 DEF AdapterInv, OneUnderWay, LinkDown
  <2>8. Ordered' /\ InOrder'
    BY <1>3, <2>1, <2>2 DEF AdapterInv, Ordered, InOrder, Unserved, Waits
  <2>9. PolledOnce'
    <3>1. at["poll"] # "reply"
      BY <1>1 DEF Waits
    <3> QED
      BY <1>3, <2>1, <2>2, <3>1 DEF AdapterInv, PolledOnce
  <2> QED
    BY <2>5, <2>6, <2>7, <2>8, <2>9 DEF AdapterInv
<1> QED
  BY <1>2, <1>3 DEF PollPublishes

(* What is left of the inbox when its head is read.                        *)
LEMMA InboxTail ==
  ASSUME AdapterInv, inbox # <<>>, inbox' = Tail(inbox)
  PROVE  /\ inbox' \in Seq([kind : Kinds, n : Nat])
         /\ 1 \in DOMAIN inbox /\ Head(inbox) = inbox[1]
         /\ \A j \in DOMAIN inbox' :
              j \in Nat /\ 1 < j + 1 /\ j + 1 \in DOMAIN inbox /\ inbox'[j] = inbox[j + 1]
<1>1. inbox \in Seq([kind : Kinds, n : Nat])
  BY DEF AdapterInv, AdapterTypeOK
<1>2. /\ inbox' \in Seq([kind : Kinds, n : Nat]) /\ Len(inbox') = Len(inbox) - 1
      /\ \A i \in 1 .. Len(inbox') : inbox'[i] = inbox[i + 1]
  BY <1>1, HeadTailProperties
<1>3. Len(inbox) \in Nat /\ Len(inbox) >= 1
  BY <1>1, EmptySeq, LenProperties
<1>4. DOMAIN inbox' = 1 .. Len(inbox')
  BY <1>2, LenProperties
<1> QED
  BY <1>1, <1>2, <1>3, <1>4, Numbers

(* The forwarder asks for the lock with the message it has read.           *)
LEMMA ForwardAsks ==
  ASSUME AdapterInv, at["forward"] = "read", inbox # <<>>, inbox' = Tail(inbox),
         NEW call \in Calls, call.n = Head(inbox).n, Ask("forward", call),
         passed' = 0, UNCHANGED <<emitted, wires, link, done>>
  PROVE  AdapterInv'
<1>1. /\ UNCHANGED <<requests, replies>> /\ "forward" \in Coroutines
      /\ ~Waits("forward")
  BY DEF wires, Coroutines, Waits
<1>2. at'["forward"] = "lock" /\ doing'["forward"] = call
  BY <1>1, AskTypes
<1>3. AdapterTypeOK'
  BY <1>1, AskTypes, InboxTail DEF AdapterInv, AdapterTypeOK
<1>4. Queue' /\ OneUnderWay' /\ LinkDown'
  BY <1>1, AskQueues, AskUnderWay
<1>5. Ordered'
  <2>1. \A i \in DOMAIN inbox' : inbox'[i].n <= emitted
    BY InboxTail DEF AdapterInv, Ordered
  <2>2. \A i, j \in DOMAIN inbox' : i < j => inbox'[i].n < inbox'[j].n
    BY InboxTail DEF AdapterInv, Ordered
  <2>3. \A i \in DOMAIN done, j \in DOMAIN inbox' : done[i].n < inbox'[j].n
    BY InboxTail DEF AdapterInv, Ordered
  <2>4. call.n <= emitted /\ \A j \in DOMAIN inbox' : call.n < inbox'[j].n
    BY InboxTail DEF AdapterInv, Ordered
  <2>5. \A i \in DOMAIN done : done[i].n < call.n
    BY InboxTail DEF AdapterInv, Ordered
  <2> QED
    BY <1>2, <2>1, <2>2, <2>3, <2>4, <2>5 DEF AdapterInv, Ordered
<1>6. InOrder' /\ PolledOnce'
  BY DEF AdapterInv, InOrder, PolledOnce
<1> QED
  BY <1>3, <1>4, <1>5, <1>6 DEF AdapterInv

(* The forwarder reads the next message.                                   *)
LEMMA ForwardReadsKeeps == AdapterInv /\ ForwardReads => AdapterInv'
<1> SUFFICES ASSUME AdapterInv, ForwardReads PROVE AdapterInv'
  OBVIOUS
<1> DEFINE call(method) == [method |-> method, n |-> Head(inbox).n]
<1>1. /\ at["forward"] = "read" /\ inbox # <<>> /\ inbox' = Tail(inbox) /\ passed' = 0
      /\ UNCHANGED <<emitted, requests, replies, link, done>>
      /\ UNCHANGED <<emitted, wires, link, done>>
  BY DEF ForwardReads, wires
<1>2. \A method \in Methods : call(method) \in Calls /\ call(method).n = Head(inbox).n
  BY <1>1, InboxTail, Numbers DEF Calls
<1>3. ASSUME NEW method \in Methods, Ask("forward", call(method)) PROVE AdapterInv'
  <2> HIDE DEF call
  <2> QED
    BY <1>1, <1>2, <1>3, ForwardAsks
<1>4. CASE UNCHANGED calls
  <2>1. UNCHANGED <<waiting, at, doing>>
    BY <1>4 DEF calls
  <2>2. AdapterTypeOK'
    BY <1>1, <2>1, InboxTail DEF AdapterInv, AdapterTypeOK
  <2>3. Queue' /\ OneUnderWay' /\ LinkDown' /\ InOrder'
    BY <1>1, <2>1
       DEF AdapterInv, Queue, Waits, OneUnderWay, Asked, Answered, LinkDown, InOrder
  <2>4. PolledOnce'
    BY <1>1 DEF PolledOnce
  <2>5. Ordered'
    <3>1. /\ \A i \in DOMAIN inbox' : inbox'[i].n <= emitted
          /\ \A i \in DOMAIN done, j \in DOMAIN inbox' : done[i].n < inbox'[j].n
      BY <1>1, InboxTail DEF AdapterInv, Ordered
    <3>2. \A i, j \in DOMAIN inbox' : i < j => inbox'[i].n < inbox'[j].n
      BY <1>1, InboxTail DEF AdapterInv, Ordered
    <3>3. ~Waits("forward") /\ ~Unserved
      BY <1>1 DEF Waits, Unserved
    <3> QED
      BY <1>1, <2>1, <3>1, <3>2, <3>3 DEF AdapterInv, Ordered, Waits, Unserved
  <2> QED
    BY <2>2, <2>3, <2>4, <2>5 DEF AdapterInv
<1>5. "command_joint_pos" \in Methods /\ "zero_torque_mode" \in Methods
  BY DEF Methods
<1>6. \/ UNCHANGED calls
      \/ Ask("forward", call("command_joint_pos"))
      \/ Ask("forward", call("zero_torque_mode"))
  BY DEF ForwardReads
<1> QED
  BY <1>3, <1>4, <1>5, <1>6

-----------------------------------------------------------------------------
(* The holder of the lock sends: nothing was under way before.             *)
LEMMA RequestSent ==
  ASSUME AdapterInv, NEW c \in Coroutines, at[c] = "lock", Head(waiting) = c, link,
         requests' = Append(requests, [by |-> c, call |-> doing[c]]),
         at' = [at EXCEPT ![c] = "reply"],
         passed' = IF c = "poll" /\ passed < 2 THEN passed + 1 ELSE passed,
         UNCHANGED <<waiting, doing, emitted, inbox, replies, link, done>>
  PROVE  AdapterInv'
<1>1. /\ at' \in [Coroutines -> Places] /\ at'[c] = "reply"
      /\ \A d \in Coroutines \ {c} : at'[d] = at[d]
      /\ at'["poll"] # "read" /\ at'["forward"] \in {"read", "lock", "reply"}
      /\ "poll" \in Coroutines /\ "forward" \in Coroutines
  BY DEF AdapterInv, AdapterTypeOK, Coroutines, Places
<1>2. Waits(c) /\ \A d \in Coroutines : Waits(d)' <=> Waits(d)
  BY <1>1 DEF Waits
<1>3. requests = <<>> /\ replies = <<>>
  BY <1>2, UnderWayOf
<1>4. requests' = <<[by |-> c, call |-> doing[c]]>>
  BY <1>3
<1>5. AdapterTypeOK'
  <2>1. passed' \in Nat
    BY DEF AdapterInv, AdapterTypeOK
  <2> QED
    BY <1>1, <2>1 DEF AdapterInv, AdapterTypeOK
<1>6. Queue'
  <2>1. \A d \in Coroutines : Other(d) \in Coroutines /\ Other(d) # d
    BY DEF Other, Coroutines
  <2>2. PICK d \in Coroutines :
          \/ waiting = <<d>> /\ Waits(d) /\ ~Waits(Other(d))
          \/ waiting = <<d, Other(d)>> /\ Waits(d) /\ at[Other(d)] = "lock"
    BY <1>2 DEF AdapterInv, Queue
  <2>3. d = c
    BY <2>1, <2>2, Short
  <2> QED
    BY <1>1, <1>2, <2>1, <2>2, <2>3 DEF Queue
<1>7. OneUnderWay' /\ LinkDown'
  <2>1. Asked(c)'
    BY <1>3, <1>4 DEF Asked
  <2> QED
    BY <1>1, <2>1 DEF OneUnderWay, LinkDown
<1>8. Ordered' /\ InOrder'
  <2>1. Unserved' => Unserved
    <3>1. ASSUME at["forward"] = "reply" PROVE FALSE
      BY <1>1, <3>1, HeadReplies
    <3> QED
      BY <1>1, <3>1 DEF Unserved
  <2> QED
    BY <1>1, <1>2, <2>1 DEF AdapterInv, Ordered, InOrder
<1>9. PolledOnce'
  <2> SUFFICES ASSUME at'["forward"] = "lock"
               PROVE  passed' = 1 /\ at'["poll"] = "reply"
    BY DEF PolledOnce
  <2>1. c = "poll" /\ at["forward"] = "lock"
    BY <1>1 DEF Coroutines
  <2>2. passed = 0
    BY <2>1 DEF AdapterInv, PolledOnce
  <2> QED
    BY <1>1, <2>1, <2>2
<1> QED
  BY <1>5, <1>6, <1>7, <1>8, <1>9 DEF AdapterInv

(* A call that fails or succeeds leaves the lock.                          *)
LEMMA EndsLeave ==
  ASSUME AdapterInv, NEW c \in Coroutines, Succeed(c) \/ Fail(c)
  PROVE  /\ Leaves(c)
         /\ at'["poll"] # "read" /\ at'["forward"] \in {"read", "lock", "reply"}
BY DEF AdapterInv, AdapterTypeOK, Succeed, Fail, Leaves, Coroutines

(* The first in the queue sends.                                           *)
LEMMA SendKeeps ==
  ASSUME AdapterInv, NEW c \in Coroutines, Send(c)
  PROVE  AdapterInv'
<1>1. /\ at[c] = "lock" /\ Head(waiting) = c /\ Waits(c)
      /\ UNCHANGED <<emitted, inbox, replies, link, done>>
  BY DEF Send, MaySend, Waits
<1>2. CASE link
  BY <1>1, <1>2, RequestSent DEF Send
<1>3. CASE ~link /\ Fail(c) /\ UNCHANGED <<requests, passed>>
  <2>1. requests = <<>> /\ replies = <<>>
    BY <1>3 DEF AdapterInv, LinkDown
  <2> QED
    BY <1>1, <1>3, <2>1, EndsLeave, CallEnds
<1> QED
  BY <1>2, <1>3 DEF Send

(* The reply is read, or the link is found broken.                         *)
LEMMA ReceiveKeeps ==
  ASSUME AdapterInv, NEW c \in Coroutines, Receive(c)
  PROVE  AdapterInv'
<1>1. /\ at[c] = "reply" /\ Waits(c)
      /\ UNCHANGED <<emitted, inbox, requests, link, done, passed>>
  BY DEF Receive, Waits
<1>2. \/ requests = <<>> /\ replies = <<>>
      \/ Asked(c) \/ Answered(c)
  BY <1>1, HeadReplies, UnderWayOf
<1>3. CASE replies # <<>>
  <2>1. requests = <<>>
    BY <1>2, <1>3 DEF Asked, Answered
  <2>2. PICK ok \in BOOLEAN : replies = <<[to |-> c, ok |-> ok]>>
    BY <1>2, <1>3 DEF Asked, Answered
  <2>3. Head(replies) = [to |-> c, ok |-> ok] /\ Tail(replies) = <<>>
    BY <2>2
  <2>4. Head(replies).to = c
    BY <2>3
  <2>5. replies' = Tail(replies)
    BY <1>3 DEF Receive
  <2>6. Succeed(c) \/ Fail(c)
    BY <1>3, <2>4 DEF Receive
  <2> QED
    BY <1>1, <2>1, <2>3, <2>5, <2>6, EndsLeave, CallEnds
<1>4. CASE ~link /\ replies = <<>> /\ Fail(c) /\ UNCHANGED replies
  <2>1. requests = <<>>
    BY <1>4 DEF AdapterInv, LinkDown
  <2> QED
    BY <1>1, <1>4, <2>1, EndsLeave, CallEnds
<1> QED
  BY <1>3, <1>4 DEF Receive

-----------------------------------------------------------------------------
(* The control server carries out a request and answers.                   *)
LEMMA AnswerKeeps == AdapterInv /\ Answer => AdapterInv'
<1> SUFFICES ASSUME AdapterInv, Answer PROVE AdapterInv'
  OBVIOUS
<1>1. UNCHANGED <<emitted, inbox, waiting, at, doing, link, alive, passed>>
  BY DEF Answer, calls
<1>2. PICK c \in Coroutines : at[c] = "reply" /\ Asked(c)
  BY DEF Answer, AdapterInv, OneUnderWay, Answered
<1> DEFINE request == [by |-> c, call |-> doing[c]]
<1>3. requests = <<request>> /\ replies = <<>> /\ requests' = <<>>
  BY <1>2 DEF Asked, Answer
<1>4. Head(requests) = request
  BY <1>3
<1>5. replies' = <<>> \/ \E ok \in BOOLEAN : replies' = <<[to |-> c, ok |-> ok]>>
  <2>1. request.by = c
    OBVIOUS
  <2>2. \E ok \in BOOLEAN :
          \/ replies' = Append(replies, [to |-> request.by, ok |-> ok])
          \/ replies' = replies
    <3> HIDE DEF request
    <3> QED
      BY <1>4 DEF Answer
  <2>3. \A ok \in BOOLEAN :
          Append(<<>>, [to |-> c, ok |-> ok]) = <<[to |-> c, ok |-> ok]>>
    OBVIOUS
  <2> QED
    BY <1>3, <2>1, <2>2, <2>3
<1>6. \/ done' = done
      \/ c = "forward" /\ done' = Append(done, doing[c])
  BY <1>4 DEF Answer
<1>7. Queue' /\ PolledOnce'
  BY <1>1 DEF AdapterInv, Queue, Waits, PolledOnce
<1>8. OneUnderWay'
  BY <1>1, <1>2, <1>3, <1>5 DEF OneUnderWay, Answered
<1>9. LinkDown'
  <2>1. link
    BY <1>3 DEF AdapterInv, LinkDown
  <2> QED
    BY <1>1, <2>1 DEF LinkDown
<1>10. Unserved' => at["forward"] = "lock"
  BY <1>1, <1>3 DEF Unserved
<1>11. CASE done' = done
  <2>1. AdapterTypeOK'
    BY <1>1, <1>11 DEF AdapterInv, AdapterTypeOK
  <2>2. Ordered' /\ InOrder'
    BY <1>1, <1>10, <1>11 DEF AdapterInv, Ordered, InOrder, Unserved, Waits
  <2> QED
    BY <1>7, <1>8, <1>9, <2>1, <2>2 DEF AdapterInv
<1>12. CASE c = "forward" /\ done' = Append(done, doing[c])
  <2>1. doing[c] \in Calls /\ doing[c].n \in Nat
    BY Numbers
  <2>2. /\ done' \in Seq(Calls) /\ Len(done') = Len(done) + 1
        /\ \A i \in 1 .. Len(done) : done'[i] = done[i]
        /\ done'[Len(done) + 1] = doing[c]
    BY <1>12, <2>1, AppendProperties DEF AdapterInv, AdapterTypeOK
  <2>3. DOMAIN done' = 1 .. Len(done) + 1
    BY <2>2, LenProperties
  <2>4. \A i \in DOMAIN done' :
          \/ i \in DOMAIN done /\ done'[i] = done[i]
          \/ i = Len(done) + 1 /\ done'[i] = doing[c]
    BY <2>2, <2>3, Numbers
  <2>5. AdapterTypeOK'
    BY <1>1, <2>2 DEF AdapterInv, AdapterTypeOK
  <2>6. Waits("forward") /\ Unserved
    BY <1>2, <1>3, <1>12 DEF Waits, Unserved
  <2>7. ~Unserved'
    BY <1>2, <1>10, <1>12
  <2>8. Ordered'
    <3>1. \A i \in DOMAIN done' : done'[i].n <= emitted
      BY <1>12, <2>4, <2>6 DEF AdapterInv, Ordered
    <3>2. \A i \in DOMAIN done', j \in DOMAIN inbox : done'[i].n < inbox[j].n
      BY <1>12, <2>4, <2>6 DEF AdapterInv, Ordered
    <3> QED
      BY <1>1, <2>7, <3>1, <3>2 DEF AdapterInv, Ordered, Waits
  <2>9. InOrder'
    <3>1. \A i \in DOMAIN done : done[i].n < doing[c].n
      BY <1>12, <2>6 DEF AdapterInv, Ordered
    <3> QED
      BY <2>4, <3>1, Numbers DEF AdapterInv, InOrder
  <2> QED
    BY <1>7, <1>8, <1>9, <2>5, <2>8, <2>9 DEF AdapterInv
<1> QED
  BY <1>6, <1>11, <1>12

(* The link breaks, with what is under way.                                *)
LEMMA BreakKeeps == AdapterInv /\ Break => AdapterInv'
<1> SUFFICES ASSUME AdapterInv, Break PROVE AdapterInv'
  OBVIOUS
<1>1. /\ UNCHANGED <<emitted, inbox, waiting, at, doing, done, passed>>
      /\ requests' = <<>> /\ replies' = <<>>
  BY DEF Break, calls
<1>2. AdapterTypeOK' /\ Queue' /\ PolledOnce'
  BY <1>1 DEF AdapterInv, AdapterTypeOK, Queue, Waits, PolledOnce
<1>3. OneUnderWay' /\ LinkDown'
  BY <1>1 DEF OneUnderWay, LinkDown
<1>4. Ordered' /\ InOrder'
  BY <1>1 DEF AdapterInv, Ordered, InOrder, Unserved, Waits
<1> QED
  BY <1>2, <1>3, <1>4 DEF AdapterInv

-----------------------------------------------------------------------------
(* A stuttering step.                                                      *)
LEMMA AdapterStutters ==
  ASSUME AdapterInv, UNCHANGED vars
  PROVE  AdapterInv'
<1>1. UNCHANGED <<emitted, inbox, waiting, at, doing, requests, replies, link, done, passed>>
  BY DEF vars, calls, wires
<1>2. AdapterTypeOK' /\ Queue' /\ PolledOnce'
  BY <1>1 DEF AdapterInv, AdapterTypeOK, Queue, Waits, PolledOnce
<1>3. OneUnderWay' /\ LinkDown'
  BY <1>1 DEF AdapterInv, OneUnderWay, Asked, Answered, LinkDown
<1>4. Ordered' /\ InOrder'
  BY <1>1 DEF AdapterInv, Ordered, InOrder, Unserved, Waits
<1> QED
  BY <1>2, <1>3, <1>4 DEF AdapterInv

(* Every step of the adapter preserves the invariant.                      *)
LEMMA AdapterSteps == AdapterInv /\ [Next]_vars => AdapterInv'
<1> SUFFICES ASSUME AdapterInv, [Next]_vars PROVE AdapterInv'
  OBVIOUS
<1>1. ASSUME NEW kind \in Kinds, Emit(kind) PROVE AdapterInv'
  BY <1>1, EmitKeeps
<1>2. ASSUME NEW c \in Coroutines, Step(c) PROVE AdapterInv'
  BY <1>2, SendKeeps, ReceiveKeeps DEF Step
<1>3. CASE UNCHANGED vars
  BY <1>3, AdapterStutters
<1> QED
  BY <1>1, <1>2, <1>3, PollWakesKeeps, PollPublishesKeeps, ForwardReadsKeeps,
     AnswerKeeps, BreakKeeps DEF Next

(* The lock of the adapter is first come first served, one call is under   *)
(* way at most, and messages keep their order, for any number of them.     *)
THEOREM AdapterInvariant == Spec => []AdapterInv
<1>1. Init => AdapterInv
  BY AdapterStarts
<1>2. AdapterInv /\ [Next]_vars => AdapterInv'
  BY AdapterSteps
<1> QED
  BY <1>1, <1>2, PTL DEF Spec

(* The two coroutines never wait for a reply of the connection they share  *)
(* at the same time, and a reply is there for the one that waits (29-46):  *)
(* only the first in the lock's queue has sent.                            *)
THEOREM OneReaderAtATime == Spec => []OneReader
<1>1. AdapterInv => OneReader
  <2> SUFFICES ASSUME AdapterInv PROVE OneReader
    OBVIOUS
  <2>1. ~\A c \in Coroutines : at[c] = "reply"
    <3> SUFFICES ASSUME \A c \in Coroutines : at[c] = "reply" PROVE FALSE
      OBVIOUS
    <3>1. Head(waiting) = "poll" /\ Head(waiting) = "forward"
      BY HeadReplies DEF Coroutines
    <3> QED
      BY <3>1
  <2>2. \A i \in DOMAIN replies : at[replies[i].to] = "reply"
    <3>1. CASE replies = <<>>
      BY <3>1
    <3>2. ASSUME NEW c \in Coroutines, NEW ok \in BOOLEAN, at[c] = "reply",
                 replies = <<[to |-> c, ok |-> ok]>>
          PROVE  \A i \in DOMAIN replies : at[replies[i].to] = "reply"
      BY <3>2
    <3> QED
      BY <3>1, <3>2 DEF AdapterInv, OneUnderWay, Asked, Answered
  <2> QED
    BY <2>1, <2>2 DEF OneReader
<1> QED
  BY <1>1, AdapterInvariant, PTL

(* Commands and stops take effect in the order the coordinator relayed     *)
(* them, each at most once, whatever fails on the way (90-101).            *)
THEOREM StopsInOrder == Spec => []InOrder
<1>1. AdapterInv => InOrder
  BY DEF AdapterInv
<1> QED
  BY <1>1, AdapterInvariant, PTL

(* A stop that has been read waits for at most one call of the poll: who   *)
(* asks for the lock comes last (29-36).                                   *)
THEOREM StopWaitsBriefly == Spec => []StopWaitsForOnePoll
<1>1. AdapterInv => StopWaitsForOnePoll
  BY DEF AdapterInv, PolledOnce, StopWaitsForOnePoll
<1> QED
  BY <1>1, AdapterInvariant, PTL

(***************************************************************************)
(* The stack.                                                              *)
(***************************************************************************)

(* Types, of the processes and of what the operators are in.               *)
Terminals == {"operator", "dashboard"}
OwnerProgs == {"hybrid", "modal", "direct", "both", "control"}
Progs == Polling \cup {"control", "bridge"}
Options == SUBSET {"clear", "ignore"}
Points ==
  {"none", "starts", "opens", "turn", "asks", "moves", "corrects", "restores", "restoring",
   "serves"}

ProcessType ==
  [prog : Progs \cup {"none"}, at : Points, opts : Options, flag : BOOLEAN, left : Nat,
   shell : BOOLEAN]

(* What may be left to do of a stop, which names or steps.                 *)
Todos ==
  {<<>>, <<"model", "control", "bridge">>, <<"control", "bridge">>, <<"bridge">>, <<"model">>,
   <<"model", "clear">>, <<"clear">>, <<"bridge", "start">>, <<"start">>}

(* Where a command is while it starts something in the background: at the  *)
(* start of a bridge, and in _start_background.                            *)
Bridging == {"bridge", "lines", "adopts", "adopt"}
Underway == Bridging \cup {"look", "list", "spawn", "record"}
Stages == Underway \cup {"idle", "guard", "check", "wait", "launch", "waits", "stop"}
Nows == OwnerProgs \cup {"bridge", "none"}

CommandType ==
  [pc : Stages, want : OwnerProgs \cup {"none"}, now : Nows, opts : Options, back : BOOLEAN,
   todo : Todos, child : Pids \cup {NoPid}]

LoopTypeOK ==
  /\ stopFile \in BOOLEAN /\ socket \in BOOLEAN /\ asked \in BOOLEAN
  /\ proc \in [Pids -> ProcessType]
  /\ after \in [Pids -> Nat]

StackTypeOK ==
  /\ LoopTypeOK
  /\ cast \in Casts
  /\ pidfile \in [Names -> Pids \cup {NoPid}]
  /\ op \in [Terminals -> CommandType]
  /\ crossed \in BOOLEAN

(* Where a command can be, with what it wants.                             *)
Sensible(o, c) ==
  /\ c.pc = "stop" <=> c.todo # <<>>
  /\ c.pc \in {"waits", "adopt", "record"} <=> c.child # NoPid
  /\ c.pc \in Underway <=> c.now # "none"
  /\ c.now \notin {"none", "bridge"} =>
       c.now = c.want /\ c.back /\ c.pc \notin Bridging
  /\ c.pc \in {"guard", "check", "launch"} => c.want # "none"
  /\ c.back => c.want \in {"hybrid", "modal", "control"}
  /\ o = "dashboard" => c.want = "none"

CommandsMakeSense == \A o \in Terminals : Sensible(o, op[o])

-----------------------------------------------------------------------------
(* The guard of yamctl: whoever has passed it finds no owner until the     *)
(* launch.                                                                 *)
Cleared(c) ==
  /\ c.want # "none"
  /\ \/ c.pc \in {"check", "wait", "launch", "look", "list", "spawn"} \/ c.pc \in Bridging
     \/ c.pc = "record" /\ c.now = "bridge"
GuardHolds == \A o \in Terminals : Cleared(op[o]) => Owners = {}

(* What is in the background has a pid file.                               *)
BackgroundHasName ==
  \A p \in Pids :
    Live(p) /\ ~proc[p].shell => proc[p].prog \in {"hybrid", "modal", "control", "bridge"}

(* An owner that is to be written to a pid file is the one that was        *)
(* started.                                                                *)
OwnerFound(c) ==
  c.pc = "record" /\ c.now # "bridge" => \A p \in Owners : p = c.child /\ proc[p].prog = c.now
OwnersFound == \A o \in Operators : OwnerFound(op[o])

(* As long as one at a time starts bridges, one runs, and it is the one    *)
(* that a command has found, or there is none as the command has found.    *)
OneBridgeRuns == \A p, q \in Running("bridge") : p = q

BridgeFound(c) ==
  /\ c.pc = "spawn" /\ c.now = "bridge" => Running("bridge") = {}
  /\ c.pc \in {"adopt", "record"} /\ c.now = "bridge" => Running("bridge") \subseteq {c.child}

BridgesInOrder ==
  ~crossed => /\ OneBridgeRuns
              /\ \A x, y \in StartingBridge(op) : x = y
              /\ \A o \in Operators : BridgeFound(op[o])

-----------------------------------------------------------------------------
(* The commands that a process may send before it looks at HARD_STOP.      *)
AheadOf(prog, place, left) ==
  CASE place \in {"starts", "opens", "asks"}  -> MostAfter(prog)
    [] place = "moves" /\ prog = "hybrid"     -> left + Corrections
    [] place = "moves" /\ prog # "hybrid"     -> left
    [] place = "corrects"                     -> left
    [] place = "restoring"                    -> 1
    [] OTHER                               -> 0

Ahead(r) == AheadOf(r.prog, r.at, r.left)

WithinBudget ==
  \A p \in Pids :
    /\ ~Live(p) => after[p] = 0 /\ proc[p].at = "none"
    /\ Ahead(proc[p]) <= MostAfter(proc[p].prog)
    /\ stopFile => after[p] + Ahead(proc[p]) <= MostAfter(proc[p].prog)

StackInv ==
  /\ StackTypeOK /\ CommandsMakeSense /\ WithinBudget
  /\ GuardHolds /\ OneOwner
  /\ BackgroundHasName /\ OwnersFound /\ BridgesInOrder /\ BackgroundIsReachable

-----------------------------------------------------------------------------
(* What a step of a process comes to: it goes on or ends, and whatever it  *)
(* sends stays within its budget.                                          *)
LoopEffect(p) ==
  /\ LoopTypeOK' /\ WithinBudget'
  /\ \A q \in Pids : q # p => proc'[q] = proc[q]
  /\ proc'[p] = Gone \/ (proc'[p].prog = proc[p].prog /\ proc'[p].shell = proc[p].shell)

(* Types of the operators of the loops.                                    *)
LEMMA GoneType == Gone \in ProcessType
  BY DEF Gone, ProcessType, Points, Options

(* What a program may send at most is a number.                            *)
LEMMA MostType == \A prog : MostAfter(prog) \in Nat
  BY LoopAssumption DEF MostAfter

(* What it may still send is one as well.                                  *)
LEMMA AheadType ==
  ASSUME NEW prog, NEW place, NEW left \in Nat
  PROVE  AheadOf(prog, place, left) \in Nat
  BY MostType, LoopAssumption DEF AheadOf

(* A program goes on, at another place and with left commands to send.     *)
LEMMA Moving ==
  ASSUME LoopTypeOK, WithinBudget, NEW p \in Pids, NEW place \in Points, NEW n \in Nat,
         Live(p), Goes(p, place, n),
         stopFile' \in BOOLEAN, socket' \in BOOLEAN, asked' \in BOOLEAN,
         after' \in [Pids -> Nat],
         \A q \in Pids : q # p => after'[q] = after[q] \/ after'[q] = 0,
         AheadOf(proc[p].prog, place, n) <= MostAfter(proc[p].prog),
         stopFile' => stopFile /\ after'[p] + AheadOf(proc[p].prog, place, n) <= MostAfter(proc[p].prog)
  PROVE  LoopEffect(p)
<1> DEFINE r == [proc[p] EXCEPT !.at = place, !.left = n, !.opts = {}]
<1>1. proc[p] \in ProcessType
  BY DEF LoopTypeOK
<1>2. r \in ProcessType /\ r.prog = proc[p].prog /\ r.shell = proc[p].shell /\ r.at = place /\ r.left = n
  BY <1>1 DEF ProcessType, Options
<1>3. proc' = [proc EXCEPT ![p] = r]
  BY <1>1 DEF Goes, LoopTypeOK, ProcessType
<1> HIDE DEF r
<1>4. proc' \in [Pids -> ProcessType] /\ proc'[p] = r /\ \A q \in Pids : q # p => proc'[q] = proc[q]
  BY <1>2, <1>3 DEF LoopTypeOK
<1>5. LoopTypeOK'
  BY <1>4 DEF LoopTypeOK
<1>6. WithinBudget'
  <2> SUFFICES ASSUME NEW q \in Pids
               PROVE  /\ ~Live(q)' => after'[q] = 0 /\ proc'[q].at = "none"
                      /\ Ahead(proc'[q]) <= MostAfter(proc'[q].prog)
                      /\ stopFile' => after'[q] + Ahead(proc'[q]) <= MostAfter(proc'[q].prog)
    BY DEF WithinBudget
  <2>1. CASE q = p
    BY <2>1, <1>2, <1>4 DEF Live, Ahead
  <2>2. CASE q # p
    <3>1. proc'[q] = proc[q] /\ (after'[q] = after[q] \/ after'[q] = 0)
      BY <2>2, <1>4
    <3>2. proc[q] \in ProcessType /\ proc[q].left \in Nat
      BY DEF LoopTypeOK, ProcessType
    <3>3. Ahead(proc[q]) \in Nat /\ MostAfter(proc[q].prog) \in Nat /\ after[q] \in Nat
      BY <3>2, AheadType, MostType DEF Ahead, LoopTypeOK
    <3>4. /\ ~Live(q) => after[q] = 0 /\ proc[q].at = "none"
          /\ Ahead(proc[q]) <= MostAfter(proc[q].prog)
          /\ stopFile => after[q] + Ahead(proc[q]) <= MostAfter(proc[q].prog)
      BY DEF WithinBudget
    <3>5. Live(q)' <=> Live(q)
      BY <3>1 DEF Live
    <3> QED BY <3>1, <3>3, <3>4, <3>5
  <2> QED BY <2>1, <2>2
<1> QED BY <1>2, <1>4, <1>5, <1>6 DEF LoopEffect

(* It goes on without sending anything.                                    *)
LEMMA Continuing ==
  ASSUME LoopTypeOK, WithinBudget, NEW p \in Pids, NEW place \in Points, NEW n \in Nat,
         Live(p), Continues(p, place, n),
         stopFile' \in BOOLEAN, socket' \in BOOLEAN, asked' \in BOOLEAN,
         AheadOf(proc[p].prog, place, n) <= MostAfter(proc[p].prog),
         stopFile' => stopFile /\ AheadOf(proc[p].prog, place, n) <= Ahead(proc[p])
  PROVE  LoopEffect(p)
<1>1. Goes(p, place, n) /\ after' = after
  BY DEF Continues
<1>2. after' \in [Pids -> Nat] /\ \A q \in Pids : q # p => after'[q] = after[q] \/ after'[q] = 0
  BY <1>1 DEF LoopTypeOK
<1>3. stopFile => after[p] + Ahead(proc[p]) <= MostAfter(proc[p].prog)
  BY DEF WithinBudget
<1>4. /\ AheadOf(proc[p].prog, place, n) \in Nat /\ Ahead(proc[p]) \in Nat
      /\ MostAfter(proc[p].prog) \in Nat /\ after[p] \in Nat /\ after'[p] = after[p]
  <2>1. proc[p].left \in Nat
    BY DEF LoopTypeOK, ProcessType
  <2> QED BY <1>1, <2>1, AheadType, MostType DEF Ahead, LoopTypeOK
<1>5. stopFile' => stopFile /\ after'[p] + AheadOf(proc[p].prog, place, n) <= MostAfter(proc[p].prog)
  BY <1>3, <1>4
<1> QED BY <1>1, <1>2, <1>5, Moving

(* It goes on after it has sent a command.                                 *)
LEMMA Sending ==
  ASSUME LoopTypeOK, WithinBudget, NEW p \in Pids, NEW place \in Points, NEW n \in Nat,
         Live(p), Goes(p, place, n), Commands(p), Keeps,
         AheadOf(proc[p].prog, place, n) + 1 <= Ahead(proc[p])
  PROVE  LoopEffect(p)
<1>1. /\ after' \in [Pids -> Nat] /\ after'[p] <= after[p] + 1
      /\ \A q \in Pids : q # p => after'[q] = after[q] \/ after'[q] = 0
  BY DEF Commands, LoopTypeOK
<1>2. /\ Ahead(proc[p]) <= MostAfter(proc[p].prog)
      /\ stopFile => after[p] + Ahead(proc[p]) <= MostAfter(proc[p].prog)
  BY DEF WithinBudget
<1>3. /\ AheadOf(proc[p].prog, place, n) \in Nat /\ Ahead(proc[p]) \in Nat
      /\ MostAfter(proc[p].prog) \in Nat /\ after[p] \in Nat /\ after'[p] \in Nat
  <2>1. proc[p].left \in Nat
    BY DEF LoopTypeOK, ProcessType
  <2> QED BY <1>1, <2>1, AheadType, MostType DEF Ahead, LoopTypeOK
<1>4. /\ stopFile' = stopFile /\ stopFile' \in BOOLEAN /\ socket' \in BOOLEAN /\ asked' \in BOOLEAN
  BY DEF Keeps, LoopTypeOK
<1>5. /\ AheadOf(proc[p].prog, place, n) <= MostAfter(proc[p].prog)
      /\ stopFile => after'[p] + AheadOf(proc[p].prog, place, n) <= MostAfter(proc[p].prog)
  BY <1>1, <1>2, <1>3
<1>6. stopFile' => stopFile /\ after'[p] + AheadOf(proc[p].prog, place, n) <= MostAfter(proc[p].prog)
  BY <1>4, <1>5
<1> QED BY <1>1, <1>4, <1>5, <1>6, Moving

(* It ends.                                                                *)
LEMMA Exiting ==
  ASSUME LoopTypeOK, WithinBudget, NEW p \in Pids, Exits(p),
         stopFile' \in BOOLEAN, socket' \in BOOLEAN, asked' \in BOOLEAN, stopFile' => stopFile
  PROVE  LoopEffect(p)
<1>1. /\ proc' \in [Pids -> ProcessType] /\ proc'[p] = Gone
      /\ after' \in [Pids -> Nat] /\ after'[p] = 0
      /\ \A q \in Pids : q # p => proc'[q] = proc[q] /\ after'[q] = after[q]
  BY GoneType DEF Exits, LoopTypeOK
<1>2. LoopTypeOK'
  BY <1>1 DEF LoopTypeOK
<1>3. Gone.prog = "none" /\ Gone.at = "none" /\ Ahead(Gone) = 0 /\ MostAfter("none") = 1
  BY DEF Gone, Ahead, AheadOf, MostAfter
<1>4. WithinBudget'
  <2> SUFFICES ASSUME NEW q \in Pids
               PROVE  /\ ~Live(q)' => after'[q] = 0 /\ proc'[q].at = "none"
                      /\ Ahead(proc'[q]) <= MostAfter(proc'[q].prog)
                      /\ stopFile' => after'[q] + Ahead(proc'[q]) <= MostAfter(proc'[q].prog)
    BY DEF WithinBudget
  <2>1. CASE q = p
    BY <2>1, <1>1, <1>3
  <2>2. CASE q # p
    BY <2>2, <1>1 DEF WithinBudget, Live
  <2> QED BY <2>1, <2>2
<1> QED BY <1>1, <1>2, <1>4 DEF LoopEffect

(* It goes on and nothing else happens: what it may send by then is no     *)
(* more than before, or it has just looked at HARD_STOP.                   *)
LEMMA GoesOn ==
  ASSUME LoopTypeOK, WithinBudget, NEW p \in Pids, NEW place \in Points, NEW n \in Nat,
         Live(p), Continues(p, place, n), Keeps,
         \/ AheadOf(proc[p].prog, place, n) <= Ahead(proc[p])
         \/ ~stopFile /\ AheadOf(proc[p].prog, place, n) <= MostAfter(proc[p].prog)
  PROVE  LoopEffect(p)
<1>1. stopFile' = stopFile /\ stopFile' \in BOOLEAN /\ socket' \in BOOLEAN /\ asked' \in BOOLEAN
  BY DEF Keeps, LoopTypeOK
<1>2. /\ AheadOf(proc[p].prog, place, n) \in Nat /\ Ahead(proc[p]) \in Nat
      /\ MostAfter(proc[p].prog) \in Nat
  <2>1. proc[p].left \in Nat
    BY DEF LoopTypeOK, ProcessType
  <2> QED BY <2>1, AheadType, MostType DEF Ahead
<1>3. Ahead(proc[p]) <= MostAfter(proc[p].prog)
  BY DEF WithinBudget
<1>4. AheadOf(proc[p].prog, place, n) <= MostAfter(proc[p].prog)
  BY <1>2, <1>3
<1>5. stopFile' => stopFile /\ AheadOf(proc[p].prog, place, n) <= Ahead(proc[p])
  BY <1>1
<1> QED BY <1>1, <1>4, <1>5, Continuing

(* It ends and nothing else happens.                                       *)
LEMMA Quits ==
  ASSUME LoopTypeOK, WithinBudget, NEW p \in Pids, Exits(p), Keeps
  PROVE  LoopEffect(p)
<1>1. stopFile' = stopFile /\ stopFile' \in BOOLEAN /\ socket' \in BOOLEAN /\ asked' \in BOOLEAN
  BY DEF Keeps, LoopTypeOK
<1> QED BY <1>1, Exiting

(* Where a program is, by name.                                            *)
LEMMA AtFacts ==
  ASSUME LoopTypeOK, NEW p \in Pids, NEW prog, NEW place, At(p, prog, place), prog # "none"
  PROVE  /\ Live(p) /\ proc[p].prog = prog /\ proc[p].at = place /\ proc[p].left \in Nat
         /\ Ahead(proc[p]) = AheadOf(prog, place, proc[p].left)
  BY DEF At, Live, Ahead, LoopTypeOK, ProcessType

(* hybrid_robot_loop.py                                                    *)
LEMMA HybridSteps ==
  ASSUME LoopTypeOK, WithinBudget, NEW p \in Pids,
         \/ HybridStart(p) \/ HybridOpen(p) \/ HybridTurn(p) \/ HybridAnswer(p)
         \/ HybridMove(p) \/ HybridAfter(p) \/ HybridCorrect(p)
  PROVE  LoopEffect(p)
<1> DEFINE Most == Batch + Corrections
           left == proc[p].left
<1>0. /\ Batch \in Nat /\ Corrections \in Nat /\ Most \in Nat /\ MostAfter("hybrid") = Most
      /\ {"opens", "turn", "asks", "moves", "corrects"} \subseteq Points
  BY LoopAssumption DEF MostAfter, Points
<1>1. \A n \in Nat :
        /\ AheadOf("hybrid", "starts", n) = Most /\ AheadOf("hybrid", "opens", n) = Most
        /\ AheadOf("hybrid", "turn", n) = 0 /\ AheadOf("hybrid", "asks", n) = Most
        /\ AheadOf("hybrid", "moves", n) = n + Corrections
        /\ AheadOf("hybrid", "corrects", n) = n
  BY <1>0 DEF AheadOf
<1> HIDE DEF Most
<1>2. CASE HybridStart(p)
  <2>1. Live(p) /\ proc[p].prog = "hybrid" /\ Ahead(proc[p]) = Most
    BY <1>1, <1>2, AtFacts DEF HybridStart
  <2>2. CASE Exits(p) /\ Keeps
    BY <2>2, Quits
  <2>3. CASE Goes(p, "opens", 0) /\ UNCHANGED <<socket, stopFile, asked, after>>
    <3>1. Continues(p, "opens", 0) /\ Keeps
      BY <2>3 DEF Continues, Keeps
    <3> QED BY <2>1, <3>1, <1>0, <1>1, GoesOn
  <2>4. CASE /\ Goes(p, "opens", 0) /\ UNCHANGED socket
             /\ stopFile' = FALSE /\ asked' = FALSE /\ after' = [q \in Pids |-> 0]
    <3>1. /\ after' \in [Pids -> Nat] /\ \A q \in Pids : q # p => after'[q] = after[q] \/ after'[q] = 0
      BY <2>4
    <3>2. socket' \in BOOLEAN
      BY <2>4 DEF LoopTypeOK
    <3>3. AheadOf(proc[p].prog, "opens", 0) <= MostAfter(proc[p].prog)
      BY <1>0, <1>1, <2>1
    <3>4. "opens" \in Points /\ 0 \in Nat
      BY <1>0
    <3> QED BY <2>1, <2>4, <3>1, <3>2, <3>3, <3>4, Moving
  <2> QED BY <1>2, <2>2, <2>3, <2>4 DEF HybridStart
<1>3. CASE HybridOpen(p)
  <2>1. Live(p) /\ proc[p].prog = "hybrid" /\ Ahead(proc[p]) = Most
    BY <1>1, <1>3, AtFacts DEF HybridOpen
  <2>2. Keeps /\ (Continues(p, "turn", 0) \/ Exits(p))
    BY <1>3 DEF HybridOpen
  <2>3. AheadOf("hybrid", "turn", 0) <= Most
    BY <1>0, <1>1
  <2> QED BY <1>0, <2>1, <2>2, <2>3, GoesOn, Quits
<1>4. CASE HybridTurn(p)
  <2>1. Live(p) /\ proc[p].prog = "hybrid"
    BY <1>4, AtFacts DEF HybridTurn
  <2>2. Keeps /\ (Exits(p) \/ (~stopFile /\ Continues(p, "asks", 0)))
    BY <1>4 DEF HybridTurn, Blocked, Stopped
  <2>3. AheadOf("hybrid", "asks", 0) <= MostAfter("hybrid")
    BY <1>0, <1>1
  <2> QED BY <1>0, <2>1, <2>2, <2>3, GoesOn, Quits
<1>5. CASE HybridAnswer(p)
  <2>1. Live(p) /\ proc[p].prog = "hybrid" /\ Ahead(proc[p]) = Most
    BY <1>1, <1>5, AtFacts DEF HybridAnswer
  <2>2. Keeps /\ (Exits(p) \/ \E n \in 0 .. Batch : Continues(p, "moves", n))
    BY <1>5 DEF HybridAnswer, Extracted
  <2>3. CASE Exits(p)
    BY <2>2, <2>3, Quits
  <2>4. ASSUME NEW n \in 0 .. Batch, Continues(p, "moves", n) PROVE LoopEffect(p)
    <3>1. n \in Nat /\ AheadOf("hybrid", "moves", n) <= Most
      BY <1>0, <1>1 DEF Most
    <3> QED BY <1>0, <2>1, <2>2, <2>4, <3>1, GoesOn
  <2> QED BY <2>2, <2>3, <2>4
<1>6. CASE HybridMove(p)
  <2>1. Live(p) /\ proc[p].prog = "hybrid" /\ left \in Nat /\ Ahead(proc[p]) = left + Corrections
    BY <1>1, <1>6, AtFacts DEF HybridMove
  <2>2. Keeps /\ left > 0 /\ (Exits(p) \/ (Goes(p, "moves", left - 1) /\ Commands(p)))
    BY <1>6 DEF HybridMove
  <2>3. left - 1 \in Nat /\ AheadOf("hybrid", "moves", left - 1) + 1 <= left + Corrections
    BY <1>0, <1>1, <2>1, <2>2
  <2> HIDE DEF left
  <2> QED BY <1>0, <2>1, <2>2, <2>3, Sending, Quits
<1>7. CASE HybridAfter(p)
  <2>1. Live(p) /\ proc[p].prog = "hybrid" /\ left \in Nat /\ Ahead(proc[p]) = left + Corrections
    BY <1>1, <1>7, AtFacts DEF HybridAfter
  <2>2. Keeps /\ (Exits(p) \/ \E n \in 0 .. Corrections : Continues(p, "corrects", n))
    BY <1>7 DEF HybridAfter
  <2>3. CASE Exits(p)
    BY <2>2, <2>3, Quits
  <2>4. ASSUME NEW n \in 0 .. Corrections, Continues(p, "corrects", n) PROVE LoopEffect(p)
    <3>1. n \in Nat /\ AheadOf("hybrid", "corrects", n) <= left + Corrections
      BY <1>0, <1>1, <2>1
    <3> QED BY <1>0, <2>1, <2>2, <2>4, <3>1, GoesOn
  <2> QED BY <2>2, <2>3, <2>4
<1>8. CASE HybridCorrect(p)
  <2>1. Live(p) /\ proc[p].prog = "hybrid" /\ left \in Nat /\ Ahead(proc[p]) = left
    BY <1>1, <1>8, AtFacts DEF HybridCorrect
  <2>2. /\ Keeps
        /\ \/ left > 0 /\ Goes(p, "corrects", left - 1) /\ Commands(p)
           \/ Continues(p, "turn", 0)
           \/ Exits(p)
    BY <1>8 DEF HybridCorrect
  <2>3. /\ left > 0 => left - 1 \in Nat /\ AheadOf("hybrid", "corrects", left - 1) + 1 <= left
        /\ AheadOf("hybrid", "turn", 0) <= left
    BY <1>1, <2>1
  <2> HIDE DEF left
  <2> QED BY <1>0, <2>1, <2>2, <2>3, Sending, GoesOn, Quits
<1> QED BY <1>2, <1>3, <1>4, <1>5, <1>6, <1>7, <1>8

(* local_modal_robot_bridge.py                                             *)
LEMMA ModalSteps ==
  ASSUME LoopTypeOK, WithinBudget, NEW p \in Pids,
         ModalStart(p) \/ ModalTurn(p) \/ ModalAnswer(p) \/ ModalMove(p)
  PROVE  LoopEffect(p)
<1> DEFINE left == proc[p].left
<1>0. Batch \in Nat /\ MostAfter("modal") = Batch /\ {"turn", "asks", "moves"} \subseteq Points
  BY LoopAssumption DEF MostAfter, Points
<1>1. \A n \in Nat :
        /\ AheadOf("modal", "starts", n) = Batch /\ AheadOf("modal", "turn", n) = 0
        /\ AheadOf("modal", "asks", n) = Batch /\ AheadOf("modal", "moves", n) = n
  BY <1>0 DEF AheadOf
<1>2. CASE ModalStart(p)
  <2>1. Live(p) /\ proc[p].prog = "modal"
    BY <1>2, AtFacts DEF ModalStart
  <2>2. /\ Continues(p, "turn", 0) \/ Exits(p)
        /\ stopFile' = FALSE /\ socket' \in BOOLEAN /\ asked' \in BOOLEAN
    BY <1>2 DEF ModalStart, LoopTypeOK
  <2>3. AheadOf("modal", "turn", 0) <= MostAfter("modal")
    BY <1>0, <1>1
  <2> QED BY <1>0, <2>1, <2>2, <2>3, Continuing, Exiting
<1>3. CASE ModalTurn(p)
  <2>1. Live(p) /\ proc[p].prog = "modal"
    BY <1>3, AtFacts DEF ModalTurn
  <2>2. Keeps /\ (Exits(p) \/ (~stopFile /\ Continues(p, "asks", 0)))
    BY <1>3 DEF ModalTurn, Blocked, Stopped
  <2>3. AheadOf("modal", "asks", 0) <= MostAfter("modal")
    BY <1>0, <1>1
  <2> QED BY <1>0, <2>1, <2>2, <2>3, GoesOn, Quits
<1>4. CASE ModalAnswer(p)
  <2>1. Live(p) /\ proc[p].prog = "modal" /\ Ahead(proc[p]) = Batch
    BY <1>1, <1>4, AtFacts DEF ModalAnswer
  <2>2. Keeps /\ (Exits(p) \/ \E n \in 0 .. Batch : Continues(p, "moves", n))
    BY <1>4 DEF ModalAnswer, Extracted
  <2>3. CASE Exits(p)
    BY <2>2, <2>3, Quits
  <2>4. ASSUME NEW n \in 0 .. Batch, Continues(p, "moves", n) PROVE LoopEffect(p)
    <3>1. n \in Nat /\ AheadOf("modal", "moves", n) <= Batch
      BY <1>0, <1>1
    <3> QED BY <1>0, <2>1, <2>2, <2>4, <3>1, GoesOn
  <2> QED BY <2>2, <2>3, <2>4
<1>5. CASE ModalMove(p)
  <2>1. Live(p) /\ proc[p].prog = "modal" /\ left \in Nat /\ Ahead(proc[p]) = left
    BY <1>1, <1>5, AtFacts DEF ModalMove
  <2>2. /\ Keeps
        /\ \/ left > 0 /\ Goes(p, "moves", left - 1) /\ Commands(p)
           \/ Continues(p, "turn", 0)
           \/ Exits(p)
    BY <1>5 DEF ModalMove, Blocked
  <2>3. /\ left > 0 => left - 1 \in Nat /\ AheadOf("modal", "moves", left - 1) + 1 <= left
        /\ AheadOf("modal", "turn", 0) <= left
    BY <1>1, <2>1
  <2> HIDE DEF left
  <2> QED BY <1>0, <2>1, <2>2, <2>3, Sending, GoesOn, Quits
<1> QED BY <1>2, <1>3, <1>4, <1>5

(* direct_robot_control.py, direct_bimanual_parallel.py and                *)
(* yam_samba_dance_ws.py: a look at HARD_STOP, then one command to each    *)
(* arm they move.                                                          *)
LEMMA StepwiseSteps ==
  ASSUME LoopTypeOK, WithinBudget, NEW p \in Pids,
         \/ DirectStart(p) \/ DirectTurn(p) \/ BothStart(p) \/ BothTurn(p) \/ StepMove(p)
         \/ DanceStart(p) \/ DanceTurn(p) \/ DanceRestore(p) \/ DanceRestoreMove(p)
  PROVE  LoopEffect(p)
<1> DEFINE left == proc[p].left
           Stepwise == {"direct", "both", "dance"}
<1>0. /\ MostAfter("direct") = 1 /\ MostAfter("both") = 2 /\ MostAfter("dance") = 1
      /\ {"turn", "moves", "restores", "restoring"} \subseteq Points
  BY DEF MostAfter, Points
<1>1. \A prog \in Stepwise, n \in Nat :
        /\ AheadOf(prog, "turn", n) = 0 /\ AheadOf(prog, "moves", n) = n
        /\ AheadOf(prog, "restores", n) = 0 /\ AheadOf(prog, "restoring", n) = 1
        /\ AheadOf(prog, "starts", n) = MostAfter(prog)
  BY DEF AheadOf
<1>2. ASSUME NEW prog \in Stepwise, At(p, prog, "starts"), Keeps, Continues(p, "turn", 0) \/ Exits(p)
      PROVE  LoopEffect(p)
  <2>1. Live(p) /\ proc[p].prog = prog /\ Ahead(proc[p]) = MostAfter(prog)
    BY <1>1, <1>2, AtFacts
  <2>2. AheadOf(prog, "turn", 0) <= MostAfter(prog)
    BY <1>0, <1>1
  <2> QED BY <1>0, <1>2, <2>1, <2>2, GoesOn, Quits
<1>3. CASE DirectStart(p) \/ BothStart(p) \/ DanceStart(p)
  BY <1>2, <1>3 DEF DirectStart, BothStart, DanceStart
<1>4. CASE DirectTurn(p)
  <2>1. Live(p) /\ proc[p].prog = "direct"
    BY <1>4, AtFacts DEF DirectTurn
  <2>2. Keeps /\ (Exits(p) \/ (~stopFile /\ Continues(p, "moves", 1)))
    BY <1>4 DEF DirectTurn, Blocked, Stopped
  <2>3. AheadOf("direct", "moves", 1) <= MostAfter("direct")
    BY <1>0, <1>1
  <2> QED BY <1>0, <2>1, <2>2, <2>3, GoesOn, Quits
<1>5. CASE BothTurn(p)
  <2>1. Live(p) /\ proc[p].prog = "both"
    BY <1>5, AtFacts DEF BothTurn
  <2>2. Keeps /\ (Exits(p) \/ (~stopFile /\ Continues(p, "moves", 2)))
    BY <1>5 DEF BothTurn, Blocked, Stopped
  <2>3. AheadOf("both", "moves", 2) <= MostAfter("both")
    BY <1>0, <1>1
  <2> QED BY <1>0, <2>1, <2>2, <2>3, GoesOn, Quits
<1>6. CASE DanceTurn(p)
  <2>1. Live(p) /\ proc[p].prog = "dance" /\ left \in Nat /\ Ahead(proc[p]) = 0
    BY <1>1, <1>6, AtFacts DEF DanceTurn
  <2>2. /\ Keeps
        /\ \/ Continues(p, "restores", 0)
           \/ ~stopFile /\ Continues(p, "moves", 1)
           \/ Exits(p)
    BY <1>6 DEF DanceTurn, Stopped
  <2>3. AheadOf("dance", "moves", 1) <= MostAfter("dance") /\ AheadOf("dance", "restores", 0) <= 0
    BY <1>0, <1>1
  <2> QED BY <1>0, <2>1, <2>2, <2>3, GoesOn, Quits
<1>7. CASE StepMove(p)
  <2>1. /\ Live(p) /\ proc[p].prog \in Stepwise /\ left \in Nat
        /\ Ahead(proc[p]) = AheadOf(proc[p].prog, "moves", left)
    BY <1>7 DEF StepMove, Live, Ahead, LoopTypeOK, ProcessType
  <2>2. Ahead(proc[p]) = left
    BY <1>1, <2>1
  <2>3. /\ Keeps
        /\ \/ left > 0 /\ Goes(p, "moves", left - 1) /\ Commands(p)
           \/ Continues(p, "turn", 0)
           \/ Exits(p)
    BY <1>7 DEF StepMove
  <2>4. /\ left > 0 => left - 1 \in Nat /\ AheadOf(proc[p].prog, "moves", left - 1) + 1 <= left
        /\ AheadOf(proc[p].prog, "turn", 0) <= left
    BY <1>1, <2>1
  <2> HIDE DEF left
  <2> QED BY <1>0, <2>1, <2>2, <2>3, <2>4, Sending, GoesOn, Quits
<1>8. CASE DanceRestore(p)
  <2>1. Live(p) /\ proc[p].prog = "dance"
    BY <1>8, AtFacts DEF DanceRestore
  <2>2. Keeps /\ (Exits(p) \/ (~stopFile /\ Continues(p, "restoring", 1)))
    BY <1>8 DEF DanceRestore, Stopped
  <2>3. AheadOf("dance", "restoring", 1) <= MostAfter("dance")
    BY <1>0, <1>1
  <2> QED BY <1>0, <2>1, <2>2, <2>3, GoesOn, Quits
<1>9. CASE DanceRestoreMove(p)
  <2>1. Live(p) /\ proc[p].prog = "dance" /\ Ahead(proc[p]) = 1
    BY <1>1, <1>9, AtFacts DEF DanceRestoreMove
  <2>2. Keeps /\ (Exits(p) \/ (Goes(p, "restores", 0) /\ Commands(p)))
    BY <1>9 DEF DanceRestoreMove
  <2>3. AheadOf("dance", "restores", 0) + 1 <= 1
    BY <1>1
  <2> QED BY <1>0, <2>1, <2>2, <2>3, Sending, Quits
<1> QED BY <1>3, <1>4, <1>5, <1>6, <1>7, <1>8, <1>9

(* The control server and the bridge send nothing of their own.            *)
LEMMA ServerSteps ==
  ASSUME LoopTypeOK, WithinBudget, NEW p \in Pids,
         ControlStart(p) \/ BridgeStart(p) \/ ControlEnds(p) \/ BridgeEnds(p) \/ Dies(p)
  PROVE  LoopEffect(p)
<1>0. MostAfter("control") = 1 /\ MostAfter("bridge") = 1 /\ "serves" \in Points
  BY DEF MostAfter, Points
<1>1. \A prog : \A n \in Nat : /\ AheadOf(prog, "serves", n) = 0
                                /\ AheadOf(prog, "starts", n) = MostAfter(prog)
  BY DEF AheadOf
<1>2. CASE ControlStart(p)
  <2>1. Live(p) /\ proc[p].prog = "control"
    BY <1>2, AtFacts DEF ControlStart
  <2>2. /\ Continues(p, "serves", 0)
        /\ stopFile' = FALSE /\ socket' \in BOOLEAN /\ asked' \in BOOLEAN
    BY <1>2 DEF ControlStart, LoopTypeOK
  <2>3. AheadOf("control", "serves", 0) <= MostAfter("control")
    BY <1>0, <1>1
  <2> QED BY <1>0, <2>1, <2>2, <2>3, Continuing
<1>3. CASE BridgeStart(p)
  <2>1. Live(p) /\ proc[p].prog = "bridge" /\ Ahead(proc[p]) = 1
    BY <1>0, <1>1, <1>3, AtFacts DEF BridgeStart
  <2>2. /\ Continues(p, "serves", 0) \/ Exits(p)
        /\ stopFile' = stopFile /\ stopFile' \in BOOLEAN
        /\ socket' \in BOOLEAN /\ asked' \in BOOLEAN
    BY <1>3 DEF BridgeStart, LoopTypeOK
  <2>3. /\ AheadOf("bridge", "serves", 0) <= MostAfter("bridge")
        /\ stopFile' => stopFile /\ AheadOf("bridge", "serves", 0) <= Ahead(proc[p])
    BY <1>0, <1>1, <2>1, <2>2
  <2> QED BY <1>0, <2>1, <2>2, <2>3, Continuing, Exiting
<1>4. CASE ControlEnds(p) \/ Dies(p)
  BY <1>4, Quits DEF ControlEnds, Dies
<1>5. CASE BridgeEnds(p)
  <2>1. /\ Exits(p)
        /\ stopFile' = stopFile /\ stopFile' \in BOOLEAN
        /\ socket' \in BOOLEAN /\ asked' \in BOOLEAN
    BY <1>5 DEF BridgeEnds, LoopTypeOK
  <2> QED BY <2>1, Exiting
<1> QED BY <1>2, <1>3, <1>4, <1>5

(* Every step of every program.                                            *)
LEMMA ProcessSteps ==
  ASSUME LoopTypeOK, WithinBudget, NEW p \in Pids, LoopStep(p) \/ BridgeEnds(p)
  PROVE  LoopEffect(p)
  BY HybridSteps, ModalSteps, StepwiseSteps, ServerSteps DEF LoopStep

-----------------------------------------------------------------------------
(* The other changes of the processes and of HARD_STOP.                    *)

NoneStarts ==
  \A q \in Pids :
    proc'[q] = Gone \/ (proc'[q].prog = proc[q].prog /\ proc'[q].shell = proc[q].shell)

(* Nothing happens to the processes and to HARD_STOP.                      *)
LEMMA LoopsStay ==
  ASSUME LoopTypeOK, WithinBudget, UNCHANGED <<proc, after, stopFile, asked>>, socket' \in BOOLEAN
  PROVE  LoopTypeOK' /\ WithinBudget' /\ NoneStarts
<1>1. LoopTypeOK' /\ WithinBudget'
  BY DEF LoopTypeOK, WithinBudget, Live
<1>2. NoneStarts
  BY DEF NoneStarts
<1> QED BY <1>1, <1>2

(* HARD_STOP is written or removed by an operator, who starts to count.    *)
LEMMA StopChanges ==
  ASSUME LoopTypeOK, WithinBudget, SetStop \/ ClearStop, UNCHANGED <<proc, socket>>
  PROVE  LoopTypeOK' /\ WithinBudget' /\ NoneStarts
<1>1. after' = [p \in Pids |-> 0] /\ stopFile' \in BOOLEAN /\ asked' \in BOOLEAN
  BY DEF SetStop, ClearStop
<1>2. LoopTypeOK'
  BY <1>1 DEF LoopTypeOK
<1>3. WithinBudget'
  <2> SUFFICES ASSUME NEW q \in Pids
               PROVE  /\ ~Live(q)' => after'[q] = 0 /\ proc'[q].at = "none"
                      /\ Ahead(proc'[q]) <= MostAfter(proc'[q].prog)
                      /\ after'[q] + Ahead(proc'[q]) <= MostAfter(proc'[q].prog)
    BY DEF WithinBudget
  <2>1. after'[q] = 0 /\ proc'[q] = proc[q] /\ (Live(q)' <=> Live(q))
    BY <1>1 DEF Live
  <2>2. /\ ~Live(q) => proc[q].at = "none"
        /\ Ahead(proc[q]) <= MostAfter(proc[q].prog)
    BY DEF WithinBudget
  <2>3. Ahead(proc[q]) \in Nat
    BY AheadType DEF Ahead, LoopTypeOK, ProcessType
  <2> QED BY <2>1, <2>2, <2>3
<1>4. NoneStarts
  BY DEF NoneStarts
<1> QED BY <1>2, <1>3, <1>4

(* A process gets a signal.                                                *)
LEMMA Signalled ==
  ASSUME LoopTypeOK, WithinBudget, NEW p \in Pids, proc' = [proc EXCEPT ![p].flag = TRUE],
         UNCHANGED <<stopFile, socket, asked, after>>
  PROVE  LoopTypeOK' /\ WithinBudget' /\ NoneStarts
<1> DEFINE r == [proc[p] EXCEPT !.flag = TRUE]
<1>1. proc[p] \in ProcessType
  BY DEF LoopTypeOK
<1>2. /\ r \in ProcessType /\ r.prog = proc[p].prog /\ r.shell = proc[p].shell
      /\ r.at = proc[p].at /\ r.left = proc[p].left
  BY <1>1 DEF ProcessType
<1>3. proc' = [proc EXCEPT ![p] = r]
  BY DEF LoopTypeOK
<1> HIDE DEF r
<1>4. /\ proc' \in [Pids -> ProcessType]
      /\ \A q \in Pids : /\ proc'[q].prog = proc[q].prog /\ proc'[q].shell = proc[q].shell
                         /\ proc'[q].at = proc[q].at /\ proc'[q].left = proc[q].left
  BY <1>2, <1>3 DEF LoopTypeOK
<1>5. LoopTypeOK'
  BY <1>4 DEF LoopTypeOK
<1>6. WithinBudget'
  BY <1>4 DEF WithinBudget, Live, Ahead
<1> QED BY <1>4, <1>5, <1>6 DEF NoneStarts

(* A process starts.                                                       *)
Starts(p, prog, shell) ==
  /\ ~Live(p)
  /\ proc'[p].prog = prog /\ proc'[p].shell = shell
  /\ \A q \in Pids : q # p => proc'[q] = proc[q]

(* It has its whole budget before it and has sent nothing.                 *)
LEMMA SpawnedFacts ==
  ASSUME LoopTypeOK, WithinBudget, NEW p \in Pids, ~Live(p),
         NEW prog \in Progs, NEW opts \in Options, NEW shell \in BOOLEAN,
         proc' = Spawned(p, prog, opts, shell),
         UNCHANGED <<stopFile, asked, after>>, socket' \in BOOLEAN
  PROVE  LoopTypeOK' /\ WithinBudget' /\ Starts(p, prog, shell)
<1> DEFINE r == [Gone EXCEPT !.prog = prog, !.at = "starts", !.opts = opts, !.shell = shell]
<1>1. Gone \in ProcessType /\ Gone.left = 0 /\ "starts" \in Points
  BY GoneType DEF Gone, Points
<1>2. r \in ProcessType /\ r.prog = prog /\ r.shell = shell /\ r.at = "starts" /\ r.left = 0
  BY <1>1 DEF ProcessType
<1>3. proc' = [proc EXCEPT ![p] = r]
  BY DEF Spawned
<1> HIDE DEF r
<1>4. /\ proc' \in [Pids -> ProcessType] /\ proc'[p] = r
      /\ \A q \in Pids : q # p => proc'[q] = proc[q]
  BY <1>2, <1>3 DEF LoopTypeOK
<1>5. LoopTypeOK'
  BY <1>4 DEF LoopTypeOK
<1>6. after[p] = 0 /\ Ahead(r) = MostAfter(prog) /\ MostAfter(prog) \in Nat /\ prog # "none"
  <2>1. AheadOf(prog, "starts", 0) = MostAfter(prog)
    BY DEF AheadOf
  <2>2. prog # "none"
    BY DEF Progs, Polling
  <2> QED BY <1>2, <2>1, <2>2, MostType DEF WithinBudget, Ahead
<1>7. WithinBudget'
  <2> SUFFICES ASSUME NEW q \in Pids
               PROVE  /\ ~Live(q)' => after'[q] = 0 /\ proc'[q].at = "none"
                      /\ Ahead(proc'[q]) <= MostAfter(proc'[q].prog)
                      /\ stopFile' => after'[q] + Ahead(proc'[q]) <= MostAfter(proc'[q].prog)
    BY DEF WithinBudget
  <2>1. CASE q = p
    BY <2>1, <1>2, <1>4, <1>6 DEF Live
  <2>2. CASE q # p
    BY <2>2, <1>4 DEF WithinBudget, Live
  <2> QED BY <2>1, <2>2
<1> QED BY <1>2, <1>4, <1>5, <1>7 DEF Starts

-----------------------------------------------------------------------------
(* What a step of an operator does to the command it is in.                *)
StepOf(o) == o \in Operators /\ cast' = cast /\ Crosses

Stepped(o) ==
  /\ StepOf(o)
  /\ op' \in [Terminals -> CommandType]
  /\ \A x \in Terminals : x # o => op'[x] = op[x]
  /\ Sensible(o, op'[o])
  /\ Cleared(op'[o]) => Cleared(op[o]) \/ Owners = {}

(* One that neither finds a process nor is done with one.                  *)
Commanded(o) ==
  Stepped(o) /\ op[o].pc # "record" /\ op'[o].pc \notin {"spawn", "adopt", "record"}

(* A step that is not an operator's.                                       *)
Untouched == UNCHANGED <<cast, op, crossed>>

(* A step of a command, by the command it leads to.                        *)
LEMMA CommandStep ==
  ASSUME StackInv, NEW o \in Terminals, StepOf(o), NEW c \in CommandType, op' = [op EXCEPT ![o] = c],
         Sensible(o, c), Cleared(c) => Cleared(op[o]) \/ Owners = {}
  PROVE  /\ Stepped(o) /\ op'[o] = c
         /\ op[o].pc # "record" /\ c.pc \notin {"spawn", "adopt", "record"} => Commanded(o)
  BY DEF StackInv, StackTypeOK, Stepped, Commanded

(* A terminal that is free has passed no guard.                            *)
LEMMA IdleFacts ==
  /\ Idle \in CommandType /\ Idle.pc = "idle" /\ Idle.want = "none" /\ Idle.now = "none"
  /\ Idle.back = FALSE /\ Idle.todo = <<>> /\ Idle.child = NoPid
  /\ ~Cleared(Idle)
  /\ \A o : Sensible(o, Idle)
<1>1. /\ Idle \in CommandType /\ Idle.pc = "idle" /\ Idle.want = "none" /\ Idle.now = "none"
      /\ Idle.back = FALSE /\ Idle.todo = <<>> /\ Idle.child = NoPid
  BY DEF Idle, CommandType, Options, Todos, Stages, Nows
<1> QED BY <1>1 DEF Sensible, Cleared, Underway, Bridging

(* The command of a terminal is typed and makes sense.                     *)
LEMMA CommandOf ==
  ASSUME StackInv, NEW o \in Terminals
  PROVE  op[o] \in CommandType /\ Sensible(o, op[o])
  BY DEF StackInv, StackTypeOK, CommandsMakeSense

(* A command ends.                                                         *)
LEMMA EndsFacts ==
  ASSUME StackInv, NEW o \in Terminals, StepOf(o), Ends(o)
  PROVE  /\ Stepped(o) /\ op'[o] = Idle
         /\ op[o].pc # "record" => Commanded(o)
  BY IdleFacts, CommandStep DEF Ends

(* A command begins.                                                       *)
LEMMA BeginsFacts ==
  ASSUME StackInv, NEW o \in Terminals, StepOf(o), NEW c \in CommandType, Begins(o, c),
         Sensible(o, c), ~Cleared(c), c.pc \notin {"spawn", "adopt", "record"}
  PROVE  Commanded(o)
<1>1. op[o] = Idle /\ op' = [op EXCEPT ![o] = c]
  BY DEF Begins
<1>2. op[o].pc # "record"
  BY <1>1, IdleFacts
<1> QED BY <1>1, <1>2, CommandStep

(* A command goes on at another place, with what it starts and holds.      *)
Turned(c, pc, now, child) == [c EXCEPT !.pc = pc, !.now = now, !.child = child]

(* It has its other fields still.                                          *)
LEMMA TurnedFacts ==
  ASSUME NEW b \in CommandType, NEW pc \in Stages, NEW now \in Nows, NEW child \in Pids \cup {NoPid}
  PROVE  /\ Turned(b, pc, now, child) \in CommandType
         /\ Turned(b, pc, now, child).pc = pc /\ Turned(b, pc, now, child).now = now
         /\ Turned(b, pc, now, child).child = child /\ Turned(b, pc, now, child).want = b.want
         /\ Turned(b, pc, now, child).back = b.back /\ Turned(b, pc, now, child).todo = b.todo
  BY DEF Turned, CommandType

(* The fields of the command of a terminal.                                *)
LEMMA Fields ==
  ASSUME StackInv, NEW o \in Terminals
  PROVE  /\ op[o].pc \in Stages /\ op[o].now \in Nows /\ op[o].child \in Pids \cup {NoPid}
         /\ op[o].want \in OwnerProgs \cup {"none"} /\ op[o].opts \in Options
<1>1. op[o] \in CommandType
  BY CommandOf
<1> QED BY <1>1 DEF CommandType

(* Where that makes sense.                                                 *)
CanTurn(o, pc, now, child) ==
  /\ pc \in Stages /\ now \in Nows /\ child \in Pids \cup {NoPid}
  /\ op[o].pc # "stop" /\ pc # "stop"
  /\ pc \in {"waits", "adopt", "record"} <=> child # NoPid
  /\ pc \in Underway <=> now # "none"
  /\ now \notin {"none", "bridge"} => now = op[o].want /\ op[o].back /\ pc \notin Bridging
  /\ pc \in {"guard", "check", "launch"} => op[o].want # "none"
  /\ pc # "guard" /\ op[o].want # "none" =>
       (pc = "record" /\ now # "bridge") \/ Cleared(op[o]) \/ Owners = {}

(* Then the step is one of the command.                                    *)
LEMMA OnwardStep ==
  ASSUME StackInv, NEW o \in Terminals, StepOf(o), NEW pc, NEW now, NEW child,
         CanTurn(o, pc, now, child),
         op' = [op EXCEPT ![o] = Turned(op[o], pc, now, child)]
  PROVE  /\ Stepped(o) /\ op'[o].pc = pc /\ op'[o].now = now /\ op'[o].child = child
<1> DEFINE c == Turned(op[o], pc, now, child)
<1>1. op[o] \in CommandType /\ Sensible(o, op[o])
  BY CommandOf
<1>2. /\ c \in CommandType /\ c.pc = pc /\ c.now = now /\ c.child = child
      /\ c.want = op[o].want /\ c.back = op[o].back /\ c.todo = op[o].todo
  BY <1>1, TurnedFacts DEF CanTurn
<1>3. op' = [op EXCEPT ![o] = c]
  OBVIOUS
<1> HIDE DEF c
<1>4. Sensible(o, c)
  BY <1>1, <1>2 DEF Sensible, CanTurn
<1>5. Cleared(c) => Cleared(op[o]) \/ Owners = {}
  <2>1. Cleared(c) => c.want # "none" /\ pc # "guard" /\ ~(pc = "record" /\ now # "bridge")
    BY <1>2 DEF Cleared, Bridging
  <2> QED BY <1>2, <2>1 DEF CanTurn
<1> QED BY <1>2, <1>3, <1>4, <1>5, CommandStep

(* It proceeds.                                                            *)
LEMMA ProceedsForm ==
  ASSUME StackInv, NEW o \in Terminals, NEW pc, Proceeds(o, pc)
  PROVE  op' = [op EXCEPT ![o] = Turned(op[o], pc, op[o].now, op[o].child)]
<1>1. op[o] \in CommandType /\ op \in [Terminals -> CommandType]
  BY DEF StackInv, StackTypeOK
<1>2. Turned(op[o], pc, op[o].now, op[o].child) = [op[o] EXCEPT !.pc = pc]
  BY <1>1 DEF Turned, CommandType
<1>3. op' = [op EXCEPT ![o] = [op[o] EXCEPT !.pc = pc]]
  BY <1>1 DEF Proceeds
<1> QED BY <1>2, <1>3

(* It undertakes to start a program in the background.                     *)
LEMMA UndertakesForm ==
  ASSUME StackInv, NEW o \in Terminals, NEW prog, NEW pc, Undertakes(o, prog, pc)
  PROVE  op' = [op EXCEPT ![o] = Turned(op[o], pc, prog, op[o].child)]
<1>1. op[o] \in CommandType /\ op \in [Terminals -> CommandType]
  BY DEF StackInv, StackTypeOK
<1>2. Turned(op[o], pc, prog, op[o].child) = [op[o] EXCEPT !.pc = pc, !.now = prog]
  BY <1>1 DEF Turned, CommandType
<1>3. op' = [op EXCEPT ![o] = [op[o] EXCEPT !.pc = pc, !.now = prog]]
  BY <1>1 DEF Undertakes
<1> QED BY <1>2, <1>3

(* It holds a pid that is to be written.                                   *)
LEMMA HoldsForm ==
  ASSUME StackInv, NEW o \in Terminals, NEW p, NEW pc, Holds(o, p, pc)
  PROVE  op' = [op EXCEPT ![o] = Turned(op[o], pc, op[o].now, p)]
<1>1. op[o] \in CommandType /\ op \in [Terminals -> CommandType]
  BY DEF StackInv, StackTypeOK
<1>2. Turned(op[o], pc, op[o].now, p) = [op[o] EXCEPT !.pc = pc, !.child = p]
  BY <1>1 DEF Turned, CommandType
<1>3. op' = [op EXCEPT ![o] = [op[o] EXCEPT !.pc = pc, !.child = p]]
  BY <1>1 DEF Holds
<1> QED BY <1>2, <1>3

-----------------------------------------------------------------------------
(* What is left of the invariant, of the processes and their pid files.    *)
ProcessesInv ==
  /\ pidfile \in [Names -> Pids \cup {NoPid}]
  /\ OneOwner /\ BackgroundHasName /\ OwnersFound /\ BridgesInOrder /\ BackgroundIsReachable

(* The invariant from its parts, after a step of at most one command.      *)
LEMMA Recomposed ==
  ASSUME StackInv, cast' = cast, crossed' \in BOOLEAN, LoopTypeOK', WithinBudget', ProcessesInv',
         op' = op \/ \E o \in Terminals : Stepped(o),
         Owners' \subseteq Owners \/ \A o \in Terminals : ~Cleared(op'[o])
  PROVE  StackInv'
<1>1. /\ op' \in [Terminals -> CommandType]
      /\ \A x \in Terminals : /\ Sensible(x, op'[x])
                              /\ Cleared(op'[x]) => Cleared(op[x]) \/ Owners = {}
  BY DEF StackInv, StackTypeOK, CommandsMakeSense, Stepped
<1>2. StackTypeOK'
  BY <1>1 DEF StackInv, StackTypeOK, ProcessesInv
<1>3. CommandsMakeSense'
  BY <1>1 DEF CommandsMakeSense
<1>4. GuardHolds'
  <2>1. \A x \in Terminals : Cleared(op'[x]) => Owners = {}
    BY <1>1 DEF StackInv, GuardHolds
  <2> QED BY <2>1 DEF GuardHolds
<1> QED BY <1>2, <1>3, <1>4 DEF StackInv, ProcessesInv

(* What Crosses leaves.                                                    *)
LEMMA CrossesFacts ==
  ASSUME StackInv, NEW o \in Terminals, StepOf(o)
  PROVE  /\ cast' = cast /\ crossed' \in BOOLEAN /\ Operators' = Operators
         /\ Operators \subseteq Terminals /\ o \in Operators
         /\ ~crossed' => ~crossed /\ \A x, y \in StartingBridge(op') : x = y
         /\ StartingBridge(op)' = StartingBridge(op')
<1>1. crossed \in BOOLEAN /\ Operators \subseteq Terminals
  BY StackAssumption DEF StackInv, StackTypeOK, Operators, Terminals
<1>2. cast' = cast /\ Operators' = Operators
  BY DEF StepOf, Operators
<1> QED BY <1>1, <1>2 DEF StepOf, Crosses, StartingBridge

(* Bridges are in order when no bridge starts, and no command finds one    *)
(* or is done with one.                                                    *)
LEMMA BridgesKeep ==
  ASSUME StackInv, Running("bridge")' \subseteq Running("bridge"),
         Untouched \/ \E o \in Terminals : Commanded(o)
  PROVE  BridgesInOrder'
<1>1. CASE Untouched
  <2>1. Operators' = Operators /\ op' = op /\ crossed' = crossed
    BY <1>1 DEF Untouched, Operators
  <2> QED BY <2>1 DEF StackInv, BridgesInOrder, OneBridgeRuns, BridgeFound, StartingBridge
<1>2. ASSUME NEW o \in Terminals, Commanded(o) PROVE BridgesInOrder'
  <2>1. /\ Operators' = Operators /\ Operators \subseteq Terminals
        /\ ~crossed' => ~crossed /\ \A x, y \in StartingBridge(op)' : x = y
    BY <1>2, CrossesFacts DEF Commanded, Stepped
  <2>2. /\ \A x \in Terminals : x # o => op'[x] = op[x]
        /\ op'[o].pc \notin {"spawn", "adopt", "record"}
    BY <1>2 DEF Commanded, Stepped
  <2>3. ASSUME ~crossed' PROVE OneBridgeRuns' /\ \A x \in Operators' : BridgeFound(op[x])'
    <3>1. OneBridgeRuns /\ \A x \in Operators : BridgeFound(op[x])
      BY <2>1, <2>3 DEF StackInv, BridgesInOrder
    <3> QED BY <2>1, <2>2, <3>1 DEF OneBridgeRuns, BridgeFound
  <2> QED BY <2>1, <2>3 DEF BridgesInOrder
<1> QED BY <1>1, <1>2

(* So are the owners, when none starts.                                    *)
LEMMA OwnersKeep ==
  ASSUME StackInv, Owners' \subseteq Owners,
         \A p \in Owners' : proc'[p].prog = proc[p].prog,
         Untouched \/ \E o \in Terminals : Commanded(o)
  PROVE  OwnersFound'
<1>1. Operators' = Operators /\ Operators \subseteq Terminals
  BY CrossesFacts, StackAssumption DEF Untouched, Operators, Commanded, Stepped, StackInv, StackTypeOK, Terminals
<1>2. \A x \in Operators : op'[x] = op[x] \/ op'[x].pc # "record"
  BY <1>1 DEF Untouched, Commanded, Stepped
<1> QED BY <1>1, <1>2 DEF StackInv, OwnersFound, OwnerFound

(* And whatever runs in the background stays in its pid file.              *)
LEMMA FilesKeep ==
  ASSUME StackInv, pidfile' = pidfile,
         \A q \in Pids : Live(q)' /\ ~proc'[q].shell =>
           Live(q) /\ proc'[q].prog = proc[q].prog /\ ~proc[q].shell,
         Untouched \/ \E o \in Terminals : Commanded(o)
  PROVE  BackgroundIsReachable'
<1>1. /\ Operators' = Operators /\ Operators \subseteq Terminals
      /\ ~crossed' => ~crossed
  BY CrossesFacts, StackAssumption DEF Untouched, Operators, Commanded, Stepped, StackInv, StackTypeOK, Terminals
<1>2. \A x \in Operators : op'[x] = op[x] \/ op[x].pc # "record"
  BY <1>1 DEF Untouched, Commanded, Stepped
<1>3. ASSUME NEW q \in Pids, Live(q)', ~proc'[q].shell, proc'[q].prog = "bridge" => ~crossed'
      PROVE  pidfile'[NameOf(proc'[q].prog)] = q \/ WrittenNext(q)'
  <2>1. Live(q) /\ proc'[q].prog = proc[q].prog /\ ~proc[q].shell
    BY <1>3
  <2>2. pidfile[NameOf(proc[q].prog)] = q \/ WrittenNext(q)
    BY <1>1, <1>3, <2>1 DEF StackInv, BackgroundIsReachable
  <2>3. WrittenNext(q) => WrittenNext(q)'
    BY <1>1, <1>2, <2>1 DEF WrittenNext
  <2> QED BY <2>1, <2>2, <2>3
<1> QED BY <1>3 DEF BackgroundIsReachable

(* No process starts: what ran under a name still does, or has ended.      *)
LEMMA NoneStartsKeeps ==
  ASSUME StackInv, NoneStarts, pidfile' = pidfile,
         Untouched \/ \E o \in Terminals : Commanded(o)
  PROVE  ProcessesInv' /\ Owners' \subseteq Owners
<1>1. \A q \in Pids : Live(q)' => Live(q) /\ proc'[q].prog = proc[q].prog /\ proc'[q].shell = proc[q].shell
  BY DEF NoneStarts, Live, Gone
<1>2. Owners' \subseteq Owners /\ \A p \in Owners' : proc'[p].prog = proc[p].prog
  BY <1>1 DEF Owners, Live
<1>3. OneOwner'
  BY <1>2 DEF StackInv, OneOwner
<1>4. BackgroundHasName'
  BY <1>1 DEF StackInv, BackgroundHasName
<1>5. Running("bridge")' \subseteq Running("bridge")
  BY <1>1 DEF Running, Live
<1>6. BackgroundIsReachable'
  BY <1>1, FilesKeep
<1>7. OwnersFound' /\ BridgesInOrder'
  BY <1>2, <1>5, OwnersKeep, BridgesKeep
<1> QED BY <1>2, <1>3, <1>4, <1>6, <1>7 DEF ProcessesInv, StackInv, StackTypeOK

(* A step that starts no process and is at most a step of one command.     *)
LEMMA NoStart ==
  ASSUME StackInv, pidfile' = pidfile, LoopTypeOK', WithinBudget', NoneStarts,
         Untouched \/ \E o \in Terminals : Commanded(o)
  PROVE  StackInv'
<1>1. cast' = cast /\ crossed' \in BOOLEAN /\ (op' = op \/ \E o \in Terminals : Stepped(o))
  BY CrossesFacts DEF Untouched, Commanded, Stepped, StackInv, StackTypeOK
<1> QED BY <1>1, NoneStartsKeeps, Recomposed

(* A process that starts: an owner only when there was none; of the others *)
(* nothing changes.                                                        *)
LEMMA StartFacts ==
  ASSUME StackInv, NEW p \in Pids, NEW prog \in Progs, NEW shell \in BOOLEAN,
         Starts(p, prog, shell), prog \in OwnerProgs => Owners = {},
         ~shell => prog \in {"hybrid", "modal", "control", "bridge"}
  PROVE  /\ OneOwner' /\ BackgroundHasName'
         /\ prog \notin OwnerProgs =>
              Owners' \subseteq Owners /\ \A q \in Owners' : proc'[q].prog = proc[q].prog
         /\ prog \in OwnerProgs => Owners' \subseteq {p}
         /\ prog # "bridge" => Running("bridge")' \subseteq Running("bridge")
         /\ prog = "bridge" => Running("bridge")' \subseteq Running("bridge") \cup {p}
         /\ \A q \in Pids : Live(q)' /\ ~proc'[q].shell /\ (q = p => shell) =>
              Live(q) /\ proc'[q].prog = proc[q].prog /\ ~proc[q].shell
<1>1. /\ ~Live(p) /\ proc'[p].prog = prog /\ proc'[p].shell = shell
      /\ \A q \in Pids : q # p => proc'[q] = proc[q]
  BY DEF Starts
<1>2. /\ prog \notin OwnerProgs =>
           Owners' \subseteq Owners /\ \A q \in Owners' : proc'[q].prog = proc[q].prog
      /\ prog \in OwnerProgs => Owners' \subseteq {p}
  BY <1>1 DEF Owners, OwnerProgs
<1>3. OneOwner'
  BY <1>2 DEF StackInv, OneOwner
<1>4. BackgroundHasName'
  BY <1>1 DEF StackInv, BackgroundHasName, Live
<1>5. /\ prog # "bridge" => Running("bridge")' \subseteq Running("bridge")
      /\ prog = "bridge" => Running("bridge")' \subseteq Running("bridge") \cup {p}
  BY <1>1 DEF Running
<1> QED BY <1>1, <1>2, <1>3, <1>4, <1>5 DEF Live

-----------------------------------------------------------------------------
(* The steps of _start_background.                                         *)

(* The parts of the invariant that the lemmas about the loops need.        *)
LEMMA Typed == StackInv => LoopTypeOK /\ WithinBudget
  BY DEF StackInv, StackTypeOK

(* A step of a command that leaves the processes and HARD_STOP alone.      *)
LEMMA QuietStep ==
  ASSUME StackInv, UNCHANGED <<loopVars, pidfile>>, NEW o \in Terminals, Commanded(o)
  PROVE  StackInv'
<1>1. UNCHANGED <<proc, after, stopFile, asked>> /\ socket' \in BOOLEAN
  BY Typed DEF loopVars, LoopTypeOK
<1>2. LoopTypeOK' /\ WithinBudget' /\ NoneStarts
  BY <1>1, Typed, LoopsStay
<1> QED BY <1>2, NoStart

(* The same of any step of a command, but for what it finds.               *)
LEMMA FoundStep ==
  ASSUME StackInv, UNCHANGED loopVars, NEW o \in Terminals, Stepped(o),
         pidfile' \in [Names -> Pids \cup {NoPid}],
         OwnerFound(op'[o]), ~crossed => BridgeFound(op'[o]), BackgroundIsReachable'
  PROVE  StackInv'
<1>1. UNCHANGED <<proc, after, stopFile, asked>> /\ socket' \in BOOLEAN
  BY Typed DEF loopVars, LoopTypeOK
<1>2. LoopTypeOK' /\ WithinBudget' /\ NoneStarts
  BY <1>1, Typed, LoopsStay
<1>3. /\ cast' = cast /\ crossed' \in BOOLEAN /\ Operators' = Operators /\ Operators \subseteq Terminals
      /\ ~crossed' => ~crossed /\ \A x, y \in StartingBridge(op)' : x = y
      /\ \A x \in Terminals : x # o => op'[x] = op[x]
  BY CrossesFacts DEF Stepped
<1>4. Owners' = Owners /\ Running("bridge")' = Running("bridge")
  BY <1>1 DEF Owners, Running
<1>5. OneOwner' /\ BackgroundHasName'
  BY <1>1, <1>4 DEF StackInv, OneOwner, BackgroundHasName, Live
<1>6. OwnersFound'
  <2>1. OwnerFound(op[o])'
    BY <1>1, <1>4 DEF OwnerFound
  <2>2. \A x \in Operators : x # o => OwnerFound(op[x])'
    BY <1>1, <1>3, <1>4 DEF StackInv, OwnersFound, OwnerFound
  <2> QED BY <1>3, <2>1, <2>2 DEF OwnersFound
<1>7. BridgesInOrder'
  <2>1. ASSUME ~crossed' PROVE OneBridgeRuns' /\ \A x \in Operators' : BridgeFound(op[x])'
    <3>1. BridgeFound(op'[o]) /\ OneBridgeRuns /\ \A x \in Operators : BridgeFound(op[x])
      BY <1>3, <2>1 DEF StackInv, BridgesInOrder
    <3> QED BY <1>3, <1>4, <3>1 DEF OneBridgeRuns, BridgeFound
  <2> QED BY <1>3, <2>1 DEF BridgesInOrder
<1>8. ProcessesInv'
  BY <1>5, <1>6, <1>7 DEF ProcessesInv
<1> QED BY <1>2, <1>3, <1>4, <1>8, Recomposed

(* A step that writes no pid file, and before which the command had no pid *)
(* to write.                                                               *)
LEMMA NothingWritten ==
  ASSUME StackInv, UNCHANGED <<proc, pidfile>>, NEW o \in Terminals, Stepped(o), op[o].pc # "record"
  PROVE  BackgroundIsReachable'
<1>1. /\ Operators' = Operators /\ Operators \subseteq Terminals /\ (~crossed' => ~crossed)
      /\ \A x \in Terminals : x # o => op'[x] = op[x]
  BY CrossesFacts DEF Stepped
<1>2. \A q \in Pids : WrittenNext(q) => WrittenNext(q)'
  BY <1>1 DEF WrittenNext
<1> QED BY <1>1, <1>2 DEF StackInv, BackgroundIsReachable, Live

(* In _start_background a command goes on with what it starts.             *)
LEMMA BackgroundStep ==
  ASSUME StackInv, NEW o \in Terminals, StepOf(o), op[o].pc \in {"look", "list", "spawn"},
         NEW pc \in {"list", "spawn", "record"}, NEW child \in Pids \cup {NoPid},
         op' = [op EXCEPT ![o] = Turned(op[o], pc, op[o].now, child)],
         pc = "record" <=> child # NoPid
  PROVE  /\ Stepped(o) /\ op'[o].pc = pc /\ op'[o].now = op[o].now /\ op'[o].child = child
         /\ pc = "list" => Commanded(o)
<1>1. Sensible(o, op[o]) /\ op[o].now \in Nows
  BY CommandOf, Fields
<1>2. /\ op[o].now # "none"
      /\ op[o].now \notin {"none", "bridge"} => op[o].now = op[o].want /\ op[o].back
      /\ op[o].want # "none" => Cleared(op[o])
  BY <1>1 DEF Sensible, Cleared, Underway
<1>3. /\ pc \in Stages /\ pc \in Underway /\ pc \notin Bridging /\ op[o].pc # "stop" /\ pc # "stop"
      /\ pc \notin {"waits", "adopt"} /\ pc \notin {"guard", "check", "launch"}
      /\ op[o].pc # "record"
  BY DEF Stages, Underway, Bridging
<1>4. pc \in {"waits", "adopt", "record"} <=> child # NoPid
  BY <1>3
<1>5. CanTurn(o, pc, op[o].now, child)
  BY <1>1, <1>2, <1>3, <1>4 DEF CanTurn
<1>6. Stepped(o) /\ op'[o].pc = pc /\ op'[o].now = op[o].now /\ op'[o].child = child
  BY <1>5, OnwardStep
<1>7. pc = "list" => Commanded(o)
  BY <1>3, <1>6 DEF Commanded
<1> QED BY <1>6, <1>7

(* The command returns to cmd_start_bridge, or ends.                       *)
LEMMA ReturnsFacts ==
  ASSUME StackInv, NEW o \in Terminals, StepOf(o), op[o].pc \in {"look", "record"}, Returns(o)
  PROVE  /\ Stepped(o) /\ op'[o].pc \in {"wait", "idle"}
         /\ op[o].pc # "record" => Commanded(o)
<1>1. CASE op[o].now = "bridge"
  <2>1. op' = [op EXCEPT ![o] = Turned(op[o], "wait", "none", NoPid)]
    BY <1>1 DEF Returns, Turned, StackInv, StackTypeOK
  <2>2. op[o].want # "none" => Cleared(op[o])
    BY <1>1 DEF Cleared
  <2>3. CanTurn(o, "wait", "none", NoPid)
    BY <2>2 DEF CanTurn, Stages, Nows, Underway, Bridging
  <2>4. Stepped(o) /\ op'[o].pc = "wait"
    BY <2>1, <2>3, OnwardStep
  <2> QED BY <2>4 DEF Commanded
<1>2. CASE op[o].now # "bridge"
  <2>1. Ends(o)
    BY <1>2 DEF Returns, Ends, StackInv, StackTypeOK
  <2> QED BY <2>1, EndsFacts, IdleFacts
<1> QED BY <1>1, <1>2

(* A look at the pid file.                                                 *)
LEMMA LookAtPidKeeps ==
  ASSUME StackInv, NEW o \in Terminals, StepOf(o), LookAtPid(o)
  PROVE  StackInv'
<1>1. op[o].pc = "look" /\ UNCHANGED <<loopVars, pidfile>> /\ (Returns(o) \/ Proceeds(o, "list"))
  BY DEF LookAtPid
<1>2. CASE Proceeds(o, "list")
  <2>1. op' = [op EXCEPT ![o] = Turned(op[o], "list", op[o].now, op[o].child)]
    BY <1>2, ProceedsForm
  <2>2. Sensible(o, op[o]) /\ op[o].now \in Nows /\ op[o].child \in Pids \cup {NoPid}
    BY CommandOf, Fields
  <2>3. /\ op[o].now # "none" /\ op[o].child = NoPid /\ (op[o].want # "none" => Cleared(op[o]))
        /\ op[o].now \notin {"none", "bridge"} => op[o].now = op[o].want /\ op[o].back
    BY <1>1, <2>2 DEF Sensible, Cleared, Underway
  <2>4. Commanded(o)
    BY <1>1, <2>1, <2>2, <2>3, BackgroundStep
  <2> QED BY <1>1, <2>4, QuietStep
<1>3. CASE Returns(o)
  BY <1>1, <1>3, ReturnsFacts, QuietStep
<1> QED BY <1>1, <1>2, <1>3

(* A look at the process list: an owner that was let in finds none of its  *)
(* name, and the bridge that is found is the only one.                     *)
LEMMA ListProcessesKeeps ==
  ASSUME StackInv, NEW o \in Terminals, StepOf(o), ListProcesses(o)
  PROVE  StackInv'
<1>1. op[o].pc = "list" /\ UNCHANGED <<loopVars, pidfile>>
  BY DEF ListProcesses
<1>2. /\ Sensible(o, op[o]) /\ op[o].now \in Nows /\ op[o].child \in Pids \cup {NoPid}
      /\ op[o].now # "none" /\ op[o].child = NoPid /\ (op[o].want # "none" => Cleared(op[o]))
      /\ op[o].now \notin {"none", "bridge"} => op[o].now = op[o].want /\ op[o].back
  <2>1. Sensible(o, op[o]) /\ op[o].now \in Nows /\ op[o].child \in Pids \cup {NoPid}
    BY CommandOf, Fields
  <2> QED BY <1>1, <2>1 DEF Sensible, Cleared, Underway
<1>3. UNCHANGED <<proc, loopVars>>
  BY <1>1 DEF loopVars
<1>4. ASSUME NEW p \in Discovered(NameOf(op[o].now)), Holds(o, p, "record")
      PROVE  StackInv'
  <2>1. op' = [op EXCEPT ![o] = Turned(op[o], "record", op[o].now, p)] /\ p \in Pids /\ p # NoPid
    BY <1>4, HoldsForm, StackAssumption DEF Discovered
  <2>2. Stepped(o) /\ op'[o].pc = "record" /\ op'[o].now = op[o].now /\ op'[o].child = p
    BY <1>1, <2>1, BackgroundStep
  <2>3. op[o].now = "bridge"
    <3> SUFFICES ASSUME op[o].now # "bridge" PROVE FALSE
      OBVIOUS
    <3>1. op[o].now = op[o].want /\ op[o].back /\ Owners = {}
      BY <1>2 DEF StackInv, GuardHolds
    <3>2. op[o].now \in {"hybrid", "modal", "control"}
      BY <1>2, <3>1 DEF Sensible
    <3>3. p \in Owners
      BY <1>4, <3>2 DEF Discovered, Patterns, NameOf, Owners
    <3> QED BY <3>1, <3>3
  <2>4. p \in Running("bridge")
    BY <1>4, <2>3 DEF Discovered, Patterns, NameOf, Running
  <2>5. OwnerFound(op'[o]) /\ (~crossed => BridgeFound(op'[o]))
    BY <2>2, <2>3, <2>4 DEF OwnerFound, BridgeFound, StackInv, BridgesInOrder, OneBridgeRuns
  <2>6. BackgroundIsReachable'
    BY <1>1, <1>3, <2>2, NothingWritten
  <2> QED BY <1>1, <2>2, <2>5, <2>6, FoundStep DEF StackInv, StackTypeOK
<1>5. CASE Discovered(NameOf(op[o].now)) = {} /\ Proceeds(o, "spawn")
  <2>1. op' = [op EXCEPT ![o] = Turned(op[o], "spawn", op[o].now, op[o].child)]
    BY <1>5, ProceedsForm
  <2>2. Stepped(o) /\ op'[o].pc = "spawn" /\ op'[o].now = op[o].now
    BY <1>1, <1>2, <2>1, BackgroundStep
  <2>3. op[o].now = "bridge" => Running("bridge") = {}
    BY <1>5 DEF Discovered, Patterns, NameOf, Running
  <2>4. OwnerFound(op'[o]) /\ BridgeFound(op'[o])
    BY <2>2, <2>3 DEF OwnerFound, BridgeFound
  <2>5. BackgroundIsReachable'
    BY <1>1, <1>3, <2>2, NothingWritten
  <2> QED BY <1>1, <2>2, <2>4, <2>5, FoundStep DEF StackInv, StackTypeOK
<1> QED BY <1>4, <1>5, Zenon DEF ListProcesses

(* Popen: the process has no pid file yet, but the command has its pid.    *)
LEMMA SpawnKeeps ==
  ASSUME StackInv, NEW o \in Terminals, StepOf(o), Spawn(o)
  PROVE  StackInv'
<1> DEFINE prog == op[o].now
           opts == IF op[o].now = "bridge" THEN {} ELSE op[o].opts
<1>1. op[o].pc = "spawn" /\ UNCHANGED <<stopFile, socket, asked, after, pidfile>>
  BY DEF Spawn
<1>2. PICK p \in Pids : ~Live(p) /\ Holds(o, p, "record") /\ proc' = Spawned(p, prog, opts, FALSE)
  BY DEF Spawn
<1>3. /\ Sensible(o, op[o]) /\ prog \in Nows /\ op[o].opts \in Options
      /\ prog # "none" /\ (op[o].want # "none" => Cleared(op[o]))
      /\ prog # "bridge" => prog = op[o].want /\ op[o].back
  <2>1. Sensible(o, op[o]) /\ prog \in Nows /\ op[o].opts \in Options
    BY CommandOf, Fields
  <2> QED BY <1>1, <2>1 DEF Sensible, Cleared, Underway
<1>4. opts \in Options
  BY <1>3 DEF Options
<1>5. /\ prog \in Progs /\ prog \in {"hybrid", "modal", "control", "bridge"}
      /\ (prog \in OwnerProgs <=> prog # "bridge")
      /\ prog # "bridge" => Owners = {} /\ op[o].want # "none"
  <2>1. prog # "bridge" => Owners = {} /\ op[o].want # "none" /\ prog \in {"hybrid", "modal", "control"}
    BY <1>3 DEF StackInv, GuardHolds, Sensible
  <2> QED BY <2>1 DEF Progs, Polling, OwnerProgs
<1> HIDE DEF prog, opts
<1>6. LoopTypeOK' /\ WithinBudget' /\ Starts(p, prog, FALSE)
  <2>1. socket' \in BOOLEAN
    BY <1>1, Typed DEF LoopTypeOK
  <2> QED BY <1>1, <1>2, <1>4, <1>5, <2>1, Typed, SpawnedFacts
<1>7. /\ OneOwner' /\ BackgroundHasName'
      /\ prog \notin OwnerProgs =>
           Owners' \subseteq Owners /\ \A q \in Owners' : proc'[q].prog = proc[q].prog
      /\ prog \in OwnerProgs => Owners' \subseteq {p}
      /\ prog # "bridge" => Running("bridge")' \subseteq Running("bridge")
      /\ prog = "bridge" => Running("bridge")' \subseteq Running("bridge") \cup {p}
      /\ \A q \in Pids : Live(q)' /\ ~proc'[q].shell /\ q # p =>
           Live(q) /\ proc'[q].prog = proc[q].prog /\ ~proc[q].shell
  <2>1. FALSE \in BOOLEAN
    OBVIOUS
  <2> QED BY <1>5, <1>6, <2>1, StartFacts
<1>8. /\ Stepped(o) /\ op'[o].pc = "record" /\ op'[o].now = prog /\ op'[o].child = p
  <2>1. op' = [op EXCEPT ![o] = Turned(op[o], "record", op[o].now, p)] /\ p # NoPid
    BY <1>2, HoldsForm, StackAssumption
  <2> QED BY <1>1, <2>1, BackgroundStep DEF prog
<1>9. /\ cast' = cast /\ crossed' \in BOOLEAN /\ Operators' = Operators /\ Operators \subseteq Terminals
      /\ o \in Operators
      /\ ~crossed' => ~crossed /\ \A x, y \in StartingBridge(op)' : x = y
      /\ \A x \in Terminals : x # o => op'[x] = op[x]
  BY <1>8, CrossesFacts DEF Stepped
<1>10. proc'[p].prog = prog
  BY <1>6 DEF Starts
<1>11. OwnersFound'
  <2> SUFFICES ASSUME NEW x \in Operators, op'[x].pc = "record", op'[x].now # "bridge", NEW q \in Owners'
               PROVE  q = op'[x].child /\ proc'[q].prog = op'[x].now
    BY <1>9 DEF OwnersFound, OwnerFound
  <2>1. CASE x = o
    BY <1>5, <1>7, <1>8, <1>10, <2>1
  <2>2. CASE x # o
    <3>1. op[x].pc = "record" /\ op[x].now # "bridge" /\ op'[x] = op[x]
      BY <1>9, <2>2
    <3>2. x = "operator"
      BY <1>9, <3>1, CommandOf DEF Sensible, Underway, Terminals
    <3>3. prog = "bridge"
      BY <1>5, <1>3, <2>2, <3>2 DEF Sensible, Terminals
    <3>4. q \in Owners /\ proc'[q].prog = proc[q].prog
      BY <1>5, <1>7, <3>3
    <3> QED BY <3>1, <3>4 DEF StackInv, OwnersFound, OwnerFound
  <2> QED BY <2>1, <2>2
<1>12. BridgesInOrder'
  <2>1. ASSUME ~crossed' PROVE OneBridgeRuns' /\ \A x \in Operators' : BridgeFound(op[x])'
    <3>1. OneBridgeRuns /\ (\A x \in Operators : BridgeFound(op[x]))
      BY <1>9, <2>1 DEF StackInv, BridgesInOrder
    <3>2. CASE prog # "bridge"
      <4>1. Running("bridge")' \subseteq Running("bridge")
        BY <1>7, <3>2
      <4>2. BridgeFound(op[o])'
        BY <1>8, <3>2 DEF BridgeFound
      <4>3. \A x \in Operators : x # o => BridgeFound(op[x])'
        BY <1>9, <3>1, <4>1 DEF BridgeFound
      <4> QED BY <1>9, <3>1, <4>1, <4>2, <4>3 DEF OneBridgeRuns
    <3>3. CASE prog = "bridge"
      <4>1. Running("bridge")' \subseteq {p}
        BY <1>1, <1>7, <1>9, <3>1, <3>3 DEF BridgeFound, prog
      <4>2. BridgeFound(op[o])'
        BY <1>8, <4>1 DEF BridgeFound
      <4>3. \A x \in Operators : x # o => op'[x].now # "bridge"
        BY <1>8, <1>9, <2>1, <3>3 DEF StartingBridge
      <4>4. \A x \in Operators : x # o => BridgeFound(op[x])'
        BY <4>3 DEF BridgeFound
      <4> QED BY <1>9, <4>1, <4>2, <4>4 DEF OneBridgeRuns
    <3> QED BY <3>2, <3>3
  <2> QED BY <1>9, <2>1 DEF BridgesInOrder
<1>13. BackgroundIsReachable'
  <2> SUFFICES ASSUME NEW q \in Pids, Live(q)', ~proc'[q].shell, proc'[q].prog = "bridge" => ~crossed'
               PROVE  pidfile'[NameOf(proc'[q].prog)] = q \/ WrittenNext(q)'
    BY DEF BackgroundIsReachable
  <2>1. CASE q = p
    BY <1>8, <1>9, <1>10, <2>1 DEF WrittenNext
  <2>2. CASE q # p
    <3>1. Live(q) /\ proc'[q].prog = proc[q].prog /\ ~proc[q].shell
      BY <1>7, <2>2
    <3>2. pidfile[NameOf(proc[q].prog)] = q \/ WrittenNext(q)
      BY <1>9, <3>1 DEF StackInv, BackgroundIsReachable
    <3>3. WrittenNext(q) => WrittenNext(q)'
      BY <1>1, <1>9, <3>1 DEF WrittenNext
    <3> QED BY <1>1, <3>1, <3>2, <3>3
  <2> QED BY <2>1, <2>2
<1>14. ProcessesInv'
  BY <1>1, <1>7, <1>11, <1>12, <1>13 DEF ProcessesInv, StackInv, StackTypeOK
<1>15. Owners' \subseteq Owners \/ \A x \in Terminals : ~Cleared(op'[x])
  <2>1. CASE prog = "bridge"
    BY <1>5, <1>7, <2>1
  <2>2. CASE prog # "bridge"
    <3>1. o = "operator"
      BY <1>3, <1>5, <2>2 DEF Sensible, Terminals
    <3>2. ~Cleared(op'["dashboard"])
      BY <1>9, <3>1, CommandOf DEF Sensible, Cleared, Terminals
    <3>3. ~Cleared(op'["operator"])
      BY <1>8, <2>2, <3>1 DEF Cleared, Bridging
    <3> QED BY <3>2, <3>3 DEF Terminals
  <2> QED BY <2>1, <2>2
<1> QED BY <1>6, <1>8, <1>9, <1>14, <1>15, Recomposed

(* A pid file that is written with what is found: all that runs in the     *)
(* background under its name.                                              *)
LEMMA Written ==
  ASSUME StackInv, UNCHANGED loopVars, NEW o \in Terminals, Stepped(o),
         NEW name \in Names, NEW p \in Pids, pidfile' = [pidfile EXCEPT ![name] = p],
         op'[o].pc \notin {"spawn", "adopt", "record"},
         op[o].pc = "record" => NameOf(op[o].now) = name,
         name # "bridge" => \A q \in Owners : q = p /\ NameOf(proc[q].prog) = name,
         name = "bridge" /\ ~crossed => Running("bridge") \subseteq {p}
  PROVE  StackInv'
<1>1. /\ pidfile' \in [Names -> Pids \cup {NoPid}] /\ pidfile'[name] = p
      /\ \A x \in Names : x # name => pidfile'[x] = pidfile[x]
  BY DEF StackInv, StackTypeOK
<1>2. /\ cast' = cast /\ Operators' = Operators /\ Operators \subseteq Terminals
      /\ (~crossed' => ~crossed) /\ \A x \in Terminals : x # o => op'[x] = op[x]
  BY CrossesFacts DEF Stepped
<1>3. proc' = proc
  BY DEF loopVars
<1>4. BackgroundIsReachable'
  <2> SUFFICES ASSUME NEW q \in Pids, Live(q), ~proc[q].shell, proc[q].prog = "bridge" => ~crossed'
               PROVE  pidfile'[NameOf(proc[q].prog)] = q \/ WrittenNext(q)'
    BY <1>3 DEF BackgroundIsReachable, Live
  <2>1. proc[q].prog \in {"hybrid", "modal", "control", "bridge"}
    BY DEF StackInv, BackgroundHasName
  <2>2. NameOf(proc[q].prog) \in Names
    BY <2>1 DEF NameOf, Names
  <2>3. pidfile[NameOf(proc[q].prog)] = q \/ WrittenNext(q)
    BY <1>2 DEF StackInv, BackgroundIsReachable
  <2>4. CASE NameOf(proc[q].prog) = name /\ proc[q].prog = "bridge"
    <3>1. name = "bridge" /\ q \in Running("bridge")
      BY <2>4 DEF NameOf, Running
    <3> QED BY <1>1, <1>2, <2>4, <3>1
  <2>5. CASE NameOf(proc[q].prog) = name /\ proc[q].prog # "bridge"
    <3>1. name # "bridge" /\ q \in Owners
      BY <2>1, <2>5 DEF NameOf, Owners
    <3> QED BY <1>1, <2>5, <3>1
  <2>6. CASE NameOf(proc[q].prog) # name
    <3>1. WrittenNext(q) => WrittenNext(q)'
      BY <1>2, <1>3, <2>6 DEF WrittenNext
    <3> QED BY <1>1, <2>2, <2>3, <2>6, <3>1
  <2> QED BY <2>4, <2>5, <2>6
<1>5. OwnerFound(op'[o]) /\ BridgeFound(op'[o])
  BY DEF OwnerFound, BridgeFound
<1> QED BY <1>1, <1>4, <1>5, FoundStep

(* The write of the pid file.                                              *)
LEMMA RecordKeeps ==
  ASSUME StackInv, NEW o \in Terminals, StepOf(o), Record(o)
  PROVE  StackInv'
<1> DEFINE name == NameOf(op[o].now)
<1>1. /\ op[o].pc = "record" /\ pidfile' = [pidfile EXCEPT ![name] = op[o].child]
      /\ Returns(o) /\ UNCHANGED loopVars
  BY DEF Record
<1>2. /\ op[o].child \in Pids /\ op[o].now \in {"hybrid", "modal", "control", "bridge"}
      /\ o \in Operators
  <2>1. Sensible(o, op[o]) /\ op[o].now \in Nows /\ op[o].child \in Pids \cup {NoPid}
    BY CommandOf, Fields
  <2>2. op[o].now # "none" /\ op[o].child # NoPid
    BY <1>1, <2>1 DEF Sensible, Underway
  <2>3. op[o].now # "bridge" => op[o].now \in {"hybrid", "modal", "control"}
    BY <2>1, <2>2 DEF Sensible
  <2> QED BY <2>1, <2>2, <2>3 DEF StepOf
<1>3. Stepped(o) /\ op'[o].pc \notin {"spawn", "adopt", "record"}
  BY <1>1, ReturnsFacts
<1>4. name \in Names /\ (name = "bridge" <=> op[o].now = "bridge")
  BY <1>2 DEF NameOf, Names
<1>5. name # "bridge" => \A q \in Owners : q = op[o].child /\ NameOf(proc[q].prog) = name
  BY <1>1, <1>2, <1>4 DEF StackInv, OwnersFound, OwnerFound
<1>6. name = "bridge" /\ ~crossed => Running("bridge") \subseteq {op[o].child}
  BY <1>1, <1>2, <1>4 DEF StackInv, BridgesInOrder, BridgeFound
<1> HIDE DEF name
<1>7. op[o].pc = "record" => NameOf(op[o].now) = name
  BY DEF name
<1> QED BY <1>1, <1>2, <1>3, <1>4, <1>5, <1>6, <1>7, Written

(* _start_background as a whole.                                           *)
LEMMA BackgroundKeeps ==
  ASSUME StackInv, NEW o \in Terminals, StepOf(o), StartBackground(o)
  PROVE  StackInv'
  BY LookAtPidKeeps, ListProcessesKeeps, SpawnKeeps, RecordKeeps DEF StartBackground

-----------------------------------------------------------------------------
(* The steps of the operators.                                             *)

(* A command that waits at the guard or at the bridge.                     *)
LEMMA StartCommands ==
  ASSUME StackInv, UNCHANGED <<loopVars, pidfile>>, NEW o \in Terminals, StepOf(o), o = "operator",
         StartsModel(o) \/ StartsDirect(o) \/ StartsControl(o) \/ StartsBridge(o)
  PROVE  StackInv'
<1>1. ASSUME NEW prog \in {"hybrid", "modal"}, NEW back \in BOOLEAN, NEW opts \in Options,
             Begins(o, [Idle EXCEPT !.pc = "guard", !.want = prog, !.opts = opts, !.back = back])
      PROVE  StackInv'
  <2> DEFINE c == [Idle EXCEPT !.pc = "guard", !.want = prog, !.opts = opts, !.back = back]
  <2>1. /\ c \in CommandType /\ c.pc = "guard" /\ c.want = prog /\ c.back = back
        /\ c.todo = <<>> /\ c.child = NoPid /\ c.now = "none"
    BY IdleFacts DEF CommandType, OwnerProgs, Stages
  <2>2. Begins(o, c)
    BY <1>1
  <2> HIDE DEF c
  <2>3. Sensible(o, c) /\ ~Cleared(c)
    BY <2>1 DEF Sensible, Cleared, Underway, Bridging
  <2> QED BY <2>1, <2>2, <2>3, BeginsFacts, QuietStep
<1>2. ASSUME NEW prog \in {"direct", "both"}, NEW opts \in Options,
             Begins(o, [Idle EXCEPT !.pc = "guard", !.want = prog, !.opts = opts])
      PROVE  StackInv'
  <2> DEFINE c == [Idle EXCEPT !.pc = "guard", !.want = prog, !.opts = opts]
  <2>1. /\ c \in CommandType /\ c.pc = "guard" /\ c.want = prog /\ c.back = FALSE
        /\ c.todo = <<>> /\ c.child = NoPid /\ c.now = "none"
    BY IdleFacts DEF CommandType, OwnerProgs, Stages
  <2>2. Begins(o, c)
    BY <1>2
  <2> HIDE DEF c
  <2>3. Sensible(o, c) /\ ~Cleared(c)
    BY <2>1 DEF Sensible, Cleared, Underway, Bridging
  <2> QED BY <2>1, <2>2, <2>3, BeginsFacts, QuietStep
<1>3. ASSUME NEW back \in BOOLEAN,
             Begins(o, [Idle EXCEPT !.pc = "guard", !.want = "control", !.back = back])
      PROVE  StackInv'
  <2> DEFINE c == [Idle EXCEPT !.pc = "guard", !.want = "control", !.back = back]
  <2>1. /\ c \in CommandType /\ c.pc = "guard" /\ c.want = "control" /\ c.back = back
        /\ c.todo = <<>> /\ c.child = NoPid /\ c.now = "none"
    BY IdleFacts DEF CommandType, OwnerProgs, Stages
  <2>2. Begins(o, c)
    BY <1>3
  <2> HIDE DEF c
  <2>3. Sensible(o, c) /\ ~Cleared(c)
    BY <2>1 DEF Sensible, Cleared, Underway, Bridging
  <2> QED BY <2>1, <2>2, <2>3, BeginsFacts, QuietStep
<1>4. CASE StartsBridge(o)
  <2> DEFINE c == [Idle EXCEPT !.pc = "bridge", !.now = "bridge"]
  <2>1. /\ c \in CommandType /\ c.pc = "bridge" /\ c.want = "none" /\ c.back = FALSE
        /\ c.todo = <<>> /\ c.child = NoPid /\ c.now = "bridge"
    BY IdleFacts DEF CommandType, Stages, Underway, Bridging, Nows
  <2>2. Begins(o, c)
    BY <1>4 DEF StartsBridge
  <2> HIDE DEF c
  <2>3. Sensible(o, c) /\ ~Cleared(c)
    BY <2>1 DEF Sensible, Cleared, Underway, Bridging
  <2> QED BY <2>1, <2>2, <2>3, BeginsFacts, QuietStep
<1>5. \A opts \in SUBSET {"ignore"} : opts \in Options
  BY DEF Options
<1>6. CASE StartsModel(o)
  BY <1>1, <1>6, Zenon DEF StartsModel, Options
<1>7. CASE StartsDirect(o)
  BY <1>2, <1>5, <1>7, Zenon DEF StartsDirect
<1>8. CASE StartsControl(o)
  BY <1>3, <1>8, Zenon DEF StartsControl
<1> QED BY <1>4, <1>6, <1>7, <1>8

(* Commands that stop, and what the dashboard restarts: only what is to do *)
(* and HARD_STOP change.                                                   *)
LEMMA StopCommands ==
  ASSUME StackInv, pidfile' = pidfile, NEW o \in Terminals, StepOf(o),
         Stops(o) \/ RestartsModel(o) \/ RestartsBridge(o)
  PROVE  StackInv'
<1>1. ASSUME NEW todo \in Todos, todo # <<>>, Begins(o, [Idle EXCEPT !.pc = "stop", !.todo = todo])
      PROVE  Commanded(o)
  <2> DEFINE c == [Idle EXCEPT !.pc = "stop", !.todo = todo]
  <2>1. /\ c \in CommandType /\ c.pc = "stop" /\ c.want = "none" /\ c.back = FALSE
        /\ c.todo = todo /\ c.child = NoPid /\ c.now = "none"
    BY IdleFacts DEF CommandType, Stages, Underway, Bridging, Nows
  <2>2. Begins(o, c)
    BY <1>1
  <2> HIDE DEF c
  <2>3. Sensible(o, c) /\ ~Cleared(c)
    BY <1>1, <2>1 DEF Sensible, Cleared, Underway, Bridging
  <2> QED BY <2>1, <2>2, <2>3, BeginsFacts
<1>2. \A todo \in {<<"model", "control", "bridge">>, <<"model">>, <<"model", "clear">>,
                   <<"bridge", "start">>} : todo \in Todos /\ todo # <<>>
  BY DEF Todos
<1>3. Commanded(o)
  <2>1. CASE Stops(o)
    <3>1. PICK names \in {<<"model", "control", "bridge">>, <<"model">>} :
            Begins(o, [Idle EXCEPT !.pc = "stop", !.todo = names])
      BY <2>1, Zenon DEF Stops
    <3>2. names \in Todos /\ names # <<>>
      BY <1>2
    <3> QED BY <1>1, <3>1, <3>2, Zenon
  <2>2. CASE RestartsModel(o)
    BY <1>1, <1>2, <2>2, Zenon DEF RestartsModel
  <2>3. CASE RestartsBridge(o)
    BY <1>1, <1>2, <2>3, Zenon DEF RestartsBridge
  <2> QED BY <2>1, <2>2, <2>3
<1>4. LoopTypeOK' /\ WithinBudget' /\ NoneStarts
  <2>1. CASE SetStop /\ UNCHANGED <<proc, socket>>
    BY <2>1, Typed, StopChanges
  <2>2. CASE UNCHANGED <<stopFile, asked, after, proc, socket>>
    <3>1. socket' \in BOOLEAN
      BY <2>2, Typed DEF LoopTypeOK
    <3> QED BY <2>2, <3>1, Typed, LoopsStay
  <2> QED BY <2>1, <2>2 DEF Stops, RestartsModel, RestartsBridge, loopVars
<1> QED BY <1>3, <1>4, NoStart

(* What is to do after the steps of a stop.                                *)
LEMMA RestToDo ==
  \A todo \in Todos \ {<<>>} : Tail(todo) \in Todos
<1>1. /\ Tail(<<"model", "control", "bridge">>) = <<"control", "bridge">>
      /\ Tail(<<"control", "bridge">>) = <<"bridge">>
      /\ Tail(<<"model", "clear">>) = <<"clear">> /\ Tail(<<"bridge", "start">>) = <<"start">>
      /\ Tail(<<"bridge">>) = <<>> /\ Tail(<<"model">>) = <<>>
      /\ Tail(<<"clear">>) = <<>> /\ Tail(<<"start">>) = <<>>
  OBVIOUS
<1> QED BY <1>1 DEF Todos

(* One name of a stop.                                                     *)
LEMMA StopPidKeeps ==
  ASSUME StackInv, NEW o \in Terminals, StepOf(o), StopPid(o)
  PROVE  StackInv'
<1> DEFINE rest == [op[o] EXCEPT !.todo = Tail(@)]
           name == Head(op[o].todo)
           Done == op' = [op EXCEPT ![o] = IF rest.todo = <<>> THEN Idle ELSE rest]
<1>1. op[o] \in CommandType /\ Sensible(o, op[o]) /\ op[o].pc = "stop"
  BY CommandOf DEF StopPid
<1>2. Tail(op[o].todo) \in Todos
  BY <1>1, RestToDo DEF Sensible, CommandType
<1>3. /\ rest \in CommandType /\ rest.pc = "stop" /\ rest.want = op[o].want
      /\ rest.back = op[o].back /\ rest.child = op[o].child /\ rest.now = op[o].now
  BY <1>1, <1>2 DEF CommandType
<1>4. /\ UNCHANGED <<stopFile, socket, asked, after, pidfile>> /\ name \in Names
      /\ \/ Done /\ UNCHANGED proc
         \/ Ends(o) /\ UNCHANGED proc
         \/ PidRunning(name) /\ Done /\ proc' = [proc EXCEPT ![pidfile[name]].flag = TRUE]
  BY Zenon DEF StopPid
<1> HIDE DEF rest, Done, name
<1>5. Done => Commanded(o)
  <2>1. rest.todo # <<>> => Sensible(o, rest) /\ ~Cleared(rest)
    BY <1>1, <1>3 DEF Sensible, Cleared, Underway, Bridging
  <2>2. CASE rest.todo = <<>>
    BY <1>1, <2>2, EndsFacts DEF Done, Ends
  <2>3. CASE rest.todo # <<>>
    BY <1>1, <2>1, <2>3, <1>3, CommandStep DEF Done
  <2> QED BY <2>2, <2>3
<1>6. Commanded(o)
  BY <1>1, <1>4, <1>5, EndsFacts
<1>7. socket' \in BOOLEAN
  BY <1>4, Typed DEF LoopTypeOK
<1>8. CASE UNCHANGED proc
  BY <1>4, <1>6, <1>7, <1>8, Typed, LoopsStay, NoStart
<1>9. CASE PidRunning(name) /\ proc' = [proc EXCEPT ![pidfile[name]].flag = TRUE]
  <2>1. pidfile[name] \in Pids
    BY <1>4, <1>9 DEF StackInv, StackTypeOK, PidRunning
  <2> QED BY <1>4, <1>6, <1>9, <2>1, Typed, Signalled, NoStart
<1> QED BY <1>4, <1>8, <1>9

(* What a restart does after the stop.                                     *)
LEMMA AfterStopKeeps ==
  ASSUME StackInv, NEW o \in Terminals, StepOf(o), ClearAfterStop(o) \/ StartAfterStop(o)
  PROVE  StackInv'
<1>1. CASE ClearAfterStop(o)
  <2>1. ClearStop /\ Ends(o) /\ UNCHANGED <<socket, proc, pidfile>> /\ op[o].pc # "record"
    BY <1>1 DEF ClearAfterStop
  <2>2. Commanded(o)
    BY <2>1, EndsFacts
  <2> QED BY <2>1, <2>2, Typed, StopChanges, NoStart
<1>2. CASE StartAfterStop(o)
  <2> DEFINE c == [Idle EXCEPT !.pc = "bridge", !.now = "bridge"]
  <2>1. /\ c \in CommandType /\ c.pc = "bridge" /\ c.want = "none" /\ c.back = FALSE
        /\ c.todo = <<>> /\ c.child = NoPid /\ c.now = "bridge"
    BY IdleFacts DEF CommandType, Stages, Underway, Bridging, Nows
  <2>2. op' = [op EXCEPT ![o] = c] /\ UNCHANGED <<loopVars, pidfile>> /\ op[o].pc # "record"
    BY <1>2 DEF StartAfterStop
  <2> HIDE DEF c
  <2>3. Sensible(o, c) /\ ~Cleared(c)
    BY <2>1 DEF Sensible, Cleared, Underway, Bridging
  <2>4. Commanded(o)
    BY <2>1, <2>2, <2>3, CommandStep
  <2> QED BY <2>2, <2>4, QuietStep
<1> QED BY <1>1, <1>2

(* The guard of yamctl: past it there is no owner.                         *)
LEMMA GuardKeeps ==
  ASSUME StackInv, NEW o \in Terminals, StepOf(o), Guard(o)
  PROVE  StackInv'
<1>1. op[o].pc = "guard" /\ UNCHANGED <<loopVars, pidfile>>
  BY DEF Guard
<1>2. /\ op[o].want # "none" /\ op[o].now = "none" /\ op[o].child = NoPid
      /\ op[o].now \in Nows /\ op[o].child \in Pids \cup {NoPid}
  <2>1. Sensible(o, op[o])
    BY CommandOf
  <2> QED BY <1>1, <2>1, Fields DEF Sensible, Underway, Bridging, Nows
<1>3. \/ Ends(o)
      \/ Owners = {} /\ \/ Proceeds(o, "check") \/ Proceeds(o, "launch")
                        \/ Undertakes(o, "bridge", "bridge")
  BY DEF Guard, Admitted
<1>4. ASSUME NEW pc \in {"check", "launch"}, Owners = {}, Proceeds(o, pc)
      PROVE  Commanded(o)
  <2>1. op' = [op EXCEPT ![o] = Turned(op[o], pc, op[o].now, op[o].child)]
    BY <1>4, ProceedsForm
  <2>2. CanTurn(o, pc, op[o].now, op[o].child)
    BY <1>1, <1>2, <1>4 DEF CanTurn, Stages, Underway, Bridging
  <2>3. Stepped(o) /\ op'[o].pc = pc
    BY <2>1, <2>2, OnwardStep
  <2> QED BY <1>1, <2>3 DEF Commanded
<1>5. ASSUME Owners = {}, Undertakes(o, "bridge", "bridge")
      PROVE  Commanded(o)
  <2>1. op' = [op EXCEPT ![o] = Turned(op[o], "bridge", "bridge", op[o].child)]
    BY <1>5, UndertakesForm
  <2>2. CanTurn(o, "bridge", "bridge", op[o].child)
    BY <1>1, <1>2, <1>5 DEF CanTurn, Stages, Underway, Bridging, Nows
  <2>3. Stepped(o) /\ op'[o].pc = "bridge"
    BY <2>1, <2>2, OnwardStep
  <2> QED BY <1>1, <2>3 DEF Commanded
<1>6. Ends(o) => Commanded(o)
  BY <1>1, EndsFacts
<1>7. Commanded(o)
  BY <1>3, <1>4, <1>5, <1>6
<1> QED BY <1>1, <1>7, QuietStep

(* The look at HARD_STOP of yamctl run, after --clear-stop.                *)
LEMMA CheckStopKeeps ==
  ASSUME StackInv, NEW o \in Terminals, StepOf(o), CheckStop(o)
  PROVE  StackInv'
<1> DEFINE c == [op[o] EXCEPT !.pc = "bridge", !.now = "bridge", !.opts = {}]
<1>1. op[o] \in CommandType /\ Sensible(o, op[o]) /\ op[o].pc = "check"
  BY CommandOf DEF CheckStop
<1>2. /\ c \in CommandType /\ c.pc = "bridge" /\ c.want = op[o].want /\ c.back = op[o].back
      /\ c.todo = op[o].todo /\ c.child = op[o].child /\ c.now = "bridge"
  BY <1>1 DEF CommandType, Options, Stages, Underway, Bridging, Nows
<1>3. ChecksOut(o) => op' = [op EXCEPT ![o] = c]
  BY DEF ChecksOut, StackInv, StackTypeOK
<1>4. /\ UNCHANGED <<socket, proc, pidfile>>
      /\ \/ stopFile' = FALSE /\ asked' = FALSE /\ after' = [p \in Pids |-> 0] /\ ChecksOut(o)
         \/ UNCHANGED <<stopFile, asked, after>> /\ (Ends(o) \/ ChecksOut(o))
  BY DEF CheckStop
<1> HIDE DEF c
<1>5. Commanded(o)
  <2>1. Sensible(o, c)
    BY <1>1, <1>2 DEF Sensible, Underway, Bridging
  <2>2. Cleared(c) => Cleared(op[o])
    BY <1>1, <1>2 DEF Cleared
  <2>3. ChecksOut(o) => Commanded(o)
    BY <1>1, <1>2, <1>3, <2>1, <2>2, CommandStep
  <2> QED BY <1>1, <1>4, <2>3, EndsFacts
<1>6. LoopTypeOK' /\ WithinBudget' /\ NoneStarts
  <2>1. CASE stopFile' = FALSE /\ asked' = FALSE /\ after' = [p \in Pids |-> 0]
    BY <1>4, <2>1, Typed, StopChanges DEF ClearStop
  <2>2. CASE UNCHANGED <<stopFile, asked, after>>
    <3>1. socket' \in BOOLEAN
      BY <1>4, Typed DEF LoopTypeOK
    <3> QED BY <1>4, <2>2, <3>1, Typed, LoopsStay
  <2> QED BY <1>4, <2>1, <2>2
<1> QED BY <1>4, <1>5, <1>6, NoStart

(* The end of cmd_start_bridge.                                            *)
LEMMA AfterBridgeFacts ==
  ASSUME StackInv, NEW o \in Terminals, StepOf(o), op[o].pc \in {"adopts", "adopt", "wait"},
         AfterBridge(o)
  PROVE  Commanded(o)
<1>1. CASE op[o].want = "none"
  <2>1. Ends(o)
    BY <1>1 DEF AfterBridge, Ends, StackInv, StackTypeOK
  <2> QED BY <2>1, EndsFacts
<1>2. CASE op[o].want # "none"
  <2>1. op' = [op EXCEPT ![o] = Turned(op[o], "launch", "none", NoPid)]
    BY <1>2 DEF AfterBridge, Turned, StackInv, StackTypeOK
  <2>2. Cleared(op[o])
    BY <1>2 DEF Cleared, Bridging
  <2>3. CanTurn(o, "launch", "none", NoPid)
    BY <1>2, <2>2 DEF CanTurn, Stages, Underway, Bridging, Nows
  <2>4. Stepped(o) /\ op'[o].pc = "launch"
    BY <2>1, <2>3, OnwardStep
  <2> QED BY <2>4 DEF Commanded
<1> QED BY <1>1, <1>2

(* The wait for the socket and for the child, and a Ctrl-C.                *)
LEMMA WaitsKeep ==
  ASSUME StackInv, NEW o \in Terminals, StepOf(o),
         WaitForSocket(o) \/ ChildEnds(o) \/ Interrupt(o)
  PROVE  StackInv'
<1>1. CASE WaitForSocket(o)
  <2>1. op[o].pc = "wait" /\ (AfterBridge(o) \/ Ends(o)) /\ UNCHANGED <<loopVars, pidfile>>
    BY <1>1 DEF WaitForSocket
  <2> QED BY <2>1, EndsFacts, AfterBridgeFacts, QuietStep
<1>2. CASE ChildEnds(o)
  BY <1>2, EndsFacts, QuietStep DEF ChildEnds
<1>3. CASE Interrupt(o)
  <2>1. op[o].child \in Pids
    <3>1. op[o].pc = "waits"
      BY <1>3 DEF Interrupt
    <3>2. Sensible(o, op[o]) /\ op[o].child \in Pids \cup {NoPid}
      BY CommandOf, Fields
    <3> QED BY <3>1, <3>2 DEF Sensible
  <2>2. /\ proc' = [proc EXCEPT ![op[o].child].flag = TRUE] /\ Ends(o) /\ op[o].pc = "waits"
        /\ UNCHANGED <<stopFile, socket, asked, after, pidfile>>
    BY <1>3 DEF Interrupt
  <2>3. Commanded(o)
    BY <2>2, EndsFacts
  <2> QED BY <2>1, <2>2, <2>3, Typed, Signalled, NoStart
<1> QED BY <1>1, <1>2, <1>3

(* A command at the start of a bridge.                                     *)
LEMMA BridgingFacts ==
  ASSUME StackInv, NEW o \in Terminals, op[o].pc \in Bridging
  PROVE  /\ op[o].now = "bridge" /\ op[o].child \in Pids \cup {NoPid} /\ op[o].pc # "stop"
         /\ op[o].pc = "adopt" <=> op[o].child # NoPid
         /\ op[o].want # "none" => Cleared(op[o])
<1>1. Sensible(o, op[o]) /\ op[o].child \in Pids \cup {NoPid}
  BY CommandOf, Fields
<1>2. op[o].now = "bridge"
  <2>1. op[o].pc \in Underway
    BY DEF Underway
  <2> QED BY <1>1, <2>1 DEF Sensible
<1> QED BY <1>1, <1>2 DEF Sensible, Cleared, Bridging

(* The look for the socket.                                                *)
LEMMA LookForSocketKeeps ==
  ASSUME StackInv, NEW o \in Terminals, StepOf(o), LookForSocket(o)
  PROVE  StackInv'
<1>1. /\ op[o].pc = "bridge" /\ UNCHANGED <<loopVars, pidfile>>
      /\ \E pc \in {"lines", "look"} : Proceeds(o, pc)
  BY DEF LookForSocket
<1>2. PICK pc \in {"lines", "look"} : Proceeds(o, pc)
  BY <1>1
<1>3. op' = [op EXCEPT ![o] = Turned(op[o], pc, op[o].now, op[o].child)]
  BY <1>2, ProceedsForm
<1>4. /\ op[o].now = "bridge" /\ op[o].child = NoPid
      /\ op[o].want # "none" => Cleared(op[o])
  BY <1>1, BridgingFacts DEF Bridging
<1>5. CanTurn(o, pc, op[o].now, op[o].child)
  BY <1>1, <1>4, Fields DEF CanTurn, Stages, Underway, Bridging
<1>6. Stepped(o) /\ op'[o].pc = pc
  BY <1>3, <1>5, OnwardStep
<1>7. Commanded(o)
  BY <1>1, <1>6 DEF Commanded
<1> QED BY <1>1, <1>7, QuietStep

(* The look for any line of a bridge in the process list.                  *)
LEMMA LookForBridgeKeeps ==
  ASSUME StackInv, NEW o \in Terminals, StepOf(o), LookForBridge(o)
  PROVE  StackInv'
<1>1. /\ op[o].pc = "lines" /\ UNCHANGED <<stopFile, proc, asked, after, pidfile>>
      /\ socket' = socket \/ socket' = FALSE
      /\ Ends(o) \/ \E pc \in {"adopts", "look"} : Proceeds(o, pc)
  BY DEF LookForBridge
<1>2. /\ op[o].now = "bridge" /\ op[o].child = NoPid
      /\ op[o].want # "none" => Cleared(op[o])
  BY <1>1, BridgingFacts DEF Bridging
<1>3. ASSUME NEW pc \in {"adopts", "look"}, Proceeds(o, pc)
      PROVE  Commanded(o)
  <2>1. op' = [op EXCEPT ![o] = Turned(op[o], pc, op[o].now, op[o].child)]
    BY <1>3, ProceedsForm
  <2>2. CanTurn(o, pc, op[o].now, op[o].child)
    BY <1>1, <1>2, Fields DEF CanTurn, Stages, Underway, Bridging
  <2>3. Stepped(o) /\ op'[o].pc = pc
    BY <2>1, <2>2, OnwardStep
  <2> QED BY <1>1, <2>3 DEF Commanded
<1>4. Commanded(o)
  BY <1>1, <1>3, EndsFacts
<1>5. socket' \in BOOLEAN
  BY <1>1, Typed DEF LoopTypeOK
<1>6. LoopTypeOK' /\ WithinBudget' /\ NoneStarts
  BY <1>1, <1>5, Typed, LoopsStay
<1> QED BY <1>1, <1>4, <1>6, NoStart

(* The look for the pid of a bridge: in order, it is the only one.         *)
LEMMA DiscoverBridgeKeeps ==
  ASSUME StackInv, NEW o \in Terminals, StepOf(o), DiscoverBridge(o)
  PROVE  StackInv'
<1>1. op[o].pc = "adopts" /\ UNCHANGED <<loopVars, pidfile>> /\ proc' = proc
  BY DEF DiscoverBridge, loopVars
<1>2. CASE AfterBridge(o)
  BY <1>1, <1>2, AfterBridgeFacts, QuietStep
<1>3. ASSUME NEW p \in Discovered("bridge"), Holds(o, p, "adopt")
      PROVE  StackInv'
  <2>1. op' = [op EXCEPT ![o] = Turned(op[o], "adopt", op[o].now, p)] /\ p \in Pids /\ p # NoPid
    BY <1>3, HoldsForm, StackAssumption DEF Discovered
  <2>2. op[o].now = "bridge" /\ (op[o].want # "none" => Cleared(op[o]))
    BY <1>1, BridgingFacts DEF Bridging
  <2>3. Stepped(o) /\ op'[o].pc = "adopt" /\ op'[o].now = "bridge" /\ op'[o].child = p
    <3>1. CanTurn(o, "adopt", op[o].now, p)
      BY <1>1, <2>1, <2>2, Fields DEF CanTurn, Stages, Underway, Bridging
    <3> QED BY <2>1, <2>2, <3>1, OnwardStep
  <2>4. p \in Running("bridge")
    BY <1>3 DEF Discovered, Patterns, Running
  <2>5. OwnerFound(op'[o]) /\ (~crossed => BridgeFound(op'[o]))
    BY <2>3, <2>4 DEF OwnerFound, BridgeFound, StackInv, BridgesInOrder, OneBridgeRuns
  <2>6. BackgroundIsReachable'
    BY <1>1, <2>3, NothingWritten
  <2> QED BY <1>1, <2>3, <2>5, <2>6, FoundStep DEF StackInv, StackTypeOK
<1> QED BY <1>2, <1>3, Zenon DEF DiscoverBridge

(* The write of that pid.                                                  *)
LEMMA AdoptBridgeKeeps ==
  ASSUME StackInv, NEW o \in Terminals, StepOf(o), AdoptBridge(o)
  PROVE  StackInv'
<1>1. /\ op[o].pc = "adopt" /\ pidfile' = [pidfile EXCEPT !["bridge"] = op[o].child]
      /\ AfterBridge(o) /\ UNCHANGED loopVars /\ o \in Operators
  BY DEF AdoptBridge, StepOf
<1>2. op[o].now = "bridge" /\ op[o].child \in Pids
  BY <1>1, BridgingFacts DEF Bridging
<1>3. Stepped(o) /\ op'[o].pc \notin {"spawn", "adopt", "record"}
  BY <1>1, AfterBridgeFacts DEF Commanded
<1>4. ~crossed => Running("bridge") \subseteq {op[o].child}
  BY <1>1, <1>2 DEF StackInv, BridgesInOrder, BridgeFound
<1>5. "bridge" \in Names
  BY DEF Names
<1> QED BY <1>1, <1>2, <1>3, <1>4, <1>5, Written

(* yamctl start-bridge as a whole.                                         *)
LEMMA StartBridgeKeeps ==
  ASSUME StackInv, NEW o \in Terminals, StepOf(o), StartBridge(o)
  PROVE  StackInv'
  BY LookForSocketKeeps, LookForBridgeKeeps, DiscoverBridgeKeeps, AdoptBridgeKeeps, WaitsKeep
     DEF StartBridge

(* A launch in the background calls _start_background.                     *)
LEMMA BackFacts ==
  ASSUME StackInv, NEW o \in Terminals, StepOf(o), op[o].pc = "launch", op[o].back,
         op[o].want \in OwnerProgs, op[o].child = NoPid, Cleared(op[o]),
         Undertakes(o, op[o].want, "look")
  PROVE  Commanded(o)
<1> DEFINE prog == op[o].want
<1>1. op' = [op EXCEPT ![o] = Turned(op[o], "look", prog, op[o].child)]
  BY UndertakesForm
<1>2. prog \in Nows /\ prog \notin {"none", "bridge"}
  BY DEF Nows, OwnerProgs
<1>3. CanTurn(o, "look", prog, op[o].child)
  BY <1>2, Fields DEF CanTurn, Stages, Underway, Bridging
<1> HIDE DEF prog
<1>4. Stepped(o) /\ op'[o].pc = "look"
  BY <1>1, <1>3, OnwardStep
<1> QED BY <1>4 DEF Commanded

(* The launch of what was guarded.                                         *)
LEMMA LaunchKeeps ==
  ASSUME StackInv, NEW o \in Terminals, StepOf(o), o = "operator", Launch(o)
  PROVE  StackInv'
<1>1. /\ op[o].pc = "launch" /\ op[o].want \in OwnerProgs /\ op[o].opts \in Options
      /\ op[o].now = "none" /\ op[o].child = NoPid /\ Cleared(op[o])
  <2>1. op[o].pc = "launch"
    BY Zenon DEF Launch
  <2> QED BY <2>1, CommandOf, Fields DEF Sensible, Cleared, Underway, Bridging
<1>2. Owners = {}
  BY <1>1 DEF StackInv, GuardHolds
<1>3. UNCHANGED <<stopFile, socket, asked, after, pidfile>> /\ socket' \in BOOLEAN
  <2>1. UNCHANGED <<stopFile, socket, asked, after, pidfile>>
    BY Zenon DEF Launch
  <2> QED BY <2>1, Typed DEF LoopTypeOK
<1>4. CASE op[o].back /\ Undertakes(o, op[o].want, "look") /\ UNCHANGED proc
  <2>1. Commanded(o)
    BY <1>1, <1>4, BackFacts
  <2> QED BY <1>3, <1>4, <2>1, QuietStep DEF loopVars
<1>5. ASSUME NEW p \in Pids, ~Live(p), proc' = Spawned(p, op[o].want, op[o].opts, TRUE),
             op' = [op EXCEPT ![o] = [Idle EXCEPT !.pc = "waits", !.child = p]]
      PROVE  StackInv'
  <2> DEFINE c == [Idle EXCEPT !.pc = "waits", !.child = p]
  <2>1. /\ c \in CommandType /\ c.pc = "waits" /\ c.want = "none" /\ c.back = FALSE
        /\ c.todo = <<>> /\ c.child = p /\ c.now = "none"
    BY IdleFacts DEF CommandType, Stages
  <2>2. op' = [op EXCEPT ![o] = c]
    BY <1>5
  <2> HIDE DEF c
  <2>3. Sensible(o, c) /\ ~Cleared(c)
    BY <2>1, StackAssumption DEF Sensible, Cleared, Underway, Bridging
  <2>4. Commanded(o) /\ op'[o] = c
    BY <1>1, <2>1, <2>2, <2>3, CommandStep
  <2>5. ~Cleared(op["dashboard"])
    BY CommandOf DEF Sensible, Cleared, Terminals
  <2>6. /\ \A x \in Terminals : x # o => op'[x] = op[x]
        /\ cast' = cast /\ crossed' \in BOOLEAN /\ Operators' = Operators /\ Operators \subseteq Terminals
    BY <2>4, CrossesFacts DEF Commanded, Stepped
  <2>7. \A x \in Terminals : ~Cleared(op'[x])
    BY <2>3, <2>4, <2>5, <2>6 DEF Terminals
  <2>8. op[o].want \in Progs /\ op[o].want # "bridge"
    BY <1>1 DEF OwnerProgs, Progs, Polling
  <2>9. LoopTypeOK' /\ WithinBudget' /\ Starts(p, op[o].want, TRUE)
    BY <1>1, <1>3, <1>5, <2>8, Typed, SpawnedFacts
  <2>10. /\ OneOwner' /\ BackgroundHasName'
         /\ Running("bridge")' \subseteq Running("bridge")
         /\ \A q \in Pids : Live(q)' /\ ~proc'[q].shell =>
              Live(q) /\ proc'[q].prog = proc[q].prog /\ ~proc[q].shell
    <3>1. TRUE \in BOOLEAN
      OBVIOUS
    <3> QED BY <1>2, <2>8, <2>9, <3>1, StartFacts
  <2>11. BridgesInOrder' /\ BackgroundIsReachable'
    BY <1>3, <2>4, <2>10, BridgesKeep, FilesKeep
  <2>12. OwnersFound'
    <3> SUFFICES ASSUME NEW x \in Operators PROVE OwnerFound(op[x])'
      BY <2>6 DEF OwnersFound
    <3>1. op'[x].pc # "record" \/ op'[x].now = "bridge"
      <4>1. CASE x = o
        BY <2>1, <2>4, <4>1
      <4>2. CASE x # o
        <5>1. x = "dashboard" /\ x \in Terminals
          BY <2>6, <4>2 DEF Terminals
        <5>2. Sensible(x, op[x])
          BY <5>1, CommandOf
        <5>3. op[x].want = "none" /\ op'[x] = op[x]
          BY <2>6, <4>2, <5>1, <5>2 DEF Sensible
        <5>4. op[x].pc = "record" => op[x].now # "none"
          BY <5>2 DEF Sensible, Underway
        <5> QED BY <5>2, <5>3, <5>4 DEF Sensible
      <4> QED BY <4>1, <4>2
    <3> QED BY <3>1 DEF OwnerFound
  <2>13. ProcessesInv'
    BY <1>3, <2>10, <2>11, <2>12 DEF ProcessesInv, StackInv, StackTypeOK
  <2>14. Stepped(o)
    BY <2>4 DEF Commanded
  <2> QED BY <2>6, <2>7, <2>9, <2>13, <2>14, Recomposed
<1> QED BY <1>4, <1>5, Zenon DEF Launch

-----------------------------------------------------------------------------
(* The steps of nobody's command.                                          *)

(* A dance, or a bridge of the script, in a terminal of its own.           *)
LEMMA StartsByHand ==
  ASSUME StackInv, cast' = cast, StartsDance \/ BridgeByHand
  PROVE  StackInv'
<1>1. ASSUME NEW prog \in {"dance", "bridge"}, NEW p \in Pids, ~Live(p),
             proc' = Spawned(p, prog, {}, TRUE), socket' \in BOOLEAN,
             UNCHANGED <<stopFile, asked, after, pidfile, op>>,
             crossed' \in BOOLEAN, ~crossed' => ~crossed,
             ~crossed' /\ prog = "bridge" => Running("bridge") = {} /\ StartingBridge(op) = {}
      PROVE  StackInv'
  <2>1. {} \in Options /\ prog \in Progs /\ prog \notin OwnerProgs /\ TRUE \in BOOLEAN
    BY DEF Options, Progs, Polling, OwnerProgs
  <2>2. LoopTypeOK' /\ WithinBudget' /\ Starts(p, prog, TRUE)
    BY <1>1, <2>1, Typed, SpawnedFacts
  <2>3. /\ OneOwner' /\ BackgroundHasName'
        /\ Owners' \subseteq Owners /\ \A q \in Owners' : proc'[q].prog = proc[q].prog
        /\ prog # "bridge" => Running("bridge")' \subseteq Running("bridge")
        /\ prog = "bridge" => Running("bridge")' \subseteq Running("bridge") \cup {p}
        /\ \A q \in Pids : Live(q)' /\ ~proc'[q].shell =>
             Live(q) /\ proc'[q].prog = proc[q].prog /\ ~proc[q].shell
    BY <2>1, <2>2, StartFacts
  <2>4. Operators' = Operators /\ op' = op
    BY <1>1 DEF Operators
  <2>5. OwnersFound'
    BY <2>3, <2>4 DEF StackInv, OwnersFound, OwnerFound
  <2>6. BridgesInOrder'
    <3>1. ASSUME ~crossed'
          PROVE  OneBridgeRuns' /\ \A x \in Operators' : BridgeFound(op[x])'
      <4>1. OneBridgeRuns /\ \A x \in Operators : BridgeFound(op[x])
        BY <1>1, <3>1 DEF StackInv, BridgesInOrder
      <4>2. CASE prog # "bridge"
        BY <2>3, <2>4, <4>1, <4>2 DEF OneBridgeRuns, BridgeFound
      <4>3. CASE prog = "bridge"
        <5>1. Running("bridge")' \subseteq {p} /\ \A x \in Operators : op[x].now # "bridge"
          BY <1>1, <2>3, <3>1, <4>3 DEF StartingBridge
        <5> QED BY <2>4, <5>1 DEF OneBridgeRuns, BridgeFound
      <4> QED BY <4>2, <4>3
    <3>2. ~crossed' => \A x, y \in StartingBridge(op)' : x = y
      BY <1>1, <2>4 DEF StackInv, BridgesInOrder, StartingBridge
    <3> QED BY <3>1, <3>2 DEF BridgesInOrder
  <2>7. BackgroundIsReachable'
    <3> SUFFICES ASSUME NEW q \in Pids, Live(q)', ~proc'[q].shell, proc'[q].prog = "bridge" => ~crossed'
                 PROVE  pidfile'[NameOf(proc'[q].prog)] = q \/ WrittenNext(q)'
      BY DEF BackgroundIsReachable
    <3>1. Live(q) /\ proc'[q].prog = proc[q].prog /\ ~proc[q].shell
      BY <2>3
    <3>2. pidfile[NameOf(proc[q].prog)] = q \/ WrittenNext(q)
      BY <1>1, <3>1 DEF StackInv, BackgroundIsReachable
    <3>3. WrittenNext(q) => WrittenNext(q)'
      BY <2>4, <3>1 DEF WrittenNext
    <3> QED BY <1>1, <3>1, <3>2, <3>3
  <2>8. ProcessesInv'
    BY <1>1, <2>3, <2>5, <2>6, <2>7 DEF ProcessesInv, StackInv, StackTypeOK
  <2> QED BY <1>1, <2>2, <2>3, <2>8, Recomposed
<1>2. CASE StartsDance
  <2>1. socket' \in BOOLEAN /\ crossed' \in BOOLEAN /\ crossed' = crossed
    BY <1>2, Typed DEF StartsDance, LoopTypeOK, StackInv, StackTypeOK
  <2>2. PICK p \in Pids : ~Live(p) /\ proc' = Spawned(p, "dance", {}, TRUE)
    BY <1>2 DEF StartsDance
  <2>3. UNCHANGED <<stopFile, asked, after, pidfile, op>>
    BY <1>2 DEF StartsDance
  <2> QED BY <1>1, <2>1, <2>2, <2>3
<1>3. CASE BridgeByHand
  <2>1. /\ socket' = FALSE /\ UNCHANGED <<stopFile, asked, after, pidfile, op>>
        /\ crossed' = (crossed \/ Running("bridge") # {} \/ StartingBridge(op) # {})
    BY <1>3 DEF BridgeByHand
  <2>2. PICK p \in Pids : ~Live(p) /\ proc' = Spawned(p, "bridge", {}, TRUE)
    BY <1>3 DEF BridgeByHand
  <2>3. /\ socket' \in BOOLEAN /\ crossed' \in BOOLEAN /\ (~crossed' => ~crossed)
        /\ ~crossed' => Running("bridge") = {} /\ StartingBridge(op) = {}
    BY <2>1 DEF StackInv, StackTypeOK
  <2> QED BY <1>1, <2>1, <2>2, <2>3
<1> QED BY <1>2, <1>3

(* HARD_STOP is written or removed by anybody.                             *)
LEMMA HardStopKeeps ==
  ASSUME StackInv, cast' = cast, HardStops \/ ClearsStop
  PROVE  StackInv'
  BY Typed, StopChanges, NoStart DEF HardStops, ClearsStop, Untouched

(* A step of a program.                                                    *)
LEMMA ProcessKeeps ==
  ASSUME StackInv, NEW p \in Pids, LoopStep(p) \/ BridgeEnds(p),
         UNCHANGED <<cast, pidfile, op, crossed>>
  PROVE  StackInv'
<1>1. LoopEffect(p)
  BY Typed, ProcessSteps
<1>2. LoopTypeOK' /\ WithinBudget' /\ NoneStarts
  BY <1>1 DEF LoopEffect, NoneStarts
<1> QED BY <1>2, NoStart DEF Untouched

-----------------------------------------------------------------------------
(* The invariant, and what it says of the stack.                           *)

(* Nothing runs at the start.                                              *)
LEMMA StackStarts == StackInit => StackInv
<1> SUFFICES ASSUME StackInit PROVE StackInv
  OBVIOUS
<1>1. /\ stopFile \in BOOLEAN /\ socket \in BOOLEAN /\ asked = FALSE
      /\ proc = [p \in Pids |-> Gone] /\ after = [p \in Pids |-> 0]
      /\ cast \in Casts /\ pidfile = [name \in Names |-> NoPid]
      /\ op = [o \in Terminals |-> Idle] /\ crossed = FALSE
  BY DEF StackInit, LoopInit, Terminals
<1>2. LoopTypeOK
  BY <1>1, GoneType DEF LoopTypeOK
<1>3. StackTypeOK
  BY <1>1, <1>2, IdleFacts DEF StackTypeOK
<1>4. CommandsMakeSense /\ GuardHolds
  BY <1>1, IdleFacts DEF CommandsMakeSense, GuardHolds
<1>5. Gone.prog = "none" /\ Gone.at = "none" /\ Ahead(Gone) = 0 /\ MostAfter("none") = 1
  BY DEF Gone, Ahead, AheadOf, MostAfter
<1>6. \A p \in Pids : proc[p] = Gone /\ after[p] = 0 /\ ~Live(p)
  BY <1>1, <1>5 DEF Live
<1>7. WithinBudget
  BY <1>5, <1>6 DEF WithinBudget
<1>8. OneOwner /\ BackgroundHasName /\ BackgroundIsReachable
  BY <1>5, <1>6 DEF OneOwner, Owners, BackgroundHasName, BackgroundIsReachable
<1>9. OwnersFound /\ BridgesInOrder
  <2>1. Operators \subseteq Terminals
    BY <1>1, StackAssumption DEF Operators, Terminals
  <2>2. \A o \in Operators : op[o] = Idle
    BY <1>1, <2>1
  <2>3. Owners = {} /\ Running("bridge") = {}
    BY <1>5, <1>6 DEF Owners, Running
  <2>4. StartingBridge(op) = {}
    BY <2>2, IdleFacts DEF StartingBridge
  <2> QED BY <2>2, <2>3, <2>4, IdleFacts
          DEF OwnersFound, OwnerFound, BridgesInOrder, OneBridgeRuns, BridgeFound
<1> QED BY <1>3, <1>4, <1>7, <1>8, <1>9 DEF StackInv

(* Every step of the stack preserves the invariant.                        *)
LEMMA StackSteps == StackInv /\ [StackNext]_stackVars => StackInv'
<1> SUFFICES ASSUME StackInv, [StackNext]_stackVars PROVE StackInv'
  OBVIOUS
<1>1. CASE UNCHANGED stackVars
  <2>1. UNCHANGED <<proc, after, stopFile, asked, pidfile>> /\ Untouched /\ socket' \in BOOLEAN
    BY <1>1, Typed DEF stackVars, loopVars, LoopTypeOK, Untouched
  <2> QED BY <2>1, Typed, LoopsStay, NoStart
<1>2. CASE StackNext
  <2>1. cast' = cast
    BY <1>2 DEF StackNext
  <2>2. Operators \subseteq Terminals
    BY StackAssumption DEF StackInv, StackTypeOK, Operators, Terminals
  <2>3. ASSUME NEW o \in Operators, Operator(o), Crosses PROVE StackInv'
    <3>1. o \in Terminals /\ StepOf(o)
      BY <2>1, <2>2, <2>3 DEF StepOf
    <3>2. CASE Terminal(o)
      BY <3>1, <3>2, StartCommands, StopCommands, GuardKeeps, CheckStopKeeps, LaunchKeeps, WaitsKeep
         DEF Terminal, Stops
    <3>3. CASE Dashboard(o)
      BY <3>1, <3>3, StopCommands, AfterStopKeeps DEF Dashboard, RestartsModel, RestartsBridge
    <3>4. CASE StopPid(o) \/ StartBridge(o) \/ StartBackground(o)
      BY <3>1, <3>4, StopPidKeeps, StartBridgeKeeps, BackgroundKeeps
    <3> QED BY <2>3, <3>2, <3>3, <3>4 DEF Operator
  <2>4. ASSUME NEW p \in Pids, Process(p) \/ BridgeFails(p) PROVE StackInv'
    BY <2>1, <2>4, ProcessKeeps DEF Process, BridgeFails
  <2>5. CASE StartsDance \/ BridgeByHand \/ HardStops \/ ClearsStop
    BY <2>1, <2>5, StartsByHand, HardStopKeeps
  <2> QED BY <1>2, <2>3, <2>4, <2>5 DEF StackNext
<1> QED BY <1>1, <1>2

(* The processes, the pid files, HARD_STOP and the commands of the         *)
(* operators are of their types, and StackInv holds of them, whatever is   *)
(* started, stopped, interrupted or fails.                                 *)
THEOREM StackInvariant == StackSpec => []StackInv
  BY StackStarts, StackSteps, PTL DEF StackSpec

(* While HARD_STOP exists no program has sent more than the rest of one    *)
(* batch since an operator wrote it, for every length of a batch and any   *)
(* number of processes: what it sent and what it may still send before its *)
(* next look at the file (Ahead) stay within the batch.                    *)
THEOREM StopObeyed == StackSpec => []StopIsObeyed
<1>1. StackInv => StopIsObeyed
  <2> SUFFICES ASSUME StackInv, stopFile, NEW p \in Pids PROVE after[p] <= MostAfter(proc[p].prog)
    BY DEF StopIsObeyed
  <2>1. after[p] + Ahead(proc[p]) <= MostAfter(proc[p].prog)
    BY DEF StackInv, WithinBudget
  <2>2. after[p] \in Nat /\ Ahead(proc[p]) \in Nat /\ MostAfter(proc[p].prog) \in Nat
    BY Typed, MostType, AheadType DEF Ahead, LoopTypeOK, ProcessType
  <2> QED BY <2>1, <2>2
<1> QED BY <1>1, StackInvariant, PTL

(* Behind the guard of yamctl (_ensure_no_robot_owner) two programs that   *)
(* command the arms never live at the same time.                           *)
THEOREM OneOwnerAtATime == StackSpec => []OneOwner
<1>1. StackInv => OneOwner
  BY DEF StackInv
<1> QED BY <1>1, StackInvariant, PTL

(* What yamctl runs in the background is in the pid file of its name, or   *)
(* is written there next: a model or a control server whatever else is     *)
(* started, a bridge until two have started bridges at a time.             *)
THEOREM BackgroundReachable == StackSpec => []BackgroundIsReachable
<1>1. StackInv => BackgroundIsReachable
  BY DEF StackInv
<1> QED BY <1>1, StackInvariant, PTL
=============================================================================
