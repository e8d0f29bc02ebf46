----------------------------- MODULE ArmProofs -----------------------------
(***************************************************************************)
(* The CAN bridge and the arm control server, as MCArms runs them.         *)
(*                                                                         *)
(* The bridge: OneReadPerEnd, for any connections and reads.  The property *)
(* alone is not inductive: a task that takes a read must have none yet,    *)
(* and one that submits a read again must have one.  ReadInv adds where a  *)
(* task is when it holds a read, and that no read is in two places.  The   *)
(* mutex has no part in it: what keeps the reads is that a task goes from  *)
(* its completion to the resubmission and nowhere else.                    *)
(*                                                                         *)
(* The server: TableIsTrue and ClosedForGood, for any clients, robots and  *)
(* settings.  TableIsTrue speaks of the time between calls; ArmsInv adds   *)
(* what the table says within one, which calls are in the lock, and that   *)
(* the arms never share a robot, so that closing the one of an arm leaves  *)
(* the other's alive.                                                      *)
(***************************************************************************)
EXTENDS CanBridge, YamControl, FiniteSetTheorems, SequenceTheorems, TLAPS

(***************************************************************************)
(* The bridge.                                                             *)
(***************************************************************************)

RxStates == {"again", "polls", "took", "resubmits", "forwards", "ended"}

BridgeTypeOK ==
  /\ handler \in [Conns -> {"none", "open", "closed"}]
  /\ rx \in [Conns -> RxStates]
  /\ flying \subseteq Reads /\ full \subseteq Reads
  /\ held \in [Conns -> Reads \cup {NoRead}]

(* Where a task is when it holds a read, and when it does not.             *)
HolderKnown ==
  \A c \in Conns :
    /\ rx[c] \in {"took", "resubmits"} => held[c] # NoRead
    /\ held[c] # NoRead =>
         \/ rx[c] \in {"took", "resubmits"}
         \/ rx[c] = "ended" /\ handler[c] = "closed"

(* A read is in one place, and in no other.                                *)
OnePlace ==
  /\ flying \cap full = {}
  /\ \A c \in Conns : held[c] \notin flying \cup full
  /\ \A c, other \in Conns : held[c] # NoRead /\ held[c] = held[other] => c = other

(* No read is forgotten.                                                   *)
SomePlace == \A r \in Reads : r \in flying \cup full \/ \E c \in Conns : held[c] = r

ReadInv == BridgeTypeOK /\ HolderKnown /\ OnePlace /\ SomePlace

-----------------------------------------------------------------------------
(* Every read starts in the queue (main.rs 209-219).                       *)
LEMMA ReadsSubmitted == BridgeInit => ReadInv
<1> SUFFICES ASSUME BridgeInit PROVE ReadInv
  OBVIOUS
<1>1. BridgeTypeOK
  BY DEF BridgeInit, BridgeTypeOK, RxStates
<1>2. HolderKnown
  BY DEF BridgeInit, HolderKnown
<1>3. OnePlace /\ SomePlace
  BY BridgeAssumption DEF BridgeInit, OnePlace, SomePlace
<1> QED
  BY <1>1, <1>2, <1>3 DEF ReadInv

(* A task that holds no read goes where it needs none.                     *)
LEMMA MovesWithoutRead ==
  ASSUME ReadInv, NEW c \in Conns, NEW pc \in RxStates \ {"took", "resubmits"},
         held[c] = NoRead, RxTo(c, pc),
         UNCHANGED <<handler, flying, full, held>>
  PROVE  ReadInv'
<1>1. BridgeTypeOK'
  BY DEF ReadInv, BridgeTypeOK, RxTo
<1>2. HolderKnown'
  BY DEF ReadInv, BridgeTypeOK, HolderKnown, RxTo
<1>3. OnePlace' /\ SomePlace'
  BY DEF ReadInv, OnePlace, SomePlace
<1> QED
  BY <1>1, <1>2, <1>3 DEF ReadInv

(* A connection starts its task.                                           *)
LEMMA AcceptKeeps ==
  ASSUME ReadInv, NEW c \in Conns, Accept(c) PROVE ReadInv'
<1>1. BridgeTypeOK'
  BY DEF ReadInv, BridgeTypeOK, RxStates, Accept, RxTo
<1>2. HolderKnown'
  BY DEF ReadInv, BridgeTypeOK, HolderKnown, Accept, RxTo
<1>3. OnePlace' /\ SomePlace'
  BY DEF ReadInv, OnePlace, SomePlace, Accept
<1> QED
  BY <1>1, <1>2, <1>3 DEF ReadInv

(* The adapter completes a read.                                           *)
LEMMA CompleteKeeps ==
  ASSUME ReadInv, NEW r \in Reads, Complete(r) PROVE ReadInv'
<1>1. BridgeTypeOK'
  BY DEF ReadInv, BridgeTypeOK, Complete
<1>2. HolderKnown'
  BY DEF ReadInv, HolderKnown, Complete
<1>3. OnePlace' /\ SomePlace'
  BY DEF ReadInv, OnePlace, SomePlace, Complete
<1> QED
  BY <1>1, <1>2, <1>3 DEF ReadInv

(* Taking a read moves it from the completed ones to the task.             *)
LEMMA TakesKeeps ==
  ASSUME ReadInv, NEW c \in Conns, Takes(c) PROVE ReadInv'
<1>1. PICK r \in full : full' = full \ {r} /\ held' = [held EXCEPT ![c] = r]
  BY DEF Takes
<1>2. r \in Reads /\ r # NoRead /\ UNCHANGED <<handler, flying>> /\ RxTo(c, "took")
  BY <1>1, BridgeAssumption DEF ReadInv, BridgeTypeOK, Takes
<1>3. held[c] = NoRead
  BY DEF ReadInv, BridgeTypeOK, HolderKnown, Takes, RxAt
<1>4. /\ held'[c] = r
      /\ \A other \in Conns \ {c} : held'[other] = held[other]
  BY <1>1 DEF ReadInv, BridgeTypeOK
<1>5. BridgeTypeOK'
  BY <1>1, <1>2 DEF ReadInv, BridgeTypeOK, RxStates, RxTo
<1>6. HolderKnown'
  BY <1>2, <1>4 DEF ReadInv, BridgeTypeOK, HolderKnown, RxTo
<1>7. OnePlace'
  <2>1. \A other \in Conns : held[other] # r
    BY <1>1 DEF ReadInv, OnePlace
  <2> QED
    BY <1>1, <1>2, <1>4, <2>1 DEF ReadInv, OnePlace
<1>8. SomePlace'
  <2> SUFFICES ASSUME NEW q \in Reads
               PROVE  q \in flying' \cup full' \/ \E d \in Conns : held'[d] = q
    BY DEF SomePlace
  <2>1. CASE q = r
    BY <1>4, <2>1
  <2>2. CASE q # r /\ q \in flying \cup full
    BY <1>1, <1>2, <2>2
  <2>3. CASE \E d \in Conns : held[d] = q
    BY <1>3, <1>4, <2>3, BridgeAssumption
  <2> QED
    BY <2>1, <2>2, <2>3 DEF ReadInv, SomePlace
<1> QED
  BY <1>5, <1>6, <1>7, <1>8 DEF ReadInv

(* Submitting it again moves it from the task to the submitted ones.       *)
LEMMA ResubmitsKeeps ==
  ASSUME ReadInv, NEW c \in Conns, Resubmits(c) PROVE ReadInv'
<1>1. PICK pc \in {"forwards", "again", "ended"} : RxTo(c, pc)
  BY DEF Resubmits
<1>2. /\ held[c] \in Reads /\ held[c] # NoRead
      /\ flying' = flying \cup {held[c]}
      /\ held' = [held EXCEPT ![c] = NoRead]
      /\ UNCHANGED <<handler, full>>
  BY DEF ReadInv, BridgeTypeOK, HolderKnown, Resubmits, RxAt
<1>3. /\ held'[c] = NoRead
      /\ \A other \in Conns \ {c} : held'[other] = held[other]
  BY <1>2 DEF ReadInv, BridgeTypeOK
<1>4. BridgeTypeOK'
  BY <1>1, <1>2 DEF ReadInv, BridgeTypeOK, RxStates, RxTo
<1>5. HolderKnown'
  BY <1>1, <1>2, <1>3 DEF ReadInv, BridgeTypeOK, HolderKnown, RxTo
<1>6. OnePlace'
  <2>1. \A other \in Conns \ {c} : held[other] # held[c]
    BY <1>2 DEF ReadInv, OnePlace
  <2>2. NoRead \notin flying' \cup full'
    BY <1>2, BridgeAssumption DEF ReadInv, BridgeTypeOK
  <2>3. flying' \cap full' = {}
    BY <1>2 DEF ReadInv, OnePlace
  <2>4. \A other \in Conns : held'[other] \notin flying' \cup full'
    BY <1>2, <1>3, <2>1, <2>2 DEF ReadInv, OnePlace
  <2>5. \A one, other \in Conns :
          held'[one] # NoRead /\ held'[one] = held'[other] => one = other
    BY <1>3 DEF ReadInv, OnePlace
  <2> QED
    BY <2>3, <2>4, <2>5 DEF OnePlace
<1>7. SomePlace'
  <2> SUFFICES ASSUME NEW q \in Reads
               PROVE  q \in flying' \cup full' \/ \E d \in Conns : held'[d] = q
    BY DEF SomePlace
  <2>1. CASE q = held[c] \/ q \in flying \cup full
    BY <1>2, <2>1
  <2>2. CASE \E d \in Conns \ {c} : held[d] = q
    BY <1>3, <2>2
  <2> QED
    BY <2>1, <2>2 DEF ReadInv, SomePlace
<1> QED
  BY <1>4, <1>5, <1>6, <1>7 DEF ReadInv

(* The end of a connection leaves what its task holds where it is.         *)
LEMMA EndsKeep ==
  ASSUME ReadInv, NEW c \in Conns, HandlerEnds(c) \/ Aborted(c) PROVE ReadInv'
<1>1. UNCHANGED <<flying, full, held>>
  BY DEF HandlerEnds, Aborted
<1>2. BridgeTypeOK'
  BY <1>1 DEF ReadInv, BridgeTypeOK, RxStates, HandlerEnds, Aborted, RxTo
<1>3. HolderKnown'
  <2>1. CASE HandlerEnds(c)
    BY <1>1, <2>1 DEF ReadInv, BridgeTypeOK, HolderKnown, HandlerEnds
  <2>2. CASE Aborted(c)
    BY <1>1, <2>2 DEF ReadInv, BridgeTypeOK, HolderKnown, Aborted, RxTo
  <2> QED
    BY <2>1, <2>2
<1>4. OnePlace' /\ SomePlace'
  BY <1>1 DEF ReadInv, OnePlace, SomePlace
<1> QED
  BY <1>2, <1>3, <1>4 DEF ReadInv

(* Every step of the bridge preserves the invariant.                       *)
LEMMA StepKeeps == ReadInv /\ [BridgeNext]_bridgeVars => ReadInv'
<1> SUFFICES ASSUME ReadInv, [BridgeNext]_bridgeVars PROVE ReadInv'
  OBVIOUS
<1>1. CASE UNCHANGED bridgeVars
  BY <1>1 DEF bridgeVars, ReadInv, BridgeTypeOK, HolderKnown, OnePlace, SomePlace
<1>2. CASE \E r \in Reads : Complete(r)
  BY <1>2, CompleteKeeps
<1>3. ASSUME NEW c \in Conns,
             Accept(c) \/ Runs(c) \/ Forwards(c) \/ HandlerEnds(c) \/ Aborted(c)
      PROVE  ReadInv'
  <2>1. CASE Accept(c)
    BY <2>1, AcceptKeeps
  <2>2. CASE AsksToPoll(c)
    <3>1. held[c] = NoRead
      BY <2>2 DEF ReadInv, HolderKnown, AsksToPoll, RxAt
    <3> QED
      BY <2>2, <3>1, MovesWithoutRead DEF AsksToPoll, AsksFor, RxStates
  <2>3. CASE Takes(c)
    BY <2>3, TakesKeeps
  <2>4. CASE Panics(c)
    <3>1. held[c] = NoRead
      BY <2>4 DEF ReadInv, HolderKnown, Panics, RxAt
    <3> QED
      BY <2>4, <3>1, MovesWithoutRead DEF Panics, RxStates
  <2>5. CASE AsksToResubmit(c)
    <3>1. UNCHANGED <<handler, flying, full, held>> /\ RxTo(c, "resubmits")
      BY <2>5 DEF AsksToResubmit, AsksFor
    <3>2. rx[c] = "took"
      BY <2>5 DEF AsksToResubmit, RxAt
    <3>3. BridgeTypeOK'
      BY <3>1 DEF ReadInv, BridgeTypeOK, RxStates, RxTo
    <3>4. HolderKnown'
      BY <3>1, <3>2 DEF ReadInv, BridgeTypeOK, HolderKnown, RxTo
    <3>5. OnePlace' /\ SomePlace'
      BY <3>1 DEF ReadInv, OnePlace, SomePlace
    <3> QED
      BY <3>3, <3>4, <3>5 DEF ReadInv
  <2>6. CASE Resubmits(c)
    BY <2>6, ResubmitsKeeps
  <2>7. CASE Forwards(c)
    <3>1. held[c] = NoRead
      BY <2>7 DEF ReadInv, HolderKnown, Forwards, RxAt
    <3> QED
      BY <2>7, <3>1, MovesWithoutRead DEF Forwards, RxStates
  <2>8. CASE HandlerEnds(c) \/ Aborted(c)
    BY <2>8, EndsKeep
  <2> QED
    BY <1>3, <2>1, <2>2, <2>3, <2>4, <2>5, <2>6, <2>7, <2>8 DEF Runs
<1> QED
  BY <1>1, <1>2, <1>3 DEF BridgeNext

(* What the invariant says of the ends of the tasks.                       *)
LEMMA InvGives == ReadInv => OneReadPerEnd
<1> SUFFICES ASSUME ReadInv, NEW r \in Reads \ (flying \cup full)
             PROVE  \E c \in Conns :
                      /\ held[c] = r
                      /\ \A other \in Conns \ {c} : held[other] # r
                      /\ rx[c] \in {"took", "resubmits"} \/ handler[c] = "closed"
  BY DEF OneReadPerEnd
<1>1. PICK c \in Conns : held[c] = r
  BY DEF ReadInv, SomePlace
<1>2. held[c] # NoRead
  BY <1>1, BridgeAssumption
<1> QED
  BY <1>1, <1>2 DEF ReadInv, HolderKnown, OnePlace

(* No read of the adapter is lost but one at the end of a connection       *)
(* (main.rs 245-291, 325), for any number of them.                         *)
THEOREM ReadsAreKept == BridgeSpec => []OneReadPerEnd
BY ReadsSubmitted, StepKeeps, InvGives, PTL DEF BridgeSpec

(***************************************************************************)
(* The server.                                                             *)
(***************************************************************************)

(* Types, of the table of arms and of the calls of the clients.            *)
ArmLists == {<<>>, <<"left", "right">>, <<"left">>, <<"right">>}

(* Where a call still has an arm to visit, and which methods get there.    *)
Reading == {"read"}
Commanding == {"lock command", "command"}
Visiting == {"check", "lock retry", "recheck", "fetch", "mark", "mark close", "mark forget"}

CallType ==
  [pc : Reading \cup Commanding \cup Visiting
          \cup {"idle", "lock reconnect", "connect", "lock close", "close"},
   method : MethodNames \cup {"none"}, todo : ArmLists, list : ArmLists,
   got : [Arms -> Robots \cup {None}]]

ArmTypeOK ==
  /\ setting \in Settings
  /\ robot \in [Arms -> Robots \cup {None}] /\ alive \subseteq Robots
  /\ connected \in [Arms -> BOOLEAN] /\ due \in [Arms -> BOOLEAN]
  /\ attempts \in [Arms -> Nat]
  /\ closed \in BOOLEAN /\ bridge \in BOOLEAN
  /\ lock \in Threads \cup {None}
  /\ call \in [Threads -> CallType]

(* A call goes where its method takes it, and it is one of its client's.   *)
Fits(c) ==
  /\ c.pc \in Reading \cup Commanding \cup Visiting => c.todo # <<>>
  /\ c.pc \in Reading => c.method = "read"
  /\ c.pc \in Commanding => c.method = "command"
  /\ c.pc \in Visiting => c.method \in {"read", "command"}
  /\ c.pc = "lock reconnect" => c.method = "reconnect"
  /\ c.pc = "connect" =>
       c.method = "reconnect" \/ (c.method \in {"read", "command"} /\ c.todo # <<>>)

CallsFit ==
  \A th \in Threads :
    Fits(call[th]) /\ (setting.methods[th] = {} => call[th].pc = "idle")

-----------------------------------------------------------------------------
(* The lock is held by the call that connects, commands or closes, or that *)
(* marks the arm of a command; a read marks its arm without it.            *)
InLock(c) ==
  \/ c.pc \in {"connect", "command", "close"}
  \/ c.pc \in {"mark", "mark close", "mark forget"} /\ c.method = "command"

LockIsHeld == \A th \in Threads : lock = th <=> InLock(call[th])

(* The arms never share a robot.                                           *)
OwnRobots == robot["left"] = robot["right"] => robot["left"] = None

(* What the table says of an arm, but for the one that is being marked.    *)
IsTrue(a) == IF connected[a] THEN robot[a] \in alive ELSE robot[a] = None
BeingMarked(a) ==
  \E th \in Threads :
    call[th].pc \in {"mark close", "mark forget"} /\ Head(call[th].todo) = a

TableHolds ==
  OneClient => \A a \in Arms : IF BeingMarked(a) THEN ~connected[a] ELSE IsTrue(a)

ArmsInv == ArmTypeOK /\ CallsFit /\ LockIsHeld /\ OwnRobots /\ TableHolds

-----------------------------------------------------------------------------
(* The first arm of a list, and the arms after it.                         *)
LEMMA ArmListFacts ==
  /\ \A list \in ArmLists \ {<<>>} : Head(list) \in Arms /\ Tail(list) \in ArmLists
  /\ ArmOrder \in ArmLists \ {<<>>}
<1>1. /\ Head(<<"left", "right">>) = "left" /\ Tail(<<"left", "right">>) = <<"right">>
      /\ Head(<<"left">>) = "left" /\ Tail(<<"left">>) = <<>>
      /\ Head(<<"right">>) = "right" /\ Tail(<<"right">>) = <<>>
  OBVIOUS
<1> QED BY <1>1 DEF ArmLists, Arms, ArmOrder

(* The arms a retry takes.                                                 *)
LEMMA DueArmsFacts == DueArms \in ArmLists
<1> DEFINE both == <<"left">> \o <<"right">>
           order == <<"left", "right">>
<1>1. <<>> \in Seq(Arms) /\ <<"left">> \in Seq(Arms) /\ <<"right">> \in Seq(Arms)
  BY DEF Arms
<1>2. <<>> \o <<>> = <<>> /\ <<"left">> \o <<>> = <<"left">> /\ <<>> \o <<"right">> = <<"right">>
  BY <1>1, ConcatEmptySeq
<1>3. both \in Seq(Arms) /\ Len(both) = 2 /\ both[1] = "left" /\ both[2] = "right"
  BY <1>1
<1>4. order \in Seq(Arms) /\ Len(order) = 2 /\ order[1] = "left" /\ order[2] = "right"
  BY DEF Arms
<1> HIDE DEF both, order
<1>5. \A i \in 1 .. Len(both) : both[i] = order[i]
  BY <1>3, <1>4
<1>6. both = order
  BY <1>3, <1>4, <1>5, SeqEqual
<1> USE DEF both, order
<1> QED BY <1>2, <1>6 DEF DueArms, ArmLists

-----------------------------------------------------------------------------
(* What a step of a thread does to its call, and to the lock.              *)

Called(th) ==
  /\ call' \in [Threads -> CallType]
  /\ \A x \in Threads : x # th => call'[x] = call[x]
  /\ Fits(call'[th])
  /\ setting.methods[th] # {}

LockStep(th) ==
  \/ lock' = lock /\ (InLock(call'[th]) <=> InLock(call[th]))
  \/ lock = None /\ lock' = th /\ InLock(call'[th])
  \/ lock = th /\ lock' = None /\ ~InLock(call'[th])

(* A call that is under way, with its parts.                               *)
LEMMA CallOf ==
  ASSUME ArmsInv, NEW th \in Threads
  PROVE  /\ call[th] \in CallType /\ Fits(call[th])
         /\ call[th].pc # "idle" => setting.methods[th] # {}
         /\ call[th].todo \in ArmLists /\ call[th].list \in ArmLists
         /\ lock = th <=> InLock(call[th])
  BY DEF ArmsInv, ArmTypeOK, CallsFit, LockIsHeld, CallType

(* A step of a call, by the call it leads to.                              *)
LEMMA CallStep ==
  ASSUME ArmsInv, NEW th \in Threads, NEW c \in CallType, call' = [call EXCEPT ![th] = c],
         Fits(c), setting.methods[th] # {}
  PROVE  Called(th) /\ call'[th] = c
  BY DEF ArmsInv, ArmTypeOK, Called

(* A call goes to another place, with what it has.                         *)
LEMMA GotoFacts ==
  ASSUME ArmsInv, NEW th \in Threads, NEW pc, Goto(th, pc), call[th].pc # "idle",
         pc \in Reading \cup Commanding \cup Visiting,
         call[th].todo # <<>>,
         pc \in Reading => call[th].method = "read",
         pc \in Commanding => call[th].method = "command",
         pc \in Visiting => call[th].method \in {"read", "command"}
  PROVE  /\ Called(th) /\ call'[th].pc = pc
         /\ call'[th].method = call[th].method /\ call'[th].todo = call[th].todo
<1> DEFINE c == [call[th] EXCEPT !.pc = pc]
<1>1. call[th] \in CallType /\ setting.methods[th] # {}
  BY CallOf
<1>2. /\ c \in CallType /\ c.pc = pc /\ c.method = call[th].method /\ c.todo = call[th].todo
  BY <1>1 DEF CallType
<1>3. call' = [call EXCEPT ![th] = c]
  BY DEF Goto, ArmsInv, ArmTypeOK
<1> HIDE DEF c
<1>4. Fits(c)
  BY <1>2 DEF Fits, Reading, Commanding, Visiting
<1> QED BY <1>1, <1>2, <1>3, <1>4, CallStep

(* A thread between two calls.                                             *)
LEMMA IdleCall ==
  /\ Idle \in CallType /\ Fits(Idle) /\ ~InLock(Idle)
  /\ Idle.pc = "idle" /\ Idle.method = "none" /\ Idle.todo = <<>> /\ Idle.list = <<>>
  BY DEF Idle, CallType, Fits, InLock, ArmLists, Reading, Commanding, Visiting

(* A call ends, and releases the lock if it held it.                       *)
LEMMA ReturnFacts ==
  ASSUME ArmsInv, NEW th \in Threads, Return(th), call[th].pc # "idle"
  PROVE  Called(th) /\ LockStep(th) /\ call'[th].pc = "idle"
<1>1. Called(th) /\ call'[th] = Idle
  BY CallOf, IdleCall, CallStep DEF Return
<1>2. lock' = IF lock = th THEN None ELSE lock
  BY DEF Return
<1>3. lock = th <=> InLock(call[th])
  BY CallOf
<1> QED BY <1>1, <1>2, <1>3, IdleCall DEF LockStep

-----------------------------------------------------------------------------
(* Each part of the invariant after a step of a thread.                    *)

(* The lock is held by the call that is in it.                             *)
LEMMA LockKeeps ==
  ASSUME ArmsInv, NEW th \in Threads, Called(th), LockStep(th)
  PROVE  LockIsHeld' /\ lock' \in Threads \cup {None}
<1>1. None \notin Threads
  BY ControlAssumption
<1>2. \A x \in Threads : lock = x <=> InLock(call[x])
  BY DEF ArmsInv, LockIsHeld
<1>3. \A x \in Threads : x # th => call'[x] = call[x]
  BY DEF Called
<1>4. lock \in Threads \cup {None}
  BY DEF ArmsInv, ArmTypeOK
<1>5. ASSUME NEW x \in Threads PROVE lock' = x <=> InLock(call'[x])
  <2>1. CASE x = th
    BY <1>1, <1>2, <2>1 DEF LockStep
  <2>2. CASE x # th
    BY <1>1, <1>2, <1>3, <2>2 DEF LockStep
  <2> QED BY <2>1, <2>2
<1> QED BY <1>4, <1>5 DEF LockStep, LockIsHeld

(* The only client: nobody else is in a call.                              *)
LEMMA OthersIdle ==
  ASSUME ArmsInv, OneClient, NEW th \in Threads, setting.methods[th] # {}
  PROVE  \A x \in Threads : x # th => call[x].pc = "idle"
<1> DEFINE S == {x \in Threads : setting.methods[x] # {}}
<1>1. IsFiniteSet(S)
  BY ControlAssumption, FS_Subset
<1>2. \E x : S = {x}
  BY <1>1, FS_Singleton DEF OneClient
<1>3. S = {th}
  BY <1>2
<1> QED BY <1>3 DEF ArmsInv, CallsFit

Marks(c, a) == c.pc \in {"mark close", "mark forget"} /\ Head(c.todo) = a

(* What the table says while the only client acts, and after its step.     *)
LEMMA TableNow ==
  ASSUME ArmsInv, OneClient, NEW th \in Threads, setting.methods[th] # {}
  PROVE  \A a \in Arms : IF Marks(call[th], a) THEN ~connected[a] ELSE IsTrue(a)
<1>1. \A a : BeingMarked(a) <=> Marks(call[th], a)
  BY OthersIdle DEF BeingMarked, Marks
<1> QED BY <1>1 DEF ArmsInv, TableHolds

(* The table after a step of the only client.                              *)
LEMMA TableNext ==
  ASSUME ArmsInv, NEW th \in Threads, Called(th), setting' = setting,
         OneClient =>
           \A a \in Arms : IF Marks(call'[th], a) THEN ~connected'[a] ELSE IsTrue(a)'
  PROVE  TableHolds'
<1> SUFFICES ASSUME OneClient
             PROVE  \A a \in Arms : IF BeingMarked(a)' THEN ~connected'[a] ELSE IsTrue(a)'
  BY DEF TableHolds, OneClient
<1>1. setting.methods[th] # {} /\ \A x \in Threads : x # th => call'[x] = call[x]
  BY DEF Called
<1>2. \A x \in Threads : x # th => call[x].pc = "idle"
  BY <1>1, OthersIdle
<1>3. \A a : BeingMarked(a)' <=> Marks(call'[th], a)
  BY <1>1, <1>2 DEF BeingMarked, Marks
<1> QED BY <1>3

(* Every call still goes where its method takes it.                        *)
LEMMA CallsFitNext ==
  ASSUME ArmsInv, NEW th \in Threads, Called(th), setting' = setting
  PROVE  CallsFit'
  BY DEF ArmsInv, CallsFit, Called

(* A step of a thread that leaves the table and the robots alone.          *)
LEMMA QuietStep ==
  ASSUME ArmsInv, NEW th \in Threads, Called(th), LockStep(th),
         UNCHANGED <<setting, arms, alive>>, closed' \in BOOLEAN, bridge' \in BOOLEAN,
         call[th].pc \notin {"mark close", "mark forget"},
         call'[th].pc \notin {"mark close", "mark forget"}
  PROVE  ArmsInv'
<1>1. UNCHANGED <<setting, robot, connected, due, attempts, alive>>
  BY DEF arms
<1>2. LockIsHeld' /\ lock' \in Threads \cup {None}
  BY LockKeeps
<1>3. ArmTypeOK'
  BY <1>1, <1>2 DEF ArmsInv, ArmTypeOK, Called
<1>4. OwnRobots'
  BY <1>1 DEF ArmsInv, OwnRobots
<1>5. OneClient => \A a \in Arms : IsTrue(a) /\ (IsTrue(a)' <=> IsTrue(a))
  BY <1>1, TableNow DEF Called, Marks, IsTrue
<1>6. TableHolds'
  BY <1>1, <1>5, TableNext DEF Marks
<1> QED BY <1>1, <1>2, <1>3, <1>4, <1>6, CallsFitNext DEF ArmsInv

-----------------------------------------------------------------------------
(* The steps of a call that leave the table and the robots alone.          *)

(* A step of a thread in a call, by where it goes.                         *)
LEMMA GotoKeeps ==
  ASSUME ArmsInv, NEW th \in Threads, NEW pc, Goto(th, pc), UNCHANGED <<setting, arms, alive>>,
         closed' \in BOOLEAN, bridge' \in BOOLEAN,
         call[th].pc \in Reading \cup Commanding \cup {"check", "lock retry", "recheck", "fetch"},
         pc \in Reading \cup Commanding \cup (Visiting \ {"mark close", "mark forget"}),
         pc \in Reading => call[th].method = "read",
         pc \in Commanding => call[th].method = "command",
         \/ lock' = lock /\ (InLock([call[th] EXCEPT !.pc = pc]) <=> InLock(call[th]))
         \/ lock = None /\ lock' = th /\ pc = "command"
  PROVE  ArmsInv'
<1>1. /\ call[th].pc # "idle" /\ call[th].todo # <<>> /\ call[th].method \in {"read", "command"}
      /\ call[th].pc \notin {"mark close", "mark forget"}
  BY CallOf DEF Fits, Reading, Commanding, Visiting
<1>2. /\ Called(th) /\ call'[th].pc = pc /\ call'[th].method = call[th].method
  BY <1>1, GotoFacts, Zenon
<1>3. InLock([call[th] EXCEPT !.pc = pc]) <=> InLock(call'[th])
  <2>1. call[th] \in CallType
    BY CallOf
  <2> DEFINE c == [call[th] EXCEPT !.pc = pc]
  <2>2. c.pc = pc /\ c.method = call[th].method
    BY <2>1 DEF CallType
  <2> HIDE DEF c
  <2>3. InLock(c) <=> InLock(call'[th])
    BY <1>2, <2>2 DEF InLock
  <2> QED BY <2>3 DEF c
<1>4. LockStep(th)
  BY <1>2, <1>3 DEF LockStep, InLock
<1>5. pc \notin {"mark close", "mark forget"}
  BY DEF Reading, Commanding
<1> QED BY <1>1, <1>2, <1>4, <1>5, QuietStep

(* A client calls a method.                                                *)
LEMMA BeginKeeps ==
  ASSUME ArmsInv, setting' = setting, NEW th \in Threads, Begin(th)
  PROVE  ArmsInv'
<1>1. PICK method \in setting.methods[th] :
        call' = [call EXCEPT ![th] =
          [Idle EXCEPT
             !.method = method,
             !.pc = CASE method = "reconnect" -> "lock reconnect"
                      [] method = "close" -> "lock close"
                      [] OTHER -> "check",
             !.todo = IF method \in {"read", "command"} THEN ArmOrder ELSE <<>>]]
  BY Zenon DEF Begin
<1> DEFINE pc == CASE method = "reconnect" -> "lock reconnect"
                   [] method = "close" -> "lock close"
                   [] OTHER -> "check"
           todo == IF method \in {"read", "command"} THEN ArmOrder ELSE <<>>
           c == [Idle EXCEPT !.method = method, !.pc = pc, !.todo = todo]
<1>2. call' = [call EXCEPT ![th] = c]
  BY <1>1
<1>3. method \in MethodNames /\ setting.methods[th] # {}
  BY ControlAssumption DEF ArmsInv, ArmTypeOK, Setting
<1>4. /\ pc \in {"lock reconnect", "lock close", "check"}
      /\ todo \in ArmLists
      /\ pc = "check" => method \in {"read", "command"} /\ todo # <<>>
      /\ pc = "lock reconnect" => method = "reconnect"
  BY <1>3, ArmListFacts DEF MethodNames, ArmLists
<1> HIDE DEF pc, todo
<1>5. c \in CallType /\ c.pc = pc /\ c.method = method /\ c.todo = todo
  BY <1>3, <1>4, IdleCall DEF CallType, Visiting
<1> HIDE DEF c
<1>6. Fits(c) /\ ~InLock(c)
  BY <1>4, <1>5 DEF Fits, InLock, Reading, Commanding, Visiting
<1>7. Called(th) /\ call'[th] = c
  BY <1>2, <1>3, <1>5, <1>6, CallStep
<1>8. call[th].pc = "idle" /\ ~InLock(call[th]) /\ UNCHANGED <<arms, closed, lock, bridge, alive>>
  BY DEF Begin, At, InLock
<1>9. LockStep(th) /\ call'[th].pc \notin {"mark close", "mark forget"}
  BY <1>4, <1>5, <1>6, <1>7, <1>8 DEF LockStep
<1>10. closed' \in BOOLEAN /\ bridge' \in BOOLEAN
  BY <1>8 DEF ArmsInv, ArmTypeOK
<1> QED BY <1>7, <1>8, <1>9, <1>10, QuietStep

(* _require_robot: two looks at the runtime and the robot.                 *)
LEMMA RequireKeeps ==
  ASSUME ArmsInv, setting' = setting, NEW th \in Threads, Check(th) \/ Recheck(th)
  PROVE  ArmsInv'
<1>1. call[th].pc \in {"check", "recheck"} /\ UNCHANGED <<arms, closed, bridge, alive>>
  BY DEF Check, Recheck, At
<1>2. closed' \in BOOLEAN /\ bridge' \in BOOLEAN
  BY <1>1 DEF ArmsInv, ArmTypeOK
<1>3. ASSUME NEW pc \in {"lock retry", "recheck", "fetch"}, Goto(th, pc), lock' = lock PROVE ArmsInv'
  <2>1. ~InLock(call[th]) /\ ~InLock([call[th] EXCEPT !.pc = pc])
    <3>1. call[th] \in CallType
      BY CallOf
    <3>2. [call[th] EXCEPT !.pc = pc].pc = pc
      BY <3>1 DEF CallType
    <3> QED BY <1>1, <3>2 DEF InLock
  <2> QED BY <1>1, <1>2, <1>3, <2>1, GotoKeeps DEF Visiting, Reading, Commanding
<1>4. CASE Return(th)
  <2>1. call[th].pc # "idle" /\ call[th].pc \notin {"mark close", "mark forget"}
    BY <1>1
  <2> QED BY <1>1, <1>2, <1>4, <2>1, ReturnFacts, QuietStep
<1>5. \/ Goto(th, "lock retry") /\ lock' = lock
      \/ Goto(th, "recheck") /\ lock' = lock
      \/ Goto(th, "fetch") /\ lock' = lock
      \/ Return(th)
  BY DEF Check, Recheck
<1> QED BY <1>3, <1>4, <1>5

(* The robot is returned to a read or to a command.                        *)
LEMMA FetchKeeps ==
  ASSUME ArmsInv, setting' = setting, NEW th \in Threads, Fetch(th)
  PROVE  ArmsInv'
<1> DEFINE got == [call[th].got EXCEPT ![Arm(th)] = robot[Arm(th)]]
           rest == Tail(call[th].todo)
           r == [call[th] EXCEPT !.got = got, !.pc = "read"]
           n == [call[th] EXCEPT !.got = got, !.pc = "check", !.todo = rest]
           l == [call[th] EXCEPT !.got = got, !.pc = "lock command", !.todo = ArmOrder]
<1>1. /\ call[th] \in CallType /\ call[th].todo \in ArmLists \ {<<>>}
      /\ setting.methods[th] # {} /\ call[th].pc = "fetch"
  BY CallOf DEF Fetch, At, Fits, Visiting
<1>2. got \in [Arms -> Robots \cup {None}] /\ rest \in ArmLists
  BY <1>1, ArmListFacts DEF ArmsInv, ArmTypeOK, Arm, CallType
<1>3. \/ call[th].method = "read" /\ call' = [call EXCEPT ![th] = r]
      \/ call[th].method = "command" /\ rest # <<>> /\ call' = [call EXCEPT ![th] = n]
      \/ call[th].method = "command" /\ call' = [call EXCEPT ![th] = l]
  BY <1>1 DEF Fetch, ArmsInv, ArmTypeOK
<1>4. UNCHANGED <<arms, closed, lock, bridge, alive>>
  BY DEF Fetch
<1> HIDE DEF got, rest
<1>5. /\ r \in CallType /\ r.pc = "read" /\ r.method = call[th].method /\ r.todo = call[th].todo
      /\ n \in CallType /\ n.pc = "check" /\ n.method = call[th].method /\ n.todo = rest
      /\ l \in CallType /\ l.pc = "lock command" /\ l.method = call[th].method /\ l.todo = ArmOrder
  BY <1>1, <1>2, ArmListFacts DEF CallType, Reading, Commanding, Visiting
<1> HIDE DEF r, n, l
<1>6. ASSUME NEW c \in {r, n, l}, call' = [call EXCEPT ![th] = c], Fits(c),
             c.pc \in {"read", "check", "lock command"}
      PROVE  ArmsInv'
  <2>1. Called(th) /\ call'[th] = c
    BY <1>1, <1>5, <1>6, CallStep
  <2>2. LockStep(th)
    BY <1>1, <1>4, <1>6, <2>1 DEF LockStep, InLock
  <2>3. closed' \in BOOLEAN /\ bridge' \in BOOLEAN
    BY <1>4 DEF ArmsInv, ArmTypeOK
  <2>4. call[th].pc \notin {"mark close", "mark forget"} /\ call'[th].pc \notin {"mark close", "mark forget"}
    BY <1>1, <1>6, <2>1
  <2> QED BY <1>4, <2>1, <2>2, <2>3, <2>4, QuietStep
<1>7. /\ call[th].method = "read" => Fits(r)
      /\ call[th].method = "command" /\ rest # <<>> => Fits(n)
      /\ call[th].method = "command" => Fits(l)
  BY <1>1, <1>5, ArmListFacts DEF Fits, Reading, Commanding, Visiting
<1> QED BY <1>3, <1>5, <1>6, <1>7

(* The lock is taken, to connect arms.                                     *)
LEMMA LockToConnect ==
  ASSUME ArmsInv, setting' = setting, NEW th \in Threads, LockRetry(th) \/ LockReconnect(th)
  PROVE  ArmsInv'
<1>1. /\ call[th].pc \in {"lock retry", "lock reconnect"} /\ call[th] \in CallType
      /\ setting.methods[th] # {} /\ lock = None /\ lock' = th
      /\ UNCHANGED <<arms, closed, bridge, alive>>
  BY CallOf DEF LockRetry, LockReconnect, At, Acquire
<1>2. PICK list \in ArmLists : call' = [call EXCEPT ![th].pc = "connect", ![th].list = list]
  BY DueArmsFacts, ArmListFacts DEF LockRetry, LockReconnect
<1> DEFINE c == [call[th] EXCEPT !.pc = "connect", !.list = list]
<1>3. /\ c \in CallType /\ c.pc = "connect" /\ c.method = call[th].method /\ c.todo = call[th].todo
  BY <1>1 DEF CallType
<1>4. call' = [call EXCEPT ![th] = c]
  BY <1>2 DEF ArmsInv, ArmTypeOK
<1> HIDE DEF c
<1>5. Fits(c)
  <2>1. call[th].method = "reconnect" \/ (call[th].method \in {"read", "command"} /\ call[th].todo # <<>>)
    BY CallOf, <1>1 DEF Fits, Visiting
  <2> QED BY <1>3, <2>1 DEF Fits, Reading, Commanding, Visiting
<1>6. Called(th) /\ call'[th] = c
  BY <1>1, <1>3, <1>4, <1>5, CallStep
<1>7. LockStep(th)
  BY <1>1, <1>3, <1>6 DEF LockStep, InLock
<1>8. closed' \in BOOLEAN /\ bridge' \in BOOLEAN
  BY <1>1 DEF ArmsInv, ArmTypeOK
<1>9. call[th].pc \notin {"mark close", "mark forget"} /\ call'[th].pc \notin {"mark close", "mark forget"}
  BY <1>1, <1>3, <1>6
<1> QED BY <1>1, <1>6, <1>7, <1>8, <1>9, QuietStep

(* The last arm of the list has been connected.                            *)
LEMMA ConnectedKeeps ==
  ASSUME ArmsInv, setting' = setting, NEW th \in Threads, Connected(th)
  PROVE  ArmsInv'
<1>1. call[th].pc = "connect" /\ UNCHANGED <<arms, closed, bridge, alive>>
  BY DEF Connected, At
<1>2. closed' \in BOOLEAN /\ bridge' \in BOOLEAN
  BY <1>1 DEF ArmsInv, ArmTypeOK
<1>3. CASE Return(th)
  BY <1>1, <1>2, <1>3, ReturnFacts, QuietStep
<1>4. CASE call[th].method # "reconnect" /\ Goto(th, "recheck") /\ lock' = None
  <2>1. call[th].method \in {"read", "command"} /\ call[th].todo # <<>>
    BY <1>1, <1>4, CallOf DEF Fits
  <2>2. Called(th) /\ call'[th].pc = "recheck"
    BY <1>1, <1>4, <2>1, GotoFacts DEF Visiting, Reading, Commanding
  <2>3. lock = th /\ ~InLock(call'[th])
    BY <1>1, <2>2, CallOf DEF InLock
  <2> QED BY <1>1, <1>2, <1>4, <2>2, <2>3, QuietStep DEF LockStep
<1> QED BY <1>3, <1>4 DEF Connected

(* The next arm of a read or of a command, or the end of the call.         *)
LEMMA NextArmFacts ==
  ASSUME ArmsInv, NEW th \in Threads, NEW pc \in {"check", "lock command"}, NextArm(th, pc),
         call[th].pc \in {"read", "command"},
         pc = "lock command" => call[th].method = "command"
  PROVE  /\ Called(th) /\ LockStep(th)
         /\ call'[th].pc \notin {"mark close", "mark forget"}
<1> DEFINE rest == Tail(call[th].todo)
           c == [call[th] EXCEPT !.todo = rest, !.pc = pc]
<1>1. CASE rest = <<>>
  <2>1. Return(th)
    BY <1>1 DEF NextArm
  <2> QED BY <2>1, ReturnFacts
<1>2. CASE rest # <<>>
  <2>1. /\ call[th] \in CallType /\ setting.methods[th] # {}
        /\ call[th].todo \in ArmLists \ {<<>>} /\ call[th].method \in {"read", "command"}
    BY CallOf DEF Fits, Reading, Commanding
  <2>2. rest \in ArmLists
    BY <2>1, ArmListFacts
  <2>3. call' = [call EXCEPT ![th] = c] /\ lock' = IF lock = th THEN None ELSE lock
    BY <1>2, <2>1 DEF NextArm, ArmsInv, ArmTypeOK
  <2> HIDE DEF rest
  <2>4. c \in CallType /\ c.pc = pc /\ c.method = call[th].method /\ c.todo = rest
    BY <2>1, <2>2 DEF CallType, Commanding, Visiting
  <2> HIDE DEF c
  <2>5. Fits(c)
    BY <1>2, <2>1, <2>4 DEF Fits, Reading, Commanding, Visiting
  <2>6. Called(th) /\ call'[th] = c
    BY <2>1, <2>3, <2>4, <2>5, CallStep
  <2>7. ~InLock(c)
    BY <2>4 DEF InLock
  <2>8. LockStep(th)
    BY <2>3, <2>6, <2>7, CallOf DEF LockStep
  <2> QED BY <2>4, <2>6, <2>8
<1> QED BY <1>1, <1>2

(* A call of a robot succeeds or fails.                                    *)
LEMMA RobotKeeps ==
  ASSUME ArmsInv, setting' = setting, NEW th \in Threads, ReadRobot(th) \/ CommandRobot(th)
  PROVE  ArmsInv'
<1>1. UNCHANGED <<arms, closed, bridge, alive>> /\ closed' \in BOOLEAN /\ bridge' \in BOOLEAN
  BY DEF ReadRobot, CommandRobot, ArmsInv, ArmTypeOK
<1>2. CASE ReadRobot(th)
  <2>1. call[th].pc = "read" /\ call[th].method = "read" /\ call[th] \in CallType
    BY <1>2, CallOf DEF ReadRobot, At, Fits, Reading
  <2>2. CASE NextArm(th, "check")
    BY <1>1, <2>1, <2>2, NextArmFacts, QuietStep
  <2>3. CASE Goto(th, "mark") /\ lock' = lock
    <3>1. [call[th] EXCEPT !.pc = "mark"].pc = "mark" /\ [call[th] EXCEPT !.pc = "mark"].method = "read"
      BY <2>1 DEF CallType
    <3>2. ~InLock([call[th] EXCEPT !.pc = "mark"]) /\ ~InLock(call[th])
      BY <2>1, <3>1 DEF InLock
    <3> QED BY <1>1, <2>1, <2>3, <3>2, GotoKeeps DEF Visiting, Reading, Commanding
  <2> QED BY <1>2, <2>2, <2>3 DEF ReadRobot
<1>3. CASE CommandRobot(th)
  <2>1. call[th].pc = "command" /\ call[th].method = "command" /\ call[th] \in CallType
    BY <1>3, CallOf DEF CommandRobot, At, Fits, Commanding
  <2>2. CASE NextArm(th, "lock command")
    BY <1>1, <2>1, <2>2, NextArmFacts, QuietStep
  <2>3. CASE Goto(th, "mark") /\ lock' = lock
    <3>1. [call[th] EXCEPT !.pc = "mark"].pc = "mark" /\ [call[th] EXCEPT !.pc = "mark"].method = "command"
      BY <2>1 DEF CallType
    <3>2. InLock([call[th] EXCEPT !.pc = "mark"]) /\ InLock(call[th])
      BY <2>1, <3>1 DEF InLock
    <3> QED BY <1>1, <2>1, <2>3, <3>2, GotoKeeps DEF Visiting, Reading, Commanding
  <2> QED BY <1>3, <2>2, <2>3 DEF CommandRobot
<1> QED BY <1>2, <1>3

(* The lock is taken for the next arm of a command.                        *)
LEMMA LockCommandKeeps ==
  ASSUME ArmsInv, setting' = setting, NEW th \in Threads, LockCommand(th)
  PROVE  ArmsInv'
<1>1. /\ UNCHANGED <<arms, closed, bridge, alive>> /\ closed' \in BOOLEAN /\ bridge' \in BOOLEAN
      /\ call[th].pc = "lock command" /\ lock = None /\ lock' = th /\ Goto(th, "command")
  BY DEF LockCommand, At, Acquire, ArmsInv, ArmTypeOK
<1>2. call[th].method = "command"
  BY <1>1, CallOf DEF Fits, Commanding
<1> QED BY <1>1, <1>2, GotoKeeps DEF Visiting, Reading, Commanding

-----------------------------------------------------------------------------
(* The steps of a call that change the table or the robots.                *)

(* The next arm on a list, in the lock.                                    *)
LEMMA NextToConnectFacts ==
  ASSUME ArmsInv, NEW th \in Threads, NextToConnect(th), call[th].pc \in {"connect", "close"},
         call[th].list # <<>>
  PROVE  /\ Called(th) /\ LockStep(th) /\ call'[th].pc = call[th].pc
<1> DEFINE c == [call[th] EXCEPT !.list = Tail(@)]
<1>1. /\ call[th] \in CallType /\ setting.methods[th] # {} /\ Fits(call[th])
      /\ Tail(call[th].list) \in ArmLists
  BY CallOf, ArmListFacts
<1>2. call' = [call EXCEPT ![th] = c] /\ lock' = lock
  BY DEF NextToConnect, ArmsInv, ArmTypeOK
<1>3. c \in CallType /\ c.pc = call[th].pc /\ c.method = call[th].method /\ c.todo = call[th].todo
  BY <1>1 DEF CallType
<1> HIDE DEF c
<1>4. Fits(c) /\ (InLock(c) <=> InLock(call[th]))
  BY <1>1, <1>3 DEF Fits, InLock
<1> QED BY <1>1, <1>2, <1>3, <1>4, CallStep DEF LockStep

(* The table and the robots after a step that only changes those of one    *)
(* arm: what the table says of it is true again.                           *)
LEMMA ArmStep ==
  ASSUME ArmsInv, setting' = setting, NEW th \in Threads, NEW a \in Arms, Called(th), LockStep(th),
         closed' \in BOOLEAN, bridge' \in BOOLEAN,
         robot' \in [Arms -> Robots \cup {None}], alive' \subseteq Robots,
         connected' \in [Arms -> BOOLEAN], due' \in [Arms -> BOOLEAN], attempts' \in [Arms -> Nat],
         \A b \in Arms \ {a} :
           /\ robot'[b] = robot[b] /\ connected'[b] = connected[b]
           /\ robot[b] # None /\ robot[b] \in alive => robot[b] \in alive'
           /\ robot'[a] # None => robot'[a] # robot[b],
         call[th].pc \in {"mark close", "mark forget"} => Head(call[th].todo) = a,
         call'[th].pc \in {"mark close", "mark forget"} => Head(call'[th].todo) = a,
         OneClient =>
           IF call'[th].pc \in {"mark close", "mark forget"} THEN ~connected'[a] ELSE IsTrue(a)'
  PROVE  ArmsInv'
<1>1. LockIsHeld' /\ lock' \in Threads \cup {None}
  BY LockKeeps
<1>2. ArmTypeOK'
  BY <1>1 DEF ArmsInv, ArmTypeOK, Called
<1>3. OwnRobots'
  BY DEF ArmsInv, OwnRobots, Arms
<1>4. None \notin alive
  BY ControlAssumption DEF ArmsInv, ArmTypeOK
<1>5. ASSUME OneClient, NEW b \in Arms PROVE IF Marks(call'[th], b) THEN ~connected'[b] ELSE IsTrue(b)'
  <2>1. CASE b = a
    BY <1>5, <2>1 DEF Marks
  <2>2. CASE b # a
    <3>1. ~Marks(call[th], b) /\ ~Marks(call'[th], b)
      BY <2>2 DEF Marks
    <3>2. IsTrue(b)
      BY <1>5, <3>1, TableNow DEF Called
    <3> QED BY <1>4, <2>2, <3>1, <3>2 DEF IsTrue
  <2> QED BY <2>1, <2>2
<1>6. TableHolds'
  BY <1>5, TableNext
<1> QED BY <1>1, <1>2, <1>3, <1>6, CallsFitNext DEF ArmsInv

(* The retry time and the attempts keep their types.                       *)
LEMMA ScheduleTypes ==
  ASSUME ArmsInv, NEW a \in Arms, Schedule(a)
  PROVE  attempts' \in [Arms -> Nat] /\ due' \in [Arms -> BOOLEAN]
<1>1. attempts \in [Arms -> Nat] /\ due \in [Arms -> BOOLEAN] /\ FloatLimit \in Nat
  BY ControlAssumption DEF ArmsInv, ArmTypeOK
<1>2. attempts' \in [Arms -> Nat]
  BY <1>1 DEF Schedule
<1>3. due' = [due EXCEPT ![a] = FALSE] \/ due' = [due EXCEPT ![a] = due[a]]
  BY Zenon DEF Schedule
<1> QED BY <1>1, <1>2, <1>3

(* The robot of an arm, and that of the other.                             *)
LEMMA RobotsOf ==
  ASSUME ArmsInv, NEW a \in Arms
  PROVE  /\ robot[a] \in Robots \cup {None} /\ None \notin Robots /\ None \notin alive
         /\ \A b \in Arms \ {a} : robot[a] = robot[b] => robot[a] = None
  BY ControlAssumption DEF ArmsInv, ArmTypeOK, OwnRobots, Arms

(* The factory opens a robot, which no arm has.                            *)
LEMMA OpensKeeps ==
  ASSUME ArmsInv, setting' = setting, NEW th \in Threads, NEW a \in Arms, Opens(th, a),
         call[th].pc = "connect", call[th].list # <<>>,
         closed' \in BOOLEAN, bridge' \in BOOLEAN
  PROVE  ArmsInv'
<1>1. PICK opened \in Unused :
        /\ robot' = [robot EXCEPT ![a] = opened] /\ alive' = alive \cup {opened}
        /\ connected' = [connected EXCEPT ![a] = TRUE] /\ due' = [due EXCEPT ![a] = TRUE]
        /\ attempts' = [attempts EXCEPT ![a] = 0] /\ NextToConnect(th)
  BY DEF Opens
<1>2. opened \in Robots /\ \A b \in Arms : opened # robot[b]
  BY DEF Unused
<1>3. Called(th) /\ LockStep(th) /\ call'[th].pc = "connect"
  BY <1>1, NextToConnectFacts
<1>4. /\ robot' \in [Arms -> Robots \cup {None}] /\ alive' \subseteq Robots
      /\ connected' \in [Arms -> BOOLEAN] /\ due' \in [Arms -> BOOLEAN]
      /\ attempts' \in [Arms -> Nat] /\ connected'[a] /\ robot'[a] = opened
      /\ \A b \in Arms \ {a} : robot'[b] = robot[b] /\ connected'[b] = connected[b]
  BY <1>1, <1>2 DEF ArmsInv, ArmTypeOK
<1>5. IsTrue(a)'
  BY <1>1, <1>4 DEF IsTrue
<1>6. \A b \in Arms \ {a} : /\ robot[b] # None /\ robot[b] \in alive => robot[b] \in alive'
                            /\ robot'[a] # None => robot'[a] # robot[b]
  BY <1>1, <1>2, <1>4
<1> QED BY <1>3, <1>4, <1>5, <1>6, ArmStep

(* The factory raises: the arm has no robot then.                          *)
LEMMA OpenFailsKeeps ==
  ASSUME ArmsInv, setting' = setting, NEW th \in Threads, NEW a \in Arms, OpenFails(th, a),
         call[th].pc = "connect", call[th].list # <<>>,
         closed' \in BOOLEAN, bridge' \in BOOLEAN
  PROVE  ArmsInv'
<1>1. /\ robot' = [robot EXCEPT ![a] = None] /\ connected' = [connected EXCEPT ![a] = FALSE]
      /\ alive' = alive /\ Schedule(a) /\ (Return(th) \/ NextToConnect(th))
  BY DEF OpenFails
<1>2. /\ Called(th) /\ LockStep(th) /\ call'[th].pc \in {"connect", "idle"}
  BY <1>1, ReturnFacts, NextToConnectFacts
<1>3. /\ robot' \in [Arms -> Robots \cup {None}] /\ alive' \subseteq Robots
      /\ connected' \in [Arms -> BOOLEAN] /\ ~connected'[a] /\ robot'[a] = None
      /\ \A b \in Arms \ {a} : robot'[b] = robot[b] /\ connected'[b] = connected[b]
  BY <1>1 DEF ArmsInv, ArmTypeOK
<1>4. IsTrue(a)'
  BY <1>3 DEF IsTrue
<1>5. attempts' \in [Arms -> Nat] /\ due' \in [Arms -> BOOLEAN]
  BY <1>1, ScheduleTypes
<1>6. \A b \in Arms \ {a} : /\ robot[b] # None /\ robot[b] \in alive => robot[b] \in alive'
                            /\ robot'[a] # None => robot'[a] # robot[b]
  BY <1>1, <1>3
<1> QED BY <1>2, <1>3, <1>4, <1>5, <1>6, ArmStep

(* _connect_arm of the next arm on the list.                               *)
LEMMA ConnectArmKeeps ==
  ASSUME ArmsInv, setting' = setting, NEW th \in Threads, ConnectArm(th)
  PROVE  ArmsInv'
<1>1. /\ call[th].pc = "connect" /\ call[th].list # <<>> /\ Head(call[th].list) \in Arms
      /\ closed' = closed /\ closed' \in BOOLEAN
  BY CallOf, ArmListFacts DEF ConnectArm, At, ArmsInv, ArmTypeOK
<1>0. PICK a \in Arms : a = Head(call[th].list)
  BY <1>1
<1>2. \/ NextToConnect(th) /\ UNCHANGED <<arms, bridge, alive>>
      \/ Return(th) /\ UNCHANGED <<arms, bridge, alive>>
      \/ bridge' = TRUE /\ (Opens(th, a) \/ OpenFails(th, a))
  BY <1>0 DEF ConnectArm
<1>3. CASE (NextToConnect(th) \/ Return(th)) /\ UNCHANGED <<arms, bridge, alive>>
  <2>1. bridge' \in BOOLEAN
    BY <1>3 DEF ArmsInv, ArmTypeOK
  <2>2. Called(th) /\ LockStep(th) /\ call'[th].pc \in {"connect", "idle"}
    BY <1>1, <1>3, NextToConnectFacts, ReturnFacts
  <2> QED BY <1>1, <1>3, <2>1, <2>2, QuietStep
<1>4. CASE bridge' = TRUE /\ (Opens(th, a) \/ OpenFails(th, a))
  BY <1>1, <1>4, OpensKeeps, OpenFailsKeeps
<1> QED BY <1>2, <1>3, <1>4

(* _mark_arm_failed: the flag, the robot, the table.                       *)
LEMMA MarkKeeps ==
  ASSUME ArmsInv, setting' = setting, NEW th \in Threads,
         MarkDisconnected(th) \/ MarkClose(th) \/ MarkForget(th)
  PROVE  ArmsInv'
<1>1. /\ call[th].pc \in {"mark", "mark close", "mark forget"}
      /\ call[th].todo # <<>> /\ call[th].method \in {"read", "command"}
      /\ setting.methods[th] # {} /\ Arm(th) \in Arms
      /\ closed' \in BOOLEAN /\ bridge' \in BOOLEAN
  <2>1. call[th].pc \in {"mark", "mark close", "mark forget"} /\ UNCHANGED <<closed, bridge>>
    BY DEF MarkDisconnected, MarkClose, MarkForget, At
  <2>2. call[th].todo # <<>> /\ call[th].method \in {"read", "command"}
    BY <2>1, CallOf DEF Fits, Visiting
  <2>3. Arm(th) \in Arms
    BY <2>2, CallOf, ArmListFacts DEF Arm
  <2> QED BY <2>1, <2>2, <2>3, CallOf DEF ArmsInv, ArmTypeOK
<1>0. PICK a \in Arms : a = Arm(th) /\ a = Head(call[th].todo)
  BY <1>1 DEF Arm
<1>2. ASSUME NEW pc \in {"mark close", "mark forget"}, Goto(th, pc), lock' = lock
      PROVE  /\ Called(th) /\ LockStep(th) /\ call'[th].pc = pc /\ Head(call'[th].todo) = a
  <2>1. /\ Called(th) /\ call'[th].pc = pc
        /\ call'[th].method = call[th].method /\ call'[th].todo = call[th].todo
    BY <1>1, <1>2, GotoFacts DEF Visiting, Reading, Commanding
  <2>2. InLock(call'[th]) <=> InLock(call[th])
    BY <1>1, <2>1 DEF InLock
  <2> QED BY <1>0, <1>1, <1>2, <2>1, <2>2 DEF LockStep
<1>3. OneClient /\ call[th].pc \in {"mark close", "mark forget"} => ~connected[a]
  BY <1>0, <1>1, TableNow DEF Marks
<1>4. CASE MarkDisconnected(th)
  <2>1. /\ connected' = [connected EXCEPT ![a] = FALSE] /\ Goto(th, "mark close")
        /\ UNCHANGED <<robot, due, attempts, lock, alive>> /\ call[th].pc = "mark"
    BY <1>0, <1>4 DEF MarkDisconnected, At
  <2>2. Called(th) /\ LockStep(th) /\ call'[th].pc = "mark close" /\ Head(call'[th].todo) = a
    BY <1>2, <2>1
  <2>3. /\ connected' \in [Arms -> BOOLEAN] /\ ~connected'[a]
        /\ \A b \in Arms \ {a} : connected'[b] = connected[b]
        /\ robot' \in [Arms -> Robots \cup {None}] /\ alive' \subseteq Robots
        /\ due' \in [Arms -> BOOLEAN] /\ attempts' \in [Arms -> Nat]
    BY <1>1, <2>1 DEF ArmsInv, ArmTypeOK
  <2>4. \A b \in Arms \ {a} : robot'[a] # None => robot'[a] # robot[b]
    BY <1>1, <2>1, RobotsOf
  <2> QED BY <1>0, <1>1, <2>1, <2>2, <2>3, <2>4, ArmStep
<1>5. CASE MarkClose(th)
  <2>1. /\ alive' \in {alive \ {robot[a]}, alive} /\ Goto(th, "mark forget")
        /\ UNCHANGED <<robot, connected, due, attempts, lock>> /\ call[th].pc = "mark close"
    BY <1>0, <1>5 DEF MarkClose, At, arms
  <2>2. Called(th) /\ LockStep(th) /\ call'[th].pc = "mark forget" /\ Head(call'[th].todo) = a
    BY <1>2, <2>1
  <2>3. /\ robot' \in [Arms -> Robots \cup {None}] /\ alive' \subseteq Robots
        /\ connected' \in [Arms -> BOOLEAN]
        /\ due' \in [Arms -> BOOLEAN] /\ attempts' \in [Arms -> Nat]
    BY <2>1 DEF ArmsInv, ArmTypeOK
  <2>4. \A b \in Arms \ {a} : /\ robot[b] # None /\ robot[b] \in alive => robot[b] \in alive'
                              /\ robot'[a] # None => robot'[a] # robot[b]
    BY <1>1, <2>1, RobotsOf
  <2>5. OneClient => ~connected'[a]
    BY <1>3, <2>1
  <2> QED BY <1>0, <1>1, <2>1, <2>2, <2>3, <2>4, <2>5, ArmStep
<1>6. CASE MarkForget(th)
  <2>1. /\ robot' = [robot EXCEPT ![a] = None] /\ Schedule(a) /\ Return(th)
        /\ UNCHANGED <<connected, alive>> /\ call[th].pc = "mark forget"
    BY <1>0, <1>6 DEF MarkForget, At
  <2>2. Called(th) /\ LockStep(th) /\ call'[th].pc = "idle"
    BY <2>1, ReturnFacts
  <2>3. /\ robot' \in [Arms -> Robots \cup {None}] /\ robot'[a] = None /\ alive' \subseteq Robots
        /\ connected' \in [Arms -> BOOLEAN]
        /\ \A b \in Arms \ {a} : robot'[b] = robot[b]
    BY <1>1, <2>1 DEF ArmsInv, ArmTypeOK
  <2>4. attempts' \in [Arms -> Nat] /\ due' \in [Arms -> BOOLEAN]
    BY <1>1, <2>1, ScheduleTypes
  <2>5. OneClient => IsTrue(a)'
    <3>1. connected' = connected
      BY <2>1
    <3>2. OneClient => ~connected'[a]
      BY <1>3, <2>1, <3>1
    <3> QED BY <2>3, <3>2 DEF IsTrue
  <2>6. \A b \in Arms \ {a} : /\ robot'[b] = robot[b] /\ connected'[b] = connected[b]
                              /\ robot[b] # None /\ robot[b] \in alive => robot[b] \in alive'
                              /\ robot'[a] # None => robot'[a] # robot[b]
    BY <2>1, <2>3
  <2>7. call[th].pc \in {"mark close", "mark forget"} => Head(call[th].todo) = a
    BY <1>0
  <2> QED BY <1>1, <2>2, <2>3, <2>4, <2>5, <2>6, <2>7, ArmStep
<1> QED BY <1>4, <1>5, <1>6

(* close(): the arms in their order, then the bridge.                      *)
LEMMA CloseKeeps ==
  ASSUME ArmsInv, setting' = setting, NEW th \in Threads,
         LockClose(th) \/ CloseArm(th) \/ CloseBridge(th)
  PROVE  ArmsInv'
<1>1. closed' \in BOOLEAN /\ bridge' \in BOOLEAN
  BY DEF LockClose, CloseArm, CloseBridge, ArmsInv, ArmTypeOK
<1>2. CASE LockClose(th)
  <2>1. call[th].pc = "lock close" /\ lock = None /\ UNCHANGED <<arms, alive>>
    BY <1>2 DEF LockClose, At
  <2>2. CASE Return(th)
    BY <1>1, <2>1, <2>2, ReturnFacts, QuietStep
  <2>3. CASE lock' = th /\ call' = [call EXCEPT ![th].pc = "close", ![th].list = ArmOrder]
    <3> DEFINE c == [call[th] EXCEPT !.pc = "close", !.list = ArmOrder]
    <3>1. call[th] \in CallType /\ setting.methods[th] # {}
      BY <2>1, CallOf
    <3>2. c \in CallType /\ c.pc = "close"
      BY <3>1, ArmListFacts DEF CallType
    <3>3. call' = [call EXCEPT ![th] = c]
      BY <2>3 DEF ArmsInv, ArmTypeOK
    <3> HIDE DEF c
    <3>4. Fits(c) /\ InLock(c)
      BY <3>2 DEF Fits, InLock, Reading, Commanding, Visiting
    <3>5. Called(th) /\ call'[th] = c
      BY <3>1, <3>2, <3>3, <3>4, CallStep
    <3>6. LockStep(th)
      BY <2>1, <2>3, <3>4, <3>5 DEF LockStep
    <3> QED BY <1>1, <2>1, <3>2, <3>5, <3>6, QuietStep
  <2> QED BY <1>2, <2>2, <2>3 DEF LockClose
<1>3. CASE CloseArm(th)
  <2>1. /\ call[th].pc = "close" /\ call[th].list # <<>> /\ Head(call[th].list) \in Arms
        /\ UNCHANGED <<due, attempts>>
    BY <1>3, CallOf, ArmListFacts DEF CloseArm, At
  <2>0. PICK a \in Arms : a = Head(call[th].list)
    BY <2>1
  <2>2. \/ /\ alive' = alive \ {robot[a]} /\ robot' = [robot EXCEPT ![a] = None]
           /\ connected' = [connected EXCEPT ![a] = FALSE] /\ NextToConnect(th)
        \/ Return(th) /\ UNCHANGED <<alive, robot, connected>>
    BY <1>3, <2>0 DEF CloseArm
  <2>3. CASE Return(th) /\ UNCHANGED <<alive, robot, connected>>
    <3>1. UNCHANGED <<arms, alive>>
      BY <2>1, <2>3 DEF arms
    <3> QED BY <1>1, <2>1, <2>3, <3>1, ReturnFacts, QuietStep
  <2>4. CASE /\ alive' = alive \ {robot[a]} /\ robot' = [robot EXCEPT ![a] = None]
             /\ connected' = [connected EXCEPT ![a] = FALSE] /\ NextToConnect(th)
    <3>1. Called(th) /\ LockStep(th) /\ call'[th].pc = "close"
      BY <2>1, <2>4, NextToConnectFacts
    <3>2. /\ robot' \in [Arms -> Robots \cup {None}] /\ alive' \subseteq Robots
          /\ connected' \in [Arms -> BOOLEAN] /\ ~connected'[a] /\ robot'[a] = None
          /\ due' \in [Arms -> BOOLEAN] /\ attempts' \in [Arms -> Nat]
          /\ \A b \in Arms \ {a} : robot'[b] = robot[b] /\ connected'[b] = connected[b]
      BY <2>1, <2>4 DEF ArmsInv, ArmTypeOK
    <3>3. \A b \in Arms \ {a} : /\ robot[b] # None /\ robot[b] \in alive => robot[b] \in alive'
                                /\ robot'[a] # None => robot'[a] # robot[b]
      BY <2>1, <2>4, <3>2, RobotsOf
    <3>4. IsTrue(a)'
      BY <3>2 DEF IsTrue
    <3> QED BY <1>1, <2>1, <3>1, <3>2, <3>3, <3>4, ArmStep
  <2> QED BY <2>2, <2>3, <2>4
<1>4. CASE CloseBridge(th)
  <2>1. call[th].pc = "close" /\ Return(th) /\ UNCHANGED <<arms, alive>>
    BY <1>4 DEF CloseBridge, At
  <2> QED BY <1>1, <2>1, ReturnFacts, QuietStep
<1> QED BY <1>2, <1>3, <1>4

-----------------------------------------------------------------------------
(* The invariant, and what it says of the server.                          *)

(* A step of no call: a retry time comes, the bridge dies, nothing.        *)
LEMMA OutsideKeeps ==
  ASSUME ArmsInv, UNCHANGED <<setting, robot, connected, closed, lock, alive, call>>,
         due' \in [Arms -> BOOLEAN], attempts' = attempts, bridge' \in BOOLEAN
  PROVE  ArmsInv'
<1>1. ArmTypeOK' /\ CallsFit'
  BY DEF ArmsInv, ArmTypeOK, CallsFit
<1>2. LockIsHeld' /\ OwnRobots'
  BY DEF ArmsInv, LockIsHeld, OwnRobots
<1>3. TableHolds'
  BY DEF ArmsInv, TableHolds, OneClient, BeingMarked, IsTrue
<1> QED BY <1>1, <1>2, <1>3 DEF ArmsInv

(* The arms have been tried once and nobody has called.                    *)
LEMMA ArmsStart == Init => ArmsInv
<1> SUFFICES ASSUME Init PROVE ArmsInv
  OBVIOUS
<1> DEFINE opened == CHOOSE f \in [Arms -> Robots] : f["left"] # f["right"]
<1>1. opened \in [Arms -> Robots] /\ opened["left"] # opened["right"]
  BY ControlAssumption
<1>2. /\ setting \in Settings /\ connected \in [Arms -> BOOLEAN]
      /\ robot = [a \in Arms |-> IF connected[a] THEN opened[a] ELSE None]
      /\ alive = {robot[a] : a \in Arms} \ {None}
      /\ due = connected /\ attempts = [a \in Arms |-> IF connected[a] THEN 0 ELSE 1]
      /\ closed = FALSE /\ lock = None /\ bridge = TRUE
      /\ call = [th \in Threads |-> Idle]
  BY DEF Init
<1> HIDE DEF opened
<1>3. /\ robot \in [Arms -> Robots \cup {None}] /\ alive \subseteq Robots
      /\ \A a \in Arms : robot[a] = IF connected[a] THEN opened[a] ELSE None
  BY <1>1, <1>2
<1>4. attempts \in [Arms -> Nat] /\ call \in [Threads -> CallType]
  BY <1>2, IdleCall
<1>5. ArmTypeOK
  BY <1>2, <1>3, <1>4 DEF ArmTypeOK
<1>6. CallsFit
  BY <1>2, IdleCall DEF CallsFit
<1>7. LockIsHeld
  BY <1>2, IdleCall, ControlAssumption DEF LockIsHeld
<1>8. OwnRobots
  BY <1>1, <1>3 DEF OwnRobots, Arms
<1>9. \A a \in Arms : IsTrue(a) /\ ~BeingMarked(a)
  <2>1. ASSUME NEW a \in Arms PROVE IsTrue(a)
    <3>1. opened[a] # None
      BY <1>1, ControlAssumption
    <3> QED BY <1>2, <1>3, <3>1 DEF IsTrue
  <2>2. ASSUME NEW a \in Arms PROVE ~BeingMarked(a)
    BY <1>2, IdleCall DEF BeingMarked
  <2> QED BY <2>1, <2>2
<1> QED BY <1>5, <1>6, <1>7, <1>8, <1>9 DEF ArmsInv, TableHolds

(* Every step of the server preserves the invariant.                       *)
LEMMA ArmsStep == ArmsInv /\ [Next]_vars => ArmsInv'
<1> SUFFICES ASSUME ArmsInv, [Next]_vars PROVE ArmsInv'
  OBVIOUS
<1>1. CASE UNCHANGED vars
  BY <1>1, OutsideKeeps DEF vars, arms, ArmsInv, ArmTypeOK
<1>2. CASE Next
  <2>1. setting' = setting
    BY <1>2 DEF Next
  <2>2. ASSUME NEW th \in Threads, Begin(th) \/ Step(th) PROVE ArmsInv'
    BY <2>1, <2>2, BeginKeeps, RequireKeeps, FetchKeeps, LockToConnect, ConnectedKeeps,
       ConnectArmKeeps, RobotKeeps, LockCommandKeeps, MarkKeeps, CloseKeeps DEF Step
  <2>3. ASSUME NEW a \in Arms, Tick(a) PROVE ArmsInv'
    <3>1. due' \in [Arms -> BOOLEAN] /\ bridge' \in BOOLEAN
      BY <2>3 DEF Tick, ArmsInv, ArmTypeOK
    <3> QED BY <2>1, <2>3, <3>1, OutsideKeeps DEF Tick
  <2>4. CASE BridgeDies
    <3>1. due' \in [Arms -> BOOLEAN] /\ bridge' \in BOOLEAN
      BY <2>4 DEF BridgeDies, arms, ArmsInv, ArmTypeOK
    <3> QED BY <2>1, <2>4, <3>1, OutsideKeeps DEF BridgeDies, arms
  <2> QED BY <1>2, <2>2, <2>3, <2>4 DEF Next
<1> QED BY <1>1, <1>2

(* For any clients, robots and failures: who reconnects, commands, closes  *)
(* or marks the arm of a command holds the lock and nobody else does, and  *)
(* the arms never share a robot.                                           *)
THEOREM ArmsInvariant == Spec => []ArmsInv
  BY ArmsStart, ArmsStep, PTL DEF Spec

(* Reconnecting, commanding, closing, and marking the arm of a command,    *)
(* are one at a time.                                                      *)
THEOREM OneInTheLock ==
  Spec => [](\A x, y \in Threads : InLock(call[x]) /\ InLock(call[y]) => x = y)
<1>1. ArmsInv => \A x, y \in Threads : InLock(call[x]) /\ InLock(call[y]) => x = y
  BY DEF ArmsInv, LockIsHeld
<1> QED BY <1>1, ArmsInvariant, PTL

(* Between the calls of one client an arm is marked connected when it has  *)
(* a robot that lives, whatever failed in reads, commands and reconnects.  *)
THEOREM TableTellsTheTruth == Spec => []TableIsTrue
<1>1. ArmsInv => TableIsTrue
  <2> SUFFICES ASSUME ArmsInv, OneClient, Quiet, NEW a \in Arms PROVE IsTrue(a)
    BY DEF TableIsTrue, IsTrue
  <2>1. ~BeingMarked(a)
    BY DEF Quiet, At, BeingMarked
  <2> QED BY <2>1 DEF ArmsInv, TableHolds
<1> QED BY <1>1, ArmsInvariant, PTL

(* Once close() has begun no call opens a robot or starts the bridge.      *)
THEOREM StaysClosed == Spec => ClosedForGood
<1>1. [Next]_vars => [closed => alive' \subseteq alive /\ (bridge' => bridge)]_vars
  <2> SUFFICES ASSUME Next, closed PROVE alive' \subseteq alive /\ (bridge' => bridge)
    OBVIOUS
  <2>1. ASSUME NEW th \in Threads, Begin(th) \/ Step(th)
        PROVE  alive' \subseteq alive /\ (bridge' => bridge)
    <3>1. CASE ConnectArm(th)
      BY <3>1 DEF ConnectArm, MayConnect
    <3>2. CASE MarkClose(th)
      BY <3>2 DEF MarkClose
    <3>3. CASE CloseArm(th)
      <4>1. bridge' = bridge /\ (alive' = alive \ {robot[Head(call[th].list)]} \/ alive' = alive)
        BY <3>3, Zenon DEF CloseArm
      <4> QED BY <4>1
    <3>4. CASE CloseBridge(th)
      BY <3>4 DEF CloseBridge
    <3>5. CASE ~(ConnectArm(th) \/ MarkClose(th) \/ CloseArm(th) \/ CloseBridge(th))
      <4>1. UNCHANGED <<alive, bridge>>
        BY <2>1, <3>5, Zenon DEF Begin, Step, Check, Recheck, Fetch, LockRetry, LockReconnect, Connected,
           ReadRobot, LockCommand, CommandRobot, MarkDisconnected, MarkForget, LockClose
      <4> QED BY <4>1
    <3> QED BY <3>1, <3>2, <3>3, <3>4, <3>5
  <2>2. CASE BridgeDies \/ \E a \in Arms : Tick(a)
    <3>1. alive' = alive /\ (bridge' = bridge \/ bridge' = FALSE)
      BY <2>2, Zenon DEF BridgeDies, Tick
    <3> QED BY <3>1
  <2> QED BY <2>1, <2>2 DEF Next
<1> QED BY <1>1, PTL DEF Spec, ClosedForGood
=============================================================================
