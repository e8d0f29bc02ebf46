---------------------------- MODULE CameraProofs ----------------------------
(***************************************************************************)
(* The safety properties of the camera server, for any number of cameras,  *)
(* captures, reset threads, pictures and queue slots.                      *)
(*                                                                         *)
(* The OpenCV feed.  OneCapture alone is not inductive: a reset that opens *)
(* a capture must know that none is open.  FeedInv adds who holds the      *)
(* reset lock, and which captures may be open at each point of a reset.    *)
(* The lock is what matters: request_reset, which is to start one reset    *)
(* thread at a time, may start two.                                        *)
(*                                                                         *)
(* The Orbbec feeds.  What is shown depends on what is still in the queue, *)
(* so OrbbecInv adds what the queue may hold, how its slots, its items and *)
(* its lock go together, and where half an item comes from.                *)
(***************************************************************************)
EXTENDS CameraFeed, OrbbecFeed, FiniteSetTheorems, SequenceTheorems, TLAPS

Locked == {"announce", "release", "open", "install", "clear"}

ResetterTypeOK ==
  resetter \in [Resetters -> [pc : {"idle", "new", "start"} \cup Locked, cap : Caps \cup {Nothing}]]

(* A reset past its first test holds the lock.                             *)
LockHeld == \A x \in Resetters : resetter[x].pc \in Locked => resetLock = x

(* What may be open, by where the reset that holds the lock is.            *)
OpenKnown ==
  \/ /\ open \subseteq {cap}
     /\ \A x \in Resetters : resetter[x].pc # "install"
     /\ \A x \in Resetters : resetter[x].pc = "open" => open = {}
  \/ \E x \in Resetters :
       resetter[x].pc = "install" /\ open \subseteq {resetter[x].cap}

FeedInv == ResetterTypeOK /\ LockHeld /\ OpenKnown

-----------------------------------------------------------------------------
LEMMA FeedStarts == Init => FeedInv
BY DEF Init, FeedInv, ResetterTypeOK, LockHeld, OpenKnown, Locked

(* A reset thread that is made, or started, has no part in the reset that  *)
(* is under way (229-237).                                                 *)
LEMMA MovedBeforeReset ==
  ASSUME FeedInv, UNCHANGED <<cap, open, resetLock>>,
         NEW x \in Resetters, resetter[x].pc \notin Locked,
         NEW pc \in {"new", "start"}, resetter' = [resetter EXCEPT ![x].pc = pc]
  PROVE  FeedInv'
<1>1. /\ resetter'[x].pc = pc
      /\ \A y \in Resetters \ {x} : resetter'[y] = resetter[y]
  BY DEF FeedInv, ResetterTypeOK
<1>2. ResetterTypeOK'
  BY DEF FeedInv, ResetterTypeOK
<1>3. LockHeld'
  BY <1>1 DEF FeedInv, LockHeld, Locked
<1>4. OpenKnown'
  BY <1>1 DEF FeedInv, OpenKnown, Locked
<1> QED
  BY <1>2, <1>3, <1>4 DEF FeedInv

LEMMA AssignKeeps ==
  ASSUME FeedInv, Assign, UNCHANGED <<cap, open, resetLock>> PROVE FeedInv'
<1>1. CASE Unstarted
  BY <1>1 DEF Assign, FeedInv, ResetterTypeOK, LockHeld, OpenKnown
<1>2. CASE ~Unstarted
  <2>1. PICK x \in Resetters :
          resetter[x].pc = "idle" /\ resetter' = [resetter EXCEPT ![x].pc = "new"]
    BY <1>2 DEF Assign
  <2> QED
    BY <2>1, MovedBeforeReset DEF Locked
<1> QED
  BY <1>1, <1>2

LEMMA BeginKeeps ==
  ASSUME FeedInv, Begin, UNCHANGED <<cap, open, resetLock>> PROVE FeedInv'
<1>1. CASE Unstarted /\ handle \in Resetters
  <2>1. /\ resetter[handle].pc \notin Locked
        /\ resetter' = [resetter EXCEPT ![handle].pc = "start"]
    BY <1>1 DEF Begin, Unstarted, Locked
  <2> QED
    BY <1>1, <2>1, MovedBeforeReset
<1>2. CASE ~(Unstarted /\ handle \in Resetters)
  <2>1. resetter' = resetter
    BY <1>2 DEF Begin, FeedInv, ResetterTypeOK
  <2> QED
    BY <2>1 DEF FeedInv, ResetterTypeOK, LockHeld, OpenKnown
<1> QED
  BY <1>1, <1>2

(* One step of a reset (239-264).                                          *)
LEMMA ResetKeeps ==
  ASSUME FeedInv, NEW x \in Resetters, Reset(x) PROVE FeedInv'
<1> USE DEF ResetAt
<1>a. Nothing \notin Resetters
  BY FeedAssumption
<1>1. CASE ResetStart(x) /\ resetLock # Nothing
  <2>1. /\ UNCHANGED <<cap, open, resetLock>>
        /\ resetter[x].pc = "start"
        /\ resetter' = [resetter EXCEPT ![x] = [pc |-> "idle", cap |-> Nothing]]
    BY <1>1 DEF ResetStart, ResetTo
  <2>2. ResetterTypeOK'
    BY <2>1 DEF FeedInv, ResetterTypeOK
  <2>3. LockHeld' /\ OpenKnown'
    BY <2>1 DEF FeedInv, ResetterTypeOK, LockHeld, OpenKnown, Locked
  <2> QED
    BY <2>2, <2>3 DEF FeedInv
<1>2. CASE ResetStart(x) /\ resetLock = Nothing
  <2>1. /\ UNCHANGED <<cap, open>> /\ resetLock' = x
        /\ resetter[x].pc = "start"
        /\ resetter' = [resetter EXCEPT ![x] = [pc |-> "announce", cap |-> Nothing]]
    BY <1>2 DEF ResetStart, ResetTo
  <2>2. \A y \in Resetters : resetter[y].pc \notin Locked
    BY <1>2, <1>a DEF FeedInv, LockHeld
  <2>3. ResetterTypeOK'
    BY <2>1 DEF FeedInv, ResetterTypeOK, Locked
  <2>4. LockHeld' /\ OpenKnown'
    BY <2>1, <2>2 DEF FeedInv, ResetterTypeOK, LockHeld, OpenKnown, Locked
  <2> QED
    BY <2>3, <2>4 DEF FeedInv
<1>b. ASSUME resetter[x].pc \in Locked
      PROVE  \A y \in Resetters \ {x} : resetter[y].pc \notin Locked
  BY <1>b DEF FeedInv, LockHeld
<1>3. CASE ResetAnnounce(x)
  <2>1. /\ UNCHANGED <<cap, open, resetLock>>
        /\ resetter[x].pc = "announce"
        /\ resetter' = [resetter EXCEPT ![x] = [pc |-> "release", cap |-> Nothing]]
    BY <1>3 DEF ResetAnnounce, ResetTo
  <2>2. ResetterTypeOK'
    BY <2>1 DEF FeedInv, ResetterTypeOK, Locked
  <2>3. LockHeld' /\ OpenKnown'
    BY <2>1, <1>b DEF FeedInv, ResetterTypeOK, LockHeld, OpenKnown, Locked
  <2> QED
    BY <2>2, <2>3 DEF FeedInv
<1>4. CASE ResetRelease(x)
  <2>1. /\ UNCHANGED <<cap, resetLock>> /\ open' = open \ {cap}
        /\ resetter[x].pc = "release"
        /\ resetter' = [resetter EXCEPT ![x] = [pc |-> "open", cap |-> Nothing]]
    BY <1>4 DEF ResetRelease, ResetTo
  <2>2. ResetterTypeOK'
    BY <2>1 DEF FeedInv, ResetterTypeOK, Locked
  <2>3. open \subseteq {cap}
    BY <2>1, <1>b DEF FeedInv, OpenKnown, Locked
  <2>4. LockHeld' /\ OpenKnown'
    BY <2>1, <2>3, <1>b DEF FeedInv, ResetterTypeOK, LockHeld, OpenKnown, Locked
  <2> QED
    BY <2>2, <2>4 DEF FeedInv
<1>5. CASE ResetOpen(x)
  <2>1. resetter[x].pc = "open" /\ UNCHANGED cap
    BY <1>5 DEF ResetOpen
  <2>2. open = {}
    BY <2>1, <1>b DEF FeedInv, OpenKnown, Locked
  <2>3. CASE resetter' = [resetter EXCEPT ![x] = [pc |-> "idle", cap |-> Nothing]]
             /\ UNCHANGED open
    <3>1. ResetterTypeOK'
      BY <2>3 DEF FeedInv, ResetterTypeOK
    <3>2. LockHeld' /\ OpenKnown'
      BY <2>1, <2>2, <2>3, <1>b DEF FeedInv, ResetterTypeOK, LockHeld, OpenKnown, Locked
    <3> QED
      BY <3>1, <3>2 DEF FeedInv
  <2>4. CASE \E new \in Caps :
               /\ resetter' = [resetter EXCEPT ![x] = [pc |-> "install", cap |-> new]]
               /\ open' = open \cup {new} /\ UNCHANGED resetLock
    <3>1. PICK new \in Caps :
            /\ resetter' = [resetter EXCEPT ![x] = [pc |-> "install", cap |-> new]]
            /\ open' = open \cup {new} /\ UNCHANGED resetLock
      BY <2>4
    <3>2. /\ resetter'[x] = [pc |-> "install", cap |-> new]
          /\ \A y \in Resetters \ {x} : resetter'[y] = resetter[y]
      BY <3>1 DEF FeedInv, ResetterTypeOK
    <3>3. ResetterTypeOK'
      BY <3>1 DEF FeedInv, ResetterTypeOK, Locked
    <3>4. LockHeld'
      BY <2>1, <3>1, <3>2 DEF FeedInv, LockHeld, Locked
    <3>5. OpenKnown'
      BY <2>2, <3>1, <3>2 DEF OpenKnown
    <3> QED
      BY <3>3, <3>4, <3>5 DEF FeedInv
  <2>5. \/ UNCHANGED open /\ ResetTo(x, "idle")
        \/ LET used == {cap, run.cap} \cup open
               new == CHOOSE c \in Caps : c \notin used
           IN /\ Caps \ used # {}
              /\ open' = open \cup {new}
              /\ resetter' = [resetter EXCEPT ![x] = [pc |-> "install", cap |-> new]]
              /\ UNCHANGED resetLock
    BY <1>5 DEF ResetOpen
  <2> QED
    BY <2>3, <2>4, <2>5 DEF ResetTo
<1>6. CASE ResetInstall(x)
  <2>1. /\ UNCHANGED <<open, resetLock>> /\ cap' = resetter[x].cap
        /\ resetter[x].pc = "install"
        /\ resetter' = [resetter EXCEPT ![x] = [pc |-> "clear", cap |-> Nothing]]
    BY <1>6 DEF ResetInstall, ResetTo
  <2>2. ResetterTypeOK'
    BY <2>1 DEF FeedInv, ResetterTypeOK, Locked
  <2>3. open \subseteq {resetter[x].cap}
    BY <2>1, <1>b DEF FeedInv, OpenKnown, Locked
  <2>4. LockHeld' /\ OpenKnown'
    BY <2>1, <2>3, <1>b DEF FeedInv, ResetterTypeOK, LockHeld, OpenKnown, Locked
  <2> QED
    BY <2>2, <2>4 DEF FeedInv
<1>7. CASE ResetClear(x)
  <2>1. /\ UNCHANGED <<cap, open>>
        /\ resetter[x].pc = "clear"
        /\ resetter' = [resetter EXCEPT ![x] = [pc |-> "idle", cap |-> Nothing]]
    BY <1>7 DEF ResetClear, ResetTo
  <2>2. ResetterTypeOK'
    BY <2>1 DEF FeedInv, ResetterTypeOK
  <2>3. LockHeld' /\ OpenKnown'
    BY <2>1, <1>b DEF FeedInv, ResetterTypeOK, LockHeld, OpenKnown, Locked
  <2> QED
    BY <2>2, <2>3 DEF FeedInv
<1> QED
  BY <1>1, <1>2, <1>3, <1>4, <1>5, <1>6, <1>7 DEF Reset

LEMMA StepKeeps == FeedInv /\ [Next]_vars => FeedInv'
<1> SUFFICES ASSUME FeedInv, [Next]_vars PROVE FeedInv'
  OBVIOUS
<1>1. CASE UNCHANGED <<cap, open, resetLock, resetter>>
  BY <1>1 DEF FeedInv, ResetterTypeOK, LockHeld, OpenKnown
<1>2. CASE Run
  <2>1. CASE RunAssigns \/ RunBegins
    BY <2>1, AssignKeeps, BeginKeeps DEF RunAssigns, RunBegins
  <2>2. CASE ~(RunAssigns \/ RunBegins)
    BY <1>1, <1>2, <2>2 DEF Run, ReadStart, ReadEnd, Store, CompareFrame, StartSince,
      HowLong, NoteFailure, FrameYet, FrameAge, RunRequests, resets
  <2> QED
    BY <2>1, <2>2
<1>3. CASE \E x \in Resetters : Reset(x)
  BY <1>3, ResetKeeps
<1>4. CASE ClientAssigns \/ ClientBegins
  BY <1>4, AssignKeeps, BeginKeeps DEF ClientAssigns, ClientBegins
<1>5. CASE ClientRequests \/ LatestAges \/ SameAges
  BY <1>1, <1>5 DEF ClientRequests, LatestAges, SameAges, resets
<1>6. CASE UNCHANGED vars
  BY <1>1, <1>6 DEF vars, resets
<1> QED
  BY <1>2, <1>3, <1>4, <1>5, <1>6 DEF Next

LEMMA InvGives == FeedInv => OneCapture
<1> SUFFICES ASSUME FeedInv PROVE OneCapture
  OBVIOUS
<1>1. ASSUME NEW c, open \subseteq {c} PROVE Cardinality(open) <= 1
  <2>1. IsFiniteSet({c}) /\ Cardinality({c}) = 1
    BY FS_Singleton
  <2>2. Cardinality(open) <= Cardinality({c})
    BY <1>1, <2>1, FS_Subset
  <2> QED
    BY <2>1, <2>2
<1>2. CASE open \subseteq {cap}
  BY <1>1, <1>2 DEF OneCapture
<1>3. CASE \E x \in Resetters : resetter[x].pc = "install" /\ open \subseteq {resetter[x].cap}
  <2>1. PICK x \in Resetters : resetter[x].pc = "install" /\ open \subseteq {resetter[x].cap}
    BY <1>3
  <2>2. Cardinality(open) <= 1
    BY <1>1, <2>1
  <2> QED
    BY <2>1, <2>2 DEF OneCapture, ResetAt
<1> QED
  BY <1>2, <1>3 DEF FeedInv, OpenKnown

(* The camera is never opened twice, whatever requests race (229-264).     *)
THEOREM CameraOpenedOnce == Spec => []OneCapture
BY FeedStarts, StepKeeps, InvGives, PTL DEF Spec

-----------------------------------------------------------------------------
(* The Orbbec feeds.                                                       *)
Items == [type : {"frame", "error"}, camera : Cameras]

ThreadStates ==
  [pc : {"check", "restart", "get", "apply", "blocked"}, item : Items \cup {CutShort}]

OrbbecTypeOK ==
  /\ worker \in {"new", "frames", "leaving", "dead"}
  /\ buffer \in Seq(Items)
  /\ slots \in Nat
  /\ writeLock \in {"free", "held", "lost"}
  /\ pipe \in Seq(Items \cup {CutShort})
  /\ orbbecRun \in ThreadStates
  /\ orbbecRun.pc = "apply" => orbbecRun.item \in Items
  /\ errors \subseteq Cameras /\ had \subseteq Cameras

(* A process that writes lives and has what it writes; the thread of the   *)
(* server restarts a dead process only.                                    *)
WritersLive ==
  /\ writeLock = "held" => worker # "dead" /\ buffer # <<>>
  /\ orbbecRun.pc = "restart" => worker = "dead"

(* The queue never holds more than maxsize items, whoever dies when.       *)
QueueIsBounded == slots + Len(buffer) + Len(pipe) <= Slots

(* The thread of the server waits for the rest of an item, or is to wait   *)
(* for it, only if a process was terminated in the middle of a write.      *)
HalvesAreOfTheKilled ==
  orbbecRun.pc = "blocked" \/ (\E i \in 1 .. Len(pipe) : pipe[i] = CutShort)
    => writeLock = "lost"

OrbbecInv ==
  OrbbecTypeOK /\ WritersLive /\ QueueIsBounded /\ HalvesAreOfTheKilled
    /\ AbsenceIsExplained

(* A finite set can be listed: SetToSeq chooses a sequence.                *)
LEMMA Listed ==
  ASSUME NEW S, IsFiniteSet(S) PROVE SetToSeq(S) \in Seq(S)
<1>1. Cardinality(S) \in Nat /\ ExistsBijection(1 .. Cardinality(S), S)
  BY FS_CardinalityType
<1>2. \E f \in [1 .. Cardinality(S) -> S] : IsInjective(f)
  BY <1>1 DEF ExistsBijection, Bijection, Injection
<1>3. SetToSeq(S) \in [1 .. Cardinality(S) -> S]
  BY <1>2 DEF SetToSeq
<1> QED
  BY <1>1, <1>3, SMT

(* The errors the worker raises, one for each camera (643-651).            *)
LEMMA FailuresListed == SetToSeq({Failure(cam) : cam \in Cameras}) \in Seq(Items)
<1> DEFINE failures == {Failure(cam) : cam \in Cameras}
           f == [cam \in Cameras |-> Failure(cam)]
<1>1. f \in [Cameras -> failures] /\ \A one \in failures : \E cam \in Cameras : f[cam] = one
  OBVIOUS
<1>2. IsFiniteSet(failures)
  <2>1. f \in Surjection(Cameras, failures)
    BY <1>1 DEF Surjection
  <2> HIDE DEF f, failures
  <2> QED
    BY <2>1, OrbbecAssumption, FS_Surjection
<1>3. SetToSeq(failures) \in Seq(failures)
  BY <1>2, Listed
<1>4. failures \subseteq Items
  BY DEF Failure, Items
<1> HIDE DEF failures
<1>5. SetToSeq(failures) \in Seq(Items)
  BY <1>3, <1>4, SMT
<1> QED
  BY <1>5 DEF failures

(* What is in the queue has a slot, so the numbers are numbers.            *)
LEMMA QueueNumbers ==
  ASSUME OrbbecTypeOK PROVE {Len(buffer), Len(pipe), slots, Slots} \subseteq Nat
BY LenProperties, OrbbecAssumption DEF OrbbecTypeOK

LEMMA WholeItems == CutShort \notin Items
BY DEF CutShort, Items

LEMMA ThreadChecks == Checks \in ThreadStates /\ Checks.pc = "check"
BY DEF Checks, ThreadStates

LEMMA OrbbecStarts == OrbbecInit => OrbbecInv
<1> SUFFICES ASSUME OrbbecInit PROVE OrbbecInv
  OBVIOUS
<1>1. /\ buffer = <<>> /\ pipe = <<>> /\ slots = Slots /\ orbbecRun.pc = "check"
      /\ Slots \in Nat
  BY OrbbecAssumption DEF OrbbecInit
<1>2. OrbbecTypeOK
  BY <1>1 DEF OrbbecInit, OrbbecTypeOK, ThreadStates
<1>3. Len(buffer) = 0 /\ Len(pipe) = 0
  BY <1>1
<1>4. WritersLive /\ QueueIsBounded /\ HalvesAreOfTheKilled
  BY <1>1, <1>3 DEF OrbbecInit, WritersLive, QueueIsBounded, HalvesAreOfTheKilled
<1> QED
  BY <1>2, <1>4 DEF OrbbecInit, OrbbecInv, AbsenceIsExplained

-----------------------------------------------------------------------------
(* The worker process.                                                     *)

(* put() of one item takes one slot (684-748).                             *)
LEMMA PutsKeeps == ASSUME OrbbecInv, WorkerPuts PROVE OrbbecInv'
<1>1. PICK item \in Items : buffer' = Append(buffer, item)
  BY DEF WorkerPuts, Frame, Failure, Items
<1>2. /\ worker # "dead" /\ slots > 0 /\ slots' = slots - 1
      /\ UNCHANGED <<worker, writeLock, pipe, orbbecRun, tables, had>>
  BY DEF WorkerPuts
<1>3. /\ buffer' \in Seq(Items) /\ buffer' # <<>> /\ Len(buffer') = Len(buffer) + 1
  BY <1>1, AppendProperties DEF OrbbecInv, OrbbecTypeOK
<1>4. OrbbecTypeOK'
  BY <1>2, <1>3 DEF OrbbecInv, OrbbecTypeOK, tables
<1>5. QueueIsBounded'
  BY <1>2, <1>3, QueueNumbers DEF OrbbecInv, QueueIsBounded
<1>6. WritersLive' /\ HalvesAreOfTheKilled' /\ AbsenceIsExplained'
  BY <1>2, <1>3 DEF OrbbecInv, WritersLive, HalvesAreOfTheKilled, AbsenceIsExplained, tables
<1> QED
  BY <1>4, <1>5, <1>6 DEF OrbbecInv

(* The errors of a failing worker take the slots there are (647-651).      *)
LEMMA RaisesKeeps == ASSUME OrbbecInv, WorkerRaises PROVE OrbbecInv'
<1> DEFINE raised == SetToSeq({Failure(cam) : cam \in Cameras})
           put == IF Len(raised) < slots THEN Len(raised) ELSE slots
           added == SubSeq(raised, 1, put)
<1>1. /\ worker # "dead" /\ worker' = "leaving"
      /\ buffer' = buffer \o added /\ slots' = slots - put
      /\ UNCHANGED <<writeLock, pipe, orbbecRun, tables, had>>
  BY DEF WorkerRaises
<1>2. raised \in Seq(Items)
  BY FailuresListed
<1> HIDE DEF raised
<1>3. put \in 0 .. slots /\ put \in 0 .. Len(raised) /\ Len(raised) \in Nat
  BY <1>2, QueueNumbers, LenProperties DEF OrbbecInv
<1> HIDE DEF put
<1>4. added \in Seq(Items) /\ Len(added) = put
  <2>1. \A i \in 1 .. put : raised[i] \in Items
    BY <1>2, <1>3, ElementOfSeq
  <2>2. put \in Int
    BY <1>3
  <2> QED
    BY <1>3, <2>1, <2>2, SubSeqProperties
<1> HIDE DEF added
<1>5. /\ buffer' \in Seq(Items) /\ Len(buffer') = Len(buffer) + put
      /\ buffer # <<>> => buffer' # <<>>
  <2>1. buffer \in Seq(Items)
    BY DEF OrbbecInv, OrbbecTypeOK
  <2>2. buffer' \in Seq(Items) /\ Len(buffer') = Len(buffer) + put
    BY <1>1, <1>4, <2>1, ConcatProperties
  <2>3. buffer # <<>> => Len(buffer) > 0
    BY <2>1, EmptySeq, LenProperties
  <2> QED
    BY <1>3, <2>1, <2>2, <2>3, EmptySeq, LenProperties
<1>6. OrbbecTypeOK'
  BY <1>1, <1>3, <1>5, QueueNumbers DEF OrbbecInv, OrbbecTypeOK, tables
<1>7. QueueIsBounded'
  BY <1>1, <1>3, <1>5, QueueNumbers DEF OrbbecInv, QueueIsBounded
<1>8. WritersLive'
  BY <1>1, <1>5 DEF OrbbecInv, WritersLive
<1>9. HalvesAreOfTheKilled' /\ AbsenceIsExplained'
  BY <1>1 DEF OrbbecInv, HalvesAreOfTheKilled, AbsenceIsExplained, tables
<1> QED
  BY <1>6, <1>7, <1>8, <1>9 DEF OrbbecInv

(* The worker opens its camera, or ends by itself when all is written.     *)
LEMMA OpensOrExitsKeeps == ASSUME OrbbecInv, WorkerOpens \/ WorkerExits PROVE OrbbecInv'
<1>1. /\ worker' \in {"frames", "dead"} /\ worker # "dead"
      /\ worker' = "dead" => writeLock # "held"
      /\ UNCHANGED <<queue, orbbecRun, tables, had>>
  BY DEF WorkerOpens, WorkerExits
<1>2. OrbbecTypeOK'
  BY <1>1 DEF OrbbecInv, OrbbecTypeOK, queue, tables
<1>3. QueueIsBounded' /\ HalvesAreOfTheKilled' /\ AbsenceIsExplained'
  BY <1>1 DEF OrbbecInv, QueueIsBounded, HalvesAreOfTheKilled, AbsenceIsExplained, queue, tables
<1>4. WritersLive'
  BY <1>1 DEF OrbbecInv, WritersLive, queue
<1> QED
  BY <1>2, <1>3, <1>4 DEF OrbbecInv

(* The feeder thread takes the lock of the writers.                        *)
LEMMA LocksKeeps == ASSUME OrbbecInv, FeederLocks PROVE OrbbecInv'
<1>1. /\ worker # "dead" /\ buffer # <<>> /\ writeLock = "free" /\ writeLock' = "held"
      /\ UNCHANGED <<worker, buffer, slots, pipe, orbbecRun, tables, had>>
  BY DEF FeederLocks
<1>2. OrbbecTypeOK'
  BY <1>1 DEF OrbbecInv, OrbbecTypeOK, tables
<1>3. QueueIsBounded' /\ AbsenceIsExplained'
  BY <1>1 DEF OrbbecInv, QueueIsBounded, AbsenceIsExplained, tables
<1>4. WritersLive' /\ HalvesAreOfTheKilled'
  BY <1>1 DEF OrbbecInv, WritersLive, HalvesAreOfTheKilled
<1> QED
  BY <1>2, <1>3, <1>4 DEF OrbbecInv

(* The feeder thread writes its first item.                                *)
LEMMA WritesKeeps == ASSUME OrbbecInv, FeederWrites PROVE OrbbecInv'
<1>1. /\ worker # "dead" /\ writeLock = "held" /\ writeLock' = "free"
      /\ pipe' = Append(pipe, Head(buffer)) /\ buffer' = Tail(buffer)
      /\ UNCHANGED <<worker, slots, orbbecRun, tables, had>>
  BY DEF FeederWrites
<1>2. buffer \in Seq(Items) /\ buffer # <<>> /\ pipe \in Seq(Items \cup {CutShort})
  BY <1>1 DEF OrbbecInv, OrbbecTypeOK, WritersLive
<1>3. PICK item : item = Head(buffer)
  OBVIOUS
<1>4. /\ item \in Items /\ buffer' \in Seq(Items) /\ Len(buffer') = Len(buffer) - 1
  BY <1>1, <1>2, <1>3, HeadTailProperties
<1>5. /\ pipe' \in Seq(Items \cup {CutShort}) /\ Len(pipe') = Len(pipe) + 1
      /\ \A i \in 1 .. Len(pipe) : pipe'[i] = pipe[i]
      /\ pipe'[Len(pipe) + 1] = item
  <2>1. item \in Items \cup {CutShort} /\ pipe' = Append(pipe, item)
    BY <1>1, <1>3, <1>4
  <2> QED
    BY <1>2, <2>1, AppendProperties
<1>6. OrbbecTypeOK'
  BY <1>1, <1>4, <1>5 DEF OrbbecInv, OrbbecTypeOK, tables
<1>7. QueueIsBounded'
  BY <1>1, <1>4, <1>5, QueueNumbers DEF OrbbecInv, QueueIsBounded
<1>8. HalvesAreOfTheKilled'
  <2>1. /\ orbbecRun.pc # "blocked"
        /\ \A i \in 1 .. Len(pipe) : pipe[i] # CutShort
    BY <1>1 DEF OrbbecInv, HalvesAreOfTheKilled
  <2>2. \A i \in 1 .. Len(pipe') : pipe'[i] # CutShort
    <3> SUFFICES ASSUME NEW i \in 1 .. Len(pipe') PROVE pipe'[i] # CutShort
      OBVIOUS
    <3>1. i \in 1 .. Len(pipe) \/ i = Len(pipe) + 1
      BY <1>5, QueueNumbers DEF OrbbecInv
    <3> QED
      BY <1>4, <1>5, <2>1, <3>1, WholeItems
  <2> QED
    BY <1>1, <2>1, <2>2 DEF HalvesAreOfTheKilled
<1>9. WritersLive' /\ AbsenceIsExplained'
  BY <1>1 DEF OrbbecInv, WritersLive, AbsenceIsExplained, tables
<1> QED
  BY <1>6, <1>7, <1>8, <1>9 DEF OrbbecInv

-----------------------------------------------------------------------------
(* The thread of the server.                                               *)

(* A dead worker is an error of every camera (551-564).                    *)
LEMMA ChecksKeeps == ASSUME OrbbecInv, RunChecks PROVE OrbbecInv'
<1>1. /\ UNCHANGED <<worker, queue, orbbecLatest, had>>
      /\ \/ /\ worker = "dead" /\ errors' = Cameras
            /\ orbbecRun' = [orbbecRun EXCEPT !.pc = "restart"]
         \/ /\ UNCHANGED errors
            /\ orbbecRun' = [orbbecRun EXCEPT !.pc = "get"]
  BY DEF RunChecks
<1>2. /\ orbbecRun' \in ThreadStates /\ orbbecRun'.pc \in {"get", "restart"}
      /\ orbbecRun'.pc = "restart" => worker = "dead"
  BY <1>1 DEF OrbbecInv, OrbbecTypeOK, ThreadStates
<1>3. errors' \subseteq Cameras /\ errors \subseteq errors'
  BY <1>1 DEF OrbbecInv, OrbbecTypeOK
<1>4. OrbbecTypeOK'
  BY <1>1, <1>2, <1>3 DEF OrbbecInv, OrbbecTypeOK, queue
<1>5. QueueIsBounded' /\ AbsenceIsExplained'
  BY <1>1, <1>3 DEF OrbbecInv, QueueIsBounded, AbsenceIsExplained, queue
<1>6. WritersLive' /\ HalvesAreOfTheKilled'
  BY <1>1, <1>2 DEF OrbbecInv, WritersLive, HalvesAreOfTheKilled, queue
<1> QED
  BY <1>4, <1>5, <1>6 DEF OrbbecInv

(* The next worker begins with nothing to write (585-589).                 *)
LEMMA RestartsKeeps == ASSUME OrbbecInv, RunRestarts PROVE OrbbecInv'
<1>1. /\ orbbecRun.pc = "restart" /\ orbbecRun' = Checks
      /\ worker' = "new" /\ buffer' = <<>>
      /\ UNCHANGED <<slots, writeLock, pipe, tables, had>>
  BY DEF RunRestarts
<1>2. orbbecRun' \in ThreadStates /\ orbbecRun'.pc = "check"
  BY <1>1, ThreadChecks
<1>3. buffer' \in Seq(Items) /\ Len(buffer') = 0
  BY <1>1
<1>4. OrbbecTypeOK'
  BY <1>1, <1>2, <1>3 DEF OrbbecInv, OrbbecTypeOK, tables
<1>5. QueueIsBounded'
  BY <1>1, <1>3, QueueNumbers DEF OrbbecInv, QueueIsBounded
<1>6. WritersLive' /\ HalvesAreOfTheKilled' /\ AbsenceIsExplained'
  BY <1>1, <1>2 DEF OrbbecInv, WritersLive, HalvesAreOfTheKilled, AbsenceIsExplained, tables
<1> QED
  BY <1>4, <1>5, <1>6 DEF OrbbecInv

(* get() takes the first item and gives its slot back (565-570).           *)
LEMMA GetsKeeps == ASSUME OrbbecInv, RunGets PROVE OrbbecInv'
<1>1. UNCHANGED <<worker, buffer, writeLock, tables, had>>
  BY DEF RunGets
<1>2. CASE /\ orbbecRun' = Checks
           /\ UNCHANGED <<pipe, slots>>
  <2>1. orbbecRun' \in ThreadStates /\ orbbecRun'.pc = "check"
    BY <1>2, ThreadChecks
  <2>2. OrbbecTypeOK'
    BY <1>1, <1>2, <2>1 DEF OrbbecInv, OrbbecTypeOK, tables
  <2>3. QueueIsBounded' /\ WritersLive' /\ HalvesAreOfTheKilled' /\ AbsenceIsExplained'
    BY <1>1, <1>2, <2>1 DEF OrbbecInv, QueueIsBounded, WritersLive, HalvesAreOfTheKilled,
      AbsenceIsExplained, tables
  <2> QED
    BY <2>2, <2>3 DEF OrbbecInv
<1>3. CASE /\ pipe # <<>>
           /\ orbbecRun' = [pc |-> IF Head(pipe) = CutShort THEN "blocked" ELSE "apply",
                            item |-> Head(pipe)]
           /\ pipe' = Tail(pipe)
           /\ slots' = IF Head(pipe) = CutShort THEN slots ELSE slots + 1
  <2>1. pipe \in Seq(Items \cup {CutShort})
    BY DEF OrbbecInv, OrbbecTypeOK
  <2>2. PICK item : item = Head(pipe)
    OBVIOUS
  <2>3. /\ item \in Items \cup {CutShort} /\ pipe' \in Seq(Items \cup {CutShort})
        /\ Len(pipe') = Len(pipe) - 1
        /\ \A i \in 1 .. Len(pipe') : pipe'[i] = pipe[i + 1]
    BY <1>3, <2>1, <2>2, HeadTailProperties
  <2>4. /\ orbbecRun'.pc = IF item = CutShort THEN "blocked" ELSE "apply"
        /\ orbbecRun'.item = item
        /\ slots' = IF item = CutShort THEN slots ELSE slots + 1
    BY <1>3, <2>2
  <2>5. pipe[1] = item /\ Len(pipe) \in Nat /\ Len(pipe) >= 1
    BY <1>3, <2>1, <2>2, EmptySeq, LenProperties
  <2>6. OrbbecTypeOK'
    <3>1. slots' \in Nat
      BY <2>4, QueueNumbers DEF OrbbecInv
    <3>2. /\ orbbecRun' \in ThreadStates
          /\ orbbecRun'.pc = "apply" => orbbecRun'.item \in Items
      BY <1>3, <2>2, <2>3, <2>4 DEF ThreadStates
    <3> QED
      BY <1>1, <2>3, <3>1, <3>2 DEF OrbbecInv, OrbbecTypeOK, tables
  <2>7. QueueIsBounded'
    BY <1>1, <2>3, <2>4, QueueNumbers DEF OrbbecInv, QueueIsBounded
  <2>8. HalvesAreOfTheKilled'
    <3>1. \A i \in 1 .. Len(pipe') : i + 1 \in 1 .. Len(pipe)
      BY <2>3, <2>5
    <3>2. ASSUME orbbecRun'.pc = "blocked" \/ \E i \in 1 .. Len(pipe') : pipe'[i] = CutShort
          PROVE  \E i \in 1 .. Len(pipe) : pipe[i] = CutShort
      <4>1. CASE orbbecRun'.pc = "blocked"
        BY <2>4, <2>5, <4>1
      <4>2. CASE \E i \in 1 .. Len(pipe') : pipe'[i] = CutShort
        BY <2>3, <3>1, <4>2
      <4> QED
        BY <3>2, <4>1, <4>2
    <3> QED
      BY <1>1, <3>2 DEF OrbbecInv, HalvesAreOfTheKilled
  <2>9. WritersLive' /\ AbsenceIsExplained'
    BY <1>1, <2>4 DEF OrbbecInv, WritersLive, AbsenceIsExplained, tables
  <2> QED
    BY <2>6, <2>7, <2>8, <2>9 DEF OrbbecInv
<1> QED
  BY <1>2, <1>3 DEF RunGets

(* A frame is shown and clears the error of its camera; an error is only   *)
(* shown (571-583).                                                        *)
LEMMA AppliesKeeps == ASSUME OrbbecInv, RunApplies PROVE OrbbecInv'
<1>1. /\ orbbecRun.pc = "apply" /\ orbbecRun' = Checks
      /\ UNCHANGED <<worker, queue>>
  BY DEF RunApplies
<1>2. orbbecRun' \in ThreadStates /\ orbbecRun'.pc = "check"
  BY <1>1, ThreadChecks
<1>3. PICK cam \in Cameras :
        \/ /\ orbbecLatest' = orbbecLatest \cup {cam}
           /\ had' = had \cup {cam}
           /\ errors' = errors \ {cam}
        \/ errors' = errors \cup {cam} /\ UNCHANGED <<orbbecLatest, had>>
  BY DEF OrbbecInv, OrbbecTypeOK, RunApplies, Items
<1>4. errors' \subseteq Cameras /\ had' \subseteq Cameras /\ AbsenceIsExplained'
  BY <1>3 DEF OrbbecInv, OrbbecTypeOK, AbsenceIsExplained
<1>5. OrbbecTypeOK'
  BY <1>1, <1>2, <1>4 DEF OrbbecInv, OrbbecTypeOK, queue
<1>6. QueueIsBounded' /\ WritersLive' /\ HalvesAreOfTheKilled'
  BY <1>1, <1>2 DEF OrbbecInv, QueueIsBounded, WritersLive, HalvesAreOfTheKilled, queue
<1> QED
  BY <1>4, <1>5, <1>6 DEF OrbbecInv

-----------------------------------------------------------------------------
(* A reset.                                                                *)

(* The frames go and the errors come together (603-610).                   *)
LEMMA AnnouncesKeeps == ASSUME OrbbecInv, ResetAnnounces PROVE OrbbecInv'
<1>1. errors' = Cameras /\ orbbecLatest' = {} /\ UNCHANGED <<worker, queue, orbbecRun, had>>
  BY DEF ResetAnnounces
<1>2. OrbbecTypeOK'
  BY <1>1 DEF OrbbecInv, OrbbecTypeOK, queue
<1>3. QueueIsBounded' /\ WritersLive' /\ HalvesAreOfTheKilled'
  BY <1>1 DEF OrbbecInv, QueueIsBounded, WritersLive, HalvesAreOfTheKilled, queue
<1>4. AbsenceIsExplained'
  BY <1>1 DEF OrbbecInv, OrbbecTypeOK, AbsenceIsExplained
<1> QED
  BY <1>2, <1>3, <1>4 DEF OrbbecInv

(* What was buffered is lost, and half an item takes the place of the one  *)
(* that was being written (611-618).                                       *)
LEMMA TerminatesKeeps == ASSUME OrbbecInv, ResetTerminates PROVE OrbbecInv'
<1>1. /\ worker' = "dead" /\ buffer' = <<>>
      /\ UNCHANGED <<slots, orbbecRun, tables, had>>
  BY DEF ResetTerminates
<1>2. buffer' \in Seq(Items) /\ Len(buffer') = 0
  BY <1>1
<1>3. CASE writeLock' = "lost" /\ pipe' = Append(pipe, CutShort) /\ writeLock = "held"
  <2>1. pipe \in Seq(Items \cup {CutShort}) /\ CutShort \in Items \cup {CutShort}
    BY DEF OrbbecInv, OrbbecTypeOK
  <2>2. pipe' \in Seq(Items \cup {CutShort}) /\ Len(pipe') = Len(pipe) + 1
    BY <1>3, <2>1, AppendProperties
  <2>3. Len(buffer) >= 1
    <3>1. buffer \in Seq(Items) /\ buffer # <<>>
      BY <1>3 DEF OrbbecInv, OrbbecTypeOK, WritersLive
    <3> QED
      BY <3>1, EmptySeq, LenProperties
  <2>4. OrbbecTypeOK'
    BY <1>1, <1>2, <1>3, <2>2 DEF OrbbecInv, OrbbecTypeOK, tables
  <2>5. QueueIsBounded'
    BY <1>1, <1>2, <2>2, <2>3, QueueNumbers DEF OrbbecInv, QueueIsBounded
  <2>6. WritersLive' /\ HalvesAreOfTheKilled' /\ AbsenceIsExplained'
    BY <1>1, <1>3 DEF OrbbecInv, WritersLive, HalvesAreOfTheKilled, AbsenceIsExplained, tables
  <2> QED
    BY <2>4, <2>5, <2>6 DEF OrbbecInv
<1>4. CASE ~(worker # "dead" /\ writeLock = "held") /\ UNCHANGED <<writeLock, pipe>>
  <2>1. writeLock # "held"
    BY <1>4 DEF OrbbecInv, WritersLive
  <2>2. OrbbecTypeOK'
    BY <1>1, <1>2, <1>4 DEF OrbbecInv, OrbbecTypeOK, tables
  <2>3. QueueIsBounded'
    BY <1>1, <1>2, <1>4, QueueNumbers DEF OrbbecInv, QueueIsBounded
  <2>4. WritersLive' /\ HalvesAreOfTheKilled' /\ AbsenceIsExplained'
    BY <1>1, <1>4, <2>1 DEF OrbbecInv, WritersLive, HalvesAreOfTheKilled,
      AbsenceIsExplained, tables
  <2> QED
    BY <2>2, <2>3, <2>4 DEF OrbbecInv
<1> QED
  BY <1>3, <1>4 DEF ResetTerminates

LEMMA OrbbecKeeps == OrbbecInv /\ [OrbbecNext]_orbbecVars => OrbbecInv'
<1> SUFFICES ASSUME OrbbecInv, [OrbbecNext]_orbbecVars PROVE OrbbecInv'
  OBVIOUS
<1>1. CASE Worker
  BY <1>1, PutsKeeps, RaisesKeeps, OpensOrExitsKeeps DEF Worker
<1>2. CASE Feeder
  BY <1>2, LocksKeeps, WritesKeeps DEF Feeder
<1>3. CASE OrbbecThread
  BY <1>3, ChecksKeeps, RestartsKeeps, GetsKeeps, AppliesKeeps DEF OrbbecThread
<1>4. CASE ResetAnnounces
  BY <1>4, AnnouncesKeeps
<1>5. CASE ResetTerminates
  BY <1>5, TerminatesKeeps
<1>6. CASE UNCHANGED orbbecVars
  BY <1>6 DEF OrbbecInv, OrbbecTypeOK, QueueIsBounded, WritersLive, HalvesAreOfTheKilled,
    AbsenceIsExplained, orbbecVars, queue, tables
<1> QED
  BY <1>1, <1>2, <1>3, <1>4, <1>5, <1>6 DEF OrbbecNext

(* Every step of the worker, its feeder thread, the thread of the server   *)
(* and a reset keeps the invariant (547-750).                              *)
THEOREM OrbbecInvariant == OrbbecSpec => []OrbbecInv
BY OrbbecStarts, OrbbecKeeps, PTL DEF OrbbecSpec

(* A camera that has shown a frame and now shows none shows an error: no   *)
(* order of frames, errors, resets and restarts hides it (551-610).        *)
THEOREM AbsenceExplained == OrbbecSpec => []AbsenceIsExplained
<1>1. OrbbecInv => AbsenceIsExplained
  BY DEF OrbbecInv
<1> QED
  BY <1>1, OrbbecInvariant, PTL

(* What is in the queue and what is free never exceed maxsize, although    *)
(* terminated workers lose slots and leave halves of items (522-618).      *)
THEOREM QueueKeepsItsSize == OrbbecSpec => []QueueIsBounded
<1>1. OrbbecInv => QueueIsBounded
  BY DEF OrbbecInv
<1> QED
  BY <1>1, OrbbecInvariant, PTL

(* The thread of the server waits for ever, which WorkerRestarts excuses,  *)
(* only after a process was terminated in the middle of a write (565-618). *)
THEOREM FrozenByATermination ==
  OrbbecSpec => [](orbbecRun.pc = "blocked" => writeLock = "lost")
<1>1. OrbbecInv => (orbbecRun.pc = "blocked" => writeLock = "lost")
  BY DEF OrbbecInv, HalvesAreOfTheKilled
<1> QED
  BY <1>1, OrbbecInvariant, PTL
=============================================================================
