----------------------------- MODULE OrbbecFeed -----------------------------
(***************************************************************************)
(* The Orbbec feeds of the camera server (migrated/can-mac/scripts/        *)
(* multi_camera_ws_server.py, 521-751): a worker process that owns the     *)
(* camera and puts frames on a multiprocessing.Queue, a thread of the      *)
(* server that takes them and restarts a dead worker, and reset threads    *)
(* that terminate the worker.                                              *)
(*                                                                         *)
(* A multiprocessing.Queue is a pipe.  put() takes one of maxsize slots    *)
(* and hands the item to a feeder thread of the process, which writes it   *)
(* under a lock; get() reads a whole item and gives the slot back.  Frames *)
(* are larger than the pipe, so a write lasts until the reader reads.      *)
(***************************************************************************)
EXTENDS Naturals, Sequences, FiniteSets, SequencesExt

CONSTANTS
  Cameras,      (* the logical feeds                                       *)
  Slots         (* maxsize of the queue                                    *)

ASSUME OrbbecAssumption == IsFiniteSet(Cameras) /\ Slots \in Nat \ {0}

VARIABLES
  worker,       (* the process: "new", "frames", "leaving" or "dead"       *)
  buffer,       (* items its feeder thread has not written                 *)
  slots,        (* free slots of the queue                                 *)
  writeLock,    (* the lock of the writers: "free", "held" or "lost"       *)
  pipe,         (* the items in the pipe; the last may be cut short        *)
  orbbecRun,    (* the thread of the server: pc and the item it took       *)
  orbbecLatest, (* cameras with a latest frame                             *)
  errors,       (* cameras that show an error                              *)
  reset,        (* the thread that holds the reset lock, or "idle"         *)
  had,          (* history: cameras that have shown a frame                *)
  lost          (* history: whether a worker died with slots taken         *)

queue == <<buffer, slots, writeLock, pipe>>
tables == <<orbbecLatest, errors>>
orbbecVars == <<worker, queue, orbbecRun, tables, reset, had, lost>>

Frame(cam) == [type |-> "frame", camera |-> cam]
Failure(cam) == [type |-> "error", camera |-> cam]
CutShort == [type |-> "cut short", camera |-> "none"]

OrbbecInit ==
  /\ worker = "new"
  /\ buffer = <<>> /\ slots = Slots /\ writeLock = "free" /\ pipe = <<>>
  /\ orbbecRun = [pc |-> "check", item |-> CutShort]
  /\ orbbecLatest = {}
  /\ errors = {}
  /\ reset = "idle"
  /\ had = {}
  /\ lost = FALSE

-----------------------------------------------------------------------------
(* The worker process, 643-750.                                            *)
WorkerOpens ==
  /\ worker = "new"
  /\ worker' = "frames"
  /\ UNCHANGED <<queue, orbbecRun, tables, reset, had, lost>>

(* queue.put() of a frame, or of an error: of one stream while the camera  *)
(* is opened (685), of one frame later (747).  It waits for a slot.        *)
WorkerPuts ==
  /\ worker \in {"new", "frames"}
  /\ slots > 0
  /\ \E cam \in Cameras :
       \/ worker = "frames" /\ buffer' = Append(buffer, Frame(cam))
       \/ buffer' = Append(buffer, Failure(cam))
  /\ slots' = slots - 1
  /\ UNCHANGED <<worker, writeLock, pipe, orbbecRun, tables, reset, had, lost>>

(* No stream can be opened, or three waits for frames time out: an error   *)
(* for each camera, as far as there are slots (647-651).                   *)
WorkerRaises ==
  /\ worker \in {"new", "frames"}
  /\ worker' = "leaving"
  /\ LET failures == SetToSeq({Failure(cam) : cam \in Cameras})
         put == IF Len(failures) < slots THEN Len(failures) ELSE slots
     IN  /\ buffer' = buffer \o SubSeq(failures, 1, put)
         /\ slots' = slots - put
  /\ UNCHANGED <<writeLock, pipe, orbbecRun, tables, reset, had, lost>>

(* A process that ends by itself first waits for its feeder thread.        *)
WorkerExits ==
  /\ worker = "leaving"
  /\ buffer = <<>> /\ writeLock # "held"
  /\ worker' = "dead"
  /\ UNCHANGED <<queue, orbbecRun, tables, reset, had, lost>>

FeederLocks ==
  /\ worker # "dead"
  /\ buffer # <<>> /\ writeLock = "free"
  /\ writeLock' = "held"
  /\ UNCHANGED <<worker, buffer, slots, pipe, orbbecRun, tables, reset, had, lost>>

FeederWrites ==
  /\ worker # "dead"
  /\ writeLock = "held"
  /\ pipe' = Append(pipe, Head(buffer))
  /\ buffer' = Tail(buffer)
  /\ writeLock' = "free"
  /\ UNCHANGED <<worker, slots, orbbecRun, tables, reset, had, lost>>

-----------------------------------------------------------------------------
(* The thread of the server, 548-583; an item it is done with is dropped.  *)
Checks == [pc |-> "check", item |-> CutShort]

(* Mutant: a dead worker is reported and nothing else.                     *)
RunReportsOnly ==
  /\ orbbecRun.pc = "check"
  /\ IF worker = "dead"
     THEN /\ errors' = Cameras
          /\ UNCHANGED orbbecRun
     ELSE /\ orbbecRun' = [orbbecRun EXCEPT !.pc = "get"]
          /\ UNCHANGED errors
  /\ UNCHANGED <<worker, queue, orbbecLatest, reset, had, lost>>

RunChecks ==
  /\ orbbecRun.pc = "check"
  /\ IF worker = "dead"
     THEN /\ errors' = Cameras
          /\ orbbecRun' = [orbbecRun EXCEPT !.pc = "restart"]
     ELSE /\ orbbecRun' = [orbbecRun EXCEPT !.pc = "get"]
          /\ UNCHANGED errors
  /\ UNCHANGED <<worker, queue, orbbecLatest, reset, had, lost>>

(* _start_process, 585-589: the queue is the one it was.                   *)
RunRestarts ==
  /\ orbbecRun.pc = "restart"
  /\ worker' = "new"
  /\ buffer' = <<>>
  /\ orbbecRun' = Checks
  /\ UNCHANGED <<slots, writeLock, pipe, tables, reset, had, lost>>

(* Mutant: the slot is never given back.                                   *)
RunGetsKeepsSlot ==
  /\ orbbecRun.pc = "get"
  /\ orbbecRun' = [pc |-> IF pipe = <<>> THEN "check" ELSE "apply",
                   item |-> IF pipe = <<>> THEN orbbecRun.item ELSE Head(pipe)]
  /\ pipe' = IF pipe = <<>> THEN pipe ELSE Tail(pipe)
  /\ UNCHANGED <<worker, buffer, slots, writeLock, tables, reset, had, lost>>

(* queue.get(timeout): the timeout is for the beginning of an item; the    *)
(* rest of one that was cut short never comes.                             *)
RunGets ==
  /\ orbbecRun.pc = "get"
  /\ \/ /\ pipe = <<>>
        /\ orbbecRun' = Checks
        /\ UNCHANGED <<pipe, slots>>
     \/ /\ pipe # <<>>
        /\ orbbecRun' = [pc |-> IF Head(pipe) = CutShort THEN "blocked" ELSE "apply",
                         item |-> Head(pipe)]
        /\ pipe' = Tail(pipe)
        /\ slots' = IF Head(pipe) = CutShort THEN slots ELSE slots + 1
  /\ UNCHANGED <<worker, buffer, writeLock, tables, reset, had, lost>>

(* Mutant: any message clears the error of its camera.                     *)
RunAppliesAny ==
  /\ orbbecRun.pc = "apply"
  /\ orbbecLatest' = IF orbbecRun.item.type = "frame"
                     THEN orbbecLatest \cup {orbbecRun.item.camera} ELSE orbbecLatest
  /\ had' = had \cup orbbecLatest'
  /\ errors' = errors \ {orbbecRun.item.camera}
  /\ orbbecRun' = Checks
  /\ UNCHANGED <<worker, queue, reset, lost>>

RunApplies ==
  /\ orbbecRun.pc = "apply"
  /\ LET cam == orbbecRun.item.camera IN
     IF orbbecRun.item.type = "frame"
     THEN /\ orbbecLatest' = orbbecLatest \cup {cam}
          /\ had' = had \cup {cam}
          /\ errors' = errors \ {cam}
     ELSE /\ errors' = errors \cup {cam}
          /\ UNCHANGED <<orbbecLatest, had>>
  /\ orbbecRun' = Checks
  /\ UNCHANGED <<worker, queue, reset, lost>>

-----------------------------------------------------------------------------
(* _reset_worker, 599-618; the reset lock lets one thread through.         *)
ResetAnnounces ==
  /\ reset = "idle"
  /\ reset' = "terminate"
  /\ errors' = Cameras
  /\ orbbecLatest' = {}
  /\ UNCHANGED <<worker, queue, orbbecRun, had, lost>>

(* The process dies at once, with its feeder thread: what it buffered is   *)
(* lost and its slots stay taken; a write under way is cut short, and its  *)
(* lock is never released.  A crash of the camera library in the worker    *)
(* does the same.                                                          *)
ResetTerminates ==
  /\ reset = "terminate"
  /\ reset' = "idle"
  /\ worker' = "dead"
  /\ buffer' = <<>>
  /\ IF worker # "dead" /\ writeLock = "held"
     THEN writeLock' = "lost" /\ pipe' = Append(pipe, CutShort)
     ELSE UNCHANGED <<writeLock, pipe>>
  /\ lost' = (lost \/ buffer # <<>>)
  /\ UNCHANGED <<slots, orbbecRun, tables, had>>

Worker == WorkerOpens \/ WorkerPuts \/ WorkerRaises \/ WorkerExits
Feeder == FeederLocks \/ FeederWrites
OrbbecThread == RunChecks \/ RunRestarts \/ RunGets \/ RunApplies

OrbbecNext == Worker \/ Feeder \/ OrbbecThread \/ ResetAnnounces \/ ResetTerminates

OrbbecSpec == OrbbecInit /\ [][OrbbecNext]_orbbecVars

(* The operating system runs the thread of the server and the feeder       *)
(* thread of the worker; nothing is assumed of the camera.                 *)
LiveOrbbecSpec == OrbbecSpec /\ WF_orbbecVars(Feeder) /\ WF_orbbecVars(OrbbecThread)

-----------------------------------------------------------------------------
(* A camera that has shown a frame and now shows none says why: resets     *)
(* clear the frame and set the error together, and whatever is still in    *)
(* the queue clears the error only with a frame (570-583, 603-610).        *)
AbsenceIsExplained == had \ orbbecLatest \subseteq errors

(* A worker that died is started again, by an error of its own or by a     *)
(* reset (553-564), unless it was terminated in the middle of a write: the *)
(* thread of the server then waits for the rest of the item.               *)
WorkerRestarts == worker = "dead" ~> worker # "dead" \/ orbbecRun.pc = "blocked"

(* A worker never waits for a slot for ever: every item that arrives gives *)
(* its slot back, although the thread of the server leaves the queue to    *)
(* watch over the process between two items (547-583).  Only what was lost *)
(* with a terminated worker keeps its slot.                                *)
SlotsComeBack ==
  worker = "frames" /\ slots = 0 ~> slots > 0 \/ worker # "frames" \/ lost
=============================================================================
