----------------------------- MODULE CameraFeed -----------------------------
(***************************************************************************)
(* An OpenCV feed of the camera server (migrated/can-mac/scripts/          *)
(* multi_camera_ws_server.py, 190-318): a thread that reads frames, reset  *)
(* threads that reopen the capture, and the clients that ask for a reset.  *)
(* A step ends where another thread may see or change a field.             *)
(*                                                                         *)
(* Time is reduced to two facts: whether latest_t is at least              *)
(* stale_seconds old, and whether _same_jpeg_since is.                     *)
(***************************************************************************)
EXTENDS Naturals, FiniteSets

CONSTANTS
  Caps,         (* bound: capture objects that are referred to at a time   *)
  Resetters,    (* bound: reset threads that exist at a time               *)
  Nothing,      (* Python's None                                           *)
  Pictures,     (* what the camera may show                                *)
  MayFail,      (* whether reads and opens may fail                        *)
  Manual        (* whether clients ask for resets                          *)

ASSUME FeedAssumption ==
  /\ Nothing \notin Caps \cup Resetters \cup Pictures
  /\ Cardinality(Caps) > 1
  /\ {MayFail, Manual} \subseteq BOOLEAN

VARIABLES
  cap,          (* self.cap                                                *)
  open,         (* captures that are open                                  *)
  latest,       (* self.latest_jpeg: whether there is one                  *)
  latestAge,    (* self.latest_t: Nothing, "fresh" or "stale"              *)
  error,        (* self.error                                              *)
  last,         (* self._last_encoded                                      *)
  since,        (* self._same_jpeg_since: Nothing, "recent" or "long"      *)
  handle,       (* self.reset_thread                                       *)
  resetLock,    (* holder of self.reset_lock                               *)
  run,          (* the reading thread: pc, the capture it reads, its frame *)
  resetter,     (* reset thread -> pc and the capture it holds             *)
  client        (* a client's thread in request_reset                      *)

shown == <<latest, latestAge, error>>
stuck == <<last, since>>
resets == <<handle, resetLock, resetter>>
vars == <<cap, open, shown, stuck, resets, run, client>>

Init ==
  /\ cap \in Caps
  /\ open = {cap}
  /\ latest = FALSE /\ latestAge = Nothing /\ error = "none"
  /\ last = Nothing /\ since = Nothing
  /\ handle = Nothing
  /\ resetLock = Nothing
  /\ run = [pc |-> "read", cap |-> Nothing, frame |-> Nothing]
  /\ resetter = [x \in Resetters |-> [pc |-> "idle", cap |-> Nothing]]
  /\ client = "idle"

RunAt(pc) == run.pc = pc
RunTo(pc) ==
  run' = [pc |-> pc, cap |-> Nothing,
          frame |-> IF pc \in {"same?", "since", "how long?"} THEN run.frame ELSE Nothing]

-----------------------------------------------------------------------------
(* request_reset, 229-237, called by the reading thread and by clients     *)
(* without a lock: the test, the assignment of self.reset_thread and the   *)
(* start of whatever self.reset_thread then is are three steps.  Two       *)
(* callers may both find no live thread; the object that is overwritten    *)
(* before its start is nobody's, so the one that takes its place is the    *)
(* same x.  Whoever starts that object second gets a RuntimeError.         *)
Unstarted == handle # Nothing /\ resetter[handle].pc = "new"
ResetRuns == handle # Nothing /\ resetter[handle].pc \notin {"idle", "new"}

Assign ==
  \/ Unstarted /\ UNCHANGED <<handle, resetter>>
  \/ /\ ~Unstarted
     /\ \E x \in Resetters :
          /\ resetter[x].pc = "idle"
          /\ resetter' = [resetter EXCEPT ![x].pc = "new"]
          /\ handle' = x

Begin ==
  IF Unstarted
  THEN resetter' = [resetter EXCEPT ![handle].pc = "start"]
  ELSE UNCHANGED resetter

-----------------------------------------------------------------------------
(* The reading thread, 282-304.                                            *)
ReadStart ==
  /\ RunAt("read")
  /\ run' = [run EXCEPT !.pc = "reading", !.cap = cap]
  /\ UNCHANGED <<cap, open, shown, stuck, resets, client>>

(* A capture that has been released yields no frame.  A frame that was     *)
(* read is taken to encode (292-297).                                      *)
ReadEnd ==
  /\ RunAt("reading")
  /\ \/ /\ run.cap \in open
        /\ \E picture \in Pictures :
             run' = [pc |-> "store", cap |-> Nothing, frame |-> picture]
     \/ /\ run.cap \notin open \/ MayFail
        /\ RunTo("failed")
  /\ UNCHANGED <<cap, open, shown, stuck, resets, client>>

Store ==
  /\ RunAt("store")
  /\ latest' = TRUE /\ latestAge' = "fresh" /\ error' = "none"
  /\ RunTo("same?")
  /\ UNCHANGED <<cap, open, stuck, resets, client>>

(* _reset_if_stale, 266-275.  _same_jpeg_since is read twice: when a reset *)
(* has set it to None in between, the subtraction raises and the thread    *)
(* ends.                                                                   *)
CompareFrame ==
  /\ RunAt("same?")
  /\ \/ /\ last # run.frame
        /\ last' = run.frame
        /\ RunTo("since")
        /\ UNCHANGED since
     \/ /\ last = run.frame /\ since = Nothing
        /\ since' = "recent"
        /\ RunTo("read")
        /\ UNCHANGED last
     \/ /\ last = run.frame /\ since # Nothing
        /\ RunTo("how long?")
        /\ UNCHANGED stuck
  /\ UNCHANGED <<cap, open, shown, resets, client>>

StartSince ==
  /\ RunAt("since")
  /\ since' = "recent"
  /\ RunTo("read")
  /\ UNCHANGED <<cap, open, shown, last, resets, client>>

(* Mutant: a same picture is never too old.                                *)
HowLongNever ==
  /\ RunAt("how long?")
  /\ RunTo(IF since = Nothing THEN "dead" ELSE "read")
  /\ UNCHANGED <<cap, open, shown, stuck, resets, client>>

HowLong ==
  /\ RunAt("how long?")
  /\ RunTo(CASE since = Nothing -> "dead" [] since = "recent" -> "read" [] OTHER -> "request")
  /\ UNCHANGED <<cap, open, shown, stuck, resets, client>>

(* Lines 285-288: latest_t, too, is read twice.                            *)
NoteFailure ==
  /\ RunAt("failed")
  /\ error' = "frame_read_failed"
  /\ RunTo("frame yet?")
  /\ UNCHANGED <<cap, open, latest, latestAge, stuck, resets, client>>

FrameYet ==
  /\ RunAt("frame yet?")
  /\ RunTo(IF latestAge = Nothing THEN "request" ELSE "frame age?")
  /\ UNCHANGED <<cap, open, shown, stuck, resets, client>>

(* Mutant: a failing camera is only reset while it has shown nothing.      *)
FrameAgeIgnored ==
  /\ RunAt("frame age?")
  /\ RunTo(IF latestAge = Nothing THEN "dead" ELSE "read")
  /\ UNCHANGED <<cap, open, shown, stuck, resets, client>>

FrameAge ==
  /\ RunAt("frame age?")
  /\ RunTo(CASE latestAge = Nothing -> "dead" [] latestAge = "fresh" -> "read"
             [] OTHER -> "request")
  /\ UNCHANGED <<cap, open, shown, stuck, resets, client>>

RunRequests ==
  /\ RunAt("request")
  /\ RunTo(IF ResetRuns THEN "read" ELSE "assign")
  /\ UNCHANGED <<cap, open, shown, stuck, resets, client>>

RunAssigns ==
  /\ RunAt("assign")
  /\ Assign
  /\ RunTo("begin")
  /\ UNCHANGED <<cap, open, shown, stuck, resetLock, client>>

(* The RuntimeError ends the reading thread.                               *)
RunBegins ==
  /\ RunAt("begin")
  /\ Begin
  /\ RunTo(IF Unstarted THEN "read" ELSE "dead")
  /\ UNCHANGED <<cap, open, shown, stuck, handle, resetLock, client>>

(* A client's reset_camera, 858-867; its RuntimeError ends the call.       *)
ClientRequests ==
  /\ Manual
  /\ client = "idle"
  /\ client' = IF ResetRuns THEN "idle" ELSE "assign"
  /\ UNCHANGED <<cap, open, shown, stuck, resets, run>>

ClientAssigns ==
  /\ client = "assign"
  /\ Assign
  /\ client' = "begin"
  /\ UNCHANGED <<cap, open, shown, stuck, resetLock, run>>

ClientBegins ==
  /\ client = "begin"
  /\ Begin
  /\ client' = "idle"
  /\ UNCHANGED <<cap, open, shown, stuck, handle, resetLock, run>>

-----------------------------------------------------------------------------
(* reset(), 239-264.                                                       *)
ResetAt(x, pc) == resetter[x].pc = pc
ResetTo(x, pc) == resetter' = [resetter EXCEPT ![x] = [pc |-> pc, cap |-> Nothing]]

(* Mutant: the reset lock is not looked at.                                *)
ResetStartAnyway(x) ==
  /\ ResetAt(x, "start")
  /\ resetLock' = x /\ ResetTo(x, "announce")
  /\ UNCHANGED <<cap, open, shown, stuck, handle, run, client>>

ResetStart(x) ==
  /\ ResetAt(x, "start")
  /\ IF resetLock # Nothing
     THEN ResetTo(x, "idle") /\ UNCHANGED resetLock
     ELSE ResetTo(x, "announce") /\ resetLock' = x
  /\ UNCHANGED <<cap, open, shown, stuck, handle, run, client>>

ResetAnnounce(x) ==
  /\ ResetAt(x, "announce")
  /\ error' = "resetting"
  /\ since' = Nothing /\ last' = Nothing
  /\ ResetTo(x, "release")
  /\ UNCHANGED <<cap, open, latest, latestAge, handle, resetLock, run, client>>

ResetRelease(x) ==
  /\ ResetAt(x, "release")
  /\ open' = open \ {cap}
  /\ ResetTo(x, "open")
  /\ UNCHANGED <<cap, shown, stuck, handle, resetLock, run, client>>

(* A fresh capture object; when opening fails the lock is released and the *)
(* released capture stays in place.                                        *)
ResetOpen(x) ==
  /\ ResetAt(x, "open")
  /\ \/ LET used == {cap, run.cap} \cup open
            new == CHOOSE c \in Caps : c \notin used
        IN /\ Caps \ used # {}
           /\ open' = open \cup {new}
           /\ resetter' = [resetter EXCEPT ![x] = [pc |-> "install", cap |-> new]]
           /\ UNCHANGED <<error, resetLock>>
     \/ /\ MayFail
        /\ error' = "reset_failed"
        /\ ResetTo(x, "idle")
        /\ resetLock' = Nothing
        /\ UNCHANGED open
  /\ UNCHANGED <<cap, latest, latestAge, stuck, handle, run, client>>

ResetInstall(x) ==
  /\ ResetAt(x, "install")
  /\ cap' = resetter[x].cap
  /\ ResetTo(x, "clear")
  /\ UNCHANGED <<open, shown, stuck, handle, resetLock, run, client>>

ResetClear(x) ==
  /\ ResetAt(x, "clear")
  /\ latest' = FALSE /\ latestAge' = Nothing /\ error' = "none"
  /\ ResetTo(x, "idle")
  /\ resetLock' = Nothing
  /\ UNCHANGED <<cap, open, stuck, handle, run, client>>

-----------------------------------------------------------------------------
(* stale_seconds pass for the latest frame, or for a same picture.         *)
LatestAges ==
  /\ latestAge = "fresh"
  /\ latestAge' = "stale"
  /\ UNCHANGED <<cap, open, latest, error, stuck, resets, run, client>>

SameAges ==
  /\ since = "recent"
  /\ since' = "long"
  /\ UNCHANGED <<cap, open, shown, last, resets, run, client>>

Run ==
  \/ ReadStart \/ ReadEnd \/ Store \/ CompareFrame \/ StartSince \/ HowLong
  \/ NoteFailure \/ FrameYet \/ FrameAge \/ RunRequests
  \/ RunAssigns \/ RunBegins

Reset(x) ==
  \/ ResetStart(x) \/ ResetAnnounce(x) \/ ResetRelease(x) \/ ResetOpen(x)
  \/ ResetInstall(x) \/ ResetClear(x)

Next ==
  \/ Run
  \/ \E x \in Resetters : Reset(x)
  \/ ClientRequests \/ ClientAssigns \/ ClientBegins
  \/ LatestAges \/ SameAges

Spec == Init /\ [][Next]_vars

(* The reading and the reset threads run, cameras answer, and time passes. *)
LiveSpec ==
  /\ Spec
  /\ WF_vars(Run) /\ WF_vars(LatestAges)
  /\ \A x \in Resetters : WF_vars(Reset(x))

-----------------------------------------------------------------------------
(* The camera is never opened twice: whatever requests race, at most one   *)
(* capture is open, and it is the feed's or the one a reset is about to    *)
(* install (239-264).                                                      *)
OneCapture ==
  /\ Cardinality(open) <= 1
  /\ \A c \in open :
       c = cap \/ \E x \in Resetters : ResetAt(x, "install") /\ resetter[x].cap = c

(* A feed that shows one picture for too long is reset, or its camera      *)
(* moves on, or its reading thread has died.                               *)
StuckIsReset ==
  since = "long" ~> since # "long" \/ RunAt("dead")

(* A capture that was lost because a reset could not open the camera is    *)
(* tried again.                                                            *)
LostIsRetried ==
  open = {} ~> open # {} \/ RunAt("dead") \/ \E x \in Resetters : ResetAt(x, "open")
=============================================================================
