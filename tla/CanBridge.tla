----------------------------- MODULE CanBridge -----------------------------
(***************************************************************************)
(* The CAN bridge (migrated/can-mac/can-bridge/src/main.rs): a server of   *)
(* one USB adapter.  Each connection has a handler, which sends its frames *)
(* to the bus, and a task that forwards to it what comes from the bus.     *)
(* The tasks share the queue of USB reads under a tokio mutex, which hands *)
(* itself to the one that waits longest.                                   *)
(*                                                                         *)
(* A read is submitted, completed by the adapter, taken by a task and      *)
(* submitted again by that task.  A task can be aborted where it awaits.   *)
(***************************************************************************)
EXTENDS Naturals, Sequences

CONSTANTS
  Conns,        (* connections; one is used again when its tasks have ended *)
  Reads,        (* the NUM_IN_FLIGHT reads                                  *)
  NoRead

ASSUME BridgeAssumption == NoRead \notin Reads

VARIABLES
  handler,      (* conn -> "none", "open" or "closed"                       *)
  rx,           (* conn -> where its forwarding task is                     *)
  locks,        (* the mutex of the reads: its holder, then those that wait *)
  flying,       (* reads submitted to the adapter                           *)
  full,         (* reads the adapter has completed                          *)
  held          (* conn -> the read its task has taken                      *)

bridgeVars == <<handler, rx, locks, flying, full, held>>

BridgeInit ==
  /\ handler = [c \in Conns |-> "none"]
  /\ rx = [c \in Conns |-> "ended"]
  /\ locks = <<>>
  /\ flying = Reads /\ full = {}
  /\ held = [c \in Conns |-> NoRead]

RxAt(c, pc) == rx[c] = pc
RxTo(c, pc) == rx' = [rx EXCEPT ![c] = pc]

(* A guard of the mutex belongs to the place that awaits it.               *)
Holds(c) == locks # <<>> /\ Head(locks) = <<c, rx[c]>>
AsksFor(c, pc) == locks' = Append(locks, <<c, pc>>) /\ RxTo(c, pc)
Releases == locks' = Tail(locks)

-----------------------------------------------------------------------------
Accept(c) ==
  /\ handler[c] # "open" /\ RxAt(c, "ended") /\ held[c] = NoRead
  /\ handler' = [handler EXCEPT ![c] = "open"]
  /\ RxTo(c, "again")
  /\ UNCHANGED <<locks, flying, full, held>>

(* The adapter completes a read: a frame of the bus, the echo of one that  *)
(* was sent, or an error.                                                  *)
Complete(r) ==
  /\ r \in flying
  /\ flying' = flying \ {r} /\ full' = full \cup {r}
  /\ UNCHANGED <<handler, rx, locks, held>>

AsksToPoll(c) ==
  /\ RxAt(c, "again")
  /\ AsksFor(c, "polls")
  /\ UNCHANGED <<handler, flying, full, held>>

(* Mutant: the lock lasts as long as the completion.                       *)
TakesKeepingLock(c) ==
  /\ RxAt(c, "polls") /\ Holds(c)
  /\ \E r \in full :
       /\ full' = full \ {r}
       /\ held' = [held EXCEPT ![c] = r]
  /\ RxTo(c, "took")
  /\ UNCHANGED <<handler, locks, flying>>

Takes(c) ==
  /\ RxAt(c, "polls") /\ Holds(c)
  /\ \E r \in full :
       /\ full' = full \ {r}
       /\ held' = [held EXCEPT ![c] = r]
  /\ Releases /\ RxTo(c, "took")
  /\ UNCHANGED <<handler, flying>>

(* poll_next panics when no read is submitted.                             *)
Panics(c) ==
  /\ RxAt(c, "polls") /\ Holds(c)
  /\ flying \cup full = {}
  /\ Releases /\ RxTo(c, "ended")
  /\ UNCHANGED <<handler, flying, full, held>>

(* Mutant: echoes are skipped before their read is submitted again.        *)
AsksUnlessEcho(c) ==
  /\ RxAt(c, "took")
  /\ \/ AsksFor(c, "resubmits")
     \/ UNCHANGED locks /\ RxTo(c, "again")
  /\ UNCHANGED <<handler, flying, full, held>>

AsksToResubmit(c) ==
  /\ RxAt(c, "took")
  /\ AsksFor(c, "resubmits")
  /\ UNCHANGED <<handler, flying, full, held>>

(* What follows depends on the completion: a frame is forwarded, an echo   *)
(* is skipped, an error ends the task.                                     *)
Resubmits(c) ==
  /\ RxAt(c, "resubmits") /\ Holds(c)
  /\ flying' = flying \cup {held[c]}
  /\ held' = [held EXCEPT ![c] = NoRead]
  /\ Releases
  /\ \E pc \in {"forwards", "again", "ended"} : RxTo(c, pc)
  /\ UNCHANGED <<handler, full>>

(* write_all to the client, which fails when it has closed.                *)
Forwards(c) ==
  /\ RxAt(c, "forwards")
  /\ \E pc \in {"again", "ended"} : RxTo(c, pc)
  /\ UNCHANGED <<handler, locks, flying, full, held>>

(* The handler ends: the client has closed, or a USB write failed.  Frames *)
(* it sends before are left out: they touch nothing the tasks share.       *)
HandlerEnds(c) ==
  /\ handler[c] = "open"
  /\ handler' = [handler EXCEPT ![c] = "closed"]
  /\ UNCHANGED <<rx, locks, flying, full, held>>

(* abort() takes effect when the task awaits the lock, a completion or the *)
(* client; a read that it holds then is never submitted again.             *)
Aborted(c) ==
  /\ handler[c] = "closed"
  /\ rx[c] \in {"polls", "resubmits", "forwards"}
  /\ RxTo(c, "ended")
  /\ locks' = SelectSeq(locks, LAMBDA ask : ask[1] # c)
  /\ UNCHANGED <<handler, flying, full, held>>

(* What the runtime does with a task; only Forwards waits for the client.  *)
Runs(c) ==
  AsksToPoll(c) \/ Takes(c) \/ Panics(c) \/ AsksToResubmit(c) \/ Resubmits(c)

BridgeNext ==
  \/ \E r \in Reads : Complete(r)
  \/ \E c \in Conns :
       Accept(c) \/ Runs(c) \/ Forwards(c) \/ HandlerEnds(c) \/ Aborted(c)

BridgeSpec == BridgeInit /\ [][BridgeNext]_bridgeVars

-----------------------------------------------------------------------------
(* "Pre-submit read requests to keep the IN endpoint fed" (main.rs 208):   *)
(* a read that is neither submitted nor completed is with one task, which  *)
(* is about to submit it again, or was aborted at that point.  An end of a *)
(* connection costs one read at most, whatever the tasks were doing.       *)
OneReadPerEnd ==
  \A r \in Reads \ (flying \cup full) :
    \E c \in Conns :
      /\ held[c] = r
      /\ \A other \in Conns \ {c} : held[other] # r
      /\ rx[c] \in {"took", "resubmits"} \/ handler[c] = "closed"

(* The only task that runs has taken a read and not submitted it again.    *)
SoleTaskHolds ==
  \E c \in Conns :
    /\ rx[c] \in {"took", "resubmits"}
    /\ \A other \in Conns \ {c} : RxAt(other, "ended")

(* What a task has taken is forwarded, skipped or reported although the    *)
(* bus is silent from then on, as long as no other connection's task waits *)
(* for the bus with the lock (245-291).                                    *)
FrameMovesOn == SoleTaskHolds ~> ~SoleTaskHolds
=============================================================================
