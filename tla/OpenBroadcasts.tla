-------------------------- MODULE OpenBroadcasts --------------------------
(***************************************************************************)
(* The coordinator with arbitrary clients implements Announcements.  The   *)
(* log is read off the coordinator's tables when they change; what a       *)
(* client has seen, off the frames it reads.  A claim that is refused and  *)
(* a conflict announce nothing.                                            *)
(***************************************************************************)
EXTENDS OpenClients

VARIABLES
  log,        (* history: what the tables went through                     *)
  place,      (* history: where in the log each client is                  *)
  seen        (* history: the announcements each client has read           *)

history == <<log, place, seen>>

AnnouncedTypes == {"task.claim", "task.result", "state.accepted"}
IsAnnouncement(m) == m.type \in AnnouncedTypes
Announced ==
  [type : {"task.claim"}, id : Tasks, client : ClientIds]
    \cup [type : {"task.result"}, id : Tasks]
    \cup [type : {"state.accepted"}, resource : Resources, change : ChangeIds,
          package : Packages, revision : Nat, state : Docs]

BroadcastInit ==
  /\ Init
  /\ log = <<>>
  /\ place = [c \in Conns |-> 0]
  /\ seen = [c \in Conns |-> <<>>]

(* What handling m announces: it claims a free task, ends one, or changes  *)
(* a resource.                                                             *)
Announcing(m) ==
  \/ m.type = "task.claim" /\ claimed[m.id] = NoOne
  \/ m.type = "task.result"
  \/ m.type = "state.patch" /\ RevisionMatches(m.change) /\ PatchApplies(m.change)

AnnouncementOf(m) ==
  IF m.type = "state.patch" THEN Accepted(m.change, ChangedResource(m.change)) ELSE m

LoggedExchange(c) ==
  /\ Exchange(c)
  /\ LET m == CHOOSE m \in todo[c] : m \notin todo'[c] IN
     log' = IF Announcing(m) THEN Append(log, AnnouncementOf(m)) ELSE log
  /\ UNCHANGED <<place, seen>>

LoggedConnect(c) ==
  /\ ConnectClient(c)
  /\ place' = IF up'[c] THEN [place EXCEPT ![c] = Len(log)] ELSE place
  /\ UNCHANGED <<log, seen>>

LoggedConsume(c) ==
  /\ Consume(c)
  /\ LET m == Head(wire[c]).message IN
     IF IsAnnouncement(m)
     THEN /\ seen' = [seen EXCEPT ![c] = Append(@, m)]
          /\ place' = [place EXCEPT ![c] = @ + 1]
     ELSE UNCHANGED <<place, seen>>
  /\ UNCHANGED log

Quietly(c) ==
  /\ Replay(c) \/ Deliver(c) \/ Close(c) \/ (c \in Fragile /\ Break(c))
  /\ UNCHANGED history

BroadcastNext ==
  \E c \in Conns :
    LoggedExchange(c) \/ LoggedConnect(c) \/ LoggedConsume(c) \/ Quietly(c)

BroadcastSpec ==
  /\ BroadcastInit /\ [][BroadcastNext]_<<vars, history>>
  /\ Fairness

(* A client is a member while the coordinator sends to it and its          *)
(* connection is open.  A handler that ended has closed its connection.    *)
Membership ==
  [c \in Conns |-> CASE handler[c].pc = "new" -> "out"
                     [] handler[c].pc # "new" /\ up[c] -> "in"
                     [] OTHER -> "left"]

Board ==
  INSTANCE Announcements WITH
    Members <- Conns, Announcement <- Announced,
    log <- log, place <- place, member <- Membership, seen <- seen

(* Every client reads the claims, results and accepted changes of one log, *)
(* in its order and without a gap, from the moment it connects until its   *)
(* connection closes, and a client that stays reads all of it (29-36,      *)
(* 62-67, 91-154).                                                         *)
IsAnnouncementBoard == Board!BoardSpec
=============================================================================
