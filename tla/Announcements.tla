--------------------------- MODULE Announcements ---------------------------
(***************************************************************************)
(* What the coordinator promises its clients of the announcements it sends *)
(* to everybody (granted claims, task results and accepted changes): one   *)
(* log, and every member reads it from the place where it joined, in order *)
(* and without a gap, until it leaves.  docs/concurrency.md, 3-6, calls    *)
(* the coordinator the serialization point.                                *)
(***************************************************************************)
EXTENDS Naturals, Sequences, SequencesExt

CONSTANTS Members, Announcement

VARIABLES
  log,        (* the announcements, in the order they were decided         *)
  place,      (* member -> announcements of the log behind it              *)
  member,     (* member -> "out", "in" or "left"                           *)
  seen        (* member -> the announcements it has read                   *)

boardVars == <<log, place, member, seen>>

BoardInit ==
  /\ log = <<>>
  /\ place = [c \in Members |-> 0]
  /\ member = [c \in Members |-> "out"]
  /\ seen = [c \in Members |-> <<>>]

(* An announcement is decided.                                             *)
Announce ==
  /\ log' # <<>>
  /\ Front(log') = log
  /\ Last(log') \in Announcement
  /\ UNCHANGED <<place, member, seen>>

(* A member hears what is announced from now on.                           *)
Join(c) ==
  /\ member[c] = "out"
  /\ member' = [member EXCEPT ![c] = "in"]
  /\ place' = [place EXCEPT ![c] = Len(log)]
  /\ UNCHANGED <<log, seen>>

(* A member that leaves may still hear what is on its way.                 *)
Hear(c) ==
  /\ member[c] # "out"
  /\ place[c] < Len(log)
  /\ place' = [place EXCEPT ![c] = @ + 1]
  /\ seen' = [seen EXCEPT ![c] = Append(@, log[place[c] + 1])]
  /\ UNCHANGED <<log, member>>

(* Also of a client that is gone before it is let in.                      *)
Leave(c) ==
  /\ member[c] # "left"
  /\ member' = [member EXCEPT ![c] = "left"]
  /\ UNCHANGED <<log, place, seen>>

BoardNext ==
  \/ Announce
  \/ \E c \in Members : Join(c) \/ Hear(c) \/ Leave(c)

(* A member that stays hears everything.                                   *)
BoardSpec ==
  /\ BoardInit /\ [][BoardNext]_boardVars
  /\ \A c \in Members : WF_boardVars(member[c] = "in" /\ Hear(c))
=============================================================================
