---------------------------- MODULE MCBroadcasts ----------------------------
(* Announcements of three kinds from two clients and a listener that may   *)
(* break; and traffic of which most announces nothing: a replay, a relayed *)
(* stop, a frame the coordinator refuses.                                  *)
EXTENDS OpenBroadcasts, TLC

CONSTANTS c1, c2, c3, t, r

MCPatches == {"m", "n"}
MCDocs == SUBSET MCPatches
MCPatchResult(doc, patch) == doc \cup {patch}

Task(type) == [type |-> type, id |-> t]
Claim(who) == [type |-> "task.claim", id |-> t, client |-> who]
Patch(package, patch) ==
  [type |-> "state.patch",
   change |-> [resource |-> r, base |-> 0, patch |-> patch,
               package |-> package, change |-> "c1"]]

AnnouncingTraffic ==
  (c1 :> {Claim("a"), Task("task.result")}) @@
  (c2 :> {Patch("Q", "n")}) @@
  (c3 :> {})

MixedTraffic ==
  (c1 :> {[type |-> "stop"], Task("task.request")}) @@
  (c2 :> {Task("task.result")}) @@
  (c3 :> {[type |-> "client.register"], [type |-> "unknown_type"]})

MCRepertoires == {AnnouncingTraffic, MixedTraffic}
=============================================================================
