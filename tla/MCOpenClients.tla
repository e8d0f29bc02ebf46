--------------------------- MODULE MCOpenClients ---------------------------
(* Three kinds of traffic: requests against a replay, claims of one task   *)
(* by two workers, and state patches of two packages.                      *)
EXTENDS OpenClients, TLC

CONSTANTS c1, c2, c3, t1, t2, r

Register == [type |-> "client.register"]
Request(t) == [type |-> "task.request", id |-> t]
Claim(t, who) == [type |-> "task.claim", id |-> t, client |-> who]
Result(t) == [type |-> "task.result", id |-> t]
Patch(base, patch, package, change) ==
  [type |-> "state.patch",
   change |-> [resource |-> r, base |-> base, patch |-> patch,
               package |-> package, change |-> change]]

(* An operator requests two tasks while two workers register; the result   *)
(* of one shrinks the table under the replay of the other.                 *)
ReplayTraffic ==
  (c1 :> {Request(t1), Request(t2)}) @@
  (c2 :> {Register, Result(t1)}) @@
  (c3 :> {Register})

(* Claims of one task by two workers, both of which return a result.       *)
ClaimTraffic ==
  (c1 :> {Request(t1)}) @@
  (c2 :> {Claim(t1, "a"), Result(t1)}) @@
  (c3 :> {Claim(t1, "b"), Result(t1)})

(* Changes that are current, stale, without base, or fail, and a client    *)
(* with telemetry and a frame the coordinator cannot parse.                *)
PatchTraffic ==
  (c1 :> {Patch(0, "m", "P", "c1"), Patch(NoBase, "n", "P", "c2")}) @@
  (c2 :> {Patch(1, "n", "Q", "c2"), Patch(NoBase, "bad", "Q", "c3")}) @@
  (c3 :> {[type |-> "robot.state", source |-> "arm"], [type |-> "malformed"]})

MCRepertoires == {ReplayTraffic, ClaimTraffic, PatchTraffic}

(* Patches add a mark to the document; "bad" is one that raises.           *)
MCPatches == {"m", "n", "bad"}
MCDocs == SUBSET {"m", "n"}
MCPatchResult(doc, patch) == IF patch = "bad" THEN Invalid ELSE doc \cup {patch}
=============================================================================
