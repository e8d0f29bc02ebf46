----------------------------- MODULE MCExamples -----------------------------
(* The example programs: submitters with workers, and packages with one    *)
(* another.                                                                *)
EXTENDS ExampleClients, TLC

CONSTANTS c1, c2, c3, t1, t2, r

MCDocs == SUBSET {"planner", "safety"}
MCPatchResult(doc, patch) == doc \cup {patch}

PackageChange(name) ==
  [resource |-> r, base |-> 0, patch |-> name, package |-> name, change |-> name]

(* A submitter and two workers, one of which may break.                    *)
TwoWorkers == (c1 :> "submitter") @@ (c2 :> "worker") @@ (c3 :> "worker")

(* Two submitters of different tasks, one of which may break, and a worker.*)
OneWorker == (c1 :> "submitter") @@ (c2 :> "worker") @@ (c3 :> "submitter")

(* The two packages of the demo.                                           *)
TwoPackages == (c1 :> "package") @@ (c2 :> "package") @@ (c3 :> "none")

MCCasts == {TwoWorkers, OneWorker, TwoPackages}

MCTaskOf == (c1 :> t1) @@ (c2 :> t2) @@ (c3 :> t2)
MCChangeOf == (c1 :> PackageChange("planner")) @@ (c2 :> PackageChange("safety"))
=============================================================================
