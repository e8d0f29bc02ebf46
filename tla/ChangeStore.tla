---------------------------- MODULE ChangeStore ----------------------------
(***************************************************************************)
(* The revisioned resource store of the coordinator                        *)
(* (src/robot_task_ws/change_store.py): a dictionary of resources, each    *)
(* with a revision, a state document and the ids of its last change, that  *)
(* is updated by compare-and-swap patches.                                 *)
(*                                                                         *)
(* A state document is a member of Docs and a list of patch operations a   *)
(* member of Patches; what the list does to a document is the constant     *)
(* operator PatchResult, which is Invalid when one of its operations       *)
(* raises.  Module JsonPatch defines the operator the code implements.     *)
(***************************************************************************)
EXTENDS Naturals

CONSTANTS
  Resources,          (* resource ids                                      *)
  Docs, EmptyDoc,     (* state documents, and the document {}              *)
  Patches,            (* lists of patch operations                         *)
  PatchResult(_, _),  (* what a list does to a document, or Invalid        *)
  Invalid,
  Packages,           (* package ids                                       *)
  ChangeIds,          (* change ids                                        *)
  NoBase,             (* base_revision omitted by the sender               *)
  NoId                (* last_change_id / last_package_id before any change*)

ASSUME StoreAssumption ==
  /\ EmptyDoc \in Docs
  /\ Invalid \notin Docs
  /\ NoBase \notin Nat
  /\ \A doc \in Docs, patch \in Patches :
       PatchResult(doc, patch) \in Docs \cup {Invalid}

(* resources is the dictionary: its domain is the set of ids that were     *)
(* ever looked up.                                                         *)
VARIABLE resources

Resource ==
  [revision : Nat, state : Docs,
   change : ChangeIds \cup {NoId}, package : Packages \cup {NoId}]

FreshResource ==
  [revision |-> 0, state |-> EmptyDoc, change |-> NoId, package |-> NoId]

Change ==
  [resource : Resources, base : Nat \cup {NoBase}, patch : Patches,
   package : Packages, change : ChangeIds]

(* The resource an id denotes; get() creates it when the id is new.        *)
Get(id) == IF id \in DOMAIN resources THEN resources[id] ELSE FreshResource

(* The dictionary once resource id has been looked up and holds value.     *)
Stored(id, value) ==
  [other \in DOMAIN resources \cup {id} |->
     IF other = id THEN value ELSE resources[other]]

(* Mutant: any revision the sender has seen will do.                       *)
RevisionMatchesOlder(ch) ==
  ch.base \in {NoBase} \cup (0 .. Get(ch.resource).revision)

RevisionMatches(ch) ==
  ch.base = NoBase \/ ch.base = Get(ch.resource).revision

PatchApplies(ch) == PatchResult(Get(ch.resource).state, ch.patch) # Invalid

(* Mutant: the patch starts from {}.                                       *)
ChangedResourceFromEmpty(ch) ==
  [revision |-> Get(ch.resource).revision + 1,
   state    |-> PatchResult(EmptyDoc, ch.patch),
   change   |-> ch.change,
   package  |-> ch.package]

ChangedResource(ch) ==
  [revision |-> Get(ch.resource).revision + 1,
   state    |-> PatchResult(Get(ch.resource).state, ch.patch),
   change   |-> ch.change,
   package  |-> ch.package]

-----------------------------------------------------------------------------
(* The three outcomes of apply(): the change is stored, its base revision  *)
(* is stale, or one of its operations raises.  A refused change still      *)
(* leaves the looked-up resource in the dictionary.                        *)

Accept(ch) ==
  /\ RevisionMatches(ch)
  /\ PatchApplies(ch)
  /\ resources' = Stored(ch.resource, ChangedResource(ch))

(* Mutant: a conflict leaves the ids of the refused change behind.         *)
ConflictTouches(ch) ==
  /\ ~RevisionMatches(ch)
  /\ resources' = Stored(ch.resource, [Get(ch.resource) EXCEPT
                      !.change = ch.change, !.package = ch.package])

Conflict(ch) ==
  /\ ~RevisionMatches(ch)
  /\ resources' = Stored(ch.resource, Get(ch.resource))

Refuse(ch) ==
  /\ RevisionMatches(ch)
  /\ ~PatchApplies(ch)
  /\ resources' = Stored(ch.resource, Get(ch.resource))

StoreInit == resources = [id \in {} |-> FreshResource]

StoreTypeOK ==
  /\ DOMAIN resources \subseteq Resources
  /\ resources \in [DOMAIN resources -> Resource]
=============================================================================
