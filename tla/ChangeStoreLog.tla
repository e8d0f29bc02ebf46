-------------------------- MODULE ChangeStoreLog ---------------------------
(***************************************************************************)
(* ChangeStore on its own, driven by arbitrary calls of apply(), with a    *)
(* history of the accepted changes of each resource.  The history is what  *)
(* the state of a resource has to agree with: nothing accepted is lost,    *)
(* nothing refused leaves a trace, and a compare-and-swap change is only   *)
(* ever applied to the document it was computed from.                      *)
(***************************************************************************)
EXTENDS ChangeStore, Sequences

CONSTANT MaxRevision   (* bound on the changes accepted per resource       *)

ASSUME MaxRevisionAssumption == MaxRevision \in Nat

(* log[r] lists the accepted changes of r, each with the document it left. *)
VARIABLE log

vars == <<resources, log>>

Entry == [ch : Change, doc : Docs]

Init ==
  /\ StoreInit
  /\ log = [id \in Resources |-> <<>>]

ApplyAccepted(ch) ==
  /\ Len(log[ch.resource]) < MaxRevision
  /\ Accept(ch)
  /\ log' = [log EXCEPT ![ch.resource] =
               Append(@, [ch |-> ch, doc |-> Get(ch.resource)'.state])]

ApplyConflict(ch) == Conflict(ch) /\ UNCHANGED log

ApplyInvalid(ch) == Refuse(ch) /\ UNCHANGED log

(* A sender names a revision it has seen: any one up to MaxRevision.       *)
Requests ==
  [resource : Resources, base : (0 .. MaxRevision) \cup {NoBase},
   patch : Patches, package : Packages, change : ChangeIds]

Next ==
  \E ch \in Requests : ApplyAccepted(ch) \/ ApplyConflict(ch) \/ ApplyInvalid(ch)

Spec == Init /\ [][Next]_vars

-----------------------------------------------------------------------------
TypeOK ==
  /\ StoreTypeOK
  /\ log \in [Resources -> Seq(Entry)]

(* The document before entry n of the log of id.                           *)
DocBefore(id, n) == IF n = 1 THEN EmptyDoc ELSE log[id][n - 1].doc

(* The revision of a resource counts its accepted changes, and its state   *)
(* and last ids are those of the last one: a refused change (conflict or   *)
(* half-applied patch, change_store.py 56-66) leaves no trace.             *)
StoreMatchesLog ==
  \A id \in Resources :
    LET n == Len(log[id]) IN
    /\ Get(id).revision = n
    /\ n = 0 => Get(id) = FreshResource
    /\ n > 0 => /\ Get(id).state = log[id][n].doc
                /\ Get(id).change = log[id][n].ch.change
                /\ Get(id).package = log[id][n].ch.package

(* No lost update: every document of the history is the previous one with  *)
(* the entry's own patch applied, whatever was refused in between.         *)
LogIsChain ==
  \A id \in Resources : \A n \in DOMAIN log[id] :
    log[id][n].doc = PatchResult(DocBefore(id, n), log[id][n].ch.patch)

(* A change that named its base revision was applied exactly to that       *)
(* revision: no change its author had not seen lies in between.            *)
SwapsOnItsBase ==
  \A id \in Resources : \A n \in DOMAIN log[id] :
    log[id][n].ch.base # NoBase => log[id][n].ch.base = n - 1

(* A document changes only by the change that is recorded with it: when    *)
(* the revision stays, so do the state and the last ids (the deep copy of  *)
(* change_store.py 59-61 is what makes a failing patch leave no trace).    *)
SameRevisionSameState ==
  [][\A id \in Resources :
       Get(id)'.revision = Get(id).revision => Get(id)' = Get(id)]_vars
=============================================================================
