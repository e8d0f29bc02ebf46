------------------------------ MODULE MCStore ------------------------------
(***************************************************************************)
(* The store with the real patch interpreter, in two walks from the        *)
(* initial state: calls of apply() with a few patches on two resources,    *)
(* and single operations of every kind on one document.                    *)
(***************************************************************************)
EXTENDS ChangeStoreLog, PatchWalk, TLC

(* Each walk starts in the common initial state and leaves the other's     *)
(* variables as they are there.                                            *)
StoreSteps ==
  /\ WalkInit
  /\ \E ch \in Requests : ApplyAccepted(ch) \/ ApplyConflict(ch) \/ ApplyInvalid(ch)
  /\ UNCHANGED walkVars
WalkSteps ==
  /\ Init
  /\ WalkNext
  /\ UNCHANGED vars

WalksInit == Init /\ WalkInit

StoreSpec == WalksInit /\ [][StoreSteps \/ WalkSteps]_<<vars, walkVars>>

-----------------------------------------------------------------------------
(* Patches that add, nest, remove, or fail after a first good operation.   *)
One == Scalar("1")
Op(op, path, value) == [op |-> op, path |-> path, value |-> value]

AddA == <<Op("add", <<"a">>, One)>>
NestB == <<Op("replace", <<"b", "a">>, One)>>
RemoveA == <<Op("remove", <<"a">>, One)>>
AddThenFail == <<Op("remove", <<"b">>, One), Op("add", <<"a", "b">>, One)>>

MCPatches == {AddA, NestB, RemoveA, AddThenFail}
MCPatchResult(document, patch) == ApplyOperations(document, patch)
MCEmptyDoc == EmptyObject

(* What the patches can build: a is absent or 1, b is absent or an object  *)
(* that has a; a, when AddThenFail creates it as an object, has b.         *)
WithKey(docs, key, values) ==
  docs \cup {Object(With(d.m, key, v)) : d \in docs, v \in values}
Nested(key) == Object(With(EmptyMap, key, One))
MCDocs == WithKey(WithKey({MCEmptyDoc}, "a", {One, Nested("b")}), "b", {Nested("a")})

(* Tokens: a key, an index from each end, the end; and a key of patches.   *)
MCTokens == {"a", "b", "0", "-1", "-"}
MCIntOf(t) == CASE t = "0" -> 0 [] t = "-1" -> 0 - 1 [] OTHER -> NotInt

(* Operations of the walk: paths of up to two tokens, which is how deep    *)
(* the documents are that they build, a value of each kind, and one name   *)
(* the code does not know.  At the root, which is an object, every token   *)
(* is a key like any other: two of them lead further.                      *)
Shallow(tokens, last) ==
  {<<>>} \cup {<<t>> : t \in tokens} \cup {<<t, u>> : t \in tokens, u \in last}
MCValues == {One, Array(<<>>)}
MCOperations ==
  {Op(op, path, value) :
     op \in {"add", "replace", "remove", "move"},
     path \in Shallow({"a", "0"}, {"a", "0", "-1", "-"}), value \in MCValues}
MCPaths == Shallow({"a", "0"}, {"a", "0", "-1"})
MCCharacters == {"~", "0", "1", "/", "a"}

(* Resource and package ids are only compared with their like.             *)
MCSymmetry == Permutations(Resources) \cup Permutations(Packages)
=============================================================================
