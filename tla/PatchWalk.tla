----------------------------- MODULE PatchWalk -----------------------------
(***************************************************************************)
(* Every document that sequences of operations build from {}, up to        *)
(* MaxSize elements, with what each further operation would do to it; and  *)
(* every token up to MaxToken characters, to compare the decoding of       *)
(* pointer tokens with their escaping.                                     *)
(***************************************************************************)
EXTENDS JsonPatch, FiniteSetsExt

CONSTANTS
  Operations,   (* the operations: op, path and value                      *)
  Values,       (* their values, and what is within them                   *)
  Paths,        (* the paths along which documents are compared            *)
  Characters,   (* of which tokens are spelled                             *)
  MaxSize, MaxToken   (* bounds: of a document, and of a token        *)

ASSUME OperationAssumption ==
  /\ \A operation \in Operations : operation.path \in Seq(Tokens) /\ operation.value \in Values
  /\ \A value \in Values : IsValueOver(value, Values)
  /\ Paths \subseteq Seq(Tokens)

VARIABLES doc, token

walkVars == <<doc, token>>

WalkInit ==
  /\ doc = EmptyObject
  /\ token = <<>>

(* The number of elements of the containers of a document.                 *)
Width(value) ==
  CASE value.kind = "object" -> Cardinality(DOMAIN value.m)
    [] value.kind = "array" -> Len(value.s)
    [] OTHER -> 0

Size(value) == MapThenSumSet(LAMBDA path : Width(At(value, path)), Paths)

(* The store adopts a document only when no operation of the list raised.  *)
Operate(operation) ==
  LET next == ApplyOperation(doc, operation) IN
  /\ next # Failed
  /\ Size(next) <= MaxSize
  /\ doc' = next
  /\ UNCHANGED token

Spell(char) ==
  /\ Len(token) < MaxToken
  /\ token' = Append(token, char)
  /\ UNCHANGED doc

(* The two walks are independent: tokens grow from the empty document.     *)
WalkNext ==
  \/ token = <<>> /\ \E operation \in Operations : Operate(operation)
  \/ doc = EmptyObject /\ \E char \in Characters : Spell(char)

WalkSpec == WalkInit /\ [][WalkNext]_walkVars

-----------------------------------------------------------------------------
(* What the code makes of the current document.                            *)
Outcome(operation) == ApplyOperation(doc, operation)

(* The place a token names in a container: different tokens may name the   *)
(* same element of an array.                                               *)
Place(container, t) ==
  CASE container.kind = "array" /\ HasIndex(container.s, IntOf(t)) ->
         Position(container.s, IntOf(t))
    [] container.kind = "array" /\ ~HasIndex(container.s, IntOf(t)) -> 0
    [] OTHER -> t

(* Another path leads along the trail of a path up to its token k, which   *)
(* leads elsewhere; the elements of an array that is changed itself may    *)
(* shift.                                                                  *)
Agree(other, path, trail, i) ==
  Place(trail[i - 1], other[i]) = Place(trail[i - 1], path[i])

Parts(other, path, trail) ==
  \E k \in DOMAIN other \cap DOMAIN path :
    /\ \A i \in 1 .. k - 1 : Agree(other, path, trail, i)
    /\ ~Agree(other, path, trail, k)
    /\ k = Len(path) => trail[k - 1].kind = "object"

(* An operation leaves alone all that other paths lead to, in objects and  *)
(* in arrays; and in an object, "add" and "replace" put the value at the   *)
(* path, "remove" leaves nothing there (apply_operation, 70-94, and        *)
(* resolve_parent, 97-107).                                                *)
TouchesOnlyItsPath ==
  \A operation \in Operations :
    LET path == operation.path
        next == Outcome(operation)
        trail == Trail(doc, path, EmptyObject)
    IN next # Failed =>
         /\ \A other \in Paths :
              Parts(other, path, trail) => At(next, other) = At(doc, other)
         /\ trail[Len(path) - 1].kind = "object" =>
              At(next, path) = IF operation.op = "remove" THEN Failed ELSE operation.value

(* On a path that ends in an array, "add" inserts its value and loses no   *)
(* element, "remove" drops exactly one, "replace" changes at most one: the *)
(* clamping of insert and negative indices included (78-92).               *)
ArraysShiftByOne ==
  \A operation \in Operations :
    LET next   == Outcome(operation)
        before == At(doc, Front(operation.path))
        after  == At(next, Front(operation.path))
    IN next # Failed /\ before.kind = "array" =>
         CASE operation.op = "add" ->
                \E i \in DOMAIN after.s :
                  after.s[i] = operation.value /\ RemoveAt(after.s, i) = before.s
           [] operation.op = "remove" ->
                \E i \in DOMAIN before.s : after.s = RemoveAt(before.s, i)
           [] OTHER ->
                \E i \in DOMAIN before.s :
                  after.s = ReplaceAt(before.s, i, operation.value)

(* Decoding a pointer token undoes the RFC 6901 escaping (110-111): the    *)
(* order of the two replacements is what keeps "~01" from becoming "/".    *)
DecodeUndoesEncode == DecodePointerPart(EncodePointerPart(token)) = token
=============================================================================
