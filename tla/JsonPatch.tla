----------------------------- MODULE JsonPatch -----------------------------
(***************************************************************************)
(* The patch interpreter of the change store (change_store.py 70-111):     *)
(* one operation walks a JSON-pointer path from the root, creating the     *)
(* objects that are missing on the way, and adds, replaces or removes the  *)
(* value its last token names.                                             *)
(*                                                                         *)
(* A JSON value is a record with a kind: a scalar, an object (a function   *)
(* from tokens) or an array (a sequence).  Python's negative indices are   *)
(* kept: they count from the end.                                          *)
(***************************************************************************)
EXTENDS Integers, Sequences, SequencesExt

CONSTANTS
  Tokens,     (* the tokens of paths                                       *)
  IntOf(_),   (* Python's int() of a token ...                             *)
  NotInt      (* ... and what it is of a token that is no number           *)

ASSUME TokenAssumption ==
  /\ NotInt \notin Int
  /\ \A token \in Tokens : IntOf(token) \in Int \cup {NotInt}

(* The outcome of an operation that raises.                                *)
Failed == [kind |-> "failed"]

Scalar(v)  == [kind |-> "scalar", v |-> v]
Object(m)  == [kind |-> "object", m |-> m]
Array(s)   == [kind |-> "array", s |-> s]
EmptyMap   == [token \in {} |-> 0]
EmptyObject == Object(EmptyMap)

(* Mutant: the siblings of the token are lost.                             *)
WithAlone(m, token, value) == [t \in {token} |-> value]

With(m, token, value) ==
  [t \in DOMAIN m \cup {token} |-> IF t = token THEN value ELSE m[t]]

Without(m, token) == [t \in DOMAIN m \ {token} |-> m[t]]

(* The 1-based position Python's index i denotes in s, when it has one.    *)
HasIndex(s, i) == i # NotInt /\ (0 - Len(s)) <= i /\ i < Len(s)
Position(s, i) == IF i < 0 THEN Len(s) + i + 1 ELSE i + 1

(* list.insert clamps: it never fails on an integer.                       *)
InsertPosition(s, i) ==
  IF i >= Len(s) THEN Len(s) + 1
  ELSE IF i < 0 - Len(s) THEN 1 ELSE Position(s, i)

(* The last step on the parent of the path: apply_operation, 78-94.        *)
ApplyToObject(parent, op, token, value) ==
  IF op = "remove" THEN Object(Without(parent.m, token))
  ELSE Object(With(parent.m, token, value))

(* Mutant: "add" at an element that exists overwrites it.                  *)
ApplyToArrayOverwrites(parent, op, token, value) ==
  LET s == parent.s
      i == IF token = "-" /\ op # "remove" THEN Len(s) ELSE IntOf(token)
  IN
  CASE op = "add" /\ i # NotInt /\ ~HasIndex(s, i) ->
         Array(InsertAt(s, InsertPosition(s, i), value))
    [] op = "remove" /\ HasIndex(s, i) -> Array(RemoveAt(s, Position(s, i)))
    [] op \in {"add", "replace"} /\ HasIndex(s, i) ->
         Array(ReplaceAt(s, Position(s, i), value))
    [] OTHER -> Failed

ApplyToArray(parent, op, token, value) ==
  LET s == parent.s
      i == IF token = "-" /\ op # "remove" THEN Len(s) ELSE IntOf(token)
  IN
  CASE op = "add" /\ i # NotInt -> Array(InsertAt(s, InsertPosition(s, i), value))
    [] op = "remove" /\ HasIndex(s, i) -> Array(RemoveAt(s, Position(s, i)))
    [] op = "replace" /\ HasIndex(s, i) -> Array(ReplaceAt(s, Position(s, i), value))
    [] OTHER -> Failed

ApplyToParent(parent, op, token, value) ==
  CASE parent.kind = "object" -> ApplyToObject(parent, op, token, value)
    [] parent.kind = "array" -> ApplyToArray(parent, op, token, value)
    [] OTHER -> Failed

-----------------------------------------------------------------------------
(* The value a token leads to in a container; what a missing key leads to  *)
(* is for the caller to say.                                               *)
Enter(container, token, missing) ==
  CASE container.kind = "object" ->
         IF token \in DOMAIN container.m THEN container.m[token] ELSE missing
    [] container.kind = "array" /\ HasIndex(container.s, IntOf(token)) ->
         container.s[Position(container.s, IntOf(token))]
    [] OTHER -> Failed

(* The values a path leads through: entry i is where i tokens lead.  In    *)
(* resolve_parent, 97-107, a missing key gets an empty object.             *)
Trail(doc, path, missing) ==
  LET at[i \in 0 .. Len(path)] ==
        IF i = 0 THEN doc ELSE Enter(at[i - 1], path[i], missing)
  IN at

(* A container once the value its token leads to has changed.              *)
Put(container, token, child) ==
  CASE child = Failed -> Failed
    [] child # Failed /\ container.kind = "object" ->
         Object(With(container.m, token, child))
    [] child # Failed /\ container.kind = "array" /\ HasIndex(container.s, IntOf(token)) ->
         Array(ReplaceAt(container.s, Position(container.s, IntOf(token)), child))
    [] OTHER -> Failed

(* The document once the parent has changed: changed[k] is the container k *)
(* levels above the parent, which is changed[0].                           *)
Descend(doc, path, op, value) ==
  LET n == Len(path)
      at == Trail(doc, path, EmptyObject)
      changed[k \in 0 .. n - 1] ==
        IF k = 0 THEN ApplyToParent(at[n - 1], op, path[n], value)
        ELSE Put(at[n - 1 - k], path[n - k], changed[k - 1])
  IN changed[n - 1]

(* apply_operation, 70-94.  A path that does not start with "/" is no      *)
(* sequence of tokens: it is the empty sequence here.                      *)
ApplyOperation(doc, operation) ==
  IF operation.op \notin {"add", "replace", "remove"} \/ operation.path = <<>>
  THEN Failed
  ELSE Descend(doc, operation.path, operation.op, operation.value)

(* The loop of ChangeStore.apply, 59-61: entry i is the copy after i       *)
(* operations; the first that raises abandons it.                          *)
Results(doc, operations) ==
  LET result[i \in 0 .. Len(operations)] ==
        IF i = 0 THEN doc
        ELSE IF result[i - 1] = Failed THEN Failed
        ELSE ApplyOperation(result[i - 1], operations[i])
  IN result

ApplyOperations(doc, operations) == Results(doc, operations)[Len(operations)]

-----------------------------------------------------------------------------
(* decode_pointer_part, 110-111, on tokens as sequences of characters:     *)
(* every "~1" becomes "/", and then every "~0" becomes "~".  The two       *)
(* characters of a pattern differ: its occurrences do not overlap.         *)
Replaced(s, pattern, char) ==
  LET FoundAt(i) == i \in 1 .. Len(s) - 1 /\ s[i] = pattern[1] /\ s[i + 1] = pattern[2]
  IN FlattenSeq([i \in DOMAIN s |-> IF FoundAt(i) THEN <<char>>
                                    ELSE IF FoundAt(i - 1) THEN <<>> ELSE <<s[i]>>])

(* Mutant: the replacements in the other order.                            *)
DecodePointerPartSwapped(part) ==
  Replaced(Replaced(part, <<"~", "0">>, "~"), <<"~", "1">>, "/")

DecodePointerPart(part) ==
  Replaced(Replaced(part, <<"~", "1">>, "/"), <<"~", "0">>, "~")

(* The escaping a sender applies (RFC 6901): the reference for decoding.   *)
EncodeChar(char) ==
  CASE char = "~" -> <<"~", "0">> [] char = "/" -> <<"~", "1">>
    [] OTHER -> <<char>>

EncodePointerPart(token) ==
  FlattenSeq([i \in DOMAIN token |-> EncodeChar(token[i])])

-----------------------------------------------------------------------------
(* What a path leads to in a value, with nothing created on the way.       *)
At(value, path) == Trail(value, path, Failed)[Len(path)]

(* A JSON value all of whose elements are in a set of values.              *)
IsValueOver(value, values) ==
  \/ value.kind = "scalar"
  \/ value.kind = "object" /\ \A token \in DOMAIN value.m : value.m[token] \in values
  \/ value.kind = "array" /\ value.s \in Seq(values)
=============================================================================
