------------------------- MODULE ChangeStoreProofs -------------------------
(***************************************************************************)
(* The lemmas the proofs about the coordinator share: what the operators   *)
(* of the change store return and preserve, for every value of its         *)
(* constants, and the sequences of frames it keeps for its clients.        *)
(***************************************************************************)
EXTENDS ChangeStore, SequenceTheorems, TLAPS

(* What a lookup after a call of apply() returns: the stored value for the *)
(* resource of the call, and the old one for every other.                  *)
LEMMA GetStored ==
  ASSUME NEW id, NEW value, NEW other, resources' = Stored(id, value)
  PROVE  Get(other)' = IF other = id THEN value ELSE Get(other)
BY DEF Get, Stored

(* A lookup of a well-typed dictionary is a resource, known or fresh.      *)
LEMMA GetType ==
  ASSUME StoreTypeOK, NEW id \in Resources
  PROVE  Get(id) \in Resource
BY StoreAssumption DEF StoreTypeOK, Get, FreshResource, Resource

(* Storing a resource keeps the dictionary well typed.                     *)
LEMMA StoredType ==
  ASSUME StoreTypeOK, NEW id \in Resources, NEW value \in Resource,
         resources' = Stored(id, value)
  PROVE  StoreTypeOK'
BY DEF StoreTypeOK, Stored

(* The resource an accepted change leaves.                                 *)
LEMMA ChangedType ==
  ASSUME StoreTypeOK, NEW ch \in Change, PatchApplies(ch)
  PROVE  /\ ChangedResource(ch) \in Resource
         /\ PatchResult(Get(ch.resource).state, ch.patch) \in Docs
<1>1. Get(ch.resource) \in Resource
  BY GetType DEF Change
<1>2. PatchResult(Get(ch.resource).state, ch.patch) \in Docs
  BY <1>1, StoreAssumption DEF Resource, Change, PatchApplies
<1>3. QED
  BY <1>1, <1>2 DEF ChangedResource, Resource, Change

(* Every outcome of apply() leaves the dictionary well typed.              *)
LEMMA StoreStepType ==
  ASSUME StoreTypeOK, NEW ch \in Change, Accept(ch) \/ Conflict(ch) \/ Refuse(ch)
  PROVE  StoreTypeOK'
<1>1. ch.resource \in Resources
  BY DEF Change
<1>2. CASE Accept(ch)
  BY <1>1, <1>2, ChangedType, StoredType DEF Accept
<1>3. CASE Conflict(ch) \/ Refuse(ch)
  BY <1>1, <1>3, GetType, StoredType DEF Conflict, Refuse
<1>4. QED
  BY <1>2, <1>3

-----------------------------------------------------------------------------
(* Sequences of frames, whatever the frames are.                           *)

(* A sequence, whatever its elements.                                      *)
IsSequence(s) == s \in Seq(Range(s))

LEMMA SequenceOver ==
  ASSUME NEW S, NEW s \in Seq(S)
  PROVE  IsSequence(s)
BY SeqOfRange DEF IsSequence

(* Two sequences are sequences over one set.                               *)
LEMMA CommonSet ==
  ASSUME NEW w, NEW q, NEW e, IsSequence(w), IsSequence(q)
  PROVE  \E S : e \in S /\ w \in Seq(S) /\ q \in Seq(S)
<1> DEFINE W == Range(w)
           Q == Range(q)
           S == W \cup Q \cup {e}
<1>1. w \in Seq(W) /\ q \in Seq(Q)
  BY DEF IsSequence
<1>2. W \subseteq S /\ Q \subseteq S /\ e \in S
  OBVIOUS
<1> HIDE DEF W, Q, S
<1>3. w \in Seq(S) /\ q \in Seq(S)
  BY <1>1, <1>2, SeqMonotonic
<1>4. QED
  BY <1>2, <1>3

LEMMA SequenceClosed ==
  ASSUME NEW w, NEW q, NEW e, IsSequence(w), IsSequence(q)
  PROVE  /\ IsSequence(<<>>)
         /\ IsSequence(w \o q)
         /\ IsSequence(Append(w, e))
         /\ w # <<>> => IsSequence(Tail(w))
<1> PICK S : e \in S /\ w \in Seq(S) /\ q \in Seq(S)
  BY CommonSet
<1>1. IsSequence(<<>>)
  BY EmptySeq, SequenceOver
<1>2. IsSequence(w \o q)
  BY ConcatProperties, SequenceOver
<1>3. IsSequence(Append(w, e))
  BY AppendProperties, SequenceOver
<1>4. w # <<>> => IsSequence(Tail(w))
  BY HeadTailProperties, SequenceOver
<1>5. QED
  BY <1>1, <1>2, <1>3, <1>4

LEMMA SequenceFacts ==
  ASSUME NEW s, IsSequence(s)
  PROVE  /\ Len(s) \in Nat
         /\ DOMAIN s = 1..Len(s)
         /\ s # <<>> => Len(s) > 0
BY LenProperties, EmptySeq DEF IsSequence

LEMMA AppendFacts ==
  ASSUME NEW s, NEW e, IsSequence(s)
  PROVE  /\ DOMAIN Append(s, e) = 1..(Len(s) + 1)
         /\ Len(Append(s, e)) = Len(s) + 1
         /\ \A i \in 1..Len(s) : Append(s, e)[i] = s[i]
         /\ Append(s, e)[Len(s) + 1] = e
<1> PICK S : e \in S /\ s \in Seq(S)
  BY CommonSet
<1>1. QED
  BY AppendProperties, LenProperties

LEMMA TailFacts ==
  ASSUME NEW s, IsSequence(s), s # <<>>
  PROVE  /\ DOMAIN Tail(s) = 1..(Len(s) - 1)
         /\ Len(Tail(s)) = Len(s) - 1
         /\ \A i \in 1..(Len(s) - 1) : Tail(s)[i] = s[i + 1]
         /\ Head(s) = s[1]
BY HeadTailProperties, LenProperties DEF IsSequence

LEMMA ConcatFacts ==
  ASSUME NEW w, NEW q, IsSequence(w), IsSequence(q)
  PROVE  /\ DOMAIN (w \o q) = 1..(Len(w) + Len(q))
         /\ Len(w \o q) = Len(w) + Len(q)
         /\ \A i \in 1..(Len(w) + Len(q)) :
              (w \o q)[i] = IF i <= Len(w) THEN w[i] ELSE q[i - Len(w)]
<1> PICK S : w \in Seq(S) /\ q \in Seq(S)
  BY CommonSet
<1>1. QED
  BY ConcatProperties, LenProperties
=============================================================================
