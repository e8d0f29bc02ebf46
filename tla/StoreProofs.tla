---------------------------- MODULE StoreProofs ----------------------------
(***************************************************************************)
(* Proofs about the change store, in two parts: its log of changes, for    *)
(* any set of resources, any documents and any patch function, and for any *)
(* bound on the revisions (ChangeStoreLog); and the patch interpreter, for *)
(* any tokens, any set of operations and any paths (PatchWalk).            *)
(***************************************************************************)
EXTENDS ChangeStoreLog, PatchWalk, ChangeStoreProofs, SequenceTheorems,
        WellFoundedInduction

-----------------------------------------------------------------------------
(* PART 1.  The log.                                                       *)
-----------------------------------------------------------------------------
(* The bound on the base revision is all that sets Requests apart.         *)
LEMMA RequestIsChange == Requests \subseteq Change
BY MaxRevisionAssumption DEF Requests, Change

-----------------------------------------------------------------------------
(* What each kind of step does, in terms of lookups and of the log.        *)

LEMMA AcceptedStep ==
  ASSUME TypeOK, NEW ch \in Requests, ApplyAccepted(ch)
  PROVE  /\ RevisionMatches(ch)
         /\ \A id : Get(id)' = IF id = ch.resource THEN ChangedResource(ch) ELSE Get(id)
         /\ log' = [log EXCEPT ![ch.resource] =
                      Append(@, [ch |-> ch, doc |-> ChangedResource(ch).state])]
         /\ TypeOK'
<1> USE DEF ApplyAccepted, Accept
<1>1. RevisionMatches(ch) /\ PatchApplies(ch) /\ ch.resource \in Resources
  BY DEF Requests
<1>2. \A id : Get(id)' = IF id = ch.resource THEN ChangedResource(ch) ELSE Get(id)
  BY GetStored
<1>3. log' = [log EXCEPT ![ch.resource] =
                Append(@, [ch |-> ch, doc |-> ChangedResource(ch).state])]
  BY <1>2
<1>4. StoreTypeOK'
  BY <1>1, StoredType, ChangedType, RequestIsChange DEF TypeOK
<1>5. log' \in [Resources -> Seq(Entry)]
  <2>1. ChangedResource(ch).state \in Docs
    BY <1>1, ChangedType, RequestIsChange DEF TypeOK, Resource
  <2>2. ch \in Change
    BY RequestIsChange
  <2>3. [ch |-> ch, doc |-> ChangedResource(ch).state] \in Entry
    BY <2>1, <2>2 DEF Entry
  <2>4. QED
    BY <1>1, <1>3, <2>3 DEF TypeOK
<1>6. QED
  BY <1>1, <1>2, <1>3, <1>4, <1>5 DEF TypeOK

(* A refused change, stale or failing, is invisible to every lookup.       *)
LEMMA RefusedStep ==
  ASSUME TypeOK, NEW ch \in Requests, ApplyConflict(ch) \/ ApplyInvalid(ch)
  PROVE  /\ \A id : Get(id)' = Get(id)
         /\ log' = log
         /\ TypeOK'
<1> USE DEF ApplyConflict, ApplyInvalid, Conflict, Refuse
<1>1. resources' = Stored(ch.resource, Get(ch.resource)) /\ log' = log
  OBVIOUS
<1>2. \A id : Get(id)' = Get(id)
  BY <1>1, GetStored
<1>3. StoreTypeOK'
  BY <1>1, StoredType, GetType DEF TypeOK, Requests
<1>4. QED
  BY <1>1, <1>2, <1>3 DEF TypeOK

(* The same for a step that changes nothing.                               *)
LEMMA IdleStep ==
  ASSUME TypeOK, UNCHANGED vars
  PROVE  (\A id : Get(id)' = Get(id)) /\ log' = log /\ TypeOK'
BY DEF vars, Get, TypeOK, StoreTypeOK

-----------------------------------------------------------------------------
(* Type correctness of the store and of its history.                       *)
THEOREM TypeCorrect == Spec => []TypeOK
<1>1. Init => TypeOK
  BY DEF Init, StoreInit, TypeOK, StoreTypeOK
<1>2. TypeOK /\ [Next]_vars => TypeOK'
  BY AcceptedStep, RefusedStep, IdleStep DEF Next
<1>3. QED
  BY <1>1, <1>2, PTL DEF Spec

(* The three invariants about the history hold together: the revision      *)
(* counts the log, which is what makes an accepted base the index before   *)
(* the new entry, and the current document is the last one, which is what  *)
(* makes the new entry continue the chain.                                 *)
HistoryInv == StoreMatchesLog /\ LogIsChain /\ SwapsOnItsBase

LEMMA HistoryStep == TypeOK /\ HistoryInv /\ [Next]_vars => HistoryInv'
<1> SUFFICES ASSUME TypeOK, HistoryInv, [Next]_vars
             PROVE  HistoryInv'
  OBVIOUS
<1> USE DEF HistoryInv
<1>1. CASE UNCHANGED vars
  BY <1>1, IdleStep DEF StoreMatchesLog, LogIsChain, SwapsOnItsBase, DocBefore
<1>2. ASSUME NEW ch \in Requests, ApplyConflict(ch) \/ ApplyInvalid(ch)
      PROVE  HistoryInv'
  BY <1>2, RefusedStep DEF StoreMatchesLog, LogIsChain, SwapsOnItsBase, DocBefore
<1>3. ASSUME NEW ch \in Requests, ApplyAccepted(ch)
      PROVE  HistoryInv'
  <2> DEFINE r == ch.resource
             new == [ch |-> ch, doc |-> ChangedResource(ch).state]
             n == Len(log[r])
  <2>1. /\ r \in Resources
        /\ log \in [Resources -> Seq(Entry)]
        /\ log' = [log EXCEPT ![r] = Append(@, new)]
        /\ n \in Nat
    BY <1>3, AcceptedStep DEF TypeOK, Requests
  <2>2. /\ Len(log[r])' = n + 1
        /\ log'[r][n + 1] = new
        /\ \A i \in 1 .. n : log'[r][i] = log[r][i]
        /\ \A id \in Resources : id # r => log'[id] = log[id]
        /\ DOMAIN log'[r] = 1 .. (n + 1)
    BY <2>1
  <2>3. \A id : Get(id)' = IF id = r THEN ChangedResource(ch) ELSE Get(id)
    BY <1>3, AcceptedStep
  <2>4. /\ Get(r).revision = n
        /\ Get(r).state = DocBefore(r, n + 1)
    <3>1. CASE n = 0
      BY <2>1, <3>1 DEF StoreMatchesLog, DocBefore, FreshResource
    <3>2. CASE n > 0
      BY <2>1, <3>2 DEF StoreMatchesLog, DocBefore
    <3>3. QED
      BY <2>1, <3>1, <3>2
  <2>5. StoreMatchesLog'
    BY <2>1, <2>2, <2>3, <2>4 DEF StoreMatchesLog, ChangedResource
  <2>6. LogIsChain'
    <3>1. \A i \in 1 .. (n + 1) : DocBefore(r, i)' = DocBefore(r, i)
      BY <2>1, <2>2 DEF DocBefore
    <3>2. \A id \in Resources \ {r} : \A i \in DOMAIN log[id] : DocBefore(id, i)' = DocBefore(id, i)
      BY <2>2 DEF DocBefore
    <3>3. new.doc = PatchResult(DocBefore(r, n + 1), new.ch.patch)
      BY <2>4 DEF ChangedResource
    <3>4. \A i \in DOMAIN log'[r] :
            log'[r][i].doc = PatchResult(DocBefore(r, i)', log'[r][i].ch.patch)
      BY <2>1, <2>2, <3>1, <3>3 DEF LogIsChain
    <3>5. \A id \in Resources \ {r} : \A i \in DOMAIN log'[id] :
            log'[id][i].doc = PatchResult(DocBefore(id, i)', log'[id][i].ch.patch)
      BY <2>2, <3>2 DEF LogIsChain
    <3>6. QED
      BY <3>4, <3>5 DEF LogIsChain
  <2>7. SwapsOnItsBase'
    <3>1. new.ch.base # NoBase => new.ch.base = n
      BY <1>3, <2>4, AcceptedStep DEF RevisionMatches
    <3>2. QED
      BY <2>1, <2>2, <3>1 DEF SwapsOnItsBase
  <2>8. QED
    BY <2>5, <2>6, <2>7
<1>4. QED
  BY <1>1, <1>2, <1>3 DEF Next

(* The history invariants hold in every behaviour.                         *)
LEMMA HistoryInvariant == Spec => []HistoryInv
<1>1. Init => HistoryInv
  <2> SUFFICES ASSUME Init PROVE HistoryInv
    OBVIOUS
  <2>1. \A id \in Resources : Len(log[id]) = 0 /\ DOMAIN log[id] = {}
    <3>1. \A id \in Resources : log[id] = <<>> /\ log[id] \in Seq(Entry)
      BY EmptySeq DEF Init
    <3>2. ASSUME NEW id \in Resources
          PROVE  Len(log[id]) = 0 /\ DOMAIN log[id] = 1 .. 0
      <4>1. Len(log[id]) = 0
        BY <3>1, EmptySeq
      <4>2. QED
        BY <3>1, <4>1, LenProperties
    <3>3. 1 .. 0 = {}
      OBVIOUS
    <3>4. QED
      BY <3>2, <3>3
  <2>2. \A id : Get(id) = FreshResource
    BY DEF Init, StoreInit, Get
  <2>3. StoreMatchesLog
    <3>1. FreshResource.revision = 0
      BY DEF FreshResource
    <3>2. ASSUME NEW id \in Resources
          PROVE  /\ Get(id).revision = Len(log[id])
                 /\ Get(id) = FreshResource
                 /\ ~(Len(log[id]) > 0)
      BY <2>1, <2>2, <3>1
    <3>3. QED
      BY <3>2 DEF StoreMatchesLog
  <2>4. LogIsChain /\ SwapsOnItsBase
    BY <2>1 DEF LogIsChain, SwapsOnItsBase
  <2>5. QED
    BY <2>3, <2>4 DEF HistoryInv
<1>2. QED
  BY <1>1, HistoryStep, TypeCorrect, PTL DEF Spec

(* A refused change leaves no trace: revision, state and last ids are      *)
(* always those of the log of accepted changes.                            *)
THEOREM RefusalsLeaveNoTrace == Spec => []StoreMatchesLog
<1>1. HistoryInv => StoreMatchesLog
  BY DEF HistoryInv
<1>2. QED
  BY <1>1, HistoryInvariant, PTL

(* No update is lost: each document of the history is the one before it    *)
(* with its own patch applied.                                             *)
THEOREM NoLostUpdate == Spec => []LogIsChain
<1>1. HistoryInv => LogIsChain
  BY DEF HistoryInv
<1>2. QED
  BY <1>1, HistoryInvariant, PTL

(* Compare-and-swap: a change that named its base revision was applied to  *)
(* exactly that revision.                                                  *)
THEOREM CompareAndSwap == Spec => []SwapsOnItsBase
<1>1. HistoryInv => SwapsOnItsBase
  BY DEF HistoryInv
<1>2. QED
  BY <1>1, HistoryInvariant, PTL

(* A resource whose revision did not move did not change at all.           *)
THEOREM RevisionIdentifiesState == Spec => SameRevisionSameState
<1> DEFINE Same == \A id \in Resources :
                     Get(id)'.revision = Get(id).revision => Get(id)' = Get(id)
<1>1. TypeOK /\ [Next]_vars => [Same]_vars
  <2> SUFFICES ASSUME TypeOK, [Next]_vars PROVE [Same]_vars
    OBVIOUS
  <2>1. ASSUME NEW ch \in Requests, ApplyConflict(ch) \/ ApplyInvalid(ch)
        PROVE  Same
    BY <2>1, RefusedStep
  <2>2. ASSUME NEW ch \in Requests, ApplyAccepted(ch)
        PROVE  Same
    <3>1. Get(ch.resource).revision \in Nat
      BY GetType DEF TypeOK, Requests, Resource
    <3>2. ChangedResource(ch).revision # Get(ch.resource).revision
      BY <3>1 DEF ChangedResource
    <3>3. QED
      BY <2>2, <3>2, AcceptedStep
  <2>3. QED
    BY <2>1, <2>2 DEF Next
<1>2. QED
  BY <1>1, TypeCorrect, PTL DEF Spec, SameRevisionSameState

-----------------------------------------------------------------------------
(* PART 2.  The patch interpreter.                                         *)
-----------------------------------------------------------------------------
(* Induction, for a set of naturals in place of a predicate: a set of      *)
(* naturals that misses one misses a least one.                            *)
LEMMA SetInduction ==
  ASSUME NEW P \in SUBSET Nat, 0 \in P, \A i \in P : i + 1 \in P
  PROVE  Nat \subseteq P
<1> DEFINE R == OpToRel(<, Nat)
           T == Nat \ P
<1>1. IsWellFoundedOn(R, Nat)
  BY NatLessThanWellFounded
<1>2. \A x, y \in Nat : y < x => <<y, x>> \in R
  BY DEF OpToRel
<1> HIDE DEF R
<1>3. SUFFICES ASSUME T # {} PROVE FALSE
  OBVIOUS
<1>4. PICK x \in T : \A y \in T : ~(<<y, x>> \in R)
  BY <1>1, <1>3, WFMin
<1>5. x # 0 /\ x - 1 \in Nat /\ (x - 1) + 1 = x /\ x - 1 < x
  BY <1>4
<1>6. x - 1 \in P
  BY <1>2, <1>4, <1>5
<1>7. x \in P
  BY <1>5, <1>6
<1>8. QED
  BY <1>4, <1>7

-----------------------------------------------------------------------------
(* What the recursive functions of JsonPatch are: a trail.                 *)
IsTrail(f, value, path, missing) ==
  /\ f[0] = value
  /\ \A i \in 1 .. Len(path) : f[i] = Enter(f[i - 1], path[i], missing)

LEMMA TrailFacts ==
  ASSUME NEW value, NEW path, Len(path) \in Nat, NEW missing
  PROVE  IsTrail(Trail(value, path, missing), value, path, missing)
<1> DEFINE n == Len(path)
           Follows(f, i) == Enter(f[i - 1], path[i], missing)
           Good(f, k) == /\ f = [i \in 0 .. k |-> f[i]]
                         /\ f[0] = value
                         /\ \A i \in 1 .. k : f[i] = Follows(f, i)
           P == {k \in Nat : \E f : Good(f, k)}
<1>1. 0 \in P
  <2>1. Good([i \in 0 .. 0 |-> value], 0)
    OBVIOUS
  <2>2. QED
    BY <2>1
<1>2. ASSUME NEW k \in Nat, NEW f, Good(f, k) PROVE \E g : Good(g, k + 1)
  <2> DEFINE e == Enter(f[k], path[k + 1], missing)
             g == [i \in 0 .. k + 1 |-> IF i = k + 1 THEN e ELSE f[i]]
  <2> HIDE DEF e
  <2>1. g[0] = value
    BY <1>2
  <2>2. ASSUME NEW i \in 1 .. k + 1 PROVE g[i] = Follows(g, i)
    <3>1. /\ i \in 0 .. k + 1 /\ i - 1 \in 0 .. k + 1 /\ i - 1 # k + 1
          /\ g[i - 1] = f[i - 1]
      OBVIOUS
    <3>2. CASE i = k + 1
      <4>1. g[i] = e /\ i - 1 = k
        BY <3>1, <3>2
      <4> HIDE DEF g
      <4>2. QED
        BY <3>1, <3>2, <4>1 DEF e
    <3>3. CASE i # k + 1
      <4>1. g[i] = f[i] /\ i \in 1 .. k
        BY <3>1, <3>3
      <4> HIDE DEF g
      <4>2. QED
        BY <1>2, <3>1, <4>1
    <3>4. QED
      BY <3>2, <3>3
  <2>3. g = [i \in 0 .. k + 1 |-> g[i]]
    OBVIOUS
  <2> HIDE DEF g
  <2>4. Good(g, k + 1)
    BY <2>1, <2>2, <2>3
  <2> HIDE DEF Good
  <2>5. QED
    BY <2>4
<1>3. n \in P
  <2>1. P \in SUBSET Nat /\ \A k \in P : k + 1 \in P
    <3> HIDE DEF Good
    <3>1. QED
      BY <1>2
  <2> HIDE DEF P
  <2>2. QED
    BY <1>1, <2>1, SetInduction
<1>4. PICK f : Good(f, n)
  BY <1>3
<1> DEFINE IsIt(g) == g = [i \in 0 .. n |-> IF i = 0 THEN value ELSE Follows(g, i)]
<1>5. IsIt(f)
  <2> DEFINE h == [i \in 0 .. n |-> IF i = 0 THEN value ELSE Follows(f, i)]
  <2>1. ASSUME NEW i \in 0 .. n PROVE f[i] = h[i]
    <3>1. i = 0 \/ i \in 1 .. n
      OBVIOUS
    <3>2. f[0] = value /\ \A j \in 1 .. n : f[j] = Follows(f, j)
      BY <1>4
    <3> HIDE DEF Follows
    <3>3. QED
      BY <3>1, <3>2
  <2>2. f = [i \in 0 .. n |-> f[i]]
    BY <1>4
  <2>3. QED
    BY Zenon, <2>1, <2>2
<1>6. IsIt(CHOOSE g : IsIt(g))
  BY Zenon, <1>5
<1>7. Trail(value, path, missing) = CHOOSE g : IsIt(g)
  BY Zenon DEF Trail
<1> DEFINE t == CHOOSE g : IsIt(g)
<1>8. t = [i \in 0 .. n |-> IF i = 0 THEN value ELSE Follows(t, i)]
  BY Zenon, <1>6
<1> HIDE DEF t
<1>9. t[0] = value /\ \A i \in 1 .. n : t[i] = Follows(t, i)
  <2>1. 0 \in 0 .. n /\ \A i \in 1 .. n : i \in 0 .. n /\ i # 0
    OBVIOUS
  <2> HIDE DEF Follows
  <2>2. QED
    BY <1>8, <2>1
<1>10. QED
  BY <1>7, <1>9 DEF IsTrail, t

(* What a descent makes of the containers on the trail at: new[i] is what  *)
(* i tokens lead to afterwards.                                            *)
IsChanged(new, at, path, op, value) ==
  LET n == Len(path) IN
  /\ new[n - 1] = ApplyToParent(at[n - 1], op, path[n], value)
  /\ \A i \in 0 .. n - 2 : new[i] = Put(at[i], path[i + 1], new[i + 1])

LEMMA DescendFacts ==
  ASSUME NEW value, NEW path, Len(path) \in Nat \ {0}, NEW op, NEW document
  PROVE  \E new : /\ IsChanged(new, Trail(document, path, EmptyObject), path, op, value)
                  /\ Descend(document, path, op, value) = new[0]
<1> DEFINE n == Len(path)
           at == Trail(document, path, EmptyObject)
           first == ApplyToParent(at[n - 1], op, path[n], value)
           Follows(f, i) == Put(at[n - 1 - i], path[n - i], f[i - 1])
           Good(f, k) == /\ f = [i \in 0 .. k |-> f[i]]
                         /\ f[0] = first
                         /\ \A i \in 1 .. k : f[i] = Follows(f, i)
           P == {k \in Nat : \E f : Good(f, k)}
<1> HIDE DEF at, first
<1>1. 0 \in P
  <2>1. Good([i \in 0 .. 0 |-> first], 0)
    OBVIOUS
  <2>2. QED
    BY <2>1
<1>2. ASSUME NEW k \in Nat, NEW f, Good(f, k) PROVE \E g : Good(g, k + 1)
  <2> DEFINE e == Put(at[n - 1 - (k + 1)], path[n - (k + 1)], f[k])
             g == [i \in 0 .. k + 1 |-> IF i = k + 1 THEN e ELSE f[i]]
  <2> HIDE DEF e
  <2>1. g[0] = first
    BY <1>2
  <2>2. ASSUME NEW i \in 1 .. k + 1 PROVE g[i] = Follows(g, i)
    <3>1. /\ i \in 0 .. k + 1 /\ i - 1 \in 0 .. k + 1 /\ i - 1 # k + 1
          /\ g[i - 1] = f[i - 1]
      OBVIOUS
    <3>2. CASE i = k + 1
      <4>1. g[i] = e /\ i - 1 = k
        BY <3>1, <3>2
      <4> HIDE DEF g
      <4>2. QED
        BY <3>1, <3>2, <4>1 DEF e
    <3>3. CASE i # k + 1
      <4>1. g[i] = f[i] /\ i \in 1 .. k
        BY <3>1, <3>3
      <4> HIDE DEF g
      <4>2. QED
        BY <1>2, <3>1, <4>1
    <3>4. QED
      BY <3>2, <3>3
  <2>3. g = [i \in 0 .. k + 1 |-> g[i]]
    OBVIOUS
  <2> HIDE DEF g
  <2>4. Good(g, k + 1)
    BY <2>1, <2>2, <2>3
  <2> HIDE DEF Good
  <2>5. QED
    BY <2>4
<1>3. n - 1 \in P
  <2>1. P \in SUBSET Nat /\ \A k \in P : k + 1 \in P
    <3> HIDE DEF Good
    <3>1. QED
      BY <1>2
  <2>2. n - 1 \in Nat
    OBVIOUS
  <2> HIDE DEF P
  <2>3. QED
    BY <1>1, <2>1, <2>2, SetInduction
<1>4. PICK f : Good(f, n - 1)
  BY <1>3
<1> DEFINE IsIt(g) == g = [i \in 0 .. n - 1 |-> IF i = 0 THEN first ELSE Follows(g, i)]
<1>5. IsIt(f)
  <2> DEFINE h == [i \in 0 .. n - 1 |-> IF i = 0 THEN first ELSE Follows(f, i)]
  <2>1. ASSUME NEW i \in 0 .. n - 1 PROVE f[i] = h[i]
    <3>1. i = 0 \/ i \in 1 .. n - 1
      OBVIOUS
    <3>2. f[0] = first /\ \A j \in 1 .. n - 1 : f[j] = Follows(f, j)
      BY <1>4
    <3> HIDE DEF Follows
    <3>3. QED
      BY <3>1, <3>2
  <2>2. f = [i \in 0 .. n - 1 |-> f[i]]
    BY <1>4
  <2>3. QED
    BY Zenon, <2>1, <2>2
<1>6. IsIt(CHOOSE g : IsIt(g))
  BY Zenon, <1>5
<1> DEFINE t == CHOOSE g : IsIt(g)
           new == [i \in 0 .. n - 1 |-> t[n - 1 - i]]
<1>7. Descend(document, path, op, value) = t[n - 1]
  BY Zenon DEF Descend, at, first
<1>8. t = [i \in 0 .. n - 1 |-> IF i = 0 THEN first ELSE Follows(t, i)]
  BY Zenon, <1>6
<1> HIDE DEF t
<1>9. t[0] = first /\ \A i \in 1 .. n - 1 : t[i] = Follows(t, i)
  <2>1. 0 \in 0 .. n - 1 /\ \A i \in 1 .. n - 1 : i \in 0 .. n - 1 /\ i # 0
    OBVIOUS
  <2> HIDE DEF Follows
  <2>2. QED
    BY <1>8, <2>1
<1>10. new[0] = t[n - 1] /\ new[n - 1] = first
  BY <1>9
<1>11. ASSUME NEW i \in 0 .. n - 2 PROVE new[i] = Put(at[i], path[i + 1], new[i + 1])
  <2> DEFINE k == n - 1 - i
  <2>1. /\ k \in 1 .. n - 1 /\ n - 1 - k = i /\ n - k = i + 1
        /\ new[i] = t[k] /\ new[i + 1] = t[k - 1]
    OBVIOUS
  <2> HIDE DEF k, new
  <2>2. t[k] = Follows(t, k)
    BY <1>9, <2>1
  <2>3. QED
    BY <2>1, <2>2
<1> HIDE DEF new
<1>12. IsChanged(new, at, path, op, value)
  BY <1>10, <1>11 DEF IsChanged, first
<1>13. QED
  BY <1>7, <1>10, <1>12 DEF at

-----------------------------------------------------------------------------
(* Positions in arrays, and what the changes of a sequence make of it.     *)
LEMMA IndexFacts ==
  ASSUME NEW s, Len(s) \in Nat, NEW i \in Int \cup {NotInt}
  PROVE  /\ HasIndex(s, i) => i \in Int /\ Position(s, i) \in 1 .. Len(s)
         /\ i \in Int => InsertPosition(s, i) \in 1 .. Len(s) + 1
BY TokenAssumption DEF HasIndex, Position, InsertPosition

LEMMA TokenIndex ==
  ASSUME NEW t \in Tokens
  PROVE  IntOf(t) \in Int \cup {NotInt}
BY TokenAssumption

LEMMA TokenPosition ==
  ASSUME NEW S, NEW s \in Seq(S), NEW t \in Tokens
  PROVE  HasIndex(s, IntOf(t)) => Position(s, IntOf(t)) \in 1 .. Len(s)
<1> DEFINE i == IntOf(t)
<1>1. Len(s) \in Nat /\ i \in Int \cup {NotInt}
  BY TokenIndex
<1> HIDE DEF i
<1>2. HasIndex(s, i) => Position(s, i) \in 1 .. Len(s)
  BY <1>1, IndexFacts
<1>3. QED
  BY <1>2 DEF i

IsInserted(r, s, p, e) ==
  /\ Len(r) = Len(s) + 1
  /\ r[p] = e
  /\ \A i \in 1 .. p - 1 : r[i] = s[i]
  /\ \A i \in p .. Len(s) : r[i + 1] = s[i]

LEMMA InsertFacts ==
  ASSUME NEW S, NEW s \in Seq(S), NEW p \in 1 .. Len(s) + 1, NEW e
  PROVE  /\ InsertAt(s, p, e) \in Seq(S \cup {e})
         /\ IsInserted(InsertAt(s, p, e), s, p, e)
<1> DEFINE U == S \cup {e}
           a == SubSeq(s, 1, p - 1)
           b == SubSeq(s, p, Len(s))
           n == Len(s)
<1>1. s \in Seq(U) /\ n \in Nat /\ p \in Nat
  <2>1. \A x \in S : x \in U
    OBVIOUS
  <2>2. \A i \in 1 .. Len(s) : s[i] \in U
    OBVIOUS
  <2>3. s = [i \in 1 .. Len(s) |-> s[i]] /\ Len(s) \in Nat
    OBVIOUS
  <2> HIDE DEF U
  <2>4. QED
    BY <2>2, <2>3, SeqDef
<1>2. /\ a \in Seq(U) /\ Len(a) = p - 1
      /\ \A i \in 1 .. p - 1 : a[i] = s[i]
  BY <1>1
<1>3. /\ b \in Seq(U) /\ Len(b) = n - p + 1
      /\ \A i \in 1 .. n - p + 1 : b[i] = s[p + i - 1]
  BY <1>1
<1>4. <<e>> \in Seq(U) /\ Len(<<e>>) = 1 /\ <<e>>[1] = e
  OBVIOUS
<1>5. InsertAt(s, p, e) = a \o <<e>> \o b
  BY DEF InsertAt
<1> DEFINE c == a \o <<e>>
<1> HIDE DEF a, b, U
<1>6. /\ c \in Seq(U) /\ Len(c) = p /\ c[p] = e
      /\ \A i \in 1 .. p - 1 : c[i] = s[i]
  BY <1>1, <1>2, <1>4
<1> HIDE DEF c
<1> DEFINE d == c \o b
<1>7. /\ d \in Seq(U) /\ Len(d) = n + 1
      /\ \A i \in 1 .. p : d[i] = c[i]
      /\ \A i \in p + 1 .. n + 1 : d[i] = b[i - p]
  <2>1. /\ d \in Seq(U) /\ Len(d) = Len(c) + Len(b)
        /\ \A i \in 1 .. Len(c) + Len(b) : d[i] = IF i <= Len(c) THEN c[i] ELSE b[i - Len(c)]
    BY <1>3, <1>6, ConcatProperties
  <2> HIDE DEF d
  <2>2. Len(c) + Len(b) = n + 1 /\ Len(c) = p
    BY <1>1, <1>3, <1>6
  <2>3. \A i \in 1 .. p : i \in 1 .. n + 1 /\ i <= p
    BY <1>1
  <2>4. \A i \in p + 1 .. n + 1 : i \in 1 .. n + 1 /\ ~(i <= p)
    BY <1>1
  <2>5. QED
    BY <2>1, <2>2, <2>3, <2>4
<1>8. InsertAt(s, p, e) = d
  BY <1>5 DEF c
<1> HIDE DEF d
<1>9. \A i \in p .. n : d[i + 1] = s[i]
  <2> SUFFICES ASSUME NEW i \in p .. n PROVE d[i + 1] = s[i]
    OBVIOUS
  <2>1. /\ i + 1 \in p + 1 .. n + 1 /\ (i + 1) - p \in 1 .. n - p + 1
        /\ p + ((i + 1) - p) - 1 = i
    BY <1>1
  <2>2. d[i + 1] = b[(i + 1) - p]
    BY <1>7, <2>1
  <2>3. b[(i + 1) - p] = s[p + ((i + 1) - p) - 1]
    BY <1>3, <2>1
  <2>4. QED
    BY <2>1, <2>2, <2>3
<1>10. QED
  BY <1>1, <1>6, <1>7, <1>8, <1>9 DEF U, IsInserted

LEMMA RemoveFacts ==
  ASSUME NEW S, NEW s \in Seq(S), NEW p \in 1 .. Len(s)
  PROVE  /\ RemoveAt(s, p) \in Seq(S)
         /\ Len(RemoveAt(s, p)) = Len(s) - 1
         /\ \A i \in 1 .. p - 1 : RemoveAt(s, p)[i] = s[i]
         /\ \A i \in p .. Len(s) - 1 : RemoveAt(s, p)[i] = s[i + 1]
<1> DEFINE a == SubSeq(s, 1, p - 1)
           b == SubSeq(s, p + 1, Len(s))
           n == Len(s)
           d == a \o b
<1>1. n \in Nat /\ p \in Nat
  OBVIOUS
<1>2. /\ a \in Seq(S) /\ Len(a) = p - 1
      /\ \A i \in 1 .. p - 1 : a[i] = s[i]
  BY <1>1
<1>3. /\ b \in Seq(S) /\ Len(b) = n - p
      /\ \A i \in 1 .. n - p : b[i] = s[p + i]
  BY <1>1
<1>4. RemoveAt(s, p) = d
  BY DEF RemoveAt
<1> HIDE DEF a, b
<1>5. /\ d \in Seq(S) /\ Len(d) = n - 1
      /\ \A i \in 1 .. p - 1 : d[i] = a[i]
      /\ \A i \in p .. n - 1 : d[i] = b[i - (p - 1)]
  <2>1. /\ d \in Seq(S) /\ Len(d) = Len(a) + Len(b)
        /\ \A i \in 1 .. Len(a) + Len(b) : d[i] = IF i <= Len(a) THEN a[i] ELSE b[i - Len(a)]
    BY <1>2, <1>3, ConcatProperties
  <2> HIDE DEF d
  <2>2. Len(a) + Len(b) = n - 1 /\ Len(a) = p - 1
    BY <1>1, <1>2, <1>3
  <2>3. \A i \in 1 .. p - 1 : i \in 1 .. n - 1 /\ i <= p - 1
    BY <1>1
  <2>4. \A i \in p .. n - 1 : i \in 1 .. n - 1 /\ ~(i <= p - 1)
    BY <1>1
  <2>5. QED
    BY <2>1, <2>2, <2>3, <2>4
<1> HIDE DEF d
<1>6. \A i \in p .. n - 1 : d[i] = s[i + 1]
  <2> SUFFICES ASSUME NEW i \in p .. n - 1 PROVE d[i] = s[i + 1]
    OBVIOUS
  <2>1. i - (p - 1) \in 1 .. n - p /\ p + (i - (p - 1)) = i + 1
    BY <1>1
  <2>2. b[i - (p - 1)] = s[p + (i - (p - 1))]
    BY <1>3, <2>1
  <2>3. QED
    BY <1>5, <2>1, <2>2
<1>7. QED
  BY <1>1, <1>2, <1>4, <1>5, <1>6

(* Removing what was inserted gives the sequence back.                     *)
LEMMA RemoveInserted ==
  ASSUME NEW S, NEW s \in Seq(S), NEW p \in 1 .. Len(s) + 1, NEW e
  PROVE  RemoveAt(InsertAt(s, p, e), p) = s
<1> DEFINE r == InsertAt(s, p, e)
           q == RemoveAt(r, p)
           n == Len(s)
<1>1. /\ n \in Nat /\ p \in 1 .. n + 1
      /\ r \in Seq(S \cup {e}) /\ Len(r) = n + 1
      /\ \A i \in 1 .. p - 1 : r[i] = s[i]
      /\ \A i \in p .. n : r[i + 1] = s[i]
  <2>1. n \in Nat
    OBVIOUS
  <2>2. r \in Seq(S \cup {e}) /\ IsInserted(r, s, p, e)
    BY InsertFacts
  <2> HIDE DEF r
  <2>3. QED
    BY <2>1, <2>2 DEF IsInserted
<1> HIDE DEF r
<1>2. /\ q \in Seq(S \cup {e}) /\ Len(q) = n
      /\ \A i \in 1 .. p - 1 : q[i] = r[i]
      /\ \A i \in p .. n : q[i] = r[i + 1]
  <2>1. p \in 1 .. Len(r) /\ (n + 1) - 1 = n
    BY <1>1
  <2>2. /\ q \in Seq(S \cup {e}) /\ Len(q) = Len(r) - 1
        /\ \A i \in 1 .. p - 1 : q[i] = r[i]
        /\ \A i \in p .. Len(r) - 1 : q[i] = r[i + 1]
    BY Zenon, <1>1, <2>1, RemoveFacts
  <2>3. QED
    BY <1>1, <2>1, <2>2
<1> HIDE DEF q
<1>3. \A i \in 1 .. n : i \in 1 .. p - 1 \/ i \in p .. n
  BY <1>1
<1>4. \A i \in 1 .. n : q[i] = s[i]
  BY <1>1, <1>2, <1>3
<1>5. q = [i \in 1 .. n |-> q[i]] /\ s = [i \in 1 .. n |-> s[i]]
  BY <1>2
<1>6. q = s
  BY Zenon, <1>4, <1>5
<1>7. QED
  BY <1>6 DEF q, r

LEMMA ReplaceFacts ==
  ASSUME NEW S, NEW s \in Seq(S), NEW p \in 1 .. Len(s), NEW e
  PROVE  /\ ReplaceAt(s, p, e) \in Seq(S \cup {e})
         /\ Len(ReplaceAt(s, p, e)) = Len(s)
         /\ \A i \in 1 .. Len(s) : ReplaceAt(s, p, e)[i] = IF i = p THEN e ELSE s[i]
<1> DEFINE r == ReplaceAt(s, p, e)
           n == Len(s)
           U == S \cup {e}
<1>1. n \in Nat /\ DOMAIN r = 1 .. n /\ r = [i \in 1 .. n |-> r[i]]
  BY DEF ReplaceAt
<1>2. \A i \in 1 .. n : r[i] = IF i = p THEN e ELSE s[i]
  BY DEF ReplaceAt
<1>3. \A i \in 1 .. n : r[i] \in U
  BY <1>2
<1> HIDE DEF r, U
<1>4. r \in Seq(U) /\ Len(r) = n
  BY <1>1, <1>3, SeqDef, LenProperties
<1>5. QED
  BY <1>2, <1>4 DEF r, U

-----------------------------------------------------------------------------
(* JSON documents: values whose elements, down to the last, are values.    *)
IsDocument(v) == \E W : v \in W /\ \A w \in W : IsValueOver(w, W)

LEMMA WiderValue ==
  ASSUME NEW V, NEW W, V \subseteq W, NEW v, IsValueOver(v, V)
  PROVE  IsValueOver(v, W)
<1>1. Seq(V) \subseteq Seq(W)
  <2>1. \A s \in Seq(V) : s = [i \in 1 .. Len(s) |-> s[i]] /\ Len(s) \in Nat
    OBVIOUS
  <2>2. \A s \in Seq(V) : \A i \in 1 .. Len(s) : s[i] \in W
    OBVIOUS
  <2>3. QED
    BY <2>1, <2>2, SeqDef
<1>2. QED
  BY <1>1 DEF IsValueOver

LEMMA FailedIsNone == ~IsDocument(Failed)
BY DEF IsDocument, IsValueOver, Failed

LEMMA EmptyIsDocument ==
  /\ IsDocument(EmptyObject)
  /\ \A t, missing : Enter(EmptyObject, t, missing) = missing
<1>1. DOMAIN EmptyMap = {} /\ EmptyObject.kind = "object" /\ EmptyObject.m = EmptyMap
  BY DEF EmptyMap, EmptyObject, Object
<1>2. \A w \in {EmptyObject} : IsValueOver(w, {EmptyObject})
  BY <1>1 DEF IsValueOver
<1>3. IsDocument(EmptyObject)
  BY <1>2 DEF IsDocument
<1>4. \A t, missing : Enter(EmptyObject, t, missing) = missing
  BY <1>1 DEF Enter
<1>5. QED
  BY <1>3, <1>4

(* The elements of a document are documents, and a value made of documents *)
(* is one.                                                                 *)
LEMMA ElementsOfDocument ==
  ASSUME NEW v, IsDocument(v)
  PROVE  /\ v.kind = "scalar" \/ v.kind = "object" \/ v.kind = "array"
         /\ v.kind = "object" => \A t \in DOMAIN v.m : IsDocument(v.m[t])
         /\ v.kind = "array" => \E W : v.s \in Seq(W) /\ \A w \in W : IsDocument(w)
<1>1. PICK W : v \in W /\ \A w \in W : IsValueOver(w, W)
  BY DEF IsDocument
<1>2. IsValueOver(v, W)
  BY <1>1
<1>3. \A w \in W : IsDocument(w)
  BY <1>1 DEF IsDocument
<1>4. v.kind = "object" => \A t \in DOMAIN v.m : v.m[t] \in W
  BY <1>2 DEF IsValueOver
<1>5. v.kind = "array" => v.s \in Seq(W)
  BY <1>2 DEF IsValueOver
<1>6. QED
  BY <1>2, <1>3, <1>4, <1>5 DEF IsValueOver

LEMMA ObjectOfDocuments ==
  ASSUME NEW m, \A t \in DOMAIN m : IsDocument(m[t])
  PROVE  IsDocument(Object(m))
<1> DEFINE Over(t) == CHOOSE W : m[t] \in W /\ \A w \in W : IsValueOver(w, W)
           U == UNION {Over(t) : t \in DOMAIN m}
           V == U \cup {Object(m)}
<1>1. ASSUME NEW t \in DOMAIN m
      PROVE  m[t] \in Over(t) /\ \A w \in Over(t) : IsValueOver(w, Over(t))
  <2>1. \E W : m[t] \in W /\ \A w \in W : IsValueOver(w, W)
    BY DEF IsDocument
  <2>2. QED
    BY Zenon, <2>1
<1> HIDE DEF Over
<1>2. \A t \in DOMAIN m : Over(t) \subseteq V
  OBVIOUS
<1>3. \A t \in DOMAIN m : m[t] \in V
  BY <1>1, <1>2
<1>4. IsValueOver(Object(m), V)
  <2> HIDE DEF V
  <2>1. QED
    BY <1>3 DEF IsValueOver, Object
<1>5. ASSUME NEW w \in U PROVE IsValueOver(w, V)
  <2>1. PICK t \in DOMAIN m : w \in Over(t)
    OBVIOUS
  <2>2. IsValueOver(w, Over(t)) /\ Over(t) \subseteq V
    BY <1>1, <1>2, <2>1
  <2> HIDE DEF V, U
  <2>3. QED
    BY <2>2, WiderValue
<1>6. QED
  BY <1>4, <1>5 DEF IsDocument

LEMMA ArrayOfDocuments ==
  ASSUME NEW S, NEW s \in Seq(S), \A x \in S : IsDocument(x)
  PROVE  IsDocument(Array(s))
<1> DEFINE Over(x) == CHOOSE W : x \in W /\ \A w \in W : IsValueOver(w, W)
           U == UNION {Over(x) : x \in S}
           V == U \cup {Array(s)}
<1>1. ASSUME NEW x \in S
      PROVE  x \in Over(x) /\ \A w \in Over(x) : IsValueOver(w, Over(x))
  <2>1. \E W : x \in W /\ \A w \in W : IsValueOver(w, W)
    BY DEF IsDocument
  <2>2. QED
    BY Zenon, <2>1
<1> HIDE DEF Over
<1>2. \A x \in S : Over(x) \subseteq V
  OBVIOUS
<1>3. S \subseteq V
  BY <1>1, <1>2
<1>4. IsValueOver(Array(s), V)
  <2> HIDE DEF V
  <2>1. IsValueOver(Array(s), S)
    BY DEF IsValueOver, Array
  <2>2. QED
    BY <1>3, <2>1, WiderValue
<1>5. ASSUME NEW w \in U PROVE IsValueOver(w, V)
  <2>1. PICK x \in S : w \in Over(x)
    OBVIOUS
  <2>2. IsValueOver(w, Over(x)) /\ Over(x) \subseteq V
    BY <1>1, <1>2, <2>1
  <2> HIDE DEF V, U
  <2>3. QED
    BY <2>2, WiderValue
<1>6. QED
  BY <1>4, <1>5 DEF IsDocument

(* What a document holds, and what it becomes, is a document, or the       *)
(* operation has failed.                                                   *)
IsOutcome(v) == v = Failed \/ IsDocument(v)

LEMMA EnterOutcome ==
  ASSUME NEW v, IsOutcome(v), NEW t \in Tokens, NEW missing, IsOutcome(missing)
  PROVE  IsOutcome(Enter(v, t, missing))
<1>1. CASE v = Failed
  BY <1>1 DEF Enter, Failed, IsOutcome
<1>2. CASE IsDocument(v) /\ v.kind = "object"
  <2>1. \A u \in DOMAIN v.m : IsDocument(v.m[u])
    BY <1>2, ElementsOfDocument
  <2>2. Enter(v, t, missing) = IF t \in DOMAIN v.m THEN v.m[t] ELSE missing
    BY <1>2 DEF Enter
  <2>3. QED
    BY <2>1, <2>2 DEF IsOutcome
<1>3. CASE IsDocument(v) /\ v.kind = "array" /\ HasIndex(v.s, IntOf(t))
  <2>1. PICK W : v.s \in Seq(W) /\ \A w \in W : IsDocument(w)
    BY <1>3, ElementsOfDocument
  <2>2. Position(v.s, IntOf(t)) \in 1 .. Len(v.s)
    BY <1>3, <2>1, TokenPosition
  <2>3. Enter(v, t, missing) = v.s[Position(v.s, IntOf(t))]
    BY <1>3 DEF Enter
  <2>4. QED
    BY <2>1, <2>2, <2>3 DEF IsOutcome
<1>4. CASE IsDocument(v) /\ v.kind # "object" /\ ~(v.kind = "array" /\ HasIndex(v.s, IntOf(t)))
  BY <1>4 DEF Enter, IsOutcome
<1>5. QED
  BY <1>1, <1>2, <1>3, <1>4 DEF IsOutcome

LEMMA PutOutcome ==
  ASSUME NEW v, IsOutcome(v), NEW t \in Tokens, NEW child, IsOutcome(child)
  PROVE  IsOutcome(Put(v, t, child))
<1>1. CASE child = Failed \/ v = Failed
  BY <1>1 DEF Put, Failed, IsOutcome
<1>2. CASE IsDocument(v) /\ v.kind = "object" /\ child # Failed
  <2>1. \A u \in DOMAIN v.m : IsDocument(v.m[u])
    BY <1>2, ElementsOfDocument
  <2>2. IsDocument(child)
    BY <1>2 DEF IsOutcome
  <2>3. \A u \in DOMAIN With(v.m, t, child) : IsDocument(With(v.m, t, child)[u])
    BY <2>1, <2>2 DEF With
  <2>4. Put(v, t, child) = Object(With(v.m, t, child))
    BY <1>2 DEF Put
  <2>5. QED
    BY <2>3, <2>4, ObjectOfDocuments DEF IsOutcome
<1>3. CASE IsDocument(v) /\ v.kind = "array" /\ HasIndex(v.s, IntOf(t)) /\ child # Failed
  <2>1. PICK W : v.s \in Seq(W) /\ \A w \in W : IsDocument(w)
    BY <1>3, ElementsOfDocument
  <2>2. Position(v.s, IntOf(t)) \in 1 .. Len(v.s)
    BY <1>3, <2>1, TokenPosition
  <2>3. Put(v, t, child) = Array(ReplaceAt(v.s, Position(v.s, IntOf(t)), child))
    BY <1>3 DEF Put
  <2>4. IsDocument(child)
    BY <1>3 DEF IsOutcome
  <2>5. ReplaceAt(v.s, Position(v.s, IntOf(t)), child) \in Seq(W \cup {child})
    BY <2>1, <2>2, ReplaceFacts
  <2>6. QED
    BY <2>1, <2>3, <2>4, <2>5, ArrayOfDocuments DEF IsOutcome
<1>4. CASE IsDocument(v) /\ v.kind # "object" /\ ~(v.kind = "array" /\ HasIndex(v.s, IntOf(t)))
           /\ child # Failed
  BY <1>4 DEF Put, IsOutcome
<1>5. QED
  BY <1>1, <1>2, <1>3, <1>4 DEF IsOutcome

(* The four ways an array changes, or does not.                            *)
ArrayIndex(s, op, t) == IF t = "-" /\ op # "remove" THEN Len(s) ELSE IntOf(t)

LEMMA ArrayChange ==
  ASSUME NEW S, NEW parent, parent.s \in Seq(S), NEW t \in Tokens, NEW op, NEW value
  PROVE  LET s == parent.s
             i == ArrayIndex(s, op, t)
             made == ApplyToArray(parent, op, t, value)
         IN
         \/ made = Failed
         \/ /\ op = "add"
            /\ InsertPosition(s, i) \in 1 .. Len(s) + 1
            /\ made = Array(InsertAt(s, InsertPosition(s, i), value))
         \/ /\ op = "remove"
            /\ Position(s, i) \in 1 .. Len(s)
            /\ made = Array(RemoveAt(s, Position(s, i)))
         \/ /\ op = "replace"
            /\ Position(s, i) \in 1 .. Len(s)
            /\ made = Array(ReplaceAt(s, Position(s, i), value))
<1> DEFINE s == parent.s
           i == ArrayIndex(s, op, t)
           made == ApplyToArray(parent, op, t, value)
<1>1. Len(s) \in Nat /\ i \in Int \cup {NotInt}
  BY TokenIndex DEF ArrayIndex
<1>2. made = CASE op = "add" /\ i # NotInt -> Array(InsertAt(s, InsertPosition(s, i), value))
               [] op = "remove" /\ HasIndex(s, i) -> Array(RemoveAt(s, Position(s, i)))
               [] op = "replace" /\ HasIndex(s, i) ->
                    Array(ReplaceAt(s, Position(s, i), value))
               [] OTHER -> Failed
  BY DEF ApplyToArray, ArrayIndex
<1> HIDE DEF made, i, s
<1>3. HasIndex(s, i) => Position(s, i) \in 1 .. Len(s)
  BY <1>1, IndexFacts
<1>4. i # NotInt => InsertPosition(s, i) \in 1 .. Len(s) + 1
  BY <1>1, IndexFacts
<1>5. CASE op = "add" /\ i # NotInt
  BY <1>2, <1>4, <1>5 DEF made, i, s
<1>6. CASE op = "remove" /\ HasIndex(s, i)
  BY <1>2, <1>3, <1>6 DEF made, i, s
<1>7. CASE op = "replace" /\ HasIndex(s, i)
  BY <1>2, <1>3, <1>7 DEF made, i, s
<1>8. QED
  BY <1>2, <1>5, <1>6, <1>7 DEF made, i, s

LEMMA ParentOutcome ==
  ASSUME NEW parent, IsOutcome(parent), NEW t \in Tokens, NEW op, NEW value, IsDocument(value)
  PROVE  IsOutcome(ApplyToParent(parent, op, t, value))
<1>1. CASE parent = Failed
  BY <1>1 DEF ApplyToParent, Failed, IsOutcome
<1>2. CASE IsDocument(parent) /\ parent.kind = "object"
  <2>1. \A u \in DOMAIN parent.m : IsDocument(parent.m[u])
    BY <1>2, ElementsOfDocument
  <2>2. /\ \A u \in DOMAIN With(parent.m, t, value) : IsDocument(With(parent.m, t, value)[u])
        /\ \A u \in DOMAIN Without(parent.m, t) : IsDocument(Without(parent.m, t)[u])
    BY <2>1 DEF With, Without
  <2>3. ApplyToParent(parent, op, t, value)
          \in {Object(With(parent.m, t, value)), Object(Without(parent.m, t))}
    BY <1>2 DEF ApplyToParent, ApplyToObject
  <2>4. QED
    BY <2>2, <2>3, ObjectOfDocuments DEF IsOutcome
<1>3. CASE IsDocument(parent) /\ parent.kind = "array"
  <2> DEFINE s == parent.s
  <2>1. PICK W : s \in Seq(W) /\ \A w \in W : IsDocument(w)
    BY <1>3, ElementsOfDocument
  <2>2. ASSUME NEW p \in 1 .. Len(s) + 1 PROVE IsDocument(Array(InsertAt(s, p, value)))
    <3>1. InsertAt(s, p, value) \in Seq(W \cup {value})
      BY <2>1, InsertFacts
    <3>2. QED
      BY <2>1, <3>1, ArrayOfDocuments
  <2>3. ASSUME NEW p \in 1 .. Len(s) PROVE IsDocument(Array(RemoveAt(s, p)))
    BY <2>1, RemoveFacts, ArrayOfDocuments
  <2>4. ASSUME NEW p \in 1 .. Len(s) PROVE IsDocument(Array(ReplaceAt(s, p, value)))
    <3>1. ReplaceAt(s, p, value) \in Seq(W \cup {value})
      BY <2>1, ReplaceFacts
    <3>2. QED
      BY <2>1, <3>1, ArrayOfDocuments
  <2>5. ApplyToParent(parent, op, t, value) = ApplyToArray(parent, op, t, value)
    BY <1>3 DEF ApplyToParent
  <2>6. QED
    BY <2>1, <2>2, <2>3, <2>4, <2>5, ArrayChange DEF IsOutcome
<1>4. CASE IsDocument(parent) /\ parent.kind # "object" /\ parent.kind # "array"
  BY <1>4 DEF ApplyToParent, IsOutcome
<1>5. QED
  BY <1>1, <1>2, <1>3, <1>4 DEF IsOutcome

LEMMA TrailOutcome ==
  ASSUME NEW v, IsOutcome(v), NEW path \in Seq(Tokens), NEW missing, IsOutcome(missing),
         NEW a, IsTrail(a, v, path, missing)
  PROVE  \A i \in 0 .. Len(path) : IsOutcome(a[i])
<1> DEFINE n == Len(path)
           P == {i \in Nat : i <= n => IsOutcome(a[i])}
<1>1. n \in Nat /\ \A i \in 1 .. n : path[i] \in Tokens
  OBVIOUS
<1>2. 0 \in P
  BY DEF IsTrail
<1>3. ASSUME NEW i \in Nat, i + 1 <= n, IsOutcome(a[i]) PROVE IsOutcome(a[i + 1])
  <2>1. i + 1 \in 1 .. n /\ (i + 1) - 1 = i
    BY <1>1, <1>3
  <2>2. a[i + 1] = Enter(a[i], path[i + 1], missing) /\ path[i + 1] \in Tokens
    BY <1>1, <2>1 DEF IsTrail
  <2>3. QED
    BY Zenon, <1>3, <2>2, EnterOutcome
<1>4. \A i \in P : i + 1 \in P
  BY <1>1, <1>3
<1>5. P \in SUBSET Nat
  OBVIOUS
<1>6. Nat \subseteq P
  <2> HIDE DEF P
  <2>1. QED
    BY <1>2, <1>4, <1>5, SetInduction
<1>7. QED
  BY <1>1, <1>6

LEMMA ChangedOutcome ==
  ASSUME NEW path \in Seq(Tokens), Len(path) # 0, NEW op, NEW value, IsDocument(value),
         NEW at, \A i \in 0 .. Len(path) : IsOutcome(at[i]),
         NEW new, IsChanged(new, at, path, op, value)
  PROVE  \A i \in 0 .. Len(path) - 1 : IsOutcome(new[i])
<1> DEFINE n == Len(path)
           P == {k \in Nat : k <= n - 1 => IsOutcome(new[n - 1 - k])}
<1>1. n \in Nat /\ n # 0 /\ \A i \in 1 .. n : path[i] \in Tokens
  OBVIOUS
<1>2. IsOutcome(new[n - 1])
  <2>1. n \in 1 .. n /\ n - 1 \in 0 .. n
    BY <1>1
  <2>2. path[n] \in Tokens /\ IsOutcome(at[n - 1])
    BY <1>1, <2>1
  <2>3. new[n - 1] = ApplyToParent(at[n - 1], op, path[n], value)
    BY DEF IsChanged
  <2>4. QED
    BY Zenon, <2>2, <2>3, ParentOutcome
<1>3. ASSUME NEW i \in 0 .. n - 2, IsOutcome(new[i + 1]) PROVE IsOutcome(new[i])
  <2>1. i + 1 \in 1 .. n /\ i \in 0 .. n
    BY <1>1
  <2>2. path[i + 1] \in Tokens /\ IsOutcome(at[i])
    BY <1>1, <2>1
  <2>3. new[i] = Put(at[i], path[i + 1], new[i + 1])
    BY DEF IsChanged
  <2>4. QED
    BY Zenon, <1>3, <2>2, <2>3, PutOutcome
<1>4. 0 \in P
  <2>1. n - 1 - 0 = n - 1
    BY <1>1
  <2>2. QED
    BY <1>2, <2>1
<1>5. ASSUME NEW k \in Nat, k + 1 <= n - 1, IsOutcome(new[n - 1 - k])
      PROVE  IsOutcome(new[n - 1 - (k + 1)])
  <2> DEFINE i == n - 1 - (k + 1)
  <2>1. i \in 0 .. n - 2 /\ i + 1 = n - 1 - k
    BY <1>1, <1>5
  <2>2. IsOutcome(new[i + 1])
    BY <1>5, <2>1
  <2> HIDE DEF i
  <2>3. IsOutcome(new[i])
    BY <1>3, <2>1, <2>2
  <2>4. QED
    BY <2>3 DEF i
<1>6. \A k \in P : k + 1 \in P
  BY <1>1, <1>5
<1>7. P \in SUBSET Nat
  OBVIOUS
<1>8. Nat \subseteq P
  <2> HIDE DEF P
  <2>1. QED
    BY <1>4, <1>6, <1>7, SetInduction
<1>9. ASSUME NEW i \in 0 .. n - 1 PROVE IsOutcome(new[i])
  <2>1. n - 1 - i \in Nat /\ n - 1 - i <= n - 1 /\ n - 1 - (n - 1 - i) = i
    BY <1>1
  <2>2. n - 1 - i \in P
    BY Zenon, <1>8, <2>1
  <2>3. QED
    BY <2>1, <2>2
<1>10. QED
  BY <1>9

LEMMA OperationOutcome ==
  ASSUME NEW d, IsDocument(d), NEW operation,
         operation.path \in Seq(Tokens), IsDocument(operation.value)
  PROVE  IsOutcome(ApplyOperation(d, operation))
<1> DEFINE path == operation.path
           at == Trail(d, path, EmptyObject)
<1>1. CASE operation.op \notin {"add", "replace", "remove"} \/ path = <<>>
  BY <1>1 DEF ApplyOperation, IsOutcome
<1>2. CASE operation.op \in {"add", "replace", "remove"} /\ path # <<>>
  <2>1. Len(path) \in Nat /\ Len(path) # 0
    BY <1>2
  <2>2. ApplyOperation(d, operation) = Descend(d, path, operation.op, operation.value)
    BY <1>2 DEF ApplyOperation
  <2>3. PICK new : /\ IsChanged(new, at, path, operation.op, operation.value)
                   /\ Descend(d, path, operation.op, operation.value) = new[0]
    BY <2>1, DescendFacts
  <2>4. \A i \in 0 .. Len(path) : IsOutcome(at[i])
    <3>1. IsTrail(at, d, path, EmptyObject)
      BY <2>1, TrailFacts
    <3>2. IsOutcome(d) /\ IsOutcome(EmptyObject)
      BY EmptyIsDocument DEF IsOutcome
    <3> HIDE DEF at
    <3>3. QED
      BY <3>1, <3>2, TrailOutcome
  <2> HIDE DEF at
  <2>5. \A i \in 0 .. Len(path) - 1 : IsOutcome(new[i])
    BY Zenon, <2>1, <2>3, <2>4, ChangedOutcome
  <2>6. QED
    BY <2>1, <2>2, <2>3, <2>5
<1>3. QED
  BY <1>1, <1>2

LEMMA ValuesAreDocuments ==
  /\ \A value \in Values : IsDocument(value)
  /\ \A operation \in Operations :
       operation.path \in Seq(Tokens) /\ IsDocument(operation.value)
BY OperationAssumption DEF IsDocument

(* What the documents stay on every walk: JSON.                            *)
DocumentInv == IsDocument(doc)

LEMMA DocumentInductive == WalkSpec => []DocumentInv
<1>1. WalkInit => DocumentInv
  BY EmptyIsDocument DEF WalkInit, DocumentInv
<1>2. DocumentInv /\ [WalkNext]_walkVars => DocumentInv'
  <2> SUFFICES ASSUME DocumentInv, [WalkNext]_walkVars PROVE DocumentInv'
    OBVIOUS
  <2>1. CASE \E operation \in Operations : Operate(operation)
    <3>1. PICK operation \in Operations : Operate(operation)
      BY <2>1
    <3>2. ApplyOperation(doc, operation) # Failed /\ doc' = ApplyOperation(doc, operation)
      BY <3>1 DEF Operate
    <3>3. IsOutcome(ApplyOperation(doc, operation))
      BY ValuesAreDocuments, OperationOutcome DEF DocumentInv
    <3>4. QED
      BY <3>2, <3>3 DEF IsOutcome, DocumentInv
  <2>2. CASE \E char \in Characters : Spell(char)
    BY <2>2 DEF Spell, DocumentInv
  <2>3. CASE UNCHANGED walkVars
    BY <2>3 DEF walkVars, DocumentInv
  <2>4. QED
    BY <2>1, <2>2, <2>3 DEF WalkNext
<1>3. QED
  BY <1>1, <1>2, PTL DEF WalkSpec

-----------------------------------------------------------------------------
(* Another path beside the one an operation takes.                         *)
LEMMA NoneFailed ==
  ASSUME NEW path, Len(path) \in Nat \ {0}, NEW op, NEW value, NEW at,
         NEW new, IsChanged(new, at, path, op, value), new[0] # Failed
  PROVE  \A i \in 0 .. Len(path) - 1 : new[i] # Failed
<1> DEFINE n == Len(path)
           P == {i \in Nat : i <= n - 1 => new[i] # Failed}
<1>1. 0 \in P /\ P \in SUBSET Nat
  OBVIOUS
<1>2. ASSUME NEW i \in Nat, i + 1 <= n - 1, new[i] # Failed PROVE new[i + 1] # Failed
  <2>1. i \in 0 .. n - 2
    BY <1>2
  <2>2. new[i] = Put(at[i], path[i + 1], new[i + 1])
    BY <2>1 DEF IsChanged
  <2>3. QED
    BY Zenon, <1>2, <2>2 DEF Put
<1>3. \A i \in P : i + 1 \in P
  BY <1>2
<1>4. Nat \subseteq P
  <2> HIDE DEF P
  <2>1. QED
    BY <1>1, <1>3, SetInduction
<1>5. QED
  BY <1>4

LEMMA FailedLeadsNowhere ==
  \A t, missing : Enter(Failed, t, missing) = Failed
BY DEF Enter, Failed

(* Tokens that name the same place lead to the same value.                 *)
LEMMA EnterSame ==
  ASSUME NEW v, NEW t, NEW u, Place(v, u) = Place(v, t), v.kind = "array" => Len(v.s) \in Nat,
         IntOf(t) \in Int \cup {NotInt}, IntOf(u) \in Int \cup {NotInt}
  PROVE  \/ Enter(v, u, Failed) = Enter(v, t, EmptyObject)
         \/ Enter(v, u, Failed) = Failed /\ Enter(v, t, EmptyObject) = EmptyObject
<1>1. CASE v.kind = "object"
  BY <1>1 DEF Place, Enter
<1>2. CASE v.kind = "array"
  <2>1. ASSUME NEW i \in Int \cup {NotInt}, HasIndex(v.s, i) PROVE Position(v.s, i) # 0
    BY <1>2, <2>1, IndexFacts
  <2>2. HasIndex(v.s, IntOf(u)) <=> HasIndex(v.s, IntOf(t))
    BY <1>2, <2>1 DEF Place
  <2>3. QED
    BY <1>2, <2>2 DEF Place, Enter
<1>3. CASE v.kind # "object" /\ v.kind # "array"
  BY <1>3 DEF Enter
<1>4. QED
  BY <1>1, <1>2, <1>3

(* What a changed container leads to: the child at the place that changed, *)
(* and what it did before at every other.                                  *)
LEMMA EnterPut ==
  ASSUME NEW v, IsOutcome(v), NEW t \in Tokens, NEW u \in Tokens, NEW c, c # Failed,
         Put(v, t, c) # Failed
  PROVE  /\ Place(v, u) = Place(v, t) => Enter(Put(v, t, c), u, Failed) = c
         /\ Place(v, u) # Place(v, t) => Enter(Put(v, t, c), u, Failed) = Enter(v, u, Failed)
<1>1. CASE v.kind = "object"
  <2>1. Put(v, t, c) = Object(With(v.m, t, c))
    BY <1>1 DEF Put
  <2>2. Place(v, u) = u /\ Place(v, t) = t
    BY <1>1 DEF Place
  <2>3. Enter(Object(With(v.m, t, c)), u, Failed)
          = IF u \in DOMAIN v.m \cup {t} THEN IF u = t THEN c ELSE v.m[u] ELSE Failed
    BY DEF Enter, Object, With
  <2>4. Enter(v, u, Failed) = IF u \in DOMAIN v.m THEN v.m[u] ELSE Failed
    BY <1>1 DEF Enter
  <2>5. QED
    BY <2>1, <2>2, <2>3, <2>4
<1>2. CASE v.kind = "array" /\ HasIndex(v.s, IntOf(t))
  <2> DEFINE s == v.s
             p == Position(s, IntOf(t))
             r == ReplaceAt(s, p, c)
             q == Position(s, IntOf(u))
             has == HasIndex(s, IntOf(u))
  <2>1. PICK W : s \in Seq(W)
    <3>1. IsDocument(v)
      BY <1>2 DEF IsOutcome, Failed
    <3>2. QED
      BY <1>2, <3>1, ElementsOfDocument
  <2>2. p \in 1 .. Len(s) /\ (has => q \in 1 .. Len(s))
    BY <1>2, <2>1, TokenPosition
  <2>3. Put(v, t, c) = Array(r)
    BY <1>2 DEF Put
  <2>4. Len(r) = Len(s) /\ \A i \in 1 .. Len(s) : r[i] = IF i = p THEN c ELSE s[i]
    <3>1. p \in 1 .. Len(s)
      BY <2>2
    <3> HIDE DEF p, s
    <3>2. r = ReplaceAt(s, p, c)
      OBVIOUS
    <3> HIDE DEF r
    <3>3. QED
      BY <2>1, <3>1, <3>2 DEF ReplaceAt
  <2>5. Place(v, t) = p /\ Place(v, u) = IF has THEN q ELSE 0
    BY <1>2 DEF Place
  <2>6. Enter(v, u, Failed) = IF has THEN s[q] ELSE Failed
    BY <1>2 DEF Enter
  <2>7. Enter(Array(r), u, Failed) = IF has THEN r[q] ELSE Failed
    <3>1. HasIndex(r, IntOf(u)) <=> has
      BY <2>4 DEF HasIndex
    <3>2. Position(r, IntOf(u)) = q
      BY <2>4 DEF Position
    <3> HIDE DEF r, q, has
    <3>3. QED
      BY <3>1, <3>2 DEF Enter, Array
  <2> HIDE DEF r, q, has, p, s
  <2>8. QED
    BY <2>1, <2>2, <2>3, <2>4, <2>5, <2>6, <2>7
<1>3. CASE ~(v.kind = "object") /\ ~(v.kind = "array" /\ HasIndex(v.s, IntOf(t)))
  BY <1>3 DEF Put
<1>4. QED
  BY <1>1, <1>2, <1>3

LEMMA EnterParent ==
  ASSUME NEW v, v.kind = "object", NEW t, NEW u, NEW op, NEW value
  PROVE  Enter(ApplyToParent(v, op, t, value), u, Failed)
           = IF u = t THEN IF op = "remove" THEN Failed ELSE value
             ELSE Enter(v, u, Failed)
<1>1. ApplyToParent(v, op, t, value)
        = IF op = "remove" THEN Object(Without(v.m, t)) ELSE Object(With(v.m, t, value))
  BY DEF ApplyToParent, ApplyToObject
<1>2. Enter(v, u, Failed) = IF u \in DOMAIN v.m THEN v.m[u] ELSE Failed
  BY DEF Enter
<1>3. Enter(Object(With(v.m, t, value)), u, Failed)
        = IF u \in DOMAIN v.m \cup {t} THEN IF u = t THEN value ELSE v.m[u] ELSE Failed
  BY DEF Enter, Object, With
<1>4. Enter(Object(Without(v.m, t)), u, Failed)
        = IF u \in DOMAIN v.m \ {t} THEN v.m[u] ELSE Failed
  BY DEF Enter, Object, Without
<1>5. QED
  BY <1>1, <1>2, <1>3, <1>4

(* An operation that succeeded on a document, and its trail.               *)
IsOperated(d, path, op, value, at, new) ==
  /\ path \in Seq(Tokens) /\ Len(path) # 0
  /\ IsDocument(value)
  /\ IsTrail(at, d, path, EmptyObject)
  /\ \A i \in 0 .. Len(path) : IsOutcome(at[i])
  /\ IsChanged(new, at, path, op, value)
  /\ \A i \in 0 .. Len(path) - 1 : new[i] # Failed

(* Where another path leads as long as it agrees with the path taken.      *)
Follows(a, b, at, new, i) ==
  /\ b[i] = new[i]
  /\ a[i] = at[i] \/ (a[i] = Failed /\ at[i] = EmptyObject)

LEMMA FollowsTrail ==
  ASSUME NEW d, NEW path, NEW op, NEW value, NEW at, NEW new,
         IsOperated(d, path, op, value, at, new),
         NEW other \in Seq(Tokens), NEW m \in Nat, m <= Len(path) - 1, m <= Len(other),
         \A i \in 1 .. m : Agree(other, path, at, i),
         NEW a, IsTrail(a, d, other, Failed), NEW b, IsTrail(b, new[0], other, Failed)
  PROVE  Follows(a, b, at, new, m)
<1> DEFINE n == Len(path)
           P == {i \in Nat : i <= m => Follows(a, b, at, new, i)}
<1>1. /\ n \in Nat /\ Len(other) \in Nat
      /\ \A i \in 1 .. n : path[i] \in Tokens
      /\ \A i \in 1 .. Len(other) : other[i] \in Tokens
  BY DEF IsOperated
<1>2. 0 \in P
  BY DEF IsOperated, IsTrail, Follows
<1>3. ASSUME NEW i \in Nat, i + 1 <= m, Follows(a, b, at, new, i)
      PROVE  Follows(a, b, at, new, i + 1)
  <2> DEFINE t == path[i + 1]
             u == other[i + 1]
  <2>1. /\ i + 1 \in 1 .. n /\ i + 1 \in 1 .. Len(other) /\ i + 1 \in 1 .. m
        /\ i \in 0 .. n - 2 /\ i \in 0 .. n /\ i \in 0 .. n - 1 /\ i + 1 \in 0 .. n - 1
        /\ (i + 1) - 1 = i
    BY <1>1, <1>3
  <2>2. t \in Tokens /\ u \in Tokens
    BY <1>1, <2>1
  <2>3. Place(at[i], u) = Place(at[i], t)
    BY <2>1 DEF Agree
  <2>4. /\ a[i + 1] = Enter(a[i], u, Failed)
        /\ b[i + 1] = Enter(b[i], u, Failed)
        /\ at[i + 1] = Enter(at[i], t, EmptyObject)
    BY <2>1 DEF IsTrail, IsOperated
  <2>5. /\ new[i] = Put(at[i], t, new[i + 1])
        /\ new[i] # Failed /\ new[i + 1] # Failed /\ IsOutcome(at[i])
    BY <2>1 DEF IsChanged, IsOperated
  <2> HIDE DEF t, u
  <2>6. b[i + 1] = new[i + 1]
    <3>1. Enter(new[i], u, Failed) = new[i + 1]
      BY <2>2, <2>3, <2>5, EnterPut
    <3>2. QED
      BY <1>3, <2>4, <3>1 DEF Follows
  <2>7. CASE a[i] = at[i]
    <3>1. at[i].kind = "array" => Len(at[i].s) \in Nat
      <4>1. CASE at[i] = Failed
        BY <4>1 DEF Failed
      <4>2. CASE IsDocument(at[i])
        BY <4>2, ElementsOfDocument
      <4>3. QED
        BY <2>5, <4>1, <4>2 DEF IsOutcome
    <3>2. \/ Enter(at[i], u, Failed) = Enter(at[i], t, EmptyObject)
          \/ Enter(at[i], u, Failed) = Failed /\ Enter(at[i], t, EmptyObject) = EmptyObject
      BY <2>2, <2>3, <3>1, EnterSame, TokenIndex
    <3>3. QED
      BY <2>4, <2>6, <2>7, <3>2 DEF Follows
  <2>8. CASE a[i] = Failed /\ at[i] = EmptyObject
    BY <2>4, <2>6, <2>8, FailedLeadsNowhere, EmptyIsDocument DEF Follows
  <2>9. QED
    BY <1>3, <2>7, <2>8 DEF Follows
<1>4. \A i \in P : i + 1 \in P
  BY <1>3
<1>5. P \in SUBSET Nat
  OBVIOUS
<1>6. Nat \subseteq P
  <2> HIDE DEF P
  <2>1. QED
    BY <1>2, <1>4, <1>5, SetInduction
<1>7. QED
  BY <1>6

(* A path that parts from the one taken leads to what it led to before.    *)
LEMMA PartsKeeps ==
  ASSUME NEW d, NEW path, NEW op, NEW value, NEW at, NEW new,
         IsOperated(d, path, op, value, at, new),
         NEW other \in Seq(Tokens), Parts(other, path, at),
         NEW a, IsTrail(a, d, other, Failed), NEW b, IsTrail(b, new[0], other, Failed)
  PROVE  b[Len(other)] = a[Len(other)]
<1> DEFINE n == Len(path)
           l == Len(other)
<1>1. /\ n \in Nat /\ n # 0 /\ DOMAIN path = 1 .. n /\ \A i \in 1 .. n : path[i] \in Tokens
      /\ l \in Nat /\ DOMAIN other = 1 .. l /\ \A i \in 1 .. l : other[i] \in Tokens
  BY DEF IsOperated
<1>2. PICK k \in 1 .. l :
        /\ k \in 1 .. n
        /\ \A i \in 1 .. k - 1 : Agree(other, path, at, i)
        /\ ~Agree(other, path, at, k)
        /\ k = n => at[k - 1].kind = "object"
  BY <1>1 DEF Parts
<1> DEFINE m == k - 1
           t == path[k]
           u == other[k]
<1> DEFINE InRange == l \in Nat /\ n \in Nat /\ k \in 1 .. l /\ k \in 1 .. n
<1>3. InRange
  BY Zenon, <1>1, <1>2
<1>4. m \in Nat /\ m \in 0 .. n - 1 /\ m <= l /\ m \in 0 .. n /\ m + 1 = k
  <2> HIDE DEF l, n
  <2>1. QED
    BY <1>3
<1>5. Follows(a, b, at, new, m)
  <2>1. m <= n - 1 /\ \A i \in 1 .. m : Agree(other, path, at, i)
    BY <1>2, <1>4
  <2> HIDE DEF m
  <2>2. QED
    BY <1>4, <2>1, FollowsTrail
<1>6. t \in Tokens /\ u \in Tokens /\ Place(at[m], u) # Place(at[m], t)
  BY <1>1, <1>2 DEF Agree
<1>7. a[k] = Enter(a[m], u, Failed) /\ b[k] = Enter(b[m], u, Failed)
  BY <1>2 DEF IsTrail
<1>8. IsOutcome(at[m]) /\ new[m] # Failed
  BY <1>4 DEF IsOperated
<1>9. Enter(new[m], u, Failed) = Enter(at[m], u, Failed)
  <2>1. CASE k = n
    <3>1. new[m] = ApplyToParent(at[m], op, t, value) /\ at[m].kind = "object"
      BY <1>2, <2>1 DEF IsOperated, IsChanged
    <3>2. u # t
      BY <1>6
    <3> HIDE DEF m, t, u
    <3>3. QED
      BY <3>1, <3>2, EnterParent
  <2>2. CASE k # n
    <3>1. m \in 0 .. n - 2 /\ m + 1 \in 0 .. n - 1
      BY <1>3, <2>2
    <3>2. new[m] = Put(at[m], t, new[m + 1]) /\ new[m + 1] # Failed
      BY <1>4, <3>1 DEF IsOperated, IsChanged
    <3> HIDE DEF m, t, u
    <3>3. QED
      BY <1>6, <1>8, <3>2, EnterPut
  <2>3. QED
    BY <2>1, <2>2
<1>10. b[k] = a[k]
  <2>1. Enter(a[m], u, Failed) = Enter(at[m], u, Failed)
    BY <1>5, FailedLeadsNowhere, EmptyIsDocument DEF Follows
  <2>2. b[m] = new[m]
    BY <1>5 DEF Follows
  <2>3. QED
    BY <1>7, <1>9, <2>1, <2>2
<1> HIDE DEF m, t, u
<1> DEFINE P == {j \in Nat : k + j <= l => b[k + j] = a[k + j]}
<1>11. 0 \in P /\ P \in SUBSET Nat
  BY <1>2, <1>10
<1>12. ASSUME NEW j \in Nat, k + (j + 1) <= l, b[k + j] = a[k + j]
       PROVE  b[k + (j + 1)] = a[k + (j + 1)]
  <2> DEFINE i == k + (j + 1)
  <2>1. i \in 1 .. l /\ i - 1 = k + j
    <3> HIDE DEF l, n
    <3>1. QED
      BY <1>3, <1>12
  <2> HIDE DEF i
  <2>2. a[i] = Enter(a[i - 1], other[i], Failed) /\ b[i] = Enter(b[i - 1], other[i], Failed)
    BY <2>1 DEF IsTrail
  <2>3. b[i] = a[i]
    BY <1>12, <2>1, <2>2
  <2>4. QED
    BY <2>3 DEF i
<1>13. \A j \in P : j + 1 \in P
  <2> SUFFICES ASSUME NEW j \in P PROVE j + 1 \in P
    OBVIOUS
  <2>1. k + (j + 1) <= l => k + j <= l
    <3> HIDE DEF l, n
    <3>1. QED
      BY <1>3
  <2>2. QED
    BY <1>12, <2>1
<1>14. Nat \subseteq P
  <2> HIDE DEF P
  <2>1. QED
    BY <1>11, <1>13, SetInduction
<1>15. l - k \in Nat /\ k + (l - k) = l /\ l <= l
  <2> HIDE DEF l, n
  <2>1. QED
    BY <1>3
<1>16. QED
  BY <1>14, <1>15

(* Where the path itself leads, when it ends in an object.                 *)
LEMMA PathLeads ==
  ASSUME NEW d, NEW path, NEW op, NEW value, NEW at, NEW new,
         IsOperated(d, path, op, value, at, new), at[Len(path) - 1].kind = "object",
         NEW b, IsTrail(b, new[0], path, Failed), NEW a, IsTrail(a, d, path, Failed)
  PROVE  b[Len(path)] = IF op = "remove" THEN Failed ELSE value
<1> DEFINE n == Len(path)
           m == n - 1
<1>1. n \in Nat /\ n # 0 /\ m \in Nat /\ m <= n - 1 /\ m <= n /\ n \in 1 .. n
  BY DEF IsOperated
<1>2. \A i \in 1 .. m : Agree(path, path, at, i)
  BY DEF Agree
<1>3. Follows(a, b, at, new, m)
  <2>1. path \in Seq(Tokens)
    BY DEF IsOperated
  <2> HIDE DEF m
  <2>2. QED
    BY <1>1, <1>2, <2>1, FollowsTrail
<1>4. b[n] = Enter(new[m], path[n], Failed)
  BY <1>1, <1>3 DEF Follows, IsTrail
<1>5. new[m] = ApplyToParent(at[m], op, path[n], value)
  BY DEF IsOperated, IsChanged
<1>6. QED
  BY <1>4, <1>5, EnterParent

LEMMA OperationChanges ==
  ASSUME NEW d, IsDocument(d), NEW operation,
         operation.path \in Seq(Tokens), IsDocument(operation.value),
         ApplyOperation(d, operation) # Failed
  PROVE  /\ operation.op \in {"add", "replace", "remove"}
         /\ \E new : /\ IsOperated(d, operation.path, operation.op, operation.value,
                                   Trail(d, operation.path, EmptyObject), new)
                     /\ ApplyOperation(d, operation) = new[0]
<1> DEFINE path == operation.path
           at == Trail(d, path, EmptyObject)
<1>1. operation.op \in {"add", "replace", "remove"} /\ path # <<>>
  BY DEF ApplyOperation
<1>2. Len(path) \in Nat /\ Len(path) # 0
  BY <1>1
<1>3. ApplyOperation(d, operation) = Descend(d, path, operation.op, operation.value)
  BY <1>1 DEF ApplyOperation
<1>4. PICK new : /\ IsChanged(new, at, path, operation.op, operation.value)
                 /\ Descend(d, path, operation.op, operation.value) = new[0]
  BY <1>2, DescendFacts
<1>5. IsTrail(at, d, path, EmptyObject)
  BY <1>2, TrailFacts
<1>6. \A i \in 0 .. Len(path) : IsOutcome(at[i])
  <2>1. IsOutcome(d) /\ IsOutcome(EmptyObject)
    BY EmptyIsDocument DEF IsOutcome
  <2> HIDE DEF at
  <2>2. QED
    BY <1>5, <2>1, TrailOutcome
<1>7. \A i \in 0 .. Len(path) - 1 : new[i] # Failed
  <2>1. new[0] # Failed
    BY <1>3, <1>4
  <2> HIDE DEF at
  <2>2. QED
    BY <1>2, <1>4, <2>1, NoneFailed
<1> HIDE DEF at
<1>8. IsOperated(d, path, operation.op, operation.value, at, new)
  BY <1>2, <1>4, <1>5, <1>6, <1>7 DEF IsOperated
<1>9. QED
  BY <1>1, <1>3, <1>4, <1>8 DEF at

LEMMA OperationKeeps ==
  ASSUME NEW d, IsDocument(d), NEW operation \in Operations,
         ApplyOperation(d, operation) # Failed,
         NEW other \in Seq(Tokens),
         Parts(other, operation.path, Trail(d, operation.path, EmptyObject))
  PROVE  At(ApplyOperation(d, operation), other) = At(d, other)
<1> DEFINE path == operation.path
           next == ApplyOperation(d, operation)
           trail == Trail(d, path, EmptyObject)
<1>1. path \in Seq(Tokens) /\ IsDocument(operation.value)
  BY ValuesAreDocuments
<1>2. PICK new : /\ IsOperated(d, path, operation.op, operation.value, trail, new)
                 /\ next = new[0]
  BY <1>1, OperationChanges
<1> HIDE DEF next, trail
<1>3. /\ IsTrail(Trail(d, other, Failed), d, other, Failed)
      /\ IsTrail(Trail(next, other, Failed), next, other, Failed)
  BY TrailFacts
<1>4. Parts(other, path, trail)
  BY DEF trail
<1>5. At(next, other) = At(d, other)
  BY <1>2, <1>3, <1>4, PartsKeeps DEF At
<1>6. QED
  BY <1>5 DEF next

(* Every operation of the interpreter leaves alone whatever other paths    *)
(* lead to, whatever the tokens are and however deep it goes.              *)
THEOREM OperationsTouchOnlyTheirPath == WalkSpec => []TouchesOnlyItsPath
<1>1. DocumentInv => TouchesOnlyItsPath
  <2> SUFFICES ASSUME DocumentInv, NEW operation \in Operations,
                      Outcome(operation) # Failed
               PROVE  LET path == operation.path
                          next == Outcome(operation)
                          trail == Trail(doc, path, EmptyObject)
                      IN /\ \A other \in Paths :
                              Parts(other, path, trail) => At(next, other) = At(doc, other)
                         /\ trail[Len(path) - 1].kind = "object" =>
                              At(next, path) = IF operation.op = "remove" THEN Failed
                                               ELSE operation.value
    BY DEF TouchesOnlyItsPath
  <2> DEFINE path == operation.path
             next == Outcome(operation)
             trail == Trail(doc, path, EmptyObject)
  <2>1. path \in Seq(Tokens) /\ IsDocument(operation.value) /\ Paths \subseteq Seq(Tokens)
    BY ValuesAreDocuments, OperationAssumption
  <2>2. PICK new : /\ IsOperated(doc, path, operation.op, operation.value, trail, new)
                   /\ next = new[0]
    BY <2>1, OperationChanges DEF Outcome, DocumentInv
  <2> HIDE DEF next, trail
  <2>3. ASSUME NEW other \in Seq(Tokens)
        PROVE  /\ IsTrail(Trail(doc, other, Failed), doc, other, Failed)
               /\ IsTrail(Trail(next, other, Failed), next, other, Failed)
    BY TrailFacts
  <2>4. ASSUME NEW other \in Paths, Parts(other, path, trail)
        PROVE  At(next, other) = At(doc, other)
    BY <2>1, <2>4, OperationKeeps DEF next, trail, Outcome, DocumentInv
  <2>5. ASSUME trail[Len(path) - 1].kind = "object"
        PROVE  At(next, path) = IF operation.op = "remove" THEN Failed ELSE operation.value
    BY <2>1, <2>2, <2>3, <2>5, PathLeads DEF At
  <2>6. QED
    BY <2>4, <2>5 DEF next, trail
<1>2. QED
  BY <1>1, DocumentInductive, PTL

-----------------------------------------------------------------------------
(* What an operation makes of the array its path ends in.                  *)
Shifted(op, value, before, after) ==
  CASE op = "add" ->
         \E i \in DOMAIN after.s : after.s[i] = value /\ RemoveAt(after.s, i) = before.s
    [] op = "remove" ->
         \E i \in DOMAIN before.s : after.s = RemoveAt(before.s, i)
    [] OTHER ->
         \E i \in DOMAIN before.s : after.s = ReplaceAt(before.s, i, value)

LEMMA ArrayShifts ==
  ASSUME NEW S, NEW parent, parent.s \in Seq(S), NEW t \in Tokens, NEW op, NEW value,
         ApplyToArray(parent, op, t, value) # Failed
  PROVE  Shifted(op, value, parent, ApplyToArray(parent, op, t, value))
<1> DEFINE s == parent.s
           i == ArrayIndex(s, op, t)
           made == ApplyToArray(parent, op, t, value)
           p == InsertPosition(s, i)
           q == Position(s, i)
<1>1. \/ /\ op = "add"
         /\ p \in 1 .. Len(s) + 1
         /\ made = Array(InsertAt(s, p, value))
      \/ /\ op = "remove"
         /\ q \in 1 .. Len(s)
         /\ made = Array(RemoveAt(s, q))
      \/ /\ op = "replace"
         /\ q \in 1 .. Len(s)
         /\ made = Array(ReplaceAt(s, q, value))
  BY ArrayChange
<1>2. DOMAIN s = 1 .. Len(s) /\ s \in Seq(S)
  OBVIOUS
<1> HIDE DEF made, p, q, i, s
<1>3. CASE op = "add" /\ p \in 1 .. Len(s) + 1 /\ made = Array(InsertAt(s, p, value))
  <2> DEFINE r == InsertAt(s, p, value)
  <2>1. r \in Seq(S \cup {value}) /\ IsInserted(r, s, p, value)
    BY <1>2, <1>3, InsertFacts
  <2>2. RemoveAt(r, p) = s
    BY <1>2, <1>3, RemoveInserted
  <2> HIDE DEF r
  <2>3. p \in DOMAIN r /\ r[p] = value
    BY <1>3, <2>1 DEF IsInserted
  <2>4. made.s = r
    BY <1>3 DEF r, Array
  <2>5. \E j \in DOMAIN made.s : made.s[j] = value /\ RemoveAt(made.s, j) = s
    BY <2>2, <2>3, <2>4
  <2>6. QED
    BY <1>3, <2>5 DEF Shifted, made, s
<1>4. CASE op = "remove" /\ q \in 1 .. Len(s) /\ made = Array(RemoveAt(s, q))
  <2>1. made.s = RemoveAt(s, q)
    BY <1>4 DEF Array
  <2>2. \E j \in DOMAIN s : made.s = RemoveAt(s, j)
    BY Zenon, <1>2, <1>4, <2>1
  <2>3. QED
    BY <1>4, <2>2 DEF Shifted, made, s
<1>5. CASE op = "replace" /\ q \in 1 .. Len(s) /\ made = Array(ReplaceAt(s, q, value))
  <2>1. made.s = ReplaceAt(s, q, value)
    BY <1>5 DEF Array
  <2>2. \E j \in DOMAIN s : made.s = ReplaceAt(s, j, value)
    BY Zenon, <1>2, <1>5, <2>1
  <2>3. QED
    BY <1>5, <2>2 DEF Shifted, made, s
<1>6. QED
  BY <1>1, <1>3, <1>4, <1>5

LEMMA FrontFacts ==
  ASSUME NEW path \in Seq(Tokens), Len(path) # 0
  PROVE  /\ Front(path) \in Seq(Tokens)
         /\ Len(Front(path)) = Len(path) - 1
         /\ \A i \in 1 .. Len(path) - 1 : Front(path)[i] = path[i]
<1> DEFINE m == Len(path) - 1
<1>1. Front(path) = SubSeq(path, 1, m)
  BY DEF Front
<1>2. m \in 0 .. Len(path)
  OBVIOUS
<1> HIDE DEF m
<1>3. /\ SubSeq(path, 1, m) \in Seq(Tokens)
      /\ Len(SubSeq(path, 1, m)) = m
      /\ \A i \in 1 .. m : SubSeq(path, 1, m)[i] = path[i]
  BY <1>2
<1>4. QED
  BY <1>1, <1>3 DEF m

(* The array an operation changes, before and after.                       *)
LEMMA ArrayChanges ==
  ASSUME NEW d, NEW path, NEW op, NEW value, NEW at, NEW new,
         IsOperated(d, path, op, value, at, new),
         NEW a, IsTrail(a, d, Front(path), Failed),
         NEW b, IsTrail(b, new[0], Front(path), Failed),
         a[Len(path) - 1].kind = "array"
  PROVE  Shifted(op, value, a[Len(path) - 1], b[Len(path) - 1])
<1> DEFINE n == Len(path)
           m == n - 1
           other == Front(path)
<1>1. path \in Seq(Tokens) /\ Len(path) # 0
  BY DEF IsOperated
<1>2. n \in Nat /\ m \in Nat /\ m <= n - 1 /\ m \in 0 .. n /\ m \in 0 .. n - 1 /\ n \in 1 .. n
  BY <1>1
<1>3. path[n] \in Tokens
  BY <1>1, <1>2
<1>4. other \in Seq(Tokens) /\ Len(other) = m /\ \A i \in 1 .. m : other[i] = path[i]
  BY <1>1, FrontFacts
<1> HIDE DEF other
<1>5. \A i \in 1 .. m : Agree(other, path, at, i)
  BY <1>4 DEF Agree
<1>6. Follows(a, b, at, new, m)
  <2>1. IsTrail(a, d, other, Failed) /\ IsTrail(b, new[0], other, Failed) /\ m <= Len(other)
    BY <1>2, <1>4 DEF other
  <2>2. n = Len(path)
    OBVIOUS
  <2> HIDE DEF m
  <2>3. QED
    BY <1>2, <1>4, <1>5, <2>1, FollowsTrail
<1>7. at[m].kind = "array" /\ a[m] = at[m] /\ b[m] = new[m]
  <2>1. Failed.kind # "array"
    BY DEF Failed
  <2>2. QED
    BY <1>6, <2>1 DEF Follows
<1>8. PICK W : at[m].s \in Seq(W)
  <2>1. IsOutcome(at[m])
    BY <1>2 DEF IsOperated
  <2>2. IsDocument(at[m])
    BY <1>7, <2>1 DEF IsOutcome, Failed
  <2>3. QED
    BY <1>7, <2>2, ElementsOfDocument
<1>9. new[m] = ApplyToArray(at[m], op, path[n], value) /\ new[m] # Failed
  <2>1. new[m] = ApplyToParent(at[m], op, path[n], value)
    BY DEF IsOperated, IsChanged
  <2>2. new[m] # Failed
    BY <1>2 DEF IsOperated
  <2>3. QED
    BY <1>7, <2>1, <2>2 DEF ApplyToParent
<1> HIDE DEF m
<1>10. Shifted(op, value, at[m], ApplyToArray(at[m], op, path[n], value))
  BY <1>3, <1>8, <1>9, ArrayShifts
<1>11. QED
  BY <1>7, <1>9, <1>10 DEF m

(* On an array no operation loses or invents an element: whatever integer  *)
(* the last token is, however far out of range.                            *)
THEOREM OperationsShiftArraysByOne == WalkSpec => []ArraysShiftByOne
<1>1. DocumentInv => ArraysShiftByOne
  <2> SUFFICES ASSUME DocumentInv, NEW operation \in Operations,
                      Outcome(operation) # Failed,
                      At(doc, Front(operation.path)).kind = "array"
               PROVE  Shifted(operation.op, operation.value, At(doc, Front(operation.path)),
                              At(Outcome(operation), Front(operation.path)))
    BY DEF ArraysShiftByOne, Shifted
  <2> DEFINE path == operation.path
             next == Outcome(operation)
             trail == Trail(doc, path, EmptyObject)
  <2>1. path \in Seq(Tokens) /\ IsDocument(operation.value)
    BY ValuesAreDocuments
  <2>2. PICK new : /\ IsOperated(doc, path, operation.op, operation.value, trail, new)
                   /\ next = new[0]
    BY <2>1, OperationChanges DEF Outcome, DocumentInv
  <2> HIDE DEF next, trail
  <2>3. Len(path) # 0
    BY <2>2 DEF IsOperated
  <2>4. Len(Front(path)) = Len(path) - 1 /\ Len(Front(path)) \in Nat
    BY <2>1, <2>3, FrontFacts
  <2>5. /\ IsTrail(Trail(doc, Front(path), Failed), doc, Front(path), Failed)
        /\ IsTrail(Trail(next, Front(path), Failed), next, Front(path), Failed)
    BY <2>4, TrailFacts
  <2>6. Shifted(operation.op, operation.value, At(doc, Front(path)), At(next, Front(path)))
    BY <2>2, <2>4, <2>5, ArrayChanges DEF At
  <2>7. QED
    BY <2>6 DEF next
<1>2. QED
  BY <1>1, DocumentInductive, PTL

-----------------------------------------------------------------------------
(* Flattening, one sequence more at a time.                                *)
IsFlat(f, x) ==
  /\ f[1] = x[1]
  /\ \A i \in 2 .. Len(x) : f[i] = f[i - 1] \o x[i]

LEMMA FlatFacts ==
  ASSUME NEW x, Len(x) \in Nat \ {0}
  PROVE  \E f : IsFlat(f, x) /\ FlattenSeq(x) = f[Len(x)]
<1> DEFINE n == Len(x)
           After(f, i) == f[i - 1] \o x[i]
           Good(f, k) == /\ f = [i \in 1 .. k + 1 |-> f[i]]
                         /\ f[1] = x[1]
                         /\ \A i \in 2 .. k + 1 : f[i] = After(f, i)
           P == {k \in Nat : \E f : Good(f, k)}
<1>1. 0 \in P
  <2>1. Good([i \in 1 .. 0 + 1 |-> x[1]], 0)
    OBVIOUS
  <2>2. QED
    BY <2>1
<1>2. ASSUME NEW k \in Nat, NEW f, Good(f, k) PROVE \E g : Good(g, k + 1)
  <2> DEFINE e == f[k + 1] \o x[k + 2]
             g == [i \in 1 .. (k + 1) + 1 |-> IF i = k + 2 THEN e ELSE f[i]]
  <2> HIDE DEF e
  <2>1. g[1] = x[1]
    BY <1>2
  <2>2. ASSUME NEW i \in 2 .. (k + 1) + 1 PROVE g[i] = After(g, i)
    <3>1. /\ i \in 1 .. (k + 1) + 1 /\ i - 1 \in 1 .. (k + 1) + 1 /\ i - 1 # k + 2
          /\ g[i - 1] = f[i - 1]
      OBVIOUS
    <3>2. CASE i = k + 2
      <4>1. g[i] = e /\ i - 1 = k + 1
        BY <3>1, <3>2
      <4> HIDE DEF g
      <4>2. QED
        BY <3>1, <3>2, <4>1 DEF e
    <3>3. CASE i # k + 2
      <4>1. g[i] = f[i] /\ i \in 2 .. k + 1
        BY <3>1, <3>3
      <4> HIDE DEF g
      <4>2. QED
        BY <1>2, <3>1, <4>1
    <3>4. QED
      BY <3>2, <3>3
  <2>3. g = [i \in 1 .. (k + 1) + 1 |-> g[i]]
    OBVIOUS
  <2> HIDE DEF g
  <2>4. Good(g, k + 1)
    BY <2>1, <2>2, <2>3
  <2> HIDE DEF Good
  <2>5. QED
    BY <2>4
<1>3. n - 1 \in P
  <2>1. P \in SUBSET Nat /\ \A k \in P : k + 1 \in P
    <3> HIDE DEF Good
    <3>1. QED
      BY <1>2
  <2>2. n - 1 \in Nat
    OBVIOUS
  <2> HIDE DEF P
  <2>3. QED
    BY <1>1, <2>1, <2>2, SetInduction
<1>4. PICK f : Good(f, n - 1)
  BY <1>3
<1>5. (n - 1) + 1 = n
  OBVIOUS
<1> DEFINE IsIt(g) == g = [i \in 1 .. n |-> IF i = 1 THEN x[i] ELSE After(g, i)]
<1>6. IsIt(f)
  <2> DEFINE h == [i \in 1 .. n |-> IF i = 1 THEN x[i] ELSE After(f, i)]
  <2>1. ASSUME NEW i \in 1 .. n PROVE f[i] = h[i]
    <3>1. i = 1 \/ (i \in 2 .. n /\ i # 1)
      OBVIOUS
    <3>2. f[1] = x[1] /\ \A j \in 2 .. n : f[j] = After(f, j)
      BY <1>4, <1>5
    <3> HIDE DEF After
    <3>3. QED
      BY <3>1, <3>2
  <2>2. f = [i \in 1 .. n |-> f[i]]
    BY <1>4, <1>5
  <2>3. QED
    BY Zenon, <2>1, <2>2
<1>7. IsIt(CHOOSE g : IsIt(g))
  BY Zenon, <1>6
<1>8. n # 0
  OBVIOUS
<1> DEFINE t == CHOOSE g : IsIt(g)
<1>9. FlattenSeq(x) = t[n]
  BY Zenon, <1>8 DEF FlattenSeq
<1>10. t = [i \in 1 .. n |-> IF i = 1 THEN x[i] ELSE After(t, i)]
  BY Zenon, <1>7
<1> HIDE DEF t
<1>11. t[1] = x[1] /\ \A i \in 2 .. n : t[i] = After(t, i)
  <2>1. 1 \in 1 .. n /\ \A i \in 2 .. n : i \in 1 .. n /\ i # 1
    OBVIOUS
  <2> HIDE DEF After
  <2>2. QED
    BY <1>10, <2>1
<1>12. QED
  BY <1>9, <1>11 DEF IsFlat

LEMMA FlattenEmpty == FlattenSeq(<<>>) = <<>>
BY DEF FlattenSeq

LEMMA FlattenIn ==
  ASSUME NEW S, NEW x \in Seq(Seq(S))
  PROVE  FlattenSeq(x) \in Seq(S)
<1>1. CASE Len(x) = 0
  <2>1. x = <<>>
    BY <1>1
  <2>2. <<>> \in Seq(S)
    BY EmptySeq
  <2>3. QED
    BY Zenon, <2>1, <2>2, FlattenEmpty
<1>2. CASE Len(x) # 0
  <2> DEFINE n == Len(x)
  <2>1. n \in Nat \ {0}
    BY <1>2
  <2>2. PICK f : IsFlat(f, x) /\ FlattenSeq(x) = f[n]
    BY <2>1, FlatFacts
  <2>3. \A i \in 1 .. n : x[i] \in Seq(S)
    OBVIOUS
  <2> DEFINE P == {k \in Nat : k + 1 <= n => f[k + 1] \in Seq(S)}
  <2>4. 0 \in P /\ P \in SUBSET Nat
    <3>1. 1 \in 1 .. n
      BY <2>1
    <3>2. f[0 + 1] \in Seq(S)
      BY <2>2, <2>3, <3>1 DEF IsFlat
    <3>3. QED
      BY <3>2
  <2>5. ASSUME NEW k \in Nat, (k + 1) + 1 <= n, f[k + 1] \in Seq(S)
        PROVE  f[(k + 1) + 1] \in Seq(S)
    <3> DEFINE i == (k + 1) + 1
    <3>1. i \in 2 .. n /\ i \in 1 .. n /\ i - 1 = k + 1
      BY <2>1, <2>5
    <3> HIDE DEF i, n
    <3>2. f[i] = f[i - 1] \o x[i] /\ x[i] \in Seq(S)
      BY <2>2, <2>3, <3>1 DEF IsFlat, n
    <3>3. f[i] \in Seq(S)
      BY <2>5, <3>1, <3>2, ConcatProperties
    <3>4. QED
      BY <3>3 DEF i
  <2>6. \A k \in P : k + 1 \in P
    <3> HIDE DEF n
    <3>1. QED
      BY <2>1, <2>5
  <2>7. Nat \subseteq P
    <3> HIDE DEF P
    <3>1. QED
      BY <2>4, <2>6, SetInduction
  <2>8. n - 1 \in P /\ (n - 1) + 1 = n /\ n <= n
    <3> HIDE DEF n, P
    <3>1. QED
      BY <2>1, <2>7
  <2>9. QED
    BY <2>2, <2>8
<1>3. QED
  BY <1>1, <1>2

LEMMA FlattenAppend ==
  ASSUME NEW S, NEW x \in Seq(Seq(S)), NEW e \in Seq(S)
  PROVE  FlattenSeq(Append(x, e)) = FlattenSeq(x) \o e
<1> DEFINE n == Len(x)
           y == Append(x, e)
<1>1. /\ n \in Nat /\ Len(y) = n + 1 /\ y[n + 1] = e
      /\ \A i \in 1 .. n : y[i] = x[i]
  OBVIOUS
<1> HIDE DEF y
<1>2. PICK g : IsFlat(g, y) /\ FlattenSeq(y) = g[n + 1]
  <2>1. Len(y) \in Nat \ {0}
    BY <1>1
  <2>2. QED
    BY <1>1, <2>1, FlatFacts
<1>3. CASE n = 0
  <2>1. FlattenSeq(y) = e
    BY <1>1, <1>2, <1>3 DEF IsFlat
  <2>2. x = <<>>
    BY <1>3
  <2>3. QED
    BY <2>1, <2>2, FlattenEmpty, ConcatEmptySeq DEF y
<1>4. CASE n # 0
  <2>1. n \in Nat \ {0}
    BY <1>1, <1>4
  <2>2. PICK f : IsFlat(f, x) /\ FlattenSeq(x) = f[n]
    BY <2>1, FlatFacts
  <2> HIDE DEF n
  <2> DEFINE P == {k \in Nat : k + 1 <= n => g[k + 1] = f[k + 1]}
  <2>3. 0 \in P /\ P \in SUBSET Nat
    <3>1. g[0 + 1] = f[0 + 1]
      <4>1. 1 \in 1 .. n
        BY <2>1
      <4>2. QED
        BY <1>1, <1>2, <2>2, <4>1 DEF IsFlat
    <3>2. QED
      BY <3>1
  <2>4. ASSUME NEW k \in Nat, (k + 1) + 1 <= n, g[k + 1] = f[k + 1]
        PROVE  g[(k + 1) + 1] = f[(k + 1) + 1]
    <3> DEFINE i == (k + 1) + 1
    <3>1. i \in 2 .. n /\ i \in 2 .. n + 1 /\ i \in 1 .. n /\ i - 1 = k + 1
      BY <2>1, <2>4
    <3> HIDE DEF i
    <3>2. f[i] = f[i - 1] \o x[i]
      BY <2>2, <3>1 DEF IsFlat, n
    <3>3. g[i] = g[i - 1] \o x[i]
      BY <1>1, <1>2, <3>1 DEF IsFlat
    <3>4. g[i] = f[i]
      BY <2>4, <3>1, <3>2, <3>3
    <3>5. QED
      BY <3>4 DEF i
  <2>5. \A k \in P : k + 1 \in P
    BY <2>1, <2>4
  <2>6. Nat \subseteq P
    <3> HIDE DEF P
    <3>1. QED
      BY <2>3, <2>5, SetInduction
  <2>7. n - 1 \in P /\ (n - 1) + 1 = n /\ n <= n
    <3> HIDE DEF P
    <3>1. QED
      BY <2>1, <2>6
  <2>8. g[n] = f[n]
    BY <2>7
  <2>9. g[n + 1] = g[n] \o y[n + 1]
    <3>1. n + 1 \in 2 .. n + 1 /\ (n + 1) - 1 = n
      BY <2>1
    <3>2. QED
      BY <1>1, <1>2, <3>1 DEF IsFlat
  <2>10. QED
    BY <1>1, <1>2, <2>2, <2>8, <2>9 DEF y
<1>5. QED
  BY <1>3, <1>4

-----------------------------------------------------------------------------
(* Replacing a pattern in a sequence that grows: its last character, when  *)
(* it is the first of the pattern, waits for the next.                     *)
FoundIn(s, pattern, i) ==
  i \in 1 .. Len(s) - 1 /\ s[i] = pattern[1] /\ s[i + 1] = pattern[2]

Piece(s, pattern, char, i) ==
  IF FoundIn(s, pattern, i) THEN <<char>>
  ELSE IF FoundIn(s, pattern, i - 1) THEN <<>> ELSE <<s[i]>>

Pieces(s, pattern, char) == [i \in DOMAIN s |-> Piece(s, pattern, char, i)]

LEMMA ReplacedPieces ==
  ASSUME NEW s, NEW pattern, NEW char
  PROVE  Replaced(s, pattern, char) = FlattenSeq(Pieces(s, pattern, char))
BY Zenon DEF Replaced, Pieces, Piece, FoundIn

LEMMA PiecesFacts ==
  ASSUME NEW S, NEW s \in Seq(S), NEW pattern, NEW char \in S
  PROVE  /\ Pieces(s, pattern, char) \in Seq(Seq(S))
         /\ Len(Pieces(s, pattern, char)) = Len(s)
         /\ \A i \in 1 .. Len(s) : Pieces(s, pattern, char)[i] = Piece(s, pattern, char, i)
<1> DEFINE r == Pieces(s, pattern, char)
<1>1. DOMAIN s = 1 .. Len(s) /\ Len(s) \in Nat /\ \A i \in 1 .. Len(s) : s[i] \in S
  OBVIOUS
<1>2. r = [i \in 1 .. Len(s) |-> Piece(s, pattern, char, i)]
  BY Zenon, <1>1 DEF Pieces
<1>3. \A i \in 1 .. Len(s) : Piece(s, pattern, char, i) \in Seq(S)
  <2>1. <<char>> \in Seq(S) /\ <<>> \in Seq(S) /\ \A c \in S : <<c>> \in Seq(S)
    OBVIOUS
  <2>2. QED
    BY Zenon, <1>1, <2>1 DEF Piece
<1> HIDE DEF r
<1>4. /\ r = [i \in 1 .. Len(s) |-> r[i]]
      /\ \A i \in 1 .. Len(s) : r[i] = Piece(s, pattern, char, i)
  BY <1>2
<1>5. r \in Seq(Seq(S)) /\ Len(r) = Len(s)
  BY <1>1, <1>3, <1>4, SeqDef, LenProperties
<1>6. QED
  BY <1>4, <1>5 DEF r

Waits(s, pattern) == Len(s) # 0 /\ s[Len(s)] = pattern[1]

(* One more character, after one that does not wait for it.                *)
LEMMA PiecesAppend ==
  ASSUME NEW S, NEW s \in Seq(S), NEW pattern, NEW char \in S, ~Waits(s, pattern), NEW c \in S
  PROVE  Pieces(Append(s, c), pattern, char) = Append(Pieces(s, pattern, char), <<c>>)
<1> DEFINE n == Len(s)
           z == Append(s, c)
           r == Pieces(s, pattern, char)
           q == Pieces(z, pattern, char)
           w == Append(r, <<c>>)
<1>1. /\ n \in Nat /\ z \in Seq(S) /\ Len(z) = n + 1 /\ z[n + 1] = c
      /\ \A i \in 1 .. n : z[i] = s[i]
  OBVIOUS
<1>2. /\ r \in Seq(Seq(S)) /\ Len(r) = n
      /\ \A i \in 1 .. n : r[i] = Piece(s, pattern, char, i)
  BY PiecesFacts
<1> HIDE DEF z
<1>3. /\ q \in Seq(Seq(S)) /\ Len(q) = n + 1
      /\ \A i \in 1 .. n + 1 : q[i] = Piece(z, pattern, char, i)
  <2>1. /\ q \in Seq(Seq(S)) /\ Len(q) = Len(z)
        /\ \A i \in 1 .. Len(z) : q[i] = Piece(z, pattern, char, i)
    BY <1>1, PiecesFacts
  <2>2. QED
    BY <1>1, <2>1
<1> HIDE DEF r, q
<1>4. /\ w \in Seq(Seq(S)) /\ Len(w) = n + 1 /\ w[n + 1] = <<c>>
      /\ \A i \in 1 .. n : w[i] = r[i]
  <2>1. <<c>> \in Seq(S)
    OBVIOUS
  <2>2. QED
    BY <1>1, <1>2, <2>1
<1> HIDE DEF w
<1>5. ASSUME NEW i \in Int PROVE FoundIn(z, pattern, i) <=> FoundIn(s, pattern, i)
  <2>1. CASE i \in 1 .. n - 1
    <3>1. z[i] = s[i] /\ z[i + 1] = s[i + 1] /\ i \in 1 .. (n + 1) - 1
      BY <1>1, <2>1
    <3>2. QED
      BY <1>1, <2>1, <3>1 DEF FoundIn
  <2>2. CASE i = n /\ n # 0
    <3>1. z[i] # pattern[1]
      <4>1. n \in 1 .. n
        BY <1>1, <2>2
      <4>2. QED
        BY <1>1, <2>2, <4>1 DEF Waits
    <3>2. i \notin 1 .. n - 1
      BY <1>1, <2>2
    <3>3. QED
      BY <3>1, <3>2 DEF FoundIn
  <2>3. CASE ~(i \in 1 .. n - 1) /\ ~(i = n /\ n # 0)
    <3>1. i \notin 1 .. (n + 1) - 1
      BY <1>1, <2>3
    <3>2. QED
      BY <1>1, <2>3, <3>1 DEF FoundIn
  <2>4. QED
    BY <2>1, <2>2, <2>3
<1>6. ASSUME NEW i \in 1 .. n PROVE q[i] = w[i]
  <2>1. i \in Int /\ i - 1 \in Int /\ i \in 1 .. n + 1
    BY <1>1
  <2>2. Piece(z, pattern, char, i) = Piece(s, pattern, char, i)
    BY Zenon, <1>1, <1>5, <2>1 DEF Piece
  <2>3. QED
    BY <1>2, <1>3, <1>4, <2>1, <2>2
<1>7. q[n + 1] = w[n + 1]
  <2>1. n + 1 \in Int /\ (n + 1) - 1 = n /\ n \in Int /\ n + 1 \in 1 .. n + 1
        /\ n + 1 \notin 1 .. n - 1 /\ n \notin 1 .. n - 1
    BY <1>1
  <2>2. ~FoundIn(z, pattern, n + 1) /\ ~FoundIn(z, pattern, n)
    <3>1. ~FoundIn(s, pattern, n + 1) /\ ~FoundIn(s, pattern, n)
      BY <2>1 DEF FoundIn
    <3>2. QED
      BY <1>5, <2>1, <3>1
  <2>3. Piece(z, pattern, char, n + 1) = <<c>>
    BY Zenon, <1>1, <2>1, <2>2 DEF Piece
  <2>4. QED
    BY <1>3, <1>4, <2>1, <2>3
<1>8. \A i \in 1 .. n + 1 : q[i] = w[i]
  <2>1. \A i \in 1 .. n + 1 : i \in 1 .. n \/ i = n + 1
    BY <1>1
  <2>2. QED
    BY <1>6, <1>7, <2>1
<1>9. q = w
  <2>1. Len(q) = Len(w) /\ \A i \in 1 .. Len(q) : q[i] = w[i]
    BY <1>3, <1>4, <1>8
  <2>2. QED
    BY <1>3, <1>4, <2>1, SeqEqual
<1>10. QED
  BY <1>9 DEF q, w, r, z

(* Two more, the first of which waits for the second.                      *)
LEMMA PiecesPair ==
  ASSUME NEW S, NEW s \in Seq(S), NEW pattern, NEW char \in S, ~Waits(s, pattern),
         pattern[1] \in S, NEW c \in S
  PROVE  LET r == Pieces(s, pattern, char) IN
         Pieces(Append(Append(s, pattern[1]), c), pattern, char)
           = IF c = pattern[2] THEN Append(Append(r, <<char>>), <<>>)
             ELSE Append(Append(r, <<pattern[1]>>), <<c>>)
<1> DEFINE n == Len(s)
           p == pattern[1]
           z == Append(Append(s, p), c)
           r == Pieces(s, pattern, char)
           q == Pieces(z, pattern, char)
           first == IF c = pattern[2] THEN <<char>> ELSE <<p>>
           second == IF c = pattern[2] THEN <<>> ELSE <<c>>
           w == Append(Append(r, first), second)
<1>1. /\ n \in Nat /\ z \in Seq(S) /\ Len(z) = n + 2 /\ z[n + 1] = p /\ z[n + 2] = c
      /\ \A i \in 1 .. n : z[i] = s[i]
  <2>1. /\ Append(s, p) \in Seq(S) /\ Len(Append(s, p)) = n + 1 /\ Append(s, p)[n + 1] = p
        /\ \A i \in 1 .. n : Append(s, p)[i] = s[i]
    OBVIOUS
  <2> DEFINE y == Append(s, p)
  <2> HIDE DEF y
  <2>2. y \in Seq(S) /\ Len(y) = n + 1 /\ y[n + 1] = p /\ \A i \in 1 .. n : y[i] = s[i]
    BY <2>1 DEF y
  <2>3. /\ n \in Nat /\ Append(y, c) \in Seq(S) /\ Len(Append(y, c)) = n + 2
        /\ Append(y, c)[n + 2] = c
        /\ \A i \in 1 .. n + 1 : Append(y, c)[i] = y[i]
    BY <2>2
  <2>4. z = Append(y, c)
    BY DEF y
  <2> HIDE DEF z, n
  <2>5. \A i \in 1 .. n : i \in 1 .. n + 1
    BY <2>3
  <2>6. n + 1 \in 1 .. n + 1
    BY <2>3
  <2>7. QED
    BY <2>2, <2>3, <2>4, <2>5, <2>6
<1>2. /\ r \in Seq(Seq(S)) /\ Len(r) = n
      /\ \A i \in 1 .. n : r[i] = Piece(s, pattern, char, i)
  BY PiecesFacts
<1> HIDE DEF z
<1>3. /\ q \in Seq(Seq(S)) /\ Len(q) = n + 2
      /\ \A i \in 1 .. n + 2 : q[i] = Piece(z, pattern, char, i)
  <2>1. /\ q \in Seq(Seq(S)) /\ Len(q) = Len(z)
        /\ \A i \in 1 .. Len(z) : q[i] = Piece(z, pattern, char, i)
    BY <1>1, PiecesFacts
  <2>2. QED
    BY <1>1, <2>1
<1>4. first \in Seq(S) /\ second \in Seq(S)
  <2>1. <<char>> \in Seq(S) /\ <<p>> \in Seq(S) /\ <<>> \in Seq(S) /\ <<c>> \in Seq(S)
    OBVIOUS
  <2>2. QED
    BY Zenon, <2>1
<1> HIDE DEF r, q, first, second
<1>5. /\ w \in Seq(Seq(S)) /\ Len(w) = n + 2 /\ w[n + 1] = first /\ w[n + 2] = second
      /\ \A i \in 1 .. n : w[i] = r[i]
  <2> DEFINE y == Append(r, first)
  <2>1. /\ y \in Seq(Seq(S)) /\ Len(y) = n + 1 /\ y[n + 1] = first
        /\ \A i \in 1 .. n : y[i] = r[i]
    BY <1>1, <1>2, <1>4
  <2>2. w = Append(y, second)
    OBVIOUS
  <2> HIDE DEF y, w, n
  <2>3. /\ w \in Seq(Seq(S)) /\ Len(w) = n + 2 /\ w[n + 2] = second
        /\ \A i \in 1 .. n + 1 : w[i] = y[i]
    BY <1>1, <1>4, <2>1, <2>2
  <2>4. n + 1 \in 1 .. n + 1 /\ \A i \in 1 .. n : i \in 1 .. n + 1
    BY <1>1
  <2>5. QED
    BY <2>1, <2>3, <2>4
<1> HIDE DEF w
<1>6. ASSUME NEW i \in Int, i # n + 1 PROVE FoundIn(z, pattern, i) <=> FoundIn(s, pattern, i)
  <2>1. CASE i \in 1 .. n - 1
    <3>1. i \in 1 .. n /\ i + 1 \in 1 .. n /\ i \in 1 .. (n + 2) - 1
      BY <1>1, <2>1
    <3>2. z[i] = s[i] /\ z[i + 1] = s[i + 1]
      BY <1>1, <3>1
    <3>3. QED
      BY <1>1, <2>1, <3>1, <3>2 DEF FoundIn
  <2>2. CASE i = n /\ n # 0
    <3>1. z[i] # pattern[1]
      <4>1. n \in 1 .. n
        BY <1>1, <2>2
      <4>2. QED
        BY <1>1, <2>2, <4>1 DEF Waits
    <3>2. i \notin 1 .. n - 1
      BY <1>1, <2>2
    <3>3. QED
      BY <3>1, <3>2 DEF FoundIn
  <2>3. CASE ~(i \in 1 .. n - 1) /\ ~(i = n /\ n # 0)
    <3>1. i \notin 1 .. (n + 2) - 1
      BY <1>1, <1>6, <2>3
    <3>2. QED
      BY <1>1, <2>3, <3>1 DEF FoundIn
  <2>4. QED
    BY <2>1, <2>2, <2>3
<1>7. ASSUME NEW i \in 1 .. n PROVE q[i] = w[i]
  <2>1. i \in Int /\ i - 1 \in Int /\ i \in 1 .. n + 2 /\ i # n + 1 /\ i - 1 # n + 1
    BY <1>1
  <2>2. Piece(z, pattern, char, i) = Piece(s, pattern, char, i)
    BY Zenon, <1>1, <1>6, <2>1 DEF Piece
  <2>3. QED
    BY <1>2, <1>3, <1>5, <2>1, <2>2
<1>8. FoundIn(z, pattern, n + 1) <=> c = pattern[2]
  <2>1. n + 1 \in 1 .. (n + 2) - 1 /\ (n + 1) + 1 = n + 2
    BY <1>1
  <2>2. QED
    BY <1>1, <2>1 DEF FoundIn
<1>9. ~FoundIn(z, pattern, n) /\ ~FoundIn(z, pattern, n + 2)
  <2>1. n \in Int /\ n + 2 \in Int /\ n # n + 1 /\ n + 2 # n + 1
        /\ n \notin 1 .. n - 1 /\ n + 2 \notin 1 .. n - 1
    BY <1>1
  <2>2. ~FoundIn(s, pattern, n) /\ ~FoundIn(s, pattern, n + 2)
    BY <2>1 DEF FoundIn
  <2>3. QED
    BY <1>6, <2>1, <2>2
<1>10. q[n + 1] = first
  <2>1. n + 1 \in 1 .. n + 2 /\ (n + 1) - 1 = n
    BY <1>1
  <2>2. Piece(z, pattern, char, n + 1) = first
    BY Zenon, <1>1, <1>8, <1>9, <2>1 DEF Piece, first
  <2>3. QED
    BY <1>3, <2>1, <2>2
<1>11. q[n + 2] = second
  <2>1. n + 2 \in 1 .. n + 2 /\ (n + 2) - 1 = n + 1
    BY <1>1
  <2>2. Piece(z, pattern, char, n + 2) = second
    BY Zenon, <1>1, <1>8, <1>9, <2>1 DEF Piece, second
  <2>3. QED
    BY <1>3, <2>1, <2>2
<1>12. \A i \in 1 .. n + 2 : q[i] = w[i]
  <2>1. \A i \in 1 .. n + 2 : i \in 1 .. n \/ i = n + 1 \/ i = n + 2
    BY <1>1
  <2>2. QED
    BY <1>5, <1>7, <1>10, <1>11, <2>1
<1>13. q = w
  <2>1. Len(q) = Len(w) /\ \A i \in 1 .. Len(q) : q[i] = w[i]
    BY <1>3, <1>5, <1>12
  <2>2. QED
    BY <1>3, <1>5, <2>1, SeqEqual
<1>14. CASE c = pattern[2]
  BY <1>13, <1>14 DEF q, w, r, z, first, second
<1>15. CASE c # pattern[2]
  BY <1>13, <1>15 DEF q, w, r, z, first, second
<1>16. QED
  BY <1>14, <1>15

LEMMA ReplacedIn ==
  ASSUME NEW S, NEW s \in Seq(S), NEW pattern, NEW char \in S
  PROVE  Replaced(s, pattern, char) \in Seq(S)
BY Zenon, PiecesFacts, FlattenIn, ReplacedPieces

LEMMA ReplacedAppend ==
  ASSUME NEW S, NEW s \in Seq(S), NEW pattern, NEW char \in S, ~Waits(s, pattern), NEW c \in S
  PROVE  Replaced(Append(s, c), pattern, char) = Append(Replaced(s, pattern, char), c)
<1> DEFINE r == Pieces(s, pattern, char)
<1>1. <<c>> \in Seq(S) /\ r \in Seq(Seq(S))
  BY PiecesFacts
<1>2. Replaced(Append(s, c), pattern, char) = FlattenSeq(Append(r, <<c>>))
  <2>1. Pieces(Append(s, c), pattern, char) = Append(r, <<c>>)
    BY PiecesAppend
  <2>2. QED
    BY Zenon, <2>1, ReplacedPieces
<1>3. FlattenSeq(Append(r, <<c>>)) = FlattenSeq(r) \o <<c>>
  BY Zenon, <1>1, FlattenAppend
<1>4. FlattenSeq(r) = Replaced(s, pattern, char) /\ FlattenSeq(r) \in Seq(S)
  BY Zenon, <1>1, ReplacedPieces, FlattenIn
<1> HIDE DEF r
<1>5. FlattenSeq(r) \o <<c>> = Append(FlattenSeq(r), c)
  BY Zenon, <1>4, AppendIsConcat
<1>6. QED
  BY Zenon, <1>2, <1>3, <1>4, <1>5

LEMMA ReplacedPair ==
  ASSUME NEW S, NEW s \in Seq(S), NEW pattern, NEW char \in S, ~Waits(s, pattern),
         pattern[1] \in S, NEW c \in S
  PROVE  Replaced(Append(Append(s, pattern[1]), c), pattern, char)
           = IF c = pattern[2] THEN Append(Replaced(s, pattern, char), char)
             ELSE Append(Append(Replaced(s, pattern, char), pattern[1]), c)
<1> DEFINE r == Pieces(s, pattern, char)
           z == Append(Append(s, pattern[1]), c)
           d == Replaced(s, pattern, char)
<1>1. /\ <<char>> \in Seq(S) /\ <<pattern[1]>> \in Seq(S) /\ <<>> \in Seq(S)
      /\ <<c>> \in Seq(S)
  OBVIOUS
<1>2. r \in Seq(Seq(S)) /\ d = FlattenSeq(r) /\ d \in Seq(S)
  BY Zenon, PiecesFacts, ReplacedPieces, ReplacedIn
<1>3. Pieces(z, pattern, char)
        = IF c = pattern[2] THEN Append(Append(r, <<char>>), <<>>)
          ELSE Append(Append(r, <<pattern[1]>>), <<c>>)
  BY PiecesPair
<1>4. Replaced(z, pattern, char) = FlattenSeq(Pieces(z, pattern, char))
  BY Zenon, ReplacedPieces
<1> HIDE DEF r, z, d
<1>5. ASSUME NEW e \in Seq(S), NEW f \in Seq(S)
      PROVE  FlattenSeq(Append(Append(r, e), f)) = (d \o e) \o f
  <2>1. Append(r, e) \in Seq(Seq(S))
    BY <1>2
  <2>2. FlattenSeq(Append(Append(r, e), f)) = FlattenSeq(Append(r, e)) \o f
    BY Zenon, <2>1, FlattenAppend
  <2>3. FlattenSeq(Append(r, e)) = FlattenSeq(r) \o e
    BY Zenon, <1>2, FlattenAppend
  <2>4. QED
    BY Zenon, <1>2, <2>2, <2>3
<1>6. CASE c = pattern[2]
  <2>1. Replaced(z, pattern, char) = (d \o <<char>>) \o <<>>
    BY Zenon, <1>1, <1>3, <1>4, <1>5, <1>6
  <2>2. (d \o <<char>>) \o <<>> = Append(d, char)
    BY <1>2
  <2>3. QED
    BY <1>6, <2>1, <2>2 DEF z, d
<1>7. CASE c # pattern[2]
  <2>1. Replaced(z, pattern, char) = (d \o <<pattern[1]>>) \o <<c>>
    BY Zenon, <1>1, <1>3, <1>4, <1>5, <1>7
  <2>2. (d \o <<pattern[1]>>) \o <<c>> = Append(Append(d, pattern[1]), c)
    <3>1. d \o <<pattern[1]>> = Append(d, pattern[1])
      BY Zenon, <1>2, AppendIsConcat
    <3>2. Append(d, pattern[1]) \in Seq(S)
      BY <1>2
    <3>3. QED
      BY Zenon, <3>1, <3>2, AppendIsConcat
  <2>3. QED
    BY <1>7, <2>1, <2>2 DEF z, d
<1>8. QED
  BY <1>6, <1>7

-----------------------------------------------------------------------------
(* Decoding what was encoded, one character of the token at a time.        *)
Spelled == Characters \cup {"~", "/", "0", "1"}
Slash == <<"~", "1">>
Tilde == <<"~", "0">>
HalfDecoded(t) == Replaced(EncodePointerPart(t), Slash, "/")

LEMMA EncodeIn ==
  ASSUME NEW t \in Seq(Spelled)
  PROVE  /\ EncodePointerPart(t) \in Seq(Spelled)
         /\ [i \in DOMAIN t |-> EncodeChar(t[i])] \in Seq(Seq(Spelled))
         /\ Len([i \in DOMAIN t |-> EncodeChar(t[i])]) = Len(t)
<1> DEFINE S == Spelled
           r == [i \in DOMAIN t |-> EncodeChar(t[i])]
<1>1. DOMAIN t = 1 .. Len(t) /\ Len(t) \in Nat /\ \A i \in 1 .. Len(t) : t[i] \in S
  OBVIOUS
<1>2. \A c \in S : EncodeChar(c) \in Seq(S)
  <2>1. "~" \in S /\ "0" \in S /\ "1" \in S
    BY DEF Spelled
  <2> HIDE DEF S
  <2>2. <<"~", "0">> \in Seq(S) /\ <<"~", "1">> \in Seq(S) /\ \A c \in S : <<c>> \in Seq(S)
    BY <2>1
  <2>3. QED
    BY <2>2 DEF EncodeChar
<1>3. r = [i \in 1 .. Len(t) |-> r[i]] /\ \A i \in 1 .. Len(t) : r[i] \in Seq(S)
  <2>1. \A i \in 1 .. Len(t) : r[i] = EncodeChar(t[i])
    BY <1>1
  <2>2. r = [i \in 1 .. Len(t) |-> r[i]]
    BY <1>1
  <2> HIDE DEF r, S
  <2>3. QED
    BY <1>1, <1>2, <2>1, <2>2
<1> HIDE DEF r
<1>4. r \in Seq(Seq(S)) /\ Len(r) = Len(t)
  BY <1>1, <1>3, SeqDef, LenProperties
<1>5. EncodePointerPart(t) = FlattenSeq(r)
  BY Zenon DEF EncodePointerPart, r
<1>6. QED
  BY Zenon, <1>4, <1>5, FlattenIn DEF r

LEMMA EncodeAppend ==
  ASSUME NEW t \in Seq(Spelled), NEW c \in Spelled
  PROVE  EncodePointerPart(Append(t, c)) = EncodePointerPart(t) \o EncodeChar(c)
<1> DEFINE S == Spelled
           n == Len(t)
           z == Append(t, c)
           r == [i \in DOMAIN t |-> EncodeChar(t[i])]
           q == [i \in DOMAIN z |-> EncodeChar(z[i])]
           w == Append(r, EncodeChar(c))
<1>1. /\ n \in Nat /\ DOMAIN t = 1 .. n /\ z \in Seq(S) /\ DOMAIN z = 1 .. n + 1
      /\ z[n + 1] = c /\ \A i \in 1 .. n : z[i] = t[i]
  OBVIOUS
<1>2. r \in Seq(Seq(S)) /\ Len(r) = n
  BY EncodeIn
<1>3. \A i \in 1 .. n : r[i] = EncodeChar(t[i])
  BY <1>1
<1> HIDE DEF z
<1>4. Len(z) = n + 1
  BY <1>1
<1>5. q \in Seq(Seq(S)) /\ Len(q) = n + 1
  BY <1>1, <1>4, EncodeIn
<1>6. \A i \in 1 .. n + 1 : q[i] = EncodeChar(z[i])
  BY <1>1
<1>7. EncodeChar(c) \in Seq(S)
  <2>1. "~" \in S /\ "0" \in S /\ "1" \in S
    BY DEF Spelled
  <2> HIDE DEF S
  <2>2. <<"~", "0">> \in Seq(S) /\ <<"~", "1">> \in Seq(S) /\ <<c>> \in Seq(S)
    BY <2>1 DEF S
  <2>3. QED
    BY <2>2 DEF EncodeChar
<1> HIDE DEF r, q
<1>8. /\ w \in Seq(Seq(S)) /\ Len(w) = n + 1 /\ w[n + 1] = EncodeChar(c)
      /\ \A i \in 1 .. n : w[i] = r[i]
  BY <1>1, <1>2, <1>7
<1> HIDE DEF w
<1>9. \A i \in 1 .. n + 1 : q[i] = w[i]
  <2>1. \A i \in 1 .. n + 1 : i \in 1 .. n \/ i = n + 1
    BY <1>1
  <2>2. QED
    BY <1>1, <1>3, <1>6, <1>8, <2>1
<1>10. q = w
  <2>1. Len(q) = Len(w) /\ \A i \in 1 .. Len(q) : q[i] = w[i]
    BY <1>5, <1>8, <1>9
  <2>2. QED
    BY <1>5, <1>8, <2>1, SeqEqual
<1>11. FlattenSeq(w) = FlattenSeq(r) \o EncodeChar(c)
  BY Zenon, <1>2, <1>7, FlattenAppend DEF w
<1>12. EncodePointerPart(z) = FlattenSeq(q) /\ EncodePointerPart(t) = FlattenSeq(r)
  BY Zenon DEF EncodePointerPart, q, r
<1>13. QED
  BY <1>10, <1>11, <1>12 DEF z

Undone(t) ==
  /\ EncodePointerPart(t) \in Seq(Spelled) /\ ~Waits(EncodePointerPart(t), Slash)
  /\ HalfDecoded(t) \in Seq(Spelled) /\ ~Waits(HalfDecoded(t), Tilde)
  /\ Replaced(HalfDecoded(t), Tilde, "~") = t

LEMMA EmptyUndone == Undone(<<>>)
<1>1. ASSUME NEW r, r \in Seq(Seq(Spelled)), Len(r) = 0 PROVE FlattenSeq(r) = <<>>
  <2>1. r = <<>>
    BY <1>1
  <2>2. QED
    BY Zenon, <2>1, FlattenEmpty
<1>2. <<>> \in Seq(Spelled) /\ Len(<<>>) = 0
  BY EmptySeq
<1>3. EncodePointerPart(<<>>) = <<>>
  <2> DEFINE r == [i \in DOMAIN <<>> |-> EncodeChar(<<>>[i])]
  <2>1. r \in Seq(Seq(Spelled)) /\ Len(r) = 0
    BY Zenon, <1>2, EncodeIn
  <2>2. EncodePointerPart(<<>>) = FlattenSeq(r)
    BY Zenon DEF EncodePointerPart
  <2> HIDE DEF r
  <2>3. QED
    BY Zenon, <1>1, <2>1, <2>2
<1>4. ASSUME NEW pattern, NEW char \in Spelled PROVE Replaced(<<>>, pattern, char) = <<>>
  <2> DEFINE none == <<>>
  <2>1. none \in Seq(Spelled)
    BY <1>2
  <2>2. Len(none) = 0
    BY <1>2
  <2> HIDE DEF none
  <2>3. /\ Pieces(none, pattern, char) \in Seq(Seq(Spelled))
        /\ Len(Pieces(none, pattern, char)) = Len(none)
    BY <2>1, PiecesFacts
  <2>4. Replaced(none, pattern, char) = <<>>
    BY Zenon, <1>1, <2>2, <2>3, ReplacedPieces
  <2>5. QED
    BY <2>4 DEF none
<1>5. "/" \in Spelled /\ "~" \in Spelled
  BY DEF Spelled
<1>6. HalfDecoded(<<>>) = <<>>
  BY Zenon, <1>3, <1>4, <1>5 DEF HalfDecoded
<1>7. \A pattern : ~Waits(<<>>, pattern)
  BY DEF Waits
<1>8. QED
  BY Zenon, <1>2, <1>3, <1>4, <1>5, <1>6, <1>7 DEF Undone

LEMMA AppendUndone ==
  ASSUME NEW t \in Seq(Spelled), NEW c \in Spelled, Undone(t)
  PROVE  Undone(Append(t, c))
<1> DEFINE S == Spelled
           e == EncodePointerPart(t)
           m == HalfDecoded(t)
<1>1. /\ e \in Seq(S) /\ ~Waits(e, Slash) /\ m \in Seq(S) /\ ~Waits(m, Tilde)
      /\ Replaced(e, Slash, "/") = m /\ Replaced(m, Tilde, "~") = t
  BY Zenon DEF Undone, HalfDecoded
<1>2. /\ "~" \in S /\ "/" \in S /\ "0" \in S /\ "1" \in S
      /\ Slash[1] = "~" /\ Slash[2] = "1" /\ Tilde[1] = "~" /\ Tilde[2] = "0"
      /\ Slash[1] \in S /\ Tilde[1] \in S
  BY DEF Spelled, Slash, Tilde
<1>3. EncodePointerPart(Append(t, c)) = e \o EncodeChar(c)
  BY EncodeAppend
<1>4. ASSUME NEW x \in Seq(S), NEW y \in S, y # "~"
      PROVE  /\ Append(x, y) \in Seq(S)
             /\ ~Waits(Append(x, y), Slash) /\ ~Waits(Append(x, y), Tilde)
  <2>1. Append(x, y) \in Seq(S) /\ Append(x, y)[Len(Append(x, y))] = y
    OBVIOUS
  <2>2. QED
    BY <1>2, <1>4, <2>1 DEF Waits
<1> DEFINE Good(f, h) == /\ f \in Seq(S) /\ ~Waits(f, Slash)
                         /\ h \in Seq(S) /\ ~Waits(h, Tilde)
                         /\ Replaced(f, Slash, "/") = h
                         /\ Replaced(h, Tilde, "~") = Append(t, c)
<1>5. ASSUME NEW f, NEW h, f = e \o EncodeChar(c), Good(f, h) PROVE Undone(Append(t, c))
  BY Zenon, <1>3, <1>5 DEF Undone, HalfDecoded
<1> HIDE DEF S, e, m
<1>6. ASSUME NEW a \in S, NEW b \in S
      PROVE  e \o <<a, b>> = Append(Append(e, a), b)
  BY <1>1
<1>7. CASE c = "~"
  <2> DEFINE f == Append(Append(e, "~"), "0")
             h == Append(Append(m, "~"), "0")
  <2>1. f = e \o EncodeChar(c)
    <3>1. EncodeChar(c) = <<"~", "0">>
      BY <1>7 DEF EncodeChar
    <3>2. QED
      BY <1>2, <1>6, <3>1
  <2>2. Append(e, "~") \in Seq(S) /\ Append(m, "~") \in Seq(S)
    BY <1>1, <1>2
  <2>3. /\ f \in Seq(S) /\ ~Waits(f, Slash) /\ h \in Seq(S) /\ ~Waits(h, Tilde)
    BY <1>2, <1>4, <2>2
  <2>4. Replaced(Append(Append(e, Slash[1]), "0"), Slash, "/")
          = Append(Append(Replaced(e, Slash, "/"), Slash[1]), "0")
    <3>1. Replaced(Append(Append(e, Slash[1]), "0"), Slash, "/")
            = IF "0" = Slash[2] THEN Append(Replaced(e, Slash, "/"), "/")
              ELSE Append(Append(Replaced(e, Slash, "/"), Slash[1]), "0")
      <4>1. e \in Seq(S) /\ "/" \in S /\ "0" \in S /\ ~Waits(e, Slash) /\ Slash[1] \in S
        BY <1>1, <1>2
      <4>2. QED
        BY <4>1, ReplacedPair
    <3>2. "0" # Slash[2]
      BY <1>2
    <3>3. QED
      BY Zenon, <3>1, <3>2
  <2>5. Replaced(Append(Append(m, Tilde[1]), "0"), Tilde, "~")
          = Append(Replaced(m, Tilde, "~"), "~")
    <3>1. Replaced(Append(Append(m, Tilde[1]), "0"), Tilde, "~")
            = IF "0" = Tilde[2] THEN Append(Replaced(m, Tilde, "~"), "~")
              ELSE Append(Append(Replaced(m, Tilde, "~"), Tilde[1]), "0")
      <4>1. m \in Seq(S) /\ "~" \in S /\ "0" \in S /\ ~Waits(m, Tilde) /\ Tilde[1] \in S
        BY <1>1, <1>2
      <4>2. QED
        BY <4>1, ReplacedPair
    <3>2. "0" = Tilde[2]
      BY <1>2
    <3>3. QED
      BY Zenon, <3>1, <3>2
  <2>6. Replaced(f, Slash, "/") = h /\ Replaced(h, Tilde, "~") = Append(t, c)
    BY Zenon, <1>1, <1>2, <1>7, <2>4, <2>5
  <2>7. Good(f, h)
    BY Zenon, <2>3, <2>6
  <2>8. QED
    BY Zenon, <1>5, <2>1, <2>7
<1>8. CASE c = "/"
  <2> DEFINE f == Append(Append(e, "~"), "1")
             h == Append(m, "/")
  <2>1. f = e \o EncodeChar(c)
    <3>1. EncodeChar(c) = <<"~", "1">>
      BY <1>8 DEF EncodeChar
    <3>2. QED
      BY <1>2, <1>6, <3>1
  <2>2. Append(e, "~") \in Seq(S)
    BY <1>1, <1>2
  <2>3. f \in Seq(S) /\ ~Waits(f, Slash) /\ h \in Seq(S) /\ ~Waits(h, Tilde)
    BY <1>1, <1>2, <1>4, <2>2
  <2>4. Replaced(Append(Append(e, Slash[1]), "1"), Slash, "/")
          = Append(Replaced(e, Slash, "/"), "/")
    <3>1. Replaced(Append(Append(e, Slash[1]), "1"), Slash, "/")
            = IF "1" = Slash[2] THEN Append(Replaced(e, Slash, "/"), "/")
              ELSE Append(Append(Replaced(e, Slash, "/"), Slash[1]), "1")
      <4>1. e \in Seq(S) /\ "/" \in S /\ "1" \in S /\ ~Waits(e, Slash) /\ Slash[1] \in S
        BY <1>1, <1>2
      <4>2. QED
        BY <4>1, ReplacedPair
    <3>2. "1" = Slash[2]
      BY <1>2
    <3>3. QED
      BY Zenon, <3>1, <3>2
  <2>5. Replaced(Append(m, "/"), Tilde, "~") = Append(Replaced(m, Tilde, "~"), "/")
    BY <1>1, <1>2, ReplacedAppend
  <2>6. Replaced(f, Slash, "/") = h /\ Replaced(h, Tilde, "~") = Append(t, c)
    BY Zenon, <1>1, <1>2, <1>8, <2>4, <2>5
  <2>7. Good(f, h)
    BY Zenon, <2>3, <2>6
  <2>8. QED
    BY Zenon, <1>5, <2>1, <2>7
<1>9. CASE c # "~" /\ c # "/"
  <2> DEFINE f == Append(e, c)
             h == Append(m, c)
  <2>1. f = e \o EncodeChar(c)
    <3>1. EncodeChar(c) = <<c>>
      BY <1>9 DEF EncodeChar
    <3>2. c \in S
      BY DEF S
    <3>3. QED
      BY Zenon, <1>1, <3>1, <3>2, AppendIsConcat
  <2>2. c \in S
    BY DEF S
  <2>3. f \in Seq(S) /\ ~Waits(f, Slash) /\ h \in Seq(S) /\ ~Waits(h, Tilde)
    BY <1>1, <1>4, <1>9, <2>2
  <2>4. Replaced(Append(e, c), Slash, "/") = Append(Replaced(e, Slash, "/"), c)
    BY <1>1, <1>2, <2>2, ReplacedAppend
  <2>5. Replaced(Append(m, c), Tilde, "~") = Append(Replaced(m, Tilde, "~"), c)
    BY <1>1, <1>2, <2>2, ReplacedAppend
  <2>6. Replaced(f, Slash, "/") = h /\ Replaced(h, Tilde, "~") = Append(t, c)
    BY Zenon, <1>1, <2>4, <2>5
  <2>7. Good(f, h)
    BY Zenon, <2>3, <2>6
  <2>8. QED
    BY Zenon, <1>5, <2>1, <2>7
<1>10. QED
  BY <1>7, <1>8, <1>9

(* Decoding a token undoes its escaping, whatever its characters are and   *)
(* however long it is.                                                     *)
THEOREM DecodingUndoesEncoding == WalkSpec => []DecodeUndoesEncode
<1> DEFINE Inv == token \in Seq(Spelled) /\ Undone(token)
<1>1. WalkInit => Inv
  BY EmptyUndone, EmptySeq DEF WalkInit
<1>2. Inv /\ [WalkNext]_walkVars => Inv'
  <2> SUFFICES ASSUME Inv, [WalkNext]_walkVars PROVE Inv'
    OBVIOUS
  <2>1. CASE \E char \in Characters : Spell(char)
    <3>1. PICK char \in Characters : token' = Append(token, char)
      BY <2>1 DEF Spell
    <3>2. char \in Spelled
      BY DEF Spelled
    <3>3. Append(token, char) \in Seq(Spelled)
      BY <3>2
    <3>4. QED
      BY <3>1, <3>2, <3>3, AppendUndone
  <2>2. CASE UNCHANGED token
    BY <2>2
  <2>3. QED
    BY <2>1, <2>2 DEF WalkNext, Operate, walkVars
<1>3. Inv => DecodeUndoesEncode
  BY Zenon DEF DecodeUndoesEncode, DecodePointerPart, Undone, HalfDecoded, Slash, Tilde
<1>4. QED
  BY <1>1, <1>2, <1>3, PTL DEF WalkSpec

-----------------------------------------------------------------------------
(* The copies a list of operations makes of a document.                    *)
IsResults(f, value, operations) ==
  /\ f[0] = value
  /\ \A i \in 1 .. Len(operations) :
       f[i] = IF f[i - 1] = Failed THEN Failed ELSE ApplyOperation(f[i - 1], operations[i])

LEMMA ResultsFacts ==
  ASSUME NEW value, NEW operations, Len(operations) \in Nat
  PROVE  IsResults(Results(value, operations), value, operations)
<1> DEFINE n == Len(operations)
           After(f, i) == IF f[i - 1] = Failed THEN Failed
                            ELSE ApplyOperation(f[i - 1], operations[i])
           Good(f, k) == /\ f = [i \in 0 .. k |-> f[i]]
                         /\ f[0] = value
                         /\ \A i \in 1 .. k : f[i] = After(f, i)
           P == {k \in Nat : \E f : Good(f, k)}
<1>1. 0 \in P
  <2>1. Good([i \in 0 .. 0 |-> value], 0)
    OBVIOUS
  <2>2. QED
    BY <2>1
<1>2. ASSUME NEW k \in Nat, NEW f, Good(f, k) PROVE \E g : Good(g, k + 1)
  <2> DEFINE e == IF f[k] = Failed THEN Failed
                  ELSE ApplyOperation(f[k], operations[k + 1])
             g == [i \in 0 .. k + 1 |-> IF i = k + 1 THEN e ELSE f[i]]
  <2> HIDE DEF e
  <2>1. g[0] = value
    BY <1>2
  <2>2. ASSUME NEW i \in 1 .. k + 1 PROVE g[i] = After(g, i)
    <3>1. /\ i \in 0 .. k + 1 /\ i - 1 \in 0 .. k + 1 /\ i - 1 # k + 1
          /\ g[i - 1] = f[i - 1]
      OBVIOUS
    <3>2. CASE i = k + 1
      <4>1. g[i] = e /\ i - 1 = k
        BY <3>1, <3>2
      <4> HIDE DEF g
      <4>2. QED
        BY <3>1, <3>2, <4>1 DEF e
    <3>3. CASE i # k + 1
      <4>1. g[i] = f[i] /\ i \in 1 .. k
        BY <3>1, <3>3
      <4> HIDE DEF g
      <4>2. QED
        BY <1>2, <3>1, <4>1
    <3>4. QED
      BY <3>2, <3>3
  <2>3. g = [i \in 0 .. k + 1 |-> g[i]]
    OBVIOUS
  <2> HIDE DEF g
  <2>4. Good(g, k + 1)
    BY <2>1, <2>2, <2>3
  <2> HIDE DEF Good
  <2>5. QED
    BY <2>4
<1>3. n \in P
  <2>1. P \in SUBSET Nat /\ \A k \in P : k + 1 \in P
    <3> HIDE DEF Good
    <3>1. QED
      BY <1>2
  <2> HIDE DEF P
  <2>2. QED
    BY <1>1, <2>1, SetInduction
<1>4. PICK f : Good(f, n)
  BY <1>3
<1> DEFINE IsIt(g) == g = [i \in 0 .. n |-> IF i = 0 THEN value ELSE After(g, i)]
<1>5. IsIt(f)
  <2> DEFINE h == [i \in 0 .. n |-> IF i = 0 THEN value ELSE After(f, i)]
  <2>1. ASSUME NEW i \in 0 .. n PROVE f[i] = h[i]
    <3>1. i = 0 \/ i \in 1 .. n
      OBVIOUS
    <3>2. f[0] = value /\ \A j \in 1 .. n : f[j] = After(f, j)
      BY <1>4
    <3> HIDE DEF After
    <3>3. QED
      BY <3>1, <3>2
  <2>2. f = [i \in 0 .. n |-> f[i]]
    BY <1>4
  <2>3. QED
    BY Zenon, <2>1, <2>2
<1>6. IsIt(CHOOSE g : IsIt(g))
  BY Zenon, <1>5
<1>7. Results(value, operations) = CHOOSE g : IsIt(g)
  BY Zenon DEF Results
<1> DEFINE t == CHOOSE g : IsIt(g)
<1>8. t = [i \in 0 .. n |-> IF i = 0 THEN value ELSE After(t, i)]
  BY Zenon, <1>6
<1> HIDE DEF t
<1>9. t[0] = value /\ \A i \in 1 .. n : t[i] = After(t, i)
  <2>1. 0 \in 0 .. n /\ \A i \in 1 .. n : i \in 0 .. n /\ i # 0
    OBVIOUS
  <2> HIDE DEF After
  <2>2. QED
    BY <1>8, <2>1
<1>10. QED
  BY <1>7, <1>9 DEF IsResults, t

(* The copies are documents up to the first operation that fails, and are  *)
(* lost after it.                                                          *)
LEMMA ResultOutcome ==
  ASSUME NEW d, IsDocument(d), NEW operations \in Seq(Operations),
         NEW r, IsResults(r, d, operations)
  PROVE  \A i \in 0 .. Len(operations) : IsOutcome(r[i])
<1> DEFINE n == Len(operations)
           P == {i \in Nat : i <= n => IsOutcome(r[i])}
<1>1. n \in Nat /\ \A i \in 1 .. n : operations[i] \in Operations
  OBVIOUS
<1>2. 0 \in P /\ P \in SUBSET Nat
  BY DEF IsResults, IsOutcome
<1>3. ASSUME NEW i \in Nat, i + 1 <= n, IsOutcome(r[i]) PROVE IsOutcome(r[i + 1])
  <2>1. i + 1 \in 1 .. n /\ (i + 1) - 1 = i
    BY <1>1, <1>3
  <2>2. /\ r[i + 1] = IF r[i] = Failed THEN Failed ELSE ApplyOperation(r[i], operations[i + 1])
        /\ operations[i + 1] \in Operations
    BY <1>1, <2>1 DEF IsResults
  <2>3. CASE r[i] = Failed
    BY <2>2, <2>3 DEF IsOutcome
  <2>4. CASE r[i] # Failed
    <3>1. IsDocument(r[i])
      BY <1>3, <2>4 DEF IsOutcome
    <3>2. IsOutcome(ApplyOperation(r[i], operations[i + 1]))
      BY <2>2, <3>1, ValuesAreDocuments, OperationOutcome
    <3>3. QED
      BY <2>2, <2>4, <3>2
  <2>5. QED
    BY <2>3, <2>4
<1>4. \A i \in P : i + 1 \in P
  BY <1>1, <1>3
<1>5. Nat \subseteq P
  <2> HIDE DEF P
  <2>1. QED
    BY <1>2, <1>4, SetInduction
<1>6. QED
  BY <1>1, <1>5

LEMMA NoResultFailed ==
  ASSUME NEW operations, Len(operations) \in Nat, NEW d, NEW r, IsResults(r, d, operations),
         r[Len(operations)] # Failed
  PROVE  \A i \in 0 .. Len(operations) : r[i] # Failed
<1> DEFINE n == Len(operations)
           P == {k \in Nat : k <= n => r[n - k] # Failed}
<1>1. 0 \in P /\ P \in SUBSET Nat
  OBVIOUS
<1>2. ASSUME NEW k \in Nat, k + 1 <= n, r[n - k] # Failed PROVE r[n - (k + 1)] # Failed
  <2> DEFINE i == n - k
  <2>1. i \in 1 .. n /\ i - 1 = n - (k + 1)
    BY <1>2
  <2> HIDE DEF i
  <2>2. r[i - 1] = Failed => r[i] = Failed
    BY <2>1 DEF IsResults
  <2>3. r[i] # Failed
    BY <1>2 DEF i
  <2>4. QED
    BY <2>1, <2>2, <2>3
<1>3. \A k \in P : k + 1 \in P
  BY <1>2
<1>4. Nat \subseteq P
  <2> HIDE DEF P
  <2>1. QED
    BY <1>1, <1>3, SetInduction
<1>5. ASSUME NEW i \in 0 .. n PROVE r[i] # Failed
  <2>1. n - i \in Nat /\ n - i <= n /\ n - (n - i) = i
    OBVIOUS
  <2>2. n - i \in P
    BY Zenon, <1>4, <2>1
  <2>3. QED
    BY <2>1, <2>2
<1>6. QED
  BY <1>5

(* A list of operations fails or makes a document of a document, which is  *)
(* what the store assumes of it (StoreAssumption): whatever the operations *)
(* are, and wherever in the list the first one fails.                      *)
THEOREM ChangesKeepDocuments ==
  ASSUME NEW d, IsDocument(d), NEW operations \in Seq(Operations)
  PROVE  IsOutcome(ApplyOperations(d, operations))
<1> DEFINE r == Results(d, operations)
           n == Len(operations)
<1>1. n \in Nat /\ n \in 0 .. n
  OBVIOUS
<1>2. IsResults(r, d, operations)
  BY ResultsFacts
<1> HIDE DEF r
<1>3. IsOutcome(r[n])
  BY <1>1, <1>2, ResultOutcome
<1>4. QED
  BY <1>3 DEF ApplyOperations, r

(* An accepted change leaves alone what lies beside the paths of all its   *)
(* operations: each path is judged in the copy that its operation meets.   *)
THEOREM ChangesKeepTheRest ==
  ASSUME NEW d, IsDocument(d), NEW operations \in Seq(Operations),
         ApplyOperations(d, operations) # Failed,
         NEW other \in Seq(Tokens),
         \A i \in 1 .. Len(operations) :
           LET path == operations[i].path IN
           Parts(other, path, Trail(Results(d, operations)[i - 1], path, EmptyObject))
  PROVE  At(ApplyOperations(d, operations), other) = At(d, other)
<1> DEFINE r == Results(d, operations)
           n == Len(operations)
           P == {i \in Nat : i <= n => At(r[i], other) = At(d, other)}
<1>1. n \in Nat /\ \A i \in 1 .. n : operations[i] \in Operations
  OBVIOUS
<1>2. IsResults(r, d, operations)
  BY ResultsFacts
<1>3. \A i \in 1 .. n : Parts(other, operations[i].path,
                              Trail(r[i - 1], operations[i].path, EmptyObject))
  OBVIOUS
<1>4. r[n] # Failed
  BY DEF ApplyOperations
<1> HIDE DEF r
<1>5. \A i \in 0 .. n : r[i] # Failed
  BY <1>1, <1>2, <1>4, NoResultFailed
<1>6. \A i \in 0 .. n : IsDocument(r[i])
  BY <1>2, <1>5, ResultOutcome DEF IsOutcome
<1>7. 0 \in P /\ P \in SUBSET Nat
  BY <1>2 DEF IsResults
<1>8. ASSUME NEW i \in Nat, i + 1 <= n PROVE At(r[i + 1], other) = At(r[i], other)
  <2>1. i + 1 \in 1 .. n /\ (i + 1) - 1 = i /\ i \in 0 .. n /\ i + 1 \in 0 .. n
    BY <1>1, <1>8
  <2> DEFINE operation == operations[i + 1]
  <2>2. operation \in Operations /\ IsDocument(r[i]) /\ r[i] # Failed /\ r[i + 1] # Failed
    BY <1>1, <1>5, <1>6, <2>1
  <2>3. Parts(other, operation.path, Trail(r[i], operation.path, EmptyObject))
    BY <1>3, <2>1
  <2>4. r[i + 1] = ApplyOperation(r[i], operation)
    BY <1>2, <2>1, <2>2 DEF IsResults
  <2> HIDE DEF operation
  <2>5. QED
    BY <2>2, <2>3, <2>4, OperationKeeps
<1>9. \A i \in P : i + 1 \in P
  BY <1>1, <1>8
<1>10. Nat \subseteq P
  <2> HIDE DEF P
  <2>1. QED
    BY <1>7, <1>9, SetInduction
<1>11. At(r[n], other) = At(d, other)
  BY <1>1, <1>10
<1>12. QED
  BY <1>11 DEF ApplyOperations, r
=============================================================================
