--------------------------- MODULE ExampleProofs ---------------------------
(***************************************************************************)
(* Proofs about the example programs with the coordinator: no task is left *)
(* behind once everything is handled, and of the changes with one base one *)
(* wins, for any number of workers, submitters and packages.               *)
(***************************************************************************)
EXTENDS ExampleClients, ChangeStoreProofs, FiniteSetTheorems

-----------------------------------------------------------------------------
(* The frames of a sequence, as a set.                                     *)
LEMMA AppendRange ==
  ASSUME NEW s, NEW e, IsSequence(s)
  PROVE  Range(Append(s, e)) = Range(s) \cup {e}
<1>1. Len(s) \in Nat /\ DOMAIN s = 1..Len(s)
  BY SequenceFacts
<1>2. /\ DOMAIN Append(s, e) = 1..(Len(s) + 1)
      /\ \A i \in 1..Len(s) : Append(s, e)[i] = s[i]
      /\ Append(s, e)[Len(s) + 1] = e
  BY AppendFacts
<1> DEFINE a == Append(s, e)
           n == Len(s)
<1>3. /\ n \in Nat /\ DOMAIN s = 1..n /\ DOMAIN a = 1..(n + 1)
      /\ \A i \in 1..n : a[i] = s[i]
      /\ a[n + 1] = e
  BY <1>1, <1>2
<1> HIDE DEF a, n
<1>4. Range(a) = Range(s) \cup {e}
  BY <1>3 DEF Range
<1>5. QED
  BY <1>4 DEF a

LEMMA TailRange ==
  ASSUME NEW s, IsSequence(s), s # <<>>
  PROVE  Range(s) = Range(Tail(s)) \cup {Head(s)}
<1>1. Len(s) \in Nat /\ DOMAIN s = 1..Len(s) /\ Len(s) > 0
  BY SequenceFacts
<1>2. /\ DOMAIN Tail(s) = 1..(Len(s) - 1)
      /\ \A i \in 1..(Len(s) - 1) : Tail(s)[i] = s[i + 1]
      /\ Head(s) = s[1]
  BY TailFacts
<1> DEFINE r == Tail(s)
           n == Len(s)
           h == Head(s)
<1>3. /\ n \in Nat /\ n > 0 /\ DOMAIN s = 1..n /\ DOMAIN r = 1..(n - 1)
      /\ \A i \in 1..(n - 1) : r[i] = s[i + 1]
      /\ h = s[1]
  BY <1>1, <1>2
<1> HIDE DEF r, n, h
<1>4. ASSUME NEW i \in 1..n PROVE s[i] \in Range(r) \cup {h}
  <2>1. i = 1 \/ (i - 1 \in 1..(n - 1) /\ r[i - 1] = s[(i - 1) + 1])
    BY <1>3
  <2>2. i = 1 \/ (i - 1 \in 1..(n - 1) /\ r[i - 1] = s[i])
    BY <1>3, <2>1
  <2>3. QED
    BY <1>3, <2>2 DEF Range
<1>5. \A i \in 1..(n - 1) : r[i] \in Range(s)
  BY <1>3 DEF Range
<1>6. h \in Range(s)
  BY <1>3 DEF Range
<1>7. Range(s) = Range(r) \cup {h}
  BY <1>3, <1>4, <1>5, <1>6 DEF Range
<1>8. QED
  BY <1>7 DEF r, h

LEMMA EmptyRange == Range(<<>>) = {} /\ IsSequence(<<>>)
<1>1. IsSequence(<<>>)
  BY EmptySeq, SequenceOver
<1>2. QED
  BY <1>1, EmptySeq DEF Range

-----------------------------------------------------------------------------
(* The frames on their way to a connection.                                *)
Frames(c) == Range(wire[c]) \cup Range(scheduled[c])

LinksOK ==
  /\ DOMAIN wire = Conns /\ DOMAIN scheduled = Conns
  /\ \A c \in Conns : IsSequence(wire[c]) /\ IsSequence(scheduled[c])

(* A frame that a handler writes to its own client.                        *)
LEMMA WrittenFrames ==
  ASSUME LinksOK, NEW c \in Conns, NEW message,
         wire' = Written(c, message), UNCHANGED scheduled
  PROVE  /\ LinksOK'
         /\ Frames(c)' = Frames(c) \cup {[message |-> message, by |-> c]}
         /\ \A d \in Conns : d # c => Frames(d)' = Frames(d)
<1> DEFINE f == [message |-> message, by |-> c]
<1>1. /\ DOMAIN wire' = Conns /\ wire'[c] = Append(wire[c], f)
      /\ \A d \in Conns : d # c => wire'[d] = wire[d]
  BY DEF LinksOK, Written
<1> HIDE DEF f
<1>2. IsSequence(wire'[c]) /\ Range(wire'[c]) = Range(wire[c]) \cup {f}
  <2>1. IsSequence(wire[c])
    BY DEF LinksOK
  <2>2. IsSequence(Append(wire[c], f)) /\ Range(Append(wire[c], f)) = Range(wire[c]) \cup {f}
    BY <2>1, AppendRange, SequenceClosed
  <2>3. QED
    BY <1>1, <2>2
<1>3. \A d \in Conns : IsSequence(wire'[d])
  BY <1>1, <1>2 DEF LinksOK
<1>4. QED
  BY <1>1, <1>2, <1>3 DEF LinksOK, Frames, f

(* A broadcast.                                                            *)
LEMMA BroadcastFrames ==
  ASSUME LinksOK, NEW c \in Conns, NEW message, NEW excluded,
         Broadcast(c, message, excluded), UNCHANGED wire
  PROVE  /\ LinksOK'
         /\ \A d \in Conns :
              Frames(d)' = Frames(d) \cup
                (IF clients[d] # "absent" /\ d \notin excluded
                 THEN {[message |-> message, by |-> c]} ELSE {})
<1> DEFINE f == [message |-> message, by |-> c]
<1>1. /\ DOMAIN scheduled' = Conns
      /\ \A d \in Conns :
           scheduled'[d] = IF clients[d] # "absent" /\ d \notin excluded
                           THEN Append(scheduled[d], f) ELSE scheduled[d]
  BY DEF Broadcast
<1> HIDE DEF f
<1>2. ASSUME NEW d \in Conns
      PROVE  /\ IsSequence(scheduled'[d])
             /\ Range(scheduled'[d]) = Range(scheduled[d]) \cup
                  (IF clients[d] # "absent" /\ d \notin excluded THEN {f} ELSE {})
  <2>1. IsSequence(scheduled[d])
    BY DEF LinksOK
  <2>2. /\ IsSequence(Append(scheduled[d], f))
        /\ Range(Append(scheduled[d], f)) = Range(scheduled[d]) \cup {f}
    BY <2>1, AppendRange, SequenceClosed
  <2>3. QED
    BY <1>1, <2>1, <2>2
<1>3. QED
  BY <1>1, <1>2 DEF LinksOK, Frames, f

(* A scheduled send starts.                                                *)
LEMMA SentFrames ==
  ASSUME LinksOK, NEW c \in Conns, StartSend(c)
  PROVE  /\ LinksOK'
         /\ \A d \in Conns : Frames(d)' \subseteq Frames(d) /\ (up[d] => Frames(d)' = Frames(d))
<1>1. /\ scheduled[c] # <<>>
      /\ DOMAIN scheduled' = Conns /\ DOMAIN wire' = Conns
      /\ scheduled'[c] = Tail(scheduled[c])
      /\ wire'[c] = IF up[c] THEN Append(wire[c], Head(scheduled[c])) ELSE wire[c]
      /\ \A d \in Conns : d # c => wire'[d] = wire[d] /\ scheduled'[d] = scheduled[d]
  BY DEF StartSend, LinksOK
<1>2. IsSequence(wire[c]) /\ IsSequence(scheduled[c])
  BY DEF LinksOK
<1>3. IsSequence(wire'[c]) /\ IsSequence(scheduled'[c])
  BY <1>1, <1>2, SequenceClosed
<1>4. Range(scheduled[c]) = Range(scheduled'[c]) \cup {Head(scheduled[c])}
  BY <1>1, <1>2, TailRange
<1>5. Range(wire'[c]) = Range(wire[c]) \cup (IF up[c] THEN {Head(scheduled[c])} ELSE {})
  BY <1>1, <1>2, AppendRange
<1>6. LinksOK'
  BY <1>1, <1>3 DEF LinksOK
<1>7. Frames(c)' \subseteq Frames(c) /\ (up[c] => Frames(c)' = Frames(c))
  BY <1>4, <1>5 DEF Frames
<1>8. \A d \in Conns : d # c => Frames(d)' = Frames(d)
  BY <1>1 DEF Frames
<1>9. QED
  BY <1>6, <1>7, <1>8

(* The client reads its next frame.                                        *)
LEMMA ReadFrames ==
  ASSUME LinksOK, NEW c \in Conns, Read(c)
  PROVE  /\ LinksOK'
         /\ Frames(c) = Frames(c)' \cup {Head(wire[c])}
         /\ \A d \in Conns : d # c => Frames(d)' = Frames(d)
<1>1. /\ wire[c] # <<>> /\ UNCHANGED scheduled
      /\ DOMAIN wire' = Conns /\ wire'[c] = Tail(wire[c])
      /\ \A d \in Conns : d # c => wire'[d] = wire[d]
  BY DEF Read, LinksOK
<1>2. IsSequence(wire[c]) /\ IsSequence(scheduled[c])
  BY DEF LinksOK
<1>3. IsSequence(wire'[c]) /\ Range(wire[c]) = Range(wire'[c]) \cup {Head(wire[c])}
  BY <1>1, <1>2, SequenceClosed, TailRange
<1>4. LinksOK'
  BY <1>1, <1>3 DEF LinksOK
<1>5. QED
  BY <1>1, <1>3, <1>4 DEF Frames

(* The connection is gone, with what was written to it.                    *)
LEMMA LostFrames ==
  ASSUME LinksOK, NEW c \in Conns, UNCHANGED scheduled,
         DOMAIN wire' = Conns, wire'[c] = <<>>,
         \A d \in Conns : d # c => wire'[d] = wire[d]
  PROVE  /\ LinksOK'
         /\ \A d \in Conns : Frames(d)' \subseteq Frames(d) /\ (d # c => Frames(d)' = Frames(d))
BY EmptyRange DEF LinksOK, Frames

-----------------------------------------------------------------------------
(* The invariant: types; of the frames the proofs only use that they are   *)
(* in sequences, and that a request names a task.                          *)
HandlerStates == {"new", "snapshot", "replay", "read", "ended"}
Places == {"new", "hello", "serve", "wait", "registered", "answer", "done"}

TablesOK ==
  /\ StoreTypeOK
  /\ clients \in [Conns -> {"absent", "unknown", "registered"}]
  /\ pending \in [Tasks -> Nat] /\ arrivals \in Nat
  /\ claimed \in [Tasks -> Conns \cup {NoOne}]
  /\ handler \in [Conns -> [pc : HandlerStates, size : Nat, cursor : Nat]]
  /\ up \in [Conns -> BOOLEAN]

RequestsKnown ==
  \A c \in Conns : \A f \in Frames(c) :
    f.message.type = "task.request" => f.message.id \in Tasks

(* What a program sends, by its kind.                                      *)
Sends(c, m) ==
  /\ m \in Message
  /\ m.type \in {"client.register", "task.request", "task.claim", "task.result", "state.patch"}
  /\ m.type = "task.request" => Program[c] = "submitter"
  /\ m.type \in {"task.claim", "task.result"} => Program[c] = "worker"
  /\ m.type = "task.claim" => m.client = c
  /\ m.type = "state.patch" => Program[c] = "package" /\ m.change = ChangeOf[c]

ProgramsOK ==
  /\ Program \in Casts
  /\ at \in [Conns -> Places]
  /\ DOMAIN answer = Conns
  /\ DOMAIN inbox = Conns
  /\ \A c \in Conns : /\ IsSequence(inbox[c])
                      /\ \A i \in DOMAIN inbox[c] : Sends(c, inbox[c][i])

TypesOK == TablesOK /\ LinksOK /\ RequestsKnown /\ ProgramsOK

(* Packages.  An acceptance of the change of p is on its way to somebody,  *)
(* or is what p was told.                                                  *)
Tells(f, p) == f.message.type = "state.accepted" /\ f.message.change = ChangeOf[p].change
IsTold(p) == \E d \in Conns : \E f \in Frames(d) : Tells(f, p)
Won(p) == Program[p] = "package" /\ (IsTold(p) \/ answer[p] = "state.accepted")

(* The store is past the base of a change that was accepted, and no other  *)
(* with its base was.                                                      *)
Revision(p) == Get(ChangeOf[p].resource).revision
WinnersArePast ==
  \A p \in Conns : Won(p) =>
    Revision(p) > 0 /\ (ChangeOf[p].base # NoBase => Revision(p) > ChangeOf[p].base)

SameBase(p, q) ==
  /\ Program[p] = "package" /\ Program[q] = "package"
  /\ ChangeOf[p].resource = ChangeOf[q].resource
  /\ ChangeOf[p].base = ChangeOf[q].base /\ ChangeOf[p].base # NoBase
OneWinner == \A p, q \in Conns : Won(p) /\ Won(q) /\ SameBase(p, q) => p = q

PackagesOK == WinnersArePast /\ OneWinner

(* Workers.  Ranks tell pending tasks apart.                               *)
RanksDiffer ==
  /\ \A t \in Tasks : pending[t] <= arrivals
  /\ \A t, u \in Tasks : pending[t] > 0 /\ pending[t] = pending[u] => t = u

(* How far a connection has come: a replay starts at cursor 0; before the  *)
(* handler there is nothing; an open connection is in the table; a worker  *)
(* registers after hello.                                                  *)
Progress(c) ==
  /\ handler[c].pc \in {"new", "read", "snapshot"} => handler[c].cursor = 0
  /\ handler[c].pc = "new" => ~up[c] /\ inbox[c] = <<>> /\ \A t \in Tasks : claimed[t] # c
  /\ at[c] = "new" <=> handler[c].pc = "new"
  /\ up[c] => clients[c] # "absent"
  /\ Program[c] = "worker" /\ at[c] = "hello" => inbox[c] = <<>> /\ clients[c] # "registered"

ClaimAt(c, i, t) == inbox[c][i].type = "task.claim" /\ inbox[c][i].id = t
ResultAt(c, i, t) == inbox[c][i].type = "task.result" /\ inbox[c][i].id = t
ResultSent(c, t) == \E i \in DOMAIN inbox[c] : ResultAt(c, i, t)
ClaimsFollowed(c, t) ==
  \A i \in DOMAIN inbox[c] : ClaimAt(c, i, t) =>
    \E j \in DOMAIN inbox[c] : i < j /\ ResultAt(c, j, t)

(* A registered worker will be told of a pending task, or has been and its *)
(* result is on its way.                                                   *)
Requested(c, t) == \E f \in Frames(c) : f.message.type = "task.request" /\ f.message.id = t
WillReplay(c, t) == handler[c].pc \in {"snapshot", "replay"} /\ pending[t] > handler[c].cursor
Expects(c, t) == WillReplay(c, t) \/ Requested(c, t) \/ ResultSent(c, t)

(* A claim on its way is followed by its result, for a claim that is held  *)
(* the result is on its way, and of a pending task a worker hears.         *)
Served(c, t) ==
  up[c] =>
    /\ ClaimsFollowed(c, t)
    /\ claimed[t] = c => ResultSent(c, t)
    /\ Program[c] = "worker" /\ clients[c] = "registered" /\ pending[t] > 0 => Expects(c, t)

WorkersOK ==
  /\ RanksDiffer
  /\ \A c \in Conns : Progress(c)
  /\ \A c \in Conns, t \in Tasks : Served(c, t)

ProgramsInv == TypesOK /\ PackagesOK /\ WorkersOK

-----------------------------------------------------------------------------
LEMMA MessageFields ==
  ASSUME NEW m \in Message
  PROVE  /\ m.type \in {"task.request", "task.result", "task.claim"} => m.id \in Tasks
         /\ m.type = "state.patch" => m.change \in Change
BY DEF Message, RelayTypes, RejectedTypes, TelemetryTypes

(* The steps that answer the sender and the steps that end its handler     *)
(* leave every resource as it was.                                         *)
KeepsResources == StoreTypeOK' /\ \A id : Get(id)' = Get(id)

Answers(c) ==
  /\ \E message : /\ message.type \notin {"state.accepted", "task.request"}
                  /\ wire' = Written(c, message)
  /\ UNCHANGED <<clients, pending, arrivals, claimed, handler, up, scheduled>>

Ends(c) == EndHandler(c) /\ UNCHANGED <<pending, arrivals, claimed, wire, scheduled>>

Registers(c) ==
  /\ up[c]
  /\ clients' = [clients EXCEPT ![c] = "registered"]
  /\ handler' = [handler EXCEPT ![c].pc = "snapshot"]
  /\ wire' = Written(c, Snapshot)
  /\ UNCHANGED <<pending, arrivals, claimed, up, scheduled>>

Requests(c, t) ==
  /\ IF pending[t] > 0 THEN UNCHANGED <<pending, arrivals>>
     ELSE /\ arrivals' = arrivals + 1
          /\ pending' = [pending EXCEPT ![t] = arrivals + 1]
  /\ \E message : /\ message.type = "task.request" /\ message.id = t
                  /\ Broadcast(c, message, {c})
  /\ UNCHANGED <<clients, claimed, handler, up, wire>>

Claims(c, t) ==
  /\ claimed' = [claimed EXCEPT ![t] = c]
  /\ \E message : message.type = "task.claim" /\ Broadcast(c, message, {})
  /\ UNCHANGED <<clients, pending, arrivals, handler, up, wire>>

Finishes(c, t) ==
  /\ pending' = [pending EXCEPT ![t] = 0]
  /\ claimed' = [claimed EXCEPT ![t] = NoOne]
  /\ \E message : message.type = "task.result" /\ Broadcast(c, message, {})
  /\ UNCHANGED <<clients, arrivals, handler, up, wire>>

Changes(c, ch) ==
  /\ Accept(ch)
  /\ Broadcast(c, Accepted(ch, ChangedResource(ch)), {})
  /\ UNCHANGED <<clients, pending, arrivals, claimed, handler, up, wire>>

LEMMA ReplyMoves ==
  ASSUME NEW c \in Conns, NEW message, Reply(c, message),
         message.type \notin {"state.accepted", "task.request"},
         UNCHANGED <<pending, arrivals, claimed, scheduled>>
  PROVE  Answers(c) \/ Ends(c)
BY DEF Reply, Answers, Ends

(* A call of the store that changes nothing.                               *)
LEMMA KeptResources ==
  ASSUME StoreTypeOK, UNCHANGED resources
  PROVE  KeepsResources
BY DEF KeepsResources, StoreTypeOK, Get

LEMMA LookedUp ==
  ASSUME StoreTypeOK, NEW ch \in Change, Conflict(ch) \/ Refuse(ch)
  PROVE  KeepsResources
<1>1. resources' = Stored(ch.resource, Get(ch.resource))
  BY DEF Conflict, Refuse
<1>2. \A id : Get(id)' = Get(id)
  BY <1>1, GetStored
<1>3. QED
  BY <1>2, StoreStepType DEF KeepsResources

(* What the handling of a message of a program does.                       *)
LEMMA HandleMoves ==
  ASSUME StoreTypeOK, NEW c \in Conns, NEW m, Sends(c, m), Handle(c, m)
  PROVE  /\ handler[c].pc = "read"
         /\ \/ /\ KeepsResources
               /\ \/ Ends(c)
                  \/ Answers(c) /\ m.type # "task.result"
                  \/ Registers(c) /\ m.type = "client.register"
                  \/ /\ Requests(c, m.id) /\ m.type = "task.request" /\ m.id \in Tasks
                     /\ Program[c] = "submitter"
                  \/ Claims(c, m.id) /\ m.type = "task.claim" /\ m.id \in Tasks
                  \/ Finishes(c, m.id) /\ m.type = "task.result" /\ m.id \in Tasks
            \/ /\ m.type = "state.patch" /\ Program[c] = "package"
               /\ Changes(c, ChangeOf[c]) /\ ChangeOf[c] \in Change
<1>0. /\ m \in Message
      /\ m.type \in {"client.register", "task.request", "task.claim", "task.result", "state.patch"}
      /\ m.type = "task.request" => Program[c] = "submitter"
      /\ m.type = "task.claim" => m.client = c
      /\ m.type = "state.patch" => Program[c] = "package" /\ m.change = ChangeOf[c]
  BY DEF Sends
<1>1. handler[c].pc = "read"
  BY DEF Handle, Ready
<1>2. /\ m.type \in {"task.request", "task.result", "task.claim"} => m.id \in Tasks
      /\ m.type = "state.patch" => m.change \in Change
  BY <1>0, MessageFields
<1>3. \A code : Error(code).type = "error"
  BY DEF Error
<1>4. CASE HandleRegister(c, m)
  <2>1. m.type = "client.register" /\ KeepsResources
    BY <1>4, KeptResources DEF HandleRegister
  <2>2. Registers(c) \/ Ends(c)
    BY <1>4 DEF HandleRegister, Registers, Ends
  <2>3. QED
    BY <1>1, <2>1, <2>2
<1>5. CASE HandleTaskRequest(c, m)
  <2>1. m.type = "task.request" /\ KeepsResources
    BY <1>5, KeptResources DEF HandleTaskRequest
  <2>2. Requests(c, m.id)
    BY <1>5 DEF HandleTaskRequest, Requests
  <2>3. QED
    BY <1>0, <1>1, <1>2, <2>1, <2>2
<1>6. CASE HandleTaskClaim(c, m)
  <2>1. m.type = "task.claim" /\ KeepsResources /\ UNCHANGED <<pending, arrivals>>
    BY <1>6, KeptResources DEF HandleTaskClaim
  <2>2. CASE Reply(c, Error("already_claimed")) /\ UNCHANGED <<claimed, scheduled>>
    <3>1. Answers(c) \/ Ends(c)
      BY <1>3, <2>1, <2>2, ReplyMoves
    <3>2. QED
      BY <1>1, <2>1, <3>1
  <2>3. CASE /\ claimed' = [claimed EXCEPT ![m.id] = m.client]
             /\ Broadcast(c, m, {}) /\ UNCHANGED <<clients, handler, up, wire>>
    <3>1. Claims(c, m.id)
      BY <1>0, <2>1, <2>3 DEF Claims
    <3>2. QED
      BY <1>1, <1>2, <2>1, <3>1
  <2>4. QED
    BY <1>6, <2>2, <2>3 DEF HandleTaskClaim
<1>7. CASE HandleTaskResult(c, m)
  <2>1. m.type = "task.result" /\ KeepsResources
    BY <1>7, KeptResources DEF HandleTaskResult
  <2>2. Finishes(c, m.id)
    BY <1>7 DEF HandleTaskResult, Finishes
  <2>3. QED
    BY <1>1, <1>2, <2>1, <2>2
<1>8. CASE HandlePatch(c, m)
  <2>1. m.type = "state.patch" /\ UNCHANGED <<pending, arrivals, claimed>>
    BY <1>8 DEF HandlePatch
  <2>2. m.change \in Change
    BY <1>2, <2>1
  <2>3. CASE /\ Accept(m.change)
             /\ Broadcast(c, Accepted(m.change, ChangedResource(m.change)), {})
             /\ UNCHANGED <<clients, handler, up, wire>>
    <3>1. Changes(c, m.change)
      BY <2>1, <2>3 DEF Changes
    <3>2. QED
      BY <1>0, <1>1, <2>1, <2>2, <3>1
  <2>4. CASE /\ Conflict(m.change) \/ Refuse(m.change)
             /\ Reply(c, ConflictReply(m.change)) \/ Reply(c, Error("invalid_patch"))
             /\ UNCHANGED scheduled
    <3>1. ConflictReply(m.change).type = "state.conflict"
      BY DEF ConflictReply
    <3>2. Answers(c) \/ Ends(c)
      BY <1>3, <2>1, <2>4, <3>1, ReplyMoves
    <3>3. KeepsResources
      BY <2>2, <2>4, LookedUp
    <3>4. QED
      BY <1>1, <2>1, <3>2, <3>3
  <2>5. QED
    BY <1>8, <2>3, <2>4 DEF HandlePatch
<1>9. QED
  BY <1>0, <1>4, <1>5, <1>6, <1>7, <1>8
     DEF Handle, HandleTelemetry, HandleRelay, HandleRejected, HandleMalformed,
         TelemetryTypes, RelayTypes, RejectedTypes

(* A step that announces no acceptance: nobody wins by it.                 *)
Untold ==
  /\ \A id : Get(id)' = Get(id)
  /\ \A d \in Conns : \A f \in Frames(d)' :
       f \in Frames(d) \/ f.message.type # "state.accepted"

(* A frame more for one connection or for several.                         *)
LEMMA GrownFrames ==
  ASSUME LinksOK, RequestsKnown, NEW c \in Conns, NEW message,
         message.type = "task.request" => message.id \in Tasks,
         \/ wire' = Written(c, message) /\ UNCHANGED scheduled
         \/ UNCHANGED wire /\ \E excluded : Broadcast(c, message, excluded)
  PROVE  /\ LinksOK' /\ RequestsKnown'
         /\ \A d \in Conns : Frames(d) \subseteq Frames(d)'
         /\ \A d \in Conns : \A f \in Frames(d)' : f \in Frames(d) \/ f.message = message
<1> DEFINE frame == [message |-> message, by |-> c]
<1>1. LinksOK' /\ \A d \in Conns : \/ Frames(d)' = Frames(d)
                                   \/ Frames(d)' = Frames(d) \cup {frame}
  <2>1. CASE wire' = Written(c, message) /\ UNCHANGED scheduled
    BY <2>1, WrittenFrames
  <2>2. ASSUME NEW excluded, Broadcast(c, message, excluded), UNCHANGED wire
        PROVE  LinksOK' /\ \A d \in Conns : \/ Frames(d)' = Frames(d)
                                            \/ Frames(d)' = Frames(d) \cup {frame}
    <3>1. /\ LinksOK'
          /\ \A d \in Conns :
               Frames(d)' = Frames(d) \cup
                 (IF clients[d] # "absent" /\ d \notin excluded THEN {frame} ELSE {})
      BY <2>2, BroadcastFrames
    <3> HIDE DEF frame
    <3>2. QED
      BY <3>1
  <2>3. QED
    BY <2>1, <2>2
<1>2. frame.message = message
  OBVIOUS
<1> HIDE DEF frame
<1>3. /\ \A d \in Conns : Frames(d) \subseteq Frames(d)'
      /\ \A d \in Conns : \A f \in Frames(d)' : f \in Frames(d) \/ f.message = message
  BY <1>1, <1>2
<1>4. RequestsKnown'
  BY <1>3 DEF RequestsKnown
<1>5. QED
  BY <1>1, <1>3, <1>4

LEMMA FewerFrames ==
  ASSUME RequestsKnown, \A d \in Conns : Frames(d)' \subseteq Frames(d)
  PROVE  /\ RequestsKnown'
         /\ (\A id : Get(id)' = Get(id)) => Untold
BY DEF RequestsKnown, Untold

-----------------------------------------------------------------------------
(* Packages.                                                               *)

LEMMA UntoldStep ==
  ASSUME PackagesOK, Untold, UNCHANGED Program,
         \A p \in Conns : Program[p] = "package" /\ answer'[p] = "state.accepted" => Won(p)
  PROVE  PackagesOK'
<1>1. \A p \in Conns : IsTold(p)' => IsTold(p)
  BY DEF Untold, IsTold, Tells
<1>2. \A p \in Conns : Won(p)' => Won(p)
  BY <1>1 DEF Won
<1>3. \A p \in Conns : Revision(p)' = Revision(p)
  BY DEF Untold, Revision
<1>4. \A p, q \in Conns : SameBase(p, q)' = SameBase(p, q)
  BY DEF SameBase
<1>5. WinnersArePast'
  BY <1>2, <1>3 DEF PackagesOK, WinnersArePast
<1>6. OneWinner'
  BY <1>2, <1>4 DEF PackagesOK, OneWinner
<1>7. QED
  BY <1>5, <1>6 DEF PackagesOK

LEMMA ProgramFacts ==
  ASSUME ProgramsOK
  PROVE  /\ \A c \in Conns : Program[c] = "package" => ChangeOf[c] \in Change
         /\ \A c \in Conns : Program[c] = "submitter" => TaskOf[c] \in Tasks
         /\ \A c, d \in Conns : Program[c] = "package" /\ Program[d] = "package"
              /\ ChangeOf[c].change = ChangeOf[d].change => c = d
BY ProgramAssumption DEF ProgramsOK

(* An accepted change: its package wins, and no other does.                *)
LEMMA AcceptStep ==
  ASSUME TypesOK, PackagesOK, UNCHANGED <<Program, answer>>,
         NEW c \in Conns, Program[c] = "package", Changes(c, ChangeOf[c])
  PROVE  PackagesOK'
<1> DEFINE ch == ChangeOf[c]
<1>1. /\ ch \in Change /\ ch.resource \in Resources /\ ch.base \in Nat \cup {NoBase}
      /\ \A p \in Conns : Program[p] = "package" => ChangeOf[p].resource \in Resources
      /\ \A p \in Conns : Program[p] = "package" => ChangeOf[p].base \in Nat \cup {NoBase}
  BY ProgramFacts DEF TypesOK, Change
<1>2. /\ RevisionMatches(ch)
      /\ resources' = Stored(ch.resource, ChangedResource(ch))
  BY DEF Changes, Accept
<1>3. \A p \in Conns : Program[p] = "package" => Revision(p) \in Nat
  BY <1>1, GetType DEF Revision, TypesOK, TablesOK, Resource
<1>4. \A p \in Conns : Revision(p)' = IF ChangeOf[p].resource = ch.resource
                                      THEN Revision(c) + 1 ELSE Revision(p)
  BY <1>2, GetStored DEF Revision, ChangedResource
<1>5. \A p \in Conns : ChangeOf[p].resource = ch.resource => Revision(p) = Revision(c)
  BY DEF Revision
<1>6. \A p \in Conns : Won(p)' => Won(p) \/ p = c
  <2> SUFFICES ASSUME NEW p \in Conns, Won(p)', ~Won(p) PROVE p = c
    OBVIOUS
  <2>1. Program[p] = "package" /\ IsTold(p)' /\ ~IsTold(p)
    BY DEF Won
  <2> PICK d \in Conns : \E f \in Frames(d)' : Tells(f, p)
    BY <2>1 DEF IsTold, Tells
  <2>2. PICK f \in Frames(d)' : Tells(f, p)
    OBVIOUS
  <2>3. Tells(f, p)
    BY <2>2
  <2>4. f \notin Frames(d)
    BY <2>1, <2>3 DEF IsTold
  <2>5. f.message = Accepted(ch, ChangedResource(ch))
    <3>1. Frames(d)' \subseteq Frames(d) \cup
            {[message |-> Accepted(ch, ChangedResource(ch)), by |-> c]}
      BY BroadcastFrames DEF Changes, TypesOK
    <3>2. QED
      BY <2>2, <2>4, <3>1
  <2>6. ch.change = ChangeOf[p].change
    BY <2>3, <2>5 DEF Tells, Accepted
  <2>7. QED
    BY <2>1, <2>6, ProgramFacts DEF TypesOK
<1>7. ch.base # NoBase => Revision(c) = ch.base
  BY <1>2 DEF RevisionMatches, Revision
<1>8. WinnersArePast'
  <2> SUFFICES ASSUME NEW p \in Conns, Won(p)'
               PROVE  Revision(p)' > 0 /\ (ChangeOf[p].base # NoBase => Revision(p)' > ChangeOf[p].base)
    BY DEF WinnersArePast
  <2>1. Program[p] = "package"
    BY DEF Won
  <2>2. CASE p = c
    BY <1>1, <1>3, <1>4, <1>7, <2>1, <2>2
  <2>3. CASE Won(p)
    <3>1. Revision(p) > 0 /\ (ChangeOf[p].base # NoBase => Revision(p) > ChangeOf[p].base)
      BY <2>3 DEF PackagesOK, WinnersArePast
    <3>2. Revision(p)' = Revision(p) \/ Revision(p)' = Revision(p) + 1
      BY <1>4, <1>5
    <3>3. QED
      BY <1>1, <1>3, <2>1, <3>1, <3>2
  <2>4. QED
    BY <1>6, <2>2, <2>3
<1>9. \A q \in Conns : Won(q) /\ ChangeOf[q].resource = ch.resource
        /\ ChangeOf[q].base = ch.base /\ ch.base # NoBase => FALSE
  <2> SUFFICES ASSUME NEW q \in Conns, Won(q), ChangeOf[q].resource = ch.resource,
                      ChangeOf[q].base = ch.base, ch.base # NoBase
               PROVE  FALSE
    OBVIOUS
  <2>1. Revision(q) > ch.base
    BY DEF PackagesOK, WinnersArePast
  <2>2. QED
    BY <1>1, <1>5, <1>7, <2>1
<1>10. OneWinner'
  <2> SUFFICES ASSUME NEW p \in Conns, NEW q \in Conns, Won(p)', Won(q)', SameBase(p, q)'
               PROVE  p = q
    BY DEF OneWinner
  <2>1. SameBase(p, q)
    BY DEF SameBase
  <2>2. CASE Won(p) /\ Won(q)
    BY <2>1, <2>2 DEF PackagesOK, OneWinner
  <2>3. CASE p = c /\ Won(q)
    BY <1>9, <2>1, <2>3 DEF SameBase
  <2>4. CASE q = c /\ Won(p)
    BY <1>9, <2>1, <2>4 DEF SameBase
  <2>5. QED
    BY <1>6, <2>2, <2>3, <2>4
<1>11. QED
  BY <1>8, <1>10 DEF PackagesOK

-----------------------------------------------------------------------------
(* Workers.                                                                *)

(* What a step has to keep so that a task stays served.                    *)
LEMMA ServedStep ==
  ASSUME NEW c \in Conns, NEW t \in Tasks, Served(c, t), UNCHANGED Program,
         up'[c] => up[c],
         ClaimsFollowed(c, t) => ClaimsFollowed(c, t)',
         ResultSent(c, t) => ResultSent(c, t)',
         claimed'[t] = c => claimed[t] = c \/ ResultSent(c, t)',
         clients'[c] = "registered" => clients[c] = "registered",
         pending'[t] > 0 => pending[t] > 0,
         WillReplay(c, t) => Expects(c, t)',
         Requested(c, t) => Expects(c, t)'
  PROVE  Served(c, t)'
BY DEF Served, Expects

LEMMA GoneServed ==
  ASSUME NEW c, NEW t, ~up'[c]
  PROVE  Served(c, t)'
BY DEF Served

(* A connection the step does not touch, for a task it does not touch.     *)
LEMMA UntouchedServed ==
  ASSUME NEW c \in Conns, NEW t \in Tasks, Served(c, t), UNCHANGED Program,
         up'[c] = up[c], clients'[c] = clients[c], handler'[c] = handler[c],
         inbox'[c] = inbox[c], pending'[t] = pending[t],
         claimed'[t] = c => claimed[t] = c,
         Frames(c) \subseteq Frames(c)'
  PROVE  Served(c, t)'
<1>1. ClaimsFollowed(c, t)' = ClaimsFollowed(c, t) /\ ResultSent(c, t)' = ResultSent(c, t)
  BY DEF ClaimsFollowed, ResultSent, ClaimAt, ResultAt
<1>2. WillReplay(c, t)' = WillReplay(c, t)
  BY DEF WillReplay
<1>3. Requested(c, t) => Requested(c, t)'
  BY DEF Requested
<1>4. QED
  BY <1>1, <1>2, <1>3, ServedStep DEF Expects

LEMMA UntouchedProgress ==
  ASSUME NEW c \in Conns, Progress(c), UNCHANGED Program,
         up'[c] => up[c], clients'[c] = clients[c], handler'[c] = handler[c],
         inbox'[c] = inbox[c],
         \/ at'[c] = at[c]
         \/ at'[c] \notin {"new", "hello"} /\ handler[c].pc # "new",
         \A t \in Tasks : claimed'[t] = c => claimed[t] = c
  PROVE  Progress(c)'
BY DEF Progress

(* What is left of an inbox whose last frames are lost.                    *)
LEMMA PrefixKept ==
  ASSUME NEW s, IsSequence(s), NEW n \in 0 .. Len(s)
  PROVE  /\ IsSequence(SubSeq(s, 1, n))
         /\ \A i \in DOMAIN SubSeq(s, 1, n) : i \in DOMAIN s /\ SubSeq(s, 1, n)[i] = s[i]
         /\ s = <<>> => SubSeq(s, 1, n) = <<>>
<1>1. /\ s \in Seq(Range(s)) /\ Len(s) \in Nat /\ DOMAIN s = 1..Len(s)
      /\ \A i \in 1..n : s[i] \in Range(s)
  BY SequenceFacts DEF IsSequence, Range
<1>2. /\ SubSeq(s, 1, n) \in Seq(Range(s))
      /\ Len(SubSeq(s, 1, n)) = IF 1 <= n THEN n - 1 + 1 ELSE 0
      /\ \A i \in 1..(n - 1 + 1) : SubSeq(s, 1, n)[i] = s[1 + i - 1]
  BY <1>1, SubSeqProperties
<1>3. /\ Len(SubSeq(s, 1, n)) = n /\ DOMAIN SubSeq(s, 1, n) = 1..n
      /\ \A i \in 1..n : SubSeq(s, 1, n)[i] = s[i]
  BY <1>1, <1>2, LenProperties
<1>4. IsSequence(SubSeq(s, 1, n))
  BY <1>2, SequenceOver
<1>5. s = <<>> => SubSeq(s, 1, n) = <<>>
  BY <1>2, <1>3, EmptySeq
<1>6. QED
  BY <1>1, <1>3, <1>4, <1>5

(* The sequences the programs send.                                        *)
LEMMA ShortSequences ==
  ASSUME NEW a, NEW b
  PROVE  /\ IsSequence(<<a>>) /\ \A i \in DOMAIN <<a>> : <<a>>[i] = a
         /\ IsSequence(<<a, b>>) /\ DOMAIN <<a, b>> = {1, 2}
         /\ <<a, b>>[1] = a /\ <<a, b>>[2] = b
<1>1. <<a>> \in Seq({a}) /\ <<a, b>> \in Seq({a, b})
  OBVIOUS
<1>2. IsSequence(<<a>>) /\ IsSequence(<<a, b>>)
  BY <1>1, SequenceOver
<1>3. DOMAIN <<a>> = {1} /\ DOMAIN <<a, b>> = {1, 2}
  OBVIOUS
<1>4. QED
  BY <1>2, <1>3

(* An inbox whose first frame was handled.                                 *)
LEMMA InboxPopped ==
  ASSUME NEW c, NEW t, IsSequence(inbox[c]), inbox[c] # <<>>, inbox'[c] = Tail(inbox[c])
  PROVE  /\ IsSequence(inbox'[c])
         /\ Head(inbox[c]) = inbox[c][1] /\ 1 \in DOMAIN inbox[c]
         /\ \A i \in DOMAIN inbox'[c] : i + 1 \in DOMAIN inbox[c] /\ inbox'[c][i] = inbox[c][i + 1]
         /\ ClaimsFollowed(c, t) => ClaimsFollowed(c, t)'
         /\ ResultSent(c, t) /\ ~ResultAt(c, 1, t) => ResultSent(c, t)'
         /\ ClaimsFollowed(c, t) /\ ClaimAt(c, 1, t) => ResultSent(c, t)'
<1> DEFINE s == inbox[c]
           r == inbox'[c]
           n == Len(s)
<1>1. /\ n \in Nat /\ n > 0 /\ DOMAIN s = 1..n
      /\ DOMAIN r = 1..(n - 1) /\ Head(s) = s[1]
      /\ \A i \in 1..(n - 1) : r[i] = s[i + 1]
  BY SequenceFacts, TailFacts
<1>2. IsSequence(r)
  BY SequenceClosed
<1> HIDE DEF s, r, n
<1>3. \A i \in 1..n : i # 1 => i - 1 \in 1..(n - 1) /\ r[i - 1] = s[i]
  <2> SUFFICES ASSUME NEW i \in 1..n, i # 1
               PROVE  i - 1 \in 1..(n - 1) /\ r[i - 1] = s[i]
    OBVIOUS
  <2>1. i - 1 \in 1..(n - 1) /\ (i - 1) + 1 = i
    BY <1>1
  <2>2. QED
    BY <1>1, <2>1
<1>4. \A i \in DOMAIN r : i + 1 \in DOMAIN s /\ r[i] = s[i + 1]
  BY <1>1
<1>5. ASSUME ClaimsFollowed(c, t) PROVE ClaimsFollowed(c, t)'
  <2>1. ASSUME NEW i \in DOMAIN r, r[i].type = "task.claim", r[i].id = t
        PROVE  \E j \in DOMAIN r : i < j /\ r[j].type = "task.result" /\ r[j].id = t
    <3>1. PICK j \in DOMAIN s : i + 1 < j /\ s[j].type = "task.result" /\ s[j].id = t
      BY <1>4, <1>5, <2>1 DEF ClaimsFollowed, ClaimAt, ResultAt, s
    <3>2. j - 1 \in DOMAIN r /\ r[j - 1] = s[j] /\ i < j - 1
      BY <1>1, <1>3, <3>1
    <3>3. QED
      BY <3>1, <3>2
  <2>2. QED
    BY <2>1 DEF ClaimsFollowed, ClaimAt, ResultAt, r
<1>6. ASSUME ResultSent(c, t), ~ResultAt(c, 1, t) PROVE ResultSent(c, t)'
  <2>1. PICK j \in DOMAIN s : j # 1 /\ s[j].type = "task.result" /\ s[j].id = t
    BY <1>6 DEF ResultSent, ResultAt, s
  <2>2. j - 1 \in DOMAIN r /\ r[j - 1] = s[j]
    BY <1>1, <1>3, <2>1
  <2>3. QED
    BY <2>1, <2>2 DEF ResultSent, ResultAt, r
<1>7. ASSUME ClaimsFollowed(c, t), ClaimAt(c, 1, t) PROVE ResultSent(c, t)'
  <2>1. 1 \in DOMAIN s
    BY <1>1
  <2>2. PICK j \in DOMAIN s : 1 < j /\ s[j].type = "task.result" /\ s[j].id = t
    BY <1>7, <2>1 DEF ClaimsFollowed, ResultAt, s
  <2>3. j - 1 \in DOMAIN r /\ r[j - 1] = s[j]
    BY <1>1, <1>3, <2>2
  <2>4. QED
    BY <2>2, <2>3 DEF ResultSent, ResultAt, r
<1>8. Head(s) = s[1] /\ 1 \in DOMAIN s
  BY <1>1
<1>9. QED
  BY <1>2, <1>4, <1>5, <1>6, <1>7, <1>8 DEF s, r

(* An inbox with the frames a program has sent.                            *)
Grown(c, frames) ==
  /\ IsSequence(inbox'[c])
  /\ Len(inbox[c]) \in Nat
  /\ DOMAIN inbox'[c] \subseteq Nat /\ DOMAIN frames \subseteq Nat
  /\ \A i \in DOMAIN inbox[c] : i \in DOMAIN inbox'[c] /\ inbox'[c][i] = inbox[c][i]
  /\ \A i \in DOMAIN inbox'[c] : \/ i \in DOMAIN inbox[c]
                                 \/ /\ i - Len(inbox[c]) \in DOMAIN frames
                                    /\ inbox'[c][i] = frames[i - Len(inbox[c])]
  /\ \A k \in DOMAIN frames : /\ Len(inbox[c]) + k \in DOMAIN inbox'[c]
                              /\ inbox'[c][Len(inbox[c]) + k] = frames[k]
  /\ \A t : ResultSent(c, t) => ResultSent(c, t)'

LEMMA InboxGrown ==
  ASSUME NEW c, NEW frames, IsSequence(inbox[c]), IsSequence(frames),
         inbox'[c] = inbox[c] \o frames
  PROVE  Grown(c, frames)
<1> DEFINE s == inbox[c]
           r == inbox'[c]
           n == Len(s)
           k == Len(frames)
<1>1. /\ n \in Nat /\ k \in Nat /\ DOMAIN s = 1..n /\ DOMAIN frames = 1..k
      /\ DOMAIN r = 1..(n + k)
      /\ \A i \in 1..(n + k) : r[i] = IF i <= n THEN s[i] ELSE frames[i - n]
  BY SequenceFacts, ConcatFacts
<1>2. IsSequence(r)
  BY SequenceClosed
<1> HIDE DEF s, r, n, k
<1>3. \A i \in DOMAIN s : i \in DOMAIN r /\ r[i] = s[i]
  BY <1>1
<1>4. \A i \in DOMAIN r : i \in DOMAIN s \/ (i - n \in DOMAIN frames /\ r[i] = frames[i - n])
  BY <1>1
<1>5. ASSUME NEW j \in DOMAIN frames PROVE n + j \in DOMAIN r /\ r[n + j] = frames[j]
  <2>1. n + j \in 1..(n + k) /\ ~(n + j <= n) /\ (n + j) - n = j
    BY <1>1
  <2>2. QED
    BY <1>1, <2>1
<1>6. \A t : ResultSent(c, t) => ResultSent(c, t)'
  BY <1>3 DEF ResultSent, ResultAt, s, r
<1>7. DOMAIN r \subseteq Nat /\ DOMAIN frames \subseteq Nat
  BY <1>1
<1>8. QED
  BY <1>1, <1>2, <1>3, <1>4, <1>5, <1>6, <1>7 DEF Grown, s, r, n

-----------------------------------------------------------------------------
(* The steps, one by one.  Open: a connection is made, or fails.           *)
LEMMA OpenStep ==
  ASSUME ProgramsInv, NEW c \in Conns, Open(c), UNCHANGED Program
  PROVE  ProgramsInv'
<1> USE DEF ProgramsInv, TypesOK
<1>1. /\ at[c] = "new" /\ handler[c].pc = "new"
      /\ clients' = [clients EXCEPT ![c] = "unknown"]
      /\ at' = [at EXCEPT ![c] = IF up'[c] THEN "hello" ELSE "done"]
      /\ UNCHANGED <<pending, arrivals, claimed, resources, scheduled, inbox, answer>>
  BY DEF Open, Connect
<1>2. \/ /\ wire' = Written(c, Hello)
         /\ up' = [up EXCEPT ![c] = TRUE]
         /\ handler' = [handler EXCEPT ![c].pc = "read"]
      \/ /\ handler' = [handler EXCEPT ![c].pc = "ended"]
         /\ UNCHANGED <<wire, up>>
  BY DEF Open, Connect
<1>3. /\ handler \in [Conns -> [pc : HandlerStates, size : Nat, cursor : Nat]]
      /\ up \in [Conns -> BOOLEAN]
      /\ clients \in [Conns -> {"absent", "unknown", "registered"}]
      /\ at \in [Conns -> Places]
  BY DEF TablesOK, ProgramsOK
<1>4. /\ handler' \in [Conns -> [pc : HandlerStates, size : Nat, cursor : Nat]]
      /\ up' \in [Conns -> BOOLEAN]
      /\ handler'[c].pc \in {"read", "ended"} /\ handler'[c].cursor = handler[c].cursor
      /\ \A d \in Conns : d # c => handler'[d] = handler[d] /\ up'[d] = up[d]
  <2>1. PICK pc \in {"read", "ended"} : handler' = [handler EXCEPT ![c].pc = pc]
    BY <1>2
  <2>2. /\ up' \in [Conns -> BOOLEAN]
        /\ \A d \in Conns : d # c => up'[d] = up[d]
    BY <1>2, <1>3
  <2>3. pc \in HandlerStates
    BY DEF HandlerStates
  <2>4. /\ handler' \in [Conns -> [pc : HandlerStates, size : Nat, cursor : Nat]]
        /\ handler'[c].pc = pc /\ handler'[c].cursor = handler[c].cursor
        /\ \A d \in Conns : d # c => handler'[d] = handler[d]
    BY <1>3, <2>1, <2>3
  <2>5. QED
    BY <2>2, <2>4
<1>5. /\ clients' \in [Conns -> {"absent", "unknown", "registered"}]
      /\ at' \in [Conns -> Places]
      /\ clients'[c] = "unknown" /\ at'[c] \in {"hello", "done"}
      /\ \A d \in Conns : d # c => clients'[d] = clients[d] /\ at'[d] = at[d]
  BY <1>1, <1>3 DEF Places
<1>6. StoreTypeOK' /\ \A id : Get(id)' = Get(id)
  BY <1>1, KeptResources DEF KeepsResources, TablesOK
<1>7. TablesOK'
  BY <1>1, <1>4, <1>5, <1>6 DEF TablesOK
<1>8. ProgramsOK'
  BY <1>1, <1>5 DEF ProgramsOK, Sends
<1>9. /\ LinksOK' /\ RequestsKnown' /\ Untold
      /\ \A d \in Conns : Frames(d) \subseteq Frames(d)'
  <2>1. CASE wire' = Written(c, Hello)
    <3>1. Hello.type = "hello"
      BY DEF Hello
    <3>2. QED
      BY <1>1, <1>6, <2>1, <3>1, GrownFrames DEF Untold
  <2>2. CASE UNCHANGED wire
    BY <1>1, <1>6, <2>2 DEF LinksOK, RequestsKnown, Untold, Frames
  <2>3. QED
    BY <1>2, <2>1, <2>2
<1>10. PackagesOK'
  BY <1>1, <1>9, UntoldStep DEF Won
<1>11. RanksDiffer'
  BY <1>1 DEF WorkersOK, RanksDiffer
<1>12. ASSUME NEW d \in Conns PROVE Progress(d)'
  <2>1. Progress(d)
    BY DEF WorkersOK
  <2>2. CASE d = c
    BY <1>1, <1>4, <1>5, <2>1, <2>2 DEF Progress
  <2>3. CASE d # c
    BY <1>1, <1>4, <1>5, <2>1, <2>3, UntouchedProgress
  <2>4. QED
    BY <2>2, <2>3
<1>13. ASSUME NEW d \in Conns, NEW t \in Tasks PROVE Served(d, t)'
  <2>1. CASE d = c
    <3>1. inbox'[c] = <<>> /\ claimed'[t] # c
      BY <1>1 DEF WorkersOK, Progress
    <3>2. DOMAIN inbox'[c] = {}
      BY <3>1, EmptySeq
    <3>3. QED
      BY <1>5, <2>1, <3>1, <3>2 DEF Served, ClaimsFollowed
  <2>2. CASE d # c
    BY <1>1, <1>4, <1>5, <1>9, <2>2, UntouchedServed DEF WorkersOK
  <2>3. QED
    BY <2>1, <2>2
<1>14. QED
  BY <1>7, <1>8, <1>9, <1>10, <1>11, <1>12, <1>13 DEF WorkersOK

(* The handler of a connection ends.                                       *)
LEMMA EndsStep ==
  ASSUME ProgramsInv, NEW c \in Conns, Ends(c), KeepsResources, handler[c].pc # "new",
         UNCHANGED <<at, answer, Program>>,
         inbox[c] = <<>> => inbox'[c] = <<>>,
         \A d \in Conns : d # c => inbox'[d] = inbox[d]
  PROVE  TablesOK' /\ LinksOK' /\ RequestsKnown' /\ PackagesOK' /\ WorkersOK'
<1> USE DEF ProgramsInv, TypesOK
<1>1. /\ handler' = [handler EXCEPT ![c].pc = "ended"]
      /\ clients' = [clients EXCEPT ![c] = "absent"]
      /\ up' = [up EXCEPT ![c] = FALSE]
      /\ UNCHANGED <<pending, arrivals, claimed, wire, scheduled>>
  BY DEF Ends, EndHandler
<1>2. /\ handler \in [Conns -> [pc : HandlerStates, size : Nat, cursor : Nat]]
      /\ up \in [Conns -> BOOLEAN]
      /\ clients \in [Conns -> {"absent", "unknown", "registered"}]
  BY DEF TablesOK
<1>3. /\ handler' \in [Conns -> [pc : HandlerStates, size : Nat, cursor : Nat]]
      /\ up' \in [Conns -> BOOLEAN]
      /\ clients' \in [Conns -> {"absent", "unknown", "registered"}]
      /\ handler'[c].pc = "ended" /\ ~up'[c] /\ clients'[c] = "absent"
      /\ \A d \in Conns : d # c =>
           handler'[d] = handler[d] /\ up'[d] = up[d] /\ clients'[d] = clients[d]
  BY <1>1, <1>2 DEF HandlerStates
<1>4. TablesOK'
  BY <1>1, <1>3 DEF TablesOK, KeepsResources
<1>5. LinksOK' /\ \A d \in Conns : Frames(d)' = Frames(d)
  BY <1>1 DEF LinksOK, Frames
<1>6. RequestsKnown' /\ Untold
  BY <1>5, FewerFrames DEF KeepsResources
<1>7. PackagesOK'
  BY <1>6, UntoldStep DEF Won
<1>8. RanksDiffer'
  BY <1>1 DEF WorkersOK, RanksDiffer
<1>9. ASSUME NEW d \in Conns PROVE Progress(d)'
  <2>1. Progress(d)
    BY DEF WorkersOK
  <2>2. CASE d = c
    BY <1>1, <1>3, <2>1, <2>2 DEF Progress
  <2>3. CASE d # c
    BY <1>1, <1>3, <2>1, <2>3, UntouchedProgress
  <2>4. QED
    BY <2>2, <2>3
<1>10. ASSUME NEW d \in Conns, NEW t \in Tasks PROVE Served(d, t)'
  <2>1. CASE d = c
    BY <1>3, <2>1, GoneServed
  <2>2. CASE d # c
    <3>1. Served(d, t)
      BY DEF WorkersOK
    <3>2. /\ up'[d] = up[d] /\ clients'[d] = clients[d] /\ handler'[d] = handler[d]
          /\ inbox'[d] = inbox[d] /\ pending'[t] = pending[t] /\ claimed'[t] = claimed[t]
          /\ Frames(d) \subseteq Frames(d)'
      BY <1>1, <1>3, <1>5, <2>2
    <3>3. QED
      BY <3>1, <3>2, UntouchedServed
  <2>3. QED
    BY <2>1, <2>2
<1>11. QED
  BY <1>4, <1>5, <1>6, <1>7, <1>8, <1>9, <1>10 DEF WorkersOK

(* The handler has taken the first frame of its inbox.                     *)
Pops(c) ==
  /\ inbox[c] # <<>>
  /\ inbox' = [inbox EXCEPT ![c] = Tail(@)]
  /\ UNCHANGED <<at, answer, Program>>

LEMMA PopFacts ==
  ASSUME ProgramsOK, NEW c \in Conns, Pops(c)
  PROVE  /\ ProgramsOK'
         /\ IsSequence(inbox[c]) /\ inbox[c] # <<>> /\ inbox'[c] = Tail(inbox[c])
         /\ Head(inbox[c]) = inbox[c][1] /\ Sends(c, inbox[c][1])
         /\ \A d \in Conns : d # c => inbox'[d] = inbox[d]
<1>1. /\ IsSequence(inbox[c]) /\ inbox[c] # <<>> /\ inbox'[c] = Tail(inbox[c])
      /\ DOMAIN inbox' = Conns
      /\ \A d \in Conns : d # c => inbox'[d] = inbox[d]
  BY DEF Pops, ProgramsOK
<1>2. /\ IsSequence(inbox'[c])
      /\ Head(inbox[c]) = inbox[c][1] /\ 1 \in DOMAIN inbox[c]
      /\ \A i \in DOMAIN inbox'[c] : i + 1 \in DOMAIN inbox[c] /\ inbox'[c][i] = inbox[c][i + 1]
  BY <1>1, InboxPopped
<1>3. Sends(c, inbox[c][1])
  BY <1>2 DEF ProgramsOK
<1>4. \A i \in DOMAIN inbox'[c] : Sends(c, inbox'[c][i])
  BY <1>2 DEF ProgramsOK
<1>5. \A d \in Conns : IsSequence(inbox'[d]) /\ \A i \in DOMAIN inbox'[d] : Sends(d, inbox'[d][i])
  BY <1>1, <1>2, <1>4 DEF ProgramsOK
<1>6. \A d, m : Sends(d, m)' = Sends(d, m)
  BY DEF Sends, Pops
<1>7. ProgramsOK'
  BY <1>1, <1>5, <1>6 DEF ProgramsOK, Pops
<1>8. QED
  BY <1>1, <1>2, <1>3, <1>7

(* A task stays served when the frame that was taken is not its result.    *)
LEMMA PoppedServed ==
  ASSUME ProgramsInv, NEW c \in Conns, Pops(c), NEW t \in Tasks,
         up'[c] = up[c], clients'[c] = clients[c], handler'[c] = handler[c],
         pending'[t] = pending[t],
         claimed'[t] = c => claimed[t] = c \/ ClaimAt(c, 1, t),
         ~ResultAt(c, 1, t),
         Frames(c) \subseteq Frames(c)'
  PROVE  Served(c, t)'
<1>1. IsSequence(inbox[c]) /\ inbox[c] # <<>> /\ inbox'[c] = Tail(inbox[c])
  BY PopFacts DEF ProgramsInv, TypesOK
<1>2. /\ ClaimsFollowed(c, t) => ClaimsFollowed(c, t)'
      /\ ResultSent(c, t) => ResultSent(c, t)'
      /\ ClaimsFollowed(c, t) /\ ClaimAt(c, 1, t) => ResultSent(c, t)'
  BY <1>1, InboxPopped
<1>3. WillReplay(c, t)' = WillReplay(c, t)
  BY DEF WillReplay
<1>4. Requested(c, t) => Requested(c, t)'
  BY DEF Requested
<1>5. Served(c, t) /\ UNCHANGED Program
  BY DEF ProgramsInv, WorkersOK, Pops
<1>6. QED
  BY <1>2, <1>3, <1>4, <1>5 DEF Served, Expects

(* The connections a popping step leaves alone.                            *)
LEMMA PoppedProgress ==
  ASSUME ProgramsInv, NEW c \in Conns, Pops(c), NEW d \in Conns,
         handler[c].pc # "new",
         \A e \in Conns : up'[e] = up[e] /\ handler'[e] = handler[e] /\ clients'[e] = clients[e],
         \A t \in Tasks : claimed'[t] = d => claimed[t] = d \/ d = c
  PROVE  Progress(d)'
<1>1. Progress(d) /\ UNCHANGED <<at, Program>> /\ inbox[c] # <<>>
  BY DEF ProgramsInv, WorkersOK, Pops
<1>2. d # c => inbox'[d] = inbox[d]
  BY PopFacts DEF ProgramsInv, TypesOK
<1>3. CASE d = c
  BY <1>1, <1>3 DEF Progress
<1>4. CASE d # c
  BY <1>1, <1>2, <1>4, UntouchedProgress
<1>5. QED
  BY <1>3, <1>4

(* The outcomes of handling the frame that was taken.                      *)
LEMMA AnswersStep ==
  ASSUME ProgramsInv, NEW c \in Conns, Pops(c), Answers(c), KeepsResources,
         handler[c].pc # "new", inbox[c][1].type # "task.result"
  PROVE  ProgramsInv'
<1> USE DEF ProgramsInv, TypesOK
<1>1. /\ UNCHANGED <<clients, pending, arrivals, claimed, handler, up, scheduled>>
      /\ UNCHANGED <<at, answer, Program>>
  BY DEF Answers, Pops
<1>2. PICK message : /\ message.type \notin {"state.accepted", "task.request"}
                     /\ wire' = Written(c, message)
  BY DEF Answers
<1>3. /\ LinksOK' /\ RequestsKnown'
      /\ \A d \in Conns : Frames(d) \subseteq Frames(d)'
      /\ \A d \in Conns : \A f \in Frames(d)' : f \in Frames(d) \/ f.message = message
  BY <1>1, <1>2, GrownFrames
<1>4. PackagesOK'
  BY <1>1, <1>2, <1>3, UntoldStep DEF Untold, KeepsResources, Won
<1>5. TablesOK'
  BY <1>1 DEF TablesOK, KeepsResources
<1>6. ProgramsOK' /\ \A d \in Conns : d # c => inbox'[d] = inbox[d]
  BY PopFacts
<1>7. RanksDiffer'
  BY <1>1 DEF WorkersOK, RanksDiffer
<1>8. \A d \in Conns : Progress(d)'
  BY <1>1, PoppedProgress
<1>9. ASSUME NEW d \in Conns, NEW t \in Tasks PROVE Served(d, t)'
  <2>1. CASE d = c
    BY <1>1, <1>3, <2>1, PoppedServed DEF ResultAt
  <2>2. CASE d # c
    BY <1>1, <1>3, <1>6, <2>2, UntouchedServed DEF WorkersOK
  <2>3. QED
    BY <2>1, <2>2
<1>10. QED
  BY <1>3, <1>4, <1>5, <1>6, <1>7, <1>8, <1>9 DEF WorkersOK

LEMMA RegistersStep ==
  ASSUME ProgramsInv, NEW c \in Conns, Pops(c), Registers(c), KeepsResources,
         handler[c].pc = "read", inbox[c][1].type # "task.result"
  PROVE  ProgramsInv'
<1> USE DEF ProgramsInv, TypesOK
<1>1. /\ clients' = [clients EXCEPT ![c] = "registered"]
      /\ handler' = [handler EXCEPT ![c].pc = "snapshot"]
      /\ wire' = Written(c, Snapshot)
      /\ UNCHANGED <<pending, arrivals, claimed, up, scheduled>>
      /\ UNCHANGED <<at, answer, Program>>
  BY DEF Registers, Pops
<1>2. /\ handler \in [Conns -> [pc : HandlerStates, size : Nat, cursor : Nat]]
      /\ clients \in [Conns -> {"absent", "unknown", "registered"}]
      /\ pending \in [Tasks -> Nat]
  BY DEF TablesOK
<1>3. /\ handler' \in [Conns -> [pc : HandlerStates, size : Nat, cursor : Nat]]
      /\ clients' \in [Conns -> {"absent", "unknown", "registered"}]
      /\ handler'[c].pc = "snapshot" /\ handler'[c].cursor = handler[c].cursor
      /\ clients'[c] = "registered"
      /\ \A d \in Conns : d # c => handler'[d] = handler[d] /\ clients'[d] = clients[d]
  BY <1>1, <1>2 DEF HandlerStates
<1>4. Snapshot.type = "snapshot"
  BY DEF Snapshot
<1>5. /\ LinksOK' /\ RequestsKnown'
      /\ \A d \in Conns : Frames(d) \subseteq Frames(d)'
      /\ \A d \in Conns : \A f \in Frames(d)' : f \in Frames(d) \/ f.message = Snapshot
  BY <1>1, <1>4, GrownFrames
<1>6. PackagesOK'
  BY <1>1, <1>4, <1>5, UntoldStep DEF Untold, KeepsResources, Won
<1>7. TablesOK'
  BY <1>1, <1>3 DEF TablesOK, KeepsResources
<1>8. /\ ProgramsOK' /\ inbox[c] # <<>> /\ \A d \in Conns : d # c => inbox'[d] = inbox[d]
      /\ IsSequence(inbox[c]) /\ inbox'[c] = Tail(inbox[c])
  BY PopFacts
<1>9. RanksDiffer'
  BY <1>1 DEF WorkersOK, RanksDiffer
<1>10. \A d \in Conns : Progress(d)
  BY DEF WorkersOK
<1>11. Progress(c)'
  BY <1>1, <1>3, <1>8, <1>10 DEF Progress
<1>12. \A d \in Conns : d # c => Progress(d)'
  BY <1>1, <1>3, <1>8, <1>10, UntouchedProgress
<1>13. ASSUME NEW t \in Tasks PROVE Served(c, t)'
  <2>1. Served(c, t) /\ handler[c].cursor = 0
    BY <1>10 DEF WorkersOK, Progress
  <2>2. /\ ClaimsFollowed(c, t) => ClaimsFollowed(c, t)'
        /\ ResultSent(c, t) => ResultSent(c, t)'
    BY <1>8, InboxPopped DEF ResultAt
  <2>3. pending'[t] > 0 => WillReplay(c, t)'
    BY <1>1, <1>2, <1>3, <2>1 DEF WillReplay
  <2>4. QED
    BY <1>1, <2>1, <2>2, <2>3 DEF Served, Expects
<1>14. ASSUME NEW d \in Conns, d # c, NEW t \in Tasks PROVE Served(d, t)'
  BY <1>1, <1>3, <1>5, <1>8, <1>14, UntouchedServed DEF WorkersOK
<1>15. QED
  BY <1>5, <1>6, <1>7, <1>8, <1>9, <1>11, <1>12, <1>13, <1>14 DEF WorkersOK

(* A request: a new task gets the next rank, and every client but the one  *)
(* that asks hears of it.                                                  *)
LEMMA RequestsStep ==
  ASSUME ProgramsInv, NEW c \in Conns, Pops(c), NEW t \in Tasks, Requests(c, t), KeepsResources,
         handler[c].pc # "new", inbox[c][1].type # "task.result", Program[c] = "submitter"
  PROVE  ProgramsInv'
<1> USE DEF ProgramsInv, TypesOK
<1>1. /\ UNCHANGED <<clients, claimed, handler, up, wire>>
      /\ UNCHANGED <<at, answer, Program>>
      /\ \/ pending[t] > 0 /\ UNCHANGED <<pending, arrivals>>
         \/ /\ ~(pending[t] > 0) /\ arrivals' = arrivals + 1
            /\ pending' = [pending EXCEPT ![t] = arrivals + 1]
  BY DEF Requests, Pops
<1>2. PICK message : /\ message.type = "task.request" /\ message.id = t
                     /\ Broadcast(c, message, {c})
  BY DEF Requests
<1>3. /\ LinksOK' /\ RequestsKnown'
      /\ \A d \in Conns : Frames(d) \subseteq Frames(d)'
      /\ \A d \in Conns : \A f \in Frames(d)' : f \in Frames(d) \/ f.message = message
  BY <1>1, <1>2, GrownFrames
<1>4. PackagesOK'
  BY <1>1, <1>2, <1>3, UntoldStep DEF Untold, KeepsResources, Won
<1>5. /\ pending \in [Tasks -> Nat] /\ arrivals \in Nat
      /\ pending' \in [Tasks -> Nat] /\ arrivals' \in Nat
      /\ \A u \in Tasks : u # t => pending'[u] = pending[u]
  BY <1>1 DEF TablesOK
<1>6. TablesOK'
  BY <1>1, <1>5 DEF TablesOK, KeepsResources
<1>7. ProgramsOK' /\ \A d \in Conns : d # c => inbox'[d] = inbox[d]
  BY PopFacts
<1>8. RanksDiffer'
  <2>1. /\ \A u \in Tasks : pending[u] <= arrivals
        /\ \A u, v \in Tasks : pending[u] > 0 /\ pending[u] = pending[v] => u = v
    BY DEF WorkersOK, RanksDiffer
  <2>2. CASE UNCHANGED <<pending, arrivals>>
    BY <2>1, <2>2 DEF RanksDiffer
  <2>3. CASE arrivals' = arrivals + 1 /\ pending' = [pending EXCEPT ![t] = arrivals + 1]
    <3>1. pending'[t] = arrivals + 1
      BY <1>5, <2>3
    <3>2. \A u \in Tasks : pending'[u] <= arrivals'
      BY <1>5, <2>1, <2>3, <3>1
    <3>3. ASSUME NEW u \in Tasks, NEW v \in Tasks, pending'[u] > 0, pending'[u] = pending'[v]
          PROVE  u = v
      BY <1>5, <2>1, <3>1, <3>3
    <3>4. QED
      BY <3>2, <3>3 DEF RanksDiffer
  <2>4. QED
    BY <1>1, <2>2, <2>3
<1>9. \A d \in Conns : Progress(d)'
  BY <1>1, PoppedProgress
<1>10. ASSUME NEW d \in Conns, NEW u \in Tasks, u # t \/ pending'[u] = pending[u]
       PROVE  Served(d, u)'
  <2>1. CASE d = c
    BY <1>1, <1>3, <1>5, <1>10, <2>1, PoppedServed DEF ResultAt
  <2>2. CASE d # c
    BY <1>1, <1>3, <1>5, <1>7, <1>10, <2>2, UntouchedServed DEF WorkersOK
  <2>3. QED
    BY <2>1, <2>2
<1>11. ASSUME NEW d \in Conns PROVE Served(d, t)'
  <2>1. Served(d, t)
    BY DEF WorkersOK
  <2>2. /\ ClaimsFollowed(d, t) => ClaimsFollowed(d, t)'
        /\ ResultSent(d, t) => ResultSent(d, t)'
    <3>1. CASE d = c
      BY <3>1, PopFacts, InboxPopped DEF ResultAt
    <3>2. CASE d # c
      BY <1>7, <3>2 DEF ClaimsFollowed, ResultSent, ClaimAt, ResultAt
    <3>3. QED
      BY <3>1, <3>2
  <2>3. CASE d # c /\ clients[d] = "registered"
    <3>1. [message |-> message, by |-> c] \in Frames(d)'
      BY <1>1, <1>2, <2>3, BroadcastFrames
    <3>2. Requested(d, t)'
      BY <1>2, <3>1 DEF Requested
    <3>3. QED
      BY <1>1, <2>1, <2>2, <3>2 DEF Served, Expects
  <2>4. CASE ~(d # c /\ clients[d] = "registered")
    BY <1>1, <2>1, <2>2, <2>4 DEF Served
  <2>5. QED
    BY <2>3, <2>4
<1>12. \A d \in Conns, u \in Tasks : Served(d, u)'
  BY <1>10, <1>11
<1>13. QED
  BY <1>3, <1>4, <1>6, <1>7, <1>8, <1>9, <1>12 DEF WorkersOK

LEMMA ClaimsStep ==
  ASSUME ProgramsInv, NEW c \in Conns, Pops(c), NEW t \in Tasks, Claims(c, t), KeepsResources,
         handler[c].pc # "new", ClaimAt(c, 1, t)
  PROVE  ProgramsInv'
<1> USE DEF ProgramsInv, TypesOK
<1>1. /\ UNCHANGED <<clients, pending, arrivals, handler, up, wire>>
      /\ UNCHANGED <<at, answer, Program>>
      /\ claimed' = [claimed EXCEPT ![t] = c]
  BY DEF Claims, Pops
<1>2. PICK message : message.type = "task.claim" /\ Broadcast(c, message, {})
  BY DEF Claims
<1>3. /\ LinksOK' /\ RequestsKnown'
      /\ \A d \in Conns : Frames(d) \subseteq Frames(d)'
      /\ \A d \in Conns : \A f \in Frames(d)' : f \in Frames(d) \/ f.message = message
  BY <1>1, <1>2, GrownFrames
<1>4. PackagesOK'
  BY <1>1, <1>2, <1>3, UntoldStep DEF Untold, KeepsResources, Won
<1>5. /\ claimed' \in [Tasks -> Conns \cup {NoOne}] /\ claimed'[t] = c
      /\ \A u \in Tasks : u # t => claimed'[u] = claimed[u]
  BY <1>1 DEF TablesOK
<1>6. TablesOK'
  BY <1>1, <1>5 DEF TablesOK, KeepsResources
<1>7. ProgramsOK' /\ \A d \in Conns : d # c => inbox'[d] = inbox[d]
  BY PopFacts
<1>8. RanksDiffer'
  BY <1>1 DEF WorkersOK, RanksDiffer
<1>9. \A d \in Conns : Progress(d)'
  BY <1>1, <1>5, PoppedProgress
<1>10. ASSUME NEW d \in Conns, NEW u \in Tasks PROVE Served(d, u)'
  <2>1. CASE d = c
    BY <1>1, <1>3, <1>5, <2>1, PoppedServed DEF ResultAt, ClaimAt
  <2>2. CASE d # c
    BY <1>1, <1>3, <1>5, <1>7, <2>2, UntouchedServed DEF WorkersOK
  <2>3. QED
    BY <2>1, <2>2
<1>11. QED
  BY <1>3, <1>4, <1>6, <1>7, <1>8, <1>9, <1>10 DEF WorkersOK

(* A result takes the task out of both tables.                             *)
LEMMA FinishesStep ==
  ASSUME ProgramsInv, NEW c \in Conns, Pops(c), NEW t \in Tasks, Finishes(c, t), KeepsResources,
         handler[c].pc # "new", ResultAt(c, 1, t)
  PROVE  ProgramsInv'
<1> USE DEF ProgramsInv, TypesOK
<1>1. /\ UNCHANGED <<clients, arrivals, handler, up, wire>>
      /\ UNCHANGED <<at, answer, Program>>
      /\ pending' = [pending EXCEPT ![t] = 0]
      /\ claimed' = [claimed EXCEPT ![t] = NoOne]
  BY DEF Finishes, Pops
<1>2. PICK message : message.type = "task.result" /\ Broadcast(c, message, {})
  BY DEF Finishes
<1>3. /\ LinksOK' /\ RequestsKnown'
      /\ \A d \in Conns : Frames(d) \subseteq Frames(d)'
      /\ \A d \in Conns : \A f \in Frames(d)' : f \in Frames(d) \/ f.message = message
  BY <1>1, <1>2, GrownFrames
<1>4. PackagesOK'
  BY <1>1, <1>2, <1>3, UntoldStep DEF Untold, KeepsResources, Won
<1>5. /\ claimed' \in [Tasks -> Conns \cup {NoOne}] /\ claimed'[t] = NoOne
      /\ pending \in [Tasks -> Nat] /\ pending' \in [Tasks -> Nat] /\ pending'[t] = 0
      /\ \A u \in Tasks : u # t => claimed'[u] = claimed[u] /\ pending'[u] = pending[u]
  BY <1>1 DEF TablesOK
<1>6. TablesOK'
  BY <1>1, <1>5 DEF TablesOK, KeepsResources
<1>7. ProgramsOK' /\ \A d \in Conns : d # c => inbox'[d] = inbox[d]
  BY PopFacts
<1>8. RanksDiffer'
  <2>1. /\ \A u \in Tasks : pending[u] <= arrivals
        /\ \A u, v \in Tasks : pending[u] > 0 /\ pending[u] = pending[v] => u = v
        /\ arrivals \in Nat
    BY DEF WorkersOK, RanksDiffer, TablesOK
  <2>2. \A u \in Tasks : pending'[u] <= arrivals'
    BY <1>1, <1>5, <2>1
  <2>3. ASSUME NEW u \in Tasks, NEW v \in Tasks, pending'[u] > 0, pending'[u] = pending'[v]
        PROVE  u = v
    BY <1>5, <2>1, <2>3
  <2>4. QED
    BY <2>2, <2>3 DEF RanksDiffer
<1>9. NoOne \notin Conns
  BY CoordinatorAssumption, ProgramAssumption
<1>10. \A d \in Conns : Progress(d)'
  BY <1>1, <1>5, <1>9, PoppedProgress
<1>11. ASSUME NEW d \in Conns, NEW u \in Tasks, u # t PROVE Served(d, u)'
  <2>1. CASE d = c
    BY <1>1, <1>3, <1>5, <1>11, <2>1, PoppedServed DEF ResultAt
  <2>2. CASE d # c
    BY <1>1, <1>3, <1>5, <1>7, <1>11, <2>2, UntouchedServed DEF WorkersOK
  <2>3. QED
    BY <2>1, <2>2
<1>12. ASSUME NEW d \in Conns PROVE Served(d, t)'
  <2>1. Served(d, t) /\ ~(pending'[t] > 0)
    BY <1>5 DEF WorkersOK
  <2>2. ClaimsFollowed(d, t) => ClaimsFollowed(d, t)'
    <3>1. CASE d = c
      BY <3>1, PopFacts, InboxPopped
    <3>2. CASE d # c
      BY <1>7, <3>2 DEF ClaimsFollowed, ClaimAt, ResultAt
    <3>3. QED
      BY <3>1, <3>2
  <2>3. QED
    BY <1>1, <1>5, <1>9, <2>1, <2>2 DEF Served
<1>13. \A d \in Conns, u \in Tasks : Served(d, u)'
  BY <1>11, <1>12
<1>14. QED
  BY <1>3, <1>4, <1>6, <1>7, <1>8, <1>10, <1>13 DEF WorkersOK

LEMMA ChangesStep ==
  ASSUME ProgramsInv, NEW c \in Conns, Pops(c), Program[c] = "package",
         Changes(c, ChangeOf[c]), ChangeOf[c] \in Change,
         handler[c].pc # "new", inbox[c][1].type # "task.result"
  PROVE  ProgramsInv'
<1> USE DEF ProgramsInv, TypesOK
<1>1. /\ UNCHANGED <<clients, pending, arrivals, claimed, handler, up, wire>>
      /\ UNCHANGED <<at, answer, Program>>
  BY DEF Changes, Pops
<1>2. /\ LinksOK' /\ RequestsKnown'
      /\ \A d \in Conns : Frames(d) \subseteq Frames(d)'
  <2>1. \A ch, resource : Accepted(ch, resource).type = "state.accepted"
    BY DEF Accepted
  <2>2. QED
    BY <1>1, <2>1, GrownFrames DEF Changes
<1>3. PackagesOK'
  BY <1>1, AcceptStep
<1>4. TablesOK'
  <2>1. StoreTypeOK'
    BY StoreStepType DEF Changes, TablesOK
  <2>2. QED
    BY <1>1, <2>1 DEF TablesOK
<1>5. ProgramsOK' /\ \A d \in Conns : d # c => inbox'[d] = inbox[d]
  BY PopFacts
<1>6. RanksDiffer'
  BY <1>1 DEF WorkersOK, RanksDiffer
<1>7. \A d \in Conns : Progress(d)'
  BY <1>1, PoppedProgress
<1>8. ASSUME NEW d \in Conns, NEW t \in Tasks PROVE Served(d, t)'
  <2>1. CASE d = c
    BY <1>1, <1>2, <2>1, PoppedServed DEF ResultAt
  <2>2. CASE d # c
    BY <1>1, <1>2, <1>5, <2>2, UntouchedServed DEF WorkersOK
  <2>3. QED
    BY <2>1, <2>2
<1>9. QED
  BY <1>2, <1>3, <1>4, <1>5, <1>6, <1>7, <1>8 DEF WorkersOK

(* The handler receives a frame.                                           *)
LEMMA MessageStep ==
  ASSUME ProgramsInv, NEW c \in Conns, Pops(c), Handle(c, Head(inbox[c]))
  PROVE  ProgramsInv'
<1> DEFINE m == inbox[c][1]
<1>1. /\ Handle(c, m) /\ Sends(c, m) /\ ProgramsOK'
      /\ inbox[c] # <<>> /\ \A d \in Conns : d # c => inbox'[d] = inbox[d]
  BY PopFacts DEF ProgramsInv, TypesOK
<1>2. /\ handler[c].pc = "read"
      /\ \/ /\ KeepsResources
            /\ \/ Ends(c)
               \/ Answers(c) /\ m.type # "task.result"
               \/ Registers(c) /\ m.type = "client.register"
               \/ /\ Requests(c, m.id) /\ m.type = "task.request" /\ m.id \in Tasks
                  /\ Program[c] = "submitter"
               \/ Claims(c, m.id) /\ m.type = "task.claim" /\ m.id \in Tasks
               \/ Finishes(c, m.id) /\ m.type = "task.result" /\ m.id \in Tasks
         \/ /\ m.type = "state.patch" /\ Program[c] = "package"
            /\ Changes(c, ChangeOf[c]) /\ ChangeOf[c] \in Change
  BY <1>1, HandleMoves DEF ProgramsInv, TypesOK, TablesOK
<1>3. CASE KeepsResources /\ Ends(c)
  BY <1>1, <1>2, <1>3, EndsStep DEF ProgramsInv, TypesOK, Pops
<1>4. CASE KeepsResources /\ Answers(c) /\ m.type # "task.result"
  BY <1>2, <1>4, AnswersStep
<1>5. CASE KeepsResources /\ Registers(c) /\ m.type = "client.register"
  BY <1>2, <1>5, RegistersStep
<1>6. CASE /\ KeepsResources /\ Requests(c, m.id) /\ m.type = "task.request" /\ m.id \in Tasks
           /\ Program[c] = "submitter"
  BY <1>2, <1>6, RequestsStep
<1>7. CASE KeepsResources /\ Claims(c, m.id) /\ m.type = "task.claim" /\ m.id \in Tasks
  BY <1>2, <1>7, ClaimsStep DEF ClaimAt
<1>8. CASE KeepsResources /\ Finishes(c, m.id) /\ m.type = "task.result" /\ m.id \in Tasks
  BY <1>2, <1>8, FinishesStep DEF ResultAt
<1>9. CASE /\ m.type = "state.patch" /\ Program[c] = "package"
           /\ Changes(c, ChangeOf[c]) /\ ChangeOf[c] \in Change
  BY <1>2, <1>9, ChangesStep
<1>10. QED
  BY <1>2, <1>3, <1>4, <1>5, <1>6, <1>7, <1>8, <1>9

LEMMA SamePrograms ==
  ASSUME ProgramsOK, UNCHANGED <<at, inbox, answer, Program>>
  PROVE  ProgramsOK'
BY DEF ProgramsOK, Sends

(* The replay goes on to the pending task of the next rank, or is done.    *)
LEMMA ReplayStep ==
  ASSUME ProgramsInv, NEW c \in Conns, ReplayTask(c), UNCHANGED <<at, inbox, answer, Program>>
  PROVE  ProgramsInv'
<1> USE DEF ProgramsInv, TypesOK
<1> DEFINE ahead == {t \in PendingTasks : pending[t] > handler[c].cursor}
           At(pc, size, cursor) ==
             handler' = [handler EXCEPT ![c] = [pc |-> pc, size |-> size, cursor |-> cursor]]
<1>1. /\ handler[c].pc \in {"snapshot", "replay"}
      /\ UNCHANGED <<pending, arrivals, claimed, resources, scheduled>>
  BY DEF ReplayTask
<1>2. /\ handler \in [Conns -> [pc : HandlerStates, size : Nat, cursor : Nat]]
      /\ handler[c].cursor \in Nat /\ handler[c].size \in Nat
      /\ pending \in [Tasks -> Nat]
  BY DEF TablesOK
<1>3. Cardinality(PendingTasks) \in Nat
  BY CoordinatorAssumption, FS_Subset, FS_CardinalityType DEF PendingTasks
<1>4. KeepsResources
  BY <1>1, KeptResources DEF TablesOK
<1>5. \/ EndHandler(c) /\ UNCHANGED wire
      \/ ahead = {} /\ At("read", 0, 0) /\ UNCHANGED <<clients, up, wire>>
      \/ \E t \in ahead, size \in Nat :
           /\ \A other \in ahead : pending[t] <= pending[other]
           /\ wire' = Written(c, TaskRequest(t))
           /\ At("replay", size, pending[t])
           /\ UNCHANGED <<clients, up>>
  BY <1>2, <1>3 DEF ReplayTask
<1>6. CASE EndHandler(c) /\ UNCHANGED wire
  <2>1. Ends(c)
    BY <1>1, <1>6 DEF Ends
  <2>2. ProgramsOK'
    BY SamePrograms
  <2>3. QED
    BY <1>1, <1>4, <2>1, <2>2, EndsStep
<1>7. ASSUME NEW pc \in {"read", "replay"}, NEW size \in Nat, NEW cursor \in Nat,
             At(pc, size, cursor), pc = "read" => cursor = 0, UNCHANGED <<clients, up>>,
             LinksOK', RequestsKnown', Untold,
             \A d \in Conns : Frames(d) \subseteq Frames(d)',
             \A t \in Tasks : WillReplay(c, t) => WillReplay(c, t)' \/ Requested(c, t)'
      PROVE  ProgramsInv'
  <2>1. /\ handler' \in [Conns -> [pc : HandlerStates, size : Nat, cursor : Nat]]
        /\ handler'[c].pc = pc /\ handler'[c].cursor = cursor
        /\ \A d \in Conns : d # c => handler'[d] = handler[d]
    BY <1>2, <1>7 DEF HandlerStates
  <2>2. TablesOK'
    BY <1>1, <1>4, <1>7, <2>1 DEF TablesOK, KeepsResources
  <2>3. ProgramsOK'
    BY SamePrograms
  <2>4. PackagesOK'
    BY <1>7, UntoldStep DEF Won
  <2>5. RanksDiffer'
    BY <1>1 DEF WorkersOK, RanksDiffer
  <2>6. ASSUME NEW d \in Conns PROVE Progress(d)'
    <3>1. Progress(d)
      BY DEF WorkersOK
    <3>2. CASE d = c
      BY <1>1, <1>7, <2>1, <3>1, <3>2 DEF Progress
    <3>3. CASE d # c
      BY <1>1, <1>7, <2>1, <3>1, <3>3, UntouchedProgress
    <3>4. QED
      BY <3>2, <3>3
  <2>7. ASSUME NEW d \in Conns, NEW t \in Tasks PROVE Served(d, t)'
    <3>1. Served(d, t)
      BY DEF WorkersOK
    <3>2. CASE d = c
      <4>1. /\ ClaimsFollowed(c, t)' = ClaimsFollowed(c, t)
            /\ ResultSent(c, t)' = ResultSent(c, t)
        BY DEF ClaimsFollowed, ResultSent, ClaimAt, ResultAt
      <4>2. Requested(c, t) => Requested(c, t)'
        BY <1>7 DEF Requested
      <4>3. WillReplay(c, t) => Expects(c, t)'
        BY <1>7 DEF Expects
      <4>4. QED
        BY <1>1, <1>7, <3>1, <3>2, <4>1, <4>2, <4>3, ServedStep DEF Expects
    <3>3. CASE d # c
      BY <1>1, <1>7, <2>1, <3>1, <3>3, UntouchedServed
    <3>4. QED
      BY <3>2, <3>3
  <2>8. QED
    BY <1>7, <2>2, <2>3, <2>4, <2>5, <2>6, <2>7 DEF WorkersOK
<1>8. CASE ahead = {} /\ At("read", 0, 0) /\ UNCHANGED <<clients, up, wire>>
  <2>1. \A d \in Conns : Frames(d)' = Frames(d)
    BY <1>1, <1>8 DEF Frames
  <2>2. LinksOK' /\ RequestsKnown' /\ Untold
    BY <1>1, <1>4, <1>8, <2>1, FewerFrames DEF LinksOK, KeepsResources
  <2>3. \A t \in Tasks : ~WillReplay(c, t)
    BY <1>2, <1>8 DEF WillReplay, PendingTasks
  <2>4. QED
    BY <1>7, <1>8, <2>1, <2>2, <2>3
<1>9. ASSUME NEW t \in ahead, NEW size \in Nat,
             \A other \in ahead : pending[t] <= pending[other],
             wire' = Written(c, TaskRequest(t)),
             At("replay", size, pending[t]), UNCHANGED <<clients, up>>
      PROVE  ProgramsInv'
  <2>1. /\ t \in Tasks /\ pending[t] \in Nat /\ pending[t] > 0
        /\ TaskRequest(t).type = "task.request" /\ TaskRequest(t).id = t
    BY <1>2 DEF PendingTasks, TaskRequest
  <2>2. /\ LinksOK' /\ RequestsKnown'
        /\ \A d \in Conns : Frames(d) \subseteq Frames(d)'
        /\ \A d \in Conns : \A f \in Frames(d)' : f \in Frames(d) \/ f.message = TaskRequest(t)
    BY <1>1, <1>9, <2>1, GrownFrames
  <2>3. Untold
    BY <1>4, <2>1, <2>2 DEF Untold, KeepsResources
  <2>4. handler'[c].pc = "replay" /\ handler'[c].cursor = pending[t]
    BY <1>2, <1>9
  <2>5. Requested(c, t)'
    <3>1. [message |-> TaskRequest(t), by |-> c] \in Frames(c)'
      BY <1>1, <1>9, WrittenFrames
    <3>2. QED
      BY <2>1, <3>1 DEF Requested
  <2>6. ASSUME NEW u \in Tasks, WillReplay(c, u) PROVE WillReplay(c, u)' \/ Requested(c, u)'
    <3>1. u \in ahead
      BY <1>2, <2>6 DEF WillReplay, PendingTasks
    <3>2. pending[u] \in Nat /\ pending[t] <= pending[u]
      BY <1>2, <1>9, <3>1
    <3>3. CASE u = t
      BY <2>5, <3>3
    <3>4. CASE u # t
      <4>1. pending[t] # pending[u]
        BY <2>1, <3>4 DEF WorkersOK, RanksDiffer
      <4>2. pending[u] > pending[t]
        BY <2>1, <3>2, <4>1
      <4>3. WillReplay(c, u)'
        BY <1>1, <2>4, <4>2 DEF WillReplay
      <4>4. QED
        BY <4>3
    <3>5. QED
      BY <3>3, <3>4
  <2>7. QED
    BY <1>7, <1>9, <2>1, <2>2, <2>3, <2>6
<1>10. QED
  BY <1>5, <1>6, <1>8, <1>9

(* A scheduled send starts: a frame of an open connection stays on its way.*)
LEMMA SendStep ==
  ASSUME ProgramsInv, NEW c \in Conns, StartSend(c), UNCHANGED <<at, inbox, answer, Program>>
  PROVE  ProgramsInv'
<1> USE DEF ProgramsInv, TypesOK
<1>1. UNCHANGED <<clients, pending, arrivals, claimed, resources, handler, up>>
  BY DEF StartSend, tables
<1>2. /\ LinksOK'
      /\ \A d \in Conns : Frames(d)' \subseteq Frames(d) /\ (up[d] => Frames(d)' = Frames(d))
  BY SentFrames
<1>3. KeepsResources
  BY <1>1, KeptResources DEF TablesOK
<1>4. RequestsKnown' /\ Untold
  BY <1>2, <1>3, FewerFrames DEF KeepsResources
<1>5. TablesOK' /\ ProgramsOK'
  BY <1>1, <1>3, SamePrograms DEF TablesOK, KeepsResources
<1>6. PackagesOK'
  BY <1>4, UntoldStep DEF Won
<1>7. RanksDiffer' /\ \A d \in Conns : Progress(d)'
  BY <1>1 DEF WorkersOK, RanksDiffer, Progress
<1>8. ASSUME NEW d \in Conns, NEW t \in Tasks PROVE Served(d, t)'
  <2>1. CASE up[d]
    BY <1>1, <1>2, <2>1, UntouchedServed DEF WorkersOK
  <2>2. CASE ~up[d]
    BY <1>1, <2>2, GoneServed
  <2>3. QED
    BY <2>1, <2>2
<1>9. QED
  BY <1>2, <1>4, <1>5, <1>6, <1>7, <1>8 DEF WorkersOK

(* The handler of a closed connection ends.                                *)
LEMMA FinishStep ==
  ASSUME ProgramsInv, NEW c \in Conns, Finish(c), UNCHANGED <<at, inbox, answer, Program>>
  PROVE  ProgramsInv'
<1>1. Ends(c) /\ UNCHANGED resources /\ handler[c].pc = "read"
  BY DEF Finish, Ends, Ready
<1>2. KeepsResources
  BY <1>1, KeptResources DEF ProgramsInv, TypesOK, TablesOK
<1>3. ProgramsOK'
  BY SamePrograms DEF ProgramsInv, TypesOK
<1>4. QED
  BY <1>1, <1>2, <1>3, EndsStep DEF ProgramsInv, TypesOK

(* A program reads a frame and sends some.  What it must send: claims with *)
(* their results, and for a request that a worker reads the result.        *)
LEMMA ReceiveStep ==
  ASSUME ProgramsInv, NEW c \in Conns, NEW from, NEW to \in Places, NEW frames,
         Receive(c, from, to, frames), UNCHANGED Program,
         from \notin {"new", "done"}, to \notin {"new", "hello"},
         IsSequence(frames), \A i \in DOMAIN frames : Sends(c, frames[i]),
         \A i \in DOMAIN frames : frames[i].type = "task.claim" =>
           \E j \in DOMAIN frames : i < j /\ frames[j].type = "task.result"
                                    /\ frames[j].id = frames[i].id,
         Program[c] = "worker" /\ from # "hello" /\ Incoming(c).type = "task.request" =>
           \E j \in DOMAIN frames : frames[j].type = "task.result"
                                    /\ frames[j].id = Incoming(c).id
  PROVE  ProgramsInv'
<1> USE DEF ProgramsInv, TypesOK
<1>1. /\ at[c] = from /\ Read(c)
      /\ at' = [at EXCEPT ![c] = to]
      /\ inbox' = [inbox EXCEPT ![c] = @ \o frames]
      /\ UNCHANGED answer
  BY DEF Receive
<1>2. UNCHANGED <<clients, pending, arrivals, claimed, resources, handler, up, scheduled>>
  BY <1>1 DEF Read, tables
<1>3. /\ LinksOK' /\ Frames(c) = Frames(c)' \cup {Head(wire[c])}
      /\ \A d \in Conns : d # c => Frames(d)' = Frames(d)
  BY <1>1, ReadFrames
<1>4. KeepsResources
  BY <1>2, KeptResources DEF TablesOK
<1>5. RequestsKnown' /\ Untold
  BY <1>3, <1>4, FewerFrames DEF KeepsResources
<1>6. TablesOK'
  BY <1>2, <1>4 DEF TablesOK, KeepsResources
<1>7. PackagesOK'
  BY <1>1, <1>5, UntoldStep DEF Won
<1>8. /\ at' \in [Conns -> Places] /\ at'[c] = to
      /\ DOMAIN inbox' = Conns /\ inbox'[c] = inbox[c] \o frames
      /\ IsSequence(inbox[c])
      /\ \A d \in Conns : d # c => inbox'[d] = inbox[d] /\ at'[d] = at[d]
  BY <1>1 DEF ProgramsOK
<1>9. Grown(c, frames)
  BY <1>8, InboxGrown
<1>10. ProgramsOK'
  <2>1. \A d, m : Sends(d, m)' = Sends(d, m)
    BY DEF Sends
  <2>2. \A i \in DOMAIN inbox'[c] : Sends(c, inbox'[c][i])
    BY <1>9 DEF ProgramsOK, Grown
  <2>3. \A d \in Conns : IsSequence(inbox'[d]) /\ \A i \in DOMAIN inbox'[d] : Sends(d, inbox'[d][i])
    BY <1>8, <1>9, <2>2 DEF ProgramsOK, Grown
  <2>4. QED
    BY <1>1, <1>8, <2>1, <2>3 DEF ProgramsOK
<1>11. RanksDiffer'
  BY <1>2 DEF WorkersOK, RanksDiffer
<1>12. ASSUME NEW d \in Conns PROVE Progress(d)'
  <2>1. Progress(d)
    BY DEF WorkersOK
  <2>2. CASE d = c
    <3>1. handler[c].pc # "new" /\ at'[c] \notin {"new", "hello"}
      BY <1>1, <1>8, <2>1, <2>2 DEF Progress
    <3>2. QED
      BY <1>2, <2>1, <2>2, <3>1 DEF Progress
  <2>3. CASE d # c
    BY <1>2, <1>8, <2>1, <2>3, UntouchedProgress
  <2>4. QED
    BY <2>2, <2>3
<1>13. ASSUME NEW t \in Tasks PROVE Served(c, t)'
  <2>1. Served(c, t)
    BY DEF WorkersOK
  <2>2. ClaimsFollowed(c, t) => ClaimsFollowed(c, t)'
    <3> SUFFICES ASSUME ClaimsFollowed(c, t), NEW i \in DOMAIN inbox'[c], ClaimAt(c, i, t)'
                 PROVE  \E j \in DOMAIN inbox'[c] : i < j /\ ResultAt(c, j, t)'
      BY DEF ClaimsFollowed
    <3>1. CASE i \in DOMAIN inbox[c]
      <4>1. ClaimAt(c, i, t)
        BY <1>9, <3>1 DEF ClaimAt, Grown
      <4>2. PICK j \in DOMAIN inbox[c] : i < j /\ ResultAt(c, j, t)
        BY <3>1, <4>1 DEF ClaimsFollowed
      <4>3. QED
        BY <1>9, <4>2 DEF ResultAt, Grown
    <3>2. CASE i - Len(inbox[c]) \in DOMAIN frames /\ inbox'[c][i] = frames[i - Len(inbox[c])]
      <4>1. PICK j \in DOMAIN frames : /\ i - Len(inbox[c]) < j
                                       /\ frames[j].type = "task.result" /\ frames[j].id = t
        BY <3>2 DEF ClaimAt
      <4>2. PICK k \in DOMAIN inbox'[c] : k = Len(inbox[c]) + j /\ inbox'[c][k] = frames[j]
        BY <1>9 DEF Grown
      <4>3. i \in Nat /\ j \in Nat /\ Len(inbox[c]) \in Nat
        BY <1>9 DEF Grown
      <4>4. i < k
        BY <4>1, <4>2, <4>3
      <4>5. ResultAt(c, k, t)'
        BY <4>1, <4>2 DEF ResultAt
      <4>6. QED
        BY <4>4, <4>5
    <3>3. QED
      BY <1>9, <3>1, <3>2 DEF Grown
  <2>3. CASE Program[c] = "worker" /\ from # "hello"
    <3>1. Requested(c, t) => Requested(c, t)' \/ ResultSent(c, t)'
      <4> SUFFICES ASSUME Requested(c, t), ~Requested(c, t)' PROVE ResultSent(c, t)'
        OBVIOUS
      <4>1. PICK f \in Frames(c) : f.message.type = "task.request" /\ f.message.id = t
        BY DEF Requested
      <4>2. f \notin Frames(c)'
        BY <4>1 DEF Requested
      <4>3. f = Head(wire[c])
        BY <1>3, <4>1, <4>2
      <4>4. PICK j \in DOMAIN frames : frames[j].type = "task.result" /\ frames[j].id = t
        BY <2>3, <4>1, <4>3 DEF Incoming
      <4>5. QED
        BY <1>9, <4>4 DEF ResultSent, ResultAt, Grown
    <3>2. WillReplay(c, t)' = WillReplay(c, t)
      BY <1>2 DEF WillReplay
    <3>3. QED
      BY <1>2, <1>9, <2>1, <2>2, <3>1, <3>2, ServedStep DEF Expects, Grown
  <2>4. CASE Program[c] = "worker" /\ from = "hello"
    <3>1. clients[c] # "registered"
      BY <1>1, <2>4 DEF WorkersOK, Progress
    <3>2. QED
      BY <1>2, <1>9, <2>1, <2>2, <3>1 DEF Served, Grown
  <2>5. CASE Program[c] # "worker"
    BY <1>2, <1>9, <2>1, <2>2, <2>5 DEF Served, Grown
  <2>6. QED
    BY <2>3, <2>4, <2>5
<1>14. ASSUME NEW d \in Conns, d # c, NEW t \in Tasks PROVE Served(d, t)'
  BY <1>2, <1>3, <1>8, <1>14, UntouchedServed DEF WorkersOK
<1>15. QED
  BY <1>3, <1>5, <1>6, <1>7, <1>10, <1>11, <1>12, <1>13, <1>14 DEF WorkersOK

(* The step of a program that ends, is cut off, or loses its connection:   *)
(* what is lost is what was on its way to it.                              *)
LEMMA LeaveStep ==
  ASSUME ProgramsInv, NEW c \in Conns, UNCHANGED <<tables, handler, scheduled, Program>>,
         at[c] \notin {"new", "done"} \/ UNCHANGED at,
         handler[c].pc # "new",
         at' = [at EXCEPT ![c] = "done"] \/ UNCHANGED at,
         up' = [up EXCEPT ![c] = FALSE],
         DOMAIN wire' = Conns, wire'[c] = <<>>,
         \A d \in Conns : d # c => wire'[d] = wire[d],
         DOMAIN inbox' = Conns,
         inbox[c] = <<>> => inbox'[c] = <<>>,
         IsSequence(inbox'[c]), \A i \in DOMAIN inbox'[c] : Sends(c, inbox'[c][i]),
         \A d \in Conns : d # c => inbox'[d] = inbox[d],
         DOMAIN answer' = Conns,
         \A p \in Conns : Program[p] = "package" /\ answer'[p] = "state.accepted" => Won(p)
  PROVE  ProgramsInv'
<1> USE DEF ProgramsInv, TypesOK
<1>1. UNCHANGED <<clients, pending, arrivals, claimed, resources, handler, scheduled>>
  BY DEF tables
<1>2. /\ up' \in [Conns -> BOOLEAN] /\ ~up'[c]
      /\ \A d \in Conns : d # c => up'[d] = up[d]
  BY DEF TablesOK
<1>3. /\ at' \in [Conns -> Places]
      /\ at'[c] = at[c] \/ at'[c] = "done"
      /\ \A d \in Conns : d # c => at'[d] = at[d]
  BY DEF ProgramsOK, Places
<1>4. /\ LinksOK'
      /\ \A d \in Conns : Frames(d)' \subseteq Frames(d) /\ (d # c => Frames(d)' = Frames(d))
  BY LostFrames
<1>5. KeepsResources
  BY <1>1, KeptResources DEF TablesOK
<1>6. RequestsKnown' /\ Untold
  BY <1>4, <1>5, FewerFrames DEF KeepsResources
<1>7. TablesOK'
  BY <1>1, <1>2, <1>5 DEF TablesOK, KeepsResources
<1>8. PackagesOK'
  BY <1>6, UntoldStep
<1>9. ProgramsOK'
  <2>1. \A d, m : Sends(d, m)' = Sends(d, m)
    BY DEF Sends
  <2>2. \A d \in Conns : IsSequence(inbox'[d]) /\ \A i \in DOMAIN inbox'[d] : Sends(d, inbox'[d][i])
    BY DEF ProgramsOK
  <2>3. QED
    BY <1>3, <2>1, <2>2 DEF ProgramsOK
<1>10. RanksDiffer'
  BY <1>1 DEF WorkersOK, RanksDiffer
<1>11. ASSUME NEW d \in Conns PROVE Progress(d)'
  <2>1. Progress(d)
    BY DEF WorkersOK
  <2>2. CASE d = c
    BY <1>1, <1>2, <1>3, <2>1, <2>2 DEF Progress
  <2>3. CASE d # c
    BY <1>1, <1>2, <1>3, <2>1, <2>3, UntouchedProgress
  <2>4. QED
    BY <2>2, <2>3
<1>12. ASSUME NEW d \in Conns, NEW t \in Tasks PROVE Served(d, t)'
  <2>1. CASE d = c
    BY <1>2, <2>1, GoneServed
  <2>2. CASE d # c
    BY <1>1, <1>2, <1>4, <2>2, UntouchedServed DEF WorkersOK
  <2>3. QED
    BY <2>1, <2>2
<1>13. QED
  BY <1>4, <1>6, <1>7, <1>8, <1>9, <1>10, <1>11, <1>12 DEF WorkersOK

(* A program returns; when it is a package, with the answer to its change. *)
LEMMA ExitStep ==
  ASSUME ProgramsInv, NEW c \in Conns, Exit(c), UNCHANGED Program,
         at[c] \notin {"new", "done"},
         Program[c] = "package" /\ Incoming(c).type = "state.accepted"
           => Incoming(c).change = ChangeOf[c].change
  PROVE  ProgramsInv'
<1> USE DEF ProgramsInv, TypesOK
<1>1. /\ wire[c] # <<>>
      /\ at' = [at EXCEPT ![c] = "done"]
      /\ answer' = [answer EXCEPT ![c] = Incoming(c).type]
      /\ up' = [up EXCEPT ![c] = FALSE]
      /\ wire' = [wire EXCEPT ![c] = <<>>]
      /\ UNCHANGED <<tables, handler, scheduled, inbox>>
  BY DEF Exit
<1>2. handler[c].pc # "new"
  BY DEF WorkersOK, Progress
<1>3. Head(wire[c]) \in Frames(c)
  BY <1>1, TailRange DEF LinksOK, Frames
<1>4. ASSUME NEW p \in Conns, Program[p] = "package", answer'[p] = "state.accepted"
      PROVE  Won(p)
  <2>1. CASE p = c
    <3>1. Incoming(c).type = "state.accepted"
      BY <1>1, <1>4, <2>1 DEF ProgramsOK
    <3>2. Tells(Head(wire[c]), c)
      BY <1>4, <2>1, <3>1 DEF Tells, Incoming
    <3>3. IsTold(c)
      BY <1>3, <3>2 DEF IsTold
    <3>4. QED
      BY <1>4, <2>1, <3>3 DEF Won
  <2>2. CASE p # c
    BY <1>1, <1>4, <2>2 DEF ProgramsOK, Won
  <2>3. QED
    BY <2>1, <2>2
<1>5. /\ DOMAIN answer' = Conns /\ DOMAIN inbox' = Conns
      /\ DOMAIN wire' = Conns /\ wire'[c] = <<>>
      /\ \A d \in Conns : d # c => wire'[d] = wire[d]
  BY <1>1 DEF ProgramsOK, LinksOK
<1>6. IsSequence(inbox'[c]) /\ \A i \in DOMAIN inbox'[c] : Sends(c, inbox'[c][i])
  BY <1>1 DEF ProgramsOK
<1>7. QED
  BY <1>1, <1>2, <1>4, <1>5, <1>6, LeaveStep

LEMMA CutOffStep ==
  ASSUME ProgramsInv, NEW c \in Conns, CutOff(c), UNCHANGED Program
  PROVE  ProgramsInv'
<1> USE DEF ProgramsInv, TypesOK
<1>1. /\ at[c] \notin {"new", "done"} /\ ~up[c] /\ wire[c] = <<>>
      /\ at' = [at EXCEPT ![c] = "done"]
      /\ UNCHANGED <<tables, handler, up, scheduled, wire, inbox, answer>>
  BY DEF CutOff, serverVars, links
<1>2. handler[c].pc # "new"
  BY <1>1 DEF WorkersOK, Progress
<1>3. /\ up' = [up EXCEPT ![c] = FALSE]
      /\ DOMAIN wire' = Conns /\ wire'[c] = <<>>
      /\ \A d \in Conns : d # c => wire'[d] = wire[d]
  <2>1. up \in [Conns -> BOOLEAN] /\ up' = up /\ up[c] = FALSE
    BY <1>1 DEF TablesOK
  <2>2. up' = [up EXCEPT ![c] = FALSE]
    BY <2>1
  <2>3. QED
    BY <1>1, <2>2 DEF LinksOK
<1>4. \A p \in Conns : Program[p] = "package" /\ answer'[p] = "state.accepted" => Won(p)
  BY <1>1 DEF Won
<1>5. DOMAIN answer' = Conns /\ DOMAIN inbox' = Conns
  BY <1>1 DEF ProgramsOK
<1>6. IsSequence(inbox'[c]) /\ \A i \in DOMAIN inbox'[c] : Sends(c, inbox'[c][i])
  BY <1>1 DEF ProgramsOK
<1>7. QED
  BY <1>1, <1>2, <1>3, <1>4, <1>5, <1>6, LeaveStep

(* A connection breaks, with the frames on their way in both directions.   *)
LEMMA BreakStep ==
  ASSUME ProgramsInv, NEW c \in Conns, Break(c), UNCHANGED Program
  PROVE  ProgramsInv'
<1> USE DEF ProgramsInv, TypesOK
<1>1. /\ up[c]
      /\ up' = [up EXCEPT ![c] = FALSE] /\ wire' = [wire EXCEPT ![c] = <<>>]
      /\ UNCHANGED <<tables, handler, scheduled, at, answer>>
  BY DEF Break, Drop
<1>2. PICK kept \in 0 .. Len(inbox[c]) : inbox' = [inbox EXCEPT ![c] = SubSeq(@, 1, kept)]
  BY DEF Break
<1>3. /\ DOMAIN inbox' = Conns /\ inbox'[c] = SubSeq(inbox[c], 1, kept)
      /\ IsSequence(inbox[c]) /\ \A i \in DOMAIN inbox[c] : Sends(c, inbox[c][i])
      /\ \A d \in Conns : d # c => inbox'[d] = inbox[d]
  BY <1>2 DEF ProgramsOK
<1>4. handler[c].pc # "new"
  BY <1>1 DEF WorkersOK, Progress
<1>5. /\ IsSequence(inbox'[c]) /\ \A i \in DOMAIN inbox'[c] : Sends(c, inbox'[c][i])
      /\ inbox[c] = <<>> => inbox'[c] = <<>>
  BY <1>3, PrefixKept
<1>6. \A p \in Conns : Program[p] = "package" /\ answer'[p] = "state.accepted" => Won(p)
  BY <1>1 DEF Won
<1>7. /\ DOMAIN answer' = Conns
      /\ DOMAIN wire' = Conns /\ wire'[c] = <<>>
      /\ \A d \in Conns : d # c => wire'[d] = wire[d]
  BY <1>1 DEF ProgramsOK, LinksOK
<1>8. QED
  BY <1>1, <1>3, <1>4, <1>5, <1>6, <1>7, LeaveStep

(* The frames the programs send are frames of their kind.                  *)
LEMMA SentKinds ==
  ASSUME ProgramsOK, NEW c \in Conns
  PROVE  /\ Sends(c, Register)
         /\ Program[c] = "submitter" => Sends(c, TaskRequest(TaskOf[c]))
         /\ Program[c] = "package" => Sends(c, [type |-> "state.patch", change |-> ChangeOf[c]])
         /\ Program[c] = "worker" =>
              \A t \in Tasks : Sends(c, Claim(t, c)) /\ Sends(c, Result(t))
<1>1. Register \in Message
  BY DEF Register, Message
<1>2. ASSUME NEW t \in Tasks
      PROVE  TaskRequest(t) \in Message /\ Claim(t, c) \in Message /\ Result(t) \in Message
  BY ProgramAssumption DEF TaskRequest, Claim, Result, Message
<1>3. \A ch \in Change : [type |-> "state.patch", change |-> ch] \in Message
  BY DEF Message
<1>4. QED
  BY <1>1, <1>2, <1>3, ProgramFacts DEF Sends, Register, TaskRequest, Claim, Result

(* A frame that is only read.                                              *)
LEMMA ReceiveNothing ==
  ASSUME ProgramsInv, NEW c \in Conns, NEW place \in {"serve", "wait", "answer"},
         Receive(c, place, place, <<>>), UNCHANGED Program,
         Program[c] # "worker" \/ Incoming(c).type # "task.request"
  PROVE  ProgramsInv'
<1> PICK frames : frames = <<>>
  OBVIOUS
<1>1. IsSequence(frames) /\ DOMAIN frames = {}
  BY EmptySeq, EmptyRange
<1>2. Receive(c, place, place, frames)
  BY Zenon
<1>3. place \in Places /\ place \notin {"new", "done", "hello"}
  BY DEF Places
<1>4. QED
  BY <1>1, <1>2, <1>3, ReceiveStep

(* The steps of the three programs.                                        *)
LEMMA WorkerStep ==
  ASSUME ProgramsInv, NEW c \in Conns, WorkerStart(c) \/ WorkerServe(c), UNCHANGED Program
  PROVE  ProgramsInv'
<1> USE DEF ProgramsInv, TypesOK
<1>1. CASE WorkerStart(c)
  <2>1. Receive(c, "hello", "serve", <<Register>>)
    BY <1>1 DEF WorkerStart
  <2>2. Sends(c, Register) /\ Register.type = "client.register"
    BY SentKinds DEF Register
  <2>3. IsSequence(<<Register>>) /\ \A i \in DOMAIN <<Register>> : <<Register>>[i] = Register
    BY ShortSequences
  <2>4. QED
    BY <2>1, <2>2, <2>3, ReceiveStep DEF Places
<1>2. CASE WorkerServe(c)
  <2> DEFINE m == Incoming(c)
             asked == <<Claim(m.id, c), Result(m.id)>>
  <2>1. /\ Program[c] = "worker" /\ wire[c] # <<>>
        /\ Receive(c, "serve", "serve", IF m.type = "task.request" THEN asked ELSE <<>>)
    BY <1>2 DEF WorkerServe
  <2>2. CASE m.type = "task.request"
    <3>1. Head(wire[c]) \in Frames(c)
      BY <2>1, TailRange DEF LinksOK, Frames
    <3>2. m.id \in Tasks
      BY <2>2, <3>1 DEF RequestsKnown, Incoming
    <3>3. /\ Sends(c, Claim(m.id, c)) /\ Sends(c, Result(m.id))
          /\ Claim(m.id, c).type = "task.claim" /\ Claim(m.id, c).id = m.id
          /\ Result(m.id).type = "task.result" /\ Result(m.id).id = m.id
      BY <2>1, <3>2, SentKinds DEF Claim, Result
    <3>4. /\ IsSequence(asked) /\ DOMAIN asked = {1, 2}
          /\ asked[1] = Claim(m.id, c) /\ asked[2] = Result(m.id)
      BY ShortSequences
    <3>5. Receive(c, "serve", "serve", asked)
      BY <2>1, <2>2
    <3> HIDE DEF asked
    <3>6. /\ \A i \in DOMAIN asked : Sends(c, asked[i])
          /\ \E j \in DOMAIN asked : asked[j].type = "task.result" /\ asked[j].id = m.id
          /\ \A i \in DOMAIN asked : asked[i].type = "task.claim" =>
               \E j \in DOMAIN asked : i < j /\ asked[j].type = "task.result"
                                       /\ asked[j].id = asked[i].id
      <4>1. 1 < 2
        OBVIOUS
      <4>2. QED
        BY <3>3, <3>4, <4>1
    <3>7. "serve" \in Places /\ "serve" \notin {"new", "done", "hello"}
      BY DEF Places
    <3>8. QED
      BY <3>4, <3>5, <3>6, <3>7, ReceiveStep
  <2>3. CASE m.type # "task.request"
    BY <2>1, <2>3, ReceiveNothing
  <2>4. QED
    BY <2>2, <2>3
<1>3. QED
  BY <1>1, <1>2

LEMMA SubmitterStep ==
  ASSUME ProgramsInv, NEW c \in Conns, SubmitterStart(c) \/ SubmitterWait(c), UNCHANGED Program
  PROVE  ProgramsInv'
<1> USE DEF ProgramsInv, TypesOK
<1>1. CASE SubmitterStart(c)
  <2> DEFINE r == TaskRequest(TaskOf[c])
             frames == <<Register, r>>
  <2>1. Program[c] = "submitter" /\ Receive(c, "hello", "wait", frames)
    BY <1>1 DEF SubmitterStart
  <2>2. /\ Sends(c, Register) /\ Sends(c, r)
        /\ Register.type = "client.register" /\ r.type = "task.request"
    BY <2>1, SentKinds DEF Register, TaskRequest
  <2>3. /\ IsSequence(frames) /\ DOMAIN frames = {1, 2}
        /\ frames[1] = Register /\ frames[2] = r
    BY ShortSequences
  <2> HIDE DEF frames, r
  <2>4. \A i \in DOMAIN frames : Sends(c, frames[i]) /\ frames[i].type # "task.claim"
    BY <2>2, <2>3
  <2>5. QED
    BY <2>1, <2>3, <2>4, ReceiveStep DEF Places
<1>2. CASE SubmitterWait(c)
  <2>1. Program[c] = "submitter" /\ at[c] = "wait"
    BY <1>2 DEF SubmitterWait
  <2>2. CASE Exit(c)
    BY <2>1, <2>2, ExitStep
  <2>3. CASE Receive(c, "wait", "wait", <<>>)
    BY <2>1, <2>3, ReceiveNothing
  <2>4. QED
    BY <1>2, <2>2, <2>3 DEF SubmitterWait
<1>3. QED
  BY <1>1, <1>2

LEMMA PackageStep ==
  ASSUME ProgramsInv, NEW c \in Conns, PackageStart(c) \/ PackageWait(c), UNCHANGED Program
  PROVE  ProgramsInv'
<1> USE DEF ProgramsInv, TypesOK
<1>1. Program[c] = "package"
  BY DEF PackageStart, PackageWait
<1>2. ASSUME NEW from \in {"hello", "registered", "answer"}, NEW to \in {"registered", "answer"},
             NEW m, Sends(c, m), m.type # "task.claim", Receive(c, from, to, <<m>>)
      PROVE  ProgramsInv'
  <2>1. IsSequence(<<m>>) /\ \A i \in DOMAIN <<m>> : <<m>>[i] = m
    BY ShortSequences
  <2>2. QED
    BY <1>1, <1>2, <2>1, ReceiveStep DEF Places
<1>3. CASE Receive(c, "hello", "registered", <<Register>>)
  <2>1. Sends(c, Register) /\ Register.type # "task.claim"
    BY SentKinds DEF Register
  <2>2. QED
    BY <1>2, <1>3, <2>1
<1>4. CASE Receive(c, "registered", "answer", <<[type |-> "state.patch", change |-> ChangeOf[c]]>>)
  <2> DEFINE m == [type |-> "state.patch", change |-> ChangeOf[c]]
  <2>1. Sends(c, m) /\ m.type # "task.claim"
    BY <1>1, SentKinds
  <2>2. Receive(c, "registered", "answer", <<m>>)
    BY <1>4
  <2> HIDE DEF m
  <2>3. QED
    BY <1>2, <2>1, <2>2
<1>5. CASE at[c] = "answer" /\ IsAnswer(c, Incoming(c)) /\ Exit(c)
  BY <1>5, ExitStep DEF IsAnswer
<1>6. CASE Receive(c, "answer", "answer", <<>>)
  BY <1>1, <1>6, ReceiveNothing
<1>7. QED
  BY <1>3, <1>4, <1>5, <1>6 DEF PackageStart, PackageWait

-----------------------------------------------------------------------------
(* The invariant of the example programs, whatever the cast.               *)
THEOREM ProgramsInvariant == Spec => []ProgramsInv
<1>1. Init => ProgramsInv
  <2> SUFFICES ASSUME Init PROVE ProgramsInv
    OBVIOUS
  <2>1. /\ resources = [id \in {} |-> FreshResource]
        /\ clients = [c \in Conns |-> "absent"]
        /\ pending = [t \in Tasks |-> 0] /\ arrivals = 0
        /\ claimed = [t \in Tasks |-> NoOne]
        /\ handler = [c \in Conns |-> [pc |-> "new", size |-> 0, cursor |-> 0]]
        /\ up = [c \in Conns |-> FALSE]
        /\ scheduled = [c \in Conns |-> <<>>] /\ wire = [c \in Conns |-> <<>>]
        /\ Program \in Casts
        /\ at = [c \in Conns |-> "new"]
        /\ inbox = [c \in Conns |-> <<>>]
        /\ answer = [c \in Conns |-> "none"]
    BY DEF Init, ServerInit, StoreInit
  <2>2. IsSequence(<<>>) /\ Range(<<>>) = {} /\ DOMAIN <<>> = {}
    BY EmptySeq, EmptyRange
  <2>3. \A c \in Conns : Frames(c) = {}
    BY <2>1, <2>2 DEF Frames
  <2>4. TablesOK
    BY <2>1 DEF TablesOK, StoreTypeOK, HandlerStates
  <2>5. LinksOK /\ RequestsKnown
    BY <2>1, <2>2, <2>3 DEF LinksOK, RequestsKnown
  <2>6. ProgramsOK
    BY <2>1, <2>2 DEF ProgramsOK, Places
  <2>7. \A p \in Conns : ~Won(p)
    BY <2>1, <2>3 DEF Won, IsTold
  <2>8. PackagesOK
    BY <2>7 DEF PackagesOK, WinnersArePast, OneWinner
  <2>9. RanksDiffer
    BY <2>1 DEF RanksDiffer
  <2>10. NoOne \notin Conns
    BY CoordinatorAssumption, ProgramAssumption
  <2>11. \A c \in Conns : Progress(c)
    BY <2>1, <2>10 DEF Progress
  <2>12. \A c \in Conns, t \in Tasks : Served(c, t)
    BY <2>1 DEF Served
  <2>13. QED
    BY <2>4, <2>5, <2>6, <2>8, <2>9, <2>11, <2>12 DEF ProgramsInv, TypesOK, WorkersOK
<1>2. ProgramsInv /\ [Next]_vars => ProgramsInv'
  <2> SUFFICES ASSUME ProgramsInv, [Next]_vars PROVE ProgramsInv'
    OBVIOUS
  <2>1. ASSUME NEW c \in Conns, Open(c), UNCHANGED Program PROVE ProgramsInv'
    BY <2>1, OpenStep
  <2>2. ASSUME NEW c \in Conns, Serve(c), UNCHANGED Program PROVE ProgramsInv'
    <3>1. CASE /\ inbox[c] # <<>> /\ Handle(c, Head(inbox[c]))
               /\ inbox' = [inbox EXCEPT ![c] = Tail(@)]
               /\ UNCHANGED <<at, answer>>
      BY <2>2, <3>1, MessageStep DEF Pops
    <3>2. CASE ReplayTask(c) /\ UNCHANGED clientVars
      BY <2>2, <3>2, ReplayStep DEF clientVars
    <3>3. CASE StartSend(c) /\ UNCHANGED clientVars
      BY <2>2, <3>3, SendStep DEF clientVars
    <3>4. CASE Finish(c) /\ UNCHANGED clientVars
      BY <2>2, <3>4, FinishStep DEF clientVars
    <3>5. QED
      BY <2>2, <3>1, <3>2, <3>3, <3>4 DEF Serve
  <2>3. ASSUME NEW c \in Conns, ProgramStep(c), UNCHANGED Program PROVE ProgramsInv'
    BY <2>3, WorkerStep, SubmitterStep, PackageStep, CutOffStep DEF ProgramStep
  <2>4. ASSUME NEW c \in Conns, Break(c), UNCHANGED Program PROVE ProgramsInv'
    BY <2>4, BreakStep
  <2>5. CASE UNCHANGED vars
    <3>1. /\ UNCHANGED <<clients, pending, arrivals, claimed, resources, handler>>
          /\ UNCHANGED <<up, scheduled, wire, at, inbox, answer, Program>>
      BY <2>5 DEF vars, moving, serverVars, clientVars, tables, links
    <3>2. TypesOK'
      BY <3>1 DEF ProgramsInv, TypesOK, TablesOK, StoreTypeOK, LinksOK, RequestsKnown, Frames,
                  ProgramsOK, Sends
    <3>3. PackagesOK'
      BY <3>1 DEF ProgramsInv, PackagesOK, WinnersArePast, OneWinner, Won, IsTold, Tells, Frames,
                  SameBase, Revision, Get
    <3>4. WorkersOK'
      BY <3>1 DEF ProgramsInv, WorkersOK, RanksDiffer, Progress, Served, ClaimsFollowed, ClaimAt,
                  ResultAt, ResultSent, Requested, WillReplay, Expects, Frames
    <3>5. QED
      BY <3>2, <3>3, <3>4 DEF ProgramsInv
  <2>6. QED
    BY <2>1, <2>2, <2>3, <2>4, <2>5 DEF Next
<1>3. QED
  BY <1>1, <1>2, PTL DEF Spec

(* Of changes with one base at most one is accepted, whatever order the    *)
(* coordinator takes them in and whoever is told first                     *)
(* (package_change_demo.py 36-41, with coordinator.py 108-154).            *)
THEOREM OneChangeWins == Spec => []OneWins
<1>1. ProgramsInv => OneWins
  <2> SUFFICES ASSUME ProgramsInv, NEW c \in Conns,
                      Program[c] = "package", answer[c] = "state.accepted"
               PROVE  /\ Get(ChangeOf[c].resource).revision > 0
                      /\ \A d \in Conns \ {c} :
                           Program[d] = "package" /\ ChangeOf[d].resource = ChangeOf[c].resource
                             /\ ChangeOf[c].base # NoBase /\ ChangeOf[d].base = ChangeOf[c].base
                               => answer[d] # "state.accepted"
    BY DEF OneWins
  <2>1. Won(c)
    BY DEF Won
  <2>2. Get(ChangeOf[c].resource).revision > 0
    BY <2>1 DEF ProgramsInv, PackagesOK, WinnersArePast, Revision
  <2>3. ASSUME NEW d \in Conns \ {c}, Program[d] = "package", answer[d] = "state.accepted",
               ChangeOf[d].resource = ChangeOf[c].resource,
               ChangeOf[c].base # NoBase, ChangeOf[d].base = ChangeOf[c].base
        PROVE  FALSE
    <3>1. Won(d) /\ SameBase(c, d)
      BY <2>3 DEF Won, SameBase
    <3>2. QED
      BY <2>1, <3>1 DEF ProgramsInv, PackagesOK, OneWinner
  <2>4. QED
    BY <2>2, <2>3
<1>2. QED
  BY <1>1, ProgramsInvariant, PTL

(* Once everything is handled, no task is pending while a worker serves,   *)
(* and no claim is held by a connection that is open (worker.py 44-71,     *)
(* with coordinator.py 45-67 and 91-106).                                  *)
THEOREM NoTaskLeftBehind == Spec => []NothingLeftBehind
<1>1. ProgramsInv => NothingLeftBehind
  <2> SUFFICES ASSUME ProgramsInv, Settled, NEW t \in Tasks
               PROVE  /\ pending[t] > 0 => \A c \in Conns : ~Serving(c)
                      /\ claimed[t] # NoOne => ~up[claimed[t]]
    BY DEF NothingLeftBehind
  <2>1. \A c \in Conns : Served(c, t)
    BY DEF ProgramsInv, WorkersOK
  <2>2. DOMAIN <<>> = {} /\ Range(<<>>) = {}
    BY EmptySeq, EmptyRange
  <2>3. \A c \in Conns : ~Requested(c, t) /\ ~ResultSent(c, t)
    BY <2>2 DEF Settled, Requested, Frames, ResultSent
  <2>4. \A c \in Conns : ~WillReplay(c, t)
    BY DEF Settled, WillReplay
  <2>5. pending[t] > 0 => \A c \in Conns : ~Serving(c)
    BY <2>1, <2>3, <2>4 DEF Served, Expects, Serving
  <2>6. claimed[t] # NoOne => claimed[t] \in Conns
    BY DEF ProgramsInv, TypesOK, TablesOK
  <2>7. claimed[t] # NoOne => ~up[claimed[t]]
    BY <2>1, <2>3, <2>6 DEF Served
  <2>8. QED
    BY <2>5, <2>7
<1>2. QED
  BY <1>1, ProgramsInvariant, PTL
=============================================================================
