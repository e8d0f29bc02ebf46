--------------------------- MODULE ExampleClients ---------------------------
(***************************************************************************)
(* The coordinator with the client programs of examples/python: worker.py, *)
(* submit_task.py and the packages of package_change_demo.py.  Frames of a *)
(* client reach its handler in the order they were sent.                   *)
(***************************************************************************)
EXTENDS Coordinator, SequencesExt

CONSTANTS
  Casts,      (* functions: connection -> the program that runs on it:     *)
              (* "worker", "submitter", "package" or "none"                *)
  TaskOf,     (* submitter -> the id of the task it requests               *)
  ChangeOf,   (* package -> the change it sends                            *)
  Fragile     (* bound: the connections that may break                     *)

ASSUME ProgramAssumption ==
  /\ Casts \subseteq [Conns -> {"worker", "submitter", "package", "none"}]
  /\ Conns \subseteq ClientIds
  /\ \A cast \in Casts, c \in Conns :
       /\ cast[c] = "submitter" => TaskOf[c] \in Tasks
       /\ cast[c] = "package" => ChangeOf[c] \in Change
  /\ \A cast \in Casts, c, d \in Conns :
       cast[c] = "package" /\ cast[d] = "package" /\ ChangeOf[c].change = ChangeOf[d].change
         => c = d

VARIABLES
  Program,    (* the cast of this behaviour                                *)
  at,         (* where the program of a connection is                      *)
  inbox,      (* frames a program has sent and its handler not received    *)
  answer      (* what ended a program: a message type, or "none"           *)

clientVars == <<at, inbox, answer>>
moving == <<serverVars, clientVars>>
vars == <<moving, Program>>

Register == [type |-> "client.register"]
Result(t) == [type |-> "task.result", id |-> t]
Claim(t, c) == [type |-> "task.claim", id |-> t, client |-> c]

Init ==
  /\ ServerInit
  /\ Program \in Casts
  /\ at = [c \in Conns |-> "new"]
  /\ inbox = [c \in Conns |-> <<>>]
  /\ answer = [c \in Conns |-> "none"]

-----------------------------------------------------------------------------
(* The server's side.                                                      *)
Serve(c) ==
  \/ /\ inbox[c] # <<>>
     /\ Handle(c, Head(inbox[c]))
     /\ inbox' = [inbox EXCEPT ![c] = Tail(@)]
     /\ UNCHANGED <<at, answer>>
  \/ /\ ReplayTask(c) \/ StartSend(c) \/ (inbox[c] = <<>> /\ Finish(c))
     /\ UNCHANGED clientVars

(* "async with websockets.connect(url)", and the server's accept.          *)
Open(c) ==
  /\ Program[c] # "none"
  /\ at[c] = "new"
  /\ Connect(c)
  /\ at' = [at EXCEPT ![c] = IF up'[c] THEN "hello" ELSE "done"]
  /\ UNCHANGED <<inbox, answer>>

-----------------------------------------------------------------------------
(* The program receives a frame, sends frames, and goes on.                *)
Receive(c, from, to, frames) ==
  /\ at[c] = from
  /\ Read(c)
  /\ at' = [at EXCEPT ![c] = to]
  /\ inbox' = [inbox EXCEPT ![c] = @ \o frames]
  /\ UNCHANGED answer

Incoming(c) == Head(wire[c]).message

(* The program returns: leaving "async with" closes the connection, and    *)
(* frames it did not read are dropped.                                     *)
Exit(c) ==
  /\ wire[c] # <<>>
  /\ at' = [at EXCEPT ![c] = "done"]
  /\ answer' = [answer EXCEPT ![c] = Incoming(c).type]
  /\ up' = [up EXCEPT ![c] = FALSE]
  /\ wire' = [wire EXCEPT ![c] = <<>>]
  /\ UNCHANGED <<tables, handler, scheduled, inbox>>

(* worker.py, 31-42: hello is awaited, then the worker registers.          *)
WorkerStart(c) ==
  /\ Program[c] = "worker"
  /\ Receive(c, "hello", "serve", <<Register>>)

(* Mutant: the result is sent before the claim.                            *)
WorkerServeResultFirst(c) ==
  /\ Program[c] = "worker"
  /\ wire[c] # <<>>
  /\ LET m == Incoming(c) IN
     Receive(c, "serve", "serve",
       IF m.type = "task.request" THEN <<Result(m.id), Claim(m.id, c)>> ELSE <<>>)

(* worker.py, 44-71: every request is claimed and done, without waiting    *)
(* for the outcome of the claim.                                           *)
WorkerServe(c) ==
  /\ Program[c] = "worker"
  /\ wire[c] # <<>>
  /\ LET m == Incoming(c) IN
     Receive(c, "serve", "serve",
       IF m.type = "task.request" THEN <<Claim(m.id, c), Result(m.id)>> ELSE <<>>)

(* submit_task.py, 29-54: registers and requests its task.                 *)
SubmitterStart(c) ==
  /\ Program[c] = "submitter"
  /\ Receive(c, "hello", "wait", <<Register, TaskRequest(TaskOf[c])>>)

(* submit_task.py, 56-60: any task.result ends the program.                *)
SubmitterWait(c) ==
  /\ Program[c] = "submitter"
  /\ at[c] = "wait"
  /\ wire[c] # <<>>
  /\ IF Incoming(c).type = "task.result" THEN Exit(c)
     ELSE Receive(c, "wait", "wait", <<>>)

(* package_change_demo.py, 18-33: the first frame is taken for hello, the  *)
(* second for the snapshot.                                                *)
PackageStart(c) ==
  /\ Program[c] = "package"
  /\ \/ Receive(c, "hello", "registered", <<Register>>)
     \/ Receive(c, "registered", "answer",
                <<[type |-> "state.patch", change |-> ChangeOf[c]]>>)

(* Mutant: the first answer of the coordinator is taken for one's own.     *)
IsAnswerOfAny(c, m) == m.type \in {"state.accepted", "state.conflict", "error"}

(* Mutant: only an acceptance is waited for.                               *)
IsAnswerAccepted(c, m) == m.type = "state.accepted" /\ m.change = ChangeOf[c].change

(* package_change_demo.py, 36-41: the answer to one's own change.          *)
IsAnswer(c, m) ==
  \/ m.type \in {"state.accepted", "state.conflict"} /\ m.change = ChangeOf[c].change
  \/ m.type = "error"

PackageWait(c) ==
  /\ Program[c] = "package"
  /\ at[c] = "answer"
  /\ wire[c] # <<>>
  /\ IF IsAnswer(c, Incoming(c)) THEN Exit(c)
     ELSE Receive(c, "answer", "answer", <<>>)

(* The server has closed the connection and everything is read.            *)
CutOff(c) ==
  /\ at[c] \notin {"new", "done"}
  /\ ~up[c]
  /\ wire[c] = <<>>
  /\ at' = [at EXCEPT ![c] = "done"]
  /\ UNCHANGED <<serverVars, inbox, answer>>

(* The connection breaks: unread frames, and any number of the frames on   *)
(* their way to the coordinator, are lost.                                 *)
Break(c) ==
  /\ c \in Fragile
  /\ Drop(c)
  /\ \E kept \in 0 .. Len(inbox[c]) : inbox' = [inbox EXCEPT ![c] = SubSeq(@, 1, kept)]
  /\ UNCHANGED <<at, answer>>

ProgramStep(c) ==
  \/ WorkerStart(c) \/ WorkerServe(c)
  \/ SubmitterStart(c) \/ SubmitterWait(c)
  \/ PackageStart(c) \/ PackageWait(c)
  \/ CutOff(c)

Next ==
  /\ \E c \in Conns : Open(c) \/ Serve(c) \/ ProgramStep(c) \/ Break(c)
  /\ UNCHANGED Program

Spec == Init /\ [][Next]_vars

(* The event loop of the coordinator runs what can run, a program reads    *)
(* what it is sent, and the network delivers.                              *)
LiveSpec ==
  Spec /\ \A c \in Conns : WF_moving(Serve(c)) /\ WF_moving(ProgramStep(c))

-----------------------------------------------------------------------------
(* The hypothesis of the properties: c serves, and its connection holds.   *)
Serving(c) ==
  /\ Program[c] = "worker" /\ up[c]
  /\ clients[c] = "registered" /\ handler[c].pc = "read"

(* Every frame that was sent has been read and handled.                    *)
Settled ==
  \A c \in Conns : /\ inbox[c] = <<>> /\ scheduled[c] = <<>> /\ wire[c] = <<>>
                   /\ handler[c].pc \notin {"snapshot", "replay"}

(* When everything is handled nothing is left behind in the task tables: a *)
(* task is only pending while no worker serves, and only a worker that is  *)
(* gone still holds a claim (docs/protocol.md, 178; coordinator.py 52-67,  *)
(* 91-106, with worker.py 44-71).                                          *)
NothingLeftBehind ==
  Settled => \A t \in Tasks :
    /\ pending[t] > 0 => \A c \in Conns : ~Serving(c)
    /\ claimed[t] # NoOne => ~up[claimed[t]]

(* A submitter whose request the coordinator has gets a result once a      *)
(* worker serves whose connection does not break, also when other workers  *)
(* come, break, or do the task as well.                                    *)
SubmitterReturns ==
  \A s, w \in Conns \ Fragile :
    Program[s] = "submitter" /\ pending[TaskOf[s]] > 0 /\ Serving(w)
      ~> at[s] = "done" /\ answer[s] = "task.result"

(* Every package that has sent its change returns with the answer to it,   *)
(* among the announcements of the other's.                                 *)
PackageReturns ==
  \A c \in Conns \ Fragile :
    Program[c] = "package" /\ at[c] = "answer" ~> at[c] = "done" /\ answer[c] # "none"

(* What a package is told is what happened to its change: of changes with  *)
(* one base, at most one is accepted, and the store holds it as its first. *)
OneWins ==
  \A c \in Conns :
    Program[c] = "package" /\ answer[c] = "state.accepted" =>
      LET ch == ChangeOf[c] IN
      /\ Get(ch.resource).revision > 0
      /\ \A d \in Conns \ {c} :
           Program[d] = "package" /\ ChangeOf[d].resource = ch.resource
             /\ ch.base # NoBase /\ ChangeOf[d].base = ch.base
               => answer[d] # "state.accepted"
=============================================================================
