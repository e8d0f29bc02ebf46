------------------------------ MODULE MCStops ------------------------------
(***************************************************************************)
(* The two ways to stop the robot, HARD_STOP of the stack and the stop     *)
(* message that the adapter forwards: they share no state.  A behaviour is *)
(* one of the stack or one of the adapter; the other stays in an initial   *)
(* state.                                                                  *)
(***************************************************************************)
EXTENDS LegacyAdapter, StackControl

VARIABLE way   (* which of the two runs                                   *)

(* Each kind of program under one operator; bridges, of yamctl and of the  *)
(* script, and of yamctl with a second operator at the dashboard.          *)
Alone == {"operator"}
Together == {"operator", "dashboard"}
MCCasts ==
  {[operators |-> Alone, programs |-> {"hybrid"}],
   [operators |-> Alone, programs |-> {"modal"}],
   [operators |-> Alone, programs |-> {"control", "dance"}],
   [operators |-> Alone, programs |-> {"both"}],
   [operators |-> Alone, programs |-> {"direct"}],
   [operators |-> Alone, programs |-> {"bridge", "script"}],
   [operators |-> Together, programs |-> {"bridge"}]}

stops == <<way, vars, stackVars>>

StopsInit ==
  /\ way \in {"stack", "adapter"}
  /\ StackInit
  /\ way = "adapter" => cast = (CHOOSE c \in Casts : TRUE) /\ ~stopFile /\ ~socket
  /\ Init

OfStack == way = "stack" /\ UNCHANGED <<way, vars>>
OfAdapter == way = "adapter" /\ UNCHANGED <<way, stackVars>>

StopsNext ==
  \/ OfStack /\ StackNext
  \/ OfAdapter /\ Next

(* The fairness of the one and of the other.                               *)
StopsFairness ==
  /\ \A p \in Pids : WF_stops(OfStack /\ Process(p))
  /\ WF_stops(OfAdapter /\ ForwardReads)
  /\ WF_stops(OfAdapter /\ Answer)
  /\ \A c \in Coroutines : WF_stops(OfAdapter /\ Step(c))

StopsSpec == StopsInit /\ [][StopsNext]_stops /\ StopsFairness
=============================================================================
