------------------------------ MODULE MCArms ------------------------------
(***************************************************************************)
(* The arm control server and the CAN bridge its robots use.  A behaviour  *)
(* is one of one of them; the other stays in an initial state.             *)
(***************************************************************************)
EXTENDS MCYamControl, CanBridge

VARIABLE program   (* the one that runs                                    *)

arm == <<program, vars, bridgeVars>>

ArmInit ==
  /\ program \in {"server", "bridge"}
  /\ Init
  /\ program = "bridge" => setting = Single /\ \A a \in Arms : connected[a]
  /\ BridgeInit

OfServer == program = "server" /\ UNCHANGED <<program, bridgeVars>>
OfBridge == program = "bridge" /\ UNCHANGED <<program, vars>>

ArmNext ==
  \/ OfServer /\ Next
  \/ OfBridge /\ BridgeNext

(* Every thread of the server runs, and robot calls return; the runtime    *)
(* runs every task of the bridge.                                          *)
ArmFairness ==
  /\ \A th \in Threads : WF_arm(OfServer /\ Step(th) /\ UNCHANGED setting)
  /\ \A c \in Conns : WF_arm(OfBridge /\ Runs(c))

ArmSpec == ArmInit /\ [][ArmNext]_arm /\ ArmFairness
=============================================================================
