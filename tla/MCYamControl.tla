--------------------------- MODULE MCYamControl ---------------------------
(* One client with every method, where everything may fail; two clients,   *)
(* of which the first does not reconnect and the second does not read; and *)
(* two that only read.                                                     *)
EXTENDS YamControl, TLC

CONSTANTS t1, t2

Single ==
  [methods |-> (t1 :> MethodNames) @@ (t2 :> {}),
   unreliable |-> Arms, bridgeFails |-> TRUE]
Pair ==
  [methods |-> (t1 :> MethodNames \ {"reconnect"}) @@ (t2 :> MethodNames \ {"read"}),
   unreliable |-> {"left"}, bridgeFails |-> FALSE]
Readers ==
  [methods |-> (t1 :> {"read"}) @@ (t2 :> {"read"}),
   unreliable |-> {"left"}, bridgeFails |-> FALSE]

MCSettings == {Single, Pair}
ReadSettings == {Readers}
=============================================================================
