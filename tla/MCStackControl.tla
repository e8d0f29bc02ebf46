-------------------------- MODULE MCStackControl --------------------------
(* A model loop under one operator.                                        *)
EXTENDS StackControl

ModalCast == {[operators |-> {"operator"}, programs |-> {"modal"}]}
=============================================================================
