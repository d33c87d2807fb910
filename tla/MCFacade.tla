------------------------------ MODULE MCFacade ------------------------------
(* Instances of Facade for TLC. *)
EXTENDS Facade, TLC

CONSTANTS w1, c1, c2, k1

\* A call on the first worker.
CalleeOne == k1 :> w1
=============================================================================
