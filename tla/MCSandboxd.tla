----------------------------- MODULE MCSandboxd -----------------------------
(* Instances of Sandboxd for TLC. *)
EXTENDS Sandboxd, TLC

CONSTANTS w1, e1, e2

\* The facade's use: every worker runs one execution.
OwnerOne == e1 :> w1

\* The native interface: executions queue on one worker.
OwnerShared == e1 :> w1 @@ e2 :> w1

StoreOnly == {{"store"}}
TimeoutOnly == {{"timeout"}}
=============================================================================
