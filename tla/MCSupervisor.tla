---------------------------- MODULE MCSupervisor ----------------------------
(* Instances of Supervisor for TLC. *)
EXTENDS Supervisor, TLC

CONSTANTS w1, w2, e1, e2, k1, c1, c2, c3

\* The facade's use: every worker runs one execution.
OwnerEach == e1 :> w1 @@ e2 :> w2

\* The native interface: a second execution queues on the same worker.
OwnerShared == e1 :> w1 @@ e2 :> w1

\* Two guest calls of one execution and one of the other.
GuestCallsOfBoth == c1 :> e1 @@ c2 :> e1 @@ c3 :> e2

\* The two guest calls of one execution are alike.
CallSymmetry == Permutations({c1, c2})

\* A guest call of each execution and a worker call of the first.
OneEach == c1 :> e1 @@ c2 :> e2 @@ k1 :> e1
=============================================================================
