------------------------------- MODULE MCLink -------------------------------
(* Instances of Link for TLC. *)
EXTENDS Link, TLC

CONSTANTS r1, r2, r3, none

\* A limit update and a health check; the smallest number of requests that can
\* meet a full socket.
UpdateAndHealth == (r1 :> 1) @@ (r2 :> none)
ThreeHealthChecks == [r \in {r1, r2, r3} |-> none]

TwoWrites == {[source |-> "Stdout", size |-> 1], [source |-> "Stderr", size |-> 2]}
OneWrite == {[source |-> "Stdout", size |-> 1]}
=============================================================================
