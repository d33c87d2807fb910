---------------------------- MODULE WorkerCalls ----------------------------
(***************************************************************************)
(* What a host-to-worker call promises its caller (README, DOCS "RPC"),    *)
(* without queues, frames or guest tasks: the guest runs a call at most    *)
(* once; a value is the value of a run; a refused call never ran; a call   *)
(* that was stopped may have run, may be running, or may still run.        *)
(***************************************************************************)
CONSTANT Calls

VARIABLES
  outcome,   \* what the caller knows
  runs       \* how often the guest has begun to run each call

vars == <<outcome, runs>>

Waiting == {c \in Calls : outcome[c] = "waiting"}

Init == outcome = [c \in Calls |-> "idle"] /\ runs = [c \in Calls |-> 0]

Make(c) ==
  /\ outcome[c] = "idle"
  /\ outcome' = [outcome EXCEPT ![c] = "waiting"]
  /\ UNCHANGED runs

Run(c) ==
  /\ runs[c] = 0 /\ outcome[c] \in {"waiting", "stopped"}
  /\ runs' = [runs EXCEPT ![c] = 1]
  /\ UNCHANGED outcome

Answer(c) ==
  /\ c \in Waiting /\ runs[c] = 1
  /\ outcome' = [outcome EXCEPT ![c] = "answered"]
  /\ UNCHANGED runs

Refuse(c) ==
  /\ c \in Waiting /\ runs[c] = 0
  /\ \E error \in {"full", "no_worker"} : outcome' = [outcome EXCEPT ![c] = error]
  /\ UNCHANGED runs

\* The end of an execution or of the worker stops every call that waits.
Stop ==
  /\ Waiting # {}
  /\ outcome' = [c \in Calls |-> IF c \in Waiting THEN "stopped" ELSE outcome[c]]
  /\ UNCHANGED runs

Next ==
  \/ Stop
  \/ \E c \in Calls : Make(c) \/ Run(c) \/ Answer(c) \/ Refuse(c)

Spec == Init /\ [][Next]_vars
=============================================================================
