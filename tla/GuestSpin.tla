----------------------------- MODULE GuestSpin -----------------------------
(***************************************************************************)
(* Host-to-worker calls of one worker, from the caller to the guest and    *)
(* back: the supervisor's pending calls, the daemon's bounded call queue   *)
(* (server.rs, component_worker.rs) and the guest's spin loop, which takes *)
(* events from the `spin_next` import and runs calls one after another or  *)
(* as asyncio tasks (component/src/main.py).                               *)
(*                                                                         *)
(* The import completes on the host before the guest's task for it is      *)
(* done; what the guest does in between acts on a stale view.  A program   *)
(* may call spin() again, also after it caught the error of an earlier     *)
(* call, and a worker may run several executions: queues outlive both.     *)
(***************************************************************************)
EXTENDS Naturals, Sequences, FiniteSets

CONSTANTS
  Calls,          \* worker calls the application makes
  QueueCapacity,  \* worker_queue_capacity
  Modes,          \* the `concurrent` argument of spin()
  MaxExecs,       \* bound: executions of this worker
  MaxSpins,       \* bound: spin() calls over all executions
  MaxUpdates      \* bound: UpdateLimits frames

ASSUME GuestSpinAssumption ==
  /\ Calls \cap {"update", "end", "none"} = {}
  /\ QueueCapacity \in Nat \ {0}
  /\ Modes \subseteq BOOLEAN /\ Modes # {}
  /\ MaxExecs \in Nat \ {0} /\ MaxSpins \in Nat /\ MaxUpdates \in Nat

VARIABLES
  down, up,       \* frames on the socket to the daemon, to the supervisor
  asked,          \* executions submitted
  updates,        \* updates submitted
  closing,        \* close_worker has submitted its frame
  ready,          \* an ExecuteStarted was received
  outcome,        \* what the caller of each call knows
  open,           \* the daemon's map has the worker
  commands,       \* executions in the worker's command queue
  callQueue,      \* worker_calls
  controlQueue,   \* ControlMessage channel
  checked,        \* the connection loop is about to queue an update it let through
  await,          \* the connection loop waits for its update to be applied
  guest,          \* where the guest's program is
  mode,           \* `concurrent` of the current spin
  next, event,    \* the spin_next import, its task, and what it returned
  task,           \* handlers of calls in the guest
  runs,           \* history: how often the handler of each call has begun
  spins,          \* spin() calls so far
  failures,       \* history: spins that ended by an exception of a handler
  unwound         \* history: a spin of this execution ended and gave up calls

hostVars   == <<asked, updates, closing, ready, outcome>>
daemonVars == <<open, commands, checked, await>>
spinVars   == <<mode, next, event, task, runs, spins, failures, unwound>>
vars == <<down, up, hostVars, daemonVars, callQueue, controlQueue, guest, spinVars>>

Frame(kind, id, detail) == [kind |-> kind, id |-> id, detail |-> detail]
Note(kind) == Frame(kind, "none", "none")
Outcomes == {"idle", "waiting", "answered", "full", "no_worker", "stopped"}
Events == Calls \cup {"update", "end", "none"}

DownFrames == {Note(k) : k \in {"Execute", "UpdateLimits", "CloseWorker"}}
              \cup {Frame("WorkerCall", c, "none") : c \in Calls}
UpFrames == {Note(k) : k \in {"ExecuteStarted", "ExecuteResult", "ControlResult"}}
            \cup {Frame("WorkerResponse", c, d) : c \in Calls, d \in Outcomes}

TypeOK ==
  /\ down \in Seq(DownFrames) /\ up \in Seq(UpFrames)
  /\ asked \in 0..MaxExecs /\ updates \in 0..MaxUpdates
  /\ closing \in BOOLEAN /\ ready \in BOOLEAN
  /\ outcome \in [Calls -> Outcomes]
  /\ open \in BOOLEAN /\ commands \in 0..QueueCapacity /\ checked \in BOOLEAN /\ await \in BOOLEAN
  /\ callQueue \in Seq(Calls) /\ Len(callQueue) <= QueueCapacity
  /\ controlQueue \in Seq({"ApplyUpdates", "Close", "WakeSpinNext"})
  /\ guest \in {"idle", "program", "spin", "serving", "draining", "unwinding"}
  /\ mode \in BOOLEAN
  /\ next \in {"none", "waiting", "returned", "done"} /\ event \in Events
  /\ task \in [Calls -> {"none", "running", "cancelling", "returned", "failed"}]
  /\ runs \in [Calls -> Nat]
  /\ spins \in 0..MaxSpins /\ failures \in 0..MaxSpins /\ unwound \in BOOLEAN

Init ==
  /\ down = <<>> /\ up = <<>>
  /\ asked = 0 /\ updates = 0 /\ closing = FALSE /\ ready = FALSE
  /\ outcome = [c \in Calls |-> "idle"]
  /\ open = FALSE /\ commands = 0 /\ checked = FALSE /\ await = FALSE
  /\ callQueue = <<>> /\ controlQueue = <<>>
  /\ guest = "idle" /\ mode = FALSE
  /\ next = "none" /\ event = "none"
  /\ task = [c \in Calls |-> "none"] /\ runs = [c \in Calls |-> 0]
  /\ spins = 0 /\ failures = 0 /\ unwound = FALSE

-----------------------------------------------------------------------------
(* The supervisor. *)

\* SandboxProcess.run.
Run ==
  /\ asked < MaxExecs /\ ~closing
  /\ asked' = asked + 1
  /\ down' = Append(down, Note("Execute"))
  /\ UNCHANGED <<up, updates, closing, ready, outcome, daemonVars, callQueue,
                 controlQueue, guest, spinVars>>

\* NativeExecution.call: wait_until_execution_ready, then a pending request.
Call(c) ==
  /\ ready /\ outcome[c] = "idle"
  /\ outcome' = [outcome EXCEPT ![c] = "waiting"]
  /\ down' = Append(down, Frame("WorkerCall", c, "none"))
  /\ UNCHANGED <<up, asked, updates, closing, ready, daemonVars, callQueue,
                 controlQueue, guest, spinVars>>

Update ==
  /\ ready /\ updates < MaxUpdates
  /\ updates' = updates + 1
  /\ down' = Append(down, Note("UpdateLimits"))
  /\ UNCHANGED <<up, asked, closing, ready, outcome, daemonVars, callQueue,
                 controlQueue, guest, spinVars>>

\* SandboxProcess.close_worker: Worker._execute after the result, or the caller.
CloseWorker ==
  /\ asked > 0 /\ ~closing
  /\ closing' = TRUE
  /\ down' = Append(down, Note("CloseWorker"))
  /\ UNCHANGED <<up, asked, updates, ready, outcome, daemonVars, callQueue,
                 controlQueue, guest, spinVars>>

\* Mutant of Stopped: the close of a worker leaves its calls pending.
StoppedByResult(f) == IF f.kind = "ExecuteResult"
                        THEN {c \in Calls : outcome[c] = "waiting"} ELSE {}

\* fail_pending_worker_calls, on a result and on a successful close.
Stopped(f) == IF f.kind \in {"ExecuteResult", "ControlResult"}
                THEN {c \in Calls : outcome[c] = "waiting"} ELSE {}

\* The connection actor takes one frame.  A response to a call that is no longer
\* pending is dropped.
Receive ==
  /\ up # <<>>
  /\ up' = Tail(up)
  /\ LET f == Head(up)
     IN /\ ready' = (ready \/ f.kind = "ExecuteStarted")
        /\ outcome' = [c \in Calls |->
             IF c \in Stopped(f) THEN "stopped"
             ELSE IF f.id = c /\ outcome[c] = "waiting" THEN f.detail ELSE outcome[c]]
  /\ UNCHANGED <<down, asked, updates, closing, daemonVars, callQueue, controlQueue,
                 guest, spinVars>>

-----------------------------------------------------------------------------
(* The daemon's connection loop. *)

Handling(kind) == down # <<>> /\ ~checked /\ ~await /\ Head(down).kind = kind

\* A full command queue answers with an ExecuteResult for the refused execution.
HandleExecute ==
  /\ Handling("Execute")
  /\ down' = Tail(down)
  /\ open' = TRUE
  /\ IF commands < QueueCapacity
       THEN commands' = commands + 1 /\ UNCHANGED up
       ELSE up' = Append(up, Note("ExecuteResult")) /\ UNCHANGED commands
  /\ UNCHANGED <<hostVars, checked, await, callQueue, controlQueue, guest, spinVars>>

\* Mutant of Enqueue: a call beyond the capacity is refused and kept.
EnqueueAnyway(c) ==
  /\ callQueue' = Append(callQueue, c)
  /\ up' = IF Len(callQueue) < QueueCapacity THEN up
           ELSE Append(up, Frame("WorkerResponse", c, "full"))

\* WorkerControl::worker_call: try_send; a full queue is answered at once.
Enqueue(c) ==
  IF Len(callQueue) < QueueCapacity
    THEN callQueue' = Append(callQueue, c) /\ UNCHANGED up
    ELSE up' = Append(up, Frame("WorkerResponse", c, "full")) /\ UNCHANGED callQueue

HandleWorkerCall ==
  /\ Handling("WorkerCall")
  /\ down' = Tail(down)
  /\ LET c == Head(down).id
     IN IF open
          THEN Enqueue(c)
          ELSE /\ up' = Append(up, Frame("WorkerResponse", c, "no_worker"))
               /\ UNCHANGED callQueue
  /\ UNCHANGED <<hostVars, daemonVars, controlQueue, guest, spinVars>>

\* ensure_active: an update is refused unless an execution is active.
HandleUpdate ==
  /\ Handling("UpdateLimits")
  /\ IF open /\ guest # "idle"
       THEN checked' = TRUE /\ UNCHANGED down
       ELSE down' = Tail(down) /\ UNCHANGED checked
  /\ UNCHANGED <<up, hostVars, open, commands, await, callQueue, controlQueue, guest, spinVars>>

\* The push and the message; the execution may have ended since the check, and the loop
\* waits all the same.
QueueUpdate ==
  /\ checked
  /\ checked' = FALSE /\ await' = TRUE
  /\ controlQueue' = Append(controlQueue, "ApplyUpdates")
  /\ UNCHANGED <<down, up, hostVars, open, commands, callQueue, guest, spinVars>>

\* WorkerControl::close.
HandleClose ==
  /\ Handling("CloseWorker")
  /\ down' = Tail(down)
  /\ open' = FALSE
  /\ controlQueue' = Append(controlQueue, "Close")
  /\ up' = Append(up, Note("ControlResult"))
  /\ UNCHANGED <<hostVars, commands, checked, await, callQueue, guest, spinVars>>

\* ExecutionControlState.closed, while the actor has something left to run.
Closed == ~open /\ (commands > 0 \/ guest # "idle")

\* apply_pending_store_updates and reject_pending_store_updates answer the loop,
\* which then reads the next frame.
Applied == await' = FALSE /\ down' = IF await THEN Tail(down) ELSE down

-----------------------------------------------------------------------------
(* The worker actor and the guest's program. *)

\* execute: begin() rejects an update that was left, ExecuteStarted, then `run` of
\* main.py evaluates the program.
Begin ==
  /\ guest = "idle" /\ commands > 0
  /\ commands' = commands - 1
  /\ guest' = "program" /\ unwound' = FALSE
  /\ Applied
  /\ up' = Append(up, Note("ExecuteStarted"))
  /\ UNCHANGED <<hostVars, open, checked, callQueue, controlQueue, mode, next, event,
                 task, runs, spins, failures>>

\* The end of an execution: finish() rejects the update that waits, the result is
\* sent.  The call queue and the control queue stay as they are.
Ends ==
  /\ guest' = "idle" /\ next' = "none" /\ event' = "none"
  /\ task' = [c \in Calls |-> "none"]
  /\ Applied
  /\ up' = Append(up, Note("ExecuteResult"))
  /\ UNCHANGED <<hostVars, open, commands, checked, callQueue, controlQueue, mode, runs, spins,
                 failures, unwound>>

ProgramEnds == guest = "program" /\ Ends

\* wait_for_interruption wins.  Bound: a cancelled or timed-out execution is the
\* last one of its worker, unless the worker is closed.
LastExecution == asked = MaxExecs /\ commands = 0 /\ Note("Execute") \notin {down[i] : i \in DOMAIN down}
Interrupt == guest # "idle" /\ (Closed \/ LastExecution) /\ Ends

\* The epoch callback applies a pending update.  It runs while the guest runs, which
\* the guest may not do for as long as it waits in a host call: nothing makes this step
\* happen.  Its ApplyUpdates message stays in the control queue.
EpochApplies ==
  /\ await /\ guest # "idle"
  /\ Applied
  /\ UNCHANGED <<up, hostVars, open, commands, checked, callQueue, controlQueue, guest, spinVars>>

\* spin(concurrent): the first spin_next.
Spin ==
  /\ guest = "program" /\ spins < MaxSpins
  /\ spins' = spins + 1
  /\ guest' = "spin" /\ next' = "waiting" /\ mode' \in Modes
  /\ UNCHANGED <<down, up, hostVars, daemonVars, callQueue, controlQueue, event, task, runs,
                 failures, unwound>>

-----------------------------------------------------------------------------
(* spin_next: the control queue first, then the calls. *)

\* Mutant of EventOf: an applied update ends the loop like a close.
EventOfAnyControl(m) == "end"

EventOf(m) == IF m = "ApplyUpdates" THEN "update" ELSE "end"

SpinNextControl ==
  /\ next = "waiting" /\ controlQueue # <<>>
  /\ controlQueue' = Tail(controlQueue)
  /\ event' = EventOf(Head(controlQueue)) /\ next' = "returned"
  /\ IF Head(controlQueue) = "ApplyUpdates" THEN Applied ELSE UNCHANGED <<down, await>>
  /\ UNCHANGED <<up, hostVars, open, commands, checked, callQueue, guest, mode, task, runs, spins,
                 failures, unwound>>

\* Mutant of TakeCall: the call stays in the queue.
PeekCall == event' = Head(callQueue) /\ UNCHANGED callQueue

TakeCall == event' = Head(callQueue) /\ callQueue' = Tail(callQueue)

SpinNextCall ==
  /\ next = "waiting" /\ controlQueue = <<>> /\ callQueue # <<>>
  /\ TakeCall /\ next' = "returned"
  /\ UNCHANGED <<down, up, hostVars, daemonVars, controlQueue, guest, mode, task, runs, spins,
                 failures, unwound>>

\* The guest's event loop sees that the import has returned.
SpinTaskDone ==
  /\ next = "returned" /\ next' = "done"
  /\ UNCHANGED <<down, up, hostVars, daemonVars, callQueue, controlQueue, guest, mode, event,
                 task, runs, spins, failures, unwound>>

-----------------------------------------------------------------------------
(* Sequential spin. *)

\* One turn of `while (event := await host.spin_next()) is not None`.
SequentialTurn ==
  /\ guest = "spin" /\ ~mode /\ next = "done"
  /\ \/ /\ event = "end"
        /\ guest' = "program" /\ next' = "none"
        /\ UNCHANGED <<task, runs>>
     \/ /\ event = "update"
        /\ next' = "waiting"
        /\ UNCHANGED <<guest, task, runs>>
     \/ /\ event \in Calls
        /\ guest' = "serving" /\ next' = "none"
        /\ task' = [task EXCEPT ![event] = "running"] /\ runs' = [runs EXCEPT ![event] = @ + 1]
  /\ event' = "none"
  /\ UNCHANGED <<down, up, hostVars, daemonVars, callQueue, controlQueue, mode, spins,
                 failures, unwound>>

\* handle_worker_call returns, its response sent, or raises out of spin().
ServingDone(c) ==
  /\ guest = "serving" /\ task[c] = "running"
  /\ task' = [task EXCEPT ![c] = "none"]
  /\ \/ /\ up' = Append(up, Frame("WorkerResponse", c, "answered"))
        /\ guest' = "spin" /\ next' = "waiting"
        /\ UNCHANGED <<failures, unwound>>
     \/ /\ guest' = "program" /\ failures' = failures + 1 /\ unwound' = TRUE
        /\ UNCHANGED <<up, next>>
  /\ UNCHANGED <<down, hostVars, daemonVars, callQueue, controlQueue, mode, event, runs, spins>>

-----------------------------------------------------------------------------
(* Concurrent spin. *)

\* capture_worker_failure: a handler answers (an Exception is an answer too) ...
TaskAnswers(c) ==
  /\ guest # "serving" /\ task[c] \in {"running", "cancelling"}
  /\ task' = [task EXCEPT ![c] = "returned"]
  /\ up' = Append(up, Frame("WorkerResponse", c, "answered"))
  /\ UNCHANGED <<down, hostVars, daemonVars, callQueue, controlQueue, guest, mode, next, event,
                 runs, spins, failures, unwound>>

\* ... or ends with another BaseException, or as cancelled, and answers nothing.
TaskFails(c) ==
  /\ guest # "serving" /\ task[c] \in {"running", "cancelling"}
  /\ task' = [task EXCEPT ![c] = "failed"]
  /\ UNCHANGED <<down, up, hostVars, daemonVars, callQueue, controlQueue, guest, mode, next,
                 event, runs, spins, failures, unwound>>

Finished == {c \in Calls : task[c] \in {"returned", "failed"}}
Failed == {c \in Calls : task[c] = "failed"}

\* `finally`: cancel every task.
Unwind ==
  /\ guest' = "unwinding" /\ next' = "none" /\ event' = "none" /\ unwound' = TRUE
  /\ task' = [c \in Calls |-> IF task[c] = "running" THEN "cancelling" ELSE task[c]]

\* asyncio.wait returned and a task has failed: with the spin task not done, wake
\* it and wait for it; else raise at once.  Either way its event is dropped.
FailureTurn ==
  /\ guest = "spin" /\ mode /\ Failed # {}
  /\ failures' = failures + 1
  /\ IF next # "done"
       THEN /\ controlQueue' = Append(controlQueue, "WakeSpinNext")
            /\ guest' = "draining"
            /\ UNCHANGED <<next, event, unwound, task>>
       ELSE Unwind /\ UNCHANGED controlQueue
  /\ UNCHANGED <<down, up, hostVars, daemonVars, callQueue, mode, runs, spins>>

\* `await spin_task` after wake_spin_next.
Drained ==
  /\ guest = "draining" /\ next = "done"
  /\ Unwind
  /\ UNCHANGED <<down, up, hostVars, daemonVars, callQueue, controlQueue, mode, runs, spins,
                 failures>>

\* Mutant of StartCall: an event that arrives with a finished task is passed over.
StartCallUnlessFinished ==
  IF event \in Calls /\ Finished = {}
    THEN runs' = [runs EXCEPT ![event] = @ + 1] /\ task' = [task EXCEPT ![event] = "running"]
    ELSE /\ task' = [c \in Calls |-> IF c \in Finished THEN "none" ELSE task[c]]
         /\ UNCHANGED runs

\* Finished tasks are forgotten, the call of the event gets a task.
StartCall ==
  /\ runs' = [c \in Calls |-> IF c = event THEN runs[c] + 1 ELSE runs[c]]
  /\ task' = [c \in Calls |-> IF c = event THEN "running"
                              ELSE IF c \in Finished THEN "none" ELSE task[c]]

\* asyncio.wait returned, no task has failed.
Turn ==
  /\ guest = "spin" /\ mode /\ Failed = {}
  /\ \/ /\ next # "done" /\ Finished # {}
        /\ task' = [c \in Calls |-> IF c \in Finished THEN "none" ELSE task[c]]
        /\ UNCHANGED <<guest, next, event, runs, unwound>>
     \/ /\ next = "done" /\ event = "end"
        /\ Unwind
        /\ UNCHANGED runs
     \/ /\ next = "done" /\ event # "end"
        /\ StartCall
        /\ next' = "waiting" /\ event' = "none"
        /\ UNCHANGED <<guest, unwound>>
  /\ UNCHANGED <<down, up, hostVars, daemonVars, callQueue, controlQueue, mode, spins, failures>>

\* `await asyncio.gather(*tasks)`, then spin() returns or raises.
Unwound ==
  /\ guest = "unwinding" /\ \A c \in Calls : task[c] # "cancelling"
  /\ guest' = "program" /\ task' = [c \in Calls |-> "none"]
  /\ UNCHANGED <<down, up, hostVars, daemonVars, callQueue, controlQueue, mode, next, event,
                 runs, spins, failures, unwound>>

-----------------------------------------------------------------------------

Application == Run \/ Update \/ CloseWorker \/ \E c \in Calls : Call(c)
Loop == HandleExecute \/ HandleWorkerCall \/ HandleUpdate \/ QueueUpdate \/ HandleClose
SpinLoop == SpinTaskDone \/ SequentialTurn \/ FailureTurn \/ Drained \/ Turn \/ Unwound
Guest ==
  \/ Spin \/ ProgramEnds \/ SpinLoop
  \/ \E c \in Calls : ServingDone(c) \/ TaskAnswers(c) \/ TaskFails(c)

Next ==
  \/ Application \/ Receive \/ Loop \/ Guest
  \/ Begin \/ Interrupt \/ EpochApplies \/ SpinNextControl \/ SpinNextCall

Spec == Init /\ [][Next]_vars

\* Tokio tasks that can run do; spin() takes its own steps; a closed worker is
\* interrupted.  Programs and handlers need not make progress, nor reach an epoch check.
Fairness ==
  /\ WF_vars(Receive) /\ WF_vars(Loop) /\ WF_vars(Begin)
  /\ WF_vars(SpinLoop) /\ WF_vars(SpinNextControl) /\ WF_vars(Closed /\ Interrupt)

FairSpec == Spec /\ Fairness

-----------------------------------------------------------------------------
(* Properties. *)

Calling == INSTANCE WorkerCalls WITH Calls <- Calls, outcome <- outcome, runs <- runs

\* Whatever queues, tasks, failures and restarts do, callers see the promise of
\* WorkerCalls: a call runs at most once, its value is the value of its run, a
\* refused call never runs (worker_call, spin_next, handle_worker_call,
\* fail_pending_worker_calls).
CallsKeepPromise == Calling!Spec

Travelling(c) ==
  \/ \E i \in DOMAIN down : down[i].id = c
  \/ \E i \in DOMAIN callQueue : callQueue[i] = c
  \/ event = c \/ task[c] \in {"running", "cancelling", "failed"}
  \/ \E i \in DOMAIN up : up[i].id = c

\* A call somebody waits for is on its way, unless a spin loop of this execution
\* was left (an error of another call, a close: main.py drops the event it holds
\* and cancels its tasks) or the frame that will stop the call is on its way.
OnlyLeavingSpinDropsCalls ==
  \A c \in Calls : outcome[c] = "waiting" =>
    \/ Travelling(c) \/ (unwound /\ guest # "idle")
    \/ \E i \in DOMAIN up : up[i].kind \in {"ExecuteResult", "ControlResult"}

\* While no handler has failed, spin() is left only because the worker closes:
\* no applied update ends it (spin_next, main.py).
SpinEndsForCause ==
  [][guest = "spin" /\ event = "end" /\ guest' # "spin" => Closed \/ failures' > 0]_vars

\* Nobody need apply the update the connection loop waits for: the guest may be waiting
\* in a host call, or there is no execution left.
Unheeded ==
  await /\ (guest \in {"program", "serving", "unwinding"} \/ (guest = "idle" /\ commands = 0))

\* Once a worker is being closed, no caller of it waits for ever (README: calls
\* still pending when the worker closes raise WorkerStoppedError), unless the
\* connection loop, the only reader of the frames behind, is stuck for ever with an
\* update.  A guest in a spin loop does not leave it stuck.
CallsResolve == <>[]Unheeded \/ []<>(closing => \A c \in Calls : outcome[c] # "waiting")

\* README: calls made after the worker stops raise WorkerStoppedError.
LateCallsAreStopped == \A c \in Calls : outcome[c] # "no_worker"
=============================================================================
