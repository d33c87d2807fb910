------------------------------ MODULE Sandboxd ------------------------------
(***************************************************************************)
(* The daemon's control path: the connection loop of `serve_connection`    *)
(* (server.rs), which reads one frame at a time and finishes its handler   *)
(* before it reads the next, and one actor per worker, which runs queued   *)
(* executions against a Wasmtime store (component_worker.rs).  Loop and    *)
(* actors are tasks of a multi-threaded Tokio runtime and share            *)
(* `ExecutionControlState` without a common lock, so a handler that reads  *)
(* `active_execution` and then writes is two steps.                        *)
(*                                                                         *)
(* The peer is the supervisor: it submits a Cancel or UpdateLimits frame   *)
(* only after it has seen ExecuteStarted (`wait_until_execution_ready`).   *)
(***************************************************************************)
EXTENDS Naturals, Sequences, FiniteSets

CONSTANTS
  Workers,        \* worker ids
  Execs,          \* execution ids (the request ids of Execute frames)
  Owner,          \* the worker each execution is sent to
  NoId,           \* id 0: no active execution, no worker
  QueueCapacity,  \* worker_queue_capacity
  BadExecs,       \* executions whose limits `execution_limits` refuses
  UpdateKinds,    \* the parts an UpdateLimits frame may carry (see Parts)
  Imports,        \* host imports a guest may wait in (see ImportKinds)
  EarlyClose,     \* whether CloseWorker may overtake the Execute it follows
  Timeouts,       \* what an Execute says of its timeout: none, armed
  Submits,        \* bound: the kinds of frame this supervisor submits
  MaxInbox        \* bound: frames on the socket

\* SetFuel, AddFuel, the memory, RPC-size and CPU-weight limits all go through
\* the store; the timeout and the output limit are set by the handler itself.
Parts == {"store", "timeout", "output"}
ImportKinds == {"rpc", "spin", "timer"}

ASSUME ConstantsAssumption ==
  /\ Owner \in [Execs -> Workers]
  /\ NoId \notin Execs \cup Workers
  /\ QueueCapacity \in Nat \ {0}
  /\ BadExecs \subseteq Execs
  /\ UpdateKinds \subseteq (SUBSET Parts) \ {{}}
  /\ Imports \subseteq ImportKinds
  /\ EarlyClose \in BOOLEAN
  /\ Timeouts \subseteq {"none", "armed"}
  /\ MaxInbox \in Nat \ {0}

VARIABLES
  inbox,          \* frames on the socket; the head is the one being handled
  sent,           \* frames the supervisor has submitted
  loop,           \* where the connection loop is
  accepted,       \* control frames answered with ControlResult{error: None}
  refused,        \* control frames answered with an error
  handle,         \* entry of `workers`: absent, open, or removed by a close
  commands,       \* worker command queue
  actor,          \* where the worker actor is
  exec,           \* the execution the actor holds
  outcome,        \* how the last call of the guest's run ended
  active, cancelled, closed, pendingCancel,   \* ExecutionControlState
  interrupted,    \* the permit of `interrupted: Notify`
  deadline, changed,                          \* MonotonicDeadline
  pending,        \* ExecutionControlState.pending
  controlQueue,   \* ControlMessage channel
  watch, sleep,   \* wait_for_interruption: its step, the deadline it sleeps on
  cpu, imports,   \* guest: executing wasm, outstanding host imports
  calls,          \* pending_guest_calls, by execution
  started, result,\* ExecuteStarted and ExecuteResult frames sent
  verdict,        \* store updates answered, with "ok" or "err"
  applied         \* history: <<update, execution it was applied to>>

clientVars  == <<sent>>
loopVars    == <<inbox, loop, accepted, refused>>
controlVars == <<active, cancelled, pendingCancel>>
deadlineVars == <<deadline, changed, watch, sleep>>
guestVars   == <<cpu, imports, calls>>
updateVars  == <<pending, verdict, applied>>
replyVars   == <<started, result>>
actorVars   == <<commands, actor, exec, outcome>>
closeVars   == <<handle, closed, interrupted, controlQueue>>

vars == <<clientVars, loopVars, controlVars, deadlineVars, guestVars,
          updateVars, replyVars, actorVars, closeVars>>

Frame(kind, w, e, parts) ==
  [kind |-> kind, worker |-> w, exec |-> e, parts |-> parts]
ExecuteFrame(e) == Frame("Execute", Owner[e], e, {})
CancelFrame(e) == Frame("Cancel", Owner[e], e, {})
UpdateFrame(e, parts) == Frame("UpdateLimits", Owner[e], e, parts)
CloseFrame(w) == Frame("CloseWorker", w, NoId, {})
ResponseFrame(e) == Frame("GuestResponse", Owner[e], e, {})
HealthFrame == Frame("HealthCheck", NoId, NoId, {})
ShutdownFrame == Frame("Shutdown", NoId, NoId, {})

Frames ==
  {ExecuteFrame(e) : e \in Execs} \cup {CancelFrame(e) : e \in Execs}
  \cup {ResponseFrame(e) : e \in Execs}
  \cup {UpdateFrame(e, parts) : e \in Execs, parts \in SUBSET Parts}
  \cup {CloseFrame(w) : w \in Workers} \cup {HealthFrame, ShutdownFrame}

LoopSteps == {"read", "cancel_hit", "cancel_miss", "push", "await",
              "shutdown", "exited"}
ActorSteps == {"none", "loading", "failed", "recv", "begin", "running",
               "stopped", "ended"}
Outcomes == {"none", "ok", "guest_error", "limit", "trap", "interrupted"}
Reasons == {"Completed", "GuestError", "Limit", "Cancelled", "Timeout",
            "RuntimeError", "InfrastructureError"}
Deadlines == {"none", "armed", "elapsed"}

TypeOK ==
  /\ inbox \in Seq(Frames) /\ sent \subseteq Frames
  /\ loop \in LoopSteps
  /\ accepted \subseteq Frames /\ refused \subseteq Frames
  /\ handle \in [Workers -> {"absent", "open", "removed"}]
  /\ commands \in [Workers -> Seq(Execs)]
  /\ actor \in [Workers -> ActorSteps]
  /\ exec \in [Workers -> Execs \cup {NoId}]
  /\ outcome \in [Workers -> Outcomes]
  /\ active \in [Workers -> Execs \cup {NoId}]
  /\ cancelled \in [Workers -> BOOLEAN] /\ closed \in [Workers -> BOOLEAN]
  /\ pendingCancel \in [Workers -> SUBSET Execs]
  /\ interrupted \in [Workers -> BOOLEAN] /\ changed \in [Workers -> BOOLEAN]
  /\ deadline \in [Workers -> Deadlines] /\ sleep \in [Workers -> Deadlines]
  /\ watch \in [Workers -> {"check", "wait"}]
  /\ pending \in [Workers -> SUBSET Frames]
  /\ controlQueue \in [Workers -> Seq({"ApplyUpdates", "Close"})]
  /\ cpu \in [Workers -> BOOLEAN] /\ imports \in [Workers -> SUBSET ImportKinds]
  /\ calls \subseteq Execs
  /\ started \in [Execs -> BOOLEAN]
  /\ result \in [Execs -> Reasons \cup {"none"}]
  /\ verdict \subseteq Frames \X {"ok", "err"}
  /\ applied \subseteq Frames \X (Execs \cup {NoId})

Init ==
  /\ inbox = <<>> /\ sent = {} /\ loop = "read"
  /\ accepted = {} /\ refused = {}
  /\ handle = [w \in Workers |-> "absent"]
  /\ commands = [w \in Workers |-> <<>>]
  /\ actor = [w \in Workers |-> "none"]
  /\ exec = [w \in Workers |-> NoId]
  /\ outcome = [w \in Workers |-> "none"]
  /\ active = [w \in Workers |-> NoId]
  /\ cancelled = [w \in Workers |-> FALSE]
  /\ closed = [w \in Workers |-> FALSE]
  /\ pendingCancel = [w \in Workers |-> {}]
  /\ interrupted = [w \in Workers |-> FALSE]
  /\ deadline = [w \in Workers |-> "none"]
  /\ changed = [w \in Workers |-> FALSE]
  /\ pending = [w \in Workers |-> {}]
  /\ controlQueue = [w \in Workers |-> <<>>]
  /\ watch = [w \in Workers |-> "check"]
  /\ sleep = [w \in Workers |-> "none"]
  /\ cpu = [w \in Workers |-> FALSE]
  /\ imports = [w \in Workers |-> {}]
  /\ calls = {}
  /\ started = [e \in Execs |-> FALSE]
  /\ result = [e \in Execs |-> "none"]
  /\ verdict = {}
  /\ applied = {}

-----------------------------------------------------------------------------
(* The supervisor: what it submits and when. *)

Submit(f) ==
  /\ f \notin sent /\ f.kind \in Submits /\ Len(inbox) < MaxInbox
  /\ sent' = sent \cup {f}
  /\ inbox' = Append(inbox, f)
  /\ UNCHANGED <<loop, accepted, refused, controlVars, deadlineVars, guestVars,
                 updateVars, replyVars, actorVars, closeVars>>

\* SandboxProcess.run.  A worker id is not reused after its worker was closed.
SubmitExecute(e) ==
  /\ CloseFrame(Owner[e]) \in sent =>
       \A d \in Execs : ExecuteFrame(d) \in sent => Owner[d] # Owner[e]
  /\ Submit(ExecuteFrame(e))

\* Mutant of SubmitCancel: no wait for ExecuteStarted.
SubmitCancelUngated(e) == ExecuteFrame(e) \in sent /\ Submit(CancelFrame(e))

\* NativeExecution.cancel: wait_until_execution_ready, then the frame.
SubmitCancel(e) == started[e] /\ Submit(CancelFrame(e))

\* NativeExecution.set_fuel, add_fuel, set_limits: the same gate.
SubmitUpdate(e, parts) == started[e] /\ Submit(UpdateFrame(e, parts))

\* SandboxProcess.close_worker.  run() hands the Execute frame to a spawned
\* task, so a close issued at once may reach the connection first.
SubmitClose(w) ==
  /\ EarlyClose \/ \E e \in Execs : Owner[e] = w /\ ExecuteFrame(e) \in sent
  /\ Submit(CloseFrame(w))

SubmitHealth == Submit(HealthFrame)
SubmitShutdown == Submit(ShutdownFrame)

\* A host handler returns; its GuestResponse is written to the connection.
HostAnswers(e) == e \in calls /\ Submit(ResponseFrame(e))

-----------------------------------------------------------------------------
(* The connection loop.  A handler's last step consumes the frame. *)

Handling(kind) == inbox # <<>> /\ Head(inbox).kind = kind
Done == inbox' = Tail(inbox) /\ loop' = "read"
Accept == accepted' = accepted \cup {Head(inbox)} /\ UNCHANGED refused
Refuse == refused' = refused \cup {Head(inbox)} /\ UNCHANGED accepted

HandleHealthCheck ==
  /\ loop = "read" /\ Handling("HealthCheck")
  /\ Done /\ Accept
  /\ UNCHANGED <<clientVars, controlVars, deadlineVars, guestVars, updateVars,
                 replyVars, actorVars, closeVars>>

\* Mutant of TrySend: a command beyond the capacity is refused and kept.
TrySendAnyway(w, e) ==
  /\ commands' = [commands EXCEPT ![w] = Append(@, e)]
  /\ result' = IF Len(commands[w]) < QueueCapacity THEN result
               ELSE [result EXCEPT ![e] = "InfrastructureError"]

\* worker.commands.try_send: a full queue is answered at once.
TrySend(w, e) ==
  IF Len(commands[w]) < QueueCapacity
    THEN commands' = [commands EXCEPT ![w] = Append(@, e)] /\ UNCHANGED result
    ELSE result' = [result EXCEPT ![e] = "InfrastructureError"] /\ UNCHANGED commands

\* entry(worker_id).or_insert_with(spawn_worker), then try_send.
HandleExecute ==
  /\ loop = "read" /\ Handling("Execute")
  /\ LET w == Head(inbox).worker
     IN /\ handle' = [handle EXCEPT ![w] = "open"]
        /\ actor' = [actor EXCEPT ![w] = IF handle[w] = "open" THEN @ ELSE "loading"]
        /\ TrySend(w, Head(inbox).exec)
  /\ Done
  /\ UNCHANGED <<clientVars, accepted, refused, controlVars, deadlineVars, guestVars,
                 updateVars, started, exec, outcome, closed, interrupted, controlQueue>>

\* WorkerControl::cancel, first half: the load of active_execution decides.
HandleCancel ==
  /\ loop = "read" /\ Handling("Cancel")
  /\ LET w == Head(inbox).worker
     IN \/ /\ handle[w] # "open"
           /\ Done /\ Refuse
        \/ /\ handle[w] = "open"
           /\ loop' = IF active[w] = Head(inbox).exec THEN "cancel_hit" ELSE "cancel_miss"
           /\ UNCHANGED <<inbox, accepted, refused>>
  /\ UNCHANGED <<clientVars, controlVars, deadlineVars, guestVars, updateVars,
                 replyVars, actorVars, closeVars>>

\* Mutant of CancelActive: the flag without the notification.
CancelActiveSilently ==
  /\ loop = "cancel_hit"
  /\ cancelled' = [cancelled EXCEPT ![Head(inbox).worker] = TRUE]
  /\ Done /\ Accept
  /\ UNCHANGED <<clientVars, active, pendingCancel, deadlineVars, guestVars, updateVars,
                 replyVars, actorVars, closeVars>>

\* cancelled.store(true); interrupted.notify_one().
CancelActive ==
  /\ loop = "cancel_hit"
  /\ LET w == Head(inbox).worker
     IN /\ cancelled' = [cancelled EXCEPT ![w] = TRUE]
        /\ interrupted' = [interrupted EXCEPT ![w] = TRUE]
  /\ Done /\ Accept
  /\ UNCHANGED <<clientVars, active, pendingCancel, deadlineVars, guestVars, updateVars,
                 replyVars, actorVars, handle, closed, controlQueue>>

\* pending_cancellations.insert(execution_id).
CancelInactive ==
  /\ loop = "cancel_miss"
  /\ pendingCancel' = [pendingCancel EXCEPT ![Head(inbox).worker] = @ \cup {Head(inbox).exec}]
  /\ Done /\ Accept
  /\ UNCHANGED <<clientVars, active, cancelled, deadlineVars, guestVars, updateVars,
                 replyVars, actorVars, closeVars>>

\* apply_control: ensure_active, then Output::set_limit, which refuses a limit
\* below the size already produced.
HandleUpdateLimits ==
  /\ loop = "read" /\ Handling("UpdateLimits")
  /\ LET f == Head(inbox)
     IN \/ /\ \/ handle[f.worker] # "open"
              \/ active[f.worker] # f.exec
              \/ "output" \in f.parts
           /\ Done /\ Refuse
        \/ /\ handle[f.worker] = "open" /\ active[f.worker] = f.exec
           /\ loop' = "push"
           /\ UNCHANGED <<inbox, accepted, refused>>
  /\ UNCHANGED <<clientVars, controlVars, deadlineVars, guestVars, updateVars,
                 replyVars, actorVars, closeVars>>

\* Mutant of ReplaceDeadline: the watcher is not told.
ReplaceDeadlineSilently(w, d) ==
  deadline' = [deadline EXCEPT ![w] = d] /\ UNCHANGED changed

\* MonotonicDeadline::replace.
ReplaceDeadline(w, d) ==
  /\ deadline' = [deadline EXCEPT ![w] = d]
  /\ changed' = [changed EXCEPT ![w] = TRUE]

\* WorkerControl::queue and set_limits after the check: push the store updates,
\* replace the deadline, send ApplyUpdates.
PushUpdate ==
  /\ loop = "push"
  /\ LET f == Head(inbox)
         w == f.worker
     IN /\ IF "timeout" \in f.parts
             THEN ReplaceDeadline(w, "armed")
             ELSE UNCHANGED <<deadline, changed>>
        /\ IF "store" \in f.parts
             THEN /\ pending' = [pending EXCEPT ![w] = @ \cup {f}]
                  /\ controlQueue' = [controlQueue EXCEPT ![w] = Append(@, "ApplyUpdates")]
                  /\ loop' = "await"
                  /\ UNCHANGED <<inbox, accepted, refused>>
             ELSE Done /\ Accept /\ UNCHANGED <<pending, controlQueue>>
  /\ UNCHANGED <<clientVars, controlVars, watch, sleep, guestVars, verdict, applied,
                 replyVars, actorVars, handle, closed, interrupted>>

\* receive_update_result: the loop itself waits for the store's answer.
FinishUpdate ==
  /\ loop = "await"
  /\ \/ <<Head(inbox), "ok">> \in verdict /\ Accept
     \/ <<Head(inbox), "err">> \in verdict /\ Refuse
  /\ Done
  /\ UNCHANGED <<clientVars, controlVars, deadlineVars, guestVars, updateVars,
                 replyVars, actorVars, closeVars>>

\* Mutant of CloseWorkers: the flag without the notification.
CloseWorkersSilently(ws) ==
  /\ handle' = [w \in Workers |-> IF w \in ws THEN "removed" ELSE handle[w]]
  /\ closed' = [w \in Workers |-> closed[w] \/ w \in ws]
  /\ UNCHANGED <<interrupted, controlQueue>>

\* WorkerControl::close on every worker of ws: closed.store(true), notify_one,
\* ControlMessage::Close.  A worker whose load failed has dropped its receiver.
CloseWorkers(ws) ==
  /\ handle' = [w \in Workers |-> IF w \in ws THEN "removed" ELSE handle[w]]
  /\ closed' = [w \in Workers |-> closed[w] \/ w \in ws]
  /\ interrupted' = [w \in Workers |-> interrupted[w] \/ w \in ws]
  /\ controlQueue' = [w \in Workers |->
        IF w \in ws /\ actor[w] # "failed" THEN Append(controlQueue[w], "Close")
                                         ELSE controlQueue[w]]

HandleCloseWorker ==
  /\ loop = "read" /\ Handling("CloseWorker")
  /\ LET w == Head(inbox).worker
     IN IF handle[w] = "open"
          THEN /\ CloseWorkers({w})
               /\ IF actor[w] = "failed" THEN Refuse ELSE Accept
          ELSE Refuse /\ UNCHANGED closeVars
  /\ Done
  /\ UNCHANGED <<clientVars, controlVars, deadlineVars, guestVars, updateVars,
                 replyVars, actorVars>>

\* pending_guest_calls.remove; the waiter may be gone with its execution.
HandleGuestResponse ==
  /\ loop = "read" /\ Handling("GuestResponse")
  /\ LET e == Head(inbox).exec
         w == Head(inbox).worker
     IN /\ calls' = calls \ {e}
        /\ IF e \in calls /\ actor[w] = "running" /\ exec[w] = e /\ "rpc" \in imports[w]
             THEN /\ imports' = [imports EXCEPT ![w] = @ \ {"rpc"}]
                  /\ cpu' = [cpu EXCEPT ![w] = TRUE]
             ELSE UNCHANGED <<imports, cpu>>
  /\ Done
  /\ UNCHANGED <<clientVars, accepted, refused, controlVars, deadlineVars, updateVars,
                 replyVars, actorVars, closeVars>>

HandleShutdown ==
  /\ loop = "read" /\ Handling("Shutdown")
  /\ CloseWorkers({w \in Workers : handle[w] = "open"})
  /\ inbox' = Tail(inbox) /\ loop' = "shutdown"
  /\ UNCHANGED <<clientVars, accepted, refused, controlVars, deadlineVars, guestVars,
                 updateVars, replyVars, actorVars>>

\* writer_task ends when the last actor has dropped its outgoing sender.
ExitServer ==
  /\ loop = "shutdown"
  /\ \A w \in Workers : actor[w] \in {"none", "ended"}
  /\ loop' = "exited"
  /\ UNCHANGED <<inbox, accepted, refused, clientVars, controlVars, deadlineVars,
                 guestVars, updateVars, replyVars, actorVars, closeVars>>

-----------------------------------------------------------------------------
(* A worker actor. *)

LoadWorker(w) ==
  /\ actor[w] = "loading"
  /\ \E next \in {"recv", "failed"} : actor' = [actor EXCEPT ![w] = next]
  /\ UNCHANGED <<clientVars, loopVars, controlVars, deadlineVars, guestVars, updateVars,
                 replyVars, commands, exec, outcome, closeVars>>

\* Mutant of FailQueued: the command is answered and stays queued.
FailQueuedKeeping(w) ==
  /\ actor[w] = "failed" /\ commands[w] # <<>>
  /\ result' = [result EXCEPT ![Head(commands[w])] = "InfrastructureError"]
  /\ UNCHANGED <<clientVars, loopVars, controlVars, deadlineVars, guestVars, updateVars,
                 started, actorVars, closeVars>>

\* After a failed load every queued execution is answered with the load error.
FailQueued(w) ==
  /\ actor[w] = "failed" /\ commands[w] # <<>>
  /\ commands' = [commands EXCEPT ![w] = Tail(@)]
  /\ result' = [result EXCEPT ![Head(commands[w])] = "InfrastructureError"]
  /\ UNCHANGED <<clientVars, loopVars, controlVars, deadlineVars, guestVars, updateVars,
                 started, actor, exec, outcome, closeVars>>

\* Mutant of EndActor: queued commands are dropped with the sender.
EndActorUndrained(w) ==
  /\ actor[w] \in {"recv", "failed"} /\ handle[w] = "removed"
  /\ actor' = [actor EXCEPT ![w] = "ended"]
  /\ UNCHANGED <<clientVars, loopVars, controlVars, deadlineVars, guestVars, updateVars,
                 replyVars, commands, exec, outcome, closeVars>>

\* command_receiver.recv() returns None: queue drained, sender dropped.
EndActor(w) ==
  /\ actor[w] \in {"recv", "failed"} /\ commands[w] = <<>> /\ handle[w] = "removed"
  /\ actor' = [actor EXCEPT ![w] = "ended"]
  /\ UNCHANGED <<clientVars, loopVars, controlVars, deadlineVars, guestVars, updateVars,
                 replyVars, commands, exec, outcome, closeVars>>

\* execute: execution_limits refuses the request before anything runs.
RefuseLimits(w) ==
  /\ actor[w] = "recv" /\ commands[w] # <<>> /\ Head(commands[w]) \in BadExecs
  /\ commands' = [commands EXCEPT ![w] = Tail(@)]
  /\ result' = [result EXCEPT ![Head(commands[w])] = "InfrastructureError"]
  /\ UNCHANGED <<clientVars, loopVars, controlVars, deadlineVars, guestVars, updateVars,
                 started, actor, exec, outcome, closeVars>>

\* Take a command; WorkerControl::begin up to cancelled.store.
BeginExecution(w) ==
  /\ actor[w] = "recv" /\ commands[w] # <<>> /\ Head(commands[w]) \notin BadExecs
  /\ LET e == Head(commands[w])
     IN /\ commands' = [commands EXCEPT ![w] = Tail(@)]
        /\ exec' = [exec EXCEPT ![w] = e]
        /\ cancelled' = [cancelled EXCEPT ![w] = e \in pendingCancel[w]]
        /\ pendingCancel' = [pendingCancel EXCEPT ![w] = @ \ {e}]
  /\ actor' = [actor EXCEPT ![w] = "begin"]
  /\ UNCHANGED <<clientVars, loopVars, active, deadlineVars, guestVars, updateVars,
                 replyVars, outcome, closeVars>>

\* Mutant of RejectPending: the list is cleared, nobody is told.
RejectPendingSilently(w) ==
  /\ pending' = [pending EXCEPT ![w] = {}]
  /\ UNCHANGED <<verdict, applied>>

\* reject_pending_store_updates: every waiter is told its execution ended.
RejectPending(w) ==
  /\ pending' = [pending EXCEPT ![w] = {}]
  /\ verdict' = verdict \cup (pending[w] \X {"err"})
  /\ UNCHANGED applied

\* The rest of begin, apply_limits, the ExecuteStarted frame, and the first
\* poll of the guest's run.
StartExecution(w) ==
  /\ actor[w] = "begin"
  /\ RejectPending(w)
  /\ \E d \in Timeouts : ReplaceDeadline(w, d)
  /\ active' = [active EXCEPT ![w] = exec[w]]
  /\ started' = [started EXCEPT ![exec[w]] = TRUE]
  /\ actor' = [actor EXCEPT ![w] = "running"]
  /\ watch' = [watch EXCEPT ![w] = "check"]
  /\ cpu' = [cpu EXCEPT ![w] = TRUE]
  /\ imports' = [imports EXCEPT ![w] = {}]
  /\ UNCHANGED <<clientVars, loopVars, cancelled, pendingCancel, sleep, calls, result,
                 commands, exec, outcome, closeVars>>

\* run's select! has a result: WorkerControl::finish, back in execute.
StopExecution(w, how) ==
  /\ actor[w] = "running"
  /\ outcome' = [outcome EXCEPT ![w] = how]
  /\ actor' = [actor EXCEPT ![w] = "stopped"]
  /\ pendingCancel' = [pendingCancel EXCEPT ![w] = @ \ {exec[w]}]
  /\ active' = [active EXCEPT ![w] = IF @ = exec[w] THEN NoId ELSE @]
  /\ RejectPending(w)
  /\ cpu' = [cpu EXCEPT ![w] = FALSE]
  /\ imports' = [imports EXCEPT ![w] = {}]
  /\ UNCHANGED <<clientVars, loopVars, cancelled, deadline, changed, sleep, watch, calls,
                 replyVars, commands, exec, closeVars>>

\* Mutant of Reason: the guest's outcome is reported as it is.
ReasonRaw(w) == outcome[w]

\* execute: the order in which an error is explained.
Reason(w) ==
  CASE outcome[w] = "ok" -> "Completed"
    [] outcome[w] = "guest_error" -> "GuestError"
    [] outcome[w] = "limit" -> "Limit"
    [] outcome[w] \in {"trap", "interrupted"} /\ cancelled[w] -> "Cancelled"
    [] outcome[w] \in {"trap", "interrupted"} /\ ~cancelled[w] /\ deadline[w] = "elapsed" -> "Timeout"
    [] OTHER -> "RuntimeError"

ReportExecution(w) ==
  /\ actor[w] = "stopped"
  /\ result' = [result EXCEPT ![exec[w]] = Reason(w)]
  /\ actor' = [actor EXCEPT ![w] = "recv"]
  /\ exec' = [exec EXCEPT ![w] = NoId]
  /\ outcome' = [outcome EXCEPT ![w] = "none"]
  /\ UNCHANGED <<clientVars, loopVars, controlVars, deadlineVars, guestVars, updateVars,
                 started, commands, closeVars>>

-----------------------------------------------------------------------------
(* wait_for_interruption, polled beside the guest by run's select!. *)

\* The head of its loop: look at the flags, or go on to wait.
WatchCheck(w) ==
  /\ actor[w] = "running" /\ watch[w] = "check"
  /\ \/ (cancelled[w] \/ closed[w]) /\ StopExecution(w, "interrupted")
     \/ /\ ~(cancelled[w] \/ closed[w])
        /\ watch' = [watch EXCEPT ![w] = "wait"]
        /\ sleep' = [sleep EXCEPT ![w] = deadline[w]]
        /\ UNCHANGED <<clientVars, loopVars, controlVars, deadline, changed, guestVars,
                       updateVars, replyVars, actorVars, closeVars>>

\* A notification: take the permit and look at the flags again.
WatchNotified(w) ==
  /\ actor[w] = "running" /\ watch[w] = "wait" /\ interrupted[w]
  /\ interrupted' = [interrupted EXCEPT ![w] = FALSE]
  /\ watch' = [watch EXCEPT ![w] = "check"]
  /\ UNCHANGED <<clientVars, loopVars, controlVars, deadline, changed, sleep, guestVars,
                 updateVars, replyVars, actorVars, handle, closed, controlQueue>>

\* MonotonicDeadline::wait: the deadline was replaced, sleep on the new one.
WatchReschedule(w) ==
  /\ actor[w] = "running" /\ watch[w] = "wait" /\ changed[w]
  /\ changed' = [changed EXCEPT ![w] = FALSE]
  /\ sleep' = [sleep EXCEPT ![w] = deadline[w]]
  /\ UNCHANGED <<clientVars, loopVars, controlVars, deadline, watch, guestVars,
                 updateVars, replyVars, actorVars, closeVars>>

WatchTimeout(w) ==
  /\ watch[w] = "wait" /\ sleep[w] = "elapsed"
  /\ StopExecution(w, "interrupted")

\* Time passes: the deadline is reached, and with it the sleep unless the
\* watcher still sleeps on the one that was replaced.
DeadlinePasses(w) ==
  /\ actor[w] \in {"running", "stopped"}
  /\ \/ /\ deadline[w] = "armed"
        /\ deadline' = [deadline EXCEPT ![w] = "elapsed"]
        /\ sleep' = [sleep EXCEPT ![w] = IF changed[w] \/ @ = "none" THEN @ ELSE "elapsed"]
     \/ /\ changed[w] /\ sleep[w] = "armed"
        /\ sleep' = [sleep EXCEPT ![w] = "elapsed"]
        /\ UNCHANGED deadline
  /\ UNCHANGED <<clientVars, loopVars, controlVars, changed, watch, guestVars,
                 updateVars, replyVars, actorVars, closeVars>>

-----------------------------------------------------------------------------
(* The guest, as far as the control path sees it. *)

GuestImports(w, i) ==
  /\ actor[w] = "running" /\ cpu[w] /\ i \notin imports[w]
  /\ i = "rpc" => exec[w] \notin calls /\ ResponseFrame(exec[w]) \notin sent
  /\ imports' = [imports EXCEPT ![w] = @ \cup {i}]
  /\ calls' = IF i = "rpc" THEN calls \cup {exec[w]} ELSE calls
  /\ UNCHANGED <<clientVars, loopVars, controlVars, deadlineVars, cpu, updateVars,
                 replyVars, actorVars, closeVars>>

\* Nothing left to run: every guest task waits in a host import.
GuestBlocks(w) ==
  /\ actor[w] = "running" /\ cpu[w] /\ imports[w] # {}
  /\ cpu' = [cpu EXCEPT ![w] = FALSE]
  /\ UNCHANGED <<clientVars, loopVars, controlVars, deadlineVars, imports, calls,
                 updateVars, replyVars, actorVars, closeVars>>

TimerFires(w) ==
  /\ actor[w] = "running" /\ "timer" \in imports[w]
  /\ imports' = [imports EXCEPT ![w] = @ \ {"timer"}]
  /\ cpu' = [cpu EXCEPT ![w] = TRUE]
  /\ UNCHANGED <<clientVars, loopVars, controlVars, deadlineVars, calls, updateVars,
                 replyVars, actorVars, closeVars>>

\* apply_pending_store_updates.
ApplyPending(w) ==
  /\ pending' = [pending EXCEPT ![w] = {}]
  /\ verdict' = verdict \cup (pending[w] \X {"ok"})
  /\ applied' = applied \cup (pending[w] \X {exec[w]})

\* The epoch deadline callback, which runs only while wasm executes.
EpochTick(w) ==
  /\ actor[w] = "running" /\ cpu[w] /\ pending[w] # {}
  /\ ApplyPending(w)
  /\ UNCHANGED <<clientVars, loopVars, controlVars, deadlineVars, guestVars, replyVars,
                 actorVars, closeVars>>

\* spin_next takes a control message; Close ends the guest's spin loop.
SpinNext(w) ==
  /\ actor[w] = "running" /\ "spin" \in imports[w] /\ controlQueue[w] # <<>>
  /\ controlQueue' = [controlQueue EXCEPT ![w] = Tail(@)]
  /\ IF Head(controlQueue[w]) = "ApplyUpdates" THEN ApplyPending(w) ELSE UNCHANGED updateVars
  /\ imports' = [imports EXCEPT ![w] = @ \ {"spin"}]
  /\ cpu' = [cpu EXCEPT ![w] = TRUE]
  /\ UNCHANGED <<clientVars, loopVars, controlVars, deadlineVars, calls, replyVars,
                 actorVars, handle, closed, interrupted>>

GuestExits(w) ==
  /\ cpu[w]
  /\ \E how \in {"ok", "guest_error", "limit", "trap"} : StopExecution(w, how)

-----------------------------------------------------------------------------
Supervisor ==
  \/ \E e \in Execs : SubmitExecute(e) \/ SubmitCancel(e) \/ HostAnswers(e)
  \/ \E e \in Execs, parts \in UpdateKinds : SubmitUpdate(e, parts)
  \/ \E w \in Workers : SubmitClose(w)
  \/ SubmitHealth \/ SubmitShutdown

Loop ==
  \/ HandleHealthCheck \/ HandleExecute \/ HandleCancel \/ CancelActive
  \/ CancelInactive \/ HandleUpdateLimits \/ PushUpdate \/ FinishUpdate
  \/ HandleCloseWorker \/ HandleGuestResponse \/ HandleShutdown \/ ExitServer

Actor(w) ==
  \/ LoadWorker(w) \/ FailQueued(w) \/ EndActor(w) \/ RefuseLimits(w)
  \/ BeginExecution(w) \/ StartExecution(w) \/ ReportExecution(w)

Watcher(w) ==
  WatchCheck(w) \/ WatchNotified(w) \/ WatchReschedule(w) \/ WatchTimeout(w)

Guest(w) ==
  \/ \E i \in Imports : GuestImports(w, i)
  \/ GuestBlocks(w) \/ TimerFires(w) \/ EpochTick(w) \/ SpinNext(w) \/ GuestExits(w)

Next ==
  \/ Supervisor \/ Loop
  \/ \E w \in Workers : Actor(w) \/ Watcher(w) \/ Guest(w) \/ DeadlinePasses(w)

Spec == Init /\ [][Next]_vars

\* Tokio keeps polling runnable tasks, time passes, epochs tick while wasm
\* runs and hosts answer.  Nothing obliges a guest to leave an import or to
\* end, nor the supervisor to submit anything.
Fairness ==
  /\ WF_vars(Loop)
  /\ \A e \in Execs : WF_vars(HostAnswers(e))
  /\ \A w \in Workers :
       /\ WF_vars(Actor(w)) /\ WF_vars(Watcher(w)) /\ WF_vars(DeadlinePasses(w))
       /\ WF_vars(EpochTick(w)) /\ WF_vars(SpinNext(w))

FairSpec == Spec /\ Fairness

-----------------------------------------------------------------------------
(* Safety *)

Held(w, e) == actor[w] \in {"running", "stopped"} /\ exec[w] = e

\* A cancellation the daemon has acknowledged takes effect: its execution is
\* over, or is stopping, or is active with the cancelled flag raised.  It rests
\* on the supervisor's gate: a Cancel that could arrive before `begin` would be
\* lost between the load of active_execution and the insert
\* (component_worker.rs, cancel against begin).
CancelNotLost ==
  \A e \in Execs : CancelFrame(e) \in accepted =>
    LET w == Owner[e]
    IN \/ result[e] # "none"
       \/ actor[w] = "stopped" /\ exec[w] = e
       \/ actor[w] = "running" /\ exec[w] = e /\ cancelled[w]

\* wait_for_interruption never sleeps through a flag: while a running
\* execution is cancelled or closed, the watcher is about to look at the flags
\* or a notification is stored for it.
NoLostWakeup ==
  \A w \in Workers :
    actor[w] = "running" /\ (cancelled[w] \/ closed[w]) =>
      watch[w] = "check" \/ interrupted[w]

\* A deadline that was replaced is picked up: the watcher sleeps on the
\* current deadline or has the change notification still to come.
NoLostReschedule ==
  \A w \in Workers :
    actor[w] = "running" /\ watch[w] = "wait" =>
      sleep[w] = deadline[w] \/ changed[w]

\* The update the connection loop waits for is queued or has its verdict: no
\* path of begin, finish or the store drops it unanswered
\* (receive_update_result would block the loop for good).
AwaitedUpdateKept ==
  loop = "await" =>
    \/ Head(inbox) \in pending[Head(inbox).worker]
    \/ \E v \in {"ok", "err"} : <<Head(inbox), v>> \in verdict

\* A control frame acts on the execution it names: only an execution whose
\* cancellation was asked for is reported Cancelled, and a limit update is
\* applied to the store only while its own execution runs.
ControlHitsItsTarget ==
  /\ \A e \in Execs : result[e] = "Cancelled" => CancelFrame(e) \in sent
  /\ \A a \in applied : a[1].exec = a[2]

\* An execution refused by the daemon (queue full, worker failed to load, bad
\* limits) never starts, and one that has started is not queued again: its id
\* is in at most one of the command queue, the actor and the results.
OnePlace ==
  \A e \in Execs :
    LET w == Owner[e]
        places == {i \in 1..Len(commands[w]) : commands[w][i] = e}
    IN /\ Cardinality(places) <= 1
       /\ places # {} => ~started[e] /\ result[e] = "none" /\ exec[w] # e
       /\ result[e] # "none" => exec[w] # e
       /\ result[e] = "InfrastructureError" => ~started[e]

\* An ExecuteResult is sent once: no later step changes it.
ResultFinal ==
  [][\A e \in Execs : result[e] # "none" => result'[e] = result[e]]_vars

\* Work admitted to a worker before its CloseWorker is not thrown away: a step
\* that ends the actor leaves no accepted execution of it without a result.
EndedMeansDrained ==
  \A e \in Execs :
    actor[Owner[e]] = "ended" /\ ExecuteFrame(e) \in sent =>
      \/ result[e] # "none"
      \/ \E i \in 1..Len(inbox) : inbox[i] = ExecuteFrame(e)

-----------------------------------------------------------------------------
(* Liveness *)

\* DOCS.md: cancellation "resolves the execution", also while the guest waits
\* in a host import that never completes.
CancelsResolved ==
  \A e \in Execs : CancelFrame(e) \in sent => result[e] # "none"

\* DOCS.md: a timeout "interrupts both ordinary guest execution and guest
\* waits in async host operations", also one set or moved by set_limits.
DeadlinesResolved ==
  \A w \in Workers : deadline[w] # "none" => actor[w] # "running"

\* Closing a worker ends every execution that was sent to it.
ClosesResolved ==
  \A e \in Execs :
    ExecuteFrame(e) \in sent /\ CloseFrame(Owner[e]) \in sent
      => result[e] # "none" \/ loop = "exited"

\* Shutdown ends: every actor drains its queue and drops its outgoing sender,
\* so writer_task returns.
ShutdownComplete == ShutdownFrame \in sent => loop = "exited"

\* What is to end executions ends them, alone and together: a cancel, a deadline,
\* a close and a shutdown.  Frames are sent once and results stay, so that again
\* and again nothing is outstanding.
ControlResolves ==
  []<>(CancelsResolved /\ DeadlinesResolved /\ ClosesResolved /\ ShutdownComplete)

\* A request that concerns no worker is answered whatever the workers do.
HealthAnswered ==
  HealthFrame \in sent ~> (HealthFrame \in accepted \/ loop = "exited")
=============================================================================
