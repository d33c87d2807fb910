------------------------------- MODULE Facade -------------------------------
(***************************************************************************)
(* The Python facade (pysandbox/runtime.py): one PythonRuntime that starts *)
(* its subprocess when it is needed and replaces it when it has died, the  *)
(* tasks of its workers, and the callers who wait for a worker to start.   *)
(*                                                                         *)
(* Everything runs on one asyncio loop, so an action is what a task does   *)
(* from one await to the next; cancel() marks a task, and CancelledError   *)
(* is raised in it when the loop runs it next. Each task starts at most    *)
(* one subprocess, so a subprocess is known by the task that started it.   *)
(***************************************************************************)
CONSTANTS
  Workers,    \* workers, and their tasks
  Clients,    \* other tasks of the application: open, close, reopen
  Calls,      \* calls of the application on a worker
  Callee,     \* the worker of a call
  Methods,    \* RPC methods
  None,
  Faults      \* what may go wrong: "component" is missing, "start" fails,
              \* "run" refuses the limits, "crash" of a subprocess, "abandon":
              \* a call is cancelled while it waits for its worker

Tasks == Workers \cup Clients

ASSUME FacadeAssumption ==
  /\ Workers \cap Clients = {} /\ None \notin Tasks
  /\ Callee \in [Calls -> Workers]
  /\ Faults \subseteq {"component", "start", "run", "crash", "abandon"}

VARIABLES
  sandbox,    \* _sandbox
  dir,        \* _socket_directory: the subprocess it was made for
  lock,       \* _start_lock: its holder
  handlers,   \* the methods registered in RpcHost
  exposed,    \* rpc_handlers of a subprocess
  proc,       \* a subprocess; SandboxProcess.closed is ~Open
  pc,         \* the await a task stands at
  held,       \* the SandboxProcess whose close() a task awaits
  cancelling, \* task.cancel() was called and not raised yet
  how,        \* how a task ended, or will end after its finally clause
  ready,      \* _execution_ready of a worker
  execution,  \* _execution: the subprocess it runs in
  daemon,     \* the daemon's worker
  joining,    \* Worker.close() waits for the task
  call        \* a call on a worker

runtimeVars == <<sandbox, dir, lock, held, proc>>
rpcVars == <<handlers, exposed>>
workerVars == <<ready, execution, daemon>>
taskVars == <<pc, how, cancelling>>
vars == <<runtimeVars, rpcVars, workerVars, taskVars, joining, call>>

TypeOK ==
  /\ {sandbox, dir, lock} \subseteq Tasks \cup {None}
  /\ handlers \subseteq Methods /\ exposed \in [Tasks -> SUBSET Methods]
  /\ proc \in [Tasks -> {"none", "spawned", "failed", "open", "closing", "dead"}]
  /\ pc \in [Tasks -> {"none", "closing", "reopening", "created", "waiting", "stale",
                       "starting", "running", "finally", "done"}]
  /\ held \in [Tasks -> Tasks \cup {None}]
  /\ cancelling \in [Tasks -> BOOLEAN]
  /\ how \in [Tasks -> {"none", "returned", "cancelled", "error", "setup",
                        "attribute", "invalid"}]
  /\ ready \in [Workers -> {"pending", "set", "cancelled"}]
  /\ execution \in [Workers -> Tasks \cup {None}]
  /\ daemon \in [Workers -> {"none", "live", "stopping", "asked", "closed"}]
  /\ joining \in [Workers -> BOOLEAN]
  /\ call \in [Calls -> {"none", "ready", "native", "answered", "stopped", "raised",
                         "cancelled"}]
  \* A task between two awaits of _get_sandbox holds the lock, one that awaits
  \* the end of a process holds it, one past run() has an execution.
  /\ \A t \in Tasks : lock = t <=> pc[t] \in {"stale", "starting"}
  /\ \A t \in Tasks : held[t] # None <=> pc[t] \in {"stale", "closing", "reopening"}
  /\ \A w \in Workers : pc[w] \in {"running", "finally"} => execution[w] # None

Init ==
  /\ sandbox = None /\ dir = None /\ lock = None
  /\ handlers = {} /\ exposed = [t \in Tasks |-> {}]
  /\ proc = [t \in Tasks |-> "none"]
  /\ pc = [t \in Tasks |-> "none"] /\ how = [t \in Tasks |-> "none"]
  /\ held = [t \in Tasks |-> None] /\ cancelling = [t \in Tasks |-> FALSE]
  /\ ready = [w \in Workers |-> "pending"]
  /\ execution = [w \in Workers |-> None] /\ daemon = [w \in Workers |-> "none"]
  /\ joining = [w \in Workers |-> FALSE]
  /\ call = [k \in Calls |-> "none"]

-----------------------------------------------------------------------------
(* The steps the tasks are made of.                                        *)

\* is_open: there is a SandboxProcess and it is not closed.
IsOpen == sandbox # None /\ proc[sandbox] = "open"

\* The task goes to another await.
Goes(t, p) == pc' = [pc EXCEPT ![t] = p] /\ UNCHANGED how
Ends(t, h) == pc' = [pc EXCEPT ![t] = "done"] /\ how' = [how EXCEPT ![t] = h]

\* A task runs unless CancelledError is about to be raised in it.
At(t, p) == pc[t] = p /\ ~cancelling[t]

\* The rest of Worker._execute up to execution.result(): set_result raises when
\* the future has been cancelled, and that is before the try.
Execute(w, s) ==
  /\ proc[s] = "open"
  /\ execution' = [execution EXCEPT ![w] = s]
  /\ daemon' = [daemon EXCEPT ![w] = "live"]
  /\ IF ready[w] = "cancelled"
       THEN Ends(w, "invalid") /\ UNCHANGED ready
       ELSE Goes(w, "running") /\ ready' = [ready EXCEPT ![w] = "set"]

\* sandbox.run() raises: the process is closed or the limits are invalid.
CannotExecute(w, s) ==
  /\ proc[s] # "open" \/ "run" \in Faults
  /\ Ends(w, "error") /\ UNCHANGED workerVars

\* _get_sandbox returns s to the task.
Got(t, s) ==
  \/ t \in Workers /\ (Execute(t, s) \/ CannotExecute(t, s))
  \/ t \in Clients /\ Ends(t, "returned") /\ UNCHANGED workerVars

\* From the removal of the old process to the await of start_sandbox; d is the
\* socket directory left by then.
Start(t, d) ==
  \/ /\ Goes(t, "starting")
     /\ lock' = t /\ dir' = t /\ proc' = [proc EXCEPT ![t] = "spawned"]
     /\ UNCHANGED workerVars
  \/ /\ "component" \in Faults
     /\ Ends(t, "setup") /\ lock' = None /\ dir' = d
     /\ UNCHANGED <<proc, workerVars>>

\* With the lock held and no open process: put the closed one away, or start.
Replace(t) ==
  \/ /\ sandbox # None
     /\ Goes(t, "stale")
     /\ lock' = t /\ held' = [held EXCEPT ![t] = sandbox] /\ sandbox' = None
     /\ UNCHANGED <<dir, proc, workerVars>>
  \/ /\ sandbox = None
     /\ Start(t, dir) /\ UNCHANGED <<sandbox, held>>

\* The except clause of a start: cleanup() of a directory that is gone raises.
Abort(t) ==
  /\ lock' = None /\ dir' = None
  /\ Ends(t, IF dir = None THEN "attribute" ELSE "setup")

-----------------------------------------------------------------------------
(* PythonRuntime._get_sandbox.                                             *)

GetSandbox(t) ==
  /\ At(t, "created")
  /\ \/ IsOpen /\ Got(t, sandbox) /\ UNCHANGED runtimeVars
     \/ ~IsOpen /\ lock # None /\ Goes(t, "waiting") /\ UNCHANGED <<runtimeVars, workerVars>>
     \/ ~IsOpen /\ lock = None /\ Replace(t)
  /\ UNCHANGED <<cancelling, rpcVars, joining, call>>

\* Mutant: the state is not looked at again once the lock is held.
AcquireUnchecked(t) ==
  /\ At(t, "waiting") /\ lock = None
  /\ Start(t, dir) /\ UNCHANGED <<sandbox, held>>
  /\ UNCHANGED <<cancelling, rpcVars, joining, call>>

Acquire(t) ==
  /\ At(t, "waiting") /\ lock = None
  /\ \/ IsOpen /\ Got(t, sandbox) /\ UNCHANGED runtimeVars
     \/ ~IsOpen /\ Replace(t)
  /\ UNCHANGED <<cancelling, rpcVars, joining, call>>

\* The dead process is put away with its directory, then a new one is started.
StaleClosed(t) ==
  /\ At(t, "stale") /\ proc[held[t]] = "dead"
  /\ held' = [held EXCEPT ![t] = None]
  /\ Start(t, None)
  /\ UNCHANGED <<sandbox, cancelling, rpcVars, joining, call>>

\* start_sandbox returned: expose the handlers registered by now.
Started(t) ==
  /\ At(t, "starting") /\ proc[t] \in {"open", "closing", "dead"}
  /\ exposed' = [exposed EXCEPT ![t] = handlers]
  /\ sandbox' = t /\ lock' = None
  /\ Got(t, t)
  /\ UNCHANGED <<dir, held, proc, cancelling, handlers, joining, call>>

\* Mutant: a failed start keeps the lock.
StartFailedLocked(t) ==
  /\ At(t, "starting") /\ proc[t] = "failed"
  /\ dir' = None /\ Ends(t, "setup") /\ UNCHANGED lock
  /\ UNCHANGED <<sandbox, held, proc, cancelling, rpcVars, workerVars, joining, call>>

StartFailed(t) ==
  /\ At(t, "starting") /\ proc[t] = "failed"
  /\ Abort(t)
  /\ UNCHANGED <<sandbox, held, proc, cancelling, rpcVars, workerVars, joining, call>>

-----------------------------------------------------------------------------
(* PythonRuntime.run, close, reopen; RpcHost.expose.                       *)

Run(w) ==
  /\ pc[w] = "none"
  /\ Goes(w, "created")
  /\ UNCHANGED <<runtimeVars, cancelling, rpcVars, workerVars, joining, call>>

\* __aenter__, invalidate_vfs.
Open(c) ==
  /\ pc[c] = "none"
  /\ Goes(c, "created")
  /\ UNCHANGED <<runtimeVars, cancelling, rpcVars, workerVars, joining, call>>

\* close() and reopen() take the process away before they await its end.
Close(c) ==
  /\ pc[c] = "none"
  /\ sandbox' = None
  /\ \E reopen \in BOOLEAN :
       IF sandbox = None
         THEN /\ dir' = None /\ UNCHANGED <<held, proc>>
              /\ IF reopen THEN Goes(c, "created") ELSE Ends(c, "returned")
         ELSE /\ Goes(c, IF reopen THEN "reopening" ELSE "closing")
              /\ held' = [held EXCEPT ![c] = sandbox]
              /\ proc' = [proc EXCEPT ![sandbox] = IF @ = "open" THEN "closing" ELSE @]
              /\ UNCHANGED dir
  /\ UNCHANGED <<lock, cancelling, rpcVars, workerVars, joining, call>>

\* The finally clause removes the directory there is now. A close that raises
\* ends a reopen as well.
Closed(c) ==
  /\ pc[c] \in {"closing", "reopening"} /\ proc[held[c]] = "dead"
  /\ dir' = None /\ held' = [held EXCEPT ![c] = None]
  /\ \/ pc[c] = "closing" /\ Ends(c, "returned")
     \/ pc[c] = "reopening" /\ Goes(c, "created")
     \/ Ends(c, "error")
  /\ UNCHANGED <<sandbox, lock, proc, cancelling, rpcVars, workerVars, joining, call>>

\* Mutant: a handler registered late is not passed on.
RegisterLocally(m) ==
  /\ m \notin handlers
  /\ handlers' = handlers \cup {m} /\ UNCHANGED exposed
  /\ UNCHANGED <<runtimeVars, taskVars, workerVars, joining, call>>

Register(m) ==
  /\ m \notin handlers
  /\ handlers' = handlers \cup {m}
  /\ exposed' = [s \in Tasks |-> exposed[s] \cup (IF s = sandbox THEN {m} ELSE {})]
  /\ UNCHANGED <<runtimeVars, taskVars, workerVars, joining, call>>

-----------------------------------------------------------------------------
(* The task of a worker.                                                   *)

\* execution.result() returned, or raised because the process ended; the finally
\* clause asks the daemon to close its worker.
ResultArrives(w) ==
  /\ At(w, "running")
  /\ \E h \in {"returned", "error"} :
       /\ h = "error" => proc[execution[w]] # "open"
       /\ how' = [how EXCEPT ![w] = h]
  /\ pc' = [pc EXCEPT ![w] = "finally"]
  /\ daemon' = [daemon EXCEPT ![w] = "asked"]
  /\ UNCHANGED <<runtimeVars, cancelling, rpcVars, ready, execution, joining, call>>

\* close_worker() returned; an error (the process is gone) is suppressed.
WorkerClosed(w) ==
  /\ At(w, "finally")
  /\ Ends(w, how[w])
  /\ daemon' = [daemon EXCEPT ![w] = IF proc[execution[w]] = "open" THEN "closed" ELSE @]
  /\ UNCHANGED <<runtimeVars, cancelling, rpcVars, ready, execution, joining, call>>

\* Mutant: the future of a task that failed stays pending.
TaskDoneQuietly(w) ==
  /\ pc[w] = "done" /\ ready[w] = "pending" /\ how[w] = "returned"
  /\ ready' = [ready EXCEPT ![w] = "set"]
  /\ UNCHANGED <<runtimeVars, taskVars, rpcVars, execution, daemon, joining, call>>

\* The done callback, in a later iteration of the loop than the task's end.
TaskDone(w) ==
  /\ pc[w] = "done" /\ ready[w] = "pending"
  /\ ready' = [ready EXCEPT ![w] = "set"]
  /\ UNCHANGED <<runtimeVars, taskVars, rpcVars, execution, daemon, joining, call>>

\* Worker.cancel: cancels the task while it starts, the execution afterwards.
Cancel(w) ==
  IF pc[w] # "done" /\ execution[w] = None
    THEN cancelling' = [cancelling EXCEPT ![w] = TRUE] /\ UNCHANGED daemon
    ELSE /\ daemon' = [daemon EXCEPT ![w] = IF pc[w] = "running" /\ @ = "live"
                                              THEN "stopping" ELSE @]
         /\ UNCHANGED cancelling

\* Worker.close: cancel, then join the task.
CloseWorker(w) ==
  /\ pc[w] # "none" /\ ~joining[w]
  /\ joining' = [joining EXCEPT ![w] = TRUE]
  /\ Cancel(w)
  /\ UNCHANGED <<runtimeVars, pc, how, rpcVars, ready, execution, call>>

\* The application cancels a task itself, as by a timeout around execute().
CancelTask(t) ==
  /\ pc[t] \notin {"none", "closing", "reopening", "done"} /\ ~cancelling[t]
  /\ cancelling' = [cancelling EXCEPT ![t] = TRUE]
  /\ UNCHANGED <<runtimeVars, pc, how, rpcVars, workerVars, joining, call>>

\* CancelledError in a task that has not entered a try block.
RaiseEarly(t) ==
  /\ pc[t] \in {"created", "waiting"}
  /\ Ends(t, "cancelled") /\ UNCHANGED <<runtimeVars, daemon>>

\* ... while it awaits the end of the old process: suppress lets it through.
RaiseStale(t) ==
  /\ pc[t] = "stale"
  /\ Ends(t, "cancelled") /\ lock' = None /\ held' = [held EXCEPT ![t] = None]
  /\ UNCHANGED <<sandbox, dir, proc, daemon>>

\* Mutant: the child is not killed with the handle that was to own it.
RaiseStartingDetached(t) ==
  /\ pc[t] = "starting"
  /\ Abort(t)
  /\ UNCHANGED <<sandbox, held, proc, daemon>>

\* ... while it starts a process: the child is dropped and killed, and the
\* except clause turns the cancellation into RuntimeSetupError.
RaiseStarting(t) ==
  /\ pc[t] = "starting"
  /\ Abort(t) /\ proc' = [proc EXCEPT ![t] = "failed"]
  /\ UNCHANGED <<sandbox, held, daemon>>

\* Mutant: only an Exception leads to close_worker().
RaiseRunningUncaught(t) ==
  /\ pc[t] = "running"
  /\ Ends(t, "cancelled") /\ UNCHANGED <<runtimeVars, daemon>>

\* ... while the execution runs.
RaiseRunning(t) ==
  /\ pc[t] = "running"
  /\ pc' = [pc EXCEPT ![t] = "finally"] /\ how' = [how EXCEPT ![t] = "cancelled"]
  /\ daemon' = [daemon EXCEPT ![t] = "asked"]
  /\ UNCHANGED runtimeVars

\* ... while it awaits close_worker().
RaiseFinally(t) ==
  /\ pc[t] = "finally"
  /\ Ends(t, "cancelled") /\ UNCHANGED <<runtimeVars, daemon>>

Raise(t) ==
  /\ cancelling[t] /\ cancelling' = [cancelling EXCEPT ![t] = FALSE]
  /\ \/ RaiseEarly(t) \/ RaiseStale(t) \/ RaiseStarting(t)
     \/ RaiseRunning(t) \/ RaiseFinally(t)
  /\ UNCHANGED <<rpcVars, ready, execution, joining, call>>

-----------------------------------------------------------------------------
(* Worker.call. set_fuel, add_fuel and set_limits differ in that they do   *)
(* not look at the task first.                                             *)

CallWorker(k) ==
  /\ call[k] = "none" /\ pc[Callee[k]] # "none"
  /\ call' = [call EXCEPT ![k] = IF pc[Callee[k]] = "done" THEN "stopped" ELSE "ready"]
  /\ UNCHANGED <<runtimeVars, taskVars, rpcVars, workerVars, joining>>

\* _wait_for_execution goes on: with the execution, or by awaiting a task that
\* ended without one, which raises what ended it. Awaiting a cancelled future or
\* task raises CancelledError.
ExecutionReady(k) ==
  LET w == Callee[k] IN
  /\ call[k] = "ready" /\ ready[w] # "pending"
  /\ call' = [call EXCEPT ![k] =
                IF ready[w] # "cancelled" /\ execution[w] # None THEN "native"
                ELSE IF ready[w] = "cancelled" \/ how[w] = "cancelled" THEN "cancelled"
                ELSE "raised"]
  /\ UNCHANGED <<runtimeVars, taskVars, rpcVars, workerVars, joining>>

\* execution.call(): answered, or failed with the worker (module Supervisor).
CallEnds(k) ==
  LET w == Callee[k] IN
  /\ call[k] = "native"
  /\ \/ daemon[w] \in {"live", "stopping"} /\ call' = [call EXCEPT ![k] = "answered"]
     \/ /\ daemon[w] \in {"asked", "closed"} \/ proc[execution[w]] # "open"
        /\ call' = [call EXCEPT ![k] = "stopped"]
  /\ UNCHANGED <<runtimeVars, taskVars, rpcVars, workerVars, joining>>

\* The application cancels the task that calls. What a task awaits directly is
\* cancelled with it.
AbandonCall(k) ==
  LET w == Callee[k] IN
  /\ call[k] \in {"ready", "native"}
  /\ call[k] = "ready" /\ ready[w] = "pending" => "abandon" \in Faults
  /\ call' = [call EXCEPT ![k] = "cancelled"]
  /\ ready' = [ready EXCEPT ![w] = IF call[k] = "ready" /\ @ = "pending"
                                     THEN "cancelled" ELSE @]
  /\ UNCHANGED <<runtimeVars, taskVars, rpcVars, execution, daemon, joining>>

-----------------------------------------------------------------------------
(* Subprocesses, as the facade sees them through _core.                    *)

Becomes(s, from, to) ==
  /\ proc[s] = from /\ proc' = [proc EXCEPT ![s] = to]
  /\ UNCHANGED <<sandbox, dir, lock, held, taskVars, rpcVars, workerVars, joining, call>>

\* connect_to_sandbox succeeds; or the child exits early, or never listens.
Connects(s) == Becomes(s, "spawned", "open")
DoesNotConnect(s) == "start" \in Faults /\ Becomes(s, "spawned", "failed")

\* The connection ends, which closes the SandboxProcess.
Crashes(s) == "crash" \in Faults /\ Becomes(s, "open", "closing")

\* child.wait() returns.
Exits(s) == Becomes(s, "closing", "dead")

-----------------------------------------------------------------------------
Next ==
  \/ \E t \in Tasks :
       \/ GetSandbox(t) \/ Acquire(t) \/ StaleClosed(t) \/ Started(t) \/ StartFailed(t)
       \/ CancelTask(t) \/ Raise(t)
       \/ Connects(t) \/ DoesNotConnect(t) \/ Crashes(t) \/ Exits(t)
  \/ \E c \in Clients : Open(c) \/ Close(c) \/ Closed(c)
  \/ \E w \in Workers :
       Run(w) \/ ResultArrives(w) \/ WorkerClosed(w) \/ TaskDone(w) \/ CloseWorker(w)
  \/ \E k \in Calls : CallWorker(k) \/ ExecutionReady(k) \/ CallEnds(k) \/ AbandonCall(k)
  \/ \E m \in Methods : Register(m)

Spec == Init /\ [][Next]_vars

\* An execution that was cancelled, or whose process has ended.
MustEnd(w) ==
  pc[w] = "running" /\ (daemon[w] = "stopping" \/ proc[execution[w]] # "open")

\* The loop runs every task that can go on, a subprocess connects or fails, a
\* closed one exits, and the daemon ends what was cancelled or has died; no
\* program ends by itself and nobody has to call, close or crash.
Fairness ==
  /\ \A t \in Tasks :
       /\ WF_vars(GetSandbox(t) \/ Acquire(t) \/ StaleClosed(t) \/ Started(t)
                    \/ StartFailed(t) \/ Raise(t))
       /\ WF_vars(Connects(t) \/ DoesNotConnect(t))
       /\ WF_vars(Exits(t))
  /\ \A w \in Workers :
       /\ WF_vars(MustEnd(w) /\ ResultArrives(w))
       /\ WF_vars(WorkerClosed(w)) /\ WF_vars(TaskDone(w))
  /\ \A k \in Calls : WF_vars(ExecutionReady(k))

FairSpec == Spec /\ Fairness

-----------------------------------------------------------------------------
(* Properties.                                                             *)

\* The subprocesses that run.
Running == {t \in Tasks : proc[t] \in {"spawned", "open"}}

\* The runtime has one subprocess: tasks that find it missing or dead at the same
\* time, a close and a reopen in between, and cancelled starts never leave two.
OneSubprocess == \A s, t \in Running : s = t

\* A running subprocess is the runtime's or is still being started: none is
\* forgotten, out of reach of any close().
Owned == \A t \in Running : t = sandbox \/ pc[t] = "starting"

\* What makes them inductive: while a subprocess is being started the runtime has
\* none, and the one it has did connect.
StartsAlone ==
  /\ lock # None => sandbox = None
  /\ sandbox # None => proc[sandbox] \in {"open", "closing", "dead"}

\* The runtime's subprocess knows every handler registered so far, before, while
\* or after it was started.
HandlersExposed == sandbox # None => exposed[sandbox] = handlers

\* The task of a worker does not end, however it ends, before it asked the daemon
\* to close the worker it had opened there.
DaemonWorkerClosed ==
  \A w \in Workers : pc[w] = "done" /\ execution[w] # None => daemon[w] \in {"asked", "closed"}

\* What makes it inductive, as long as no call is cancelled while it waits for its
\* worker: the future is never cancelled, a task has an execution only from run()
\* on, and the finally clause asks first.
ClosesItsWorker ==
  \A w \in Workers :
    /\ ready[w] # "cancelled"
    /\ execution[w] # None => pc[w] \in {"running", "finally", "done"}
    /\ pc[w] = "finally" => daemon[w] = "asked"

\* Whoever waits to start a subprocess goes on: a failed, cancelled or lost start
\* of another does not hold it up.
StartsResolve ==
  \A t \in Tasks : pc[t] \in {"waiting", "stale", "starting"}
                     ~> pc[t] \notin {"waiting", "stale", "starting"}

\* A call that waits for its worker to start goes on, also when it never starts.
CallsResolve == \A k \in Calls : call[k] = "ready" ~> call[k] # "ready"

\* Worker.close() ends, whatever state the worker was in.
CloseJoins == \A w \in Workers : joining[w] ~> pc[w] = "done"

\* Nobody on the event loop is stuck behind another task.
NobodyStuck == StartsResolve /\ CallsResolve /\ CloseJoins
=============================================================================
