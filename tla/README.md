# pysandbox: TLA+ models, checks and proofs

pysandbox runs Python programs in WebAssembly. An application talks to a Python
facade (`pysandbox/runtime.py`), which drives a native supervisor
(`rust/pysandbox-native`), which drives one subprocess, the daemon
(`rust/pysandbox-sandboxd`), over a local socket. The daemon runs workers; each
executes programs in its own Wasmtime store. This directory models the parts of
it whose correctness depends on the order in which things happen.

## Inventory

| part | state | operations | talks to |
|---|---|---|---|
| connection loop of the daemon (`server.rs`, `serve_connection`) | `workers`, the frame in hand | one handler per frame kind | actors by command queue and shared control state; supervisor by frames |
| worker actor (`server.rs`, `spawn_worker`, `execute`) | command queue, current execution | load, take a command, run, report | loop, store, output task |
| execution control (`component_worker.rs`) | `ExecutionControlState`: active execution, cancelled, closed, pending cancellations, deadline, pending store updates, a `Notify` | `cancel`, `set_*`, `close`, `begin`, `finish`, `wait_for_interruption`, the epoch callback, `spin_next` | called by the loop's task and the actor's task with no common lock |
| remote file system (`remote_vfs.rs`) | the cache shared by all workers, a generation, pending requests | read, write, list, rename..., `invalidate` | supervisor by VfsRequest / VfsResponse |
| VFS handler (`lib.rs`, `invoke_vfs_handler`) | none; the host's file system | one per request, with fallbacks for missing methods | the application |
| connection actor (`lib.rs`, `spawn_connection_actor`) | pending requests, dispatch limits and dispatchers by worker | forward requests, route answers, admit guest calls, fail everything at the end | callers by channel, daemon by socket |
| dispatchers (`lib.rs`) | semaphores and bounded queues, per worker and sandbox-wide | acquire, receive, forward or refuse, run a handler | connection actor, application handlers |
| output (`component_worker.rs`, `Output`; `server.rs`, `output_task`) | bytes written, the combined limit, the flag that it was hit | `begin`, `write`, `set_limit`, `finish` | a forwarding task per execution, the outgoing channel |
| connection (`server.rs` writer task, `lib.rs` reader task) | bounded channels on both sides of the socket | write, read, forward | actor, connection loop |
| guest loop (`component/src/main.py`) | spin task, running calls | receive a worker call, answer, wake | `spin_next` |
| CPU sharing (`cpu_share.rs`) | fuel account and weights of active workers | observe, sample, delay | polls of the guest |
| facade (`runtime.py`) | `_sandbox`, `_socket_directory`, `_start_lock`; per worker its task, `_execution`, `_execution_ready` | `_get_sandbox`, `close`, `reopen`, `run`; `Worker.cancel`, `close`, `call` | native handles |
| packages (`packages.py`) | cache of installed layers | resolve, install, lease, prune | file system |

What is hard here:

- The loop and the actors run on different threads and share flags without a
  lock: a handler reads `active_execution` and acts later.
- The loop handles one frame at a time and *awaits inside* one handler.
- Wake-ups go through `Notify`: a permit stored too early or too late is a hang.
- A request to the host file system is a chain of awaits, any of which another
  task, an invalidation or the end of the execution may fall into.
- Permits and queue slots travel with a guest call through four tasks.
- The daemon may die at any time; results, closes and late calls cross.
- Queues outlive what they were filled for: a call, an `ApplyUpdates` or a
  `WakeSpinNext` may be taken by a later `spin()` or a later execution.
- The actor and the connection loop each stop reading while they write into
  something bounded.
- The sampler of CPU windows runs when it gets to, and workers come and go
  between two of its ticks; the order of the split is that of a hash map.
- Any await of the facade may raise CancelledError, and what it knew before the
  await may be somebody else's after it.

What makes each part correct: the loop answers every frame and no control frame
is lost or hits the wrong execution; the actor gives every admitted execution one
result; the cache never contradicts a host nobody else changes; permits and queue
slots come back; whoever asked is answered or told that the daemon is gone; a
worker call runs at most once and its caller gets the value of that run, a refusal
or a stop; output arrives in order, all of it before the result; a worker is held
back only for what it used beyond its share; there is one subprocess, in reach of
`close()`, and no worker is left in it.

## Modules

`Sandboxd` - the daemon's control path. The variables are the fields named in
their comments: `inbox` is the socket with the frame in hand at its head, `loop`
the await the connection loop stands at, `handle` and `commands` the loop's view
of a worker, `actor`, `exec` and `outcome` the actor, `active` to `pending` the
fields of `ExecutionControlState`, `watch` and `sleep` the state of
`wait_for_interruption` and `MonotonicDeadline::wait`. One action per handler;
handlers that read shared state and then write it are two or three actions
(`HandleCancel` then `CancelActive` or `CancelInactive`; `HandleUpdateLimits`,
`PushUpdate`, `FinishUpdate`), and so is `begin` (`BeginExecution` up to the
store of `cancelled`, `StartExecution` from there). `finish` is one action: each
of its effects is separated from a handler's earlier read by the handler's own
split. The guest is what the control path sees of it: it executes wasm or waits
in host imports, and store updates are applied only while it executes (epoch
callback) or in `spin_next`. The peer submits what the supervisor would: control
frames only after ExecuteStarted.

`SandboxdProofs` - theorems about `Sandboxd`: types and wake-ups; where an execution is,
and what follows for results, closing and cancelling.

`RemoteVfs` - guest file-system requests, the shared cache and the host behind
it. `Look`, `Hit` / `Send`, `Receive`, `Insert` / `Invalidate` are the stretches
of `request_with_rename` between two awaits; `Resolve` and `Serve` are the host's
first stat and the rest of `invoke_vfs_handler`. `current[t]` says whether the
generation a task loaded is still the current one, which is all a comparison of
generations can tell. The tree of cached nodes is the function it represents.
The `*Outcomes` operators give every response `invoke_vfs_handler` may produce
for a request, given the stat it believes, with the file system it leaves.
`HostStat`, `HostAnswer` and `RenamedNodes` stand for the application's handler.
`req[t].hint` is the stat a request takes out of the cache before it loads the
generation, and `resp[t].stat` the one that comes back and is cached too.
`RemoteVfsProofs` has the theorems about it.

`Supervisor` - the connection actor and the dispatchers, against a daemon
reduced to what the actor sees: executions of a worker run in the order they were
sent, every request is answered at most once, frames keep their order, and it may
die. A dispatcher is known by the guest call it was spawned for, `via` is the
dispatcher whose permit a call holds, and `place` follows a call through the
tasks. `Ask` and the operations on it are the native handles. A worker may be closed
as soon as an execution of it was asked for: `Worker._execute` closes in its
`finally`, also when it is cancelled with the execution queued or running.

`SupervisorProofs` - theorems about `Supervisor`.

`Facade` - `PythonRuntime` and its workers. Everything runs on one asyncio loop,
so an action is what a task does from one await to the next, and `pc` names the
await it stands at: `waiting` for `_start_lock`, `stale` in the close of the old
process, `starting` in `start_sandbox`, `running` in `execution.result()`,
`finally` in `close_worker()`. `task.cancel()` only marks a task; `Raise` is
CancelledError at the await it stands at, with the except and finally clauses
that follow. A task starts at most one subprocess, so `proc`, `exposed` and
`sandbox` name a subprocess by the task that started it. The queue of the lock is
not kept: any waiter may be next. A call is followed from `_wait_for_execution`
to the native handle.

`FacadeProofs` - theorems about `Facade`.

`WorkerCalls` - the abstract specification of host-to-worker calls: what the caller
knows of a call and how often the guest has begun to run it. A call runs at most
once; an answer is the value of a run; a refused call has not run and never will;
a stopped call may have run, may be running or may still run.

`GuestSpin` - one worker from the caller to the guest: the supervisor's pending
calls, the two directions of the socket, the connection loop's handlers, the call
and control queues, `spin_next`, the update of the store (`HandleUpdate` checks that
an execution is active, `QueueUpdate` pushes, and the execution may end in between,
as in `Sandboxd`), and both forms of `spin()` in `main.py`. `next`
and `event` are the `spin_next` import with its asyncio task, in three stages: the
host waits, the host has returned an event, the guest has seen that it did.
Between the last two the guest acts on a stale view, and that is where calls get
lost. `task` are the handlers, `guest` the statement the program stands at
(`draining` is `await spin_task` after `wake_spin_next`, `unwinding` the `finally`
clause). A handler may answer or end with an exception that is no answer; a
program may catch that and spin again; queues are kept from one execution to the
next. `Calling == INSTANCE WorkerCalls WITH ...` is the refinement: the caller's view
of the abstract specification is `outcome`, and its count of runs is `runs`, a
history variable.

`GuestSpinProofs` - theorems about `GuestSpin`, the refinement among them.

`CpuShare` - `cpu_share.rs` and the fuel operations. Instants are kept as distances
from now (`untilSample`, `windowAge`, `age`, `throttle`), so time needs no horizon.
A sample picks any capacity for the next window, in place of the measured rate.
`Unsatisfied` is the loop of `weighted_fair_allowance` over every order in which the
hash map may offer its workers; `FairSplit` is the reference definition it is
compared with. Shares are compared by cross-multiplication; the code's are floats.
`owed` is history: what the guest used since the account was last told; so are
`exceeded`, the workers held for what they used in this window, and `spill`, how late
the window a worker is held for had begun.
`CpuShareProofs` has the theorems about it.

`Link` - guest output and the connection that carries it: `Output`, the task that
forwards it, `outgoing`, the writer, the socket, the reader, `incoming`, the actor.
`writing` and `answer` are the frame the actor, or the loop, is sending; while there
is one it does nothing else. Executions are numbered and follow each other. `Write` is
`Output::write` through either stream, `CheckWrite` the readiness check of the p2
stream, which traps when there is no room left; `limited` is history: the executions
that asked for room there was not, and `told` those that got the error of a write for it
and went on.
`LinkProofs` has the theorems about it.

`QueueFacts` - lemmas on queues that the proofs share: head, tail and append, the
elements of a queue (`Elems`), no element twice (`Distinct`, `Once`), one before
another (`Before`).

`MCSandboxd`, `MCRemoteVfs`, `MCSupervisor`, `MCFacade`, `MCGuestSpin`, `MCCpuShare`
and `MCLink` give the constants their values.

How they fit: `Sandboxd`, `GuestSpin` and `Link` look at the same daemon from three
sides (control, calls, traffic); each reduces what the others are about to a choice.
`Supervisor` has the daemon as its environment, `Facade` has the native handles as
its own.

The definitions named `...Silently`, `...Keeping`, `NoStoppedCalls`,
`AcquireUnchecked` and the like, each above the definition it varies and marked
"Mutant", are deliberate: with one of them in
the place of the original, the property it belongs to fails. They show that the
properties depend on the code's doing what it does.

## Runs

| run | shows |
|---|---|
| `sandboxd_control` | two executions on one worker with a command queue of one, cancels, store updates and a close that may come first, in every order against begin, the watcher, the store and finish: no acknowledged cancel and no wake-up is lost, the update the loop waits for is never dropped, one place and one result per execution, nothing admitted is thrown away |
| `sandboxd_live` | every frame kind of `Sandboxd`, a load that fails, deadlines that are replaced: cancel, deadline, close and shutdown end executions that never end by themselves, also in a timer or in a host call nobody answers; no new deadline is slept through |
| `vfs_sequential` | one task, files and directories with cached contents that are written, created, removed and renamed through the host, a read-only file, negative caching, handler errors: the cache agrees with the host, and no stat that a request took along comes back stale |
| `vfs_overlap` | two tasks, changes the application announces, interrupted reads, an unreadable file, errors cached: an answer or a stat that the host found out under a generation that stands is fresh |
| `supervisor_dispatch` | two workers at the limits of their queues: permits add up, one answer per guest call, a worker with a running execution has its limits until a close of it is answered, and keeps to its budget |
| `supervisor_live` | two executions on one worker, crash and termination: nobody waits for ever, no guest call stays in the dispatchers |
| `facade_lifecycle` | a worker and another task start, replace, close and reopen the subprocess while it fails or dies and either is cancelled at any await: one subprocess, none forgotten, every handler exposed, no worker left open in the daemon, nobody stuck behind the start, the close or the end of another |
| `guest_spin` | two calls, two executions, two `spin()` loops of either form, a failing handler, an update, a full queue, interruption, close: `GuestSpin` implements `WorkerCalls`; a call disappears only where a spin loop is left; without a failure a loop is left only for a close; after a close no caller waits for ever, unless the loop is stuck for ever with an update nobody applies |
| `cpu_share` | two workers that burn, refill and cap fuel, change weight, end and begin again, a sampler that may be late: only what a guest used is charged, every order of the split ends in the one fair split, a hold reaches into a later window only for as long as the sampler was late, only excess is held back |
| `link_output` | two executions, a limit update and a health check over channels of capacity one: the limit holds at every write, all output arrives in order before the result, an execution that ran into the limit, and no other, is reported as stopped by it, unless it survived the error of a refused write, everything asked is answered |

Two runs show where the code does something else than the documentation says:

- `sandboxd_head_of_line`: an update of the store is awaited inside the connection
  loop (`server.rs:222`). A guest that waits in a host call runs no wasm, so the
  update waits for the guest, the guest for its response, and the response for the
  loop. No frame is handled any more, of any worker (`DOCS.md:82`).
- `vfs_stale_hint`: a task takes a stat out of the cache, the write of another task
  invalidates it, and then the first task loads the generation
  (`remote_vfs.rs:368`, `281`). The host believes the stat and returns it, the
  generation stands, and the stale stat is cached again (`remote_vfs.rs:313`), against
  `DOCS.md:236`: "Generation checks prevent an in-flight stale response from
  repopulating an invalidated node". With `Negative = TRUE` the error the host derives
  from it is cached as well.

Other disagreements met on the way, with the changes to a run's constants that show
them:

- `HealthAnswered` (`sandboxd_head_of_line`) with `Imports = {}`: an update pushed
  after `finish` has rejected the pending ones is never answered
  (`component_worker.rs:556`).
- `Coherent` with one task, `OneFile`, `Versions = {1, 2}`, `Ops = {"stat"}`,
  `Outside = TRUE`: the generation is compared before the cache lock is awaited
  (`remote_vfs.rs:311`), so an announced change can slip in between and is undone by
  the insert, against the sentence of `DOCS.md:236`. So can the write of a second task
  (two tasks, `Ops = {"stat", "write"}`, `Outside = FALSE`).
- `Coherent` with `OneFile`, `Versions = {1, 2}`, `Ops = {"read", "write"}`,
  `Drops = {"write"}`: the task that asked for a mutation also does the invalidation
  (`remote_vfs.rs:302`); when its execution ends first, the host writes and the cache
  keeps the old answer, against `README.md:267`: "Successful mutations invalidate the
  affected cached paths".
- `ControlHitsItsTarget` in `sandboxd_control`: a cancel that read
  `active_execution` before the first execution ended hits the second
  (`component_worker.rs:379`); it holds with one execution per worker, as the facade
  uses them.
- `ControlResolves` (`sandboxd_live`) with `EarlyClose = TRUE`: a close that overtakes
  the Execute of its worker leaves a worker nobody closes.
- `TrafficFlows` (`link_output`) with `Requests = {r1, r2, r3}`, `LimitOf <-
  ThreeHealthChecks`, `StartLimit = 9`, `Writes <- OneWrite`, `SocketDown = 1`,
  `MaxExecs = 1`, `MaxWrites = 4`: the actor writes into a full socket and does not
  read (`lib.rs:633`), so output piles up to the daemon's outgoing channel, and the
  connection loop, waiting to send an answer into it, does not read either. `DOCS.md:180`
  has it that responses and control traffic for other workers continue flowing. It
  takes more unread bytes than the socket's buffers hold in both directions.
- `LateCallsAreStopped` (`guest_spin`) with `Calls = {c1}`, `Modes <- ConcurrentOnly`,
  `MaxExecs = 1`, `MaxSpins = 1`, `MaxUpdates = 0`: a call that arrives after
  the close is answered with RuntimeError "worker does not exist" (`server.rs:301`),
  where `README.md:89` and `DOCS.md:42` promise WorkerStoppedError.
- `DaemonWorkerClosed` (`facade_lifecycle`) with `Faults = {"abandon"}`: a call awaits
  the worker's future `_execution_ready` itself (`runtime.py:526`), so cancelling
  the call cancels the future. The worker task then fails at `set_result`
  (`runtime.py:649`), after the execution was sent and before its `try`; nobody
  closes the worker in the daemon, although "the worker task owns execution lifetime
  and is solely responsible for closing the corresponding daemon worker"
  (`DOCS.md:38`).
- `Coherent` with `rename` and `Methods = {}`: the copy of a rename is done and its
  delete fails (`lib.rs:1486`). The copy is documented as non-atomic (`README.md:256`).
- `WorkerBudget` (`supervisor_dispatch`) with `Owner <- OwnerShared`, `HostConcurrency
  = 2`: dispatch limits are kept by worker and removed by any result of it
  (`lib.rs:762`), so the guest calls of the other execution are refused
  (`DOCS.md:191`), or it gets a fresh semaphore (`lib.rs:761`).

Without a property of their own:

- `Facade`: a `close()` during a start removes the directory of the start, and
  leaves the runtime open once the start is done; if that start then fails or is
  cancelled, the task ends with AttributeError (`how = "attribute"`,
  `runtime.py:426`). A cancellation during a start becomes RuntimeSetupError. A call
  whose worker ends before it has started gets what ended the worker's task, never
  the WorkerStoppedError of `runtime.py:530`. A second cancellation may end the
  `finally` clause before `close_worker()` is sent, which is why
  `DaemonWorkerClosed` says "asked".
- `GuestSpin`: after a failing handler, the `WakeSpinNext` that came too late stays
  queued and ends the next `spin()` at once (`SpinEndsForCause` speaks of runs without
  a failure for that reason). A call dropped by a loop that was left stays unanswered
  until its execution ends, if the program goes on. A call reported as stopped may
  still run, in a later execution, from the queue that outlived the first. The result
  of a refused Execute stops the pending calls of the execution that runs
  (`lib.rs:1739` goes by worker).
- `Supervisor`: a close takes the limits of the worker away when it is answered
  (`lib.rs:778`), and a cancelled caller closes with the execution running. The guest
  calls of an execution that is still being stopped are then refused.
- `Link`: a write through the `AsyncWrite` of the p3 streams that does not fit returns an
  error to the guest (`component_worker.rs:192`). A program that catches it and returns
  is reported as completed (`server.rs:489`), against `DOCS.md:135`: "A limit violation
  terminates the execution with `TerminationReason.OUTPUT_LIMIT`". `LimitIsItsOwn` says
  that only such a program is; without its last alternative it fails.
- `Link`: a readiness check after output that exactly fills the limit traps the guest
  and counts as a violation, although nothing was refused (`component_worker.rs:124`).
- `CpuShare`: a worker is held until an interval after the window began in which it
  used too much (`cpu_share.rs:146`). When the sampler is late, its interval catches up
  (`cpu_share.rs:352`) and the window after the late tick is shorter than the interval,
  so that the hold reaches into a window in which the worker has used nothing, for as
  long as the sampler was late. The first formula one would write down, that nobody is
  held into the next window, is false for that reason; `WindowsKeptApart` bounds it.
  `finish` and `begin` give a worker a fresh account in the same window,
  and an update that replaces fuel between two epoch checks forgets what was used
  since the first.

### Bounds

Workers, executions, calls, paths and versions are finite sets. One worker
suffices for the races of control, since workers share only the
loop; a second execution is there for the queue, and two workers
where they share something (the host dispatcher, the CPU). `MaxInbox` bounds the frames on
the socket, `Submits` and `Ops` the kinds of frame and operation of a run, and
each frame is submitted once. A guest has at most one call per execution out in
`Sandboxd`. `RequestsCapacity`, the queue capacities and the concurrency limits
are one or two, so that every full-queue path is taken. File contents and
metadata are one version number, permissions ride on it, and directories are
writable; the handler's calls after its first stat happen in one step. The socket
has no capacity in `Supervisor`; `Link` gives it one. `vfs_sequential` has no reads of files, whose
slot is written and dropped like that of a stat, and no append and truncate, which are
writes of a file that is there; `CacheAgrees` covers them. `vfs_overlap` has no listings:
together with errors and interrupted reads they are beyond the time of a run, and
`FreshAnswers` proves what the run checks for them too. The two tasks of `vfs_overlap`
and the two guest calls of one execution in `supervisor_dispatch` are symmetric.

`facade_lifecycle` has two tasks and a call; the theorems of `FacadeProofs` hold for
any number. `Faults` says what may go wrong; a call that is abandoned while it
waits is left out, since `DaemonWorkerClosed` fails with it. A client does one
operation.

`guest_spin` needs two calls (one that fails, one in flight), two spins (what the
first leaves behind) and two executions (what outlives one). `LastExecution` lets a
cancel or a timeout interrupt the last execution only, and a close any. `cpu_share`
has two workers, weights 1 and 2, capacities none and 3, and fuel up to 3, which
stands for 2^64 - 1; the sampler may be one unit late, and `MaxWindow` bounds the
fuel of a window. With two workers every order of the split occurs, but a third
would add longer chains of removals; it is beyond the time a run may take. In
`link_output` all three channels have capacity one, and the socket takes the two
requests and no more; `MaxWrites` and the sizes 1 and 2 against limits 3 and 1 put
a write below, at and beyond the limit.

Deadlock is not checked where the system may come to rest (everything submitted
is done, the daemon has exited); it is in the VFS runs.

### Fairness

Tokio polls every task that can go on, so the loop, the actors, the watcher, the
connection actor and the dispatchers are weakly fair, each as a whole. Time
passes (`DeadlinePasses`) and epochs tick while wasm runs (`EpochTick`).
In `Supervisor` application handlers return, executions end, and the facade closes a
worker once it has the results of its executions (`Worker._execute`, `finally`); that
it closes earlier, because it is cancelled, may happen and need not. Nothing obliges
a guest to end, to leave an import or to answer a worker call in `Sandboxd`, nor a
caller to ask for anything. No action needs strong fairness: a request is made
once, so that a full channel empties.

In `Facade` the event loop runs every task that can go on, a subprocess connects
or fails (`connect_to_sandbox` gives up), one that was closed or lost exits, and
the daemon ends an execution that was cancelled (`ControlResolves`) or has died.
No program ends by itself, and nobody has to call, close, cancel or crash.

In `GuestSpin` the supervisor, the loop and the actor are as above, `spin()` takes its
own steps, and a closed worker is interrupted (`ControlResolves`). Programs and handlers
need never go on, and nothing makes an epoch check happen: the guest may wait in a host
call whose answer is behind the update (`sandboxd_head_of_line`), and an update queued
after the last execution has ended is applied by nobody. `CallsResolve` therefore
excludes a loop that is stuck for ever with such an update (`Unheeded`), and nothing
else: a guest in `spin_next` applies the update, and so does the next execution. In `Link`
each task goes on when it can, and so do both branches of the actor's `select!`,
which picks at random; guests end. `CpuShare` has no liveness property.

## Proofs

`SandboxdProofs`, for any number of workers, executions and frames, from
`ConstantsAssumption` alone:

- `TypeCorrect`: `TypeOK` holds together with `InHand`, the strengthening that
  makes it inductive: a handler that has been entered has its frame at the head
  of `inbox`, with the kind it handles, and an actor between `begin` and its
  report holds an execution. Without it `Head(inbox)` and `started[exec[w]]` have
  no type.
- `WakeupNotLost` and `RescheduleNotLost`: `NoLostWakeup` and `NoLostReschedule`
  are inductive once types are known. Whoever raises a flag or replaces the
  deadline stores a notification in the same step, the watcher waits only on
  flags it has seen down and on the deadline it has read, and it uses a
  notification up only to look again.
- `AwaitedNotDropped`: `AwaitedUpdateKept`. The awaited frame stays at the head
  of `inbox`; what takes it from the pending updates of its worker answers it in
  the same step.

`FacadeProofs`, for any number of tasks, workers, calls and handlers, from
`FacadeAssumption` (workers and clients are different tasks, a call has a worker):

- `FacadeTypes`, `NoneForgotten`, `StartedOnce`: `TypeOK` and `Owned` are proved
  together with `StartsAlone`. `TypeOK` ties `_start_lock` to the task at the
  awaits inside it, `Owned` says that a running subprocess is `_sandbox` or that of
  a starting task, and `StartsAlone` that `_sandbox` is None while the lock is
  held: whoever takes the lock clears `_sandbox` in the same step, and only the
  holder sets it again. So there is never a second.
- `HandlersKnown`: a subprocess becomes `_sandbox` in the step that gives it the
  handlers, and expose() passes a new one on to `_sandbox`.
- `WorkersClosed`, for `"abandon" \notin Faults`: with `ClosesItsWorker`, a worker's
  task has an execution only from `run()` on, its future is never cancelled, and
  every way from the execution to the end of the task leads through the `finally`
  clause.

Also in `SandboxdProofs`, from `Placed`: the socket and the
command queues hold everything once (`SocketOnce`, `QueueOnce`); an execution is on
its way, queued, with the actor or answered, and only one that left the queue has
started (`OneOf`); the actor holds an execution of its own worker exactly while it
executes (`ActorHolds`); the entry of `workers`, the actor and the queue come and go
together (`EntryAndActor`); no Execute follows the CloseWorker of its worker on the
socket unless it is the only one (`NoneAfterClose`).

- `NeverInTwoPlaces` (`OnePlace`) and `CloseDrains` (`EndedMeansDrained`) follow from
  `Placed`, `AnsweredOnce` (`ResultFinal`, an action property) from `Placed` step by
  step: a result is written only for an execution without one.
- `CancelTakesEffect` (`CancelNotLost`) needs `CancelFollowsStart` besides: the
  supervisor sends a cancel after ExecuteStarted, so that a cancel which finds another
  execution active, or none, is about one that is over or stopping.

`SupervisorProofs`, from `SupervisorAssumption` (workers, executions, calls and guest
calls are different things, limits and capacities are positive):

- `SupervisorInvariant` is the conjunction that is inductive. `Shaped` are types in
  which permits are only numbers; `InQueues` says that a call in a queue is there once
  and has the `place` that goes with it; `OnSocket` that a guest call and its response are
  on the socket or in the actor's channel at most once, and where its place has it;
  `Counted` that free permits and calls that hold one add up.
- `NoPermitLeaks` (`PermitsConserved`), `AnsweredAtMostOnce` (`OneReply`) and
  `SupervisorTyped` follow from it. That permits keep to the configured concurrency,
  which `TypeOK` states, is a consequence of the balance and not of the types.
- `WorkerKeepsToBudget` (`WorkerBudget`) holds where every worker runs one execution,
  `OneEach`, which is how the facade uses workers; without that it is false (see
  above). `Tracked` follows the execution through channel, socket, worker and back
  (`OnePath`), has the limits known while it is in flight until a close is answered
  (`LimitsKnown`), a close on its way only while it is awaited and once
  (`CloseKnown`, `CloseAwaited`), and one dispatcher per worker with its calls
  (`OneDispatcher`).

`GuestSpinProofs`, from `GuestSpinAssumption`:

- `SpinTyped`: types with `InHand`: a loop that has checked an update or waits for it has
  it at the head of the socket, an event is held from the import's return to its use, a failure ends a spin
  of its own.
- `CallsImplementPromise`: `GuestSpin` implements `WorkerCalls`. `Promised` says that a
  call is on the socket, in the queue or in `spin()`'s hand, once, and that its place
  decides whether it has run: it has not while it is in one of them, it has once it is
  a task, and an answer on the socket is the answer of a run while a refusal is not.
  With it every step is a step of `WorkerCalls` or a stutter (`StepRefines`).
- `CallsAreFollowed` (`OnlyLeavingSpinDropsCalls`) is inductive with `Promised`, in the
  form `Followed`.
- `SpinIsLeftForCause` (`SpinEndsForCause`, an action property): `Causes` says that a
  close in the control queue, or the end of a spin before any failure, means that the
  worker is closing and no Execute can follow.

`LinkProofs`, from `LinkAssumption`, for every capacity of channels and socket:

- `LinkTyped`: types with `InHand`; the capacities are part of `TypeOK`.
- `LimitRespected` (`OutputWithinLimit`): the size is bounded by the limit in force,
  since a new limit below it is refused.
- `ReasonIsOwn` (`LimitIsItsOwn`): `Ordered` says that a request is in one place
  (`AskedOnce`), that an execution has not begun, runs or has ended (`RunsOnce`), and
  that the flag, the reason in hand, the results on their way and those known agree
  with the writes and checks that found no room (`Explained`).
- `OutputArrivesInOrder` (`OutputInOrder`): `Delivered` says that what the application
  has seen is the beginning of what was produced, and that event queue, outgoing
  channel, socket and incoming channel together carry the rest, in order, with a
  result behind the last write. A queue carries the writes `a+1..b` when there is a
  function that counts them along it (`Carries`); this takes the place of a filter
  over the queue, which would be defined by recursion.

`CpuShareProofs`, from `CpuShareAssumption`, for any number of workers, weights and
capacities:

- `SharesTyped` and `OnlyUseIsCharged` (`ChargedIsConsumed`) from `Accounted`, which adds
  to them that a window begins at most `MaxLate` late and that a running worker has a
  weight that was let through (`Bounded`), and that a hold of this window is bounded by
  the interval, with the lateness of its window on record, and a hold of an earlier one
  by that record (`HeldWithinWindow`). The record is what carries the bound over a
  sample: without it nothing bounds a hold once the next window has begun.
- `WindowsStayApart` (`WindowsKeptApart`) from `TableSound`, which is `Accounted` with
  `Listed`: an entry of the account is of a worker that has a positive weight, and the
  entries add up to no more than `windowFuel`.
- `OneFairSplit` (`SplitIsFair`). The loop of `weighted_fair_allowance` and the sums it
  works with are recursions over sets of workers. What they compute is proved without
  an induction rule that takes an operator: if it failed for some set, it would fail
  for a smallest one (`SmallestSubset`, from the well-foundedness of strict inclusion),
  and one step of the recursion contradicts that. The invariant of the loop is `Served`:
  the workers removed so far used no more than the capacity, and none of them more than
  its weight would get now of what they left. When no more can be removed the split is
  fair (`ServedIsFair`), and two fair splits are the same (`FairWithin`), so the order of
  the hash map does not matter.
- `HeldForExcessOnly` (`OnlyExcessIsHeld`, an action property): a worker outside its share
  in the fair split has used more than its part of the whole capacity, and so have all
  together (`ExcessOverAll`).

`RemoteVfsProofs`, from `VfsAssumption` (paths are sequences of components closed under
parent, contents are not the 0 of what is no file), for every tree of paths, any
contents and permissions. The lemmas on paths (`ParentAndName`, `UnderParent`,
`MovedBack`, `MovedParent`) say that parent and name make a path, and that moving a
subtree keeps names, takes parents along and can be undone. `OutcomeProper` sums up the
host: but for a rename the host does not have, an outcome changes nothing, or asks for an
invalidation and changes what is under the paths it names; `AnswerStays` says that such a change leaves every answer alone that
`invalidate` would leave in the cache.

- `VfsTyped`: `TypeOK`, inductive with `OutcomeProper`.
- `FreshFindings` and `FreshAnswers` (`FreshWhileCurrent`), for any number of tasks and
  with changes by the application, errors cached or not. `Fresh` is stronger than the
  property: it begins with the stat the handler asks for (`Holds`), from which an error
  may follow (`FreshError`), and what is pending (`Pending`) is an invalidation that has
  not moved the generation yet, since once it has, nobody's generation is current.
  `Orderly` is the hypothesis: executions end in the middle of reads only, and the host
  has a rename where guests rename. Each is needed (see above). What the host did not
  find out, because the request brought a stat along, is left out; it may be stale
  (`vfs_stale_hint`).
- `CacheAgrees` (`Coherent`) and `FreshAlone` (`NothingStaleInserted`), for `Orderly` and
  `Alone`: one task, and no change behind the cache; errors may be cached. `Told` says that what the task took from
  the cache, what the host's stat gave it and what it is about to insert is what the host
  says now; with a stat that is so, `ReadOutcomes` gives the host's own answer, errors
  included (`ReadTold`). `Moving` says that what a rename is about to move in the cache is
  what the host already says of the new place: file, directory and listing move with
  their names (`RenamedAnswer`).

Only model-checked is liveness, which needs fairness and ENABLED: `ControlResolves`,
`HealthAnswered`, `CallsResolve`, `RequestsResolve`, `GuestCallsEnd`, `TrafficFlows`,
`NobodyStuck`. Every invariant and every action property of the passing runs is a
theorem, five of them under a hypothesis: `DaemonWorkerClosed`, `WorkerBudget`,
`FreshWhileCurrent`, `Coherent` and `NothingStaleInserted`. Each hypothesis holds in the run that checks the
property, and each property fails without it.

## Not modelled

- Frame encoding and sizes, conversion of arguments and results: pure functions on
  bytes.
- Process start-up, loading of components and packages, build scripts, compilation of
  the standard library: file and process I/O.
- The memory limiter: Wasmtime asks it synchronously, and its flag is one more of the
  guest's outcomes in `Sandboxd` (`"limit"`).
- Rounding of shares: the code compares floats where `CpuShare` compares exact
  products, so nothing is said of a use that differs from the share by a rounding
  error.
- The timers of the guest's event loop (`_pysandbox_asyncio.py`) and the offsets of
  appends to files.
- Cancellation of `close()` and `reopen()` while they await the subprocess, and use of
  one runtime from several threads.
- Package resolution and installation (`packages.py`), the demo and the vendored
  eryx-vfs.

## Plan

`packages.py`: the cache of installed layers with its locks and leases.
