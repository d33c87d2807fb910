----------------------------- MODULE Supervisor -----------------------------
(***************************************************************************)
(* The application's side of the connection (pysandbox-native lib.rs): the *)
(* connection actor with its map of pending requests, and the dispatchers  *)
(* that admit guest calls and VFS requests to the application's handlers   *)
(* under a per-worker and a sandbox-wide semaphore.                        *)
(*                                                                         *)
(* The daemon is the abstraction of server.rs that the actor can see:      *)
(* executions of a worker run one at a time in the order they were sent, a *)
(* request is answered at most once, and frames keep their order.          *)
(***************************************************************************)
EXTENDS Naturals, Sequences, FiniteSets

CONSTANTS
  Workers, Execs, Calls,  \* workers; executions; worker calls (host to guest)
  GuestCalls,             \* guest calls and VFS requests (guest to host)
  Owner,                  \* the worker of an execution
  ExecOf,                 \* the execution of a worker call or a guest call
  None,
  GuestConcurrency, GuestQueue,  \* limits of an execution's guest dispatch
  HostConcurrency, HostQueue,    \* host_dispatch_concurrency, _queue_capacity
  RequestsCapacity,              \* capacity of the `requests` channel
  Crashes                        \* whether the daemon may die

Requests == Execs \cup Calls \cup Workers

ASSUME SupervisorAssumption ==
  /\ Workers \cap (Execs \cup Calls \cup GuestCalls) = {}
  /\ Execs \cap (Calls \cup GuestCalls) = {} /\ Calls \cap GuestCalls = {}
  /\ Owner \in [Execs -> Workers] /\ ExecOf \in [Calls \cup GuestCalls -> Execs]
  /\ None \notin Requests \cup GuestCalls
  /\ {GuestConcurrency, GuestQueue, HostConcurrency, HostQueue, RequestsCapacity}
       \subseteq Nat \ {0}
  /\ Crashes \in BOOLEAN

VARIABLES
  state,      \* of each request: what its caller has seen
  ready,      \* ready channel of an execution
  requests,   \* ConnectionRequest channel
  up,         \* the connection actor runs (its end sets closed and shutdown)
  pending,    \* requests that expect an answer
  limits,     \* guest_dispatch_limits: workers with an entry
  dispatcher, \* guest_dispatchers of a worker; a dispatcher is known by the
              \* guest call it was spawned for
  guestTask,  \* a guest dispatcher's step
  permits,    \* free permits of its semaphore
  queue,      \* its channel
  via,        \* the dispatcher a guest call was given to
  hostTask, hostPermits, hostQueue,  \* the same of the host dispatcher
  place,      \* where a guest call is
  toDaemon, toSup,                   \* the socket
  lost,       \* the connection is broken
  open, waiting, running, inside     \* the daemon: worker entries, queued and
                                     \* running executions, calls it holds

requestVars == <<state, ready, requests, up, pending>>
guestVars == <<dispatcher, guestTask, permits, queue, via>>
hostVars == <<hostTask, hostPermits, hostQueue>>
socketVars == <<toDaemon, toSup, lost>>
daemonVars == <<open, waiting, running, inside>>
vars == <<requestVars, limits, guestVars, hostVars, place, socketVars, daemonVars>>

Message(kind, id) == [kind |-> kind, id |-> id]
WorkerOf(r) == IF r \in Workers THEN r
               ELSE IF r \in Execs THEN Owner[r] ELSE Owner[ExecOf[r]]

DownMessages == {Message("Execute", e) : e \in Execs} \cup {Message("WorkerCall", k) : k \in Calls}
                \cup {Message("CloseWorker", w) : w \in Workers}
                \cup {Message("Response", c) : c \in GuestCalls}
UpMessages == {Message(x, e) : x \in {"Started", "Result"}, e \in Execs}
              \cup {Message("GuestCall", c) : c \in GuestCalls}
              \cup {Message("WorkerResponse", k) : k \in Calls}
              \cup {Message(x, w) : x \in {"Closed", "NotClosed"}, w \in Workers}
Resolved == {"answered", "failed", "stopped"}
\* With its guest, on the socket, in its worker's queue; refused for a full host
\* queue, its refusal in the channel, written; in the host queue, in a handler,
\* its answer in the channel, written; and off the dispatchers' hands.
Places == {"guest", "wire", "queued", "refused", "refusing", "rejected",
           "host", "handler", "replying", "sent", "done"}

TypeOK ==
  /\ state \in [Requests -> {"idle", "asked"} \cup Resolved]
  /\ ready \in [Execs -> BOOLEAN]
  /\ requests \in Seq(DownMessages)
  /\ up \in BOOLEAN /\ pending \subseteq Requests /\ limits \subseteq Workers
  /\ dispatcher \in [Workers -> GuestCalls \cup {None}]
  /\ guestTask \in [GuestCalls -> {"none", "acquire", "recv", "refuse", "ended"}]
  /\ permits \in [GuestCalls -> 0..GuestConcurrency]
  /\ queue \in [GuestCalls -> Seq(GuestCalls)]
  /\ via \in [GuestCalls -> GuestCalls \cup {None}]
  /\ hostTask \in {"acquire", "recv"} /\ hostPermits \in 0..HostConcurrency
  /\ hostQueue \in Seq(GuestCalls)
  /\ place \in [GuestCalls -> Places]
  /\ toDaemon \in Seq(DownMessages)
  /\ toSup \in Seq(UpMessages)
  /\ lost \in BOOLEAN
  /\ open \subseteq Workers /\ waiting \in [Workers -> Seq(Execs)]
  /\ running \in [Workers -> Execs \cup {None}] /\ inside \subseteq Calls

Init ==
  /\ state = [r \in Requests |-> "idle"]
  /\ ready = [e \in Execs |-> FALSE]
  /\ requests = <<>> /\ up = TRUE /\ pending = {} /\ limits = {}
  /\ dispatcher = [w \in Workers |-> None]
  /\ guestTask = [d \in GuestCalls |-> "none"]
  /\ permits = [d \in GuestCalls |-> GuestConcurrency]
  /\ queue = [d \in GuestCalls |-> <<>>] /\ via = [c \in GuestCalls |-> None]
  /\ hostTask = "acquire" /\ hostPermits = HostConcurrency /\ hostQueue = <<>>
  /\ place = [c \in GuestCalls |-> "guest"]
  /\ toDaemon = <<>> /\ toSup = <<>> /\ lost = FALSE
  /\ open = {} /\ waiting = [w \in Workers |-> <<>>]
  /\ running = [w \in Workers |-> None] /\ inside = {}

-----------------------------------------------------------------------------
(* Callers. *)

\* request_with_output_and_ready: into the channel, or an error when the actor
\* has dropped its end.
Ask(kind, r) ==
  /\ state[r] = "idle"
  /\ \/ /\ up /\ Len(requests) < RequestsCapacity
        /\ requests' = Append(requests, Message(kind, r))
        /\ state' = [state EXCEPT ![r] = "asked"]
     \/ ~up /\ state' = [state EXCEPT ![r] = "failed"] /\ UNCHANGED requests
  /\ UNCHANGED <<ready, up, pending, limits, guestVars, hostVars, place, socketVars,
                 daemonVars>>

\* SandboxProcess.run.  A closed worker's id is not used again.
Run(e) == state[Owner[e]] = "idle" /\ Ask("Execute", e)

\* NativeExecution.call once the execution is ready.
Call(k) == ready[ExecOf[k]] /\ Ask("WorkerCall", k)

\* wait_until_execution_ready: the execution or the sandbox stops first.
CallTooEarly(k) ==
  /\ state[k] = "idle" /\ ~ready[ExecOf[k]]
  /\ state[ExecOf[k]] \in Resolved \/ ~up
  /\ state' = [state EXCEPT ![k] = "failed"]
  /\ UNCHANGED <<ready, requests, up, pending, limits, guestVars, hostVars, place,
                 socketVars, daemonVars>>

\* Worker._execute closes in its finally: with the result in, or cancelled while it
\* awaits the result, the execution queued or running.
CloseWorker(w) ==
  /\ \E e \in Execs : Owner[e] = w /\ state[e] # "idle"
  /\ Ask("CloseWorker", w)

-----------------------------------------------------------------------------
(* The connection actor. *)

\* The actor's future ends: the pending requests fail, and so do those in the
\* channel, whose response senders are dropped with it.
StopActor ==
  /\ up' = FALSE /\ pending' = {} /\ requests' = <<>>
  /\ state' = [r \in Requests |-> IF state[r] = "asked" THEN "failed" ELSE state[r]]

\* guest_dispatch_limits once request m is taken.
Registered(m) == IF m.kind = "Execute" THEN limits \cup {Owner[m.id]} ELSE limits

\* A request is written to the socket; it is registered first.
TakeRequest ==
  /\ up /\ requests # <<>>
  /\ LET m == Head(requests)
     IN /\ limits' = Registered(m)
        /\ \/ /\ lost
              /\ StopActor
              /\ UNCHANGED <<place, toDaemon>>
           \/ /\ ~lost
              /\ requests' = Tail(requests)
              /\ toDaemon' = Append(toDaemon, m)
              /\ pending' = IF m.kind = "Response" THEN pending ELSE pending \cup {m.id}
              /\ place' = IF m.kind = "Response" THEN
                         [place EXCEPT ![m.id] = IF @ = "refusing" THEN "rejected" ELSE "sent"]
                       ELSE place
              /\ UNCHANGED <<state, up>>
  /\ UNCHANGED <<ready, guestVars, hostVars, toSup, lost, daemonVars>>

Incoming(kinds) == up /\ toSup # <<>> /\ Head(toSup).kind \in kinds

TakeStarted ==
  /\ Incoming({"Started"})
  /\ toSup' = Tail(toSup)
  /\ ready' = [ready EXCEPT ![Head(toSup).id] = @ \/ Head(toSup).id \in pending]
  /\ UNCHANGED <<state, requests, up, pending, limits, guestVars, hostVars, place,
                 toDaemon, lost, daemonVars>>

\* Mutant of Overload: the call is kept as well.
OverloadKept(c, d) ==
  /\ toDaemon' = Append(toDaemon, Message("Response", c))
  /\ place' = [place EXCEPT ![c] = "queued"]
  /\ queue' = [queue EXCEPT ![d] = Append(@, c)]
  /\ via' = [via EXCEPT ![c] = d]
  /\ UNCHANGED <<state, requests, up, pending>>

\* host_dispatch_error_response, written by the actor itself; an error of the
\* write ends the actor.
Overload(c, d) ==
  /\ IF lost THEN StopActor /\ UNCHANGED toDaemon
     ELSE /\ toDaemon' = Append(toDaemon, Message("Response", c))
          /\ UNCHANGED <<state, requests, up, pending>>
  /\ place' = [place EXCEPT ![c] = "done"]
  /\ UNCHANGED <<queue, via>>

\* GuestCall and VfsRequest: find or spawn the worker's dispatcher, try_send.
TakeGuestCall ==
  /\ Incoming({"GuestCall"})
  /\ toSup' = Tail(toSup)
  /\ LET c == Head(toSup).id
         w == WorkerOf(c)
         d == IF dispatcher[w] = None THEN c ELSE dispatcher[w]
     IN \/ /\ w \notin limits
           /\ Overload(c, d)
           /\ UNCHANGED <<dispatcher, guestTask>>
        \/ /\ w \in limits
           /\ dispatcher' = [dispatcher EXCEPT ![w] = d]
           /\ guestTask' = [guestTask EXCEPT ![d] = IF d = c THEN "acquire" ELSE @]
           /\ \/ /\ Len(queue[d]) < GuestQueue
                 /\ queue' = [queue EXCEPT ![d] = Append(@, c)]
                 /\ via' = [via EXCEPT ![c] = d]
                 /\ place' = [place EXCEPT ![c] = "queued"]
                 /\ UNCHANGED <<toDaemon, state, requests, up, pending>>
              \/ Len(queue[d]) >= GuestQueue /\ Overload(c, d)
  /\ UNCHANGED <<ready, limits, permits, hostVars, lost, daemonVars>>

\* Mutant of StoppedCalls: nobody is told.
NoStoppedCalls(w) == {}

\* fail_pending_worker_calls: the calls of a worker that is gone.
StoppedCalls(w) == {k \in Calls \cap pending : WorkerOf(k) = w}

\* Drop the worker's dispatcher and limits, fail its calls.
ForgetWorker(w) ==
  /\ dispatcher' = [dispatcher EXCEPT ![w] = None]
  /\ limits' = limits \ {w}

\* An answer reaches the request it belongs to, if somebody still waits.
Deliver(r, outcome, stopped) ==
  /\ pending' = pending \ ({r} \cup stopped)
  /\ state' = [q \in Requests |->
       IF q \in stopped THEN "stopped"
       ELSE IF q = r /\ r \in pending THEN outcome ELSE state[q]]

\* ExecuteResult ends the worker's calls with it.
TakeResult ==
  /\ Incoming({"Result"})
  /\ toSup' = Tail(toSup)
  /\ LET e == Head(toSup).id
     IN ForgetWorker(Owner[e]) /\ Deliver(e, "answered", StoppedCalls(Owner[e]))
  /\ UNCHANGED <<ready, requests, up, guestTask, permits, queue, via, hostVars, place, toDaemon,
                 lost, daemonVars>>

\* ControlResult of a CloseWorker: only a successful close forgets the worker.
TakeClosed ==
  /\ Incoming({"Closed"})
  /\ toSup' = Tail(toSup)
  /\ LET w == Head(toSup).id
     IN ForgetWorker(w) /\ Deliver(w, "answered", StoppedCalls(w))
  /\ UNCHANGED <<ready, requests, up, guestTask, permits, queue, via, hostVars, place, toDaemon,
                 lost, daemonVars>>

TakeAnswer ==
  /\ Incoming({"WorkerResponse", "NotClosed"})
  /\ toSup' = Tail(toSup)
  /\ Deliver(Head(toSup).id, IF Head(toSup).kind = "NotClosed" THEN "failed" ELSE "answered", {})
  /\ UNCHANGED <<ready, requests, up, limits, guestVars, hostVars, place, toDaemon, lost,
                 daemonVars>>

\* The reader's error follows the frames it has read; terminate() does not wait
\* for them, and kills the daemon.
ConnectionEnds ==
  /\ up /\ lost /\ toSup = <<>>
  /\ StopActor
  /\ UNCHANGED <<ready, limits, guestVars, hostVars, place, socketVars, daemonVars>>

\* SandboxProcess.terminate.
Terminate ==
  /\ Crashes /\ up
  /\ StopActor
  /\ lost' = TRUE /\ toDaemon' = <<>>
  /\ UNCHANGED <<ready, limits, guestVars, hostVars, place, toSup, daemonVars>>

-----------------------------------------------------------------------------
(* Dispatchers.  A dispatcher takes a permit first and a call second. *)

\* Mutant of Acquired: the permit is dropped where it is taken.
NotAcquired(d) == permits[d]

\* semaphore.acquire_owned: what is left.
Acquired(d) == permits[d] - 1

\* spawn_guest_dispatcher waits for a permit.
GuestAcquire(d) ==
  /\ guestTask[d] = "acquire" /\ permits[d] > 0
  /\ permits' = [permits EXCEPT ![d] = Acquired(d)]
  /\ guestTask' = [guestTask EXCEPT ![d] = "recv"]
  /\ UNCHANGED <<requestVars, limits, dispatcher, queue, via, hostVars, place, socketVars,
                 daemonVars>>

\* receiver.recv, then host_dispatch.try_send: the permit goes with the call.
GuestRecv(d) ==
  /\ guestTask[d] = "recv" /\ queue[d] # <<>>
  /\ queue' = [queue EXCEPT ![d] = Tail(@)]
  /\ LET c == Head(queue[d])
     IN IF Len(hostQueue) < HostQueue
          THEN /\ hostQueue' = Append(hostQueue, c)
               /\ place' = [place EXCEPT ![c] = "host"]
               /\ guestTask' = [guestTask EXCEPT ![d] = "acquire"]
          ELSE /\ place' = [place EXCEPT ![c] = "refused"]
               /\ guestTask' = [guestTask EXCEPT ![d] = "refuse"]
               /\ UNCHANGED hostQueue
  /\ UNCHANGED <<requestVars, limits, dispatcher, permits, via, hostTask,
                 hostPermits,
                 socketVars, daemonVars>>

\* Send the overload answer through the actor,
GuestRefuse(d, c) ==
  /\ guestTask[d] = "refuse" /\ via[c] = d /\ place[c] = "refused"
  /\ up /\ Len(requests) < RequestsCapacity
  /\ requests' = Append(requests, Message("Response", c))
  /\ place' = [place EXCEPT ![c] = "refusing"]
  /\ UNCHANGED <<state, ready, up, pending, limits, guestVars, hostVars, socketVars, daemonVars>>

\* and go on when it is written, or when the actor is gone.
GuestRefused(d, c) ==
  /\ guestTask[d] = "refuse" /\ via[c] = d
  /\ place[c] = "rejected" \/ (place[c] \in {"refused", "refusing"} /\ ~up)
  /\ place' = [place EXCEPT ![c] = "done"]
  /\ guestTask' = [guestTask EXCEPT ![d] = "acquire"]
  /\ permits' = [permits EXCEPT ![d] = @ + 1]
  /\ UNCHANGED <<requestVars, limits, dispatcher, queue, via, hostVars, socketVars, daemonVars>>

\* Mutant of GuestEnds: what is queued goes with the sender.
GuestEndsAtOnce(d) ==
  /\ guestTask[d] = "recv"
  /\ dispatcher[WorkerOf(d)] # d \/ ~up
  /\ guestTask' = [guestTask EXCEPT ![d] = "ended"]
  /\ permits' = [permits EXCEPT ![d] = @ + 1]
  /\ UNCHANGED <<requestVars, limits, dispatcher, queue, via, hostVars, place, socketVars,
                 daemonVars>>

\* receiver.recv returns None: the sender is dropped and the queue empty.
GuestEnds(d) ==
  /\ guestTask[d] = "recv" /\ queue[d] = <<>>
  /\ dispatcher[WorkerOf(d)] # d \/ ~up
  /\ guestTask' = [guestTask EXCEPT ![d] = "ended"]
  /\ permits' = [permits EXCEPT ![d] = @ + 1]
  /\ UNCHANGED <<requestVars, limits, dispatcher, queue, via, hostVars, place, socketVars,
                 daemonVars>>

\* spawn_host_dispatcher: a permit,
HostAcquire ==
  /\ hostTask = "acquire" /\ hostPermits > 0
  /\ hostPermits' = hostPermits - 1
  /\ hostTask' = "recv"
  /\ UNCHANGED <<requestVars, limits, guestVars, hostQueue, place, socketVars, daemonVars>>

\* then a call, for which a handler task is spawned.
HostRecv ==
  /\ hostTask = "recv" /\ hostQueue # <<>>
  /\ hostQueue' = Tail(hostQueue)
  /\ place' = [place EXCEPT ![Head(hostQueue)] = "handler"]
  /\ hostTask' = "acquire"
  /\ UNCHANGED <<requestVars, limits, guestVars, hostPermits, socketVars, daemonVars>>

\* dispatch_guest_call and dispatch_vfs_request: the application's handler
\* returns or raises, the answer goes to the actor.
HandlerReturns(c) ==
  /\ place[c] = "handler" /\ up /\ Len(requests) < RequestsCapacity
  /\ requests' = Append(requests, Message("Response", c))
  /\ place' = [place EXCEPT ![c] = "replying"]
  /\ UNCHANGED <<state, ready, up, pending, limits, guestVars, hostVars, socketVars, daemonVars>>

\* Mutant of HandlerEnds: the permit of the worker is not given back.
HandlerEndsHolding(c) ==
  /\ place[c] = "sent" \/ (place[c] \in {"handler", "replying"} /\ ~up)
  /\ place' = [place EXCEPT ![c] = "done"]
  /\ hostPermits' = hostPermits + 1
  /\ UNCHANGED <<requestVars, limits, guestVars, hostTask, hostQueue, socketVars, daemonVars>>

\* The task ends once the answer is written: both permits are dropped.
HandlerEnds(c) ==
  /\ place[c] = "sent" \/ (place[c] \in {"handler", "replying"} /\ ~up)
  /\ place' = [place EXCEPT ![c] = "done"]
  /\ hostPermits' = hostPermits + 1
  /\ permits' = [permits EXCEPT ![via[c]] = @ + 1]
  /\ UNCHANGED <<requestVars, limits, dispatcher, guestTask, queue, via, hostTask,
                 hostQueue, socketVars, daemonVars>>

-----------------------------------------------------------------------------
(* The daemon, as the actor sees it. *)

Reply(messages) == toSup' = toSup \o messages

\* serve_connection's loop, one frame.  An Execute behind others, and a worker call,
\* may find its queue full and is answered at once.
DaemonReads ==
  /\ ~lost /\ toDaemon # <<>>
  /\ toDaemon' = Tail(toDaemon)
  /\ LET m == Head(toDaemon)
         w == WorkerOf(m.id)
     IN \/ /\ m.kind = "Execute"
           /\ open' = open \cup {w}
           /\ \/ waiting' = [waiting EXCEPT ![w] = Append(@, m.id)] /\ UNCHANGED toSup
              \/ /\ waiting[w] # <<>>
                 /\ Reply(<<Message("Result", m.id)>>) /\ UNCHANGED waiting
           /\ UNCHANGED inside
        \/ /\ m.kind = "WorkerCall"
           /\ \/ w \in open /\ inside' = inside \cup {m.id} /\ UNCHANGED toSup
              \/ Reply(<<Message("WorkerResponse", m.id)>>) /\ UNCHANGED inside
           /\ UNCHANGED <<open, waiting>>
        \/ /\ m.kind = "CloseWorker"
           /\ open' = open \ {w}
           /\ Reply(<<Message(IF w \in open THEN "Closed" ELSE "NotClosed", w)>>)
           /\ UNCHANGED <<waiting, inside>>
        \/ m.kind = "Response" /\ UNCHANGED <<open, waiting, inside, toSup>>
  /\ UNCHANGED <<requestVars, limits, guestVars, hostVars, place, lost, running>>

\* An execution starts, or its limits or its worker's load are refused.
DaemonStarts(w) ==
  /\ ~lost /\ running[w] = None /\ waiting[w] # <<>>
  /\ waiting' = [waiting EXCEPT ![w] = Tail(@)]
  /\ \/ /\ running' = [running EXCEPT ![w] = Head(waiting[w])]
        /\ Reply(<<Message("Started", Head(waiting[w]))>>)
     \/ Reply(<<Message("Result", Head(waiting[w]))>>) /\ UNCHANGED running
  /\ UNCHANGED <<requestVars, limits, guestVars, hostVars, place, toDaemon, lost, open, inside>>

\* The guest calls the host, or asks its file system.
GuestAsks(c) ==
  /\ ~lost /\ place[c] = "guest" /\ running[WorkerOf(c)] = ExecOf[c]
  /\ place' = [place EXCEPT ![c] = "wire"]
  /\ Reply(<<Message("GuestCall", c)>>)
  /\ UNCHANGED <<requestVars, limits, guestVars, hostVars, toDaemon, lost, daemonVars>>

\* The guest's spin loop answers a worker call.
GuestAnswers(k) ==
  /\ ~lost /\ k \in inside /\ running[WorkerOf(k)] # None
  /\ inside' = inside \ {k}
  /\ Reply(<<Message("WorkerResponse", k)>>)
  /\ UNCHANGED <<requestVars, limits, guestVars, hostVars, place, toDaemon, lost, open,
                 waiting, running>>

\* The execution ends; worker calls it has not answered stay where they are.
DaemonFinishes(w) ==
  /\ ~lost /\ running[w] # None
  /\ running' = [running EXCEPT ![w] = None]
  /\ Reply(<<Message("Result", running[w])>>)
  /\ UNCHANGED <<requestVars, limits, guestVars, hostVars, place, toDaemon, lost, open,
                 waiting, inside>>

\* The subprocess dies; what it had written can still be read.
DaemonDies ==
  /\ Crashes /\ ~lost
  /\ lost' = TRUE /\ toDaemon' = <<>>
  /\ UNCHANGED <<requestVars, limits, guestVars, hostVars, place, toSup, daemonVars>>

-----------------------------------------------------------------------------
Callers ==
  \/ \E e \in Execs : Run(e)
  \/ \E k \in Calls : Call(k) \/ CallTooEarly(k)
  \/ Terminate

Actor ==
  \/ TakeRequest \/ TakeStarted \/ TakeGuestCall \/ TakeResult \/ TakeClosed
  \/ TakeAnswer \/ ConnectionEnds

GuestDispatcher(d) ==
  \/ GuestAcquire(d) \/ GuestRecv(d) \/ GuestEnds(d)
  \/ \E c \in GuestCalls : GuestRefuse(d, c) \/ GuestRefused(d, c)

HostDispatcher == HostAcquire \/ HostRecv
Handler(c) == HandlerReturns(c) \/ HandlerEnds(c)

Daemon ==
  \/ DaemonReads \/ DaemonDies
  \/ \E w \in Workers : DaemonStarts(w) \/ DaemonFinishes(w)
  \/ \E c \in GuestCalls : GuestAsks(c)
  \/ \E k \in Calls : GuestAnswers(k)

Next ==
  \/ Callers \/ Actor \/ HostDispatcher \/ Daemon
  \/ \E w \in Workers : CloseWorker(w)
  \/ \E c \in GuestCalls : GuestDispatcher(c) \/ Handler(c)

Spec == Init /\ [][Next]_vars

\* The caller has the result of every execution of the worker.
ResultsIn(w) == \A e \in Execs : Owner[e] = w => state[e] \in Resolved \cup {"idle"}

\* Tokio polls every runnable task, the application's handlers return, its
\* callers go on once they may, the facade closes a worker whose results are in
\* (nobody need cancel it sooner), and an execution comes to an end.  The guest
\* need not answer a call.
Fairness ==
  /\ WF_vars(Actor) /\ WF_vars(HostDispatcher) /\ WF_vars(DaemonReads)
  /\ \A c \in GuestCalls : WF_vars(GuestDispatcher(c)) /\ WF_vars(Handler(c))
  /\ \A w \in Workers : /\ WF_vars(DaemonStarts(w)) /\ WF_vars(DaemonFinishes(w))
                        /\ WF_vars(ResultsIn(w) /\ CloseWorker(w))

FairSpec == Spec /\ Fairness

-----------------------------------------------------------------------------
(* Properties *)

Holding(d) ==
  {c \in GuestCalls : via[c] = d /\
     place[c] \in {"refused", "refusing", "rejected", "host", "handler", "replying", "sent"}}
Handling == {c \in GuestCalls : place[c] \in {"handler", "replying", "sent"}}

\* No permit leaks and none is given back twice, on any way through the
\* dispatchers: the free permits, the one a dispatcher waits with and those of
\* the calls in flight always add up to the configured concurrency.
PermitsConserved ==
  /\ \A d \in GuestCalls :
       permits[d] + Cardinality(Holding(d)) + (IF guestTask[d] = "recv" THEN 1 ELSE 0)
         = GuestConcurrency
  /\ hostPermits + Cardinality(Handling) + (IF hostTask = "recv" THEN 1 ELSE 0)
       = HostConcurrency

\* A guest call is answered once: at most one response for it is in the channel
\* or on the socket, and none while it is still queued or with its handler.
Occurrences(c, s) == {i \in 1..Len(s) : s[i] = Message("Response", c)}
OneReply ==
  \A c \in GuestCalls :
    LET n == Cardinality(Occurrences(c, requests)) + Cardinality(Occurrences(c, toDaemon))
    IN /\ n <= 1
       /\ place[c] \in {"guest", "wire", "queued", "refused", "host", "handler"} => n = 0

\* DOCS.md: guest dispatch limits "are supplied per execution": while an execution
\* runs and its result is not on the way, the actor knows the limits of its worker
\* and does not turn its calls away, until a close of the worker is answered (the
\* guest that still runs then is being stopped, and its calls are turned away);
\* and, closed or not, "per-worker guest dispatch concurrency and queue capacity
\* prevent one guest from consuming the complete host-dispatch budget".
WorkerBudget ==
  \A w \in Workers :
    /\ up /\ running[w] # None /\ state[w] \in {"idle", "asked"} => w \in limits
    /\ Cardinality({c \in GuestCalls : WorkerOf(c) = w /\ place[c] = "host"} \cup
                   {c \in Handling : WorkerOf(c) = w}) <= GuestConcurrency

\* DOCS.md: "If the shared subprocess exits, pending native requests fail", and
\* "Calls made after the worker stops fail": no caller waits for ever, whatever
\* a result, a close, a late call and the death of the daemon do to each other.
\* A request is made once, so that again and again nobody waits.
RequestsResolve == []<>(\A r \in Requests : state[r] # "asked")

\* Every guest call that reaches the supervisor comes off the dispatchers'
\* hands: answered, refused, or dropped with the connection.
GuestCallsEnd == []<>(\A c \in GuestCalls : place[c] \in {"guest", "wire", "done"})
=============================================================================
