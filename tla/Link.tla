-------------------------------- MODULE Link --------------------------------
(***************************************************************************)
(* Guest output and the connection that carries it.  Output (in            *)
(* component_worker.rs) counts and limits what a guest writes; a task per  *)
(* execution forwards it into the daemon's bounded `outgoing` channel, a   *)
(* writer task empties that into the socket; on the other side a reader    *)
(* task fills the bounded `incoming` channel of the supervisor's           *)
(* connection actor.  The actor also writes requests to the socket and     *)
(* does nothing else while it does; the daemon's loop sends each answer    *)
(* before it reads the next frame.                                         *)
(*                                                                         *)
(* One worker; its executions 1..MaxExecs follow each other.  A frame that *)
(* fills the socket's buffer stands for the bytes of any number of frames. *)
(***************************************************************************)
EXTENDS Naturals, Sequences, FiniteSets, SequencesExt

CONSTANTS
  Requests,     \* control requests the application makes
  LimitOf,      \* the max_output_bytes a request sets, NoLimit: a health check
  NoLimit,
  StartLimit,   \* max_output_bytes of an execution
  Writes,       \* what a guest may write: records of a source and a size
  Requested, Incoming, Outgoing,   \* capacities of the three channels
  SocketDown, SocketUp,            \* capacities of the socket, by direction
  MaxExecs,     \* bound: executions
  MaxWrites     \* bound: writes of an execution

ASSUME LinkAssumption ==
  /\ NoLimit \notin Nat /\ LimitOf \in [Requests -> Nat \cup {NoLimit}]
  /\ Requests \cap Nat = {}
  /\ StartLimit \in Nat
  /\ \A w \in Writes : w.size \in Nat \ {0} /\ w.source \in {"Stdout", "Stderr"}
  /\ {Requested, Incoming, Outgoing, SocketDown, SocketUp} \subseteq Nat \ {0}
  /\ MaxExecs \in Nat /\ MaxWrites \in Nat

Execs == 1..MaxExecs

VARIABLES
  state,      \* of each request and execution, as its caller knows it
  ready,      \* executions whose ExecuteStarted was received
  shown,      \* SharedOutput of each execution
  requests,   \* channel to the connection actor
  writing,    \* the frame the actor is writing, or none
  down, up,   \* the socket
  incoming,   \* channel from the reader task
  answer,     \* the frame the daemon's loop is sending, or none
  outgoing,   \* channel to the writer task
  commands,   \* the worker's command queue
  exec,       \* the execution the worker runs, 0: none
  guest,      \* where execute() is
  reason,     \* how the guest's run ended
  size, maxBytes, limitExceeded,   \* OutputState
  events,     \* channel from Output to the forwarding task
  produced,   \* OutputState.events, of each execution
  limited,    \* history: executions that asked for room their limit did not leave
  told        \* history: executions that got the error of a refused write and went on

hostVars   == <<state, ready, shown>>
socketVars == <<down, up>>
daemonVars == <<answer, outgoing, commands>>
outputVars == <<size, maxBytes, limitExceeded, events, produced, limited, told>>
workVars   == <<exec, guest, reason>>
vars == <<hostVars, requests, writing, socketVars, incoming, daemonVars, workVars, outputVars>>

None == <<>>
Frame(kind, id, body) == <<kind, id, body>>
Kind(f) == f[1]
Ident(f) == f[2]
Body(f) == f[3]

DownFrames == {Frame("Execute", e, "none") : e \in Execs}
              \cup {Frame("Control", r, "none") : r \in Requests}
\* "completed": the guest's run returned, also with an error of its own.
Reasons == {"completed", "output_limit", "other"}
UpFrames == {Frame("Output", e, w) : e \in Execs, w \in Writes}
            \cup {Frame("ExecuteStarted", e, "none") : e \in Execs}
            \cup {Frame("ExecuteResult", e, x) : e \in Execs, x \in Reasons}
            \cup {Frame("ControlResult", r, x) : r \in Requests, x \in {"ok", "error"}}

\* A send into a bounded channel, or a write to the socket, that does not wait.
Room(channel, capacity) == Len(channel) < capacity

TypeOK ==
  /\ state \in [Requests \cup Execs -> {"idle", "asked", "ok", "error"} \cup Reasons]
  /\ ready \subseteq Execs /\ shown \in [Execs -> Seq(Writes)]
  /\ requests \in Seq(DownFrames) /\ Len(requests) <= Requested
  /\ writing \in DownFrames \cup {None} /\ answer \in UpFrames \cup {None}
  /\ down \in Seq(DownFrames) /\ Len(down) <= SocketDown
  /\ up \in Seq(UpFrames) /\ Len(up) <= SocketUp
  /\ incoming \in Seq(UpFrames) /\ Len(incoming) <= Incoming
  /\ outgoing \in Seq(UpFrames) /\ Len(outgoing) <= Outgoing
  /\ commands \in Seq(Execs)
  /\ exec \in Execs \cup {0}
  /\ guest \in {"idle", "starting", "running", "joining", "result"}
  /\ reason \in Reasons \cup {"none"}
  /\ size \in Nat /\ maxBytes \in Nat /\ limitExceeded \in BOOLEAN
  /\ events \in Seq(UpFrames) /\ produced \in [Execs -> Seq(Writes)]
  /\ limited \subseteq Execs /\ told \subseteq Execs

Init ==
  /\ state = [x \in Requests \cup Execs |-> "idle"]
  /\ ready = {} /\ shown = [e \in Execs |-> <<>>]
  /\ requests = <<>> /\ writing = None /\ answer = None
  /\ down = <<>> /\ up = <<>> /\ incoming = <<>> /\ outgoing = <<>> /\ commands = <<>>
  /\ exec = 0 /\ guest = "idle" /\ reason = "none"
  /\ size = 0 /\ maxBytes = StartLimit /\ limitExceeded = FALSE
  /\ events = <<>> /\ produced = [e \in Execs |-> <<>>] /\ limited = {} /\ told = {}

-----------------------------------------------------------------------------
(* The supervisor. *)

\* request(): a send into the bounded channel to the actor.
Ask(x, f) ==
  /\ state[x] = "idle" /\ Room(requests, Requested)
  /\ state' = [state EXCEPT ![x] = "asked"]
  /\ requests' = Append(requests, f)
  /\ UNCHANGED <<ready, shown, writing, socketVars, incoming, daemonVars, workVars, outputVars>>

Run(e) ==
  /\ e > 1 => state[e - 1] # "idle"
  /\ Ask(e, Frame("Execute", e, "none"))

\* A limit update waits until an execution is ready; a health check does not.
Control(r) ==
  /\ LimitOf[r] # NoLimit => ready # {}
  /\ Ask(r, Frame("Control", r, "none"))

\* The actor takes a request and is then inside write_frame.
ActorTakes ==
  /\ writing = None /\ requests # <<>>
  /\ writing' = Head(requests) /\ requests' = Tail(requests)
  /\ UNCHANGED <<hostVars, socketVars, incoming, daemonVars, workVars, outputVars>>

ActorWrites ==
  /\ writing # None /\ Room(down, SocketDown)
  /\ down' = Append(down, writing) /\ writing' = None
  /\ UNCHANGED <<hostVars, requests, up, incoming, daemonVars, workVars, outputVars>>

Reader ==
  /\ up # <<>> /\ Room(incoming, Incoming)
  /\ incoming' = Append(incoming, Head(up)) /\ up' = Tail(up)
  /\ UNCHANGED <<hostVars, requests, writing, down, daemonVars, workVars, outputVars>>

\* The actor takes a frame, unless it is writing.
ActorReceives ==
  /\ writing = None /\ incoming # <<>>
  /\ incoming' = Tail(incoming)
  /\ LET f == Head(incoming)
     IN /\ shown' = IF Kind(f) = "Output" /\ state[Ident(f)] = "asked"
                      THEN [shown EXCEPT ![Ident(f)] = Append(@, Body(f))] ELSE shown
        /\ ready' = IF Kind(f) = "ExecuteStarted" THEN ready \cup {Ident(f)} ELSE ready
        /\ state' = IF Kind(f) \in {"ExecuteResult", "ControlResult"}
                      THEN [state EXCEPT ![Ident(f)] = Body(f)] ELSE state
  /\ UNCHANGED <<requests, writing, socketVars, daemonVars, workVars, outputVars>>

-----------------------------------------------------------------------------
(* The daemon's loop and writer. *)

Writer ==
  /\ outgoing # <<>> /\ Room(up, SocketUp)
  /\ up' = Append(up, Head(outgoing)) /\ outgoing' = Tail(outgoing)
  /\ UNCHANGED <<hostVars, requests, writing, down, incoming, answer, commands, workVars,
                 outputVars>>

LoopExecute ==
  /\ answer = None /\ down # <<>> /\ Kind(Head(down)) = "Execute"
  /\ down' = Tail(down)
  /\ commands' = Append(commands, Ident(Head(down)))
  /\ UNCHANGED <<hostVars, requests, writing, up, incoming, answer, outgoing, workVars, outputVars>>

\* Mutant of SetLimit: a limit below what was already written is taken.
SetLimitAnyway(limit) ==
  /\ maxBytes' = limit
  /\ answer' = Frame("ControlResult", Ident(Head(down)), "ok")

\* Output::set_limit, refused below the size already written.
SetLimit(limit) ==
  LET r == Ident(Head(down))
  IN \/ /\ size <= limit
        /\ maxBytes' = limit
        /\ answer' = Frame("ControlResult", r, "ok")
     \/ /\ size > limit
        /\ answer' = Frame("ControlResult", r, "error")
        /\ UNCHANGED maxBytes

\* ensure_active: an execution is active from apply_limits to the end of its run.
LoopControl ==
  /\ answer = None /\ down # <<>> /\ Kind(Head(down)) = "Control"
  /\ LET r == Ident(Head(down))
     IN \/ LimitOf[r] # NoLimit /\ guest \in {"starting", "running"} /\ SetLimit(LimitOf[r])
        \/ /\ LimitOf[r] # NoLimit /\ guest \notin {"starting", "running"}
           /\ answer' = Frame("ControlResult", r, "error")
           /\ UNCHANGED maxBytes
        \/ /\ LimitOf[r] = NoLimit
           /\ answer' = Frame("ControlResult", r, "ok")
           /\ UNCHANGED maxBytes
  /\ down' = Tail(down)
  /\ UNCHANGED <<hostVars, requests, writing, up, incoming, outgoing, commands, workVars,
                 size, limitExceeded, events, produced, limited, told>>

\* outgoing.send(...).await in the loop.
LoopAnswers ==
  /\ answer # None /\ Room(outgoing, Outgoing)
  /\ outgoing' = Append(outgoing, answer) /\ answer' = None
  /\ UNCHANGED <<hostVars, requests, writing, socketVars, incoming, commands, workVars, outputVars>>

-----------------------------------------------------------------------------
(* The worker: execute() and its output. *)

\* Mutant of ResetOutput: the flag of the last execution stays.
ResetOutputKeepingFlag ==
  size' = 0 /\ maxBytes' = StartLimit /\ UNCHANGED limitExceeded

\* Output::begin.
ResetOutput == size' = 0 /\ maxBytes' = StartLimit /\ limitExceeded' = FALSE

Begin ==
  /\ guest = "idle" /\ commands # <<>>
  /\ exec' = Head(commands) /\ commands' = Tail(commands)
  /\ guest' = "starting" /\ reason' = "none"
  /\ ResetOutput
  /\ UNCHANGED <<hostVars, requests, writing, socketVars, incoming, answer, outgoing, events,
                 produced, limited, told>>

\* The `started` future: the guest runs once ExecuteStarted is in the channel.
Started ==
  /\ guest = "starting" /\ Room(outgoing, Outgoing)
  /\ outgoing' = Append(outgoing, Frame("ExecuteStarted", exec, "none"))
  /\ guest' = "running"
  /\ UNCHANGED <<hostVars, requests, writing, socketVars, incoming, answer, commands, exec,
                 reason, outputVars>>

\* data.len() <= max_bytes.saturating_sub(size).
Fits(w) == size + w.size <= maxBytes

\* Output::write: counted, kept and handed to the forwarding task, or refused.  The
\* p2 stream traps the guest, the AsyncWrite one raises an error it may survive.
Write(w) ==
  /\ guest = "running" /\ Len(produced[exec]) < MaxWrites
  /\ \/ /\ Fits(w)
        /\ size' = size + w.size
        /\ events' = Append(events, Frame("Output", exec, w))
        /\ produced' = [produced EXCEPT ![exec] = Append(@, w)]
        /\ UNCHANGED <<limitExceeded, limited, told, guest>>
     \/ /\ ~Fits(w)
        /\ limitExceeded' = TRUE /\ limited' = limited \cup {exec}
        /\ guest' \in {"running", "joining"}
        /\ told' = IF guest' = "running" THEN told \cup {exec} ELSE told
        /\ UNCHANGED <<size, events, produced>>
  /\ reason' = IF guest' = "joining" THEN "output_limit" ELSE reason
  /\ UNCHANGED <<hostVars, requests, writing, socketVars, incoming, daemonVars, exec, maxBytes>>

\* check_write, before a write of the p2 stream and after the last one: writable_bytes
\* with no room left traps the guest, whatever it meant to write.  With room it only
\* says how much, and the guest splits what it writes: the parts are writes too.
CheckWrite ==
  /\ guest = "running" /\ size >= maxBytes
  /\ limitExceeded' = TRUE /\ limited' = limited \cup {exec}
  /\ guest' = "joining" /\ reason' = "output_limit"
  /\ UNCHANGED <<hostVars, requests, writing, socketVars, incoming, daemonVars, exec, size,
                 maxBytes, events, produced, told>>

\* The run returns, completed or a guest error whatever the flag says, or fails for a
\* reason of its own; execute() asks for the output limit before any other reason.
RunEnds ==
  /\ guest = "running"
  /\ guest' = "joining"
  /\ reason' \in {"completed", IF limitExceeded THEN "output_limit" ELSE "other"}
  /\ UNCHANGED <<hostVars, requests, writing, socketVars, incoming, daemonVars, exec, outputVars>>

\* Mutant of Forward: output does not wait for room in the channel.
ForwardAnyway ==
  /\ events # <<>>
  /\ outgoing' = Append(outgoing, Head(events))
  /\ events' = Tail(events)
  /\ UNCHANGED <<hostVars, requests, writing, socketVars, incoming, answer, commands, workVars,
                 size, maxBytes, limitExceeded, produced, limited, told>>

\* The forwarding task.
Forward ==
  /\ events # <<>> /\ Room(outgoing, Outgoing)
  /\ outgoing' = Append(outgoing, Head(events))
  /\ events' = Tail(events)
  /\ UNCHANGED <<hostVars, requests, writing, socketVars, incoming, answer, commands, workVars,
                 size, maxBytes, limitExceeded, produced, limited, told>>

\* Mutants of Joined: the task is not waited for; the sender is never dropped.
JoinedAtOnce == TRUE
JoinedNever == FALSE

\* output_task.await: finish() dropped the sender, the task ends when it has
\* forwarded everything.
Joined == events = <<>>

Join ==
  /\ guest = "joining" /\ Joined
  /\ guest' = "result"
  /\ UNCHANGED <<hostVars, requests, writing, socketVars, incoming, daemonVars, exec, reason,
                 outputVars>>

SendResult ==
  /\ guest = "result" /\ Room(outgoing, Outgoing)
  /\ outgoing' = Append(outgoing, Frame("ExecuteResult", exec, reason))
  /\ guest' = "idle" /\ exec' = 0 /\ reason' = "none"
  /\ UNCHANGED <<hostVars, requests, writing, socketVars, incoming, answer, commands, outputVars>>

-----------------------------------------------------------------------------

Actor == ActorTakes \/ ActorWrites \/ ActorReceives
Loop == LoopExecute \/ LoopControl \/ LoopAnswers
Worker == Begin \/ Started \/ RunEnds \/ Join \/ SendResult

Next ==
  \/ \E e \in Execs : Run(e)
  \/ \E r \in Requests : Control(r)
  \/ Actor \/ Reader \/ Writer \/ Loop \/ Worker \/ Forward
  \/ CheckWrite \/ \E w \in Writes : Write(w)

Spec == Init /\ [][Next]_vars

\* Every task that can go on does; `select!` in the actor chooses at random among
\* ready branches, so neither is passed over for ever.  Guests end.
Fairness ==
  /\ WF_vars(ActorTakes) /\ WF_vars(ActorReceives) /\ WF_vars(ActorWrites)
  /\ WF_vars(Reader) /\ WF_vars(Writer) /\ WF_vars(Loop) /\ WF_vars(Worker) /\ WF_vars(Forward)

FairSpec == Spec /\ Fairness

-----------------------------------------------------------------------------
(* Properties. *)

\* What an execution has written never exceeds the combined limit in force, also
\* when set_limits moves it between two writes.
OutputWithinLimit == guest = "running" => size <= maxBytes

\* The application sees the guest's output in order and, once it has the result,
\* all of it: no frame of an execution follows its result.
OutputInOrder ==
  \A e \in Execs :
    /\ IsPrefix(shown[e], produced[e])
    /\ state[e] \in Reasons => shown[e] = produced[e]

\* An execution that is reported as stopped by the output limit itself asked for room
\* the limit in force did not leave, by a write or by the readiness check: never what an
\* earlier execution wrote.  One that did so is reported in this way, unless it got the
\* error of a refused write, went on and returned: that run ends as completed, although
\* DOCS.md says "A limit violation terminates the execution with
\* `TerminationReason.OUTPUT_LIMIT`".
LimitIsItsOwn ==
  \A e \in Execs : state[e] \in Reasons =>
    /\ state[e] = "output_limit" => e \in limited
    /\ e \in limited => state[e] = "output_limit" \/ (state[e] = "completed" /\ e \in told)

\* Everything the application asked for is answered.
TrafficFlows == []<>(\A x \in Requests \cup Execs : state[x] # "asked")
=============================================================================
