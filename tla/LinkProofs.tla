----------------------------- MODULE LinkProofs -----------------------------
(***************************************************************************)
(* Theorems about Link, for every number of executions, writes and         *)
(* requests and every capacity of the channels and the socket: the limit   *)
(* on the guest's output, the reason an execution is given, and the order  *)
(* and completeness of the output the application sees.                    *)
(***************************************************************************)
EXTENDS Link, QueueFacts

ExecuteFrame(e) == Frame("Execute", e, "none")
OutputOf(e, f) == Kind(f) = "Output" /\ Ident(f) = e
ResultOf(e, f) == Kind(f) = "ExecuteResult" /\ Ident(f) = e

-----------------------------------------------------------------------------
(* Types *)

\* The frames that travel down, by kind, and that no frame is None.
LEMMA DownFrameFields ==
  /\ None \notin DownFrames
  /\ \A f \in DownFrames :
       \/ Kind(f) = "Execute" /\ Ident(f) \in Execs /\ f = ExecuteFrame(Ident(f))
       \/ Kind(f) = "Control" /\ Ident(f) \in Requests
  /\ \A e \in Execs : /\ ExecuteFrame(e) \in DownFrames /\ Kind(ExecuteFrame(e)) = "Execute"
                      /\ Ident(ExecuteFrame(e)) = e
  /\ \A r \in Requests : /\ Frame("Control", r, "none") \in DownFrames
                         /\ Kind(Frame("Control", r, "none")) = "Control"
                         /\ Ident(Frame("Control", r, "none")) = r
  BY DEF DownFrames, None, Frame, Kind, Ident, ExecuteFrame

\* The frames that travel up, by kind.
LEMMA UpFrameFields ==
  /\ None \notin UpFrames
  /\ \A f \in UpFrames :
       \/ Kind(f) = "Output" /\ Ident(f) \in Execs /\ Body(f) \in Writes
       \/ Kind(f) = "ExecuteStarted" /\ Ident(f) \in Execs
       \/ Kind(f) = "ExecuteResult" /\ Ident(f) \in Execs /\ Body(f) \in Reasons
       \/ Kind(f) = "ControlResult" /\ Ident(f) \in Requests /\ Body(f) \in {"ok", "error"}
  BY DEF UpFrames, None, Frame, Kind, Ident, Body

\* The frames the daemon builds.
LEMMA UpFrameConstructors ==
  /\ \A e \in Execs, w \in Writes :
       LET f == Frame("Output", e, w)
       IN f \in UpFrames /\ Kind(f) = "Output" /\ Ident(f) = e /\ Body(f) = w
  /\ \A e \in Execs :
       LET f == Frame("ExecuteStarted", e, "none") IN f \in UpFrames /\ Kind(f) = "ExecuteStarted"
  /\ \A e \in Execs, x \in Reasons :
       LET f == Frame("ExecuteResult", e, x)
       IN f \in UpFrames /\ Kind(f) = "ExecuteResult" /\ Ident(f) = e /\ Body(f) = x
  /\ \A r \in Requests, x \in {"ok", "error"} :
       LET f == Frame("ControlResult", r, x) IN f \in UpFrames /\ Kind(f) = "ControlResult"
  BY DEF UpFrames, Frame, Kind, Ident, Body

\* A channel with room takes one more; one that is read has one less.
LEMMA Channel ==
  ASSUME NEW S, NEW q \in Seq(S), NEW n \in Nat, Len(q) <= n
  PROVE  /\ \A x \in S : Room(q, n) => Append(q, x) \in Seq(S) /\ Len(Append(q, x)) <= n
         /\ q # <<>> => Head(q) \in S /\ Tail(q) \in Seq(S) /\ Len(Tail(q)) <= n
<1>1. ASSUME NEW x \in S, Room(q, n) PROVE Append(q, x) \in Seq(S) /\ Len(Append(q, x)) <= n
  BY <1>1, AppendProperties, LenProperties DEF Room
<1>2. ASSUME q # <<>> PROVE Head(q) \in S /\ Tail(q) \in Seq(S) /\ Len(Tail(q)) <= n
  BY <1>2, HeadTailProperties, LenProperties
<1> QED
  BY <1>1, <1>2

\* What the worker and the daemon's loop are in the middle of.
InHand ==
  /\ exec # 0 <=> guest # "idle"
  /\ guest \in {"joining", "result"} => reason \in Reasons
  /\ answer # None => Kind(answer) = "ControlResult"
  /\ events # <<>> => guest \in {"running", "joining"}
  /\ \A f \in Elems(events) : OutputOf(exec, f)

\* At the start.
LEMMA TypeInit == Init => TypeOK /\ InHand
<1> SUFFICES ASSUME Init PROVE TypeOK /\ InHand
  OBVIOUS
<1>1. {StartLimit, Requested, Incoming, Outgoing, SocketDown, SocketUp} \subseteq Nat
  BY LinkAssumption
<1>2. /\ <<>> \in Seq(Writes) /\ <<>> \in Seq(DownFrames)
      /\ <<>> \in Seq(UpFrames) /\ <<>> \in Seq(Execs)
  BY EmptySeq
<1>3. /\ Len(requests) = 0 /\ Len(down) = 0 /\ Len(up) = 0
      /\ Len(incoming) = 0 /\ Len(outgoing) = 0
  BY EmptySeq DEF Init
<1>4. TypeOK
  <2>1. /\ shown \in [Execs -> Seq(Writes)] /\ produced \in [Execs -> Seq(Writes)]
        /\ state \in [Requests \cup Execs -> {"idle", "asked", "ok", "error"} \cup Reasons]
    BY <1>2 DEF Init
  <2>2. /\ requests \in Seq(DownFrames) /\ down \in Seq(DownFrames) /\ up \in Seq(UpFrames)
        /\ incoming \in Seq(UpFrames) /\ outgoing \in Seq(UpFrames) /\ events \in Seq(UpFrames)
        /\ commands \in Seq(Execs)
    BY <1>2 DEF Init
  <2>3. /\ Len(requests) <= Requested /\ Len(down) <= SocketDown /\ Len(up) <= SocketUp
        /\ Len(incoming) <= Incoming /\ Len(outgoing) <= Outgoing
    BY <1>1, <1>3
  <2>4. size \in Nat /\ maxBytes \in Nat /\ limitExceeded \in BOOLEAN
    BY <1>1 DEF Init
  <2>5. /\ ready \subseteq Execs /\ limited \subseteq Execs /\ told \subseteq Execs /\ exec \in Execs \cup {0}
        /\ writing \in DownFrames \cup {None} /\ answer \in UpFrames \cup {None}
        /\ guest = "idle" /\ reason = "none"
    BY DEF Init
  <2> QED
    BY <2>1, <2>2, <2>3, <2>4, <2>5 DEF TypeOK
<1>5. InHand
  BY EmptyElems DEF Init, InHand
<1> QED
  BY <1>4, <1>5

\* The application and the connection actor keep the types.
LEMMA TypeHost ==
  ASSUME TypeOK, InHand,
         (\E e \in Execs : Run(e)) \/ (\E r \in Requests : Control(r)) \/ Actor \/ Reader
  PROVE  TypeOK' /\ InHand'
<1> USE DEF hostVars, socketVars, daemonVars, outputVars, workVars
<1>0. {Requested, Incoming, Outgoing, SocketDown, SocketUp} \subseteq Nat
  BY LinkAssumption
<1>1. ASSUME NEW x \in Requests \cup Execs, NEW f \in DownFrames, Ask(x, f) PROVE TypeOK' /\ InHand'
  <2>1. requests' \in Seq(DownFrames) /\ Len(requests') <= Requested
    BY <1>0, <1>1, Channel DEF TypeOK, Ask
  <2> QED
    BY <1>1, <2>1 DEF TypeOK, InHand, Ask
<1>2. CASE (\E e \in Execs : Run(e)) \/ (\E r \in Requests : Control(r))
  BY <1>1, <1>2, DownFrameFields DEF Run, Control, ExecuteFrame
<1>3. CASE ActorTakes
  BY <1>0, <1>3, Channel DEF TypeOK, InHand, ActorTakes
<1>4. CASE ActorWrites
  <2>1. down' \in Seq(DownFrames) /\ Len(down') <= SocketDown
    BY <1>0, <1>4, Channel DEF TypeOK, ActorWrites
  <2> QED
    BY <1>4, <2>1 DEF TypeOK, InHand, ActorWrites
<1>5. CASE Reader
  <2>1. /\ up' \in Seq(UpFrames) /\ Len(up') <= SocketUp
        /\ incoming' \in Seq(UpFrames) /\ Len(incoming') <= Incoming
    BY <1>0, <1>5, Channel DEF TypeOK, Reader
  <2> QED
    BY <1>5, <2>1 DEF TypeOK, InHand, Reader
<1>6. CASE ActorReceives
  <2>1. /\ Head(incoming) \in UpFrames
        /\ incoming' \in Seq(UpFrames) /\ Len(incoming') <= Incoming
    BY <1>0, <1>6, Channel DEF TypeOK, ActorReceives
  <2>2. shown' \in [Execs -> Seq(Writes)]
    <3>1. CASE Kind(Head(incoming)) = "Output" /\ state[Ident(Head(incoming))] = "asked"
      <4>1. Ident(Head(incoming)) \in Execs /\ Body(Head(incoming)) \in Writes
        BY <2>1, <3>1, UpFrameFields
      <4>2. Append(shown[Ident(Head(incoming))], Body(Head(incoming))) \in Seq(Writes)
        BY <4>1, AppendKeepsHead DEF TypeOK
      <4> QED
        BY <1>6, <3>1, <4>1, <4>2 DEF TypeOK, ActorReceives
    <3>2. CASE ~(Kind(Head(incoming)) = "Output" /\ state[Ident(Head(incoming))] = "asked")
      BY <1>6, <3>2 DEF TypeOK, ActorReceives
    <3> QED
      BY <3>1, <3>2
  <2>3. ready' \subseteq Execs
    BY <1>6, <2>1, UpFrameFields DEF TypeOK, ActorReceives
  <2>4. state' \in [Requests \cup Execs -> {"idle", "asked", "ok", "error"} \cup Reasons]
    <3>1. CASE Kind(Head(incoming)) \in {"ExecuteResult", "ControlResult"}
      <4>1. Body(Head(incoming)) \in {"ok", "error"} \cup Reasons
        BY <2>1, <3>1, UpFrameFields
      <4> QED
        BY <1>6, <3>1, <4>1 DEF TypeOK, ActorReceives
    <3>2. CASE Kind(Head(incoming)) \notin {"ExecuteResult", "ControlResult"}
      BY <1>6, <3>2 DEF TypeOK, ActorReceives
    <3> QED
      BY <3>1, <3>2
  <2> QED
    BY <1>6, <2>1, <2>2, <2>3, <2>4 DEF TypeOK, InHand, ActorReceives
<1> QED
  BY <1>2, <1>3, <1>4, <1>5, <1>6 DEF Actor

\* The daemon's loop and its writer task keep the types.
LEMMA TypeDaemon ==
  ASSUME TypeOK, InHand, Loop \/ Writer PROVE TypeOK' /\ InHand'
<1> USE DEF hostVars, socketVars, daemonVars, outputVars, workVars
<1>0. {Requested, Incoming, Outgoing, SocketDown, SocketUp} \subseteq Nat
  BY LinkAssumption
<1>1. CASE Writer
  <2>1. /\ up' \in Seq(UpFrames) /\ Len(up') <= SocketUp
        /\ outgoing' \in Seq(UpFrames) /\ Len(outgoing') <= Outgoing
    BY <1>0, <1>1, Channel DEF TypeOK, Writer
  <2> QED
    BY <1>1, <2>1 DEF TypeOK, InHand, Writer
<1>2. CASE LoopExecute
  <2>1. Head(down) \in DownFrames /\ down' \in Seq(DownFrames) /\ Len(down') <= SocketDown
    BY <1>0, <1>2, Channel DEF TypeOK, LoopExecute
  <2>2. Ident(Head(down)) \in Execs
    BY <1>2, <2>1, DownFrameFields DEF LoopExecute
  <2>3. commands' \in Seq(Execs)
    BY <1>2, <2>2, AppendKeepsHead DEF TypeOK, LoopExecute
  <2> QED
    BY <1>2, <2>1, <2>3 DEF TypeOK, InHand, LoopExecute
<1>3. CASE LoopControl
  <2>1. Head(down) \in DownFrames /\ down' \in Seq(DownFrames) /\ Len(down') <= SocketDown
    BY <1>0, <1>3, Channel DEF TypeOK, LoopControl
  <2>2. Ident(Head(down)) \in Requests
    BY <1>3, <2>1, DownFrameFields DEF LoopControl
  <2>3. \E x \in {"ok", "error"} : answer' = Frame("ControlResult", Ident(Head(down)), x)
    BY <1>3 DEF LoopControl, SetLimit
  <2>4. answer' \in UpFrames /\ Kind(answer') = "ControlResult"
    BY <2>2, <2>3, UpFrameConstructors
  <2>5. maxBytes' \in Nat
    BY <1>3, <2>2, LinkAssumption DEF TypeOK, LoopControl, SetLimit
  <2> QED
    BY <1>3, <2>1, <2>4, <2>5 DEF TypeOK, InHand, LoopControl
<1>4. CASE LoopAnswers
  <2>1. outgoing' \in Seq(UpFrames) /\ Len(outgoing') <= Outgoing
    BY <1>0, <1>4, Channel DEF TypeOK, LoopAnswers
  <2> QED
    BY <1>4, <2>1 DEF TypeOK, InHand, LoopAnswers
<1> QED
  BY <1>1, <1>2, <1>3, <1>4 DEF Loop

\* The worker and the task that forwards its output keep the types.
LEMMA TypeWorker ==
  ASSUME TypeOK, InHand, Worker \/ Forward \/ CheckWrite \/ \E w \in Writes : Write(w)
  PROVE  TypeOK' /\ InHand'
<1> USE DEF hostVars, socketVars, daemonVars, outputVars, workVars
<1>0. {Requested, Incoming, Outgoing, SocketDown, SocketUp} \subseteq Nat
  BY LinkAssumption
<1>00. Execs \subseteq Nat \ {0}
  BY LinkAssumption DEF Execs
<1>1. CASE Begin
  <2>1. Head(commands) \in Execs /\ Tail(commands) \in Seq(Execs) /\ events = <<>>
    BY <1>1, HeadTail DEF TypeOK, InHand, Begin
  <2> QED
    BY <1>00, <1>1, <2>1, LinkAssumption, EmptyElems DEF TypeOK, InHand, Begin, ResetOutput
<1>2. CASE Started
  <2>1. exec \in Execs
    BY <1>2 DEF TypeOK, InHand, Started
  <2>2. outgoing' \in Seq(UpFrames) /\ Len(outgoing') <= Outgoing
    BY <1>0, <1>2, <2>1, Channel, UpFrameConstructors DEF TypeOK, Started
  <2> QED
    BY <1>2, <2>2 DEF TypeOK, InHand, Started
<1>3. CASE RunEnds
  BY <1>3 DEF TypeOK, InHand, RunEnds, Reasons
<1>4. CASE Join
  BY <1>4 DEF TypeOK, InHand, Join, Joined
<1>5. CASE SendResult
  <2>1. exec \in Execs /\ reason \in Reasons /\ events = <<>>
    BY <1>5 DEF TypeOK, InHand, SendResult
  <2>2. outgoing' \in Seq(UpFrames) /\ Len(outgoing') <= Outgoing
    BY <1>0, <1>5, <2>1, Channel, UpFrameConstructors DEF TypeOK, SendResult
  <2> QED
    BY <1>5, <2>1, <2>2, EmptyElems DEF TypeOK, InHand, SendResult
<1>6. CASE Forward
  <2>1. /\ events # <<>> /\ Head(events) \in UpFrames /\ events' \in Seq(UpFrames)
        /\ Elems(events') \subseteq Elems(events)
    BY <1>6, HeadTail, TailSubset DEF TypeOK, Forward
  <2>2. outgoing' \in Seq(UpFrames) /\ Len(outgoing') <= Outgoing
    BY <1>0, <1>6, <2>1, Channel DEF TypeOK, Forward
  <2> QED
    BY <1>6, <2>1, <2>2 DEF TypeOK, InHand, Forward
<1>7. ASSUME NEW w \in Writes, Write(w) PROVE TypeOK' /\ InHand'
  <2>1. exec \in Execs /\ w.size \in Nat
    BY <1>7, LinkAssumption DEF TypeOK, InHand, Write
  <2>2. CASE Fits(w)
    <3>1. /\ size' = size + w.size /\ events' = Append(events, Frame("Output", exec, w))
          /\ produced' = [produced EXCEPT ![exec] = Append(produced[exec], w)]
          /\ guest = "running" /\ guest' = guest
          /\ UNCHANGED <<limitExceeded, limited, told, exec, answer, maxBytes, reason>>
      BY <1>7, <2>2 DEF Write
    <3>2. Frame("Output", exec, w) \in UpFrames /\ OutputOf(exec, Frame("Output", exec, w))
      BY <2>1, UpFrameConstructors DEF OutputOf
    <3>3. events' \in Seq(UpFrames) /\ Elems(events') = Elems(events) \cup {Frame("Output", exec, w)}
      BY <3>1, <3>2, AppendElems DEF TypeOK
    <3>4. produced' \in [Execs -> Seq(Writes)]
      BY <2>1, <3>1, AppendKeepsHead DEF TypeOK
    <3> QED
      BY <1>7, <2>1, <3>1, <3>2, <3>3, <3>4, SMTT(60) DEF TypeOK, InHand, Write
  <2>3. CASE ~Fits(w)
    <3>1. /\ guest = "running" /\ guest' \in {"running", "joining"}
          /\ reason' = IF guest' = "joining" THEN "output_limit" ELSE reason
          /\ limitExceeded' = TRUE /\ limited' = limited \cup {exec}
          /\ told' = IF guest' = "running" THEN told \cup {exec} ELSE told
          /\ UNCHANGED <<size, events, produced, exec, answer, maxBytes>>
      BY <1>7, <2>3 DEF Write
    <3> QED
      BY <1>7, <2>1, <3>1 DEF TypeOK, InHand, Write, Reasons
  <2> QED
    BY <2>2, <2>3
<1>8. CASE CheckWrite
  BY <1>8 DEF TypeOK, InHand, CheckWrite, Reasons
<1> QED
  BY <1>1, <1>2, <1>3, <1>4, <1>5, <1>6, <1>7, <1>8 DEF Worker

\* Every step keeps the types.
LEMMA TypeStep == TypeOK /\ InHand /\ [Next]_vars => TypeOK' /\ InHand'
<1>1. ASSUME TypeOK, InHand, UNCHANGED vars PROVE TypeOK' /\ InHand'
  BY <1>1 DEF TypeOK, InHand, vars, hostVars, socketVars, daemonVars, outputVars, workVars
<1> QED
  BY <1>1, TypeHost, TypeDaemon, TypeWorker DEF Next

\* Every frame and counter of the connection has its type, no channel and no
\* direction of the socket exceeds its capacity, and a worker that waits with a
\* result has no output left to forward.
THEOREM LinkTyped == Spec => [](TypeOK /\ InHand)
  BY TypeInit, TypeStep, PTL DEF Spec

-----------------------------------------------------------------------------
(* The output limit *)

Within == size <= maxBytes

\* What a guest has written never exceeds the limit in force, however set_limits
\* moves it between two writes.
THEOREM LimitRespected == Spec => []OutputWithinLimit
<1>1. Init => Within
  BY LinkAssumption DEF Init, Within
<1>2. TypeOK /\ InHand /\ Within /\ [Next]_vars => Within'
  <2> SUFFICES ASSUME TypeOK, InHand, Within, [Next]_vars PROVE Within'
    OBVIOUS
  <2> USE DEF Within, hostVars, socketVars, daemonVars, outputVars, workVars
  <2>1. ASSUME NEW w \in Writes, Write(w) PROVE Within'
    BY <2>1, LinkAssumption DEF Write, Fits, TypeOK
  <2>2. CASE LoopControl
    BY <2>2 DEF LoopControl, SetLimit, TypeOK
  <2>3. CASE Begin
    BY <2>3, LinkAssumption DEF Begin, ResetOutput
  <2>4. CASE UNCHANGED <<size, maxBytes>>
    BY <2>4
  <2>5. ASSUME Next, ~LoopControl, ~Begin, ~ \E w \in Writes : Write(w)
        PROVE  UNCHANGED <<size, maxBytes>>
    BY <2>5 DEF Next, Run, Control, Ask, Actor, ActorTakes, ActorWrites, ActorReceives, Reader,
       Writer, Loop, LoopExecute, LoopAnswers, Worker, Started, RunEnds, Join, SendResult, Forward, CheckWrite
  <2>6. CASE UNCHANGED vars
    BY <2>6 DEF vars
  <2> QED
    BY <2>1, <2>2, <2>3, <2>4, <2>5, <2>6
<1>3. Within => OutputWithinLimit
  BY DEF Within, OutputWithinLimit
<1> QED
  BY <1>1, <1>2, <1>3, LinkTyped, PTL DEF Spec

-----------------------------------------------------------------------------
(* An execution is asked for once and runs once. *)

\* A request that is on its way to the daemon's loop.
Waiting(f) == f \in Elems(requests) \/ writing = f \/ f \in Elems(down)

\* An execution that has not begun, and one whose result is on its way or known.
Pending(e) == state[e] = "idle" \/ Waiting(ExecuteFrame(e)) \/ e \in Elems(commands)
Answers == Elems(outgoing) \cup Elems(up) \cup Elems(incoming)
Ended(e) == state[e] \in Reasons \/ \E f \in Answers : ResultOf(e, f)

\* A request is asked once and is in one place.
AskedOnce ==
  /\ Distinct(requests) /\ Distinct(down) /\ Distinct(commands)
  /\ Elems(requests) \cap Elems(down) = {}
  /\ writing \notin Elems(requests) \cup Elems(down)
  /\ \A f \in DownFrames : Waiting(f) => state[Ident(f)] # "idle"
  /\ \A e \in Elems(commands) : state[e] # "idle" /\ ~Waiting(ExecuteFrame(e))

\* An execution has not begun, runs, or has ended; one that has not begun has
\* written nothing.
RunsOnce ==
  /\ exec # 0 => ~Pending(exec) /\ ~Ended(exec)
  /\ \A e \in Execs : /\ Pending(e) => ~Ended(e) /\ e \notin limited /\ produced[e] = <<>>
                      /\ state[e] \in {"idle", "asked"} \cup Reasons

\* A reason tells of the output limit what the execution's own writes and checks say.
Truthful(e, x) ==
  /\ x = "output_limit" => e \in limited
  /\ e \in limited => x = "output_limit" \/ (x = "completed" /\ e \in told)
Explained ==
  /\ guest \in {"starting", "running"} =>
       (limitExceeded <=> exec \in limited) /\ (exec \in limited => exec \in told)
  /\ guest \in {"joining", "result"} => Truthful(exec, reason)
  /\ \A f \in Answers : \A e \in Execs : ResultOf(e, f) => Truthful(e, Body(f))
  /\ \A e \in Execs : state[e] \in Reasons => Truthful(e, state[e])

Ordered == AskedOnce /\ RunsOnce /\ Explained

\* At the start nothing was asked.
LEMMA OrderedInit == Init => Ordered
<1> SUFFICES ASSUME Init PROVE Ordered
  OBVIOUS
<1>1. Answers = {} /\ Elems(requests) = {} /\ Elems(down) = {} /\ Elems(commands) = {}
  BY EmptyElems DEF Init, Answers
<1>2. \A e \in Execs : state[e] = "idle" /\ produced[e] = <<>>
  BY DEF Init
<1>3. AskedOnce
  BY <1>1, EmptyElems, DownFrameFields DEF Init, AskedOnce, Waiting
<1>4. RunsOnce
  BY <1>1, <1>2 DEF Init, RunsOnce, Ended, Reasons
<1>5. Explained
  BY <1>1, <1>2 DEF Init, Explained, Reasons
<1> QED
  BY <1>3, <1>4, <1>5 DEF Ordered

\* A step that only moves, adds or drops answers, none of them a result.
LEMMA OrderedAnswer ==
  ASSUME Ordered, \A f \in Answers' : f \in Answers \/ Kind(f) # "ExecuteResult",
         UNCHANGED <<requests, writing, down, commands, state, exec, limited, told, produced, guest,
                     reason, limitExceeded>>
  PROVE  Ordered'
<1>1. AskedOnce'
  BY DEF Ordered, AskedOnce, Waiting
<1>2. \A e : Pending(e)' <=> Pending(e)
  BY DEF Pending, Waiting
<1>3. \A e : Ended(e)' => Ended(e)
  BY DEF Ended, ResultOf
<1>4. RunsOnce'
  BY <1>2, <1>3 DEF Ordered, RunsOnce
<1>5. Explained'
  BY DEF Ordered, Explained, Truthful, ResultOf
<1> QED
  BY <1>1, <1>4, <1>5 DEF Ordered

\* A step that moves a request and leaves the executions that have not begun.
LEMMA OrderedMove ==
  ASSUME Ordered, AskedOnce', \A e \in Execs : Pending(e)' <=> Pending(e), exec \in Execs \cup {0},
         \A e \in Execs : state'[e] = state[e] \/ (state[e] = "idle" /\ state'[e] = "asked"),
         UNCHANGED <<outgoing, up, incoming, exec, limited, told, produced, guest, reason, limitExceeded>>
  PROVE  Ordered'
<1>1. Answers' = Answers
  BY DEF Answers
<1>2. \A e \in Execs : Ended(e)' => Ended(e)
  BY <1>1 DEF Ended, Reasons
<1>3. RunsOnce'
  BY <1>2 DEF Ordered, RunsOnce
<1>4. Explained'
  <2>1. \A e \in Execs : state'[e] \in Reasons => state'[e] = state[e]
    BY DEF Reasons
  <2> QED
    BY <1>1, <2>1 DEF Ordered, Explained, Truthful
<1> QED
  BY <1>3, <1>4 DEF Ordered

\* The application asks.
LEMMA OrderedAsk ==
  ASSUME TypeOK, Ordered, NEW f \in DownFrames, Ask(Ident(f), f) PROVE Ordered'
<1>1. /\ state[Ident(f)] = "idle" /\ state' = [state EXCEPT ![Ident(f)] = "asked"]
      /\ requests' = Append(requests, f)
      /\ UNCHANGED <<writing, down, commands, outgoing, up, incoming, exec, limited, told, produced, guest,
                     reason, limitExceeded>>
  BY DEF Ask, socketVars, daemonVars, workVars, outputVars
<1>2. ~Waiting(f) /\ Ident(f) \in Requests \cup Execs
  BY <1>1, DownFrameFields DEF Ordered, AskedOnce
<1>3. Elems(requests') = Elems(requests) \cup {f} /\ Distinct(requests')
  BY <1>1, <1>2, AppendElems DEF TypeOK, Ordered, AskedOnce, Waiting
<1>4. state'[Ident(f)] = "asked" /\ \A x \in Requests \cup Execs : x # Ident(f) => state'[x] = state[x]
  BY <1>1, <1>2 DEF TypeOK
<1>5. \A h \in DownFrames : Waiting(h)' <=> Waiting(h) \/ h = f
  BY <1>1, <1>3 DEF Waiting
<1>6. \A e \in Elems(commands) : e \in Execs
  BY ElemsType DEF TypeOK
<1>7. \A e \in Execs : ExecuteFrame(e) = f <=> (Kind(f) = "Execute" /\ e = Ident(f))
  BY DownFrameFields
<1>8. \A h \in DownFrames : Ident(h) \in Requests \cup Execs
  BY DownFrameFields
<1>9. AskedOnce'
  <2>1. ASSUME NEW h \in DownFrames, Waiting(h)' PROVE state'[Ident(h)] # "idle"
    BY <1>4, <1>5, <1>8, <2>1 DEF Ordered, AskedOnce
  <2>2. ASSUME NEW e \in Elems(commands) PROVE state'[e] # "idle" /\ ~Waiting(ExecuteFrame(e))'
    BY <1>1, <1>4, <1>5, <1>6, <1>7, <2>2, DownFrameFields DEF Ordered, AskedOnce
  <2>3. f \notin Elems(down) /\ writing # f /\ f \notin Elems(requests)
    BY <1>2 DEF Waiting
  <2> QED
    BY <1>1, <1>3, <2>1, <2>2, <2>3 DEF Ordered, AskedOnce
<1>10. \A e \in Execs : Pending(e)' <=> Pending(e)
  <2>1. ASSUME NEW e \in Execs PROVE Pending(e)' <=> Pending(e)
    <3>1. CASE e = Ident(f)
      <4>1. Kind(f) = "Execute"
        BY <3>1, DownFrameFields, LinkAssumption DEF Execs
      <4> QED
        BY <1>1, <1>5, <1>7, <3>1, <4>1 DEF Pending
    <3>2. CASE e # Ident(f)
      BY <1>1, <1>4, <1>5, <1>7, <3>2, DownFrameFields DEF Pending
    <3> QED
      BY <3>1, <3>2
  <2> QED
    BY <2>1
<1>11. \A e \in Execs : state'[e] = state[e] \/ (state[e] = "idle" /\ state'[e] = "asked")
  BY <1>1, <1>4
<1> QED
  BY <1>1, <1>9, <1>10, <1>11, OrderedMove DEF TypeOK

\* A request travels through the actor to the daemon.
LEMMA OrderedTravel ==
  ASSUME TypeOK, Ordered, ActorTakes \/ ActorWrites \/ LoopExecute \/ LoopControl PROVE Ordered'
<1> USE DEF hostVars, socketVars, daemonVars, outputVars, workVars
<1>1. UNCHANGED <<state, outgoing, up, incoming, exec, limited, told, produced, guest, reason, limitExceeded>>
  BY DEF ActorTakes, ActorWrites, LoopExecute, LoopControl
<1>2. Elems(requests) \subseteq DownFrames /\ Elems(down) \subseteq DownFrames
  BY ElemsType DEF TypeOK
<1>3. CASE ActorTakes
  <2>1. /\ writing = None /\ requests # <<>> /\ writing' = Head(requests) /\ requests' = Tail(requests)
        /\ UNCHANGED <<down, commands>>
    BY <1>3 DEF ActorTakes
  <2>2. /\ Head(requests) \in Elems(requests) /\ Elems(requests') = Elems(requests) \ {Head(requests)}
        /\ Distinct(requests')
    BY <2>1, TailElems DEF TypeOK, Ordered, AskedOnce
  <2>3. \A f \in DownFrames : Waiting(f)' <=> Waiting(f)
    BY <2>1, <2>2, DownFrameFields DEF Waiting
  <2>4. \A e \in Execs : Waiting(ExecuteFrame(e))' <=> Waiting(ExecuteFrame(e))
    BY <2>3, DownFrameFields
  <2>5. Elems(commands) \subseteq Execs
    BY ElemsType DEF TypeOK
  <2>6. AskedOnce'
    BY <1>1, <2>1, <2>2, <2>3, <2>4, <2>5 DEF Ordered, AskedOnce
  <2>7. \A e \in Execs : Pending(e)' <=> Pending(e)
    BY <1>1, <2>1, <2>4 DEF Pending
  <2> QED
    BY <1>1, <2>6, <2>7, OrderedMove DEF TypeOK
<1>4. CASE ActorWrites
  <2>1. /\ writing # None /\ writing' = None /\ down' = Append(down, writing)
        /\ writing \in DownFrames /\ UNCHANGED <<requests, commands>>
    BY <1>4 DEF ActorWrites, TypeOK
  <2>2. Elems(down') = Elems(down) \cup {writing} /\ Distinct(down')
    BY <2>1, AppendElems DEF TypeOK, Ordered, AskedOnce
  <2>3. \A f \in DownFrames : Waiting(f)' <=> Waiting(f)
    BY <2>1, <2>2, DownFrameFields DEF Waiting
  <2>4. \A e \in Execs : Waiting(ExecuteFrame(e))' <=> Waiting(ExecuteFrame(e))
    BY <2>3, DownFrameFields
  <2>5. Elems(commands) \subseteq Execs
    BY ElemsType DEF TypeOK
  <2>6. AskedOnce'
    BY <1>1, <1>2, <2>1, <2>2, <2>3, <2>4, <2>5, DownFrameFields DEF Ordered, AskedOnce
  <2>7. \A e \in Execs : Pending(e)' <=> Pending(e)
    BY <1>1, <2>1, <2>4 DEF Pending
  <2> QED
    BY <1>1, <2>6, <2>7, OrderedMove DEF TypeOK
<1>5. ASSUME down # <<>>, down' = Tail(down), UNCHANGED <<requests, writing>>
      PROVE  /\ Head(down) \in DownFrames /\ Distinct(down') /\ Elems(down') = Elems(down) \ {Head(down)}
             /\ Waiting(Head(down)) /\ Head(down) \notin Elems(requests) \cup {writing}
             /\ \A f \in DownFrames : Waiting(f)' <=> Waiting(f) /\ f # Head(down)
  <2>1. /\ Head(down) \in Elems(down) /\ Elems(down') = Elems(down) \ {Head(down)} /\ Distinct(down')
        /\ Head(down) \in DownFrames
    BY <1>5, TailElems DEF TypeOK, Ordered, AskedOnce
  <2>2. Head(down) \notin Elems(requests) \cup {writing}
    BY <2>1 DEF Ordered, AskedOnce
  <2> QED
    BY <1>5, <2>1, <2>2 DEF Waiting
<1>6. CASE LoopExecute
  <2>1. /\ down # <<>> /\ down' = Tail(down) /\ Kind(Head(down)) = "Execute"
        /\ commands' = Append(commands, Ident(Head(down))) /\ UNCHANGED <<requests, writing>>
    BY <1>6 DEF LoopExecute
  <2>2. PICK e \in Execs : Head(down) = ExecuteFrame(e) /\ Ident(Head(down)) = e
    BY <1>5, <2>1, DownFrameFields
  <2>3. Waiting(ExecuteFrame(e)) /\ e \notin Elems(commands) /\ state[e] # "idle"
    BY <1>5, <2>1, <2>2, DownFrameFields DEF Ordered, AskedOnce
  <2>4. Elems(commands') = Elems(commands) \cup {e} /\ Distinct(commands')
    BY <2>1, <2>2, <2>3, AppendElems DEF TypeOK, Ordered, AskedOnce
  <2>5. \A d \in Execs : Waiting(ExecuteFrame(d))' <=> Waiting(ExecuteFrame(d)) /\ d # e
    BY <1>5, <2>1, <2>2, DownFrameFields
  <2>6. Elems(commands) \subseteq Execs
    BY ElemsType DEF TypeOK
  <2>7. \A d \in Execs : Pending(d)' <=> Pending(d)
    BY <1>1, <2>3, <2>4, <2>5 DEF Pending
  <2>8. AskedOnce'
    BY <1>1, <1>5, <2>1, <2>3, <2>4, <2>5, <2>6 DEF Ordered, AskedOnce
  <2> QED
    BY <1>1, <2>7, <2>8, OrderedMove DEF TypeOK
<1>7. CASE LoopControl
  <2>1. /\ down # <<>> /\ down' = Tail(down) /\ Kind(Head(down)) = "Control"
        /\ UNCHANGED <<requests, writing, commands>>
    BY <1>7 DEF LoopControl
  <2>2. \A d \in Execs : Waiting(ExecuteFrame(d))' <=> Waiting(ExecuteFrame(d))
    BY <1>5, <2>1, DownFrameFields
  <2>3. Elems(commands) \subseteq Execs
    BY ElemsType DEF TypeOK
  <2>4. \A d \in Execs : Pending(d)' <=> Pending(d)
    BY <1>1, <2>1, <2>2 DEF Pending
  <2>5. AskedOnce'
    BY <1>1, <1>5, <2>1, <2>2, <2>3 DEF Ordered, AskedOnce
  <2> QED
    BY <1>1, <2>4, <2>5, OrderedMove DEF TypeOK
<1> QED
  BY <1>3, <1>4, <1>6, <1>7

\* The actor hands an answer on: a result that was on its way is now known.
LEMMA OrderedReceive ==
  ASSUME TypeOK, Ordered, ActorReceives PROVE Ordered'
<1>1. /\ incoming # <<>> /\ incoming' = Tail(incoming)
      /\ state' = IF Kind(Head(incoming)) \in {"ExecuteResult", "ControlResult"}
                    THEN [state EXCEPT ![Ident(Head(incoming))] = Body(Head(incoming))] ELSE state
      /\ UNCHANGED <<requests, writing, down, commands, outgoing, up, exec, limited, told, produced, guest,
                     reason, limitExceeded>>
  BY DEF ActorReceives, socketVars, daemonVars, workVars, outputVars
<1>2. /\ Head(incoming) \in UpFrames /\ Head(incoming) \in Elems(incoming)
      /\ Elems(incoming') \subseteq Elems(incoming)
  BY <1>1, HeadTail, TailSubset DEF TypeOK
<1>3. Answers' \subseteq Answers /\ Head(incoming) \in Answers
  BY <1>1, <1>2 DEF Answers
<1>4. \A x \in Requests \cup Execs : state'[x] = state[x] \/ state'[x] \in {"ok", "error"} \cup Reasons
  BY <1>1, <1>2, UpFrameFields DEF TypeOK
<1>5. ASSUME NEW e \in Execs
      PROVE  \/ state'[e] = state[e]
             \/ ResultOf(e, Head(incoming)) /\ state'[e] = Body(Head(incoming)) /\ state'[e] \in Reasons
  <2>1. CASE Kind(Head(incoming)) = "ExecuteResult" /\ Ident(Head(incoming)) = e
    BY <1>1, <1>2, <2>1, UpFrameFields DEF TypeOK, ResultOf
  <2>2. CASE Kind(Head(incoming)) = "ControlResult"
    <3>1. Ident(Head(incoming)) # e
      BY <1>2, <2>2, UpFrameFields, LinkAssumption DEF Execs
    <3> QED
      BY <1>1, <2>2, <3>1 DEF TypeOK
  <2>3. CASE Kind(Head(incoming)) # "ControlResult" /\ ~(Kind(Head(incoming)) = "ExecuteResult" /\ Ident(Head(incoming)) = e)
    BY <1>1, <2>3 DEF TypeOK
  <2> QED
    BY <2>1, <2>2, <2>3
<1>6. \A e \in Execs : Ended(e)' => Ended(e)
  BY <1>3, <1>5 DEF Ended
<1>7. \A e \in Execs : Pending(e)' => Pending(e)
  BY <1>1, <1>5 DEF Pending, Waiting, Reasons
<1>8. AskedOnce'
  <2>1. \A f \in DownFrames : Waiting(f)' <=> Waiting(f)
    BY <1>1 DEF Waiting
  <2>2. \A x \in Requests \cup Execs : state[x] # "idle" => state'[x] # "idle"
    BY <1>4 DEF Reasons
  <2>3. Elems(commands) \subseteq Execs /\ \A f \in DownFrames : Ident(f) \in Requests \cup Execs
    BY ElemsType, DownFrameFields DEF TypeOK
  <2>4. \A e \in Execs : Waiting(ExecuteFrame(e))' <=> Waiting(ExecuteFrame(e))
    BY <2>1, DownFrameFields
  <2> QED
    BY <1>1, <2>1, <2>2, <2>3, <2>4 DEF Ordered, AskedOnce
<1>9. RunsOnce'
  BY <1>1, <1>5, <1>6, <1>7 DEF TypeOK, Ordered, RunsOnce
<1>10. Explained'
  <2>1. ASSUME NEW e \in Execs, state'[e] \in Reasons PROVE Truthful(e, state'[e])
    BY <1>3, <1>5, <2>1 DEF Ordered, Explained
  <2>2. \A f \in Answers' : \A e \in Execs : ResultOf(e, f) => Truthful(e, Body(f))
    BY <1>3 DEF Ordered, Explained
  <2> QED
    BY <1>1, <2>1, <2>2 DEF Ordered, Explained, Truthful
<1> QED
  BY <1>8, <1>9, <1>10 DEF Ordered

\* The worker begins an execution: it was not run before.
LEMMA OrderedBegin ==
  ASSUME TypeOK, InHand, Ordered, Begin PROVE Ordered'
<1>1. /\ guest = "idle" /\ commands # <<>> /\ exec' = Head(commands) /\ commands' = Tail(commands)
      /\ guest' = "starting" /\ limitExceeded' = FALSE
      /\ UNCHANGED <<state, requests, writing, down, outgoing, up, incoming, limited, told, produced>>
  BY DEF Begin, ResetOutput, hostVars, socketVars
<1>2. PICK e \in Execs : Head(commands) = e
  BY <1>1, HeadTail DEF TypeOK
<1>3. e \in Elems(commands) /\ Elems(commands') = Elems(commands) \ {e} /\ Distinct(commands')
  BY <1>1, <1>2, TailElems DEF TypeOK, Ordered, AskedOnce
<1>4. \A f : Waiting(f)' <=> Waiting(f)
  BY <1>1 DEF Waiting
<1>5. AskedOnce'
  BY <1>1, <1>3, <1>4 DEF Ordered, AskedOnce
<1>6. ~Pending(e)' /\ Pending(e)
  BY <1>1, <1>3, <1>4 DEF Pending, Ordered, AskedOnce
<1>7. Answers' = Answers /\ \A d \in Execs : (Ended(d)' <=> Ended(d)) /\ (Pending(d)' => Pending(d))
  BY <1>1, <1>3, <1>4 DEF Answers, Ended, Pending
<1>8. RunsOnce'
  BY <1>1, <1>2, <1>6, <1>7 DEF Ordered, RunsOnce
<1>9. Explained'
  <2>1. e \notin limited
    BY <1>6 DEF Ordered, RunsOnce
  <2> QED
    BY <1>1, <1>2, <1>7, <2>1 DEF Ordered, Explained, Truthful
<1> QED
  BY <1>5, <1>8, <1>9 DEF Ordered

\* The guest writes, or its run ends: only the running execution is concerned.
LEMMA OrderedRun ==
  ASSUME TypeOK, InHand, Ordered, RunEnds \/ Join \/ CheckWrite \/ \E w \in Writes : Write(w)
  PROVE  Ordered'
<1> USE DEF hostVars, socketVars, daemonVars, outputVars, workVars
<1>1. /\ UNCHANGED <<state, requests, writing, down, commands, outgoing, up, incoming, exec>>
      /\ guest # "idle" /\ guest' # "starting"
      /\ guest' = "result" => guest = "joining" /\ reason' = reason /\ limited' = limited /\ told' = told
      /\ guest' = "joining" => guest = "running"
      /\ guest' = "running" => guest = "running"
  BY DEF RunEnds, Join, CheckWrite, Write
<1>2. PICK e \in Execs : exec = e
  BY <1>1 DEF TypeOK, InHand
<1>3. ~Pending(e) /\ ~Ended(e)
  BY <1>2, LinkAssumption DEF Ordered, RunsOnce, Execs
<1>4. \A d \in Execs : d # e => (d \in limited' <=> d \in limited) /\ (d \in told' <=> d \in told) /\ produced'[d] = produced[d]
  <2>1. CASE RunEnds \/ Join
    BY <2>1 DEF RunEnds, Join
  <2>2. ASSUME NEW w \in Writes, Write(w)
        PROVE  \/ produced' = [produced EXCEPT ![e] = Append(produced[e], w)] /\ limited' = limited /\ told' = told
               \/ produced' = produced /\ limited' = limited \cup {e} /\ told' \in {told, told \cup {e}}
    BY <1>2, <2>2 DEF Write
  <2>3. DOMAIN produced = Execs
    BY DEF TypeOK
  <2>4. CASE \E w \in Writes : Write(w)
    BY <2>2, <2>3, <2>4
  <2>5. CASE CheckWrite
    BY <1>2, <2>5 DEF CheckWrite
  <2> QED
    BY <2>1, <2>4, <2>5
<1>5. AskedOnce' /\ Answers' = Answers /\ \A d : (Pending(d)' <=> Pending(d)) /\ (Ended(d)' <=> Ended(d))
  BY <1>1 DEF Ordered, AskedOnce, Waiting, Pending, Ended, Answers
<1>6. RunsOnce'
  BY <1>1, <1>2, <1>3, <1>4, <1>5 DEF Ordered, RunsOnce
<1>7. \A f \in Answers' : \A d \in Execs : ResultOf(d, f) => Truthful(d, Body(f))'
  BY <1>3, <1>4, <1>5 DEF Ordered, Explained, Truthful, Ended
<1>8. \A d \in Execs : state'[d] \in Reasons => Truthful(d, state[d])'
  BY <1>1, <1>3, <1>4 DEF Ordered, Explained, Truthful, Ended
<1>9. /\ guest' = "running" => (limitExceeded' <=> e \in limited') /\ (e \in limited' => e \in told')
      /\ guest' = "joining" => Truthful(e, reason)'
  BY <1>2 DEF RunEnds, Join, CheckWrite, Write, Ordered, Explained, Truthful
<1>10. Explained'
  BY <1>1, <1>2, <1>7, <1>8, <1>9 DEF Ordered, Explained, Truthful
<1> QED
  BY <1>5, <1>6, <1>10 DEF Ordered

\* The result of the execution is sent, after which it is over.
LEMMA OrderedResult ==
  ASSUME TypeOK, InHand, Ordered, SendResult PROVE Ordered'
<1>1. /\ guest = "result" /\ outgoing' = Append(outgoing, Frame("ExecuteResult", exec, reason))
      /\ guest' = "idle" /\ exec' = 0
      /\ UNCHANGED <<state, requests, writing, down, commands, up, incoming, limited, told, produced>>
  BY DEF SendResult, hostVars, socketVars, outputVars
<1>2. PICK e \in Execs : exec = e
  BY <1>1 DEF TypeOK, InHand
<1>3. PICK f \in UpFrames : /\ f = Frame("ExecuteResult", e, reason) /\ Kind(f) = "ExecuteResult"
                            /\ Ident(f) = e /\ Body(f) = reason
  BY <1>1, UpFrameConstructors DEF InHand
<1>4. Answers' = Answers \cup {f}
  BY <1>1, <1>2, <1>3, AppendElems DEF TypeOK, Answers
<1>5. ~Pending(e) /\ ~Ended(e) /\ Truthful(e, reason)
  BY <1>1, <1>2, LinkAssumption DEF Ordered, RunsOnce, Execs, Explained
<1>6. AskedOnce' /\ \A d : Pending(d)' <=> Pending(d)
  BY <1>1 DEF Ordered, AskedOnce, Waiting, Pending
<1>7. \A d : Ended(d)' => Ended(d) \/ d = e
  BY <1>1, <1>3, <1>4 DEF Ended, ResultOf
<1>8. RunsOnce'
  BY <1>1, <1>5, <1>6, <1>7 DEF Ordered, RunsOnce
<1>9. Explained'
  BY <1>1, <1>3, <1>4, <1>5 DEF Ordered, Explained, Truthful, ResultOf
<1> QED
  BY <1>6, <1>8, <1>9 DEF Ordered

\* Every step keeps the order of asking, running and answering.
LEMMA OrderedStep == TypeOK /\ InHand /\ Ordered /\ [Next]_vars => Ordered'
<1> SUFFICES ASSUME TypeOK, InHand, Ordered, [Next]_vars PROVE Ordered'
  OBVIOUS
<1> USE DEF hostVars, socketVars, daemonVars, outputVars, workVars
<1>1. CASE \E e \in Execs : Run(e)
  BY <1>1, OrderedAsk, DownFrameFields DEF Run, ExecuteFrame
<1>2. CASE \E r \in Requests : Control(r)
  BY <1>2, OrderedAsk, DownFrameFields DEF Control
<1>3. CASE Reader
  <2>1. /\ up # <<>> /\ incoming' = Append(incoming, Head(up)) /\ up' = Tail(up) /\ UNCHANGED outgoing
    BY <1>3 DEF Reader
  <2>2. /\ Head(up) \in UpFrames /\ Head(up) \in Elems(up) /\ Elems(up') \subseteq Elems(up)
        /\ Elems(incoming') = Elems(incoming) \cup {Head(up)}
    BY <2>1, HeadTail, TailSubset, AppendElems DEF TypeOK
  <2>3. Answers' \subseteq Answers
    BY <2>1, <2>2 DEF Answers
  <2> QED
    BY <1>3, <2>3, OrderedAnswer DEF Reader
<1>4. CASE Writer
  <2>1. outgoing # <<>> /\ up' = Append(up, Head(outgoing)) /\ outgoing' = Tail(outgoing) /\ UNCHANGED incoming
    BY <1>4 DEF Writer
  <2>2. /\ Head(outgoing) \in UpFrames /\ Head(outgoing) \in Elems(outgoing)
        /\ Elems(outgoing') \subseteq Elems(outgoing) /\ Elems(up') = Elems(up) \cup {Head(outgoing)}
    BY <2>1, HeadTail, TailSubset, AppendElems DEF TypeOK
  <2>3. Answers' \subseteq Answers
    BY <2>1, <2>2 DEF Answers
  <2> QED
    BY <1>4, <2>3, OrderedAnswer DEF Writer
<1>5. ASSUME NEW f \in UpFrames, outgoing' = Append(outgoing, f), UNCHANGED <<up, incoming>>
      PROVE  Answers' \subseteq Answers \cup {f}
  BY <1>5, AppendElems DEF TypeOK, Answers
<1>6. CASE LoopAnswers
  <2>1. answer \in UpFrames /\ Kind(answer) # "ExecuteResult"
    BY <1>6 DEF LoopAnswers, TypeOK, InHand
  <2>2. Answers' \subseteq Answers \cup {answer}
    BY <1>5, <1>6, <2>1 DEF LoopAnswers
  <2> QED
    BY <1>6, <2>1, <2>2, OrderedAnswer DEF LoopAnswers
<1>7. CASE Started
  <2> DEFINE f == Frame("ExecuteStarted", exec, "none")
  <2>1. f \in UpFrames /\ Kind(f) # "ExecuteResult" /\ exec \in Execs /\ guest = "starting"
    BY <1>7, UpFrameConstructors DEF Started, TypeOK, InHand
  <2>2. Answers' \subseteq Answers \cup {f}
    BY <1>5, <1>7, <2>1 DEF Started
  <2>3. /\ guest' = "running"
        /\ UNCHANGED <<requests, writing, down, commands, state, exec, limited, told, produced, reason, limitExceeded>>
    BY <1>7 DEF Started
  <2> HIDE DEF f
  <2>4. AskedOnce' /\ \A d : Pending(d)' <=> Pending(d)
    BY <2>3 DEF Ordered, AskedOnce, Waiting, Pending
  <2>5. \A d : Ended(d)' => Ended(d)
    BY <2>1, <2>2, <2>3 DEF Ended, ResultOf
  <2>6. RunsOnce'
    BY <2>3, <2>4, <2>5 DEF Ordered, RunsOnce
  <2>7. Explained'
    BY <2>1, <2>2, <2>3 DEF Ordered, Explained, Truthful, ResultOf
  <2> QED
    BY <2>4, <2>6, <2>7 DEF Ordered
<1>8. CASE Forward
  <2>1. events # <<>> /\ Head(events) \in UpFrames /\ Head(events) \in Elems(events)
    BY <1>8, HeadTail, TailSubset DEF Forward, TypeOK
  <2>2. Kind(Head(events)) # "ExecuteResult"
    BY <2>1 DEF InHand, OutputOf
  <2>3. Answers' \subseteq Answers \cup {Head(events)}
    BY <1>5, <1>8, <2>1 DEF Forward
  <2> QED
    BY <1>8, <2>2, <2>3, OrderedAnswer DEF Forward
<1>9. CASE UNCHANGED vars
  <2>1. Answers' \subseteq Answers
    BY <1>9 DEF Answers, vars
  <2> QED
    BY <1>9, <2>1, OrderedAnswer DEF vars
<1> QED
  BY <1>1, <1>2, <1>3, <1>4, <1>6, <1>7, <1>8, <1>9, OrderedTravel, OrderedReceive, OrderedBegin,
     OrderedRun, OrderedResult DEF Next, Actor, Loop, Worker

\* Executions are asked for, run and answered in this order, each once.
LEMMA AlwaysOrdered == Spec => []Ordered
  BY OrderedInit, OrderedStep, LinkTyped, PTL DEF Spec

\* An execution is reported as stopped by the output limit only if it asked for room
\* its limit did not leave, by a write or by the readiness check, and whenever it did so
\* and did not survive the error of a refused write, however executions follow each other
\* on the worker and whatever is still on its way.
THEOREM ReasonIsOwn == Spec => []LimitIsItsOwn
<1>1. Ordered => LimitIsItsOwn
  BY DEF Ordered, Explained, Truthful, LimitIsItsOwn
<1> QED
  BY <1>1, AlwaysOrdered, PTL

-----------------------------------------------------------------------------
(* The output arrives in order and complete. *)

\* Read in order, the frames of e in queue q carry the writes a+1..b of p, and a
\* result of e comes after the last of them.
Carries(e, p, q, a, b) ==
  \E g \in [0..Len(q) -> 0..Len(p)] :
    /\ g[0] = a /\ g[Len(q)] = b
    /\ \A i \in 1..Len(q) :
         /\ OutputOf(e, q[i]) => g[i] = g[i - 1] + 1 /\ Body(q[i]) = p[g[i]]
         /\ ~OutputOf(e, q[i]) => g[i] = g[i - 1]
         /\ ResultOf(e, q[i]) => g[i] = Len(p)

\* An empty channel carries nothing.
LEMMA CarriesNothing ==
  ASSUME NEW e, NEW p \in Seq(Writes), NEW a \in 0..Len(p)
  PROVE  /\ Carries(e, p, <<>>, a, a)
         /\ \A b : Carries(e, p, <<>>, a, b) => b = a
<1>1. Len(<<>>) = 0 /\ 0..0 = {0} /\ 1..0 = {}
  BY EmptySeq
<1>2. Carries(e, p, <<>>, a, a)
  <2> DEFINE g == [i \in 0..0 |-> a]
  <2>1. g \in [0..0 -> 0..Len(p)] /\ g[0] = a
    OBVIOUS
  <2> QED
    BY <1>1, <2>1 DEF Carries
<1>3. \A b : Carries(e, p, <<>>, a, b) => b = a
  BY <1>1 DEF Carries
<1> QED
  BY <1>2, <1>3

\* Reading a channel: an output frame is the next write, a result finds all of
\* them read.
LEMMA CarriesTail ==
  ASSUME NEW e, NEW p \in Seq(Writes), NEW q \in Seq(UpFrames), q # <<>>, NEW a, NEW b,
         Carries(e, p, q, a, b)
  PROVE  /\ OutputOf(e, Head(q)) =>
              a + 1 \in 1..Len(p) /\ Body(Head(q)) = p[a + 1] /\ Carries(e, p, Tail(q), a + 1, b)
         /\ ~OutputOf(e, Head(q)) => Carries(e, p, Tail(q), a, b)
         /\ ResultOf(e, Head(q)) => a = Len(p)
         /\ a \in 0..Len(p) /\ b \in 0..Len(p)
<1>1. /\ Len(Tail(q)) = Len(q) - 1 /\ Head(q) = q[1] /\ Len(q) \in Nat /\ Len(q) >= 1
      /\ \A i \in 1..Len(Tail(q)) : Tail(q)[i] = q[i + 1]
      /\ Len(p) \in Nat
  BY HeadTailProperties, EmptySeq, LenProperties
<1>2. PICK g \in [0..Len(q) -> 0..Len(p)] :
        /\ g[0] = a /\ g[Len(q)] = b
        /\ \A i \in 1..Len(q) :
             /\ OutputOf(e, q[i]) => g[i] = g[i - 1] + 1 /\ Body(q[i]) = p[g[i]]
             /\ ~OutputOf(e, q[i]) => g[i] = g[i - 1]
             /\ ResultOf(e, q[i]) => g[i] = Len(p)
  BY DEF Carries
<1> DEFINE n == Len(Tail(q))
           h == [i \in 0..n |-> g[i + 1]]
<1>3. /\ h \in [0..n -> 0..Len(p)] /\ h[0] = g[1] /\ h[n] = b
      /\ \A i \in 1..n : h[i] = g[i + 1] /\ h[i - 1] = g[i]
  <2>1. n \in Nat /\ n + 1 = Len(q)
    BY <1>1
  <2>2. \A i \in 0..n : i + 1 \in 0..Len(q)
    BY <1>1, <2>1
  <2>3. \A i \in 1..n : i \in 0..n /\ i - 1 \in 0..n /\ (i - 1) + 1 = i
    BY <2>1
  <2> HIDE DEF n
  <2> QED
    BY <1>2, <2>1, <2>2, <2>3
<1>4. Carries(e, p, Tail(q), g[1], b)
  <2>1. ASSUME NEW i \in 1..n
        PROVE  /\ OutputOf(e, Tail(q)[i]) => h[i] = h[i - 1] + 1 /\ Body(Tail(q)[i]) = p[h[i]]
               /\ ~OutputOf(e, Tail(q)[i]) => h[i] = h[i - 1]
               /\ ResultOf(e, Tail(q)[i]) => h[i] = Len(p)
    <3>1. i + 1 \in 1..Len(q) /\ (i + 1) - 1 = i /\ Tail(q)[i] = q[i + 1]
      BY <1>1
    <3>2. h[i] = g[i + 1] /\ h[i - 1] = g[i]
      BY <1>3
    <3> HIDE DEF h, n
    <3> QED
      BY <1>2, <3>1, <3>2
  <2> HIDE DEF h
  <2> QED
    BY <1>3, <2>1 DEF Carries
<1>5. 1 \in 1..Len(q) /\ 1 \in 0..Len(q) /\ 0 \in 0..Len(q) /\ Len(q) \in 0..Len(q) /\ 1 - 1 = 0
  BY <1>1
<1>6. g[1] \in 0..Len(p) /\ a \in 0..Len(p) /\ b \in 0..Len(p)
  BY <1>2, <1>5
<1>7. /\ OutputOf(e, q[1]) => g[1] = a + 1 /\ Body(q[1]) = p[g[1]]
      /\ ~OutputOf(e, q[1]) => g[1] = a
      /\ ResultOf(e, q[1]) => g[1] = Len(p)
  BY <1>2, <1>5
<1>8. ResultOf(e, q[1]) => ~OutputOf(e, q[1])
  BY DEF ResultOf, OutputOf
<1> HIDE DEF h, n
<1> QED
  BY <1>1, <1>4, <1>6, <1>7, <1>8

\* Writing to a channel: the next write, or a frame that is no output of e, which
\* is a result only if the channel carries the last write.
LEMMA CarriesAppend ==
  ASSUME NEW e, NEW p \in Seq(Writes), NEW q \in Seq(UpFrames), NEW a, NEW b,
         Carries(e, p, q, a, b), NEW f \in UpFrames
  PROVE  /\ OutputOf(e, f) /\ b + 1 \in 1..Len(p) /\ Body(f) = p[b + 1]
              => Carries(e, p, Append(q, f), a, b + 1)
         /\ ~OutputOf(e, f) /\ (ResultOf(e, f) => b = Len(p)) => Carries(e, p, Append(q, f), a, b)
<1>1. /\ Len(Append(q, f)) = Len(q) + 1 /\ Append(q, f)[Len(q) + 1] = f
      /\ \A i \in 1..Len(q) : Append(q, f)[i] = q[i]
      /\ Len(q) \in Nat /\ Len(p) \in Nat
  BY AppendProperties, LenProperties
<1>2. PICK g \in [0..Len(q) -> 0..Len(p)] :
        /\ g[0] = a /\ g[Len(q)] = b
        /\ \A i \in 1..Len(q) :
             /\ OutputOf(e, q[i]) => g[i] = g[i - 1] + 1 /\ Body(q[i]) = p[g[i]]
             /\ ~OutputOf(e, q[i]) => g[i] = g[i - 1]
             /\ ResultOf(e, q[i]) => g[i] = Len(p)
  BY DEF Carries
<1>3. ASSUME NEW c \in 0..Len(p),
             OutputOf(e, f) => c = b + 1 /\ Body(f) = p[c],
             ~OutputOf(e, f) => c = b,
             ResultOf(e, f) => c = Len(p)
      PROVE  Carries(e, p, Append(q, f), a, c)
  <2> DEFINE m == Len(q) + 1
             h == [i \in 0..m |-> IF i = m THEN c ELSE g[i]]
  <2>1. \A i \in 0..m : i # m => i \in 0..Len(q)
    BY <1>1
  <2>2. h \in [0..m -> 0..Len(p)]
    BY <1>2, <1>3, <2>1
  <2>3. h[m] = c /\ \A i \in 0..Len(q) : h[i] = g[i]
    BY <1>1
  <2>4. h[0] = a /\ h[Len(q)] = b
    BY <1>1, <1>2, <2>3
  <2>5. ASSUME NEW i \in 1..m
        PROVE  /\ OutputOf(e, Append(q, f)[i]) => h[i] = h[i - 1] + 1 /\ Body(Append(q, f)[i]) = p[h[i]]
               /\ ~OutputOf(e, Append(q, f)[i]) => h[i] = h[i - 1]
               /\ ResultOf(e, Append(q, f)[i]) => h[i] = Len(p)
    <3>1. CASE i = m
      <4>1. Append(q, f)[i] = f /\ h[i] = c /\ i - 1 = Len(q)
        BY <1>1, <2>3, <3>1
      <4> HIDE DEF h, m
      <4> QED
        BY <1>3, <2>4, <4>1
    <3>2. CASE i # m
      <4>1. i \in 1..Len(q) /\ i \in 0..Len(q) /\ i - 1 \in 0..Len(q)
        BY <1>1, <3>2
      <4>2. Append(q, f)[i] = q[i] /\ h[i] = g[i] /\ h[i - 1] = g[i - 1]
        BY <1>1, <2>3, <4>1
      <4> HIDE DEF h, m
      <4> QED
        BY <1>2, <4>1, <4>2
    <3> QED
      BY <3>1, <3>2
  <2>6. Len(Append(q, f)) = m
    BY <1>1
  <2> HIDE DEF h, m
  <2> QED
    BY <2>2, <2>3, <2>4, <2>5, <2>6 DEF Carries
<1>4. b \in 0..Len(p)
  <2>1. Len(q) \in 0..Len(q)
    BY <1>1
  <2> QED
    BY <1>2, <2>1
<1>5. b + 1 \in 1..Len(p) => b + 1 \in 0..Len(p)
  BY <1>1, <1>4
<1>6. ResultOf(e, f) => ~OutputOf(e, f)
  BY DEF ResultOf, OutputOf
<1> QED
  BY <1>3, <1>4, <1>5, <1>6

\* A frame passes from one channel to the channel before it.
LEMMA CarriesPass ==
  ASSUME NEW e, NEW p \in Seq(Writes), NEW q \in Seq(UpFrames), NEW r \in Seq(UpFrames), r # <<>>,
         NEW a, NEW b, NEW c, Carries(e, p, q, a, b), Carries(e, p, r, b, c)
  PROVE  \E d \in 0..Len(p) :
           Carries(e, p, Append(q, Head(r)), a, d) /\ Carries(e, p, Tail(r), d, c)
<1>1. Head(r) \in UpFrames /\ Len(p) \in Nat
  BY HeadTail, LenProperties
<1>2. /\ OutputOf(e, Head(r)) =>
           b + 1 \in 1..Len(p) /\ Body(Head(r)) = p[b + 1] /\ Carries(e, p, Tail(r), b + 1, c)
      /\ ~OutputOf(e, Head(r)) => Carries(e, p, Tail(r), b, c)
      /\ ResultOf(e, Head(r)) => b = Len(p)
      /\ b \in 0..Len(p)
  BY CarriesTail
<1>3. /\ OutputOf(e, Head(r)) /\ b + 1 \in 1..Len(p) /\ Body(Head(r)) = p[b + 1]
           => Carries(e, p, Append(q, Head(r)), a, b + 1)
      /\ ~OutputOf(e, Head(r)) /\ (ResultOf(e, Head(r)) => b = Len(p))
           => Carries(e, p, Append(q, Head(r)), a, b)
  BY <1>1, CarriesAppend
<1>4. b + 1 \in 1..Len(p) => b + 1 \in 0..Len(p)
  BY <1>1, <1>2
<1> QED
  BY <1>2, <1>3, <1>4

\* One more write of an execution that has no result yet is still to be carried.
LEMMA CarriesGrow ==
  ASSUME NEW e, NEW p \in Seq(Writes), NEW w \in Writes, NEW q \in Seq(UpFrames), NEW a, NEW b,
         Carries(e, p, q, a, b), \A f \in Elems(q) : ~ResultOf(e, f)
  PROVE  Carries(e, Append(p, w), q, a, b)
<1>1. /\ Len(Append(p, w)) = Len(p) + 1 /\ \A i \in 1..Len(p) : Append(p, w)[i] = p[i]
      /\ Len(q) \in Nat /\ Len(p) \in Nat
  BY AppendProperties, LenProperties
<1>2. PICK g \in [0..Len(q) -> 0..Len(p)] :
        /\ g[0] = a /\ g[Len(q)] = b
        /\ \A i \in 1..Len(q) :
             /\ OutputOf(e, q[i]) => g[i] = g[i - 1] + 1 /\ Body(q[i]) = p[g[i]]
             /\ ~OutputOf(e, q[i]) => g[i] = g[i - 1]
             /\ ResultOf(e, q[i]) => g[i] = Len(p)
  BY DEF Carries
<1>3. g \in [0..Len(q) -> 0..Len(Append(p, w))]
  BY <1>1, <1>2
<1>4. ASSUME NEW i \in 1..Len(q)
      PROVE  /\ OutputOf(e, q[i]) => g[i] = g[i - 1] + 1 /\ Body(q[i]) = Append(p, w)[g[i]]
             /\ ~OutputOf(e, q[i]) => g[i] = g[i - 1]
             /\ ~ResultOf(e, q[i])
  <2>1. i \in 0..Len(q) /\ i - 1 \in 0..Len(q)
    BY <1>1
  <2>2. g[i] \in 0..Len(p) /\ g[i - 1] \in 0..Len(p)
    BY <1>2, <2>1
  <2>3. OutputOf(e, q[i]) => g[i] \in 1..Len(p)
    BY <1>1, <1>2, <2>2
  <2>4. ~ResultOf(e, q[i])
    BY DEF Elems
  <2> QED
    BY <1>1, <1>2, <2>3, <2>4
<1> QED
  BY <1>2, <1>3, <1>4 DEF Carries

\* The channels carry what is between the a writes the application has seen and
\* the end of p.
Pipe(e, p, a) ==
  \E b, c, d \in 0..Len(p) :
    /\ Carries(e, p, incoming, a, b) /\ Carries(e, p, up, b, c)
    /\ Carries(e, p, outgoing, c, d) /\ Carries(e, p, events, d, Len(p))

\* What the application has seen of e is the beginning of what e produced, and
\* the channels carry the rest.
InOrder(e) ==
  /\ Len(shown[e]) <= Len(produced[e])
  /\ \A i \in 1..Len(shown[e]) : shown[e][i] = produced[e][i]
  /\ state[e] \in Reasons => Len(shown[e]) = Len(produced[e])
  /\ Pipe(e, produced[e], Len(shown[e]))

Delivered == \A e \in Execs : InOrder(e)

\* At the start nothing was written.
LEMMA DeliveredInit == Init => Delivered
<1> SUFFICES ASSUME Init, NEW e \in Execs PROVE InOrder(e)
  BY DEF Delivered
<1>1. shown[e] = <<>> /\ produced[e] = <<>> /\ state[e] = "idle" /\ Len(<<>>) = 0
  BY EmptySeq DEF Init
<1>2. <<>> \in Seq(Writes) /\ 0 \in 0..Len(<<>>) /\ 1..0 = {}
  BY EmptySeq
<1>3. Carries(e, <<>>, <<>>, 0, 0)
  BY <1>2, CarriesNothing
<1>4. Pipe(e, <<>>, 0)
  BY <1>1, <1>2, <1>3 DEF Init, Pipe
<1> QED
  BY <1>1, <1>2, <1>4 DEF InOrder, Reasons

\* A step that changes the channels only, and keeps what they carry.
LEMMA DeliveredPipe ==
  ASSUME Delivered, \A e \in Execs : Pipe(e, produced[e], Len(shown[e]))',
         UNCHANGED <<shown, produced>>,
         \A e \in Execs : state'[e] \in Reasons => state[e] \in Reasons
  PROVE  Delivered'
  BY DEF Delivered, InOrder

\* The tasks that pass output on keep it in order.
LEMMA DeliveredPass ==
  ASSUME TypeOK, Delivered, Reader \/ Writer \/ Forward PROVE Delivered'
<1> USE DEF hostVars, socketVars, daemonVars, outputVars, workVars
<1>1. UNCHANGED <<shown, produced, state>>
  BY DEF Reader, Writer, Forward
<1>2. ASSUME NEW e \in Execs PROVE Pipe(e, produced[e], Len(shown[e]))'
  <2> DEFINE p == produced[e]
             a == Len(shown[e])
  <2>1. p \in Seq(Writes)
    BY DEF TypeOK
  <2>2. PICK b, c, d \in 0..Len(p) :
          /\ Carries(e, p, incoming, a, b) /\ Carries(e, p, up, b, c)
          /\ Carries(e, p, outgoing, c, d) /\ Carries(e, p, events, d, Len(p))
    BY DEF Delivered, InOrder, Pipe
  <2> HIDE DEF p, a
  <2>3. CASE Reader
    <3>1. /\ up # <<>> /\ incoming' = Append(incoming, Head(up)) /\ up' = Tail(up)
          /\ UNCHANGED <<outgoing, events>>
      BY <2>3 DEF Reader
    <3>2. \E x \in 0..Len(p) : Carries(e, p, incoming', a, x) /\ Carries(e, p, up', x, c)
      BY <2>1, <2>2, <3>1, CarriesPass DEF TypeOK
    <3> QED
      BY <1>1, <2>2, <3>1, <3>2 DEF Pipe, p, a
  <2>4. CASE Writer
    <3>1. /\ outgoing # <<>> /\ up' = Append(up, Head(outgoing)) /\ outgoing' = Tail(outgoing)
          /\ UNCHANGED <<incoming, events>>
      BY <2>4 DEF Writer
    <3>2. \E x \in 0..Len(p) : Carries(e, p, up', b, x) /\ Carries(e, p, outgoing', x, d)
      BY <2>1, <2>2, <3>1, CarriesPass DEF TypeOK
    <3> QED
      BY <1>1, <2>2, <3>1, <3>2 DEF Pipe, p, a
  <2>5. CASE Forward
    <3>1. /\ events # <<>> /\ outgoing' = Append(outgoing, Head(events)) /\ events' = Tail(events)
          /\ UNCHANGED <<incoming, up>>
      BY <2>5 DEF Forward
    <3>2. \E x \in 0..Len(p) : Carries(e, p, outgoing', c, x) /\ Carries(e, p, events', x, Len(p))
      BY <2>1, <2>2, <3>1, CarriesPass DEF TypeOK
    <3> QED
      BY <1>1, <2>2, <3>1, <3>2 DEF Pipe, p, a
  <2> QED
    BY <2>3, <2>4, <2>5
<1> QED
  BY <1>1, <1>2, DeliveredPipe

\* Other frames enter the daemon's channel; the result of an execution only when
\* its forwarding task has nothing left.
LEMMA DeliveredSend ==
  ASSUME TypeOK, InHand, Delivered, LoopAnswers \/ Started \/ SendResult PROVE Delivered'
<1> USE DEF hostVars, socketVars, daemonVars, outputVars, workVars
<1>1. UNCHANGED <<shown, produced, state, incoming, up, events>>
  BY DEF LoopAnswers, Started, SendResult
<1>2. \E f \in UpFrames :
        /\ outgoing' = Append(outgoing, f) /\ Kind(f) # "Output"
        /\ Kind(f) = "ExecuteResult" => events = <<>>
  <2>1. CASE LoopAnswers
    BY <2>1 DEF LoopAnswers, TypeOK, InHand
  <2>2. CASE Started
    BY <2>2, UpFrameConstructors DEF Started, TypeOK, InHand
  <2>3. CASE SendResult
    BY <2>3, UpFrameConstructors DEF SendResult, TypeOK, InHand
  <2> QED
    BY <2>1, <2>2, <2>3
<1>3. PICK f \in UpFrames :
        /\ outgoing' = Append(outgoing, f) /\ Kind(f) # "Output"
        /\ Kind(f) = "ExecuteResult" => events = <<>>
  BY <1>2
<1>4. ASSUME NEW e \in Execs PROVE Pipe(e, produced[e], Len(shown[e]))'
  <2> DEFINE p == produced[e]
             a == Len(shown[e])
  <2>1. p \in Seq(Writes)
    BY DEF TypeOK
  <2>2. PICK b, c, d \in 0..Len(p) :
          /\ Carries(e, p, incoming, a, b) /\ Carries(e, p, up, b, c)
          /\ Carries(e, p, outgoing, c, d) /\ Carries(e, p, events, d, Len(p))
    BY DEF Delivered, InOrder, Pipe
  <2> HIDE DEF p, a
  <2>3. events = <<>> => d = Len(p)
    BY <2>1, <2>2, CarriesNothing
  <2>4. ~OutputOf(e, f) /\ (ResultOf(e, f) => d = Len(p))
    BY <1>3, <2>3 DEF OutputOf, ResultOf
  <2>5. Carries(e, p, outgoing', c, d)
    BY <1>3, <2>1, <2>2, <2>4, CarriesAppend DEF TypeOK
  <2> QED
    BY <1>1, <2>2, <2>5 DEF Pipe, p, a
<1> QED
  BY <1>1, <1>4, DeliveredPipe

\* Output::write adds to what is produced and to what is to be forwarded.
LEMMA DeliveredWrite ==
  ASSUME TypeOK, InHand, Ordered, Delivered, NEW w \in Writes, Write(w) PROVE Delivered'
<1> USE DEF hostVars, socketVars, daemonVars, outputVars, workVars
<1>1. UNCHANGED <<shown, state, incoming, up, outgoing>> /\ guest = "running"
  BY DEF Write
<1>2. PICK x \in Execs : exec = x
  BY <1>1 DEF TypeOK, InHand
<1>3. ~Ended(x)
  BY <1>2, LinkAssumption DEF Ordered, RunsOnce, Execs
<1>4. CASE UNCHANGED <<events, produced>>
  <2>1. \A e \in Execs : Pipe(e, produced[e], Len(shown[e]))'
    BY <1>1, <1>4 DEF Delivered, InOrder, Pipe
  <2> QED
    BY <1>1, <1>4, <2>1, DeliveredPipe
<1>5. CASE ~UNCHANGED <<events, produced>>
  <2>1. PICK f \in UpFrames :
          /\ events' = Append(events, f) /\ Kind(f) = "Output" /\ Ident(f) = x /\ Body(f) = w
    BY <1>2, <1>5, UpFrameConstructors DEF Write
  <2>2. produced' = [produced EXCEPT ![x] = Append(produced[x], w)]
    BY <1>2, <1>5 DEF Write
  <2>3. ASSUME NEW e \in Execs PROVE InOrder(e)'
    <3> DEFINE p == produced[e]
               a == Len(shown[e])
    <3>1. p \in Seq(Writes)
      BY DEF TypeOK
    <3>2. PICK b, c, d \in 0..Len(p) :
            /\ Carries(e, p, incoming, a, b) /\ Carries(e, p, up, b, c)
            /\ Carries(e, p, outgoing, c, d) /\ Carries(e, p, events, d, Len(p))
      BY DEF Delivered, InOrder, Pipe
    <3> HIDE DEF p, a
    <3>3. CASE e # x
      <4>1. produced'[e] = p
        BY <2>2, <3>3 DEF TypeOK, p
      <4>2. ~OutputOf(e, f) /\ ~ResultOf(e, f)
        BY <2>1, <3>3 DEF OutputOf, ResultOf
      <4>3. Carries(e, p, events', d, Len(p))
        BY <2>1, <3>1, <3>2, <4>2, CarriesAppend DEF TypeOK
      <4>4. Pipe(e, produced[e], Len(shown[e]))'
        BY <1>1, <3>2, <4>1, <4>3 DEF Pipe, a
      <4> QED
        BY <1>1, <4>1, <4>4 DEF Delivered, InOrder, p
    <3>4. CASE e = x
      <4> DEFINE r == Append(p, w)
      <4>1. /\ r \in Seq(Writes) /\ Len(r) = Len(p) + 1 /\ r[Len(p) + 1] = w /\ Len(p) \in Nat
            /\ \A i \in 1..Len(p) : r[i] = p[i]
        BY <3>1, AppendProperties, LenProperties
      <4>2. /\ \A h \in Elems(incoming) \cup Elems(up) \cup Elems(outgoing) : ~ResultOf(e, h)
            /\ \A h \in Elems(events) : ~ResultOf(e, h)
            /\ state[e] \notin Reasons
        BY <1>3, <3>4 DEF Ended, Answers, InHand, OutputOf, ResultOf
      <4> HIDE DEF r
      <4>3. /\ Carries(e, r, incoming, a, b) /\ Carries(e, r, up, b, c)
            /\ Carries(e, r, outgoing, c, d) /\ Carries(e, r, events, d, Len(p))
        BY <3>1, <3>2, <4>2, CarriesGrow DEF TypeOK, r
      <4>4. OutputOf(e, f) /\ Len(p) + 1 \in 1..Len(r) /\ Body(f) = r[Len(p) + 1]
        BY <2>1, <3>4, <4>1 DEF OutputOf
      <4>5. Carries(e, r, events', d, Len(r))
        BY <2>1, <4>1, <4>3, <4>4, CarriesAppend DEF TypeOK
      <4>6. produced'[e] = r
        BY <2>2, <3>4 DEF TypeOK, p, r
      <4>7. b \in 0..Len(r) /\ c \in 0..Len(r) /\ d \in 0..Len(r)
        BY <3>2, <4>1
      <4>8. Pipe(e, produced[e], Len(shown[e]))'
        BY <1>1, <4>3, <4>5, <4>6, <4>7 DEF Pipe, a
      <4>9. /\ Len(shown[e]) \in Nat /\ Len(shown[e]) <= Len(p)
            /\ \A i \in 1..Len(shown[e]) : shown[e][i] = p[i]
        BY LenProperties DEF TypeOK, Delivered, InOrder, p
      <4> QED
        BY <1>1, <4>1, <4>2, <4>6, <4>8, <4>9 DEF InOrder
    <3> QED
      BY <3>3, <3>4
  <2> QED
    BY <2>3 DEF Delivered
<1> QED
  BY <1>4, <1>5

\* The actor receives a frame: output is shown, since an execution that still has
\* output on its way was asked for and has no result yet.
LEMMA DeliveredReceive ==
  ASSUME TypeOK, Ordered, Delivered, ActorReceives PROVE Delivered'
<1>1. PICK f \in UpFrames : f = Head(incoming)
  BY HeadTail DEF TypeOK, ActorReceives
<1>2. /\ incoming # <<>> /\ incoming' = Tail(incoming)
      /\ shown' = IF Kind(f) = "Output" /\ state[Ident(f)] = "asked"
                    THEN [shown EXCEPT ![Ident(f)] = Append(shown[Ident(f)], Body(f))] ELSE shown
      /\ state' = IF Kind(f) \in {"ExecuteResult", "ControlResult"}
                    THEN [state EXCEPT ![Ident(f)] = Body(f)] ELSE state
      /\ UNCHANGED <<up, outgoing, events, produced>>
  BY <1>1 DEF ActorReceives, socketVars, daemonVars, outputVars
<1>3. SUFFICES ASSUME NEW e \in Execs PROVE InOrder(e)'
  BY DEF Delivered
<1> DEFINE p == produced[e]
           s == shown[e]
<1>4. p \in Seq(Writes) /\ s \in Seq(Writes) /\ Len(p) \in Nat /\ Len(s) \in Nat
  BY LenProperties DEF TypeOK
<1>5. PICK b, c, d \in 0..Len(p) :
        /\ Carries(e, p, incoming, Len(s), b) /\ Carries(e, p, up, b, c)
        /\ Carries(e, p, outgoing, c, d) /\ Carries(e, p, events, d, Len(p))
  BY DEF Delivered, InOrder, Pipe
<1>6. /\ Len(s) <= Len(p) /\ \A i \in 1..Len(s) : s[i] = p[i]
      /\ state[e] \in Reasons => Len(s) = Len(p)
  BY DEF Delivered, InOrder
<1>7. state[e] \in {"idle", "asked"} \cup Reasons /\ (state[e] = "idle" => p = <<>>)
  BY DEF Ordered, RunsOnce, Pending
<1>8. produced'[e] = p
  BY <1>2
<1>9. ASSUME NEW t \in Seq(Writes), shown'[e] = t, Carries(e, p, incoming', Len(t), b)
      PROVE  Pipe(e, produced[e], Len(shown[e]))'
  BY <1>2, <1>5, <1>8, <1>9 DEF Pipe
<1>10. f \in UpFrames /\ (Kind(f) = "Output" => Ident(f) \in Execs)
  BY UpFrameFields
<1> HIDE DEF p, s
<1>11. /\ OutputOf(e, f) =>
            /\ Len(s) + 1 \in 1..Len(p) /\ Body(f) = p[Len(s) + 1]
            /\ Carries(e, p, incoming', Len(s) + 1, b)
       /\ ~OutputOf(e, f) => Carries(e, p, incoming', Len(s), b)
       /\ ResultOf(e, f) => Len(s) = Len(p)
  <2>1. incoming \in Seq(UpFrames) /\ incoming # <<>> /\ Carries(e, p, incoming, Len(s), b)
    BY <1>2, <1>5 DEF TypeOK
  <2>2. /\ OutputOf(e, Head(incoming)) =>
             /\ Len(s) + 1 \in 1..Len(p) /\ Body(Head(incoming)) = p[Len(s) + 1]
             /\ Carries(e, p, Tail(incoming), Len(s) + 1, b)
        /\ ~OutputOf(e, Head(incoming)) => Carries(e, p, Tail(incoming), Len(s), b)
        /\ ResultOf(e, Head(incoming)) => Len(s) = Len(p)
    BY <1>4, <2>1, CarriesTail
  <2> QED
    BY <1>1, <1>2, <2>2
<1>12. CASE OutputOf(e, f)
  <2>1. state[e] = "asked"
    BY <1>4, <1>6, <1>7, <1>11, <1>12, EmptySeq
  <2>2. shown'[e] = Append(s, Body(f)) /\ state' = state
    BY <1>2, <1>12, <2>1 DEF TypeOK, OutputOf, s
  <2>3. Body(f) \in Writes
    BY <1>12, UpFrameFields DEF OutputOf
  <2> DEFINE t == Append(s, Body(f))
  <2>4. /\ t \in Seq(Writes) /\ Len(t) = Len(s) + 1 /\ t[Len(s) + 1] = Body(f)
        /\ \A i \in 1..Len(s) : t[i] = s[i]
    BY <1>4, <2>3, AppendProperties
  <2> HIDE DEF t
  <2>5. shown'[e] = t
    BY <2>2 DEF t
  <2>6. Pipe(e, produced[e], Len(shown[e]))'
    BY <1>9, <1>11, <1>12, <2>4, <2>5
  <2>7. Len(t) <= Len(p) /\ \A i \in 1..Len(t) : t[i] = p[i]
    <3>1. Len(s) + 1 <= Len(p) /\ t[Len(s) + 1] = p[Len(s) + 1]
      BY <1>4, <1>11, <1>12, <2>4
    <3>2. \A i \in 1..Len(s) : t[i] = p[i]
      BY <1>6, <2>4
    <3>3. \A i \in 1..(Len(s) + 1) : i \in 1..Len(s) \/ i = Len(s) + 1
      BY <1>4
    <3> QED
      BY <2>4, <3>1, <3>2, <3>3
  <2> QED
    BY <1>8, <2>1, <2>2, <2>5, <2>6, <2>7 DEF InOrder, Reasons
<1>13. CASE ~OutputOf(e, f)
  <2>1. shown'[e] = s
    BY <1>2, <1>10, <1>13 DEF TypeOK, OutputOf, s
  <2>2. Pipe(e, produced[e], Len(shown[e]))'
    BY <1>4, <1>9, <1>11, <1>13, <2>1
  <2>3. state'[e] \in Reasons => Len(s) = Len(p)
    <3>1. CASE ResultOf(e, f)
      BY <1>11, <3>1
    <3>2. CASE ~ResultOf(e, f)
      <4>1. Kind(f) = "ControlResult" => Ident(f) # e
        BY UpFrameFields, LinkAssumption DEF Execs
      <4>2. state'[e] = state[e]
        BY <1>2, <3>2, <4>1 DEF TypeOK, ResultOf
      <4> QED
        BY <1>6, <4>2
    <3> QED
      BY <3>1, <3>2
  <2> QED
    BY <1>6, <1>8, <2>1, <2>2, <2>3 DEF InOrder
<1> QED
  BY <1>12, <1>13

\* Every step keeps the output in order.
LEMMA DeliveredStep == TypeOK /\ InHand /\ Ordered /\ Delivered /\ [Next]_vars => Delivered'
<1> SUFFICES ASSUME TypeOK, InHand, Ordered, Delivered, [Next]_vars PROVE Delivered'
  OBVIOUS
<1> USE DEF hostVars, socketVars, daemonVars, outputVars, workVars
<1>1. ASSUME UNCHANGED <<incoming, up, outgoing, events, shown, produced>>,
             \A e \in Execs : state'[e] \in Reasons => state[e] \in Reasons
      PROVE  Delivered'
  <2>1. \A e \in Execs : Pipe(e, produced[e], Len(shown[e]))'
    BY <1>1 DEF Delivered, InOrder, Pipe
  <2> QED
    BY <1>1, <2>1, DeliveredPipe
<1>2. ASSUME NEW x \in Requests \cup Execs, NEW f, Ask(x, f) PROVE Delivered'
  <2>1. \A e \in Execs : state'[e] = state[e] \/ state'[e] = "asked"
    BY <1>2 DEF Ask, TypeOK
  <2>2. \A e \in Execs : state'[e] \in Reasons => state[e] \in Reasons
    BY <2>1 DEF Reasons
  <2> QED
    BY <1>1, <1>2, <2>2 DEF Ask
<1>3. CASE (\E e \in Execs : Run(e)) \/ (\E r \in Requests : Control(r))
  BY <1>2, <1>3 DEF Run, Control
<1>4. CASE ActorTakes \/ ActorWrites \/ LoopExecute \/ LoopControl
  BY <1>1, <1>4 DEF ActorTakes, ActorWrites, LoopExecute, LoopControl
<1>5. CASE Begin \/ RunEnds \/ Join \/ CheckWrite
  BY <1>1, <1>5 DEF Begin, RunEnds, Join, CheckWrite
<1>6. CASE UNCHANGED vars
  BY <1>1, <1>6 DEF vars
<1> QED
  BY <1>3, <1>4, <1>5, <1>6, DeliveredPass, DeliveredSend, DeliveredWrite, DeliveredReceive
     DEF Next, Actor, Loop, Worker

\* The application sees the guest's output in order and, once it has the result of
\* an execution, all of it, however the frames of output, starts, results and
\* answers mix in the channels and the socket.
THEOREM OutputArrivesInOrder == Spec => []OutputInOrder
<1>1. TypeOK /\ Delivered => OutputInOrder
  <2> SUFFICES ASSUME TypeOK, Delivered, NEW e \in Execs
               PROVE  /\ IsPrefix(shown[e], produced[e])
                      /\ state[e] \in Reasons => shown[e] = produced[e]
    BY DEF OutputInOrder
  <2> DEFINE s == shown[e]
             p == produced[e]
  <2>1. s \in Seq(Writes) /\ p \in Seq(Writes) /\ Len(s) \in Nat /\ Len(p) \in Nat
    BY LenProperties DEF TypeOK
  <2>2. /\ Len(s) <= Len(p) /\ \A i \in 1..Len(s) : s[i] = p[i]
        /\ state[e] \in Reasons => Len(s) = Len(p)
    BY DEF Delivered, InOrder
  <2> HIDE DEF s, p
  <2>3. SubSeq(s, 1, Len(s)) = SubSeq(p, 1, Len(s))
    BY <2>1, <2>2
  <2>4. Len(s) = Len(p) => s = p
    BY <2>1, <2>2, SeqEqual
  <2> QED
    BY <2>1, <2>2, <2>3, <2>4 DEF IsPrefix, s, p
<1> QED
  BY <1>1, DeliveredInit, DeliveredStep, LinkTyped, AlwaysOrdered, PTL DEF Spec
=============================================================================
