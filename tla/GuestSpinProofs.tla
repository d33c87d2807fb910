-------------------------- MODULE GuestSpinProofs --------------------------
(***************************************************************************)
(* Theorems about GuestSpin, for every set of calls, every capacity of the *)
(* call queue and every number of executions, spins and updates: callers   *)
(* see the promise of WorkerCalls, a call is dropped only where a spin     *)
(* loop is left, and spin() is left for a cause.                           *)
(***************************************************************************)
EXTENDS GuestSpin, QueueFacts

CallFrame(c) == Frame("WorkerCall", c, "none")

\* What the guest, the import and the connection loop are in the middle of: a loop
\* that queues an update, or waits for it, has it at the head of the socket; every failure ends a
\* spin of its own; an event is held only from the import's return to its use.
InHand ==
  /\ checked \/ await => down # <<>> /\ Head(down).kind = "UpdateLimits"
  /\ ~(checked /\ await)
  /\ failures <= spins /\ (guest \in {"spin", "serving"} => failures < spins)
  /\ next # "none" => guest \in {"spin", "draining"}
  /\ next \in {"none", "waiting"} => event = "none"
  /\ guest = "unwinding" => unwound

-----------------------------------------------------------------------------
(* Types *)

\* The frames that travel down.
LEMMA DownFrameFields ==
  /\ \A k \in {"Execute", "UpdateLimits", "CloseWorker"} :
       Note(k) \in DownFrames /\ Note(k).kind = k /\ Note(k).id = "none"
  /\ \A c \in Calls :
       /\ CallFrame(c) \in DownFrames /\ CallFrame(c).kind = "WorkerCall" /\ CallFrame(c).id = c
  /\ \A f \in DownFrames :
       \/ f.kind = "WorkerCall" /\ f.id \in Calls /\ f = CallFrame(f.id)
       \/ /\ f.kind \in {"Execute", "UpdateLimits", "CloseWorker"} /\ f.id = "none"
          /\ f = Note(f.kind)
<1>1. /\ \A k : Note(k).kind = k /\ Note(k).id = "none"
      /\ \A c : CallFrame(c).kind = "WorkerCall" /\ CallFrame(c).id = c
  BY DEF Note, Frame, CallFrame
<1>2. DownFrames = {Note(k) : k \in {"Execute", "UpdateLimits", "CloseWorker"}}
                   \cup {CallFrame(c) : c \in Calls}
  BY DEF DownFrames, CallFrame
<1> QED
  BY <1>1, <1>2

\* The frames that travel up.
LEMMA UpFrameFields ==
  /\ \A k \in {"ExecuteStarted", "ExecuteResult", "ControlResult"} :
       Note(k) \in UpFrames /\ Note(k).kind = k /\ Note(k).id = "none"
  /\ \A c \in Calls, d \in Outcomes :
       LET f == Frame("WorkerResponse", c, d)
       IN f \in UpFrames /\ f.kind = "WorkerResponse" /\ f.id = c /\ f.detail = d
  /\ \A f \in UpFrames :
       \/ f.kind = "WorkerResponse" /\ f.id \in Calls /\ f.detail \in Outcomes
       \/ f.kind \in {"ExecuteStarted", "ExecuteResult", "ControlResult"} /\ f.id = "none"
<1>1. \A k : Note(k).kind = k /\ Note(k).id = "none"
  BY DEF Note, Frame
<1>2. \A c, d : LET f == Frame("WorkerResponse", c, d)
               IN f.kind = "WorkerResponse" /\ f.id = c /\ f.detail = d
  BY DEF Frame
<1> QED
  BY <1>1, <1>2 DEF UpFrames

\* A call is none of the other events.
LEMMA CallsApart == \A c \in Calls : c # "none" /\ c # "update" /\ c # "end"
  BY GuestSpinAssumption

\* At the start.
LEMMA TypeInit == Init => TypeOK /\ InHand
<1> SUFFICES ASSUME Init PROVE TypeOK /\ InHand
  OBVIOUS
<1>1. /\ <<>> \in Seq(DownFrames) /\ <<>> \in Seq(UpFrames) /\ <<>> \in Seq(Calls)
      /\ <<>> \in Seq({"ApplyUpdates", "Close", "WakeSpinNext"}) /\ Len(<<>>) = 0
  BY EmptySeq
<1>2. 0 \in 0..MaxExecs /\ 0 \in 0..MaxUpdates /\ 0 \in 0..QueueCapacity /\ 0 \in 0..MaxSpins
      /\ 0 <= QueueCapacity
  BY GuestSpinAssumption
<1>3. /\ outcome \in [Calls -> Outcomes] /\ runs \in [Calls -> Nat]
      /\ task \in [Calls -> {"none", "running", "cancelling", "returned", "failed"}]
  BY DEF Init, Outcomes
<1>4. event \in Events /\ unwound \in BOOLEAN /\ mode \in BOOLEAN /\ await \in BOOLEAN
      /\ checked \in BOOLEAN /\ closing \in BOOLEAN /\ ready \in BOOLEAN /\ open \in BOOLEAN
  BY DEF Init, Events
<1>5. TypeOK
  BY <1>1, <1>2, <1>3, <1>4 DEF Init, TypeOK
<1>6. InHand
  BY DEF Init, InHand
<1> QED
  BY <1>5, <1>6

\* The application submits frames behind the ones on the socket.
LEMMA TypeApplication ==
  ASSUME TypeOK, InHand, Application PROVE TypeOK' /\ InHand'
<1> USE DEF hostVars, daemonVars, spinVars
<1>1. ASSUME NEW f \in DownFrames, down' = Append(down, f)
      PROVE  /\ down' \in Seq(DownFrames)
             /\ checked \/ await => down' # <<>> /\ Head(down').kind = "UpdateLimits"
  BY <1>1, AppendKeepsHead DEF TypeOK, InHand
<1>2. CASE Run
  <2>1. asked' \in 0..MaxExecs
    BY <1>2, GuestSpinAssumption DEF TypeOK, Run
  <2> QED
    BY <1>1, <1>2, <2>1, DownFrameFields, SMTT(30) DEF TypeOK, InHand, Run
<1>3. CASE Update
  <2>1. updates' \in 0..MaxUpdates
    BY <1>3, GuestSpinAssumption DEF TypeOK, Update
  <2> QED
    BY <1>1, <1>3, <2>1, DownFrameFields DEF TypeOK, InHand, Update
<1>4. CASE CloseWorker
  BY <1>1, <1>4, DownFrameFields DEF TypeOK, InHand, CloseWorker
<1>5. ASSUME NEW c \in Calls, Call(c) PROVE TypeOK' /\ InHand'
  <2>1. outcome' \in [Calls -> Outcomes]
    BY <1>5 DEF TypeOK, Call, Outcomes
  <2> QED
    BY <1>1, <1>5, <2>1, DownFrameFields DEF TypeOK, InHand, Call, CallFrame
<1> QED
  BY <1>2, <1>3, <1>4, <1>5 DEF Application

\* The connection actor and the daemon's loop keep the types.
LEMMA TypeConnection ==
  ASSUME TypeOK, InHand, Receive \/ Loop PROVE TypeOK' /\ InHand'
<1> USE DEF hostVars, daemonVars, spinVars
<1>1. ASSUME down # <<>> PROVE Head(down) \in DownFrames /\ Tail(down) \in Seq(DownFrames)
  BY <1>1, HeadTail DEF TypeOK
<1>2. \A f \in UpFrames : Append(up, f) \in Seq(UpFrames)
  BY AppendKeepsHead DEF TypeOK
<1>3. CASE Receive
  <2>1. Head(up) \in UpFrames /\ up' \in Seq(UpFrames)
    BY <1>3, HeadTail DEF TypeOK, Receive
  <2>2. outcome' \in [Calls -> Outcomes]
    <3>1. ASSUME NEW c \in Calls, Head(up).id = c PROVE Head(up).detail \in Outcomes
      BY <2>1, <3>1, UpFrameFields, CallsApart
    <3> QED
      BY <1>3, <3>1 DEF TypeOK, Receive, Outcomes
  <2>3. ready' \in BOOLEAN
    BY <1>3 DEF TypeOK, Receive
  <2> QED
    BY <1>3, <2>1, <2>2, <2>3 DEF TypeOK, InHand, Receive
<1>4. CASE HandleExecute
  <2>1. /\ down' \in Seq(DownFrames) /\ ~await /\ ~checked
        /\ UNCHANGED <<hostVars, checked, await, callQueue, controlQueue, guest, spinVars>> /\ open' = TRUE
    BY <1>1, <1>4 DEF HandleExecute, Handling
  <2>2. \/ commands < QueueCapacity /\ commands' = commands + 1 /\ up' = up
        \/ up' = Append(up, Note("ExecuteResult")) /\ commands' = commands
    BY <1>4 DEF HandleExecute
  <2>3. commands' \in 0..QueueCapacity
    BY <2>2, GuestSpinAssumption DEF TypeOK
  <2>4. up' \in Seq(UpFrames)
    <3>1. up \in Seq(UpFrames) /\ Append(up, Note("ExecuteResult")) \in Seq(UpFrames)
      BY <1>2, UpFrameFields DEF TypeOK
    <3> QED
      BY <2>2, <3>1
  <2> QED
    BY <2>1, <2>3, <2>4 DEF TypeOK, InHand
<1>5. CASE HandleWorkerCall
  <2>1. /\ down' \in Seq(DownFrames) /\ ~await /\ ~checked /\ Head(down).id \in Calls
        /\ UNCHANGED <<hostVars, daemonVars, controlQueue, guest, spinVars>>
    BY <1>1, <1>5, DownFrameFields DEF HandleWorkerCall, Handling
  <2>2. PICK c \in Calls : c = Head(down).id
    BY <2>1
  <2>3. \A d \in {"full", "no_worker"} : Append(up, Frame("WorkerResponse", c, d)) \in Seq(UpFrames)
    BY <1>2, UpFrameFields DEF Outcomes
  <2>4. up' \in Seq(UpFrames)
    BY <1>5, <2>2, <2>3 DEF TypeOK, HandleWorkerCall, Enqueue
  <2>5. callQueue' \in Seq(Calls) /\ Len(callQueue') <= QueueCapacity
    <3>1. Append(callQueue, c) \in Seq(Calls) /\ Len(Append(callQueue, c)) = Len(callQueue) + 1
          /\ Len(callQueue) \in Nat
      BY AppendProperties, LenProperties DEF TypeOK
    <3>2. \/ callQueue' = callQueue
          \/ Len(callQueue) < QueueCapacity /\ callQueue' = Append(callQueue, c)
      BY <1>5, <2>2 DEF HandleWorkerCall, Enqueue
    <3>3. callQueue \in Seq(Calls) /\ Len(callQueue) <= QueueCapacity /\ QueueCapacity \in Nat
      BY GuestSpinAssumption DEF TypeOK
    <3> QED
      BY <3>1, <3>2, <3>3
  <2> QED
    BY <2>1, <2>4, <2>5, SMTT(30) DEF TypeOK, InHand
<1>6. CASE HandleUpdate
  <2>1. /\ down # <<>> /\ ~await /\ Head(down).kind = "UpdateLimits"
        /\ UNCHANGED <<up, hostVars, open, commands, await, callQueue, controlQueue, guest, spinVars>>
        /\ \/ checked' = TRUE /\ down' = down
           \/ checked' = FALSE /\ down' = Tail(down)
    BY <1>6 DEF HandleUpdate, Handling
  <2>2. /\ down' \in Seq(DownFrames) /\ checked' \in BOOLEAN
        /\ checked' => down' # <<>> /\ Head(down').kind = "UpdateLimits"
    BY <1>1, <2>1 DEF TypeOK
  <2> QED
    BY <2>1, <2>2 DEF TypeOK, InHand
<1>8. CASE QueueUpdate
  <2>1. /\ checked /\ ~checked' /\ checked' \in BOOLEAN /\ await' \in BOOLEAN
        /\ controlQueue' = Append(controlQueue, "ApplyUpdates")
        /\ UNCHANGED <<down, up, hostVars, open, commands, callQueue, guest, spinVars>>
    BY <1>8 DEF QueueUpdate
  <2>2. Append(controlQueue, "ApplyUpdates") \in Seq({"ApplyUpdates", "Close", "WakeSpinNext"})
    BY AppendKeepsHead DEF TypeOK
  <2> QED
    BY <2>1, <2>2 DEF TypeOK, InHand
<1>7. CASE HandleClose
  <2>1. /\ down' \in Seq(DownFrames) /\ ~await /\ ~checked /\ open' = FALSE
        /\ controlQueue' = Append(controlQueue, "Close")
        /\ up' = Append(up, Note("ControlResult"))
        /\ UNCHANGED <<hostVars, commands, checked, await, callQueue, guest, spinVars>>
    BY <1>1, <1>7 DEF HandleClose, Handling
  <2>2. Append(controlQueue, "Close") \in Seq({"ApplyUpdates", "Close", "WakeSpinNext"})
    BY AppendKeepsHead DEF TypeOK
  <2>3. up' \in Seq(UpFrames)
    BY <1>2, <2>1, UpFrameFields
  <2> QED
    BY <2>1, <2>2, <2>3 DEF TypeOK, InHand
<1> QED
  BY <1>3, <1>4, <1>5, <1>6, <1>7, <1>8 DEF Loop

\* An update that was awaited leaves the socket when it is applied.
LEMMA TypeApplied ==
  ASSUME TypeOK, InHand, Applied
  PROVE  /\ down' \in Seq(DownFrames) /\ ~await' /\ await' \in BOOLEAN
         /\ checked => down' # <<>> /\ Head(down').kind = "UpdateLimits"
  BY HeadTail DEF TypeOK, InHand, Applied

\* The worker actor and the import keep the types.
LEMMA TypeActor ==
  ASSUME TypeOK, InHand,
         Begin \/ ProgramEnds \/ Interrupt \/ EpochApplies \/ SpinNextControl \/ SpinNextCall
  PROVE  TypeOK' /\ InHand'
<1> USE DEF hostVars, daemonVars, spinVars
<1>1. \A f \in UpFrames : Append(up, f) \in Seq(UpFrames)
  BY AppendKeepsHead DEF TypeOK
<1>2. CASE Begin
  <2>1. commands' \in 0..QueueCapacity /\ up' \in Seq(UpFrames)
    BY <1>1, <1>2, UpFrameFields, GuestSpinAssumption DEF TypeOK, Begin
  <2>2. /\ down' \in Seq(DownFrames) /\ ~await' /\ await' \in BOOLEAN
        /\ checked => down' # <<>> /\ Head(down').kind = "UpdateLimits"
    BY <1>2, TypeApplied DEF Begin
  <2> QED
    BY <1>2, <2>1, <2>2 DEF TypeOK, InHand, Begin
<1>3. CASE Ends
  <2>1. /\ up' \in Seq(UpFrames) /\ down' \in Seq(DownFrames) /\ ~await' /\ await' \in BOOLEAN
        /\ checked => down' # <<>> /\ Head(down').kind = "UpdateLimits"
    BY <1>1, <1>3, UpFrameFields, TypeApplied DEF Ends, Applied
  <2>2. event' \in Events /\ task' \in [Calls -> {"none", "running", "cancelling", "returned", "failed"}]
    BY <1>3 DEF Ends, Events
  <2> QED
    BY <1>3, <2>1, <2>2 DEF TypeOK, InHand, Ends
<1>4. CASE EpochApplies
  <2>1. /\ down' \in Seq(DownFrames) /\ ~await' /\ await' \in BOOLEAN
        /\ checked => down' # <<>> /\ Head(down').kind = "UpdateLimits"
    BY <1>4, TypeApplied DEF EpochApplies, Applied
  <2> QED
    BY <1>4, <2>1 DEF TypeOK, InHand, EpochApplies
<1>5. CASE SpinNextControl
  <2>1. /\ next = "waiting" /\ controlQueue # <<>> /\ controlQueue' = Tail(controlQueue)
        /\ event' = EventOf(Head(controlQueue)) /\ next' = "returned"
        /\ Applied \/ UNCHANGED <<down, await>>
        /\ UNCHANGED <<up, hostVars, open, commands, checked, callQueue, guest, mode, task, runs, spins,
                       failures, unwound>>
    BY <1>5 DEF SpinNextControl
  <2>2. controlQueue' \in Seq({"ApplyUpdates", "Close", "WakeSpinNext"})
    BY <2>1, HeadTail DEF TypeOK
  <2>3. event' \in Events
    BY <2>1 DEF EventOf, Events
  <2>4. /\ down' \in Seq(DownFrames) /\ await' \in BOOLEAN
        /\ checked \/ await' => down' # <<>> /\ Head(down').kind = "UpdateLimits"
        /\ ~(checked /\ await')
    BY <2>1, TypeApplied DEF TypeOK, InHand
  <2> QED
    BY <2>1, <2>2, <2>3, <2>4 DEF TypeOK, InHand
<1>6. CASE SpinNextCall
  <2>1. /\ next = "waiting" /\ callQueue # <<>> /\ event' = Head(callQueue)
        /\ callQueue' = Tail(callQueue) /\ next' = "returned"
        /\ UNCHANGED <<down, up, hostVars, daemonVars, controlQueue, guest, mode, task, runs, spins,
                       failures, unwound>>
    BY <1>6 DEF SpinNextCall, TakeCall
  <2>2. Head(callQueue) \in Calls /\ callQueue' \in Seq(Calls) /\ Len(callQueue') <= QueueCapacity
    BY <2>1, HeadTailProperties, LenProperties, GuestSpinAssumption DEF TypeOK
  <2>3. event' \in Events
    BY <2>1, <2>2 DEF Events
  <2> QED
    BY <2>1, <2>2, <2>3 DEF TypeOK, InHand
<1> QED
  BY <1>2, <1>3, <1>4, <1>5, <1>6 DEF ProgramEnds, Interrupt

\* The guest's program and its spin loop keep the types.
LEMMA TypeGuest ==
  ASSUME TypeOK, InHand, Spin \/ SpinLoop \/ \E c \in Calls : ServingDone(c) \/ TaskAnswers(c) \/ TaskFails(c)
  PROVE  TypeOK' /\ InHand'
<1> USE DEF hostVars, daemonVars, spinVars
<1> DEFINE Steps == {"none", "running", "cancelling", "returned", "failed"}
<1>0. spins \in 0..MaxSpins /\ failures \in 0..MaxSpins /\ MaxSpins \in Nat
  BY GuestSpinAssumption DEF TypeOK
<1>1. \A c \in Calls : Append(up, Frame("WorkerResponse", c, "answered")) \in Seq(UpFrames)
  BY AppendKeepsHead, UpFrameFields DEF TypeOK, Outcomes
<1>2. CASE Spin
  <2>1. spins' = spins + 1 /\ spins' \in 0..MaxSpins /\ mode' \in BOOLEAN /\ guest = "program" /\ failures' = failures
    BY <1>0, <1>2, GuestSpinAssumption DEF Spin
  <2>2. failures < spins' /\ event = "none"
    BY <1>0, <1>2, <2>1 DEF InHand
  <2> QED
    BY <1>2, <2>1, <2>2 DEF TypeOK, InHand, Spin
<1>3. CASE SpinTaskDone
  BY <1>3 DEF TypeOK, InHand, SpinTaskDone
<1>4. CASE SequentialTurn
  <2>1. task' \in [Calls -> Steps] /\ runs' \in [Calls -> Nat]
    <3>1. \/ UNCHANGED <<task, runs>>
          \/ /\ event \in Calls /\ task' = [task EXCEPT ![event] = "running"]
             /\ runs' = [runs EXCEPT ![event] = runs[event] + 1]
      BY <1>4 DEF SequentialTurn
    <3>2. task \in [Calls -> Steps] /\ runs \in [Calls -> Nat]
      BY DEF TypeOK
    <3> QED
      BY <3>1, <3>2
  <2>2. event' \in Events
    BY <1>4 DEF SequentialTurn, Events
  <2> QED
    BY <1>4, <2>1, <2>2 DEF TypeOK, InHand, SequentialTurn
<1>5. ASSUME NEW c \in Calls, ServingDone(c) PROVE TypeOK' /\ InHand'
  <2>1. task' \in [Calls -> Steps] /\ up' \in Seq(UpFrames)
    BY <1>1, <1>5 DEF TypeOK, ServingDone
  <2>2. failures' \in 0..MaxSpins /\ failures' <= spins /\ (guest' = "spin" => failures' < spins)
    BY <1>0, <1>5 DEF InHand, ServingDone
  <2>3. event = "none"
    BY <1>5 DEF TypeOK, InHand, ServingDone
  <2> QED
    BY <1>5, <2>1, <2>2, <2>3, ZenonT(60) DEF TypeOK, InHand, ServingDone
<1>6. ASSUME NEW c \in Calls, TaskAnswers(c) PROVE TypeOK' /\ InHand'
  BY <1>1, <1>6 DEF TypeOK, InHand, TaskAnswers
<1>7. ASSUME NEW c \in Calls, TaskFails(c) PROVE TypeOK' /\ InHand'
  BY <1>7 DEF TypeOK, InHand, TaskFails
<1>8. ASSUME Unwind PROVE task' \in [Calls -> Steps] /\ event' \in Events
  BY <1>8 DEF TypeOK, Unwind, Events
<1>9. CASE FailureTurn
  <2>1. failures' \in 0..MaxSpins /\ failures' <= spins
    BY <1>0, <1>9 DEF InHand, FailureTurn
  <2>2. CASE next # "done"
    <3>1. /\ controlQueue' = Append(controlQueue, "WakeSpinNext") /\ guest' = "draining"
          /\ UNCHANGED <<next, event, unwound, task>>
          /\ UNCHANGED <<down, up, hostVars, daemonVars, callQueue, mode, runs, spins>>
      BY <1>9, <2>2 DEF FailureTurn
    <3>2. controlQueue' \in Seq({"ApplyUpdates", "Close", "WakeSpinNext"})
      BY <3>1, AppendKeepsHead DEF TypeOK
    <3> QED
      BY <2>1, <3>1, <3>2 DEF TypeOK, InHand
  <2>3. CASE next = "done"
    BY <1>8, <1>9, <2>1, <2>3 DEF TypeOK, InHand, FailureTurn, Unwind
  <2> QED
    BY <2>2, <2>3
<1>10. CASE Drained
  BY <1>8, <1>10 DEF TypeOK, InHand, Drained, Unwind
<1>11. CASE Turn
  <2>1. CASE next # "done" /\ Finished # {}
    <3>1. task' \in [Calls -> Steps] /\ UNCHANGED <<guest, next, event, runs, unwound>>
      BY <1>11, <2>1 DEF TypeOK, Turn
    <3> QED
      BY <1>11, <3>1 DEF TypeOK, InHand, Turn
  <2>2. CASE next = "done" /\ event = "end"
    BY <1>8, <1>11, <2>2 DEF TypeOK, InHand, Turn, Unwind
  <2>3. CASE next = "done" /\ event # "end"
    <3>1. /\ StartCall /\ next' = "waiting" /\ event' = "none" /\ UNCHANGED <<guest, unwound>>
          /\ UNCHANGED <<down, up, hostVars, daemonVars, callQueue, controlQueue, mode, spins, failures>>
          /\ guest = "spin"
      BY <1>11, <2>3 DEF Turn
    <3>2. task' \in [Calls -> Steps] /\ runs' \in [Calls -> Nat]
      BY <3>1 DEF TypeOK, StartCall
    <3> QED
      BY <3>1, <3>2 DEF TypeOK, InHand, Events
  <2> QED
    BY <1>11, <2>1, <2>2, <2>3 DEF Turn
<1>12. CASE Unwound
  BY <1>12 DEF TypeOK, InHand, Unwound
<1> QED
  BY <1>2, <1>3, <1>4, <1>5, <1>6, <1>7, <1>9, <1>10, <1>11, <1>12 DEF SpinLoop

\* Every step keeps the types.
LEMMA TypeStep == TypeOK /\ InHand /\ [Next]_vars => TypeOK' /\ InHand'
<1>1. ASSUME TypeOK, InHand, UNCHANGED vars PROVE TypeOK' /\ InHand'
  BY <1>1 DEF TypeOK, InHand, vars, hostVars, daemonVars, spinVars
<1> QED
  BY <1>1, TypeApplication, TypeConnection, TypeActor, TypeGuest DEF Next, Guest

\* Every frame, queue, event and task of the calls has its type, the call queue and
\* the command queue keep to their capacity, and every failed handler has ended a
\* spin of its own.
THEOREM SpinTyped == Spec => [](TypeOK /\ InHand)
  BY TypeInit, TypeStep, PTL DEF Spec

-----------------------------------------------------------------------------
(* A call is in one place and runs at most once. *)

\* A call no handler has begun: on the socket, in the queue, or in spin()'s hand.
Fresh(c) == CallFrame(c) \in Elems(down) \/ c \in Elems(callQueue) \/ event = c

\* It is in one of these places, once.
OnePlace ==
  /\ \A c \in Calls : Once(down, CallFrame(c))
  /\ Distinct(callQueue)
  /\ \A c \in Elems(callQueue) : CallFrame(c) \notin Elems(down)
  /\ event \in Calls => event \notin Elems(callQueue) /\ CallFrame(event) \notin Elems(down)

\* What the place of a call says of its run and of what its caller knows.
Kept(c) ==
  /\ runs[c] \in {0, 1} /\ (outcome[c] = "idle" => runs[c] = 0)
  /\ Fresh(c) => runs[c] = 0 /\ outcome[c] \in {"waiting", "stopped"}
  /\ task[c] # "none" => runs[c] = 1
  /\ \A f \in Elems(up) : f.id = c =>
       /\ ~Fresh(c) /\ outcome[c] # "idle" /\ f.detail \in {"answered", "full", "no_worker"}
       /\ f.detail = "answered" <=> runs[c] = 1

Promised == OnePlace /\ \A c \in Calls : Kept(c)


\* At the start no call was made.
LEMMA PromisedInit == Init => Promised
<1> SUFFICES ASSUME Init PROVE Promised
  OBVIOUS
<1>1. Elems(down) = {} /\ Elems(callQueue) = {} /\ Elems(up) = {} /\ Distinct(callQueue)
  BY EmptyElems DEF Init
<1>2. \A c \in Calls : Once(down, CallFrame(c))
  BY EmptySeq DEF Init, Once
<1>3. event \notin Calls
  BY CallsApart DEF Init
<1>4. \A c \in Calls : outcome[c] = "idle" /\ runs[c] = 0 /\ task[c] = "none"
  BY DEF Init
<1> QED
  BY <1>1, <1>2, <1>3, <1>4 DEF Promised, OnePlace, Kept, Fresh

\* A step that brings no call further keeps the promise: calls may only be dropped.
LEMMA PromisedKeep ==
  ASSUME Promised,
         \A c \in Calls : /\ CallFrame(c) \in Elems(down') => CallFrame(c) \in Elems(down)
                          /\ Once(down', CallFrame(c))
                          /\ task'[c] # "none" => task[c] # "none",
         event' = event \/ event' \notin Calls,
         \A f \in Elems(up') : f \in Elems(up) \/ f.id \notin Calls,
         UNCHANGED <<callQueue, runs, outcome>>, Elems(callQueue) \subseteq Calls
  PROVE  Promised'
<1>1. \A c \in Calls : Fresh(c)' => Fresh(c)
  BY DEF Fresh
<1>2. OnePlace'
  BY DEF Promised, OnePlace
<1>3. \A c \in Calls : Kept(c)'
  BY <1>1 DEF Promised, Kept
<1> QED
  BY <1>2, <1>3 DEF Promised

\* The socket loses its head, or takes a frame that is no call.
LEMMA SocketKeeps ==
  ASSUME TypeOK, Promised,
         \/ down' = down
         \/ down # <<>> /\ down' = Tail(down)
         \/ \E k \in {"Execute", "UpdateLimits", "CloseWorker"} : down' = Append(down, Note(k))
  PROVE  \A c \in Calls : /\ CallFrame(c) \in Elems(down') => CallFrame(c) \in Elems(down)
                          /\ Once(down', CallFrame(c))
<1>0. \A c \in Calls : Once(down, CallFrame(c))
  BY DEF Promised, OnePlace
<1>1. CASE down' = down
  BY <1>0, <1>1
<1>2. CASE down # <<>> /\ down' = Tail(down)
  <2>1. Elems(down') \subseteq Elems(down) /\ \A x : Once(down, x) => Once(down', x)
    BY <1>2, TailRest DEF TypeOK
  <2> QED
    BY <1>0, <2>1
<1>3. ASSUME NEW k \in {"Execute", "UpdateLimits", "CloseWorker"}, down' = Append(down, Note(k)),
             NEW c \in Calls
      PROVE  /\ CallFrame(c) \in Elems(down') => CallFrame(c) \in Elems(down)
             /\ Once(down', CallFrame(c))
  <2>1. Note(k) # CallFrame(c) /\ Note(k) \in DownFrames
    BY DownFrameFields
  <2>2. Elems(down') = Elems(down) \cup {Note(k)}
    BY <1>3, <2>1, AppendElems DEF TypeOK
  <2>3. Once(down', CallFrame(c))
    BY <1>0, <1>3, <2>1, AppendOnce DEF TypeOK
  <2> QED
    BY <2>1, <2>2, <2>3
<1> QED
  BY <1>1, <1>2, <1>3

\* The notes the daemon sends are about no call.
LEMMA AnswersKeep ==
  ASSUME TypeOK, \/ up' = up
                 \/ \E k \in {"ExecuteStarted", "ExecuteResult", "ControlResult"} :
                      up' = Append(up, Note(k))
  PROVE  \A f \in Elems(up') : f \in Elems(up) \/ f.id \notin Calls
<1>1. ASSUME NEW k \in {"ExecuteStarted", "ExecuteResult", "ControlResult"}, up' = Append(up, Note(k))
      PROVE  Elems(up') = Elems(up) \cup {Note(k)} /\ Note(k).id \notin Calls
  BY <1>1, AppendElems, UpFrameFields, CallsApart DEF TypeOK
<1> QED
  BY <1>1

\* The steps of the connection that concern no call.
LEMMA PromisedNotes ==
  ASSUME TypeOK, InHand, Promised,
         Run \/ Update \/ CloseWorker \/ HandleExecute \/ HandleUpdate \/ QueueUpdate \/ HandleClose
  PROVE  Promised'
<1> USE DEF hostVars, daemonVars, spinVars
<1>1. UNCHANGED <<callQueue, runs, outcome, event, task>>
  BY DEF Run, Update, CloseWorker, HandleExecute, HandleUpdate, QueueUpdate, HandleClose
<1>2. \/ down' = down
      \/ down # <<>> /\ down' = Tail(down)
      \/ \E k \in {"Execute", "UpdateLimits", "CloseWorker"} : down' = Append(down, Note(k))
  BY DEF Run, Update, CloseWorker, HandleExecute, HandleUpdate, QueueUpdate, HandleClose, Handling
<1>3. \/ up' = up
      \/ \E k \in {"ExecuteStarted", "ExecuteResult", "ControlResult"} : up' = Append(up, Note(k))
  BY DEF Run, Update, CloseWorker, HandleExecute, HandleUpdate, QueueUpdate, HandleClose
<1>4. Elems(callQueue) \subseteq Calls
  BY ElemsType DEF TypeOK
<1> QED
  BY <1>1, <1>2, <1>3, <1>4, SocketKeeps, AnswersKeep, PromisedKeep

\* The steps of the worker that concern no call, or drop calls.
LEMMA PromisedDrops ==
  ASSUME TypeOK, InHand, Promised,
         \/ Begin \/ ProgramEnds \/ Interrupt \/ EpochApplies \/ Spin \/ SpinNextControl
         \/ SpinTaskDone \/ FailureTurn \/ Drained \/ Unwound
         \/ \E c \in Calls : TaskFails(c)
  PROVE  Promised'
<1> USE DEF hostVars, daemonVars, spinVars
<1>1. UNCHANGED <<callQueue, runs, outcome>>
  BY DEF Begin, ProgramEnds, Interrupt, Ends, EpochApplies, Spin, SpinNextControl, SpinTaskDone,
     FailureTurn, Drained, Unwound, TaskFails
<1>2. ASSUME Applied PROVE down' = down \/ (down # <<>> /\ down' = Tail(down))
  BY <1>2 DEF Applied, InHand
<1>3. \/ down' = down
      \/ down # <<>> /\ down' = Tail(down)
  BY <1>2 DEF Begin, ProgramEnds, Interrupt, Ends, EpochApplies, Spin, SpinNextControl, SpinTaskDone,
     FailureTurn, Drained, Unwound, TaskFails
<1>4. \/ up' = up
      \/ \E k \in {"ExecuteStarted", "ExecuteResult", "ControlResult"} : up' = Append(up, Note(k))
  BY DEF Begin, ProgramEnds, Interrupt, Ends, EpochApplies, Spin, SpinNextControl, SpinTaskDone,
     FailureTurn, Drained, Unwound, TaskFails
<1>5. event' = event \/ event' \notin Calls
  BY CallsApart DEF Begin, ProgramEnds, Interrupt, Ends, EpochApplies, Spin, SpinNextControl,
     EventOf, SpinTaskDone, FailureTurn, Drained, Unwind, Unwound, TaskFails
<1>6. ASSUME NEW c \in Calls, task'[c] # "none" PROVE task[c] # "none"
  <2>1. CASE Unwind
    BY <1>6, <2>1 DEF Unwind
  <2>2. CASE \E d \in Calls : TaskFails(d)
    BY <1>6, <2>2 DEF TaskFails, TypeOK
  <2>3. CASE ~Unwind /\ ~ \E d \in Calls : TaskFails(d)
    BY <1>6, <2>3 DEF Begin, ProgramEnds, Interrupt, Ends, EpochApplies, Spin, SpinNextControl,
       SpinTaskDone, FailureTurn, Drained, Unwound
  <2> QED
    BY <2>1, <2>2, <2>3
<1>7. Elems(callQueue) \subseteq Calls
  BY ElemsType DEF TypeOK
<1> QED
  BY <1>1, <1>3, <1>4, <1>5, <1>6, <1>7, SocketKeeps, AnswersKeep, PromisedKeep

\* The application makes a call: it is new, and nobody has answered it.
LEMMA PromisedCall ==
  ASSUME TypeOK, Promised, NEW c \in Calls, Call(c) PROVE Promised'
<1>1. /\ outcome[c] = "idle" /\ outcome' = [outcome EXCEPT ![c] = "waiting"]
      /\ down' = Append(down, CallFrame(c)) /\ UNCHANGED <<up, callQueue, event, task, runs>>
  BY DEF Call, CallFrame, spinVars
<1>2. ~Fresh(c) /\ runs[c] = 0 /\ \A f \in Elems(up) : f.id # c
  BY <1>1 DEF Promised, Kept
<1>3. CallFrame(c) \in DownFrames /\ \A d \in Calls : CallFrame(d) = CallFrame(c) => d = c
  BY DownFrameFields
<1>4. Elems(down') = Elems(down) \cup {CallFrame(c)}
  BY <1>1, <1>3, AppendElems DEF TypeOK
<1>5. ASSUME NEW d \in Calls PROVE Once(down', CallFrame(d))
  <2>1. CallFrame(c) # CallFrame(d) \/ CallFrame(d) \notin Elems(down)
    BY <1>2, <1>3 DEF Fresh
  <2> QED
    BY <1>1, <1>3, <2>1, AppendOnce DEF TypeOK, Promised, OnePlace
<1>6. Elems(callQueue) \subseteq Calls
  BY ElemsType DEF TypeOK
<1>7. OnePlace'
  BY <1>1, <1>2, <1>3, <1>4, <1>5, <1>6 DEF Promised, OnePlace, Fresh
<1>8. ASSUME NEW d \in Calls PROVE Kept(d)'
  <2>1. CASE d = c
    BY <1>1, <1>2, <2>1 DEF TypeOK, Promised, Kept
  <2>2. CASE d # c
    <3>1. Fresh(d)' <=> Fresh(d)
      BY <1>1, <1>3, <1>4, <2>2 DEF Fresh
    <3>2. outcome'[d] = outcome[d]
      BY <1>1, <2>2 DEF TypeOK
    <3> QED
      BY <1>1, <3>1, <3>2 DEF Promised, Kept
  <2> QED
    BY <2>1, <2>2
<1> QED
  BY <1>7, <1>8 DEF Promised

\* What the caller is told when a frame arrives.
LEMMA Told ==
  ASSUME TypeOK, Promised, Receive, NEW c \in Calls
  PROVE  \/ outcome'[c] = outcome[c]
         \/ outcome[c] = "waiting" /\ outcome'[c] = "stopped"
         \/ /\ outcome[c] = "waiting" /\ Head(up).id = c /\ outcome'[c] = Head(up).detail
            /\ outcome'[c] \in {"answered", "full", "no_worker"} /\ ~Fresh(c)
            /\ outcome'[c] = "answered" <=> runs[c] = 1
<1>1. up # <<>> /\ Head(up) \in Elems(up) /\ Head(up) \in UpFrames
  BY HeadTail, TailSubset DEF TypeOK, Receive
<1>2. outcome'[c] = IF c \in Stopped(Head(up)) THEN "stopped"
                    ELSE IF Head(up).id = c /\ outcome[c] = "waiting" THEN Head(up).detail
                    ELSE outcome[c]
  BY DEF Receive
<1>3. c \in Stopped(Head(up)) => outcome[c] = "waiting"
  BY DEF Stopped
<1>4. Head(up).id = c => /\ ~Fresh(c) /\ Head(up).detail \in {"answered", "full", "no_worker"}
                         /\ Head(up).detail = "answered" <=> runs[c] = 1
  BY <1>1 DEF Promised, Kept
<1> QED
  BY <1>2, <1>3, <1>4

\* A frame arrives.
LEMMA PromisedReceive ==
  ASSUME TypeOK, Promised, Receive PROVE Promised'
<1>1. up # <<>> /\ up' = Tail(up) /\ UNCHANGED <<down, callQueue, event, task, runs>>
  BY DEF Receive, spinVars
<1>2. Elems(up') \subseteq Elems(up)
  BY <1>1, TailSubset DEF TypeOK
<1>3. OnePlace'
  BY <1>1 DEF Promised, OnePlace
<1>4. ASSUME NEW c \in Calls PROVE Kept(c)'
  <2>1. Fresh(c)' <=> Fresh(c)
    BY <1>1 DEF Fresh
  <2>2. (outcome[c] # "idle" => outcome'[c] # "idle") /\ (outcome[c] = "idle" => outcome'[c] = "idle")
    BY Told
  <2>3. Fresh(c) => outcome'[c] \in {"waiting", "stopped"}
    BY Told DEF Promised, Kept
  <2> QED
    BY <1>1, <1>2, <2>1, <2>2, <2>3 DEF Promised, Kept
<1> QED
  BY <1>3, <1>4 DEF Promised

\* The loop queues a call, or refuses it: then it is nowhere else and never runs.
LEMMA PromisedHandle ==
  ASSUME TypeOK, Promised, HandleWorkerCall PROVE Promised'
<1>1. down # <<>> /\ down' = Tail(down) /\ Head(down).kind = "WorkerCall" /\ UNCHANGED <<outcome, event, task, runs>>
  BY DEF HandleWorkerCall, Handling, hostVars, spinVars
<1>2. PICK c \in Calls : Head(down) = CallFrame(c) /\ Head(down).id = c
  BY <1>1, HeadTail, DownFrameFields DEF TypeOK
<1>3. /\ Elems(down) = Elems(down') \cup {CallFrame(c)} /\ CallFrame(c) \notin Elems(down')
      /\ \A d \in Calls : Once(down', CallFrame(d))
  BY <1>1, <1>2, TailRest DEF TypeOK, Promised, OnePlace
<1>4. /\ Fresh(c) /\ c \notin Elems(callQueue) /\ event # c /\ runs[c] = 0
      /\ outcome[c] \in {"waiting", "stopped"} /\ task[c] = "none" /\ \A f \in Elems(up) : f.id # c
  BY <1>3 DEF Promised, OnePlace, Kept, Fresh
<1>5. \A d \in Calls : CallFrame(d) = CallFrame(c) => d = c
  BY DownFrameFields
<1>6. Elems(callQueue) \subseteq Calls
  BY ElemsType DEF TypeOK
<1>7. CASE callQueue' = Append(callQueue, c) /\ up' = up
  <2>1. Elems(callQueue') = Elems(callQueue) \cup {c} /\ Distinct(callQueue')
    BY <1>4, <1>7, AppendElems DEF TypeOK, Promised, OnePlace
  <2>2. \A d \in Calls : Fresh(d)' <=> Fresh(d)
    BY <1>1, <1>3, <1>4, <1>5, <2>1 DEF Fresh
  <2>3. OnePlace'
    BY <1>1, <1>3, <1>4, <1>5, <2>1 DEF Promised, OnePlace
  <2> QED
    BY <1>1, <1>7, <2>2, <2>3 DEF Promised, Kept
<1>8. ASSUME NEW d \in {"full", "no_worker"}, up' = Append(up, Frame("WorkerResponse", c, d)),
             callQueue' = callQueue
      PROVE  Promised'
  <2>1. PICK f \in UpFrames : f = Frame("WorkerResponse", c, d) /\ f.id = c /\ f.detail = d
    BY UpFrameFields DEF Outcomes
  <2>2. Elems(up') = Elems(up) \cup {f}
    BY <1>8, <2>1, AppendElems DEF TypeOK
  <2>3. \A e \in Calls : Fresh(e)' <=> Fresh(e) /\ e # c
    BY <1>1, <1>3, <1>4, <1>5, <1>8 DEF Fresh
  <2>4. OnePlace'
    BY <1>1, <1>3, <1>8 DEF Promised, OnePlace
  <2>5. ASSUME NEW e \in Calls PROVE Kept(e)'
    BY <1>1, <1>4, <2>1, <2>2, <2>3 DEF Promised, Kept
  <2> QED
    BY <2>4, <2>5 DEF Promised
<1> QED
  BY <1>2, <1>7, <1>8 DEF HandleWorkerCall, Enqueue

\* spin_next takes a call from the queue.
LEMMA PromisedTake ==
  ASSUME TypeOK, InHand, Promised, SpinNextCall PROVE Promised'
<1>1. /\ event = "none" /\ callQueue # <<>> /\ event' = Head(callQueue) /\ callQueue' = Tail(callQueue)
      /\ UNCHANGED <<down, up, outcome, task, runs>>
  BY DEF InHand, SpinNextCall, TakeCall, hostVars
<1>2. PICK c \in Calls : c = Head(callQueue)
  BY <1>1, HeadTail DEF TypeOK
<1>3. /\ c \in Elems(callQueue) /\ Elems(callQueue') = Elems(callQueue) \ {c} /\ Distinct(callQueue')
  BY <1>1, <1>2, TailElems DEF TypeOK, Promised, OnePlace
<1>4. \A d \in Calls : Fresh(d)' <=> Fresh(d)
  BY <1>1, <1>2, <1>3, CallsApart DEF Fresh
<1>5. OnePlace'
  BY <1>1, <1>2, <1>3 DEF Promised, OnePlace
<1> QED
  BY <1>1, <1>4, <1>5 DEF Promised, Kept

\* A handler of c begins: the event is used up.
Begins(c) ==
  /\ event = c /\ event' = "none"
  /\ runs' = [runs EXCEPT ![c] = 1]
  /\ UNCHANGED <<down, up, outcome, callQueue>>
  /\ \A d \in Calls : task'[d] # "none" => task[d] # "none" \/ d = c

\* A turn of the spin loop begins the call of its event, or none.
LEMMA TurnBegins ==
  ASSUME TypeOK, Promised, SequentialTurn \/ Turn
  PROVE  \/ \E c \in Calls : Begins(c)
         \/ /\ UNCHANGED <<down, up, outcome, callQueue, runs>> /\ (event' = event \/ event' \notin Calls)
            /\ \A d \in Calls : task'[d] # "none" => task[d] # "none"
<1> USE DEF hostVars, spinVars
<1>1. UNCHANGED <<down, up, outcome, callQueue>>
  BY DEF SequentialTurn, Turn
<1>2. event \in Calls => runs[event] = 0
  BY DEF Promised, Kept, Fresh
<1>3. CASE SequentialTurn
  <2>1. event' = "none"
    BY <1>3 DEF SequentialTurn
  <2>2. CASE event \in Calls
    <3>1. task' = [task EXCEPT ![event] = "running"] /\ runs' = [runs EXCEPT ![event] = runs[event] + 1]
      BY <1>3, <2>2, CallsApart DEF SequentialTurn
    <3>2. PICK c \in Calls : c = event
      BY <2>2
    <3>3. runs' = [runs EXCEPT ![c] = 1]
      <4>1. runs[event] + 1 = 1
        BY <1>2, <2>2
      <4> QED
        BY <3>1, <3>2, <4>1
    <3>4. \A d \in Calls : task'[d] # "none" => task[d] # "none" \/ d = c
      BY <3>1, <3>2 DEF TypeOK
    <3> QED
      BY <1>1, <2>1, <3>2, <3>3, <3>4 DEF Begins
  <2>3. CASE event \notin Calls
    BY <1>1, <1>3, <2>1, <2>3, CallsApart DEF SequentialTurn
  <2> QED
    BY <2>2, <2>3
<1>4. CASE Turn
  <2>1. CASE next = "done" /\ event # "end"
    <3>1. StartCall /\ event' = "none"
      BY <1>4, <2>1 DEF Turn
    <3>2. CASE event \in Calls
      <4>1. PICK c \in Calls : c = event
        BY <3>2
      <4>2. runs' = [d \in Calls |-> IF d = c THEN 1 ELSE runs[d]]
        BY <1>2, <3>1, <4>1 DEF StartCall
      <4>3. runs' = [runs EXCEPT ![c] = 1]
        BY <4>2 DEF TypeOK
      <4>4. \A d \in Calls : task'[d] # "none" => task[d] # "none" \/ d = c
        BY <3>1, <4>1 DEF StartCall
      <4> QED
        BY <1>1, <3>1, <4>1, <4>3, <4>4 DEF Begins
    <3>3. CASE event \notin Calls
      <4>1. runs' = [d \in Calls |-> runs[d]] /\ \A d \in Calls : task'[d] # "none" => task[d] # "none"
        BY <3>1, <3>3 DEF StartCall
      <4>2. runs' = runs
        BY <4>1 DEF TypeOK
      <4> QED
        BY <1>1, <3>1, <4>1, <4>2, CallsApart
    <3> QED
      BY <3>2, <3>3
  <2>2. CASE ~(next = "done" /\ event # "end")
    <3>1. \/ /\ task' = [c \in Calls |-> IF c \in Finished THEN "none" ELSE task[c]]
             /\ UNCHANGED <<event, runs>>
          \/ Unwind /\ UNCHANGED runs
      BY <1>4, <2>2 DEF Turn
    <3>2. \A d \in Calls : task'[d] # "none" => task[d] # "none"
      BY <3>1 DEF Unwind
    <3> QED
      BY <1>1, <3>1, <3>2, CallsApart DEF Unwind
  <2> QED
    BY <2>1, <2>2
<1> QED
  BY <1>3, <1>4

\* The guest's turn keeps the promise.
LEMMA PromisedTurn ==
  ASSUME TypeOK, Promised, SequentialTurn \/ Turn PROVE Promised'
<1>0. Elems(callQueue) \subseteq Calls
  BY ElemsType DEF TypeOK
<1>1. ASSUME NEW c \in Calls, Begins(c) PROVE Promised'
  <2>1. /\ Fresh(c) /\ runs[c] = 0 /\ outcome[c] \in {"waiting", "stopped"}
        /\ CallFrame(c) \notin Elems(down) /\ c \notin Elems(callQueue) /\ \A f \in Elems(up) : f.id # c
    BY <1>1 DEF Begins, Promised, OnePlace, Kept, Fresh
  <2>2. \A d \in Calls : Fresh(d)' <=> Fresh(d) /\ d # c
    BY <1>1, <2>1, CallsApart DEF Begins, Fresh
  <2>3. OnePlace'
    BY <1>1, CallsApart DEF Begins, Promised, OnePlace
  <2>4. ASSUME NEW d \in Calls PROVE Kept(d)'
    <3>1. CASE d = c
      <4>1. runs'[c] = 1
        BY <1>1 DEF TypeOK, Begins
      <4> QED
        BY <1>1, <2>1, <2>2, <3>1, <4>1 DEF Begins, Kept
    <3>2. CASE d # c
      <4>1. runs'[d] = runs[d]
        BY <1>1, <3>2 DEF TypeOK, Begins
      <4> QED
        BY <1>1, <2>2, <3>2, <4>1 DEF Begins, Promised, Kept
    <3> QED
      BY <3>1, <3>2
  <2> QED
    BY <2>3, <2>4 DEF Promised
<1>2. CASE /\ UNCHANGED <<down, up, outcome, callQueue, runs>> /\ (event' = event \/ event' \notin Calls)
           /\ \A d \in Calls : task'[d] # "none" => task[d] # "none"
  BY <1>0, <1>2, SocketKeeps, PromisedKeep
<1> QED
  BY <1>1, <1>2, TurnBegins

\* A handler returns: its answer is the value of the one run of its call.
LEMMA PromisedAnswer ==
  ASSUME TypeOK, Promised, NEW c \in Calls, ServingDone(c) \/ TaskAnswers(c) PROVE Promised'
<1> USE DEF hostVars, daemonVars
<1>1. /\ task[c] \in {"running", "cancelling"} /\ UNCHANGED <<down, outcome, callQueue, event, runs>>
      /\ up' = up \/ up' = Append(up, Frame("WorkerResponse", c, "answered"))
  BY DEF ServingDone, TaskAnswers
<1>2. \A d \in Calls : task'[d] # "none" => task[d] # "none"
  BY <1>1 DEF ServingDone, TaskAnswers, TypeOK
<1>3. runs[c] = 1 /\ ~Fresh(c) /\ outcome[c] # "idle"
  BY <1>1 DEF Promised, Kept
<1>4. Elems(callQueue) \subseteq Calls
  BY ElemsType DEF TypeOK
<1>5. CASE up' = up
  BY <1>1, <1>2, <1>4, <1>5, SocketKeeps, PromisedKeep
<1>6. CASE up' = Append(up, Frame("WorkerResponse", c, "answered"))
  <2>1. PICK f \in UpFrames : f = Frame("WorkerResponse", c, "answered") /\ f.id = c /\ f.detail = "answered"
    BY UpFrameFields DEF Outcomes
  <2>2. Elems(up') = Elems(up) \cup {f}
    BY <1>6, <2>1, AppendElems DEF TypeOK
  <2>3. OnePlace' /\ \A d \in Calls : Fresh(d)' <=> Fresh(d)
    BY <1>1 DEF Promised, OnePlace, Fresh
  <2>4. ASSUME NEW d \in Calls PROVE Kept(d)'
    BY <1>1, <1>2, <1>3, <2>1, <2>2, <2>3 DEF Promised, Kept
  <2> QED
    BY <2>3, <2>4 DEF Promised
<1> QED
  BY <1>1, <1>5, <1>6

\* Every step keeps the promise.
LEMMA PromisedStep == TypeOK /\ InHand /\ Promised /\ [Next]_vars => Promised'
<1> SUFFICES ASSUME TypeOK, InHand, Promised, [Next]_vars PROVE Promised'
  OBVIOUS
<1>1. CASE UNCHANGED vars
  <2>1. UNCHANGED <<down, up, outcome, callQueue, event, task, runs>>
    BY <1>1 DEF vars, hostVars, spinVars
  <2> QED
    BY <2>1 DEF Promised, OnePlace, Kept, Fresh
<1> QED
  BY <1>1, PromisedNotes, PromisedDrops, PromisedCall, PromisedReceive, PromisedHandle, PromisedTake,
     PromisedTurn, PromisedAnswer DEF Next, Application, Loop, Guest, SpinLoop

\* The promise is always kept.
LEMMA AlwaysPromised == Spec => []Promised
  BY PromisedInit, PromisedStep, SpinTyped, PTL DEF Spec

\* A frame that arrives is a step of the promise.
LEMMA ReceiveRefines ==
  ASSUME TypeOK, Promised, Receive PROVE Calling!Next \/ UNCHANGED <<outcome, runs>>
<1>1. PICK f \in UpFrames : f = Head(up)
  BY HeadTail DEF TypeOK, Receive
<1>2. /\ runs' = runs
      /\ outcome' = [c \in Calls |->
           IF c \in Stopped(f) THEN "stopped"
           ELSE IF f.id = c /\ outcome[c] = "waiting" THEN f.detail ELSE outcome[c]]
  BY <1>1 DEF Receive, spinVars
<1>3. CASE f.kind \in {"ExecuteResult", "ControlResult"}
  <2>1. \A c \in Calls : f.id # c
    BY <1>3, UpFrameFields, CallsApart
  <2>2. Stopped(f) = Calling!Waiting
    BY <1>3 DEF Stopped, Calling!Waiting
  <2>3. outcome' = [c \in Calls |-> IF c \in Calling!Waiting THEN "stopped" ELSE outcome[c]]
    BY <1>2, <2>1, <2>2
  <2>4. CASE Calling!Waiting = {}
    <3>1. outcome' = outcome
      BY <2>3, <2>4 DEF TypeOK
    <3> QED
      BY <1>2, <3>1
  <2>5. CASE Calling!Waiting # {}
    BY <1>2, <2>3, <2>5 DEF Calling!Next, Calling!Stop
  <2> QED
    BY <2>4, <2>5
<1>4. CASE f.kind \notin {"ExecuteResult", "ControlResult"}
  <2>1. outcome' = [c \in Calls |-> IF f.id = c /\ outcome[c] = "waiting" THEN f.detail ELSE outcome[c]]
    BY <1>2, <1>4 DEF Stopped
  <2>2. CASE \E c \in Calls : f.id = c /\ outcome[c] = "waiting"
    <3>1. PICK c \in Calls : f.id = c /\ outcome[c] = "waiting"
      BY <2>2
    <3>2. outcome' = [outcome EXCEPT ![c] = f.detail]
      BY <2>1, <3>1 DEF TypeOK
    <3>3. f.detail \in {"answered", "full", "no_worker"} /\ (f.detail = "answered" <=> runs[c] = 1) /\ runs[c] \in {0, 1}
      <4>1. f \in Elems(up)
        BY <1>1, TailSubset DEF TypeOK, Receive
      <4> QED
        BY <3>1, <4>1 DEF Promised, Kept
    <3>4. c \in Calling!Waiting
      BY <3>1 DEF Calling!Waiting
    <3>5. Calling!Answer(c) \/ Calling!Refuse(c)
      BY <1>2, <3>2, <3>3, <3>4 DEF Calling!Answer, Calling!Refuse
    <3> QED
      BY <3>5 DEF Calling!Next
  <2>3. CASE ~ \E c \in Calls : f.id = c /\ outcome[c] = "waiting"
    <3>1. outcome' = [c \in Calls |-> outcome[c]]
      BY <2>1, <2>3
    <3>2. outcome' = outcome
      BY <3>1 DEF TypeOK
    <3> QED
      BY <1>2, <3>2
  <2> QED
    BY <2>2, <2>3
<1> QED
  BY <1>3, <1>4

\* Every step of the queues, tasks and frames is a step of the promise, or none.
LEMMA StepRefines ==
  TypeOK /\ InHand /\ Promised /\ [Next]_vars => Calling!Next \/ UNCHANGED <<outcome, runs>>
<1> SUFFICES ASSUME TypeOK, InHand, Promised, [Next]_vars
             PROVE  Calling!Next \/ UNCHANGED <<outcome, runs>>
  OBVIOUS
<1> USE DEF hostVars, daemonVars, spinVars
<1>1. ASSUME NEW c \in Calls, Call(c) PROVE Calling!Next
  BY <1>1 DEF Call, Calling!Next, Calling!Make
<1>2. CASE SequentialTurn \/ Turn
  <2>1. ASSUME NEW c \in Calls, Begins(c) PROVE Calling!Next
    <3>1. runs[c] = 0 /\ outcome[c] \in {"waiting", "stopped"}
      BY <2>1 DEF Begins, Promised, Kept, Fresh
    <3>2. Calling!Run(c)
      BY <2>1, <3>1 DEF Begins, Calling!Run
    <3> QED
      BY <3>2 DEF Calling!Next
  <2> QED
    BY <1>2, <2>1, TurnBegins
<1>3. CASE Receive
  BY <1>3, ReceiveRefines
<1>4. CASE Run \/ Update \/ CloseWorker \/ Loop
  BY <1>4 DEF Run, Update, CloseWorker, Loop, HandleExecute, HandleUpdate, QueueUpdate, HandleClose, HandleWorkerCall
<1>5. CASE Begin \/ ProgramEnds \/ Interrupt \/ EpochApplies \/ SpinNextControl \/ SpinNextCall
  BY <1>5 DEF Begin, ProgramEnds, Interrupt, Ends, EpochApplies, SpinNextControl, SpinNextCall
<1>6. CASE Spin \/ SpinTaskDone \/ FailureTurn \/ Drained \/ Unwound
           \/ \E c \in Calls : ServingDone(c) \/ TaskAnswers(c) \/ TaskFails(c)
  BY <1>6 DEF Spin, SpinTaskDone, FailureTurn, Drained, Unwound, ServingDone, TaskAnswers, TaskFails
<1>7. CASE UNCHANGED vars
  BY <1>7 DEF vars
<1> QED
  BY <1>1, <1>2, <1>3, <1>4, <1>5, <1>6, <1>7 DEF Next, Application, Guest, SpinLoop

\* Whatever queues, tasks, failures and restarts do, the calls of a worker implement
\* WorkerCalls: a call runs at most once, a value is the value of its run, a
\* refused call never runs, and a call that was answered stays answered.
THEOREM CallsImplementPromise == Spec => CallsKeepPromise
<1>1. Init => Calling!Init
  BY DEF Init, Calling!Init
<1>2. TypeOK /\ InHand /\ Promised /\ [Next]_vars => [Calling!Next]_(Calling!vars)
  BY StepRefines DEF Calling!vars
<1> QED
  BY <1>1, <1>2, SpinTyped, AlwaysPromised, PTL DEF Spec, CallsKeepPromise, Calling!Spec

-----------------------------------------------------------------------------
(* Calls are dropped only where a spin loop is left. *)

Ending == \E f \in Elems(up) : f.kind \in {"ExecuteResult", "ControlResult"}
Dropping == unwound /\ guest # "idle"
OnItsWay(c) ==
  \/ Fresh(c) \/ task[c] \in {"running", "cancelling", "failed"}
  \/ \E f \in Elems(up) : f.id = c

Followed == \A c \in Calls : outcome[c] = "waiting" => OnItsWay(c) \/ Dropping \/ Ending

\* A step that loses no call.
LEMMA FollowedKeep ==
  ASSUME Followed, Dropping => Dropping', Ending => Ending',
         \A c \in Calls : /\ outcome'[c] = "waiting" => outcome[c] = "waiting"
                          /\ OnItsWay(c) => OnItsWay(c)'
  PROVE  Followed'
  BY DEF Followed

\* A frame that joins what travels up is there, with the others.
LEMMA UpGrows ==
  ASSUME TypeOK, NEW f \in UpFrames, up' = Append(up, f)
  PROVE  f \in Elems(up') /\ Elems(up) \subseteq Elems(up')
  BY AppendElems DEF TypeOK

\* The frame that leaves the socket to the daemon, if it is no call.
LEMMA DownShrinks ==
  ASSUME TypeOK, InHand,
         \/ down' = down
         \/ down # <<>> /\ Head(down).kind # "WorkerCall" /\ down' = Tail(down)
         \/ Applied
         \/ \E f \in DownFrames : down' = Append(down, f)
  PROVE  \A c \in Calls : CallFrame(c) \in Elems(down) => CallFrame(c) \in Elems(down')
<1>1. ASSUME down # <<>>, Head(down).kind # "WorkerCall", down' = Tail(down), NEW c \in Calls,
             CallFrame(c) \in Elems(down)
      PROVE  CallFrame(c) \in Elems(down')
  <2>1. Head(down) # CallFrame(c)
    BY <1>1, DownFrameFields
  <2> QED
    BY <1>1, <2>1, TailRest DEF TypeOK
<1>2. CASE Applied
  BY <1>1, <1>2 DEF Applied, InHand
<1>3. ASSUME NEW f \in DownFrames, down' = Append(down, f) PROVE Elems(down) \subseteq Elems(down')
  BY <1>3, AppendElems DEF TypeOK
<1> QED
  BY <1>1, <1>2, <1>3

\* The application and the daemon's loop lose no call.
LEMMA FollowedConnection ==
  ASSUME TypeOK, InHand, Promised, Followed, Application \/ Loop PROVE Followed'
<1> USE DEF hostVars, daemonVars, spinVars
<1>1. UNCHANGED <<event, task, guest, unwound>>
  BY DEF Application, Run, Update, CloseWorker, Call, Loop, HandleExecute, HandleWorkerCall,
     HandleUpdate, QueueUpdate, HandleClose
<1>2. CASE Run \/ Update \/ CloseWorker
  <2>1. UNCHANGED <<callQueue, up, outcome>> /\ \E f \in DownFrames : down' = Append(down, f)
    BY <1>2, DownFrameFields DEF Run, Update, CloseWorker
  <2>2. \A c \in Calls : OnItsWay(c) => OnItsWay(c)'
    BY <1>1, <2>1, DownShrinks DEF OnItsWay, Fresh
  <2> QED
    BY <1>1, <2>1, <2>2, FollowedKeep DEF Dropping, Ending
<1>3. ASSUME NEW c \in Calls, Call(c) PROVE Followed'
  <2>1. /\ UNCHANGED <<callQueue, up>> /\ down' = Append(down, CallFrame(c))
        /\ outcome' = [outcome EXCEPT ![c] = "waiting"] /\ CallFrame(c) \in DownFrames
    BY <1>3, DownFrameFields DEF Call, CallFrame
  <2>2. CallFrame(c) \in Elems(down') /\ \A d \in Calls : OnItsWay(d) => OnItsWay(d)'
    <3>1. CallFrame(c) \in Elems(down')
      BY <2>1, AppendElems DEF TypeOK
    <3> QED
      BY <1>1, <2>1, <3>1, DownShrinks DEF OnItsWay, Fresh
  <2>3. OnItsWay(c)' /\ \A d \in Calls : d # c => outcome'[d] = outcome[d]
    BY <2>1, <2>2 DEF TypeOK, OnItsWay, Fresh
  <2> QED
    BY <1>1, <2>1, <2>2, <2>3 DEF Followed, Dropping, Ending
<1>4. CASE HandleExecute
  <2>1. /\ UNCHANGED <<callQueue, outcome>> /\ down # <<>> /\ down' = Tail(down)
        /\ Head(down).kind # "WorkerCall" /\ (up' = up \/ up' = Append(up, Note("ExecuteResult")))
    BY <1>4 DEF HandleExecute, Handling
  <2>2. Elems(up) \subseteq Elems(up')
    BY <2>1, UpGrows, UpFrameFields
  <2>3. \A c \in Calls : OnItsWay(c) => OnItsWay(c)'
    BY <1>1, <2>1, <2>2, DownShrinks DEF OnItsWay, Fresh
  <2> QED
    BY <1>1, <2>1, <2>2, <2>3, FollowedKeep DEF Dropping, Ending
<1>5. CASE HandleUpdate \/ QueueUpdate
  <2>1. /\ UNCHANGED <<callQueue, outcome, up>>
        /\ down' = down \/ (down # <<>> /\ down' = Tail(down) /\ Head(down).kind # "WorkerCall")
    BY <1>5 DEF HandleUpdate, QueueUpdate, Handling
  <2>2. \A c \in Calls : OnItsWay(c) => OnItsWay(c)'
    BY <1>1, <2>1, DownShrinks DEF OnItsWay, Fresh
  <2> QED
    BY <1>1, <2>1, <2>2, FollowedKeep DEF Dropping, Ending
<1>6. CASE HandleClose
  <2>1. Note("ControlResult") \in Elems(up') /\ Note("ControlResult").kind = "ControlResult"
    BY <1>6, UpGrows, UpFrameFields DEF HandleClose
  <2> QED
    BY <2>1 DEF Followed, Ending
<1>7. CASE HandleWorkerCall
  <2>1. /\ down # <<>> /\ down' = Tail(down) /\ Head(down).kind = "WorkerCall" /\ UNCHANGED outcome
    BY <1>7 DEF HandleWorkerCall, Handling
  <2>2. PICK c \in Calls : Head(down) = CallFrame(c) /\ Head(down).id = c
    BY <2>1, HeadTail, DownFrameFields DEF TypeOK
  <2>3. \A d \in Calls : d # c /\ CallFrame(d) \in Elems(down) => CallFrame(d) \in Elems(down')
    BY <2>1, <2>2, TailRest, DownFrameFields DEF TypeOK
  <2>4. CASE callQueue' = Append(callQueue, c) /\ up' = up
    <3>1. Elems(callQueue') = Elems(callQueue) \cup {c}
      BY <2>4, AppendElems DEF TypeOK
    <3>2. \A d \in Calls : OnItsWay(d) => OnItsWay(d)'
      BY <1>1, <2>3, <2>4, <3>1 DEF OnItsWay, Fresh
    <3> QED
      BY <1>1, <2>1, <2>4, <3>2, FollowedKeep DEF Dropping, Ending
  <2>5. ASSUME NEW d \in {"full", "no_worker"}, up' = Append(up, Frame("WorkerResponse", c, d)),
               callQueue' = callQueue
        PROVE  Followed'
    <3>1. PICK f \in UpFrames : f = Frame("WorkerResponse", c, d) /\ f.id = c
      BY UpFrameFields DEF Outcomes
    <3>2. f \in Elems(up') /\ Elems(up) \subseteq Elems(up')
      BY <2>5, <3>1, UpGrows
    <3>3. \A e \in Calls : OnItsWay(e) => OnItsWay(e)'
      BY <1>1, <2>3, <2>5, <3>1, <3>2 DEF OnItsWay, Fresh
    <3> QED
      BY <1>1, <2>1, <3>2, <3>3, FollowedKeep DEF Dropping, Ending
  <2> QED
    BY <1>7, <2>2, <2>4, <2>5 DEF HandleWorkerCall, Enqueue
<1> QED
  BY <1>2, <1>3, <1>4, <1>5, <1>6, <1>7 DEF Application, Loop

\* A frame arrives: its call is told, or every call is stopped.
LEMMA FollowedReceive ==
  ASSUME TypeOK, Promised, Followed, Receive PROVE Followed'
<1>1. PICK f \in UpFrames : f = Head(up)
  BY HeadTail DEF TypeOK, Receive
<1>2. /\ up # <<>> /\ up' = Tail(up) /\ UNCHANGED <<down, callQueue, event, task, guest, unwound>>
      /\ outcome' = [c \in Calls |->
           IF c \in Stopped(f) THEN "stopped"
           ELSE IF f.id = c /\ outcome[c] = "waiting" THEN f.detail ELSE outcome[c]]
  BY <1>1 DEF Receive, spinVars
<1>3. Elems(up) = Elems(up') \cup {f}
  BY <1>1, <1>2, TailRest DEF TypeOK
<1>4. CASE f.kind \in {"ExecuteResult", "ControlResult"}
  <2>1. \A c \in Calls : f.id # c
    BY <1>4, UpFrameFields, CallsApart
  <2>2. \A c \in Calls : outcome'[c] # "waiting"
    BY <1>2, <1>4, <2>1 DEF Stopped
  <2> QED
    BY <2>2 DEF Followed
<1>5. CASE f.kind \notin {"ExecuteResult", "ControlResult"}
  <2>1. Ending => Ending'
    BY <1>3, <1>5 DEF Ending
  <2>2. ASSUME NEW c \in Calls, outcome'[c] = "waiting"
        PROVE  outcome[c] = "waiting" /\ f.id # c
    <3>1. f.id = c => f.detail \in {"answered", "full", "no_worker"}
      BY <1>3 DEF Promised, Kept
    <3> QED
      BY <1>2, <2>2, <3>1
  <2>3. \A c \in Calls : OnItsWay(c) /\ f.id # c => OnItsWay(c)'
    BY <1>2, <1>3 DEF OnItsWay, Fresh
  <2> QED
    BY <1>2, <2>1, <2>2, <2>3 DEF Followed, Dropping
<1> QED
  BY <1>4, <1>5

\* The worker's actor and the import lose no call while the execution goes on; its
\* end sends the frame that stops them.
LEMMA FollowedActor ==
  ASSUME TypeOK, InHand, Followed,
         Begin \/ ProgramEnds \/ Interrupt \/ EpochApplies \/ SpinNextControl \/ SpinNextCall
  PROVE  Followed'
<1> USE DEF hostVars, daemonVars, spinVars
<1>1. CASE Begin
  <2>1. /\ up' = Append(up, Note("ExecuteStarted")) /\ guest = "idle"
        /\ Applied /\ UNCHANGED <<outcome, callQueue, event, task>>
    BY <1>1 DEF Begin
  <2>2. Elems(up) \subseteq Elems(up') /\ ~Dropping
    BY <2>1, UpGrows, UpFrameFields DEF Dropping
  <2>3. \A c \in Calls : OnItsWay(c) => OnItsWay(c)'
    BY <2>1, <2>2, DownShrinks DEF OnItsWay, Fresh
  <2> QED
    BY <2>1, <2>2, <2>3, FollowedKeep DEF Ending
<1>2. CASE Ends
  <2>1. Note("ExecuteResult") \in Elems(up') /\ Note("ExecuteResult").kind = "ExecuteResult"
    BY <1>2, UpGrows, UpFrameFields DEF Ends
  <2> QED
    BY <2>1 DEF Followed, Ending
<1>3. CASE EpochApplies
  <2>1. Applied /\ UNCHANGED <<up, outcome, callQueue, event, task, guest, unwound>>
    BY <1>3 DEF EpochApplies
  <2>2. \A c \in Calls : OnItsWay(c) => OnItsWay(c)'
    BY <2>1, DownShrinks DEF OnItsWay, Fresh
  <2> QED
    BY <2>1, <2>2, FollowedKeep DEF Dropping, Ending
<1>4. CASE SpinNextControl
  <2>1. (down' = down \/ Applied) /\ event = "none"
    BY <1>4 DEF SpinNextControl, InHand
  <2>2. UNCHANGED <<up, outcome, callQueue, task, guest, unwound>>
    BY <1>4 DEF SpinNextControl
  <2>3. \A c \in Calls : OnItsWay(c) => OnItsWay(c)'
    BY <2>1, <2>2, DownShrinks, CallsApart DEF OnItsWay, Fresh
  <2> QED
    BY <2>2, <2>3, FollowedKeep DEF Dropping, Ending
<1>5. CASE SpinNextCall
  <2>1. /\ event = "none" /\ callQueue # <<>> /\ event' = Head(callQueue) /\ callQueue' = Tail(callQueue)
        /\ UNCHANGED <<down, up, outcome, task, guest, unwound>>
    BY <1>5 DEF SpinNextCall, TakeCall, InHand
  <2>2. Elems(callQueue) = Elems(callQueue') \cup {event'}
    BY <2>1, TailRest DEF TypeOK
  <2>3. \A c \in Calls : OnItsWay(c) => OnItsWay(c)'
    BY <2>1, <2>2, CallsApart DEF OnItsWay, Fresh
  <2> QED
    BY <2>1, <2>3, FollowedKeep DEF Dropping, Ending
<1> QED
  BY <1>1, <1>2, <1>3, <1>4, <1>5 DEF ProgramEnds, Interrupt

\* A step of the guest that leaves the frames and the queue alone.
LEMMA FollowedInGuest ==
  ASSUME Followed, UNCHANGED <<down, up, outcome, callQueue, unwound>>,
         guest # "idle" => guest' # "idle",
         \A c \in Calls : /\ event = c => event' = c \/ task'[c] \in {"running", "cancelling", "failed"}
                          /\ task[c] \in {"running", "cancelling", "failed"} =>
                               task'[c] \in {"running", "cancelling", "failed"}
  PROVE  Followed'
<1>1. \A c \in Calls : OnItsWay(c) => OnItsWay(c)'
  BY DEF OnItsWay, Fresh
<1> QED
  BY <1>1, FollowedKeep DEF Dropping, Ending

\* A handler returns, or raises out of spin().
LEMMA FollowedHandler ==
  ASSUME TypeOK, Followed, NEW c \in Calls, ServingDone(c) \/ TaskAnswers(c) \/ TaskFails(c)
  PROVE  Followed'
<1> USE DEF hostVars, daemonVars, spinVars
<1>1. /\ UNCHANGED <<down, outcome, callQueue, event>>
      /\ \A d \in Calls : d # c => task'[d] = task[d]
  BY DEF ServingDone, TaskAnswers, TaskFails, TypeOK
<1>2. CASE up' = Append(up, Frame("WorkerResponse", c, "answered"))
           /\ (Dropping => Dropping')
  <2>1. PICK f \in UpFrames : f = Frame("WorkerResponse", c, "answered") /\ f.id = c
    BY UpFrameFields DEF Outcomes
  <2>2. f \in Elems(up') /\ Elems(up) \subseteq Elems(up')
    BY <1>2, <2>1, UpGrows
  <2>3. \A d \in Calls : OnItsWay(d) => OnItsWay(d)'
    BY <1>1, <2>1, <2>2 DEF OnItsWay, Fresh
  <2> QED
    BY <1>1, <1>2, <2>2, <2>3, FollowedKeep DEF Ending
<1>3. CASE ServingDone(c)
  <2>1. CASE unwound' = TRUE /\ guest' = "program"
    BY <2>1 DEF Followed, Dropping
  <2>2. CASE /\ up' = Append(up, Frame("WorkerResponse", c, "answered")) /\ guest' = "spin"
             /\ UNCHANGED unwound
    BY <1>2, <2>2 DEF Dropping
  <2> QED
    BY <1>3, <2>1, <2>2 DEF ServingDone
<1>4. CASE TaskAnswers(c)
  BY <1>2, <1>4 DEF TaskAnswers, Dropping
<1>5. CASE TaskFails(c)
  <2>1. task'[c] = "failed" /\ UNCHANGED <<up, unwound, guest>>
    BY <1>5 DEF TaskFails, TypeOK
  <2> QED
    BY <1>1, <2>1, FollowedInGuest
<1> QED
  BY <1>3, <1>4, <1>5

\* The spin loop drops calls only where it is left.
LEMMA FollowedSpin ==
  ASSUME TypeOK, InHand, Followed, Spin \/ SpinLoop PROVE Followed'
<1> USE DEF hostVars, daemonVars, spinVars
<1>1. CASE Spin \/ SpinTaskDone
  <2>1. UNCHANGED <<down, up, outcome, callQueue, unwound, event, task>> /\ (guest # "idle" => guest' # "idle")
    BY <1>1 DEF Spin, SpinTaskDone
  <2> QED
    BY <2>1, FollowedInGuest
<1>2. CASE Unwind
  BY <1>2 DEF Unwind, Followed, Dropping
<1>3. CASE SequentialTurn
  <2>1. UNCHANGED <<down, up, outcome, callQueue, unwound>> /\ guest' # "idle"
    BY <1>3 DEF SequentialTurn
  <2>2. CASE event \in Calls
    <3>1. task' = [task EXCEPT ![event] = "running"]
      BY <1>3, <2>2, CallsApart DEF SequentialTurn
    <3>2. \A c \in Calls : task'[c] = IF event = c THEN "running" ELSE task[c]
      BY <2>2, <3>1 DEF TypeOK
    <3> QED
      BY <2>1, <3>2, FollowedInGuest
  <2>3. CASE event \notin Calls
    <3>1. UNCHANGED task
      BY <1>3, <2>3 DEF SequentialTurn
    <3> QED
      BY <2>1, <2>3, <3>1, FollowedInGuest
  <2> QED
    BY <2>2, <2>3
<1>4. CASE FailureTurn
  <2>1. CASE next # "done"
    <3>1. UNCHANGED <<down, up, outcome, callQueue, unwound, event, task>> /\ guest' # "idle"
      BY <1>4, <2>1 DEF FailureTurn
    <3> QED
      BY <3>1, FollowedInGuest
  <2>2. CASE next = "done"
    BY <1>2, <1>4, <2>2 DEF FailureTurn
  <2> QED
    BY <2>1, <2>2
<1>5. CASE Drained
  BY <1>2, <1>5 DEF Drained
<1>6. CASE Turn
  <2>1. \A c \in Finished : task[c] = "returned"
    BY <1>6 DEF Turn, Finished, Failed
  <2>2. CASE next # "done" /\ Finished # {}
    <3>1. /\ UNCHANGED <<down, up, outcome, callQueue, unwound, event, guest>>
          /\ \A c \in Calls : task'[c] = IF c \in Finished THEN "none" ELSE task[c]
      BY <1>6, <2>2 DEF Turn
    <3> QED
      BY <2>1, <3>1, FollowedInGuest
  <2>3. CASE next = "done" /\ event = "end"
    BY <1>2, <1>6, <2>3 DEF Turn
  <2>4. CASE next = "done" /\ event # "end"
    <3>1. /\ UNCHANGED <<down, up, outcome, callQueue, unwound, guest>>
          /\ \A c \in Calls : task'[c] = IF c = event THEN "running"
                                         ELSE IF c \in Finished THEN "none" ELSE task[c]
      BY <1>6, <2>4 DEF Turn, StartCall
    <3> QED
      BY <2>1, <3>1, FollowedInGuest
  <2> QED
    BY <1>6, <2>2, <2>3, <2>4 DEF Turn
<1>7. CASE Unwound
  BY <1>7 DEF Unwound, InHand, Followed, Dropping
<1> QED
  BY <1>1, <1>3, <1>4, <1>5, <1>6, <1>7 DEF SpinLoop

\* At the start nobody waits, and every step loses no call of somebody who waits.
LEMMA AlwaysFollowed == Spec => []Followed
<1>1. Init => Followed
  BY DEF Init, Followed
<1>2. TypeOK /\ InHand /\ Promised /\ Followed /\ [Next]_vars => Followed'
  <2>1. ASSUME Followed, UNCHANGED vars PROVE Followed'
    BY <2>1, FollowedInGuest DEF vars, hostVars, spinVars
  <2> QED
    BY <2>1, FollowedConnection, FollowedReceive, FollowedActor, FollowedHandler, FollowedSpin
       DEF Next, Guest
<1> QED
  BY <1>1, <1>2, SpinTyped, AlwaysPromised, PTL DEF Spec

\* A call somebody waits for is on its way, unless a spin loop of this execution was
\* left or the frame that stops the call is on its way: no queue, import, update or
\* task loses a call.
THEOREM CallsAreFollowed == Spec => []OnlyLeavingSpinDropsCalls
<1>1. TypeOK /\ Followed => OnlyLeavingSpinDropsCalls
  <2> SUFFICES ASSUME TypeOK, Followed, NEW c \in Calls, outcome[c] = "waiting"
               PROVE  \/ Travelling(c) \/ (unwound /\ guest # "idle")
                      \/ \E i \in DOMAIN up : up[i].kind \in {"ExecuteResult", "ControlResult"}
    BY DEF OnlyLeavingSpinDropsCalls
  <2>1. /\ DOMAIN down = 1..Len(down) /\ DOMAIN up = 1..Len(up) /\ DOMAIN callQueue = 1..Len(callQueue)
    BY LenProperties DEF TypeOK
  <2>2. CASE OnItsWay(c)
    BY <2>1, <2>2, DownFrameFields DEF OnItsWay, Fresh, Elems, Travelling
  <2>3. CASE Ending
    BY <2>1, <2>3 DEF Ending, Elems
  <2> QED
    BY <2>2, <2>3 DEF Followed, Dropping
<1> QED
  BY <1>1, SpinTyped, AlwaysFollowed, PTL

-----------------------------------------------------------------------------
(* spin() is left for a cause. *)

\* Close and a failed handler are the two causes that end a loop.
Causes ==
  /\ ~Before(down, Note("CloseWorker"), Note("Execute"))
  /\ Note("CloseWorker") \in Elems(down) => closing
  /\ "Close" \in Elems(controlQueue) \/ (event = "end" /\ failures = 0) =>
       closing /\ ~open /\ Note("Execute") \notin Elems(down)
  /\ failures = 0 => "WakeSpinNext" \notin Elems(controlQueue)

\* The kinds of the control queue stay what they are.
LEMMA ControlGrows ==
  ASSUME TypeOK, NEW m \in {"ApplyUpdates", "Close", "WakeSpinNext"}, controlQueue' = Append(controlQueue, m)
  PROVE  Elems(controlQueue') = Elems(controlQueue) \cup {m}
<1>1. controlQueue \in Seq({"ApplyUpdates", "Close", "WakeSpinNext"})
  BY DEF TypeOK
<1>2. Elems(Append(controlQueue, m)) = Elems(controlQueue) \cup {m}
  BY <1>1, AppendElems
<1> QED
  BY <1>2

\* The loop takes a frame from the socket, or not.
LEMMA DownTaken ==
  ASSUME TypeOK, down' = down \/ (down # <<>> /\ down' = Tail(down))
  PROVE  /\ Elems(down') \subseteq Elems(down)
         /\ \A y, z : Before(down', y, z) => Before(down, y, z)
<1>1. CASE down' = down
  BY <1>1
<1>2. CASE down # <<>> /\ down' = Tail(down)
  <2>1. /\ Elems(down) = Elems(Tail(down)) \cup {Head(down)}
        /\ \A y, z : Before(Tail(down), y, z) => Before(down, y, z)
    BY <1>2, TailRest DEF TypeOK
  <2> QED
    BY <1>2, <2>1
<1> QED
  BY <1>1, <1>2

\* A step that adds no cause and submits no execution.
LEMMA CausesKeep ==
  ASSUME Causes, TypeOK,
         down' = down \/ (down # <<>> /\ down' = Tail(down)),
         \A m \in Elems(controlQueue') : m \in Elems(controlQueue) \/ m = "ApplyUpdates",
         event' = event \/ event' # "end", open' => open, closing' = closing, failures' = failures
  PROVE  Causes'
<1>1. /\ Elems(down') \subseteq Elems(down)
      /\ \A y, z : Before(down', y, z) => Before(down, y, z)
  BY DownTaken
<1> QED
  BY <1>1 DEF Causes

\* The application submits nothing after a close.
LEMMA CausesApplication ==
  ASSUME TypeOK, InHand, Causes, Application PROVE Causes'
<1> USE DEF hostVars, daemonVars, spinVars
<1>1. UNCHANGED <<open, controlQueue, event, failures>>
  BY DEF Application, Run, Update, CloseWorker, Call
<1>2. PICK f \in DownFrames :
        /\ down' = Append(down, f)
        /\ \/ f = Note("Execute") /\ ~closing /\ closing' = closing
           \/ f # Note("Execute") /\ f # Note("CloseWorker") /\ closing' = closing
           \/ f = Note("CloseWorker") /\ closing' = TRUE
  <2>1. CASE Run
    BY <2>1, DownFrameFields DEF Run
  <2>2. CASE Update
    BY <2>2, DownFrameFields DEF Update
  <2>3. CASE CloseWorker
    BY <2>3, DownFrameFields DEF CloseWorker
  <2>4. CASE \E c \in Calls : Call(c)
    BY <2>4, DownFrameFields DEF Call, CallFrame
  <2> QED
    BY <2>1, <2>2, <2>3, <2>4 DEF Application
<1>3. /\ Elems(down') = Elems(down) \cup {f}
      /\ \A y, z : Before(down', y, z) => Before(down, y, z) \/ (z = f /\ y \in Elems(down))
  BY <1>2, AppendElems DEF TypeOK
<1>4. Note("Execute") # Note("CloseWorker")
  BY DownFrameFields
<1> QED
  BY <1>1, <1>2, <1>3, <1>4 DEF Causes

\* The daemon's loop: an Execute it handles was submitted before any close, and
\* behind a CloseWorker there is no Execute.
LEMMA CausesLoop ==
  ASSUME TypeOK, InHand, Causes, Loop PROVE Causes'
<1> USE DEF hostVars, daemonVars, spinVars
<1>1. CASE HandleWorkerCall
  BY <1>1, CausesKeep DEF HandleWorkerCall, Handling
<1>2. CASE HandleUpdate \/ QueueUpdate
  <2>1. \A m \in Elems(controlQueue') : m \in Elems(controlQueue) \/ m = "ApplyUpdates"
    BY <1>2, ControlGrows DEF HandleUpdate, QueueUpdate
  <2> QED
    BY <1>2, <2>1, CausesKeep DEF HandleUpdate, QueueUpdate, Handling
<1>3. CASE HandleExecute
  <2>1. /\ down # <<>> /\ down' = Tail(down) /\ Head(down).kind = "Execute"
        /\ UNCHANGED <<closing, controlQueue, event, failures>>
    BY <1>3 DEF HandleExecute, Handling
  <2>2. Head(down) = Note("Execute") /\ Head(down) \in Elems(down)
    BY <2>1, HeadTail, TailSubset, DownFrameFields DEF TypeOK
  <2>3. /\ Elems(down') \subseteq Elems(down) /\ \A y, z : Before(down', y, z) => Before(down, y, z)
    BY <2>1, TailRest DEF TypeOK
  <2> QED
    BY <2>1, <2>2, <2>3 DEF Causes
<1>4. CASE HandleClose
  <2>1. /\ down # <<>> /\ down' = Tail(down) /\ Head(down).kind = "CloseWorker" /\ open' = FALSE
        /\ controlQueue' = Append(controlQueue, "Close") /\ UNCHANGED <<closing, event, failures>>
    BY <1>4 DEF HandleClose, Handling
  <2>2. Head(down) = Note("CloseWorker") /\ Head(down) \in Elems(down)
    BY <2>1, HeadTail, TailSubset, DownFrameFields DEF TypeOK
  <2>3. /\ Elems(down') \subseteq Elems(down) /\ \A y, z : Before(down', y, z) => Before(down, y, z)
        /\ \A z \in Elems(down') : Before(down, Note("CloseWorker"), z)
    BY <2>1, <2>2, TailRest DEF TypeOK
  <2>4. Elems(controlQueue') = Elems(controlQueue) \cup {"Close"}
    BY <2>1, ControlGrows
  <2> QED
    BY <2>1, <2>2, <2>3, <2>4 DEF Causes
<1> QED
  BY <1>1, <1>2, <1>3, <1>4 DEF Loop

\* The worker and the guest: a failed handler is a cause, nothing else is new.
LEMMA CausesWorker ==
  ASSUME TypeOK, InHand, Causes,
         \/ Receive \/ Begin \/ Interrupt \/ EpochApplies \/ SpinNextControl \/ SpinNextCall \/ Guest
  PROVE  Causes'
<1> USE DEF hostVars, daemonVars, spinVars
<1>0. Applied => down' = down \/ (down # <<>> /\ down' = Tail(down))
  BY DEF Applied, InHand
<1>1. CASE SpinNextControl
  <2>1. /\ controlQueue # <<>> /\ controlQueue' = Tail(controlQueue)
        /\ event' = EventOf(Head(controlQueue)) /\ UNCHANGED <<open, closing, failures>>
        /\ down' = down \/ Applied
    BY <1>1 DEF SpinNextControl
  <2>2. /\ Head(controlQueue) \in Elems(controlQueue) /\ Elems(controlQueue') \subseteq Elems(controlQueue)
        /\ Head(controlQueue) \in {"ApplyUpdates", "Close", "WakeSpinNext"}
    BY <2>1, HeadTail, TailSubset DEF TypeOK
  <2>3. /\ Elems(down') \subseteq Elems(down) /\ \A y, z : Before(down', y, z) => Before(down, y, z)
    BY <1>0, <2>1, DownTaken
  <2> QED
    BY <2>1, <2>2, <2>3 DEF Causes, EventOf
<1>2. CASE FailureTurn
  <2>1. /\ failures' = failures + 1 /\ UNCHANGED <<down, open, closing>>
        /\ event' = event \/ event' = "none"
        /\ controlQueue' = controlQueue \/ controlQueue' = Append(controlQueue, "WakeSpinNext")
    BY <1>2 DEF FailureTurn, Unwind
  <2>2. failures' # 0 /\ \A m \in Elems(controlQueue') : m \in Elems(controlQueue) \/ m = "WakeSpinNext"
    BY <2>1, ControlGrows DEF TypeOK
  <2> QED
    BY <2>1, <2>2 DEF Causes
<1>3. ASSUME NEW c \in Calls, ServingDone(c) PROVE Causes'
  <2>1. /\ failures' = failures \/ failures' = failures + 1
        /\ UNCHANGED <<down, open, closing, event, controlQueue>>
    BY <1>3 DEF ServingDone
  <2>2. failures' = 0 => failures = 0
    BY <2>1 DEF TypeOK
  <2> QED
    BY <2>1, <2>2 DEF Causes
<1>4. CASE Receive \/ Spin \/ SpinTaskDone \/ SequentialTurn \/ Drained \/ Turn \/ Unwound
           \/ \E c \in Calls : TaskAnswers(c) \/ TaskFails(c)
  <2>1. UNCHANGED <<down, open, closing, controlQueue, failures>>
    BY <1>4 DEF Receive, Spin, SpinTaskDone, SequentialTurn, Drained, Turn, Unwound,
       TaskAnswers, TaskFails
  <2>2. event' = event \/ event' = "none"
    BY <1>4 DEF Receive, Spin, SpinTaskDone, SequentialTurn, Drained, Turn, Unwound, Unwind,
       TaskAnswers, TaskFails
  <2> QED
    BY <2>1, <2>2, CausesKeep
<1>5. CASE SpinNextCall
  <2>1. /\ UNCHANGED <<down, open, closing, controlQueue, failures>>
        /\ callQueue # <<>> /\ event' = Head(callQueue)
    BY <1>5 DEF SpinNextCall, TakeCall
  <2>2. event' # "end"
    BY <2>1, HeadTail, CallsApart DEF TypeOK
  <2> QED
    BY <2>1, <2>2, CausesKeep
<1>6. CASE Begin \/ Ends \/ EpochApplies
  <2>1. Applied /\ UNCHANGED <<open, closing, controlQueue, failures>> /\ (event' = event \/ event' = "none")
    BY <1>6 DEF Begin, Ends, EpochApplies
  <2> QED
    BY <1>0, <2>1, CausesKeep
<1> QED
  BY <1>1, <1>2, <1>3, <1>4, <1>5, <1>6 DEF Guest, SpinLoop, ProgramEnds, Interrupt

\* A close that is under way is final.
LEMMA AlwaysCauses == Spec => []Causes
<1>1. Init => Causes
  BY EmptyElems DEF Init, Causes
<1>2. TypeOK /\ InHand /\ Causes /\ [Next]_vars => Causes'
  <2>1. ASSUME TypeOK, Causes, UNCHANGED vars PROVE Causes'
    BY <2>1, CausesKeep DEF vars, hostVars, daemonVars, spinVars
  <2> QED
    BY <2>1, CausesApplication, CausesLoop, CausesWorker DEF Next
<1> QED
  BY <1>1, <1>2, SpinTyped, PTL DEF Spec

\* While no handler has failed, spin() is left only because the worker closes: an
\* update that is applied never ends it, whatever queues behind it.
THEOREM SpinIsLeftForCause == Spec => SpinEndsForCause
<1>1. TypeOK /\ Causes /\ TypeOK' /\ [Next]_vars =>
        [guest = "spin" /\ event = "end" /\ guest' # "spin" => Closed \/ failures' > 0]_vars
  <2> SUFFICES ASSUME TypeOK, Causes, TypeOK', Next, guest = "spin", event = "end", guest' # "spin",
                      ~(failures' > 0)
               PROVE  Closed
    OBVIOUS
  <2>1. failures' = 0 /\ failures \in Nat
    BY DEF TypeOK
  <2>2. CASE failures = 0
    BY <2>2 DEF Causes, Closed
  <2>3. CASE failures # 0
    <3>1. failures' = failures \/ failures' = failures + 1
      BY DEF Next, Application, Run, Update, CloseWorker, Call, Receive, Loop, HandleExecute,
         HandleWorkerCall, HandleUpdate, QueueUpdate, HandleClose, Guest, Spin, ProgramEnds, Interrupt, Ends,
         SpinLoop, SpinTaskDone, SequentialTurn, FailureTurn, Drained, Turn, Unwound, ServingDone,
         TaskAnswers, TaskFails, Begin, EpochApplies, SpinNextControl, SpinNextCall,
         hostVars, daemonVars, spinVars
    <3> QED
      BY <2>1, <2>3, <3>1
  <2> QED
    BY <2>2, <2>3
<1> QED
  BY <1>1, SpinTyped, AlwaysCauses, PTL DEF Spec, SpinEndsForCause
=============================================================================
