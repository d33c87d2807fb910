--------------------------- MODULE SandboxdProofs ---------------------------
(* Theorems about Sandboxd, for every set of workers and executions. *)
EXTENDS Sandboxd, QueueFacts, FiniteSetTheorems

\* What the kind of a frame says about its other fields: a frame that concerns
\* an execution names it and its owner.
LEMMA FrameFields ==
  ASSUME NEW f \in Frames
  PROVE  /\ f.kind \in {"Execute", "Cancel", "UpdateLimits", "GuestResponse"} =>
              f.exec \in Execs /\ f.worker \in Workers
         /\ f.kind = "CloseWorker" => f.worker \in Workers
         /\ f.parts \subseteq Parts
  BY ConstantsAssumption DEF Frames, Frame, ExecuteFrame, CancelFrame, UpdateFrame,
     CloseFrame, ResponseFrame, HealthFrame, ShutdownFrame

\* The frames the supervisor builds are frames.
LEMMA FrameConstructors ==
  /\ \A e \in Execs : {ExecuteFrame(e), CancelFrame(e), ResponseFrame(e)} \subseteq Frames
  /\ \A e \in Execs, parts \in UpdateKinds : UpdateFrame(e, parts) \in Frames
  /\ \A w \in Workers : CloseFrame(w) \in Frames
  /\ HealthFrame \in Frames /\ ShutdownFrame \in Frames
  BY ConstantsAssumption DEF Frames

\* A handler of more than one step has the frame it handles at the head, and an
\* actor in the middle of an execution holds its id.
InHand ==
  /\ loop \in {"cancel_hit", "cancel_miss"} => inbox # <<>> /\ Head(inbox).kind = "Cancel"
  /\ loop \in {"push", "await"} => inbox # <<>> /\ Head(inbox).kind = "UpdateLimits"
  /\ \A w \in Workers : actor[w] \in {"begin", "running", "stopped"} => exec[w] \in Execs

\* Changing a function at one argument.
LEMMA UpdateType ==
  ASSUME NEW D, NEW R, NEW f \in [D -> R], NEW d, NEW v \in R
  PROVE  [f EXCEPT ![d] = v] \in [D -> R]
  OBVIOUS

\* An idle daemon is well typed and nothing is in hand.
LEMMA TypeInit == Init => TypeOK /\ InHand
  BY ConstantsAssumption DEF Init, TypeOK, InHand, LoopSteps, ActorSteps, Outcomes, Reasons,
     Deadlines, ImportKinds

\* A submitted frame joins the socket.
LEMMA TypeSubmit ==
  ASSUME TypeOK, InHand, Supervisor PROVE TypeOK' /\ InHand'
<1>1. ASSUME NEW f \in Frames, Submit(f) PROVE TypeOK' /\ InHand'
  BY <1>1, AppendKeepsHead
     DEF TypeOK, InHand, Submit, controlVars, deadlineVars, guestVars, updateVars, replyVars,
         actorVars, closeVars
<1> QED
  BY <1>1, FrameConstructors
     DEF Supervisor, SubmitExecute, SubmitCancel, HostAnswers, SubmitUpdate, SubmitClose,
         SubmitHealth, SubmitShutdown

\* The connection loop keeps the types: one step per handler.
LEMMA TypeLoop ==
  ASSUME TypeOK, InHand, Loop PROVE TypeOK' /\ InHand'
<1> USE DEF clientVars, loopVars, controlVars, deadlineVars, guestVars, updateVars,
            replyVars, actorVars, closeVars
<1>0. inbox # <<>> => Head(inbox) \in Frames /\ Tail(inbox) \in Seq(Frames)
  BY HeadTail DEF TypeOK
<1>1. CASE HandleHealthCheck
  BY <1>0, <1>1 DEF TypeOK, InHand, HandleHealthCheck, Handling, Done, Accept, LoopSteps
<1>2. CASE HandleExecute
  <2>1. inbox # <<>> /\ Head(inbox).exec \in Execs /\ Head(inbox).worker \in Workers
    BY <1>0, <1>2, FrameFields DEF HandleExecute, Handling
  <2>2. Append(commands[Head(inbox).worker], Head(inbox).exec) \in Seq(Execs)
    BY <2>1, AppendKeepsHead DEF TypeOK
  <2>3. TrySend(Head(inbox).worker, Head(inbox).exec)
    BY <1>2 DEF HandleExecute
  <2>4. commands' \in [Workers -> Seq(Execs)] /\ result' \in [Execs -> Reasons \cup {"none"}]
    BY <2>1, <2>2, <2>3 DEF TypeOK, TrySend, Reasons
  <2>5. handle' \in [Workers -> {"absent", "open", "removed"}] /\ actor' \in [Workers -> ActorSteps]
    BY <1>2, <2>1 DEF TypeOK, HandleExecute, ActorSteps
  <2> QED
    BY <1>0, <1>2, <2>1, <2>4, <2>5 DEF TypeOK, InHand, HandleExecute, Done, LoopSteps
<1>3. CASE HandleCancel
  BY <1>0, <1>3 DEF TypeOK, InHand, HandleCancel, Handling, Done, Refuse, LoopSteps
<1>4. CASE CancelActive
  BY <1>0, <1>4 DEF TypeOK, InHand, CancelActive, Done, Accept, LoopSteps
<1>5. CASE CancelInactive
  <2>1. inbox # <<>> /\ Head(inbox).exec \in Execs
    BY <1>0, <1>5, FrameFields DEF CancelInactive, InHand
  <2> QED
    BY <1>0, <1>5, <2>1 DEF TypeOK, InHand, CancelInactive, Done, Accept, LoopSteps
<1>6. CASE HandleUpdateLimits
  BY <1>0, <1>6 DEF TypeOK, InHand, HandleUpdateLimits, Handling, Done, Refuse, LoopSteps
<1>7. CASE PushUpdate
  <2>1. inbox # <<>> /\ Head(inbox) \in Frames /\ Head(inbox).worker \in Workers
    BY <1>0, <1>7, FrameFields DEF PushUpdate, InHand
  <2>2. Append(controlQueue[Head(inbox).worker], "ApplyUpdates") \in Seq({"ApplyUpdates", "Close"})
    BY <2>1, AppendKeepsHead DEF TypeOK
  <2>3. deadline' \in [Workers -> Deadlines] /\ changed' \in [Workers -> BOOLEAN]
    BY <1>7, <2>1, ZenonT(60) DEF TypeOK, PushUpdate, ReplaceDeadline, Deadlines
  <2>4. CASE "store" \in Head(inbox).parts
    <3>1. /\ controlQueue' = [controlQueue EXCEPT ![Head(inbox).worker] =
                Append(controlQueue[Head(inbox).worker], "ApplyUpdates")]
          /\ pending' = [pending EXCEPT ![Head(inbox).worker] =
                pending[Head(inbox).worker] \cup {Head(inbox)}]
      BY <1>7, <2>4 DEF PushUpdate
    <3>2. controlQueue' \in [Workers -> Seq({"ApplyUpdates", "Close"})]
      BY <2>1, <2>2, <3>1 DEF TypeOK
    <3>3. pending' \in [Workers -> SUBSET Frames]
      BY <2>1, <3>1 DEF TypeOK
    <3> QED
      BY <1>7, <2>1, <2>3, <2>4, <3>2, <3>3 DEF TypeOK, InHand, PushUpdate, LoopSteps
  <2>5. CASE "store" \notin Head(inbox).parts
    <3>1. /\ inbox' = Tail(inbox) /\ loop' = "read" /\ accepted' = accepted \cup {Head(inbox)}
          /\ UNCHANGED <<refused, pending, controlQueue>>
      BY <1>7, <2>5 DEF PushUpdate, Done, Accept
    <3>2. inbox' \in Seq(Frames) /\ loop' \in LoopSteps /\ accepted' \subseteq Frames
      BY <1>0, <2>1, <3>1 DEF TypeOK, LoopSteps
    <3> QED
      BY <1>7, <2>3, <3>1, <3>2 DEF TypeOK, InHand, PushUpdate
  <2> QED
    BY <2>4, <2>5
<1>8. CASE FinishUpdate
  BY <1>0, <1>8 DEF TypeOK, InHand, FinishUpdate, Done, Accept, Refuse, LoopSteps
<1>9. ASSUME NEW ws \in SUBSET Workers, CloseWorkers(ws)
      PROVE  /\ handle' \in [Workers -> {"absent", "open", "removed"}]
             /\ closed' \in [Workers -> BOOLEAN] /\ interrupted' \in [Workers -> BOOLEAN]
             /\ controlQueue' \in [Workers -> Seq({"ApplyUpdates", "Close"})]
  BY <1>9, AppendKeepsHead DEF TypeOK, CloseWorkers
<1>10. CASE HandleCloseWorker
  <2>1. inbox # <<>> /\ Head(inbox).worker \in Workers
    BY <1>0, <1>10, FrameFields DEF HandleCloseWorker, Handling
  <2>2. CASE handle[Head(inbox).worker] = "open"
    <3>1. /\ handle' \in [Workers -> {"absent", "open", "removed"}]
          /\ closed' \in [Workers -> BOOLEAN] /\ interrupted' \in [Workers -> BOOLEAN]
          /\ controlQueue' \in [Workers -> Seq({"ApplyUpdates", "Close"})]
      <4>1. CloseWorkers({Head(inbox).worker})
        BY <1>10, <2>2 DEF HandleCloseWorker
      <4> QED
        BY <1>9, <2>1, <4>1
    <3> QED
      BY <1>0, <1>10, <2>1, <2>2, <3>1 DEF TypeOK, InHand, HandleCloseWorker, Done, Accept, Refuse, LoopSteps
  <2>3. CASE handle[Head(inbox).worker] # "open"
    BY <1>0, <1>10, <2>1, <2>3 DEF TypeOK, InHand, HandleCloseWorker, Done, Refuse, LoopSteps
  <2> QED
    BY <2>2, <2>3
<1>11. CASE HandleGuestResponse
  <2>1. inbox # <<>> /\ Head(inbox).worker \in Workers
    BY <1>0, <1>11, FrameFields DEF HandleGuestResponse, Handling
  <2>2. imports' \in [Workers -> SUBSET ImportKinds]
    <3>1. \/ imports' = imports
          \/ imports' = [imports EXCEPT ![Head(inbox).worker] = imports[Head(inbox).worker] \ {"rpc"}]
      BY <1>11 DEF HandleGuestResponse
    <3>2. imports \in [Workers -> SUBSET ImportKinds]
      BY DEF TypeOK
    <3>3. imports[Head(inbox).worker] \ {"rpc"} \in SUBSET ImportKinds
      BY <2>1, <3>2
    <3> QED
      BY <3>1, <3>2, <3>3, UpdateType
  <2>3. cpu' \in [Workers -> BOOLEAN]
    <3>1. cpu' = cpu \/ cpu' = [cpu EXCEPT ![Head(inbox).worker] = TRUE]
      BY <1>11 DEF HandleGuestResponse
    <3>2. cpu \in [Workers -> BOOLEAN]
      BY DEF TypeOK
    <3> QED
      BY <3>1, <3>2, UpdateType
  <2>4. calls' \subseteq Execs
    BY <1>11 DEF TypeOK, HandleGuestResponse
  <2> QED
    BY <1>0, <1>11, <2>1, <2>2, <2>3, <2>4 DEF TypeOK, InHand, HandleGuestResponse, Done, LoopSteps
<1>12. CASE HandleShutdown
  BY <1>0, <1>9, <1>12 DEF TypeOK, InHand, HandleShutdown, Handling, LoopSteps
<1>13. CASE ExitServer
  BY <1>13 DEF TypeOK, InHand, ExitServer, LoopSteps
<1> QED
  BY <1>1, <1>2, <1>3, <1>4, <1>5, <1>6, <1>7, <1>8, <1>10, <1>11, <1>12, <1>13 DEF Loop

\* Both ways of emptying the pending updates keep their types.
LEMMA TypeReject ==
  ASSUME TypeOK, NEW w \in Workers, RejectPending(w)
  PROVE  /\ pending' \in [Workers -> SUBSET Frames] /\ applied' = applied
         /\ verdict' \subseteq Frames \X {"ok", "err"}
  BY UpdateType DEF TypeOK, RejectPending

\* apply_pending_store_updates leaves well-typed verdicts and history.
LEMMA TypeApply ==
  ASSUME TypeOK, NEW w \in Workers, ApplyPending(w)
  PROVE  /\ pending' \in [Workers -> SUBSET Frames]
         /\ verdict' \subseteq Frames \X {"ok", "err"}
         /\ applied' \subseteq Frames \X (Execs \cup {NoId})
  BY UpdateType DEF TypeOK, ApplyPending

\* A worker actor keeps the types.
LEMMA TypeActor ==
  ASSUME TypeOK, InHand, NEW w \in Workers, Actor(w) PROVE TypeOK' /\ InHand'
<1> USE DEF clientVars, loopVars, controlVars, deadlineVars, guestVars, updateVars,
            replyVars, actorVars, closeVars
<1>0. commands[w] # <<>> => Head(commands[w]) \in Execs /\ Tail(commands[w]) \in Seq(Execs)
  BY HeadTail DEF TypeOK
<1>1. CASE LoadWorker(w)
  BY <1>1 DEF TypeOK, InHand, LoadWorker, ActorSteps
<1>2. CASE FailQueued(w)
  BY <1>0, <1>2 DEF TypeOK, InHand, FailQueued, Reasons
<1>3. CASE EndActor(w)
  BY <1>3 DEF TypeOK, InHand, EndActor, ActorSteps
<1>4. CASE RefuseLimits(w)
  BY <1>0, <1>4 DEF TypeOK, InHand, RefuseLimits, Reasons
<1>5. CASE BeginExecution(w)
  BY <1>0, <1>5 DEF TypeOK, InHand, BeginExecution, ActorSteps
<1>6. CASE StartExecution(w)
  <2>1. /\ pending' \in [Workers -> SUBSET Frames] /\ applied' = applied
        /\ verdict' \subseteq Frames \X {"ok", "err"}
    BY <1>6, TypeReject DEF StartExecution
  <2>2. deadline' \in [Workers -> Deadlines] /\ changed' \in [Workers -> BOOLEAN]
    BY <1>6, ConstantsAssumption DEF TypeOK, StartExecution, ReplaceDeadline, Deadlines
  <2>3. /\ active' \in [Workers -> Execs \cup {NoId}] /\ started' \in [Execs -> BOOLEAN]
        /\ actor' \in [Workers -> ActorSteps] /\ watch' \in [Workers -> {"check", "wait"}]
        /\ cpu' \in [Workers -> BOOLEAN]
    BY <1>6 DEF TypeOK, StartExecution, ActorSteps
  <2>4. imports' \in [Workers -> SUBSET ImportKinds]
    BY <1>6, UpdateType DEF TypeOK, StartExecution
  <2> QED
    BY <1>6, <2>1, <2>2, <2>3, <2>4 DEF TypeOK, InHand, StartExecution
<1>7. CASE ReportExecution(w)
  BY <1>7 DEF TypeOK, InHand, ReportExecution, Reason, ActorSteps, Outcomes, Reasons
<1> QED
  BY <1>1, <1>2, <1>3, <1>4, <1>5, <1>6, <1>7 DEF Actor

\* WorkerControl::finish keeps the types, whatever the outcome of the run.
LEMMA TypeStop ==
  ASSUME TypeOK, InHand, NEW w \in Workers, NEW how \in Outcomes, StopExecution(w, how)
  PROVE  TypeOK' /\ InHand'
  BY DEF TypeOK, InHand, StopExecution, RejectPending, ActorSteps, clientVars, loopVars,
         controlVars, deadlineVars, guestVars, updateVars, replyVars, actorVars, closeVars

\* The watcher and the clock keep the types.
LEMMA TypeWatcher ==
  ASSUME TypeOK, InHand, NEW w \in Workers, Watcher(w) \/ DeadlinePasses(w)
  PROVE  TypeOK' /\ InHand'
<1> USE DEF clientVars, loopVars, controlVars, deadlineVars, guestVars, updateVars,
            replyVars, actorVars, closeVars
<1>1. CASE WatchCheck(w)
  <2>1. CASE cancelled[w] \/ closed[w]
    BY <1>1, <2>1, TypeStop DEF WatchCheck, Outcomes
  <2>2. CASE ~(cancelled[w] \/ closed[w])
    <3>1. /\ watch' = [watch EXCEPT ![w] = "wait"] /\ sleep' = [sleep EXCEPT ![w] = deadline[w]]
          /\ UNCHANGED <<clientVars, loopVars, controlVars, deadline, changed, guestVars,
                         updateVars, replyVars, actorVars, closeVars>>
      BY <1>1, <2>2 DEF WatchCheck
    <3> QED
      BY <3>1 DEF TypeOK, InHand
  <2> QED
    BY <2>1, <2>2
<1>2. CASE WatchNotified(w)
  BY <1>2 DEF TypeOK, InHand, WatchNotified
<1>3. CASE WatchReschedule(w)
  BY <1>3 DEF TypeOK, InHand, WatchReschedule
<1>4. CASE WatchTimeout(w)
  BY <1>4, TypeStop DEF WatchTimeout, Outcomes
<1>5. CASE DeadlinePasses(w)
  BY <1>5 DEF TypeOK, InHand, DeadlinePasses, Deadlines
<1> QED
  BY <1>1, <1>2, <1>3, <1>4, <1>5 DEF Watcher

\* The guest keeps the types.
LEMMA TypeGuest ==
  ASSUME TypeOK, InHand, NEW w \in Workers, Guest(w) PROVE TypeOK' /\ InHand'
<1> USE DEF clientVars, loopVars, controlVars, deadlineVars, guestVars, updateVars,
            replyVars, actorVars, closeVars
<1>1. ASSUME NEW i \in Imports, GuestImports(w, i) PROVE TypeOK' /\ InHand'
  <2>1. i \in ImportKinds /\ imports[w] \in SUBSET ImportKinds
    BY ConstantsAssumption DEF TypeOK
  <2>2. imports' \in [Workers -> SUBSET ImportKinds]
    BY <1>1, <2>1, UpdateType DEF TypeOK, GuestImports
  <2>3. calls' \subseteq Execs
    BY <1>1 DEF TypeOK, InHand, GuestImports
  <2> QED
    BY <1>1, <2>2, <2>3 DEF TypeOK, InHand, GuestImports
<1>2. CASE GuestBlocks(w)
  BY <1>2 DEF TypeOK, InHand, GuestBlocks
<1>3. CASE TimerFires(w)
  BY <1>3 DEF TypeOK, InHand, TimerFires
<1>4. CASE EpochTick(w)
  BY <1>4 DEF TypeOK, InHand, EpochTick, ApplyPending
<1>5. CASE SpinNext(w)
  <2>1. controlQueue' \in [Workers -> Seq({"ApplyUpdates", "Close"})]
    BY <1>5, HeadTail, UpdateType DEF TypeOK, SpinNext
  <2>2. imports' \in [Workers -> SUBSET ImportKinds]
    BY <1>5, UpdateType DEF TypeOK, SpinNext
  <2>3. /\ pending' \in [Workers -> SUBSET Frames]
        /\ verdict' \subseteq Frames \X {"ok", "err"}
        /\ applied' \subseteq Frames \X (Execs \cup {NoId})
    BY <1>5, TypeApply DEF TypeOK, SpinNext
  <2> QED
    BY <1>5, <2>1, <2>2, <2>3 DEF TypeOK, InHand, SpinNext
<1>6. CASE GuestExits(w)
  BY <1>6, TypeStop DEF GuestExits, Outcomes
<1> QED
  BY <1>1, <1>2, <1>3, <1>4, <1>5, <1>6 DEF Guest

\* Every step of the daemon and its peer keeps the types and what is in hand.
LEMMA TypeStep == TypeOK /\ InHand /\ [Next]_vars => TypeOK' /\ InHand'
<1>1. ASSUME TypeOK, InHand, UNCHANGED vars PROVE TypeOK' /\ InHand'
  BY <1>1 DEF TypeOK, InHand, vars, clientVars, loopVars, controlVars, deadlineVars, guestVars,
              updateVars, replyVars, actorVars, closeVars
<1> QED
  BY <1>1, TypeSubmit, TypeLoop, TypeActor, TypeWatcher, TypeGuest DEF Next

\* The daemon's state stays in its types: in particular no frame, execution id
\* or reason ever gets lost in a handler's locals.
THEOREM TypeCorrect == Spec => [](TypeOK /\ InHand)
  BY TypeInit, TypeStep, PTL DEF Spec

-----------------------------------------------------------------------------
(* The watcher misses nothing: its flags and its deadline. *)

Awake == NoLostWakeup /\ NoLostReschedule

\* No execution runs initially.
LEMMA AwakeInit == Init => Awake
  BY DEF Init, Awake, NoLostWakeup, NoLostReschedule

\* What the supervisor and the connection loop may do to a watcher: raise a flag
\* with a notification, replace the deadline with one, start an actor.
LEMMA AwakeLoop ==
  ASSUME TypeOK, InHand, Awake, Supervisor \/ Loop PROVE Awake'
<1> USE DEF Awake, NoLostWakeup, NoLostReschedule, clientVars, loopVars, controlVars,
            deadlineVars, guestVars, updateVars, replyVars, actorVars, closeVars
<1>1. CASE Supervisor
  BY <1>1 DEF Supervisor, SubmitExecute, SubmitCancel, HostAnswers, SubmitUpdate, SubmitClose,
         SubmitHealth, SubmitShutdown, Submit
<1>2. CASE HandleExecute
  BY <1>2 DEF TypeOK, HandleExecute
<1>3. CASE CancelActive
  BY <1>3 DEF TypeOK, CancelActive
<1>4. CASE PushUpdate
  BY <1>4 DEF TypeOK, PushUpdate, ReplaceDeadline
<1>5. CASE HandleCloseWorker
  BY <1>5 DEF TypeOK, HandleCloseWorker, CloseWorkers
<1>6. CASE HandleShutdown
  BY <1>6 DEF TypeOK, HandleShutdown, CloseWorkers
<1>7. CASE HandleHealthCheck \/ HandleCancel \/ CancelInactive \/ HandleUpdateLimits
           \/ FinishUpdate \/ HandleGuestResponse \/ ExitServer
  BY <1>7 DEF HandleHealthCheck, HandleCancel, CancelInactive, HandleUpdateLimits,
         FinishUpdate, HandleGuestResponse, ExitServer
<1> QED
  BY <1>1, <1>2, <1>3, <1>4, <1>5, <1>6, <1>7 DEF Loop

\* A new execution starts with the watcher at its check.
LEMMA AwakeActor ==
  ASSUME TypeOK, Awake, NEW w \in Workers, Actor(w) PROVE Awake'
<1> USE DEF Awake, NoLostWakeup, NoLostReschedule, clientVars, loopVars, controlVars,
            deadlineVars, guestVars, updateVars, replyVars, actorVars, closeVars
<1>1. CASE LoadWorker(w) \/ EndActor(w) \/ ReportExecution(w)
  BY <1>1 DEF TypeOK, LoadWorker, EndActor, ReportExecution
<1>2. CASE FailQueued(w) \/ RefuseLimits(w)
  BY <1>2 DEF FailQueued, RefuseLimits
<1>3. CASE BeginExecution(w)
  BY <1>3 DEF TypeOK, BeginExecution
<1>4. CASE StartExecution(w)
  BY <1>4 DEF TypeOK, StartExecution, ReplaceDeadline
<1> QED
  BY <1>1, <1>2, <1>3, <1>4 DEF Actor

\* A stopped execution has no watcher.
LEMMA AwakeStop ==
  ASSUME TypeOK, Awake, NEW w \in Workers, NEW how, StopExecution(w, how) PROVE Awake'
  BY DEF TypeOK, Awake, NoLostWakeup, NoLostReschedule, StopExecution, closeVars

\* The watcher goes to sleep only on flags it has just seen down, and on the
\* deadline it has just read.
LEMMA AwakeWatcher ==
  ASSUME TypeOK, Awake, NEW w \in Workers, Watcher(w) \/ DeadlinePasses(w) PROVE Awake'
<1> USE DEF Awake, NoLostWakeup, NoLostReschedule, clientVars, loopVars, controlVars,
            deadlineVars, guestVars, updateVars, replyVars, actorVars, closeVars
<1>1. CASE WatchCheck(w)
  <2>1. CASE cancelled[w] \/ closed[w]
    BY <1>1, <2>1, AwakeStop DEF WatchCheck
  <2>2. CASE ~(cancelled[w] \/ closed[w])
    <3>1. /\ watch' = [watch EXCEPT ![w] = "wait"] /\ sleep' = [sleep EXCEPT ![w] = deadline[w]]
          /\ UNCHANGED <<actor, cancelled, closed, interrupted, deadline, changed>>
      BY <1>1, <2>2 DEF WatchCheck
    <3>2. \A v \in Workers : v # w => watch'[v] = watch[v] /\ sleep'[v] = sleep[v]
      BY <3>1
    <3>3. NoLostWakeup'
      BY <2>2, <3>1, <3>2
    <3>4. sleep'[w] = deadline'[w]
      BY <3>1 DEF TypeOK
    <3> QED
      BY <3>1, <3>2, <3>3, <3>4
  <2> QED
    BY <2>1, <2>2
<1>2. CASE WatchNotified(w)
  BY <1>2 DEF TypeOK, WatchNotified
<1>3. CASE WatchReschedule(w)
  BY <1>3 DEF TypeOK, WatchReschedule
<1>4. CASE WatchTimeout(w)
  BY <1>4, AwakeStop DEF WatchTimeout
<1>5. CASE DeadlinePasses(w)
  <2>1. NoLostWakeup'
    BY <1>5 DEF DeadlinePasses
  <2>2. ASSUME NEW v \in Workers, actor'[v] = "running", watch'[v] = "wait"
        PROVE  sleep'[v] = deadline'[v] \/ changed'[v]
    <3>1. actor[v] = "running" /\ watch[v] = "wait" /\ changed' = changed
      BY <1>5, <2>2 DEF DeadlinePasses
    <3>2. sleep[v] = deadline[v] \/ changed[v]
      BY <3>1
    <3>3. CASE v # w
      BY <1>5, <3>1, <3>2, <3>3 DEF TypeOK, DeadlinePasses
    <3>4. CASE v = w
      BY <1>5, <3>1, <3>2, <3>4 DEF TypeOK, DeadlinePasses
    <3> QED
      BY <3>3, <3>4
  <2> QED
    BY <2>1, <2>2
<1> QED
  BY <1>1, <1>2, <1>3, <1>4, <1>5 DEF Watcher

\* The guest touches neither the flags nor the deadline.
LEMMA AwakeGuest ==
  ASSUME TypeOK, Awake, NEW w \in Workers, Guest(w) PROVE Awake'
<1> USE DEF clientVars, loopVars, controlVars,
            deadlineVars, guestVars, updateVars, replyVars, actorVars, closeVars
<1>1. CASE GuestExits(w)
  BY <1>1, AwakeStop DEF GuestExits
<1>2. CASE (\E i \in Imports : GuestImports(w, i)) \/ GuestBlocks(w) \/ TimerFires(w)
           \/ EpochTick(w) \/ SpinNext(w)
  BY <1>2 DEF Awake, NoLostWakeup, NoLostReschedule, GuestImports, GuestBlocks, TimerFires,
              EpochTick, SpinNext
<1> QED
  BY <1>1, <1>2 DEF Guest

\* No step puts a watcher to sleep on a flag or on an old deadline.
LEMMA AwakeStep == TypeOK /\ InHand /\ Awake /\ [Next]_vars => Awake'
<1>1. ASSUME Awake, UNCHANGED vars PROVE Awake'
  BY <1>1 DEF Awake, NoLostWakeup, NoLostReschedule, vars, controlVars, deadlineVars,
              actorVars, closeVars
<1> QED
  BY <1>1, AwakeLoop, AwakeActor, AwakeWatcher, AwakeGuest DEF Next

\* wait_for_interruption never sleeps through a cancellation or a close, for
\* any number of workers, executions and frames.
THEOREM WakeupNotLost == Spec => []NoLostWakeup
<1>1. Spec => []Awake
  BY AwakeInit, AwakeStep, TypeCorrect, PTL DEF Spec
<1>2. Awake => NoLostWakeup
  BY DEF Awake
<1> QED
  BY <1>1, <1>2, PTL

\* MonotonicDeadline::wait never keeps sleeping on a deadline that was replaced.
THEOREM RescheduleNotLost == Spec => []NoLostReschedule
<1>1. Spec => []Awake
  BY AwakeInit, AwakeStep, TypeCorrect, PTL DEF Spec
<1>2. Awake => NoLostReschedule
  BY DEF Awake
<1> QED
  BY <1>1, <1>2, PTL

-----------------------------------------------------------------------------
(* The update the connection loop waits for is never dropped. *)

\* Emptying the pending updates answers them.
LEMMA AnsweredOrPending ==
  ASSUME NEW w \in Workers, NEW f, f \in pending[w], NEW v \in Workers,
         pending \in [Workers -> SUBSET Frames], RejectPending(v) \/ ApplyPending(v)
  PROVE  f \in pending'[w] \/ \E a \in {"ok", "err"} : <<f, a>> \in verdict'
<1>1. CASE v = w
  BY <1>1 DEF RejectPending, ApplyPending
<1>2. CASE v # w
  BY <1>2 DEF RejectPending, ApplyPending
<1> QED
  BY <1>1, <1>2

\* Rejecting or applying what is pending for a worker keeps the awaited update:
\* it is answered or belongs to another worker.
LEMMA AwaitedEmptied ==
  ASSUME TypeOK, InHand, AwaitedUpdateKept, NEW v \in Workers, RejectPending(v) \/ ApplyPending(v),
         UNCHANGED <<loop, inbox>>
  PROVE  AwaitedUpdateKept'
<1> SUFFICES ASSUME loop = "await"
             PROVE  \/ Head(inbox) \in pending'[Head(inbox).worker]
                    \/ \E a \in {"ok", "err"} : <<Head(inbox), a>> \in verdict'
  BY DEF AwaitedUpdateKept
<1>1. verdict \subseteq verdict' /\ pending \in [Workers -> SUBSET Frames]
  BY DEF RejectPending, ApplyPending, TypeOK
<1>2. CASE Head(inbox) \in pending[Head(inbox).worker]
  <2>1. Head(inbox).worker \in Workers
    BY HeadTail, FrameFields DEF TypeOK, InHand
  <2> QED
    BY <1>1, <1>2, <2>1, AnsweredOrPending
<1>3. CASE \E a \in {"ok", "err"} : <<Head(inbox), a>> \in verdict
  BY <1>1, <1>3
<1> QED
  BY <1>2, <1>3 DEF AwaitedUpdateKept

\* No step drops the update the connection loop waits for.
LEMMA AwaitedStep ==
  TypeOK /\ InHand /\ AwaitedUpdateKept /\ [Next]_vars => AwaitedUpdateKept'
<1> SUFFICES ASSUME TypeOK, InHand, AwaitedUpdateKept, [Next]_vars PROVE AwaitedUpdateKept'
  OBVIOUS
<1> USE DEF clientVars, loopVars, controlVars, deadlineVars, guestVars, updateVars,
            replyVars, actorVars, closeVars
<1>1. CASE Supervisor
  <2>1. ASSUME NEW f \in Frames, Submit(f) PROVE AwaitedUpdateKept'
    BY <2>1, AppendKeepsHead DEF TypeOK, InHand, AwaitedUpdateKept, Submit
  <2> QED
    BY <1>1, <2>1, FrameConstructors
       DEF Supervisor, SubmitExecute, SubmitCancel, HostAnswers, SubmitUpdate, SubmitClose,
           SubmitHealth, SubmitShutdown
<1>2. CASE PushUpdate
  <2>1. Head(inbox).worker \in Workers
    BY <1>2, HeadTail, FrameFields DEF TypeOK, InHand, PushUpdate
  <2> QED
    BY <1>2, <2>1 DEF TypeOK, AwaitedUpdateKept, PushUpdate, Done
<1>3. CASE Loop /\ ~PushUpdate
  BY <1>3 DEF Loop, AwaitedUpdateKept, HandleHealthCheck, HandleExecute, HandleCancel,
         CancelActive, CancelInactive, HandleUpdateLimits, FinishUpdate, HandleCloseWorker,
         HandleGuestResponse, HandleShutdown, ExitServer, Done
<1>4. ASSUME NEW w \in Workers, Actor(w) PROVE AwaitedUpdateKept'
  <2>1. CASE StartExecution(w)
    BY <2>1, AwaitedEmptied DEF StartExecution
  <2>2. CASE ~StartExecution(w)
    BY <1>4, <2>2 DEF Actor, AwaitedUpdateKept, LoadWorker, FailQueued, EndActor, RefuseLimits,
           BeginExecution, ReportExecution
  <2> QED
    BY <2>1, <2>2
<1>5. ASSUME NEW w \in Workers, NEW how, StopExecution(w, how) PROVE AwaitedUpdateKept'
  BY <1>5, AwaitedEmptied DEF StopExecution
<1>6. ASSUME NEW w \in Workers, Watcher(w) \/ DeadlinePasses(w) PROVE AwaitedUpdateKept'
  BY <1>5, <1>6 DEF Watcher, WatchCheck, WatchNotified, WatchReschedule, WatchTimeout,
         DeadlinePasses, AwaitedUpdateKept
<1>7. ASSUME NEW w \in Workers, Guest(w) PROVE AwaitedUpdateKept'
  <2>1. CASE EpochTick(w)
    BY <2>1, AwaitedEmptied DEF EpochTick
  <2>2. CASE SpinNext(w)
    BY <2>2, AwaitedEmptied DEF SpinNext, AwaitedUpdateKept
  <2>3. CASE GuestExits(w)
    BY <1>5, <2>3 DEF GuestExits
  <2>4. CASE (\E i \in Imports : GuestImports(w, i)) \/ GuestBlocks(w) \/ TimerFires(w)
    BY <2>4 DEF AwaitedUpdateKept, GuestImports, GuestBlocks, TimerFires
  <2> QED
    BY <1>7, <2>1, <2>2, <2>3, <2>4 DEF Guest
<1>8. CASE UNCHANGED vars
  BY <1>8 DEF AwaitedUpdateKept, vars
<1> QED
  BY <1>1, <1>2, <1>3, <1>4, <1>6, <1>7, <1>8 DEF Next

\* Whatever begin, finish and the store do meanwhile, the update that
\* receive_update_result waits for is queued or answered.
THEOREM AwaitedNotDropped == Spec => []AwaitedUpdateKept
<1>1. Init => AwaitedUpdateKept
  BY DEF Init, AwaitedUpdateKept
<1> QED
  BY <1>1, AwaitedStep, TypeCorrect, PTL DEF Spec

-----------------------------------------------------------------------------
(* Where an execution of the daemon is: on its way to the connection, in the queue of its *)
(* worker, with the actor, or answered; and what follows for results, for closing a      *)
(* worker and for cancelling.  The inductive invariant.                                  *)

\* The socket holds frames that were sent, each once.
SocketOnce == Elems(inbox) \subseteq sent /\ Distinct(inbox)

\* A command queue holds executions of its own worker, each once.
QueueOnce ==
  \A w \in Workers : Distinct(commands[w]) /\ \A e \in Elems(commands[w]) : Owner[e] = w

\* Where an execution is: on its way, queued, with the actor, answered.
OnTheWay(e) == ExecuteFrame(e) \notin sent \/ ExecuteFrame(e) \in Elems(inbox)
Queued(e) == e \in Elems(commands[Owner[e]])
WithActor(e) == exec[Owner[e]] = e

\* An execution is in one place at a time, and only one that has left the queue
\* for the actor has started.
OneOf ==
  \A e \in Execs :
    /\ OnTheWay(e) \/ Queued(e) => ~started[e] /\ result[e] = "none" /\ ~WithActor(e)
    /\ OnTheWay(e) => ~Queued(e)
    /\ WithActor(e) => result[e] = "none"
    /\ OnTheWay(e) \/ Queued(e) \/ WithActor(e) \/ result[e] # "none"
    /\ result[e] = "InfrastructureError" => ~started[e]
    /\ started[e] => result[e] # "none" \/ Held(Owner[e], e)

\* The actor holds an execution of its worker exactly while it executes; one
\* that it has only begun has not started.
ActorHolds ==
  \A w \in Workers :
    /\ exec[w] # NoId => Owner[exec[w]] = w /\ actor[w] \in {"begin", "running", "stopped"}
    /\ actor[w] = "begin" => ~started[exec[w]]
    /\ actor[w] = "running" => active[w] = exec[w]

\* An entry of `workers` and its actor: created by an Execute that was handled,
\* ended after the entry was removed and the queue drained.
EntryAndActor ==
  \A w \in Workers :
    /\ handle[w] = "absent" <=> actor[w] = "none"
    /\ handle[w] = "absent" => commands[w] = <<>>
    /\ handle[w] # "absent" => \E e \in Execs : Owner[e] = w /\ ~OnTheWay(e)
    /\ actor[w] = "ended" => commands[w] = <<>> /\ handle[w] = "removed"

\* No Execute finds the entry of its worker removed: none is on the socket once
\* the CloseWorker that removed it was handled, and none is sent after it.
NoneAfterClose ==
  /\ \A w \in Workers : handle[w] = "removed" /\ loop \notin {"shutdown", "exited"} =>
       CloseFrame(w) \in sent /\ \A e \in Execs : Owner[e] = w => ExecuteFrame(e) \notin Elems(inbox)
  /\ \A e \in Execs : Before(inbox, CloseFrame(Owner[e]), ExecuteFrame(e)) =>
       \A d \in Execs : Owner[d] = Owner[e] /\ ExecuteFrame(d) \in sent => d = e

Placed == SocketOnce /\ QueueOnce /\ OneOf /\ ActorHolds /\ EntryAndActor /\ NoneAfterClose

-----------------------------------------------------------------------------
(* Each step keeps every execution in its place. *)

\* A frame is determined by its kind and the execution or worker it names.
LEMMA FrameNames ==
  /\ \A f \in Frames :
       /\ f.kind = "Execute" => f.exec \in Execs /\ f.worker = Owner[f.exec] /\ f = ExecuteFrame(f.exec)
       /\ f.kind = "Cancel" => f.exec \in Execs /\ f.worker = Owner[f.exec] /\ f = CancelFrame(f.exec)
       /\ f.kind = "CloseWorker" => f.worker \in Workers /\ f = CloseFrame(f.worker)
  /\ \A e \in Execs : ExecuteFrame(e).kind = "Execute" /\ ExecuteFrame(e).exec = e
  /\ \A e \in Execs : CancelFrame(e).kind = "Cancel" /\ CancelFrame(e).exec = e
  /\ \A e \in Execs, p \in SUBSET Parts : UpdateFrame(e, p).kind = "UpdateLimits"
  /\ \A e \in Execs : ResponseFrame(e).kind = "GuestResponse"
  /\ \A w \in Workers : CloseFrame(w).kind = "CloseWorker" /\ CloseFrame(w).worker = w
  /\ HealthFrame.kind = "HealthCheck" /\ ShutdownFrame.kind = "Shutdown"
  BY ConstantsAssumption DEF Frames, Frame, ExecuteFrame, CancelFrame, UpdateFrame,
     CloseFrame, ResponseFrame, HealthFrame, ShutdownFrame

Still == UNCHANGED <<commands, actor, exec, started, result, active>>

\* At the start nothing is anywhere.
LEMMA PlacedInit == Init => Placed
  BY EmptyElems, ConstantsAssumption
     DEF Init, Placed, SocketOnce, QueueOnce, OneOf, ActorHolds, EntryAndActor, NoneAfterClose,
         OnTheWay, Queued, WithActor, Held

\* A step of the watcher, the guest or the clock that leaves the places alone.
LEMMA PlacedQuiet ==
  ASSUME Placed, Still, UNCHANGED <<inbox, sent, handle>>,
         loop \in {"shutdown", "exited"} => loop' \in {"shutdown", "exited"}
  PROVE  Placed'
  BY DEF Still, Placed, SocketOnce, QueueOnce, OneOf, ActorHolds, EntryAndActor, NoneAfterClose,
         OnTheWay, Queued, WithActor, Held

\* A frame other than an Execute joins the socket.
LEMMA PlacedSubmit ==
  ASSUME TypeOK, Placed, NEW f \in Frames, f.kind # "Execute", f \notin sent,
         sent' = sent \cup {f}, inbox' = Append(inbox, f), Still, UNCHANGED <<handle, loop>>
  PROVE  Placed'
<1> USE DEF Still, Placed
<1>1. /\ Elems(inbox') = Elems(inbox) \cup {f}
      /\ Distinct(inbox) /\ f \notin Elems(inbox) => Distinct(inbox')
      /\ \A y, z : Before(inbox', y, z) => Before(inbox, y, z) \/ (z = f /\ y \in Elems(inbox))
  BY AppendElems DEF TypeOK
<1>2. \A e \in Execs : ExecuteFrame(e) # f
  BY FrameNames
<1>3. SocketOnce'
  BY <1>1 DEF SocketOnce
<1>4. \A e \in Execs : OnTheWay(e)' <=> OnTheWay(e)
  BY <1>1, <1>2 DEF OnTheWay
<1>5. QueueOnce' /\ OneOf' /\ ActorHolds' /\ EntryAndActor'
  BY <1>4 DEF QueueOnce, OneOf, ActorHolds, EntryAndActor, Queued, WithActor, Held
<1>6. NoneAfterClose'
  BY <1>1, <1>2 DEF NoneAfterClose
<1> QED
  BY <1>3, <1>5, <1>6

\* An Execute joins the socket: no worker id is used again after its close.
LEMMA PlacedSubmitExecute ==
  ASSUME TypeOK, Placed, NEW e \in Execs, SubmitExecute(e)
  PROVE  Placed'
<1> USE DEF Placed
<1>0. ExecuteFrame(e) \in Frames
  BY FrameConstructors
<1>1. /\ ExecuteFrame(e) \notin sent /\ sent' = sent \cup {ExecuteFrame(e)}
      /\ inbox' = Append(inbox, ExecuteFrame(e)) /\ Still /\ UNCHANGED <<handle, loop>>
      /\ CloseFrame(Owner[e]) \in sent =>
           \A d \in Execs : ExecuteFrame(d) \in sent => Owner[d] # Owner[e]
  BY DEF SubmitExecute, Submit, Still, controlVars, replyVars, actorVars, closeVars
<1>2. /\ Elems(inbox') = Elems(inbox) \cup {ExecuteFrame(e)}
      /\ Distinct(inbox) /\ ExecuteFrame(e) \notin Elems(inbox) => Distinct(inbox')
      /\ \A y, z : Before(inbox', y, z) =>
           Before(inbox, y, z) \/ (z = ExecuteFrame(e) /\ y \in Elems(inbox))
  BY <1>0, <1>1, AppendElems DEF TypeOK
<1>3. \A d \in Execs : ExecuteFrame(d) = ExecuteFrame(e) => d = e
  BY FrameNames
<1>4. SocketOnce'
  BY <1>1, <1>2 DEF SocketOnce
<1>5. \A d \in Execs : OnTheWay(d)' <=> OnTheWay(d)
  BY <1>1, <1>2, <1>3 DEF OnTheWay
<1>6. QueueOnce' /\ OneOf' /\ ActorHolds' /\ EntryAndActor'
  BY <1>1, <1>5 DEF Still, QueueOnce, OneOf, ActorHolds, EntryAndActor, Queued, WithActor, Held
<1>7. \A w \in Workers : handle[w] # "absent" =>
        \E d \in Execs : Owner[d] = w /\ ExecuteFrame(d) \in sent
  BY DEF EntryAndActor, OnTheWay
<1>8. ASSUME NEW w \in Workers, handle'[w] = "removed", loop' \notin {"shutdown", "exited"}
      PROVE  CloseFrame(w) \in sent' /\ \A d \in Execs : Owner[d] = w => ExecuteFrame(d) \notin Elems(inbox')
  BY <1>1, <1>2, <1>3, <1>7, <1>8 DEF NoneAfterClose
<1>9. ASSUME NEW x \in Execs, Before(inbox', CloseFrame(Owner[x]), ExecuteFrame(x)),
             NEW d \in Execs, Owner[d] = Owner[x], ExecuteFrame(d) \in sent'
      PROVE  d = x
  <2>1. \A y, z : Before(inbox, y, z) => y \in sent /\ z \in sent
    BY DEF SocketOnce, Before, Elems
  <2>2. CASE Before(inbox, CloseFrame(Owner[x]), ExecuteFrame(x))
    <3>1. ExecuteFrame(x) \in sent /\ CloseFrame(Owner[x]) \in sent
      BY <2>1, <2>2
    <3>2. ExecuteFrame(d) \in sent
      BY <1>1, <1>3, <1>9, <3>1
    <3> QED
      BY <1>9, <2>2, <3>2 DEF NoneAfterClose
  <2>3. CASE ExecuteFrame(x) = ExecuteFrame(e) /\ CloseFrame(Owner[x]) \in Elems(inbox)
    <3>1. x = e /\ CloseFrame(Owner[e]) \in sent
      BY <1>3, <2>3 DEF SocketOnce
    <3> QED
      BY <1>1, <1>3, <1>9, <3>1
  <2> QED
    BY <1>2, <1>9, <2>2, <2>3
<1>10. NoneAfterClose'
  BY <1>8, <1>9 DEF NoneAfterClose
<1> QED
  BY <1>4, <1>6, <1>10

\* A handler ends with its frame, which is not an Execute and closes no worker.
LEMMA PlacedRead ==
  ASSUME TypeOK, Placed, inbox # <<>>, Head(inbox).kind # "Execute",
         inbox' = Tail(inbox), loop \notin {"shutdown", "exited"}, Still, UNCHANGED <<sent, handle>>
  PROVE  Placed'
<1> USE DEF Still, Placed
<1>1. /\ Elems(inbox') = Elems(inbox) \ {Head(inbox)} /\ Distinct(inbox')
      /\ \A y, z : Before(inbox', y, z) => Before(inbox, y, z)
  BY TailElems DEF TypeOK, SocketOnce
<1>2. \A e \in Execs : ExecuteFrame(e) # Head(inbox)
  BY FrameNames
<1>3. SocketOnce'
  BY <1>1 DEF SocketOnce
<1>4. \A e \in Execs : OnTheWay(e)' <=> OnTheWay(e)
  BY <1>1, <1>2 DEF OnTheWay
<1>5. QueueOnce' /\ OneOf' /\ ActorHolds' /\ EntryAndActor'
  BY <1>4 DEF QueueOnce, OneOf, ActorHolds, EntryAndActor, Queued, WithActor, Held
<1>6. NoneAfterClose'
  BY <1>1, <1>2 DEF NoneAfterClose
<1> QED
  BY <1>3, <1>5, <1>6

\* A CloseWorker or a Shutdown removes entries: after a CloseWorker no Execute of
\* that worker follows on the socket, after a Shutdown no frame is read.
LEMMA PlacedClose ==
  ASSUME TypeOK, Placed, NEW ws \in SUBSET Workers, \A w \in ws : handle[w] = "open",
         inbox # <<>>, Head(inbox).kind # "Execute", inbox' = Tail(inbox),
         loop \notin {"shutdown", "exited"},
         \/ \E w \in ws : ws = {w} /\ Head(inbox) = CloseFrame(w)
         \/ loop' = "shutdown",
         handle' = [w \in Workers |-> IF w \in ws THEN "removed" ELSE handle[w]],
         Still, UNCHANGED sent
  PROVE  Placed'
<1> USE DEF Still, Placed
<1>1. /\ Elems(inbox') = Elems(inbox) \ {Head(inbox)} /\ Distinct(inbox')
      /\ Head(inbox) \in Elems(inbox)
      /\ \A y, z : Before(inbox', y, z) => Before(inbox, y, z)
      /\ \A z \in Elems(inbox) : z # Head(inbox) => Before(inbox, Head(inbox), z)
  BY TailElems DEF TypeOK, SocketOnce
<1>2. \A e \in Execs : ExecuteFrame(e) # Head(inbox)
  BY FrameNames
<1>3. SocketOnce'
  BY <1>1 DEF SocketOnce
<1>4. \A e \in Execs : OnTheWay(e)' <=> OnTheWay(e)
  BY <1>1, <1>2 DEF OnTheWay
<1>5. QueueOnce' /\ OneOf' /\ ActorHolds'
  BY <1>4 DEF QueueOnce, OneOf, ActorHolds, Queued, WithActor, Held
<1>6. \A w \in Workers : handle'[w] = handle[w] \/ (w \in ws /\ handle[w] = "open" /\ handle'[w] = "removed")
  OBVIOUS
<1>7. EntryAndActor'
  BY <1>4, <1>6 DEF EntryAndActor
<1>8. ASSUME NEW w \in Workers, handle'[w] = "removed", loop' \notin {"shutdown", "exited"}
      PROVE  CloseFrame(w) \in sent /\ \A e \in Execs : Owner[e] = w => ExecuteFrame(e) \notin Elems(inbox')
  <2>1. CASE w \notin ws
    BY <1>1, <1>8, <2>1 DEF NoneAfterClose
  <2>2. CASE w \in ws
    <3>1. Head(inbox) = CloseFrame(w)
      BY <1>8, <2>2
    <3>2. PICK d \in Execs : Owner[d] = w /\ ~OnTheWay(d)
      BY <2>2 DEF EntryAndActor
    <3>3. ASSUME NEW e \in Execs, Owner[e] = w, ExecuteFrame(e) \in Elems(inbox) PROVE FALSE
      <4>1. Before(inbox, CloseFrame(Owner[e]), ExecuteFrame(e))
        BY <1>1, <1>2, <3>1, <3>3
      <4>2. d = e
        BY <3>2, <3>3, <4>1 DEF NoneAfterClose, OnTheWay
      <4> QED
        BY <3>2, <3>3, <4>2 DEF OnTheWay
    <3> QED
      BY <1>1, <3>1, <3>3 DEF SocketOnce
  <2> QED
    BY <2>1, <2>2
<1>9. NoneAfterClose'
  BY <1>1, <1>8 DEF NoneAfterClose
<1> QED
  BY <1>3, <1>5, <1>7, <1>9

\* An Execute goes from the socket to the queue of its worker, or is answered.
LEMMA PlacedExecute ==
  ASSUME TypeOK, Placed, HandleExecute PROVE Placed'
<1> USE DEF Placed
<1>1. /\ loop = "read" /\ inbox # <<>> /\ Head(inbox).kind = "Execute"
      /\ Elems(inbox') = Elems(inbox) \ {Head(inbox)} /\ Distinct(inbox')
      /\ Head(inbox) \in Elems(inbox) /\ Head(inbox) \in Frames
      /\ \A y, z : Before(inbox', y, z) => Before(inbox, y, z)
  BY TailElems DEF HandleExecute, Handling, Done, TypeOK, SocketOnce
<1>2. PICK e \in Execs : Head(inbox) = ExecuteFrame(e)
  BY <1>1, FrameNames
<1> DEFINE w == Owner[e]
<1>3. Head(inbox).exec = e /\ Head(inbox).worker = w /\ w \in Workers
  BY <1>1, <1>2, FrameNames, ConstantsAssumption
<1>4. /\ loop' = "read" /\ handle' = [handle EXCEPT ![w] = "open"]
      /\ actor' = [actor EXCEPT ![w] = IF handle[w] = "open" THEN actor[w] ELSE "loading"]
      /\ TrySend(w, e) /\ UNCHANGED <<sent, started, exec, active>>
      /\ \A d \in Execs : ExecuteFrame(d) = ExecuteFrame(e) => d = e
  <2>1. /\ loop' = "read" /\ UNCHANGED <<sent, started, exec, active>>
        /\ handle' = [handle EXCEPT ![Head(inbox).worker] = "open"]
        /\ actor' = [actor EXCEPT ![Head(inbox).worker] =
              IF handle[Head(inbox).worker] = "open" THEN actor[Head(inbox).worker] ELSE "loading"]
        /\ TrySend(Head(inbox).worker, Head(inbox).exec)
    BY DEF HandleExecute, Done, clientVars, controlVars
  <2>2. \A d \in Execs : ExecuteFrame(d) = ExecuteFrame(e) => d = e
    BY FrameNames
  <2>3. TrySend(w, e)
    BY <1>3, <2>1
  <2> QED
    BY <1>3, <2>1, <2>2, <2>3
<1> HIDE DEF w
<1>5. \A d \in Execs : d # e => (OnTheWay(d)' <=> OnTheWay(d))
  BY <1>1, <1>2, <1>4 DEF OnTheWay
<1>6. OnTheWay(e) /\ ~OnTheWay(e)'
  BY <1>1, <1>2, <1>4 DEF OnTheWay, SocketOnce
<1>7. ~started[e] /\ result[e] = "none" /\ ~Queued(e) /\ exec[w] # e
  BY <1>6 DEF OneOf, WithActor, w
<1>8. handle[w] # "removed"
  BY <1>1, <1>2, <1>3 DEF NoneAfterClose, w
<1>9. SocketOnce'
  BY <1>1, <1>4 DEF SocketOnce
<1>10. NoneAfterClose'
  <2>1. \A v \in Workers : handle'[v] = "removed" => handle[v] = "removed"
    BY <1>3, <1>4 DEF TypeOK
  <2> QED
    BY <1>1, <1>4, <2>1 DEF NoneAfterClose
<1>11. \A v \in Workers : v # w => handle'[v] = handle[v] /\ actor'[v] = actor[v]
  BY <1>4 DEF TypeOK
<1>12. /\ handle'[w] = "open"
       /\ \/ handle[w] = "open" /\ actor'[w] = actor[w] /\ actor[w] \notin {"none", "ended"}
          \/ handle[w] = "absent" /\ actor[w] = "none" /\ actor'[w] = "loading"
  BY <1>3, <1>4, <1>8 DEF TypeOK, EntryAndActor
<1>13. \A v \in Workers, d \in Execs : Held(v, d)' <=> Held(v, d)
  BY <1>4, <1>11, <1>12 DEF Held
<1>14. ActorHolds'
  <2>1. \A v \in Workers : actor'[v] \in {"begin", "running", "stopped"} => actor'[v] = actor[v]
    BY <1>11, <1>12
  <2>2. \A v \in Workers : actor[v] \in {"begin", "running", "stopped"} => actor'[v] = actor[v]
    BY <1>11, <1>12
  <2> QED
    BY <1>4, <2>1, <2>2 DEF ActorHolds
<1>15. CASE Len(commands[w]) < QueueCapacity
  <2>1. result' = result /\ commands' = [commands EXCEPT ![w] = Append(commands[w], e)]
    BY <1>4, <1>15 DEF TrySend
  <2>2. commands[w] \in Seq(Execs) /\ e \notin Elems(commands[w]) /\ Distinct(commands[w])
    BY <1>3, <1>7 DEF TypeOK, Queued, QueueOnce, w
  <2>3. /\ Elems(commands'[w]) = Elems(commands[w]) \cup {e} /\ Distinct(commands'[w])
        /\ \A v \in Workers : v # w => commands'[v] = commands[v]
    BY <1>3, <2>1, <2>2, AppendElems DEF TypeOK
  <2>4. QueueOnce'
    <3>1. ASSUME NEW v \in Workers PROVE Distinct(commands'[v]) /\ \A d \in Elems(commands'[v]) : Owner[d] = v
      BY <2>3 DEF QueueOnce, w
    <3> QED
      BY <3>1 DEF QueueOnce
  <2>5. Queued(e)' /\ \A d \in Execs : d # e => (Queued(d)' <=> Queued(d))
    BY <2>3, ConstantsAssumption DEF Queued, w
  <2>6. OneOf'
    <3>1. ASSUME NEW d \in Execs, d # e
          PROVE  (OnTheWay(d)' <=> OnTheWay(d)) /\ (Queued(d)' <=> Queued(d)) /\ (Held(Owner[d], d)' <=> Held(Owner[d], d))
      BY <1>5, <1>13, <2>5, <3>1, ConstantsAssumption
    <3> QED
      BY <1>4, <1>6, <1>7, <2>1, <2>5, <3>1 DEF OneOf, WithActor, w
  <2>7. EntryAndActor'
    BY <1>3, <1>5, <1>6, <1>11, <1>12, <2>3 DEF EntryAndActor, w
  <2> QED
    BY <1>9, <1>10, <1>14, <2>4, <2>6, <2>7
<1>16. CASE ~(Len(commands[w]) < QueueCapacity)
  <2>1. commands' = commands /\ result' = [result EXCEPT ![e] = "InfrastructureError"]
    BY <1>4, <1>16 DEF TrySend
  <2>2. QueueOnce'
    BY <2>1 DEF QueueOnce
  <2>3. \A d \in Execs : Queued(d)' <=> Queued(d)
    BY <2>1 DEF Queued
  <2>4. result'[e] = "InfrastructureError" /\ \A d \in Execs : d # e => result'[d] = result[d]
    BY <1>3, <2>1 DEF TypeOK
  <2>5. OneOf'
    <3>1. ASSUME NEW d \in Execs, d # e
          PROVE  (OnTheWay(d)' <=> OnTheWay(d)) /\ (Queued(d)' <=> Queued(d)) /\ (Held(Owner[d], d)' <=> Held(Owner[d], d))
      BY <1>5, <1>13, <2>3, <3>1, ConstantsAssumption
    <3> QED
      BY <1>4, <1>6, <1>7, <2>3, <2>4, <3>1 DEF OneOf, WithActor, w
  <2>6. EntryAndActor'
    BY <1>3, <1>5, <1>6, <1>11, <1>12, <2>1 DEF EntryAndActor, w
  <2> QED
    BY <1>9, <1>10, <1>14, <2>2, <2>5, <2>6
<1> QED
  BY <1>15, <1>16

\* The places of the executions of the other workers, and of e itself once it is
\* no longer queued, when the actor takes e from its queue.
LEMMA TakeCommand ==
  ASSUME TypeOK, Placed, NEW w \in Workers, commands[w] # <<>>,
         NEW e \in Execs, Head(commands[w]) = e,
         commands' = [commands EXCEPT ![w] = Tail(@)], UNCHANGED <<inbox, sent>>
  PROVE  /\ Owner[e] = w /\ Queued(e) /\ ~Queued(e)' /\ QueueOnce'
         /\ \A d \in Execs : d # e => (Queued(d)' <=> Queued(d))
         /\ \A d \in Execs : OnTheWay(d)' <=> OnTheWay(d)
         /\ \A v \in Workers : commands[v] = <<>> => commands'[v] = <<>>
<1> USE DEF Placed
<1>1. /\ e \in Elems(commands[w]) /\ Elems(Tail(commands[w])) = Elems(commands[w]) \ {e}
      /\ Distinct(Tail(commands[w]))
  BY TailElems DEF TypeOK, QueueOnce
<1>2. commands'[w] = Tail(commands[w]) /\ \A v \in Workers : v # w => commands'[v] = commands[v]
  BY DEF TypeOK
<1>3. Owner[e] = w
  BY <1>1 DEF QueueOnce
<1>4. QueueOnce'
  <2>1. ASSUME NEW v \in Workers PROVE Distinct(commands'[v]) /\ \A d \in Elems(commands'[v]) : Owner[d] = v
    BY <1>1, <1>2 DEF QueueOnce
  <2> QED
    BY <2>1 DEF QueueOnce
<1>5. Queued(e) /\ ~Queued(e)' /\ \A d \in Execs : d # e => (Queued(d)' <=> Queued(d))
  BY <1>1, <1>2, <1>3, ConstantsAssumption DEF Queued
<1>6. \A d \in Execs : OnTheWay(d)' <=> OnTheWay(d)
  BY DEF OnTheWay
<1> QED
  BY <1>2, <1>3, <1>4, <1>5, <1>6

\* A queued execution is answered without being run: the worker failed to load,
\* or its limits are refused.
LEMMA PlacedRefuse ==
  ASSUME TypeOK, Placed, NEW w \in Workers, FailQueued(w) \/ RefuseLimits(w) PROVE Placed'
<1> USE DEF Placed
<1>1. /\ commands[w] # <<>> /\ commands' = [commands EXCEPT ![w] = Tail(@)]
      /\ result' = [result EXCEPT ![Head(commands[w])] = "InfrastructureError"]
      /\ UNCHANGED <<inbox, sent, loop, handle, actor, exec, started, active>>
  BY DEF FailQueued, RefuseLimits, clientVars, loopVars, controlVars, closeVars
<1>2. PICK e \in Execs : Head(commands[w]) = e
  BY <1>1, HeadTail DEF TypeOK
<1>3. /\ Owner[e] = w /\ Queued(e) /\ ~Queued(e)' /\ QueueOnce'
      /\ \A d \in Execs : d # e => (Queued(d)' <=> Queued(d))
      /\ \A d \in Execs : OnTheWay(d)' <=> OnTheWay(d)
      /\ \A v \in Workers : commands[v] = <<>> => commands'[v] = <<>>
  BY <1>1, <1>2, TakeCommand
<1>4. result'[e] = "InfrastructureError" /\ \A d \in Execs : d # e => result'[d] = result[d]
  BY <1>1, <1>2 DEF TypeOK
<1>5. OneOf'
  <2>1. ASSUME NEW d \in Execs PROVE Held(Owner[d], d)' <=> Held(Owner[d], d)
    BY <1>1 DEF Held
  <2> QED
    BY <1>1, <1>3, <1>4, <2>1 DEF OneOf, WithActor
<1>6. SocketOnce' /\ ActorHolds' /\ NoneAfterClose'
  BY <1>1 DEF SocketOnce, ActorHolds, NoneAfterClose
<1>7. EntryAndActor'
  BY <1>1, <1>3 DEF EntryAndActor
<1> QED
  BY <1>3, <1>5, <1>6, <1>7

\* The actor takes an execution from its queue.
LEMMA PlacedBegin ==
  ASSUME TypeOK, Placed, NEW w \in Workers, BeginExecution(w) PROVE Placed'
<1> USE DEF Placed
<1>1. /\ actor[w] = "recv" /\ commands[w] # <<>> /\ commands' = [commands EXCEPT ![w] = Tail(@)]
      /\ exec' = [exec EXCEPT ![w] = Head(commands[w])]
      /\ actor' = [actor EXCEPT ![w] = "begin"]
      /\ UNCHANGED <<inbox, sent, loop, handle, started, result, active>>
  BY DEF BeginExecution, clientVars, loopVars, replyVars, closeVars
<1>2. PICK e \in Execs : Head(commands[w]) = e
  BY <1>1, HeadTail DEF TypeOK
<1>3. /\ Owner[e] = w /\ Queued(e) /\ ~Queued(e)' /\ QueueOnce'
      /\ \A d \in Execs : d # e => (Queued(d)' <=> Queued(d))
      /\ \A d \in Execs : OnTheWay(d)' <=> OnTheWay(d)
      /\ \A v \in Workers : commands[v] = <<>> => commands'[v] = <<>>
  BY <1>1, <1>2, TakeCommand
<1>4. /\ exec'[w] = e /\ actor'[w] = "begin" /\ exec[w] = NoId
      /\ \A v \in Workers : v # w => exec'[v] = exec[v] /\ actor'[v] = actor[v]
  <2>1. exec[w] = NoId
    BY <1>1 DEF ActorHolds
  <2> QED
    BY <1>1, <1>2, <2>1 DEF TypeOK
<1>5. /\ WithActor(e)' /\ ~OnTheWay(e)
      /\ \A d \in Execs : d # e => (WithActor(d)' <=> WithActor(d)) /\ (Held(Owner[d], d)' <=> Held(Owner[d], d))
      /\ ~started[e] /\ result[e] = "none"
  <2>1. ~OnTheWay(e) /\ ~started[e] /\ result[e] = "none"
    BY <1>3 DEF OneOf
  <2> QED
    BY <1>1, <1>3, <1>4, <2>1, ConstantsAssumption DEF WithActor, Held
<1>6. OneOf'
  BY <1>1, <1>3, <1>5 DEF OneOf
<1>7. SocketOnce' /\ NoneAfterClose'
  BY <1>1 DEF SocketOnce, NoneAfterClose
<1>8. ActorHolds'
  BY <1>1, <1>3, <1>4, <1>5 DEF ActorHolds
<1>9. EntryAndActor'
  BY <1>1, <1>3, <1>4 DEF EntryAndActor
<1> QED
  BY <1>3, <1>6, <1>7, <1>8, <1>9

\* The execution the actor has begun starts.
LEMMA PlacedStart ==
  ASSUME TypeOK, InHand, Placed, NEW w \in Workers, StartExecution(w) PROVE Placed'
<1> USE DEF Placed
<1>1. /\ actor[w] = "begin" /\ started' = [started EXCEPT ![exec[w]] = TRUE]
      /\ actor' = [actor EXCEPT ![w] = "running"] /\ active' = [active EXCEPT ![w] = exec[w]]
      /\ UNCHANGED <<inbox, sent, loop, handle, commands, exec, result>>
  BY DEF StartExecution, clientVars, loopVars, closeVars
<1>2. PICK e \in Execs : exec[w] = e
  BY <1>1 DEF InHand
<1>3. Owner[e] = w /\ result[e] = "none" /\ ~OnTheWay(e) /\ ~Queued(e)
  BY <1>2, ConstantsAssumption DEF ActorHolds, OneOf, WithActor
<1>4. /\ started'[e] /\ \A d \in Execs : d # e => started'[d] = started[d]
      /\ actor'[w] = "running" /\ active'[w] = e
      /\ \A v \in Workers : v # w => actor'[v] = actor[v] /\ active'[v] = active[v]
  BY <1>1, <1>2 DEF TypeOK
<1>5. /\ Held(w, e)'
      /\ \A d \in Execs : d # e => (Held(Owner[d], d)' <=> Held(Owner[d], d))
  BY <1>1, <1>2, <1>3, <1>4, ConstantsAssumption DEF Held
<1>6. \A d \in Execs : /\ OnTheWay(d)' <=> OnTheWay(d)
                       /\ Queued(d)' <=> Queued(d)
                       /\ WithActor(d)' <=> WithActor(d)
  BY <1>1 DEF OnTheWay, Queued, WithActor
<1>7. OneOf'
  BY <1>1, <1>3, <1>4, <1>5, <1>6, ZenonT(60) DEF OneOf
<1>8. SocketOnce' /\ NoneAfterClose' /\ QueueOnce'
  BY <1>1 DEF SocketOnce, NoneAfterClose, QueueOnce
<1>9. ActorHolds'
  <2>1. \A v \in Workers : v # w => exec[v] # e
    BY <1>3, ConstantsAssumption DEF ActorHolds
  <2>2. \A v \in Workers : v # w /\ actor[v] = "begin" => ~started'[exec[v]]
    BY <1>1, <1>4, <2>1 DEF ActorHolds, InHand
  <2> QED
    BY <1>1, <1>2, <1>3, <1>4, <2>2 DEF ActorHolds
<1>10. EntryAndActor'
  BY <1>1, <1>4, <1>6 DEF EntryAndActor
<1> QED
  BY <1>7, <1>8, <1>9, <1>10

\* An execution that stops stays with its actor.
LEMMA PlacedStop ==
  ASSUME TypeOK, InHand, Placed, NEW w \in Workers, NEW how, StopExecution(w, how) PROVE Placed'
<1> USE DEF Placed
<1>1. /\ actor[w] = "running" /\ actor' = [actor EXCEPT ![w] = "stopped"]
      /\ active' = [active EXCEPT ![w] = IF @ = exec[w] THEN NoId ELSE @]
      /\ UNCHANGED <<inbox, sent, loop, handle, commands, exec, started, result>>
  BY DEF StopExecution, clientVars, loopVars, replyVars, closeVars
<1>2. /\ actor'[w] = "stopped"
      /\ \A v \in Workers : v # w => actor'[v] = actor[v] /\ active'[v] = active[v]
  BY <1>1 DEF TypeOK
<1>3. \A d \in Execs : /\ OnTheWay(d)' <=> OnTheWay(d)
                       /\ Queued(d)' <=> Queued(d)
                       /\ WithActor(d)' <=> WithActor(d)
                       /\ Held(Owner[d], d)' <=> Held(Owner[d], d)
  BY <1>1, <1>2, ConstantsAssumption DEF OnTheWay, Queued, WithActor, Held
<1>4. OneOf'
  BY <1>1, <1>3 DEF OneOf
<1>5. SocketOnce' /\ NoneAfterClose' /\ QueueOnce'
  BY <1>1 DEF SocketOnce, NoneAfterClose, QueueOnce
<1>6. ActorHolds'
  BY <1>1, <1>2 DEF ActorHolds
<1>7. EntryAndActor'
  BY <1>1, <1>2, <1>3 DEF EntryAndActor
<1> QED
  BY <1>4, <1>5, <1>6, <1>7

\* Reason explains every outcome.
LEMMA ReasonGiven ==
  ASSUME NEW w \in Workers PROVE Reason(w) \in Reasons \ {"InfrastructureError"} /\ Reason(w) # "none"
  BY DEF Reason, Reasons

\* The actor reports the execution it held.
LEMMA PlacedReport ==
  ASSUME TypeOK, InHand, Placed, NEW w \in Workers, ReportExecution(w) PROVE Placed'
<1> USE DEF Placed
<1>1. /\ actor[w] = "stopped" /\ result' = [result EXCEPT ![exec[w]] = Reason(w)]
      /\ actor' = [actor EXCEPT ![w] = "recv"] /\ exec' = [exec EXCEPT ![w] = NoId]
      /\ UNCHANGED <<inbox, sent, loop, handle, commands, started, active>>
  BY DEF ReportExecution, clientVars, loopVars, controlVars, closeVars
<1>2. PICK e \in Execs : exec[w] = e
  BY <1>1 DEF InHand
<1>3. Owner[e] = w /\ ~OnTheWay(e) /\ ~Queued(e)
  BY <1>2, ConstantsAssumption DEF ActorHolds, OneOf, WithActor
<1>4. /\ result'[e] # "none" /\ result'[e] # "InfrastructureError"
      /\ \A d \in Execs : d # e => result'[d] = result[d]
  BY <1>1, <1>2, ReasonGiven DEF TypeOK
<1>5. /\ exec'[w] = NoId /\ actor'[w] = "recv"
      /\ \A v \in Workers : v # w => actor'[v] = actor[v] /\ exec'[v] = exec[v]
  BY <1>1 DEF TypeOK
<1>6. /\ ~WithActor(e)'
      /\ \A d \in Execs : d # e => (WithActor(d)' <=> WithActor(d)) /\ (Held(Owner[d], d)' <=> Held(Owner[d], d))
      /\ \A d \in Execs : (OnTheWay(d)' <=> OnTheWay(d)) /\ (Queued(d)' <=> Queued(d))
  BY <1>1, <1>2, <1>3, <1>5, ConstantsAssumption DEF OnTheWay, Queued, WithActor, Held
<1>7. OneOf'
  BY <1>1, <1>3, <1>4, <1>6 DEF OneOf
<1>8. SocketOnce' /\ NoneAfterClose' /\ QueueOnce'
  BY <1>1 DEF SocketOnce, NoneAfterClose, QueueOnce
<1>9. ActorHolds'
  BY <1>1, <1>5, ConstantsAssumption DEF ActorHolds
<1>10. EntryAndActor'
  BY <1>1, <1>5, <1>6 DEF EntryAndActor
<1> QED
  BY <1>7, <1>8, <1>9, <1>10

\* The actor is loaded, or ends with an empty queue.
LEMMA PlacedLife ==
  ASSUME TypeOK, Placed, NEW w \in Workers, LoadWorker(w) \/ EndActor(w) PROVE Placed'
<1> USE DEF Placed
<1>1. /\ \/ actor[w] = "loading" /\ \E next \in {"recv", "failed"} : actor' = [actor EXCEPT ![w] = next]
         \/ /\ actor[w] \in {"recv", "failed"} /\ commands[w] = <<>> /\ handle[w] = "removed"
            /\ actor' = [actor EXCEPT ![w] = "ended"]
      /\ UNCHANGED <<inbox, sent, loop, handle, commands, exec, started, result, active>>
  BY DEF LoadWorker, EndActor, clientVars, loopVars, controlVars, replyVars, closeVars
<1>2. /\ actor[w] \in {"loading", "recv", "failed"} /\ actor'[w] \in {"recv", "failed", "ended"}
      /\ actor'[w] = "ended" => commands[w] = <<>> /\ handle[w] = "removed"
      /\ \A v \in Workers : v # w => actor'[v] = actor[v]
  BY <1>1 DEF TypeOK
<1>3. \A d \in Execs : /\ OnTheWay(d)' <=> OnTheWay(d)
                       /\ Queued(d)' <=> Queued(d)
                       /\ WithActor(d)' <=> WithActor(d)
                       /\ Held(Owner[d], d)' <=> Held(Owner[d], d)
  BY <1>1, <1>2, ConstantsAssumption DEF OnTheWay, Queued, WithActor, Held
<1>4. OneOf'
  BY <1>1, <1>3 DEF OneOf
<1>5. SocketOnce' /\ NoneAfterClose' /\ QueueOnce'
  BY <1>1 DEF SocketOnce, NoneAfterClose, QueueOnce
<1>6. ActorHolds'
  BY <1>1, <1>2 DEF ActorHolds
<1>7. EntryAndActor'
  BY <1>1, <1>2, <1>3 DEF EntryAndActor
<1> QED
  BY <1>4, <1>5, <1>6, <1>7

\* Every step keeps every execution in one place.
LEMMA PlacedStep == TypeOK /\ InHand /\ Placed /\ [Next]_vars => Placed'
<1> SUFFICES ASSUME TypeOK, InHand, Placed, [Next]_vars PROVE Placed'
  OBVIOUS
<1> USE DEF clientVars, loopVars, controlVars, deadlineVars, guestVars, updateVars,
            replyVars, actorVars, closeVars
<1>1. CASE Supervisor
  <2>1. ASSUME NEW f \in Frames, f.kind # "Execute", Submit(f) PROVE Placed'
    BY <2>1, PlacedSubmit DEF Submit, Still
  <2>2. CASE \E e \in Execs : SubmitExecute(e)
    BY <2>2, PlacedSubmitExecute
  <2>3. CASE ~ \E e \in Execs : SubmitExecute(e)
    <3>1. CASE \E e \in Execs : SubmitCancel(e) \/ HostAnswers(e)
      BY <2>1, <3>1, FrameConstructors, FrameNames DEF SubmitCancel, HostAnswers
    <3>2. CASE \E e \in Execs, parts \in UpdateKinds : SubmitUpdate(e, parts)
      <4>1. PICK e \in Execs, parts \in UpdateKinds : Submit(UpdateFrame(e, parts))
        BY <3>2 DEF SubmitUpdate
      <4>2. UpdateFrame(e, parts) \in Frames /\ UpdateFrame(e, parts).kind # "Execute"
        BY FrameConstructors, FrameNames, ConstantsAssumption
      <4> QED
        BY <2>1, <4>1, <4>2
    <3>3. CASE (\E w \in Workers : SubmitClose(w)) \/ SubmitHealth \/ SubmitShutdown
      BY <2>1, <3>3, FrameConstructors, FrameNames DEF SubmitClose, SubmitHealth, SubmitShutdown
    <3> QED
      BY <1>1, <2>3, <3>1, <3>2, <3>3 DEF Supervisor
  <2> QED
    BY <2>2, <2>3
<1>2. CASE Loop
  <2>1. CASE HandleExecute
    BY <2>1, PlacedExecute
  <2>2. CASE HandleCloseWorker
    <3>1. /\ loop = "read" /\ inbox # <<>> /\ Head(inbox).kind = "CloseWorker"
          /\ inbox' = Tail(inbox) /\ Still /\ UNCHANGED sent
      BY <2>2 DEF HandleCloseWorker, Handling, Done, Still
    <3>2. PICK w \in Workers : Head(inbox) = CloseFrame(w) /\ Head(inbox).worker = w
      BY <3>1, HeadTail, FrameNames DEF TypeOK
    <3>3. CASE handle[w] = "open"
      <4>1. handle' = [v \in Workers |-> IF v \in {w} THEN "removed" ELSE handle[v]]
        BY <2>2, <3>2, <3>3 DEF HandleCloseWorker, CloseWorkers
      <4>2. /\ {w} \in SUBSET Workers /\ \A v \in {w} : handle[v] = "open"
            /\ \E v \in {w} : {w} = {v} /\ Head(inbox) = CloseFrame(v)
        BY <3>2, <3>3
      <4>3. Head(inbox).kind # "Execute" /\ loop \notin {"shutdown", "exited"}
        BY <3>1
      <4> QED
        BY <3>1, <4>1, <4>2, <4>3, PlacedClose
    <3>4. CASE handle[w] # "open"
      <4>1. handle' = handle
        BY <2>2, <3>2, <3>4 DEF HandleCloseWorker
      <4> QED
        BY <3>1, <4>1, PlacedRead
    <3> QED
      BY <3>3, <3>4
  <2>3. CASE HandleShutdown
    <3>1. /\ loop = "read" /\ inbox # <<>> /\ Head(inbox).kind = "Shutdown" /\ loop' = "shutdown"
          /\ inbox' = Tail(inbox) /\ Still /\ UNCHANGED sent
      BY <2>3 DEF HandleShutdown, Handling, Still
    <3> DEFINE ws == {w \in Workers : handle[w] = "open"}
    <3>2. handle' = [v \in Workers |-> IF v \in ws THEN "removed" ELSE handle[v]]
      BY <2>3 DEF HandleShutdown, CloseWorkers
    <3>3. ws \in SUBSET Workers /\ \A w \in ws : handle[w] = "open"
      OBVIOUS
    <3>4. Head(inbox).kind # "Execute" /\ loop \notin {"shutdown", "exited"}
      BY <3>1
    <3> HIDE DEF ws
    <3> QED
      BY <3>1, <3>2, <3>3, <3>4, PlacedClose
  <2>4. CASE HandleHealthCheck \/ HandleGuestResponse \/ FinishUpdate \/ CancelActive \/ CancelInactive
    <3>1. /\ inbox # <<>> /\ Head(inbox).kind # "Execute" /\ loop \notin {"shutdown", "exited"}
          /\ inbox' = Tail(inbox) /\ Still /\ UNCHANGED <<sent, handle>>
      BY <2>4 DEF HandleHealthCheck, HandleGuestResponse, FinishUpdate, CancelActive,
                  CancelInactive, Handling, Done, Still, InHand
    <3> QED
      BY <3>1, PlacedRead
  <2>5. CASE HandleCancel \/ HandleUpdateLimits \/ PushUpdate
    <3>1. /\ inbox # <<>> /\ Head(inbox).kind # "Execute" /\ loop \notin {"shutdown", "exited"}
          /\ inbox' = Tail(inbox) \/ UNCHANGED inbox
          /\ Still /\ UNCHANGED <<sent, handle>>
      BY <2>5 DEF HandleCancel, HandleUpdateLimits, PushUpdate, Handling, Done, Still, InHand
    <3> QED
      BY <3>1, PlacedRead, PlacedQuiet
  <2>6. CASE ExitServer
    BY <2>6, PlacedQuiet DEF ExitServer, Still
  <2> QED
    BY <1>2, <2>1, <2>2, <2>3, <2>4, <2>5, <2>6 DEF Loop
<1>3. ASSUME NEW w \in Workers, Actor(w) PROVE Placed'
  BY <1>3, PlacedLife, PlacedRefuse, PlacedBegin, PlacedStart, PlacedReport DEF Actor
<1>4. ASSUME NEW w \in Workers, Watcher(w) \/ DeadlinePasses(w) PROVE Placed'
  <2>1. CASE WatchTimeout(w) \/ \E how : StopExecution(w, how)
    BY <2>1, PlacedStop DEF WatchTimeout
  <2>2. CASE ~(WatchTimeout(w) \/ \E how : StopExecution(w, how))
    <3>1. Still /\ UNCHANGED <<inbox, sent, handle, loop>>
      BY <1>4, <2>2 DEF Watcher, WatchCheck, WatchNotified, WatchReschedule, DeadlinePasses, Still
    <3> QED
      BY <3>1, PlacedQuiet
  <2> QED
    BY <2>1, <2>2
<1>5. ASSUME NEW w \in Workers, Guest(w) PROVE Placed'
  <2>1. CASE GuestExits(w)
    BY <2>1, PlacedStop DEF GuestExits
  <2>2. CASE ~GuestExits(w)
    <3>1. Still /\ UNCHANGED <<inbox, sent, handle, loop>>
      BY <1>5, <2>2 DEF Guest, GuestImports, GuestBlocks, TimerFires, EpochTick, SpinNext, Still
    <3> QED
      BY <3>1, PlacedQuiet
  <2> QED
    BY <2>1, <2>2
<1>6. CASE UNCHANGED vars
  BY <1>6, PlacedQuiet DEF vars, Still
<1> QED
  BY <1>1, <1>2, <1>3, <1>4, <1>5, <1>6 DEF Next

\* Placed is an invariant of the daemon.
LEMMA AlwaysPlaced == Spec => []Placed
  BY PlacedInit, PlacedStep, TypeCorrect, PTL DEF Spec

-----------------------------------------------------------------------------
(* What follows from it *)

\* An execution is in at most one of the command queue, the actor and the
\* results, and one the daemon refused never starts: for any number of workers,
\* executions and any queue capacity.
THEOREM NeverInTwoPlaces == Spec => []OnePlace
<1>1. ASSUME TypeOK, Placed PROVE OnePlace
  <2> SUFFICES ASSUME NEW e \in Execs
               PROVE  LET w == Owner[e]
                          places == {i \in 1..Len(commands[w]) : commands[w][i] = e}
                      IN /\ Cardinality(places) <= 1
                         /\ places # {} => ~started[e] /\ result[e] = "none" /\ exec[w] # e
                         /\ result[e] # "none" => exec[w] # e
                         /\ result[e] = "InfrastructureError" => ~started[e]
    BY DEF OnePlace
  <2> DEFINE places == {i \in 1..Len(commands[Owner[e]]) : commands[Owner[e]][i] = e}
  <2>1. Cardinality(places) <= 1
    <3>1. \A i, j \in places : i = j
      BY <1>1, ConstantsAssumption DEF Placed, QueueOnce, Distinct
    <3>2. places = {} \/ \E i : places = {i}
      BY <3>1
    <3> HIDE DEF places
    <3> QED
      BY <3>2, FS_EmptySet, FS_Singleton
  <2>2. places # {} => Queued(e)
    BY DEF Queued, Elems
  <2> QED
    BY <1>1, <2>1, <2>2 DEF Placed, OneOf, WithActor
<1> QED
  BY <1>1, AlwaysPlaced, TypeCorrect, PTL

\* A step never changes an ExecuteResult that was sent.
LEMMA ResultStays ==
  ASSUME TypeOK, InHand, Placed, [Next]_vars, NEW e \in Execs, result[e] # "none"
  PROVE  result'[e] = result[e]
<1>0. ~OnTheWay(e) /\ ~Queued(e) /\ ~WithActor(e)
  BY DEF Placed, OneOf
<1>1. CASE HandleExecute
  <2>1. /\ inbox # <<>> /\ Head(inbox).kind = "Execute" /\ TrySend(Head(inbox).worker, Head(inbox).exec)
    BY <1>1 DEF HandleExecute, Handling
  <2>2. Head(inbox) \in Elems(inbox) /\ Head(inbox) = ExecuteFrame(Head(inbox).exec)
    BY <2>1, TailElems, FrameNames DEF TypeOK, Placed, SocketOnce
  <2>3. Head(inbox).exec # e
    BY <1>0, <2>2 DEF OnTheWay
  <2> QED
    BY <2>1, <2>3 DEF TrySend, TypeOK
<1>2. ASSUME NEW w \in Workers, FailQueued(w) \/ RefuseLimits(w) PROVE result'[e] = result[e]
  <2>1. commands[w] # <<>> /\ result' = [result EXCEPT ![Head(commands[w])] = "InfrastructureError"]
    BY <1>2 DEF FailQueued, RefuseLimits
  <2>2. Head(commands[w]) \in Elems(commands[w])
    BY <2>1, TailElems DEF TypeOK, Placed, QueueOnce
  <2>3. Head(commands[w]) # e
    BY <1>0, <2>2 DEF Placed, QueueOnce, Queued
  <2> QED
    BY <2>1, <2>3 DEF TypeOK
<1>3. ASSUME NEW w \in Workers, ReportExecution(w) PROVE result'[e] = result[e]
  <2>1. exec[w] # e
    BY <1>0, ConstantsAssumption DEF Placed, ActorHolds, WithActor
  <2> QED
    BY <1>3, <2>1 DEF ReportExecution, TypeOK
<1> USE DEF clientVars, loopVars, controlVars, deadlineVars, guestVars, updateVars,
            replyVars, actorVars, closeVars
<1>4. CASE Supervisor
  BY <1>4 DEF Supervisor, SubmitExecute, SubmitCancel, HostAnswers, SubmitUpdate,
              SubmitClose, SubmitHealth, SubmitShutdown, Submit
<1>5. CASE Loop /\ ~HandleExecute
  BY <1>5 DEF Loop, HandleHealthCheck, HandleCancel, CancelActive, CancelInactive,
              HandleUpdateLimits, PushUpdate, FinishUpdate, HandleCloseWorker,
              HandleGuestResponse, HandleShutdown, ExitServer
<1>6. ASSUME NEW w \in Workers, Actor(w) PROVE result'[e] = result[e]
  BY <1>2, <1>3, <1>6 DEF Actor, LoadWorker, EndActor, BeginExecution, StartExecution
<1>7. ASSUME NEW w \in Workers, Watcher(w) \/ Guest(w) \/ DeadlinePasses(w) PROVE result' = result
  BY <1>7 DEF Watcher, WatchCheck, WatchNotified, WatchReschedule, WatchTimeout, DeadlinePasses,
              Guest, GuestImports, GuestBlocks, TimerFires, EpochTick, SpinNext, GuestExits,
              StopExecution
<1>8. CASE UNCHANGED vars
  BY <1>8 DEF vars
<1> QED
  BY <1>1, <1>4, <1>5, <1>6, <1>7, <1>8 DEF Next

\* Once an ExecuteResult was sent no step sends another for that execution.
THEOREM AnsweredOnce == Spec => ResultFinal
<1>1. TypeOK /\ InHand /\ Placed /\ [Next]_vars
        => [\A e \in Execs : result[e] # "none" => result'[e] = result[e]]_vars
  BY ResultStays
<1> QED
  BY <1>1, AlwaysPlaced, TypeCorrect, PTL DEF Spec, ResultFinal

\* Closing a worker throws no admitted execution away: when its actor has ended,
\* every execution sent to it is answered or was not read yet.
THEOREM CloseDrains == Spec => []EndedMeansDrained
<1>1. ASSUME TypeOK, Placed PROVE EndedMeansDrained
  <2> SUFFICES ASSUME NEW e \in Execs, actor[Owner[e]] = "ended", ExecuteFrame(e) \in sent
               PROVE  \/ result[e] # "none"
                      \/ \E i \in 1..Len(inbox) : inbox[i] = ExecuteFrame(e)
    BY DEF EndedMeansDrained
  <2>1. Owner[e] \in Workers
    BY ConstantsAssumption
  <2>2. ~Queued(e)
    BY <1>1, <2>1, EmptyElems DEF Placed, EntryAndActor, Queued
  <2>3. ~WithActor(e)
    BY <1>1, <2>1, ConstantsAssumption DEF Placed, ActorHolds, WithActor
  <2> QED
    BY <1>1, <2>2, <2>3 DEF Placed, OneOf, OnTheWay, Elems
<1> QED
  BY <1>1, AlwaysPlaced, TypeCorrect, PTL

-----------------------------------------------------------------------------
(* An acknowledged cancellation takes effect. *)

\* An execution that is over or stopping, and one that is bound to stop.
Over(e) == result[e] # "none" \/ (actor[Owner[e]] = "stopped" /\ exec[Owner[e]] = e)
Doomed(e) == Over(e) \/ (actor[Owner[e]] = "running" /\ exec[Owner[e]] = e /\ cancelled[Owner[e]])

\* A cancel follows the start of its execution, so that one which misses the
\* active execution finds it over or stopping.
CancelFollowsStart ==
  /\ \A e \in Execs : CancelFrame(e) \in sent => started[e]
  /\ accepted \subseteq sent
  /\ loop = "cancel_miss" => \A e \in Execs : Head(inbox) = CancelFrame(e) => Over(e)

\* An execution that has started stays so, one that is over or stopping too, and
\* nothing takes the cancelled flag from a running one.
LEMMA DoomedStays ==
  ASSUME TypeOK, InHand, Placed, [Next]_vars, NEW e \in Execs
  PROVE  /\ started[e] => started'[e]
         /\ Over(e) => Over(e)'
         /\ Doomed(e) => Doomed(e)'
<1> USE DEF clientVars, loopVars, controlVars, deadlineVars, guestVars, updateVars,
            replyVars, actorVars, closeVars
<1> DEFINE w == Owner[e]
           Kept == /\ actor'[w] = actor[w] /\ exec'[w] = exec[w]
                   /\ cancelled[w] => cancelled'[w]
<1>0. w \in Workers /\ (result[e] # "none" => result'[e] # "none")
  BY ResultStays, ConstantsAssumption
<1>1. CASE started' = started /\ Kept
  BY <1>0, <1>1 DEF Over, Doomed
<1>2. CASE Supervisor \/ UNCHANGED vars
  <2>1. UNCHANGED <<started, actor, exec, cancelled>>
    BY <1>2 DEF Supervisor, SubmitExecute, SubmitCancel, HostAnswers, SubmitUpdate,
                SubmitClose, SubmitHealth, SubmitShutdown, Submit, vars
  <2> QED
    BY <1>1, <2>1
<1>3. CASE HandleExecute
  <2>1. /\ actor' = [actor EXCEPT ![Head(inbox).worker] =
             IF handle[Head(inbox).worker] = "open" THEN actor[Head(inbox).worker] ELSE "loading"]
        /\ UNCHANGED <<started, exec, cancelled>>
    BY <1>3 DEF HandleExecute
  <2>2. CASE actor'[w] = actor[w]
    BY <1>1, <2>1, <2>2
  <2>3. CASE actor'[w] # actor[w]
    <3>1. w = Head(inbox).worker /\ handle[w] # "open"
      BY <1>0, <2>1, <2>3 DEF TypeOK
    <3>2. loop = "read" /\ inbox # <<>> /\ Head(inbox).kind = "Execute"
      BY <1>3 DEF HandleExecute, Handling
    <3>3. Head(inbox) \in Elems(inbox) /\ Head(inbox) \in Frames
      BY <3>2, TailElems DEF TypeOK, Placed, SocketOnce
    <3>4. PICK d \in Execs : Head(inbox) = ExecuteFrame(d) /\ Owner[d] = w
      BY <3>1, <3>2, <3>3, FrameNames
    <3>5. handle[w] = "absent"
      BY <1>0, <3>1, <3>2, <3>3, <3>4 DEF TypeOK, Placed, NoneAfterClose
    <3>6. actor[w] = "none"
      BY <1>0, <3>5 DEF Placed, EntryAndActor
    <3> QED
      BY <1>0, <2>1, <3>6 DEF Over, Doomed
  <2> QED
    BY <2>2, <2>3
<1>4. CASE Loop /\ ~HandleExecute
  <2>1. UNCHANGED <<started, actor, exec>>
    BY <1>4 DEF Loop, HandleHealthCheck, HandleCancel, CancelActive, CancelInactive,
                HandleUpdateLimits, PushUpdate, FinishUpdate, HandleCloseWorker,
                HandleGuestResponse, HandleShutdown, ExitServer
  <2>2. cancelled' = cancelled \/ cancelled' = [cancelled EXCEPT ![Head(inbox).worker] = TRUE]
    BY <1>4 DEF Loop, HandleHealthCheck, HandleCancel, CancelActive, CancelInactive,
                HandleUpdateLimits, PushUpdate, FinishUpdate, HandleCloseWorker,
                HandleGuestResponse, HandleShutdown, ExitServer
  <2>3. cancelled[w] => cancelled'[w]
    BY <1>0, <2>2, ZenonT(60) DEF TypeOK
  <2> QED
    BY <1>1, <2>1, <2>3
<1>5. ASSUME NEW v \in Workers, Actor(v)
      PROVE  (started[e] => started'[e]) /\ (Over(e) => Over(e)') /\ (Doomed(e) => Doomed(e)')
  <2>1. CASE FailQueued(v) \/ RefuseLimits(v)
    <3>1. UNCHANGED <<started, actor, exec, cancelled>>
      BY <2>1 DEF FailQueued, RefuseLimits
    <3> QED
      BY <1>1, <3>1
  <2>2. CASE LoadWorker(v) \/ EndActor(v)
    <3>1. /\ UNCHANGED <<started, exec, cancelled>> /\ actor[v] \notin {"running", "stopped"}
          /\ \A u \in Workers : u # v => actor'[u] = actor[u]
      BY <2>2 DEF LoadWorker, EndActor, TypeOK
    <3> QED
      BY <1>0, <1>1, <3>1 DEF Over, Doomed
  <2>3. CASE BeginExecution(v)
    <3>1. /\ UNCHANGED started /\ actor[v] = "recv"
          /\ \A u \in Workers : u # v => actor'[u] = actor[u] /\ exec'[u] = exec[u] /\ cancelled'[u] = cancelled[u]
      BY <2>3 DEF BeginExecution, TypeOK
    <3> QED
      BY <1>0, <1>1, <3>1 DEF Over, Doomed
  <2>4. CASE StartExecution(v)
    <3>1. /\ UNCHANGED <<exec, cancelled>> /\ actor[v] = "begin"
          /\ \A u \in Workers : u # v => actor'[u] = actor[u]
      BY <2>4 DEF StartExecution, TypeOK
    <3>2. started[e] => started'[e]
      BY <2>4 DEF StartExecution, TypeOK
    <3> QED
      BY <1>0, <3>1, <3>2 DEF Over, Doomed
  <2>5. CASE ReportExecution(v)
    <3>1. /\ UNCHANGED <<started, cancelled>> /\ actor[v] = "stopped" /\ exec[v] \in Execs
          /\ result' = [result EXCEPT ![exec[v]] = Reason(v)]
          /\ \A u \in Workers : u # v => actor'[u] = actor[u] /\ exec'[u] = exec[u]
      BY <2>5 DEF ReportExecution, TypeOK, InHand
    <3>2. exec[v] = e => result'[e] # "none"
      BY <3>1, ReasonGiven DEF TypeOK
    <3> QED
      BY <1>0, <1>1, <3>1, <3>2 DEF Over, Doomed
  <2> QED
    BY <1>5, <2>1, <2>2, <2>3, <2>4, <2>5 DEF Actor
<1>6. ASSUME NEW v \in Workers, NEW how, StopExecution(v, how)
      PROVE  (started[e] => started'[e]) /\ (Over(e) => Over(e)') /\ (Doomed(e) => Doomed(e)')
  <2>1. /\ UNCHANGED <<started, exec, cancelled>> /\ actor[v] = "running" /\ actor'[v] = "stopped"
        /\ \A u \in Workers : u # v => actor'[u] = actor[u]
    BY <1>6 DEF StopExecution, TypeOK
  <2> QED
    BY <1>0, <2>1 DEF Over, Doomed
<1>7. ASSUME NEW v \in Workers, Watcher(v) \/ Guest(v) \/ DeadlinePasses(v),
             ~ \E how : StopExecution(v, how)
      PROVE  (started[e] => started'[e]) /\ (Over(e) => Over(e)') /\ (Doomed(e) => Doomed(e)')
  <2>1. UNCHANGED <<started, actor, exec, cancelled>>
    BY <1>7 DEF Watcher, WatchCheck, WatchNotified, WatchReschedule, WatchTimeout, DeadlinePasses,
                Guest, GuestImports, GuestBlocks, TimerFires, EpochTick, SpinNext, GuestExits
  <2> QED
    BY <1>1, <2>1
<1> QED
  BY <1>2, <1>3, <1>4, <1>5, <1>6, <1>7 DEF Next

\* The frame of a handler is one that was sent; a cancel that was sent names an
\* execution that has started.
LEMMA CancelInHand ==
  ASSUME TypeOK, InHand, Placed, CancelFollowsStart, inbox # <<>>
  PROVE  /\ Head(inbox) \in sent /\ Head(inbox) \in Frames
         /\ Head(inbox).kind = "Cancel" =>
              \E e \in Execs : /\ Head(inbox) = CancelFrame(e) /\ Head(inbox).exec = e
                               /\ Head(inbox).worker = Owner[e] /\ Owner[e] \in Workers
                               /\ result[e] # "none" \/ Held(Owner[e], e)
<1>1. Head(inbox) \in sent /\ Head(inbox) \in Frames
  BY TailElems DEF TypeOK, Placed, SocketOnce
<1>2. ASSUME Head(inbox).kind = "Cancel"
      PROVE  \E e \in Execs : /\ Head(inbox) = CancelFrame(e) /\ Head(inbox).exec = e
                              /\ Head(inbox).worker = Owner[e] /\ Owner[e] \in Workers
                              /\ result[e] # "none" \/ Held(Owner[e], e)
  BY <1>1, <1>2, FrameNames, ConstantsAssumption DEF CancelFollowsStart, Placed, OneOf
<1> QED
  BY <1>1, <1>2

\* Every step keeps the cancellations: one lost would have been inserted after
\* its execution had begun, and then its execution is over.
LEMMA CancelStep ==
  ASSUME TypeOK, InHand, Placed, CancelFollowsStart, CancelNotLost, [Next]_vars
  PROVE  CancelFollowsStart' /\ CancelNotLost'
<1> USE DEF clientVars, loopVars, controlVars, deadlineVars, guestVars, updateVars,
            replyVars, actorVars, closeVars
<1>0. /\ \A e \in Execs : started[e] => started'[e]
      /\ \A e \in Execs : Over(e) => Over(e)'
      /\ \A e \in Execs : Doomed(e) => Doomed(e)'
  BY DoomedStays
<1>1. CancelNotLost <=> \A e \in Execs : CancelFrame(e) \in accepted => Doomed(e)
  BY DEF CancelNotLost, Doomed, Over
<1>2. CancelNotLost' <=> \A e \in Execs : CancelFrame(e) \in accepted' => Doomed(e)'
  BY DEF CancelNotLost, Doomed, Over
<1>3. CASE UNCHANGED <<inbox, sent, loop, accepted>>
  BY <1>0, <1>1, <1>2, <1>3 DEF CancelFollowsStart
<1>4. CASE Supervisor
  <2>1. ASSUME NEW f \in Frames, Submit(f), \A e \in Execs : f = CancelFrame(e) => started[e]
        PROVE  CancelFollowsStart'
    <3>1. /\ sent' = sent \cup {f} /\ inbox' = Append(inbox, f)
          /\ UNCHANGED <<loop, accepted, started>>
      BY <2>1 DEF Submit
    <3>2. loop = "cancel_miss" => Head(inbox') = Head(inbox)
      BY <3>1, AppendKeepsHead DEF TypeOK, InHand
    <3> QED
      BY <1>0, <2>1, <3>1, <3>2 DEF CancelFollowsStart
  <2>2. \E f \in Frames : Submit(f) /\ \A e \in Execs : f = CancelFrame(e) => started[e]
    <3>1. CASE \E e \in Execs : SubmitCancel(e)
      BY <3>1, FrameConstructors, FrameNames DEF SubmitCancel
    <3>2. CASE \E e \in Execs, parts \in UpdateKinds : SubmitUpdate(e, parts)
      <4>1. PICK e \in Execs, parts \in UpdateKinds : Submit(UpdateFrame(e, parts))
        BY <3>2 DEF SubmitUpdate
      <4>2. UpdateFrame(e, parts) \in Frames /\ UpdateFrame(e, parts).kind = "UpdateLimits"
        BY FrameConstructors, FrameNames, ConstantsAssumption
      <4> QED
        BY <4>1, <4>2, FrameNames
    <3>3. CASE \E e \in Execs : SubmitExecute(e)
      BY <3>3, FrameConstructors, FrameNames DEF SubmitExecute
    <3>4. CASE \E e \in Execs : HostAnswers(e)
      BY <3>4, FrameConstructors, FrameNames DEF HostAnswers
    <3>5. CASE \E w \in Workers : SubmitClose(w)
      BY <3>5, FrameConstructors, FrameNames DEF SubmitClose
    <3>6. CASE SubmitHealth \/ SubmitShutdown
      BY <3>6, FrameConstructors, FrameNames DEF SubmitHealth, SubmitShutdown
    <3> QED
      BY <1>4, <3>1, <3>2, <3>3, <3>4, <3>5, <3>6 DEF Supervisor
  <2>3. accepted' = accepted
    BY <2>2 DEF Submit
  <2> QED
    BY <1>0, <1>1, <1>2, <2>1, <2>2, <2>3
<1>5. ASSUME UNCHANGED sent, loop' # "cancel_miss", inbox # <<>>,
             accepted' \subseteq accepted \cup {Head(inbox)},
             \A e \in Execs : Head(inbox) = CancelFrame(e) /\ accepted' # accepted => Doomed(e)'
      PROVE  CancelFollowsStart' /\ CancelNotLost'
  <2>1. Head(inbox) \in sent
    BY <1>5, CancelInHand
  <2>2. CancelFollowsStart'
    BY <1>0, <1>5, <2>1 DEF CancelFollowsStart
  <2>3. CancelNotLost'
    BY <1>0, <1>1, <1>2, <1>5
  <2> QED
    BY <2>2, <2>3
<1>6. CASE HandleCancel
  <2>1. /\ loop = "read" /\ inbox # <<>> /\ Head(inbox).kind = "Cancel" /\ accepted' = accepted
        /\ UNCHANGED <<sent, result, actor, exec>>
    BY <1>6 DEF HandleCancel, Handling, Refuse
  <2>2. PICK e \in Execs :
          (/\ Head(inbox) = CancelFrame(e) /\ Head(inbox).exec = e
           /\ Head(inbox).worker = Owner[e] /\ Owner[e] \in Workers
           /\ result[e] # "none" \/ Held(Owner[e], e))
    BY <2>1, CancelInHand
  <2>3. CASE loop' = "cancel_miss"
    <3>1. inbox' = inbox /\ active[Owner[e]] # e
      BY <1>6, <2>2, <2>3 DEF HandleCancel, Done
    <3>2. Over(e)
      BY <2>2, <3>1 DEF Over, Held, Placed, ActorHolds
    <3>3. \A d \in Execs : Head(inbox) = CancelFrame(d) => d = e
      BY <2>2, FrameNames
    <3>4. CancelFollowsStart'
      BY <1>0, <2>1, <3>1, <3>2, <3>3 DEF CancelFollowsStart
    <3> QED
      BY <1>0, <1>1, <1>2, <2>1, <3>4
  <2>4. CASE loop' # "cancel_miss"
    BY <1>5, <2>1, <2>4
  <2> QED
    BY <2>3, <2>4
<1>7. CASE CancelActive
  <2>1. /\ inbox # <<>> /\ Head(inbox).kind = "Cancel" /\ accepted' = accepted \cup {Head(inbox)}
        /\ cancelled' = [cancelled EXCEPT ![Head(inbox).worker] = TRUE] /\ loop' = "read"
        /\ UNCHANGED <<sent, result, actor, exec>>
    BY <1>7 DEF CancelActive, Accept, Done, InHand
  <2>2. PICK e \in Execs :
          (/\ Head(inbox) = CancelFrame(e) /\ Head(inbox).exec = e
           /\ Head(inbox).worker = Owner[e] /\ Owner[e] \in Workers
           /\ result[e] # "none" \/ Held(Owner[e], e))
    BY <2>1, CancelInHand
  <2>3. Doomed(e)'
    BY <2>1, <2>2 DEF Doomed, Over, Held, TypeOK
  <2>4. \A d \in Execs : Head(inbox) = CancelFrame(d) => d = e
    BY <2>2, FrameNames
  <2> QED
    BY <1>5, <2>1, <2>3, <2>4
<1>8. CASE CancelInactive
  <2>1. /\ loop = "cancel_miss" /\ inbox # <<>> /\ accepted' = accepted \cup {Head(inbox)}
        /\ loop' = "read" /\ UNCHANGED sent
    BY <1>8 DEF CancelInactive, Accept, Done, InHand
  <2>2. \A d \in Execs : Head(inbox) = CancelFrame(d) => Doomed(d)'
    BY <1>0, <2>1 DEF CancelFollowsStart, Doomed
  <2> QED
    BY <1>5, <2>1, <2>2
<1>9. CASE HandleHealthCheck \/ HandleUpdateLimits \/ PushUpdate \/ FinishUpdate
           \/ HandleCloseWorker \/ HandleGuestResponse \/ HandleShutdown \/ HandleExecute
  <2>1. /\ inbox # <<>> /\ Head(inbox).kind # "Cancel" /\ loop' # "cancel_miss" /\ UNCHANGED sent
        /\ accepted' \subseteq accepted \cup {Head(inbox)}
    BY <1>9 DEF HandleHealthCheck, HandleUpdateLimits, PushUpdate, FinishUpdate, HandleCloseWorker,
                HandleGuestResponse, HandleShutdown, HandleExecute, Handling, Done, Accept, Refuse, InHand
  <2>2. \A d \in Execs : Head(inbox) # CancelFrame(d)
    BY <2>1, FrameNames
  <2> QED
    BY <1>5, <2>1, <2>2
<1>10. CASE ExitServer
  <2>1. UNCHANGED <<sent, accepted>> /\ loop' # "cancel_miss"
    BY <1>10 DEF ExitServer
  <2> QED
    BY <1>0, <1>1, <1>2, <2>1 DEF CancelFollowsStart
<1>11. ASSUME NEW w \in Workers, Actor(w) \/ Watcher(w) \/ Guest(w) \/ DeadlinePasses(w)
       PROVE  UNCHANGED <<inbox, sent, loop, accepted>>
  <2>1. CASE Actor(w)
    BY <2>1 DEF Actor, LoadWorker, FailQueued, EndActor, RefuseLimits, BeginExecution,
                StartExecution, ReportExecution
  <2>2. CASE Watcher(w) \/ DeadlinePasses(w)
    BY <2>2 DEF Watcher, WatchCheck, WatchNotified, WatchReschedule, WatchTimeout, StopExecution,
                DeadlinePasses
  <2>3. CASE Guest(w)
    BY <2>3 DEF Guest, GuestImports, GuestBlocks, TimerFires, EpochTick, SpinNext, GuestExits,
                StopExecution
  <2> QED
    BY <1>11, <2>1, <2>2, <2>3
<1>12. CASE UNCHANGED vars
  BY <1>3, <1>12 DEF vars
<1> QED
  BY <1>3, <1>4, <1>6, <1>7, <1>8, <1>9, <1>10, <1>11, <1>12 DEF Next, Loop

\* A cancellation the daemon has acknowledged is never lost between the load of
\* active_execution and the insert into pending_cancellations, whatever the
\* actor does meanwhile: for any number of workers and executions.
THEOREM CancelTakesEffect == Spec => []CancelNotLost
<1>1. Init => CancelFollowsStart /\ CancelNotLost
  BY DEF Init, CancelFollowsStart, CancelNotLost
<1>2. TypeOK /\ InHand /\ Placed /\ CancelFollowsStart /\ CancelNotLost /\ [Next]_vars
        => CancelFollowsStart' /\ CancelNotLost'
  BY CancelStep
<1> QED
  BY <1>1, <1>2, AlwaysPlaced, TypeCorrect, PTL DEF Spec
=============================================================================
