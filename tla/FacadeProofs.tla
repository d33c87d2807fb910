---------------------------- MODULE FacadeProofs ----------------------------
(***************************************************************************)
(* For any number of workers, tasks, calls and methods: the facade has one *)
(* subprocess, none is forgotten, it knows every handler, and no task ends *)
(* before it asked for its worker in the daemon to be closed, unless a     *)
(* call that waits for the worker's start is cancelled.                    *)
(***************************************************************************)
EXTENDS Facade, TLAPS

\* Types and ownership, which need each other.
IInv == TypeOK /\ Owned /\ StartsAlone

\* Nothing is started in the initial state.
LEMMA InitIInv == Init => IInv
  BY FacadeAssumption DEF Init, IInv, TypeOK, Owned, StartsAlone, Running, Tasks

\* _get_sandbox up to its first await after the lock: the open process is returned,
\* a closed one leaves _sandbox, or a start begins, with _sandbox empty.
LEMMA GetSandboxStep ==
  ASSUME IInv, NEW t \in Tasks, GetSandbox(t) \/ Acquire(t)
  PROVE  IInv'
  BY FacadeAssumption, SMTT(30)
  DEF IInv, TypeOK, Owned, StartsAlone, Running, Tasks, GetSandbox, Acquire, At, Goes, Ends,
      IsOpen, Got, Execute, CannotExecute, Replace, Start, runtimeVars, workerVars, rpcVars

\* The rest of _get_sandbox: a connected process becomes the runtime's in the step
\* that releases the lock, a failed one does not run.
LEMMA StartStep ==
  ASSUME IInv, NEW t \in Tasks, StaleClosed(t) \/ Started(t) \/ StartFailed(t)
  PROVE  IInv'
  <1>1. CASE StaleClosed(t)
    BY <1>1, FacadeAssumption
    DEF IInv, TypeOK, Owned, StartsAlone, Running, Tasks, StaleClosed, At, Goes, Ends, Start,
        workerVars, rpcVars
  <1>2. CASE Started(t)
    BY <1>2, FacadeAssumption, SMTT(30)
    DEF IInv, TypeOK, Owned, StartsAlone, Running, Tasks, Started, At, Goes, Ends, Got,
        Execute, CannotExecute, workerVars, rpcVars
  <1>3. CASE StartFailed(t)
    BY <1>3, FacadeAssumption
    DEF IInv, TypeOK, Owned, StartsAlone, Running, Tasks, StartFailed, At, Ends, Abort,
        workerVars, rpcVars
  <1> QED BY <1>1, <1>2, <1>3

\* A cancelled task gives back the lock and the process it was starting.
LEMMA CancelStep ==
  ASSUME IInv, NEW t \in Tasks, CancelTask(t) \/ Raise(t)
  PROVE  IInv'
  <1>1. CASE CancelTask(t)
    BY <1>1, FacadeAssumption
    DEF IInv, TypeOK, Owned, StartsAlone, Running, Tasks, CancelTask, runtimeVars,
        workerVars, rpcVars
  <1>2. CASE Raise(t) /\ RaiseStarting(t)
    BY <1>2, FacadeAssumption
    DEF IInv, TypeOK, Owned, StartsAlone, Running, Tasks, Raise, RaiseStarting, Abort, Ends,
        rpcVars
  <1>3. CASE Raise(t) /\ RaiseStale(t)
    BY <1>3, FacadeAssumption
    DEF IInv, TypeOK, Owned, StartsAlone, Running, Tasks, Raise, RaiseStale, Ends, rpcVars
  <1>4. CASE Raise(t) /\ (RaiseEarly(t) \/ RaiseRunning(t) \/ RaiseFinally(t))
    BY <1>4, FacadeAssumption
    DEF IInv, TypeOK, Owned, StartsAlone, Running, Tasks, Raise, RaiseEarly, RaiseRunning,
        RaiseFinally, Ends, rpcVars, runtimeVars
  <1> QED BY <1>1, <1>2, <1>3, <1>4 DEF Raise

\* Subprocesses change on their own.
LEMMA ProcessStep ==
  ASSUME IInv, NEW t \in Tasks,
         Connects(t) \/ DoesNotConnect(t) \/ Crashes(t) \/ Exits(t)
  PROVE  IInv'
  BY FacadeAssumption
  DEF IInv, TypeOK, Owned, StartsAlone, Running, Tasks, Connects, DoesNotConnect, Crashes,
      Exits, Becomes, taskVars, workerVars, rpcVars

\* close() takes the runtime's subprocess away only together with its end.
LEMMA ClientStep ==
  ASSUME IInv, NEW c \in Clients, Open(c) \/ Close(c) \/ Closed(c)
  PROVE  IInv'
  <1>1. CASE Open(c)
    BY <1>1, FacadeAssumption
    DEF IInv, TypeOK, Owned, StartsAlone, Running, Tasks, Open, Goes, runtimeVars,
        workerVars, rpcVars
  <1>2. CASE Close(c)
    BY <1>2, FacadeAssumption
    DEF IInv, TypeOK, Owned, StartsAlone, Running, Tasks, Close, Goes, Ends, workerVars,
        rpcVars
  <1>3. CASE Closed(c)
    BY <1>3, FacadeAssumption
    DEF IInv, TypeOK, Owned, StartsAlone, Running, Tasks, Closed, Goes, Ends, workerVars,
        rpcVars
  <1> QED BY <1>1, <1>2, <1>3

\* The task of a worker leaves lock and subprocesses alone once it has an execution.
LEMMA WorkerStep ==
  ASSUME IInv, NEW w \in Workers,
         Run(w) \/ ResultArrives(w) \/ WorkerClosed(w) \/ TaskDone(w) \/ CloseWorker(w)
  PROVE  IInv'
  <1>1. CASE Run(w)
    BY <1>1, FacadeAssumption
    DEF IInv, TypeOK, Owned, StartsAlone, Running, Tasks, Run, Goes, runtimeVars,
        workerVars, rpcVars
  <1>2. CASE ResultArrives(w)
    BY <1>2, FacadeAssumption
    DEF IInv, TypeOK, Owned, StartsAlone, Running, Tasks, ResultArrives, At, runtimeVars,
        rpcVars
  <1>3. CASE WorkerClosed(w)
    BY <1>3, FacadeAssumption
    DEF IInv, TypeOK, Owned, StartsAlone, Running, Tasks, WorkerClosed, At, Ends,
        runtimeVars, rpcVars
  <1>4. CASE TaskDone(w)
    BY <1>4, FacadeAssumption
    DEF IInv, TypeOK, Owned, StartsAlone, Running, Tasks, TaskDone, runtimeVars, taskVars,
        rpcVars
  <1>5. CASE CloseWorker(w)
    <2>0. /\ cancelling \in [Tasks -> BOOLEAN] /\ joining \in [Workers -> BOOLEAN]
          /\ joining' = [joining EXCEPT ![w] = TRUE]
          /\ \/ cancelling' = [cancelling EXCEPT ![w] = TRUE]
             \/ cancelling' = cancelling
      BY <1>5, Zenon DEF IInv, TypeOK, CloseWorker, Cancel
    <2>1. cancelling' \in [Tasks -> BOOLEAN] /\ joining' \in [Workers -> BOOLEAN]
      BY <2>0
    <2>2. daemon' \in [Workers -> {"none", "live", "stopping", "asked", "closed"}]
      BY <1>5 DEF IInv, TypeOK, CloseWorker, Cancel
    <2>3. UNCHANGED <<runtimeVars, pc, how, rpcVars, ready, execution, call>>
      BY <1>5 DEF CloseWorker
    <2> QED BY <2>1, <2>2, <2>3
        DEF IInv, TypeOK, Owned, StartsAlone, Running, runtimeVars, rpcVars
  <1> QED BY <1>1, <1>2, <1>3, <1>4, <1>5

\* A call changes itself, and at most the future it waits for.
LEMMA CallStep ==
  ASSUME IInv, NEW k \in Calls,
         CallWorker(k) \/ ExecutionReady(k) \/ CallEnds(k) \/ AbandonCall(k)
  PROVE  IInv'
  <1>1. CASE CallWorker(k) \/ ExecutionReady(k) \/ CallEnds(k)
    BY <1>1, FacadeAssumption
    DEF IInv, TypeOK, Owned, StartsAlone, Running, Tasks, CallWorker, ExecutionReady,
        CallEnds, runtimeVars, taskVars, workerVars, rpcVars
  <1>2. CASE AbandonCall(k)
    BY <1>2, FacadeAssumption
    DEF IInv, TypeOK, Owned, StartsAlone, Running, Tasks, AbandonCall, runtimeVars,
        taskVars, rpcVars
  <1> QED BY <1>1, <1>2

\* expose() changes the tables of handlers only.
LEMMA RegisterStep ==
  ASSUME IInv, NEW m \in Methods, Register(m)
  PROVE  IInv'
  BY FacadeAssumption
  DEF IInv, TypeOK, Owned, StartsAlone, Running, Tasks, Register, runtimeVars, taskVars,
      workerVars, rpcVars

\* Every step keeps types and ownership.
LEMMA NextIInv == IInv /\ [Next]_vars => IInv'
  <1> SUFFICES ASSUME IInv, [Next]_vars PROVE IInv'
    OBVIOUS
  <1>1. CASE UNCHANGED vars
    BY <1>1 DEF IInv, TypeOK, Owned, StartsAlone, Running, Tasks, vars, runtimeVars,
                taskVars, workerVars, rpcVars
  <1>2. CASE Next
    BY <1>2, GetSandboxStep, StartStep, CancelStep, ProcessStep, ClientStep, WorkerStep,
       CallStep, RegisterStep DEF Next
  <1> QED BY <1>1, <1>2

\* Every reachable state of the facade is well typed; in particular the start lock
\* is held by exactly the task that replaces or starts the subprocess.
THEOREM FacadeTypes == Spec => []TypeOK
  <1>1. IInv => TypeOK BY DEF IInv
  <1> QED BY <1>1, InitIInv, NextIInv, PTL DEF Spec

\* No running subprocess is out of reach of the runtime, whatever starts, crashes,
\* closes and cancellations _get_sandbox and close() go through.
THEOREM NoneForgotten == Spec => []Owned
  <1>1. IInv => Owned BY DEF IInv
  <1> QED BY <1>1, InitIInv, NextIInv, PTL DEF Spec

\* There is one subprocess: it is the runtime's, and then nobody is starting one, or
\* it belongs to the one holder of the start lock.
THEOREM StartedOnce == Spec => []OneSubprocess
  <1>1. IInv => OneSubprocess
    <2> SUFFICES ASSUME IInv, NEW s \in Running, NEW t \in Running PROVE s = t
      BY DEF OneSubprocess
    <2>1. /\ s = sandbox \/ lock = s
          /\ t = sandbox \/ lock = t
      BY DEF IInv, TypeOK, Owned, Running
    <2>2. s # None /\ t # None
      BY FacadeAssumption DEF Running
    <2> QED BY <2>1, <2>2 DEF IInv, StartsAlone
  <1> QED BY <1>1, InitIInv, NextIInv, PTL DEF Spec

-----------------------------------------------------------------------------
(* Handlers.                                                               *)

\* A process becomes the runtime's in the step that gives it the handlers, and one
\* that is the runtime's is given each later one.
LEMMA HandlersStep ==
  ASSUME IInv, HandlersExposed, [Next]_vars
  PROVE  HandlersExposed'
  <1>1. CASE \E t \in Tasks : GetSandbox(t) \/ Acquire(t)
    BY <1>1 DEF HandlersExposed, GetSandbox, Acquire, Replace, runtimeVars, rpcVars
  <1>2. CASE \E t \in Tasks : Started(t)
    BY <1>2 DEF HandlersExposed, IInv, TypeOK, Started
  <1>3. CASE \E m \in Methods : Register(m)
    BY <1>3 DEF HandlersExposed, IInv, TypeOK, Register, runtimeVars
  <1>4. CASE \E c \in Clients : Close(c)
    BY <1>4 DEF HandlersExposed, Close, rpcVars
  <1>5. CASE UNCHANGED <<sandbox, handlers, exposed>>
    BY <1>5 DEF HandlersExposed
  <1>6. CASE \E t \in Tasks : StaleClosed(t) \/ StartFailed(t) \/ CancelTask(t) \/ Raise(t)
    BY <1>6, <1>5 DEF StaleClosed, StartFailed, CancelTask, Raise, RaiseEarly, RaiseStale,
                      RaiseStarting, RaiseRunning, RaiseFinally, runtimeVars, rpcVars
  <1>7. CASE \E t \in Tasks : Connects(t) \/ DoesNotConnect(t) \/ Crashes(t) \/ Exits(t)
    BY <1>7, <1>5 DEF Connects, DoesNotConnect, Crashes, Exits, Becomes, rpcVars
  <1>8. CASE \E c \in Clients : Open(c) \/ Closed(c)
    BY <1>8, <1>5 DEF Open, Closed, runtimeVars, rpcVars
  <1>9. CASE \E w \in Workers : \/ Run(w) \/ ResultArrives(w) \/ WorkerClosed(w)
                                \/ TaskDone(w) \/ CloseWorker(w)
    BY <1>9, <1>5 DEF Run, ResultArrives, WorkerClosed, TaskDone, CloseWorker, runtimeVars,
                      rpcVars
  <1>10. CASE \E k \in Calls : \/ CallWorker(k) \/ ExecutionReady(k) \/ CallEnds(k)
                               \/ AbandonCall(k)
    BY <1>10, <1>5 DEF CallWorker, ExecutionReady, CallEnds, AbandonCall, runtimeVars, rpcVars
  <1>11. CASE UNCHANGED vars
    BY <1>11, <1>5 DEF vars, runtimeVars, rpcVars
  <1> QED BY <1>1, <1>2, <1>3, <1>4, <1>6, <1>7, <1>8, <1>9, <1>10, <1>11 DEF Next

\* The runtime's subprocess knows every handler that was registered with expose(),
\* also those registered while it was being started.
THEOREM HandlersKnown == Spec => []HandlersExposed
  <1>1. Init => HandlersExposed BY DEF Init, HandlersExposed
  <1> QED BY <1>1, InitIInv, NextIInv, HandlersStep, PTL DEF Spec

-----------------------------------------------------------------------------
(* The workers in the daemon.                                              *)

ClosedInv == ClosesItsWorker /\ DaemonWorkerClosed

\* The task of a worker gets an execution only by entering "running".
LEMMA ExecuteStep ==
  ASSUME IInv, ClosedInv, NEW t \in Tasks, NEW s,
         Got(t, s), pc[t] \in {"created", "waiting", "starting"}
  PROVE  ClosedInv'
  BY FacadeAssumption
  DEF IInv, TypeOK, ClosedInv, ClosesItsWorker, DaemonWorkerClosed, Tasks, Got, Execute,
      CannotExecute, Goes, Ends, workerVars

\* A task without an execution may go anywhere but past run().
LEMMA EarlyStep ==
  ASSUME IInv, ClosedInv, NEW t \in Tasks, NEW p,
         pc' = [pc EXCEPT ![t] = p], p # "finally",
         t \in Workers => execution[t] = None,
         UNCHANGED workerVars
  PROVE  ClosedInv'
  BY FacadeAssumption
  DEF IInv, TypeOK, ClosedInv, ClosesItsWorker, DaemonWorkerClosed, Tasks, workerVars

\* _get_sandbox, its callers and its cancellation.
LEMMA TaskKeepsWorkers ==
  ASSUME IInv, ClosedInv, NEW t \in Tasks,
         \/ GetSandbox(t) \/ Acquire(t) \/ StaleClosed(t) \/ Started(t) \/ StartFailed(t)
         \/ CancelTask(t) \/ Raise(t)
  PROVE  ClosedInv'
  <1>1. t \in Workers /\ pc[t] \in {"created", "waiting", "stale", "starting"}
          => execution[t] = None
    BY DEF ClosedInv, ClosesItsWorker
  <1>2. ASSUME NEW d, Start(t, d), pc[t] \in {"created", "waiting", "stale"}
        PROVE  ClosedInv'
    BY <1>1, <1>2, EarlyStep DEF Start, Goes, Ends
  <1>3. ASSUME Replace(t), pc[t] \in {"created", "waiting"} PROVE ClosedInv'
    BY <1>1, <1>2, <1>3, EarlyStep DEF Replace, Goes
  <1>4. CASE GetSandbox(t)
    BY <1>1, <1>3, <1>4, ExecuteStep, EarlyStep DEF GetSandbox, At, Goes
  <1>5. CASE Acquire(t)
    BY <1>3, <1>5, ExecuteStep DEF Acquire, At
  <1>6. CASE StaleClosed(t)
    BY <1>2, <1>6 DEF StaleClosed, At
  <1>7. CASE Started(t)
    BY <1>7, ExecuteStep DEF Started, At
  <1>8. CASE StartFailed(t)
    BY <1>1, <1>8, EarlyStep DEF StartFailed, At, Abort, Ends
  <1>9. CASE CancelTask(t)
    BY <1>9 DEF CancelTask, ClosedInv, ClosesItsWorker, DaemonWorkerClosed, workerVars
  <1>10. CASE Raise(t) /\ (RaiseEarly(t) \/ RaiseStale(t) \/ RaiseStarting(t))
    BY <1>1, <1>10, EarlyStep
    DEF Raise, RaiseEarly, RaiseStale, RaiseStarting, Abort, Ends, workerVars
  <1>11. CASE Raise(t) /\ (RaiseRunning(t) \/ RaiseFinally(t))
    BY <1>11 DEF Raise, RaiseRunning, RaiseFinally, Ends, IInv, TypeOK, ClosedInv,
                 ClosesItsWorker, DaemonWorkerClosed, Tasks
  <1> QED BY <1>4, <1>5, <1>6, <1>7, <1>8, <1>9, <1>10, <1>11 DEF Raise

\* Only a call that is cancelled while it waits can cancel _execution_ready.
LEMMA ClosedStep ==
  ASSUME "abandon" \notin Faults, IInv, ClosedInv, [Next]_vars
  PROVE  ClosedInv'
  <1> USE DEF ClosedInv, ClosesItsWorker, DaemonWorkerClosed
  <1>1. CASE \E t \in Tasks : \/ GetSandbox(t) \/ Acquire(t) \/ StaleClosed(t) \/ Started(t)
                              \/ StartFailed(t) \/ CancelTask(t) \/ Raise(t)
    BY <1>1, TaskKeepsWorkers
  <1>2. CASE \E t \in Tasks : Connects(t) \/ DoesNotConnect(t) \/ Crashes(t) \/ Exits(t)
    BY <1>2 DEF Connects, DoesNotConnect, Crashes, Exits, Becomes, taskVars, workerVars
  <1>3. CASE \E c \in Clients : Open(c) \/ Close(c) \/ Closed(c)
    BY <1>3, FacadeAssumption DEF Open, Close, Closed, Goes, Ends, IInv, TypeOK, Tasks,
                                  workerVars
  <1>4. CASE \E w \in Workers : Run(w) \/ ResultArrives(w) \/ WorkerClosed(w) \/ TaskDone(w)
    BY <1>4 DEF Run, ResultArrives, WorkerClosed, TaskDone, At, Goes, Ends, IInv, TypeOK,
                Tasks, taskVars, workerVars
  <1>5. CASE \E w \in Workers : CloseWorker(w)
    BY <1>5 DEF CloseWorker, Cancel, IInv, TypeOK, Tasks
  <1>6. CASE \E k \in Calls : CallWorker(k) \/ ExecutionReady(k) \/ CallEnds(k)
    BY <1>6 DEF CallWorker, ExecutionReady, CallEnds, taskVars, workerVars
  <1>7. CASE \E k \in Calls : AbandonCall(k)
    BY <1>7, FacadeAssumption DEF AbandonCall, taskVars, IInv, TypeOK
  <1>8. CASE \E m \in Methods : Register(m)
    BY <1>8 DEF Register, taskVars, workerVars
  <1>9. CASE UNCHANGED vars
    BY <1>9 DEF vars, taskVars, workerVars
  <1> QED BY <1>1, <1>2, <1>3, <1>4, <1>5, <1>6, <1>7, <1>8, <1>9 DEF Next

\* Whatever ends the task of a worker - result, error, a dead subprocess, one
\* cancellation or several - Worker._execute has asked for the worker to be closed,
\* if no call is cancelled while it awaits _execution_ready.
THEOREM WorkersClosed ==
  ASSUME "abandon" \notin Faults
  PROVE  Spec => []DaemonWorkerClosed
  <1>1. Init => ClosedInv
    BY DEF Init, ClosedInv, ClosesItsWorker, DaemonWorkerClosed, Tasks
  <1>2. IInv /\ ClosedInv /\ [Next]_vars => ClosedInv'
    BY ClosedStep
  <1>3. ClosedInv => DaemonWorkerClosed
    BY DEF ClosedInv
  <1> QED BY <1>1, <1>2, <1>3, InitIInv, NextIInv, PTL DEF Spec
=============================================================================
