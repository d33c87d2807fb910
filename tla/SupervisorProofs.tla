-------------------------- MODULE SupervisorProofs --------------------------
(***************************************************************************)
(* Theorems about Supervisor, for every set of workers, executions and     *)
(* calls, every limit and every capacity, with and without a daemon that   *)
(* dies: the permits of the dispatchers are conserved, a guest call is     *)
(* answered once, and, where a worker runs one execution, it keeps to its  *)
(* share of the host dispatcher.                                           *)
(***************************************************************************)
EXTENDS Supervisor, QueueFacts, FiniteSetTheorems

Response(c) == Message("Response", c)
GuestCall(c) == Message("GuestCall", c)
Execute(e) == Message("Execute", e)
Result(e) == Message("Result", e)

\* The types, with permits that are only known to be numbers: that they keep to
\* the configured concurrency is what Counted says.
Shaped ==
  /\ state \in [Requests -> {"idle", "asked"} \cup Resolved] /\ ready \in [Execs -> BOOLEAN]
  /\ requests \in Seq(DownMessages) /\ toDaemon \in Seq(DownMessages) /\ toSup \in Seq(UpMessages)
  /\ up \in BOOLEAN /\ pending \subseteq Requests /\ limits \subseteq Workers
  /\ dispatcher \in [Workers -> GuestCalls \cup {None}]
  /\ guestTask \in [GuestCalls -> {"none", "acquire", "recv", "refuse", "ended"}]
  /\ permits \in [GuestCalls -> Nat] /\ queue \in [GuestCalls -> Seq(GuestCalls)]
  /\ via \in [GuestCalls -> GuestCalls \cup {None}]
  /\ hostTask \in {"acquire", "recv"} /\ hostPermits \in Nat /\ hostQueue \in Seq(GuestCalls)
  /\ place \in [GuestCalls -> Places] /\ lost \in BOOLEAN
  /\ open \subseteq Workers /\ waiting \in [Workers -> Seq(Execs)]
  /\ running \in [Workers -> Execs \cup {None}] /\ inside \subseteq Calls

-----------------------------------------------------------------------------
(* Types *)

\* Messages to the daemon, by kind.
LEMMA DownFields ==
  /\ \A e \in Execs : Execute(e) \in DownMessages /\ Execute(e).kind = "Execute" /\ Execute(e).id = e
  /\ \A k \in Calls : Message("WorkerCall", k) \in DownMessages
  /\ \A w \in Workers : Message("CloseWorker", w) \in DownMessages
  /\ \A c \in GuestCalls : Response(c) \in DownMessages /\ Response(c).kind = "Response" /\ Response(c).id = c
  /\ \A m \in DownMessages :
       \/ m.kind = "Execute" /\ m.id \in Execs /\ m = Execute(m.id)
       \/ m.kind = "WorkerCall" /\ m.id \in Calls /\ m = Message("WorkerCall", m.id)
       \/ m.kind = "CloseWorker" /\ m.id \in Workers /\ m = Message("CloseWorker", m.id)
       \/ m.kind = "Response" /\ m.id \in GuestCalls /\ m = Response(m.id)
<1>1. \A k, x : Message(k, x).kind = k /\ Message(k, x).id = x
  BY DEF Message
<1>2. DownMessages = {Execute(e) : e \in Execs} \cup {Message("WorkerCall", k) : k \in Calls}
                     \cup {Message("CloseWorker", w) : w \in Workers} \cup {Response(c) : c \in GuestCalls}
  BY DEF DownMessages, Execute, Response
<1>3. \A x : /\ Execute(x).kind = "Execute" /\ Execute(x).id = x
             /\ Response(x).kind = "Response" /\ Response(x).id = x
  BY <1>1 DEF Execute, Response
<1> QED
  BY <1>1, <1>2, <1>3

\* Messages of the daemon, by kind.
LEMMA UpFields ==
  /\ \A e \in Execs : /\ Message("Started", e) \in UpMessages /\ Message("Started", e).kind = "Started"
                      /\ Result(e) \in UpMessages /\ Result(e).kind = "Result" /\ Result(e).id = e
  /\ \A k \in Calls : /\ Message("WorkerResponse", k) \in UpMessages
                      /\ Message("WorkerResponse", k).kind = "WorkerResponse"
  /\ \A c \in GuestCalls : GuestCall(c) \in UpMessages /\ GuestCall(c).kind = "GuestCall" /\ GuestCall(c).id = c
  /\ \A w \in Workers : \A x \in {"Closed", "NotClosed"} :
       Message(x, w) \in UpMessages /\ Message(x, w).kind = x /\ Message(x, w).id = w
  /\ \A m \in UpMessages :
       \/ m.kind = "Started" /\ m.id \in Execs
       \/ m.kind = "Result" /\ m.id \in Execs /\ m = Result(m.id)
       \/ m.kind = "GuestCall" /\ m.id \in GuestCalls /\ m = GuestCall(m.id)
       \/ m.kind = "WorkerResponse" /\ m.id \in Calls
       \/ m.kind \in {"Closed", "NotClosed"} /\ m.id \in Workers /\ m = Message(m.kind, m.id)
<1>1. \A k, x : Message(k, x).kind = k /\ Message(k, x).id = x
  BY DEF Message
<1>2. UpMessages = {Message("Started", e) : e \in Execs} \cup {Result(e) : e \in Execs}
                   \cup {GuestCall(c) : c \in GuestCalls} \cup {Message("WorkerResponse", k) : k \in Calls}
                   \cup {Message("Closed", w) : w \in Workers} \cup {Message("NotClosed", w) : w \in Workers}
  BY DEF UpMessages, Result, GuestCall
<1>3. \A x : /\ Result(x).kind = "Result" /\ Result(x).id = x
             /\ GuestCall(x).kind = "GuestCall" /\ GuestCall(x).id = x
  BY <1>1 DEF Result, GuestCall
<1> QED
  BY <1>1, <1>2, <1>3

\* The worker of an execution and of a call.
LEMMA WorkerOfType ==
  /\ \A e \in Execs : WorkerOf(e) = Owner[e] /\ Owner[e] \in Workers
  /\ \A c \in Calls \cup GuestCalls : WorkerOf(c) = Owner[ExecOf[c]] /\ WorkerOf(c) \in Workers /\ ExecOf[c] \in Execs
  /\ \A w \in Workers : WorkerOf(w) = w
  BY SupervisorAssumption DEF WorkerOf

\* At the start.
LEMMA ShapedInit == Init => Shaped
<1> SUFFICES ASSUME Init PROVE Shaped
  OBVIOUS
<1>1. /\ <<>> \in Seq(DownMessages) /\ <<>> \in Seq(UpMessages) /\ <<>> \in Seq(GuestCalls) /\ <<>> \in Seq(Execs)
  BY EmptySeq
<1>2. GuestConcurrency \in Nat /\ HostConcurrency \in Nat
  BY SupervisorAssumption
<1>3. /\ state \in [Requests -> {"idle", "asked"} \cup Resolved] /\ ready \in [Execs -> BOOLEAN]
      /\ dispatcher \in [Workers -> GuestCalls \cup {None}]
      /\ guestTask \in [GuestCalls -> {"none", "acquire", "recv", "refuse", "ended"}]
  BY DEF Init
<1>4. /\ permits \in [GuestCalls -> Nat] /\ queue \in [GuestCalls -> Seq(GuestCalls)]
      /\ via \in [GuestCalls -> GuestCalls \cup {None}] /\ place \in [GuestCalls -> Places]
      /\ waiting \in [Workers -> Seq(Execs)] /\ running \in [Workers -> Execs \cup {None}]
  BY <1>1, <1>2 DEF Init, Places
<1>5. /\ requests \in Seq(DownMessages) /\ toDaemon \in Seq(DownMessages) /\ toSup \in Seq(UpMessages)
      /\ hostQueue \in Seq(GuestCalls) /\ hostPermits \in Nat
  BY <1>1, <1>2 DEF Init
<1>6. /\ up \in BOOLEAN /\ pending \subseteq Requests /\ limits \subseteq Workers /\ lost \in BOOLEAN
      /\ open \subseteq Workers /\ inside \subseteq Calls /\ hostTask \in {"acquire", "recv"}
  BY DEF Init
<1> QED
  BY <1>3, <1>4, <1>5, <1>6 DEF Shaped

\* The actor's end.
LEMMA StopActorShape ==
  ASSUME Shaped, StopActor
  PROVE  /\ up' \in BOOLEAN /\ pending' \subseteq Requests /\ requests' \in Seq(DownMessages)
         /\ state' \in [Requests -> {"idle", "asked"} \cup Resolved]
  BY EmptySeq DEF Shaped, StopActor, Resolved

\* Callers keep the types.
LEMMA ShapedCallers ==
  ASSUME Shaped, Callers \/ \E w \in Workers : CloseWorker(w) PROVE Shaped'
<1> USE DEF guestVars, hostVars, socketVars, daemonVars
<1>1. ASSUME NEW kind, NEW r \in Requests, Message(kind, r) \in DownMessages, Ask(kind, r) PROVE Shaped'
  <2>a. requests' = requests \/ requests' = Append(requests, Message(kind, r))
    BY <1>1 DEF Ask
  <2>b. requests \in Seq(DownMessages) /\ Append(requests, Message(kind, r)) \in Seq(DownMessages)
    BY <1>1, AppendKeepsHead DEF Shaped
  <2>1. requests' \in Seq(DownMessages)
    BY <2>a, <2>b
  <2>2. state' \in [Requests -> {"idle", "asked"} \cup Resolved]
    BY <1>1 DEF Shaped, Ask, Resolved
  <2> QED
    BY <1>1, <2>1, <2>2 DEF Shaped, Ask
<1>2. CASE (\E e \in Execs : Run(e)) \/ (\E k \in Calls : Call(k)) \/ \E w \in Workers : CloseWorker(w)
  BY <1>1, <1>2, DownFields DEF Run, Call, CloseWorker, Execute, Requests
<1>3. ASSUME NEW k \in Calls, CallTooEarly(k) PROVE Shaped'
  <2>1. state' \in [Requests -> {"idle", "asked"} \cup Resolved]
    BY <1>3 DEF Shaped, CallTooEarly, Resolved
  <2> QED
    BY <1>3, <2>1 DEF Shaped, CallTooEarly
<1>4. CASE Terminate
  <2>1. toDaemon' \in Seq(DownMessages)
    BY <1>4, EmptySeq DEF Terminate
  <2> QED
    BY <1>4, <2>1, StopActorShape DEF Shaped, Terminate
<1> QED
  BY <1>2, <1>3, <1>4 DEF Callers

\* The connection actor keeps the types.
LEMMA ShapedActor ==
  ASSUME Shaped, Actor PROVE Shaped'
<1> USE DEF requestVars, guestVars, hostVars, socketVars, daemonVars
<1>1. CASE TakeRequest
  <2>1. PICK m \in DownMessages : m = Head(requests)
    BY <1>1, HeadTail DEF Shaped, TakeRequest
  <2>2. limits' \subseteq Workers
    <3>1. limits' = Registered(m)
      BY <1>1, <2>1 DEF TakeRequest
    <3>2. m.kind = "Execute" => Owner[m.id] \in Workers
      BY <2>1, DownFields, WorkerOfType
    <3>3. limits \subseteq Workers
      BY DEF Shaped
    <3> QED
      BY <3>1, <3>2, <3>3 DEF Registered
  <2>3. CASE lost
    BY <1>1, <2>2, <2>3, StopActorShape DEF Shaped, TakeRequest
  <2>4. CASE ~lost
    <3>1. /\ requests' = Tail(requests) /\ toDaemon' = Append(toDaemon, m) /\ UNCHANGED <<state, up>>
          /\ pending' = IF m.kind = "Response" THEN pending ELSE pending \cup {m.id}
          /\ place' = IF m.kind = "Response" THEN
                       [place EXCEPT ![m.id] = IF place[m.id] = "refusing" THEN "rejected" ELSE "sent"]
                     ELSE place
          /\ requests # <<>>
      BY <1>1, <2>1, <2>4 DEF TakeRequest
    <3>2. requests' \in Seq(DownMessages) /\ toDaemon' \in Seq(DownMessages)
      BY <2>1, <3>1, HeadTail, AppendKeepsHead DEF Shaped
    <3>3. pending' \subseteq Requests
      BY <2>1, <3>1, DownFields DEF Shaped, Requests
    <3>4. place' \in [GuestCalls -> Places]
      BY <3>1 DEF Shaped, Places
    <3> QED
      BY <1>1, <2>2, <3>1, <3>2, <3>3, <3>4 DEF Shaped, TakeRequest
  <2> QED
    BY <2>3, <2>4
<1>2. ASSUME up, toSup # <<>>, toSup' = Tail(toSup) PROVE Head(toSup) \in UpMessages /\ toSup' \in Seq(UpMessages)
  BY <1>2, HeadTail DEF Shaped
<1>3. CASE TakeStarted
  <2>1. ready' \in [Execs -> BOOLEAN]
    BY <1>3 DEF Shaped, TakeStarted
  <2> QED
    BY <1>2, <1>3, <2>1 DEF Shaped, TakeStarted, Incoming
<1>4. CASE TakeGuestCall
  <2>1. PICK m \in UpMessages : m = Head(toSup) /\ m.kind = "GuestCall" /\ toSup' \in Seq(UpMessages)
    BY <1>2, <1>4 DEF TakeGuestCall, Incoming
  <2>2. PICK c \in GuestCalls : c = m.id
    BY <2>1, UpFields
  <2>3. PICK w \in Workers : w = WorkerOf(c)
    BY WorkerOfType
  <2>4. PICK d \in GuestCalls : d = IF dispatcher[w] = None THEN c ELSE dispatcher[w]
    BY DEF Shaped
  <2>5. ASSUME Overload(c, d)
        PROVE  /\ toDaemon' \in Seq(DownMessages) /\ requests' \in Seq(DownMessages) /\ up' \in BOOLEAN
               /\ state' \in [Requests -> {"idle", "asked"} \cup Resolved] /\ pending' \subseteq Requests
               /\ place' \in [GuestCalls -> Places] /\ UNCHANGED <<queue, via>>
    <3>1. place' \in [GuestCalls -> Places] /\ UNCHANGED <<queue, via>>
      BY <2>5 DEF Overload, Shaped, Places
    <3>2. Append(toDaemon, Message("Response", c)) \in Seq(DownMessages)
      BY AppendKeepsHead, DownFields DEF Shaped, Response
    <3>3. CASE lost
      BY <2>5, <3>1, <3>3, StopActorShape DEF Overload, Shaped
    <3>4. CASE ~lost
      BY <2>5, <3>1, <3>2, <3>4 DEF Overload, Shaped
    <3> QED
      BY <3>3, <3>4
  <2>6. CASE w \notin limits
    <3>1. Overload(c, d) /\ UNCHANGED <<dispatcher, guestTask, ready, limits, permits, hostVars, lost, daemonVars>>
      BY <1>4, <2>1, <2>2, <2>3, <2>4, <2>6 DEF TakeGuestCall
    <3> QED
      BY <2>1, <2>5, <3>1 DEF Shaped
  <2>7. CASE w \in limits
    <3>1. /\ dispatcher' = [dispatcher EXCEPT ![w] = d]
          /\ guestTask' = [guestTask EXCEPT ![d] = IF d = c THEN "acquire" ELSE guestTask[d]]
          /\ \/ /\ queue' = [queue EXCEPT ![d] = Append(queue[d], c)]
                /\ via' = [via EXCEPT ![c] = d] /\ place' = [place EXCEPT ![c] = "queued"]
                /\ UNCHANGED <<toDaemon, state, requests, up, pending>>
             \/ Overload(c, d)
          /\ UNCHANGED <<ready, limits, permits, hostVars, lost, daemonVars>>
      BY <1>4, <2>1, <2>2, <2>3, <2>4, <2>7 DEF TakeGuestCall
    <3>2. /\ dispatcher' \in [Workers -> GuestCalls \cup {None}]
          /\ guestTask' \in [GuestCalls -> {"none", "acquire", "recv", "refuse", "ended"}]
      BY <3>1 DEF Shaped
    <3>3. CASE Overload(c, d)
      BY <2>1, <2>5, <3>1, <3>2, <3>3 DEF Shaped
    <3>4. CASE ~Overload(c, d)
      <4>1. Append(queue[d], c) \in Seq(GuestCalls)
        BY AppendKeepsHead DEF Shaped
      <4>a. queue' = [queue EXCEPT ![d] = Append(queue[d], c)] /\ queue \in [GuestCalls -> Seq(GuestCalls)]
        BY <3>1, <3>4 DEF Shaped
      <4>b. queue' \in [GuestCalls -> Seq(GuestCalls)]
        BY <4>1, <4>a
      <4>c. via' \in [GuestCalls -> GuestCalls \cup {None}] /\ place' \in [GuestCalls -> Places]
        <5>1. via' = [via EXCEPT ![c] = d] /\ place' = [place EXCEPT ![c] = "queued"]
          BY <3>1, <3>4
        <5> QED
          BY <5>1 DEF Shaped, Places
      <4>2. /\ queue' \in [GuestCalls -> Seq(GuestCalls)] /\ via' \in [GuestCalls -> GuestCalls \cup {None}]
            /\ place' \in [GuestCalls -> Places]
        BY <4>b, <4>c
      <4> QED
        BY <2>1, <3>1, <3>2, <3>4, <4>2 DEF Shaped
    <3> QED
      BY <3>3, <3>4
  <2> QED
    BY <2>6, <2>7
<1>5. ASSUME NEW r, NEW outcome \in Resolved, NEW stopped, Deliver(r, outcome, stopped)
      PROVE  pending' \subseteq Requests /\ state' \in [Requests -> {"idle", "asked"} \cup Resolved]
  BY <1>5 DEF Shaped, Deliver, Resolved
<1>6. ASSUME NEW w, ForgetWorker(w)
      PROVE  limits' \subseteq Workers /\ dispatcher' \in [Workers -> GuestCalls \cup {None}]
  BY <1>6 DEF Shaped, ForgetWorker
<1>7. {"answered", "failed"} \subseteq Resolved
  BY DEF Resolved
<1>8. CASE TakeResult
  BY <1>2, <1>5, <1>6, <1>7, <1>8 DEF Shaped, TakeResult, Incoming
<1>9. CASE TakeClosed
  BY <1>2, <1>5, <1>6, <1>7, <1>9 DEF Shaped, TakeClosed, Incoming
<1>10. CASE TakeAnswer
  BY <1>2, <1>5, <1>7, <1>10 DEF Shaped, TakeAnswer, Incoming
<1>11. CASE ConnectionEnds
  BY <1>11, StopActorShape DEF Shaped, ConnectionEnds
<1> QED
  BY <1>1, <1>3, <1>4, <1>8, <1>9, <1>10, <1>11 DEF Actor

\* The dispatchers and the handlers keep the types.
LEMMA ShapedDispatch ==
  ASSUME Shaped, HostDispatcher \/ \E c \in GuestCalls : GuestDispatcher(c) \/ Handler(c) PROVE Shaped'
<1> USE DEF requestVars, guestVars, hostVars, socketVars, daemonVars
<1>1. ASSUME NEW d \in GuestCalls, GuestAcquire(d) PROVE Shaped'
  <2>1. permits[d] \in Nat /\ permits[d] > 0 /\ permits' = [permits EXCEPT ![d] = permits[d] - 1]
    BY <1>1 DEF Shaped, GuestAcquire, Acquired
  <2>2. /\ permits' \in [GuestCalls -> Nat]
        /\ guestTask' \in [GuestCalls -> {"none", "acquire", "recv", "refuse", "ended"}]
    BY <1>1, <2>1 DEF Shaped, GuestAcquire
  <2> QED
    BY <1>1, <2>2 DEF Shaped, GuestAcquire
<1>2. ASSUME NEW d \in GuestCalls, GuestRecv(d) PROVE Shaped'
  <2>1. Head(queue[d]) \in GuestCalls /\ Tail(queue[d]) \in Seq(GuestCalls)
    BY <1>2, HeadTail DEF Shaped, GuestRecv
  <2>2. queue' \in [GuestCalls -> Seq(GuestCalls)]
    BY <1>2, <2>1 DEF Shaped, GuestRecv
  <2>3. Append(hostQueue, Head(queue[d])) \in Seq(GuestCalls)
    BY <2>1, AppendKeepsHead DEF Shaped
  <2>4. hostQueue' \in Seq(GuestCalls)
    BY <1>2, <2>3 DEF Shaped, GuestRecv
  <2>5. /\ place' \in [GuestCalls -> Places]
        /\ guestTask' \in [GuestCalls -> {"none", "acquire", "recv", "refuse", "ended"}]
    BY <1>2 DEF Shaped, GuestRecv, Places
  <2> QED
    BY <1>2, <2>2, <2>4, <2>5 DEF Shaped, GuestRecv
<1>3. ASSUME NEW d \in GuestCalls, GuestEnds(d) PROVE Shaped'
  <2>1. /\ permits' \in [GuestCalls -> Nat]
        /\ guestTask' \in [GuestCalls -> {"none", "acquire", "recv", "refuse", "ended"}]
    BY <1>3 DEF Shaped, GuestEnds
  <2> QED
    BY <1>3, <2>1 DEF Shaped, GuestEnds
<1>4. ASSUME NEW c \in GuestCalls, requests' = Append(requests, Message("Response", c))
      PROVE  requests' \in Seq(DownMessages)
  BY <1>4, AppendKeepsHead, DownFields DEF Shaped, Response
<1>5. ASSUME NEW d \in GuestCalls, NEW c \in GuestCalls, GuestRefuse(d, c) PROVE Shaped'
  <2>1. place' \in [GuestCalls -> Places]
    BY <1>5 DEF Shaped, GuestRefuse, Places
  <2> QED
    BY <1>4, <1>5, <2>1 DEF Shaped, GuestRefuse
<1>6. ASSUME NEW d \in GuestCalls, NEW c \in GuestCalls, GuestRefused(d, c) PROVE Shaped'
  <2>1. /\ permits' \in [GuestCalls -> Nat] /\ place' \in [GuestCalls -> Places]
        /\ guestTask' \in [GuestCalls -> {"none", "acquire", "recv", "refuse", "ended"}]
    BY <1>6 DEF Shaped, GuestRefused, Places
  <2> QED
    BY <1>6, <2>1 DEF Shaped, GuestRefused
<1>7. CASE HostAcquire
  BY <1>7 DEF Shaped, HostAcquire
<1>8. CASE HostRecv
  <2>1. hostQueue' \in Seq(GuestCalls) /\ place' \in [GuestCalls -> Places]
    BY <1>8, HeadTail DEF Shaped, HostRecv, Places
  <2> QED
    BY <1>8, <2>1 DEF Shaped, HostRecv
<1>9. ASSUME NEW c \in GuestCalls, HandlerReturns(c) PROVE Shaped'
  <2>1. place' \in [GuestCalls -> Places]
    BY <1>9 DEF Shaped, HandlerReturns, Places
  <2> QED
    BY <1>4, <1>9, <2>1 DEF Shaped, HandlerReturns
<1>10. ASSUME NEW c \in GuestCalls, HandlerEnds(c) PROVE Shaped'
  <2>a. place' \in [GuestCalls -> Places]
    BY <1>10 DEF Shaped, HandlerEnds, Places
  <2>b. permits \in [GuestCalls -> Nat] /\ permits' = [permits EXCEPT ![via[c]] = permits[via[c]] + 1]
    BY <1>10 DEF Shaped, HandlerEnds
  <2>c. ASSUME via[c] \in GuestCalls PROVE permits' \in [GuestCalls -> Nat]
    BY <2>b, <2>c
  <2>d. ASSUME via[c] \notin GuestCalls PROVE permits' \in [GuestCalls -> Nat]
    BY <2>b, <2>d
  <2>1. permits' \in [GuestCalls -> Nat] /\ place' \in [GuestCalls -> Places]
    BY <2>a, <2>c, <2>d
  <2> QED
    BY <1>10, <2>1, SMTT(30) DEF Shaped, HandlerEnds
<1> QED
  BY <1>1, <1>2, <1>3, <1>5, <1>6, <1>7, <1>8, <1>9, <1>10 DEF HostDispatcher, GuestDispatcher, Handler

\* A reply joins the socket at its end.
LEMMA ReplyAppends ==
  ASSUME NEW m \in UpMessages, toSup \in Seq(UpMessages), Reply(<<m>>)
  PROVE  toSup' = Append(toSup, m) /\ toSup' \in Seq(UpMessages)
<1>1. toSup \o <<m>> = Append(toSup, m)
  BY AppendIsConcat
<1> QED
  BY <1>1, AppendKeepsHead DEF Reply

\* The daemon keeps the types.
LEMMA ShapedDaemon ==
  ASSUME Shaped, Daemon PROVE Shaped'
<1> USE DEF requestVars, guestVars, hostVars, socketVars, daemonVars
<1>1. ASSUME NEW m \in UpMessages, Reply(<<m>>) PROVE toSup' \in Seq(UpMessages)
  BY <1>1, ReplyAppends DEF Shaped
<1>2. CASE DaemonReads
  <2>1. PICK m \in DownMessages : m = Head(toDaemon)
    BY <1>2, HeadTail DEF Shaped, DaemonReads
  <2>2. toDaemon' \in Seq(DownMessages)
    BY <1>2, HeadTail DEF Shaped, DaemonReads
  <2>3. CASE m.kind = "Execute"
    <3>1. PICK w \in Workers : w = WorkerOf(m.id) /\ m.id \in Execs
      BY <2>1, <2>3, DownFields, WorkerOfType
    <3>2. /\ open' = open \cup {w} /\ UNCHANGED inside
          /\ \/ waiting' = [waiting EXCEPT ![w] = Append(waiting[w], m.id)] /\ UNCHANGED toSup
             \/ Reply(<<Message("Result", m.id)>>) /\ UNCHANGED waiting
      BY <1>2, <2>1, <2>3, <3>1 DEF DaemonReads
    <3>3. Append(waiting[w], m.id) \in Seq(Execs)
      BY <3>1, AppendKeepsHead DEF Shaped
    <3>4. waiting' \in [Workers -> Seq(Execs)]
      BY <3>2, <3>3 DEF Shaped
    <3>5. toSup' \in Seq(UpMessages)
      BY <1>1, <3>1, <3>2, UpFields DEF Shaped, Result
    <3> QED
      BY <1>2, <2>2, <3>2, <3>4, <3>5 DEF Shaped, DaemonReads
  <2>4. CASE m.kind = "WorkerCall"
    <3>1. m.id \in Calls
      BY <2>1, <2>4, DownFields
    <3>2. /\ inside' \subseteq Calls /\ UNCHANGED <<open, waiting>>
          /\ UNCHANGED toSup \/ Reply(<<Message("WorkerResponse", m.id)>>)
      BY <1>2, <2>1, <2>4, <3>1 DEF DaemonReads, Shaped
    <3>3. toSup' \in Seq(UpMessages)
      BY <1>1, <3>1, <3>2, UpFields DEF Shaped
    <3> QED
      BY <1>2, <2>2, <3>2, <3>3 DEF Shaped, DaemonReads
  <2>5. CASE m.kind = "CloseWorker"
    <3>1. PICK w \in Workers : w = WorkerOf(m.id)
      BY <2>1, <2>5, DownFields, WorkerOfType
    <3>2. /\ open' = open \ {w} /\ UNCHANGED <<waiting, inside>>
          /\ Reply(<<Message("Closed", w)>>) \/ Reply(<<Message("NotClosed", w)>>)
      BY <1>2, <2>1, <2>5, <3>1 DEF DaemonReads
    <3>3. toSup' \in Seq(UpMessages)
      BY <1>1, <3>2, UpFields
    <3> QED
      BY <1>2, <2>2, <3>2, <3>3 DEF Shaped, DaemonReads
  <2>6. CASE m.kind = "Response"
    BY <1>2, <2>1, <2>2, <2>6 DEF Shaped, DaemonReads
  <2> QED
    BY <2>1, <2>3, <2>4, <2>5, <2>6, DownFields
<1>3. CASE DaemonDies
  <2>1. toDaemon' \in Seq(DownMessages)
    BY <1>3, EmptySeq DEF DaemonDies
  <2> QED
    BY <1>3, <2>1 DEF Shaped, DaemonDies
<1>4. ASSUME NEW w \in Workers, DaemonStarts(w) PROVE Shaped'
  <2>1. Head(waiting[w]) \in Execs /\ Tail(waiting[w]) \in Seq(Execs)
    BY <1>4, HeadTail DEF Shaped, DaemonStarts
  <2>2. waiting' \in [Workers -> Seq(Execs)] /\ running' \in [Workers -> Execs \cup {None}]
    BY <1>4, <2>1 DEF Shaped, DaemonStarts
  <2>3. toSup' \in Seq(UpMessages)
    BY <1>1, <1>4, <2>1, UpFields DEF DaemonStarts, Result
  <2> QED
    BY <1>4, <2>2, <2>3 DEF Shaped, DaemonStarts
<1>5. ASSUME NEW w \in Workers, DaemonFinishes(w) PROVE Shaped'
  <2>1. running[w] \in Execs /\ running' \in [Workers -> Execs \cup {None}]
    BY <1>5 DEF Shaped, DaemonFinishes
  <2>2. toSup' \in Seq(UpMessages)
    BY <1>1, <1>5, <2>1, UpFields DEF DaemonFinishes, Result
  <2> QED
    BY <1>5, <2>1, <2>2 DEF Shaped, DaemonFinishes
<1>6. ASSUME NEW c \in GuestCalls, GuestAsks(c) PROVE Shaped'
  <2>1. toSup' \in Seq(UpMessages)
    BY <1>1, <1>6, UpFields DEF GuestAsks, GuestCall
  <2>2. place' \in [GuestCalls -> Places]
    BY <1>6 DEF Shaped, GuestAsks, Places
  <2> QED
    BY <1>6, <2>1, <2>2 DEF Shaped, GuestAsks
<1>7. ASSUME NEW k \in Calls, GuestAnswers(k) PROVE Shaped'
  <2>1. toSup' \in Seq(UpMessages)
    BY <1>1, <1>7, UpFields DEF GuestAnswers
  <2> QED
    BY <1>7, <2>1 DEF Shaped, GuestAnswers
<1> QED
  BY <1>2, <1>3, <1>4, <1>5, <1>6, <1>7 DEF Daemon

\* Every step keeps the types.
LEMMA ShapedStep ==
  ASSUME Shaped, [Next]_vars PROVE Shaped'
<1>1. CASE Next
  BY <1>1, ShapedCallers, ShapedActor, ShapedDispatch, ShapedDaemon DEF Next
<1>2. CASE UNCHANGED vars
  BY <1>2 DEF Shaped, vars, requestVars, guestVars, hostVars, socketVars, daemonVars
<1> QED
  BY <1>1, <1>2

-----------------------------------------------------------------------------
(* Where a guest call is *)

\* Where a guest call is says in which queue it can be found, once: in its worker's
\* or in the host dispatcher's.
Held == {"refused", "refusing", "rejected", "host", "handler", "replying", "sent"}
InQueues ==
  /\ \A d \in GuestCalls : /\ Distinct(queue[d])
                           /\ \A c \in Elems(queue[d]) : place[c] = "queued" /\ via[c] = d
  /\ Distinct(hostQueue) /\ \A c \in Elems(hostQueue) : place[c] = "host"
  /\ \A c \in GuestCalls : /\ place[c] \in Held => via[c] \in GuestCalls
                           /\ place[c] \in {"guest", "wire"} => guestTask[c] = "none"

\* The same of the call on the socket, and of its answer in the channel and on the
\* socket.
OnWire ==
  \A c \in GuestCalls :
    Once(toSup, GuestCall(c)) /\ (GuestCall(c) \in Elems(toSup) => place[c] = "wire")
InChannel ==
  /\ ~up => requests = <<>>
  /\ \A c \in GuestCalls : /\ Once(requests, Response(c))
                           /\ Response(c) \in Elems(requests) => place[c] \in {"refusing", "replying"}
Written ==
  \A c \in GuestCalls : /\ Once(toDaemon, Response(c))
                        /\ Response(c) \in Elems(toDaemon) => place[c] \in {"rejected", "sent", "done"}
OnSocket == OnWire /\ InChannel /\ Written

\* Nothing leaves a dispatcher's queue, or joins it.
LEMMA QueuesFrame ==
  ASSUME Shaped, InQueues, UNCHANGED <<queue, hostQueue>>,
         \A c \in GuestCalls : /\ place[c] \in {"queued", "host"} => place'[c] = place[c] /\ via'[c] = via[c]
                               /\ place'[c] \in Held => via'[c] \in GuestCalls
                               /\ place'[c] \in {"guest", "wire"} => guestTask'[c] = "none"
  PROVE  InQueues'
<1>1. Elems(hostQueue) \subseteq GuestCalls /\ \A d \in GuestCalls : Elems(queue[d]) \subseteq GuestCalls
  BY ElemsType DEF Shaped
<1> QED
  BY <1>1 DEF InQueues

\* The socket from the daemon: nothing moves on it.
LEMMA WireFrame ==
  ASSUME OnWire, UNCHANGED toSup, \A c \in GuestCalls : place[c] = "wire" => place'[c] = "wire"
  PROVE  OnWire'
  BY DEF OnWire

\* A frame of it is read.
LEMMA WireTail ==
  ASSUME Shaped, OnWire, toSup # <<>>, toSup' = Tail(toSup),
         \A c \in GuestCalls : place[c] = "wire" /\ GuestCall(c) # Head(toSup) => place'[c] = "wire"
  PROVE  OnWire' /\ \A c \in GuestCalls : GuestCall(c) = Head(toSup) => place[c] = "wire"
<1>1. /\ Elems(toSup) = Elems(Tail(toSup)) \cup {Head(toSup)}
      /\ \A x : Once(toSup, x) => Once(Tail(toSup), x) /\ (x = Head(toSup) => x \notin Elems(Tail(toSup)))
  BY TailRest DEF Shaped
<1> QED
  BY <1>1 DEF OnWire

\* A frame is written to it.
LEMMA WireAppend ==
  ASSUME Shaped, OnWire, NEW m \in UpMessages, Reply(<<m>>),
         \A c \in GuestCalls : /\ place[c] = "wire" => place'[c] = "wire"
                               /\ m = GuestCall(c) => place[c] # "wire" /\ place'[c] = "wire"
  PROVE  OnWire'
<1>1. toSup' = Append(toSup, m) /\ toSup \in Seq(UpMessages)
  BY ReplyAppends DEF Shaped
<1>2. Elems(toSup') = Elems(toSup) \cup {m}
  BY <1>1, AppendElems
<1>3. ASSUME NEW c \in GuestCalls PROVE Once(toSup', GuestCall(c))
  <2>1. Once(toSup, GuestCall(c)) /\ (m # GuestCall(c) \/ GuestCall(c) \notin Elems(toSup))
    BY DEF OnWire
  <2> QED
    BY <1>1, <2>1, AppendOnce
<1> QED
  BY <1>2, <1>3 DEF OnWire

\* The actor's channel: nothing moves in it.
LEMMA ChannelFrame ==
  ASSUME InChannel, UNCHANGED <<requests, up>>,
         \A c \in GuestCalls : place[c] \in {"refusing", "replying"} /\ up => place'[c] \in {"refusing", "replying"}
  PROVE  InChannel'
<1>1. CASE up
  BY <1>1 DEF InChannel
<1>2. CASE ~up
  <2>1. Elems(requests') = {} /\ requests' = <<>>
    BY <1>2, EmptyElems DEF InChannel
  <2> QED
    BY <1>2, <2>1 DEF InChannel
<1> QED
  BY <1>1, <1>2

\* It is dropped with the actor.
LEMMA ChannelDropped ==
  ASSUME requests' = <<>> PROVE InChannel'
<1>1. Elems(requests') = {} /\ \A x : Once(requests', x)
  BY EmptyElems, EmptySeq DEF Once
<1> QED
  BY <1>1 DEF InChannel

\* A request is taken from it.
LEMMA ChannelTail ==
  ASSUME Shaped, InChannel, up, UNCHANGED up, requests # <<>>, requests' = Tail(requests),
         \A c \in GuestCalls : place[c] \in {"refusing", "replying"} /\ Response(c) # Head(requests)
                                 => place'[c] \in {"refusing", "replying"}
  PROVE  /\ InChannel'
         /\ \A c \in GuestCalls : Response(c) = Head(requests) => place[c] \in {"refusing", "replying"}
<1>1. /\ Elems(requests) = Elems(Tail(requests)) \cup {Head(requests)}
      /\ \A x : Once(requests, x) =>
           Once(Tail(requests), x) /\ (x = Head(requests) => x \notin Elems(Tail(requests)))
  BY TailRest DEF Shaped
<1> QED
  BY <1>1 DEF InChannel

\* A request joins it.
LEMMA ChannelAppend ==
  ASSUME Shaped, InChannel, up, UNCHANGED up, NEW m \in DownMessages, requests' = Append(requests, m),
         \A c \in GuestCalls :
           /\ place[c] \in {"refusing", "replying"} => place'[c] \in {"refusing", "replying"}
           /\ m = Response(c) => place[c] \notin {"refusing", "replying"} /\ place'[c] \in {"refusing", "replying"}
  PROVE  InChannel'
<1>1. requests \in Seq(DownMessages)
  BY DEF Shaped
<1>2. Elems(requests') = Elems(requests) \cup {m}
  BY <1>1, AppendElems
<1>3. ASSUME NEW c \in GuestCalls PROVE Once(requests', Response(c))
  <2>1. Once(requests, Response(c)) /\ (m # Response(c) \/ Response(c) \notin Elems(requests))
    BY DEF InChannel
  <2> QED
    BY <1>1, <2>1, AppendOnce
<1> QED
  BY <1>2, <1>3 DEF InChannel

\* The socket to the daemon: nothing moves on it.
LEMMA WrittenFrame ==
  ASSUME Written, UNCHANGED toDaemon,
         \A c \in GuestCalls : place[c] \in {"rejected", "sent", "done"} => place'[c] \in {"rejected", "sent", "done"}
  PROVE  Written'
  BY DEF Written

\* What is on it is lost with the daemon.
LEMMA WrittenDropped ==
  ASSUME toDaemon' = <<>> PROVE Written'
<1>1. Elems(toDaemon') = {} /\ \A x : Once(toDaemon', x)
  BY EmptyElems, EmptySeq DEF Once
<1> QED
  BY <1>1 DEF Written

\* The daemon reads a frame of it.
LEMMA WrittenTail ==
  ASSUME Shaped, Written, toDaemon # <<>>, toDaemon' = Tail(toDaemon), UNCHANGED place
  PROVE  Written'
<1>1. /\ Elems(toDaemon) = Elems(Tail(toDaemon)) \cup {Head(toDaemon)}
      /\ \A x : Once(toDaemon, x) => Once(Tail(toDaemon), x)
  BY TailRest DEF Shaped
<1> QED
  BY <1>1 DEF Written

\* A frame is written to it.
LEMMA WrittenAppend ==
  ASSUME Shaped, Written, NEW m \in DownMessages, toDaemon' = Append(toDaemon, m),
         \A c \in GuestCalls :
           /\ place[c] \in {"rejected", "sent", "done"} => place'[c] \in {"rejected", "sent", "done"}
           /\ m = Response(c) => /\ place[c] \notin {"rejected", "sent", "done"}
                                 /\ place'[c] \in {"rejected", "sent", "done"}
  PROVE  Written'
<1>1. toDaemon \in Seq(DownMessages)
  BY DEF Shaped
<1>2. Elems(toDaemon') = Elems(toDaemon) \cup {m}
  BY <1>1, AppendElems
<1>3. ASSUME NEW c \in GuestCalls PROVE Once(toDaemon', Response(c))
  <2>1. Once(toDaemon, Response(c)) /\ (m # Response(c) \/ Response(c) \notin Elems(toDaemon))
    BY DEF Written
  <2> QED
    BY <1>1, <2>1, AppendOnce
<1> QED
  BY <1>2, <1>3 DEF Written

\* At the start every call is with its guest.
LEMMA PlacedInit == Init => InQueues /\ OnSocket
<1> SUFFICES ASSUME Init PROVE InQueues /\ OnSocket
  OBVIOUS
<1>1. Elems(<<>>) = {} /\ Distinct(<<>>) /\ \A x : Once(<<>>, x)
  BY EmptyElems, EmptySeq DEF Once
<1>2. InQueues
  BY <1>1 DEF Init, InQueues, Held
<1>3. OnWire /\ InChannel /\ Written
  BY <1>1 DEF Init, OnWire, InChannel, Written
<1> QED
  BY <1>2, <1>3 DEF OnSocket

\* Callers add requests that are no answers, or stop the sandbox.
LEMMA PlacedCallers ==
  ASSUME Shaped, InQueues, OnSocket, Callers \/ \E w \in Workers : CloseWorker(w)
  PROVE  InQueues' /\ OnSocket'
<1> USE DEF guestVars, hostVars, socketVars, daemonVars
<1>1. OnWire /\ InChannel /\ Written
  BY DEF OnSocket
<1>2. ASSUME UNCHANGED <<queue, hostQueue, place, via, guestTask>> PROVE InQueues'
  BY <1>2 DEF InQueues
<1>3. ASSUME NEW m \in DownMessages, m.kind # "Response", Ask(m.kind, m.id), m = Message(m.kind, m.id)
      PROVE  InQueues' /\ OnSocket'
  <2>1. UNCHANGED <<guestVars, hostVars, place, socketVars, up>>
    BY <1>3 DEF Ask
  <2>2. \A c \in GuestCalls : m # Response(c)
    BY <1>3, DownFields
  <2>3. InChannel'
    <3>1. CASE up
      <4>1. requests' = Append(requests, m)
        BY <1>3, <3>1 DEF Ask
      <4> QED
        BY <1>1, <2>1, <2>2, <3>1, <4>1, ChannelAppend
    <3>2. CASE ~up
      <4>1. UNCHANGED requests
        BY <1>3, <3>2 DEF Ask
      <4> QED
        BY <1>1, <2>1, <4>1, ChannelFrame
    <3> QED
      BY <3>1, <3>2
  <2>4. OnWire' /\ Written'
    BY <1>1, <2>1 DEF OnWire, Written
  <2> QED
    BY <1>2, <2>1, <2>3, <2>4 DEF OnSocket
<1>4. CASE (\E e \in Execs : Run(e)) \/ (\E k \in Calls : Call(k)) \/ \E w \in Workers : CloseWorker(w)
  <2>1. PICK kind \in {"Execute", "WorkerCall", "CloseWorker"}, r \in Requests :
          Ask(kind, r) /\ Message(kind, r) \in DownMessages
    BY <1>4, DownFields DEF Run, Call, CloseWorker, Execute, Requests
  <2>2. Message(kind, r).kind = kind /\ Message(kind, r).id = r
    BY DEF Message
  <2> QED
    BY <1>3, <2>1, <2>2
<1>5. ASSUME NEW k \in Calls, CallTooEarly(k) PROVE InQueues' /\ OnSocket'
  <2>1. UNCHANGED <<guestVars, hostVars, place, socketVars, up, requests>>
    BY <1>5 DEF CallTooEarly
  <2> QED
    BY <1>1, <1>2, <2>1 DEF OnSocket, OnWire, InChannel, Written
<1>6. CASE Terminate
  <2>1. requests' = <<>> /\ toDaemon' = <<>> /\ UNCHANGED <<guestVars, hostVars, place, toSup>>
    BY <1>6 DEF Terminate, StopActor
  <2>2. OnWire'
    BY <1>1, <2>1 DEF OnWire
  <2> QED
    BY <1>2, <2>1, <2>2, ChannelDropped, WrittenDropped DEF OnSocket
<1> QED
  BY <1>4, <1>5, <1>6 DEF Callers

\* The actor writes an answer, takes a call off the socket, or ends.
LEMMA PlacedActor ==
  ASSUME Shaped, Shaped', InQueues, OnSocket, Actor PROVE InQueues' /\ OnSocket'
<1> USE DEF guestVars, hostVars, socketVars, daemonVars
<1>1. OnWire /\ InChannel /\ Written
  BY DEF OnSocket
<1>2. ASSUME UNCHANGED <<queue, hostQueue, place, via, guestTask>> PROVE InQueues'
  BY <1>2 DEF InQueues
<1>3. CASE TakeRequest
  <2>1. CASE lost
    <3>1. requests' = <<>> /\ UNCHANGED <<guestVars, hostVars, place, toSup, toDaemon>>
      BY <1>3, <2>1 DEF TakeRequest, StopActor
    <3>2. OnWire' /\ Written'
      BY <1>1, <3>1 DEF OnWire, Written
    <3> QED
      BY <1>2, <3>1, <3>2, ChannelDropped DEF OnSocket
  <2>2. CASE ~lost
    <3>1. PICK m \in DownMessages : m = Head(requests)
      BY <1>3, HeadTail DEF Shaped, TakeRequest
    <3>2. /\ up /\ requests # <<>> /\ requests' = Tail(requests) /\ toDaemon' = Append(toDaemon, m)
          /\ place' = IF m.kind = "Response" THEN
                       [place EXCEPT ![m.id] = IF place[m.id] = "refusing" THEN "rejected" ELSE "sent"]
                     ELSE place
          /\ UNCHANGED <<up, guestVars, hostVars, toSup>>
      BY <1>3, <2>2, <3>1 DEF TakeRequest
    <3>3. place \in [GuestCalls -> Places]
      BY DEF Shaped
    <3>4. /\ \A c \in GuestCalls : Response(c) # m => place'[c] = place[c]
          /\ \A c \in GuestCalls : Response(c) = m => place'[c] = IF place[c] = "refusing" THEN "rejected" ELSE "sent"
      BY <3>1, <3>2, <3>3, DownFields
    <3>5. /\ InChannel'
          /\ \A c \in GuestCalls : Response(c) = m => place[c] \in {"refusing", "replying"}
      BY <1>1, <3>1, <3>2, <3>4, ChannelTail
    <3>6. Written'
      BY <1>1, <3>1, <3>2, <3>4, <3>5, WrittenAppend
    <3>7. OnWire'
      BY <1>1, <3>2, <3>4, <3>5, WireFrame
    <3>8. InQueues'
      <4>1. \A c \in GuestCalls :
              /\ place[c] \in {"queued", "host"} => place'[c] = place[c] /\ via'[c] = via[c]
              /\ place'[c] \in Held => via'[c] \in GuestCalls
              /\ place'[c] \in {"guest", "wire"} => guestTask'[c] = "none"
        BY <3>2, <3>4, <3>5 DEF InQueues, Held
      <4> QED
        BY <3>2, <4>1, QueuesFrame
    <3> QED
      BY <3>5, <3>6, <3>7, <3>8 DEF OnSocket
  <2> QED
    BY <2>1, <2>2
<1>4. CASE TakeGuestCall
  <2>1. PICK m \in UpMessages : m = Head(toSup) /\ m.kind = "GuestCall"
    BY <1>4, HeadTail DEF Shaped, TakeGuestCall, Incoming
  <2>2. PICK c \in GuestCalls : c = m.id /\ m = GuestCall(c)
    BY <2>1, UpFields
  <2>3. PICK w \in Workers : w = WorkerOf(c)
    BY WorkerOfType
  <2>4. PICK d \in GuestCalls : d = IF dispatcher[w] = None THEN c ELSE dispatcher[w]
    BY DEF Shaped
  <2>5. toSup # <<>> /\ toSup' = Tail(toSup) /\ UNCHANGED hostVars
    BY <1>4 DEF TakeGuestCall, Incoming
  <2>6. \A b \in GuestCalls : GuestCall(b) = Head(toSup) <=> b = c
    BY <2>1, <2>2, UpFields
  <2>7. place[c] = "wire"
    <3>1. Head(toSup) \in Elems(toSup)
      BY <2>5, TailSubset DEF Shaped
    <3> QED
      BY <1>1, <2>1, <2>2, <3>1 DEF OnWire
  <2>8. /\ place' = [place EXCEPT ![c] = place'[c]] /\ place'[c] \in {"queued", "done"}
        /\ \A b \in GuestCalls : b # c => guestTask'[b] = guestTask[b]
    <3>1. \/ place' = [place EXCEPT ![c] = "queued"]
          \/ place' = [place EXCEPT ![c] = "done"]
      BY <1>4, <2>1, <2>2, <2>3, <2>4 DEF TakeGuestCall, Overload
    <3>2. \/ guestTask' = guestTask
          \/ guestTask' = [guestTask EXCEPT ![d] = IF d = c THEN "acquire" ELSE guestTask[d]]
      BY <1>4, <2>1, <2>2, <2>3, <2>4 DEF TakeGuestCall
    <3>3. place \in [GuestCalls -> Places] /\ DOMAIN guestTask = GuestCalls
      BY DEF Shaped
    <3>4. place' = [place EXCEPT ![c] = place'[c]] /\ place'[c] \in {"queued", "done"}
      BY <3>1, <3>3
    <3>5. \A b \in GuestCalls : b # c => guestTask'[b] = guestTask[b]
      BY <3>2, <3>3
    <3> QED
      BY <3>4, <3>5
  <2>9. \A b \in GuestCalls : b # c => place'[b] = place[b]
    BY <2>8 DEF Shaped
  <2>10. OnWire'
    BY <1>1, <2>5, <2>6, <2>9, WireTail
  <2>11. CASE place'[c] = "done"
    <3>1. Overload(c, d)
      BY <1>4, <2>1, <2>2, <2>3, <2>4, <2>11 DEF TakeGuestCall, Shaped
    <3>2. InQueues'
      <4>1. \A b \in GuestCalls :
              /\ place[b] \in {"queued", "host"} => place'[b] = place[b] /\ via'[b] = via[b]
              /\ place'[b] \in Held => via'[b] \in GuestCalls
              /\ place'[b] \in {"guest", "wire"} => guestTask'[b] = "none"
        BY <2>7, <2>8, <2>9, <2>11, <3>1 DEF InQueues, Held, Overload
      <4> QED
        BY <2>5, <3>1, <4>1, QueuesFrame DEF Overload
    <3>3. CASE lost
      <4>1. requests' = <<>> /\ UNCHANGED toDaemon
        BY <3>1, <3>3 DEF Overload, StopActor
      <4>2. Written'
        BY <1>1, <2>7, <2>9, <4>1, WrittenFrame
      <4> QED
        BY <2>10, <3>2, <4>1, <4>2, ChannelDropped DEF OnSocket
    <3>4. CASE ~lost
      <4>1. toDaemon' = Append(toDaemon, Response(c)) /\ UNCHANGED <<requests, up>> /\ Response(c) \in DownMessages
        BY <3>1, <3>4, DownFields DEF Overload, Response
      <4>2. \A b \in GuestCalls : Response(c) = Response(b) => b = c
        BY DownFields
      <4>3. Written'
        BY <1>1, <2>7, <2>9, <2>11, <4>1, <4>2, WrittenAppend
      <4>4. InChannel'
        BY <1>1, <2>7, <2>9, <4>1, ChannelFrame
      <4> QED
        BY <2>10, <3>2, <4>3, <4>4 DEF OnSocket
    <3> QED
      BY <3>3, <3>4
  <2>12. CASE place'[c] = "queued"
    <3>1. /\ queue' = [queue EXCEPT ![d] = Append(queue[d], c)] /\ via' = [via EXCEPT ![c] = d]
          /\ UNCHANGED <<toDaemon, requests, up>>
      BY <1>4, <2>1, <2>2, <2>3, <2>4, <2>12 DEF TakeGuestCall, Overload, Shaped
    <3>2. InChannel' /\ Written'
      BY <1>1, <2>7, <2>9, <3>1, ChannelFrame, WrittenFrame
    <3>3. InQueues'
      <4>1. /\ queue \in [GuestCalls -> Seq(GuestCalls)] /\ via \in [GuestCalls -> GuestCalls \cup {None}]
            /\ hostQueue \in Seq(GuestCalls)
        BY DEF Shaped
      <4>2. Elems(hostQueue) \subseteq GuestCalls /\ \A b \in GuestCalls : Elems(queue[b]) \subseteq GuestCalls
        BY <4>1, ElemsType
      <4>3. c \notin Elems(hostQueue) /\ \A b \in GuestCalls : c \notin Elems(queue[b])
        BY <2>7 DEF InQueues
      <4>4. Distinct(Append(queue[d], c)) /\ Elems(Append(queue[d], c)) = Elems(queue[d]) \cup {c}
        BY <4>1, <4>3, AppendElems DEF InQueues
      <4>5. ASSUME NEW b \in GuestCalls
            PROVE  Distinct(queue'[b]) /\ \A x \in Elems(queue'[b]) : place'[x] = "queued" /\ via'[x] = b
        <5>1. queue'[b] = IF b = d THEN Append(queue[d], c) ELSE queue[b]
          BY <3>1, <4>1
        <5>2. Distinct(queue[b]) /\ \A x \in Elems(queue[b]) : place[x] = "queued" /\ via[x] = b
          BY DEF InQueues
        <5>3. \A x \in Elems(queue[b]) : x # c /\ place'[x] = "queued" /\ via'[x] = b
          BY <2>9, <3>1, <4>1, <4>2, <4>3, <5>2
        <5>4. via'[c] = d
          BY <3>1, <4>1
        <5>5. CASE b = d
          BY <2>12, <4>4, <5>1, <5>3, <5>4, <5>5
        <5>6. CASE b # d
          BY <5>1, <5>2, <5>3, <5>6
        <5> QED
          BY <5>5, <5>6
      <4>6. Distinct(hostQueue') /\ \A x \in Elems(hostQueue') : place'[x] = "host"
        BY <2>5, <2>9, <4>2, <4>3 DEF InQueues
      <4>7. \A b \in GuestCalls : /\ place'[b] \in Held => via'[b] \in GuestCalls
                                  /\ place'[b] \in {"guest", "wire"} => guestTask'[b] = "none"
        <5> SUFFICES ASSUME NEW b \in GuestCalls
                     PROVE  /\ place'[b] \in Held => via'[b] \in GuestCalls
                            /\ place'[b] \in {"guest", "wire"} => guestTask'[b] = "none"
          OBVIOUS
        <5>1. CASE b = c
          BY <2>12, <5>1 DEF Held
        <5>2. CASE b # c
          <6>1. place'[b] = place[b] /\ via'[b] = via[b] /\ guestTask'[b] = guestTask[b]
            BY <2>8, <2>9, <3>1, <4>1, <5>2
          <6> QED
            BY <6>1 DEF InQueues
        <5> QED
          BY <5>1, <5>2
      <4> QED
        BY <4>5, <4>6, <4>7 DEF InQueues
    <3> QED
      BY <2>10, <3>2, <3>3 DEF OnSocket
  <2> QED
    BY <2>8, <2>11, <2>12
<1>5. CASE TakeStarted \/ TakeResult \/ TakeClosed \/ TakeAnswer
  <2>1. /\ toSup # <<>> /\ toSup' = Tail(toSup) /\ Head(toSup).kind # "GuestCall"
        /\ UNCHANGED <<guestTask, queue, via, hostVars, place, toDaemon, requests, up>>
    BY <1>5 DEF TakeStarted, TakeResult, TakeClosed, TakeAnswer, Incoming
  <2>2. OnWire'
    BY <1>1, <2>1, WireTail, UpFields
  <2>3. InChannel' /\ Written'
    BY <1>1, <2>1 DEF InChannel, Written
  <2> QED
    BY <1>2, <2>1, <2>2, <2>3 DEF OnSocket
<1>6. CASE ConnectionEnds
  <2>1. requests' = <<>> /\ UNCHANGED <<guestVars, hostVars, place, toSup, toDaemon>>
    BY <1>6 DEF ConnectionEnds, StopActor
  <2>2. OnWire' /\ Written'
    BY <1>1, <2>1 DEF OnWire, Written
  <2> QED
    BY <1>2, <2>1, <2>2, ChannelDropped DEF OnSocket
<1> QED
  BY <1>3, <1>4, <1>5, <1>6 DEF Actor

\* The dispatchers pass calls on, the handlers answer them.
LEMMA PlacedDispatch ==
  ASSUME Shaped, InQueues, OnSocket, HostDispatcher \/ \E c \in GuestCalls : GuestDispatcher(c) \/ Handler(c)
  PROVE  InQueues' /\ OnSocket'
<1> USE DEF requestVars, guestVars, hostVars, socketVars, daemonVars
<1>1. OnWire /\ InChannel /\ Written
  BY DEF OnSocket
<1>2. /\ place \in [GuestCalls -> Places] /\ via \in [GuestCalls -> GuestCalls \cup {None}]
      /\ guestTask \in [GuestCalls -> {"none", "acquire", "recv", "refuse", "ended"}]
      /\ queue \in [GuestCalls -> Seq(GuestCalls)] /\ hostQueue \in Seq(GuestCalls)
  BY DEF Shaped
<1>3. Elems(hostQueue) \subseteq GuestCalls /\ \A b \in GuestCalls : Elems(queue[b]) \subseteq GuestCalls
  BY <1>2, ElemsType
\* A call moves on without an answer being sent.
<1>4. ASSUME NEW c \in GuestCalls, NEW p, place' = [place EXCEPT ![c] = p],
             place[c] # "wire", place[c] \in {"refusing", "replying"} => ~up,
             place[c] \in {"rejected", "sent", "done"} => p \in {"rejected", "sent", "done"},
             UNCHANGED <<requestVars, socketVars>>
      PROVE  OnSocket'
  <2>1. \A b \in GuestCalls : place'[b] = IF b = c THEN p ELSE place[b]
    BY <1>2, <1>4
  <2>2. OnWire'
    BY <1>1, <1>4, <2>1, WireFrame
  <2>3. InChannel'
    BY <1>1, <1>4, <2>1, ChannelFrame
  <2>4. Written'
    BY <1>1, <1>4, <2>1, WrittenFrame
  <2> QED
    BY <2>2, <2>3, <2>4 DEF OnSocket
\* A call's answer is sent through the actor.
<1>5. ASSUME NEW c \in GuestCalls, NEW p \in {"refusing", "replying"}, place' = [place EXCEPT ![c] = p],
             place[c] \in {"refused", "handler"}, up, requests' = Append(requests, Message("Response", c)),
             UNCHANGED <<up, queue, via, hostQueue, guestTask, socketVars>>
      PROVE  InQueues' /\ OnSocket'
  <2>1. \A b \in GuestCalls : place'[b] = IF b = c THEN p ELSE place[b]
    BY <1>2, <1>5
  <2>2. /\ Response(c) \in DownMessages /\ requests' = Append(requests, Response(c))
        /\ \A b \in GuestCalls : Response(c) = Response(b) => b = c
    BY <1>5, DownFields DEF Response
  <2>3. InChannel'
    BY <1>1, <1>5, <2>1, <2>2, ChannelAppend
  <2>4. OnWire' /\ Written'
    BY <1>1, <1>5, <2>1, WireFrame, WrittenFrame
  <2>5. \A b \in GuestCalls : /\ place[b] \in {"queued", "host"} => place'[b] = place[b] /\ via'[b] = via[b]
                              /\ place'[b] \in Held => via'[b] \in GuestCalls
                              /\ place'[b] \in {"guest", "wire"} => guestTask'[b] = "none"
    BY <1>5, <2>1 DEF InQueues, Held
  <2>6. InQueues'
    BY <1>5, <2>5, QueuesFrame
  <2> QED
    BY <2>3, <2>4, <2>6 DEF OnSocket
<1>6. ASSUME NEW d \in GuestCalls, GuestAcquire(d) \/ GuestEnds(d) PROVE InQueues' /\ OnSocket'
  <2>1. /\ UNCHANGED <<requestVars, place, via, queue, hostQueue, socketVars>> /\ guestTask[d] # "none"
        /\ \A b \in GuestCalls : b # d => guestTask'[b] = guestTask[b]
    BY <1>2, <1>6 DEF GuestAcquire, GuestEnds
  <2>2. \A b \in GuestCalls : place[b] \in {"guest", "wire"} => guestTask'[b] = "none"
    BY <2>1 DEF InQueues
  <2>3. InQueues'
    BY <2>1, <2>2 DEF InQueues
  <2> QED
    BY <1>1, <2>1, <2>3 DEF OnSocket, OnWire, InChannel, Written
<1>7. ASSUME NEW d \in GuestCalls, GuestRecv(d) PROVE InQueues' /\ OnSocket'
  <2>1. PICK c \in GuestCalls : c = Head(queue[d])
    BY <1>2, <1>7, HeadTail DEF GuestRecv
  <2>2. /\ c \in Elems(queue[d]) /\ Elems(Tail(queue[d])) = Elems(queue[d]) \ {c} /\ Distinct(Tail(queue[d]))
        /\ Distinct(queue[d])
    BY <1>2, <1>7, <2>1, TailElems DEF GuestRecv, InQueues
  <2>3. place[c] = "queued" /\ via[c] = d
    BY <2>2 DEF InQueues
  <2>4. /\ queue' = [queue EXCEPT ![d] = Tail(queue[d])] /\ guestTask[d] = "recv"
        /\ \/ /\ hostQueue' = Append(hostQueue, c) /\ place' = [place EXCEPT ![c] = "host"]
              /\ guestTask' = [guestTask EXCEPT ![d] = "acquire"]
           \/ /\ hostQueue' = hostQueue /\ place' = [place EXCEPT ![c] = "refused"]
              /\ guestTask' = [guestTask EXCEPT ![d] = "refuse"]
        /\ UNCHANGED <<requestVars, via, socketVars>>
    BY <1>7, <2>1 DEF GuestRecv
  <2>5. OnSocket'
    BY <1>4, <2>3, <2>4
  <2>6. \A b \in GuestCalls : b # c => place'[b] = place[b]
    BY <1>2, <2>4
  <2>7. ASSUME NEW b \in GuestCalls
        PROVE  Distinct(queue'[b]) /\ \A x \in Elems(queue'[b]) : place'[x] = "queued" /\ via'[x] = b
    <3>1. queue'[b] = IF b = d THEN Tail(queue[d]) ELSE queue[b]
      BY <1>2, <2>4
    <3>2. Distinct(queue[b]) /\ \A x \in Elems(queue[b]) : place[x] = "queued" /\ via[x] = b
      BY DEF InQueues
    <3>3. \A x \in Elems(queue[b]) : x # c => place'[x] = "queued" /\ via'[x] = b
      BY <1>3, <2>4, <2>6, <3>2
    <3>4. CASE b = d
      BY <2>2, <3>1, <3>3, <3>4
    <3>5. CASE b # d
      BY <2>3, <3>1, <3>2, <3>3, <3>5
    <3> QED
      BY <3>4, <3>5
  <2>8. Distinct(hostQueue') /\ \A x \in Elems(hostQueue') : place'[x] = "host"
    <3>1. c \notin Elems(hostQueue) /\ Distinct(hostQueue) /\ \A x \in Elems(hostQueue) : place[x] = "host"
      BY <2>3 DEF InQueues
    <3>2. \A x \in Elems(hostQueue) : place'[x] = "host"
      BY <1>3, <2>6, <3>1
    <3>3. Distinct(Append(hostQueue, c)) /\ Elems(Append(hostQueue, c)) = Elems(hostQueue) \cup {c}
      BY <1>2, <3>1, AppendElems
    <3>4. CASE hostQueue' = hostQueue
      BY <3>1, <3>2, <3>4
    <3>5. CASE hostQueue' = Append(hostQueue, c) /\ place' = [place EXCEPT ![c] = "host"]
      <4>1. place'[c] = "host"
        BY <1>2, <3>5
      <4> QED
        BY <3>2, <3>3, <3>5, <4>1
    <3> QED
      BY <2>4, <3>4, <3>5
  <2>9. \A b \in GuestCalls : /\ place'[b] \in Held => via'[b] \in GuestCalls
                              /\ place'[b] \in {"guest", "wire"} => guestTask'[b] = "none"
    <3>1. place'[c] \in {"host", "refused"}
      BY <1>2, <2>4
    <3>2. \A b \in GuestCalls : place[b] \in {"guest", "wire"} => guestTask[b] = "none" /\ b # d
      BY <2>4 DEF InQueues
    <3>3. \A b \in GuestCalls : b # d => guestTask'[b] = guestTask[b]
      BY <1>2, <2>4
    <3>4. \A b \in GuestCalls : place[b] \in Held => via[b] \in GuestCalls
      BY DEF InQueues
    <3> QED
      BY <2>3, <2>4, <2>6, <3>1, <3>2, <3>3, <3>4
  <2> QED
    BY <2>5, <2>7, <2>8, <2>9 DEF InQueues
<1>8. ASSUME NEW d \in GuestCalls, NEW c \in GuestCalls, GuestRefuse(d, c) PROVE InQueues' /\ OnSocket'
  BY <1>5, <1>8 DEF GuestRefuse
<1>9. ASSUME NEW c \in GuestCalls, place[c] \in {"rejected", "sent"} \/ (place[c] \in Held \ {"host"} /\ ~up),
             place' = [place EXCEPT ![c] = "done"],
             \A b \in GuestCalls : guestTask[b] = "none" => guestTask'[b] = "none",
             UNCHANGED <<requestVars, queue, via, hostQueue, socketVars>>
      PROVE  InQueues' /\ OnSocket'
  <2>1. OnSocket'
    BY <1>4, <1>9 DEF Held
  <2>2. \A b \in GuestCalls : place'[b] = IF b = c THEN "done" ELSE place[b]
    BY <1>2, <1>9
  <2>3. \A b \in GuestCalls : /\ place[b] \in {"queued", "host"} => place'[b] = place[b] /\ via'[b] = via[b]
                              /\ place'[b] \in Held => via'[b] \in GuestCalls
                              /\ place'[b] \in {"guest", "wire"} => guestTask'[b] = "none"
    BY <1>9, <2>2 DEF InQueues, Held
  <2>4. InQueues'
    BY <1>9, <2>3, QueuesFrame
  <2> QED
    BY <2>1, <2>4
<1>10. ASSUME NEW d \in GuestCalls, NEW c \in GuestCalls, GuestRefused(d, c) PROVE InQueues' /\ OnSocket'
  <2>1. \A b \in GuestCalls : guestTask[b] = "none" => guestTask'[b] = "none"
    BY <1>2, <1>10 DEF GuestRefused
  <2>2. place[c] \in {"rejected", "sent"} \/ (place[c] \in Held \ {"host"} /\ ~up)
    BY <1>10 DEF GuestRefused, Held
  <2> QED
    BY <1>9, <1>10, <2>1, <2>2 DEF GuestRefused
<1>11. CASE HostAcquire
  <2>1. UNCHANGED <<requestVars, place, via, queue, hostQueue, guestTask, socketVars>>
    BY <1>11 DEF HostAcquire
  <2> QED
    BY <1>1, <2>1 DEF OnSocket, OnWire, InChannel, Written, InQueues
<1>12. CASE HostRecv
  <2>1. PICK c \in GuestCalls : c = Head(hostQueue)
    BY <1>2, <1>12, HeadTail DEF HostRecv
  <2>2. /\ c \in Elems(hostQueue) /\ Elems(Tail(hostQueue)) = Elems(hostQueue) \ {c} /\ Distinct(Tail(hostQueue))
    BY <1>2, <1>12, <2>1, TailElems DEF HostRecv, InQueues
  <2>3. place[c] = "host" /\ via[c] \in GuestCalls
    BY <2>2 DEF InQueues, Held
  <2>4. /\ hostQueue' = Tail(hostQueue) /\ place' = [place EXCEPT ![c] = "handler"]
        /\ UNCHANGED <<requestVars, queue, via, guestTask, socketVars>>
    BY <1>12, <2>1 DEF HostRecv
  <2>5. OnSocket'
    BY <1>4, <2>3, <2>4
  <2>6. \A b \in GuestCalls : place'[b] = IF b = c THEN "handler" ELSE place[b]
    BY <1>2, <2>4
  <2>7. Distinct(hostQueue') /\ \A x \in Elems(hostQueue') : place'[x] = "host"
    BY <1>3, <2>2, <2>4, <2>6 DEF InQueues
  <2>8. ASSUME NEW b \in GuestCalls
        PROVE  Distinct(queue'[b]) /\ \A x \in Elems(queue'[b]) : place'[x] = "queued" /\ via'[x] = b
    BY <1>3, <2>3, <2>4, <2>6 DEF InQueues
  <2>9. \A b \in GuestCalls : /\ place'[b] \in Held => via'[b] \in GuestCalls
                              /\ place'[b] \in {"guest", "wire"} => guestTask'[b] = "none"
    BY <2>3, <2>4, <2>6 DEF InQueues
  <2> QED
    BY <2>5, <2>7, <2>8, <2>9 DEF InQueues
<1>13. ASSUME NEW c \in GuestCalls, HandlerReturns(c) PROVE InQueues' /\ OnSocket'
  BY <1>5, <1>13 DEF HandlerReturns
<1>14. ASSUME NEW c \in GuestCalls, HandlerEnds(c) PROVE InQueues' /\ OnSocket'
  <2>1. place[c] \in {"rejected", "sent"} \/ (place[c] \in Held \ {"host"} /\ ~up)
    BY <1>14 DEF HandlerEnds, Held
  <2> QED
    BY <1>9, <1>14, <2>1 DEF HandlerEnds
<1> QED
  BY <1>6, <1>7, <1>8, <1>10, <1>11, <1>12, <1>13, <1>14 DEF HostDispatcher, GuestDispatcher, Handler

\* The daemon reads, replies and dies, and the guest asks.
LEMMA PlacedDaemon ==
  ASSUME Shaped, InQueues, OnSocket, Daemon PROVE InQueues' /\ OnSocket'
<1> USE DEF requestVars, guestVars, hostVars, socketVars, daemonVars
<1>1. OnWire /\ InChannel /\ Written
  BY DEF OnSocket
<1>2. ASSUME UNCHANGED <<requestVars, guestVars, hostVars, place>> PROVE InQueues' /\ InChannel'
  BY <1>1, <1>2 DEF InQueues, InChannel
<1>3. ASSUME NEW m \in UpMessages, m.kind # "GuestCall", Reply(<<m>>), UNCHANGED place PROVE OnWire'
  <2>1. \A c \in GuestCalls : m # GuestCall(c)
    BY <1>3, UpFields
  <2> QED
    BY <1>1, <1>3, <2>1, WireAppend
<1>4. ASSUME UNCHANGED <<toSup, place>> PROVE OnWire'
  BY <1>1, <1>4 DEF OnWire
<1>5. ASSUME UNCHANGED <<toDaemon, place>> PROVE Written'
  BY <1>1, <1>5 DEF Written
<1>6. CASE DaemonReads
  <2>1. PICK m \in DownMessages : m = Head(toDaemon)
    BY <1>6, HeadTail DEF Shaped, DaemonReads
  <2>2. toDaemon # <<>> /\ toDaemon' = Tail(toDaemon) /\ UNCHANGED <<requestVars, guestVars, hostVars, place>>
    BY <1>6 DEF DaemonReads
  <2>3. Written'
    BY <1>1, <2>2, WrittenTail
  <2>4. UNCHANGED toSup \/ \E n \in UpMessages : n.kind # "GuestCall" /\ Reply(<<n>>)
    <3>1. CASE m.kind = "Execute"
      <4>1. m.id \in Execs /\ (UNCHANGED toSup \/ Reply(<<Result(m.id)>>))
        BY <1>6, <2>1, <3>1, DownFields DEF DaemonReads, Result
      <4> QED
        BY <4>1, UpFields
    <3>2. CASE m.kind = "WorkerCall"
      <4>1. m.id \in Calls /\ (UNCHANGED toSup \/ Reply(<<Message("WorkerResponse", m.id)>>))
        BY <1>6, <2>1, <3>2, DownFields DEF DaemonReads
      <4> QED
        BY <4>1, UpFields
    <3>3. CASE m.kind = "CloseWorker"
      <4>1. PICK w \in Workers : w = WorkerOf(m.id)
        BY <2>1, <3>3, DownFields, WorkerOfType
      <4>2. Reply(<<Message("Closed", w)>>) \/ Reply(<<Message("NotClosed", w)>>)
        BY <1>6, <2>1, <3>3, <4>1 DEF DaemonReads
      <4> QED
        BY <4>2, UpFields
    <3>4. CASE m.kind = "Response"
      BY <1>6, <2>1, <3>4 DEF DaemonReads
    <3> QED
      BY <2>1, <3>1, <3>2, <3>3, <3>4, DownFields
  <2> QED
    BY <1>2, <1>3, <1>4, <2>2, <2>3, <2>4 DEF OnSocket
<1>7. CASE DaemonDies
  <2>1. toDaemon' = <<>> /\ UNCHANGED <<requestVars, guestVars, hostVars, place, toSup>>
    BY <1>7 DEF DaemonDies
  <2> QED
    BY <1>2, <1>4, <2>1, WrittenDropped DEF OnSocket
<1>8. ASSUME NEW w \in Workers, DaemonStarts(w) \/ DaemonFinishes(w) PROVE InQueues' /\ OnSocket'
  <2>1. /\ UNCHANGED <<requestVars, guestVars, hostVars, place, toDaemon>>
        /\ \E e \in Execs : Reply(<<Message("Started", e)>>) \/ Reply(<<Result(e)>>)
    BY <1>8, HeadTail DEF Shaped, DaemonStarts, DaemonFinishes, Result
  <2>2. OnWire'
    BY <1>3, <2>1, UpFields
  <2> QED
    BY <1>2, <1>5, <2>1, <2>2 DEF OnSocket
<1>9. ASSUME NEW k \in Calls, GuestAnswers(k) PROVE InQueues' /\ OnSocket'
  <2>1. /\ UNCHANGED <<requestVars, guestVars, hostVars, place, toDaemon>>
        /\ Reply(<<Message("WorkerResponse", k)>>)
    BY <1>9 DEF GuestAnswers
  <2>2. OnWire'
    BY <1>3, <2>1, UpFields
  <2> QED
    BY <1>2, <1>5, <2>1, <2>2 DEF OnSocket
<1>10. ASSUME NEW c \in GuestCalls, GuestAsks(c) PROVE InQueues' /\ OnSocket'
  <2>1. /\ place[c] = "guest" /\ place' = [place EXCEPT ![c] = "wire"] /\ Reply(<<GuestCall(c)>>)
        /\ UNCHANGED <<requestVars, guestVars, hostVars, toDaemon>>
    BY <1>10 DEF GuestAsks, GuestCall
  <2>2. \A b \in GuestCalls : place'[b] = IF b = c THEN "wire" ELSE place[b]
    BY <2>1 DEF Shaped
  <2>3. GuestCall(c) \in UpMessages /\ \A b \in GuestCalls : GuestCall(c) = GuestCall(b) => b = c
    BY UpFields
  <2>4. OnWire'
    BY <1>1, <2>1, <2>2, <2>3, WireAppend
  <2>5. InChannel' /\ Written'
    BY <1>1, <2>1, <2>2, ChannelFrame, WrittenFrame
  <2>6. \A b \in GuestCalls : /\ place[b] \in {"queued", "host"} => place'[b] = place[b] /\ via'[b] = via[b]
                              /\ place'[b] \in Held => via'[b] \in GuestCalls
                              /\ place'[b] \in {"guest", "wire"} => guestTask'[b] = "none"
    BY <2>1, <2>2 DEF InQueues, Held
  <2>7. InQueues'
    BY <2>1, <2>6, QueuesFrame
  <2> QED
    BY <2>4, <2>5, <2>7 DEF OnSocket
<1> QED
  BY <1>6, <1>7, <1>8, <1>9, <1>10 DEF Daemon

\* Every step keeps calls and answers in their places.
LEMMA PlacedStep ==
  ASSUME Shaped, Shaped', InQueues, OnSocket, [Next]_vars PROVE InQueues' /\ OnSocket'
<1>1. CASE Next
  BY <1>1, PlacedCallers, PlacedActor, PlacedDispatch, PlacedDaemon DEF Next
<1>2. CASE UNCHANGED vars
  BY <1>2 DEF InQueues, OnSocket, OnWire, InChannel, Written, vars, requestVars, guestVars, hostVars, socketVars
<1> QED
  BY <1>1, <1>2

-----------------------------------------------------------------------------
(* Permits *)

\* Every permit is free, with a dispatcher that waits for a call, or with a call.
Waits(task) == IF task = "recv" THEN 1 ELSE 0
GuestCounted(d) ==
  /\ IsFiniteSet(Holding(d))
  /\ permits[d] + Cardinality(Holding(d)) + Waits(guestTask[d]) = GuestConcurrency
HostCounted ==
  IsFiniteSet(Handling) /\ hostPermits + Cardinality(Handling) + Waits(hostTask) = HostConcurrency
Counted == (\A d \in GuestCalls : GuestCounted(d)) /\ HostCounted

\* At the start every permit is free.
LEMMA CountedInit == Init => Counted
<1> SUFFICES ASSUME Init PROVE Counted
  OBVIOUS
<1>1. IsFiniteSet({}) /\ Cardinality({}) = 0 /\ GuestConcurrency \in Nat /\ HostConcurrency \in Nat
  BY FS_EmptySet, SupervisorAssumption
<1>2. \A d \in GuestCalls : Holding(d) = {} /\ permits[d] = GuestConcurrency /\ guestTask[d] = "none"
  BY DEF Init, Holding
<1>3. Handling = {} /\ hostPermits = HostConcurrency /\ hostTask = "acquire"
  BY DEF Init, Handling
<1> QED
  BY <1>1, <1>2, <1>3 DEF Counted, GuestCounted, HostCounted, Waits

\* A step that takes and gives back no permit of a dispatcher.
LEMMA GuestFrame ==
  ASSUME NEW d \in GuestCalls, GuestCounted(d), permits'[d] = permits[d], Waits(guestTask'[d]) = Waits(guestTask[d]),
         \A c \in GuestCalls : (place'[c] \in Held /\ via'[c] = d) <=> (place[c] \in Held /\ via[c] = d)
  PROVE  GuestCounted(d)'
<1>1. Holding(d)' = Holding(d)
  BY DEF Holding, Held
<1> QED
  BY <1>1 DEF GuestCounted

\* A step that takes and gives back no permit of the host dispatcher.
LEMMA HostFrame ==
  ASSUME HostCounted, hostPermits' = hostPermits, hostTask' = hostTask,
         \A c \in GuestCalls : place'[c] \in {"handler", "replying", "sent"} <=> place[c] \in {"handler", "replying", "sent"}
  PROVE  HostCounted'
<1>1. Handling' = Handling
  BY DEF Handling
<1> QED
  BY <1>1 DEF HostCounted

\* A call comes to hold a permit, or gives it up.
LEMMA OneMore ==
  ASSUME NEW S, NEW c, IsFiniteSet(S)
  PROVE  /\ c \notin S => IsFiniteSet(S \cup {c}) /\ Cardinality(S \cup {c}) = Cardinality(S) + 1
         /\ c \in S => IsFiniteSet(S \ {c}) /\ Cardinality(S \ {c}) = Cardinality(S) - 1
         /\ Cardinality(S) \in Nat
  BY FS_AddElement, FS_RemoveElement, FS_CardinalityType

\* Every step keeps the permits in balance.
LEMMA CountedStep ==
  ASSUME Shaped, InQueues, OnSocket, Counted, [Next]_vars PROVE Counted'
<1> USE DEF requestVars, guestVars, hostVars, socketVars, daemonVars
<1>1. /\ place \in [GuestCalls -> Places] /\ via \in [GuestCalls -> GuestCalls \cup {None}]
      /\ guestTask \in [GuestCalls -> {"none", "acquire", "recv", "refuse", "ended"}]
      /\ queue \in [GuestCalls -> Seq(GuestCalls)] /\ hostQueue \in Seq(GuestCalls)
      /\ permits \in [GuestCalls -> Nat] /\ hostPermits \in Nat
  BY DEF Shaped
<1>2. HostCounted /\ \A d \in GuestCalls : GuestCounted(d)
  BY DEF Counted
<1>3. /\ GuestConcurrency \in Nat /\ HostConcurrency \in Nat /\ IsFiniteSet(Handling) /\ Cardinality(Handling) \in Nat
      /\ \A d \in GuestCalls : IsFiniteSet(Holding(d)) /\ Cardinality(Holding(d)) \in Nat
  BY <1>2, OneMore, SupervisorAssumption DEF GuestCounted, HostCounted
<1>4. ASSUME UNCHANGED <<permits, guestTask, via, hostPermits, hostTask, place>> PROVE Counted'
  BY <1>4 DEF Counted, GuestCounted, HostCounted, Holding, Handling
\* A call changes its place and keeps the permits it has.
<1>5. ASSUME NEW c \in GuestCalls, NEW p, place' = [place EXCEPT ![c] = p], p \in Held <=> place[c] \in Held,
             p \in {"handler", "replying", "sent"} <=> place[c] \in {"handler", "replying", "sent"},
             UNCHANGED <<permits, guestTask, via, hostPermits, hostTask>>
      PROVE  Counted'
  <2>1. \A b \in GuestCalls : place'[b] = IF b = c THEN p ELSE place[b]
    BY <1>1, <1>5
  <2>2. ASSUME NEW d \in GuestCalls PROVE GuestCounted(d)'
    BY <1>2, <1>5, <2>1, GuestFrame
  <2>3. HostCounted'
    BY <1>2, <1>5, <2>1, HostFrame
  <2> QED
    BY <2>2, <2>3 DEF Counted
<1>6. CASE Callers \/ \E w \in Workers : CloseWorker(w)
  BY <1>4, <1>6 DEF Callers, CloseWorker, Run, Call, CallTooEarly, Ask, Terminate
<1>7. CASE TakeRequest
  <2>1. PICK m \in DownMessages : m = Head(requests) /\ m \in Elems(requests)
    BY <1>7, HeadTail, TailSubset DEF Shaped, TakeRequest
  <2>2. UNCHANGED <<permits, guestTask, via, hostPermits, hostTask>>
    BY <1>7 DEF TakeRequest
  <2>3. CASE UNCHANGED place
    BY <1>4, <2>2, <2>3
  <2>4. CASE m.kind = "Response" /\ ~lost
    <3>1. PICK c \in GuestCalls : m = Response(c) /\ c = m.id
      BY <2>1, <2>4, DownFields
    <3>2. place[c] \in {"refusing", "replying"}
      BY <2>1, <3>1 DEF OnSocket, InChannel
    <3>3. place' = [place EXCEPT ![c] = IF place[c] = "refusing" THEN "rejected" ELSE "sent"]
      BY <1>7, <2>1, <2>4, <3>1 DEF TakeRequest
    <3> QED
      BY <1>5, <2>2, <3>2, <3>3 DEF Held
  <2> QED
    BY <1>7, <2>1, <2>3, <2>4 DEF TakeRequest
<1>8. CASE TakeGuestCall
  <2>1. PICK m \in UpMessages : m = Head(toSup) /\ m.kind = "GuestCall" /\ m \in Elems(toSup)
    BY <1>8, HeadTail, TailSubset DEF Shaped, TakeGuestCall, Incoming
  <2>2. PICK c \in GuestCalls : c = m.id /\ m = GuestCall(c)
    BY <2>1, UpFields
  <2>3. place[c] = "wire" /\ guestTask[c] = "none"
    BY <2>1, <2>2 DEF OnSocket, OnWire, InQueues
  <2>4. PICK w \in Workers : w = WorkerOf(c)
    BY WorkerOfType
  <2>5. PICK d \in GuestCalls : d = IF dispatcher[w] = None THEN c ELSE dispatcher[w]
    BY DEF Shaped
  <2>6. /\ place' = [place EXCEPT ![c] = place'[c]] /\ place'[c] \in {"queued", "done"}
        /\ via' = via \/ via' = [via EXCEPT ![c] = d]
        /\ guestTask' = guestTask \/ guestTask' = [guestTask EXCEPT ![d] = IF d = c THEN "acquire" ELSE guestTask[d]]
        /\ UNCHANGED <<permits, hostPermits, hostTask>>
    BY <1>1, <1>8, <2>1, <2>2, <2>4, <2>5 DEF TakeGuestCall, Overload
  <2>7. /\ \A b \in GuestCalls : b # c => place'[b] = place[b] /\ via'[b] = via[b]
        /\ \A b \in GuestCalls : Waits(guestTask'[b]) = Waits(guestTask[b])
    BY <1>1, <2>3, <2>6 DEF Waits
  <2>8. ASSUME NEW b \in GuestCalls PROVE GuestCounted(b)'
    <3>1. \A x \in GuestCalls : (place'[x] \in Held /\ via'[x] = b) <=> (place[x] \in Held /\ via[x] = b)
      BY <2>3, <2>6, <2>7 DEF Held
    <3> QED
      BY <1>2, <2>6, <2>7, <3>1, GuestFrame
  <2>9. \A x \in GuestCalls : place'[x] \in {"handler", "replying", "sent"} <=> place[x] \in {"handler", "replying", "sent"}
    BY <2>3, <2>6, <2>7
  <2> QED
    BY <1>2, <2>6, <2>8, <2>9, HostFrame DEF Counted
<1>9. CASE TakeStarted \/ TakeResult \/ TakeClosed \/ TakeAnswer \/ ConnectionEnds
  BY <1>4, <1>9 DEF TakeStarted, TakeResult, TakeClosed, TakeAnswer, ConnectionEnds
\* Only dispatcher d takes or gives back a permit.
<1>10. ASSUME NEW d \in GuestCalls, GuestCounted(d)',
              \A b \in GuestCalls \ {d} : permits'[b] = permits[b] /\ guestTask'[b] = guestTask[b],
              \A c \in GuestCalls : via[c] # d => (place'[c] \in Held <=> place[c] \in Held), UNCHANGED via
       PROVE  \A b \in GuestCalls : GuestCounted(b)'
  <2>1. ASSUME NEW b \in GuestCalls, b # d PROVE GuestCounted(b)'
    <3>1. \A c \in GuestCalls : (place'[c] \in Held /\ via'[c] = b) <=> (place[c] \in Held /\ via[c] = b)
      BY <1>10, <2>1
    <3> QED
      BY <1>2, <1>10, <2>1, <3>1, GuestFrame
  <2> QED
    BY <1>10, <2>1
<1>11. ASSUME NEW d \in GuestCalls, GuestAcquire(d) \/ GuestEnds(d) PROVE Counted'
  <2>1. /\ UNCHANGED <<place, via, hostPermits, hostTask>>
        /\ \A b \in GuestCalls \ {d} : permits'[b] = permits[b] /\ guestTask'[b] = guestTask[b]
        /\ \/ permits'[d] = permits[d] - 1 /\ guestTask[d] = "acquire" /\ guestTask'[d] = "recv"
           \/ permits'[d] = permits[d] + 1 /\ guestTask[d] = "recv" /\ guestTask'[d] = "ended"
    BY <1>1, <1>11 DEF GuestAcquire, GuestEnds, Acquired
  <2>2. permits'[d] + Waits(guestTask'[d]) = permits[d] + Waits(guestTask[d]) /\ permits[d] \in Nat /\ permits'[d] \in Int
    <3>1. permits[d] \in Nat
      BY <1>1
    <3>2. CASE permits'[d] = permits[d] - 1 /\ guestTask[d] = "acquire" /\ guestTask'[d] = "recv"
      <4>1. Waits(guestTask[d]) = 0 /\ Waits(guestTask'[d]) = 1
        BY <3>2 DEF Waits
      <4> QED
        BY <3>1, <3>2, <4>1
    <3>3. CASE permits'[d] = permits[d] + 1 /\ guestTask[d] = "recv" /\ guestTask'[d] = "ended"
      <4>1. Waits(guestTask[d]) = 1 /\ Waits(guestTask'[d]) = 0
        BY <3>3 DEF Waits
      <4> QED
        BY <3>1, <3>3, <4>1
    <3> QED
      BY <2>1, <3>2, <3>3
  <2>3. Holding(d)' = Holding(d)
    BY <2>1 DEF Holding
  <2>4. GuestCounted(d)'
    <3>1. permits[d] + Cardinality(Holding(d)) + Waits(guestTask[d]) = GuestConcurrency
      BY <1>2 DEF GuestCounted
    <3>2. Waits(guestTask[d]) \in Nat /\ Waits(guestTask'[d]) \in Nat
      BY DEF Waits
    <3>3. permits'[d] + Cardinality(Holding(d)) + Waits(guestTask'[d]) = GuestConcurrency
      BY <1>3, <2>2, <3>1, <3>2
    <3> QED
      BY <1>3, <2>3, <3>3 DEF GuestCounted
  <2>5. HostCounted'
    BY <1>2, <2>1 DEF HostCounted, Handling
  <2> QED
    BY <1>10, <2>1, <2>4, <2>5 DEF Counted
<1>12. ASSUME NEW d \in GuestCalls, GuestRecv(d) PROVE Counted'
  <2>1. PICK c \in GuestCalls : c = Head(queue[d])
    BY <1>1, <1>12, HeadTail DEF GuestRecv
  <2>2. place[c] = "queued" /\ via[c] = d
    <3>1. c \in Elems(queue[d])
      BY <1>1, <1>12, <2>1, TailSubset DEF GuestRecv
    <3> QED
      BY <3>1 DEF InQueues
  <2>3. /\ guestTask[d] = "recv" /\ UNCHANGED <<permits, via, hostTask, hostPermits>>
        /\ \/ place' = [place EXCEPT ![c] = "host"] /\ guestTask' = [guestTask EXCEPT ![d] = "acquire"]
           \/ place' = [place EXCEPT ![c] = "refused"] /\ guestTask' = [guestTask EXCEPT ![d] = "refuse"]
    BY <1>12, <2>1 DEF GuestRecv
  <2>4. /\ place'[c] \in {"host", "refused"} /\ \A b \in GuestCalls : b # c => place'[b] = place[b]
        /\ guestTask'[d] \in {"acquire", "refuse"} /\ \A b \in GuestCalls \ {d} : guestTask'[b] = guestTask[b]
    BY <1>1, <2>3
  <2>5. Holding(d)' = Holding(d) \cup {c} /\ c \notin Holding(d)
    BY <2>2, <2>3, <2>4 DEF Holding
  <2>6. GuestCounted(d)'
    <3>1. permits[d] + Cardinality(Holding(d)) + 1 = GuestConcurrency /\ permits[d] \in Nat
      BY <1>1, <1>2, <2>3 DEF GuestCounted, Waits
    <3>2. IsFiniteSet(Holding(d) \cup {c}) /\ Cardinality(Holding(d) \cup {c}) = Cardinality(Holding(d)) + 1
      BY <1>3, <2>5, OneMore
    <3>3. Waits(guestTask'[d]) = 0
      BY <2>4 DEF Waits
    <3>4. permits[d] + (Cardinality(Holding(d)) + 1) + 0 = GuestConcurrency
      BY <1>3, <3>1
    <3> QED
      BY <2>3, <2>5, <3>2, <3>3, <3>4 DEF GuestCounted
  <2>7. HostCounted'
    BY <1>2, <2>2, <2>3, <2>4, HostFrame
  <2> QED
    BY <1>10, <2>2, <2>3, <2>4, <2>6, <2>7 DEF Counted
<1>13. ASSUME NEW d \in GuestCalls, NEW c \in GuestCalls, GuestRefuse(d, c) PROVE Counted'
  BY <1>5, <1>13 DEF GuestRefuse, Held
\* A call that is done gives back its worker's permit.
<1>14. ASSUME NEW d \in GuestCalls, NEW c \in GuestCalls, place[c] \in Held, via[c] = d,
              place' = [place EXCEPT ![c] = "done"], permits' = [permits EXCEPT ![d] = permits[d] + 1],
              Waits(guestTask'[d]) = Waits(guestTask[d]),
              \A b \in GuestCalls \ {d} : guestTask'[b] = guestTask[b], UNCHANGED via
       PROVE  \A b \in GuestCalls : GuestCounted(b)'
  <2>1. \A b \in GuestCalls : place'[b] = IF b = c THEN "done" ELSE place[b]
    BY <1>1, <1>14
  <2>2. permits'[d] = permits[d] + 1 /\ \A b \in GuestCalls \ {d} : permits'[b] = permits[b]
    BY <1>1, <1>14
  <2>3. Holding(d)' = Holding(d) \ {c} /\ c \in Holding(d)
    BY <1>14, <2>1 DEF Holding, Held
  <2>4. GuestCounted(d)'
    <3>1. /\ permits[d] + Cardinality(Holding(d)) + Waits(guestTask[d]) = GuestConcurrency
          /\ permits[d] \in Nat /\ Waits(guestTask[d]) \in Nat
      BY <1>1, <1>2 DEF GuestCounted, Waits
    <3>2. IsFiniteSet(Holding(d) \ {c}) /\ Cardinality(Holding(d) \ {c}) = Cardinality(Holding(d)) - 1
      BY <1>3, <2>3, OneMore
    <3>3. (permits[d] + 1) + (Cardinality(Holding(d)) - 1) + Waits(guestTask[d]) = GuestConcurrency
      BY <1>3, <3>1
    <3> QED
      BY <1>14, <2>2, <2>3, <3>2, <3>3 DEF GuestCounted
  <2>5. \A b \in GuestCalls : via[b] # d => (place'[b] \in Held <=> place[b] \in Held)
    BY <1>14, <2>1
  <2> QED
    BY <1>10, <1>14, <2>2, <2>4, <2>5
<1>15. ASSUME NEW d \in GuestCalls, NEW c \in GuestCalls, GuestRefused(d, c) PROVE Counted'
  <2>1. /\ place[c] \in {"rejected", "refused", "refusing"} /\ via[c] = d /\ place' = [place EXCEPT ![c] = "done"]
        /\ permits' = [permits EXCEPT ![d] = permits[d] + 1] /\ UNCHANGED <<via, hostPermits, hostTask>>
        /\ guestTask[d] = "refuse" /\ guestTask' = [guestTask EXCEPT ![d] = "acquire"]
    BY <1>15 DEF GuestRefused
  <2>2. Waits(guestTask'[d]) = Waits(guestTask[d]) /\ \A b \in GuestCalls \ {d} : guestTask'[b] = guestTask[b]
    BY <1>1, <2>1 DEF Waits
  <2>3. \A b \in GuestCalls : GuestCounted(b)'
    BY <1>14, <2>1, <2>2 DEF Held
  <2>4. \A b \in GuestCalls : place'[b] = IF b = c THEN "done" ELSE place[b]
    BY <1>1, <2>1
  <2>5. HostCounted'
    BY <1>2, <2>1, <2>4, HostFrame
  <2> QED
    BY <2>3, <2>5 DEF Counted
<1>16. CASE HostAcquire
  <2>1. /\ hostPermits' = hostPermits - 1 /\ hostTask = "acquire" /\ hostTask' = "recv"
        /\ UNCHANGED <<permits, guestTask, via, place>>
    BY <1>16 DEF HostAcquire
  <2>2. hostPermits + Cardinality(Handling) + 0 = HostConcurrency
    BY <1>2, <2>1 DEF HostCounted, Waits
  <2>3. (hostPermits - 1) + Cardinality(Handling) + 1 = HostConcurrency
    BY <1>1, <1>3, <2>2
  <2>4. Handling' = Handling /\ \A d \in GuestCalls : Holding(d)' = Holding(d)
    BY <2>1 DEF Handling, Holding
  <2>5. HostCounted'
    BY <1>3, <2>1, <2>3, <2>4 DEF HostCounted, Waits
  <2> QED
    BY <1>2, <2>1, <2>4, <2>5 DEF Counted, GuestCounted
<1>17. CASE HostRecv
  <2>1. PICK c \in GuestCalls : c = Head(hostQueue)
    BY <1>1, <1>17, HeadTail DEF HostRecv
  <2>2. place[c] = "host"
    <3>1. c \in Elems(hostQueue)
      BY <1>1, <1>17, <2>1, TailSubset DEF HostRecv
    <3> QED
      BY <3>1 DEF InQueues
  <2>3. /\ place' = [place EXCEPT ![c] = "handler"] /\ hostTask = "recv" /\ hostTask' = "acquire"
        /\ UNCHANGED <<permits, guestTask, via, hostPermits>>
    BY <1>17, <2>1 DEF HostRecv
  <2>4. \A b \in GuestCalls : place'[b] = IF b = c THEN "handler" ELSE place[b]
    BY <1>1, <2>3
  <2>5. Handling' = Handling \cup {c} /\ c \notin Handling
    BY <2>2, <2>4 DEF Handling
  <2>6. HostCounted'
    <3>1. hostPermits + Cardinality(Handling) + 1 = HostConcurrency
      BY <1>2, <2>3 DEF HostCounted, Waits
    <3>2. IsFiniteSet(Handling \cup {c}) /\ Cardinality(Handling \cup {c}) = Cardinality(Handling) + 1
      BY <1>3, <2>5, OneMore
    <3>3. hostPermits + (Cardinality(Handling) + 1) + 0 = HostConcurrency
      BY <1>1, <1>3, <3>1
    <3> QED
      BY <2>3, <2>5, <3>2, <3>3 DEF HostCounted, Waits
  <2>7. ASSUME NEW d \in GuestCalls PROVE GuestCounted(d)'
    BY <1>2, <2>2, <2>3, <2>4, GuestFrame DEF Held
  <2> QED
    BY <2>6, <2>7 DEF Counted
<1>18. ASSUME NEW c \in GuestCalls, HandlerReturns(c) PROVE Counted'
  BY <1>5, <1>18 DEF HandlerReturns, Held
<1>19. ASSUME NEW c \in GuestCalls, HandlerEnds(c) PROVE Counted'
  <2>1. /\ place[c] \in {"sent", "handler", "replying"} /\ place' = [place EXCEPT ![c] = "done"]
        /\ permits' = [permits EXCEPT ![via[c]] = permits[via[c]] + 1] /\ hostPermits' = hostPermits + 1
        /\ UNCHANGED <<guestTask, via, hostTask>>
    BY <1>19 DEF HandlerEnds
  <2>2. PICK d \in GuestCalls : d = via[c] /\ place[c] \in Held
    BY <2>1 DEF InQueues, Held
  <2>3. \A b \in GuestCalls : GuestCounted(b)'
    BY <1>14, <2>1, <2>2
  <2>4. \A b \in GuestCalls : place'[b] = IF b = c THEN "done" ELSE place[b]
    BY <1>1, <2>1
  <2>5. Handling' = Handling \ {c} /\ c \in Handling
    BY <2>1, <2>4 DEF Handling
  <2>6. HostCounted'
    <3>1. hostPermits + Cardinality(Handling) + Waits(hostTask) = HostConcurrency /\ Waits(hostTask) \in Nat
      BY <1>2 DEF HostCounted, Waits
    <3>2. IsFiniteSet(Handling \ {c}) /\ Cardinality(Handling \ {c}) = Cardinality(Handling) - 1
      BY <1>3, <2>5, OneMore
    <3>3. (hostPermits + 1) + (Cardinality(Handling) - 1) + Waits(hostTask) = HostConcurrency
      BY <1>1, <1>3, <3>1
    <3> QED
      BY <2>1, <2>5, <3>2, <3>3 DEF HostCounted
  <2> QED
    BY <2>3, <2>6 DEF Counted
<1>20. CASE Daemon
  <2>1. ASSUME NEW c \in GuestCalls, GuestAsks(c) PROVE Counted'
    BY <1>5, <2>1 DEF GuestAsks, Held
  <2> QED
    BY <1>4, <1>20, <2>1 DEF Daemon, DaemonReads, DaemonDies, DaemonStarts, DaemonFinishes, GuestAnswers
<1>21. CASE UNCHANGED vars
  BY <1>4, <1>21 DEF vars
<1> QED
  BY <1>6, <1>7, <1>8, <1>9, <1>11, <1>12, <1>13, <1>15, <1>16, <1>17, <1>18, <1>19, <1>20, <1>21
  DEF Next, Actor, HostDispatcher, GuestDispatcher, Handler

-----------------------------------------------------------------------------
(* Theorems *)

\* A frame that is on a socket once is in one place of it.
LEMMA AtMostOne ==
  ASSUME NEW c, NEW q, Len(q) \in Nat, Once(q, Response(c))
  PROVE  /\ Cardinality(Occurrences(c, q)) \in {0, 1}
         /\ Response(c) \notin Elems(q) => Cardinality(Occurrences(c, q)) = 0
<1>1. Occurrences(c, q) = {i \in 1..Len(q) : q[i] = Response(c)}
  BY DEF Occurrences, Response
<1>2. Cardinality({}) = 0 /\ \A x : Cardinality({x}) = 1
  BY FS_EmptySet, FS_Singleton
<1>3. CASE Occurrences(c, q) = {}
  BY <1>2, <1>3
<1>4. CASE Occurrences(c, q) # {}
  <2>1. PICK i \in 1..Len(q) : q[i] = Response(c) /\ i \in Occurrences(c, q)
    BY <1>1, <1>4
  <2>2. Occurrences(c, q) = {i}
    BY <1>1, <2>1 DEF Once
  <2> QED
    BY <1>2, <2>1, <2>2 DEF Elems
<1> QED
  BY <1>3, <1>4

\* What every behaviour of the supervisor keeps.
THEOREM SupervisorInvariant == Spec => [](Shaped /\ InQueues /\ OnSocket /\ Counted)
<1>1. Init => Shaped /\ InQueues /\ OnSocket /\ Counted
  BY ShapedInit, PlacedInit, CountedInit
<1>2. Shaped /\ InQueues /\ OnSocket /\ Counted /\ [Next]_vars => (Shaped /\ InQueues /\ OnSocket /\ Counted)'
  BY ShapedStep, PlacedStep, CountedStep
<1> QED
  BY <1>1, <1>2, PTL DEF Spec

\* No permit of a worker's or of the host's dispatcher leaks, and none is given back
\* twice: on every way through the dispatchers (a call refused for a full host queue,
\* answered, dropped with the connection, a dispatcher that ends while it holds a
\* permit) they add up to the configured concurrency.
THEOREM NoPermitLeaks == Spec => []PermitsConserved
<1>1. Counted => PermitsConserved
  BY DEF Counted, GuestCounted, HostCounted, PermitsConserved, Waits
<1> QED
  BY <1>1, SupervisorInvariant, PTL

\* The types; that no dispatcher has more permits than it was configured with follows
\* from the permits' balance.
THEOREM SupervisorTyped == Spec => []TypeOK
<1>1. Shaped /\ Counted => TypeOK
  <2> SUFFICES ASSUME Shaped, Counted PROVE TypeOK
    OBVIOUS
  <2>1. permits \in [GuestCalls -> Nat] /\ hostPermits \in Nat
    BY DEF Shaped
  <2>2. GuestConcurrency \in Nat /\ HostConcurrency \in Nat
    BY SupervisorAssumption
  <2>3. ASSUME NEW d \in GuestCalls PROVE permits[d] \in 0..GuestConcurrency
    <3>1. permits[d] + Cardinality(Holding(d)) + Waits(guestTask[d]) = GuestConcurrency /\ IsFiniteSet(Holding(d))
      BY DEF Counted, GuestCounted
    <3>2. Cardinality(Holding(d)) \in Nat /\ Waits(guestTask[d]) \in Nat
      BY <3>1, FS_CardinalityType DEF Waits
    <3> QED
      BY <2>1, <2>2, <3>1, <3>2
  <2>4. hostPermits \in 0..HostConcurrency
    <3>1. hostPermits + Cardinality(Handling) + Waits(hostTask) = HostConcurrency /\ IsFiniteSet(Handling)
      BY DEF Counted, HostCounted
    <3>2. Cardinality(Handling) \in Nat /\ Waits(hostTask) \in Nat
      BY <3>1, FS_CardinalityType DEF Waits
    <3> QED
      BY <2>1, <2>2, <3>1, <3>2
  <2>5. permits \in [GuestCalls -> 0..GuestConcurrency]
    BY <2>1, <2>3
  <2> QED
    BY <2>4, <2>5 DEF Shaped, TypeOK
<1> QED
  BY <1>1, SupervisorInvariant, PTL

\* A guest call is answered at most once, whoever answers it (the actor for an
\* overloaded queue, the dispatcher for a full host queue, the handler's task), and
\* not before it has left the queues.
THEOREM AnsweredAtMostOnce == Spec => []OneReply
<1>1. Shaped /\ OnSocket => OneReply
  <2> SUFFICES ASSUME Shaped, OnSocket, NEW c \in GuestCalls
               PROVE  LET n == Cardinality(Occurrences(c, requests)) + Cardinality(Occurrences(c, toDaemon))
                      IN /\ n <= 1
                         /\ place[c] \in {"guest", "wire", "queued", "refused", "host", "handler"} => n = 0
    BY DEF OneReply
  <2>1. Len(requests) \in Nat /\ Len(toDaemon) \in Nat
    BY LenProperties DEF Shaped
  <2>2. /\ Once(requests, Response(c)) /\ Once(toDaemon, Response(c))
        /\ Response(c) \in Elems(requests) => place[c] \in {"refusing", "replying"}
        /\ Response(c) \in Elems(toDaemon) => place[c] \in {"rejected", "sent", "done"}
    BY DEF OnSocket, InChannel, Written
  <2>3. /\ Cardinality(Occurrences(c, requests)) \in {0, 1} /\ Cardinality(Occurrences(c, toDaemon)) \in {0, 1}
        /\ Response(c) \notin Elems(requests) => Cardinality(Occurrences(c, requests)) = 0
        /\ Response(c) \notin Elems(toDaemon) => Cardinality(Occurrences(c, toDaemon)) = 0
    BY <2>1, <2>2, AtMostOne
  <2> QED
    BY <2>2, <2>3
<1> QED
  BY <1>1, SupervisorInvariant, PTL

-----------------------------------------------------------------------------
(* Workers that run one execution *)

\* The facade's use: a worker is made for an execution.
OneEach == \A x, y \in Execs : Owner[x] = Owner[y] => x = y

\* An execution on its way: in the actor's channel, on the socket, in its worker's
\* queue, running, its result on the socket.
Asked(e) == Execute(e) \in Elems(requests)
Sent(e) == Execute(e) \in Elems(toDaemon)
Waiting(e) == e \in Elems(waiting[Owner[e]])
Running(e) == running[Owner[e]] = e
Ended(e) == Result(e) \in Elems(toSup)
InDaemon(e) == Sent(e) \/ Waiting(e) \/ Running(e)
InFlight(e) == Asked(e) \/ InDaemon(e) \/ Ended(e)

\* It is in one of these places, once, and its caller waits while the actor runs.
Singly(e) ==
  /\ Once(requests, Execute(e)) /\ Once(toDaemon, Execute(e)) /\ Once(toSup, Result(e))
  /\ Once(waiting[Owner[e]], e)
Exclusive(e) ==
  /\ Asked(e) => ~InDaemon(e) /\ ~Ended(e)
  /\ Sent(e) => ~Waiting(e) /\ ~Running(e)
  /\ Waiting(e) => ~Running(e)
  /\ Ended(e) => ~InDaemon(e)
OnePath(e) ==
  /\ Singly(e) /\ Exclusive(e)
  /\ InFlight(e) => state[e] # "idle" /\ (up => state[e] = "asked")

\* A worker's queue and a worker hold its own executions.
Own ==
  \A w \in Workers : /\ \A i \in 1..Len(waiting[w]) : Owner[waiting[w][i]] = w
                     /\ running[w] # None => Owner[running[w]] = w

\* What a step does to an execution: it goes one place further, or stays.
Further(e) ==
  /\ Asked(e)' => Asked(e) \/ (~InFlight(e) /\ state[e] = "idle" /\ state'[e] = "asked")
  /\ Sent(e)' => Sent(e) \/ (Asked(e) /\ ~Asked(e)' /\ Owner[e] \in limits')
  /\ Waiting(e)' => Waiting(e) \/ (Sent(e) /\ ~Sent(e)')
  /\ Running(e)' => Running(e) \/ (Waiting(e) /\ ~Waiting(e)')
  /\ Ended(e)' => Ended(e) \/ (InDaemon(e) /\ ~InDaemon(e)')
  /\ state'[e] = "idle" => state[e] = "idle"
  /\ up' => up /\ (state[e] = "asked" => state'[e] = "asked" \/ (Ended(e) /\ ~Ended(e)'))

\* Queue p holds no x that q does not hold.
NoNew(q, p, x) == (Once(q, x) => Once(p, x)) /\ (x \in Elems(p) => x \in Elems(q))

\* An empty queue, one with its head taken and one that something else joined.
LEMMA NothingNew ==
  ASSUME NEW S, NEW q \in Seq(S), NEW x
  PROVE  /\ NoNew(q, q, x) /\ NoNew(q, <<>>, x)
         /\ q # <<>> => NoNew(q, Tail(q), x)
         /\ \A y \in S : y # x => NoNew(q, Append(q, y), x)
<1>1. NoNew(q, q, x) /\ NoNew(q, <<>>, x)
  BY EmptyElems, EmptySeq DEF NoNew, Once
<1>2. ASSUME q # <<>> PROVE NoNew(q, Tail(q), x)
  BY <1>2, TailRest DEF NoNew
<1>3. ASSUME NEW y \in S, y # x PROVE NoNew(q, Append(q, y), x)
  <2>1. Elems(Append(q, y)) = Elems(q) \cup {y}
    BY AppendElems
  <2>2. Once(q, x) => Once(Append(q, y), x)
    BY <1>3, AppendOnce
  <2> QED
    BY <1>3, <2>1, <2>2 DEF NoNew
<1> QED
  BY <1>1, <1>2, <1>3

\* A queue that x leaves at the head, and one that it joins.
LEMMA HandedOver ==
  ASSUME NEW S, NEW q \in Seq(S), NEW x, Once(q, x)
  PROVE  /\ q # <<>> /\ Head(q) = x => x \in Elems(q) /\ x \notin Elems(Tail(q)) /\ Once(Tail(q), x)
         /\ x \in S /\ x \notin Elems(q) => Once(Append(q, x), x) /\ x \in Elems(Append(q, x))
<1>1. ASSUME q # <<>>, Head(q) = x PROVE x \in Elems(q) /\ x \notin Elems(Tail(q)) /\ Once(Tail(q), x)
  BY <1>1, TailRest
<1>2. ASSUME x \in S, x \notin Elems(q) PROVE Once(Append(q, x), x) /\ x \in Elems(Append(q, x))
  BY <1>2, AppendOnce, AppendElems
<1> QED
  BY <1>1, <1>2

\* A step that takes an execution further keeps it on one path.
LEMMA PathKept ==
  ASSUME NEW e \in Execs, OnePath(e), Further(e), Singly(e)' PROVE OnePath(e)'
<1>1. Exclusive(e)'
  BY DEF OnePath, Exclusive, Further, InDaemon, InFlight
<1>2. InFlight(e)' => state'[e] # "idle" /\ (up' => state'[e] = "asked")
  BY <1>1 DEF OnePath, Exclusive, Further, InDaemon, InFlight
<1> QED
  BY <1>1, <1>2 DEF OnePath

\* A step that does not move an execution.
LEMMA NotMoved ==
  ASSUME NEW e \in Execs, Singly(e),
         NoNew(requests, requests', Execute(e)), NoNew(toDaemon, toDaemon', Execute(e)),
         NoNew(toSup, toSup', Result(e)),
         waiting'[Owner[e]] = waiting[Owner[e]], running'[Owner[e]] = running[Owner[e]],
         state'[e] = "idle" => state[e] = "idle",
         up' => up /\ (state[e] = "asked" => state'[e] = "asked")
  PROVE  Further(e) /\ Singly(e)'
  BY DEF Further, Singly, NoNew, Asked, Sent, Waiting, Running, Ended

\* The actor's end moves no execution.
LEMMA FurtherStopped ==
  ASSUME Shaped, NEW e \in Execs, OnePath(e), StopActor, UNCHANGED <<toSup, waiting, running>>,
         toDaemon' = toDaemon \/ toDaemon' = <<>>
  PROVE  Further(e) /\ Singly(e)'
<1>1. e \in Requests
  BY DEF Requests
<1>2. /\ NoNew(requests, requests', Execute(e)) /\ NoNew(toDaemon, toDaemon', Execute(e))
      /\ NoNew(toSup, toSup', Result(e))
  BY NothingNew DEF Shaped, StopActor
<1>3. up' = FALSE /\ state'[e] = IF state[e] = "asked" THEN "failed" ELSE state[e]
  BY <1>1 DEF StopActor
<1>4. Singly(e)
  BY DEF OnePath
<1> QED
  BY <1>2, <1>3, <1>4, NotMoved

\* Callers: an execution that is asked for was not on its way.
LEMMA FurtherCallers ==
  ASSUME Shaped, NEW e \in Execs, OnePath(e), Callers \/ \E w \in Workers : CloseWorker(w)
  PROVE  Further(e) /\ Singly(e)'
<1> USE DEF guestVars, hostVars, socketVars, daemonVars
<1>1. Singly(e)
  BY DEF OnePath
<1>2. /\ e \in Requests /\ state \in [Requests -> {"idle", "asked"} \cup Resolved] /\ requests \in Seq(DownMessages)
      /\ NoNew(requests, requests, Execute(e)) /\ NoNew(toDaemon, toDaemon, Execute(e)) /\ NoNew(toSup, toSup, Result(e))
  BY NothingNew DEF Shaped, Requests
<1>3. ASSUME NEW kind, NEW r \in Requests, Message(kind, r) \in DownMessages, Message(kind, r) # Execute(e), r # e,
             Ask(kind, r)
      PROVE  Further(e) /\ Singly(e)'
  <2>1. /\ UNCHANGED <<up, toDaemon, toSup, waiting, running>>
        /\ requests' = requests \/ requests' = Append(requests, Message(kind, r))
        /\ state'[e] = state[e]
    BY <1>2, <1>3 DEF Ask
  <2>2. NoNew(requests, requests', Execute(e))
    BY <1>2, <1>3, <2>1, NothingNew
  <2> QED
    BY <1>1, <1>2, <2>1, <2>2, NotMoved
<1>4. ASSUME NEW x \in Execs, Run(x) PROVE Further(e) /\ Singly(e)'
  <2>1. CASE x # e
    <3>1. Message("Execute", x) \in DownMessages /\ Message("Execute", x) # Execute(e) /\ x \in Requests
      BY <2>1, DownFields DEF Execute, Requests
    <3> QED
      BY <1>3, <1>4, <2>1, <3>1 DEF Run
  <2>2. CASE x = e
    <3>1. Ask("Execute", e) /\ state[e] = "idle"
      BY <1>4, <2>2 DEF Run, Ask
    <3>2. ~InFlight(e)
      BY <3>1 DEF OnePath
    <3>3. CASE up
      <4>1. /\ requests' = Append(requests, Execute(e)) /\ UNCHANGED <<up, toDaemon, toSup, waiting, running>>
            /\ state'[e] = "asked"
        BY <1>2, <3>1, <3>3 DEF Ask, Execute
      <4>2. Once(requests', Execute(e))
        BY <1>1, <1>2, <3>2, <4>1, HandedOver, DownFields DEF Singly, InFlight, Asked
      <4> QED
        BY <1>1, <3>1, <3>2, <3>3, <4>1, <4>2 DEF Singly, Further, Sent, Waiting, Running, Ended
    <3>4. CASE ~up
      <4>1. UNCHANGED <<up, requests, toDaemon, toSup, waiting, running>> /\ state'[e] = "failed"
        BY <1>2, <3>1, <3>4 DEF Ask
      <4> QED
        BY <1>1, <1>2, <3>4, <4>1, NotMoved
    <3> QED
      BY <3>3, <3>4
  <2> QED
    BY <2>1, <2>2
<1>5. ASSUME NEW k \in Calls, Call(k) PROVE Further(e) /\ Singly(e)'
  <2>1. Message("WorkerCall", k) \in DownMessages /\ k \in Requests /\ k # e
    BY DownFields, SupervisorAssumption DEF Requests
  <2>2. Message("WorkerCall", k) # Execute(e)
    BY <2>1 DEF Execute, Message
  <2> QED
    BY <1>3, <1>5, <2>1, <2>2 DEF Call
<1>6. ASSUME NEW w \in Workers, CloseWorker(w) PROVE Further(e) /\ Singly(e)'
  <2>1. Message("CloseWorker", w) \in DownMessages /\ w \in Requests /\ w # e
    BY DownFields, SupervisorAssumption DEF Requests
  <2>2. Message("CloseWorker", w) # Execute(e)
    BY <2>1 DEF Execute, Message
  <2> QED
    BY <1>3, <1>6, <2>1, <2>2 DEF CloseWorker
<1>7. ASSUME NEW k \in Calls, CallTooEarly(k) PROVE Further(e) /\ Singly(e)'
  <2>1. UNCHANGED <<up, requests, toDaemon, toSup, waiting, running>> /\ state'[e] = state[e]
    BY <1>2, <1>7, SupervisorAssumption DEF CallTooEarly
  <2> QED
    BY <1>1, <1>2, <2>1, NotMoved
<1>8. CASE Terminate
  BY <1>8, FurtherStopped DEF Terminate
<1> QED
  BY <1>4, <1>5, <1>6, <1>7, <1>8 DEF Callers

\* The actor: an execution is written to the socket, its result is taken from it.
LEMMA FurtherActor ==
  ASSUME Shaped, NEW e \in Execs, OnePath(e), Actor PROVE Further(e) /\ Singly(e)'
<1> USE DEF guestVars, hostVars, socketVars, daemonVars
<1>1. Singly(e)
  BY DEF OnePath
<1>2. /\ e \in Requests /\ state \in [Requests -> {"idle", "asked"} \cup Resolved] /\ requests \in Seq(DownMessages)
      /\ toDaemon \in Seq(DownMessages) /\ toSup \in Seq(UpMessages)
      /\ NoNew(requests, requests, Execute(e)) /\ NoNew(toDaemon, toDaemon, Execute(e)) /\ NoNew(toSup, toSup, Result(e))
  BY NothingNew DEF Shaped, Requests
<1>3. CASE TakeRequest
  <2>1. CASE lost
    BY <1>3, <2>1, FurtherStopped DEF TakeRequest
  <2>2. CASE ~lost
    <3>1. PICK m \in DownMessages : m = Head(requests)
      BY <1>2, <1>3, HeadTail DEF TakeRequest
    <3>2. /\ requests # <<>> /\ requests' = Tail(requests) /\ toDaemon' = Append(toDaemon, m)
          /\ limits' = Registered(m) /\ UNCHANGED <<state, up, toSup, waiting, running>>
      BY <1>3, <2>2, <3>1 DEF TakeRequest
    <3>3. CASE m # Execute(e)
      <4>1. NoNew(requests, requests', Execute(e)) /\ NoNew(toDaemon, toDaemon', Execute(e))
        BY <1>2, <3>2, <3>3, NothingNew
      <4> QED
        BY <1>1, <1>2, <3>2, <4>1, NotMoved
    <3>4. CASE m = Execute(e)
      <4>1. Asked(e) /\ ~Asked(e)' /\ Once(requests', Execute(e))
        BY <1>1, <1>2, <3>1, <3>2, <3>4, HandedOver DEF Singly, Asked
      <4>2. Once(toDaemon', Execute(e))
        BY <1>1, <1>2, <3>2, <3>4, <4>1, HandedOver DEF Singly, OnePath, Exclusive, InDaemon, Sent
      <4>3. Owner[e] \in limits'
        BY <3>2, <3>4, DownFields DEF Registered
      <4> QED
        BY <1>1, <3>2, <4>1, <4>2, <4>3 DEF Singly, Further, Waiting, Running, Ended
    <3> QED
      BY <3>3, <3>4
  <2> QED
    BY <2>1, <2>2
<1>4. ASSUME toSup # <<>>, toSup' = Tail(toSup), UNCHANGED <<requests, up, waiting, running>>,
             state'[e] = state[e], NoNew(toDaemon, toDaemon', Execute(e))
      PROVE  Further(e) /\ Singly(e)'
  <2>1. NoNew(toSup, toSup', Result(e))
    BY <1>2, <1>4, NothingNew
  <2> QED
    BY <1>1, <1>2, <1>4, <2>1, NotMoved
<1>5. CASE TakeStarted
  BY <1>2, <1>4, <1>5 DEF TakeStarted, Incoming
<1>6. CASE TakeGuestCall
  <2>1. PICK m \in UpMessages : m = Head(toSup) /\ m.kind = "GuestCall"
    BY <1>2, <1>6, HeadTail DEF TakeGuestCall, Incoming
  <2>2. PICK c \in GuestCalls : c = m.id
    BY <2>1, UpFields
  <2>3. /\ toSup # <<>> /\ toSup' = Tail(toSup) /\ UNCHANGED <<waiting, running>>
        /\ \/ UNCHANGED <<toDaemon, state, requests, up>>
           \/ \E d : Overload(c, d)
    BY <1>6, <2>1, <2>2 DEF TakeGuestCall, Incoming
  <2>4. CASE UNCHANGED <<toDaemon, state, requests, up>>
    BY <1>2, <1>4, <2>3, <2>4
  <2>5. CASE lost /\ \E d : Overload(c, d)
    <3>1. StopActor /\ UNCHANGED toDaemon
      BY <2>5 DEF Overload
    <3>2. /\ NoNew(requests, requests', Execute(e)) /\ NoNew(toSup, toSup', Result(e))
      BY <1>2, <2>3, <3>1, NothingNew DEF StopActor
    <3>3. up' = FALSE /\ state'[e] = IF state[e] = "asked" THEN "failed" ELSE state[e]
      BY <1>2, <3>1 DEF StopActor
    <3> QED
      BY <1>1, <1>2, <2>3, <3>1, <3>2, <3>3, NotMoved
  <2>6. CASE ~lost /\ \E d : Overload(c, d)
    <3>1. toDaemon' = Append(toDaemon, Response(c)) /\ UNCHANGED <<state, requests, up>>
      BY <2>6 DEF Overload, Response
    <3>2. Response(c) \in DownMessages /\ Response(c) # Execute(e)
      BY DownFields
    <3>3. NoNew(toDaemon, toDaemon', Execute(e))
      BY <1>2, <3>1, <3>2, NothingNew
    <3> QED
      BY <1>4, <2>3, <3>1, <3>3
  <2> QED
    BY <2>3, <2>4, <2>5, <2>6
<1>7. ASSUME NEW r, NEW outcome, NEW w, r # e, Deliver(r, outcome, StoppedCalls(w)) \/ Deliver(r, outcome, {})
      PROVE  state'[e] = state[e]
  <2>1. e \notin StoppedCalls(w)
    BY SupervisorAssumption DEF StoppedCalls
  <2> QED
    BY <1>2, <1>7, <2>1 DEF Deliver
<1>8. CASE TakeResult
  <2>1. PICK m \in UpMessages : m = Head(toSup) /\ m.kind = "Result"
    BY <1>2, <1>8, HeadTail DEF TakeResult, Incoming
  <2>2. PICK x \in Execs : x = m.id /\ m = Result(x)
    BY <2>1, UpFields
  <2>3. /\ up /\ toSup # <<>> /\ toSup' = Tail(toSup) /\ UNCHANGED <<requests, up, toDaemon, waiting, running>>
        /\ Deliver(x, "answered", StoppedCalls(Owner[x]))
    BY <1>8, <2>1, <2>2 DEF TakeResult, Incoming
  <2>4. CASE x # e
    BY <1>2, <1>4, <1>7, <2>3, <2>4
  <2>5. CASE x = e
    <3>1. Ended(e) /\ ~Ended(e)' /\ Once(toSup', Result(e))
      BY <1>1, <1>2, <2>1, <2>2, <2>3, <2>5, HandedOver DEF Singly, Ended
    <3>2. state'[e] = "idle" => state[e] = "idle"
      <4>1. state'[e] \in {"stopped", "answered", state[e]}
        BY <1>2, <2>3, <2>5 DEF Deliver
      <4> QED
        BY <4>1
    <3> QED
      BY <1>1, <2>3, <3>1, <3>2 DEF Singly, Further, Asked, Sent, Waiting, Running
  <2> QED
    BY <2>4, <2>5
<1>9. CASE TakeClosed
  <2>1. PICK m \in UpMessages : m = Head(toSup) /\ m.kind = "Closed"
    BY <1>2, <1>9, HeadTail DEF TakeClosed, Incoming
  <2>2. PICK w \in Workers : w = m.id /\ w # e
    BY <2>1, UpFields, SupervisorAssumption
  <2>3. /\ toSup # <<>> /\ toSup' = Tail(toSup) /\ UNCHANGED <<requests, up, toDaemon, waiting, running>>
        /\ Deliver(w, "answered", StoppedCalls(w))
    BY <1>9, <2>1, <2>2 DEF TakeClosed, Incoming
  <2> QED
    BY <1>2, <1>4, <1>7, <2>2, <2>3
<1>10. CASE TakeAnswer
  <2>1. PICK m \in UpMessages : m = Head(toSup) /\ m.kind \in {"WorkerResponse", "NotClosed"}
    BY <1>2, <1>10, HeadTail DEF TakeAnswer, Incoming
  <2>2. m.id # e
    BY <2>1, UpFields, SupervisorAssumption
  <2>3. /\ toSup # <<>> /\ toSup' = Tail(toSup) /\ UNCHANGED <<requests, up, toDaemon, waiting, running>>
        /\ Deliver(m.id, "failed", {}) \/ Deliver(m.id, "answered", {})
    BY <1>10, <2>1 DEF TakeAnswer, Incoming
  <2> QED
    BY <1>2, <1>4, <1>7, <2>2, <2>3
<1>11. CASE ConnectionEnds
  BY <1>11, FurtherStopped DEF ConnectionEnds
<1> QED
  BY <1>3, <1>5, <1>6, <1>8, <1>9, <1>10, <1>11 DEF Actor

\* The dispatchers only send answers.
LEMMA FurtherDispatch ==
  ASSUME Shaped, NEW e \in Execs, OnePath(e),
         HostDispatcher \/ \E c \in GuestCalls : GuestDispatcher(c) \/ Handler(c)
  PROVE  Further(e) /\ Singly(e)'
<1>1. /\ UNCHANGED <<state, up, toDaemon, toSup, waiting, running>>
      /\ requests' = requests \/ \E c \in GuestCalls : requests' = Append(requests, Response(c))
  BY DEF HostDispatcher, GuestDispatcher, Handler, HostAcquire, HostRecv, GuestAcquire, GuestRecv, GuestEnds,
         GuestRefuse, GuestRefused, HandlerReturns, HandlerEnds, Response, requestVars, socketVars, daemonVars
<1>2. /\ requests \in Seq(DownMessages) /\ NoNew(requests, requests, Execute(e))
      /\ NoNew(toDaemon, toDaemon, Execute(e)) /\ NoNew(toSup, toSup, Result(e))
  BY NothingNew DEF Shaped
<1>3. \A c \in GuestCalls : Response(c) \in DownMessages /\ Response(c) # Execute(e)
  BY DownFields
<1>4. NoNew(requests, requests', Execute(e))
  BY <1>1, <1>2, <1>3, NothingNew
<1> QED
  BY <1>1, <1>2, <1>4, NotMoved DEF OnePath

\* The daemon: an execution is queued, starts and ends, or is refused.
LEMMA FurtherDaemon ==
  ASSUME Shaped, OneEach, Own, NEW e \in Execs, OnePath(e), Daemon PROVE Further(e) /\ Singly(e)'
<1> USE DEF requestVars, guestVars, hostVars, socketVars, daemonVars
<1>1. Singly(e)
  BY DEF OnePath
<1>2. /\ toDaemon \in Seq(DownMessages) /\ toSup \in Seq(UpMessages) /\ Owner[e] \in Workers
      /\ waiting \in [Workers -> Seq(Execs)] /\ running \in [Workers -> Execs \cup {None}] /\ None \notin Execs
      /\ NoNew(requests, requests, Execute(e)) /\ NoNew(toDaemon, toDaemon, Execute(e)) /\ NoNew(toSup, toSup, Result(e))
      /\ waiting[Owner[e]] \in Seq(Execs)
  BY NothingNew, WorkerOfType, SupervisorAssumption DEF Shaped, Requests
<1>3. ASSUME NEW m \in UpMessages, m # Result(e), Reply(<<m>>) PROVE NoNew(toSup, toSup', Result(e))
  BY <1>2, <1>3, ReplyAppends, NothingNew
<1>4. ASSUME Reply(<<Result(e)>>), ~Ended(e) PROVE Once(toSup', Result(e)) /\ Ended(e)'
  <2>1. Result(e) \in UpMessages
    BY UpFields
  <2>2. toSup' = Append(toSup, Result(e))
    BY <1>2, <1>4, <2>1, ReplyAppends
  <2> QED
    BY <1>1, <1>2, <1>4, <2>1, <2>2, HandedOver DEF Singly, Ended
<1>5. \A x \in Execs : x # e => Result(x) \in UpMessages /\ Result(x) # Result(e)
  BY UpFields
<1>6. CASE DaemonReads
  <2>1. PICK m \in DownMessages : m = Head(toDaemon)
    BY <1>2, <1>6, HeadTail DEF DaemonReads
  <2>2. toDaemon # <<>> /\ toDaemon' = Tail(toDaemon) /\ UNCHANGED <<state, up, requests, running>>
    BY <1>6 DEF DaemonReads
  <2>3. NoNew(toDaemon, toDaemon', Execute(e))
    BY <1>2, <2>2, NothingNew
  <2>4. ASSUME NoNew(toSup, toSup', Result(e)), waiting'[Owner[e]] = waiting[Owner[e]]
        PROVE  Further(e) /\ Singly(e)'
    BY <1>1, <1>2, <2>2, <2>3, <2>4, NotMoved
  <2>5. CASE m.kind = "Execute"
    <3>1. PICK x \in Execs : x = m.id /\ m = Execute(x)
      BY <2>1, <2>5, DownFields
    <3>2. WorkerOf(m.id) = Owner[x] /\ Owner[x] \in Workers
      BY <3>1, WorkerOfType
    <3>3. \/ waiting' = [waiting EXCEPT ![Owner[x]] = Append(waiting[Owner[x]], x)] /\ UNCHANGED toSup
          \/ Reply(<<Result(x)>>) /\ UNCHANGED waiting
      BY <1>6, <2>1, <2>5, <3>1, <3>2 DEF DaemonReads, Result
    <3>4. CASE x # e
      <4>1. Owner[x] # Owner[e]
        BY <3>4 DEF OneEach
      <4>2. waiting'[Owner[e]] = waiting[Owner[e]]
        BY <1>2, <3>3, <4>1
      <4>3. NoNew(toSup, toSup', Result(e))
        BY <1>2, <1>3, <1>5, <3>3, <3>4
      <4> QED
        BY <2>4, <4>2, <4>3
    <3>5. CASE x = e
      <4>1. Sent(e) /\ ~Sent(e)' /\ Once(toDaemon', Execute(e))
        BY <1>1, <1>2, <2>1, <2>2, <3>1, <3>5, HandedOver DEF Singly, Sent
      <4>2. ~Waiting(e) /\ ~Running(e) /\ ~Ended(e) /\ ~Asked(e)
        BY <4>1 DEF OnePath, Exclusive, InDaemon
      <4>3. ~Running(e)' /\ ~Asked(e)'
        BY <2>2, <4>2 DEF Running, Asked
      <4>4. CASE waiting' = [waiting EXCEPT ![Owner[x]] = Append(waiting[Owner[x]], x)] /\ UNCHANGED toSup
        <5>1. waiting'[Owner[e]] = Append(waiting[Owner[e]], e)
          BY <1>2, <3>5, <4>4
        <5>2. Once(waiting'[Owner[e]], e)
          BY <1>1, <1>2, <4>2, <5>1, HandedOver DEF Singly, Waiting
        <5>3. ~Ended(e)'
          BY <4>2, <4>4 DEF Ended
        <5>4. Singly(e)'
          BY <1>1, <2>2, <4>1, <4>4, <5>2 DEF Singly
        <5> QED
          BY <2>2, <4>1, <4>3, <5>3, <5>4 DEF Further
      <4>5. CASE Reply(<<Result(x)>>) /\ UNCHANGED waiting
        <5>1. Once(toSup', Result(e)) /\ ~Waiting(e)'
          BY <1>4, <3>5, <4>2, <4>5 DEF Waiting
        <5>2. Singly(e)'
          BY <1>1, <2>2, <4>1, <4>5, <5>1 DEF Singly
        <5> QED
          BY <2>2, <4>1, <4>3, <5>1, <5>2 DEF Further, InDaemon
      <4> QED
        BY <3>3, <4>4, <4>5
    <3> QED
      BY <3>4, <3>5
  <2>6. CASE m.kind = "WorkerCall"
    <3>1. m.id \in Calls /\ UNCHANGED waiting /\ (UNCHANGED toSup \/ Reply(<<Message("WorkerResponse", m.id)>>))
      BY <1>6, <2>1, <2>6, DownFields DEF DaemonReads
    <3>2. Message("WorkerResponse", m.id) \in UpMessages /\ Message("WorkerResponse", m.id) # Result(e)
      BY <3>1, UpFields
    <3> QED
      BY <1>2, <1>3, <2>4, <3>1, <3>2
  <2>7. CASE m.kind = "CloseWorker"
    <3>1. PICK w \in Workers : w = WorkerOf(m.id)
      BY <2>1, <2>7, DownFields, WorkerOfType
    <3>2. UNCHANGED waiting /\ \E x \in {"Closed", "NotClosed"} : Reply(<<Message(x, w)>>)
      BY <1>6, <2>1, <2>7, <3>1 DEF DaemonReads
    <3>3. \A x \in {"Closed", "NotClosed"} : Message(x, w) \in UpMessages /\ Message(x, w) # Result(e)
      BY UpFields
    <3> QED
      BY <1>3, <2>4, <3>2, <3>3
  <2>8. CASE m.kind = "Response"
    <3>1. UNCHANGED <<waiting, toSup>>
      BY <1>6, <2>1, <2>8 DEF DaemonReads
    <3> QED
      BY <1>2, <2>4, <3>1
  <2> QED
    BY <2>1, <2>5, <2>6, <2>7, <2>8, DownFields
<1>7. CASE DaemonDies
  <2>1. toDaemon' = <<>> /\ UNCHANGED <<state, up, requests, toSup, waiting, running>>
    BY <1>7 DEF DaemonDies
  <2>2. NoNew(toDaemon, toDaemon', Execute(e))
    BY <1>2, <2>1, NothingNew
  <2> QED
    BY <1>1, <1>2, <2>1, <2>2, NotMoved
<1>8. ASSUME NEW w \in Workers, DaemonStarts(w) PROVE Further(e) /\ Singly(e)'
  <2>1. PICK x \in Execs : x = Head(waiting[w]) /\ Owner[x] = w
    <3>1. /\ Head(waiting[w]) \in Execs /\ Head(waiting[w]) = waiting[w][1] /\ 1 \in 1..Len(waiting[w])
      <4>1. waiting[w] \in Seq(Execs) /\ waiting[w] # <<>>
        BY <1>2, <1>8 DEF DaemonStarts
      <4>2. Len(waiting[w]) \in Nat /\ Len(waiting[w]) # 0
        BY <4>1, EmptySeq, LenProperties
      <4> QED
        BY <4>1, <4>2, HeadTailProperties
    <3> QED
      BY <3>1 DEF Own
  <2>2. /\ waiting[w] # <<>> /\ running[w] = None /\ waiting' = [waiting EXCEPT ![w] = Tail(waiting[w])]
        /\ \/ running' = [running EXCEPT ![w] = x] /\ Reply(<<Message("Started", x)>>)
           \/ Reply(<<Result(x)>>) /\ UNCHANGED running
        /\ UNCHANGED <<state, up, requests, toDaemon>>
    BY <1>8, <2>1 DEF DaemonStarts, Result
  <2>3. Message("Started", x) \in UpMessages /\ Message("Started", x) # Result(e)
    BY UpFields
  <2>4. CASE x # e
    <3>1. w # Owner[e]
      BY <2>1, <2>4 DEF OneEach
    <3>2. waiting'[Owner[e]] = waiting[Owner[e]] /\ running'[Owner[e]] = running[Owner[e]]
      BY <1>2, <2>2, <3>1
    <3>3. NoNew(toSup, toSup', Result(e))
      BY <1>3, <1>5, <2>2, <2>3, <2>4
    <3> QED
      BY <1>1, <1>2, <2>2, <3>2, <3>3, NotMoved
  <2>5. CASE x = e
    <3>1. waiting'[Owner[e]] = Tail(waiting[Owner[e]])
      BY <1>2, <2>1, <2>2, <2>5
    <3>2. Waiting(e) /\ ~Waiting(e)' /\ Once(waiting'[Owner[e]], e)
      BY <1>1, <1>2, <2>1, <2>2, <2>5, <3>1, HandedOver DEF Singly, Waiting
    <3>3. ~Sent(e) /\ ~Running(e) /\ ~Ended(e) /\ ~Asked(e)
      BY <3>2 DEF OnePath, Exclusive, InDaemon
    <3>4. ~Sent(e)' /\ ~Asked(e)'
      BY <2>2, <3>3 DEF Sent, Asked
    <3>5. CASE running' = [running EXCEPT ![w] = x] /\ Reply(<<Message("Started", x)>>)
      <4>1. NoNew(toSup, toSup', Result(e))
        BY <1>3, <2>3, <3>5
      <4>2. ~Ended(e)' /\ Singly(e)'
        BY <1>1, <2>2, <3>2, <3>3, <4>1 DEF Singly, NoNew, Ended
      <4> QED
        BY <2>2, <3>2, <3>4, <4>2 DEF Further
    <3>6. CASE Reply(<<Result(x)>>) /\ UNCHANGED running
      <4>1. Once(toSup', Result(e)) /\ ~Running(e)'
        BY <1>4, <2>5, <3>3, <3>6 DEF Running
      <4>2. Singly(e)'
        BY <1>1, <2>2, <3>2, <4>1 DEF Singly
      <4> QED
        BY <2>2, <3>2, <3>4, <4>1, <4>2 DEF Further, InDaemon
    <3> QED
      BY <2>2, <3>5, <3>6
  <2> QED
    BY <2>4, <2>5
<1>9. ASSUME NEW w \in Workers, DaemonFinishes(w) PROVE Further(e) /\ Singly(e)'
  <2>1. PICK x \in Execs : x = running[w] /\ Owner[x] = w
    BY <1>2, <1>9 DEF DaemonFinishes, Own
  <2>2. /\ running' = [running EXCEPT ![w] = None] /\ Reply(<<Result(x)>>)
        /\ UNCHANGED <<state, up, requests, toDaemon, waiting>>
    BY <1>9, <2>1 DEF DaemonFinishes, Result
  <2>3. CASE x # e
    <3>1. w # Owner[e]
      BY <2>1, <2>3 DEF OneEach
    <3>2. running'[Owner[e]] = running[Owner[e]] /\ NoNew(toSup, toSup', Result(e))
      BY <1>2, <1>3, <1>5, <2>2, <2>3, <3>1
    <3> QED
      BY <1>1, <1>2, <2>2, <3>2, NotMoved
  <2>4. CASE x = e
    <3>1. Running(e) /\ ~Running(e)'
      BY <1>2, <2>1, <2>2, <2>4 DEF Running
    <3>2. ~Sent(e) /\ ~Waiting(e) /\ ~Ended(e) /\ ~Asked(e)
      BY <3>1 DEF OnePath, Exclusive, InDaemon
    <3>3. ~Sent(e)' /\ ~Asked(e)' /\ ~Waiting(e)' /\ Once(toSup', Result(e))
      BY <1>4, <2>2, <2>4, <3>2 DEF Sent, Asked, Waiting
    <3>4. Singly(e)'
      BY <1>1, <2>2, <3>3 DEF Singly
    <3> QED
      BY <2>2, <3>1, <3>3, <3>4 DEF Further, InDaemon
  <2> QED
    BY <2>3, <2>4
<1>10. ASSUME NEW c \in GuestCalls, GuestAsks(c) PROVE Further(e) /\ Singly(e)'
  <2>1. Reply(<<GuestCall(c)>>) /\ UNCHANGED <<state, up, requests, toDaemon, waiting, running>>
    BY <1>10 DEF GuestAsks, GuestCall
  <2>2. NoNew(toSup, toSup', Result(e))
    BY <1>3, <2>1, UpFields
  <2> QED
    BY <1>1, <1>2, <2>1, <2>2, NotMoved
<1>11. ASSUME NEW k \in Calls, GuestAnswers(k) PROVE Further(e) /\ Singly(e)'
  <2>1. Reply(<<Message("WorkerResponse", k)>>) /\ UNCHANGED <<state, up, requests, toDaemon, waiting, running>>
    BY <1>11 DEF GuestAnswers
  <2>2. NoNew(toSup, toSup', Result(e))
    BY <1>3, <2>1, UpFields
  <2> QED
    BY <1>1, <1>2, <2>1, <2>2, NotMoved
<1> QED
  BY <1>6, <1>7, <1>8, <1>9, <1>10, <1>11 DEF Daemon

\* Every step takes an execution one place further at most.
LEMMA FurtherStep ==
  ASSUME Shaped, OneEach, Own, NEW e \in Execs, OnePath(e), [Next]_vars PROVE Further(e) /\ OnePath(e)'
<1>1. CASE Next
  BY <1>1, FurtherCallers, FurtherActor, FurtherDispatch, FurtherDaemon, PathKept DEF Next
<1>2. CASE UNCHANGED vars
  <2>1. UNCHANGED <<state, up, requests, toDaemon, toSup, waiting, running>>
    BY <1>2 DEF vars, requestVars, socketVars, daemonVars
  <2>2. /\ NoNew(requests, requests, Execute(e)) /\ NoNew(toDaemon, toDaemon, Execute(e))
        /\ NoNew(toSup, toSup, Result(e))
    BY NothingNew DEF Shaped
  <2> QED
    BY <2>1, <2>2, NotMoved, PathKept DEF OnePath
<1> QED
  BY <1>1, <1>2

\* Executions stay with their worker.
LEMMA OwnStep ==
  ASSUME Shaped, Own, [Next]_vars PROVE Own'
<1> USE DEF requestVars, guestVars, hostVars, socketVars, daemonVars
<1>1. ASSUME UNCHANGED <<waiting, running>> PROVE Own'
  BY <1>1 DEF Own
<1>2. waiting \in [Workers -> Seq(Execs)] /\ running \in [Workers -> Execs \cup {None}] /\ None \notin Execs
  BY SupervisorAssumption DEF Shaped, Requests
<1>3. CASE DaemonReads
  <2>1. PICK m \in DownMessages : m = Head(toDaemon)
    BY <1>3, HeadTail DEF Shaped, DaemonReads
  <2>2. CASE UNCHANGED waiting
    BY <1>1, <1>3, <2>2 DEF DaemonReads
  <2>3. CASE m.kind = "Execute" /\ ~UNCHANGED waiting
    <3>1. PICK x \in Execs : x = m.id /\ WorkerOf(x) = Owner[x] /\ Owner[x] \in Workers
      BY <2>1, <2>3, DownFields, WorkerOfType
    <3>2. waiting' = [waiting EXCEPT ![Owner[x]] = Append(waiting[Owner[x]], x)] /\ UNCHANGED running
      BY <1>3, <2>1, <2>3, <3>1 DEF DaemonReads
    <3>3. ASSUME NEW w \in Workers, NEW i \in 1..Len(waiting'[w]) PROVE Owner[waiting'[w][i]] = w
      <4>1. CASE w # Owner[x]
        <5>1. waiting'[w] = waiting[w]
          BY <1>2, <3>1, <3>2, <4>1
        <5> QED
          BY <3>3, <5>1 DEF Own
      <4>2. CASE w = Owner[x]
        <5>1. waiting'[w] = Append(waiting[w], x) /\ waiting[w] \in Seq(Execs)
          BY <1>2, <3>1, <3>2, <4>2
        <5>2. /\ Len(Append(waiting[w], x)) = Len(waiting[w]) + 1 /\ Len(waiting[w]) \in Nat
              /\ Append(waiting[w], x)[Len(waiting[w]) + 1] = x
              /\ \A j \in 1..Len(waiting[w]) : Append(waiting[w], x)[j] = waiting[w][j]
          BY <5>1, AppendProperties, LenProperties
        <5>3. i \in 1..Len(waiting[w]) \/ i = Len(waiting[w]) + 1
          BY <3>3, <5>1, <5>2
        <5> QED
          BY <4>2, <5>1, <5>2, <5>3 DEF Own
      <4> QED
        BY <4>1, <4>2
    <3> QED
      BY <3>2, <3>3 DEF Own
  <2> QED
    BY <1>3, <2>1, <2>2, <2>3, DownFields DEF DaemonReads
<1>4. ASSUME NEW w \in Workers, DaemonStarts(w) PROVE Own'
  <2>1. waiting[w] \in Seq(Execs) /\ waiting[w] # <<>>
    BY <1>2, <1>4 DEF DaemonStarts
  <2>2. /\ Len(Tail(waiting[w])) = Len(waiting[w]) - 1 /\ Len(waiting[w]) \in Nat /\ Len(waiting[w]) # 0
        /\ Head(waiting[w]) = waiting[w][1] /\ Head(waiting[w]) \in Execs
        /\ \A i \in 1..Len(Tail(waiting[w])) : Tail(waiting[w])[i] = waiting[w][i + 1]
    BY <2>1, HeadTailProperties, EmptySeq, LenProperties
  <2>3. 1 \in 1..Len(waiting[w]) /\ \A i \in 1..Len(Tail(waiting[w])) : i + 1 \in 1..Len(waiting[w])
    BY <2>2
  <2>4. /\ waiting' = [waiting EXCEPT ![w] = Tail(waiting[w])]
        /\ running' = running \/ running' = [running EXCEPT ![w] = Head(waiting[w])]
    BY <1>4 DEF DaemonStarts
  <2>5. Owner[Head(waiting[w])] = w /\ \A i \in 1..Len(Tail(waiting[w])) : Owner[Tail(waiting[w])[i]] = w
    BY <2>2, <2>3 DEF Own
  <2>6. \A v \in Workers : \A i \in 1..Len(waiting'[v]) : Owner[waiting'[v][i]] = v
    <3> SUFFICES ASSUME NEW v \in Workers, NEW i \in 1..Len(waiting'[v]) PROVE Owner[waiting'[v][i]] = v
      OBVIOUS
    <3>1. CASE v = w
      <4>1. waiting'[v] = Tail(waiting[w])
        BY <1>2, <2>4, <3>1
      <4> QED
        BY <2>5, <3>1, <4>1
    <3>2. CASE v # w
      <4>1. waiting'[v] = waiting[v]
        BY <1>2, <2>4, <3>2
      <4> QED
        BY <4>1 DEF Own
    <3> QED
      BY <3>1, <3>2
  <2>7. \A v \in Workers : running'[v] # None => Owner[running'[v]] = v
    BY <1>2, <2>4, <2>5 DEF Own
  <2> QED
    BY <2>6, <2>7 DEF Own
<1>5. ASSUME NEW w \in Workers, DaemonFinishes(w) PROVE Own'
  <2>1. running' = [running EXCEPT ![w] = None] /\ UNCHANGED waiting
    BY <1>5 DEF DaemonFinishes
  <2>2. \A v \in Workers : running'[v] # None => running'[v] = running[v]
    BY <1>2, <2>1
  <2> QED
    BY <2>1, <2>2 DEF Own
<1>6. CASE Callers \/ Actor \/ (\E w \in Workers : CloseWorker(w)) \/ UNCHANGED vars
  BY <1>1, <1>6 DEF Callers, Run, Call, CallTooEarly, CloseWorker, Ask, Terminate, Actor, TakeRequest, TakeStarted,
     TakeGuestCall, TakeResult, TakeClosed, TakeAnswer, ConnectionEnds, vars
<1>7. CASE HostDispatcher \/ \E c \in GuestCalls : GuestDispatcher(c) \/ Handler(c)
  BY <1>1, <1>7 DEF HostDispatcher, GuestDispatcher, Handler, HostAcquire, HostRecv, GuestAcquire, GuestRecv,
     GuestEnds, GuestRefuse, GuestRefused, HandlerReturns, HandlerEnds
<1>8. CASE DaemonDies \/ (\E c \in GuestCalls : GuestAsks(c)) \/ \E k \in Calls : GuestAnswers(k)
  BY <1>1, <1>8 DEF DaemonDies, GuestAsks, GuestAnswers
<1> QED
  BY <1>3, <1>4, <1>5, <1>6, <1>7, <1>8 DEF Next, Daemon

\* A worker is closed only when it was asked for.  The request is in the channel once,
\* and then neither on the socket nor answered.
Close(w) == Message("CloseWorker", w)
CloseAnswers(w) == {Message("Closed", w), Message("NotClosed", w)}
CloseKnown(w) ==
  /\ Close(w) \in Elems(requests) \cup Elems(toDaemon) => state[w] # "idle"
  /\ \A m \in CloseAnswers(w) : m \in Elems(toSup) => state[w] # "idle"
  /\ Once(requests, Close(w))
  /\ Close(w) \in Elems(requests) =>
       Close(w) \notin Elems(toDaemon) /\ \A m \in CloseAnswers(w) : m \notin Elems(toSup)

\* As long as the caller of a close waits, so does the actor, or has it before it.
CloseAwaited(w) == up /\ state[w] = "asked" => Close(w) \in Elems(requests) \/ w \in pending

\* Close messages among the others.
LEMMA CloseFields ==
  ASSUME NEW w \in Workers
  PROVE  /\ Close(w) \in DownMessages
         /\ \A e \in Execs : Execute(e) # Close(w)
         /\ \A k \in Calls : Message("WorkerCall", k) # Close(w)
         /\ \A v \in Workers : Message("CloseWorker", v) = Close(w) => v = w
         /\ \A c \in GuestCalls : Response(c) # Close(w)
         /\ \A m \in DownMessages : m = Close(w) => m.kind = "CloseWorker" /\ m.id = w
         /\ \A m \in CloseAnswers(w) : m.kind \in {"Closed", "NotClosed"} /\ m.id = w
<1>1. \A k, x : Message(k, x).kind = k /\ Message(k, x).id = x
  BY DEF Message
<1> QED
  BY <1>1, DownFields DEF Close, CloseAnswers, Execute, Response

\* What a step does to the state of requests when the actor delivers an answer.
LEMMA DeliveredState ==
  ASSUME Shaped, NEW r, NEW outcome \in Resolved, NEW v, Deliver(r, outcome, StoppedCalls(v)) \/ Deliver(r, outcome, {})
  PROVE  /\ \A q \in Requests \ Calls : q # r => state'[q] = state[q]
         /\ \A q \in Requests : state'[q] \in Resolved \/ state'[q] = state[q]
         /\ \A q \in Requests \ Calls : q \in pending \ pending' => state'[q] \in Resolved
         /\ r \in Requests \ Calls /\ r \in pending => state'[r] \in Resolved
<1>1. StoppedCalls(v) \subseteq Calls
  BY DEF StoppedCalls
<1>2. "stopped" \in Resolved
  BY DEF Resolved
<1> QED
  BY <1>1, <1>2 DEF Deliver

\* Callers.
LEMMA ClosingCallers ==
  ASSUME Shaped, NEW w \in Workers, CloseKnown(w), CloseAwaited(w), Callers \/ \E v \in Workers : CloseWorker(v)
  PROVE  CloseKnown(w)' /\ CloseAwaited(w)'
<1> USE DEF guestVars, hostVars, socketVars, daemonVars
<1>1. /\ state \in [Requests -> {"idle", "asked"} \cup Resolved] /\ requests \in Seq(DownMessages)
      /\ w \in Requests /\ Execs \subseteq Requests /\ Calls \subseteq Requests /\ w \notin Execs \cup Calls
  BY SupervisorAssumption DEF Shaped, Requests
<1>2. ASSUME NEW kind, NEW r \in Requests, Ask(kind, r), Message(kind, r) \in DownMessages,
             Message(kind, r) = Close(w) <=> r = w
      PROVE  CloseKnown(w)' /\ CloseAwaited(w)'
  <2>1. /\ UNCHANGED <<up, pending, toDaemon, toSup>> /\ state[r] = "idle"
        /\ \/ requests' = requests /\ state' = [state EXCEPT ![r] = "failed"] /\ ~up
           \/ requests' = Append(requests, Message(kind, r)) /\ state' = [state EXCEPT ![r] = "asked"]
    BY <1>2 DEF Ask
  <2>2. state'[r] # "idle" /\ \A q \in Requests : q # r => state'[q] = state[q]
    BY <1>1, <2>1
  <2>3. Elems(Append(requests, Message(kind, r))) = Elems(requests) \cup {Message(kind, r)}
    BY <1>1, <1>2, AppendElems
  <2>4. Close(w) \in Elems(requests') => Close(w) \in Elems(requests) \/ r = w
    BY <1>2, <2>1, <2>3
  <2>5. Once(requests', Close(w))
    <3>1. Once(requests, Close(w)) /\ (r = w => Close(w) \notin Elems(requests))
      BY <2>1 DEF CloseKnown
    <3>2. Once(Append(requests, Message(kind, r)), Close(w))
      BY <1>1, <1>2, <3>1, AppendOnce
    <3> QED
      BY <2>1, <3>1, <3>2
  <2>6. CloseKnown(w)'
    BY <1>1, <2>1, <2>2, <2>4, <2>5 DEF CloseKnown
  <2>7. CloseAwaited(w)'
    BY <1>1, <1>2, <2>1, <2>2, <2>3 DEF CloseAwaited
  <2> QED
    BY <2>6, <2>7
<1>3. ASSUME NEW e \in Execs, Run(e) PROVE CloseKnown(w)' /\ CloseAwaited(w)'
  <2>1. Ask("Execute", e)
    BY <1>3 DEF Run
  <2>2. Message("Execute", e) \in DownMessages /\ Message("Execute", e) # Close(w) /\ e \in Requests /\ e # w
    BY <1>1, DownFields, CloseFields DEF Execute
  <2> QED
    BY <1>2, <2>1, <2>2
<1>4. ASSUME NEW k \in Calls, Call(k) PROVE CloseKnown(w)' /\ CloseAwaited(w)'
  <2>1. Ask("WorkerCall", k) /\ Message("WorkerCall", k) \in DownMessages /\ Message("WorkerCall", k) # Close(w)
    BY <1>4, DownFields, CloseFields DEF Call
  <2>2. k \in Requests /\ k # w
    BY <1>1
  <2> QED
    BY <1>2, <2>1, <2>2
<1>5. ASSUME NEW v \in Workers, CloseWorker(v) PROVE CloseKnown(w)' /\ CloseAwaited(w)'
  <2>1. /\ Ask("CloseWorker", v) /\ Message("CloseWorker", v) \in DownMessages
        /\ Message("CloseWorker", v) = Close(w) <=> v = w
    BY <1>5, DownFields, CloseFields DEF CloseWorker, Close
  <2>2. v \in Requests
    BY DEF Requests
  <2> QED
    BY <1>2, <2>1, <2>2
<1>6. ASSUME NEW k \in Calls, CallTooEarly(k) PROVE CloseKnown(w)' /\ CloseAwaited(w)'
  <2>1. UNCHANGED <<up, pending, requests, toDaemon, toSup>> /\ state' = [state EXCEPT ![k] = "failed"]
    BY <1>6 DEF CallTooEarly
  <2>2. \A q \in Requests \ Calls : state'[q] = state[q]
    BY <1>1, <2>1
  <2> QED
    BY <1>1, <2>1, <2>2 DEF CloseKnown, CloseAwaited
<1>7. CASE Terminate
  <2>1. /\ requests' = <<>> /\ toDaemon' = <<>> /\ up' = FALSE /\ UNCHANGED toSup
        /\ state'[w] = "idle" => state[w] = "idle"
    BY <1>1, <1>7 DEF Terminate, StopActor
  <2> QED
    BY <2>1, EmptyElems, NothingNew DEF Shaped, CloseKnown, CloseAwaited, NoNew
<1> QED
  BY <1>3, <1>4, <1>5, <1>6, <1>7 DEF Callers

\* The actor.
LEMMA ClosingActor ==
  ASSUME Shaped, NEW w \in Workers, CloseKnown(w), CloseAwaited(w), Actor
  PROVE  CloseKnown(w)' /\ CloseAwaited(w)'
<1> USE DEF guestVars, hostVars, socketVars, daemonVars
<1>1. /\ requests \in Seq(DownMessages) /\ toDaemon \in Seq(DownMessages) /\ toSup \in Seq(UpMessages)
      /\ w \in Requests \ Calls /\ Execs \subseteq Requests \ Calls /\ w \notin Execs
  BY SupervisorAssumption DEF Shaped, Requests
<1>2. ASSUME StopActor, toDaemon' = toDaemon, toSup' = toSup \/ (toSup # <<>> /\ toSup' = Tail(toSup))
      PROVE  CloseKnown(w)' /\ CloseAwaited(w)'
  <2>1. requests' = <<>> /\ up' = FALSE /\ (state'[w] = "idle" => state[w] = "idle")
    BY <1>1, <1>2 DEF StopActor
  <2>2. Elems(toSup') \subseteq Elems(toSup) /\ Elems(requests') = {}
    BY <1>1, <1>2, <2>1, TailSubset, EmptyElems
  <2>3. Once(requests', Close(w))
    BY <1>1, <2>1, NothingNew DEF CloseKnown, NoNew
  <2> QED
    BY <1>2, <2>1, <2>2, <2>3 DEF CloseKnown, CloseAwaited
<1>3. CASE TakeRequest
  <2>1. CASE lost
    BY <1>2, <1>3, <2>1 DEF TakeRequest
  <2>2. CASE ~lost
    <3>1. PICK m \in DownMessages : m = Head(requests) /\ m \in Elems(requests)
      BY <1>1, <1>3, HeadTail, TailSubset DEF TakeRequest
    <3>2. /\ requests # <<>> /\ requests' = Tail(requests) /\ toDaemon' = Append(toDaemon, m)
          /\ pending' = (IF m.kind = "Response" THEN pending ELSE pending \cup {m.id})
          /\ UNCHANGED <<state, up, toSup>>
      BY <1>3, <2>2, <3>1 DEF TakeRequest
    <3>3. Elems(requests') \subseteq Elems(requests) /\ Elems(toDaemon') = Elems(toDaemon) \cup {m}
          /\ Elems(requests) = {m} \cup Elems(requests')
      BY <1>1, <3>1, <3>2, TailSubset, TailRest, AppendElems
    <3>4. Once(requests', Close(w)) /\ (m = Close(w) => Close(w) \notin Elems(requests'))
      BY <1>1, <3>1, <3>2, HandedOver, NothingNew DEF CloseKnown, NoNew
    <3>5. CloseKnown(w)'
      BY <3>1, <3>2, <3>3, <3>4 DEF CloseKnown
    <3>6. m = Close(w) => w \in pending'
      BY <3>1, <3>2, CloseFields
    <3>7. CloseAwaited(w)'
      BY <3>2, <3>3, <3>6 DEF CloseAwaited
    <3> QED
      BY <3>5, <3>7
  <2> QED
    BY <2>1, <2>2
<1>4. ASSUME toSup # <<>>, toSup' = Tail(toSup), UNCHANGED <<requests, up, pending>>,
             Close(w) \in Elems(toDaemon') => Close(w) \in Elems(toDaemon), UNCHANGED state
      PROVE  CloseKnown(w)' /\ CloseAwaited(w)'
  <2>1. Elems(toSup') \subseteq Elems(toSup)
    BY <1>1, <1>4, TailSubset
  <2> QED
    BY <1>4, <2>1 DEF CloseKnown, CloseAwaited
<1>5. CASE TakeStarted
  BY <1>4, <1>5 DEF TakeStarted, Incoming
<1>6. CASE TakeGuestCall
  <2>1. PICK m \in UpMessages : m = Head(toSup) /\ m.kind = "GuestCall"
    BY <1>1, <1>6, HeadTail DEF TakeGuestCall, Incoming
  <2>2. PICK c \in GuestCalls : c = m.id
    BY <2>1, UpFields
  <2>3. /\ toSup # <<>> /\ toSup' = Tail(toSup)
        /\ \/ UNCHANGED <<toDaemon, state, requests, up, pending>>
           \/ \E d : Overload(c, d)
    BY <1>6, <2>1, <2>2 DEF TakeGuestCall, Incoming
  <2>4. CASE UNCHANGED <<toDaemon, state, requests, up, pending>>
    BY <1>4, <2>3, <2>4
  <2>5. CASE lost /\ \E d : Overload(c, d)
    BY <1>2, <2>3, <2>5 DEF Overload
  <2>6. CASE ~lost /\ \E d : Overload(c, d)
    <3>1. toDaemon' = Append(toDaemon, Response(c)) /\ UNCHANGED <<state, requests, up, pending>>
      BY <2>6 DEF Overload, Response
    <3>2. Response(c) \in DownMessages /\ Response(c) # Close(w)
      BY DownFields, CloseFields
    <3>3. Elems(toDaemon') = Elems(toDaemon) \cup {Response(c)}
      BY <1>1, <3>1, <3>2, AppendElems
    <3> QED
      BY <1>4, <2>3, <3>1, <3>2, <3>3
  <2> QED
    BY <2>3, <2>4, <2>5, <2>6
<1>7. CASE TakeResult \/ TakeClosed \/ TakeAnswer
  <2>1. PICK m \in UpMessages : m = Head(toSup) /\ m \in Elems(toSup)
    BY <1>1, <1>7, HeadTail, TailSubset DEF TakeResult, TakeClosed, TakeAnswer, Incoming
  <2>2. /\ m.kind \in {"Result", "WorkerResponse", "Closed", "NotClosed"}
        /\ toSup # <<>> /\ toSup' = Tail(toSup) /\ UNCHANGED <<requests, up, toDaemon>>
        /\ \E outcome \in {"answered", "failed"} :
             Deliver(m.id, outcome, {}) \/ \E v : Deliver(m.id, outcome, StoppedCalls(v))
    BY <1>7, <2>1 DEF TakeResult, TakeClosed, TakeAnswer, Incoming
  <2>3. /\ \A q \in Requests \ Calls : q # m.id => state'[q] = state[q]
        /\ \A q \in Requests : state'[q] \in Resolved \/ state'[q] = state[q]
        /\ \A q \in Requests \ Calls : q \in pending \ pending' => state'[q] \in Resolved
    <3>1. "answered" \in Resolved /\ "failed" \in Resolved
      BY DEF Resolved
    <3>2. \E outcome \in Resolved : \E v : Deliver(m.id, outcome, {}) \/ Deliver(m.id, outcome, StoppedCalls(v))
      BY <2>2, <3>1
    <3> QED
      BY <3>2, DeliveredState
  <2>4. m.id = w => state[w] # "idle"
    <3>1. ASSUME m.id = w PROVE m \in CloseAnswers(w)
      BY <1>1, <2>1, <2>2, <3>1, UpFields, SupervisorAssumption DEF CloseAnswers
    <3> QED
      BY <2>1, <3>1 DEF CloseKnown
  <2>5. "idle" \notin Resolved /\ "asked" \notin Resolved
    BY DEF Resolved
  <2>6. (state'[w] = "idle" <=> state[w] = "idle") /\ (state'[w] = "asked" => state[w] = "asked")
    BY <1>1, <2>3, <2>4, <2>5
  <2>7. Elems(toSup') \subseteq Elems(toSup)
    BY <1>1, <2>2, TailSubset
  <2>8. CloseKnown(w)'
    BY <2>2, <2>6, <2>7 DEF CloseKnown
  <2>9. CloseAwaited(w)'
    BY <1>1, <2>2, <2>3, <2>5, <2>6 DEF CloseAwaited
  <2> QED
    BY <2>8, <2>9
<1>8. CASE ConnectionEnds
  BY <1>2, <1>8 DEF ConnectionEnds
<1> QED
  BY <1>3, <1>5, <1>6, <1>7, <1>8 DEF Actor

\* The dispatchers and the daemon: a worker is closed by a request on the socket.
LEMMA ClosingOthers ==
  ASSUME Shaped, NEW w \in Workers, CloseKnown(w), CloseAwaited(w),
         Daemon \/ HostDispatcher \/ (\E c \in GuestCalls : GuestDispatcher(c) \/ Handler(c)) \/ UNCHANGED vars
  PROVE  CloseKnown(w)' /\ CloseAwaited(w)'
<1> USE DEF requestVars, guestVars, hostVars, socketVars, daemonVars
<1>1. /\ requests \in Seq(DownMessages) /\ toDaemon \in Seq(DownMessages) /\ toSup \in Seq(UpMessages)
  BY DEF Shaped
<1>2. ASSUME UNCHANGED <<state, up, pending>>,
             Close(w) \in Elems(requests') <=> Close(w) \in Elems(requests), Once(requests', Close(w)),
             Close(w) \in Elems(toDaemon') => Close(w) \in Elems(toDaemon),
             \A m \in CloseAnswers(w) : m \in Elems(toSup') => m \in Elems(toSup) \/ Close(w) \in Elems(toDaemon)
      PROVE  CloseKnown(w)' /\ CloseAwaited(w)'
  BY <1>2 DEF CloseKnown, CloseAwaited
<1>12. Once(requests, Close(w)) /\ (requests' = requests => Once(requests', Close(w)))
  BY DEF CloseKnown
<1>3. CASE HostDispatcher \/ \E c \in GuestCalls : GuestDispatcher(c) \/ Handler(c)
  <2>1. /\ UNCHANGED <<state, up, pending, toDaemon, toSup>>
        /\ requests' = requests \/ \E c \in GuestCalls : requests' = Append(requests, Response(c))
    BY <1>3, SMTT(30) DEF HostDispatcher, GuestDispatcher, Handler, HostAcquire, HostRecv, GuestAcquire, GuestRecv, GuestEnds,
         GuestRefuse, GuestRefused, HandlerReturns, HandlerEnds, Response
  <2>2. \A c \in GuestCalls : Elems(Append(requests, Response(c))) = Elems(requests) \cup {Response(c)}
    BY <1>1, DownFields, AppendElems
  <2>3. \A c \in GuestCalls : Response(c) # Close(w)
    BY CloseFields
  <2>4. Close(w) \in Elems(requests') <=> Close(w) \in Elems(requests)
    BY <2>1, <2>2, <2>3
  <2>5. \A c \in GuestCalls : Once(Append(requests, Response(c)), Close(w))
    BY <1>1, <1>12, <2>3, DownFields, AppendOnce
  <2>6. Once(requests', Close(w))
    BY <1>12, <2>1, <2>5
  <2> QED
    BY <1>2, <2>1, <2>4, <2>6
<1>4. ASSUME NEW m \in UpMessages, Reply(<<m>>) PROVE Elems(toSup') = Elems(toSup) \cup {m}
  BY <1>1, <1>4, ReplyAppends, AppendElems
<1>5. CASE DaemonReads
  <2>1. PICK m \in DownMessages : m = Head(toDaemon) /\ m \in Elems(toDaemon)
    BY <1>1, <1>5, HeadTail, TailSubset DEF DaemonReads
  <2>2. Elems(toDaemon') \subseteq Elems(toDaemon) /\ UNCHANGED <<state, up, pending, requests>>
    BY <1>1, <1>5, TailSubset DEF DaemonReads
  <2>3. CASE m.kind = "Execute"
    <3>1. m.id \in Execs /\ (UNCHANGED toSup \/ Reply(<<Result(m.id)>>))
      BY <1>5, <2>1, <2>3, DownFields DEF DaemonReads, Result
    <3>2. Result(m.id) \in UpMessages /\ Result(m.id).kind = "Result"
      BY <3>1, UpFields
    <3>3. \A a \in CloseAnswers(w) : a \in Elems(toSup') => a \in Elems(toSup)
      BY <1>4, <3>1, <3>2, CloseFields
    <3> QED
      BY <1>2, <1>12, <2>2, <3>3
  <2>4. CASE m.kind = "WorkerCall"
    <3>1. m.id \in Calls /\ (UNCHANGED toSup \/ Reply(<<Message("WorkerResponse", m.id)>>))
      BY <1>5, <2>1, <2>4, DownFields DEF DaemonReads
    <3>2. Message("WorkerResponse", m.id) \in UpMessages /\ Message("WorkerResponse", m.id).kind = "WorkerResponse"
      BY <3>1, UpFields
    <3>3. \A a \in CloseAnswers(w) : a \in Elems(toSup') => a \in Elems(toSup)
      BY <1>4, <3>1, <3>2, CloseFields
    <3> QED
      BY <1>2, <1>12, <2>2, <3>3
  <2>5. CASE m.kind = "CloseWorker"
    <3>1. PICK v \in Workers : v = m.id /\ v = WorkerOf(m.id) /\ m = Close(v)
      BY <2>1, <2>5, DownFields, WorkerOfType DEF Close
    <3>2. PICK x \in {"Closed", "NotClosed"} : Reply(<<Message(x, v)>>)
      BY <1>5, <2>1, <2>5, <3>1 DEF DaemonReads
    <3>3. Message(x, v) \in UpMessages /\ Message(x, v).id = v
      BY UpFields
    <3>4. Elems(toSup') = Elems(toSup) \cup {Message(x, v)}
      BY <1>4, <3>2, <3>3
    <3>5. \A a \in CloseAnswers(w) : a \in Elems(toSup') => a \in Elems(toSup) \/ Close(w) \in Elems(toDaemon)
      BY <2>1, <3>1, <3>3, <3>4, CloseFields
    <3> QED
      BY <1>2, <1>12, <2>2, <3>5
  <2>6. CASE m.kind = "Response"
    <3>1. UNCHANGED toSup
      BY <1>5, <2>1, <2>6 DEF DaemonReads
    <3> QED
      BY <1>2, <1>12, <2>2, <3>1
  <2> QED
    BY <2>1, <2>3, <2>4, <2>5, <2>6, DownFields
<1>6. CASE DaemonDies
  <2>1. toDaemon' = <<>> /\ UNCHANGED <<state, up, pending, requests, toSup>>
    BY <1>6 DEF DaemonDies
  <2> QED
    BY <1>2, <1>12, <2>1, EmptyElems
<1>7. ASSUME NEW m \in UpMessages, m.kind \notin {"Closed", "NotClosed"}, Reply(<<m>>),
             UNCHANGED <<state, up, pending, requests, toDaemon>>
      PROVE  CloseKnown(w)' /\ CloseAwaited(w)'
  <2>1. \A a \in CloseAnswers(w) : a \in Elems(toSup') => a \in Elems(toSup)
    BY <1>4, <1>7, CloseFields
  <2> QED
    BY <1>2, <1>12, <1>7, <2>1
<1>8. ASSUME NEW v \in Workers, DaemonStarts(v) \/ DaemonFinishes(v) PROVE CloseKnown(w)' /\ CloseAwaited(w)'
  <2>1. /\ UNCHANGED <<state, up, pending, requests, toDaemon>>
        /\ \E e \in Execs : Reply(<<Message("Started", e)>>) \/ Reply(<<Result(e)>>)
    BY <1>8, HeadTail DEF Shaped, DaemonStarts, DaemonFinishes, Result
  <2> QED
    BY <1>7, <2>1, UpFields
<1>9. ASSUME NEW k \in Calls, GuestAnswers(k) PROVE CloseKnown(w)' /\ CloseAwaited(w)'
  <2>1. Reply(<<Message("WorkerResponse", k)>>) /\ UNCHANGED <<state, up, pending, requests, toDaemon>>
    BY <1>9 DEF GuestAnswers
  <2> QED
    BY <1>7, <2>1, UpFields
<1>10. ASSUME NEW c \in GuestCalls, GuestAsks(c) PROVE CloseKnown(w)' /\ CloseAwaited(w)'
  <2>1. Reply(<<GuestCall(c)>>) /\ UNCHANGED <<state, up, pending, requests, toDaemon>>
    BY <1>10 DEF GuestAsks, GuestCall
  <2> QED
    BY <1>7, <2>1, UpFields
<1>11. CASE UNCHANGED vars
  BY <1>11 DEF vars, CloseKnown, CloseAwaited
<1> QED
  BY <1>3, <1>5, <1>6, <1>8, <1>9, <1>10, <1>11 DEF Daemon

\* The actor knows a worker's limits while its execution is in the daemon and a close
\* of the worker is not answered, and nothing of the worker before the execution is
\* asked for.
LimitsKnown(e) ==
  /\ state[e] = "idle" \/ Asked(e) =>
       Owner[e] \notin limits /\ \A c \in GuestCalls : WorkerOf(c) = Owner[e] => via[c] = None
  /\ up /\ InDaemon(e) /\ state[Owner[e]] \in {"idle", "asked"} => Owner[e] \in limits

\* A worker's calls go to one dispatcher.
OneDispatcher(w) ==
  \A c \in GuestCalls : WorkerOf(c) = w =>
    /\ dispatcher[w] # None => via[c] \in {None, dispatcher[w]}
    /\ dispatcher[w] = None /\ w \in limits => via[c] = None
    /\ \A d \in GuestCalls : WorkerOf(d) = w => via[c] = None \/ via[d] = None \/ via[c] = via[d]

\* When a worker's limits come and go, and when its calls get a dispatcher.
LEMMA LimitsMove ==
  ASSUME Shaped, \A e \in Execs : OnePath(e), NEW w \in Workers, [Next]_vars
  PROVE  /\ w \in limits' \ limits => \E e \in Execs : Owner[e] = w /\ Asked(e) /\ ~Asked(e)'
         /\ w \in limits \ limits' => /\ up
                                      /\ \/ \E e \in Execs : Owner[e] = w /\ Ended(e)
                                         \/ /\ Message("Closed", w) \in Elems(toSup)
                                            /\ w \in pending => state'[w] \in Resolved
         /\ \A c \in GuestCalls : WorkerOf(c) = w /\ via'[c] # via[c] => w \in limits
<1> USE DEF requestVars, guestVars, hostVars, socketVars, daemonVars
<1>1. CASE UNCHANGED <<limits, via>>
  BY <1>1
<1>2. CASE TakeRequest
  <2>1. PICK m \in DownMessages : m = Head(requests) /\ m \in Elems(requests)
    BY <1>2, HeadTail, TailSubset DEF Shaped, TakeRequest
  <2>2. /\ limits' = IF m.kind = "Execute" THEN limits \cup {Owner[m.id]} ELSE limits
        /\ UNCHANGED via /\ requests # <<>> /\ (requests' = <<>> \/ requests' = Tail(requests))
    BY <1>2, <2>1 DEF TakeRequest, Registered, StopActor
  <2>3. ASSUME w \in limits' \ limits PROVE \E e \in Execs : Owner[e] = w /\ Asked(e) /\ ~Asked(e)'
    <3>1. PICK e \in Execs : m = Execute(e) /\ Owner[e] = w
      BY <2>1, <2>2, <2>3, DownFields
    <3>2. Once(requests, Execute(e)) /\ requests \in Seq(DownMessages)
      BY DEF OnePath, Singly, Shaped
    <3>3. Execute(e) \notin Elems(requests')
      BY <2>1, <2>2, <3>1, <3>2, HandedOver, EmptyElems
    <3> QED
      BY <2>1, <3>1, <3>3 DEF Asked
  <2> QED
    BY <2>2, <2>3
<1>3. CASE TakeGuestCall
  <2>1. PICK m \in UpMessages : m = Head(toSup) /\ m.kind = "GuestCall"
    BY <1>3, HeadTail DEF Shaped, TakeGuestCall, Incoming
  <2>2. PICK c \in GuestCalls : c = m.id
    BY <2>1, UpFields
  <2>3. /\ UNCHANGED limits
        /\ \/ UNCHANGED via
           \/ WorkerOf(c) \in limits /\ \E d : via' = [via EXCEPT ![c] = d]
    BY <1>3, <2>1, <2>2 DEF TakeGuestCall, Overload
  <2>4. \A b \in GuestCalls : via'[b] # via[b] => b = c /\ WorkerOf(c) \in limits
    BY <2>3 DEF Shaped
  <2> QED
    BY <2>3, <2>4
<1>4. CASE TakeResult
  <2>1. PICK m \in UpMessages : m = Head(toSup) /\ m.kind = "Result" /\ m \in Elems(toSup)
    BY <1>4, HeadTail, TailSubset DEF Shaped, TakeResult, Incoming
  <2>2. PICK x \in Execs : x = m.id /\ m = Result(x)
    BY <2>1, UpFields
  <2>3. up /\ limits' = limits \ {Owner[x]} /\ UNCHANGED via
    BY <1>4, <2>1, <2>2 DEF TakeResult, Incoming, ForgetWorker
  <2> QED
    BY <2>1, <2>2, <2>3 DEF Ended
<1>5. CASE TakeClosed
  <2>1. PICK m \in UpMessages : m = Head(toSup) /\ m.kind = "Closed" /\ m \in Elems(toSup)
    BY <1>5, HeadTail, TailSubset DEF Shaped, TakeClosed, Incoming
  <2>2. PICK v \in Workers : v = m.id /\ m = Message("Closed", v)
    BY <2>1, UpFields
  <2>3. up /\ limits' = limits \ {v} /\ UNCHANGED via /\ Deliver(v, "answered", StoppedCalls(v))
    BY <1>5, <2>1, <2>2 DEF TakeClosed, Incoming, ForgetWorker
  <2>4. v \in pending => state'[v] \in Resolved
    <3>1. v \in Requests \ Calls /\ "answered" \in Resolved
      BY SupervisorAssumption DEF Requests, Resolved
    <3> QED
      BY <2>3, <3>1, DeliveredState
  <2> QED
    BY <2>1, <2>2, <2>3, <2>4
<1>6. CASE Callers \/ TakeStarted \/ TakeAnswer \/ ConnectionEnds \/ (\E v \in Workers : CloseWorker(v)) \/ UNCHANGED vars
  BY <1>1, <1>6 DEF Callers, Run, Call, CallTooEarly, CloseWorker, Ask, Terminate, TakeStarted, TakeAnswer,
     ConnectionEnds, vars
<1>7. CASE HostDispatcher \/ \E c \in GuestCalls : GuestDispatcher(c) \/ Handler(c)
  BY <1>1, <1>7 DEF HostDispatcher, GuestDispatcher, Handler, HostAcquire, HostRecv, GuestAcquire, GuestRecv,
     GuestEnds, GuestRefuse, GuestRefused, HandlerReturns, HandlerEnds
<1>8. CASE Daemon
  BY <1>1, <1>8 DEF Daemon, DaemonReads, DaemonStarts, DaemonFinishes, DaemonDies, GuestAsks, GuestAnswers
<1> QED
  BY <1>2, <1>3, <1>4, <1>5, <1>6, <1>7, <1>8 DEF Next, Actor

\* What a caller was told it stays told.
LEMMA StaysResolved ==
  ASSUME Shaped, NEW q \in Requests, state[q] \in Resolved, [Next]_vars PROVE state'[q] \in Resolved
<1> USE DEF requestVars, guestVars, hostVars, socketVars, daemonVars
<1>1. /\ state \in [Requests -> {"idle", "asked"} \cup Resolved]
      /\ "failed" \in Resolved /\ "answered" \in Resolved /\ "idle" \notin Resolved /\ "asked" \notin Resolved
  BY DEF Shaped, Resolved
<1>2. ASSUME StopActor PROVE state'[q] \in Resolved
  BY <1>1, <1>2 DEF StopActor
<1>3. ASSUME NEW kind, NEW r, Ask(kind, r) PROVE state'[q] \in Resolved
  BY <1>1, <1>3 DEF Ask
<1>4. CASE Callers \/ \E w \in Workers : CloseWorker(w)
  BY <1>1, <1>2, <1>3, <1>4 DEF Callers, Run, Call, CallTooEarly, CloseWorker, Terminate
<1>5. CASE TakeRequest \/ TakeStarted \/ TakeGuestCall \/ ConnectionEnds
  BY <1>1, <1>2, <1>5 DEF TakeRequest, TakeStarted, TakeGuestCall, Overload, ConnectionEnds
<1>6. CASE TakeResult \/ TakeClosed \/ TakeAnswer
  <2>1. \E r, v : \E outcome \in Resolved : Deliver(r, outcome, StoppedCalls(v)) \/ Deliver(r, outcome, {})
    BY <1>1, <1>6 DEF TakeResult, TakeClosed, TakeAnswer
  <2> QED
    BY <2>1, DeliveredState
<1>7. CASE HostDispatcher \/ (\E c \in GuestCalls : GuestDispatcher(c) \/ Handler(c)) \/ UNCHANGED vars
  BY <1>7 DEF vars, HostDispatcher, GuestDispatcher, Handler, HostAcquire, HostRecv, GuestAcquire, GuestRecv,
     GuestEnds, GuestRefuse, GuestRefused, HandlerReturns, HandlerEnds
<1>8. CASE Daemon
  BY <1>8 DEF Daemon, DaemonReads, DaemonStarts, DaemonFinishes, DaemonDies, GuestAsks, GuestAnswers
<1> QED
  BY <1>4, <1>5, <1>6, <1>7, <1>8 DEF Next, Actor

\* Every step keeps what the actor knows of an execution's worker.
LEMMA LimitsKnownStep ==
  ASSUME Shaped, OneEach, Own, \A x \in Execs : OnePath(x), NEW e \in Execs, LimitsKnown(e),
         CloseKnown(Owner[e]), CloseAwaited(Owner[e]), [Next]_vars
  PROVE  LimitsKnown(e)'
<1>1. Further(e) /\ OnePath(e) /\ Owner[e] \in Workers
  BY FurtherStep, WorkerOfType
<1>2. PICK w \in Workers : w = Owner[e]
  BY <1>1
<1>3. /\ w \in limits' \ limits => \E x \in Execs : Owner[x] = w /\ Asked(x) /\ ~Asked(x)'
      /\ w \in limits \ limits' => /\ up
                                   /\ \/ \E x \in Execs : Owner[x] = w /\ Ended(x)
                                      \/ /\ Message("Closed", w) \in Elems(toSup)
                                         /\ w \in pending => state'[w] \in Resolved
      /\ \A c \in GuestCalls : WorkerOf(c) = w /\ via'[c] # via[c] => w \in limits
  BY LimitsMove
<1>4. w \in limits' \ limits => Asked(e) /\ ~Asked(e)'
  BY <1>2, <1>3 DEF OneEach
<1>5. w \in limits \ limits' => ~InDaemon(e) \/ state'[w] \in Resolved
  <2>1. ASSUME NEW x \in Execs, Owner[x] = w, Ended(x) PROVE ~InDaemon(e)
    BY <1>1, <1>2, <2>1 DEF OneEach, OnePath, Exclusive
  <2>2. ASSUME up, Message("Closed", w) \in Elems(toSup), w \in pending => state'[w] \in Resolved
        PROVE  state'[w] \in Resolved
    <3>1. state[w] # "idle" /\ Close(w) \notin Elems(requests) /\ w \in Requests
      BY <1>2, <2>2 DEF CloseKnown, CloseAnswers, Requests
    <3>2. CASE state[w] = "asked"
      BY <1>2, <2>2, <3>1, <3>2 DEF CloseAwaited
    <3>3. CASE state[w] \in Resolved
      BY <3>1, <3>3, StaysResolved
    <3> QED
      BY <3>1, <3>2, <3>3 DEF Shaped
  <2> QED
    BY <1>3, <2>1, <2>2
<1>6. ASSUME state'[e] = "idle" \/ Asked(e)'
      PROVE  w \notin limits' /\ \A c \in GuestCalls : WorkerOf(c) = w => via'[c] = None
  <2>1. state[e] = "idle" \/ Asked(e)
    BY <1>1, <1>6 DEF Further
  <2>2. w \notin limits /\ \A c \in GuestCalls : WorkerOf(c) = w => via[c] = None
    BY <1>2, <2>1 DEF LimitsKnown
  <2>3. ~(Asked(e) /\ ~Asked(e)')
    BY <1>1, <1>6 DEF Further, OnePath, InFlight
  <2> QED
    BY <1>3, <1>4, <2>2, <2>3
<1>7. ASSUME up', InDaemon(e)', state'[w] \in {"idle", "asked"} PROVE w \in limits'
  <2>1. CASE InDaemon(e)
    <3>1. state'[w] \notin Resolved /\ state[w] \in {"idle", "asked"}
      BY <1>2, <1>7, StaysResolved DEF Shaped, Resolved, Requests
    <3>2. w \in limits
      BY <1>1, <1>2, <1>7, <2>1, <3>1 DEF LimitsKnown, Further
    <3> QED
      BY <1>5, <2>1, <3>1, <3>2
  <2>2. CASE ~InDaemon(e)
    BY <1>1, <1>2, <1>7, <2>2 DEF Further, InDaemon
  <2> QED
    BY <2>1, <2>2
<1> QED
  BY <1>2, <1>6, <1>7 DEF LimitsKnown

\* Every step keeps a worker's calls with one dispatcher.
LEMMA OneDispatcherStep ==
  ASSUME Shaped, \A e \in Execs : OnePath(e) /\ LimitsKnown(e), NEW w \in Workers, OneDispatcher(w), [Next]_vars
  PROVE  OneDispatcher(w)'
<1> USE DEF requestVars, guestVars, hostVars, socketVars, daemonVars
<1>1. dispatcher \in [Workers -> GuestCalls \cup {None}] /\ via \in [GuestCalls -> GuestCalls \cup {None}]
      /\ None \notin GuestCalls
  BY SupervisorAssumption DEF Shaped
<1>2. ASSUME UNCHANGED <<dispatcher, via>> PROVE OneDispatcher(w)'
  <2>1. w \in limits' \ limits => \A c \in GuestCalls : WorkerOf(c) = w => via[c] = None
    <3>1. w \in limits' \ limits => \E e \in Execs : Owner[e] = w /\ Asked(e)
      BY LimitsMove
    <3> QED
      BY <3>1 DEF LimitsKnown
  <2> QED
    BY <1>2, <2>1 DEF OneDispatcher
<1>3. CASE TakeGuestCall
  <2>1. PICK m \in UpMessages : m = Head(toSup) /\ m.kind = "GuestCall"
    BY <1>3, HeadTail DEF Shaped, TakeGuestCall, Incoming
  <2>2. PICK c \in GuestCalls : c = m.id
    BY <2>1, UpFields
  <2>3. PICK v \in Workers : v = WorkerOf(c)
    BY WorkerOfType
  <2>4. PICK d \in GuestCalls : d = IF dispatcher[v] = None THEN c ELSE dispatcher[v]
    BY <1>1
  <2>5. /\ UNCHANGED limits
        /\ \/ UNCHANGED <<dispatcher, via>>
           \/ /\ v \in limits /\ dispatcher' = [dispatcher EXCEPT ![v] = d]
              /\ via' = via \/ via' = [via EXCEPT ![c] = d]
    BY <1>3, <2>1, <2>2, <2>3, <2>4 DEF TakeGuestCall, Overload
  <2>6. CASE UNCHANGED <<dispatcher, via>>
    BY <1>2, <2>6
  <2>7. CASE v \in limits /\ dispatcher' = [dispatcher EXCEPT ![v] = d] /\ (via' = via \/ via' = [via EXCEPT ![c] = d])
    <3>1. \A b \in GuestCalls : b # c => via'[b] = via[b]
      BY <1>1, <2>7
    <3>2. via'[c] \in {via[c], d}
      BY <1>1, <2>7
    <3>3. CASE w # v
      <4>1. dispatcher'[w] = dispatcher[w] /\ \A b \in GuestCalls : WorkerOf(b) = w => via'[b] = via[b]
        BY <1>1, <2>3, <2>7, <3>1, <3>3
      <4> QED
        BY <2>5, <4>1 DEF OneDispatcher
    <3>4. CASE w = v
      <4>1. dispatcher'[w] = d
        BY <1>1, <2>7, <3>4
      <4>2. \A b \in GuestCalls : WorkerOf(b) = w => via[b] \in {None, d}
        BY <2>4, <2>7, <3>4 DEF OneDispatcher
      <4>3. \A b \in GuestCalls : WorkerOf(b) = w => via'[b] \in {None, d}
        BY <2>3, <3>1, <3>2, <3>4, <4>2
      <4> QED
        BY <1>1, <4>1, <4>3 DEF OneDispatcher
    <3> QED
      BY <3>3, <3>4
  <2> QED
    BY <2>5, <2>6, <2>7
<1>4. ASSUME NEW v, ForgetWorker(v), UNCHANGED via PROVE OneDispatcher(w)'
  <2>1. CASE v = w
    <3>1. dispatcher'[w] = None /\ w \notin limits'
      BY <1>1, <1>4, <2>1 DEF ForgetWorker
    <3> QED
      BY <1>4, <3>1 DEF OneDispatcher
  <2>2. CASE v # w
    <3>1. dispatcher'[w] = dispatcher[w] /\ (w \in limits' <=> w \in limits)
      BY <1>1, <1>4, <2>2 DEF ForgetWorker
    <3> QED
      BY <1>4, <3>1 DEF OneDispatcher
  <2> QED
    BY <2>1, <2>2
<1>5. CASE TakeResult \/ TakeClosed
  BY <1>4, <1>5 DEF TakeResult, TakeClosed
<1>6. CASE Callers \/ TakeRequest \/ TakeStarted \/ TakeAnswer \/ ConnectionEnds \/ (\E v \in Workers : CloseWorker(v)) \/ UNCHANGED vars
  BY <1>2, <1>6 DEF Callers, Run, Call, CallTooEarly, CloseWorker, Ask, Terminate, TakeRequest, TakeStarted, TakeAnswer,
     ConnectionEnds, vars
<1>7. CASE HostDispatcher \/ \E c \in GuestCalls : GuestDispatcher(c) \/ Handler(c)
  BY <1>2, <1>7 DEF HostDispatcher, GuestDispatcher, Handler, HostAcquire, HostRecv, GuestAcquire, GuestRecv,
     GuestEnds, GuestRefuse, GuestRefused, HandlerReturns, HandlerEnds
<1>8. CASE Daemon
  BY <1>2, <1>8 DEF Daemon, DaemonReads, DaemonStarts, DaemonFinishes, DaemonDies, GuestAsks, GuestAnswers
<1> QED
  BY <1>3, <1>5, <1>6, <1>7, <1>8 DEF Next, Actor

\* What holds of executions and workers where a worker runs one execution.
Tracked ==
  /\ Own /\ \A e \in Execs : OnePath(e) /\ LimitsKnown(e)
  /\ \A w \in Workers : CloseKnown(w) /\ CloseAwaited(w) /\ OneDispatcher(w)

\* At the start nothing is on its way.
LEMMA TrackedInit == Init => Tracked
<1> SUFFICES ASSUME Init PROVE Tracked
  OBVIOUS
<1>1. Elems(<<>>) = {} /\ (\A x : Once(<<>>, x)) /\ Len(<<>>) = 0
  BY EmptyElems, EmptySeq DEF Once
<1>2. None \notin Execs
  BY SupervisorAssumption DEF Requests
<1>3. Own
  BY <1>1 DEF Init, Own
<1>4. ASSUME NEW e \in Execs PROVE OnePath(e) /\ LimitsKnown(e)
  <2>1. Owner[e] \in Workers /\ waiting[Owner[e]] = <<>> /\ running[Owner[e]] = None
    BY WorkerOfType DEF Init
  <2>2. ~Asked(e) /\ ~Sent(e) /\ ~Waiting(e) /\ ~Running(e) /\ ~Ended(e)
    BY <1>1, <1>2, <2>1 DEF Init, Asked, Sent, Waiting, Running, Ended
  <2>3. Singly(e)
    BY <1>1, <2>1 DEF Init, Singly
  <2>4. OnePath(e)
    BY <2>2, <2>3 DEF OnePath, Exclusive, InFlight, InDaemon
  <2>5. LimitsKnown(e)
    BY <2>2 DEF Init, LimitsKnown, InDaemon
  <2> QED
    BY <2>4, <2>5
<1>5. ASSUME NEW w \in Workers PROVE CloseKnown(w) /\ CloseAwaited(w) /\ OneDispatcher(w)
  <2>1. w \in Requests /\ state[w] = "idle"
    BY DEF Init, Requests
  <2>2. CloseKnown(w) /\ CloseAwaited(w)
    BY <1>1, <2>1 DEF Init, CloseKnown, CloseAwaited
  <2>3. OneDispatcher(w)
    BY DEF Init, OneDispatcher
  <2> QED
    BY <2>2, <2>3
<1> QED
  BY <1>3, <1>4, <1>5 DEF Tracked

\* Every step keeps track of executions and workers.
LEMMA TrackedStep ==
  ASSUME Shaped, OneEach, Tracked, [Next]_vars PROVE Tracked'
<1>1. Own /\ (\A e \in Execs : OnePath(e) /\ LimitsKnown(e))
      /\ \A w \in Workers : CloseKnown(w) /\ CloseAwaited(w) /\ OneDispatcher(w)
  BY DEF Tracked
<1>2. Own'
  BY <1>1, OwnStep
<1>3. ASSUME NEW e \in Execs PROVE OnePath(e)' /\ LimitsKnown(e)'
  <2>1. CloseKnown(Owner[e]) /\ CloseAwaited(Owner[e])
    BY <1>1, WorkerOfType
  <2>2. LimitsKnown(e)'
    BY <1>1, <2>1, LimitsKnownStep
  <2> QED
    BY <1>1, <2>2, FurtherStep
<1>4. ASSUME NEW w \in Workers PROVE CloseKnown(w)' /\ CloseAwaited(w)' /\ OneDispatcher(w)'
  <2>1. CloseKnown(w)' /\ CloseAwaited(w)'
    BY <1>1, ClosingCallers, ClosingActor, ClosingOthers DEF Next
  <2>2. OneDispatcher(w)'
    BY <1>1, OneDispatcherStep
  <2> QED
    BY <2>1, <2>2
<1> QED
  BY <1>2, <1>3, <1>4 DEF Tracked

\* Where every worker runs one execution, as the facade has it: while the execution
\* runs the actor knows its dispatch limits and turns no call of it away for want of
\* them, until a close of the worker is answered, which a cancelled caller may ask for
\* with the execution still running; and, closed or not, the worker's calls never take
\* more of the host dispatcher than the worker's own concurrency.
THEOREM WorkerKeepsToBudget == OneEach => (Spec => []WorkerBudget)
<1> SUFFICES ASSUME OneEach PROVE Spec => []WorkerBudget
  OBVIOUS
<1>1. Shaped /\ InQueues /\ Counted /\ Tracked => WorkerBudget
  <2> SUFFICES ASSUME Shaped, InQueues, Counted, Tracked, NEW w \in Workers
               PROVE  /\ up /\ running[w] # None /\ state[w] \in {"idle", "asked"} => w \in limits
                      /\ Cardinality({c \in GuestCalls : WorkerOf(c) = w /\ place[c] = "host"} \cup
                                     {c \in Handling : WorkerOf(c) = w}) <= GuestConcurrency
    BY DEF WorkerBudget
  <2>1. ASSUME up, running[w] # None, state[w] \in {"idle", "asked"} PROVE w \in limits
    <3>1. PICK e \in Execs : running[w] = e /\ Owner[e] = w
      BY <2>1 DEF Shaped, Tracked, Own
    <3>2. InDaemon(e)
      BY <3>1 DEF InDaemon, Running
    <3> QED
      BY <2>1, <3>1, <3>2 DEF Tracked, LimitsKnown
  <2> DEFINE T == {c \in GuestCalls : WorkerOf(c) = w /\ place[c] = "host"} \cup {c \in Handling : WorkerOf(c) = w}
  <2>2. Cardinality(T) <= GuestConcurrency
    <3>1. \A c \in T : c \in GuestCalls /\ WorkerOf(c) = w /\ place[c] \in {"host", "handler", "replying", "sent"}
      BY DEF Handling
    <3>2. GuestConcurrency \in Nat /\ None \notin GuestCalls
      BY SupervisorAssumption
    <3>3. CASE T = {}
      BY <3>2, <3>3, FS_EmptySet
    <3>4. CASE T # {}
      <4>1. PICK b \in T : TRUE
        BY <3>4
      <4>2. PICK d \in GuestCalls : d = via[b]
        BY <3>1, <4>1 DEF InQueues, Held
      <4>3. ASSUME NEW c \in T PROVE c \in Holding(d)
        <5>1. via[c] \in GuestCalls
          BY <3>1 DEF InQueues, Held
        <5>2. via[c] = d
          BY <3>1, <3>2, <4>1, <4>2, <5>1 DEF Tracked, OneDispatcher
        <5> QED
          BY <3>1, <5>2 DEF Holding
      <4>4. /\ IsFiniteSet(Holding(d)) /\ permits[d] \in Nat
            /\ permits[d] + Cardinality(Holding(d)) + Waits(guestTask[d]) = GuestConcurrency
        BY DEF Counted, GuestCounted, Shaped
      <4>5. Cardinality(T) <= Cardinality(Holding(d)) /\ Cardinality(T) \in Nat /\ Cardinality(Holding(d)) \in Nat
        BY <4>3, <4>4, FS_Subset, FS_CardinalityType
      <4>6. Waits(guestTask[d]) \in Nat
        BY DEF Waits
      <4> QED
        BY <3>2, <4>4, <4>5, <4>6
    <3> QED
      BY <3>3, <3>4
  <2> QED
    BY <2>1, <2>2
<1>2. Init => Tracked
  BY TrackedInit
<1>3. Shaped /\ Tracked /\ [Next]_vars => Tracked'
  BY TrackedStep
<1> QED
  BY <1>1, <1>2, <1>3, SupervisorInvariant, PTL DEF Spec
=============================================================================
