-------------------------- MODULE SyncPublishBackend --------------------------
(***************************************************************************)
(* The synchronous publish path: SyncPublishBackend (and PublisherPool,    *)
(* which forwards start, stop and send to it).                             *)
(*                                                                         *)
(* Application threads call start(), stop() and publish().  publish() puts *)
(* a request on a (possibly bounded) queue.Queue; one I/O thread running   *)
(* _run() takes requests, owns the AMQP connection and its channels, and   *)
(* reconnects with an exponential backoff.  stop() sets an Event and puts  *)
(* the sentinel None on the queue to wake a blocked I/O thread.            *)
(*                                                                         *)
(* A message is its ticket: the place at which queue.Queue accepted it, so *)
(* "in the order of the calls" is "in increasing order".  The round robin  *)
(* over channels is abstracted into basic_publish succeeding or raising.   *)
(* A step is the code between two points where another thread may change   *)
(* the shared attributes _queue, _stop_event and _thread.                  *)
(***************************************************************************)
EXTENDS Naturals, Sequences, FiniteSets

CONSTANTS
    Starters,        \* threads that call start()
    Stoppers,        \* threads that call stop()
    Publishers,      \* threads that call publish()
    IoThreads,       \* Thread objects start() can create (bounds the restarts)
    NoThread,        \* the initial value None of self._thread
    QueueMax,        \* queue_maxsize; 0 is an unbounded queue
    Heartbeat,       \* TRUE iff heartbeat_interval > 0: the get() has a timeout
    JoinMayTimeOut,  \* TRUE iff stop(wait=False), or join(timeout=10) may expire
    PowLimit,        \* consecutive failures at which multiplier**exp overflows
    MaxMsgs,         \* bound on the calls of publish()
    MaxFaults        \* bound on the connection faults of the environment

ASSUME ThreadsAssumption == NoThread \notin IoThreads
ASSUME NumbersAssumption ==
    /\ QueueMax \in Nat /\ MaxMsgs \in Nat /\ MaxFaults \in Nat
    /\ PowLimit \in Nat \ {0}
    /\ Heartbeat \in BOOLEAN /\ JoinMayTimeOut \in BOOLEAN

VARIABLES
    queue,       \* _queue: tickets and sentinels
    stopEvent,   \* _stop_event.is_set()
    thread,      \* _thread
    failures,    \* _reconnect_failures
    call,        \* call[c]: where the application thread c is inside the API
    io,          \* io[t]: where the I/O thread t is inside _run
    hand,        \* hand[t]: the ticket t took from the queue and not tried yet
    conn,        \* conn[t]: the connection t owns, see Links below
    tickets,     \* history: number of requests the queue accepted
    published,   \* history: tickets counted by stats "published"
    failed,      \* history: tickets counted by stats "publish_failed"
    wire,        \* history: tickets that reached the broker, in order
    late,        \* history: publishes tried since stop() set the event
    faults       \* number of environment faults so far

vars == <<queue, stopEvent, thread, failures, call, io, hand, conn, tickets,
          published, failed, wire, late, faults>>

history == <<tickets, published, failed, wire, late>>

-----------------------------------------------------------------------------
(* Vocabulary *)

Callers == Starters \union Stoppers \union Publishers

\* The sentinel None stop() puts on the queue; tickets start at 1.
Sentinel == 0

\* "broken": the peer is gone but pika has not noticed, is_open is still True.
Links == {"none", "open", "broken", "closed"}
IsOpen(t) == conn[t] \in {"open", "broken"}

\* Where _run can be while Thread.is_alive() is True.
Running == {"top", "get", "publish", "backoff", "cleanup"}
Alive(t) == io[t] \in Running
ThreadAlive_Unchecked == FALSE
ThreadAlive == thread # NoThread /\ Alive(thread)

Full == QueueMax > 0 /\ Len(queue) >= QueueMax

\* Requests whose put() has not been accepted yet.
Putting == {c \in Publishers : call[c] = "put"}

\* Decisions of the code that the actions below refer to.  The variants with a
\* suffix are the mutations PROJECT.json names; no action uses them.
WakeUp_Nothing == queue
WakeUp == Append(queue, Sentinel)

LoopEnds_Never == FALSE
LoopEnds == stopEvent

FailuresOnceConnected_OneLess == failures - 1
FailuresOnceConnected == 0

QueueAfterFailure_Again(t) == Append(queue, hand[t])
QueueAfterFailure(t) == queue

CountFailed_Not(t) == failed
CountFailed(t) == failed \union {hand[t]}

AfterBackoff_End == "cleanup"
AfterBackoff == "top"

LinkAtExit_Kept(t) == conn[t]
LinkAtExit(t) == "none"

GoTo(c, where) == call' = [call EXCEPT ![c] = where]
IoTo(t, where) == io' = [io EXCEPT ![t] = where]

Init ==
    /\ queue = << >>
    /\ stopEvent = FALSE
    /\ thread = NoThread
    /\ failures = 0
    /\ call = [c \in Callers |-> "idle"]
    /\ io = [t \in IoThreads |-> "none"]
    /\ hand = [t \in IoThreads |-> Sentinel]
    /\ conn = [t \in IoThreads |-> "none"]
    /\ tickets = 0
    /\ published = {}
    /\ failed = {}
    /\ wire = << >>
    /\ late = 0
    /\ faults = 0

-----------------------------------------------------------------------------
(* start(): three unlocked steps *)

StartCall(c) ==
    /\ call[c] = "idle"
    /\ \E t \in IoThreads : io[t] = "none"
    /\ GoTo(c, "start")
    /\ UNCHANGED <<queue, stopEvent, thread, failures, io, hand, conn, history, faults>>

\* "if self._thread and self._thread.is_alive(): return"
StartCheck(c) ==
    /\ call[c] = "start"
    /\ GoTo(c, IF ThreadAlive THEN "idle" ELSE "start_clear")
    /\ UNCHANGED <<queue, stopEvent, thread, failures, io, hand, conn, history, faults>>

StartClear(c) ==
    /\ call[c] = "start_clear"
    /\ stopEvent' = FALSE
    /\ late' = 0
    /\ GoTo(c, "start_create")
    /\ UNCHANGED <<queue, thread, failures, io, hand, conn, tickets, published, failed, wire, faults>>

\* Replaces self._thread by a new Thread object; a stop() may have set the event again.
StartCreate(c) ==
    /\ call[c] = "start_create"
    /\ \E t \in IoThreads :
          /\ io[t] = "none"
          /\ thread' = t
          /\ IoTo(t, "created")
    /\ GoTo(c, "start_run")
    /\ UNCHANGED <<queue, stopEvent, failures, hand, conn, history, faults>>

\* "self._thread.start()": whichever thread the attribute holds by now; a
\* second start() of the same Thread object raises RuntimeError.
StartRun(c) ==
    /\ call[c] = "start_run"
    /\ io' = IF io[thread] = "created" THEN [io EXCEPT ![thread] = "top"] ELSE io
    /\ GoTo(c, "idle")
    /\ UNCHANGED <<queue, stopEvent, thread, failures, hand, conn, history, faults>>

-----------------------------------------------------------------------------
(* stop(); a call that finds the event set returns at once and changes nothing *)

StopCall(c) ==
    /\ call[c] = "idle"
    /\ ~stopEvent
    /\ GoTo(c, "stop_set")
    /\ UNCHANGED <<queue, stopEvent, thread, failures, io, hand, conn, history, faults>>

StopSet(c) ==
    /\ call[c] = "stop_set"
    /\ stopEvent' = TRUE
    /\ GoTo(c, "stop_put")
    /\ UNCHANGED <<queue, thread, failures, io, hand, conn, history, faults>>

\* put_nowait(None), then put(None, timeout=1): given up when the queue stays full.
StopPut(c) ==
    /\ call[c] = "stop_put"
    /\ queue' = IF Full THEN queue ELSE WakeUp
    /\ GoTo(c, "stop_join")
    /\ UNCHANGED <<stopEvent, thread, failures, io, hand, conn, history, faults>>

\* join() returns when the thread is dead, raises when it was never started.
StopJoin(c) ==
    /\ call[c] = "stop_join"
    /\ JoinMayTimeOut \/ ~ThreadAlive
    /\ GoTo(c, "idle")
    /\ UNCHANGED <<queue, stopEvent, thread, failures, io, hand, conn, history, faults>>

-----------------------------------------------------------------------------
(* publish(): queue.put without a timeout *)

PublishCall(c) ==
    /\ call[c] = "idle"
    /\ tickets + Cardinality(Putting) < MaxMsgs
    /\ GoTo(c, "put")
    /\ UNCHANGED <<queue, stopEvent, thread, failures, io, hand, conn, history, faults>>

PublishPut(c) ==
    /\ call[c] = "put"
    /\ ~Full
    /\ tickets' = tickets + 1
    /\ queue' = Append(queue, tickets')
    /\ GoTo(c, "idle")
    /\ UNCHANGED <<stopEvent, thread, failures, io, hand, conn, published, failed,
                   wire, late, faults>>

-----------------------------------------------------------------------------
(* _run() *)

\* The only place where the stop event is looked at.
IoStopped(t) ==
    /\ io[t] = "top"
    /\ LoopEnds
    /\ IoTo(t, "cleanup")
    /\ UNCHANGED <<queue, stopEvent, thread, failures, call, hand, conn, history, faults>>

\* _ensure_connection_and_channels returns: the backoff starts over.
IoConnect(t) ==
    /\ io[t] = "top"
    /\ ~LoopEnds
    /\ conn' = IF IsOpen(t) THEN conn ELSE [conn EXCEPT ![t] = "open"]
    /\ failures' = FailuresOnceConnected
    /\ IoTo(t, "get")
    /\ UNCHANGED <<queue, stopEvent, thread, call, hand, history, faults>>

\* The factory raises, or it returns a connection whose channel() raises.
IoConnectFails(t) ==
    /\ io[t] = "top"
    /\ ~LoopEnds
    /\ ~IsOpen(t)
    /\ faults < MaxFaults
    /\ faults' = faults + 1
    /\ \E link \in {conn[t], "open"} : conn' = [conn EXCEPT ![t] = link]
    /\ IoTo(t, "backoff")
    /\ UNCHANGED <<queue, stopEvent, thread, failures, call, hand, history>>

\* process_data_events(time_limit=0): may find out that the peer is gone.
PumpIo(t) ==
    \/ UNCHANGED conn
    \/ /\ Heartbeat
       /\ conn[t] = "broken"
       /\ conn' = [conn EXCEPT ![t] = "closed"]

\* get() returns a request or the sentinel; the pump runs in either case.
IoGet(t) ==
    /\ io[t] = "get"
    /\ queue # << >>
    /\ queue' = Tail(queue)
    /\ hand' = [hand EXCEPT ![t] = Head(queue)]
    /\ IoTo(t, IF Head(queue) = Sentinel THEN "cleanup" ELSE "publish")
    /\ PumpIo(t)
    /\ UNCHANGED <<stopEvent, thread, failures, call, history, faults>>

\* get(timeout=...) raises queue.Empty: a heartbeat tick.
IoIdle(t) ==
    /\ io[t] = "get"
    /\ queue = << >>
    /\ Heartbeat
    /\ IoTo(t, "top")
    /\ PumpIo(t)
    /\ UNCHANGED <<queue, stopEvent, thread, failures, call, hand, history, faults>>

\* The request in t's hand has been tried, as the finally clause records.
Tried(t) ==
    /\ io[t] = "publish"
    /\ hand' = [hand EXCEPT ![t] = Sentinel]
    /\ late' = IF stopEvent THEN late + 1 ELSE late
    /\ UNCHANGED <<stopEvent, thread, failures, call, conn, tickets>>

\* basic_publish returns; what it wrote to a broken connection is lost.
IoPublish(t) ==
    /\ IsOpen(t)
    /\ published' = published \union {hand[t]}
    /\ wire' = IF conn[t] = "open" THEN Append(wire, hand[t]) ELSE wire
    /\ IoTo(t, "top")
    /\ Tried(t)
    /\ UNCHANGED <<queue, failed, faults>>

\* basic_publish raises: on a connection known or found to be dead, or, a fault
\* of its own, on a live one (nack, closed channel), before or after the broker
\* has taken the message.
IoPublishFails(t) ==
    /\ \/ conn[t] \in {"broken", "closed"} /\ UNCHANGED <<wire, faults>>
       \/ /\ conn[t] = "open"
          /\ faults < MaxFaults
          /\ faults' = faults + 1
          /\ wire' \in {wire, Append(wire, hand[t])}
    /\ failed' = CountFailed(t)
    /\ queue' = QueueAfterFailure(t)
    /\ IoTo(t, "backoff")
    /\ Tried(t)
    /\ UNCHANGED published

\* The except clause: count, sleep, close the connection and forget it.
\* delay_for_attempt computes multiplier**exp before it takes the minimum with
\* max_delay; from PowLimit failures on that raises OverflowError, which nothing
\* catches: the thread dies and leaves its connection as it is.
IoBackoff(t) ==
    /\ io[t] = "backoff"
    /\ failures' = failures + 1
    /\ IF failures' >= PowLimit
       THEN IoTo(t, "crashed") /\ UNCHANGED conn
       ELSE IoTo(t, AfterBackoff) /\ conn' = [conn EXCEPT ![t] = "none"]
    /\ UNCHANGED <<queue, stopEvent, thread, call, hand, history, faults>>

\* Best-effort close of the channels and the connection; the thread ends.
IoCleanup(t) ==
    /\ io[t] = "cleanup"
    /\ conn' = [conn EXCEPT ![t] = LinkAtExit(t)]
    /\ IoTo(t, "dead")
    /\ UNCHANGED <<queue, stopEvent, thread, failures, call, hand, history, faults>>

\* The network or the broker drops the connection; pika does not know yet.
ConnBreak(t) ==
    /\ conn[t] = "open"
    /\ faults < MaxFaults
    /\ faults' = faults + 1
    /\ conn' = [conn EXCEPT ![t] = "broken"]
    /\ UNCHANGED <<queue, stopEvent, thread, failures, call, io, hand, history>>

-----------------------------------------------------------------------------
(* The specification *)

StartStep(c) == StartCheck(c) \/ StartClear(c) \/ StartCreate(c) \/ StartRun(c)
StopStep(c) == StopSet(c) \/ StopPut(c) \/ StopJoin(c)

IoStep(t) ==
    \/ IoStopped(t) \/ IoConnect(t) \/ IoConnectFails(t)
    \/ IoGet(t) \/ IoIdle(t)
    \/ IoPublish(t) \/ IoPublishFails(t)
    \/ IoBackoff(t) \/ IoCleanup(t)

Next ==
    \/ \E c \in Starters : StartCall(c) \/ StartStep(c)
    \/ \E c \in Stoppers : StopCall(c) \/ StopStep(c)
    \/ \E c \in Publishers : PublishCall(c) \/ PublishPut(c)
    \/ \E t \in IoThreads : IoStep(t) \/ ConnBreak(t)

Spec == Init /\ [][Next]_vars

\* The operating system runs every thread that can run; nobody has to call the API.
FairSpec ==
    /\ Spec
    /\ \A c \in Starters : WF_vars(StartStep(c))
    /\ \A c \in Stoppers : WF_vars(StopStep(c))
    /\ \A c \in Publishers : WF_vars(PublishPut(c))
    /\ \A t \in IoThreads : WF_vars(IoStep(t))

-----------------------------------------------------------------------------
(* Properties *)

CallStates == {"idle", "start", "start_clear", "start_create", "start_run",
               "stop_set", "stop_put", "stop_join", "put"}

IoStates == Running \union {"none", "created", "dead", "crashed"}

\* Types of the backend's attributes and of the histories.
TypeOK ==
    /\ queue \in Seq(Nat)
    /\ stopEvent \in BOOLEAN
    /\ thread \in IoThreads \union {NoThread}
    /\ failures \in Nat
    /\ call \in [Callers -> CallStates]
    /\ io \in [IoThreads -> IoStates]
    /\ hand \in [IoThreads -> Nat]
    /\ conn \in [IoThreads -> Links]
    /\ tickets \in Nat
    /\ published \subseteq Nat
    /\ failed \subseteq Nat
    /\ wire \in Seq(Nat)
    /\ late \in Nat
    /\ faults \in Nat

Queued == {queue[i] : i \in 1 .. Len(queue)} \ {Sentinel}
Held == {hand[t] : t \in IoThreads} \ {Sentinel}

\* No request is forgotten or counted twice: each one the queue accepted is still
\* queued, or in the hands of an I/O thread, or in exactly one of the counters
\* "published" and "publish_failed", whatever calls race and connections break.
Accounted ==
    /\ 1 .. tickets = Queued \union Held \union published \union failed
    /\ Queued \intersect (Held \union published \union failed) = {}
    /\ Held \intersect (published \union failed) = {}
    /\ published \intersect failed = {}
    /\ \A t, u \in IoThreads : hand[t] = hand[u] /\ hand[t] # Sentinel => t = u

\* The backend never sends a request to the broker twice, not even when
\* basic_publish raised after the broker had taken it and the backend reconnects.
AtMostOnce == \A i, j \in 1 .. Len(wire) : wire[i] = wire[j] => i = j

\* "One dedicated I/O thread owns the connection (+ channels)": at most one thread
\* is inside _run, however start() and stop() calls follow each other.
OneIoThread == \A t, u \in IoThreads : Alive(t) /\ Alive(u) => t = u

\* "One long-lived TCP connection per pool": no thread leaves a connection open
\* behind when another one opens its own.
OneConnection == \A t, u \in IoThreads : IsOpen(t) /\ IsOpen(u) => t = u

\* Once stop() has set the event at most one more request is tried, the one the
\* I/O thread had already waited for, even when stop() does not join.
LateBound == late <= 1

\* Seen from the callers and the broker the backend is a lossy pipe in FIFO order.
Pipe == INSTANCE LossyPipe WITH sent <- tickets, delivered <- wire
PipeSpec == Pipe!Spec

\* A thread that is told to stop ends: it is never left asleep on the queue, not
\* even when stop() could not place its sentinel on a full one.
StopTerminates ==
    \A t \in IoThreads : (Alive(t) /\ stopEvent) ~> ~Alive(t)

Serving == ThreadAlive /\ io[thread] # "cleanup"
Stopping == stopEvent \/ \E i \in 1 .. Len(queue) : queue[i] = Sentinel

\* Unless somebody stops the backend every request the queue accepted is tried,
\* whatever connections fail in between.
AcceptedIsTried ==
    \A m \in 1 .. MaxMsgs :
        (m \in Queued /\ Serving) ~> (m \in published \union failed \/ Stopping)

\* Unless somebody stops the backend a publish() blocked on a full queue gets through.
PutReturns ==
    \A c \in Publishers : (call[c] = "put" /\ Serving) ~> (call[c] = "idle" \/ Stopping)
=============================================================================
