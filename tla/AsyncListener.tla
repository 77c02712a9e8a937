---------------------------- MODULE AsyncListener ----------------------------
(***************************************************************************)
(* The asyncio consumer: AsyncListener (async_adapter.py) with the part of *)
(* aio-pika and of the broker it talks to.                                 *)
(*                                                                         *)
(* All of it runs on one event loop, so what stands between two awaits is  *)
(* one step.  start() and stop() are coroutines of the application; every  *)
(* delivery gets a handler task, which waits for the semaphore, calls the  *)
(* user and settles the message.  The fields of the object are read again  *)
(* after an await: what another coroutine has written is what is used.     *)
(*                                                                         *)
(* The k-th call of start() opens connection k and makes semaphore k and   *)
(* consumer k; 0 stands for None.  A robust connection that is lost comes  *)
(* back with its channel and consumers, but what was delivered before      *)
(* cannot be settled any more and is delivered again.                      *)
(***************************************************************************)
EXTENDS Naturals, FiniteSets

CONSTANTS
    Messages,        \* the messages in the queue
    Configs,         \* the configurations a listener is constructed with, see Config
    MaxConcurrency,  \* max_concurrency, at least 1
    MaxStarts,       \* bound on calls of start()
    MaxStops,        \* bound on calls of stop()
    MayOverlap,      \* TRUE iff start() and stop() may be called while another call runs
    MaxTasks,        \* bound on handler tasks alive at one time
    MaxFaults,       \* bound on lost connections and failing calls of start()
    MaxErrors        \* bound on callbacks that raise

\* Arguments of the constructor and the dead letter settings of the queue.
Config == [auto_ack : BOOLEAN, on_error : {"requeue", "dead_letter"},
           has_dlq : BOOLEAN, max_retries : Nat \ {0}]

ASSUME ConfigsAssumption == Configs \subseteq Config
ASSUME BoundsAssumption ==
    /\ {MaxConcurrency, MaxStarts, MaxTasks} \subseteq Nat \ {0}
    /\ {MaxStops, MaxFaults, MaxErrors} \subseteq Nat /\ MayOverlap \in BOOLEAN

VARIABLES
    config,      \* what the listener was constructed with; never changes
    start,       \* where each call of start() is
    chosen,      \* the connection whose channel the local variable q of each start() is on
    stop,        \* where stop() is
    cancelling,  \* the consumer it cancels: the tag, and the connection of the queue it calls
    closing,     \* the channel or connection stop() is closing
    conn,        \* self._conn
    chan,        \* self._channel, by its connection
    queue,       \* self._queue, by the connection of its channel
    tag,         \* self._consumer_tag
    sem,         \* self._semaphore
    permits,     \* the free permits of each semaphore made so far
    inFlight,    \* self._in_flight
    awaited,     \* the tasks stop() gathers
    cancelled,   \* the tasks the time-out of stop() has cancelled
    tasks,       \* the handler tasks, see Task
    fresh,       \* the tasks whose delivery can still be settled
    link,        \* connections: "bare" has no channel, "lost" is being restored
    consumers,   \* broker: pairs <<consumer tag, connection>>
    ready,       \* broker: messages waiting in the queue
    unacked,     \* broker: pairs <<message, connection>> it waits to be acknowledged
    acked,       \* broker: messages it has forgotten
    parked,      \* broker: messages in the dead letter exchange's retry queue
    deaths,      \* broker: the x-death count of a message
    copies,      \* broker: copies of a message in the dead letter queue
    calls,       \* history: times the user callback got a message, at most 2
    handled,     \* history: messages for which the user callback returned
    raised,      \* history: messages for which the user callback raised
    stops, faults, errors  \* number of stops, faults and errors so far

startVars == <<start, chosen>>
stopVars == <<stop, cancelling, closing, stops>>
fieldVars == <<conn, chan, queue, tag>>
semVars == <<sem, permits>>
taskVars == <<tasks, fresh, inFlight, awaited, cancelled>>
brokerVars == <<ready, unacked, acked, parked, deaths, copies>>
historyVars == <<config, calls, handled, raised>>
vars == <<startVars, stopVars, fieldVars, semVars, taskVars, link, consumers, brokerVars,
          historyVars, faults, errors>>

-----------------------------------------------------------------------------
(* Vocabulary.  The variants with a suffix are the mutations PROJECT.json   *)
(* names; no action uses them.                                              *)

Starts == 1 .. MaxStarts
Slots == 1 .. MaxTasks
AutoAck == config.auto_ack

TaskState == {"none", "created", "waiting", "running", "acking", "poison", "settling", "nacking"}
Task == [at : TaskState, msg : Messages, conn : Starts, sem : 0 .. MaxStarts, attempt : Nat]
NoTask == [at |-> "none"]

Alive(d) == tasks[d].at # "none"
\* Between acquire() and release().
Admitted(d) == tasks[d].at \notin {"none", "created", "waiting"}

Starting(k) == start[k] \notin {"idle", "skipped", "ok", "failed"}
Stopping == stop \notin {"idle", "stopped"}

\* acquire() of semaphore s does not have to wait.
Free_Unchecked(s) == TRUE
Free(s) == permits[s] > 0

\* self._conn and not self._conn.is_closed
Connected_Never == FALSE
Connected == conn # 0 /\ link[conn] # "closed"

\* There is a channel, on connection c, and calls on it succeed.
Usable(c) == c # 0 /\ link[c] = "up"

\* retry_attempt_from_headers over the x-death header of a message.
Attempt(m) == 1 + deaths[m]

\* Where the except clause goes when the callback, or ack(), has raised.
FailsAt(d) == IF config.has_dlq /\ tasks[d].attempt >= config.max_retries THEN "poison" ELSE "nacking"

\* Where the handler goes when the copy is in the dead letter queue.
CopiedAt_Nack == "nacking"
CopiedAt == "settling"

\* What the handler does when the copy could not be published.
NotCopiedAt_Settle == "settling"
NotCopiedAt == "nacking"

\* The no_ack flag of the consumer.
NoAck_Forgotten == FALSE
NoAck == AutoAck

\* What a new semaphore admits.
NewPermits_OneMore == MaxConcurrency + 1
NewPermits == MaxConcurrency

\* The tasks the time-out of wait_for cancels.
TimedOut_None == {}
TimedOut == awaited

\* What gather, under wait_for, waits for.
AllOver_OrTimedOut == awaited = {} \/ stop = "timedout"
AllOver == awaited = {}

\* The finally clause of _run_handler releases the semaphore that is there now.
Released_Not == permits
Released == [k \in DOMAIN permits |-> permits[k] + IF k = sem THEN 1 ELSE 0]

Delivery(d) == <<tasks[d].msg, tasks[d].conn>>

NoConsumer == <<0, 0>>

Init ==
    /\ config \in Configs
    /\ start = [k \in Starts |-> "idle"] /\ chosen = [k \in Starts |-> 0]
    /\ stop = "idle" /\ cancelling = NoConsumer /\ closing = 0 /\ stops = 0
    /\ conn = 0 /\ chan = 0 /\ queue = 0 /\ tag = 0
    /\ sem = 0 /\ permits = [k \in {} |-> 0]
    /\ tasks = [d \in Slots |-> NoTask] /\ fresh = {} /\ inFlight = {} /\ awaited = {} /\ cancelled = {}
    /\ link = [k \in Starts |-> "none"] /\ consumers = {}
    /\ ready = Messages /\ unacked = {} /\ acked = {} /\ parked = {}
    /\ deaths = [m \in Messages |-> 0] /\ copies = [m \in Messages |-> 0]
    /\ calls = [m \in Messages |-> 0] /\ handled = {} /\ raised = {}
    /\ faults = 0 /\ errors = 0

-----------------------------------------------------------------------------
(* start().  Nothing is undone when one of its calls raises.                *)

StartCall(k) ==
    /\ start[k] = "idle" /\ \A j \in Starts : j < k => start[j] # "idle"
    /\ start' = [start EXCEPT ![k] = IF Connected THEN "skipped" ELSE "connecting"]
    /\ MayOverlap \/ (~Stopping /\ \A j \in Starts : ~Starting(j))
    /\ UNCHANGED <<chosen, stopVars, fieldVars, semVars, taskVars, link, consumers, brokerVars,
                   historyVars, faults, errors>>

\* The factory has returned; the same step asks for a channel.
ConnectionMade(k) ==
    /\ start[k] = "connecting"
    /\ link' = [link EXCEPT ![k] = "bare"] /\ conn' = k
    /\ start' = [start EXCEPT ![k] = "opening"]
    /\ UNCHANGED <<chosen, stopVars, chan, queue, tag, semVars, taskVars, consumers, brokerVars,
                   historyVars, faults, errors>>

ChannelOpened(k) ==
    /\ start[k] = "opening" /\ link[k] = "bare"
    /\ link' = [link EXCEPT ![k] = "up"] /\ chan' = k
    /\ start' = [start EXCEPT ![k] = "declaring"]
    /\ UNCHANGED <<chosen, stopVars, conn, queue, tag, semVars, taskVars, consumers, brokerVars,
                   historyVars, faults, errors>>

\* set_qos, declare_exchange: the queue is then declared on what self._channel has become.
Declared(k) ==
    /\ start[k] = "declaring" /\ Usable(chan)
    /\ chosen' = [chosen EXCEPT ![k] = chan]
    /\ start' = [start EXCEPT ![k] = "binding"]
    /\ UNCHANGED <<stopVars, fieldVars, semVars, taskVars, link, consumers, brokerVars,
                   historyVars, faults, errors>>

\* declare_queue, bind, and a new semaphore in place of the old one.
Bound(k) ==
    /\ start[k] = "binding" /\ Usable(chosen[k])
    /\ queue' = chosen[k] /\ sem' = k
    /\ permits' = [j \in DOMAIN permits \union {k} |-> IF j = k THEN NewPermits ELSE permits[j]]
    /\ start' = [start EXCEPT ![k] = "consuming"]
    /\ UNCHANGED <<chosen, stopVars, conn, chan, tag, taskVars, link, consumers, brokerVars,
                   historyVars, faults, errors>>

\* The broker has the consumer before consume() returns its tag.
Registered(k) ==
    /\ start[k] = "consuming" /\ Usable(chosen[k])
    /\ consumers' = consumers \union {<<k, chosen[k]>>}
    /\ start' = [start EXCEPT ![k] = "registered"]
    /\ UNCHANGED <<chosen, stopVars, fieldVars, semVars, taskVars, link, brokerVars,
                   historyVars, faults, errors>>

Started(k) ==
    /\ start[k] = "registered"
    /\ tag' = k
    /\ start' = [start EXCEPT ![k] = "ok"]
    /\ UNCHANGED <<chosen, stopVars, conn, chan, queue, semVars, taskVars, link, consumers,
                   brokerVars, historyVars, faults, errors>>

\* The call a start() awaits cannot succeed: the channel is None, or not there any more.
Hopeless(k) ==
    \/ start[k] = "opening" /\ link[k] = "closed"
    \/ start[k] = "declaring" /\ ~Usable(chan)
    \/ start[k] \in {"binding", "consuming"} /\ ~Usable(chosen[k])

StartFails(k) ==
    /\ Starting(k)
    /\ start' = [start EXCEPT ![k] = "failed"]
    /\ IF Hopeless(k) THEN UNCHANGED faults ELSE faults < MaxFaults /\ faults' = faults + 1
    /\ UNCHANGED <<chosen, stopVars, fieldVars, semVars, taskVars, link, consumers, brokerVars,
                   historyVars, errors>>

-----------------------------------------------------------------------------
(* The connection and the broker.                                           *)

\* The deliveries of the connections K cannot be settled any more.
PutBack(K) ==
    /\ ready' = ready \union {u[1] : u \in {v \in unacked : v[2] \in K}}
    /\ unacked' = {u \in unacked : u[2] \notin K}
    /\ fresh' = {d \in fresh : tasks[d].conn \notin K}

ConnectionLost(k) ==
    /\ link[k] = "up" /\ faults < MaxFaults
    /\ link' = [link EXCEPT ![k] = "lost"] /\ faults' = faults + 1
    /\ PutBack({k})
    /\ UNCHANGED <<startVars, stopVars, fieldVars, semVars, tasks, inFlight, awaited, cancelled, consumers, acked, parked,
                   deaths, copies, historyVars, errors>>

Reconnected(k) ==
    /\ link[k] = "lost"
    /\ link' = [link EXCEPT ![k] = "up"]
    /\ UNCHANGED <<startVars, stopVars, fieldVars, semVars, taskVars, consumers, brokerVars,
                   historyVars, faults, errors>>

\* _on_message: a task per delivery.
Deliver(k) == \E m \in ready : \E d \in Slots :
    /\ link[k] = "up" /\ \E c \in consumers : c[2] = k
    /\ ~Alive(d) /\ \A e \in Slots : e < d => Alive(e)
    /\ tasks' = [tasks EXCEPT ![d] = [at |-> "created", msg |-> m, conn |-> k, sem |-> 0,
                                      attempt |-> Attempt(m)]]
    /\ fresh' = fresh \union {d} /\ inFlight' = inFlight \union {d}
    /\ ready' = ready \ {m}
    /\ IF NoAck THEN acked' = acked \union {m} /\ UNCHANGED unacked
       ELSE unacked' = unacked \union {<<m, k>>} /\ UNCHANGED acked
    /\ UNCHANGED <<startVars, stopVars, fieldVars, semVars, awaited, cancelled, link, consumers,
                   parked, deaths, copies, historyVars, faults, errors>>

\* The retry queue gives a message back, with one more entry in x-death.
Unpark(m) ==
    /\ m \in parked
    /\ parked' = parked \ {m} /\ ready' = ready \union {m}
    /\ deaths' = [deaths EXCEPT ![m] = @ + 1]
    /\ UNCHANGED <<startVars, stopVars, fieldVars, semVars, taskVars, link, consumers, unacked,
                   acked, copies, historyVars, faults, errors>>

-----------------------------------------------------------------------------
(* _run_handler, for the task in slot d.                                    *)

loopVars == <<startVars, stopVars, fieldVars, link, consumers, faults>>

Goto(d, at) == /\ tasks' = [tasks EXCEPT ![d].at = at]
               /\ UNCHANGED <<fresh, inFlight, awaited, cancelled>>

\* The task is over, and its done callback has run.
Over(d) ==
    /\ tasks' = [tasks EXCEPT ![d] = NoTask]
    /\ fresh' = fresh \ {d} /\ inFlight' = inFlight \ {d}
    /\ awaited' = awaited \ {d} /\ cancelled' = cancelled \ {d}

\* The finally clause, whose exceptions are swallowed when there is no semaphore.
Finish(d) == Over(d) /\ permits' = Released /\ UNCHANGED sem

Admit(d, s) ==
    /\ tasks' = [tasks EXCEPT ![d].at = "running", ![d].sem = s]
    /\ permits' = [permits EXCEPT ![s] = @ - 1]
    /\ calls' = [calls EXCEPT ![tasks[d].msg] = IF @ < 2 THEN @ + 1 ELSE 2]
    /\ UNCHANGED <<sem, fresh, inFlight, awaited, cancelled, config, handled, raised>>

\* The first step of the task; without a semaphore its assertion ends it.
Begin(d) ==
    /\ tasks[d].at = "created" /\ d \notin cancelled
    /\ \/ sem = 0 /\ Over(d) /\ UNCHANGED <<semVars, historyVars>>
       \/ sem # 0 /\ Free(sem) /\ Admit(d, sem)
       \/ /\ sem # 0 /\ ~Free(sem)
          /\ tasks' = [tasks EXCEPT ![d].at = "waiting", ![d].sem = sem]
          /\ UNCHANGED <<semVars, fresh, inFlight, awaited, cancelled, historyVars>>
    /\ UNCHANGED <<loopVars, brokerVars, errors>>

Acquired(d) ==
    /\ tasks[d].at = "waiting" /\ d \notin cancelled
    /\ Free(tasks[d].sem)
    /\ Admit(d, tasks[d].sem)
    /\ UNCHANGED <<loopVars, brokerVars, errors>>

CallbackReturns(d) ==
    /\ tasks[d].at = "running" /\ d \notin cancelled
    /\ handled' = handled \union {tasks[d].msg}
    /\ \/ AutoAck /\ Finish(d)
       \/ ~AutoAck /\ Goto(d, "acking") /\ UNCHANGED semVars
    /\ UNCHANGED <<loopVars, brokerVars, config, calls, raised, errors>>

CallbackRaises(d) ==
    /\ tasks[d].at = "running" /\ d \notin cancelled
    /\ errors < MaxErrors /\ errors' = errors + 1
    /\ raised' = raised \union {tasks[d].msg}
    /\ \/ AutoAck /\ Finish(d)
       \/ ~AutoAck /\ Goto(d, FailsAt(d)) /\ UNCHANGED semVars
    /\ UNCHANGED <<loopVars, brokerVars, config, calls, handled>>

\* What an ack, a nack or a publish does at the broker.
Acked(d) == /\ unacked' = unacked \ {Delivery(d)} /\ acked' = acked \union {tasks[d].msg}
            /\ UNCHANGED <<ready, parked, deaths, copies>>
Nacked(d) ==
    /\ unacked' = unacked \ {Delivery(d)}
    /\ IF config.on_error = "dead_letter"
       THEN parked' = parked \union {tasks[d].msg} /\ UNCHANGED ready
       ELSE ready' = ready \union {tasks[d].msg} /\ UNCHANGED parked
    /\ UNCHANGED <<acked, deaths, copies>>
Copied(d) == /\ copies' = [copies EXCEPT ![tasks[d].msg] = @ + 1]
             /\ UNCHANGED <<ready, unacked, acked, parked, deaths>>

\* ack() after the callback: inside the try block, so its failure is treated as the callback's.
Ack(d) ==
    /\ tasks[d].at = "acking" /\ d \notin cancelled
    /\ \/ d \in fresh /\ Acked(d) /\ Finish(d)
       \/ d \notin fresh /\ Goto(d, FailsAt(d)) /\ UNCHANGED <<semVars, brokerVars>>
    /\ UNCHANGED <<loopVars, historyVars, errors>>

\* Publish to the dead letter queue, on what self._channel is now.
Poison(d) ==
    /\ tasks[d].at = "poison" /\ d \notin cancelled
    /\ \/ Usable(chan) /\ Copied(d) /\ Goto(d, CopiedAt)
       \/ ~Usable(chan) /\ Goto(d, NotCopiedAt) /\ UNCHANGED brokerVars
    /\ UNCHANGED <<semVars, loopVars, historyVars, errors>>

\* The broker does not take the copy.
PoisonRefused(d) ==
    /\ tasks[d].at = "poison" /\ d \notin cancelled /\ Usable(chan)
    /\ faults < MaxFaults /\ faults' = faults + 1
    /\ Goto(d, NotCopiedAt)
    /\ UNCHANGED <<startVars, stopVars, fieldVars, link, consumers, semVars, brokerVars,
                   historyVars, errors>>

PoisonAck(d) ==
    /\ tasks[d].at = "settling" /\ d \notin cancelled
    /\ \/ d \in fresh /\ Acked(d) /\ Finish(d)
       \/ d \notin fresh /\ Goto(d, "nacking") /\ UNCHANGED <<semVars, brokerVars>>
    /\ UNCHANGED <<loopVars, historyVars, errors>>

Nack_Not(d) ==
    /\ tasks[d].at = "nacking" /\ d \notin cancelled
    /\ Finish(d)
    /\ UNCHANGED <<brokerVars, loopVars, historyVars, errors>>

\* "Failed to nack message" is only logged.
Nack(d) ==
    /\ tasks[d].at = "nacking" /\ d \notin cancelled
    /\ \/ d \in fresh /\ Nacked(d)
       \/ d \notin fresh /\ UNCHANGED brokerVars
    /\ Finish(d)
    /\ UNCHANGED <<loopVars, historyVars, errors>>

\* CancelledError at the await the task is in; what it has sent may have arrived.
CancelHandler(d) ==
    /\ d \in cancelled
    /\ IF Admitted(d) THEN Finish(d) ELSE Over(d) /\ UNCHANGED semVars
    /\ \/ UNCHANGED brokerVars
       \/ d \in fresh /\ tasks[d].at \in {"acking", "settling"} /\ Acked(d)
       \/ d \in fresh /\ tasks[d].at = "nacking" /\ Nacked(d)
       \/ tasks[d].at = "poison" /\ Usable(chan) /\ Copied(d)
    /\ UNCHANGED <<loopVars, historyVars, errors>>

-----------------------------------------------------------------------------
(* stop().                                                                  *)

\* The finally clause closes the connection self._conn is now; is_closed is TRUE from the
\* call of close() on.  l, cs and K are the connections, the consumers, and the connections
\* whose deliveries go back, as the caller leaves them.
CloseConnection(l, cs, K) ==
    IF conn # 0 /\ l[conn] # "closed"
    THEN /\ stop' = "closing_conn" /\ closing' = conn
         /\ link' = [l EXCEPT ![conn] = "closed"]
         /\ consumers' = {c \in cs : c[2] # conn}
         /\ PutBack(K \union {conn})
         /\ UNCHANGED conn
    ELSE /\ stop' = "stopped" /\ closing' = 0 /\ conn' = 0
         /\ link' = l /\ consumers' = cs /\ PutBack(K)

\* The finally clause of stop() up to its first await.
CleanUp(cs) ==
    /\ tag' = 0 /\ inFlight' = {} /\ sem' = 0
    /\ IF chan # 0 /\ link[chan] \in {"up", "lost"}
       THEN /\ stop' = "closing_chan" /\ closing' = chan /\ consumers' = cs
            /\ UNCHANGED <<conn, chan, link, ready, unacked, fresh>>
       ELSE chan' = 0 /\ CloseConnection(link, cs, {})
    /\ UNCHANGED <<queue, permits, awaited, cancelled>>

\* gather(*list(self._in_flight)): tasks made from here on are not waited for.
WaitForHandlers(cs) ==
    IF inFlight = {} THEN CleanUp(cs)
    ELSE /\ stop' = "waiting" /\ awaited' = inFlight /\ consumers' = cs
         /\ UNCHANGED <<closing, fieldVars, semVars, inFlight, cancelled, link, ready, unacked, fresh>>

stopUnchanged == <<startVars, tasks, acked, parked, deaths, copies, historyVars, faults, errors>>

StopCall ==
    /\ ~Stopping /\ stops < MaxStops /\ stops' = stops + 1
    /\ MayOverlap \/ \A j \in Starts : ~Starting(j)
    /\ IF queue # 0 /\ tag # 0
       THEN /\ stop' = "cancelling" /\ cancelling' = <<tag, queue>>
            /\ UNCHANGED <<closing, fieldVars, semVars, inFlight, awaited, cancelled, link,
                           consumers, ready, unacked, fresh>>
       ELSE WaitForHandlers(consumers) /\ UNCHANGED cancelling
    /\ UNCHANGED stopUnchanged

\* cancel() raises when the connection is lost, and keeps the consumer; that is swallowed.
\* The queue and the tag are those of the call, whatever a start() has written since.
CancelReturned ==
    /\ stop = "cancelling"
    /\ WaitForHandlers(IF link[cancelling[2]] = "up" THEN consumers \ {cancelling} ELSE consumers)
    /\ cancelling' = NoConsumer
    /\ UNCHANGED <<stops, stopUnchanged>>

\* wait_for: every task gathered is over, by itself or because it was cancelled.
HandlersDone ==
    /\ stop \in {"waiting", "timedout"} /\ AllOver
    /\ CleanUp(consumers)
    /\ UNCHANGED <<cancelling, stops, stopUnchanged>>

StopTimesOut ==
    /\ stop = "waiting" /\ awaited # {}
    /\ stop' = "timedout" /\ cancelled' = TimedOut
    /\ UNCHANGED <<cancelling, closing, fieldVars, semVars, inFlight, awaited, link, consumers,
                   ready, unacked, fresh, stops, stopUnchanged>>

ChannelClosed ==
    /\ stop = "closing_chan" /\ chan' = 0
    /\ CloseConnection([link EXCEPT ![closing] = IF @ = "up" THEN "bare" ELSE @],
                       {c \in consumers : c[2] # closing}, {closing})
    /\ UNCHANGED <<cancelling, queue, tag, semVars, inFlight, awaited, cancelled, stops,
                   stopUnchanged>>

ConnectionClosed ==
    /\ stop = "closing_conn"
    /\ conn' = 0 /\ stop' = "stopped" /\ closing' = 0
    /\ UNCHANGED <<cancelling, chan, queue, tag, semVars, inFlight, awaited, cancelled, link,
                   consumers, ready, unacked, fresh, stops, stopUnchanged>>

-----------------------------------------------------------------------------

StartStep(k) ==
    \/ ConnectionMade(k) \/ ChannelOpened(k) \/ Declared(k) \/ Bound(k)
    \/ Registered(k) \/ Started(k) \/ (IF Hopeless(k) THEN StartFails(k) ELSE FALSE)

\* What the event loop does with a handler task by itself; a callback may never return.
HandlerStep(d) ==
    \/ Begin(d) \/ Acquired(d) \/ Ack(d) \/ Poison(d) \/ PoisonAck(d) \/ Nack(d) \/ CancelHandler(d)

StopStep == CancelReturned \/ HandlersDone \/ StopTimesOut \/ ChannelClosed \/ ConnectionClosed

Next ==
    \/ \E k \in Starts : \/ StartCall(k) \/ StartStep(k) \/ StartFails(k)
                         \/ ConnectionLost(k) \/ Reconnected(k) \/ Deliver(k)
    \/ \E m \in Messages : Unpark(m)
    \/ \E d \in Slots : HandlerStep(d) \/ PoisonRefused(d) \/ CallbackReturns(d) \/ CallbackRaises(d)
    \/ StopCall \/ StopStep

Spec == Init /\ [][Next]_vars

\* Calls of aio-pika return, a lost connection is restored, the broker delivers, the event
\* loop runs every task that can go on, and the timer of wait_for goes off.  Nobody has to
\* call start() or stop(), and a callback may hang.
Fairness ==
    /\ \A k \in Starts : /\ WF_vars(StartStep(k)) /\ WF_vars(Reconnected(k))
                         /\ WF_vars(Deliver(k))
    /\ \A m \in Messages : WF_vars(Unpark(m))
    /\ \A d \in Slots : WF_vars(HandlerStep(d))
    /\ WF_vars(StopStep)

FairSpec == Spec /\ Fairness

-----------------------------------------------------------------------------
(* Properties.                                                              *)

\* Type invariant: what each field of the object, of the event loop and of the broker holds.
TypeOK ==
    /\ config \in Config
    /\ start \in [Starts -> {"idle", "skipped", "connecting", "opening", "declaring", "binding",
                             "consuming", "registered", "ok", "failed"}]
    /\ chosen \in [Starts -> 0 .. MaxStarts]
    /\ stop \in {"idle", "cancelling", "waiting", "timedout", "closing_chan", "closing_conn", "stopped"}
    /\ conn \in 0 .. MaxStarts /\ chan \in 0 .. MaxStarts /\ queue \in 0 .. MaxStarts
    /\ tag \in 0 .. MaxStarts /\ sem \in 0 .. MaxStarts /\ closing \in 0 .. MaxStarts
    /\ cancelling \in (0 .. MaxStarts) \X (0 .. MaxStarts)
    /\ DOMAIN permits \subseteq Starts /\ \A k \in DOMAIN permits : permits[k] \in Nat
    /\ sem # 0 => sem \in DOMAIN permits
    /\ tasks \in [Slots -> Task \union {NoTask}]
    /\ inFlight \subseteq Slots /\ awaited \subseteq Slots /\ cancelled \subseteq Slots
    /\ link \in [Starts -> {"none", "bare", "up", "lost", "closed"}]
    /\ consumers \subseteq Starts \X Starts
    /\ ready \subseteq Messages /\ unacked \subseteq Messages \X Starts /\ fresh \subseteq Slots
    /\ acked \subseteq Messages /\ parked \subseteq Messages
    /\ deaths \in [Messages -> Nat] /\ copies \in [Messages -> Nat]
    /\ calls \in [Messages -> 0 .. 2] /\ handled \subseteq Messages /\ raised \subseteq Messages
    /\ stops \in 0 .. MaxStops /\ faults \in 0 .. MaxFaults /\ errors \in 0 .. MaxErrors

\* With auto_ack=False the broker forgets a message only when a callback has handled it or a
\* copy is in the dead letter queue, whatever is lost, cancelled or stopped in between.
AtLeastOnce ==
    ~AutoAck => \A m \in acked : m \in handled \/ copies[m] > 0

\* With auto_ack=True the callback sees no message twice, connections being restored included.
AtMostOnce == AutoAck => \A m \in Messages : calls[m] <= 1

\* Callbacks run "in background tasks with bounded concurrency" (docs/USAGE.md), as long as
\* start() has made one semaphore: deliveries that arrive after a lost connection share it
\* with the handlers of those from before.  A handler counts from acquire() to release().
Concurrency == Cardinality({d \in Slots : Admitted(d)})
BoundedUntilRestart == Cardinality(DOMAIN permits) <= 1 => Concurrency <= MaxConcurrency

\* A poison message leaves the queue when it is copied to the dead letter queue.  It can come
\* back, and be copied once more, only each time its delivery was taken away before it was
\* settled (connection lost, or closed by stop()).
PoisonLeaves ==
    \A m \in Messages : copies[m] > 0 =>
        /\ copies[m] <= 1 + faults + stops
        /\ m \in ready \union parked => faults + stops > 0

\* Once stop() has returned, and no start() was called meanwhile, no connection is left open
\* and the broker has no consumer, also after a start() that failed half way.
StopCloses ==
    (~MayOverlap /\ stop = "stopped" /\ conn = 0 /\ ~\E k \in Starts : Starting(k)) =>
        consumers = {} /\ \A k \in Starts : link[k] \in {"none", "closed"}

\* Without faults no handler outlives stop(), however long its callback takes.
NoHandlerSurvives ==
    (~MayOverlap /\ faults = 0 /\ stop \in {"closing_chan", "closing_conn"}) =>
        \A d \in Slots : ~Alive(d)

\* The listener is one that DeliveryContract describes: step by step, a message is forgotten,
\* passed to the callback or copied only when the contract allows it.
Contract == INSTANCE DeliveryContract
                WITH auto <- AutoAck, kept <- Messages \ acked,
                     copied <- {m \in Messages : copies[m] > 0}
ContractSpec == Contract!Spec

\* stop() returns though callbacks may hang.
StopReturns == Stopping ~> ~Stopping

\* Once a start() has succeeded every message is eventually acknowledged, after whatever lost
\* connections, retries and copies, and nothing is left unsettled at the broker or in a
\* handler, unless somebody stops the listener or a callback never returns.
AllSettled ==
    (\E k \in Starts : start[k] = "ok") ~>
        \/ acked = Messages /\ unacked = {} /\ \A d \in Slots : ~Alive(d)
        \/ stop # "idle"
        \/ \E d \in Slots : tasks[d].at = "running"
=============================================================================
