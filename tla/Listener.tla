------------------------------- MODULE Listener -------------------------------
(***************************************************************************)
(* The synchronous consumer: Listener (sync_adapter.py) with the part of   *)
(* the broker and of pika it talks to.                                     *)
(*                                                                         *)
(* run() is one I/O thread: it connects, opens a channel with a consumer   *)
(* and pumps process_data_events, which runs the callbacks other threads   *)
(* scheduled and then dispatches the buffered deliveries to a wrapper.     *)
(* With offload=True the wrapper hands the user callback to a thread pool  *)
(* and the worker schedules the ack or nack back onto the I/O thread.      *)
(* stop_listening() runs on a thread of the application.                   *)
(*                                                                         *)
(* The queue is the durable one of predefined_queue=True: it outlives the  *)
(* connection, and the broker puts back what was not acknowledged when the *)
(* channel goes away.  A delivery tag counts per channel, as in AMQP.      *)
(***************************************************************************)
EXTENDS Naturals, Sequences, FiniteSets

CONSTANTS
    Messages,      \* the messages in the queue
    Configs,       \* the configurations a listener is constructed with, see Config
    Prefetch,      \* prefetch_count
    MayStop,       \* TRUE iff stop_listening() is called at some time
    PowLimit,      \* consecutive failures at which multiplier**exp overflows
    MaxFaults      \* bound on broken connections, closed channels and handler errors

\* Arguments of the constructor and of the queue's dead letter settings.
Config == [offload : BOOLEAN, auto_ack : BOOLEAN, on_error : {"requeue", "dead_letter"},
           has_dlq : BOOLEAN, max_retries : Nat \ {0}, max_in_flight : Nat \ {0}]

ASSUME ConfigsAssumption == Configs \subseteq Config
ASSUME BoundsAssumption ==
    /\ {Prefetch, PowLimit} \subseteq Nat \ {0}
    /\ MaxFaults \in Nat /\ MayStop \in BOOLEAN

VARIABLES
    config,      \* what the listener was constructed with; never changes
    io,          \* where run() is
    cur,         \* the delivery the I/O thread is dispatching
    conn,        \* __connection, see SyncPublishBackend for "broken"
    chan,        \* __channel: the number of channels opened so far
    chanOpen,    \* __channel.is_open
    nextTag,     \* the next delivery tag of the channel
    inbox,       \* deliveries pika has buffered for the channel
    callbacks,   \* what add_callback_threadsafe has queued on the connection
    loopFailures, \* __loop_failures
    jobs,        \* deliveries a worker is responsible for, see Job
    permits,     \* __in_flight_sema
    stopMe,      \* stop_me
    poolDown,    \* the executor has been shut down
    stop,        \* where stop_listening() is
    ready,       \* broker: messages waiting in the queue
    unacked,     \* broker: deliveries it waits to be acknowledged
    acked,       \* broker: messages it has forgotten
    parked,      \* broker: messages in the dead letter exchange's retry queue
    deaths,      \* broker: the x-death count of a message
    dlq,         \* broker: messages with a copy in the dead letter queue
    calls,       \* history: times the user callback got a message, at most 2
    handled,     \* history: messages for which the user callback returned
    faults       \* number of faults so far

ioVars == <<io, cur, loopFailures>>
connVars == <<conn, chan, chanOpen, nextTag, inbox, callbacks>>
poolVars == <<jobs, permits>>
stopVars == <<stopMe, poolDown, stop>>
brokerVars == <<ready, unacked, acked, parked, deaths, dlq>>
userVars == <<config, calls, handled>>
vars == <<ioVars, connVars, poolVars, stopVars, brokerVars, userVars, faults>>

-----------------------------------------------------------------------------
(* Vocabulary.  The variants with a suffix are the mutations PROJECT.json   *)
(* names; no action uses them.                                              *)

Offload == config.offload
AutoAck == config.auto_ack
DeadLetter == config.on_error = "dead_letter"
MaxInFlight == config.max_in_flight

Delivery == [msg : Messages, ch : Nat, tag : Nat, attempt : Nat]
NoDelivery == [msg |-> {}, ch |-> 0, tag |-> 0, attempt |-> 0]

\* What is to be told to the broker about a delivery.
Kinds == {"ack", "poison", "dead_letter", "requeue"}
Callback == [kind : Kinds, d : Delivery] \union {[kind |-> "close", d |-> NoDelivery]}
Job == [d : Delivery, at : {"queued", "done", "post", "direct"}, kind : Kinds]

IsOpen == conn \in {"open", "broken"}

\* A call on the channel the delivery came from does not raise.
Usable(d) == d.ch = chan /\ chanOpen

\* retry_attempt_from_headers over the x-death header of a message.
Attempt(m) == 1 + deaths[m]

\* What _on_done and _handle_fail decide when the user callback raised.
FailKind_Requeue(d) == "requeue"
FailKind(d) ==
    IF config.has_dlq /\ d.attempt >= config.max_retries THEN "poison"
    ELSE IF DeadLetter THEN "dead_letter" ELSE "requeue"

\* The auto_ack flag the consumer is registered with.
ConsumerAutoAck_Forgotten == FALSE
ConsumerAutoAck == AutoAck

\* The channel a settlement is sent on: the one that is in the wrapper's closure.
SentOn_Current(d) == chan
SentOn(d) == d.ch

\* The copy of a poison message that reaches the dead letter queue.
Copy(d) == IF Usable(d) /\ conn = "open" THEN {d.msg} ELSE {}

\* __loop_failures after process_data_events has returned.
FailuresOncePumped_OneLess == loopFailures - 1
FailuresOncePumped == 0

\* The permits after submit() has raised.
PermitsOnceRefused_Kept == permits - 1
PermitsOnceRefused == permits

\* Where an exception of the user callback takes the I/O thread.
OnError == IF AutoAck THEN "failed" ELSE "nack"

\* How _on_done settles, as it sees the connection.
Settling_Direct == "direct"
Settling == IF IsOpen THEN "post" ELSE "direct"

\* The finally clause of _on_done.
Released_Not == permits
Released == permits + 1

Called(m) == calls' = [calls EXCEPT ![m] = IF @ < 2 THEN @ + 1 ELSE 2]

Init ==
    /\ config \in Configs
    /\ io = "new" /\ cur = NoDelivery /\ loopFailures = 0
    /\ conn = "none" /\ chan = 0 /\ chanOpen = FALSE /\ nextTag = 1
    /\ inbox = << >> /\ callbacks = << >>
    /\ jobs = {} /\ permits = MaxInFlight
    /\ stopMe = FALSE /\ poolDown = FALSE /\ stop = "idle"
    /\ ready = Messages /\ unacked = {} /\ acked = {} /\ parked = {}
    /\ deaths = [m \in Messages |-> 0] /\ dlq = {}
    /\ calls = [m \in Messages |-> 0] /\ handled = {}
    /\ faults = 0

-----------------------------------------------------------------------------
(* The broker, as far as the listener can tell *)

\* The channel is gone: its unacknowledged deliveries go back to the queue.
Requeue ==
    /\ ready' = ready \union {e.msg : e \in unacked}
    /\ unacked' = {}
    /\ UNCHANGED <<acked, parked, deaths, dlq>>

BrokerDeliver(m) ==
    /\ m \in ready
    /\ chanOpen /\ conn = "open"
    /\ ConsumerAutoAck \/ Cardinality(unacked) < Prefetch
    /\ LET d == [msg |-> m, ch |-> chan, tag |-> nextTag, attempt |-> Attempt(m)]
       IN  /\ inbox' = Append(inbox, d)
           /\ IF ConsumerAutoAck THEN acked' = acked \union {m} /\ UNCHANGED unacked
                                 ELSE unacked' = unacked \union {d} /\ UNCHANGED acked
    /\ ready' = ready \ {m}
    /\ nextTag' = nextTag + 1
    /\ UNCHANGED <<ioVars, conn, chan, chanOpen, callbacks, poolVars, stopVars,
                   parked, deaths, dlq, userVars, faults>>

\* The retry queue gives a message back, with one more entry in x-death.
BrokerReturn(m) ==
    /\ m \in parked
    /\ parked' = parked \ {m}
    /\ ready' = ready \union {m}
    /\ deaths' = [deaths EXCEPT ![m] = @ + 1]
    /\ UNCHANGED <<ioVars, connVars, poolVars, stopVars, unacked, acked, dlq, userVars, faults>>

\* The connection breaks; the listener does not know yet.
ConnBreak ==
    /\ conn = "open" /\ faults < MaxFaults
    /\ conn' = "broken"
    /\ faults' = faults + 1
    /\ Requeue
    /\ UNCHANGED <<ioVars, chan, chanOpen, nextTag, inbox, callbacks, poolVars, stopVars, userVars>>

\* The broker closes the channel and leaves the connection alone.
ChanClose ==
    /\ conn = "open" /\ chanOpen /\ faults < MaxFaults
    /\ chanOpen' = FALSE
    /\ inbox' = << >>
    /\ faults' = faults + 1
    /\ Requeue
    /\ UNCHANGED <<ioVars, conn, chan, nextTag, callbacks, poolVars, stopVars, userVars>>

\* basic_ack or basic_nack on the delivery's channel: the broker looks up the tag.
\* What is written to a broken connection is lost.
Settle(kind, d) ==
    LET hit == IF conn = "open" /\ chanOpen
               THEN {e \in unacked : e.ch = SentOn(d) /\ e.tag = d.tag} ELSE {}
        msgs == {e.msg : e \in hit}
    IN  /\ unacked' = unacked \ hit
        /\ acked' = IF kind = "ack" THEN acked \union msgs ELSE acked
        /\ parked' = IF kind = "dead_letter" THEN parked \union msgs ELSE parked
        /\ ready' = IF kind = "requeue" THEN ready \union msgs ELSE ready
        /\ UNCHANGED deaths

\* Channel and connection are closed and what was buffered on them is gone.
Close(to) ==
    /\ conn' = to
    /\ chanOpen' = FALSE
    /\ inbox' = << >>
    /\ callbacks' = << >>
    /\ Requeue
    /\ UNCHANGED <<chan, nextTag>>

-----------------------------------------------------------------------------
(* run(): the loop *)

Start ==
    /\ io = "new"
    /\ io' = "top"
    /\ UNCHANGED <<cur, loopFailures, connVars, poolVars, stopVars, brokerVars, userVars, faults>>

\* The only place where the loop looks at stop_me; nothing is closed after it.
IoExit ==
    /\ io = "top" /\ stopMe
    /\ io' = "exited"
    /\ UNCHANGED <<cur, loopFailures, connVars, poolVars, stopVars, brokerVars, userVars, faults>>

IoLoop ==
    /\ io = "top" /\ ~stopMe
    /\ io' = IF ~IsOpen THEN "connect" ELSE IF ~chanOpen THEN "setup" ELSE "pump"
    /\ UNCHANGED <<cur, loopFailures, connVars, poolVars, stopVars, brokerVars, userVars, faults>>

\* The factory returns: stop_me may have been set in the meantime.
IoConnect ==
    /\ io = "connect"
    /\ conn' = "open"
    /\ io' = "setup"
    /\ UNCHANGED <<cur, loopFailures, chan, chanOpen, nextTag, inbox, callbacks, poolVars,
                   stopVars, brokerVars, userVars, faults>>

\* sync_retry: an attempt fails and is repeated, or it was the last one (max_attempts),
\* or stop_predicate ends the attempts.
IoConnectFails ==
    /\ io = "connect"
    /\ \/ faults < MaxFaults /\ faults' = faults + 1 /\ io' \in {"connect", "failed"}
       \/ stopMe /\ io' = "failed" /\ UNCHANGED faults
    /\ UNCHANGED <<cur, loopFailures, connVars, poolVars, stopVars, brokerVars, userVars>>

\* _setup_channel_and_consumer: a new channel, its tags start over.
IoSetup ==
    /\ io = "setup" /\ conn = "open"
    /\ chan' = chan + 1
    /\ chanOpen' = TRUE
    /\ nextTag' = 1
    /\ inbox' = << >>
    /\ io' = "pump"
    /\ UNCHANGED <<cur, loopFailures, conn, callbacks, poolVars, stopVars, brokerVars, userVars, faults>>

\* channel() or basic_consume raises: the peer is gone, or the broker refused one of
\* the declarations (which is only logged) and thereby closed the new channel.
IoSetupFails ==
    /\ io = "setup"
    /\ \/ conn # "open" /\ UNCHANGED faults
       \/ faults < MaxFaults /\ faults' = faults + 1
    /\ io' = "failed"
    /\ UNCHANGED <<cur, loopFailures, connVars, poolVars, stopVars, brokerVars, userVars>>

\* The except clauses: when not stopping, close, count and back off; an overflow
\* in delay_for_attempt leaves run() (see SyncPublishBackend).
IoFail ==
    /\ io = "failed"
    /\ cur' = NoDelivery
    /\ IF stopMe
       THEN io' = "top" /\ UNCHANGED <<loopFailures, connVars, brokerVars>>
       ELSE /\ Close("none")
            /\ loopFailures' = loopFailures + 1
            /\ io' = IF loopFailures' >= PowLimit THEN "crashed" ELSE "top"
    /\ UNCHANGED <<poolVars, stopVars, userVars, faults>>

-----------------------------------------------------------------------------
(* run(): inside process_data_events *)

\* pika finds the connection dead, or it had been closed before the call.
IoPumpRaises ==
    /\ io = "pump" /\ conn \in {"broken", "closed"}
    /\ conn' = "closed" /\ chanOpen' = FALSE /\ inbox' = << >> /\ callbacks' = << >>
    /\ io' = "failed"
    /\ UNCHANGED <<cur, loopFailures, chan, nextTag, poolVars, stopVars, brokerVars, userVars, faults>>

\* A scheduled _ack or the nack branch of _handle_fail; if it raises, it is logged.
RunSettle ==
    /\ Head(callbacks).kind \in {"ack", "dead_letter", "requeue"}
    /\ Settle(Head(callbacks).kind, Head(callbacks).d)
    /\ callbacks' = Tail(callbacks)
    /\ UNCHANGED <<dlq, conn, chan, chanOpen, nextTag, inbox, io>>

\* The poison branch of _handle_fail publishes to the dead letter queue, then acks.
RunPoison ==
    LET d == Head(callbacks).d
    IN  /\ Head(callbacks).kind = "poison"
        /\ callbacks' = IF Usable(d) THEN <<[kind |-> "ack", d |-> d]>> \o Tail(callbacks)
                                     ELSE Tail(callbacks)
        /\ dlq' = dlq \union Copy(d)
        /\ UNCHANGED <<ready, unacked, acked, parked, deaths, conn, chan, chanOpen, nextTag, inbox, io>>

\* _request_stop_and_close, scheduled by stop_listening().
RunClose ==
    /\ Head(callbacks).kind = "close"
    /\ Close("closed")
    /\ io' = "top"

IoCallback ==
    /\ io = "pump" /\ IsOpen /\ callbacks # << >>
    /\ RunSettle \/ RunPoison \/ RunClose
    /\ UNCHANGED <<cur, loopFailures, poolVars, stopVars, userVars, faults>>

\* The scheduled callbacks are done: dispatch the deliveries, or time is up.
IoDispatch ==
    /\ io = "pump" /\ IsOpen /\ callbacks = << >>
    /\ io' = "batch"
    /\ UNCHANGED <<cur, loopFailures, connVars, poolVars, stopVars, brokerVars, userVars, faults>>

\* process_data_events returns.
IoReturn ==
    /\ io = "batch" /\ inbox = << >>
    /\ io' = "top"
    /\ loopFailures' = FailuresOncePumped
    /\ UNCHANGED <<cur, connVars, poolVars, stopVars, brokerVars, userVars, faults>>

\* A wrapper gets a delivery; each of them ignores it once stop_me is set.
IoAccept ==
    /\ io = "batch" /\ inbox # << >>
    /\ inbox' = Tail(inbox)
    /\ IF stopMe THEN UNCHANGED <<io, cur>>
                 ELSE cur' = Head(inbox) /\ io' = IF Offload THEN "acquire" ELSE "handler"
    /\ UNCHANGED <<loopFailures, conn, chan, chanOpen, nextTag, callbacks, poolVars, stopVars,
                   brokerVars, userVars, faults>>

\* _offload_wrapper blocks in acquire(), on the I/O thread.  When the executor is
\* down submit() raises: the permit is given back and _internal_wrapper is called,
\* which returns at once, stop_me having been set before the executor went down.
IoAcquire ==
    /\ io = "acquire" /\ permits > 0
    /\ IF poolDown
       THEN UNCHANGED jobs /\ permits' = PermitsOnceRefused
       ELSE /\ jobs' = jobs \union {[d |-> cur, at |-> "queued", kind |-> "ack"]}
            /\ permits' = permits - 1
    /\ io' = "batch"
    /\ cur' = NoDelivery
    /\ UNCHANGED <<loopFailures, connVars, stopVars, brokerVars, userVars, faults>>

\* The user callback on the I/O thread; with auto_ack its exception leaves the pump.
IoHandler ==
    /\ io = "handler"
    /\ Called(cur.msg)
    /\ \/ /\ handled' = handled \union {cur.msg}
          /\ io' = IF AutoAck THEN "batch" ELSE "ack"
          /\ UNCHANGED faults
       \/ /\ faults < MaxFaults /\ faults' = faults + 1
          /\ io' = OnError
          /\ UNCHANGED handled
    /\ UNCHANGED <<config, cur, loopFailures, connVars, poolVars, stopVars, brokerVars>>

\* _internal_wrapper: ack after success, nack(requeue=True) after an exception,
\* whatever on_error and dead_letter_queue say.
IoSettle ==
    /\ io \in {"ack", "nack"}
    /\ Usable(cur)
    /\ Settle(IF io = "ack" THEN "ack" ELSE "requeue", cur)
    /\ io' = "batch"
    /\ cur' = NoDelivery
    /\ UNCHANGED <<loopFailures, connVars, dlq, poolVars, stopVars, userVars, faults>>

\* basic_ack raises, then so does the basic_nack of the except clause.
IoSettleRaises ==
    /\ io \in {"ack", "nack"}
    /\ ~Usable(cur) \/ conn = "broken"
    /\ io' = "failed"
    /\ UNCHANGED <<cur, loopFailures, connVars, poolVars, stopVars, brokerVars, userVars, faults>>

-----------------------------------------------------------------------------
(* The worker pool *)

Advance(j, at, kind) == jobs' = (jobs \ {j}) \union {[j EXCEPT !.at = at, !.kind = kind]}
Finish(j) == jobs' = jobs \ {j} /\ permits' = Released

\* add_callback_threadsafe(_schedule), and the worker is done.
Scheduled_Not(j) == callbacks
Scheduled(j) == Append(callbacks, [kind |-> j.kind, d |-> j.d])
AfterPost_Direct(j) == (jobs \ {j}) \union {[j EXCEPT !.at = "direct"]}
AfterPost(j) == jobs \ {j}

WorkerRun(j) ==
    /\ j.at = "queued"
    /\ Called(j.d.msg)
    /\ \/ /\ handled' = handled \union {j.d.msg}
          /\ Advance(j, "done", "ack")
          /\ UNCHANGED faults
       \/ /\ faults < MaxFaults /\ faults' = faults + 1
          /\ Advance(j, "done", FailKind(j.d))
          /\ UNCHANGED handled
    /\ UNCHANGED <<config, ioVars, connVars, permits, stopVars, brokerVars>>

\* _on_done reads self.__connection ... (It runs on the I/O thread when the future is
\* done before add_done_callback is called; what it does is the same.)
WorkerCheck(j) ==
    /\ j.at = "done"
    /\ IF AutoAck
       THEN Finish(j)
       ELSE Advance(j, Settling, j.kind) /\ UNCHANGED permits
    /\ UNCHANGED <<ioVars, connVars, stopVars, brokerVars, userVars, faults>>

\* ... and again to schedule the settlement; a closed one raises.
WorkerPost(j) ==
    /\ j.at = "post"
    /\ IF IsOpen
       THEN callbacks' = Scheduled(j) /\ jobs' = AfterPost(j) /\ permits' = Released
       ELSE Advance(j, "direct", j.kind) /\ UNCHANGED <<callbacks, permits>>
    /\ UNCHANGED <<ioVars, conn, chan, chanOpen, nextTag, inbox, stopVars, brokerVars, userVars, faults>>

\* The fallback calls the channel from the worker.  That channel is never open
\* (WorkersStayOff), so the call raises and changes nothing.
WorkerDirect(j) ==
    /\ j.at = "direct"
    /\ Finish(j)
    /\ UNCHANGED <<ioVars, connVars, stopVars, brokerVars, userVars, faults>>

-----------------------------------------------------------------------------
(* stop_listening() *)

StopSet ==
    /\ MayStop /\ stop = "idle"
    /\ stopMe' = TRUE
    /\ stop' = "shutdown"
    /\ UNCHANGED <<ioVars, connVars, poolVars, poolDown, brokerVars, userVars, faults>>

StopShutdown ==
    /\ stop = "shutdown"
    /\ poolDown' = TRUE
    /\ stop' = "check"
    /\ UNCHANGED <<ioVars, connVars, poolVars, stopMe, brokerVars, userVars, faults>>

StopCheck ==
    /\ stop = "check"
    /\ stop' = IF IsOpen THEN "schedule" ELSE "direct"
    /\ UNCHANGED <<ioVars, connVars, poolVars, stopMe, poolDown, brokerVars, userVars, faults>>

StopSchedule ==
    /\ stop = "schedule"
    /\ IF IsOpen
       THEN /\ callbacks' = Append(callbacks, [kind |-> "close", d |-> NoDelivery])
            /\ stop' = "done"
       ELSE stop' = "direct" /\ UNCHANGED callbacks
    /\ UNCHANGED <<ioVars, conn, chan, chanOpen, nextTag, inbox, poolVars, stopMe, poolDown,
                   brokerVars, userVars, faults>>

\* Closes whatever it finds open, from the thread that called stop_listening().
StopDirect ==
    /\ stop = "direct"
    /\ stop' = "done"
    /\ IF IsOpen THEN Close("closed") ELSE UNCHANGED <<connVars, brokerVars>>
    /\ UNCHANGED <<ioVars, poolVars, stopMe, poolDown, userVars, faults>>

-----------------------------------------------------------------------------
(* The specification *)

IoStep ==
    \/ IoExit \/ IoLoop \/ IoConnect \/ IoConnectFails \/ IoSetup \/ IoSetupFails
    \/ IoFail \/ IoPumpRaises \/ IoCallback \/ IoDispatch \/ IoReturn
    \/ IoAccept \/ IoAcquire \/ IoHandler \/ IoSettle \/ IoSettleRaises

WorkerStep(j) == WorkerRun(j) \/ WorkerCheck(j) \/ WorkerPost(j) \/ WorkerDirect(j)

StopStep == StopShutdown \/ StopCheck \/ StopSchedule \/ StopDirect

Next ==
    \/ Start \/ IoStep
    \/ \E j \in jobs : WorkerStep(j)
    \/ StopSet \/ StopStep
    \/ \E m \in Messages : BrokerDeliver(m) \/ BrokerReturn(m)
    \/ ConnBreak \/ ChanClose

Spec == Init /\ [][Next]_vars

\* Threads that can run do run, user callbacks return or raise, the broker delivers
\* and heartbeats find a broken connection in the end.
FairSpec ==
    /\ Spec
    /\ WF_vars(IoStep) /\ SF_vars(IoPumpRaises)
    /\ \A m \in Messages : WF_vars(\E j \in jobs : j.d.msg = m /\ WorkerStep(j))
    /\ WF_vars(StopStep)
    /\ \A m \in Messages : WF_vars(BrokerDeliver(m)) /\ WF_vars(BrokerReturn(m))

-----------------------------------------------------------------------------
(* Properties *)

IoStates == {"new", "top", "connect", "setup", "failed", "pump", "batch", "acquire",
             "handler", "ack", "nack", "exited", "crashed"}

\* Types of the listener's attributes, and of the broker's side.
TypeOK ==
    /\ config \in Configs
    /\ io \in IoStates /\ cur \in Delivery \union {NoDelivery} /\ loopFailures \in Nat
    /\ conn \in {"none", "open", "broken", "closed"}
    /\ chan \in Nat /\ chanOpen \in BOOLEAN /\ nextTag \in Nat
    /\ inbox \in Seq(Delivery) /\ callbacks \in Seq(Callback)
    /\ jobs \subseteq Job /\ permits \in Nat
    /\ stopMe \in BOOLEAN /\ poolDown \in BOOLEAN
    /\ stop \in {"idle", "shutdown", "check", "schedule", "direct", "done"}
    /\ ready \subseteq Messages /\ unacked \subseteq Delivery /\ acked \subseteq Messages
    /\ parked \subseteq Messages /\ deaths \in [Messages -> Nat] /\ dlq \subseteq Messages
    /\ calls \in [Messages -> 0 .. 2] /\ handled \subseteq Messages
    /\ faults \in Nat

\* "auto_ack=False: at-least-once delivery": the broker never forgets a message that
\* the user callback has not processed and that has no copy in the dead letter queue,
\* although the worker acks by a tag that starts over on every channel.
AtLeastOnce == ~AutoAck => acked \subseteq handled \union dlq

\* "auto_ack=True: at-most-once delivery": no message reaches the callback twice.
AtMostOnce == AutoAck => \A m \in Messages : calls[m] <= 1

\* Deliveries somebody in the listener still has to settle.
Outstanding ==
    {j.d : j \in jobs}
        \union {callbacks[i].d : i \in {k \in 1 .. Len(callbacks) : callbacks[k].kind # "close"}}
        \union (IF cur # NoDelivery THEN {cur} ELSE {})

\* A delivery is settled once: what will be sent on a live channel names a tag the
\* broker still waits for, and no two workers or callbacks name the same one (the
\* broker closes a channel on which an unknown tag is acknowledged).
SettledOnce ==
    /\ (conn = "open" /\ ~AutoAck) => \A d \in Outstanding : Usable(d) => d \in unacked
    /\ \A i, k \in 1 .. Len(callbacks) :
          callbacks[i].d = callbacks[k].d /\ callbacks[i].kind # "close" => i = k
    /\ \A j, k \in jobs : j.d = k.d => j = k
    /\ \A j \in jobs, i \in 1 .. Len(callbacks) : callbacks[i].d # j.d

\* No permit is lost or given back twice: the callbacks in flight and the permits
\* add up, whatever submit(), the callback or the scheduling of the ack raise.
PermitsBalance == permits + Cardinality(jobs) = MaxInFlight

\* A worker that settles from its own thread never touches a channel the I/O thread
\* is using, although it looked at the connection in an earlier step.
WorkersStayOff == \A j \in jobs : j.at = "direct" => ~Usable(j.d)

\* "Avoid hot loops: when configured, failures use nack(requeue=False)": with on_error
\* "dead_letter" and the channel up, a message comes back to the queue through the exchange,
\* unless the callback has raised on the I/O thread.  No worker that finished late, scheduled
\* callback or fallback requeues; the wrapper itself does (NoHotLoop), but only without
\* offload and auto_ack, and only the message it has in hand.
Rejecting == IF io = "nack" /\ ~Offload /\ ~AutoAck THEN {cur.msg} ELSE {}
OnlyWrapperRequeues ==
    [][(DeadLetter /\ chanOpen /\ chanOpen' /\ conn' = "open")
           => ready' \ ready \subseteq parked \union Rejecting]_vars

\* The listener is one that DeliveryContract describes: step by step, a message is forgotten,
\* passed to the callback or copied only when the contract allows it.
Contract == INSTANCE DeliveryContract WITH auto <- AutoAck, kept <- Messages \ acked, copied <- dlq
ContractSpec == Contract!Spec

\* Unless the listener is stopped a message is acknowledged in the end, however often
\* connections, channels and callbacks fail in between: a lost ack leads to a
\* redelivery, a full semaphore only delays.
AllSettled == \A m \in Messages : (io # "new") ~> (m \in acked \/ stopMe)

\* A listener that has been told to stop leaves run(), even when it was blocked on
\* the semaphore or connecting.
StopExits == (stopMe /\ io # "new") ~> (io = "exited")

-----------------------------------------------------------------------------
(* Statements of the repository that the code does not keep *)

\* "Avoid hot loops: when configured, failures use nack(requeue=False) to route through DLX":
\* with on_error "dead_letter" and the channel up, a message comes back to the queue through
\* the exchange only, wherever the user callback runs.
NoHotLoop ==
    [][(DeadLetter /\ chanOpen /\ chanOpen' /\ conn' = "open")
           => ready' \ ready \subseteq parked]_vars

\* "Stop consuming and close channel/connection": once stop_listening() is done and
\* the thread has left run() the connection is closed.
StopCloses == (stop = "done" /\ io = "exited") => ~IsOpen
=============================================================================
