# Verification of rabbit-mq-client (`mq_adapters`)

TLA+ models of the concurrent parts of `src/src/mq_adapters`, their model checking with
TLC and machine-checked proofs with TLAPS.  Paths below are relative to
`src/src/mq_adapters/` unless they say otherwise.

## 1. Inventory

| Component | State | Operations | Interacts with |
|---|---|---|---|
| `SyncPublishBackend` (`sync_publisher_backend.py`) | `_queue` (bounded or not), `_stop_event`, `_thread`, `_reconnect_failures`; local to the I/O thread: connection, channels, the request in hand | `start`, `stop`, `publish`, the loop `_run` | callers from any thread; pika; `RetryPolicy`; `Stats` |
| `PublisherPool` (`publisher_pool.py`) | configuration only | `start`, `send`, `stop`, `close` | forwards to the backend |
| `Listener` (`sync_adapter.py`, `ApplicationThread.py`) | `__connection`, `__channel`, `stop_me`, `__executor`, `__in_flight_sema`, `__loop_failures`, `__running` | `run`, three message wrappers, `_on_done` on worker threads, `stop_listening`, `start_listening` | pika's pump and `add_callback_threadsafe`; the thread pool; `sync_retry`; `dead_lettering` |
| Retry (`retry_policy.py`) | none (a local attempt counter) | `delay_for_attempt`, `sync_retry`, `async_retry` | backend, listener, async sender |
| Dead lettering (`dead_lettering.py`) | none | configuration, attempt count from `x-death` | both listeners |
| `AsyncListener` (`async_adapter.py`) | connection, channel, queue, consumer tag, semaphore, set of running handlers | `start`, handler tasks, `stop` | aio-pika's event loop |
| `AsyncSender` (`async_adapter.py`) | connection, channel, exchange, pending confirms, flush task | `start`, `send`, `stop`, periodic flush | aio-pika; `async_retry` |
| `RabbitMQClient` (`client.py`) | `_sync_pools`, `_async_pools` | `publisher`, `listener`, ..., `close`, `aclose` | creates all of the above |
| `Stats`, `helper_functions`, `log` | counters under one lock | `inc`, `snapshot`; serialisation, connection parameters | everybody |

What is hard here:

* **Shared attributes without a lock.**  `start()`, `stop()` and the I/O thread all read and
  write `_thread` and `_stop_event`; `stop_listening()` and the workers read `__connection`
  while the I/O thread replaces it.
* **Ownership of a pika connection.**  Only the thread that pumps it may use it; everything
  else has to be posted with `add_callback_threadsafe`.
* **Tags that outlive their channel.**  A worker acknowledges a tag it got before a reconnect.
* **Failure at every call.**  A connection may be dead without pika knowing it; what was
  written to it is lost; `basic_publish` may raise after the broker took the message.
* **Blocking.**  `queue.put` on a full queue, `Semaphore.acquire` on the I/O thread, `join`.
* **Coroutines between two awaits.**  `AsyncSender` and `AsyncListener` read `self._conn`,
  `self._exchange` and `self._semaphore` again after an await; another `send()`, `start()` or
  `stop()` may have replaced them.
* **Awaiting for others.**  A batch of confirms is awaited by the `send()` that filled it, by
  the flusher or by `stop()`; its failure is raised there, not where the message was sent.
* **A cache without a lock.**  `publisher()` and `close()` of one client in two threads.

The correctness properties are: a request is never forgotten, counted twice or sent twice; one
I/O thread and one connection; a stop ends the thread, or the coroutine, and leaves no connection;
a `send()` that returned has its message at the broker or its confirm awaited by exactly one; the
bound on concurrent handlers; `close()` reaches every pool; at-least-once (or, with `auto_ack`,
at-most-once) consumption; each delivery settled once, on its channel, by the owner of the
channel; permits conserved; failures not requeued in a hot loop when dead lettering is
configured; every message settled in the end; what `close()` had to stop stays stopped.  `PROJECT.json` lists each hazard with its line.

## 2. Modules

| Module | Content |
|---|---|
| `LossyPipe` | abstract: what publishers may rely on — messages come out in order, at most once, perhaps never |
| `DeliveryContract` | abstract: what an application may rely on that consumes a queue, with `auto_ack` and without |
| `DeliveryContractProofs` | what follows from that contract |
| `SyncPublishBackend` | the backend (and `PublisherPool`'s calls), its properties, and the instance `Pipe` of `LossyPipe` |
| `SyncPublishBackendProofs` | theorems about it |
| `Listener` | the synchronous listener with the broker, pika's pump and the worker pool, and the instance `Contract` of `DeliveryContract` |
| `ListenerProofs` | theorems about it |
| `AsyncListener` | the asyncio consumer with aio-pika's robust connection and the broker, and the instance `Contract` of `DeliveryContract` |
| `AsyncListenerProofs` | theorems about it |
| `AsyncSender` | the asyncio publisher: concurrent `send()`, `start()`, `stop()`, the flusher, `async_retry` |
| `AsyncSenderProofs` | theorems about it |
| `ClientFacade` | the cache of pools, the handles and `close()` of `RabbitMQClient`, between threads |
| `ClientFacadeProofs` | theorems about it |
| `MC*` | symmetry and the configurations for TLC; the `.cfg` files give the other constants |

Each module stands for one object and what it talks to.  They do not share state in the code
either: a client only makes the others, and what a pool does for its client is reduced in
`ClientFacade` to running, stopping or failing to stop (`SyncPublishBackend` is the inside).

### SyncPublishBackend

| Code | Model |
|---|---|
| `_queue`, `_stop_event`, `_thread`, `_reconnect_failures` | `queue`, `stopEvent`, `thread`, `failures` |
| `Thread` objects, and where `_run` is in each | `IoThreads`, `io[t]`; `Alive(t)` is `is_alive()` |
| locals `conn`, `channels`, `item` of `_run` | `conn[t]`, `hand[t]` |
| `start()` 101 / 103 / 104 / 105 | `StartCheck`, `StartClear`, `StartCreate`, `StartRun` |
| `stop()` 109 / 111 / 113-120 / 121-122 | `StopCall`, `StopSet`, `StopPut`, `StopJoin` |
| `publish()` | `PublishCall` (enters), `PublishPut` (accepted by the queue) |
| loop head 192; connecting 196-199; `get` 207-224 | `IoStopped`; `IoConnect`, `IoConnectFails`; `IoGet`, `IoIdle`, `PumpIo` |
| publish 226-242; except 244-264; cleanup 266-283 | `IoPublish`, `IoPublishFails`; `IoBackoff`; `IoCleanup` |

An application thread may be in several of `Starters`, `Stoppers` and `Publishers`; `call[c]`
says where it is.  A step ends where another thread can interfere: at every access to a
shared attribute.  A message is its *ticket*, the place at which the queue accepted it.  A
link is `"broken"` when the peer is gone and `is_open` is still true: a publish on it returns
and is lost, or raises.  `IoPublishFails` may have reached the broker.  The channels of a
connection live and die with it and are not distinguished.

`delay_for_attempt` computes `multiplier**exp` before it takes the minimum with `max_delay`
(`retry_policy.py:56`).  With a multiplier of 2.0 the power overflows at `exp` 1024 and raises
`OverflowError` inside the backend's `except` clause, where nothing catches it; `PowLimit`
stands for that number of consecutive failures, and `"crashed"` for the dead thread.

### Listener

| Code | Model |
|---|---|
| arguments of the constructor, dead letter settings | `config` |
| `__connection`/`__channel` | `conn`, `chan` (its number), `chanOpen` |
| loop of `run` 426-434 | `IoExit`, `IoLoop` |
| `__create_connection` with `sync_retry` | `IoConnect`, `IoConnectFails` |
| `_setup_channel_and_consumer` | `IoSetup`, `IoSetupFails` |
| `process_data_events` | `IoCallback` (scheduled callbacks), `IoDispatch`, `IoAccept` (deliveries), `IoReturn`, `IoPumpRaises` |
| `except` clauses 439-482 | `IoFail` |
| `_offload_wrapper` 190-210, 306-314 | `IoAccept`, `IoAcquire` |
| `_internal_wrapper`, `_auto_ack_wrapper` | `IoAccept`, `IoHandler`, `IoSettle`, `IoSettleRaises` |
| user callback in the pool, `_on_done` | `WorkerRun`; `WorkerCheck`, `WorkerPost`, `WorkerDirect` |
| `_ack`, `_handle_fail` on the I/O thread | `RunSettle`, `RunPoison` |
| `stop_listening` 489 / 491-496 / 502 / 524-526 / 527-560 | `StopSet`, `StopShutdown`, `StopCheck`, `StopSchedule`, `StopDirect`; `RunClose` |
| broker | `ready`, `unacked`, `acked`, `parked`, `deaths`, `dlq`; `BrokerDeliver`, `BrokerReturn`, `ConnBreak`, `ChanClose` |

External behaviour, read off the way the code uses it: `process_data_events` runs the scheduled
callbacks before it dispatches buffered deliveries; callbacks and buffered deliveries vanish
with the connection; the broker returns what was not acknowledged to the queue when the
channel or the connection goes away; delivery tags start over on each channel; a
message that comes back through the dead letter exchange's retry queue has one more entry in `x-death`.
The queue is the durable one of `predefined_queue=True` with prefetch set.

### AsyncListener

| Code | Model |
|---|---|
| `_conn`, `_channel`, `_queue`, `_consumer_tag` | `conn`, `chan`, `queue`, `tag`: the number of the connection or call of `start()`, 0 for `None` |
| `_semaphore` | `sem`, the call that made it; `permits` keeps those of every semaphore made |
| `_in_flight`; handler tasks | `inFlight`; `tasks`, with whether their delivery can still be settled in `fresh` |
| `start()` up to each await | `StartCall`, `ConnectionMade`, `ChannelOpened`, `Declared`, `Bound`, `Registered`, `Started`, `StartFails` |
| `_on_message` | `Deliver` |
| `_run_handler` 407-408 / 411-413 / 415-416 | `Begin`, `Acquired`; `CallbackReturns`, `CallbackRaises`; `Ack` |
| dead letter copy and its ack, `nack`, `finally` | `Poison`, `PoisonRefused`, `PoisonAck`, `Nack`, `Finish` |
| `stop()`: cancel the consumer (whose tag and queue are read at the call: `cancelling`); gather; time-out; `finally` | `StopCall`, `CancelReturned`; `WaitForHandlers`, `HandlersDone`; `StopTimesOut`, `CancelHandler`; `CleanUp`, `ChannelClosed`, `CloseConnection`, `ConnectionClosed` |
| broker and robust connection | `ready`, `unacked`, `acked`, `parked`, `deaths`, `copies`, `link`; `ConnectionLost`, `Reconnected`, `Unpark` |

Everything runs on one event loop, so a step is what stands between two awaits.  The fields are
read again after each await, as in the code: `Released` gives the permit to the semaphore that
is there *now*, `Poison` publishes on the channel that is there now, and `Declared` goes on with
what `self._channel` has become.  A cancelled handler may or may not have had the effect it was
waiting for.  A robust connection that is lost comes back with its consumers; what was delivered
before cannot be settled and is delivered again.

### AsyncSender

| Code | Model |
|---|---|
| `_conn`, `_channel`, `_exchange` | `conn`, `chan`, `exch`, by the number of the connection |
| `_pending_confirms`, `_confirm_flush_task` | `pending` (futures), `flusher` |
| what a coroutine awaits in `gather` or `publish` | `batch[w]`, for coroutines, the flusher and `stop()` |
| the two nested retry loops | `tries`, `startTries`, `LastAttempt` |
| `send()` / `_do_publish` 213-217, 218-228 / except 232-237 | `SendCall`, `Attempt` / `TrySend`, `PublishOn`, `SendAwaited` / `PublishRaises` |
| `start()` and `_do_start` | `StartCall`, `StartRetry`, `ConnectionMade`, `ChannelMade`, `Declared`, `StartFails` |
| `_flush_confirms_periodically`, `_flush_confirms` | `FlusherStep`, `PendingOnceGathered` |
| `stop()` | `StopCall`, `StopFlushed`, `CancelAndClose`, `ChannelClosed`, `CloseConnection`, `ConnectionClosed` |
| `exchange.publish`, the broker | `futs`, `copies`; `Sent`, `SentInVain`, `Confirmed`, `Rejected`, `Aborted`, `ConnectionLost`, `Reconnected` |

A future is a pair of the sender and its attempt, so that a retry is told apart from the publish
it repeats.  `own` is the connection a coroutine's own `_do_start` has opened; the fields may
name another one by then.  Configuration and bounds on `stop()` and on faults are one record
(`Config`), so that a run can combine them.

### ClientFacade

| Code | Model |
|---|---|
| `_sync_pools` | `cache`, a sequence of entries in the order of insertion |
| `publisher()` 178 / 179-186 / 188-192 | `PublisherCall`, `Create`, `Lookup` |
| handles of kind `pool` and `lightweight_sender` | `handle`; `HandleStart`, `HandleStop` (`StopsPool`) |
| `close()` 286-301 | `CloseCall`, `CloseNext`, `PoolStopped`, `PoolFailsToStop`, `CloseClear` |

A dictionary iterator raises when the dictionary has changed its size since the last step
(`CloseNext`); replacing the value of a key does not change it.

## 3. What the runs check

No property is idle: for each, `PROJECT.json` gives a plausible bug of the code (a variant of a
mapped definition) under which TLC finds it violated.

| Run | Question |
|---|---|
| `Backend_owner` | one owner starts, two threads stop, one publishes to a queue of one, no heartbeats, under fair scheduling: `OneIoThread`, `OneConnection`, `LateBound`, refinement of `LossyPipe` (`PipeSpec`), `StopTerminates`, `AcceptedIsTried`, `PutReturns` |
| `Backend_races` | two threads start and stop without a lock, a queue of two, two failures in a row kill a thread: `Accounted` and `AtMostOnce` hold nevertheless |
| `Listener_safety` | six configurations with breaks, closes, failing callbacks, an overflowing backoff and a stop: `AtLeastOnce`, `AtMostOnce` with `auto_ack`, `SettledOnce`, `PermitsBalance`, `WorkersStayOff`, `OnlyWrapperRequeues`, refinement of `DeliveryContract` (`ContractSpec`) |
| `Listener_liveness` | `AllSettled`, `StopExits` with one permit |
| `AsyncListener_safety` | two starts and a stop one after the other, three configurations, a lost connection or a failing call, a callback that raises: `AtLeastOnce`, `AtMostOnce` with `auto_ack`, `BoundedUntilRestart`, `PoisonLeaves`, `StopCloses`, `NoHandlerSurvives` |
| `AsyncListener_liveness` | `StopReturns`, also when it overlaps `start()` and callbacks hang; `AllSettled`: everything acknowledged, nothing unsettled at the broker, no handler left |
| `AsyncSender` | two coroutines, six configurations, with faults or `stop()`: `SentIsPublished`, `PublishedOnce`, `NoForgottenConfirm`, `CallsReturn`, `StopReturns`, `PendingFlushed` |
| `ClientFacade` | two threads, one of which closes: `CloseCovers`, `AbortKeeps`, `ClosedStays` |

Disagreements between the code and its own text, each shown by a run that TLC finds violated:

| Run | The code |
|---|---|
| `Backend_two_starts` | concurrent `start()` calls make two I/O threads |
| `Listener_leaks` | `stop_listening()` leaves the connection open: the loop ends before the scheduled close runs |
| `Listener_hot_loop` | without `offload`, `on_error: dead_letter` is ignored: a message whose callback raises is requeued at once (`sync_adapter.py:337`), against "Avoid hot loops: when configured, failures use `nack(requeue=False)`" (`dead_lettering.py:7`) |
| `AsyncSender_stop` | `stop()` does not wait for the confirms another coroutine awaits and closes the channel under them |

### What the code also does

Read off while modelling; the models contain these behaviours, or, for `aclose()`, there is nothing
to run.  No run is devoted to them.

* A sentinel left in the queue by `stop()` ends the thread of the next `start()`
  (`sync_publisher_backend.py:223`): no thread, no error.
* `start()` while the stopped thread still winds down does nothing
  (`sync_publisher_backend.py:101`): after `stop(wait=False)` there may be no thread.
* `publish()`, "non-blocking for the caller" (`sync_publisher_backend.py:125`), blocks for ever
  on a full queue of a stopped backend (line 128).
* `delay_for_attempt` overflows after about a thousand failures (`retry_policy.py:56`), which ends
  the backend's I/O thread and the listener's `run()`.
* `stop_listening()` in another thread may use the channel of the I/O thread directly, when the
  connection comes back between its check and the fallback (`sync_adapter.py:498`, `546`).
* The bound "`max_concurrency`" (`src/docs/USAGE.md:40`) can be exceeded after `stop()` and `start()`:
  handlers that survive release the new semaphore (`async_adapter.py:484`).  The same line loses a
  permit of the old one.
* `ack()` stands inside the `try` of the callback (`async_adapter.py:416`): when it fails because
  the connection was lost, a message that was handled goes to the dead letter queue.
* A `start()` of `AsyncSender` that is retried, or that runs beside another one, overwrites
  `self._conn` without closing it (`async_adapter.py:162`).
* A `send()` beside a `start()` that is under way meets the assertion of line 217 and, if its attempts
  are used up first, sets the fields of the other one to `None` and raises, though nothing failed.
* When one confirm of a batch fails, `gather` raises (`async_adapter.py:204`, without
  `return_exceptions`) and the rest of the batch is awaited by nobody: if one of those fails later, nobody
  sees it.  The retry then repeats the message of the `send()` that filled the batch, which may
  have arrived.
* A failed future can already stand in the list when a batch is gathered, so that one lost
  connection may use up several attempts of later sends.
* A handle of the client outlives its pool's place in the cache: started after `close()`, it runs a pool
  that no later `close()` knows of (`client.py:198`, `300`).
* `aclose()` of the client goes over `_async_pools`, which nothing fills (`client.py:311`).

### Bounds

* Threads: two application threads and two `Thread` objects are enough for every race of two
  calls and for a restart.  `IoThreads` bounds the number of restarts; `StartCall` is not
  enabled when no `Thread` object is left, which is why the runs do not check for deadlock.
  The same holds of `Listener`, which really stops.
* `MaxMsgs` 3 with `QueueMax` 1 (`Backend_owner`): a request in hand while another is queued and a third
  blocked, and a sentinel that finds the queue full.  2 with 2 (`Backend_races`): both queued, or one with
  each of two I/O threads.
* `MaxFaults` 1 or 2: a fault, and a second one while the first is being repaired.  A handler's
  exception counts as a fault of `Listener`.
* `PowLimit` stands for about a thousand failures.  It is above `MaxFaults` where the overflow
  must not happen and equal or below where it must (`Backend_races`, `Listener_safety`).
* `Configs`, the configurations a listener can be constructed with, are defined in `MCListener`;
  one is chosen initially and kept.  `max_retries` 1 makes the first failure poison, 2 sends a
  message through the exchange once.  `max_in_flight` 1 lets the I/O thread block, 2 lets
  workers overtake each other.
* Two messages in `Listener`: enough for a stale tag to name another message.
* `AsyncListener`: two calls of `start()` (a restart, or a second call after one that failed half
  way), one `stop()`, two messages, up to three handler tasks on a `max_concurrency` of one: one
  runs and two wait.  One fault and one failing callback: enough for a delivery that is taken away
  between the callback and its ack, and for a handler that waits while another is cancelled.
  `MayOverlap` is `FALSE` where a property is about `stop()` alone, `TRUE` in the liveness run.
* `AsyncSender`: two coroutines and batches of two, so that one fills the batch of the other; two
  attempts (the last one and one before); six connections: a coroutine that found none
  left would wait for ever, and `CallsReturn` would fail.
* `ClientFacade`: three calls per thread, three pools, two known types and one that is not in the
  map; one pool may fail to stop.  Two threads are what a race on the cache needs.
* Symmetry over threads, messages and types is used for safety only.  `calls` saturates at 2.

### Fairness

`FairSpec` assumes that a thread that can run does run (weak fairness per thread), that
user callbacks return or raise, and for `Listener` that the broker delivers and that a heartbeat
finds a broken connection in the end (strong fairness of `IoPumpRaises`: the I/O thread visits
the pump again and again).  Nobody has to call `start`, `stop` or `publish`, and no fault has to
happen; the number of faults is finite, as `MaxFaults` says: without that nothing is ever
delivered.  For the asynchronous modules it is the event loop that runs every task which can
go on: calls of aio-pika return or raise, a lost connection is restored, delays and the timer of
`wait_for` end, the broker delivers.  A user callback may hang: `CallbackReturns` and
`CallbackRaises` are not fair, and `AllSettled` of `AsyncListener` says so.  With `JoinMayTimeOut` the `join` of `stop()` may give up at any time, as it does with
`wait=False` or after ten seconds.

## 4. What is proved

`SyncPublishBackendProofs` proves, for all sets of threads, queue bounds, numbers of messages
and faults:

| Theorem | States | Hypotheses |
|---|---|---|
| `TypeCorrect` | `Spec => []TypeOK` | |
| `Accounting` | `Spec => []Accounted` | |
| `NoDuplicates` | `Spec => []AtMostOnce` | |
| `SingleIoThread` | `Spec => []OneIoThread` | `SingleOwner` |
| `AtMostOneLate` | `Spec => []LateBound` | `SingleOwner` |
| `Refinement` | `Spec => PipeSpec` | `SingleOwner` |
| `SingleConnection` | `Spec => []OneConnection` | `SingleOwner`, `PowLimit > MaxFaults` |

`SingleOwner` says that one thread makes all the calls of `start()`.  It is necessary:
`Backend_two_starts` is the counterexample.  `stop()` and `publish()` remain unrestricted.
`PowLimit > MaxFaults` says that the backoff does not overflow, and is necessary for the same
kind of reason: a crashed thread leaves its connection open.

The arguments:

* **Accounting.**  `Accounted` is not inductive: that a ticket taken from the queue is nowhere
  else follows from the order of the tickets.  `AccountInv` adds that the queue is sorted, that
  hands and counters hold smaller tickets than the queue, that no two hands hold the same one, and
  that the wire carries counted tickets only.
* **One thread.**  `OwnerInv`: a thread that is created or running is the one `_thread` names,
  and while `start()` is between its check and the assignment no thread is.
* **Late publishes.**  After `stop()` the I/O thread looks at the event before it takes another
  request, so it can only try the one it was waiting for; `LateInv` counts where it is.
* **Refinement.**  With one I/O thread the wire is sorted (`OrderInv`): the request in hand is
  larger than all that have been tried.  Each publish that reaches the broker is a `Deliver`, each
  accepted `put` a `Send`, everything else stutters.
* **Connections.**  A failure is paid for by a fault, when it happens or when its connection
  broke (`FaultInv`), so fewer than `PowLimit` faults never overflow the backoff.

`DeliveryContract` has five variables: the flag, what the broker keeps, how often the callback got
a message, what it returned from and what was copied to the dead letter queue.  It stands for "`auto_ack=True`: at-most-once
delivery", "`auto_ack=False`: at-least-once delivery" (`sync_adapter.py:40`, `async_adapter.py:277`).
`DeliveryContractProofs` proves what that means (`ContractKeepsPromise`): with `auto_ack` no
second call and no dead letter; without it nothing is forgotten that was not handled or copied; and
nothing is handled or copied that the callback never got.  Both listeners implement it, below.

`ListenerProofs` proves, for every set of messages, every configuration, prefetch and number of
faults:

| Theorem | States | Hypotheses |
|---|---|---|
| `TypeCorrect` | `Spec => []TypeOK` | |
| `PermitsAddUp` | `Spec => []PermitsBalance` | |
| `WorkersAreOff` | `Spec => []WorkersStayOff` | |
| `DeliveredAtLeastOnce` | `Spec => []AtLeastOnce` | |
| `CalledAtMostOnce` | `Spec => []AtMostOnce` | |
| `SettledJustOnce` | `Spec => []SettledOnce` | |
| `NoOtherRequeue` | `Spec => OnlyWrapperRequeues` | |
| `Refinement` | `Spec => ContractSpec` | |

`NoHotLoop`, that with `on_error: dead_letter` nothing comes straight back, does not hold of this code
(`Listener_hot_loop`); `NoOtherRequeue` says that one except clause is all there is to it.

The arguments:

* **Tags.**  `TagInv` is the lemma the others rest on: every delivery anybody still has in hand
  (`Held`: buffered, being dispatched, with a worker, in a scheduled callback, or unacknowledged at
  the broker) was made with a smaller tag on this channel or on an earlier channel, and a
  channel and a tag name one delivery.  A step either takes up no delivery (`TagKept`) or makes
  one with the next tag (`TagUsed`).
* **Permits.**  `PermitsBalance` counts jobs, and jobs are a set: `Distinct` says that the
  deliveries on their way to the user differ from each other and from those in the pool, so adding a
  job adds one and replacing one does not change the number.
* **The worker's own calls.**  An open channel has an open connection (`OffInv`).  A worker
  turns to the fallback after it saw the connection closed, when its channel was closed too; what
  is opened later has a larger number.
* **At least once.**  `AckInv`: a settled job, a scheduled ack or the wrapper about to ack stands
  for a message that was handled, or copied to the dead letter queue over a connection that
  worked; callbacks do not survive their connection.  By `TagInv` an ack can hit no other message.
* **Who requeues.**  `HotInv`: with dead lettering no job and no callback is a nack with requeue, and a
  wrapper that offloads or has `auto_ack` never settles; the wrapper that does settle puts back
  the message it has in hand (`SettleGrows`), and what else fills the queue closes the channel (`ReadyGrows`).
* **At most once.**  `OnceInv`: with `auto_ack` nothing is unacknowledged, so nothing is put back;
  a message in the queue or with a delivery that waits for the callback (`Waiting`: buffered, in the
  wrapper, queued for a worker) was not given to it, and no two such deliveries carry the same message.
* **Settled once.**  A delivery is passed from hand to hand, and a step that passes it on could leave
  it in two: `HandInv` says that no scheduled settlement is about a delivery that is also buffered, with
  a worker, being dispatched or in another callback.  `Awaited`: what one of them holds on a live channel
  is unacknowledged at the broker.  `LeftBehind` is the part that was not obvious: `cur` is still there
  when an exception has left the pump, and then names a delivery whose channel or connection is gone.
* **Refinement.**  `TriedInv`: a job that has run and a callback that was scheduled are about a
  message the user was called with, and with `auto_ack` what is not in the queue is forgotten.  Then
  a delivery with `auto_ack` and a settlement are a `Forget`, the user callback a `Call`, the
  poison branch a `Copy`, and everything else stutters.

`AsyncListenerProofs` proves, for every configuration, number of messages, calls of `start()` and
`stop()`, tasks, faults and errors, overlapping calls included where the property does not exclude them
itself (`StopCloses` and `NoHandlerSurvives` are about calls that do not overlap, the latter
about runs without faults, too):

| Theorem | States |
|---|---|
| `TypeCorrect` | `Spec => []TypeOK` |
| `DeliveredAtLeastOnce` | `Spec => []AtLeastOnce` |
| `BoundedHandlers` | `Spec => []BoundedUntilRestart` |
| `CalledAtMostOnce` | `Spec => []AtMostOnce` |
| `StopClosesAll` | `Spec => []StopCloses` |
| `PoisonGoesAway` | `Spec => []PoisonLeaves` |
| `HandlersEndFirst` | `Spec => []NoHandlerSurvives` |
| `Refinement` | `Spec => ContractSpec` |

* **At least once.**  `AckInv` adds to `AtLeastOnce` where each handler is: one that is about to ack
  has had its callback return, one that is about to settle has a copy in the dead letter queue, and
  this survives lost connections and cancellation because neither takes anything back.
* **Bound.**  `SemInv`: with one semaphore, its free permits and the handlers between `acquire()` and
  `release()` are at most `max_concurrency` together.  The sum is an inequality because a `stop()`
  sets the field to `None` and what is released then is lost.
* **At most once.**  `OnceInv`, as for `Listener`; a task that has not called the user is the only
  one with its message.
* **Stopping closes.**  `OpenInv`: while calls do not overlap, an open connection is the one `self._conn`
  names, at most one `start()` is under way, it found no connection, and consumers are on a connection
  that is open; and the consumer `stop()` cancels is still the one of the fields (`CancelsOwn`).  So the one close of `stop()` is enough, also after a `start()` that failed half way.
* **Poison messages.**  `PoisonInv` is a potential: the copies of a message, the handlers that may still
  copy or return it, and its places in the queue and the retry queue are together at most one
  more than the faults and the stops that have happened; a lost connection or a `stop()` raises the sum by one
  and pays for it.  A `stop()` is counted when it is called and pays when it closes, hence `BeforeClose`.
* **Handlers end first.**  `CalmInv`, under `faults = 0`: the `start()` under way uses its own
  connection, the one consumer is the one `stop()` will cancel, and every handler is in `_in_flight`,
  then among those `stop()` waits for.
* **Refinement.**  `TriedInv`: a handler past `acquire()` has called the user.  Its settlement is a
  `Forget` (by `AckInv`), the admission to the semaphore a `Call`, the return of the callback a
  `Return`, and the poison branch a `Copy`; a cancelled handler does one of these or none.

`AsyncSenderProofs` proves, for any number of coroutines, attempts, connections, configurations,
calls of `stop()` and faults:

| Theorem | States |
|---|---|
| `TypeCorrect` | `Spec => []TypeOK` |
| `ReturnedIsPublished` | `Spec => []SentIsPublished` |
| `NoDuplicates` | `Spec => []PublishedOnce` |
| `EveryConfirmHeld` | `Spec => NoForgottenConfirm` |

* **Types** are inductive only with `SendInv`: the attempt counter is positive wherever a
  publish uses it, so that every future is one of `Futs`.
* **Returned is published.**  `SingleInv`: without batches a coroutine awaits exactly the publish of its
  own attempt, and a publish that is sent or confirmed has been counted by the broker.
* **Once** is about runs without faults and `stop()`.  Such a run is never left and come back to
  (`CalmBack`), so that `OnceInv` is an invariant under that condition: no publish has failed, so a coroutine
  that has published does not try again, and one that may still try has nothing at the broker.
* **Held** is about all runs, as an action property: a future that is not settled keeps its one holder, unless
  the gather of its batch raises.  `AwaitInv`: an attempt that has not published has no future yet (`Fresh`),
  the list and the batches are disjoint (`Apart`), and only who awaits has a batch (`Awaiting`), so that
  no step can hand a future to a second holder.  Who counts holders (`Keepers`) counts at most one.

`ClientFacadeProofs` proves, for any number of threads, types, pools, calls and failures:

| Theorem | States | Hypotheses |
|---|---|---|
| `TypeCorrect` | `Spec => []TypeOK` | |
| `ClosingCovers` | `Spec => []CloseCovers` | `SingleCloser` |
| `AbortingKeeps` | `Spec => []AbortKeeps` | `SingleCloser` |
| `ClosedIsStopped` | `Spec => []ClosedStays` | `SingleCloser` |

`SingleCloser` says that one thread at most calls `close()`, and is necessary: a second one can
clear the cache and others fill it to the same size while the first iterates, which then ends normally
and has missed a pool.

* **Types** need `IterInv`: the position of an iterator is within the size it remembers, and what a
  thread holds is a pool that was made.
* **Closing.**  `CoverInv` follows a `close()` through the cache: while it iterates, what it has to reach
  was attempted or replaced, is the pool it is stopping, or is in the cache from its position on.  With one
  closer the cache does not shrink meanwhile; when it has grown the next step raises, and what was not
  reached is still cached.
* **Closed.**  `StaysInv`: what a `close()` has to stop and still runs is ahead of its iterator, in its hand, or
  excused (reported, replaced, restarted).  A pool that a handle starts meanwhile has been tried, and then counts
  as restarted, or by `CoverInv` the iterator still gets to it.

Only model-checked: the liveness properties `StopTerminates`, `AcceptedIsTried`, `PutReturns`,
`StopExits`, `AllSettled` (both listeners), `StopReturns` (both asynchronous modules), `CallsReturn` and
`PendingFlushed`, because fairness and `ENABLED` are out of the prover's reach.  Every invariant and every
action property of the passing runs is proved.  The refinement of `DeliveryContract` by
`AsyncListener` is proved, and listed in no run.

## 5. Not modelled

* `PublisherPool`'s constructor, `helper_functions` (but for `raise_if_errors`), `log`, `__init__` and
  `examples/`: configuration, serialisation and I/O.
* The client's other factory methods, which keep nothing, and `aclose()`, whose loop is always empty.
* `Stats`: each operation is one critical section; the counters that matter are histories.
* `Listener`: `ApplicationThread.stop`, the wait for the pool in `__exit__`, `start_listening()`
  a second time, the exclusive queue of `predefined_queue=False` (the broker deletes it with
  the connection, so nothing is redelivered), and delivery without a prefetch limit.
* `AsyncListener` with `predefined_queue=False`: the exclusive queue goes away with its connection.
* How long a delay is, malformed `x-death` headers, and that `retry_attempt_from_headers` adds up all
  entries of `x-death`: a message that goes through the exchange once may count twice when the retry queue
  lets it expire (`dead_lettering.py:91`).  `deaths` is the sum, one step at a time.
* Publisher confirms of the backend: `confirm_delivery` changes when `basic_publish` raises, which the model
  allows in any case; with confirms a lost message raises instead of being counted as published.

## 6. Plan

Done: `SyncPublishBackend` with `LossyPipe`, `Listener` and `AsyncListener` with `DeliveryContract`,
`AsyncSender` and `ClientFacade`, all with proofs of every safety property the runs check.  Next,
in this order:

1. The steps of the liveness arguments that are safety: that a stopped I/O thread, a blocked `acquire()`
   and a coroutine that awaits always have a step that is enabled, and the quantity that step decreases.
2. `RetryPolicy` and `DeadLettering` as functions against a reference definition: delays within
   bounds, number of attempts, attempts from malformed `x-death` headers.
3. What holds of `ClientFacade` with two closers, and of `AsyncListener` with overlapping calls.
