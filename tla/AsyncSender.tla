------------------------------ MODULE AsyncSender ------------------------------
(***************************************************************************)
(* The asyncio publisher: AsyncSender (async_adapter.py) with the part of  *)
(* aio-pika and of the broker it talks to.                                 *)
(*                                                                         *)
(* Coroutines of one event loop share the fields of the object: any number *)
(* of send(), start() and stop(), and the task that flushes the confirms   *)
(* periodically.  What stands between two awaits is one step.  Both send() *)
(* and the start() inside it are retried by async_retry.                   *)
(*                                                                         *)
(* Connections are numbered as they are opened; 0 stands for None.  The    *)
(* publish of the n-th attempt of a send() is the future <<sender, n>>.    *)
(***************************************************************************)
EXTENDS Naturals, FiniteSets

CONSTANTS
    Procs,        \* coroutines, each calls start(), or send() with a message of its own
    Configs,      \* the configurations a sender is constructed with and its bounds, see Config
    MaxAttempts,  \* max_attempts of the retry policy
    MaxConns      \* bound on connections opened

\* confirm_delivery, confirm_batch_size, and whether confirm_flush_interval > 0; the bounds
\* are on calls of stop(), and on failing calls, rejected messages and lost connections.
Config == [confirm : BOOLEAN, batch : Nat, periodic : BOOLEAN, maxStops : Nat, maxFaults : Nat]

ASSUME ConfigsAssumption == Configs \subseteq Config
ASSUME ProcsAssumption == {"flusher", "stop"} \intersect Procs = {}
ASSUME BoundsAssumption == {MaxAttempts, MaxConns} \subseteq Nat \ {0}

VARIABLES
    config,      \* what the sender was constructed with; never changes
    at,          \* where each coroutine is
    tries,       \* the attempt of its send(), 0 if it has called start()
    startTries,  \* the attempt of its start()
    own,         \* the connection its _do_start opened
    batch,       \* the futures it awaits
    result,      \* what it has returned
    conn,        \* self._conn
    chan,        \* self._channel, by its connection
    exch,        \* self._exchange, by its connection
    pending,     \* self._pending_confirms
    flusher,     \* self._confirm_flush_task
    stop,        \* where stop() is
    closing,     \* the channel or connection it is closing
    futs,        \* the publishes, see Fut
    link,        \* connections: "bare" has no channel, "lost" is being restored
    copies,      \* broker: how often it has taken a message
    promised,    \* history: the send() calls that had returned when stop() was called
    stops, faults  \* number of stops and faults so far

procVars == <<at, tries, startTries, own, result>>
fieldVars == <<conn, chan, exch>>
stopVars == <<stop, closing, stops, promised>>
vars == <<config, procVars, batch, fieldVars, pending, flusher, stopVars, futs, link, copies, faults>>

-----------------------------------------------------------------------------
(* Vocabulary.  The variants with a suffix are the mutations PROJECT.json   *)
(* names; no action uses them.                                              *)

Conns == 1 .. MaxConns
Futs == Procs \X (1 .. MaxAttempts)
Fut == [at : {"none", "new", "sent", "ok", "failed", "cancelled"}, conn : 0 .. MaxConns]

\* Awaiting is what is awaited by each coroutine, by the flusher and by stop().
Waiters == Procs \union {"flusher", "stop"}

Batched == config.confirm /\ config.batch > 0
Periodic == Batched /\ config.periodic
Opened == {c \in Conns : link[c] # "none"}

\* self._conn and not self._conn.is_closed
Connected == conn # 0 /\ link[conn] # "closed"

\* gather: all of them done, or the first exception.
AllOk(F) == \A f \in F : futs[f].at = "ok"
SomeFailed_Never(F) == FALSE
SomeFailed_Unconfirmed(F) == \E f \in F : futs[f].at \in {"sent", "failed"}
SomeFailed(F) == \E f \in F : futs[f].at = "failed"
Gathered_AtOnce(F) == TRUE
Gathered(F) == AllOk(F) \/ SomeFailed(F)

\* _pending_confirms once a batch has been gathered: it was emptied before the await.
PendingOnceGathered_Emptied == {}
PendingOnceGathered == pending

\* What the flusher does with a failed confirm: the exception is logged, the loop goes on.
AfterFailedFlush_Dies == "done"
AfterFailedFlush == IF Connected THEN "sleeping" ELSE "done"

\* The retry loop gives up after the last attempt.
LastAttempt_Never(n) == FALSE
LastAttempt(n) == n >= MaxAttempts

\* stop() has closed the channel of the publish.
ChannelGone(f) == futs[f].conn # 0 /\ link[futs[f].conn] \in {"bare", "closed"}

\* Publishes that waited for a confirm when the connections in C were lost.
Broken(C) == [f \in Futs |-> IF futs[f].at = "sent" /\ futs[f].conn \in C
                             THEN [futs[f] EXCEPT !.at = "failed"] ELSE futs[f]]

Init ==
    /\ config \in Configs
    /\ at = [p \in Procs |-> "idle"] /\ result = [p \in Procs |-> "none"]
    /\ tries = [p \in Procs |-> 0] /\ startTries = [p \in Procs |-> 0]
    /\ own = [p \in Procs |-> 0] /\ batch = [w \in Waiters |-> {}]
    /\ conn = 0 /\ chan = 0 /\ exch = 0
    /\ pending = {} /\ flusher = "none"
    /\ stop = "idle" /\ closing = 0 /\ stops = 0 /\ promised = {}
    /\ futs = [f \in Futs |-> [at |-> "none", conn |-> 0]]
    /\ link = [c \in Conns |-> "none"] /\ copies = [p \in Procs |-> 0]
    /\ faults = 0

-----------------------------------------------------------------------------
(* What a coroutine does up to its next await.                              *)

Return(p, r) == at' = [at EXCEPT ![p] = "done"] /\ result' = [result EXCEPT ![p] = r]

\* An exception in _do_publish: another attempt, or the fields are reset and it is raised.
PublishRaises(p) ==
    /\ IF LastAttempt(tries[p])
       THEN /\ Return(p, "raised") /\ conn' = 0 /\ chan' = 0 /\ exch' = 0
            /\ UNCHANGED tries
       ELSE /\ at' = [at EXCEPT ![p] = "send_ready"] /\ tries' = [tries EXCEPT ![p] = @ + 1]
            /\ UNCHANGED <<result, fieldVars>>
    /\ batch' = [batch EXCEPT ![p] = {}]
    /\ UNCHANGED <<pending, futs>>

\* Publish on exchange e, of attempt n; a full batch is awaited by the one who filled it.
PublishOn(p, e, n) ==
    LET f == <<p, n>>
    IN  /\ futs' = [futs EXCEPT ![f] = [at |-> "new", conn |-> e]]
        /\ IF ~Batched
           THEN /\ at' = [at EXCEPT ![p] = "publishing"] /\ batch' = [batch EXCEPT ![p] = {f}]
                /\ UNCHANGED <<pending, result>>
           ELSE IF Cardinality(pending) + 1 >= config.batch
           THEN /\ at' = [at EXCEPT ![p] = "flushing"]
                /\ batch' = [batch EXCEPT ![p] = pending \union {f}] /\ pending' = {}
                /\ UNCHANGED result
           ELSE pending' = pending \union {f} /\ Return(p, "ok") /\ UNCHANGED batch

\* _do_publish.  With a connection it goes on with the exchange that is there: start()
\* returns at once then, and the assertion fails if another coroutine is still starting.
TrySend(p) ==
    /\ IF ~Connected
       THEN /\ at' = [at EXCEPT ![p] = "connecting"] /\ startTries' = [startTries EXCEPT ![p] = 1]
            /\ UNCHANGED <<tries, result, fieldVars, batch, pending, futs>>
       ELSE IF exch = 0 THEN PublishRaises(p) /\ UNCHANGED startTries
       ELSE PublishOn(p, exch, tries[p]) /\ UNCHANGED <<tries, startTries, fieldVars>>
    /\ UNCHANGED <<config, own, flusher, stopVars, link, copies, faults>>

-----------------------------------------------------------------------------
(* send() and start().                                                      *)

SendCall(p) ==
    /\ at[p] = "idle"
    /\ at' = [at EXCEPT ![p] = "send_ready"] /\ tries' = [tries EXCEPT ![p] = 1]
    /\ UNCHANGED <<config, startTries, own, result, batch, fieldVars, pending, flusher, stopVars,
                   futs, link, copies, faults>>

\* The first attempt, or the next one after the delay.
Attempt(p) == at[p] = "send_ready" /\ TrySend(p)

\* The publish, or the batch it has filled, is confirmed or fails.
SendAwaited(p) ==
    /\ at[p] \in {"publishing", "flushing"} /\ Gathered(batch[p])
    /\ IF SomeFailed(batch[p]) THEN PublishRaises(p)
       ELSE /\ Return(p, "ok") /\ batch' = [batch EXCEPT ![p] = {}]
            /\ pending' = PendingOnceGathered
            /\ UNCHANGED <<tries, fieldVars, futs>>
    /\ UNCHANGED <<config, startTries, own, flusher, stopVars, link, copies, faults>>

StartCall(p) ==
    /\ at[p] = "idle"
    /\ IF Connected THEN Return(p, "ok") /\ UNCHANGED startTries
       ELSE /\ at' = [at EXCEPT ![p] = "connecting"] /\ startTries' = [startTries EXCEPT ![p] = 1]
            /\ UNCHANGED result
    /\ UNCHANGED <<config, tries, own, batch, fieldVars, pending, flusher, stopVars, futs, link,
                   copies, faults>>

\* The next attempt of start() does not look at the connection again.
StartRetry(p) ==
    /\ at[p] = "start_ready" /\ at' = [at EXCEPT ![p] = "connecting"]
    /\ UNCHANGED <<config, tries, startTries, own, result, batch, fieldVars, pending, flusher,
                   stopVars, futs, link, copies, faults>>

ConnectionMade(p) == \E c \in Conns \ Opened :
    /\ at[p] = "connecting" /\ \A b \in Conns \ Opened : c <= b
    /\ link' = [link EXCEPT ![c] = "bare"] /\ conn' = c
    /\ own' = [own EXCEPT ![p] = c] /\ at' = [at EXCEPT ![p] = "opening"]
    /\ UNCHANGED <<config, tries, startTries, result, batch, chan, exch, pending, flusher,
                   stopVars, futs, copies, faults>>

ChannelMade(p) ==
    /\ at[p] = "opening" /\ link[own[p]] = "bare"
    /\ link' = [link EXCEPT ![own[p]] = "up"] /\ chan' = own[p]
    /\ at' = [at EXCEPT ![p] = "declaring"]
    /\ UNCHANGED <<config, tries, startTries, own, result, batch, conn, exch, pending, flusher,
                   stopVars, futs, copies, faults>>

\* The last step of start(); a send() goes on to publish.
Declared(p) ==
    /\ at[p] = "declaring" /\ link[own[p]] = "up"
    /\ exch' = own[p]
    /\ flusher' = IF Periodic /\ flusher \in {"none", "done"} THEN "created" ELSE flusher
    /\ IF tries[p] = 0 THEN Return(p, "ok") /\ UNCHANGED <<batch, pending, futs>>
       ELSE PublishOn(p, own[p], tries[p])
    /\ UNCHANGED <<config, tries, startTries, own, conn, chan, stopVars, link, copies, faults>>

\* The call a start() awaits cannot succeed any more: stop() has closed its connection.
Hopeless(p) == \/ at[p] = "opening" /\ link[own[p]] # "bare"
               \/ at[p] = "declaring" /\ link[own[p]] # "up"

\* What _do_start has opened is not closed.
StartFails(p) ==
    /\ at[p] \in {"connecting", "opening", "declaring"}
    /\ IF Hopeless(p) THEN UNCHANGED faults ELSE faults < config.maxFaults /\ faults' = faults + 1
    /\ IF ~LastAttempt(startTries[p])
       THEN /\ at' = [at EXCEPT ![p] = "start_ready"]
            /\ startTries' = [startTries EXCEPT ![p] = @ + 1]
            /\ UNCHANGED <<tries, result, fieldVars, batch, pending, futs>>
       ELSE /\ IF tries[p] # 0 THEN PublishRaises(p)
               ELSE Return(p, "raised") /\ UNCHANGED <<tries, fieldVars, batch, pending, futs>>
            /\ UNCHANGED startTries
    /\ UNCHANGED <<config, own, flusher, stopVars, link, copies>>

-----------------------------------------------------------------------------
(* _flush_confirms_periodically.                                            *)

FlusherStep ==
    /\ \/ flusher = "created" /\ flusher' = (IF Connected THEN "sleeping" ELSE "done")
          /\ UNCHANGED <<batch, pending>>
       \/ flusher = "sleeping" /\ pending # {}
          /\ flusher' = "flushing" /\ batch' = [batch EXCEPT !["flusher"] = pending]
          /\ pending' = {}
       \/ flusher = "sleeping" /\ pending = {} /\ ~Connected
          /\ flusher' = "done" /\ UNCHANGED <<batch, pending>>
       \/ flusher = "flushing" /\ Gathered(batch["flusher"])
          /\ flusher' = (IF SomeFailed(batch["flusher"]) THEN AfterFailedFlush
                         ELSE IF Connected THEN "sleeping" ELSE "done")
          /\ batch' = [batch EXCEPT !["flusher"] = {}] /\ pending' = PendingOnceGathered
    /\ UNCHANGED <<config, procVars, fieldVars, stopVars, futs, link, copies, faults>>

-----------------------------------------------------------------------------
(* The publishes, the connections and the broker.                           *)

envUnchanged == <<config, procVars, batch, fieldVars, pending, flusher, stopVars>>

\* The broker gets the message; without confirms that is all the publish waits for.
Sent(f) ==
    /\ futs[f].at = "new" /\ link[futs[f].conn] = "up"
    /\ futs' = [futs EXCEPT ![f].at = IF config.confirm THEN "sent" ELSE "ok"]
    /\ copies' = [copies EXCEPT ![f[1]] = @ + 1]
    /\ UNCHANGED <<envUnchanged, link, faults>>

\* Without confirms a message that does not arrive is not noticed.
SentInVain(f) ==
    /\ ~config.confirm /\ futs[f].at = "new" /\ faults < config.maxFaults
    /\ futs' = [futs EXCEPT ![f].at = "ok"] /\ faults' = faults + 1
    /\ UNCHANGED <<envUnchanged, link, copies>>

Confirmed(f) ==
    /\ futs[f].at = "sent" /\ link[futs[f].conn] = "up"
    /\ futs' = [futs EXCEPT ![f].at = "ok"]
    /\ UNCHANGED <<envUnchanged, link, copies, faults>>

\* The channel is closed, or the broker refuses the message.  A lost one is waited for.
Rejected(f) ==
    /\ futs[f].at = "new" /\ futs' = [futs EXCEPT ![f].at = "failed"]
    /\ IF ChannelGone(f) THEN UNCHANGED faults
       ELSE faults < config.maxFaults /\ faults' = faults + 1
    /\ UNCHANGED <<envUnchanged, link, copies>>

ConnectionLost(c) ==
    /\ link[c] = "up" /\ faults < config.maxFaults /\ faults' = faults + 1
    /\ link' = [link EXCEPT ![c] = "lost"] /\ futs' = Broken({c})
    /\ UNCHANGED <<envUnchanged, copies>>

Reconnected(c) ==
    /\ link[c] = "lost" /\ link' = [link EXCEPT ![c] = "up"]
    /\ UNCHANGED <<envUnchanged, futs, copies, faults>>

\* Who waits for a confirm on a channel that was closed gets an exception.
Aborted(f) ==
    /\ futs[f].at = "sent" /\ ChannelGone(f)
    /\ futs' = [futs EXCEPT ![f].at = "failed"]
    /\ UNCHANGED <<envUnchanged, link, copies, faults>>

-----------------------------------------------------------------------------
(* stop().                                                                  *)

\* Cancelling the flusher cancels the publishes it awaits.
Cancelled == [f \in Futs |-> IF f \in batch["flusher"] /\ futs[f].at \in {"new", "sent"}
                             THEN [futs[f] EXCEPT !.at = "cancelled"] ELSE futs[f]]

\* The finally clause: close the connection that is there now; is_closed is TRUE from the
\* call of close() on.  l is the connections as the caller leaves them.
CloseConnection(l) ==
    /\ chan' = 0 /\ exch' = 0
    /\ IF conn # 0 /\ l[conn] # "closed"
       THEN /\ stop' = "closing_conn" /\ closing' = conn
            /\ link' = [l EXCEPT ![conn] = "closed"] /\ UNCHANGED conn
       ELSE stop' = "stopped" /\ closing' = 0 /\ conn' = 0 /\ link' = l

\* After the flush: cancel the flusher, then close the channel.
CancelAndClose ==
    /\ flusher' = "none"
    /\ batch' = [batch EXCEPT !["flusher"] = {}, !["stop"] = {}]
    /\ futs' = Cancelled
    /\ IF chan # 0 /\ link[chan] \in {"up", "lost"}
       THEN /\ stop' = "closing_chan" /\ closing' = chan
            /\ UNCHANGED <<fieldVars, link>>
       ELSE CloseConnection(link)

StopCall ==
    /\ stop \in {"idle", "stopped"} /\ stops < config.maxStops /\ stops' = stops + 1
    /\ promised' = {p \in Procs : tries[p] > 0 /\ result[p] = "ok"}
    /\ pending' = {}
    /\ IF pending = {} THEN CancelAndClose
       ELSE /\ stop' = "flushing" /\ batch' = [batch EXCEPT !["stop"] = pending]
            /\ UNCHANGED <<closing, fieldVars, flusher, futs, link>>
    /\ UNCHANGED <<config, procVars, copies, faults>>

\* A failed confirm is ignored.
StopFlushed ==
    /\ stop = "flushing" /\ Gathered(batch["stop"])
    /\ CancelAndClose
    /\ pending' = PendingOnceGathered
    /\ UNCHANGED <<config, procVars, stops, promised, copies, faults>>

ChannelClosed ==
    /\ stop = "closing_chan"
    /\ CloseConnection([link EXCEPT ![closing] = IF @ = "closed" THEN @ ELSE "bare"])
    /\ UNCHANGED <<config, procVars, batch, pending, flusher, stops, promised, futs, copies, faults>>

ConnectionClosed ==
    /\ stop = "closing_conn"
    /\ conn' = 0 /\ stop' = "stopped" /\ closing' = 0
    /\ UNCHANGED <<config, procVars, batch, chan, exch, pending, flusher, stops, promised, futs, link,
                   copies, faults>>

-----------------------------------------------------------------------------

ProcStep(p) ==
    \/ Attempt(p) \/ SendAwaited(p) \/ StartRetry(p)
    \/ ConnectionMade(p) \/ ChannelMade(p) \/ Declared(p)
    \/ IF Hopeless(p) THEN StartFails(p) ELSE FALSE

\* A publish does not stay where it is unless its connection is being restored.
PublishStep(f) ==
    \/ Sent(f) \/ Confirmed(f) \/ Aborted(f)
    \/ IF ChannelGone(f) THEN Rejected(f) ELSE FALSE

StopStep == StopFlushed \/ ChannelClosed \/ ConnectionClosed

Next ==
    \/ \E p \in Procs : SendCall(p) \/ StartCall(p) \/ ProcStep(p) \/ StartFails(p)
    \/ \E f \in Futs : PublishStep(f) \/ Rejected(f) \/ SentInVain(f)
    \/ \E c \in Conns : ConnectionLost(c) \/ Reconnected(c)
    \/ FlusherStep \/ StopCall \/ StopStep

Spec == Init /\ [][Next]_vars

\* Calls of aio-pika return, a lost connection is restored, delays end and the event loop runs
\* every task that can go on.  Nobody has to call send(), start() or stop().
Fairness ==
    /\ \A p \in Procs : WF_vars(ProcStep(p))
    /\ \A f \in Futs : WF_vars(PublishStep(f))
    /\ \A c \in Conns : WF_vars(Reconnected(c))
    /\ WF_vars(FlusherStep) /\ WF_vars(StopStep)

FairSpec == Spec /\ Fairness

-----------------------------------------------------------------------------
(* Properties.                                                              *)

ProcState == {"idle", "send_ready", "start_ready", "connecting", "opening", "declaring",
              "publishing", "flushing", "done"}

\* Type invariant: what the coroutines, the fields of the object and the environment hold.
TypeOK ==
    /\ config \in Config
    /\ at \in [Procs -> ProcState] /\ result \in [Procs -> {"none", "ok", "raised"}]
    /\ tries \in [Procs -> 0 .. MaxAttempts] /\ startTries \in [Procs -> 0 .. MaxAttempts]
    /\ own \in [Procs -> 0 .. MaxConns] /\ batch \in [Waiters -> SUBSET Futs]
    /\ {conn, chan, exch, closing} \subseteq 0 .. MaxConns
    /\ pending \subseteq Futs
    /\ flusher \in {"none", "created", "sleeping", "flushing", "done"}
    /\ stop \in {"idle", "flushing", "closing_chan", "closing_conn", "stopped"}
    /\ futs \in [Futs -> Fut]
    /\ link \in [Conns -> {"none", "bare", "up", "lost", "closed"}]
    /\ copies \in [Procs -> Nat] /\ promised \subseteq Procs
    /\ stops \in 0 .. config.maxStops /\ faults \in 0 .. config.maxFaults

\* With confirms and no batches a send() that returns has its message at the broker, whatever
\* was retried, restored or stopped meanwhile.
SentIsPublished ==
    config.confirm /\ ~Batched => \A p \in Procs : tries[p] > 0 /\ result[p] = "ok" => copies[p] > 0

\* Without faults and stop() a message is published once, however many coroutines send,
\* start and flush at the same time.
PublishedOnce ==
    faults = 0 /\ stops = 0 => \A p \in Procs : copies[p] <= 1

\* Who will still look at the outcome of a publish: the coroutines, the flusher or stop() that
\* gather it, and whoever will take the list.
Holders(f) == {w \in Waiters : f \in batch[w]}
Keepers(f) == Cardinality(Holders(f)) + IF f \in pending THEN 1 ELSE 0
Unsettled(f) == futs[f].at \in {"new", "sent"}
GatherRaises(w) == batch'[w] = {} /\ \E g \in batch[w] : futs[g].at = "failed"

\* With batches a send() returns before its message is confirmed.  Until it is, somebody keeps
\* its future, and only one does, across faults, retries and stop(): it drops out of sight
\* in one way only, when the gather of its own batch raises because another confirm failed
\* (async_adapter.py:204 gathers without return_exceptions; nobody awaits the rest then).
NoForgottenConfirm ==
    [][\A f \in Futs : Unsettled(f)' =>
          \/ Keepers(f)' = 1
          \/ Keepers(f)' = 0 /\ \/ Unsettled(f) /\ Keepers(f) = 0
                                \/ \E w \in Holders(f) : GatherRaises(w)]_vars

\* Every send() and start() ends, with its attempts used up at the latest.
CallsReturn == \A p \in Procs : at[p] # "idle" ~> at[p] = "done"

\* stop() ends, also when the confirms it waits for fail.
StopReturns == stop \notin {"idle", "stopped"} ~> stop \in {"idle", "stopped"}

\* With a flush interval no confirm stays in the list for ever while the sender is connected.
PendingFlushed ==
    Periodic /\ pending # {} ~> pending = {} \/ conn = 0

-----------------------------------------------------------------------------
(* A statement of the repository that the code does not keep *)

\* stop() "flush[es] any outstanding confirms": without faults every message whose send()
\* has returned before is with the broker once stop() has returned.
StopFlushes ==
    faults = 0 /\ stop = "stopped" => \A p \in promised : copies[p] > 0
=============================================================================
