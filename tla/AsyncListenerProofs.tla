--------------------------- MODULE AsyncListenerProofs ---------------------------
(***************************************************************************)
(* Theorems about AsyncListener, for any number of starts, stops, handlers *)
(* and faults.                                                             *)
(***************************************************************************)
EXTENDS AsyncListener, FiniteSetTheorems, TLAPS

-----------------------------------------------------------------------------
(* Type correctness.                                                        *)

LEMMA Bounds ==
  /\ MaxConcurrency \in Nat \ {0} /\ MaxStarts \in Nat \ {0} /\ MaxTasks \in Nat \ {0}
  /\ MaxStops \in Nat /\ MaxFaults \in Nat /\ MaxErrors \in Nat
  BY BoundsAssumption

LEMMA TypeInit == Init => TypeOK
  BY ConfigsAssumption, Bounds
  DEF Init, TypeOK, Starts, Slots, NoTask, NoConsumer, Config, Task

LEMMA TypeStartCall ==
  ASSUME TypeOK, NEW k \in Starts, StartCall(k) PROVE TypeOK'
  BY DEF TypeOK, StartCall, Starts, startVars, stopVars, fieldVars, semVars, taskVars, brokerVars, historyVars

\* What is common to steps of start() that move on and set a field.
StartPlaces == {"idle", "skipped", "connecting", "opening", "declaring", "binding",
                "consuming", "registered", "ok", "failed"}
LinkStates == {"none", "bare", "up", "lost", "closed"}

LEMMA SetFields ==
  ASSUME TypeOK
  PROVE  /\ start \in [Starts -> StartPlaces] /\ link \in [Starts -> LinkStates]
         /\ conn \in 0 .. MaxStarts /\ chan \in 0 .. MaxStarts /\ queue \in 0 .. MaxStarts
         /\ tag \in 0 .. MaxStarts
  BY DEF TypeOK, StartPlaces, LinkStates

LEMMA StartSets ==
  ASSUME TypeOK, start' \in [Starts -> StartPlaces], link' \in [Starts -> LinkStates],
         conn' \in 0 .. MaxStarts, chan' \in 0 .. MaxStarts, queue' \in 0 .. MaxStarts,
         tag' \in 0 .. MaxStarts,
         UNCHANGED <<chosen, stopVars, semVars, taskVars, consumers, brokerVars, historyVars, faults, errors>>
  PROVE  TypeOK'
  BY DEF TypeOK, StartPlaces, LinkStates, stopVars, semVars, taskVars, brokerVars, historyVars

LEMMA TypeConnectionMade ==
  ASSUME TypeOK, NEW k \in Starts, ConnectionMade(k) PROVE TypeOK'
<1>1. /\ start' \in [Starts -> StartPlaces] /\ link' \in [Starts -> LinkStates]
      /\ conn' \in 0 .. MaxStarts /\ chan' \in 0 .. MaxStarts /\ queue' \in 0 .. MaxStarts
      /\ tag' \in 0 .. MaxStarts
  BY SetFields DEF ConnectionMade, Starts, StartPlaces, LinkStates
<1> QED
  BY <1>1, StartSets DEF ConnectionMade

LEMMA TypeChannelOpened ==
  ASSUME TypeOK, NEW k \in Starts, ChannelOpened(k) PROVE TypeOK'
<1>1. /\ start' \in [Starts -> StartPlaces] /\ link' \in [Starts -> LinkStates]
      /\ conn' \in 0 .. MaxStarts /\ chan' \in 0 .. MaxStarts /\ queue' \in 0 .. MaxStarts
      /\ tag' \in 0 .. MaxStarts
  BY SetFields DEF ChannelOpened, Starts, StartPlaces, LinkStates
<1> QED
  BY <1>1, StartSets DEF ChannelOpened

LEMMA TypeDeclared ==
  ASSUME TypeOK, NEW k \in Starts, Declared(k) PROVE TypeOK'
  BY DEF TypeOK, Declared, Starts, startVars, stopVars, fieldVars, semVars, taskVars, brokerVars, historyVars

LEMMA TypeStarted ==
  ASSUME TypeOK, NEW k \in Starts, Started(k) PROVE TypeOK'
<1>1. /\ start' \in [Starts -> StartPlaces] /\ link' \in [Starts -> LinkStates]
      /\ conn' \in 0 .. MaxStarts /\ chan' \in 0 .. MaxStarts /\ queue' \in 0 .. MaxStarts
      /\ tag' \in 0 .. MaxStarts
  BY SetFields DEF Started, Starts, StartPlaces, LinkStates
<1> QED
  BY <1>1, StartSets DEF Started

LEMMA TypeReconnected ==
  ASSUME TypeOK, NEW k \in Starts, Reconnected(k) PROVE TypeOK'
  BY DEF TypeOK, Reconnected, Starts, startVars, stopVars, fieldVars, semVars, taskVars, brokerVars, historyVars

LEMMA TypeUnpark ==
  ASSUME TypeOK, NEW m \in Messages, Unpark(m) PROVE TypeOK'
  BY DEF TypeOK, Unpark, startVars, stopVars, fieldVars, semVars, taskVars, brokerVars, historyVars

LEMMA TypeStartFails ==
  ASSUME TypeOK, NEW k \in Starts, StartFails(k) PROVE TypeOK'
<1>1. faults' \in 0 .. MaxFaults
  BY Bounds DEF TypeOK, StartFails
<1>2. start' \in [Starts -> {"idle", "skipped", "connecting", "opening", "declaring", "binding",
                             "consuming", "registered", "ok", "failed"}]
  BY DEF TypeOK, StartFails
<1> QED
  BY <1>1, <1>2 DEF TypeOK, StartFails, startVars, stopVars, fieldVars, semVars, taskVars, brokerVars, historyVars

LEMMA TypeBound ==
  ASSUME TypeOK, NEW k \in Starts, Bound(k) PROVE TypeOK'
<1>1. /\ DOMAIN permits' \subseteq Starts /\ \A j \in DOMAIN permits' : permits'[j] \in Nat
     /\ sem' \in DOMAIN permits'
  BY Bounds DEF TypeOK, Bound, NewPermits
<1>2. queue' \in 0 .. MaxStarts /\ sem' \in 0 .. MaxStarts
  BY Bounds DEF TypeOK, Bound, Usable, Starts
<1> QED
  BY <1>1, <1>2 DEF TypeOK, Bound, startVars, stopVars, fieldVars, semVars, taskVars, brokerVars, historyVars

LEMMA TypeConnectionLost ==
  ASSUME TypeOK, NEW k \in Starts, ConnectionLost(k) PROVE TypeOK'
<1>1. faults' \in 0 .. MaxFaults
  BY Bounds DEF TypeOK, ConnectionLost
<1>2. /\ ready' \subseteq Messages /\ unacked' \subseteq Messages \X Starts
     /\ fresh' \subseteq Slots
  BY DEF TypeOK, ConnectionLost, PutBack
<1> QED
  BY <1>1, <1>2 DEF TypeOK, ConnectionLost, startVars, stopVars, fieldVars, semVars, taskVars, brokerVars, historyVars

LEMMA TypeDeliver ==
  ASSUME TypeOK, NEW k \in Starts, Deliver(k) PROVE TypeOK'
<1>1. PICK m \in ready, d \in Slots :
        /\ tasks' = [tasks EXCEPT ![d] = [at |-> "created", msg |-> m, conn |-> k, sem |-> 0,
                                         attempt |-> Attempt(m)]]
        /\ fresh' = fresh \union {d} /\ inFlight' = inFlight \union {d}
        /\ ready' = ready \ {m}
        /\ IF NoAck THEN acked' = acked \union {m} /\ UNCHANGED unacked
           ELSE unacked' = unacked \union {<<m, k>>} /\ UNCHANGED acked
  BY DEF Deliver
<1>2. m \in Messages /\ Attempt(m) \in Nat
  BY <1>1 DEF TypeOK, Attempt
<1>3. [at |-> "created", msg |-> m, conn |-> k, sem |-> 0, attempt |-> Attempt(m)] \in Task
  BY <1>2, Bounds DEF Task, TaskState
<1>4. tasks' \in [Slots -> Task \union {NoTask}]
  BY <1>1, <1>3 DEF TypeOK
<1>5. /\ ready' \subseteq Messages /\ unacked' \subseteq Messages \X Starts
      /\ acked' \subseteq Messages /\ fresh' \subseteq Slots /\ inFlight' \subseteq Slots
  BY <1>1, <1>2 DEF TypeOK
<1> QED
  BY <1>4, <1>5 DEF TypeOK, Deliver, startVars, stopVars, fieldVars, semVars, historyVars

LEMMA TypeRegistered ==
  ASSUME TypeOK, NEW k \in Starts, Registered(k) PROVE TypeOK'
<1>1. chosen[k] \in Starts
  BY Bounds DEF TypeOK, Registered, Usable, Starts
<1>2. consumers' \subseteq Starts \X Starts
  BY <1>1 DEF TypeOK, Registered
<1> QED
  BY <1>1, <1>2 DEF TypeOK, Registered, startVars, stopVars, fieldVars, semVars, taskVars, brokerVars, historyVars

\* What a handler does to itself: the parts of TypeOK it may disturb.
TaskTypes ==
  /\ tasks \in [Slots -> Task \union {NoTask}]
  /\ inFlight \subseteq Slots /\ awaited \subseteq Slots /\ cancelled \subseteq Slots
  /\ fresh \subseteq Slots
PermitTypes ==
  /\ DOMAIN permits \subseteq Starts /\ \A k \in DOMAIN permits : permits[k] \in Nat
  /\ sem \in 0 .. MaxStarts /\ (sem # 0 => sem \in DOMAIN permits)
BrokerTypes ==
  /\ ready \subseteq Messages /\ unacked \subseteq Messages \X Starts
  /\ acked \subseteq Messages /\ parked \subseteq Messages
  /\ deaths \in [Messages -> Nat] /\ copies \in [Messages -> Nat]

LEMMA AliveTask ==
  ASSUME TypeOK, NEW d \in Slots, tasks[d].at # "none" PROVE tasks[d] \in Task
  BY DEF TypeOK, NoTask

LEMMA GotoTypes ==
  ASSUME TypeOK, NEW d \in Slots, tasks[d].at # "none", NEW l \in TaskState, Goto(d, l)
  PROVE TaskTypes'
<1>1. [tasks[d] EXCEPT !.at = l] \in Task
  BY AliveTask DEF Task
<1> QED
  BY <1>1 DEF TypeOK, Goto, TaskTypes

LEMMA OverTypes ==
  ASSUME TypeOK, NEW d \in Slots, Over(d) PROVE TaskTypes'
  BY DEF TypeOK, Over, TaskTypes

LEMMA ReleasedTypes ==
  ASSUME TypeOK, permits' = Released, UNCHANGED sem PROVE PermitTypes'
  BY DEF TypeOK, Released, PermitTypes

LEMMA AdmitTypes ==
  ASSUME TypeOK, NEW d \in Slots, tasks[d].at # "none", NEW s \in 0 .. MaxStarts, Free(s), Admit(d, s)
  PROVE TaskTypes' /\ PermitTypes' /\ calls' \in [Messages -> 0 .. 2]
<1>1. [[tasks[d] EXCEPT !.at = "running"] EXCEPT !.sem = s] \in Task
  BY AliveTask DEF Task, TaskState
<1>2. TaskTypes'
  BY <1>1 DEF TypeOK, Admit, TaskTypes
<1>3. PermitTypes'
  BY DEF TypeOK, Admit, Free, PermitTypes
<1>4. calls' \in [Messages -> 0 .. 2]
  BY AliveTask DEF TypeOK, Admit, Task
<1> QED
  BY <1>2, <1>3, <1>4

LEMMA SettleTypes ==
  ASSUME TypeOK, NEW d \in Slots, tasks[d].at # "none", Acked(d) \/ Nacked(d) \/ Copied(d)
  PROVE BrokerTypes'
<1>1. tasks[d].msg \in Messages
  BY AliveTask DEF Task
<1>2. CASE Acked(d)
  BY <1>1, <1>2 DEF TypeOK, Acked, BrokerTypes
<1>3. CASE Nacked(d)
  BY <1>1, <1>3 DEF TypeOK, Nacked, BrokerTypes
<1>4. CASE Copied(d)
  BY <1>1, <1>4 DEF TypeOK, Copied, BrokerTypes
<1> QED
  BY <1>2, <1>3, <1>4

LEMMA SameTypes ==
  ASSUME TypeOK
  PROVE /\ UNCHANGED taskVars => TaskTypes'
        /\ UNCHANGED semVars => PermitTypes'
        /\ UNCHANGED brokerVars => BrokerTypes'
  BY DEF TypeOK, TaskTypes, PermitTypes, BrokerTypes, taskVars, semVars, brokerVars

\* A step that is none of start()'s or stop()'s keeps TypeOK if it keeps these parts.
LEMMA HandlerTypes ==
  ASSUME TypeOK, TaskTypes', PermitTypes', BrokerTypes',
         UNCHANGED <<startVars, stopVars, fieldVars, link, consumers, config>>,
         calls' \in [Messages -> 0 .. 2], handled' \subseteq Messages, raised' \subseteq Messages,
         faults' \in 0 .. MaxFaults, errors' \in 0 .. MaxErrors
  PROVE TypeOK'
  BY DEF TypeOK, TaskTypes, PermitTypes, BrokerTypes, startVars, stopVars, fieldVars

LEMMA TypeAcquired ==
  ASSUME TypeOK, NEW d \in Slots, Acquired(d) PROVE TypeOK'
<1>1. tasks[d].sem \in 0 .. MaxStarts
  BY AliveTask DEF Acquired, Task
<1>2. TaskTypes' /\ PermitTypes' /\ calls' \in [Messages -> 0 .. 2]
  BY <1>1, AdmitTypes DEF Acquired
<1>3. BrokerTypes' /\ UNCHANGED <<handled, raised, config>>
  BY SameTypes DEF Acquired, Admit
<1> QED
  BY <1>1, <1>2, <1>3, HandlerTypes DEF TypeOK, Acquired, loopVars, historyVars

LEMMA TypeCallbackReturns ==
  ASSUME TypeOK, NEW d \in Slots, CallbackReturns(d) PROVE TypeOK'
<1>1. TaskTypes' /\ PermitTypes'
  BY GotoTypes, OverTypes, ReleasedTypes, SameTypes DEF CallbackReturns, Finish, TaskState
<1>2. BrokerTypes'
  BY SameTypes DEF CallbackReturns
<1>3. handled' \subseteq Messages
  BY AliveTask DEF TypeOK, CallbackReturns, Task
<1> QED
  BY <1>1, <1>2, <1>3, HandlerTypes DEF TypeOK, CallbackReturns, loopVars, historyVars

LEMMA TypeCallbackRaises ==
  ASSUME TypeOK, NEW d \in Slots, CallbackRaises(d) PROVE TypeOK'
<1>1. FailsAt(d) \in TaskState
  BY DEF FailsAt, TaskState
<1>2. TaskTypes' /\ PermitTypes'
  BY <1>1, GotoTypes, OverTypes, ReleasedTypes, SameTypes DEF CallbackRaises, Finish
<1>3. BrokerTypes'
  BY SameTypes DEF CallbackRaises
<1>4. raised' \subseteq Messages
  BY AliveTask DEF TypeOK, CallbackRaises, Task
<1>5. errors' \in 0 .. MaxErrors
  BY Bounds DEF TypeOK, CallbackRaises
<1> QED
  BY <1>1, <1>2, <1>3, <1>4, <1>5, HandlerTypes DEF TypeOK, CallbackRaises, loopVars, historyVars

LEMMA TypeAck ==
  ASSUME TypeOK, NEW d \in Slots, Ack(d) PROVE TypeOK'
<1>1. FailsAt(d) \in TaskState
  BY DEF FailsAt, TaskState
<1>2. TaskTypes' /\ PermitTypes'
  BY <1>1, GotoTypes, OverTypes, ReleasedTypes, SameTypes DEF Ack, Finish
<1>3. BrokerTypes'
  BY SettleTypes, SameTypes DEF Ack
<1> QED
  BY <1>1, <1>2, <1>3, HandlerTypes DEF TypeOK, Ack, loopVars, historyVars

LEMMA TypePoison ==
  ASSUME TypeOK, NEW d \in Slots, Poison(d) PROVE TypeOK'
<1>1. TaskTypes' /\ PermitTypes'
  BY GotoTypes, SameTypes DEF Poison, CopiedAt, NotCopiedAt, TaskState
<1>2. BrokerTypes'
  BY SettleTypes, SameTypes DEF Poison
<1> QED
  BY <1>1, <1>2, HandlerTypes DEF TypeOK, Poison, loopVars, historyVars

LEMMA TypePoisonRefused ==
  ASSUME TypeOK, NEW d \in Slots, PoisonRefused(d) PROVE TypeOK'
<1>1. TaskTypes' /\ PermitTypes'
  BY GotoTypes, SameTypes DEF PoisonRefused, NotCopiedAt, TaskState
<1>2. BrokerTypes'
  BY SameTypes DEF PoisonRefused
<1>3. faults' \in 0 .. MaxFaults
  BY Bounds DEF TypeOK, PoisonRefused
<1> QED
  BY <1>1, <1>2, <1>3, HandlerTypes DEF TypeOK, PoisonRefused, loopVars, historyVars

LEMMA TypePoisonAck ==
  ASSUME TypeOK, NEW d \in Slots, PoisonAck(d) PROVE TypeOK'
<1>1. TaskTypes' /\ PermitTypes'
  BY GotoTypes, OverTypes, ReleasedTypes, SameTypes DEF PoisonAck, Finish, TaskState
<1>2. BrokerTypes'
  BY SettleTypes, SameTypes DEF PoisonAck
<1> QED
  BY <1>1, <1>2, HandlerTypes DEF TypeOK, PoisonAck, loopVars, historyVars

LEMMA TypeNack ==
  ASSUME TypeOK, NEW d \in Slots, Nack(d) PROVE TypeOK'
<1>1. TaskTypes' /\ PermitTypes'
  BY OverTypes, ReleasedTypes DEF Nack, Finish
<1>2. BrokerTypes'
  BY SettleTypes, SameTypes DEF Nack
<1> QED
  BY <1>1, <1>2, HandlerTypes DEF TypeOK, Nack, loopVars, historyVars

LEMMA TypeCancelHandler ==
  ASSUME TypeOK, NEW d \in Slots, CancelHandler(d) PROVE TypeOK'
<1>1. TaskTypes' /\ PermitTypes'
  BY OverTypes, ReleasedTypes, SameTypes DEF CancelHandler, Finish
<1>2. BrokerTypes'
  BY SettleTypes, SameTypes DEF CancelHandler
<1> QED
  BY <1>1, <1>2, HandlerTypes DEF TypeOK, CancelHandler, loopVars, historyVars

LEMMA TypeBegin ==
  ASSUME TypeOK, NEW d \in Slots, Begin(d) PROVE TypeOK'
<1>1. /\ BrokerTypes' /\ UNCHANGED <<startVars, stopVars, fieldVars, link, consumers>>
      /\ faults' \in 0 .. MaxFaults /\ errors' \in 0 .. MaxErrors
  BY SameTypes DEF Begin, loopVars, TypeOK
<1>2. CASE sem = 0 /\ Over(d) /\ UNCHANGED <<semVars, historyVars>>
  <2>1. TaskTypes' /\ PermitTypes'
    BY <1>2, OverTypes, SameTypes
  <2> QED
    BY <1>1, <1>2, <2>1, HandlerTypes DEF historyVars, TypeOK
<1>3. CASE sem # 0 /\ Free(sem) /\ Admit(d, sem)
  <2>1. tasks[d].at # "none" /\ sem \in 0 .. MaxStarts
    BY DEF Begin, TypeOK
  <2>2. TaskTypes' /\ PermitTypes' /\ calls' \in [Messages -> 0 .. 2]
    BY <1>3, <2>1, AdmitTypes
  <2> QED
    BY <1>1, <1>3, <2>2, HandlerTypes DEF Admit, TypeOK
<1>4. CASE /\ sem # 0 /\ ~Free(sem)
           /\ tasks' = [tasks EXCEPT ![d].at = "waiting", ![d].sem = sem]
           /\ UNCHANGED <<semVars, fresh, inFlight, awaited, cancelled, historyVars>>
  <2>1. tasks[d] \in Task
    BY AliveTask DEF Begin
  <2>2. [[tasks[d] EXCEPT !.at = "waiting"] EXCEPT !.sem = sem] \in Task
    BY <2>1 DEF Task, TaskState, TypeOK
  <2>3. TaskTypes'
    BY <1>4, <2>2 DEF TypeOK, TaskTypes
  <2> QED
    BY <1>1, <1>4, <2>3, SameTypes, HandlerTypes DEF historyVars, TypeOK
<1> QED
  BY <1>2, <1>3, <1>4, Zenon DEF Begin

-----------------------------------------------------------------------------
(* stop() *)

\* The parts of TypeOK stop() may disturb.
StopTypes ==
  /\ stop \in {"idle", "cancelling", "waiting", "timedout", "closing_chan", "closing_conn", "stopped"}
  /\ conn \in 0 .. MaxStarts /\ chan \in 0 .. MaxStarts /\ queue \in 0 .. MaxStarts
  /\ tag \in 0 .. MaxStarts /\ sem \in 0 .. MaxStarts /\ closing \in 0 .. MaxStarts
  /\ cancelling \in (0 .. MaxStarts) \X (0 .. MaxStarts)
  /\ (sem # 0 => sem \in DOMAIN permits)
  /\ inFlight \subseteq Slots /\ awaited \subseteq Slots /\ cancelled \subseteq Slots
  /\ link \in [Starts -> {"none", "bare", "up", "lost", "closed"}]
  /\ consumers \subseteq Starts \X Starts
  /\ ready \subseteq Messages /\ unacked \subseteq Messages \X Starts /\ fresh \subseteq Slots

LEMMA StopPart == ASSUME TypeOK PROVE StopTypes
  BY DEF TypeOK, StopTypes

LEMMA StopRest ==
  ASSUME TypeOK, StopTypes', UNCHANGED permits, UNCHANGED stopUnchanged, stops' \in 0 .. MaxStops
  PROVE TypeOK'
  BY DEF TypeOK, StopTypes, stopUnchanged, startVars, historyVars

LEMMA PutBackTypes ==
  ASSUME TypeOK, NEW K, PutBack(K)
  PROVE ready' \subseteq Messages /\ unacked' \subseteq Messages \X Starts /\ fresh' \subseteq Slots
  BY DEF TypeOK, PutBack

LEMMA CloseTypes ==
  ASSUME TypeOK, NEW l \in [Starts -> {"none", "bare", "up", "lost", "closed"}],
         NEW cs \in SUBSET (Starts \X Starts), NEW K, CloseConnection(l, cs, K)
  PROVE /\ stop' \in {"closing_conn", "stopped"}
        /\ closing' \in 0 .. MaxStarts /\ conn' \in 0 .. MaxStarts
        /\ link' \in [Starts -> {"none", "bare", "up", "lost", "closed"}]
        /\ consumers' \subseteq Starts \X Starts
        /\ ready' \subseteq Messages /\ unacked' \subseteq Messages \X Starts /\ fresh' \subseteq Slots
<1>1. ready' \subseteq Messages /\ unacked' \subseteq Messages \X Starts /\ fresh' \subseteq Slots
  BY PutBackTypes DEF CloseConnection
<1>2. /\ stop' \in {"closing_conn", "stopped"}
      /\ closing' \in 0 .. MaxStarts /\ conn' \in 0 .. MaxStarts
      /\ link' \in [Starts -> {"none", "bare", "up", "lost", "closed"}]
      /\ consumers' \subseteq Starts \X Starts
  <2>0. 0 \in 0 .. MaxStarts /\ conn \in 0 .. MaxStarts
    BY Bounds DEF TypeOK
  <2>1. CASE conn # 0 /\ l[conn] # "closed"
    <3>1. link' = [l EXCEPT ![conn] = "closed"] /\ consumers' = {c \in cs : c[2] # conn}
          /\ stop' = "closing_conn" /\ closing' = conn /\ UNCHANGED conn
      BY <2>1 DEF CloseConnection
    <3>2. link' \in [Starts -> {"none", "bare", "up", "lost", "closed"}]
      BY <3>1
    <3> QED
      BY <2>0, <3>1, <3>2
  <2>2. CASE ~(conn # 0 /\ l[conn] # "closed")
    BY <2>0, <2>2 DEF CloseConnection
  <2> QED
    BY <2>1, <2>2
<1> QED
  BY <1>1, <1>2

LEMMA CleanUpTypes ==
  ASSUME TypeOK, NEW cs \in SUBSET (Starts \X Starts), CleanUp(cs),
         cancelling' \in (0 .. MaxStarts) \X (0 .. MaxStarts)
  PROVE  StopTypes'
<1>0. /\ tag' = 0 /\ inFlight' = {} /\ sem' = 0 /\ UNCHANGED <<queue, permits, awaited, cancelled>>
      /\ 0 \in 0 .. MaxStarts
  BY Bounds DEF CleanUp
<1>1. CASE chan # 0 /\ link[chan] \in {"up", "lost"}
  BY <1>0, <1>1 DEF TypeOK, CleanUp, StopTypes
<1>2. CASE ~(chan # 0 /\ link[chan] \in {"up", "lost"})
  <2>1. chan' = 0 /\ CloseConnection(link, cs, {})
    BY <1>2 DEF CleanUp
  <2> QED
    BY <1>0, <2>1, CloseTypes DEF TypeOK, StopTypes
<1> QED
  BY <1>1, <1>2

LEMMA WaitTypes ==
  ASSUME TypeOK, NEW cs \in SUBSET (Starts \X Starts), WaitForHandlers(cs),
         cancelling' \in (0 .. MaxStarts) \X (0 .. MaxStarts)
  PROVE StopTypes' /\ UNCHANGED permits
<1>1. CASE inFlight = {}
  BY <1>1, CleanUpTypes DEF WaitForHandlers, CleanUp
<1>2. CASE inFlight # {}
  BY <1>2 DEF WaitForHandlers, TypeOK, StopTypes, fieldVars, semVars
<1> QED
  BY <1>1, <1>2

LEMMA TypeStop == ASSUME TypeOK, StopCall \/ StopStep PROVE TypeOK'
<1>1. CASE StopCall
  <2>1. stops' \in 0 .. MaxStops /\ UNCHANGED stopUnchanged
    BY <1>1, Bounds DEF StopCall, TypeOK
  <2>2. StopTypes' /\ UNCHANGED permits
    <3>1. CASE queue # 0 /\ tag # 0
      BY <1>1, <3>1 DEF StopCall, TypeOK, StopTypes, fieldVars, semVars
    <3>2. CASE ~(queue # 0 /\ tag # 0)
      BY <1>1, <3>2, WaitTypes DEF StopCall, TypeOK
    <3> QED
      BY <3>1, <3>2
  <2> QED
    BY <2>1, <2>2, StopRest
<1>2. CASE CancelReturned
  <2>1. StopTypes' /\ UNCHANGED permits
    BY <1>2, Bounds, WaitTypes DEF CancelReturned, TypeOK, NoConsumer
  <2> QED
    BY <1>2, <2>1, StopRest DEF CancelReturned, TypeOK
<1>3. CASE HandlersDone
  BY <1>3, CleanUpTypes, StopRest DEF HandlersDone, CleanUp, TypeOK
<1>4. CASE StopTimesOut
  <2>1. StopTypes' /\ UNCHANGED permits
    BY <1>4 DEF StopTimesOut, TimedOut, TypeOK, StopTypes, fieldVars, semVars
  <2> QED
    BY <1>4, <2>1, StopRest DEF StopTimesOut, TypeOK
<1>5. CASE ChannelClosed
  <2> DEFINE l == [link EXCEPT ![closing] = IF @ = "up" THEN "bare" ELSE @]
             cs == {c \in consumers : c[2] # closing}
  <2>1. l \in [Starts -> {"none", "bare", "up", "lost", "closed"}] /\ cs \in SUBSET (Starts \X Starts)
    BY DEF TypeOK
  <2>2. CloseConnection(l, cs, {closing}) /\ chan' = 0
        /\ UNCHANGED <<cancelling, queue, tag, semVars, inFlight, awaited, cancelled>>
    BY <1>5 DEF ChannelClosed
  <2>3. StopTypes'
    <3> HIDE DEF l, cs
    <3>1. /\ stop' \in {"closing_conn", "stopped"}
          /\ closing' \in 0 .. MaxStarts /\ conn' \in 0 .. MaxStarts
          /\ link' \in [Starts -> {"none", "bare", "up", "lost", "closed"}]
          /\ consumers' \subseteq Starts \X Starts
          /\ ready' \subseteq Messages /\ unacked' \subseteq Messages \X Starts /\ fresh' \subseteq Slots
      BY <2>1, <2>2, CloseTypes
    <3>2. 0 \in 0 .. MaxStarts
      BY Bounds
    <3> QED
      BY <2>2, <3>1, <3>2 DEF TypeOK, StopTypes, semVars
  <2> QED
    BY <1>5, <2>3, StopRest DEF ChannelClosed, TypeOK, semVars
<1>6. CASE ConnectionClosed
  <2>1. StopTypes' /\ UNCHANGED permits
    BY <1>6, Bounds DEF ConnectionClosed, TypeOK, StopTypes, semVars
  <2> QED
    BY <1>6, <2>1, StopRest DEF ConnectionClosed, TypeOK
<1> QED
  BY <1>1, <1>2, <1>3, <1>4, <1>5, <1>6 DEF StopStep

-----------------------------------------------------------------------------

LEMMA TypeStutter == ASSUME TypeOK, UNCHANGED vars PROVE TypeOK'
  BY DEF TypeOK, vars, startVars, stopVars, fieldVars, semVars, taskVars, brokerVars, historyVars

LEMMA TypeStep == TypeOK /\ [Next]_vars => TypeOK'
<1> SUFFICES ASSUME TypeOK, [Next]_vars PROVE TypeOK'
  OBVIOUS
<1>1. ASSUME NEW k \in Starts,
             \/ StartCall(k) \/ StartStep(k) \/ StartFails(k)
             \/ ConnectionLost(k) \/ Reconnected(k) \/ Deliver(k)
      PROVE TypeOK'
  BY <1>1, TypeStartCall, TypeConnectionMade, TypeChannelOpened, TypeDeclared, TypeBound,
     TypeRegistered, TypeStarted, TypeStartFails, TypeConnectionLost, TypeReconnected, TypeDeliver
  DEF StartStep
<1>2. ASSUME NEW m \in Messages, Unpark(m) PROVE TypeOK'
  BY <1>2, TypeUnpark
<1>3. ASSUME NEW d \in Slots,
             \/ HandlerStep(d) \/ PoisonRefused(d) \/ CallbackReturns(d) \/ CallbackRaises(d)
      PROVE TypeOK'
  BY <1>3, TypeBegin, TypeAcquired, TypeAck, TypePoison, TypePoisonAck, TypeNack, TypeCancelHandler,
     TypePoisonRefused, TypeCallbackReturns, TypeCallbackRaises
  DEF HandlerStep
<1> QED
  BY <1>1, <1>2, <1>3, TypeStop, TypeStutter DEF Next

\* Type correctness: the fields of the listener, the tasks and the broker's sets keep their types
\* whatever start(), stop(), the handlers and lost connections do in between.
THEOREM TypeCorrect == Spec => []TypeOK
<1>1. Init => TypeOK
  BY TypeInit
<1>2. TypeOK /\ [Next]_vars => TypeOK'
  BY TypeStep
<1> QED
  BY <1>1, <1>2, PTL DEF Spec

-----------------------------------------------------------------------------
(* At least once.  A handler that is about to ack has seen its callback     *)
(* return, or has put a copy into the dead letter queue.                    *)

AckInv ==
  /\ \A d \in Slots : tasks[d].at = "acking" => tasks[d].msg \in handled
  /\ \A d \in Slots : tasks[d].at = "settling" => copies[tasks[d].msg] > 0
  /\ AtLeastOnce

\* What a step may do to the handlers, the copies and the acknowledged messages.
LEMMA AckStep ==
  ASSUME TypeOK, TypeOK', AckInv, UNCHANGED config, handled \subseteq handled',
         \A m \in Messages : copies'[m] >= copies[m],
         \A d \in Slots : tasks'[d].at = "acking" => tasks'[d] = tasks[d] \/ tasks'[d].msg \in handled',
         \A d \in Slots : tasks'[d].at = "settling" => tasks'[d] = tasks[d] \/ copies'[tasks'[d].msg] > 0,
         ~AutoAck => \A m \in acked' : m \in acked \/ m \in handled \/ copies[m] > 0
  PROVE AckInv'
<1>1. \A m \in Messages : copies[m] \in Nat /\ copies'[m] \in Nat
  BY DEF TypeOK
<1>2. ASSUME NEW d \in Slots, tasks'[d].at = "acking" PROVE tasks'[d].msg \in handled'
  BY <1>2 DEF AckInv
<1>3. ASSUME NEW d \in Slots, tasks'[d].at = "settling" PROVE copies'[tasks'[d].msg] > 0
  <2>1. CASE tasks'[d] = tasks[d]
    <3>1. copies[tasks[d].msg] > 0 /\ tasks[d].msg \in Messages
      BY <1>3, <2>1, AliveTask DEF AckInv, Task
    <3> QED
      BY <1>1, <2>1, <3>1
  <2> QED
    BY <1>3, <2>1
<1>4. AtLeastOnce'
  <2> SUFFICES ASSUME ~AutoAck, NEW m \in acked' PROVE m \in handled' \/ copies'[m] > 0
    BY DEF AtLeastOnce, AutoAck
  <2>1. m \in handled \/ copies[m] > 0
    BY DEF AckInv, AtLeastOnce
  <2>2. m \in Messages
    BY DEF TypeOK
  <2> QED
    BY <1>1, <2>1, <2>2
<1> QED
  BY <1>2, <1>3, <1>4 DEF AckInv

\* Steps that leave handled, copies and acked alone, and no handler at an ack it was not at.
LEMMA AckQuiet ==
  ASSUME TypeOK, TypeOK', AckInv, UNCHANGED <<config, handled, copies, acked>>,
         \A d \in Slots : tasks'[d].at \in {"acking", "settling"} => tasks'[d] = tasks[d]
  PROVE AckInv'
<1>1. \A m \in Messages : copies'[m] >= copies[m]
  BY DEF TypeOK
<1> QED
  BY <1>1, AckStep

\* A handler that moves on to another place than an ack.
LEMMA GotoQuiet ==
  ASSUME TypeOK, NEW d \in Slots, NEW l, l \notin {"acking", "settling"}, Goto(d, l) \/ Over(d)
  PROVE \A e \in Slots : tasks'[e].at \in {"acking", "settling"} => tasks'[e] = tasks[e]
<1> SUFFICES ASSUME NEW e \in Slots, tasks'[e].at \in {"acking", "settling"} PROVE tasks'[e] = tasks[e]
  OBVIOUS
<1>1. CASE e = d
  <2>1. CASE Goto(d, l)
    <3>1. tasks'[d] = [tasks[d] EXCEPT !.at = l]
      BY <2>1 DEF Goto, TypeOK
    <3>2. CASE tasks[d].at = "none"
      BY <1>1, <3>1, <3>2 DEF TypeOK, NoTask, Task
    <3>3. CASE tasks[d].at # "none"
      BY <1>1, <3>1, <3>3, AliveTask DEF Task
    <3> QED
      BY <3>2, <3>3
  <2>2. CASE Over(d)
    BY <1>1, <2>2 DEF Over, TypeOK, NoTask
  <2> QED
    BY <2>1, <2>2
<1>2. CASE e # d
  BY <1>2 DEF Goto, Over, TypeOK
<1> QED
  BY <1>1, <1>2

LEMMA AckInit == Init => AckInv
  BY DEF Init, AckInv, AtLeastOnce, NoTask

\* What start(), stop() and the environment do.
LEMMA AckOutside ==
  ASSUME TypeOK, TypeOK', AckInv,
         \/ \E k \in Starts : \/ StartCall(k) \/ StartStep(k) \/ StartFails(k)
                              \/ ConnectionLost(k) \/ Reconnected(k)
         \/ \E m \in Messages : Unpark(m)
         \/ StopCall \/ StopStep \/ UNCHANGED vars
  PROVE AckInv'
<1>1. UNCHANGED <<config, tasks, handled, copies, acked>>
  BY DEF StartCall, StartStep, StartFails, ConnectionMade, ChannelOpened, Declared, Bound, Registered,
     Started, ConnectionLost, Reconnected, Unpark, StopCall, StopStep, CancelReturned, HandlersDone,
     StopTimesOut, ChannelClosed, ConnectionClosed, stopUnchanged, startVars, stopVars, fieldVars,
     semVars, taskVars, brokerVars, historyVars, vars
<1> QED
  BY <1>1, AckQuiet

LEMMA AckDeliver == ASSUME TypeOK, TypeOK', AckInv, NEW k \in Starts, Deliver(k) PROVE AckInv'
<1>1. PICK m \in ready, d \in Slots :
        /\ tasks' = [tasks EXCEPT ![d] = [at |-> "created", msg |-> m, conn |-> k, sem |-> 0,
                                         attempt |-> Attempt(m)]]
        /\ IF NoAck THEN acked' = acked \union {m} ELSE UNCHANGED acked
  BY DEF Deliver
<1>2. UNCHANGED <<config, handled, copies>>
  BY DEF Deliver, historyVars
<1>3. \A e \in Slots : tasks'[e].at \in {"acking", "settling"} => tasks'[e] = tasks[e]
  BY <1>1 DEF TypeOK
<1>4. \A n \in Messages : copies'[n] >= copies[n]
  BY <1>2 DEF TypeOK
<1>5. ~AutoAck => acked' = acked
  BY <1>1 DEF NoAck
<1>6. ~AutoAck => \A n \in acked' : n \in acked \/ n \in handled \/ copies[n] > 0
  BY <1>5
<1> QED
  BY <1>2, <1>3, <1>4, <1>6, AckStep

LEMMA AckBegin == ASSUME TypeOK, TypeOK', AckInv, NEW d \in Slots, Begin(d) \/ Acquired(d) PROVE AckInv'
<1>1. UNCHANGED <<config, handled, copies, acked>>
  BY DEF Begin, Acquired, Admit, historyVars, brokerVars
<1>2. \/ Over(d)
      \/ \E s \in {sem, tasks[d].sem} : \E l \in {"waiting", "running"} :
            tasks' = [tasks EXCEPT ![d].at = l, ![d].sem = s]
  BY DEF Begin, Acquired, Admit
<1>3. \A e \in Slots : tasks'[e].at \in {"acking", "settling"} => tasks'[e] = tasks[e]
  <2>1. CASE Over(d)
    BY <2>1, GotoQuiet
  <2>2. ASSUME NEW s, NEW l \in {"waiting", "running"},
               tasks' = [tasks EXCEPT ![d].at = l, ![d].sem = s]
        PROVE \A e \in Slots : tasks'[e].at \in {"acking", "settling"} => tasks'[e] = tasks[e]
    <3>1. tasks[d] \in Task
      BY AliveTask DEF Begin, Acquired
    <3> QED
      BY <2>2, <3>1 DEF TypeOK, Task
  <2> QED
    BY <1>2, <2>1, <2>2
<1> QED
  BY <1>1, <1>3, AckQuiet

LEMMA AckCallback ==
  ASSUME TypeOK, TypeOK', AckInv, NEW d \in Slots, CallbackReturns(d) \/ CallbackRaises(d) PROVE AckInv'
<1>1. UNCHANGED <<config, copies, acked>> /\ handled \subseteq handled' /\ tasks[d].at = "running"
  BY DEF CallbackReturns, CallbackRaises, brokerVars
<1>2. \A m \in Messages : copies'[m] >= copies[m]
  BY <1>1 DEF TypeOK
<1>3. CASE Over(d) \/ \E l \in {"poison", "nacking"} : Goto(d, l)
  <2>1. \A e \in Slots : tasks'[e].at \in {"acking", "settling"} => tasks'[e] = tasks[e]
    BY <1>3, GotoQuiet
  <2> QED
    BY <1>1, <1>2, <2>1, AckStep
<1>4. CASE CallbackReturns(d) /\ Goto(d, "acking")
  <2>1. tasks[d].msg \in handled' /\ tasks[d] \in Task
    BY <1>1, <1>4, AliveTask DEF CallbackReturns
  <2>2. tasks' = [tasks EXCEPT ![d].at = "acking"]
    BY <1>4 DEF Goto
  <2>3. \A e \in Slots : tasks'[e].at = "acking" => tasks'[e] = tasks[e] \/ tasks'[e].msg \in handled'
    BY <2>1, <2>2 DEF TypeOK, Task
  <2>4. \A e \in Slots : tasks'[e].at = "settling" => tasks'[e] = tasks[e]
    BY <2>1, <2>2 DEF TypeOK, Task
  <2> QED
    BY <1>1, <1>2, <2>3, <2>4, AckStep
<1> QED
  BY <1>3, <1>4 DEF CallbackReturns, CallbackRaises, Finish, FailsAt

LEMMA AckSettle ==
  ASSUME TypeOK, TypeOK', AckInv, NEW d \in Slots, Ack(d) \/ PoisonAck(d) \/ Nack(d) \/ CancelHandler(d)
  PROVE AckInv'
<1>1. UNCHANGED <<config, handled>>
  BY DEF Ack, PoisonAck, Nack, CancelHandler, historyVars
<1>2. tasks[d].at # "none" \/ Over(d)
  BY DEF Ack, PoisonAck, Nack, CancelHandler, Finish
<1>3. \A e \in Slots : tasks'[e].at \in {"acking", "settling"} => tasks'[e] = tasks[e]
  <2>1. Over(d) \/ \E l \in {"poison", "nacking"} : Goto(d, l)
    BY DEF Ack, PoisonAck, Nack, CancelHandler, Finish, FailsAt
  <2> QED
    BY <2>1, GotoQuiet
<1>4. \A m \in Messages : copies'[m] >= copies[m]
  BY DEF TypeOK, Ack, PoisonAck, Nack, CancelHandler, Acked, Nacked, Copied, brokerVars
<1>5. \A m \in acked' : m \in acked \/ m \in handled \/ copies[m] > 0
  <2>1. CASE Acked(d) /\ tasks[d].at \in {"acking", "settling"}
    BY <2>1 DEF Acked, AckInv
  <2>2. CASE UNCHANGED acked
    BY <2>2
  <2> QED
    BY <2>1, <2>2 DEF Ack, PoisonAck, Nack, CancelHandler, Nacked, Copied, brokerVars
<1> QED
  BY <1>1, <1>3, <1>4, <1>5, AckStep

LEMMA AckPoison ==
  ASSUME TypeOK, TypeOK', AckInv, NEW d \in Slots, Poison(d) \/ PoisonRefused(d) PROVE AckInv'
<1>1. UNCHANGED <<config, handled, acked>> /\ tasks[d].at = "poison"
  BY DEF Poison, PoisonRefused, Copied, brokerVars, historyVars
<1>2. \A m \in Messages : copies'[m] >= copies[m]
  BY DEF TypeOK, Poison, PoisonRefused, Copied, brokerVars
<1>3. CASE Goto(d, "nacking")
  <2>1. \A e \in Slots : tasks'[e].at \in {"acking", "settling"} => tasks'[e] = tasks[e]
    BY <1>3, GotoQuiet
  <2> QED
    BY <1>1, <1>2, <2>1, AckStep
<1>4. CASE Copied(d) /\ Goto(d, "settling")
  <2>1. tasks[d] \in Task /\ tasks[d].msg \in Messages
    BY <1>1, AliveTask DEF Task
  <2>2. copies'[tasks[d].msg] > 0
    BY <1>4, <2>1 DEF Copied, TypeOK
  <2>3. tasks' = [tasks EXCEPT ![d].at = "settling"]
    BY <1>4 DEF Goto
  <2>4. \A e \in Slots : tasks'[e].at = "settling" => tasks'[e] = tasks[e] \/ copies'[tasks'[e].msg] > 0
    BY <2>1, <2>2, <2>3 DEF TypeOK, Task
  <2>5. \A e \in Slots : tasks'[e].at = "acking" => tasks'[e] = tasks[e]
    BY <2>1, <2>3 DEF TypeOK, Task
  <2> QED
    BY <1>1, <1>2, <2>4, <2>5, AckStep
<1> QED
  BY <1>3, <1>4 DEF Poison, PoisonRefused, CopiedAt, NotCopiedAt

LEMMA AckNext == ASSUME TypeOK, AckInv, [Next]_vars PROVE AckInv'
<1>1. TypeOK'
  BY TypeStep
<1> QED
  BY <1>1, AckOutside, AckDeliver, AckBegin, AckCallback, AckSettle, AckPoison DEF Next, HandlerStep

\* With auto_ack=False the broker forgets no message before a callback has handled it or a copy
\* is in the dead letter queue, for any number of connections, restarts and handlers.
THEOREM DeliveredAtLeastOnce == Spec => []AtLeastOnce
<1>1. Init => AckInv
  BY AckInit
<1>2. TypeOK /\ AckInv /\ [Next]_vars => AckInv'
  BY AckNext
<1>3. AckInv => AtLeastOnce
  BY DEF AckInv
<1> QED
  BY <1>1, <1>2, <1>3, TypeCorrect, PTL DEF Spec

-----------------------------------------------------------------------------
(* The bound on handlers.  With one semaphore its permits and the handlers  *)
(* between acquire() and release() do not exceed what it was made with;     *)
(* after stop() has forgotten it, release() gives nothing back.             *)

Busy == {d \in Slots : Admitted(d)}

SemInv ==
  /\ \A k \in DOMAIN permits : start[k] \in {"consuming", "registered", "ok", "failed"}
  /\ \A d \in Slots : tasks[d].at = "waiting" => tasks[d].sem \in DOMAIN permits
  /\ DOMAIN permits = {} => Busy = {}
  /\ \A k \in Starts : DOMAIN permits = {k} => permits[k] + Cardinality(Busy) <= MaxConcurrency

LEMMA BusyFinite == IsFiniteSet(Busy) /\ Cardinality(Busy) \in Nat
<1>1. IsFiniteSet(Slots)
  BY Bounds, FS_Interval DEF Slots
<1>2. IsFiniteSet(Busy)
  BY <1>1, FS_Subset DEF Busy
<1> QED
  BY <1>2, FS_CardinalityType

LEMMA SemInit == Init => SemInv
<1> SUFFICES ASSUME Init PROVE SemInv
  OBVIOUS
<1>1. Busy = {} /\ DOMAIN permits = {}
  BY DEF Init, Busy, Admitted, NoTask
<1>2. \A d \in Slots : tasks[d].at = "none"
  BY DEF Init, NoTask
<1> QED
  BY <1>1, <1>2 DEF SemInv

\* Steps that leave the permits, the set of busy handlers and the progress of start() alone.
LEMMA SemQuiet ==
  ASSUME TypeOK, SemInv, UNCHANGED permits, Busy' = Busy,
         \A k \in Starts : start[k] \in {"consuming", "registered", "ok", "failed"} =>
            start'[k] \in {"consuming", "registered", "ok", "failed"},
         \A d \in Slots : tasks'[d].at = "waiting" => tasks'[d] = tasks[d] \/ tasks'[d].sem \in DOMAIN permits
  PROVE SemInv'
<1>1. \A d \in Slots : tasks'[d].at = "waiting" => tasks'[d].sem \in DOMAIN permits'
  BY DEF SemInv
<1>2. \A k \in DOMAIN permits' : start'[k] \in {"consuming", "registered", "ok", "failed"}
  BY DEF SemInv, TypeOK
<1> QED
  BY <1>1, <1>2 DEF SemInv

\* start(), the environment and stop() leave the handlers and, but for Bound, the permits alone.
LEMMA SemOutside ==
  ASSUME TypeOK, SemInv,
         \/ \E k \in Starts : \/ StartCall(k) \/ ConnectionMade(k) \/ ChannelOpened(k) \/ Declared(k)
                              \/ Registered(k) \/ Started(k) \/ StartFails(k)
                              \/ ConnectionLost(k) \/ Reconnected(k)
         \/ \E m \in Messages : Unpark(m)
         \/ StopCall \/ StopStep \/ UNCHANGED vars
  PROVE SemInv'
<1>1. UNCHANGED tasks /\ UNCHANGED permits
  BY DEF StartCall, StartFails, ConnectionMade, ChannelOpened, Declared, Registered,
     Started, ConnectionLost, Reconnected, Unpark, StopCall, StopStep, CancelReturned, HandlersDone,
     StopTimesOut, ChannelClosed, ConnectionClosed, WaitForHandlers, CleanUp, stopUnchanged, startVars,
     stopVars, fieldVars, semVars, taskVars, brokerVars, historyVars, vars
<1>2. \A k \in Starts : start[k] \in {"consuming", "registered", "ok", "failed"} =>
         start'[k] \in {"consuming", "registered", "ok", "failed"}
  <2>1. CASE UNCHANGED start
    BY <2>1
  <2>2. ASSUME NEW j \in Starts, StartCall(j) PROVE start'[j] # start[j] => start[j] = "idle"
    BY <2>2 DEF StartCall
  <2>3. ASSUME NEW j \in Starts,
               \/ ConnectionMade(j) \/ ChannelOpened(j) \/ Declared(j) \/ Registered(j) \/ Started(j)
               \/ StartFails(j)
        PROVE start[j] \in {"consuming", "registered", "ok", "failed"} =>
                start'[j] \in {"consuming", "registered", "ok", "failed"}
    BY <2>3 DEF TypeOK, StartFails, ConnectionMade, ChannelOpened, Declared, Registered, Started
  <2>4. ASSUME NEW j \in Starts,
               \/ StartCall(j) \/ ConnectionMade(j) \/ ChannelOpened(j) \/ Declared(j)
               \/ Registered(j) \/ Started(j) \/ StartFails(j)
        PROVE \A k \in Starts \ {j} : start'[k] = start[k]
    BY <2>4 DEF TypeOK, StartCall, StartFails, ConnectionMade, ChannelOpened, Declared, Registered, Started
  <2>5. \/ UNCHANGED start
        \/ \E j \in Starts : \/ StartCall(j) \/ ConnectionMade(j) \/ ChannelOpened(j) \/ Declared(j)
                             \/ Registered(j) \/ Started(j) \/ StartFails(j)
    BY DEF ConnectionLost, Reconnected, Unpark, StopCall, StopStep, CancelReturned, HandlersDone,
       StopTimesOut, ChannelClosed, ConnectionClosed, stopUnchanged, startVars, vars
  <2> QED
    BY <2>1, <2>2, <2>3, <2>4, <2>5
<1>3. Busy' = Busy
  BY <1>1 DEF Busy, Admitted
<1> QED
  BY <1>1, <1>2, <1>3, SemQuiet

LEMMA SemBound == ASSUME TypeOK, SemInv, NEW k \in Starts, Bound(k) PROVE SemInv'
<1>1. /\ k \notin DOMAIN permits /\ DOMAIN permits' = DOMAIN permits \union {k}
      /\ permits'[k] = MaxConcurrency /\ UNCHANGED tasks
  BY DEF SemInv, Bound, NewPermits, taskVars
<1>2. Busy' = Busy
  BY <1>1 DEF Busy, Admitted
<1>3. \A j \in DOMAIN permits' : start'[j] \in {"consuming", "registered", "ok", "failed"}
  BY <1>1 DEF SemInv, Bound, TypeOK
<1>4. \A j \in Starts : DOMAIN permits' = {j} => permits'[j] + Cardinality(Busy') <= MaxConcurrency
  <2> SUFFICES ASSUME NEW j \in Starts, DOMAIN permits' = {j}
               PROVE permits'[j] + Cardinality(Busy') <= MaxConcurrency
    OBVIOUS
  <2>1. j = k /\ DOMAIN permits = {}
    BY <1>1
  <2>2. Cardinality(Busy') = 0
    BY <1>2, <2>1, FS_EmptySet DEF SemInv
  <2> QED
    BY <1>1, <2>1, <2>2, Bounds
<1> QED
  BY <1>1, <1>2, <1>3, <1>4 DEF SemInv

LEMMA SemDeliver == ASSUME TypeOK, SemInv, NEW k \in Starts, Deliver(k) PROVE SemInv'
<1>1. PICK m \in ready, d \in Slots :
        /\ ~Alive(d)
        /\ tasks' = [tasks EXCEPT ![d] = [at |-> "created", msg |-> m, conn |-> k, sem |-> 0,
                                         attempt |-> Attempt(m)]]
  BY DEF Deliver
<1>2. Busy' = Busy
  BY <1>1 DEF Busy, Admitted, Alive, TypeOK
<1>3. UNCHANGED permits /\ UNCHANGED start
  BY DEF Deliver, semVars, startVars
<1>4. \A e \in Slots : tasks'[e].at = "waiting" => tasks'[e] = tasks[e]
  BY <1>1 DEF TypeOK
<1> QED
  BY <1>2, <1>3, <1>4, SemQuiet

\* A handler that is over: its permit goes to the semaphore that is there, or is lost.
LEMMA SemOver ==
  ASSUME TypeOK, SemInv, NEW d \in Slots, Over(d), UNCHANGED start,
         UNCHANGED permits \/ (permits' = Released /\ Admitted(d))
  PROVE SemInv'
<1>1. tasks' = [tasks EXCEPT ![d] = NoTask]
  BY DEF Over
<1>2. Busy' = Busy \ {d}
  BY <1>1 DEF Busy, Admitted, TypeOK, NoTask
<1>3. DOMAIN permits' = DOMAIN permits
  BY DEF Released
<1>4. \A e \in Slots : tasks'[e].at = "waiting" => tasks'[e] = tasks[e]
  BY <1>1 DEF TypeOK, NoTask
<1>5. \A k \in Starts : DOMAIN permits' = {k} => permits'[k] + Cardinality(Busy') <= MaxConcurrency
  <2> SUFFICES ASSUME NEW k \in Starts, DOMAIN permits = {k}
               PROVE permits'[k] + Cardinality(Busy') <= MaxConcurrency
    BY <1>3
  <2>1. permits[k] \in Nat /\ permits[k] + Cardinality(Busy) <= MaxConcurrency
    BY DEF TypeOK, SemInv
  <2>2. Cardinality(Busy') = IF d \in Busy THEN Cardinality(Busy) - 1 ELSE Cardinality(Busy)
    BY <1>2, BusyFinite, FS_RemoveElement
  <2>3. CASE UNCHANGED permits
    BY <2>1, <2>2, <2>3, BusyFinite, Bounds
  <2>4. CASE permits' = Released /\ Admitted(d)
    <3>1. permits'[k] <= permits[k] + 1 /\ permits'[k] \in Nat
      BY <2>1, <2>4 DEF Released
    <3>2. d \in Busy
      BY <2>4 DEF Busy
    <3> QED
      BY <2>1, <2>2, <3>1, <3>2, BusyFinite, Bounds
  <2> QED
    BY <2>3, <2>4
<1>6. DOMAIN permits' = {} => Busy' = {}
  BY <1>2, <1>3 DEF SemInv
<1>7. \A k \in DOMAIN permits' : start'[k] \in {"consuming", "registered", "ok", "failed"}
  BY <1>3 DEF SemInv
<1>8. \A e \in Slots : tasks'[e].at = "waiting" => tasks'[e].sem \in DOMAIN permits'
  BY <1>3, <1>4 DEF SemInv
<1> QED
  BY <1>5, <1>6, <1>7, <1>8 DEF SemInv

\* A busy handler that goes from one place to another.
LEMMA SemGoto ==
  ASSUME TypeOK, SemInv, NEW d \in Slots, Admitted(d), UNCHANGED permits, UNCHANGED start,
         NEW l \in {"acking", "poison", "settling", "nacking"}, Goto(d, l)
  PROVE SemInv'
<1>1. tasks' = [tasks EXCEPT ![d].at = l] /\ tasks[d] \in Task
  BY AliveTask DEF Goto, Admitted
<1>2. Busy' = Busy
  BY <1>1 DEF Busy, Admitted, TypeOK, Task
<1>3. \A e \in Slots : tasks'[e].at = "waiting" => tasks'[e] = tasks[e]
  BY <1>1 DEF TypeOK, Task
<1> QED
  BY <1>2, <1>3, SemQuiet

LEMMA SemAdmit ==
  ASSUME TypeOK, SemInv, NEW d \in Slots, tasks[d].at \in {"created", "waiting"},
         NEW s \in DOMAIN permits, Free(s), Admit(d, s), UNCHANGED start
  PROVE SemInv'
<1>1. tasks' = [tasks EXCEPT ![d].at = "running", ![d].sem = s] /\ tasks[d] \in Task
  BY AliveTask DEF Admit
<1>2. permits' = [permits EXCEPT ![s] = @ - 1] /\ DOMAIN permits' = DOMAIN permits
  BY DEF Admit
<1>3. Busy' = Busy \union {d} /\ d \notin Busy
  BY <1>1 DEF Busy, Admitted, TypeOK, Task
<1>4. \A k \in Starts : DOMAIN permits' = {k} => permits'[k] + Cardinality(Busy') <= MaxConcurrency
  <2> SUFFICES ASSUME NEW k \in Starts, DOMAIN permits = {k}
               PROVE permits'[k] + Cardinality(Busy') <= MaxConcurrency
    BY <1>2
  <2>1. k = s /\ permits[k] \in Nat /\ permits[k] + Cardinality(Busy) <= MaxConcurrency
    BY DEF TypeOK, SemInv
  <2>2. permits'[k] = permits[k] - 1
    BY <1>2, <2>1
  <2>3. Cardinality(Busy') = Cardinality(Busy) + 1
    BY <1>3, BusyFinite, FS_AddElement
  <2> QED
    BY <2>1, <2>2, <2>3, BusyFinite, Bounds
<1>5. \A e \in Slots : tasks'[e].at = "waiting" => tasks'[e] = tasks[e]
  BY <1>1 DEF TypeOK, Task
<1>6. \A e \in Slots : tasks'[e].at = "waiting" => tasks'[e].sem \in DOMAIN permits'
  BY <1>2, <1>5 DEF SemInv
<1> QED
  BY <1>2, <1>4, <1>6 DEF SemInv

LEMMA SemBegin == ASSUME TypeOK, SemInv, NEW d \in Slots, Begin(d) PROVE SemInv'
<1>1. UNCHANGED start /\ tasks[d].at = "created" /\ tasks[d] \in Task
  BY AliveTask DEF Begin, loopVars, startVars
<1>2. CASE Over(d) /\ UNCHANGED semVars
  BY <1>1, <1>2, SemOver DEF semVars
<1>3. CASE sem # 0 /\ Free(sem) /\ Admit(d, sem)
  <2>1. sem \in DOMAIN permits
    BY <1>3 DEF TypeOK
  <2> QED
    BY <1>1, <1>3, <2>1, SemAdmit
<1>4. CASE /\ sem # 0 /\ UNCHANGED semVars
           /\ tasks' = [tasks EXCEPT ![d].at = "waiting", ![d].sem = sem]
  <2>1. Busy' = Busy
    BY <1>1, <1>4 DEF Busy, Admitted, TypeOK, Task
  <2>2. sem \in DOMAIN permits
    BY <1>4 DEF TypeOK
  <2>3. \A e \in Slots : tasks'[e].at = "waiting" =>
           tasks'[e] = tasks[e] \/ tasks'[e].sem \in DOMAIN permits
    BY <1>1, <1>4, <2>2 DEF TypeOK, Task
  <2>4. UNCHANGED permits
    BY <1>4 DEF semVars
  <2> QED
    BY <1>1, <2>1, <2>3, <2>4, SemQuiet
<1> QED
  BY <1>2, <1>3, <1>4 DEF Begin

LEMMA SemAcquired == ASSUME TypeOK, SemInv, NEW d \in Slots, Acquired(d) PROVE SemInv'
<1>1. UNCHANGED start /\ tasks[d].at = "waiting"
  BY DEF Acquired, loopVars, startVars
<1>2. tasks[d].sem \in DOMAIN permits
  BY <1>1 DEF SemInv
<1>3. Free(tasks[d].sem) /\ Admit(d, tasks[d].sem)
  BY DEF Acquired
<1> QED
  BY <1>1, <1>2, <1>3, SemAdmit

\* What an admitted handler does: it ends, and releases, or goes on.
LEMMA SemHandler ==
  ASSUME TypeOK, SemInv, NEW d \in Slots,
         \/ CallbackReturns(d) \/ CallbackRaises(d) \/ Ack(d) \/ PoisonAck(d) \/ Nack(d)
         \/ Poison(d) \/ PoisonRefused(d)
  PROVE SemInv'
<1>1. UNCHANGED start /\ Admitted(d)
  BY DEF CallbackReturns, CallbackRaises, Ack, PoisonAck, Nack, Poison, PoisonRefused, loopVars,
     startVars, Admitted
<1>2. \/ Finish(d)
      \/ /\ UNCHANGED permits
         /\ \E l \in {"acking", "poison", "settling", "nacking"} : Goto(d, l)
  BY DEF CallbackReturns, CallbackRaises, Ack, PoisonAck, Nack, Poison, PoisonRefused, FailsAt,
     CopiedAt, NotCopiedAt, semVars
<1>3. CASE Finish(d)
  BY <1>1, <1>3, SemOver DEF Finish
<1>4. CASE UNCHANGED permits /\ \E l \in {"acking", "poison", "settling", "nacking"} : Goto(d, l)
  BY <1>1, <1>4, SemGoto
<1> QED
  BY <1>2, <1>3, <1>4

LEMMA SemCancel == ASSUME TypeOK, SemInv, NEW d \in Slots, CancelHandler(d) PROVE SemInv'
<1>1. UNCHANGED start
  BY DEF CancelHandler, loopVars, startVars
<1>2. Over(d) /\ (UNCHANGED permits \/ (permits' = Released /\ Admitted(d)))
  BY DEF CancelHandler, Finish, semVars
<1> QED
  BY <1>1, <1>2, SemOver

LEMMA SemNext == ASSUME TypeOK, SemInv, [Next]_vars PROVE SemInv'
BY SemOutside, SemBound, SemDeliver, SemBegin, SemAcquired, SemHandler, SemCancel
   DEF Next, StartStep, HandlerStep

LEMMA SemImplies == ASSUME TypeOK, SemInv PROVE BoundedUntilRestart
<1> SUFFICES ASSUME Cardinality(DOMAIN permits) <= 1 PROVE Concurrency <= MaxConcurrency
  BY DEF BoundedUntilRestart
<1>1. Concurrency = Cardinality(Busy)
  BY DEF Concurrency, Busy
<1>2. IsFiniteSet(Starts)
  BY Bounds, FS_Interval DEF Starts
<1>3. IsFiniteSet(DOMAIN permits)
  BY <1>2, FS_Subset DEF TypeOK
<1>4. CASE DOMAIN permits = {}
  BY <1>1, <1>4, FS_EmptySet, Bounds DEF SemInv
<1>5. CASE DOMAIN permits # {}
  <2>1. PICK k \in Starts : k \in DOMAIN permits
    BY <1>5 DEF TypeOK
  <2>2. /\ IsFiniteSet(DOMAIN permits \ {k})
        /\ Cardinality(DOMAIN permits \ {k}) = Cardinality(DOMAIN permits) - 1
    BY <1>3, <2>1, FS_RemoveElement
  <2>3. Cardinality(DOMAIN permits) \in Nat /\ Cardinality(DOMAIN permits \ {k}) \in Nat
    BY <1>3, <2>2, FS_CardinalityType
  <2>4. Cardinality(DOMAIN permits \ {k}) = 0
    BY <2>2, <2>3
  <2>5. DOMAIN permits = {k}
    BY <2>1, <2>2, <2>4, FS_EmptySet
  <2>6. permits[k] + Cardinality(Busy) <= MaxConcurrency /\ permits[k] \in Nat
    BY <2>1, <2>5 DEF SemInv, TypeOK
  <2> QED
    BY <1>1, <2>6, BusyFinite, Bounds
<1> QED
  BY <1>4, <1>5

\* Until start() has made a second semaphore no more than max_concurrency handlers are between
\* acquire() and release(), across lost connections, time-outs of stop() and cancellations.
THEOREM BoundedHandlers == Spec => []BoundedUntilRestart
<1>1. Init => SemInv
  BY SemInit
<1>2. TypeOK /\ SemInv /\ [Next]_vars => SemInv'
  BY SemNext
<1>3. TypeOK /\ SemInv => BoundedUntilRestart
  BY SemImplies
<1> QED
  BY <1>1, <1>2, <1>3, TypeCorrect, PTL DEF Spec

-----------------------------------------------------------------------------
(* Connections.  As long as start() and stop() do not overlap, the object   *)
(* holds the only connection that is open, and consumers are on it.         *)

Open(k) == link[k] \in {"bare", "up", "lost"}

OpenInv ==
  /\ \A k \in Starts : Open(k) => conn = k
  /\ \A c \in consumers : link[c[2]] \in {"up", "lost"}
  /\ \A k \in Starts : Starting(k) => ~Stopping /\ \A j \in Starts : Starting(j) => j = k
  /\ \A k \in Starts : start[k] = "connecting" => ~Connected
  /\ stop = "closing_conn" => ~Connected

LEMMA OpenInit == Init => OpenInv
  BY DEF Init, OpenInv, Open, Starting, Connected

\* Without a connection nothing is open.
LEMMA NothingOpen ==
  ASSUME TypeOK, OpenInv, ~Connected
  PROVE  (\A k \in Starts : ~Open(k)) /\ consumers = {}
<1>1. \A k \in Starts : ~Open(k)
  BY DEF OpenInv, Open, Connected, Starts
<1>2. ASSUME NEW c \in consumers PROVE FALSE
  <2>1. c[2] \in Starts
    BY DEF TypeOK
  <2> QED
    BY <1>1, <2>1 DEF OpenInv, Open
<1> QED
  BY <1>1, <1>2

\* A step of start() changes what only that call is at.
LEMMA FieldTypes ==
  ASSUME TypeOK
  PROVE  /\ start \in [Starts -> StartPlaces] /\ link \in [Starts -> LinkStates]
         /\ conn \in 0 .. MaxStarts /\ chan \in 0 .. MaxStarts /\ queue \in 0 .. MaxStarts
         /\ tag \in 0 .. MaxStarts
  BY DEF TypeOK, StartPlaces, LinkStates

LEMMA StartMoves ==
  ASSUME TypeOK, OpenInv, NEW k \in Starts, Starting(k), NEW l, start' = [start EXCEPT ![k] = l], UNCHANGED stop,
         l # "connecting"
  PROVE  /\ \A j \in Starts : Starting(j)' => ~Stopping' /\ \A i \in Starts : Starting(i)' => i = j
         /\ \A j \in Starts : start'[j] # "connecting"
         /\ stop' # "closing_conn"
<1>1. \A j \in Starts : j # k => start'[j] = start[j] /\ ~Starting(j)
  BY DEF OpenInv, TypeOK
<1>2. start'[k] = l /\ ~Stopping' /\ stop' # "closing_conn"
  BY DEF OpenInv, TypeOK, Stopping
<1> QED
  BY <1>1, <1>2 DEF Starting

LEMMA OpenStartCall == ASSUME ~MayOverlap, TypeOK, OpenInv, NEW k \in Starts, StartCall(k) PROVE OpenInv'
<1>1. /\ ~Stopping /\ \A j \in Starts : ~Starting(j)
      /\ start' = [start EXCEPT ![k] = IF Connected THEN "skipped" ELSE "connecting"]
      /\ UNCHANGED <<link, conn, stop, consumers>>
  BY DEF StartCall, stopVars, fieldVars
<1>2. \A j \in Starts : Starting(j)' => j = k /\ start'[j] = "connecting" /\ ~Connected
  BY <1>1 DEF Starting, TypeOK
<1>3. Stopping' <=> Stopping
  BY <1>1 DEF Stopping
<1>4. \A j \in Starts : start'[j] = "connecting" => ~Connected
  BY <1>2 DEF Starting
<1>5. Connected' <=> Connected
  BY <1>1 DEF Connected
<1> QED
  BY <1>1, <1>2, <1>3, <1>4, <1>5 DEF OpenInv, Open

LEMMA OpenConnectionMade == ASSUME TypeOK, OpenInv, NEW k \in Starts, ConnectionMade(k) PROVE OpenInv'
<1>1. /\ start[k] = "connecting" /\ start' = [start EXCEPT ![k] = "opening"] /\ UNCHANGED <<stop, consumers>>
      /\ link' = [link EXCEPT ![k] = "bare"] /\ conn' = k /\ Starting(k)
  BY DEF ConnectionMade, stopVars, Starting
<1>2. (\A j \in Starts : ~Open(j)) /\ consumers = {}
  BY <1>1, NothingOpen DEF OpenInv
<1>3. \A j \in Starts : Open(j)' => j = k
  BY <1>1, <1>2 DEF Open, TypeOK
<1> QED
  BY <1>1, <1>2, <1>3, StartMoves DEF OpenInv

LEMMA OpenStartStep ==
  ASSUME TypeOK, OpenInv, NEW k \in Starts,
         \/ ChannelOpened(k) \/ Declared(k) \/ Bound(k) \/ Registered(k) \/ Started(k) \/ StartFails(k)
  PROVE  OpenInv'
<1>1. Starting(k) /\ UNCHANGED <<conn, stop>>
      /\ \E l \in {"declaring", "binding", "consuming", "registered", "ok", "failed"} : start' = [start EXCEPT ![k] = l]
  BY DEF ChannelOpened, Declared, Bound, Registered, Started, StartFails, Starting, fieldVars, stopVars
<1>2. /\ \A j \in Starts : Starting(j)' => ~Stopping' /\ \A i \in Starts : Starting(i)' => i = j
      /\ \A j \in Starts : start'[j] # "connecting"
      /\ stop' # "closing_conn"
  BY <1>1, StartMoves
<1>3. link' = link \/ (link[k] = "bare" /\ link' = [link EXCEPT ![k] = "up"])
  BY DEF ChannelOpened, Declared, Bound, Registered, Started, StartFails
<1>4. \A j \in Starts : (Open(j)' <=> Open(j)) /\ (link[j] \in {"up", "lost"} => link'[j] \in {"up", "lost"})
  BY <1>3 DEF Open, TypeOK
<1>5. \A c \in consumers' : c \in consumers \/ (c[2] \in Starts /\ link'[c[2]] = "up")
  <2>1. CASE Registered(k)
    <3>1. chosen[k] \in Starts /\ link[chosen[k]] = "up" /\ UNCHANGED link
      <4>1. chosen[k] # 0 /\ link[chosen[k]] = "up" /\ UNCHANGED link
        BY <2>1 DEF Registered, Usable
      <4>2. chosen[k] \in 0 .. MaxStarts
        BY DEF TypeOK
      <4> QED
        BY <4>1, <4>2, Bounds DEF Starts
    <3>2. consumers' = consumers \union {<<k, chosen[k]>>}
      BY <2>1 DEF Registered
    <3> QED
      BY <3>1, <3>2
  <2>2. CASE ~Registered(k)
    BY <2>2 DEF ChannelOpened, Declared, Bound, Started, StartFails
  <2> QED
    BY <2>1, <2>2
<1>6. \A c \in consumers : c[2] \in Starts
  BY DEF TypeOK
<1>7. \A c \in consumers' : link'[c[2]] \in {"up", "lost"}
  BY <1>4, <1>5, <1>6 DEF OpenInv
<1> QED
  BY <1>1, <1>2, <1>4, <1>7 DEF OpenInv

\* A connection that is lost, or comes back, stays one that is open.
LEMMA OpenLink == ASSUME TypeOK, OpenInv, NEW k \in Starts, ConnectionLost(k) \/ Reconnected(k) PROVE OpenInv'
<1>1. /\ UNCHANGED <<start, conn, stop, consumers>> /\ link[k] \in {"up", "lost"}
      /\ \E l \in {"up", "lost"} : link' = [link EXCEPT ![k] = l]
  BY DEF ConnectionLost, Reconnected, startVars, stopVars, fieldVars
<1>2. \A j \in Starts : /\ Open(j)' <=> Open(j)
                        /\ link[j] \in {"up", "lost"} => link'[j] \in {"up", "lost"}
                        /\ link'[j] = "closed" <=> link[j] = "closed"
  BY <1>1 DEF Open, TypeOK
<1>3. Connected' <=> Connected
  <2>1. conn = 0 \/ conn \in Starts
    BY Bounds DEF TypeOK, Starts
  <2> QED
    BY <1>1, <1>2, <2>1 DEF Connected
<1>4. \A c \in consumers : c[2] \in Starts
  BY DEF TypeOK
<1> QED
  BY <1>1, <1>2, <1>3, <1>4 DEF OpenInv, Starting, Stopping

\* The handlers and the broker leave the connections alone.
LEMMA OpenQuiet == ASSUME OpenInv, UNCHANGED <<start, stop, conn, link, consumers>> PROVE OpenInv'
  BY DEF OpenInv, Open, Starting, Stopping, Connected

LEMMA OpenHandlers ==
  ASSUME OpenInv,
         \/ \E k \in Starts : Deliver(k)
         \/ \E m \in Messages : Unpark(m)
         \/ \E d \in Slots : HandlerStep(d) \/ PoisonRefused(d) \/ CallbackReturns(d) \/ CallbackRaises(d)
         \/ UNCHANGED vars
  PROVE  OpenInv'
<1>1. UNCHANGED <<start, stop, conn, link, consumers>>
  BY DEF Deliver, Unpark, HandlerStep, PoisonRefused, CallbackReturns, CallbackRaises, Begin, Acquired,
         Ack, Poison, PoisonAck, Nack, CancelHandler, loopVars, startVars, stopVars, fieldVars, vars
<1> QED
  BY <1>1, OpenQuiet

\* What closing the connection leaves open: nothing.
LEMMA CloseLeaves ==
  ASSUME TypeOK, NEW l \in [Starts -> {"none", "bare", "up", "lost", "closed"}],
         NEW cs \in SUBSET (Starts \X Starts), NEW K, CloseConnection(l, cs, K),
         \A k \in Starts : l[k] \in {"bare", "up", "lost"} => conn = k,
         \A c \in cs : l[c[2]] \in {"up", "lost"}
  PROVE  (\A k \in Starts : ~Open(k)') /\ consumers' = {} /\ ~Connected' /\ stop' \in {"closing_conn", "stopped"}
<1>1. CASE conn # 0 /\ l[conn] # "closed"
  <2>1. /\ link' = [l EXCEPT ![conn] = "closed"] /\ consumers' = {c \in cs : c[2] # conn}
        /\ stop' = "closing_conn" /\ conn' = conn
    BY <1>1 DEF CloseConnection
  <2>2. conn \in Starts
    BY <1>1 DEF TypeOK, Starts
  <2>3. \A k \in Starts : link'[k] = IF k = conn THEN "closed" ELSE l[k]
    BY <2>1, <2>2
  <2>4. \A c \in cs : c[2] = conn
    OBVIOUS
  <2> QED
    BY <2>1, <2>2, <2>3, <2>4 DEF Open, Connected
<1>2. CASE ~(conn # 0 /\ l[conn] # "closed")
  <2>1. link' = l /\ consumers' = cs /\ conn' = 0 /\ stop' = "stopped"
    BY <1>2 DEF CloseConnection
  <2>2. \A k \in Starts : l[k] \notin {"bare", "up", "lost"}
    BY <1>2 DEF Starts
  <2>3. cs = {}
    BY <2>2
  <2> QED
    BY <2>1, <2>2, <2>3 DEF Open, Connected
<1> QED
  BY <1>1, <1>2

\* Where stop() may leave things: as they were, or closed.
Shut == (\A k \in Starts : ~Open(k)') /\ consumers' = {} /\ ~Connected' /\ stop' \in {"closing_conn", "stopped"}

LEMMA CleanUpLeaves ==
  ASSUME TypeOK, OpenInv, NEW cs \in SUBSET consumers, CleanUp(cs)
  PROVE  Shut \/ (UNCHANGED <<link, conn>> /\ consumers' = cs /\ stop' = "closing_chan")
<1>1. CASE chan # 0 /\ link[chan] \in {"up", "lost"}
  BY <1>1 DEF CleanUp
<1>2. CASE ~(chan # 0 /\ link[chan] \in {"up", "lost"})
  <2>1. CloseConnection(link, cs, {})
    BY <1>2 DEF CleanUp
  <2>2. \A k \in Starts : link[k] \in {"bare", "up", "lost"} => conn = k
    BY DEF OpenInv, Open
  <2>3. (\A c \in cs : link[c[2]] \in {"up", "lost"}) /\ cs \in SUBSET (Starts \X Starts)
    BY DEF OpenInv, TypeOK
  <2>4. link \in [Starts -> {"none", "bare", "up", "lost", "closed"}]
    BY DEF TypeOK
  <2> QED
    BY <2>1, <2>2, <2>3, <2>4, CloseLeaves DEF Shut
<1> QED
  BY <1>1, <1>2

LEMMA WaitLeaves ==
  ASSUME TypeOK, OpenInv, NEW cs \in SUBSET consumers, WaitForHandlers(cs)
  PROVE  Shut \/ (UNCHANGED <<link, conn>> /\ consumers' = cs /\ stop' \in {"closing_chan", "waiting"})
<1>1. CASE inFlight = {}
  BY <1>1, CleanUpLeaves DEF WaitForHandlers
<1>2. CASE inFlight # {}
  BY <1>2 DEF WaitForHandlers, fieldVars
<1> QED
  BY <1>1, <1>2

LEMMA StopLeaves ==
  ASSUME TypeOK, OpenInv, StopCall \/ StopStep
  PROVE  Shut \/ (UNCHANGED <<link, conn>> /\ consumers' \subseteq consumers /\ stop' # "closing_conn")
              \/ (UNCHANGED <<link, consumers>> /\ conn' = 0 /\ stop' = "stopped" /\ stop = "closing_conn")
<1>1. CASE StopCall
  BY <1>1, WaitLeaves DEF StopCall, fieldVars
<1>2. CASE CancelReturned
  BY <1>2, WaitLeaves DEF CancelReturned
<1>3. CASE HandlersDone
  BY <1>3, CleanUpLeaves DEF HandlersDone
<1>4. CASE StopTimesOut
  BY <1>4 DEF StopTimesOut, fieldVars
<1>5. CASE ChannelClosed
  <2> DEFINE l == [link EXCEPT ![closing] = IF @ = "up" THEN "bare" ELSE @]
             cs == {c \in consumers : c[2] # closing}
  <2>1. CloseConnection(l, cs, {closing})
    BY <1>5 DEF ChannelClosed
  <2>2. l \in [Starts -> {"none", "bare", "up", "lost", "closed"}] /\ cs \in SUBSET (Starts \X Starts)
    BY DEF TypeOK
  <2>3. \A k \in Starts : l[k] \in {"bare", "up", "lost"} => link[k] \in {"bare", "up", "lost"}
    BY DEF TypeOK
  <2>4. \A k \in Starts : l[k] \in {"bare", "up", "lost"} => conn = k
    BY <2>3 DEF OpenInv, Open
  <2>5. \A c \in cs : l[c[2]] \in {"up", "lost"}
    BY DEF OpenInv, TypeOK
  <2> HIDE DEF l, cs
  <2> QED
    BY <2>1, <2>2, <2>4, <2>5, CloseLeaves DEF Shut
<1>6. CASE ConnectionClosed
  BY <1>6 DEF ConnectionClosed
<1> QED
  BY <1>1, <1>2, <1>3, <1>4, <1>5, <1>6 DEF StopStep

LEMMA OpenStop == ASSUME ~MayOverlap, TypeOK, OpenInv, StopCall \/ StopStep PROVE OpenInv'
<1>1. UNCHANGED start
  BY DEF StopCall, StopStep, CancelReturned, HandlersDone, StopTimesOut, ChannelClosed, ConnectionClosed,
         stopUnchanged, startVars
<1>2. \A k \in Starts : ~Starting(k)
  <2>1. CASE StopCall
    BY <2>1 DEF StopCall
  <2>2. CASE StopStep
    BY <2>2 DEF StopStep, CancelReturned, HandlersDone, StopTimesOut, ChannelClosed, ConnectionClosed,
                OpenInv, Stopping
  <2> QED
    BY <2>1, <2>2
<1>3. \A k \in Starts : ~Starting(k)' /\ start'[k] # "connecting"
  BY <1>1, <1>2 DEF Starting
<1>4. CASE Shut
  BY <1>3, <1>4 DEF OpenInv, Shut
<1>5. CASE UNCHANGED <<link, conn>> /\ consumers' \subseteq consumers /\ stop' # "closing_conn"
  BY <1>3, <1>5 DEF OpenInv, Open
<1>6. CASE UNCHANGED <<link, consumers>> /\ conn' = 0 /\ stop' = "stopped" /\ stop = "closing_conn"
  <2>1. (\A k \in Starts : ~Open(k)) /\ consumers = {}
    BY <1>6, NothingOpen DEF OpenInv
  <2>2. \A k \in Starts : ~Open(k)'
    BY <1>6, <2>1 DEF Open
  <2> QED
    BY <1>3, <1>6, <2>1, <2>2 DEF OpenInv
<1> QED
  BY <1>4, <1>5, <1>6, StopLeaves

LEMMA OpenNext == ASSUME ~MayOverlap, TypeOK, OpenInv, [Next]_vars PROVE OpenInv'
  BY OpenStartCall, OpenConnectionMade, OpenStartStep, OpenLink, OpenHandlers, OpenStop DEF Next, StartStep

\* stop(), when no start() runs meanwhile, leaves no connection open and the broker no consumer,
\* whatever was lost, however often it was started, and also where start() failed half way
\* (async_adapter.py:520 on: each part of the clean-up looks at what there is).
THEOREM StopClosesAll == Spec => []StopCloses
<1>1. CASE MayOverlap
  <2>1. StopCloses
    BY <1>1 DEF StopCloses
  <2> QED
    BY <2>1, PTL
<1>2. CASE ~MayOverlap
  <2>1. Init => OpenInv
    BY OpenInit
  <2>2. TypeOK /\ OpenInv /\ [Next]_vars => OpenInv'
    BY <1>2, OpenNext
  <2>3. TypeOK /\ OpenInv => StopCloses
    <3> SUFFICES ASSUME TypeOK, OpenInv, conn = 0
                 PROVE  consumers = {} /\ \A k \in Starts : link[k] \in {"none", "closed"}
      BY DEF StopCloses
    <3>1. (\A k \in Starts : ~Open(k)) /\ consumers = {}
      BY NothingOpen DEF Connected
    <3> QED
      BY <3>1 DEF Open, TypeOK
  <2> QED
    BY <2>1, <2>2, <2>3, TypeCorrect, PTL DEF Spec
<1> QED
  BY <1>1, <1>2

-----------------------------------------------------------------------------
(* At most once.  With auto_ack a message is with the broker, or with one   *)
(* handler that has not called the user yet, or it was given to the user.   *)

Pending(d) == tasks[d].at \in {"created", "waiting"}

Once ==
  /\ unacked = {} /\ parked = {}
  /\ \A d \in Slots : tasks[d].at \in {"none", "created", "waiting", "running"}
  /\ \A d \in Slots : Pending(d) => calls[tasks[d].msg] = 0 /\ tasks[d].msg \notin ready
  /\ \A d, e \in Slots : Pending(d) /\ Pending(e) /\ tasks[d].msg = tasks[e].msg => d = e
  /\ \A m \in ready : calls[m] = 0
  /\ \A m \in Messages : calls[m] <= 1

OnceInv == AutoAck => Once

LEMMA OnceInit == Init => OnceInv
  BY DEF Init, OnceInv, Once, Pending, NoTask

\* Only a lost connection and stop() put something back, and there is nothing to put back.
LEMMA OnceOutside ==
  ASSUME TypeOK, Once,
         \/ \E k \in Starts : \/ StartCall(k) \/ StartStep(k) \/ StartFails(k)
                              \/ ConnectionLost(k) \/ Reconnected(k)
         \/ \E m \in Messages : Unpark(m)
         \/ StopCall \/ StopStep \/ UNCHANGED vars
  PROVE  Once'
<1>1. UNCHANGED <<tasks, calls>>
  BY DEF StartCall, StartStep, StartFails, ConnectionMade, ChannelOpened, Declared, Bound, Registered,
     Started, ConnectionLost, Reconnected, Unpark, StopCall, StopStep, CancelReturned, HandlersDone,
     StopTimesOut, ChannelClosed, ConnectionClosed, stopUnchanged, taskVars, historyVars, vars
<1>2. parked' = {}
  BY DEF Once, StartCall, StartStep, StartFails, ConnectionMade, ChannelOpened, Declared, Bound, Registered,
     Started, ConnectionLost, Reconnected, Unpark, StopCall, StopStep, CancelReturned, HandlersDone,
     StopTimesOut, ChannelClosed, ConnectionClosed, stopUnchanged, brokerVars, vars
<1>3. UNCHANGED <<ready, unacked>> \/ \E K : PutBack(K)
  <2>1. CASE StopCall \/ StopStep
    BY <2>1 DEF StopCall, StopStep, CancelReturned, HandlersDone, StopTimesOut, ChannelClosed, ConnectionClosed,
                WaitForHandlers, CleanUp, CloseConnection
  <2>2. CASE ~(StopCall \/ StopStep)
    BY <2>2 DEF Once, StartCall, StartStep, StartFails, ConnectionMade, ChannelOpened, Declared, Bound, Registered,
       Started, ConnectionLost, Reconnected, Unpark, brokerVars, vars
  <2> QED
    BY <2>1, <2>2
<1>4. ASSUME NEW K, PutBack(K) PROVE ready' = ready /\ unacked' = {}
  BY <1>4 DEF PutBack, Once
<1>5. ready' = ready /\ unacked' = {}
  BY <1>3, <1>4 DEF Once
<1> QED
  BY <1>1, <1>2, <1>5 DEF Once, Pending

LEMMA OnceDeliver == ASSUME TypeOK, AutoAck, Once, NEW k \in Starts, Deliver(k) PROVE Once'
<1>1. PICK m \in ready, d \in Slots :
        /\ tasks' = [tasks EXCEPT ![d] = [at |-> "created", msg |-> m, conn |-> k, sem |-> 0,
                                         attempt |-> Attempt(m)]]
        /\ ready' = ready \ {m} /\ UNCHANGED unacked
  BY DEF Deliver, NoAck
<1>2. UNCHANGED <<parked, calls>>
  BY DEF Deliver, historyVars
<1>3. tasks'[d].at = "created" /\ tasks'[d].msg = m /\ \A e \in Slots : e # d => tasks'[e] = tasks[e]
  BY <1>1 DEF TypeOK
<1>4. \A e \in Slots : e # d /\ Pending(e) => tasks[e].msg # m
  BY DEF Once
<1>5. \A e \in Slots : Pending(e)' <=> e = d \/ Pending(e)
  BY <1>3 DEF Pending
<1>6. calls[m] = 0
  BY DEF Once
<1>7. \A e \in Slots : Pending(e)' => calls'[tasks'[e].msg] = 0 /\ tasks'[e].msg \notin ready'
  BY <1>1, <1>2, <1>3, <1>5, <1>6 DEF Once
<1>8. \A e, f \in Slots : Pending(e)' /\ Pending(f)' /\ tasks'[e].msg = tasks'[f].msg => e = f
  BY <1>3, <1>4, <1>5 DEF Once
<1> QED
  BY <1>1, <1>2, <1>3, <1>7, <1>8 DEF Once

\* A handler that does not call the user: it waits for the semaphore, or is over.
LEMMA OnceStays ==
  ASSUME TypeOK, Once, NEW d \in Slots, UNCHANGED <<brokerVars, calls>>,
         \/ Over(d)
         \/ tasks[d].at = "created" /\ tasks' = [tasks EXCEPT ![d].at = "waiting", ![d].sem = sem]
  PROVE  Once'
<1>1. \A e \in Slots : e # d => tasks'[e] = tasks[e]
  BY DEF TypeOK, Over
<1>2. tasks'[d].at = "none" \/ (tasks'[d].at = "waiting" /\ tasks[d].at = "created" /\ tasks'[d].msg = tasks[d].msg)
  <2>1. CASE Over(d)
    BY <2>1 DEF TypeOK, Over, NoTask
  <2>2. CASE tasks[d].at = "created" /\ tasks' = [tasks EXCEPT ![d].at = "waiting", ![d].sem = sem]
    BY <2>2, AliveTask DEF TypeOK, Task
  <2> QED
    BY <2>1, <2>2
<1>3. \A e \in Slots : Pending(e)' => Pending(e) /\ tasks'[e].msg = tasks[e].msg
  BY <1>1, <1>2 DEF Pending
<1>4. UNCHANGED <<unacked, parked, ready, calls>>
  BY DEF brokerVars
<1>5. \A e \in Slots : tasks'[e].at \in {"none", "created", "waiting", "running"}
  BY <1>1, <1>2 DEF Once
<1> QED
  BY <1>3, <1>4, <1>5 DEF Once

LEMMA OnceAdmit ==
  ASSUME TypeOK, Once, NEW d \in Slots, Pending(d), NEW s, Admit(d, s), UNCHANGED brokerVars
  PROVE  Once'
<1>1. tasks[d] \in Task /\ tasks[d].msg \in Messages
  BY AliveTask DEF Pending, Task
<1>2. tasks' = [tasks EXCEPT ![d].at = "running", ![d].sem = s]
      /\ calls' = [calls EXCEPT ![tasks[d].msg] = IF @ < 2 THEN @ + 1 ELSE 2]
  BY DEF Admit
<1>3. tasks'[d].at = "running" /\ \A e \in Slots : e # d => tasks'[e] = tasks[e]
  BY <1>1, <1>2 DEF TypeOK, Task
<1>4. \A e \in Slots : Pending(e)' => Pending(e) /\ e # d /\ tasks'[e] = tasks[e]
  BY <1>3 DEF Pending
<1>5. calls'[tasks[d].msg] = 1 /\ \A m \in Messages : m # tasks[d].msg => calls'[m] = calls[m]
  <2>1. calls[tasks[d].msg] = 0
    BY DEF Once
  <2> QED
    BY <1>1, <1>2, <2>1 DEF TypeOK
<1>6. ASSUME NEW e \in Slots, Pending(e)' PROVE calls'[tasks'[e].msg] = 0 /\ tasks'[e].msg \notin ready'
  <2>1. tasks[e].msg # tasks[d].msg /\ tasks[e].msg \in Messages
    BY <1>4, <1>6, AliveTask DEF Once, Pending, Task
  <2> QED
    BY <1>4, <1>5, <1>6, <2>1 DEF Once, brokerVars
<1>7. ASSUME NEW m \in ready' PROVE calls'[m] = 0
  <2>1. m \in Messages /\ m \in ready /\ m # tasks[d].msg
    BY DEF Once, TypeOK, brokerVars
  <2> QED
    BY <1>5, <2>1 DEF Once
<1>8. \A m \in Messages : calls'[m] <= 1
  BY <1>5 DEF Once
<1>9. \A e, f \in Slots : Pending(e)' /\ Pending(f)' /\ tasks'[e].msg = tasks'[f].msg => e = f
  BY <1>4 DEF Once
<1>10. unacked' = {} /\ parked' = {} /\ \A e \in Slots : tasks'[e].at \in {"none", "created", "waiting", "running"}
  BY <1>3 DEF Once, brokerVars
<1> QED
  BY <1>6, <1>7, <1>8, <1>9, <1>10 DEF Once

LEMMA OnceHandler ==
  ASSUME TypeOK, AutoAck, Once, NEW d \in Slots,
         HandlerStep(d) \/ PoisonRefused(d) \/ CallbackReturns(d) \/ CallbackRaises(d)
  PROVE  Once'
<1>1. tasks[d].at \in {"none", "created", "waiting", "running"}
  BY DEF Once
<1>2. CASE Begin(d)
  <2>1. tasks[d].at = "created" /\ UNCHANGED brokerVars /\ Pending(d)
    BY <1>2 DEF Begin, Pending
  <2>2. \/ UNCHANGED calls /\ Over(d)
        \/ Admit(d, sem)
        \/ UNCHANGED calls /\ tasks' = [tasks EXCEPT ![d].at = "waiting", ![d].sem = sem]
    BY <1>2 DEF Begin, historyVars
  <2> QED
    BY <2>1, <2>2, OnceStays, OnceAdmit
<1>3. CASE Acquired(d)
  BY <1>3, OnceAdmit DEF Acquired, Pending
<1>4. CASE CallbackReturns(d) \/ CallbackRaises(d)
  <2>1. Over(d) /\ UNCHANGED <<brokerVars, calls>>
    BY <1>4 DEF CallbackReturns, CallbackRaises, Finish
  <2> QED
    BY <2>1, OnceStays
<1>5. CASE CancelHandler(d)
  <2>1. Over(d) /\ UNCHANGED <<brokerVars, calls>>
    BY <1>1, <1>5 DEF CancelHandler, Finish, historyVars
  <2> QED
    BY <2>1, OnceStays
<1>6. ~(Ack(d) \/ Poison(d) \/ PoisonAck(d) \/ Nack(d) \/ PoisonRefused(d))
  BY <1>1 DEF Ack, Poison, PoisonAck, Nack, PoisonRefused
<1> QED
  BY <1>2, <1>3, <1>4, <1>5, <1>6 DEF HandlerStep

LEMMA ConfigKept == ASSUME [Next]_vars PROVE UNCHANGED config
<1>1. ASSUME NEW k \in Starts, StartCall(k) \/ StartStep(k) \/ StartFails(k) PROVE UNCHANGED config
  BY <1>1 DEF StartCall, StartStep, StartFails, ConnectionMade, ChannelOpened, Declared, Bound, Registered,
     Started, historyVars
<1>2. ASSUME NEW k \in Starts, ConnectionLost(k) \/ Reconnected(k) \/ Deliver(k) PROVE UNCHANGED config
  BY <1>2 DEF ConnectionLost, Reconnected, Deliver, historyVars
<1>3. ASSUME NEW m \in Messages, Unpark(m) PROVE UNCHANGED config
  BY <1>3 DEF Unpark, historyVars
<1>4. ASSUME NEW d \in Slots, HandlerStep(d) PROVE UNCHANGED config
  BY <1>4 DEF HandlerStep, Begin, Acquired, Admit, Ack, Poison, PoisonAck, Nack, CancelHandler, historyVars
<1>5. ASSUME NEW d \in Slots, PoisonRefused(d) \/ CallbackReturns(d) \/ CallbackRaises(d)
      PROVE  UNCHANGED config
  BY <1>5 DEF PoisonRefused, CallbackReturns, CallbackRaises, historyVars
<1>6. CASE StopCall \/ StopStep
  BY <1>6 DEF StopCall, StopStep, CancelReturned, HandlersDone, StopTimesOut, ChannelClosed, ConnectionClosed,
     stopUnchanged, historyVars
<1>7. CASE UNCHANGED vars
  BY <1>7 DEF vars, historyVars
<1> QED
  BY <1>1, <1>2, <1>3, <1>4, <1>5, <1>6, <1>7 DEF Next

LEMMA OnceNext == ASSUME TypeOK, OnceInv, [Next]_vars PROVE OnceInv'
<1>1. AutoAck' <=> AutoAck
  BY ConfigKept DEF AutoAck
<1> SUFFICES ASSUME AutoAck, Once PROVE Once'
  BY <1>1 DEF OnceInv
<1> QED
  BY OnceOutside, OnceDeliver, OnceHandler DEF Next

\* With auto_ack no callback gets a message twice, for any number of connections that are lost
\* and restored, of restarts and of handlers that stop() cancels (async_adapter.py:277).
THEOREM CalledAtMostOnce == Spec => []AtMostOnce
<1>1. Init => OnceInv
  BY OnceInit
<1>2. TypeOK /\ OnceInv /\ [Next]_vars => OnceInv'
  BY OnceNext
<1>3. OnceInv => AtMostOnce
  BY DEF OnceInv, Once, AtMostOnce
<1> QED
  BY <1>1, <1>2, <1>3, TypeCorrect, PTL DEF Spec

-----------------------------------------------------------------------------
(* Copies in the dead letter queue.  The copies of a message there are, the *)
(* handlers that may still make one, and the place where it waits to be     *)
(* delivered again are no more than one, and one for every time deliveries  *)
(* were put back: by a lost connection, or once by a stop().                *)

\* The handlers that may still copy m, or hand it back.
Copying(m) == {d \in Slots : /\ tasks[d].at # "none" /\ tasks[d].msg = m
                             /\ \/ tasks[d].at \in {"created", "waiting", "running", "acking", "poison"}
                                \/ tasks[d].at = "nacking" /\ d \in fresh}
One(b) == IF b THEN 1 ELSE 0
Potential(m) == copies[m] + Cardinality(Copying(m)) + One(m \in ready) + One(m \in parked)

\* A stop() that has not put back yet.
BeforeClose == stop \in {"cancelling", "waiting", "timedout", "closing_chan"}
Credit == 1 + faults + stops - One(BeforeClose)

PoisonInv == (BeforeClose => stops > 0) /\ \A m \in Messages : Potential(m) <= Credit

LEMMA CopyingFinite == \A m : IsFiniteSet(Copying(m)) /\ Cardinality(Copying(m)) \in Nat
<1> TAKE m
<1>1. IsFiniteSet(Slots)
  BY Bounds, FS_Interval DEF Slots
<1>2. IsFiniteSet(Copying(m))
  BY <1>1, FS_Subset DEF Copying
<1> QED
  BY <1>2, FS_CardinalityType

\* Copying after a step is finite too.
LEMMA CopyingFiniteNext == \A m : IsFiniteSet(Copying(m)') /\ Cardinality(Copying(m)') \in Nat
<1> TAKE m
<1>1. IsFiniteSet(Slots)
  BY Bounds, FS_Interval DEF Slots
<1>2. IsFiniteSet(Copying(m)')
  BY <1>1, FS_Subset DEF Copying
<1> QED
  BY <1>2, FS_CardinalityType

LEMMA CreditType == ASSUME TypeOK, PoisonInv PROVE Credit \in Nat
  BY Bounds DEF TypeOK, PoisonInv, Credit, One

LEMMA PoisonInit == Init => PoisonInv
<1> SUFFICES ASSUME Init PROVE PoisonInv
  OBVIOUS
<1>1. \A m \in Messages : Copying(m) = {} /\ copies[m] = 0 /\ m \in ready /\ m \notin parked
  BY DEF Init, Copying, NoTask
<1>2. \A m \in Messages : Potential(m) = 1
  BY <1>1, FS_EmptySet DEF Potential, One
<1>3. Credit = 1 /\ ~BeforeClose
  BY DEF Init, Credit, BeforeClose, One
<1> QED
  BY <1>2, <1>3 DEF PoisonInv

\* A step keeps the bound if what it adds for a message is made up for.
LEMMA PoisonStep ==
  ASSUME TypeOK, TypeOK', PoisonInv, BeforeClose' => stops' > 0, NEW gain \in Nat,
         Credit' >= Credit + gain, \A m \in Messages : Potential(m)' <= Potential(m) + gain
  PROVE  PoisonInv'
<1>1. \A m \in Messages : Potential(m) \in Nat
  BY CopyingFinite DEF Potential, One, TypeOK
<1>2. \A m \in Messages : Potential(m)' \in Nat
  BY CopyingFiniteNext DEF Potential, One, TypeOK
<1>3. Credit \in Nat /\ Credit' \in Int
  BY CreditType, Bounds DEF TypeOK, Credit, One
<1>4. \A m \in Messages : Potential(m)' <= Credit'
  BY <1>1, <1>2, <1>3 DEF PoisonInv
<1> QED
  BY <1>4 DEF PoisonInv

\* Putting deliveries back adds at most the place in the queue.
LEMMA PutBackGain ==
  ASSUME TypeOK, NEW K, PutBack(K), UNCHANGED <<tasks, copies, parked>>, NEW m \in Messages
  PROVE  Potential(m)' <= Potential(m) + 1
<1>1. Copying(m)' \subseteq Copying(m)
  BY DEF Copying, PutBack
<1>2. Cardinality(Copying(m)') <= Cardinality(Copying(m))
  BY <1>1, CopyingFinite, FS_Subset
<1>3. Cardinality(Copying(m)) \in Nat /\ Cardinality(Copying(m)') \in Nat /\ copies[m] \in Nat
  BY CopyingFinite, CopyingFiniteNext DEF TypeOK
<1> QED
  BY <1>2, <1>3 DEF Potential, One

LEMMA PoisonQuiet ==
  ASSUME UNCHANGED <<tasks, fresh, copies, ready, parked>>
  PROVE  \A m \in Messages : Potential(m)' = Potential(m)
  BY DEF Potential, Copying

LEMMA PoisonStarts ==
  ASSUME TypeOK, TypeOK', PoisonInv,
         \/ \E k \in Starts : StartCall(k) \/ StartStep(k) \/ StartFails(k) \/ Reconnected(k)
         \/ UNCHANGED vars
  PROVE  PoisonInv'
<1>1. UNCHANGED <<tasks, fresh, copies, ready, parked, stop, stops>> /\ (faults' = faults \/ faults' = faults + 1)
  BY DEF StartCall, StartStep, StartFails, ConnectionMade, ChannelOpened, Declared, Bound, Registered,
     Started, Reconnected, taskVars, brokerVars, stopVars, vars
<1>2. \A m \in Messages : Potential(m)' <= Potential(m) + 0
  <2>1. \A m \in Messages : Potential(m) \in Nat
    BY CopyingFinite DEF Potential, One, TypeOK
  <2> QED
    BY <1>1, <2>1, PoisonQuiet
<1>3. Credit' >= Credit + 0 /\ (BeforeClose' => stops' > 0)
  <2>1. (BeforeClose' <=> BeforeClose) /\ stops' = stops
    BY <1>1 DEF BeforeClose
  <2>2. faults \in Nat /\ stops \in Nat
    BY Bounds DEF TypeOK
  <2> QED
    BY <1>1, <2>1, <2>2 DEF Credit, One, PoisonInv
<1> QED
  BY <1>2, <1>3, PoisonStep

LEMMA PoisonLost ==
  ASSUME TypeOK, TypeOK', PoisonInv, NEW k \in Starts, ConnectionLost(k) PROVE PoisonInv'
<1>1. PutBack({k}) /\ UNCHANGED <<tasks, copies, parked, stop, stops>> /\ faults' = faults + 1
  BY DEF ConnectionLost, stopVars
<1>2. \A m \in Messages : Potential(m)' <= Potential(m) + 1
  BY <1>1, PutBackGain
<1>3. Credit' >= Credit + 1 /\ (BeforeClose' => stops' > 0)
  <2>1. (BeforeClose' <=> BeforeClose) /\ stops' = stops
    BY <1>1 DEF BeforeClose
  <2>2. faults \in Nat /\ stops \in Nat
    BY Bounds DEF TypeOK
  <2> QED
    BY <1>1, <2>1, <2>2 DEF Credit, One, PoisonInv
<1> QED
  BY <1>2, <1>3, PoisonStep

\* stop() puts back once, in the step in which it gets to the connection.
LEMMA PoisonStops == ASSUME TypeOK, TypeOK', PoisonInv, StopCall \/ StopStep PROVE PoisonInv'
<1>1. /\ UNCHANGED <<tasks, copies, parked, faults>> /\ faults \in Nat /\ stops \in Nat /\ stops' \in Nat
      /\ stops' = IF StopCall THEN stops + 1 ELSE stops
  BY Bounds DEF TypeOK, StopCall, StopStep, CancelReturned, HandlersDone, StopTimesOut, ChannelClosed, ConnectionClosed,
     stopUnchanged, stopVars
<1>2. IF StopCall THEN ~BeforeClose ELSE BeforeClose \/ stop = "closing_conn"
  BY DEF StopCall, StopStep, CancelReturned, HandlersDone, StopTimesOut, ChannelClosed, ConnectionClosed,
     Stopping, BeforeClose, TypeOK
<1>3. \/ UNCHANGED <<ready, fresh>> /\ BeforeClose' /\ (StopCall \/ BeforeClose)
      \/ ~BeforeClose' /\ (StopCall \/ BeforeClose) /\ \E K : PutBack(K)
      \/ UNCHANGED <<ready, fresh>> /\ stop = "closing_conn" /\ ~BeforeClose' /\ ~StopCall
  BY DEF StopCall, StopStep, CancelReturned, HandlersDone, StopTimesOut, ChannelClosed, ConnectionClosed,
     WaitForHandlers, CleanUp, CloseConnection, Stopping, BeforeClose
<1>4. \A m \in Messages : Potential(m) \in Nat
  BY CopyingFinite DEF Potential, One, TypeOK
<1>5. CASE UNCHANGED <<ready, fresh>>
  <2>1. \A m \in Messages : Potential(m)' <= Potential(m) + 0
    BY <1>1, <1>4, <1>5, PoisonQuiet
  <2>2. Credit' >= Credit + 0 /\ (BeforeClose' => stops' > 0)
    BY <1>1, <1>2, <1>3 DEF Credit, One, PoisonInv
  <2> QED
    BY <2>1, <2>2, PoisonStep
<1>6. CASE ~BeforeClose' /\ (StopCall \/ BeforeClose) /\ \E K : PutBack(K)
  <2>1. \A m \in Messages : Potential(m)' <= Potential(m) + 1
    BY <1>1, <1>6, PutBackGain
  <2>2. Credit' >= Credit + 1 /\ (BeforeClose' => stops' > 0)
    BY <1>1, <1>2, <1>6 DEF Credit, One, PoisonInv
  <2> QED
    BY <2>1, <2>2, PoisonStep
<1> QED
  BY <1>3, <1>5, <1>6

\* Steps of the broker and the handlers: no credit is spent or earned, and no message gains.
LEMMA PoisonSame ==
  ASSUME TypeOK, TypeOK', PoisonInv, UNCHANGED <<stop, stops, faults>>,
         \A m \in Messages : Potential(m)' <= Potential(m)
  PROVE  PoisonInv'
<1>1. (BeforeClose' <=> BeforeClose) /\ Credit' = Credit
  BY DEF BeforeClose, Credit
<1>2. Credit \in Nat /\ \A m \in Messages : Potential(m) \in Nat /\ Potential(m)' \in Nat
  BY CreditType, CopyingFinite, CopyingFiniteNext DEF Potential, One, TypeOK
<1> QED
  BY <1>1, <1>2 DEF PoisonInv

LEMMA PoisonUnpark ==
  ASSUME TypeOK, TypeOK', PoisonInv, NEW n \in Messages, Unpark(n) PROVE PoisonInv'
<1>1. /\ n \in parked /\ parked' = parked \ {n} /\ ready' = ready \union {n}
      /\ UNCHANGED <<tasks, fresh, copies, stop, stops, faults>>
  BY DEF Unpark, taskVars, stopVars
<1>2. ASSUME NEW m \in Messages PROVE Potential(m)' <= Potential(m)
  <2>1. Copying(m)' = Copying(m)
    BY <1>1 DEF Copying
  <2>2. Cardinality(Copying(m)) \in Nat /\ copies'[m] = copies[m] /\ copies[m] \in Nat
    BY <1>1, CopyingFinite DEF TypeOK
  <2>3. CASE m = n
    <3>1. m \in ready' /\ m \notin parked' /\ m \in parked
      BY <1>1, <2>3
    <3>2. One(m \in ready)' = 1 /\ One(m \in parked)' = 0 /\ One(m \in parked) = 1 /\ One(m \in ready) \in {0, 1}
      BY <3>1 DEF One
    <3>3. Potential(m)' = copies[m] + Cardinality(Copying(m)) + 1
      BY <2>1, <2>2, <3>2 DEF Potential
    <3> QED
      BY <2>2, <3>2, <3>3 DEF Potential
  <2>4. CASE m # n
    <3>1. (m \in ready' <=> m \in ready) /\ (m \in parked' <=> m \in parked)
      BY <1>1, <2>4
    <3> QED
      BY <2>1, <2>2, <3>1 DEF Potential, One
  <2> QED
    BY <2>3, <2>4
<1> QED
  BY <1>1, <1>2, PoisonSame

LEMMA PoisonDeliver ==
  ASSUME TypeOK, TypeOK', PoisonInv, NEW k \in Starts, Deliver(k) PROVE PoisonInv'
<1>1. PICK n \in ready, d \in Slots :
        /\ ~Alive(d)
        /\ tasks' = [tasks EXCEPT ![d] = [at |-> "created", msg |-> n, conn |-> k, sem |-> 0,
                                         attempt |-> Attempt(n)]]
        /\ fresh' = fresh \union {d} /\ ready' = ready \ {n}
  BY DEF Deliver
<1>2. UNCHANGED <<parked, copies, stop, stops, faults>>
  BY DEF Deliver, stopVars
<1>3. tasks'[d].at = "created" /\ tasks'[d].msg = n /\ \A e \in Slots : e # d => tasks'[e] = tasks[e]
  BY <1>1 DEF TypeOK
<1>4. ASSUME NEW m \in Messages PROVE Potential(m)' <= Potential(m)
  <2>1. Cardinality(Copying(m)) \in Nat /\ IsFiniteSet(Copying(m)) /\ copies[m] \in Nat /\ copies'[m] = copies[m]
    BY <1>2, CopyingFinite DEF TypeOK
  <2>2. CASE m = n
    <3>1. Copying(m)' = Copying(m) \union {d} /\ d \notin Copying(m)
      BY <1>1, <1>3, <2>2 DEF Copying, Alive
    <3>2. Cardinality(Copying(m)') = Cardinality(Copying(m)) + 1
      BY <2>1, <3>1, FS_AddElement
    <3>3. One(m \in ready') = 0 /\ One(m \in ready) = 1 /\ One(m \in parked') = One(m \in parked)
      BY <1>1, <1>2, <2>2 DEF One
    <3> QED
      BY <2>1, <3>2, <3>3 DEF Potential, One
  <2>3. CASE m # n
    <3>1. Copying(m)' = Copying(m)
      BY <1>1, <1>3, <2>3 DEF Copying, Alive
    <3>2. One(m \in ready') = One(m \in ready) /\ One(m \in parked') = One(m \in parked)
      BY <1>1, <1>2, <2>3 DEF One
    <3> QED
      BY <2>1, <3>1, <3>2 DEF Potential, One
  <2> QED
    BY <2>2, <2>3
<1> QED
  BY <1>2, <1>4, PoisonSame

\* What one handler does: it leaves the others alone, and adds to a copy or to a queue only what
\* it gives up itself.
LEMMA PoisonHandler ==
  ASSUME TypeOK, TypeOK', PoisonInv, NEW d \in Slots, UNCHANGED <<stop, stops, faults>>,
         \A e \in Slots : e # d => tasks'[e] = tasks[e],
         \A e \in Slots : e # d => (e \in fresh' <=> e \in fresh),
         \A m \in Messages : d \in Copying(m)' => d \in Copying(m),
         \/ UNCHANGED <<copies, ready, parked>>
         \/ /\ tasks[d] \in Task /\ d \in Copying(tasks[d].msg) /\ \A m \in Messages : d \notin Copying(m)'
            /\ \/ Copied(d)
               \/ UNCHANGED <<copies, parked>> /\ ready' = ready \union {tasks[d].msg}
               \/ UNCHANGED <<copies, ready>> /\ parked' = parked \union {tasks[d].msg}
  PROVE  PoisonInv'
<1> DEFINE n == tasks[d].msg
<1>1. ASSUME NEW m \in Messages PROVE Potential(m)' <= Potential(m)
  <2>1. Cardinality(Copying(m)) \in Nat /\ IsFiniteSet(Copying(m)) /\ copies[m] \in Nat
        /\ Cardinality(Copying(m)') \in Nat
    BY CopyingFinite, CopyingFiniteNext DEF TypeOK
  <2>2. Copying(m)' \subseteq Copying(m)
    BY DEF Copying
  <2>3. Cardinality(Copying(m)') <= Cardinality(Copying(m))
    BY <2>1, <2>2, FS_Subset
  <2>4. CASE copies'[m] = copies[m] /\ (m \in ready' => m \in ready) /\ (m \in parked' => m \in parked)
    BY <2>1, <2>3, <2>4 DEF Potential, One
  <2>5. CASE /\ m = n /\ d \in Copying(m) /\ d \notin Copying(m)'
             /\ \/ Copied(d)
                \/ UNCHANGED <<copies, parked>>
                \/ UNCHANGED <<copies, ready>>
    <3>1. Copying(m)' \subseteq Copying(m) \ {d}
      BY <2>2, <2>5
    <3>2. Cardinality(Copying(m) \ {d}) = Cardinality(Copying(m)) - 1 /\ IsFiniteSet(Copying(m) \ {d})
      BY <2>1, <2>5, FS_RemoveElement
    <3>3. Cardinality(Copying(m)') <= Cardinality(Copying(m) \ {d})
      BY <3>1, <3>2, FS_Subset
    <3>4. CASE Copied(d)
      <4>1. copies'[m] = copies[m] + 1 /\ UNCHANGED <<ready, parked>>
        BY <2>5, <3>4 DEF Copied, TypeOK
      <4> QED
        BY <2>1, <3>2, <3>3, <4>1 DEF Potential, One
    <3>5. CASE UNCHANGED <<copies, parked>>
      BY <2>1, <3>2, <3>3, <3>5 DEF Potential, One
    <3>6. CASE UNCHANGED <<copies, ready>>
      BY <2>1, <3>2, <3>3, <3>6 DEF Potential, One
    <3> QED
      BY <2>5, <3>4, <3>5, <3>6
  <2>6. CASE m = n
    BY <2>4, <2>5, <2>6
  <2>7. CASE m # n
    <3>1. copies'[m] = copies[m] /\ (m \in ready' => m \in ready) /\ (m \in parked' => m \in parked)
      BY <2>7 DEF Copied, TypeOK
    <3> QED
      BY <2>4, <3>1
  <2> QED
    BY <2>6, <2>7
<1> QED
  BY <1>1, PoisonSame

\* Where a handler is after a step of its own: over, or where it went.
LEMMA HandlerMoves ==
  ASSUME TypeOK, NEW d \in Slots, NEW l \in TaskState,
         Over(d) \/ (Goto(d, l) /\ tasks[d].at # "none")
  PROVE  /\ \A e \in Slots : e # d => tasks'[e] = tasks[e] /\ (e \in fresh' <=> e \in fresh)
         /\ IF Over(d) THEN tasks'[d].at = "none" /\ \A m : d \notin Copying(m)'
            ELSE tasks'[d].at = l /\ tasks'[d].msg = tasks[d].msg /\ fresh' = fresh
<1>1. tasks \in [Slots -> Task \union {NoTask}]
  BY DEF TypeOK
<1>2. CASE Over(d)
  <2>1. tasks'[d].at = "none"
    BY <1>1, <1>2 DEF Over, NoTask
  <2> QED
    BY <1>1, <1>2, <2>1 DEF Over, Copying
<1>3. CASE ~Over(d) /\ Goto(d, l)
  BY <1>1, <1>3, AliveTask DEF Goto, Task
<1> QED
  BY <1>2, <1>3

\* A handler that gives nothing to anybody.
LEMMA PoisonLeaf ==
  ASSUME TypeOK, TypeOK', PoisonInv, NEW d \in Slots, UNCHANGED <<stop, stops, faults, copies, ready, parked>>,
         NEW l \in TaskState, Over(d) \/ (Goto(d, l) /\ tasks[d].at # "none"),
         \/ Over(d)
         \/ \A m : d \in Copying(m)' => d \in Copying(m)
  PROVE  PoisonInv'
<1>1. \A e \in Slots : e # d => tasks'[e] = tasks[e] /\ (e \in fresh' <=> e \in fresh)
  BY HandlerMoves
<1>2. \A m \in Messages : d \in Copying(m)' => d \in Copying(m)
  BY HandlerMoves
<1> QED
  BY <1>1, <1>2, PoisonHandler

LEMMA PoisonBegins ==
  ASSUME TypeOK, TypeOK', PoisonInv, NEW d \in Slots, Begin(d) \/ Acquired(d) PROVE PoisonInv'
<1>1. /\ UNCHANGED <<stop, stops, faults, copies, ready, parked>>
      /\ tasks[d].at \in {"created", "waiting"} /\ tasks[d] \in Task
  BY AliveTask DEF Begin, Acquired, loopVars, stopVars, brokerVars
<1>2. CASE Over(d)
  <2>1. "created" \in TaskState
    BY DEF TaskState
  <2> QED
    BY <1>1, <1>2, <2>1, PoisonLeaf
<1>3. CASE UNCHANGED fresh /\ \E s, l : tasks' = [tasks EXCEPT ![d].at = l, ![d].sem = s]
  <2>1. \A e \in Slots : e # d => tasks'[e] = tasks[e]
    BY <1>3 DEF TypeOK
  <2>2. tasks'[d].msg = tasks[d].msg
    BY <1>1, <1>3 DEF TypeOK, Task
  <2>3. \A m \in Messages : d \in Copying(m)' => d \in Copying(m)
    BY <1>1, <2>2 DEF Copying
  <2> QED
    BY <1>1, <1>3, <2>1, <2>3, PoisonHandler
<1> QED
  BY <1>2, <1>3 DEF Begin, Acquired, Admit

LEMMA PoisonCallback ==
  ASSUME TypeOK, TypeOK', PoisonInv, NEW d \in Slots, CallbackReturns(d) \/ CallbackRaises(d) PROVE PoisonInv'
<1>1. UNCHANGED <<stop, stops, faults, copies, ready, parked>> /\ tasks[d].at = "running"
  BY DEF CallbackReturns, CallbackRaises, loopVars, stopVars, brokerVars
<1>2. PICK l \in {"acking", "poison", "nacking"} : Over(d) \/ Goto(d, l)
  BY DEF CallbackReturns, CallbackRaises, Finish, FailsAt
<1>3. l \in TaskState
  BY DEF TaskState
<1>4. Over(d) \/ \A m : d \in Copying(m)' => d \in Copying(m)
  BY <1>1, <1>2, <1>3, HandlerMoves DEF Copying
<1> QED
  BY <1>1, <1>2, <1>3, <1>4, PoisonLeaf

\* ack() of the message, or of the copied one; a stale delivery goes on.
LEMMA PoisonAcks ==
  ASSUME TypeOK, TypeOK', PoisonInv, NEW d \in Slots, Ack(d) \/ PoisonAck(d) PROVE PoisonInv'
<1>1. UNCHANGED <<stop, stops, faults, copies, ready, parked>> /\ tasks[d].at \in {"acking", "settling"}
  BY DEF Ack, PoisonAck, loopVars, stopVars, brokerVars, Acked
<1>2. CASE Over(d)
  <2>1. "acking" \in TaskState
    BY DEF TaskState
  <2> QED
    BY <1>1, <1>2, <2>1, PoisonLeaf
<1>3. CASE ~Over(d)
  <2>1. PICK l \in {"poison", "nacking"} :
           d \notin fresh /\ Goto(d, l) /\ (tasks[d].at = "settling" => l = "nacking")
    BY <1>1, <1>3 DEF Ack, PoisonAck, Finish, FailsAt
  <2>2. l \in TaskState
    BY DEF TaskState
  <2>3. \A m : d \in Copying(m)' => d \in Copying(m)
    BY <1>1, <1>3, <2>1, <2>2, HandlerMoves DEF Copying
  <2> QED
    BY <1>1, <2>1, <2>2, <2>3, PoisonLeaf
<1> QED
  BY <1>2, <1>3


\* The broker takes the copy, and the handler is none of those that copy any more.
LEMMA PoisonCopies ==
  ASSUME TypeOK, TypeOK', PoisonInv, NEW d \in Slots, Poison(d) \/ PoisonRefused(d) PROVE PoisonInv'
<1>1. UNCHANGED <<stop, stops>> /\ tasks[d].at = "poison" /\ tasks[d] \in Task
  BY AliveTask DEF Poison, PoisonRefused, loopVars, stopVars
<1>2. {"settling", "nacking"} \subseteq TaskState
  BY DEF TaskState
<1>3. CASE Copied(d) /\ Goto(d, "settling") /\ UNCHANGED faults
  <2>1. ~Over(d)
    BY <1>1, <1>3 DEF Over, Goto, TypeOK, NoTask, Task
  <2>2. /\ tasks'[d].at = "settling"
        /\ \A e \in Slots : e # d => tasks'[e] = tasks[e] /\ (e \in fresh' <=> e \in fresh)
    BY <1>1, <1>2, <1>3, <2>1, HandlerMoves
  <2>3. d \in Copying(tasks[d].msg) /\ \A m : d \notin Copying(m)'
    BY <1>1, <2>2 DEF Copying
  <2> QED
    BY <1>1, <1>3, <2>2, <2>3, PoisonHandler
<1>4. CASE Goto(d, "nacking") /\ UNCHANGED <<copies, ready, parked>>
  <2>1. \A e \in Slots : e # d => tasks'[e] = tasks[e] /\ (e \in fresh' <=> e \in fresh)
    BY <1>1, <1>2, <1>4, HandlerMoves
  <2>2. tasks'[d].msg = tasks[d].msg
    BY <1>1, <1>4 DEF Goto, TypeOK, Task
  <2>3. \A m \in Messages : d \in Copying(m)' => d \in Copying(m)
    BY <1>1, <2>2 DEF Copying
  <2>4. \A m \in Messages : Potential(m)' <= Potential(m)
    <3>1. ASSUME NEW m \in Messages PROVE Potential(m)' <= Potential(m)
      <4>1. Copying(m)' \subseteq Copying(m)
        BY <2>1, <2>3 DEF Copying
      <4>2. Cardinality(Copying(m)') <= Cardinality(Copying(m)) /\ Cardinality(Copying(m)) \in Nat
            /\ Cardinality(Copying(m)') \in Nat /\ copies[m] \in Nat
        BY <4>1, CopyingFinite, CopyingFiniteNext, FS_Subset DEF TypeOK
      <4> QED
        BY <1>4, <4>2 DEF Potential, One
    <3> QED
      BY <3>1
  <2>5. faults' \in {faults, faults + 1} /\ faults \in Nat /\ stops \in Nat
    BY Bounds DEF Poison, PoisonRefused, loopVars, TypeOK
  <2>6. Credit' >= Credit + 0 /\ (BeforeClose' => stops' > 0)
    <3>1. BeforeClose' <=> BeforeClose
      BY <1>1 DEF BeforeClose
    <3>2. One(BeforeClose)' = One(BeforeClose) /\ One(BeforeClose) \in {0, 1}
      BY <3>1 DEF One
    <3>3. Credit' >= Credit + 0
      BY <1>1, <2>5, <3>2 DEF Credit
    <3> QED
      BY <1>1, <3>1, <3>3 DEF PoisonInv
  <2>7. \A m \in Messages : Potential(m) \in Nat
    BY CopyingFinite DEF Potential, One, TypeOK
  <2>8. \A m \in Messages : Potential(m)' <= Potential(m) + 0
    BY <2>4, <2>7
  <2> QED
    BY <2>6, <2>8, PoisonStep
<1> QED
  BY <1>3, <1>4 DEF Poison, PoisonRefused, CopiedAt, NotCopiedAt, loopVars, brokerVars

\* What a settlement, or a cancelled handler, hands over.
LEMMA PoisonGives ==
  ASSUME TypeOK, TypeOK', PoisonInv, NEW d \in Slots, Nack(d) \/ CancelHandler(d)
  PROVE  PoisonInv'
<1>1. UNCHANGED <<stop, stops, faults>> /\ Over(d)
  BY DEF Nack, CancelHandler, Finish, loopVars, stopVars
<1>2. "created" \in TaskState /\ (tasks[d].at # "none" => tasks[d] \in Task)
  BY AliveTask DEF TaskState
<1>3. /\ \A e \in Slots : e # d => tasks'[e] = tasks[e] /\ (e \in fresh' <=> e \in fresh)
      /\ \A m : d \notin Copying(m)'
      /\ \A m \in Messages : d \in Copying(m)' => d \in Copying(m)
  BY <1>1, <1>2, HandlerMoves
<1>4. \/ UNCHANGED <<copies, ready, parked>>
      \/ d \in fresh /\ tasks[d].at = "nacking" /\ Nacked(d)
      \/ tasks[d].at = "poison" /\ Copied(d)
  BY DEF Nack, CancelHandler, brokerVars, Acked
<1>5. CASE UNCHANGED <<copies, ready, parked>>
  BY <1>1, <1>3, <1>5, PoisonHandler
<1>6. CASE d \in fresh /\ tasks[d].at = "nacking" /\ Nacked(d)
  <2>1. d \in Copying(tasks[d].msg)
    BY <1>6 DEF Copying
  <2>2. \/ UNCHANGED <<copies, parked>> /\ ready' = ready \union {tasks[d].msg}
        \/ UNCHANGED <<copies, ready>> /\ parked' = parked \union {tasks[d].msg}
    BY <1>6 DEF Nacked
  <2>3. tasks[d] \in Task
    BY <1>2, <1>6
  <2> QED
    BY <1>1, <1>3, <2>1, <2>2, <2>3, PoisonHandler
<1>7. CASE tasks[d].at = "poison" /\ Copied(d)
  <2>1. d \in Copying(tasks[d].msg) /\ tasks[d] \in Task
    BY <1>2, <1>7 DEF Copying
  <2> QED
    BY <1>1, <1>3, <1>7, <2>1, PoisonHandler
<1> QED
  BY <1>4, <1>5, <1>6, <1>7

LEMMA PoisonNext == ASSUME TypeOK, PoisonInv, [Next]_vars PROVE PoisonInv'
<1>1. TypeOK'
  BY TypeStep
<1> QED
  BY <1>1, PoisonStarts, PoisonLost, PoisonStops, PoisonUnpark, PoisonDeliver, PoisonBegins, PoisonCallback,
     PoisonAcks, PoisonCopies, PoisonGives
  DEF Next, HandlerStep

LEMMA PoisonImplies == ASSUME TypeOK, PoisonInv PROVE PoisonLeaves
<1> SUFFICES ASSUME NEW m \in Messages, copies[m] > 0
             PROVE  /\ copies[m] <= 1 + faults + stops
                    /\ m \in ready \union parked => faults + stops > 0
  BY DEF PoisonLeaves
<1>1. /\ copies[m] \in Nat /\ Cardinality(Copying(m)) \in Nat /\ faults \in Nat /\ stops \in Nat
      /\ Potential(m) <= Credit
  BY Bounds, CopyingFinite DEF TypeOK, PoisonInv
<1>2. Credit <= 1 + faults + stops
  BY <1>1 DEF Credit, One
<1>3. Potential(m) >= copies[m] /\ Potential(m) \in Nat /\ Credit \in Int
  BY <1>1 DEF Potential, Credit, One
<1>4. m \in ready \union parked => Potential(m) >= copies[m] + 1
  BY <1>1 DEF Potential, One
<1> QED
  BY <1>1, <1>2, <1>3, <1>4

\* A poison message leaves the queue with one copy in the dead letter queue; each further copy
\* is paid for by a lost connection, a refused call or a stop() that took its delivery away
\* before it was settled (async_adapter.py:429 on: the ack follows the copy, a failed copy nacks).
THEOREM PoisonGoesAway == Spec => []PoisonLeaves
<1>1. Init => PoisonInv
  BY PoisonInit
<1>2. TypeOK /\ PoisonInv /\ [Next]_vars => PoisonInv'
  BY PoisonNext
<1>3. TypeOK /\ PoisonInv => PoisonLeaves
  BY PoisonImplies
<1> QED
  BY <1>1, <1>2, <1>3, TypeCorrect, PTL DEF Spec

-----------------------------------------------------------------------------
(* Handlers.  Without faults and overlapping calls the consumer that        *)
(* delivers is the one stop() cancels, and what it has delivered is in      *)
(* _in_flight until stop() has waited for it.                               *)

Begun(k) == start[k] \in {"declaring", "binding", "consuming", "registered"}

\* A start() that is under way uses its own connection, and does not fail.
OwnLinks ==
  \A k \in Starts :
    /\ link[k] # "lost" /\ start[k] # "failed"
    /\ start[k] = "opening" => link[k] = "bare"
    /\ Begun(k) => chan = k /\ link[k] = "up"
    /\ start[k] \in {"binding", "consuming", "registered"} => chosen[k] = k
    /\ start[k] \in {"consuming", "registered"} => queue = k

\* The one consumer there may be is the one whose tag the listener has, or is about to have.
OwnConsumer ==
  /\ \A k \in Starts : Starting(k) /\ start[k] # "registered" => consumers = {}
  /\ \A k \in Starts : start[k] = "registered" => consumers \subseteq {<<k, k>>}
  /\ (\A k \in Starts : ~Starting(k)) => consumers \subseteq {<<tag, queue>>} /\ (consumers # {} => tag # 0 /\ queue # 0)
  /\ stop \in {"waiting", "timedout", "closing_chan", "closing_conn"} => consumers = {}

\* The handlers there are.
Known ==
  /\ \A d \in Slots : Alive(d) => d \in inFlight
  /\ stop \in {"waiting", "timedout"} => \A d \in Slots : Alive(d) => d \in awaited
  /\ stop \in {"closing_chan", "closing_conn"} => \A d \in Slots : ~Alive(d)

Calm == OwnLinks /\ OwnConsumer /\ Known
CalmInv == faults = 0 => Calm

LEMMA CalmInit == Init => CalmInv
  BY DEF Init, CalmInv, Calm, OwnLinks, OwnConsumer, Known, Begun, Starting, Alive, NoTask

\* Faults are never taken back.
LEMMA FaultsGrow == ASSUME TypeOK, TypeOK', [Next]_vars, faults' = 0 PROVE faults = 0
<1> SUFFICES faults' = faults \/ faults' = faults + 1
  BY Bounds DEF TypeOK
<1>1. ASSUME NEW k \in Starts, StartCall(k) \/ StartStep(k) \/ StartFails(k)
      PROVE  faults' = faults \/ faults' = faults + 1
  BY <1>1 DEF StartCall, StartStep, StartFails, ConnectionMade, ChannelOpened, Declared, Bound, Registered,
     Started, loopVars
<1>2. ASSUME NEW k \in Starts, ConnectionLost(k) \/ Reconnected(k) \/ Deliver(k)
      PROVE  faults' = faults \/ faults' = faults + 1
  BY <1>2 DEF ConnectionLost, Reconnected, Deliver, loopVars
<1>3. ASSUME NEW m \in Messages, Unpark(m) PROVE faults' = faults
  BY <1>3 DEF Unpark, loopVars
<1>4. ASSUME NEW d \in Slots, HandlerStep(d) PROVE faults' = faults
  BY <1>4 DEF HandlerStep, Begin, Acquired, Ack, Poison, PoisonAck, Nack, CancelHandler, loopVars
<1>5. ASSUME NEW d \in Slots, PoisonRefused(d) \/ CallbackReturns(d) \/ CallbackRaises(d)
      PROVE  faults' = faults \/ faults' = faults + 1
  BY <1>5 DEF PoisonRefused, CallbackReturns, CallbackRaises, loopVars
<1>6. CASE StopCall \/ StopStep
  BY <1>6 DEF StopCall, StopStep, CancelReturned, HandlersDone, StopTimesOut, ChannelClosed, ConnectionClosed,
     stopUnchanged, loopVars
<1>7. CASE UNCHANGED vars
  BY <1>7 DEF vars
<1> QED
  BY <1>1, <1>2, <1>3, <1>4, <1>5, <1>6, <1>7 DEF Next

LEMMA KnownKept == ASSUME Known, UNCHANGED <<tasks, inFlight, awaited, stop>> PROVE Known'
  BY DEF Known, Alive

LEMMA CalmStartCall ==
  ASSUME ~MayOverlap, TypeOK, OpenInv, Calm, NEW k \in Starts, StartCall(k) PROVE Calm'
<1>1. /\ UNCHANGED <<chosen, stop, chan, queue, tag, link, consumers, tasks, inFlight, awaited>>
      /\ start' = [start EXCEPT ![k] = IF Connected THEN "skipped" ELSE "connecting"]
      /\ \A j \in Starts : ~Starting(j)
  BY DEF StartCall, stopVars, fieldVars, taskVars
<1>2. OwnLinks'
  BY <1>1 DEF Calm, OwnLinks, Begun, TypeOK
<1>3. OwnConsumer'
  <2>1. \A j \in Starts : Starting(j)' => start'[j] = "connecting" /\ ~Connected
    BY <1>1 DEF Starting, TypeOK
  <2>2. \A j \in Starts : start'[j] # "registered"
    BY <1>1 DEF Starting, TypeOK
  <2>3. ~Connected => consumers = {}
    BY NothingOpen
  <2> QED
    BY <1>1, <2>1, <2>2, <2>3 DEF Calm, OwnConsumer
<1> QED
  BY <1>1, <1>2, <1>3, KnownKept DEF Calm

\* The other steps of the one start() that is under way.
LEMMA CalmStarting ==
  ASSUME TypeOK, OpenInv, Calm, NEW k \in Starts, StartStep(k) \/ StartFails(k), UNCHANGED faults, faults = 0
  PROVE  Calm'
<1>1. Starting(k) /\ \A j \in Starts : j # k => ~Starting(j)
  BY DEF StartStep, StartFails, ConnectionMade, ChannelOpened, Declared, Bound, Registered, Started, Starting, OpenInv
<1>2. ~Stopping /\ UNCHANGED <<stop, tasks, inFlight, awaited>>
  BY <1>1 DEF OpenInv, StartStep, StartFails, ConnectionMade, ChannelOpened, Declared, Bound, Registered, Started,
              stopVars, taskVars
<1>3. Known'
  BY <1>2, KnownKept DEF Calm
<1>4. stop' \notin {"waiting", "timedout", "closing_chan", "closing_conn"}
  BY <1>2 DEF Stopping
<1>5. \A j \in Starts : j # k => start[j] \in {"idle", "skipped", "ok"}
  BY <1>1 DEF Starting, Calm, OwnLinks
<1>6. ~Hopeless(k)
  <2>1. k # 0
    BY DEF Starts
  <2> QED
    BY <2>1 DEF Hopeless, Usable, Calm, OwnLinks, Begun
<1>7. CASE ConnectionMade(k)
  <2>1. /\ start[k] = "connecting" /\ start' = [start EXCEPT ![k] = "opening"] /\ link' = [link EXCEPT ![k] = "bare"]
        /\ UNCHANGED <<chosen, chan, queue, tag, consumers>>
    BY <1>7 DEF ConnectionMade
  <2>2. start'[k] = "opening" /\ link'[k] = "bare" /\ \A j \in Starts : j # k => start'[j] = start[j] /\ link'[j] = link[j]
    BY <2>1 DEF TypeOK
  <2>3. OwnLinks'
    BY <1>5, <2>1, <2>2 DEF Calm, OwnLinks, Begun
  <2>4. OwnConsumer'
    BY <1>1, <1>4, <1>5, <2>1, <2>2 DEF Calm, OwnConsumer, Starting
  <2> QED
    BY <1>3, <2>3, <2>4 DEF Calm
<1>8. CASE ChannelOpened(k)
  <2>1. /\ start[k] = "opening" /\ start' = [start EXCEPT ![k] = "declaring"] /\ link' = [link EXCEPT ![k] = "up"]
        /\ chan' = k /\ UNCHANGED <<chosen, queue, tag, consumers>>
    BY <1>8 DEF ChannelOpened
  <2>2. start'[k] = "declaring" /\ link'[k] = "up" /\ \A j \in Starts : j # k => start'[j] = start[j] /\ link'[j] = link[j]
    BY <2>1 DEF TypeOK
  <2>3. OwnLinks'
    BY <1>5, <2>1, <2>2 DEF Calm, OwnLinks, Begun
  <2>4. OwnConsumer'
    BY <1>1, <1>4, <1>5, <2>1, <2>2 DEF Calm, OwnConsumer, Starting
  <2> QED
    BY <1>3, <2>3, <2>4 DEF Calm
<1>9. CASE Declared(k)
  <2>1. /\ start[k] = "declaring" /\ start' = [start EXCEPT ![k] = "binding"] /\ chosen' = [chosen EXCEPT ![k] = chan]
        /\ UNCHANGED <<chan, link, queue, tag, consumers>>
    BY <1>9 DEF Declared, fieldVars
  <2>2. start'[k] = "binding" /\ chosen'[k] = k /\ chan = k /\ link[k] = "up"
        /\ \A j \in Starts : j # k => start'[j] = start[j] /\ chosen'[j] = chosen[j]
    BY <2>1 DEF TypeOK, Calm, OwnLinks, Begun
  <2>3. OwnLinks'
    BY <1>5, <2>1, <2>2 DEF Calm, OwnLinks, Begun
  <2>4. OwnConsumer'
    BY <1>1, <1>4, <1>5, <2>1, <2>2 DEF Calm, OwnConsumer, Starting
  <2> QED
    BY <1>3, <2>3, <2>4 DEF Calm
<1>10. CASE Bound(k)
  <2>1. /\ start[k] = "binding" /\ start' = [start EXCEPT ![k] = "consuming"] /\ queue' = chosen[k]
        /\ UNCHANGED <<chosen, chan, link, tag, consumers>>
    BY <1>10 DEF Bound
  <2>2. start'[k] = "consuming" /\ chosen[k] = k /\ chan = k /\ link[k] = "up"
        /\ \A j \in Starts : j # k => start'[j] = start[j]
    BY <2>1 DEF TypeOK, Calm, OwnLinks, Begun
  <2>3. OwnLinks'
    BY <1>5, <2>1, <2>2 DEF Calm, OwnLinks, Begun
  <2>4. OwnConsumer'
    BY <1>1, <1>4, <1>5, <2>1, <2>2 DEF Calm, OwnConsumer, Starting
  <2> QED
    BY <1>3, <2>3, <2>4 DEF Calm
<1>11. CASE Registered(k)
  <2>1. /\ start[k] = "consuming" /\ start' = [start EXCEPT ![k] = "registered"]
        /\ consumers' = consumers \union {<<k, chosen[k]>>}
        /\ UNCHANGED <<chosen, chan, queue, link, tag>>
    BY <1>11 DEF Registered, fieldVars
  <2>2. start'[k] = "registered" /\ chosen[k] = k /\ chan = k /\ link[k] = "up" /\ queue = k
        /\ \A j \in Starts : j # k => start'[j] = start[j]
    BY <2>1 DEF TypeOK, Calm, OwnLinks, Begun
  <2>3. OwnLinks'
    BY <1>5, <2>1, <2>2 DEF Calm, OwnLinks, Begun
  <2>4. consumers' \subseteq {<<k, k>>}
    BY <1>1, <2>1, <2>2 DEF Calm, OwnConsumer
  <2>5. OwnConsumer'
    BY <1>1, <1>4, <1>5, <2>2, <2>4 DEF OwnConsumer, Starting
  <2> QED
    BY <1>3, <2>3, <2>5 DEF Calm
<1>12. CASE Started(k)
  <2>1. /\ start[k] = "registered" /\ start' = [start EXCEPT ![k] = "ok"] /\ tag' = k
        /\ UNCHANGED <<chosen, chan, queue, link, consumers>>
    BY <1>12 DEF Started
  <2>2. start'[k] = "ok" /\ queue = k /\ k # 0 /\ \A j \in Starts : j # k => start'[j] = start[j]
    BY <2>1 DEF TypeOK, Calm, OwnLinks, Starts
  <2>3. OwnLinks'
    BY <1>5, <2>1, <2>2 DEF Calm, OwnLinks, Begun
  <2>4. consumers \subseteq {<<k, k>>}
    BY <2>1 DEF Calm, OwnConsumer
  <2>5. OwnConsumer'
    BY <1>1, <1>4, <1>5, <2>1, <2>2, <2>4 DEF OwnConsumer, Starting
  <2> QED
    BY <1>3, <2>3, <2>5 DEF Calm
<1>13. ~StartFails(k)
  BY <1>6, Bounds DEF StartFails
<1> QED
  BY <1>7, <1>8, <1>9, <1>10, <1>11, <1>12, <1>13 DEF StartStep

\* The handlers and the broker.
LEMMA CalmOutside ==
  ASSUME TypeOK, Calm, UNCHANGED <<startVars, stop, chan, queue, tag, link, consumers>>, Known'
  PROVE  Calm'
  BY DEF Calm, OwnLinks, OwnConsumer, Begun, Starting, startVars

LEMMA CalmDeliver == ASSUME TypeOK, Calm, NEW k \in Starts, Deliver(k) PROVE Calm'
<1>1. PICK m \in ready, d \in Slots :
        /\ tasks' = [tasks EXCEPT ![d] = [at |-> "created", msg |-> m, conn |-> k, sem |-> 0,
                                         attempt |-> Attempt(m)]]
        /\ inFlight' = inFlight \union {d}
  BY DEF Deliver
<1>2. consumers # {} /\ UNCHANGED <<awaited, startVars, stop, chan, queue, tag, link, consumers>>
  BY DEF Deliver, stopVars, fieldVars
<1>3. stop \notin {"waiting", "timedout", "closing_chan", "closing_conn"}
  BY <1>2 DEF Calm, OwnConsumer
<1>4. \A e \in Slots : Alive(e)' => Alive(e) \/ e = d
  BY <1>1 DEF TypeOK, Alive
<1>5. Known'
  BY <1>1, <1>2, <1>3, <1>4 DEF Calm, Known
<1> QED
  BY <1>2, <1>5, CalmOutside

LEMMA CalmHandler ==
  ASSUME TypeOK, Calm, NEW d \in Slots,
         HandlerStep(d) \/ PoisonRefused(d) \/ CallbackReturns(d) \/ CallbackRaises(d)
  PROVE  Calm'
<1>1. UNCHANGED <<startVars, stop, chan, queue, tag, link, consumers>>
  BY DEF HandlerStep, PoisonRefused, CallbackReturns, CallbackRaises, Begin, Acquired, Ack, Poison, PoisonAck,
         Nack, CancelHandler, loopVars, stopVars, fieldVars
<1>2. \/ Over(d)
      \/ /\ tasks[d].at # "none" /\ UNCHANGED <<inFlight, awaited>>
         /\ \/ \E l : tasks' = [tasks EXCEPT ![d].at = l]
            \/ \E l, s : tasks' = [tasks EXCEPT ![d].at = l, ![d].sem = s]
  BY DEF HandlerStep, PoisonRefused, CallbackReturns, CallbackRaises, Begin, Acquired, Admit, Ack, Poison, PoisonAck,
         Nack, CancelHandler, Finish, Goto
<1>3. Known'
  <2>1. CASE Over(d)
    <3>1. ~Alive(d)' /\ \A e \in Slots : e # d => (Alive(e)' <=> Alive(e))
      BY <2>1 DEF TypeOK, Over, Alive, NoTask
    <3> QED
      BY <1>1, <2>1, <3>1 DEF Calm, Known, Over
  <2>2. CASE /\ tasks[d].at # "none" /\ UNCHANGED <<inFlight, awaited>>
             /\ \/ \E l : tasks' = [tasks EXCEPT ![d].at = l]
                \/ \E l, s : tasks' = [tasks EXCEPT ![d].at = l, ![d].sem = s]
    <3>1. \A e \in Slots : Alive(e)' => Alive(e)
      BY <2>2 DEF TypeOK, Alive
    <3> QED
      BY <1>1, <2>2, <3>1 DEF Calm, Known
  <2> QED
    BY <1>2, <2>1, <2>2
<1> QED
  BY <1>1, <1>3, CalmOutside

\* stop(): the consumer goes first, then the handlers, then the rest.
LEMMA CleanUpStop ==
  ASSUME NEW cs, CleanUp(cs), cs = {}
  PROVE  stop' \in {"closing_chan", "closing_conn", "stopped"} /\ consumers' = {}
  BY DEF CleanUp, CloseConnection

LEMMA WaitStop ==
  ASSUME NEW cs, WaitForHandlers(cs), cs = {}
  PROVE  /\ stop' \in {"waiting", "closing_chan", "closing_conn", "stopped"} /\ consumers' = {}
         /\ IF inFlight = {} THEN stop' # "waiting" ELSE stop' = "waiting" /\ awaited' = inFlight /\ inFlight' = inFlight
<1>1. CASE inFlight = {}
  <2>1. CleanUp(cs)
    BY <1>1 DEF WaitForHandlers
  <2> QED
    BY <1>1, <2>1, CleanUpStop
<1>2. CASE inFlight # {}
  BY <1>2 DEF WaitForHandlers
<1> QED
  BY <1>1, <1>2

\* stop() leaves no link lost that was not.
LEMMA StopLinks ==
  ASSUME TypeOK, StopCall \/ StopStep, \A k \in Starts : link[k] # "lost"
  PROVE  \A k \in Starts : link'[k] # "lost"
<1>1. ASSUME NEW l \in [Starts -> {"none", "bare", "up", "closed"}], NEW cs, NEW K, CloseConnection(l, cs, K)
      PROVE  \A k \in Starts : link'[k] # "lost"
  <2>1. link' = l \/ link' = [l EXCEPT ![conn] = "closed"]
    BY <1>1 DEF CloseConnection
  <2> QED
    BY <2>1
<1>2. link \in [Starts -> {"none", "bare", "up", "closed"}]
  BY DEF TypeOK
<1>3. CASE ChannelClosed
  <2>1. [link EXCEPT ![closing] = IF @ = "up" THEN "bare" ELSE @] \in [Starts -> {"none", "bare", "up", "closed"}]
    BY <1>2
  <2> QED
    BY <1>1, <1>3, <2>1 DEF ChannelClosed
<1>4. CASE ~ChannelClosed
  <2>1. UNCHANGED link \/ \E cs, K : CloseConnection(link, cs, K)
    BY <1>4 DEF StopCall, StopStep, CancelReturned, HandlersDone, StopTimesOut, ConnectionClosed, WaitForHandlers, CleanUp
  <2> QED
    BY <1>1, <1>2, <2>1
<1> QED
  BY <1>3, <1>4

\* The consumer stop() is cancelling is the one the listener knows: no start() is under way.
CancelsOwn == stop = "cancelling" => cancelling = <<tag, queue>>

LEMMA CancelInit == Init => CancelsOwn
  BY DEF Init, CancelsOwn

LEMMA CancelNext == OpenInv /\ CancelsOwn /\ [Next]_vars => CancelsOwn'
<1> SUFFICES ASSUME OpenInv, CancelsOwn, [Next]_vars PROVE CancelsOwn'
  OBVIOUS
<1>1. ASSUME NEW k \in Starts, StartCall(k) \/ StartStep(k) \/ StartFails(k) PROVE CancelsOwn'
  <2>1. UNCHANGED stopVars /\ (UNCHANGED <<tag, queue>> \/ Starting(k))
    BY <1>1 DEF StartCall, StartStep, StartFails, ConnectionMade, ChannelOpened, Declared, Bound,
         Registered, Started, Starting, fieldVars
  <2> QED
    BY <2>1 DEF CancelsOwn, OpenInv, Stopping, stopVars
<1>2. ASSUME NEW k \in Starts, ConnectionLost(k) \/ Reconnected(k) \/ Deliver(k) PROVE CancelsOwn'
  BY <1>2 DEF ConnectionLost, Reconnected, Deliver, CancelsOwn, stopVars, fieldVars
<1>3. ASSUME NEW m \in Messages, Unpark(m) PROVE CancelsOwn'
  BY <1>3 DEF Unpark, CancelsOwn, stopVars, fieldVars
<1>4. ASSUME NEW d \in Slots,
             HandlerStep(d) \/ PoisonRefused(d) \/ CallbackReturns(d) \/ CallbackRaises(d)
      PROVE  CancelsOwn'
  BY <1>4 DEF HandlerStep, Begin, Acquired, Ack, Poison, PoisonAck, Nack, CancelHandler,
       PoisonRefused, CallbackReturns, CallbackRaises, CancelsOwn, loopVars, stopVars, fieldVars
<1>5. CASE StopCall \/ StopStep
  <2>1. stop' = "cancelling" => StopCall /\ cancelling' = <<tag, queue>> /\ UNCHANGED <<tag, queue>>
    BY <1>5 DEF StopCall, StopStep, CancelReturned, HandlersDone, StopTimesOut, ChannelClosed,
         ConnectionClosed, WaitForHandlers, CleanUp, CloseConnection, fieldVars
  <2> QED
    BY <2>1 DEF CancelsOwn
<1>6. CASE UNCHANGED vars
  BY <1>6 DEF vars, CancelsOwn, stopVars, fieldVars
<1> QED
  BY <1>1, <1>2, <1>3, <1>4, <1>5, <1>6 DEF Next

LEMMA CalmStop ==
  ASSUME ~MayOverlap, TypeOK, OpenInv, CancelsOwn, Calm, StopCall \/ StopStep PROVE Calm'
<1>1. UNCHANGED <<start, chosen, tasks>> /\ \A k \in Starts : ~Starting(k)
  BY DEF StopCall, StopStep, CancelReturned, HandlersDone, StopTimesOut, ChannelClosed, ConnectionClosed,
         stopUnchanged, startVars, OpenInv, Stopping
<1>2. \A k \in Starts : ~Starting(k)' /\ start'[k] \in {"idle", "skipped", "ok"}
  BY <1>1 DEF Starting, Calm, OwnLinks
<1>3. OwnLinks'
  BY <1>2, StopLinks DEF OwnLinks, Calm, Begun
<1>4. \A d \in Slots : Alive(d)' <=> Alive(d)
  BY <1>1 DEF Alive
<1>5. consumers' = {} => OwnConsumer'
  BY <1>2 DEF OwnConsumer, Starting
<1>6. CASE StopCall \/ CancelReturned
  <2>1. CASE StopCall /\ queue # 0 /\ tag # 0
    <3>1. stop' = "cancelling" /\ UNCHANGED <<inFlight, consumers, tag, queue>>
      BY <2>1 DEF StopCall, fieldVars
    <3> QED
      BY <1>1, <1>2, <1>3, <1>4, <3>1 DEF Calm, OwnConsumer, Known
  <2>2. CASE ~(StopCall /\ queue # 0 /\ tag # 0)
    <3>1. PICK cs : WaitForHandlers(cs) /\ cs = {}
      <4>1. CASE StopCall
        <5>1. consumers = {}
          BY <1>1, <2>2, <4>1 DEF Calm, OwnConsumer
        <5> QED
          BY <2>2, <4>1, <5>1 DEF StopCall
      <4>2. CASE CancelReturned
        <5>0. cancelling = <<tag, queue>> /\ cancelling[2] = queue
          BY <4>2 DEF CancelReturned, CancelsOwn
        <5>1. WaitForHandlers(IF link[queue] = "up" THEN consumers \ {<<tag, queue>>} ELSE consumers)
          BY <4>2, <5>0 DEF CancelReturned
        <5>2. consumers # {} => link[queue] = "up" /\ consumers = {<<tag, queue>>}
          <6>1. consumers \subseteq {<<tag, queue>>} /\ (consumers # {} => tag # 0 /\ queue # 0)
            BY <1>1 DEF Calm, OwnConsumer
          <6>2. ASSUME consumers # {} PROVE link[queue] = "up"
            <7>1. <<tag, queue>> \in consumers
              BY <6>1, <6>2
            <7>2. link[queue] \in {"up", "lost"} /\ queue \in Starts
              BY <7>1 DEF OpenInv, TypeOK
            <7> QED
              BY <7>2 DEF Calm, OwnLinks
          <6> QED
            BY <6>1, <6>2
        <5>3. (IF link[queue] = "up" THEN consumers \ {<<tag, queue>>} ELSE consumers) = {}
          BY <5>2
        <5> QED
          BY <5>1, <5>3
      <4> QED
        BY <1>6, <4>1, <4>2
    <3>2. /\ stop' \in {"waiting", "closing_chan", "closing_conn", "stopped"} /\ consumers' = {}
          /\ IF inFlight = {} THEN stop' # "waiting" ELSE stop' = "waiting" /\ awaited' = inFlight /\ inFlight' = inFlight
      BY <3>1, WaitStop
    <3>3. Known'
      BY <1>4, <3>2 DEF Calm, Known
    <3> QED
      BY <1>3, <1>5, <3>2, <3>3 DEF Calm
  <2> QED
    BY <2>1, <2>2
<1>7. CASE HandlersDone
  <2>1. CleanUp(consumers) /\ consumers = {} /\ \A d \in Slots : ~Alive(d)
    BY <1>7 DEF HandlersDone, AllOver, Calm, OwnConsumer, Known
  <2>2. stop' \in {"closing_chan", "closing_conn", "stopped"} /\ consumers' = {}
    BY <2>1, CleanUpStop
  <2>3. Known'
    BY <1>4, <2>1, <2>2 DEF Known
  <2> QED
    BY <1>3, <1>5, <2>2, <2>3 DEF Calm
<1>8. CASE StopTimesOut
  <2>1. stop = "waiting" /\ stop' = "timedout" /\ UNCHANGED <<inFlight, awaited, consumers>>
    BY <1>8 DEF StopTimesOut
  <2>2. Known' /\ consumers' = {}
    BY <1>4, <2>1 DEF Calm, Known, OwnConsumer
  <2> QED
    BY <1>3, <1>5, <2>2 DEF Calm
<1>9. CASE ChannelClosed \/ ConnectionClosed
  <2>1. stop \in {"closing_chan", "closing_conn"} /\ stop' \in {"closing_conn", "stopped"}
    BY <1>9 DEF ChannelClosed, ConnectionClosed, CloseConnection
  <2>2. consumers = {} /\ consumers' = {}
    BY <1>9, <2>1 DEF ChannelClosed, ConnectionClosed, CloseConnection, Calm, OwnConsumer
  <2>3. Known'
    BY <1>4, <2>1 DEF Calm, Known
  <2> QED
    BY <1>3, <1>5, <2>2, <2>3 DEF Calm
<1> QED
  BY <1>6, <1>7, <1>8, <1>9 DEF StopStep

LEMMA CalmNext ==
  ASSUME ~MayOverlap, TypeOK, OpenInv, CancelsOwn, CalmInv, [Next]_vars PROVE CalmInv'
<1> SUFFICES ASSUME faults' = 0 PROVE Calm'
  BY DEF CalmInv
<1>1. faults = 0 /\ Calm
  BY TypeStep, FaultsGrow DEF CalmInv
<1>2. ASSUME NEW k \in Starts, Reconnected(k) \/ ConnectionLost(k) PROVE FALSE
  BY <1>1, <1>2 DEF Reconnected, ConnectionLost, Calm, OwnLinks
<1>3. ASSUME NEW m \in Messages, Unpark(m) PROVE Calm'
  <2>1. UNCHANGED <<startVars, stop, chan, queue, tag, link, consumers, tasks, inFlight, awaited>>
    BY <1>3 DEF Unpark, stopVars, fieldVars, taskVars
  <2> QED
    BY <1>1, <2>1, KnownKept, CalmOutside DEF Calm
<1>4. CASE UNCHANGED vars
  <2>1. UNCHANGED <<startVars, stop, chan, queue, tag, link, consumers, tasks, inFlight, awaited>>
    BY <1>4 DEF vars, stopVars, fieldVars, taskVars
  <2> QED
    BY <1>1, <2>1, KnownKept, CalmOutside DEF Calm
<1>5. UNCHANGED faults
  BY <1>1
<1> QED
  BY <1>1, <1>2, <1>3, <1>4, <1>5, CalmStartCall, CalmStarting, CalmDeliver, CalmHandler, CalmStop DEF Next

\* Without faults no handler outlives stop(): by the time the channel is closed every task that
\* was made is over, by itself or cancelled (async_adapter.py:503: the consumer is cancelled
\* before _in_flight is looked at, and nothing is delivered after that).
THEOREM HandlersEndFirst == Spec => []NoHandlerSurvives
<1>1. CASE MayOverlap
  <2>1. NoHandlerSurvives
    BY <1>1 DEF NoHandlerSurvives
  <2> QED
    BY <2>1, PTL
<1>2. CASE ~MayOverlap
  <2>1. Init => OpenInv /\ CancelsOwn /\ CalmInv
    BY OpenInit, CancelInit, CalmInit
  <2>2. TypeOK /\ OpenInv /\ CancelsOwn /\ CalmInv /\ [Next]_vars
            => OpenInv' /\ CancelsOwn' /\ CalmInv'
    BY <1>2, OpenNext, CancelNext, CalmNext
  <2>3. CalmInv => NoHandlerSurvives
    BY DEF CalmInv, Calm, Known, NoHandlerSurvives
  <2> QED
    BY <2>1, <2>2, <2>3, TypeCorrect, PTL DEF Spec
<1> QED
  BY <1>1, <1>2


-----------------------------------------------------------------------------
(* The contract.  A handler past acquire() has called the user for its      *)
(* message, and with auto_ack the broker has forgotten what is not in its   *)
(* queue any more.                                                          *)

TriedInv ==
  /\ \A d \in Slots : Admitted(d) => calls[tasks[d].msg] > 0
  /\ AutoAck => Messages \subseteq ready \union acked

LEMMA TriedInit == Init => TriedInv
  BY DEF Init, TriedInv, Admitted, NoTask

LEMMA AdmittedMsg == ASSUME TypeOK, NEW d \in Slots, Admitted(d) PROVE tasks[d].msg \in Messages
  BY AliveTask DEF Admitted, Task

\* What a step may do to the calls, to the handlers past acquire() and to the broker.
LEMMA TriedStep ==
  ASSUME TypeOK, TriedInv, UNCHANGED config,
         \A m \in Messages : calls[m] > 0 => calls'[m] > 0,
         \A d \in Slots : Admitted(d)' => \/ Admitted(d) /\ tasks'[d].msg = tasks[d].msg
                                          \/ calls'[tasks'[d].msg] > 0,
         AutoAck => ready \subseteq ready' \union acked' /\ acked \subseteq acked'
  PROVE  TriedInv'
<1>1. (\A d \in Slots : Admitted(d) => calls[tasks[d].msg] > 0)'
  BY AdmittedMsg DEF TriedInv
<1>2. AutoAck' <=> AutoAck
  BY DEF AutoAck
<1> QED
  BY <1>1, <1>2 DEF TriedInv

\* What start(), stop() and the environment do.
LEMMA TriedOutside ==
  ASSUME TypeOK, TriedInv,
         \/ \E k \in Starts : \/ StartCall(k) \/ StartStep(k) \/ StartFails(k)
                              \/ ConnectionLost(k) \/ Reconnected(k)
         \/ \E m \in Messages : Unpark(m)
         \/ StopCall \/ StopStep \/ UNCHANGED vars
  PROVE  TriedInv'
<1>1. UNCHANGED <<config, tasks, calls, acked>>
  BY DEF StartCall, StartStep, StartFails, ConnectionMade, ChannelOpened, Declared, Bound, Registered,
     Started, ConnectionLost, Reconnected, Unpark, StopCall, StopStep, CancelReturned, HandlersDone,
     StopTimesOut, ChannelClosed, ConnectionClosed, stopUnchanged, taskVars, brokerVars, historyVars, vars
<1>2. ready \subseteq ready'
  <2>1. CASE StopCall \/ StopStep
    BY <2>1 DEF StopCall, StopStep, CancelReturned, HandlersDone, StopTimesOut, ChannelClosed, ConnectionClosed,
                WaitForHandlers, CleanUp, CloseConnection, PutBack
  <2>2. CASE ~(StopCall \/ StopStep)
    BY <2>2 DEF PutBack, StartCall, StartStep, StartFails, ConnectionMade, ChannelOpened, Declared, Bound,
       Registered, Started, ConnectionLost, Reconnected, Unpark, brokerVars, vars
  <2> QED
    BY <2>1, <2>2
<1> QED
  BY <1>1, <1>2, TriedStep DEF Admitted

LEMMA TriedDeliver == ASSUME TypeOK, TriedInv, NEW k \in Starts, Deliver(k) PROVE TriedInv'
<1>1. PICK m \in ready, d \in Slots :
        /\ tasks' = [tasks EXCEPT ![d] = [at |-> "created", msg |-> m, conn |-> k, sem |-> 0,
                                         attempt |-> Attempt(m)]]
        /\ ready' = ready \ {m}
        /\ IF NoAck THEN acked' = acked \union {m} ELSE UNCHANGED acked
  BY DEF Deliver
<1>2. UNCHANGED <<config, calls>>
  BY DEF Deliver, historyVars
<1>3. \A e \in Slots : Admitted(e)' => Admitted(e) /\ tasks'[e].msg = tasks[e].msg
  BY <1>1 DEF Admitted, TypeOK
<1> QED
  BY <1>1, <1>2, <1>3, TriedStep DEF NoAck

\* A handler that calls nobody: it is over, waits, or goes on past acquire().
LEMMA TriedGoes ==
  ASSUME TypeOK, TriedInv, NEW d \in Slots, UNCHANGED <<config, calls>>,
         NEW l \in TaskState,
         \/ Over(d)
         \/ Goto(d, l) /\ Admitted(d)
         \/ tasks[d].at = "created" /\ tasks' = [tasks EXCEPT ![d].at = "waiting", ![d].sem = sem],
         AutoAck => ready \subseteq ready' /\ acked \subseteq acked'
  PROVE  TriedInv'
<1>1. CASE Over(d) \/ (Goto(d, l) /\ Admitted(d))
  <2>1. \A e \in Slots : Admitted(e)' => Admitted(e) /\ tasks'[e].msg = tasks[e].msg
    BY <1>1, HandlerMoves DEF Admitted
  <2> QED
    BY <2>1, TriedStep
<1>2. CASE tasks[d].at = "created" /\ tasks' = [tasks EXCEPT ![d].at = "waiting", ![d].sem = sem]
  <2>1. tasks'[d].at = "waiting" /\ \A e \in Slots : e # d => tasks'[e] = tasks[e]
    BY <1>2, AliveTask DEF TypeOK, Task
  <2>2. \A e \in Slots : Admitted(e)' => Admitted(e) /\ tasks'[e].msg = tasks[e].msg
    BY <2>1 DEF Admitted
  <2> QED
    BY <2>2, TriedStep
<1> QED
  BY <1>1, <1>2

LEMMA TriedAdmit ==
  ASSUME TypeOK, TriedInv, NEW d \in Slots, Pending(d), NEW s, Admit(d, s), UNCHANGED brokerVars
  PROVE  TriedInv'
<1>1. tasks[d] \in Task /\ tasks[d].msg \in Messages
  BY AliveTask DEF Pending, Task
<1>2. tasks' = [tasks EXCEPT ![d].at = "running", ![d].sem = s]
      /\ calls' = [calls EXCEPT ![tasks[d].msg] = IF @ < 2 THEN @ + 1 ELSE 2]
  BY DEF Admit
<1>3. tasks'[d].msg = tasks[d].msg /\ \A e \in Slots : e # d => tasks'[e] = tasks[e]
  BY <1>1, <1>2 DEF TypeOK, Task
<1>4. calls'[tasks[d].msg] > 0 /\ \A m \in Messages : calls[m] > 0 => calls'[m] > 0
  BY <1>1, <1>2 DEF TypeOK
<1>5. \A e \in Slots : Admitted(e)' => \/ Admitted(e) /\ tasks'[e].msg = tasks[e].msg
                                       \/ calls'[tasks'[e].msg] > 0
  BY <1>3, <1>4 DEF Admitted
<1>6. UNCHANGED <<config, ready, acked>>
  BY DEF Admit, brokerVars
<1> QED
  BY <1>4, <1>5, <1>6, TriedStep

LEMMA TriedHandler ==
  ASSUME TypeOK, TriedInv, NEW d \in Slots,
         HandlerStep(d) \/ PoisonRefused(d) \/ CallbackReturns(d) \/ CallbackRaises(d)
  PROVE  TriedInv'
<1>1. CASE Begin(d)
  <2>1. tasks[d].at = "created" /\ UNCHANGED brokerVars /\ Pending(d)
    BY <1>1 DEF Begin, Pending
  <2>2. \/ UNCHANGED <<config, calls>> /\ Over(d)
        \/ Admit(d, sem)
        \/ UNCHANGED <<config, calls>> /\ tasks' = [tasks EXCEPT ![d].at = "waiting", ![d].sem = sem]
    BY <1>1 DEF Begin, historyVars
  <2>3. "waiting" \in TaskState
    BY DEF TaskState
  <2> QED
    BY <2>1, <2>2, <2>3, TriedGoes, TriedAdmit DEF brokerVars
<1>2. CASE Acquired(d)
  BY <1>2, TriedAdmit DEF Acquired, Pending
<1>3. CASE PoisonRefused(d) \/ CallbackReturns(d) \/ CallbackRaises(d)
  <2>1. UNCHANGED <<config, calls, ready, acked>> /\ Admitted(d)
    BY <1>3 DEF PoisonRefused, CallbackReturns, CallbackRaises, historyVars, brokerVars, Admitted
  <2>2. Over(d) \/ \E l \in TaskState : Goto(d, l)
    BY <1>3 DEF PoisonRefused, CallbackReturns, CallbackRaises, Finish, FailsAt, NotCopiedAt, TaskState
  <2>3. "nacking" \in TaskState
    BY DEF TaskState
  <2> QED
    BY <2>1, <2>2, <2>3, TriedGoes
<1>4. CASE Ack(d) \/ Poison(d) \/ PoisonAck(d) \/ Nack(d)
  <2>1. UNCHANGED <<config, calls>> /\ ready \subseteq ready' /\ acked \subseteq acked' /\ Admitted(d)
    BY <1>4 DEF Ack, Poison, PoisonAck, Nack, Acked, Nacked, Copied, historyVars, brokerVars, Admitted
  <2>2. Over(d) \/ \E l \in TaskState : Goto(d, l)
    BY <1>4 DEF Ack, Poison, PoisonAck, Nack, Finish, FailsAt, CopiedAt, NotCopiedAt, TaskState
  <2>3. "nacking" \in TaskState
    BY DEF TaskState
  <2> QED
    BY <2>1, <2>2, <2>3, TriedGoes
<1>5. CASE CancelHandler(d)
  <2>1. UNCHANGED <<config, calls>> /\ ready \subseteq ready' /\ acked \subseteq acked' /\ Over(d)
    BY <1>5 DEF CancelHandler, Finish, Acked, Nacked, Copied, historyVars, brokerVars
  <2>2. "nacking" \in TaskState
    BY DEF TaskState
  <2> QED
    BY <2>1, <2>2, TriedGoes
<1> QED
  BY <1>1, <1>2, <1>3, <1>4, <1>5 DEF HandlerStep

LEMMA TriedNext == ASSUME TypeOK, TriedInv, [Next]_vars PROVE TriedInv'
  BY TriedOutside, TriedDeliver, TriedHandler DEF Next

\* The steps of the contract, in the variables of the listener.
LEMMA ContractStutters ==
  ASSUME UNCHANGED <<config, acked, copies, calls, handled>>
  PROVE  [Contract!Next]_(Contract!contractVars)
  BY DEF Contract!contractVars, AutoAck

LEMMA ContractForgets ==
  ASSUME UNCHANGED <<config, copies, calls, handled>>, NEW m \in Messages,
         acked' = acked \union {m}, AutoAck \/ m \in handled \/ copies[m] > 0
  PROVE  [Contract!Next]_(Contract!contractVars)
<1>1. AutoAck' = AutoAck
  BY DEF AutoAck
<1>2. CASE m \in acked
  <2>1. acked' = acked
    BY <1>2
  <2> QED
    BY <2>1, ContractStutters
<1>3. CASE m \notin acked
  <2>1. Contract!Forget(m)
    BY <1>1, <1>3 DEF Contract!Forget
  <2> QED
    BY <2>1 DEF Contract!Next
<1> QED
  BY <1>2, <1>3

LEMMA ContractCalls ==
  ASSUME UNCHANGED <<config, acked, copies, handled>>, NEW m \in Messages,
         calls' = [calls EXCEPT ![m] = IF @ < 2 THEN @ + 1 ELSE 2],
         AutoAck => m \in acked /\ calls[m] = 0
  PROVE  [Contract!Next]_(Contract!contractVars)
<1>1. AutoAck' = AutoAck
  BY DEF AutoAck
<1>2. Contract!Call(m)
  BY <1>1 DEF Contract!Call
<1> QED
  BY <1>2 DEF Contract!Next

LEMMA ContractReturns ==
  ASSUME UNCHANGED <<config, acked, copies, calls>>, NEW m \in Messages,
         handled' = handled \union {m}, calls[m] > 0
  PROVE  [Contract!Next]_(Contract!contractVars)
<1>1. AutoAck' = AutoAck
  BY DEF AutoAck
<1>2. Contract!Return(m)
  BY <1>1 DEF Contract!Return
<1> QED
  BY <1>2 DEF Contract!Next

LEMMA ContractCopies ==
  ASSUME TypeOK, UNCHANGED <<config, acked, calls, handled>>, NEW m \in Messages,
         copies' = [copies EXCEPT ![m] = @ + 1], ~AutoAck, calls[m] > 0
  PROVE  [Contract!Next]_(Contract!contractVars)
<1>1. AutoAck' = AutoAck
  BY DEF AutoAck
<1>2. {n \in Messages : copies'[n] > 0} = {n \in Messages : copies[n] > 0} \union {m}
  BY DEF TypeOK
<1>3. Contract!Copy(m)
  BY <1>1, <1>2 DEF Contract!Copy
<1> QED
  BY <1>3 DEF Contract!Next

ContractInv == TypeOK /\ AckInv /\ OnceInv /\ TriedInv

\* An ack, by the handler or when its cancellation comes too late to take it back.
LEMMA AckRefines ==
  ASSUME ContractInv, NEW d \in Slots, tasks[d].at \in {"acking", "settling"}, Acked(d),
         UNCHANGED historyVars
  PROVE  [Contract!Next]_(Contract!contractVars)
<1>1. tasks[d].msg \in Messages
  BY AdmittedMsg DEF ContractInv, Admitted
<1>2. tasks[d].msg \in handled \/ copies[tasks[d].msg] > 0
  BY DEF ContractInv, AckInv
<1> QED
  BY <1>1, <1>2, ContractForgets DEF Acked, historyVars

\* A copy in the dead letter queue, likewise.
LEMMA CopyRefines ==
  ASSUME ContractInv, NEW d \in Slots, tasks[d].at = "poison", Copied(d), UNCHANGED historyVars
  PROVE  [Contract!Next]_(Contract!contractVars)
<1>1. tasks[d].msg \in Messages
  BY AdmittedMsg DEF ContractInv, Admitted
<1>2. calls[tasks[d].msg] > 0
  BY DEF ContractInv, TriedInv, Admitted
<1>3. ~AutoAck
  BY DEF ContractInv, OnceInv, Once
<1>4. TypeOK
  BY DEF ContractInv
<1> QED
  BY <1>1, <1>2, <1>3, <1>4, ContractCopies DEF Copied, historyVars

LEMMA AdmitRefines ==
  ASSUME ContractInv, NEW d \in Slots, Pending(d), NEW s, Admit(d, s), UNCHANGED brokerVars
  PROVE  [Contract!Next]_(Contract!contractVars)
<1>1. tasks[d].msg \in Messages
  BY AliveTask DEF ContractInv, Pending, Task
<1>2. AutoAck => tasks[d].msg \in acked /\ calls[tasks[d].msg] = 0
  BY <1>1 DEF ContractInv, OnceInv, Once, TriedInv
<1> QED
  BY <1>1, <1>2, ContractCalls DEF Admit, brokerVars

LEMMA HandlerRefines ==
  ASSUME ContractInv, NEW d \in Slots,
         HandlerStep(d) \/ PoisonRefused(d) \/ CallbackReturns(d) \/ CallbackRaises(d)
  PROVE  [Contract!Next]_(Contract!contractVars)
<1>1. CASE Begin(d)
  <2>1. Pending(d) /\ UNCHANGED brokerVars /\ (Admit(d, sem) \/ UNCHANGED historyVars)
    BY <1>1 DEF Begin, Pending
  <2> QED
    BY <2>1, AdmitRefines, ContractStutters DEF brokerVars, historyVars
<1>2. CASE Acquired(d)
  BY <1>2, AdmitRefines DEF Acquired, Pending
<1>3. CASE CallbackReturns(d)
  <2>1. tasks[d].at = "running" /\ UNCHANGED <<config, acked, copies, calls>>
        /\ handled' = handled \union {tasks[d].msg}
    BY <1>3 DEF CallbackReturns, brokerVars
  <2>2. tasks[d].msg \in Messages /\ calls[tasks[d].msg] > 0
    BY <2>1, AdmittedMsg DEF ContractInv, TriedInv, Admitted
  <2> QED
    BY <2>1, <2>2, ContractReturns
<1>4. CASE CallbackRaises(d) \/ PoisonRefused(d)
  BY <1>4, ContractStutters DEF CallbackRaises, PoisonRefused, brokerVars, historyVars
<1>5. CASE Ack(d) \/ PoisonAck(d)
  <2>1. tasks[d].at \in {"acking", "settling"} /\ UNCHANGED historyVars /\ (Acked(d) \/ UNCHANGED brokerVars)
    BY <1>5 DEF Ack, PoisonAck
  <2> QED
    BY <2>1, AckRefines, ContractStutters DEF brokerVars, historyVars
<1>6. CASE Poison(d)
  <2>1. tasks[d].at = "poison" /\ UNCHANGED historyVars /\ (Copied(d) \/ UNCHANGED brokerVars)
    BY <1>6 DEF Poison
  <2> QED
    BY <2>1, CopyRefines, ContractStutters DEF brokerVars, historyVars
<1>7. CASE Nack(d)
  BY <1>7, ContractStutters DEF Nack, Nacked, brokerVars, historyVars
<1>8. CASE CancelHandler(d)
  <2>1. UNCHANGED historyVars
    BY <1>8 DEF CancelHandler
  <2>2. \/ UNCHANGED brokerVars \/ Nacked(d)
        \/ tasks[d].at \in {"acking", "settling"} /\ Acked(d)
        \/ tasks[d].at = "poison" /\ Copied(d)
    BY <1>8 DEF CancelHandler
  <2> QED
    BY <2>1, <2>2, AckRefines, CopyRefines, ContractStutters DEF Nacked, brokerVars, historyVars
<1> QED
  BY <1>1, <1>2, <1>3, <1>4, <1>5, <1>6, <1>7, <1>8 DEF HandlerStep

LEMMA OutsideRefines ==
  ASSUME \/ \E k \in Starts : \/ StartCall(k) \/ StartStep(k) \/ StartFails(k)
                              \/ ConnectionLost(k) \/ Reconnected(k)
         \/ \E m \in Messages : Unpark(m)
         \/ StopCall \/ StopStep \/ UNCHANGED vars
  PROVE  [Contract!Next]_(Contract!contractVars)
<1>1. UNCHANGED <<config, acked, copies, calls, handled>>
  BY DEF StartCall, StartStep, StartFails, ConnectionMade, ChannelOpened, Declared, Bound, Registered,
     Started, ConnectionLost, Reconnected, Unpark, StopCall, StopStep, CancelReturned, HandlersDone,
     StopTimesOut, ChannelClosed, ConnectionClosed, stopUnchanged, brokerVars, historyVars, vars
<1> QED
  BY <1>1, ContractStutters

LEMMA DeliverRefines ==
  ASSUME ContractInv, NEW k \in Starts, Deliver(k)
  PROVE  [Contract!Next]_(Contract!contractVars)
<1>1. PICK m \in ready : IF NoAck THEN acked' = acked \union {m} ELSE UNCHANGED acked
  BY DEF Deliver
<1>2. m \in Messages /\ UNCHANGED <<config, copies, calls, handled>>
  BY DEF Deliver, historyVars, ContractInv, TypeOK
<1> QED
  BY <1>1, <1>2, ContractForgets, ContractStutters DEF NoAck

LEMMA StepRefines ==
  ASSUME ContractInv, [Next]_vars PROVE [Contract!Next]_(Contract!contractVars)
  BY OutsideRefines, DeliverRefines, HandlerRefines DEF Next

\* "auto_ack=True: at-most-once delivery", "auto_ack=False: at-least-once delivery": the
\* asyncio listener keeps the same contract as the synchronous one, step by step, for every
\* configuration and with start(), stop(), reconnection and cancellation in any order
\* (async_adapter.py:277 on, _run_handler).
THEOREM Refinement == Spec => ContractSpec
<1>1. Init => Contract!Init
  <2> SUFFICES ASSUME Init PROVE Contract!Init
    OBVIOUS
  <2>1. AutoAck \in BOOLEAN
    BY ConfigsAssumption DEF Init, Config, AutoAck
  <2>2. {m \in Messages : copies[m] > 0} = {}
    BY DEF Init
  <2> QED
    BY <2>1, <2>2 DEF Init, Contract!Init
<1>2. TypeOK /\ AckInv /\ OnceInv /\ TriedInv /\ [Next]_vars => [Contract!Next]_(Contract!contractVars)
  BY StepRefines DEF ContractInv
<1>3. TypeOK /\ AckInv /\ [Next]_vars => AckInv'
  BY AckNext
<1>4. TypeOK /\ OnceInv /\ [Next]_vars => OnceInv'
  BY OnceNext
<1>5. TypeOK /\ TriedInv /\ [Next]_vars => TriedInv'
  BY TriedNext
<1> QED
  BY <1>1, <1>2, <1>3, <1>4, <1>5, TypeCorrect, AckInit, OnceInit, TriedInit,
     PTL DEF Spec, ContractSpec, Contract!Spec

=============================================================================
