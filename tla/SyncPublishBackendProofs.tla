---------------------- MODULE SyncPublishBackendProofs ----------------------
(***************************************************************************)
(* Safety of SyncPublishBackend for every number of threads, messages and  *)
(* faults, every queue bound and every timing of stop().                   *)
(***************************************************************************)
EXTENDS SyncPublishBackend, TLAPS

USE DEF GoTo, IoTo, history, Sentinel, WakeUp, LoopEnds, FailuresOnceConnected,
        QueueAfterFailure, CountFailed, AfterBackoff, LinkAtExit

-----------------------------------------------------------------------------
(* Types *)

LEMMA InitType == Init => TypeOK
  <1> SUFFICES ASSUME Init PROVE TypeOK
    OBVIOUS
  <1>1. queue \in Seq(Nat) /\ wire \in Seq(Nat)
    BY DEF Init
  <1>2. /\ call \in [Callers -> CallStates] /\ io \in [IoThreads -> IoStates]
        /\ hand \in [IoThreads -> Nat] /\ conn \in [IoThreads -> Links]
    BY DEF Init, CallStates, IoStates, Links
  <1> QED BY <1>1, <1>2 DEF Init, TypeOK

LEMMA CallType ==
  ASSUME TypeOK, NEW c \in Callers,
         \/ StartCall(c) \/ StartStep(c) \/ StopCall(c) \/ StopStep(c)
         \/ PublishCall(c) \/ PublishPut(c)
  PROVE  TypeOK'
  <1> USE DEF TypeOK, CallStates, IoStates
  <1>1. CASE StartCall(c)    BY <1>1 DEF StartCall
  <1>2. CASE StartCheck(c)   BY <1>2 DEF StartCheck
  <1>2a. CASE StartClear(c)  BY <1>2a DEF StartClear
  <1>3. CASE StartCreate(c)  BY <1>3 DEF StartCreate
  <1>4. CASE StartRun(c)     BY <1>4 DEF StartRun, Running
  <1>5. CASE StopCall(c)     BY <1>5 DEF StopCall
  <1>6. CASE StopSet(c)      BY <1>6 DEF StopSet
  <1>7. CASE StopPut(c)      BY <1>7 DEF StopPut
  <1>8. CASE StopJoin(c)     BY <1>8 DEF StopJoin
  <1>9. CASE PublishCall(c)  BY <1>9 DEF PublishCall
  <1>10. CASE PublishPut(c)  BY <1>10 DEF PublishPut
  <1> QED BY <1>1, <1>2, <1>3, <1>4, <1>5, <1>6, <1>7, <1>8, <1>9, <1>10, <1>2a
          DEF StartStep, StopStep

\* What a step of an I/O thread does to its place in _run and to its connection.
LEMMA IoMoves ==
  ASSUME TypeOK, NEW t \in IoThreads, NEW where \in IoStates, IoTo(t, where)
  PROVE  io' \in [IoThreads -> IoStates]
  BY DEF TypeOK

LEMMA ConnMoves ==
  ASSUME TypeOK, NEW t \in IoThreads, NEW link \in Links,
         conn' = [conn EXCEPT ![t] = link]
  PROVE  conn' \in [IoThreads -> Links]
  BY DEF TypeOK

LEMMA Places ==
  /\ {"top", "get", "publish", "backoff", "cleanup", "dead", "crashed"} \subseteq IoStates
  /\ {"none", "open", "broken", "closed"} \subseteq Links
  BY DEF IoStates, Running, Links

LEMMA IoType ==
  ASSUME TypeOK, NEW t \in IoThreads, IoStep(t) \/ ConnBreak(t)
  PROVE  TypeOK'
  <1>1. CASE IoStopped(t)
    BY <1>1, IoMoves, Places DEF IoStopped, TypeOK
  <1>2. CASE IoConnect(t)
    <2>1. conn' \in [IoThreads -> Links]
      BY <1>2, ConnMoves, Places DEF IoConnect, TypeOK
    <2> QED BY <1>2, <2>1, IoMoves, Places DEF IoConnect, TypeOK
  <1>3. CASE IoConnectFails(t)
    <2>1. conn[t] \in Links
      BY DEF TypeOK
    <2>2. conn' \in [IoThreads -> Links]
      BY <1>3, <2>1, ConnMoves, Places DEF IoConnectFails
    <2>3. io' \in [IoThreads -> IoStates]
      BY <1>3, IoMoves, Places DEF IoConnectFails
    <2> QED BY <1>3, <2>2, <2>3 DEF IoConnectFails, TypeOK
  <1>4. CASE IoGet(t)
    <2>1. queue' \in Seq(Nat) /\ Head(queue) \in Nat
      BY <1>4 DEF IoGet, TypeOK
    <2>2. conn' \in [IoThreads -> Links]
      BY <1>4, ConnMoves, Places DEF IoGet, PumpIo, TypeOK
    <2>3. io' \in [IoThreads -> IoStates]
      BY <1>4, IoMoves, Places DEF IoGet
    <2> QED BY <1>4, <2>1, <2>2, <2>3 DEF IoGet, TypeOK
  <1>5. CASE IoIdle(t)
    <2>1. conn' \in [IoThreads -> Links]
      BY <1>5, ConnMoves, Places DEF IoIdle, PumpIo, TypeOK
    <2> QED BY <1>5, <2>1, IoMoves, Places DEF IoIdle, TypeOK
  <1>6. CASE IoPublish(t)
    <2>1. hand[t] \in Nat /\ hand' \in [IoThreads -> Nat] /\ late' \in Nat
      BY <1>6 DEF IoPublish, Tried, TypeOK
    <2>2. wire' \in Seq(Nat)
      BY <1>6, <2>1 DEF IoPublish, TypeOK
    <2>3. io' \in [IoThreads -> IoStates]
      BY <1>6, IoMoves, Places DEF IoPublish
    <2> QED BY <1>6, <2>1, <2>2, <2>3 DEF IoPublish, Tried, TypeOK
  <1>7. CASE IoPublishFails(t)
    <2>1. hand[t] \in Nat /\ hand' \in [IoThreads -> Nat] /\ late' \in Nat
      BY <1>7 DEF IoPublishFails, Tried, TypeOK
    <2>2. wire \in Seq(Nat) /\ Append(wire, hand[t]) \in Seq(Nat) /\ faults \in Nat
      BY <2>1 DEF TypeOK
    <2>4. wire' \in {wire, Append(wire, hand[t])} /\ faults' \in {faults, faults + 1}
      BY <1>7 DEF IoPublishFails
    <2>5. wire' \in Seq(Nat)
      BY <2>2, <2>4, Zenon
    <2>6. faults' \in Nat
      BY <2>2, <2>4
    <2>3. io' \in [IoThreads -> IoStates]
      BY <1>7, IoMoves, Places DEF IoPublishFails
    <2> QED BY <1>7, <2>1, <2>3, <2>5, <2>6 DEF IoPublishFails, Tried, TypeOK
  <1>8. CASE IoBackoff(t)
    <2>1. conn' \in [IoThreads -> Links]
      BY <1>8, ConnMoves, Places DEF IoBackoff, TypeOK
    <2>2. io' \in [IoThreads -> IoStates]
      BY <1>8, IoMoves, Places DEF IoBackoff
    <2> QED BY <1>8, <2>1, <2>2 DEF IoBackoff, TypeOK
  <1>9. CASE IoCleanup(t)
    BY <1>9, IoMoves, ConnMoves, Places DEF IoCleanup, TypeOK
  <1>10. CASE ConnBreak(t)
    BY <1>10, ConnMoves, Places DEF ConnBreak, TypeOK
  <1> QED BY <1>1, <1>2, <1>3, <1>4, <1>5, <1>6, <1>7, <1>8, <1>9, <1>10 DEF IoStep

LEMMA NextType == TypeOK /\ [Next]_vars => TypeOK'
  <1> SUFFICES ASSUME TypeOK, [Next]_vars PROVE TypeOK'
    OBVIOUS
  <1>1. CASE UNCHANGED vars  BY <1>1 DEF vars, TypeOK
  <1>2. CASE Next            BY <1>2, CallType, IoType DEF Next, Callers
  <1> QED BY <1>1, <1>2

\* The attributes of the backend keep their types.
THEOREM TypeCorrect == Spec => []TypeOK
  BY InitType, NextType, PTL DEF Spec

-----------------------------------------------------------------------------
(* Accounting.  Tickets are numbered in the order of the queue, so what has *)
(* been taken out of it is smaller than what is still in it; with that, the *)
(* places where a ticket can be are disjoint and every step keeps them so.  *)

Done == published \union failed

QueueInv ==
    /\ \A i \in 1 .. Len(queue) : queue[i] <= tickets
    /\ \A i, j \in 1 .. Len(queue) :
          i < j /\ queue[i] # Sentinel /\ queue[j] # Sentinel => queue[i] < queue[j]

HandInv ==
    /\ \A t \in IoThreads : (hand[t] # Sentinel) <=> (io[t] = "publish")
    /\ \A t \in IoThreads : hand[t] <= tickets /\ hand[t] \notin Done
    /\ \A t \in IoThreads, i \in 1 .. Len(queue) :
          queue[i] # Sentinel => hand[t] < queue[i]
    /\ \A t, u \in IoThreads : hand[t] = hand[u] /\ hand[t] # Sentinel => t = u

DoneInv ==
    /\ \A m \in Done : 1 <= m /\ m <= tickets
    /\ \A m \in Done, i \in 1 .. Len(queue) : queue[i] # Sentinel => m < queue[i]
    /\ published \intersect failed = {}

Complete ==
    \A m \in 1 .. tickets :
        \/ m \in Done
        \/ \E t \in IoThreads : hand[t] = m
        \/ \E i \in 1 .. Len(queue) : queue[i] = m

WireInv ==
    /\ \A i \in 1 .. Len(wire) : wire[i] \in Done
    /\ AtMostOnce

AccountInv == QueueInv /\ HandInv /\ DoneInv /\ Complete /\ WireInv

LEMMA InitAccount == Init => AccountInv
  BY DEF Init, AccountInv, QueueInv, HandInv, DoneInv, Complete, WireInv, AtMostOnce, Done

\* Steps that leave the tickets where they are.
LEMMA AccountKept ==
  ASSUME AccountInv,
         UNCHANGED <<queue, hand, tickets, published, failed, wire>>,
         \A t \in IoThreads : (io'[t] = "publish") <=> (io[t] = "publish")
  PROVE  AccountInv'
  BY DEF AccountInv, QueueInv, HandInv, DoneInv, Complete, WireInv, AtMostOnce, Done

\* A sentinel on the queue is no ticket.
LEMMA SentinelQueued ==
  ASSUME TypeOK, AccountInv, queue' = Append(queue, Sentinel),
         UNCHANGED <<hand, io, tickets, published, failed, wire>>
  PROVE  AccountInv'
  <1>1. /\ Len(queue') = Len(queue) + 1 /\ Len(queue) \in Nat
        /\ \A i \in 1 .. Len(queue') : queue'[i] # Sentinel =>
              i \in 1 .. Len(queue) /\ queue'[i] = queue[i]
        /\ \A i \in 1 .. Len(queue) : queue'[i] = queue[i] /\ i \in 1 .. Len(queue')
        /\ queue'[Len(queue) + 1] = Sentinel
    BY DEF TypeOK
  <1>2. QueueInv'
    BY <1>1 DEF AccountInv, QueueInv, TypeOK
  <1>3. HandInv' /\ DoneInv' /\ WireInv'
    BY <1>1 DEF AccountInv, HandInv, DoneInv, WireInv, AtMostOnce, Done
  <1>4. Complete'
    BY <1>1 DEF AccountInv, Complete, Done
  <1> QED BY <1>2, <1>3, <1>4 DEF AccountInv

\* A new request is larger than every ticket there is.
LEMMA TicketQueued ==
  ASSUME TypeOK, AccountInv, tickets' = tickets + 1, queue' = Append(queue, tickets'),
         UNCHANGED <<hand, io, published, failed, wire>>
  PROVE  AccountInv'
  <1>1. /\ Len(queue') = Len(queue) + 1 /\ Len(queue) \in Nat /\ tickets \in Nat
        /\ \A i \in 1 .. Len(queue') : i # Len(queue) + 1 =>
              i \in 1 .. Len(queue) /\ queue'[i] = queue[i]
        /\ \A i \in 1 .. Len(queue) : queue'[i] = queue[i] /\ i \in 1 .. Len(queue')
        /\ queue'[Len(queue) + 1] = tickets + 1
        /\ \A i \in 1 .. Len(queue) : queue[i] \in Nat
        /\ \A t \in IoThreads : hand[t] \in Nat
        /\ \A m \in Done : m \in Nat
    BY DEF TypeOK, Done
  <1>2. QueueInv'
    BY <1>1 DEF AccountInv, QueueInv
  <1>3. HandInv'
    BY <1>1 DEF AccountInv, HandInv, Done
  <1>4. DoneInv' /\ WireInv'
    BY <1>1 DEF AccountInv, DoneInv, WireInv, AtMostOnce, Done
  <1>5. Complete'
    BY <1>1 DEF AccountInv, Complete, Done
  <1> QED BY <1>2, <1>3, <1>4, <1>5 DEF AccountInv

\* The head of the queue moves to the hand of the thread that got it.
LEMMA TicketTaken ==
  ASSUME TypeOK, AccountInv, NEW t \in IoThreads, IoGet(t)
  PROVE  AccountInv'
  <1>1. /\ Len(queue) >= 1 /\ Len(queue) \in Nat /\ Len(queue') = Len(queue) - 1
        /\ \A i \in 1 .. Len(queue') : queue'[i] = queue[i + 1] /\ i + 1 \in 1 .. Len(queue)
        /\ \A i \in 1 .. Len(queue) : i # 1 =>
              i - 1 \in 1 .. Len(queue') /\ queue'[i - 1] = queue[i]
        /\ Head(queue) = queue[1] /\ 1 \in 1 .. Len(queue)
        /\ \A i \in 1 .. Len(queue) : queue[i] \in Nat
    BY DEF IoGet, TypeOK
  <1>2. /\ hand'[t] = queue[1]
        /\ \A u \in IoThreads : u # t => hand'[u] = hand[u] /\ io'[u] = io[u]
        /\ io[t] = "get"
        /\ (io'[t] = "publish") <=> (queue[1] # Sentinel)
        /\ \A u \in IoThreads : hand[u] \in Nat
        /\ tickets' = tickets /\ tickets \in Nat /\ wire' = wire
        /\ published' = published /\ failed' = failed
    BY <1>1 DEF IoGet, TypeOK
  <1>3. hand[t] = Sentinel
    BY <1>2 DEF AccountInv, HandInv
  <1>4. QueueInv'
    <2>1. \A i \in 1 .. Len(queue') : queue'[i] <= tickets'
      BY <1>1, <1>2 DEF AccountInv, QueueInv
    <2>2. ASSUME NEW i \in 1 .. Len(queue'), NEW j \in 1 .. Len(queue'), i < j,
                 queue'[i] # Sentinel, queue'[j] # Sentinel
          PROVE  queue'[i] < queue'[j]
      <3>1. /\ i + 1 \in 1 .. Len(queue) /\ j + 1 \in 1 .. Len(queue) /\ i + 1 < j + 1
            /\ queue'[i] = queue[i + 1] /\ queue'[j] = queue[j + 1]
        BY <1>1, <2>2
      <3> QED BY <2>2, <3>1 DEF AccountInv, QueueInv
    <2> QED BY <2>1, <2>2 DEF QueueInv
  <1>5. DoneInv' /\ WireInv'
    BY <1>1, <1>2 DEF AccountInv, DoneInv, WireInv, AtMostOnce, Done
  <1>6. HandInv'
    <2>1. \A u \in IoThreads : (hand'[u] # Sentinel) <=> (io'[u] = "publish")
      BY <1>2 DEF AccountInv, HandInv
    <2>2. \A u \in IoThreads : hand'[u] <= tickets' /\ hand'[u] \notin Done'
      BY <1>1, <1>2 DEF AccountInv, HandInv, DoneInv, QueueInv, Done
    <2>3. \A u \in IoThreads, i \in 1 .. Len(queue') :
             queue'[i] # Sentinel => hand'[u] < queue'[i]
      <3> SUFFICES ASSUME NEW u \in IoThreads, NEW i \in 1 .. Len(queue'),
                          queue'[i] # Sentinel
                   PROVE  hand'[u] < queue'[i]
        OBVIOUS
      <3>1. CASE u # t
        BY <1>1, <1>2, <3>1 DEF AccountInv, HandInv
      <3>2. CASE u = t /\ queue[1] # Sentinel
        BY <1>1, <1>2, <3>2 DEF AccountInv, QueueInv
      <3>3. CASE u = t /\ queue[1] = Sentinel
        BY <1>1, <1>2, <3>3
      <3> QED BY <3>1, <3>2, <3>3
    <2>4. \A u, v \in IoThreads : hand'[u] = hand'[v] /\ hand'[u] # Sentinel => u = v
      BY <1>1, <1>2 DEF AccountInv, HandInv
    <2> QED BY <2>1, <2>2, <2>3, <2>4 DEF HandInv
  <1>7. Complete'
    <2> SUFFICES ASSUME NEW m \in 1 .. tickets, m \notin Done
                 PROVE  \/ \E u \in IoThreads : hand'[u] = m
                        \/ \E i \in 1 .. Len(queue') : queue'[i] = m
      BY <1>2 DEF Complete, Done
    <2>1. CASE \E u \in IoThreads : hand[u] = m
      BY <2>1, <1>2, <1>3
    <2>2. CASE \E i \in 1 .. Len(queue) : queue[i] = m
      BY <2>2, <1>1, <1>2
    <2> QED BY <2>1, <2>2 DEF AccountInv, Complete
  <1> QED BY <1>4, <1>5, <1>6, <1>7 DEF AccountInv

\* The request in a hand moves to one of the counters, and perhaps to the wire.
LEMMA TicketTried ==
  ASSUME TypeOK, AccountInv, NEW t \in IoThreads, IoPublish(t) \/ IoPublishFails(t)
  PROVE  AccountInv'
  <1>1. /\ hand'[t] = Sentinel /\ hand[t] # Sentinel
        /\ \A u \in IoThreads : u # t => hand'[u] = hand[u] /\ io'[u] = io[u]
        /\ io'[t] # "publish"
        /\ queue' = queue /\ tickets' = tickets
    BY DEF IoPublish, IoPublishFails, Tried, TypeOK, AccountInv, HandInv
  <1>2. /\ Done' = Done \union {hand[t]}
        /\ published' \intersect failed' = {}
        /\ hand[t] \in Nat /\ hand[t] <= tickets /\ hand[t] \notin Done
    BY DEF IoPublish, IoPublishFails, AccountInv, HandInv, DoneInv, Done, TypeOK
  <1>3. wire' = wire \/ wire' = Append(wire, hand[t])
    BY DEF IoPublish, IoPublishFails
  <1>4. QueueInv'
    BY <1>1 DEF AccountInv, QueueInv
  <1>5. HandInv'
    <2>1. \A u \in IoThreads : u # t => hand[u] # hand[t]
      BY <1>1 DEF AccountInv, HandInv
    <2>2. Sentinel \notin Done'
      BY <1>1, <1>2 DEF AccountInv, DoneInv
    <2>3. \A u \in IoThreads : (hand'[u] # Sentinel) <=> (io'[u] = "publish")
      BY <1>1 DEF AccountInv, HandInv
    <2>4. ASSUME NEW u \in IoThreads
          PROVE  hand'[u] <= tickets' /\ hand'[u] \notin Done'
      <3>1. CASE u = t
        BY <1>1, <2>2, <3>1 DEF TypeOK
      <3>2. CASE u # t
        <4>1. hand[u] <= tickets /\ hand[u] \notin Done /\ hand[u] # hand[t]
          BY <2>1, <3>2 DEF AccountInv, HandInv
        <4> QED BY <1>1, <1>2, <3>2, <4>1
      <3> QED BY <3>1, <3>2
    <2>5. ASSUME NEW u \in IoThreads, NEW i \in 1 .. Len(queue'), queue'[i] # Sentinel
          PROVE  hand'[u] < queue'[i]
      <3>1. queue[i] \in Nat /\ queue[i] # 0 /\ i \in 1 .. Len(queue)
        BY <1>1, <2>5 DEF TypeOK
      <3>2. CASE u = t
        BY <1>1, <2>5, <3>1, <3>2
      <3>3. CASE u # t
        BY <1>1, <2>5, <3>1, <3>3 DEF AccountInv, HandInv
      <3> QED BY <3>2, <3>3
    <2>6. \A u, v \in IoThreads : hand'[u] = hand'[v] /\ hand'[u] # Sentinel => u = v
      BY <1>1 DEF AccountInv, HandInv
    <2> QED BY <2>3, <2>4, <2>5, <2>6 DEF HandInv
  <1>6. DoneInv'
    BY <1>1, <1>2 DEF AccountInv, DoneInv, HandInv
  <1>7. Complete'
    BY <1>1, <1>2 DEF AccountInv, Complete
  <1>8. WireInv'
    <2>1. CASE wire' = wire
      BY <2>1, <1>2 DEF AccountInv, WireInv, AtMostOnce
    <2>2. CASE wire' = Append(wire, hand[t])
      <3>1. /\ Len(wire') = Len(wire) + 1 /\ Len(wire) \in Nat
            /\ \A i \in 1 .. Len(wire') : i # Len(wire) + 1 =>
                  i \in 1 .. Len(wire) /\ wire'[i] = wire[i]
            /\ wire'[Len(wire) + 1] = hand[t]
        BY <2>2, <1>2 DEF TypeOK
      <3> QED BY <3>1, <1>2 DEF AccountInv, WireInv, AtMostOnce
    <2> QED BY <1>3, <2>1, <2>2
  <1> QED BY <1>4, <1>5, <1>6, <1>7, <1>8 DEF AccountInv

LEMMA CallAccount ==
  ASSUME TypeOK, AccountInv, NEW c \in Callers,
         \/ StartCall(c) \/ StartStep(c) \/ StopCall(c) \/ StopStep(c)
         \/ PublishCall(c) \/ PublishPut(c)
  PROVE  AccountInv'
  <1>1. CASE StartCall(c)    BY <1>1, AccountKept DEF StartCall
  <1>2. CASE StartCheck(c)   BY <1>2, AccountKept DEF StartCheck
  <1>2a. CASE StartClear(c)  BY <1>2a, AccountKept DEF StartClear
  <1>3. CASE StartCreate(c)  BY <1>3, AccountKept DEF StartCreate, TypeOK
  <1>4. CASE StartRun(c)     BY <1>4, AccountKept DEF StartRun, TypeOK
  <1>5. CASE StopCall(c)     BY <1>5, AccountKept DEF StopCall
  <1>6. CASE StopSet(c)      BY <1>6, AccountKept DEF StopSet
  <1>7. CASE StopPut(c)      BY <1>7, AccountKept, SentinelQueued DEF StopPut
  <1>8. CASE StopJoin(c)     BY <1>8, AccountKept DEF StopJoin
  <1>9. CASE PublishCall(c)  BY <1>9, AccountKept DEF PublishCall
  <1>10. CASE PublishPut(c)  BY <1>10, TicketQueued DEF PublishPut
  <1> QED BY <1>1, <1>2, <1>3, <1>4, <1>5, <1>6, <1>7, <1>8, <1>9, <1>10, <1>2a
          DEF StartStep, StopStep

LEMMA IoAccount ==
  ASSUME TypeOK, AccountInv, NEW t \in IoThreads, IoStep(t) \/ ConnBreak(t)
  PROVE  AccountInv'
  <1>1. CASE IoStopped(t)       BY <1>1, AccountKept DEF IoStopped, TypeOK
  <1>2. CASE IoConnect(t)       BY <1>2, AccountKept DEF IoConnect, TypeOK
  <1>3. CASE IoConnectFails(t)  BY <1>3, AccountKept DEF IoConnectFails, TypeOK
  <1>4. CASE IoGet(t)           BY <1>4, TicketTaken
  <1>5. CASE IoIdle(t)          BY <1>5, AccountKept DEF IoIdle, TypeOK
  <1>6. CASE IoPublish(t)       BY <1>6, TicketTried
  <1>7. CASE IoPublishFails(t)  BY <1>7, TicketTried
  <1>8. CASE IoBackoff(t)       BY <1>8, AccountKept DEF IoBackoff, TypeOK
  <1>9. CASE IoCleanup(t)       BY <1>9, AccountKept DEF IoCleanup, TypeOK
  <1>10. CASE ConnBreak(t)      BY <1>10, AccountKept DEF ConnBreak
  <1> QED BY <1>1, <1>2, <1>3, <1>4, <1>5, <1>6, <1>7, <1>8, <1>9, <1>10 DEF IoStep

LEMMA NextAccount == TypeOK /\ AccountInv /\ [Next]_vars => AccountInv'
  <1> SUFFICES ASSUME TypeOK, AccountInv, [Next]_vars PROVE AccountInv'
    OBVIOUS
  <1>1. CASE UNCHANGED vars  BY <1>1, AccountKept DEF vars
  <1>2. CASE Next            BY <1>2, CallAccount, IoAccount DEF Next, Callers
  <1> QED BY <1>1, <1>2

LEMMA AccountInvariant == Spec => [](TypeOK /\ AccountInv)
  BY InitType, NextType, InitAccount, NextAccount, PTL DEF Spec

LEMMA AccountImplies == TypeOK /\ AccountInv => Accounted /\ AtMostOnce
  <1> SUFFICES ASSUME TypeOK, AccountInv PROVE Accounted /\ AtMostOnce
    OBVIOUS
  <1>1. AtMostOnce
    BY DEF AccountInv, WireInv
  <1>2. /\ \A m \in Queued : m \in 1 .. tickets /\ m \notin Held \union Done
        /\ \A m \in Held : m \in 1 .. tickets /\ m \notin Done
        /\ \A m \in Done : m \in 1 .. tickets
    <2>1. \A i \in 1 .. Len(queue) : queue[i] \in Nat
      BY DEF TypeOK
    <2>2. \A m \in Queued : m \in 1 .. tickets
      BY <2>1 DEF Queued, AccountInv, QueueInv, TypeOK
    <2>3. \A m \in Queued : m \notin Held \union Done
      BY <2>1 DEF Queued, Held, AccountInv, HandInv, DoneInv, TypeOK
    <2>4. \A m \in Held : m \in 1 .. tickets /\ m \notin Done
      BY DEF Held, AccountInv, HandInv, TypeOK
    <2>5. \A m \in Done : m \in 1 .. tickets
      BY DEF Done, AccountInv, DoneInv, TypeOK
    <2> QED BY <2>2, <2>3, <2>4, <2>5
  <1>3. 1 .. tickets \subseteq Queued \union Held \union Done
    BY DEF AccountInv, Complete, Queued, Held, TypeOK
  <1>4. /\ published \intersect failed = {}
        /\ \A t, u \in IoThreads : hand[t] = hand[u] /\ hand[t] # Sentinel => t = u
    BY DEF AccountInv, DoneInv, HandInv
  <1> QED BY <1>1, <1>2, <1>3, <1>4 DEF Accounted, Done

\* No request is lost from the books or booked twice, for any number of threads
\* calling start(), stop() and publish() at any time.
THEOREM Accounting == Spec => []Accounted
  BY AccountInvariant, AccountImplies, PTL

\* No request is sent to the broker twice, not even by two I/O threads at a time.
THEOREM NoDuplicates == Spec => []AtMostOnce
  BY AccountInvariant, AccountImplies, PTL

-----------------------------------------------------------------------------
(* One owner.  start() is not atomic, so the rest holds when one thread      *)
(* makes all the calls of start(); stop() and publish() stay unrestricted.   *)

SingleOwner == \A c, d \in Starters : c = d

Active == Running \union {"created"}

\* Between the check and the assignment of self._thread.
Creating == {"start_clear", "start_create"}

OwnerInv ==
    /\ \A t \in IoThreads : io[t] \in Active => t = thread
    /\ \A c \in Starters : call[c] \in Creating => \A t \in IoThreads : io[t] \notin Active
    /\ \A t \in IoThreads : io[t] = "created" => \E c \in Starters : call[c] = "start_run"

LEMMA InitOwner == Init => OwnerInv
  BY DEF Init, OwnerInv, Creating, Active, Running, Callers

\* Steps that neither start a thread nor move inside start().
LEMMA OwnerKept ==
  ASSUME OwnerInv, UNCHANGED thread,
         \A t \in IoThreads : /\ io'[t] \in Active => io[t] \in Active
                              /\ io'[t] = "created" => io[t] = "created",
         \A c \in Starters : /\ call'[c] \in Creating => call[c] \in Creating
                             /\ call[c] = "start_run" => call'[c] = "start_run"
  PROVE  OwnerInv'
  BY DEF OwnerInv

LEMMA CallOwner ==
  ASSUME SingleOwner, TypeOK, OwnerInv, NEW c \in Callers,
         \/ c \in Starters /\ (StartCall(c) \/ StartStep(c))
         \/ StopCall(c) \/ StopStep(c) \/ PublishCall(c) \/ PublishPut(c)
  PROVE  OwnerInv'
  <1>0. Starters \subseteq Callers
    BY DEF Callers
  <1>1. CASE StartCall(c)    BY <1>0, <1>1, OwnerKept DEF StartCall, Creating, TypeOK
  <1>2. CASE c \in Starters /\ StartCheck(c)
    <2>1. /\ UNCHANGED <<io, thread>> /\ call[c] = "start" /\ call' \in [Callers -> CallStates]
          /\ call'[c] = IF ThreadAlive THEN "idle" ELSE "start_clear"
          /\ \A d \in Starters : d = c
      BY <1>2 DEF StartCheck, TypeOK, SingleOwner, CallStates
    <2>2. \A t \in IoThreads : io[t] # "created"
      BY <2>1 DEF OwnerInv
    <2>3. ~ThreadAlive => \A t \in IoThreads : io[t] \notin Active
      BY <2>2, ThreadsAssumption DEF OwnerInv, Active, ThreadAlive, Alive
    <2> QED BY <2>1, <2>2, <2>3 DEF OwnerInv, Creating
  <1>2a. CASE c \in Starters /\ StartClear(c)
    <2>1. /\ UNCHANGED <<io, thread>> /\ call[c] = "start_clear" /\ call'[c] = "start_create"
          /\ \A d \in Starters : d = c
      BY <1>2a DEF StartClear, TypeOK, SingleOwner
    <2> QED BY <2>1 DEF OwnerInv, Creating
  <1>3. CASE c \in Starters /\ StartCreate(c)
    <2>1. PICK t \in IoThreads : io[t] = "none" /\ thread' = t /\ IoTo(t, "created")
      BY <1>3 DEF StartCreate
    <2>2. /\ call[c] = "start_create" /\ call'[c] = "start_run"
          /\ \A d \in Starters : d = c
      BY <1>3 DEF StartCreate, TypeOK, SingleOwner
    <2>3. \A u \in IoThreads : u # t => io'[u] \notin Active
      BY <1>3, <2>1, <2>2 DEF OwnerInv, Creating, TypeOK
    <2> QED BY <1>3, <2>1, <2>2, <2>3 DEF OwnerInv, Creating, Active
  <1>4. CASE c \in Starters /\ StartRun(c)
    <2>1. /\ UNCHANGED thread /\ call'[c] = "idle"
          /\ \A d \in Starters : d = c
      BY <1>4 DEF StartRun, TypeOK, SingleOwner
    <2>2. \A t \in IoThreads : io'[t] # "created" /\ (io'[t] \in Active => io[t] \in Active)
      <3> SUFFICES ASSUME NEW t \in IoThreads
                   PROVE  io'[t] # "created" /\ (io'[t] \in Active => io[t] \in Active)
        OBVIOUS
      <3>1. CASE io[thread] = "created" /\ t = thread
        BY <1>4, <3>1 DEF StartRun, TypeOK, Active
      <3>2. CASE t # thread
        BY <1>4, <3>2 DEF StartRun, TypeOK, OwnerInv, Active
      <3>3. CASE io[thread] # "created" /\ t = thread
        BY <1>4, <3>3 DEF StartRun
      <3> QED BY <3>1, <3>2, <3>3
    <2> QED BY <2>1, <2>2 DEF OwnerInv, Creating
  <1>5. CASE StopCall(c)     BY <1>0, <1>5, OwnerKept DEF StopCall, Creating, TypeOK
  <1>6. CASE StopSet(c)      BY <1>0, <1>6, OwnerKept DEF StopSet, Creating, TypeOK
  <1>7. CASE StopPut(c)      BY <1>0, <1>7, OwnerKept DEF StopPut, Creating, TypeOK
  <1>8. CASE StopJoin(c)     BY <1>0, <1>8, OwnerKept DEF StopJoin, Creating, TypeOK
  <1>9. CASE PublishCall(c)  BY <1>0, <1>9, OwnerKept DEF PublishCall, Creating, TypeOK
  <1>10. CASE PublishPut(c)  BY <1>0, <1>10, OwnerKept DEF PublishPut, Creating, TypeOK
  <1> QED BY <1>1, <1>2, <1>3, <1>4, <1>5, <1>6, <1>7, <1>8, <1>9, <1>10, <1>2a
          DEF StartStep, StopStep

\* An I/O thread moves from one place in _run to another, or out of it.
LEMMA IoGoes ==
  ASSUME TypeOK, NEW t \in IoThreads, IoStep(t)
  PROVE  /\ UNCHANGED <<thread, call, stopEvent>>
         /\ io[t] \in Running /\ io'[t] # "created"
         /\ \A u \in IoThreads : u # t => io'[u] = io[u]
  <1> USE DEF TypeOK, Running
  <1>1. CASE IoStopped(t)       BY <1>1 DEF IoStopped
  <1>2. CASE IoConnect(t)       BY <1>2 DEF IoConnect
  <1>3. CASE IoConnectFails(t)  BY <1>3 DEF IoConnectFails
  <1>4. CASE IoGet(t)           BY <1>4 DEF IoGet
  <1>5. CASE IoIdle(t)          BY <1>5 DEF IoIdle
  <1>6. CASE IoPublish(t)       BY <1>6 DEF IoPublish, Tried
  <1>7. CASE IoPublishFails(t)  BY <1>7 DEF IoPublishFails, Tried
  <1>8. CASE IoBackoff(t)       BY <1>8 DEF IoBackoff
  <1>9. CASE IoCleanup(t)       BY <1>9 DEF IoCleanup
  <1> QED BY <1>1, <1>2, <1>3, <1>4, <1>5, <1>6, <1>7, <1>8, <1>9 DEF IoStep

LEMMA NextOwner ==
  ASSUME SingleOwner
  PROVE  TypeOK /\ OwnerInv /\ [Next]_vars => OwnerInv'
  <1> SUFFICES ASSUME TypeOK, OwnerInv, [Next]_vars PROVE OwnerInv'
    OBVIOUS
  <1>1. CASE UNCHANGED vars
    BY <1>1, OwnerKept DEF vars
  <1>2. ASSUME NEW t \in IoThreads, IoStep(t) PROVE OwnerInv'
    <2>1. \A u \in IoThreads : /\ io'[u] \in Active => io[u] \in Active
                               /\ io'[u] = "created" => io[u] = "created"
      BY <1>2, IoGoes DEF Active
    <2> QED BY <1>2, <2>1, IoGoes, OwnerKept
  <1>3. ASSUME NEW t \in IoThreads, ConnBreak(t) PROVE OwnerInv'
    BY <1>3, OwnerKept DEF ConnBreak
  <1>4. ASSUME NEW c \in Callers,
               \/ c \in Starters /\ (StartCall(c) \/ StartStep(c))
               \/ StopCall(c) \/ StopStep(c) \/ PublishCall(c) \/ PublishPut(c)
        PROVE  OwnerInv'
    BY <1>4, CallOwner
  <1> QED BY <1>1, <1>2, <1>3, <1>4 DEF Next, Callers

\* "One dedicated I/O thread owns the connection": whatever stop() and publish()
\* calls happen around one owner's calls of start().
THEOREM SingleIoThread ==
  ASSUME SingleOwner PROVE Spec => []OneIoThread
  <1>1. OwnerInv => OneIoThread
    BY DEF OwnerInv, OneIoThread, Active, Alive
  <1> QED BY InitType, NextType, InitOwner, NextOwner, <1>1, PTL DEF Spec

-----------------------------------------------------------------------------
(* A late request: at most one after stop() has set the event. *)

LateInv ==
    /\ late <= 1
    /\ late > 0 => stopEvent /\ \A t \in IoThreads : io[t] \notin {"get", "publish"}

LEMMA LateKept ==
  ASSUME LateInv, late' = late, stopEvent => stopEvent',
         \A t \in IoThreads :
             io'[t] \in {"get", "publish"} => ~stopEvent \/ io[t] \in {"get", "publish"}
  PROVE  LateInv'
  BY DEF LateInv

LEMMA CallLate ==
  ASSUME TypeOK, LateInv, NEW c \in Callers,
         \/ StartCall(c) \/ StartStep(c) \/ StopCall(c) \/ StopStep(c)
         \/ PublishCall(c) \/ PublishPut(c)
  PROVE  LateInv'
  <1>1. CASE StartCall(c)    BY <1>1, LateKept DEF StartCall
  <1>2. CASE StartCheck(c)   BY <1>2, LateKept DEF StartCheck
  <1>2a. CASE StartClear(c)  BY <1>2a DEF StartClear, LateInv
  <1>3. CASE StartCreate(c)  BY <1>3, LateKept DEF StartCreate, TypeOK
  <1>4. CASE StartRun(c)     BY <1>4, LateKept DEF StartRun, TypeOK
  <1>5. CASE StopCall(c)     BY <1>5, LateKept DEF StopCall
  <1>6. CASE StopSet(c)      BY <1>6, LateKept DEF StopSet
  <1>7. CASE StopPut(c)      BY <1>7, LateKept DEF StopPut
  <1>8. CASE StopJoin(c)     BY <1>8, LateKept DEF StopJoin
  <1>9. CASE PublishCall(c)  BY <1>9, LateKept DEF PublishCall
  <1>10. CASE PublishPut(c)  BY <1>10, LateKept DEF PublishPut
  <1> QED BY <1>1, <1>2, <1>3, <1>4, <1>5, <1>6, <1>7, <1>8, <1>9, <1>10, <1>2a
          DEF StartStep, StopStep

\* The only thread that can be waiting for a request is the one that tries it.
LEMMA TriedLate ==
  ASSUME TypeOK, OwnerInv, LateInv, NEW t \in IoThreads, IoPublish(t) \/ IoPublishFails(t)
  PROVE  LateInv'
  <1>1. /\ io[t] = "publish" /\ UNCHANGED stopEvent
        /\ late' = IF stopEvent THEN late + 1 ELSE late
        /\ io'[t] \notin {"get", "publish"}
        /\ \A u \in IoThreads : u # t => io'[u] = io[u]
    BY DEF IoPublish, IoPublishFails, Tried, TypeOK
  <1>2. late = 0
    BY <1>1 DEF LateInv, TypeOK
  <1>3. \A u \in IoThreads : u # t => io[u] \notin {"get", "publish"}
    BY <1>1 DEF OwnerInv, Active, Running
  <1>4. late' <= 1 /\ (late' > 0 => stopEvent')
    BY <1>1, <1>2
  <1>5. \A u \in IoThreads : io'[u] \notin {"get", "publish"}
    BY <1>1, <1>3
  <1> QED BY <1>4, <1>5 DEF LateInv

LEMMA IoLate ==
  ASSUME TypeOK, OwnerInv, LateInv, NEW t \in IoThreads, IoStep(t) \/ ConnBreak(t)
  PROVE  LateInv'
  <1>1. CASE IoStopped(t)       BY <1>1, LateKept DEF IoStopped, TypeOK
  <1>2. CASE IoConnect(t)       BY <1>2, LateKept DEF IoConnect, TypeOK
  <1>3. CASE IoConnectFails(t)  BY <1>3, LateKept DEF IoConnectFails, TypeOK
  <1>4. CASE IoGet(t)           BY <1>4, LateKept DEF IoGet, TypeOK
  <1>5. CASE IoIdle(t)          BY <1>5, LateKept DEF IoIdle, TypeOK
  <1>6. CASE IoPublish(t)       BY <1>6, TriedLate
  <1>7. CASE IoPublishFails(t)  BY <1>7, TriedLate
  <1>8. CASE IoBackoff(t)       BY <1>8, LateKept DEF IoBackoff, TypeOK
  <1>9. CASE IoCleanup(t)       BY <1>9, LateKept DEF IoCleanup, TypeOK
  <1>10. CASE ConnBreak(t)      BY <1>10, LateKept DEF ConnBreak
  <1> QED BY <1>1, <1>2, <1>3, <1>4, <1>5, <1>6, <1>7, <1>8, <1>9, <1>10 DEF IoStep

LEMMA NextLate == TypeOK /\ OwnerInv /\ LateInv /\ [Next]_vars => LateInv'
  <1> SUFFICES ASSUME TypeOK, OwnerInv, LateInv, [Next]_vars PROVE LateInv'
    OBVIOUS
  <1>1. CASE UNCHANGED vars  BY <1>1, LateKept DEF vars
  <1>2. CASE Next            BY <1>2, CallLate, IoLate DEF Next, Callers
  <1> QED BY <1>1, <1>2

\* stop() lets at most one more request out, with or without a join.
THEOREM AtMostOneLate ==
  ASSUME SingleOwner PROVE Spec => []LateBound
  <1>1. Init => LateInv
    BY DEF Init, LateInv
  <1>2. LateInv => LateBound
    BY DEF LateInv, LateBound
  <1> QED BY InitType, NextType, InitOwner, NextOwner, <1>1, NextLate, <1>2, PTL DEF Spec

-----------------------------------------------------------------------------
(* Order: with one I/O thread, what has been tried is smaller than what is  *)
(* in a hand, so that a request reaches the wire after the earlier ones.    *)

OrderInv == \A m \in Done, t \in IoThreads : hand[t] # Sentinel => m < hand[t]

LEMMA OrderKept ==
  ASSUME OrderInv, UNCHANGED <<hand, published, failed>>
  PROVE  OrderInv'
  BY DEF OrderInv, Done

LEMMA TakenOrder ==
  ASSUME TypeOK, AccountInv, OrderInv, NEW t \in IoThreads, IoGet(t)
  PROVE  OrderInv'
  <1>1. /\ 1 \in 1 .. Len(queue) /\ hand'[t] = queue[1] /\ Done' = Done
        /\ \A u \in IoThreads : u # t => hand'[u] = hand[u]
    BY DEF IoGet, TypeOK, Done
  <1> QED BY <1>1 DEF OrderInv, AccountInv, DoneInv

LEMMA TriedOrder ==
  ASSUME TypeOK, OwnerInv, AccountInv, NEW t \in IoThreads,
         IoPublish(t) \/ IoPublishFails(t)
  PROVE  OrderInv'
  <1>1. io[t] = "publish" /\ hand' = [hand EXCEPT ![t] = Sentinel]
    BY DEF IoPublish, IoPublishFails, Tried
  <1>2. \A u \in IoThreads : u # t => hand[u] = Sentinel
    <2>1. \A u \in IoThreads : io[u] = "publish" => u = t
      BY <1>1 DEF OwnerInv, Active, Running
    <2> QED BY <2>1 DEF AccountInv, HandInv
  <1>3. \A u \in IoThreads : hand'[u] = Sentinel
    BY <1>1, <1>2 DEF TypeOK
  <1> QED BY <1>3 DEF OrderInv

LEMMA NextOrder ==
  TypeOK /\ OwnerInv /\ AccountInv /\ OrderInv /\ [Next]_vars => OrderInv'
  <1> SUFFICES ASSUME TypeOK, OwnerInv, AccountInv, OrderInv, [Next]_vars PROVE OrderInv'
    OBVIOUS
  <1>1. CASE UNCHANGED vars
    BY <1>1, OrderKept DEF vars
  <1>2. ASSUME NEW c \in Callers,
               \/ StartCall(c) \/ StartStep(c) \/ StopCall(c) \/ StopStep(c)
               \/ PublishCall(c) \/ PublishPut(c)
        PROVE  OrderInv'
    BY <1>2, OrderKept
       DEF StartCall, StartStep, StartCheck, StartClear, StartCreate, StartRun, StopCall, StopStep,
           StopSet, StopPut, StopJoin, PublishCall, PublishPut
  <1>3. ASSUME NEW t \in IoThreads, IoStep(t) \/ ConnBreak(t) PROVE OrderInv'
    <2>1. CASE IoGet(t)
      BY <2>1, TakenOrder
    <2>2. CASE IoPublish(t) \/ IoPublishFails(t)
      BY <2>2, TriedOrder
    <2>3. CASE \/ IoStopped(t) \/ IoConnect(t) \/ IoConnectFails(t) \/ IoIdle(t)
               \/ IoBackoff(t) \/ IoCleanup(t) \/ ConnBreak(t)
      BY <2>3, OrderKept
         DEF IoStopped, IoConnect, IoConnectFails, IoIdle, IoBackoff, IoCleanup, ConnBreak
    <2> QED BY <1>3, <2>1, <2>2, <2>3 DEF IoStep
  <1> QED BY <1>1, <1>2, <1>3 DEF Next, Callers

\* Every step of the backend is a step of the pipe or leaves the pipe alone.
LEMMA StepRefines ==
  TypeOK /\ AccountInv /\ OrderInv /\ [Next]_vars => [Pipe!Next]_(Pipe!pipeVars)
  <1> SUFFICES ASSUME TypeOK, AccountInv, OrderInv, [Next]_vars
               PROVE  [Pipe!Next]_(Pipe!pipeVars)
    OBVIOUS
  <1>1. CASE UNCHANGED <<tickets, wire>>
    BY <1>1 DEF Pipe!pipeVars
  <1>2. ASSUME NEW c \in Callers, PublishPut(c) PROVE Pipe!Next
    BY <1>2 DEF PublishPut, Pipe!Next, Pipe!Send
  <1>3. ASSUME NEW t \in IoThreads, IoPublish(t) \/ IoPublishFails(t),
               wire' = Append(wire, hand[t])
        PROVE  Pipe!Next
    <2>1. hand[t] # Sentinel /\ hand[t] \in 1 .. tickets
      BY <1>3 DEF IoPublish, IoPublishFails, Tried, AccountInv, HandInv, TypeOK
    <2>2. Pipe!After(hand[t])
      BY <2>1 DEF Pipe!After, AccountInv, WireInv, OrderInv
    <2>3. UNCHANGED tickets
      BY <1>3 DEF IoPublish, IoPublishFails, Tried
    <2> QED BY <1>3, <2>1, <2>2, <2>3 DEF Pipe!Next, Pipe!Deliver
  <1>4. ASSUME NEW t \in IoThreads, IoStep(t) \/ ConnBreak(t)
        PROVE  \/ UNCHANGED <<tickets, wire>>
               \/ (IoPublish(t) \/ IoPublishFails(t)) /\ wire' = Append(wire, hand[t])
    BY <1>4 DEF IoStep, IoStopped, IoConnect, IoConnectFails, IoGet, IoIdle, IoPublish,
                IoPublishFails, Tried, IoBackoff, IoCleanup, ConnBreak
  <1>5. ASSUME NEW c \in Callers,
               \/ StartCall(c) \/ StartStep(c) \/ StopCall(c) \/ StopStep(c) \/ PublishCall(c)
        PROVE  UNCHANGED <<tickets, wire>>
    BY <1>5 DEF StartCall, StartStep, StartCheck, StartClear, StartCreate, StartRun, StopCall, StopStep,
                StopSet, StopPut, StopJoin, PublishCall
  <1>6. CASE UNCHANGED vars
    BY <1>6, <1>1 DEF vars
  <1> QED BY <1>1, <1>2, <1>3, <1>4, <1>5, <1>6 DEF Next, Callers

\* Around one owner's calls of start() the backend implements the lossy pipe:
\* nothing is invented, reordered or duplicated on its way to the broker.
THEOREM Refinement ==
  ASSUME SingleOwner PROVE Spec => PipeSpec
  <1>1. Init => Pipe!Init /\ OrderInv
    BY DEF Init, Pipe!Init, OrderInv, Done
  <1> QED BY InitType, NextType, InitOwner, NextOwner, InitAccount, NextAccount, <1>1,
             NextOrder, StepRefines, PTL DEF Spec, PipeSpec, Pipe!Spec

-----------------------------------------------------------------------------
(* Connections.  A failure is paid for by a fault, either when it happens or *)
(* when its connection broke; so with fewer than PowLimit faults in all the  *)
(* backoff never overflows, no thread crashes, and a thread that is not      *)
(* running any more has closed its connection.                               *)

\* A fault that t has met and the backoff has not counted yet.
Debt(t) == IF io[t] = "backoff" \/ conn[t] \in {"broken", "closed"} THEN 1 ELSE 0

FaultInv ==
    /\ faults <= MaxFaults
    /\ failures <= faults
    /\ \A t \in IoThreads : Alive(t) => failures + Debt(t) <= faults

ConnInv == \A t \in IoThreads : conn[t] # "none" => Alive(t)

LEMMA CallConn ==
  ASSUME TypeOK, FaultInv, ConnInv, NEW c \in Callers,
         \/ StartCall(c) \/ StartStep(c) \/ StopCall(c) \/ StopStep(c)
         \/ PublishCall(c) \/ PublishPut(c)
  PROVE  FaultInv' /\ ConnInv'
  <1>1. UNCHANGED <<conn, faults, failures>>
    BY DEF StartCall, StartStep, StartCheck, StartClear, StartCreate, StartRun, StopCall, StopStep,
           StopSet, StopPut, StopJoin, PublishCall, PublishPut
  <1>2. ASSUME NEW t \in IoThreads
        PROVE  \/ io'[t] = io[t]
               \/ ~Alive(t) /\ io'[t] \in {"created", "top"}
    BY DEF StartCall, StartStep, StartCheck, StartClear, StartCreate, StartRun, StopCall, StopStep,
           StopSet, StopPut, StopJoin, PublishCall, PublishPut, TypeOK, Alive, Running
  <1>3. ConnInv'
    BY <1>1, <1>2 DEF ConnInv, Alive
  <1>4. ASSUME NEW t \in IoThreads, Alive(t)'
        PROVE  failures + Debt(t)' <= faults
    <2>1. CASE io'[t] = io[t]
      BY <2>1, <1>1, <1>4 DEF FaultInv, Alive, Debt
    <2>2. CASE ~Alive(t) /\ io'[t] \in {"created", "top"}
      <3>1. Debt(t)' = 0
        BY <2>2, <1>1 DEF ConnInv, Debt
      <3> QED BY <3>1 DEF FaultInv, TypeOK
    <2> QED BY <1>2, <2>1, <2>2
  <1> QED BY <1>1, <1>3, <1>4 DEF FaultInv

\* What one I/O thread has to keep, the others being out of _run.
Pays(t) ==
    /\ faults <= MaxFaults
    /\ failures <= faults
    /\ Alive(t) => failures + Debt(t) <= faults
    /\ conn[t] # "none" => Alive(t)

LEMMA IoPays ==
  ASSUME PowLimit > MaxFaults, TypeOK, NEW t \in IoThreads, Pays(t), IoStep(t) \/ ConnBreak(t)
  PROVE  Pays(t)'
  <1>1. CASE IoStopped(t)
    <2>1. /\ io[t] = "top" /\ io'[t] = "cleanup" /\ UNCHANGED <<failures, faults, conn>>
      BY <1>1 DEF IoStopped, TypeOK
    <2>2. Alive(t) /\ Alive(t)' /\ Debt(t)' = Debt(t)
      BY <2>1 DEF Alive, Running, Debt
    <2> QED BY <2>1, <2>2 DEF Pays
  <1>2. CASE IoConnect(t)
    <2>1. /\ io[t] = "top" /\ io'[t] = "get" /\ failures' = 0 /\ faults' = faults
          /\ conn'[t] = (IF IsOpen(t) THEN conn[t] ELSE "open")
      BY <1>2 DEF IoConnect, TypeOK
    <2>2. Alive(t) /\ Alive(t)'
      BY <2>1 DEF Alive, Running
    <2>3. Debt(t)' <= Debt(t) /\ Debt(t) \in 0 .. 1 /\ Debt(t)' \in 0 .. 1
      BY <2>1 DEF Debt, IsOpen
    <2> QED BY <2>1, <2>2, <2>3 DEF Pays, TypeOK
  <1>3. CASE IoConnectFails(t)
    <2>1. /\ io[t] = "top" /\ io'[t] = "backoff" /\ failures' = failures
          /\ faults < MaxFaults /\ faults' = faults + 1
      BY <1>3 DEF IoConnectFails, TypeOK
    <2>2. Alive(t) /\ Alive(t)' /\ Debt(t)' = 1 /\ Debt(t) \in 0 .. 1
      BY <2>1 DEF Alive, Running, Debt
    <2> QED BY <2>1, <2>2, NumbersAssumption DEF Pays, TypeOK
  <1>4. CASE IoGet(t) \/ IoIdle(t)
    <2>1. /\ io[t] = "get" /\ io'[t] \in {"top", "publish", "cleanup"}
          /\ UNCHANGED <<failures, faults>>
      BY <1>4 DEF IoGet, IoIdle, TypeOK
    <2>3. PumpIo(t)
      BY <1>4 DEF IoGet, IoIdle
    <2>4. conn'[t] = conn[t] \/ (conn[t] = "broken" /\ conn'[t] = "closed")
      BY <2>3 DEF PumpIo, TypeOK
    <2>2. Alive(t) /\ Alive(t)' /\ Debt(t)' = Debt(t)
      BY <2>1, <2>4 DEF Alive, Running, Debt
    <2> QED BY <2>1, <2>2, <2>4 DEF Pays
  <1>5. CASE IoPublish(t)
    <2>1. /\ io[t] = "publish" /\ io'[t] = "top"
          /\ UNCHANGED <<failures, faults, conn>>
      BY <1>5 DEF IoPublish, Tried, TypeOK
    <2>2. Alive(t) /\ Alive(t)' /\ Debt(t)' = Debt(t)
      BY <2>1 DEF Alive, Running, Debt
    <2> QED BY <2>1, <2>2 DEF Pays
  <1>6. CASE IoPublishFails(t)
    <2>1. /\ io[t] = "publish" /\ io'[t] = "backoff"
          /\ UNCHANGED <<failures, conn>>
          /\ \/ conn[t] \in {"broken", "closed"} /\ faults' = faults
             \/ faults < MaxFaults /\ faults' = faults + 1
      BY <1>6 DEF IoPublishFails, Tried, TypeOK
    <2>2. /\ Alive(t) /\ Alive(t)' /\ Debt(t)' = 1 /\ Debt(t) \in 0 .. 1
          /\ conn[t] \in {"broken", "closed"} => Debt(t) = 1
      BY <2>1 DEF Alive, Running, Debt
    <2> QED BY <2>1, <2>2, NumbersAssumption DEF Pays, TypeOK
  <1>7. CASE IoBackoff(t)
    <2>1. /\ io[t] = "backoff" /\ failures' = failures + 1 /\ faults' = faults
          /\ Alive(t) /\ Debt(t) = 1
      BY <1>7 DEF IoBackoff, Alive, Running, Debt
    <2>2. failures + 1 <= faults /\ ~(failures' >= PowLimit)
      BY <2>1, NumbersAssumption DEF Pays, TypeOK
    <2>3. io'[t] = "top" /\ conn'[t] = "none"
      BY <1>7, <2>2 DEF IoBackoff, TypeOK
    <2>4. Debt(t)' = 0
      BY <2>3 DEF Debt
    <2> QED BY <2>1, <2>2, <2>3, <2>4 DEF Pays, TypeOK
  <1>8. CASE IoCleanup(t)
    <2>1. conn'[t] = "none" /\ io'[t] = "dead" /\ UNCHANGED <<failures, faults>>
      BY <1>8 DEF IoCleanup, TypeOK
    <2>2. ~Alive(t)'
      BY <2>1 DEF Alive, Running
    <2> QED BY <2>1, <2>2 DEF Pays
  <1>9. CASE ConnBreak(t)
    <2>1. /\ conn[t] = "open" /\ UNCHANGED <<failures, io>>
          /\ faults < MaxFaults /\ faults' = faults + 1
      BY <1>9 DEF ConnBreak
    <2>2. Alive(t) /\ Alive(t)' /\ Debt(t) \in 0 .. 1 /\ Debt(t)' \in 0 .. 1
      BY <2>1 DEF Pays, Alive, Debt
    <2> QED BY <2>1, <2>2, NumbersAssumption DEF Pays, TypeOK
  <1> QED BY <1>1, <1>2, <1>3, <1>4, <1>5, <1>6, <1>7, <1>8, <1>9 DEF IoStep

LEMMA IoConn ==
  ASSUME PowLimit > MaxFaults, TypeOK, OwnerInv, FaultInv, ConnInv,
         NEW t \in IoThreads, IoStep(t) \/ ConnBreak(t)
  PROVE  FaultInv' /\ ConnInv'
  <1>1. Pays(t)'
    BY IoPays DEF FaultInv, ConnInv, Pays
  <1>2. \A u \in IoThreads : u # t => io'[u] = io[u] /\ conn'[u] = conn[u]
    <2>1. CASE IoStopped(t) \/ IoConnect(t) \/ IoConnectFails(t)
      BY <2>1 DEF IoStopped, IoConnect, IoConnectFails, TypeOK
    <2>2. CASE IoGet(t) \/ IoIdle(t)
      BY <2>2 DEF IoGet, IoIdle, PumpIo, TypeOK
    <2>3. CASE IoPublish(t) \/ IoPublishFails(t)
      BY <2>3 DEF IoPublish, IoPublishFails, Tried, TypeOK
    <2>4. CASE IoBackoff(t) \/ IoCleanup(t) \/ ConnBreak(t)
      BY <2>4 DEF IoBackoff, IoCleanup, ConnBreak, TypeOK
    <2> QED BY <2>1, <2>2, <2>3, <2>4 DEF IoStep
  <1>3. Alive(t)
    BY IoGoes DEF ConnBreak, ConnInv, Alive
  <1>4. \A u \in IoThreads : u # t => ~Alive(u) /\ conn[u] = "none"
    BY <1>3 DEF OwnerInv, Active, Alive, ConnInv
  <1>5. \A u \in IoThreads : u # t => ~Alive(u)' /\ conn'[u] = "none"
    BY <1>2, <1>4 DEF Alive
  <1> QED BY <1>1, <1>5 DEF FaultInv, ConnInv, Pays

LEMMA NextConn ==
  ASSUME PowLimit > MaxFaults
  PROVE  TypeOK /\ OwnerInv /\ FaultInv /\ ConnInv /\ [Next]_vars => FaultInv' /\ ConnInv'
  <1> SUFFICES ASSUME TypeOK, OwnerInv, FaultInv, ConnInv, [Next]_vars
               PROVE  FaultInv' /\ ConnInv'
    OBVIOUS
  <1>1. CASE UNCHANGED vars  BY <1>1 DEF vars, FaultInv, ConnInv, Alive, Debt
  <1>2. CASE Next            BY <1>2, CallConn, IoConn DEF Next, Callers
  <1> QED BY <1>1, <1>2

\* "One long-lived TCP connection per pool": around one owner's calls of start(),
\* and as long as the backoff does not overflow, no connection is left behind.
THEOREM SingleConnection ==
  ASSUME SingleOwner, PowLimit > MaxFaults PROVE Spec => []OneConnection
  <1>1. Init => FaultInv /\ ConnInv
    BY NumbersAssumption DEF Init, FaultInv, ConnInv, Alive, Running
  <1>2. OwnerInv /\ ConnInv => OneConnection
    BY DEF OwnerInv, ConnInv, OneConnection, IsOpen, Alive, Active
  <1> QED BY InitType, NextType, InitOwner, NextOwner, <1>1, NextConn, <1>2, PTL DEF Spec
=============================================================================
