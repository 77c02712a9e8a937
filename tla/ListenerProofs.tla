---------------------------- MODULE ListenerProofs ----------------------------
(***************************************************************************)
(* Safety of Listener for every set of messages, every configuration,      *)
(* prefetch, number of permits and number of faults.                       *)
(***************************************************************************)
EXTENDS Listener, FiniteSetTheorems, TLAPS

USE DEF ioVars, connVars, poolVars, stopVars, brokerVars, userVars

-----------------------------------------------------------------------------
(* Types.  A delivery is being dispatched while the I/O thread is inside a  *)
(* wrapper.                                                                 *)

Dispatching == {"acquire", "handler", "ack", "nack"}

TypeInv == TypeOK /\ (io \in Dispatching => cur \in Delivery)

LEMMA ConfigTypes ==
  ASSUME config \in Configs
  PROVE  /\ AutoAck \in BOOLEAN /\ Offload \in BOOLEAN /\ MaxInFlight \in Nat \ {0}
         /\ \A d : FailKind(d) \in Kinds
  BY ConfigsAssumption DEF Config, AutoAck, Offload, MaxInFlight, FailKind, Kinds

LEMMA InitType == Init => TypeInv
  <1> SUFFICES ASSUME Init PROVE TypeInv
    OBVIOUS
  <1>1. inbox \in Seq(Delivery) /\ callbacks \in Seq(Callback)
    BY DEF Init
  <1>2. permits \in Nat
    BY ConfigTypes DEF Init
  <1>3. deaths \in [Messages -> Nat] /\ calls \in [Messages -> 0 .. 2]
    BY DEF Init
  <1>4. io \in IoStates /\ io \notin Dispatching
    BY DEF Init, IoStates, Dispatching
  <1> QED BY <1>1, <1>2, <1>3, <1>4 DEF Init, TypeInv, TypeOK

\* What Settle, Requeue and Close keep of the types.
LEMMA RequeueType ==
  ASSUME TypeOK, Requeue
  PROVE  /\ ready' \subseteq Messages /\ unacked' \subseteq Delivery
         /\ UNCHANGED <<acked, parked, deaths, dlq>>
  BY DEF Requeue, TypeOK, Delivery

LEMMA CloseType ==
  ASSUME TypeOK, NEW to \in {"none", "open", "broken", "closed"}, Close(to)
  PROVE  /\ conn' \in {"none", "open", "broken", "closed"} /\ chanOpen' \in BOOLEAN
         /\ inbox' \in Seq(Delivery) /\ callbacks' \in Seq(Callback)
         /\ UNCHANGED <<chan, nextTag, acked, parked, deaths, dlq>>
         /\ ready' \subseteq Messages /\ unacked' \subseteq Delivery
  <1>1. /\ ready' \subseteq Messages /\ unacked' \subseteq Delivery
        /\ UNCHANGED <<acked, parked, deaths, dlq>>
    BY RequeueType DEF Close
  <1>2. inbox' \in Seq(Delivery) /\ callbacks' \in Seq(Callback)
    BY DEF Close
  <1> QED BY <1>1, <1>2 DEF Close

LEMMA SettleType ==
  ASSUME TypeOK, NEW kind, NEW d, Settle(kind, d)
  PROVE  /\ unacked' \subseteq Delivery /\ acked' \subseteq Messages
         /\ parked' \subseteq Messages /\ ready' \subseteq Messages
         /\ UNCHANGED deaths
  <1> DEFINE hit == IF conn = "open" /\ chanOpen
                    THEN {e \in unacked : e.ch = SentOn(d) /\ e.tag = d.tag} ELSE {}
             msgs == {e.msg : e \in hit}
  <1>1. hit \subseteq unacked /\ unacked \subseteq Delivery
    BY DEF TypeOK
  <1>2. msgs \subseteq Messages
    BY <1>1 DEF Delivery
  <1>3. /\ unacked' = unacked \ hit
        /\ acked' = IF kind = "ack" THEN acked \union msgs ELSE acked
        /\ parked' = IF kind = "dead_letter" THEN parked \union msgs ELSE parked
        /\ ready' = IF kind = "requeue" THEN ready \union msgs ELSE ready
        /\ UNCHANGED deaths
    BY DEF Settle
  <1> HIDE DEF hit, msgs
  <1>4. acked \subseteq Messages /\ parked \subseteq Messages /\ ready \subseteq Messages
    BY DEF TypeOK
  <1>5. unacked' \subseteq Delivery
    BY <1>1, <1>3
  <1>6. acked' \subseteq Messages /\ parked' \subseteq Messages /\ ready' \subseteq Messages
    BY <1>2, <1>3, <1>4
  <1> QED BY <1>3, <1>5, <1>6

LEMMA CalledType ==
  ASSUME TypeOK, NEW m \in Messages, Called(m)
  PROVE  calls' \in [Messages -> 0 .. 2]
  BY DEF TypeOK, Called

LEMMA BrokerType ==
  ASSUME TypeInv, \/ \E m \in Messages : BrokerDeliver(m) \/ BrokerReturn(m)
                  \/ ConnBreak \/ ChanClose
  PROVE  TypeInv'
  <1>1. ASSUME NEW m \in Messages, BrokerDeliver(m) PROVE TypeInv'
    <2> DEFINE d == [msg |-> m, ch |-> chan, tag |-> nextTag, attempt |-> Attempt(m)]
    <2>1. d \in Delivery
      BY DEF TypeInv, TypeOK, Delivery, Attempt
    <2>2. /\ inbox' = Append(inbox, d)
          /\ unacked' \in {unacked, unacked \union {d}}
          /\ acked' \in {acked, acked \union {m}}
      BY <1>1 DEF BrokerDeliver
    <2> HIDE DEF d
    <2>3. /\ inbox' \in Seq(Delivery) /\ unacked' \subseteq Delivery
          /\ acked' \subseteq Messages
      BY <2>1, <2>2 DEF TypeInv, TypeOK
    <2> QED BY <1>1, <2>3 DEF BrokerDeliver, TypeInv, TypeOK
  <1>2. ASSUME NEW m \in Messages, BrokerReturn(m) PROVE TypeInv'
    BY <1>2 DEF BrokerReturn, TypeInv, TypeOK
  <1>3. CASE ConnBreak
    <2>1. ready' \subseteq Messages /\ unacked' \subseteq Delivery
          /\ UNCHANGED <<acked, parked, deaths, dlq>>
      BY <1>3, RequeueType DEF ConnBreak, TypeInv
    <2> QED BY <1>3, <2>1 DEF ConnBreak, TypeInv, TypeOK
  <1>4. CASE ChanClose
    <2>1. inbox' \in Seq(Delivery)
      BY <1>4 DEF ChanClose
    <2>2. ready' \subseteq Messages /\ unacked' \subseteq Delivery
          /\ UNCHANGED <<acked, parked, deaths, dlq>>
      BY <1>4, RequeueType DEF ChanClose, TypeInv
    <2>3. /\ UNCHANGED <<ioVars, conn, chan, nextTag, callbacks, poolVars, stopVars, userVars>>
          /\ chanOpen' = FALSE /\ faults' = faults + 1
      BY <1>4 DEF ChanClose
    <2>4. TypeOK'
      <3>1. chanOpen' \in BOOLEAN
        BY <2>3
      <3>2. faults' \in Nat
        BY <2>3 DEF TypeInv, TypeOK
      <3> QED BY <2>1, <2>2, <2>3, <3>1, <3>2 DEF TypeInv, TypeOK
    <2> QED BY <2>3, <2>4 DEF TypeInv
  <1> QED BY <1>1, <1>2, <1>3, <1>4

LEMMA CallbackHead ==
  ASSUME TypeOK, callbacks # << >>
  PROVE  /\ Head(callbacks) \in Callback /\ Tail(callbacks) \in Seq(Callback)
         /\ Head(callbacks).kind # "close" => Head(callbacks).d \in Delivery
  BY DEF TypeOK, Callback

LEMMA IoType ==
  ASSUME TypeInv, Start \/ IoStep
  PROVE  TypeInv'
  <1> USE DEF TypeInv, TypeOK, Dispatching, IoStates
  <1>1. CASE Start           BY <1>1 DEF Start
  <1>2. CASE IoExit          BY <1>2 DEF IoExit
  <1>3. CASE IoLoop          BY <1>3 DEF IoLoop
  <1>4. CASE IoConnect       BY <1>4 DEF IoConnect
  <1>5. CASE IoConnectFails  BY <1>5 DEF IoConnectFails
  <1>6. CASE IoSetup
    <2>1. inbox' \in Seq(Delivery)
      BY <1>6 DEF IoSetup
    <2> QED BY <1>6, <2>1 DEF IoSetup
  <1>7. CASE IoSetupFails    BY <1>7 DEF IoSetupFails
  <1>8. CASE IoFail
    <2>1. CASE stopMe
      BY <1>8, <2>1 DEF IoFail
    <2>2. CASE ~stopMe
      BY <1>8, <2>2, CloseType DEF IoFail
    <2> QED BY <2>1, <2>2
  <1>9. CASE IoPumpRaises
    <2>1. inbox' \in Seq(Delivery) /\ callbacks' \in Seq(Callback)
      BY <1>9 DEF IoPumpRaises
    <2> QED BY <1>9, <2>1 DEF IoPumpRaises
  <1>10. CASE IoCallback
    <2>1. callbacks # << >> /\ io = "pump"
          /\ UNCHANGED <<cur, loopFailures, poolVars, stopVars, userVars, faults>>
      BY <1>10 DEF IoCallback
    <2>2. CASE RunSettle
      <3>1. Settle(Head(callbacks).kind, Head(callbacks).d) /\ callbacks' = Tail(callbacks)
            /\ UNCHANGED <<dlq, conn, chan, chanOpen, nextTag, inbox, io>>
        BY <2>2 DEF RunSettle
      <3>2. /\ unacked' \subseteq Delivery /\ acked' \subseteq Messages
            /\ parked' \subseteq Messages /\ ready' \subseteq Messages
            /\ UNCHANGED deaths
        BY <3>1, SettleType
      <3> QED BY <2>1, <3>1, <3>2, CallbackHead
    <2>3. CASE RunPoison
      <3> DEFINE d == Head(callbacks).d
      <3>1. d \in Delivery /\ Tail(callbacks) \in Seq(Callback)
        BY <2>1, <2>3, CallbackHead DEF RunPoison
      <3>2. [kind |-> "ack", d |-> d] \in Callback
        BY <3>1 DEF Callback, Kinds
      <3>3. callbacks' \in Seq(Callback)
        BY <2>3, <3>1, <3>2 DEF RunPoison
      <3>4. dlq' \subseteq Messages
        BY <2>3, <3>1 DEF RunPoison, Copy, Delivery
      <3> QED BY <2>1, <2>3, <3>3, <3>4 DEF RunPoison
    <2>4. CASE RunClose
      BY <2>1, <2>4, CloseType DEF RunClose
    <2> QED BY <1>10, <2>2, <2>3, <2>4 DEF IoCallback
  <1>11. CASE IoDispatch     BY <1>11 DEF IoDispatch
  <1>12. CASE IoReturn       BY <1>12 DEF IoReturn, FailuresOncePumped
  <1>13. CASE IoAccept
    <2>1. Head(inbox) \in Delivery /\ Tail(inbox) \in Seq(Delivery)
      BY <1>13 DEF IoAccept
    <2> QED BY <1>13, <2>1 DEF IoAccept
  <1>14. CASE IoAcquire
    <2>1. [d |-> cur, at |-> "queued", kind |-> "ack"] \in Job
      BY <1>14 DEF IoAcquire, Job, Kinds
    <2>2. jobs' \subseteq Job /\ permits' \in Nat
      BY <1>14, <2>1 DEF IoAcquire, PermitsOnceRefused
    <2> QED BY <1>14, <2>2 DEF IoAcquire
  <1>15. CASE IoHandler
    <2>1. cur \in Delivery /\ cur.msg \in Messages
      BY <1>15 DEF IoHandler, Delivery
    <2>2. calls' \in [Messages -> 0 .. 2]
      BY <1>15, <2>1, CalledType DEF IoHandler
    <2> QED BY <1>15, <2>1, <2>2 DEF IoHandler, OnError
  <1>16. CASE IoSettle
    <2>1. Settle(IF io = "ack" THEN "ack" ELSE "requeue", cur)
      BY <1>16 DEF IoSettle
    <2>2. /\ unacked' \subseteq Delivery /\ acked' \subseteq Messages
          /\ parked' \subseteq Messages /\ ready' \subseteq Messages
          /\ UNCHANGED deaths
      BY <2>1, SettleType
    <2> QED BY <1>16, <2>2 DEF IoSettle
  <1>17. CASE IoSettleRaises BY <1>17 DEF IoSettleRaises
  <1> QED BY <1>1, <1>2, <1>3, <1>4, <1>5, <1>6, <1>7, <1>8, <1>9, <1>10, <1>11, <1>12,
             <1>13, <1>14, <1>15, <1>16, <1>17 DEF IoStep

LEMMA AdvanceType ==
  ASSUME TypeOK, NEW j \in jobs,
         NEW at \in {"queued", "done", "post", "direct"}, NEW kind \in Kinds,
         Advance(j, at, kind)
  PROVE  jobs' \subseteq Job
  BY DEF TypeOK, Advance, Job

LEMMA WorkerType ==
  ASSUME TypeInv, NEW j \in jobs, WorkerStep(j)
  PROVE  TypeInv'
  <1> USE DEF TypeInv, TypeOK, Dispatching
  <1>1. j \in Job /\ j.d \in Delivery /\ j.d.msg \in Messages /\ j.kind \in Kinds
    BY DEF Job, Delivery
  <1>2. CASE WorkerRun(j)
    <2>1. calls' \in [Messages -> 0 .. 2]
      BY <1>1, <1>2, CalledType DEF WorkerRun
    <2>2. Advance(j, "done", "ack") \/ Advance(j, "done", FailKind(j.d))
      BY <1>2 DEF WorkerRun
    <2>3. jobs' \subseteq Job
      BY <2>2, AdvanceType, ConfigTypes DEF Kinds
    <2> QED BY <1>1, <1>2, <2>1, <2>3 DEF WorkerRun
  <1>3. CASE WorkerCheck(j)
    <2>1. jobs' \subseteq Job /\ permits' \in Nat
      BY <1>1, <1>3, AdvanceType DEF WorkerCheck, Finish, Released, Settling
    <2> QED BY <1>3, <2>1 DEF WorkerCheck
  <1>4. CASE WorkerPost(j)
    <2>1. [kind |-> j.kind, d |-> j.d] \in Callback
      BY <1>1 DEF Callback
    <2>2. callbacks' \in Seq(Callback) /\ permits' \in Nat
      <3>1. callbacks' \in {callbacks, Append(callbacks, [kind |-> j.kind, d |-> j.d])}
            /\ permits' \in {permits, permits + 1}
        BY <1>4 DEF WorkerPost, Scheduled, Released
      <3>2. callbacks \in Seq(Callback) /\ permits \in Nat
        OBVIOUS
      <3> HIDE DEF TypeInv
      <3> QED BY <2>1, <3>1, <3>2
    <2>3. jobs' \subseteq Job
      <3>1. CASE IsOpen
        BY <1>4, <3>1 DEF WorkerPost, AfterPost
      <3>2. CASE ~IsOpen
        BY <1>1, <1>4, <3>2, AdvanceType DEF WorkerPost
      <3> QED BY <3>1, <3>2
    <2> QED BY <1>4, <2>2, <2>3 DEF WorkerPost
  <1>5. CASE WorkerDirect(j)
    BY <1>5 DEF WorkerDirect, Finish, Released
  <1> QED BY <1>2, <1>3, <1>4, <1>5 DEF WorkerStep

LEMMA StopType ==
  ASSUME TypeInv, StopSet \/ StopStep
  PROVE  TypeInv'
  <1> USE DEF TypeInv, TypeOK, Dispatching
  <1>1. CASE StopSet       BY <1>1 DEF StopSet
  <1>2. CASE StopShutdown  BY <1>2 DEF StopShutdown
  <1>3. CASE StopCheck     BY <1>3 DEF StopCheck
  <1>4. CASE StopSchedule
    <2>1. [kind |-> "close", d |-> NoDelivery] \in Callback
      BY DEF Callback
    <2>2. callbacks' \in Seq(Callback)
      <3> callbacks' \in {callbacks, Append(callbacks, [kind |-> "close", d |-> NoDelivery])}
        BY <1>4 DEF StopSchedule
      <3> HIDE DEF TypeInv
      <3> QED BY <2>1, SMTT(30) DEF TypeInv
    <2> QED BY <1>4, <2>2 DEF StopSchedule
  <1>5. CASE StopDirect
    <2>1. CASE IsOpen
      <3>1. Close("closed")
        BY <1>5, <2>1 DEF StopDirect
      <3>2. /\ conn' \in {"none", "open", "broken", "closed"} /\ chanOpen' \in BOOLEAN
            /\ inbox' \in Seq(Delivery) /\ callbacks' \in Seq(Callback)
            /\ UNCHANGED <<chan, nextTag, acked, parked, deaths, dlq>>
            /\ ready' \subseteq Messages /\ unacked' \subseteq Delivery
        BY <3>1, CloseType
      <3> QED BY <1>5, <3>2 DEF StopDirect
    <2>2. CASE ~IsOpen
      BY <1>5, <2>2 DEF StopDirect
    <2> QED BY <2>1, <2>2
  <1> QED BY <1>1, <1>2, <1>3, <1>4, <1>5 DEF StopStep

LEMMA NextType == TypeInv /\ [Next]_vars => TypeInv'
  <1> SUFFICES ASSUME TypeInv, [Next]_vars PROVE TypeInv'
    OBVIOUS
  <1>1. CASE UNCHANGED vars  BY <1>1 DEF vars, TypeInv, TypeOK
  <1>2. CASE Next            BY <1>2, BrokerType, IoType, WorkerType, StopType DEF Next
  <1> QED BY <1>1, <1>2

\* The attributes of the listener, and the broker's sets, keep their types.
THEOREM TypeCorrect == Spec => []TypeOK
  BY InitType, NextType, PTL DEF Spec, TypeInv

-----------------------------------------------------------------------------
(* The elements of a sequence. *)

Elems(s) == {s[i] : i \in 1 .. Len(s)}

LEMMA ElemsEmpty == Elems(<< >>) = {}
  BY DEF Elems

LEMMA ElemsAppend ==
  ASSUME NEW S, NEW s \in Seq(S), NEW e \in S
  PROVE  Elems(Append(s, e)) = Elems(s) \union {e}
  <1> DEFINE t == Append(s, e)
  <1>1. /\ Len(t) = Len(s) + 1 /\ t[Len(s) + 1] = e /\ Len(s) \in Nat
        /\ \A i \in 1 .. Len(s) : t[i] = s[i]
    OBVIOUS
  <1> HIDE DEF t
  <1>2. 1 .. Len(t) = 1 .. Len(s) \union {Len(s) + 1}
    BY <1>1
  <1> QED BY <1>1, <1>2 DEF Elems, t

LEMMA ElemsGrow ==
  ASSUME NEW S, NEW s \in Seq(S), NEW e \in S, NEW t \in {s, Append(s, e)}
  PROVE  Elems(t) \subseteq Elems(s) \union {e}
  <1>1. CASE t = s
    BY <1>1
  <1>2. CASE t = Append(s, e)
    BY <1>2, ElemsAppend
  <1> QED BY <1>1, <1>2

LEMMA ElemsTail ==
  ASSUME NEW S, NEW s \in Seq(S), s # << >>
  PROVE  Elems(s) = {Head(s)} \union Elems(Tail(s))
  <1> DEFINE t == Tail(s)
  <1>1. /\ Len(s) \in Nat \ {0} /\ Len(t) = Len(s) - 1 /\ Head(s) = s[1]
        /\ \A i \in 1 .. Len(t) : t[i] = s[i + 1]
    OBVIOUS
  <1> HIDE DEF t
  <1>2. ASSUME NEW x \in Elems(s) PROVE x \in {Head(s)} \union Elems(t)
    <2>1. PICK i \in 1 .. Len(s) : x = s[i]
      BY DEF Elems
    <2>2. CASE i = 1
      BY <1>1, <2>1, <2>2
    <2>3. CASE i # 1
      <3>1. i - 1 \in 1 .. Len(t) /\ t[i - 1] = x
        BY <1>1, <2>1, <2>3
      <3> QED BY <3>1 DEF Elems
    <2> QED BY <2>2, <2>3
  <1>3. ASSUME NEW x \in {Head(s)} \union Elems(t) PROVE x \in Elems(s)
    <2>1. CASE x = Head(s)
      BY <1>1, <2>1 DEF Elems
    <2>2. CASE x \in Elems(t)
      <3>1. PICK i \in 1 .. Len(t) : x = t[i]
        BY <2>2 DEF Elems
      <3>2. i + 1 \in 1 .. Len(s) /\ x = s[i + 1]
        BY <1>1, <3>1
      <3> QED BY <3>2 DEF Elems
    <2> QED BY <2>1, <2>2
  <1> QED BY <1>2, <1>3 DEF t

\* Putting something in front of a sequence.
LEMMA ElemsCons ==
  ASSUME NEW S, NEW s \in Seq(S), NEW e \in S
  PROVE  Elems(<<e>> \o s) = {e} \union Elems(s)
  <1> DEFINE t == <<e>> \o s
  <1>1. t \in Seq(S) /\ t # << >> /\ Head(t) = e /\ Tail(t) = s
    OBVIOUS
  <1> HIDE DEF t
  <1>2. Elems(t) = {e} \union Elems(s)
    BY <1>1, ElemsTail
  <1> QED BY <1>2 DEF t

\* What stop_listening() schedules is the only callback it adds.
Request == [kind |-> "close", d |-> NoDelivery]

LEMMA StopPosts ==
  ASSUME TypeInv, StopSet \/ StopStep
  PROVE  /\ Request \in Callback /\ Request.kind = "close" /\ Request.d = NoDelivery
         /\ callbacks' \in {callbacks, << >>, Append(callbacks, Request)}
         /\ callbacks \in Seq(Callback)
         /\ Elems(callbacks)' \subseteq Elems(callbacks) \union {Request}
  <1>1. callbacks' \in {callbacks, << >>, Append(callbacks, Request)}
    BY DEF StopSet, StopStep, StopShutdown, StopCheck, StopSchedule, StopDirect, Close, Request
  <1>2. Request.kind = "close" /\ Request.d = NoDelivery
    BY DEF Request
  <1>3. Request \in Callback
    BY DEF Request, Callback
  <1>4. callbacks \in Seq(Callback)
    BY DEF TypeInv, TypeOK
  <1>5. CASE callbacks' = Append(callbacks, Request)
    <2>1. Elems(callbacks') = Elems(callbacks) \union {Request}
      BY <1>3, <1>4, <1>5, ElemsAppend
    <2> QED BY <1>1, <1>2, <1>3, <1>4, <2>1
  <1>6. CASE callbacks' \in {callbacks, << >>}
    BY <1>1, <1>2, <1>3, <1>4, <1>6, ElemsEmpty
  <1> QED BY <1>1, <1>5, <1>6

-----------------------------------------------------------------------------
(* Delivery tags.  Every delivery the listener or the broker still has in   *)
(* hand was made on this channel before the next tag, or on an earlier      *)
(* channel, and a channel and a tag together name one delivery.             *)

Held == {NoDelivery, cur} \union Elems(inbox) \union {c.d : c \in Elems(callbacks)}
            \union {j.d : j \in jobs} \union unacked

Known(d) == d.ch < chan \/ (d.ch = chan /\ d.tag < nextTag)

TagInv ==
    /\ nextTag >= 1
    /\ \A d \in Held : d.ch \in Nat /\ d.tag \in Nat /\ Known(d)
    /\ \A d, e \in Held : d.ch = e.ch /\ d.tag = e.tag => d = e

LEMMA InitTag == Init => TagInv
  <1> SUFFICES ASSUME Init PROVE TagInv
    OBVIOUS
  <1>1. Held = {NoDelivery}
    BY ElemsEmpty DEF Init, Held
  <1> QED BY <1>1 DEF Init, TagInv, Known, NoDelivery

\* A step that takes up no delivery, on this channel or on a new one, ...
LEMMA TagKept ==
  ASSUME TypeInv, TagInv, Held' \subseteq Held,
         \/ UNCHANGED <<chan, nextTag>>
         \/ chan' = chan + 1 /\ nextTag' = 1
  PROVE  TagInv'
  <1>1. chan \in Nat /\ nextTag \in Nat
    BY DEF TypeInv, TypeOK
  <1>2. nextTag' >= 1
    BY <1>1 DEF TagInv
  <1>3. ASSUME NEW d \in Held' PROVE d.ch \in Nat /\ d.tag \in Nat /\ Known(d)'
    BY <1>1 DEF TagInv, Known
  <1> QED BY <1>2, <1>3 DEF TagInv

\* ... and the one that makes a delivery.
LEMMA TagUsed ==
  ASSUME TypeInv, TagInv,
         NEW d, d.ch = chan, d.tag = nextTag, Held' \subseteq Held \union {d},
         chan' = chan, nextTag' = nextTag + 1
  PROVE  TagInv' /\ d \notin Held
  <1>1. chan \in Nat /\ nextTag \in Nat
    BY DEF TypeInv, TypeOK
  <1>2. ASSUME NEW e \in Held PROVE ~(e.ch = d.ch /\ e.tag = d.tag)
    BY <1>1 DEF TagInv, Known
  <1>3. nextTag' >= 1
    BY <1>1
  <1>4. ASSUME NEW e \in Held' PROVE e.ch \in Nat /\ e.tag \in Nat /\ Known(e)'
    <2>1. CASE e \in Held
      BY <1>1, <2>1 DEF TagInv, Known
    <2>2. CASE e = d
      BY <1>1, <2>2 DEF Known
    <2> QED BY <2>1, <2>2
  <1>5. ASSUME NEW e \in Held', NEW f \in Held', e.ch = f.ch, e.tag = f.tag PROVE e = f
    BY <1>2, <1>5 DEF TagInv
  <1> QED BY <1>2, <1>3, <1>4, <1>5 DEF TagInv

\* What Settle, Close and Advance do to the deliveries in hand.
LEMMA SettleHeld ==
  ASSUME NEW kind, NEW d, Settle(kind, d)
  PROVE  unacked' \subseteq unacked
  BY DEF Settle

LEMMA CloseHeld ==
  ASSUME NEW to, Close(to)
  PROVE  /\ Elems(inbox)' = {} /\ Elems(callbacks)' = {} /\ unacked' = {}
         /\ UNCHANGED <<chan, nextTag>>
  BY ElemsEmpty DEF Close, Requeue

LEMMA AdvanceHeld ==
  ASSUME TypeOK, NEW j \in jobs, NEW at, NEW kind, Advance(j, at, kind)
  PROVE  {k.d : k \in jobs}' = {k.d : k \in jobs}
  <1> DEFINE n == [j EXCEPT !.at = at, !.kind = kind]
  <1>1. n.d = j.d
    BY DEF TypeOK, Job
  <1>2. jobs' = (jobs \ {j}) \union {n}
    BY DEF Advance
  <1> HIDE DEF n
  <1> QED BY <1>1, <1>2

LEMMA BrokerTag ==
  ASSUME TypeInv, TagInv, \/ \E m \in Messages : BrokerDeliver(m) \/ BrokerReturn(m)
                          \/ ConnBreak \/ ChanClose
  PROVE  TagInv'
  <1>1. ASSUME NEW m \in Messages, BrokerDeliver(m) PROVE TagInv'
    <2> DEFINE d == [msg |-> m, ch |-> chan, tag |-> nextTag, attempt |-> Attempt(m)]
    <2>1. d \in Delivery /\ d.ch = chan /\ d.tag = nextTag
      BY DEF TypeInv, TypeOK, Delivery, Attempt
    <2>2. /\ inbox' = Append(inbox, d) /\ unacked' \in {unacked, unacked \union {d}}
          /\ UNCHANGED <<cur, callbacks, jobs, chan>> /\ nextTag' = nextTag + 1
      BY <1>1 DEF BrokerDeliver
    <2> HIDE DEF d
    <2>3. Elems(inbox)' = Elems(inbox) \union {d}
      BY <2>1, <2>2, ElemsAppend DEF TypeInv, TypeOK
    <2>4. Held' \subseteq Held \union {d}
      BY <2>2, <2>3 DEF Held
    <2> QED BY <2>1, <2>2, <2>4, TagUsed
  <1>2. ASSUME NEW m \in Messages, BrokerReturn(m) PROVE TagInv'
    <2>1. UNCHANGED <<cur, inbox, callbacks, jobs, unacked, chan, nextTag>>
      BY <1>2 DEF BrokerReturn
    <2> QED BY <2>1, TagKept DEF Held
  <1>3. CASE ConnBreak
    <2>1. UNCHANGED <<cur, inbox, callbacks, jobs, chan, nextTag>> /\ unacked' = {}
      BY <1>3 DEF ConnBreak, Requeue
    <2> QED BY <2>1, TagKept DEF Held
  <1>4. CASE ChanClose
    <2>1. /\ UNCHANGED <<cur, callbacks, jobs, chan, nextTag>>
          /\ unacked' = {} /\ Elems(inbox)' = {}
      BY <1>4, ElemsEmpty DEF ChanClose, Requeue
    <2> QED BY <2>1, TagKept DEF Held
  <1> QED BY <1>1, <1>2, <1>3, <1>4

LEMMA IoTag ==
  ASSUME TypeInv, TagInv, Start \/ IoStep
  PROVE  TagInv'
  <1> SUFFICES /\ Held' \subseteq Held
               /\ UNCHANGED <<chan, nextTag>> \/ (chan' = chan + 1 /\ nextTag' = 1)
    BY TagKept
  <1>types. inbox \in Seq(Delivery) /\ callbacks \in Seq(Callback)
    BY DEF TypeInv, TypeOK
  <1>1. CASE UNCHANGED <<cur, inbox, callbacks, jobs, unacked, chan, nextTag>>
    BY <1>1 DEF Held
  <1>2. CASE \/ Start \/ IoExit \/ IoLoop \/ IoConnect \/ IoConnectFails \/ IoSetupFails
             \/ IoDispatch \/ IoReturn \/ IoHandler \/ IoSettleRaises
    BY <1>1, <1>2 DEF Start, IoExit, IoLoop, IoConnect, IoConnectFails, IoSetupFails,
                      IoDispatch, IoReturn, IoHandler, IoSettleRaises
  <1>3. CASE IoSetup
    <2>1. /\ UNCHANGED <<cur, callbacks, jobs, unacked>> /\ Elems(inbox)' = {}
          /\ chan' = chan + 1 /\ nextTag' = 1
      BY <1>3, ElemsEmpty DEF IoSetup
    <2> QED BY <2>1 DEF Held
  <1>4. CASE IoFail
    <2>1. /\ cur' = NoDelivery /\ UNCHANGED <<jobs, chan, nextTag>>
          /\ Elems(inbox)' \subseteq Elems(inbox) /\ unacked' \subseteq unacked
          /\ Elems(callbacks)' \subseteq Elems(callbacks)
      BY <1>4, CloseHeld DEF IoFail
    <2> QED BY <2>1 DEF Held
  <1>5. CASE IoPumpRaises
    <2>1. /\ UNCHANGED <<cur, jobs, unacked, chan, nextTag>>
          /\ Elems(inbox)' = {} /\ Elems(callbacks)' = {}
      BY <1>5, ElemsEmpty DEF IoPumpRaises
    <2> QED BY <2>1 DEF Held
  <1>6. CASE IoCallback
    <2>1. callbacks # << >> /\ UNCHANGED <<cur, jobs>>
      BY <1>6 DEF IoCallback
    <2>2. Elems(callbacks) = {Head(callbacks)} \union Elems(Tail(callbacks))
      BY <1>types, <2>1, ElemsTail
    <2>3. CASE RunSettle
      <3>1. /\ callbacks' = Tail(callbacks) /\ UNCHANGED <<inbox, chan, nextTag>>
            /\ unacked' \subseteq unacked
        BY <2>3, SettleHeld DEF RunSettle
      <3> QED BY <2>1, <2>2, <3>1 DEF Held
    <2>4. CASE RunPoison
      <3> DEFINE d == Head(callbacks).d
                 c == [kind |-> "ack", d |-> d]
      <3>1. Tail(callbacks) \in Seq(Callback) /\ c \in Callback
        BY <2>1, <2>4, CallbackHead DEF RunPoison, TypeInv, Callback, Kinds
      <3>2. callbacks' \in {<<c>> \o Tail(callbacks), Tail(callbacks)}
            /\ UNCHANGED <<inbox, unacked, chan, nextTag>>
        BY <2>4 DEF RunPoison
      <3>3. Elems(callbacks)' \subseteq {c} \union Elems(Tail(callbacks))
        BY <3>1, <3>2, ElemsCons
      <3>4. c.d = Head(callbacks).d
        OBVIOUS
      <3> HIDE DEF c
      <3> QED BY <2>1, <2>2, <3>2, <3>3, <3>4 DEF Held
    <2>5. CASE RunClose
      <3>1. /\ UNCHANGED <<chan, nextTag>>
            /\ Elems(inbox)' = {} /\ Elems(callbacks)' = {} /\ unacked' = {}
        BY <2>5, CloseHeld DEF RunClose
      <3> QED BY <2>1, <3>1 DEF Held
    <2> QED BY <1>6, <2>3, <2>4, <2>5 DEF IoCallback
  <1>7. CASE IoAccept
    <2>1. /\ inbox # << >> /\ inbox' = Tail(inbox) /\ cur' \in {cur, Head(inbox)}
          /\ UNCHANGED <<callbacks, jobs, unacked, chan, nextTag>>
      BY <1>7 DEF IoAccept
    <2>2. Elems(inbox) = {Head(inbox)} \union Elems(inbox)'
      BY <1>types, <2>1, ElemsTail
    <2> QED BY <2>1, <2>2 DEF Held
  <1>8. CASE IoAcquire
    <2>1. /\ cur' = NoDelivery /\ UNCHANGED <<inbox, callbacks, unacked, chan, nextTag>>
          /\ jobs' \subseteq jobs \union {[d |-> cur, at |-> "queued", kind |-> "ack"]}
      BY <1>8 DEF IoAcquire
    <2>2. {j.d : j \in jobs}' \subseteq {j.d : j \in jobs} \union {cur}
      BY <2>1
    <2> QED BY <2>1, <2>2 DEF Held
  <1>9. CASE IoSettle
    <2>1. /\ cur' = NoDelivery /\ UNCHANGED <<inbox, callbacks, jobs, chan, nextTag>>
          /\ unacked' \subseteq unacked
      BY <1>9, SettleHeld DEF IoSettle
    <2> QED BY <2>1 DEF Held
  <1> QED BY <1>2, <1>3, <1>4, <1>5, <1>6, <1>7, <1>8, <1>9 DEF IoStep

\* The deliveries of the jobs after a step of the worker that has j.
LEMMA WorkerJobs ==
  ASSUME TypeOK, NEW j \in jobs, WorkerStep(j)
  PROVE  \/ \E at \in {"done", "post", "direct"}, kind \in Kinds :
               Advance(j, at, kind) /\ permits' = permits
         \/ jobs' = jobs \ {j} /\ permits' = permits + 1
  <1>1. j.kind \in Kinds /\ \A d : FailKind(d) \in Kinds
    BY ConfigTypes DEF TypeOK, Job
  <1>2. CASE WorkerRun(j)
    BY <1>1, <1>2 DEF WorkerRun, Kinds
  <1>3. CASE WorkerCheck(j)
    BY <1>1, <1>3 DEF WorkerCheck, Finish, Released, Settling
  <1>4. CASE WorkerPost(j)
    BY <1>1, <1>4 DEF WorkerPost, AfterPost, Released
  <1>5. CASE WorkerDirect(j)
    BY <1>5 DEF WorkerDirect, Finish, Released
  <1> QED BY <1>2, <1>3, <1>4, <1>5 DEF WorkerStep

LEMMA WorkerTag ==
  ASSUME TypeInv, TagInv, NEW j \in jobs, WorkerStep(j)
  PROVE  TagInv'
  <1>1. {k.d : k \in jobs}' \subseteq {k.d : k \in jobs}
    BY WorkerJobs, AdvanceHeld DEF TypeInv
  <1>2. UNCHANGED <<cur, inbox, unacked, chan, nextTag>>
    BY DEF WorkerStep, WorkerRun, WorkerCheck, WorkerPost, WorkerDirect
  <1> DEFINE p == [kind |-> j.kind, d |-> j.d]
  <1>3. Elems(callbacks)' \subseteq Elems(callbacks) \union {p}
    <2>1. p \in Callback /\ callbacks \in Seq(Callback)
      BY DEF TypeInv, TypeOK, Job, Callback
    <2>2. callbacks' \in {callbacks, Append(callbacks, p)}
      BY DEF WorkerStep, WorkerRun, WorkerCheck, WorkerPost, WorkerDirect, Scheduled
    <2> HIDE DEF p
    <2> QED BY <2>1, <2>2, ElemsGrow
  <1>4. {c.d : c \in Elems(callbacks)}' \subseteq {c.d : c \in Elems(callbacks)} \union {j.d}
    BY <1>3
  <1> QED BY <1>1, <1>2, <1>4, TagKept DEF Held

LEMMA StopTag ==
  ASSUME TypeInv, TagInv, StopSet \/ StopStep
  PROVE  TagInv'
  <1>1. CASE StopSet \/ StopShutdown \/ StopCheck
    <2>1. UNCHANGED <<cur, inbox, callbacks, jobs, unacked, chan, nextTag>>
      BY <1>1 DEF StopSet, StopShutdown, StopCheck
    <2> QED BY <2>1, TagKept DEF Held
  <1>2. CASE StopSchedule
    <2> DEFINE c == [kind |-> "close", d |-> NoDelivery]
    <2>1. /\ callbacks' \in {callbacks, Append(callbacks, c)}
          /\ UNCHANGED <<cur, inbox, jobs, unacked, chan, nextTag>>
      BY <1>2 DEF StopSchedule
    <2>2. c \in Callback /\ c.d = NoDelivery /\ callbacks \in Seq(Callback)
      BY DEF Callback, TypeInv, TypeOK
    <2> HIDE DEF c
    <2>3. Elems(callbacks)' \subseteq Elems(callbacks) \union {c}
      BY <2>1, <2>2, ElemsGrow
    <2> QED BY <2>1, <2>2, <2>3, TagKept DEF Held
  <1>3. CASE StopDirect
    <2>1. /\ UNCHANGED <<cur, jobs, chan, nextTag>>
          /\ Elems(inbox)' \subseteq Elems(inbox) /\ unacked' \subseteq unacked
          /\ Elems(callbacks)' \subseteq Elems(callbacks)
      BY <1>3, CloseHeld DEF StopDirect
    <2> QED BY <2>1, TagKept DEF Held
  <1> QED BY <1>1, <1>2, <1>3 DEF StopStep

LEMMA NextTagInv == TypeInv /\ TagInv /\ [Next]_vars => TagInv'
  <1> SUFFICES ASSUME TypeInv, TagInv, [Next]_vars PROVE TagInv'
    OBVIOUS
  <1>1. CASE UNCHANGED vars
    BY <1>1, TagKept DEF vars, Held
  <1>2. CASE Next
    BY <1>2, BrokerTag, IoTag, WorkerTag, StopTag DEF Next
  <1> QED BY <1>1, <1>2

-----------------------------------------------------------------------------
(* Permits.  The deliveries in the buffer, in the wrapper's hands and with   *)
(* the workers are distinct, so a job that is added is a new one and a job   *)
(* that is replaced leaves the number of jobs alone.                         *)

Distinct ==
    /\ \A j, k \in jobs : j.d = k.d => j = k
    /\ \A i, k \in 1 .. Len(inbox) : inbox[i] = inbox[k] => i = k
    /\ \A j \in jobs : j.d \notin Elems(inbox)
    /\ io \in Dispatching => /\ cur \notin Elems(inbox)
                             /\ \A j \in jobs : j.d # cur

Balance == IsFiniteSet(jobs) /\ permits + Cardinality(jobs) = MaxInFlight

PoolInv == Distinct /\ Balance

LEMMA InitPool == Init => PoolInv
  <1> SUFFICES ASSUME Init PROVE PoolInv
    OBVIOUS
  <1>1. jobs = {} /\ inbox = << >> /\ io = "new" /\ permits = MaxInFlight
    BY DEF Init
  <1>2. Balance
    BY <1>1, FS_EmptySet, ConfigTypes DEF Init, Balance
  <1> QED BY <1>1, <1>2, ElemsEmpty DEF PoolInv, Distinct, Dispatching

LEMMA BrokerPool ==
  ASSUME TypeInv, TagInv, PoolInv,
         \/ \E m \in Messages : BrokerDeliver(m) \/ BrokerReturn(m)
         \/ ConnBreak \/ ChanClose
  PROVE  PoolInv'
  <1>1. UNCHANGED <<config, io, cur, jobs, permits>>
    BY DEF BrokerDeliver, BrokerReturn, ConnBreak, ChanClose
  <1>2. Balance'
    BY <1>1 DEF PoolInv, Balance, MaxInFlight
  <1>3. ASSUME NEW m \in Messages, BrokerDeliver(m) PROVE Distinct'
    <2> DEFINE d == [msg |-> m, ch |-> chan, tag |-> nextTag, attempt |-> Attempt(m)]
    <2>1. d \in Delivery /\ d.ch = chan /\ d.tag = nextTag
      BY DEF TypeInv, TypeOK, Delivery, Attempt
    <2>2. inbox' = Append(inbox, d) /\ inbox \in Seq(Delivery)
      BY <1>3 DEF BrokerDeliver, TypeInv, TypeOK
    <2> HIDE DEF d
    <2>3. d \notin Held
      <3>1. d.ch \in Nat /\ d.tag \in Nat /\ ~Known(d)
        BY <2>1 DEF Known, TypeInv, TypeOK
      <3> QED BY <3>1 DEF TagInv
    <2>4. Elems(inbox)' = Elems(inbox) \union {d}
      BY <2>1, <2>2, ElemsAppend
    <2>5. d # cur /\ d \notin Elems(inbox) /\ \A j \in jobs : j.d # d
      BY <2>3 DEF Held
    <2>6. ASSUME NEW i \in 1 .. Len(inbox'), NEW k \in 1 .. Len(inbox'), inbox'[i] = inbox'[k]
          PROVE  i = k
      <3>1. /\ Len(inbox) \in Nat /\ Len(inbox') = Len(inbox) + 1
            /\ inbox'[Len(inbox) + 1] = d
            /\ \A n \in 1 .. Len(inbox) : inbox'[n] = inbox[n] /\ inbox[n] \in Elems(inbox)
        BY <2>1, <2>2 DEF Elems
      <3>2. i \in 1 .. Len(inbox) \/ i = Len(inbox) + 1
        BY <3>1
      <3>3. k \in 1 .. Len(inbox) \/ k = Len(inbox) + 1
        BY <3>1
      <3> QED BY <2>5, <2>6, <3>1, <3>2, <3>3 DEF PoolInv, Distinct
    <2> QED BY <1>1, <2>4, <2>5, <2>6 DEF PoolInv, Distinct
  <1>4. ASSUME inbox' \in {inbox, << >>} PROVE Distinct'
    <2>1. Elems(inbox)' \subseteq Elems(inbox)
      BY <1>4, ElemsEmpty
    <2>2. \A i, k \in 1 .. Len(inbox') : inbox'[i] = inbox'[k] => i = k
      BY <1>4 DEF PoolInv, Distinct
    <2> QED BY <1>1, <2>1, <2>2 DEF PoolInv, Distinct
  <1>5. Distinct'
    BY <1>3, <1>4 DEF BrokerReturn, ConnBreak, ChanClose
  <1> QED BY <1>2, <1>5 DEF PoolInv

LEMMA IoPool ==
  ASSUME TypeInv, PoolInv, Start \/ IoStep
  PROVE  PoolInv'
  <1>types. inbox \in Seq(Delivery) /\ permits \in Nat /\ MaxInFlight \in Nat
    BY ConfigTypes DEF TypeInv, TypeOK
  <1>config. UNCHANGED config
    BY DEF IoStep, Start, IoExit, IoLoop, IoConnect, IoConnectFails, IoSetup, IoSetupFails,
           IoFail, IoPumpRaises, IoCallback, IoDispatch, IoReturn, IoAccept, IoAcquire,
           IoHandler, IoSettle, IoSettleRaises
  <1>1. CASE /\ UNCHANGED <<jobs, permits>> /\ inbox' \in {inbox, << >>}
             /\ io' \notin Dispatching
    <2>1. Balance'
      BY <1>1, <1>config DEF PoolInv, Balance, MaxInFlight
    <2>2. Distinct'
      BY <1>1, ElemsEmpty DEF PoolInv, Distinct
    <2> QED BY <2>1, <2>2 DEF PoolInv
  <1>2. CASE \/ Start \/ IoExit \/ IoLoop \/ IoConnect \/ IoConnectFails \/ IoSetup
             \/ IoSetupFails \/ IoPumpRaises \/ IoDispatch \/ IoReturn
             \/ IoSettle \/ IoSettleRaises
    BY <1>1, <1>2 DEF Start, IoExit, IoLoop, IoConnect, IoConnectFails, IoSetup,
             IoSetupFails, IoPumpRaises, IoDispatch, IoReturn, IoSettle, IoSettleRaises, Dispatching
  <1>3. CASE IoFail
    BY <1>1, <1>3 DEF IoFail, Close, Dispatching
  <1>4. CASE IoCallback
    BY <1>1, <1>4 DEF IoCallback, RunSettle, RunPoison, RunClose, Close, Dispatching
  <1>handler. CASE IoHandler
    <2>1. io = "handler" /\ UNCHANGED <<cur, inbox, jobs, permits>>
      BY <1>handler DEF IoHandler
    <2>2. Balance'
      BY <2>1, <1>config DEF PoolInv, Balance, MaxInFlight
    <2>3. Distinct'
      BY <2>1 DEF PoolInv, Distinct, Dispatching
    <2> QED BY <2>2, <2>3 DEF PoolInv
  <1>5. CASE IoAccept
    <2>1. /\ inbox # << >> /\ inbox' = Tail(inbox) /\ UNCHANGED <<jobs, permits>>
          /\ io' \in Dispatching => cur' = Head(inbox)
      BY <1>5 DEF IoAccept, Dispatching
    <2>2. Balance'
      BY <2>1, <1>config DEF PoolInv, Balance, MaxInFlight
    <2>3. Elems(inbox) = {Head(inbox)} \union Elems(inbox)'
      BY <1>types, <2>1, ElemsTail
    <2>4. /\ Len(inbox) \in Nat \ {0} /\ Len(inbox') = Len(inbox) - 1 /\ Head(inbox) = inbox[1]
          /\ \A i \in 1 .. Len(inbox') : inbox'[i] = inbox[i + 1]
      BY <1>types, <2>1
    <2>5. \A i, k \in 1 .. Len(inbox') : inbox'[i] = inbox'[k] => i = k
      BY <2>4 DEF PoolInv, Distinct
    <2>6. Head(inbox) \notin Elems(inbox)'
      BY <2>4 DEF PoolInv, Distinct, Elems
    <2>7. Distinct'
      BY <2>1, <2>3, <2>5, <2>6 DEF PoolInv, Distinct
    <2> QED BY <2>2, <2>7 DEF PoolInv
  <1>6. CASE IoAcquire
    <2>1. CASE poolDown
      BY <1>1, <1>6, <2>1 DEF IoAcquire, PermitsOnceRefused, Dispatching
    <2>2. CASE ~poolDown
      <3> DEFINE n == [d |-> cur, at |-> "queued", kind |-> "ack"]
      <3>1. /\ jobs' = jobs \union {n} /\ permits' = permits - 1 /\ io' = "batch"
            /\ UNCHANGED inbox /\ io \in Dispatching /\ io' \notin Dispatching /\ permits > 0
        BY <1>6, <2>2 DEF IoAcquire, Dispatching
      <3>2. n.d = cur
        OBVIOUS
      <3> HIDE DEF n
      <3>3. n \notin jobs
        BY <3>1, <3>2 DEF PoolInv, Distinct
      <3>4. IsFiniteSet(jobs') /\ Cardinality(jobs') = Cardinality(jobs) + 1
            /\ Cardinality(jobs) \in Nat
        BY <3>1, <3>3, FS_AddElement, FS_CardinalityType DEF PoolInv, Balance
      <3>5. Balance'
        BY <1>types, <1>config, <3>1, <3>4 DEF PoolInv, Balance, MaxInFlight
      <3>6. Distinct'
        BY <3>1, <3>2 DEF PoolInv, Distinct
      <3> QED BY <3>5, <3>6 DEF PoolInv
    <2> QED BY <2>1, <2>2
  <1> QED BY <1>2, <1>3, <1>4, <1>handler, <1>5, <1>6 DEF IoStep

LEMMA WorkerPool ==
  ASSUME TypeInv, PoolInv, NEW j \in jobs, WorkerStep(j)
  PROVE  PoolInv'
  <1>1. UNCHANGED <<config, io, cur, inbox>>
    BY DEF WorkerStep, WorkerRun, WorkerCheck, WorkerPost, WorkerDirect
  <1>types. permits \in Nat /\ MaxInFlight \in Nat /\ IsFiniteSet(jobs)
    BY ConfigTypes DEF TypeInv, TypeOK, PoolInv, Balance
  <1>2. /\ IsFiniteSet(jobs \ {j}) /\ Cardinality(jobs \ {j}) = Cardinality(jobs) - 1
        /\ Cardinality(jobs) \in Nat
    BY <1>types, FS_RemoveElement, FS_CardinalityType
  <1>3. CASE jobs' = jobs \ {j} /\ permits' = permits + 1
    <2>1. Balance'
      BY <1>1, <1>2, <1>3, <1>types DEF PoolInv, Balance, MaxInFlight
    <2>2. Distinct'
      BY <1>1, <1>3 DEF PoolInv, Distinct
    <2> QED BY <2>1, <2>2 DEF PoolInv
  <1>4. ASSUME NEW at \in {"done", "post", "direct"}, NEW kind \in Kinds,
               Advance(j, at, kind), permits' = permits
        PROVE  PoolInv'
    <2> DEFINE n == [j EXCEPT !.at = at, !.kind = kind]
    <2>1. n.d = j.d
      BY DEF TypeInv, TypeOK, Job
    <2>2. jobs' = (jobs \ {j}) \union {n}
      BY <1>4 DEF Advance
    <2> HIDE DEF n
    <2>3. n \notin jobs \ {j}
      BY <2>1 DEF PoolInv, Distinct
    <2>4. IsFiniteSet(jobs') /\ Cardinality(jobs') = Cardinality(jobs \ {j}) + 1
      BY <1>2, <2>2, <2>3, FS_AddElement
    <2>5. Balance'
      BY <1>1, <1>2, <1>4, <1>types, <2>4 DEF PoolInv, Balance, MaxInFlight
    <2>6. Distinct'
      BY <1>1, <2>1, <2>2 DEF PoolInv, Distinct
    <2> QED BY <2>5, <2>6 DEF PoolInv
  <1> QED BY <1>3, <1>4, WorkerJobs DEF TypeInv

LEMMA StopPool ==
  ASSUME PoolInv, StopSet \/ StopStep
  PROVE  PoolInv'
  <1>1. UNCHANGED <<config, io, cur, jobs, permits>> /\ inbox' \in {inbox, << >>}
    BY DEF StopSet, StopStep, StopShutdown, StopCheck, StopSchedule, StopDirect, Close
  <1>2. Balance'
    BY <1>1 DEF PoolInv, Balance, MaxInFlight
  <1>3. Distinct'
    BY <1>1, ElemsEmpty DEF PoolInv, Distinct
  <1> QED BY <1>2, <1>3 DEF PoolInv

LEMMA NextPool == TypeInv /\ TagInv /\ PoolInv /\ [Next]_vars => PoolInv'
  <1> SUFFICES ASSUME TypeInv, TagInv, PoolInv, [Next]_vars PROVE PoolInv'
    OBVIOUS
  <1>1. CASE UNCHANGED vars
    BY <1>1 DEF vars, PoolInv, Distinct, Balance, MaxInFlight, Elems
  <1>2. CASE Next
    BY <1>2, BrokerPool, IoPool, WorkerPool, StopPool DEF Next
  <1> QED BY <1>1, <1>2

\* No permit of the in-flight semaphore is lost or given back twice.
THEOREM PermitsAddUp == Spec => []PermitsBalance
  <1>1. PoolInv => PermitsBalance
    BY DEF PoolInv, Balance, PermitsBalance
  <1> QED BY <1>1, InitType, NextType, InitTag, NextTagInv, InitPool, NextPool, PTL DEF Spec

-----------------------------------------------------------------------------
(* The worker's own calls.  A worker turns to the fallback when it finds    *)
(* the connection closed; the channel went with it, and a later channel is  *)
(* another one.                                                             *)

OffInv ==
    /\ chanOpen => IsOpen
    /\ \A j \in jobs : j.at = "direct" => j.d.ch < chan \/ ~chanOpen

LEMMA InitOff == Init => OffInv
  BY DEF Init, OffInv

\* A step that moves no job to the fallback while the channel is up.
LEMMA OffKept ==
  ASSUME TypeInv, TagInv, OffInv,
         \A j \in jobs' : j.at = "direct" => j \in jobs \/ ~chanOpen',
         \/ chan' = chan /\ (chanOpen' => chanOpen)
         \/ chan' = chan + 1,
         chanOpen' => IsOpen'
  PROVE  OffInv'
  <1>1. chan \in Nat
    BY DEF TypeInv, TypeOK
  <1>2. ASSUME NEW j \in jobs', j.at = "direct", j \in jobs PROVE (j.d.ch < chan \/ ~chanOpen)'
    <2>1. j.d \in Held
      BY <1>2 DEF Held
    <2>2. j.d.ch \in Nat /\ j.d.ch <= chan
      BY <1>1, <2>1 DEF TagInv, Known
    <2> QED BY <1>1, <1>2, <2>2 DEF OffInv
  <1> QED BY <1>2 DEF OffInv

LEMMA NextOff == TypeInv /\ TagInv /\ OffInv /\ [Next]_vars => OffInv'
  <1> SUFFICES ASSUME TypeInv, TagInv, OffInv, [Next]_vars PROVE OffInv'
    OBVIOUS
  <1>1. CASE UNCHANGED vars
    BY <1>1 DEF vars, OffInv, IsOpen
  <1>2. CASE UNCHANGED <<jobs, chan>> /\ (chanOpen' => chanOpen) /\ (chanOpen' => IsOpen')
    BY <1>2, OffKept
  <1>3. CASE Start \/ IoStep
    <2>1. CASE IoSetup
      BY <2>1, OffKept DEF IoSetup, IsOpen
    <2>2. CASE IoAcquire
      <3>1. /\ jobs' \subseteq jobs \union {[d |-> cur, at |-> "queued", kind |-> "ack"]}
            /\ UNCHANGED <<conn, chan, chanOpen>>
        BY <2>2 DEF IoAcquire
      <3> QED BY <3>1, OffKept DEF OffInv, IsOpen
    <2>3. CASE IoConnect
      BY <1>2, <2>3 DEF IoConnect, IsOpen
    <2>4. CASE IoFail
      BY <1>2, <2>4 DEF IoFail, Close, OffInv, IsOpen
    <2>5. CASE IoCallback
      BY <1>2, <2>5 DEF IoCallback, RunSettle, RunPoison, RunClose, Close, OffInv, IsOpen
    <2>6. CASE \/ Start \/ IoExit \/ IoLoop \/ IoConnectFails \/ IoSetupFails \/ IoPumpRaises
               \/ IoDispatch \/ IoReturn \/ IoAccept \/ IoHandler \/ IoSettle \/ IoSettleRaises
      BY <1>2, <2>6 DEF Start, IoExit, IoLoop, IoConnectFails, IoSetupFails, IoPumpRaises,
               IoDispatch, IoReturn, IoAccept, IoHandler, IoSettle, IoSettleRaises, OffInv, IsOpen
    <2> QED BY <1>3, <2>1, <2>2, <2>3, <2>4, <2>5, <2>6 DEF IoStep
  <1>4. ASSUME NEW j \in jobs, WorkerStep(j) PROVE OffInv'
    <2>1. UNCHANGED <<conn, chan, chanOpen>>
      BY <1>4 DEF WorkerStep, WorkerRun, WorkerCheck, WorkerPost, WorkerDirect
    <2>2. ASSUME NEW k \in jobs', k.at = "direct" PROVE k \in jobs \/ ~chanOpen'
      <3>1. CASE IsOpen
        <4>1. jobs' \subseteq jobs \/ \E at \in {"done", "post"}, kind \in Kinds : Advance(j, at, kind)
          <5>1. j.kind \in Kinds /\ \A d : FailKind(d) \in Kinds
            BY ConfigTypes DEF TypeInv, TypeOK, Job
          <5> QED BY <1>4, <3>1, <5>1 DEF WorkerStep, WorkerRun, WorkerCheck, WorkerPost,
                     WorkerDirect, Finish, Settling, AfterPost, Kinds
        <4>2. ASSUME NEW at \in {"done", "post"}, NEW kind, Advance(j, at, kind), k \notin jobs
              PROVE  FALSE
          <5>1. k = [j EXCEPT !.at = at, !.kind = kind]
            BY <4>2 DEF Advance
          <5>2. k.at = at
            BY <5>1 DEF TypeInv, TypeOK, Job
          <5> QED BY <2>2, <5>2
        <4> QED BY <4>1, <4>2
      <3>2. CASE ~IsOpen
        BY <2>1, <3>2 DEF OffInv
      <3> QED BY <3>1, <3>2
    <2> QED BY <2>1, <2>2, OffKept DEF OffInv, IsOpen
  <1>5. CASE StopSet \/ StopStep
    <2>1. UNCHANGED <<jobs, chan>>
      BY <1>5 DEF StopSet, StopStep, StopShutdown, StopCheck, StopSchedule, StopDirect, Close
    <2>2. UNCHANGED <<conn, chanOpen>> \/ ~chanOpen'
      BY <1>5 DEF StopSet, StopStep, StopShutdown, StopCheck, StopSchedule, StopDirect, Close
    <2> QED BY <1>2, <2>1, <2>2 DEF OffInv, IsOpen
  <1>6. CASE \/ \E m \in Messages : BrokerDeliver(m) \/ BrokerReturn(m)
             \/ ConnBreak \/ ChanClose
    BY <1>2, <1>6 DEF BrokerDeliver, BrokerReturn, ConnBreak, ChanClose, OffInv, IsOpen
  <1> QED BY <1>1, <1>3, <1>4, <1>5, <1>6 DEF Next

\* A worker that settles from its own thread finds its channel closed.
THEOREM WorkersAreOff == Spec => []WorkersStayOff
  <1>1. TypeInv /\ OffInv => WorkersStayOff
    <2> SUFFICES ASSUME TypeInv, OffInv, NEW j \in jobs, j.at = "direct" PROVE ~Usable(j.d)
      BY DEF WorkersStayOff
    <2>1. j.d.ch \in Nat /\ chan \in Nat
      BY DEF TypeInv, TypeOK, Job, Delivery
    <2> QED BY <2>1 DEF OffInv, Usable
  <1> QED BY <1>1, InitType, NextType, InitTag, NextTagInv, InitOff, NextOff, PTL DEF Spec

-----------------------------------------------------------------------------
(* At least once.  An ack is on its way only for a message that has been    *)
(* handled or copied, and by TagInv its tag can hit no other message.       *)

AckInv ==
    /\ io = "connect" => ~IsOpen
    /\ ~IsOpen => callbacks = << >>
    /\ \A j \in jobs : j.at # "queued" /\ j.kind = "ack" => j.d.msg \in handled
    /\ conn = "open" =>
          \A c \in Elems(callbacks) : c.kind = "ack" => c.d.msg \in handled \union dlq
    /\ io = "ack" => cur.msg \in handled
    /\ AtLeastOnce

LEMMA InitAck == Init => AckInv
  <1> SUFFICES ASSUME Init PROVE AckInv
    OBVIOUS
  <1>1. io = "new" /\ conn = "none" /\ callbacks = << >> /\ jobs = {} /\ acked = {}
    BY DEF Init
  <1> QED BY <1>1 DEF AckInv, AtLeastOnce

\* The only message an ack can remove from the broker is the one it was meant for.
LEMMA SettleAcked ==
  ASSUME TypeInv, TagInv, NEW kind, NEW d \in Held, Settle(kind, d)
  PROVE  /\ kind = "ack" /\ conn = "open" => acked' \subseteq acked \union {d.msg}
         /\ kind # "ack" \/ conn # "open" => acked' = acked
  <1> DEFINE hit == IF conn = "open" /\ chanOpen
                    THEN {e \in unacked : e.ch = SentOn(d) /\ e.tag = d.tag} ELSE {}
             msgs == {e.msg : e \in hit}
  <1>1. acked' = IF kind = "ack" THEN acked \union msgs ELSE acked
    BY DEF Settle
  <1>2. ASSUME NEW e \in hit PROVE e = d
    <2>1. e \in Held /\ e.ch = d.ch /\ e.tag = d.tag
      BY <1>2 DEF Held, SentOn
    <2> QED BY <2>1 DEF TagInv
  <1>3. conn # "open" => hit = {}
    OBVIOUS
  <1> HIDE DEF hit
  <1> QED BY <1>1, <1>2, <1>3

\* What a step has to show, when the history and the dead letter queue only grow.
LEMMA AckKept ==
  ASSUME AckInv, handled \subseteq handled', dlq \subseteq dlq', config' = config,
         io' = "connect" => ~IsOpen',
         ~IsOpen' => callbacks' = << >>,
         \A j \in jobs' : j.at # "queued" /\ j.kind = "ack" => j \in jobs \/ j.d.msg \in handled',
         conn' = "open" => \A c \in Elems(callbacks)' : c.kind = "ack" =>
             (conn = "open" /\ c \in Elems(callbacks)) \/ c.d.msg \in handled' \union dlq',
         io' = "ack" => (io = "ack" /\ cur' = cur) \/ cur'.msg \in handled',
         ~AutoAck => acked' \subseteq acked \union handled' \union dlq'
  PROVE  AckInv'
  <1>1. AutoAck' = AutoAck
    BY DEF AutoAck
  <1>2. AtLeastOnce'
    BY <1>1 DEF AckInv, AtLeastOnce
  <1>3. (\A j \in jobs : j.at # "queued" /\ j.kind = "ack" => j.d.msg \in handled)'
    BY DEF AckInv
  <1>4. (conn = "open" =>
          \A c \in Elems(callbacks) : c.kind = "ack" => c.d.msg \in handled \union dlq)'
    BY DEF AckInv
  <1>5. (io = "ack" => cur.msg \in handled)'
    BY DEF AckInv
  <1> QED BY <1>2, <1>3, <1>4, <1>5 DEF AckInv

LEMMA BrokerAck ==
  ASSUME AckInv, \/ \E m \in Messages : BrokerDeliver(m) \/ BrokerReturn(m)
                 \/ ConnBreak \/ ChanClose
  PROVE  AckInv'
  <1>1. UNCHANGED <<config, io, cur, jobs, callbacks, handled, dlq>>
    BY DEF BrokerDeliver, BrokerReturn, ConnBreak, ChanClose, Requeue
  <1>2. UNCHANGED conn \/ (conn = "open" /\ conn' = "broken")
    BY DEF BrokerDeliver, BrokerReturn, ConnBreak, ChanClose
  <1>3. ~AutoAck => acked' = acked
    BY DEF BrokerDeliver, BrokerReturn, ConnBreak, ChanClose, Requeue, ConsumerAutoAck
  <1> QED BY <1>1, <1>2, <1>3, AckKept DEF AckInv, IsOpen

LEMMA IoAck ==
  ASSUME TypeInv, TagInv, AckInv, Start \/ IoStep
  PROVE  AckInv'
  <1>1. CASE /\ UNCHANGED <<config, cur, conn, callbacks, jobs, acked, dlq, handled>>
             /\ io' # "connect" \/ ~IsOpen
             /\ io' # "ack"
    <2>1. IsOpen' = IsOpen
      BY <1>1 DEF IsOpen
    <2> QED BY <1>1, <2>1, AckKept DEF AckInv
  <1>2. CASE \/ Start \/ IoExit \/ IoLoop \/ IoSetup \/ IoSetupFails \/ IoDispatch \/ IoReturn
             \/ IoSettleRaises
    BY <1>1, <1>2 DEF Start, IoExit, IoLoop, IoSetup, IoSetupFails, IoDispatch, IoReturn,
             IoSettleRaises
  <1>3. CASE IoConnectFails
    BY <1>1, <1>3 DEF IoConnectFails, AckInv
  <1>4. CASE IoConnect
    <2>1. callbacks = << >> /\ UNCHANGED <<config, callbacks, jobs, acked, dlq, handled>>
          /\ io' = "setup" /\ IsOpen'
      BY <1>4 DEF IoConnect, AckInv, IsOpen
    <2> QED BY <2>1, ElemsEmpty, AckKept
  <1>5. CASE IoFail
    <2>1. /\ io' \in {"top", "crashed"}
          /\ UNCHANGED <<config, jobs, acked, dlq, handled>>
          /\ UNCHANGED <<conn, callbacks>> \/ (conn' = "none" /\ callbacks' = << >>)
      BY <1>5 DEF IoFail, Close, Requeue
    <2> QED BY <2>1, AckKept DEF AckInv, IsOpen
  <1>6. CASE IoPumpRaises
    <2>1. /\ io' = "failed" /\ UNCHANGED <<config, jobs, acked, dlq, handled>>
          /\ conn' = "closed" /\ callbacks' = << >>
      BY <1>6 DEF IoPumpRaises
    <2> QED BY <2>1, AckKept DEF IsOpen
  <1>7. CASE IoCallback
    <2>1. /\ callbacks # << >> /\ callbacks \in Seq(Callback) /\ IsOpen /\ io = "pump"
          /\ UNCHANGED <<config, cur, jobs, handled>>
      BY <1>7 DEF IoCallback, TypeInv, TypeOK
    <2>2. Elems(callbacks) = {Head(callbacks)} \union Elems(Tail(callbacks))
      BY <2>1, ElemsTail
    <2> DEFINE d == Head(callbacks).d
    <2>3. d \in Held
      BY <2>2 DEF Held
    <2>4. CASE RunSettle
      <3>1. /\ Settle(Head(callbacks).kind, d) /\ callbacks' = Tail(callbacks)
            /\ UNCHANGED <<dlq, conn, io>>
        BY <2>4 DEF RunSettle
      <3>2. acked' \subseteq acked \union handled \union dlq
        BY <2>2, <2>3, <3>1, SettleAcked DEF AckInv
      <3>3. IsOpen'
        BY <2>1, <3>1 DEF IsOpen
      <3> QED BY <2>1, <2>2, <3>1, <3>2, <3>3, AckKept
    <2>5. CASE RunPoison
      <3> DEFINE c == [kind |-> "ack", d |-> d]
      <3>1. Tail(callbacks) \in Seq(Callback) /\ c \in Callback
        BY <2>1, <2>5, CallbackHead DEF RunPoison, TypeInv, Callback, Kinds
      <3>2. UNCHANGED <<acked, conn, io>> /\ dlq' = dlq \union Copy(d)
        BY <2>5 DEF RunPoison
      <3>3. CASE Usable(d)
        <4>1. callbacks' = <<c>> \o Tail(callbacks)
          BY <2>5, <3>3 DEF RunPoison
        <4>2. c.d.msg = d.msg /\ (conn = "open" => d.msg \in dlq')
          BY <3>2, <3>3 DEF Copy
        <4> HIDE DEF c, d
        <4>3. Elems(callbacks)' = {c} \union Elems(Tail(callbacks))
          BY <3>1, <4>1, ElemsCons
        <4>4. IsOpen'
          BY <2>1, <3>2 DEF IsOpen
        <4> QED BY <2>1, <2>2, <3>2, <4>2, <4>3, <4>4, AckKept
      <3>4. CASE ~Usable(d)
        <4>1. callbacks' = Tail(callbacks)
          BY <2>5, <3>4 DEF RunPoison
        <4>2. IsOpen'
          BY <2>1, <3>2 DEF IsOpen
        <4> QED BY <2>1, <2>2, <3>2, <4>1, <4>2, AckKept
      <3> QED BY <3>3, <3>4
    <2>6. CASE RunClose
      <3>1. /\ io' = "top" /\ conn' = "closed" /\ callbacks' = << >> /\ UNCHANGED <<acked, dlq>>
        BY <2>6 DEF RunClose, Close, Requeue
      <3> QED BY <2>1, <3>1, AckKept
    <2> QED BY <1>7, <2>4, <2>5, <2>6 DEF IoCallback
  <1>8. CASE IoAccept
    <2>1. /\ UNCHANGED <<config, conn, callbacks, jobs, acked, dlq, handled>>
          /\ io' \in {"batch", "acquire", "handler"}
      BY <1>8 DEF IoAccept
    <2> QED BY <2>1, AckKept DEF AckInv, IsOpen
  <1>9. CASE IoAcquire
    <2> DEFINE n == [d |-> cur, at |-> "queued", kind |-> "ack"]
    <2>1. /\ UNCHANGED <<config, conn, callbacks, acked, dlq, handled>> /\ io' = "batch"
          /\ jobs' \subseteq jobs \union {n}
      BY <1>9 DEF IoAcquire
    <2>2. n.at = "queued"
      OBVIOUS
    <2> HIDE DEF n
    <2> QED BY <2>1, <2>2, AckKept DEF AckInv, IsOpen
  <1>10. CASE IoHandler
    <2>1. /\ UNCHANGED <<config, cur, conn, callbacks, jobs, acked, dlq>>
          /\ handled \subseteq handled'
          /\ io' = "ack" => cur.msg \in handled'
          /\ io' # "connect"
      BY <1>10 DEF IoHandler, OnError
    <2> QED BY <2>1, AckKept DEF AckInv, IsOpen
  <1>11. CASE IoSettle
    <2>1. /\ UNCHANGED <<config, conn, callbacks, jobs, dlq, handled>> /\ io' = "batch"
          /\ Settle(IF io = "ack" THEN "ack" ELSE "requeue", cur)
      BY <1>11 DEF IoSettle
    <2>2. acked' \subseteq acked \union handled
      BY <2>1, SettleAcked DEF Held, AckInv
    <2> QED BY <2>1, <2>2, AckKept DEF AckInv, IsOpen
  <1> QED BY <1>2, <1>3, <1>4, <1>5, <1>6, <1>7, <1>8, <1>9, <1>10, <1>11 DEF IoStep

LEMMA WorkerAck ==
  ASSUME TypeInv, AckInv, NEW j \in jobs, WorkerStep(j)
  PROVE  AckInv'
  <1>1. UNCHANGED <<config, io, cur, conn, acked, dlq>> /\ handled \subseteq handled'
    BY DEF WorkerStep, WorkerRun, WorkerCheck, WorkerPost, WorkerDirect
  <1>2. IsOpen' = IsOpen
    BY <1>1 DEF IsOpen
  <1>3. \/ jobs' \subseteq jobs
        \/ \E at \in {"done", "post", "direct"}, kind \in Kinds :
              Advance(j, at, kind) /\ (kind = "ack" => j.d.msg \in handled')
    <2>1. j.kind \in Kinds /\ \A d : FailKind(d) \in Kinds
      BY ConfigTypes DEF TypeInv, TypeOK, Job
    <2>2. FailKind(j.d) # "ack"
      BY DEF FailKind
    <2>3. CASE WorkerRun(j)
      BY <2>1, <2>2, <2>3 DEF WorkerRun, Kinds
    <2>4. CASE WorkerCheck(j)
      BY <2>1, <2>4 DEF WorkerCheck, Finish, Settling, AckInv
    <2>5. CASE WorkerPost(j)
      BY <2>1, <2>5 DEF WorkerPost, AfterPost, AckInv
    <2>6. CASE WorkerDirect(j)
      BY <2>6 DEF WorkerDirect, Finish
    <2> QED BY <2>3, <2>4, <2>5, <2>6 DEF WorkerStep
  <1>4. ASSUME NEW k \in jobs', k.at # "queued", k.kind = "ack"
        PROVE  k \in jobs \/ k.d.msg \in handled'
    <2>1. ASSUME NEW at, NEW kind, Advance(j, at, kind), kind = "ack" => j.d.msg \in handled',
                 k \notin jobs
          PROVE  k.d.msg \in handled'
      <3>1. k = [j EXCEPT !.at = at, !.kind = kind]
        BY <2>1 DEF Advance
      <3>2. k.d = j.d /\ k.kind = kind
        BY <3>1 DEF TypeInv, TypeOK, Job
      <3> QED BY <1>4, <2>1, <3>2
    <2> QED BY <1>3, <2>1
  <1> DEFINE p == [kind |-> j.kind, d |-> j.d]
  <1>5. UNCHANGED callbacks \/ (callbacks' = Append(callbacks, p) /\ j.at = "post" /\ IsOpen)
    BY DEF WorkerStep, WorkerRun, WorkerCheck, WorkerPost, WorkerDirect, Scheduled
  <1>6. p \in Callback /\ callbacks \in Seq(Callback) /\ p.d = j.d /\ p.kind = j.kind
    BY DEF TypeInv, TypeOK, Job, Callback
  <1> HIDE DEF p
  <1>7. ASSUME NEW c \in Elems(callbacks)', c.kind = "ack"
        PROVE  c \in Elems(callbacks) \/ c.d.msg \in handled'
    <2>1. CASE UNCHANGED callbacks
      BY <2>1, <1>7
    <2>2. CASE callbacks' = Append(callbacks, p) /\ j.at = "post"
      <3>1. c \in Elems(callbacks) \/ c = p
        BY <1>6, <1>7, <2>2, ElemsAppend
      <3> QED BY <1>1, <1>6, <1>7, <2>2, <3>1 DEF AckInv
    <2> QED BY <1>5, <2>1, <2>2
  <1>8. ~IsOpen' => callbacks' = << >>
    BY <1>2, <1>5 DEF AckInv
  <1>9. io' = "connect" => ~IsOpen'
    BY <1>1, <1>2 DEF AckInv
  <1> QED BY <1>1, <1>4, <1>7, <1>8, <1>9, AckKept

LEMMA StopAck ==
  ASSUME TypeInv, AckInv, StopSet \/ StopStep
  PROVE  AckInv'
  <1>1. UNCHANGED <<config, io, cur, jobs, acked, dlq, handled>>
    BY DEF StopSet, StopStep, StopShutdown, StopCheck, StopSchedule, StopDirect, Close, Requeue
  <1>2. CASE UNCHANGED <<conn, callbacks>>
    BY <1>1, <1>2, AckKept DEF AckInv, IsOpen
  <1>3. CASE conn' = "closed" /\ callbacks' = << >>
    BY <1>1, <1>3, AckKept DEF IsOpen
  <1>4. CASE StopSchedule /\ IsOpen
    <2> DEFINE c == [kind |-> "close", d |-> NoDelivery]
    <2>1. callbacks' = Append(callbacks, c) /\ UNCHANGED conn
      BY <1>4 DEF StopSchedule
    <2>2. c \in Callback /\ c.kind = "close" /\ callbacks \in Seq(Callback)
      BY DEF Callback, TypeInv, TypeOK
    <2> HIDE DEF c
    <2>3. Elems(callbacks)' = Elems(callbacks) \union {c}
      BY <2>1, <2>2, ElemsAppend
    <2>4. IsOpen'
      BY <1>4, <2>1 DEF IsOpen
    <2>5. io' = "connect" => ~IsOpen'
      BY <1>1, <1>4 DEF AckInv
    <2> QED BY <1>1, <2>1, <2>2, <2>3, <2>4, <2>5, AckKept
  <1> QED BY <1>2, <1>3, <1>4 DEF StopSet, StopStep, StopShutdown, StopCheck, StopSchedule,
          StopDirect, Close

LEMMA NextAck == TypeInv /\ TagInv /\ AckInv /\ [Next]_vars => AckInv'
  <1> SUFFICES ASSUME TypeInv, TagInv, AckInv, [Next]_vars PROVE AckInv'
    OBVIOUS
  <1>1. CASE UNCHANGED vars
    BY <1>1, AckKept DEF vars, AckInv, IsOpen
  <1>2. CASE Next
    BY <1>2, BrokerAck, IoAck, WorkerAck, StopAck DEF Next
  <1> QED BY <1>1, <1>2

\* With auto_ack=False the broker forgets no message before it has been processed or
\* copied to the dead letter queue.
THEOREM DeliveredAtLeastOnce == Spec => []AtLeastOnce
  <1>1. AckInv => AtLeastOnce
    BY DEF AckInv
  <1> QED BY <1>1, InitType, NextType, InitTag, NextTagInv, InitAck, NextAck, PTL DEF Spec


-----------------------------------------------------------------------------
(* No hot loop.  What a listener with on_error="dead_letter" is about to    *)
(* tell the broker is never a nack with requeue, and a wrapper that has     *)
(* offloaded a delivery, or acknowledged it beforehand, tells it nothing.   *)

HotInv ==
    /\ Offload => io \notin {"handler", "ack", "nack"}
    /\ AutoAck => io \notin {"ack", "nack"}
    /\ DeadLetter => /\ \A j \in jobs : j.kind # "requeue"
                     /\ \A c \in Elems(callbacks) : c.kind # "requeue"

LEMMA InitHot == Init => HotInv
  <1> SUFFICES ASSUME Init PROVE HotInv
    OBVIOUS
  <1>1. io = "new" /\ callbacks = << >> /\ jobs = {}
    BY DEF Init
  <1> QED BY <1>1, ElemsEmpty DEF HotInv

\* A step that neither adds a job or a callback nor goes on with the delivery in hand.
LEMMA HotKept ==
  ASSUME HotInv, config' = config,
         io' = io \/ io' \notin {"handler", "ack", "nack"},
         jobs' \subseteq jobs, Elems(callbacks)' \subseteq Elems(callbacks)
  PROVE  HotInv'
  <1>1. UNCHANGED <<Offload, AutoAck, DeadLetter>>
    BY DEF Offload, AutoAck, DeadLetter
  <1> QED BY <1>1 DEF HotInv

LEMMA BrokerHot ==
  ASSUME HotInv, \/ \E m \in Messages : BrokerDeliver(m) \/ BrokerReturn(m)
                 \/ ConnBreak \/ ChanClose
  PROVE  HotInv'
  <1>1. UNCHANGED <<config, io, jobs, callbacks>>
    BY DEF BrokerDeliver, BrokerReturn, ConnBreak, ChanClose
  <1> QED BY <1>1, HotKept

LEMMA IoHot ==
  ASSUME TypeInv, HotInv, Start \/ IoStep
  PROVE  HotInv'
  <1>1. UNCHANGED config
    BY DEF IoStep, Start, IoExit, IoLoop, IoConnect, IoConnectFails, IoSetup, IoSetupFails,
           IoFail, IoPumpRaises, IoCallback, IoDispatch, IoReturn, IoAccept, IoAcquire,
           IoHandler, IoSettle, IoSettleRaises
  <1>config. UNCHANGED <<Offload, AutoAck, DeadLetter>>
    BY <1>1 DEF Offload, AutoAck, DeadLetter
  <1>2. CASE \/ Start \/ IoExit \/ IoLoop \/ IoConnect \/ IoConnectFails \/ IoSetup
             \/ IoSetupFails \/ IoDispatch \/ IoReturn \/ IoSettle \/ IoSettleRaises
    <2>1. io' \notin {"handler", "ack", "nack"} /\ UNCHANGED <<jobs, callbacks>>
      BY <1>2 DEF Start, IoExit, IoLoop, IoConnect, IoConnectFails, IoSetup, IoSetupFails,
               IoDispatch, IoReturn, IoSettle, IoSettleRaises
    <2> QED BY <1>1, <2>1, HotKept
  <1>3. CASE IoFail
    <2>1. /\ io' \in {"top", "crashed"} /\ UNCHANGED jobs
          /\ callbacks' \in {callbacks, << >>}
      BY <1>3 DEF IoFail, Close
    <2> QED BY <1>1, <2>1, ElemsEmpty, HotKept
  <1>4. CASE IoPumpRaises
    <2>1. io' = "failed" /\ UNCHANGED jobs /\ callbacks' = << >>
      BY <1>4 DEF IoPumpRaises
    <2> QED BY <1>1, <2>1, ElemsEmpty, HotKept
  <1>5. CASE IoCallback
    <2>1. callbacks # << >> /\ callbacks \in Seq(Callback) /\ io = "pump" /\ UNCHANGED jobs
      BY <1>5 DEF IoCallback, TypeInv, TypeOK
    <2>2. Elems(callbacks) = {Head(callbacks)} \union Elems(Tail(callbacks))
      BY <2>1, ElemsTail
    <2>3. CASE RunSettle
      <3>1. callbacks' = Tail(callbacks) /\ UNCHANGED io
        BY <2>3 DEF RunSettle
      <3> QED BY <1>1, <2>1, <2>2, <3>1, HotKept
    <2>4. CASE RunPoison
      <3> DEFINE c == [kind |-> "ack", d |-> Head(callbacks).d]
      <3>1. Tail(callbacks) \in Seq(Callback) /\ c \in Callback
        BY <2>1, <2>4, CallbackHead DEF RunPoison, TypeInv, Callback, Kinds
      <3>2. callbacks' \in {<<c>> \o Tail(callbacks), Tail(callbacks)} /\ UNCHANGED io
        BY <2>4 DEF RunPoison
      <3>3. c.kind # "requeue"
        OBVIOUS
      <3> HIDE DEF c
      <3>4. Elems(callbacks)' \subseteq {c} \union Elems(Tail(callbacks))
        BY <3>1, <3>2, ElemsCons
      <3>5. ASSUME DeadLetter, NEW b \in Elems(callbacks)' PROVE b.kind # "requeue"
        BY <2>2, <3>3, <3>4, <3>5 DEF HotInv
      <3>6. io' = "pump" /\ jobs' = jobs
        BY <2>1, <3>2
      <3> QED BY <1>config, <3>5, <3>6 DEF HotInv
    <2>5. CASE RunClose
      <3>1. io' = "top" /\ callbacks' = << >>
        BY <2>5 DEF RunClose, Close
      <3> QED BY <1>1, <2>1, <3>1, ElemsEmpty, HotKept
    <2> QED BY <1>5, <2>3, <2>4, <2>5 DEF IoCallback
  <1>6. CASE IoAccept
    <2>1. /\ UNCHANGED <<jobs, callbacks>> /\ io = "batch"
          /\ io' \in {"batch", "acquire"} \/ (io' = "handler" /\ ~Offload)
      BY <1>6 DEF IoAccept
    <2> QED BY <1>config, <2>1 DEF HotInv
  <1>7. CASE IoAcquire
    <2> DEFINE n == [d |-> cur, at |-> "queued", kind |-> "ack"]
    <2>1. io' = "batch" /\ UNCHANGED callbacks /\ jobs' \subseteq jobs \union {n}
      BY <1>7 DEF IoAcquire
    <2>2. n.kind # "requeue"
      OBVIOUS
    <2> HIDE DEF n
    <2> QED BY <1>config, <2>1, <2>2 DEF HotInv
  <1>8. CASE IoHandler
    <2>1. /\ io = "handler" /\ UNCHANGED <<jobs, callbacks>>
          /\ io' \in (IF AutoAck THEN {"batch", "failed"} ELSE {"ack", "nack"})
      BY <1>8 DEF IoHandler, OnError
    <2> QED BY <1>config, <2>1 DEF HotInv
  <1> QED BY <1>2, <1>3, <1>4, <1>5, <1>6, <1>7, <1>8 DEF IoStep

LEMMA WorkerHot ==
  ASSUME TypeInv, HotInv, NEW j \in jobs, WorkerStep(j)
  PROVE  HotInv'
  <1>1. UNCHANGED <<config, io>>
    BY DEF WorkerStep, WorkerRun, WorkerCheck, WorkerPost, WorkerDirect
  <1>config. UNCHANGED <<Offload, AutoAck, DeadLetter>>
    BY <1>1 DEF Offload, AutoAck, DeadLetter
  <1>2. ASSUME DeadLetter, NEW k \in jobs' PROVE k.kind # "requeue"
    <2>1. j.kind # "requeue" /\ FailKind(j.d) # "requeue" /\ \A i \in jobs : i.kind # "requeue"
      BY <1>2 DEF HotInv, FailKind
    <2>2. \/ jobs' \subseteq jobs
          \/ \E at, kind : Advance(j, at, kind) /\ kind # "requeue"
      BY <2>1 DEF WorkerStep, WorkerRun, WorkerCheck, WorkerPost, WorkerDirect, Finish,
                  Settling, AfterPost
    <2>3. ASSUME NEW at, NEW kind, Advance(j, at, kind), kind # "requeue" PROVE k.kind # "requeue"
      <3>1. k \in jobs \/ k = [j EXCEPT !.at = at, !.kind = kind]
        BY <1>2, <2>3 DEF Advance
      <3>2. [j EXCEPT !.at = at, !.kind = kind].kind = kind
        BY DEF TypeInv, TypeOK, Job
      <3> QED BY <2>1, <2>3, <3>1, <3>2
    <2> QED BY <1>2, <2>1, <2>2, <2>3
  <1>3. ASSUME DeadLetter, NEW c \in Elems(callbacks)' PROVE c.kind # "requeue"
    <2> DEFINE p == [kind |-> j.kind, d |-> j.d]
    <2>1. callbacks' \in {callbacks, Append(callbacks, p)}
      BY DEF WorkerStep, WorkerRun, WorkerCheck, WorkerPost, WorkerDirect, Scheduled
    <2>2. p \in Callback /\ callbacks \in Seq(Callback) /\ p.kind # "requeue"
      BY <1>3 DEF TypeInv, TypeOK, Job, Callback, HotInv
    <2> HIDE DEF p
    <2>3. c \in Elems(callbacks) \/ c = p
      BY <1>3, <2>1, <2>2, ElemsGrow
    <2> QED BY <1>3, <2>2, <2>3 DEF HotInv
  <1> QED BY <1>1, <1>config, <1>2, <1>3 DEF HotInv

LEMMA StopHot ==
  ASSUME TypeInv, HotInv, StopSet \/ StopStep
  PROVE  HotInv'
  <1>1. /\ UNCHANGED <<config, io, jobs>>
    BY DEF StopSet, StopStep, StopShutdown, StopCheck, StopSchedule, StopDirect, Close
  <1>2. /\ Request \in Callback /\ Request.kind = "close" /\ Request.d = NoDelivery
        /\ callbacks' \in {callbacks, << >>, Append(callbacks, Request)} /\ callbacks \in Seq(Callback)
    BY StopPosts
  <1>3. Elems(callbacks)' \subseteq Elems(callbacks) \union {Request}
    BY StopPosts
  <1> QED BY <1>1, <1>2, <1>3 DEF HotInv, Offload, AutoAck, DeadLetter

LEMMA NextHot == TypeInv /\ HotInv /\ [Next]_vars => HotInv'
  <1> SUFFICES ASSUME TypeInv, HotInv, [Next]_vars PROVE HotInv'
    OBVIOUS
  <1>1. CASE UNCHANGED vars
    BY <1>1, HotKept DEF vars
  <1>2. CASE Next
    BY <1>2, BrokerHot, IoHot, WorkerHot, StopHot DEF Next
  <1> QED BY <1>1, <1>2

\* Which steps put a message back while the channel stays up.
LEMMA ReadyGrows ==
  ASSUME [Next]_vars, chanOpen, chanOpen', conn' = "open"
  PROVE  \/ ready' \subseteq ready \union parked
         \/ IoSettle
         \/ \E c \in {Head(callbacks)} : callbacks # << >> /\ c.kind = "requeue"
  <1>1. CASE Start \/ IoStep
    <2>1. CASE IoCallback
      <3>1. CASE RunSettle
        BY <2>1, <3>1 DEF IoCallback, RunSettle, Settle
      <3>2. CASE RunPoison
        BY <3>2 DEF RunPoison
      <3>3. CASE RunClose
        BY <3>3 DEF RunClose, Close
      <3> QED BY <2>1, <3>1, <3>2, <3>3 DEF IoCallback
    <2>2. CASE IoFail
      BY <2>2 DEF IoFail, Close
    <2>3. CASE IoSettle
      BY <2>3
    <2>4. CASE \/ Start \/ IoExit \/ IoLoop \/ IoConnect \/ IoConnectFails \/ IoSetup
               \/ IoSetupFails \/ IoPumpRaises \/ IoDispatch \/ IoReturn \/ IoAccept
               \/ IoAcquire \/ IoHandler \/ IoSettleRaises
      BY <2>4 DEF Start, IoExit, IoLoop, IoConnect, IoConnectFails, IoSetup, IoSetupFails,
               IoPumpRaises, IoDispatch, IoReturn, IoAccept, IoAcquire, IoHandler, IoSettleRaises
    <2> QED BY <1>1, <2>1, <2>2, <2>3, <2>4 DEF IoStep
  <1>2. ASSUME NEW j \in jobs, WorkerStep(j) PROVE ready' = ready
    BY <1>2 DEF WorkerStep, WorkerRun, WorkerCheck, WorkerPost, WorkerDirect
  <1>3. CASE StopSet \/ StopStep
    BY <1>3 DEF StopSet, StopStep, StopShutdown, StopCheck, StopSchedule, StopDirect, Close
  <1>4. ASSUME NEW m \in Messages, BrokerDeliver(m) \/ BrokerReturn(m)
        PROVE  ready' \subseteq ready \union parked
    BY <1>4 DEF BrokerDeliver, BrokerReturn
  <1>5. CASE ConnBreak \/ ChanClose
    BY <1>5 DEF ConnBreak, ChanClose
  <1>6. CASE UNCHANGED vars
    BY <1>6 DEF vars
  <1> QED BY <1>1, <1>2, <1>3, <1>4, <1>5, <1>6 DEF Next

\* The wrapper puts back no other message than the one it has in hand.
LEMMA SettleGrows ==
  ASSUME TagInv, NEW kind, Settle(kind, cur)
  PROVE  ready' \subseteq ready \union IF kind = "requeue" THEN {cur.msg} ELSE {}
  <1>1. ASSUME NEW e \in unacked, e.ch = SentOn(cur), e.tag = cur.tag PROVE e = cur
    BY <1>1 DEF TagInv, Held, SentOn
  <1>2. CASE kind = "requeue"
    BY <1>1, <1>2 DEF Settle
  <1>3. CASE kind # "requeue"
    BY <1>3 DEF Settle
  <1> QED BY <1>2, <1>3

\* For every configuration: with on_error="dead_letter" and the channel up, nobody but the
\* wrapper on the I/O thread, without offload and auto_ack, brings a message straight back, and
\* it only the one whose callback has just raised (sync_adapter.py:337 nacks with requeue
\* whatever on_error says); all others come back through the exchange.
THEOREM NoOtherRequeue == Spec => OnlyWrapperRequeues
  <1> DEFINE Step == DeadLetter /\ chanOpen /\ chanOpen' /\ conn' = "open"
                        => ready' \ ready \subseteq parked \union Rejecting
  <1>1. TypeInv /\ TagInv /\ HotInv /\ [Next]_vars => Step
    <2> SUFFICES ASSUME TypeInv, TagInv, HotInv, [Next]_vars,
                        DeadLetter, chanOpen, chanOpen', conn' = "open"
                 PROVE  ready' \ ready \subseteq parked \union Rejecting
      OBVIOUS
    <2>1. callbacks \in Seq(Callback)
      BY DEF TypeInv, TypeOK
    <2>2. callbacks # << >> => Head(callbacks).kind # "requeue"
      BY <2>1, ElemsTail DEF HotInv
    <2>3. CASE IoSettle
      <3>1. ready' \subseteq ready \union IF io = "ack" THEN {} ELSE {cur.msg}
        BY <2>3, SettleGrows DEF IoSettle
      <3>2. io = "nack" => ~Offload /\ ~AutoAck
        BY DEF HotInv
      <3> QED BY <2>3, <3>1, <3>2 DEF IoSettle, Rejecting
    <2>4. CASE ~IoSettle
      BY <2>2, <2>4, ReadyGrows
    <2> QED BY <2>3, <2>4
  <1> QED BY <1>1, InitType, NextType, InitTag, NextTagInv, InitHot, NextHot, PTL
     DEF Spec, OnlyWrapperRequeues

-----------------------------------------------------------------------------
(* At most once.  With auto_ack=True the broker forgets a message when it   *)
(* delivers it, so a message is in one place at a time: in the queue, with  *)
(* one delivery that still waits for the user callback, or past it.         *)

Waiting == Elems(inbox) \union {j.d : j \in {k \in jobs : k.at = "queued"}}
               \union (IF io \in {"acquire", "handler"} THEN {cur} ELSE {})

Once ==
    /\ unacked = {} /\ parked = {}
    /\ \A c \in Elems(callbacks) : c.kind = "close"
    /\ \A j \in jobs : j.at \in {"queued", "done"}
    /\ \A d \in Waiting : calls[d.msg] = 0 /\ d.msg \notin ready
    /\ \A d, e \in Waiting : d.msg = e.msg => d = e
    /\ \A m \in ready : calls[m] = 0
    /\ \A m \in Messages : calls[m] <= 1

OnceInv == AutoAck => Once

LEMMA InitOnce == Init => OnceInv
  <1> SUFFICES ASSUME Init PROVE Once
    BY DEF OnceInv
  <1>1. /\ io = "new" /\ inbox = << >> /\ callbacks = << >> /\ jobs = {}
        /\ unacked = {} /\ parked = {} /\ ready = Messages
        /\ calls = [m \in Messages |-> 0]
    BY DEF Init
  <1>2. Waiting = {}
    BY <1>1, ElemsEmpty DEF Waiting
  <1> QED BY <1>1, <1>2, ElemsEmpty DEF Once

LEMMA WaitingType ==
  ASSUME TypeInv
  PROVE  \A d \in Waiting : d \in Delivery /\ d.msg \in Messages
  <1>1. Elems(inbox) \subseteq Delivery
    BY DEF TypeInv, TypeOK, Elems
  <1>2. \A j \in jobs : j.d \in Delivery
    BY DEF TypeInv, TypeOK, Job
  <1>3. io \in {"acquire", "handler"} => cur \in Delivery
    BY DEF TypeInv, Dispatching
  <1> QED BY <1>1, <1>2, <1>3 DEF Waiting, Delivery

\* A step by which no delivery is made or handled.
LEMMA OnceKept ==
  ASSUME Once, Waiting' \subseteq Waiting, UNCHANGED <<calls, ready, unacked, parked>>,
         \A c \in Elems(callbacks)' : c.kind = "close",
         \A j \in jobs' : j.at \in {"queued", "done"}
  PROVE  Once'
  <1>1. (\A d \in Waiting : calls[d.msg] = 0 /\ d.msg \notin ready)'
    BY DEF Once
  <1>2. (\A d, e \in Waiting : d.msg = e.msg => d = e)'
    BY DEF Once
  <1> QED BY <1>1, <1>2 DEF Once

\* The user callback is called for a delivery that waited for it.
LEMMA OnceCalled ==
  ASSUME TypeInv, Once, NEW d \in Waiting, Called(d.msg), Waiting' \subseteq Waiting \ {d},
         UNCHANGED <<ready, unacked, parked, callbacks>>,
         \A j \in jobs' : j.at \in {"queued", "done"}
  PROVE  Once'
  <1>1. d.msg \in Messages /\ calls \in [Messages -> 0 .. 2]
    BY WaitingType DEF TypeInv, TypeOK
  <1>2. calls[d.msg] = 0 /\ d.msg \notin ready
    BY DEF Once
  <1>3. \A m \in Messages : calls'[m] = IF m = d.msg THEN 1 ELSE calls[m]
    BY <1>1, <1>2 DEF Called
  <1>4. ASSUME NEW e \in Waiting' PROVE calls'[e.msg] = 0 /\ e.msg \notin ready'
    <2>1. e \in Waiting /\ e # d
      OBVIOUS
    <2>2. e.msg # d.msg
      BY <2>1 DEF Once
    <2>3. e.msg \in Messages /\ calls[e.msg] = 0 /\ e.msg \notin ready
      BY <2>1, WaitingType DEF Once
    <2> QED BY <1>3, <2>2, <2>3
  <1>5. ASSUME NEW m \in ready' PROVE calls'[m] = 0
    <2>1. m \in Messages /\ m # d.msg /\ calls[m] = 0
      BY <1>2, <1>5 DEF Once, TypeInv, TypeOK
    <2> QED BY <1>3, <2>1
  <1>6. ASSUME NEW m \in Messages PROVE calls'[m] <= 1
    BY <1>3 DEF Once
  <1>7. (\A e, f \in Waiting : e.msg = f.msg => e = f)'
    BY DEF Once
  <1>8. (unacked = {} /\ parked = {} /\ \A c \in Elems(callbacks) : c.kind = "close")'
    BY DEF Once
  <1> QED BY <1>4, <1>5, <1>6, <1>7, <1>8 DEF Once

\* With nothing unacknowledged the broker has nothing to put back.
LEMMA OnceRequeue ==
  ASSUME Once, Requeue
  PROVE  UNCHANGED <<ready, unacked, parked>>
  BY DEF Once, Requeue

LEMMA BrokerOnce ==
  ASSUME TypeInv, AutoAck, Once, \/ \E m \in Messages : BrokerDeliver(m) \/ BrokerReturn(m)
                                 \/ ConnBreak \/ ChanClose
  PROVE  Once'
  <1>1. ASSUME NEW m \in Messages, BrokerDeliver(m) PROVE Once'
    <2> DEFINE d == [msg |-> m, ch |-> chan, tag |-> nextTag, attempt |-> Attempt(m)]
    <2>1. d \in Delivery /\ d.msg = m
      BY DEF TypeInv, TypeOK, Delivery, Attempt
    <2>2. /\ inbox' = Append(inbox, d) /\ inbox \in Seq(Delivery)
          /\ m \in ready /\ ready' = ready \ {m}
          /\ UNCHANGED <<io, cur, callbacks, jobs, unacked, parked, calls>>
      BY <1>1 DEF BrokerDeliver, ConsumerAutoAck, TypeInv, TypeOK
    <2> HIDE DEF d
    <2>3. Elems(inbox)' = Elems(inbox) \union {d}
      BY <2>1, <2>2, ElemsAppend
    <2>4. Waiting' = Waiting \union {d}
      BY <2>2, <2>3 DEF Waiting
    <2>5. \A e \in Waiting : e.msg # d.msg
      BY <2>1, <2>2 DEF Once
    <2>6. ASSUME NEW e \in Waiting' PROVE calls'[e.msg] = 0 /\ e.msg \notin ready'
      BY <2>1, <2>2, <2>4 DEF Once
    <2>7. ASSUME NEW e \in Waiting', NEW f \in Waiting', e.msg = f.msg PROVE e = f
      BY <2>4, <2>5, <2>7 DEF Once
    <2>8. (/\ unacked = {} /\ parked = {} /\ \A c \in Elems(callbacks) : c.kind = "close"
           /\ \A j \in jobs : j.at \in {"queued", "done"})'
      BY <2>2 DEF Once
    <2>9. (\A n \in ready : calls[n] = 0)' /\ (\A n \in Messages : calls[n] <= 1)'
      BY <2>2 DEF Once
    <2> QED BY <2>6, <2>7, <2>8, <2>9 DEF Once
  <1>2. ASSUME NEW m \in Messages, BrokerReturn(m) PROVE Once'
    BY <1>2 DEF BrokerReturn, Once
  <1>3. CASE ConnBreak \/ ChanClose
    <2>1. /\ Requeue /\ inbox' \in {inbox, << >>}
          /\ UNCHANGED <<io, cur, callbacks, jobs, calls>>
      BY <1>3 DEF ConnBreak, ChanClose
    <2>2. Waiting' \subseteq Waiting
      BY <2>1, ElemsEmpty DEF Waiting
    <2>3. (\A c \in Elems(callbacks) : c.kind = "close")' /\ \A j \in jobs' : j.at \in {"queued", "done"}
      BY <2>1 DEF Once
    <2> QED BY <2>1, <2>2, <2>3, OnceRequeue, OnceKept
  <1> QED BY <1>1, <1>2, <1>3

LEMMA IoOnce ==
  ASSUME TypeInv, Distinct, HotInv, AutoAck, Once, Start \/ IoStep
  PROVE  Once'
  <1>types. inbox \in Seq(Delivery) /\ callbacks \in Seq(Callback)
    BY DEF TypeInv, TypeOK
  <1>1. CASE /\ UNCHANGED <<calls, jobs>>
             /\ UNCHANGED <<ready, unacked, parked>> \/ Requeue
             /\ inbox' \in {inbox, << >>} /\ callbacks' \in {callbacks, << >>}
             /\ io' \notin {"acquire", "handler"}
    <2>1. Waiting' \subseteq Waiting
      BY <1>1, ElemsEmpty DEF Waiting
    <2>2. (\A c \in Elems(callbacks) : c.kind = "close")' /\ \A j \in jobs' : j.at \in {"queued", "done"}
      BY <1>1, ElemsEmpty DEF Once
    <2>3. UNCHANGED <<calls, ready, unacked, parked>>
      BY <1>1, OnceRequeue
    <2> QED BY <2>1, <2>2, <2>3, OnceKept
  <1>2. CASE \/ Start \/ IoExit \/ IoLoop \/ IoConnect \/ IoConnectFails \/ IoSetup
             \/ IoSetupFails \/ IoPumpRaises \/ IoDispatch \/ IoReturn \/ IoSettleRaises
    BY <1>1, <1>2 DEF Start, IoExit, IoLoop, IoConnect, IoConnectFails, IoSetup, IoSetupFails,
             IoPumpRaises, IoDispatch, IoReturn, IoSettleRaises
  <1>3. CASE IoFail
    BY <1>1, <1>3 DEF IoFail, Close
  <1>4. CASE IoCallback
    <2>1. Head(callbacks).kind = "close"
      BY <1>4, <1>types, ElemsTail DEF IoCallback, Once
    <2>2. Close("closed") /\ io' = "top" /\ UNCHANGED <<jobs, calls>>
      BY <1>4, <2>1 DEF IoCallback, RunSettle, RunPoison, RunClose
    <2> QED BY <1>1, <2>2 DEF Close
  <1>5. CASE IoAccept
    <2>1. /\ inbox # << >> /\ inbox' = Tail(inbox) /\ io = "batch"
          /\ io' \in {"acquire", "handler"} => cur' = Head(inbox)
          /\ UNCHANGED <<callbacks, jobs, ready, unacked, parked, calls>>
      BY <1>5 DEF IoAccept
    <2>2. Elems(inbox) = {Head(inbox)} \union Elems(inbox)'
      BY <1>types, <2>1, ElemsTail
    <2>3. Waiting' \subseteq Waiting
      BY <2>1, <2>2 DEF Waiting
    <2>4. (\A c \in Elems(callbacks) : c.kind = "close")' /\ \A j \in jobs' : j.at \in {"queued", "done"}
      BY <2>1 DEF Once
    <2> QED BY <2>1, <2>3, <2>4, OnceKept
  <1>6. CASE IoAcquire
    <2> DEFINE n == [d |-> cur, at |-> "queued", kind |-> "ack"]
    <2>1. /\ io = "acquire" /\ io' = "batch" /\ jobs' \subseteq jobs \union {n}
          /\ UNCHANGED <<inbox, callbacks, ready, unacked, parked, calls>>
      BY <1>6 DEF IoAcquire
    <2>2. n.at = "queued" /\ n.d = cur
      OBVIOUS
    <2> HIDE DEF n
    <2>3. Waiting' \subseteq Waiting
      BY <2>1, <2>2 DEF Waiting
    <2>4. (\A c \in Elems(callbacks) : c.kind = "close")' /\ \A j \in jobs' : j.at \in {"queued", "done"}
      BY <2>1, <2>2 DEF Once
    <2> QED BY <2>1, <2>3, <2>4, OnceKept
  <1>7. CASE IoHandler
    <2>1. /\ io = "handler" /\ io' \notin {"acquire", "handler"} /\ Called(cur.msg)
          /\ UNCHANGED <<inbox, callbacks, jobs, ready, unacked, parked>>
      BY <1>7 DEF IoHandler, OnError
    <2>2. cur \in Waiting /\ Waiting' \subseteq Waiting \ {cur}
      BY <2>1 DEF Waiting, Distinct, Dispatching
    <2>3. \A j \in jobs' : j.at \in {"queued", "done"}
      BY <2>1 DEF Once
    <2> QED BY <2>1, <2>2, <2>3, OnceCalled
  <1>8. CASE IoSettle
    BY <1>8 DEF IoSettle, HotInv
  <1> QED BY <1>2, <1>3, <1>4, <1>5, <1>6, <1>7, <1>8 DEF IoStep

LEMMA WorkerOnce ==
  ASSUME TypeInv, Distinct, AutoAck, Once, NEW j \in jobs, WorkerStep(j)
  PROVE  Once'
  <1>1. /\ j.at \in {"queued", "done"}
        /\ UNCHANGED <<io, cur, inbox, ready, unacked, parked>>
    BY DEF Once, WorkerStep, WorkerRun, WorkerCheck, WorkerPost, WorkerDirect
  <1>2. CASE WorkerRun(j)
    <2>1. PICK kind : Advance(j, "done", kind)
      BY <1>2 DEF WorkerRun
    <2> DEFINE n == [j EXCEPT !.at = "done", !.kind = kind]
    <2>2. n.at = "done" /\ jobs' = (jobs \ {j}) \union {n}
      BY <2>1 DEF Advance, TypeInv, TypeOK, Job
    <2> HIDE DEF n
    <2>3. j.at = "queued" /\ Called(j.d.msg) /\ UNCHANGED callbacks
      BY <1>2 DEF WorkerRun
    <2>4. j.d \in Waiting
      BY <2>3 DEF Waiting
    <2>5. \A k \in jobs' : k.at \in {"queued", "done"} /\ (k.at = "queued" => k \in jobs /\ k # j)
      BY <2>2 DEF Once
    <2>6. Waiting' \subseteq Waiting \ {j.d}
      <3>1. {k.d : k \in {i \in jobs : i.at = "queued"}}'
               \subseteq {k.d : k \in {i \in jobs : i.at = "queued"}} \ {j.d}
        BY <2>5 DEF Distinct
      <3>2. j.d \notin Elems(inbox) /\ (io \in {"acquire", "handler"} => cur # j.d)
        BY DEF Distinct, Dispatching
      <3> QED BY <1>1, <3>1, <3>2 DEF Waiting
    <2> QED BY <1>1, <2>3, <2>4, <2>5, <2>6, OnceCalled
  <1>3. CASE WorkerCheck(j)
    <2>1. jobs' = jobs \ {j} /\ UNCHANGED <<callbacks, calls>>
      BY <1>3 DEF WorkerCheck, Finish
    <2>2. Waiting' \subseteq Waiting
      BY <1>1, <2>1 DEF Waiting
    <2>3. (\A c \in Elems(callbacks) : c.kind = "close")' /\ \A k \in jobs' : k.at \in {"queued", "done"}
      BY <2>1 DEF Once
    <2> QED BY <1>1, <2>1, <2>2, <2>3, OnceKept
  <1> QED BY <1>1, <1>2, <1>3 DEF WorkerStep, WorkerPost, WorkerDirect

LEMMA StopOnce ==
  ASSUME TypeInv, Once, StopSet \/ StopStep
  PROVE  Once'
  <1>1. /\ UNCHANGED <<io, cur, jobs, calls>> /\ inbox' \in {inbox, << >>}
        /\ UNCHANGED <<ready, unacked, parked>> \/ Requeue
    BY DEF StopSet, StopStep, StopShutdown, StopCheck, StopSchedule, StopDirect, Close
  <1>2. /\ Request \in Callback /\ Request.kind = "close" /\ Request.d = NoDelivery
        /\ callbacks' \in {callbacks, << >>, Append(callbacks, Request)} /\ callbacks \in Seq(Callback)
    BY StopPosts
  <1>3. Elems(callbacks)' \subseteq Elems(callbacks) \union {Request}
    BY StopPosts
  <1>4. Waiting' \subseteq Waiting
    BY <1>1, ElemsEmpty DEF Waiting
  <1>5. (\A b \in Elems(callbacks) : b.kind = "close")' /\ \A j \in jobs' : j.at \in {"queued", "done"}
    BY <1>1, <1>2, <1>3 DEF Once
  <1> QED BY <1>1, <1>4, <1>5, OnceRequeue, OnceKept

LEMMA NextOnce == TypeInv /\ PoolInv /\ HotInv /\ OnceInv /\ [Next]_vars => OnceInv'
  <1> SUFFICES ASSUME TypeInv, PoolInv, HotInv, OnceInv, [Next]_vars PROVE OnceInv'
    OBVIOUS
  <1>1. UNCHANGED config
    <2>1. Start \/ IoStep => UNCHANGED config
      BY DEF IoStep, Start, IoExit, IoLoop, IoConnect, IoConnectFails, IoSetup, IoSetupFails,
             IoFail, IoPumpRaises, IoCallback, IoDispatch, IoReturn, IoAccept, IoAcquire,
             IoHandler, IoSettle, IoSettleRaises
    <2>2. ASSUME NEW j \in jobs, WorkerStep(j) PROVE UNCHANGED config
      BY <2>2 DEF WorkerStep, WorkerRun, WorkerCheck, WorkerPost, WorkerDirect
    <2>3. StopSet \/ StopStep => UNCHANGED config
      BY DEF StopSet, StopStep, StopShutdown, StopCheck, StopSchedule, StopDirect
    <2>4. ASSUME \/ \E m \in Messages : BrokerDeliver(m) \/ BrokerReturn(m)
                 \/ ConnBreak \/ ChanClose
          PROVE  UNCHANGED config
      BY <2>4 DEF BrokerDeliver, BrokerReturn, ConnBreak, ChanClose
    <2> QED BY <2>1, <2>2, <2>3, <2>4 DEF Next, vars
  <1> SUFFICES ASSUME AutoAck, Once PROVE Once'
    BY <1>1 DEF OnceInv, AutoAck
  <1>2. Distinct
    BY DEF PoolInv
  <1>3. CASE UNCHANGED vars
    BY <1>3, OnceKept DEF vars, Waiting, Once
  <1>4. CASE Next
    BY <1>2, <1>4, BrokerOnce, IoOnce, WorkerOnce, StopOnce DEF Next
  <1> QED BY <1>3, <1>4

\* With auto_ack=True no message reaches the user callback twice, whatever connections,
\* channels and callbacks fail and whenever the listener is stopped (sync_adapter.py:340 on).
THEOREM CalledAtMostOnce == Spec => []AtMostOnce
  <1>1. OnceInv => AtMostOnce
    BY DEF OnceInv, Once, AtMostOnce
  <1> QED BY <1>1, InitType, NextType, InitTag, NextTagInv, InitPool, NextPool, InitHot, NextHot,
             InitOnce, NextOnce, PTL DEF Spec


-----------------------------------------------------------------------------
(* Settled once.  A delivery that is not settled yet is in one pair of      *)
(* hands: in pika's buffer, with the wrapper, with one worker or in one     *)
(* scheduled callback.  Each step passes it on or lets go of it, and what   *)
(* lets go of it on a live channel is what the broker was waiting for.      *)

\* The scheduled settlements, and the deliveries in somebody's hands.
Posted == {c \in Elems(callbacks) : c.kind # "close"}
Working == {j.d : j \in jobs}
Afoot == Elems(inbox) \union Working \union {c.d : c \in Posted}
             \union (IF io \in Dispatching THEN {cur} ELSE {})

Alone(s) == \A i, k \in 1 .. Len(s) : s[i].d = s[k].d /\ s[i].kind # "close" => i = k

HandInv ==
    /\ \A d \in Afoot : d.tag >= 1
    /\ Alone(callbacks)
    /\ \A c \in Posted : /\ c.d \notin Elems(inbox) /\ c.d \notin Working
                         /\ io \in Dispatching => c.d # cur

Awaited == conn = "open" /\ ~AutoAck => \A d \in Afoot : Usable(d) => d \in unacked

\* Once the wrapper is left, the delivery it could not settle is a dead one.
LeftBehind == ~AutoAck /\ cur # NoDelivery =>
                 io \in Dispatching \/ (io = "failed" /\ (~Usable(cur) \/ conn # "open"))

LEMMA InitHand == Init => HandInv /\ Awaited /\ LeftBehind
  <1> SUFFICES ASSUME Init PROVE HandInv /\ Awaited /\ LeftBehind
    OBVIOUS
  <1>1. /\ io = "new" /\ cur = NoDelivery /\ conn = "none"
        /\ inbox = << >> /\ callbacks = << >> /\ jobs = {}
    BY DEF Init
  <1>2. Afoot = {} /\ Posted = {}
    BY <1>1, ElemsEmpty DEF Afoot, Working, Posted, Dispatching
  <1>3. Alone(callbacks)
    BY <1>1 DEF Alone
  <1> QED BY <1>1, <1>2, <1>3 DEF HandInv, Awaited, LeftBehind

LEMMA AfootHeld == Afoot \subseteq Held
  BY DEF Afoot, Working, Held, Posted

\* A stop request in the queue of callbacks is for no delivery.
LEMMA CloseCallback ==
  ASSUME TypeInv, NEW c \in Elems(callbacks)
  PROVE  /\ c \in Callback /\ (c.kind = "close" <=> c \notin Posted)
         /\ c.kind = "close" => c.d = NoDelivery
  <1>1. c \in Callback
    BY DEF TypeInv, TypeOK, Elems
  <1> QED BY <1>1 DEF Callback, Kinds, Posted

-----------------------------------------------------------------------------
(* The queue of callbacks. *)

LEMMA AloneEmpty == Alone(<< >>)
  BY DEF Alone

LEMMA AloneAppend ==
  ASSUME NEW s \in Seq(Callback), NEW e \in Callback, Alone(s),
         \A c \in Elems(s) : c.kind # "close" \/ e.kind # "close" => c.d # e.d
  PROVE  Alone(Append(s, e))
  <1> DEFINE t == Append(s, e)
  <1>1. /\ Len(t) = Len(s) + 1 /\ t[Len(s) + 1] = e /\ Len(s) \in Nat
        /\ \A i \in 1 .. Len(s) : t[i] = s[i]
    OBVIOUS
  <1> HIDE DEF t
  <1>2. \A i \in 1 .. Len(s) : s[i] \in Elems(s)
    BY DEF Elems
  <1> SUFFICES ASSUME NEW i \in 1 .. Len(t), NEW k \in 1 .. Len(t),
                      t[i].d = t[k].d, t[i].kind # "close"
               PROVE  i = k
    BY DEF Alone, t
  <1>3. CASE i \in 1 .. Len(s) /\ k \in 1 .. Len(s)
    BY <1>1, <1>3 DEF Alone
  <1>4. CASE i \in 1 .. Len(s) /\ k = Len(s) + 1
    BY <1>1, <1>2, <1>4
  <1>5. CASE i = Len(s) + 1 /\ k \in 1 .. Len(s)
    BY <1>1, <1>2, <1>5
  <1>6. CASE i = Len(s) + 1 /\ k = Len(s) + 1
    BY <1>6
  <1> QED BY <1>1, <1>3, <1>4, <1>5, <1>6

\* The head is settled: nothing that is left in the queue is about its delivery.
LEMMA AloneTail ==
  ASSUME NEW s \in Seq(Callback), s # << >>, Alone(s)
  PROVE  /\ Alone(Tail(s))
         /\ Head(s).kind # "close" => \A c \in Elems(Tail(s)) : c.d # Head(s).d
  <1> DEFINE t == Tail(s)
  <1>1. /\ Len(s) \in Nat \ {0} /\ Len(t) = Len(s) - 1 /\ Head(s) = s[1]
        /\ \A i \in 1 .. Len(t) : t[i] = s[i + 1]
    OBVIOUS
  <1> HIDE DEF t
  <1>2. Alone(t)
    <2> SUFFICES ASSUME NEW i \in 1 .. Len(t), NEW k \in 1 .. Len(t),
                        t[i].d = t[k].d, t[i].kind # "close"
                 PROVE  i = k
      BY DEF Alone
    <2>1. i + 1 \in 1 .. Len(s) /\ k + 1 \in 1 .. Len(s) /\ t[i] = s[i + 1] /\ t[k] = s[k + 1]
      BY <1>1
    <2>2. i + 1 = k + 1
      BY <2>1 DEF Alone
    <2> QED BY <2>2
  <1>3. ASSUME Head(s).kind # "close", NEW c \in Elems(t) PROVE c.d # Head(s).d
    <2>1. PICK k \in 1 .. Len(t) : c = t[k]
      BY <1>3 DEF Elems
    <2>2. k + 1 \in 1 .. Len(s) /\ c = s[k + 1] /\ 1 \in 1 .. Len(s) /\ 1 # k + 1
      BY <1>1, <2>1
    <2> QED BY <1>1, <1>3, <2>2 DEF Alone
  <1> QED BY <1>2, <1>3 DEF t

\* The head is replaced by another callback for the same delivery.
LEMMA AloneCons ==
  ASSUME NEW s \in Seq(Callback), s # << >>, Alone(s), Head(s).kind # "close",
         NEW e \in Callback, e.d = Head(s).d, e.kind # "close"
  PROVE  Alone(<<e>> \o Tail(s))
  <1> DEFINE t == <<e>> \o Tail(s)
  <1>1. /\ Len(s) \in Nat \ {0} /\ Len(t) = Len(s) /\ Head(s) = s[1] /\ t[1] = e
        /\ \A i \in 2 .. Len(s) : t[i] = s[i]
    OBVIOUS
  <1> HIDE DEF t
  <1>2. \A i \in 1 .. Len(s) : t[i].d = s[i].d /\ (t[i].kind # "close" <=> s[i].kind # "close")
    BY <1>1
  <1> QED BY <1>1, <1>2 DEF Alone, t


-----------------------------------------------------------------------------
(* From hand to hand. *)

\* A step that lets go of deliveries.
LEMMA HandKept ==
  ASSUME HandInv, Elems(inbox)' \subseteq Elems(inbox), Working' \subseteq Working,
         Posted' \subseteq Posted, Alone(callbacks'),
         io' \in Dispatching => io \in Dispatching /\ cur' = cur
  PROVE  HandInv' /\ Afoot' \subseteq Afoot
  <1>1. Afoot' \subseteq Afoot
    BY DEF Afoot
  <1>2. (\A c \in Posted : /\ c.d \notin Elems(inbox) /\ c.d \notin Working
                           /\ io \in Dispatching => c.d # cur)'
    BY DEF HandInv
  <1>3. Alone(callbacks)' /\ (\A d \in Afoot : d.tag >= 1)'
    BY <1>1 DEF HandInv
  <1> QED BY <1>1, <1>2, <1>3 DEF HandInv

LEMMA DeliverHand ==
  ASSUME TypeInv, TagInv, HandInv, NEW m \in Messages, BrokerDeliver(m),
         NEW d, d = [msg |-> m, ch |-> chan, tag |-> nextTag, attempt |-> Attempt(m)]
  PROVE  HandInv' /\ Afoot' = Afoot \union {d}
  <1>1. d \in Delivery /\ d.ch = chan /\ d.tag = nextTag
    BY DEF TypeInv, TypeOK, Delivery, Attempt
  <1>2. /\ inbox' = Append(inbox, d) /\ inbox \in Seq(Delivery)
        /\ UNCHANGED <<io, cur, callbacks, jobs>>
    BY DEF BrokerDeliver, TypeInv, TypeOK
  <1>3. Elems(inbox)' = Elems(inbox) \union {d}
    BY <1>1, <1>2, ElemsAppend
  <1>4. d \notin Held
    <2>1. d.ch \in Nat /\ d.tag \in Nat /\ ~Known(d)
      BY <1>1 DEF Known, TypeInv, TypeOK
    <2> QED BY <2>1 DEF TagInv
  <1>5. UNCHANGED <<Working, Posted>>
    BY <1>2 DEF Working, Posted
  <1>6. Afoot' = Afoot \union {d}
    BY <1>2, <1>3, <1>5 DEF Afoot
  <1>7. \A e \in Afoot' : e.tag >= 1
    BY <1>1, <1>6 DEF TagInv, HandInv
  <1>8. ASSUME NEW c \in Posted PROVE c.d # d
    BY <1>4 DEF Posted, Held
  <1>9. (\A c \in Posted : /\ c.d \notin Elems(inbox) /\ c.d \notin Working
                           /\ io \in Dispatching => c.d # cur)'
    BY <1>2, <1>3, <1>5, <1>8 DEF HandInv
  <1> QED BY <1>2, <1>6, <1>7, <1>9 DEF HandInv

LEMMA BrokerHand ==
  ASSUME HandInv, \/ \E m \in Messages : BrokerReturn(m)
                  \/ ConnBreak \/ ChanClose
  PROVE  HandInv' /\ Afoot' \subseteq Afoot
  <1>1. /\ UNCHANGED <<io, cur, callbacks, jobs>> /\ inbox' \in {inbox, << >>}
    BY DEF BrokerReturn, ConnBreak, ChanClose
  <1>2. /\ Elems(inbox)' \subseteq Elems(inbox) /\ UNCHANGED <<Posted, Working>>
        /\ Alone(callbacks')
    BY <1>1, ElemsEmpty DEF Posted, Working, HandInv
  <1> QED BY <1>1, <1>2, HandKept

\* A callback at the head of the queue, which leaves it.
LEMMA CallbackHand ==
  ASSUME TypeInv, HandInv, IoCallback
  PROVE  /\ HandInv' /\ Afoot' \subseteq Afoot
         /\ RunSettle => Head(callbacks).d \in Held /\ Head(callbacks).d \notin Afoot'
  <1>1. /\ callbacks # << >> /\ callbacks \in Seq(Callback) /\ io \notin Dispatching
        /\ UNCHANGED <<cur, jobs>>
    BY DEF IoCallback, TypeInv, TypeOK, Dispatching
  <1>2. Elems(callbacks) = {Head(callbacks)} \union Elems(Tail(callbacks))
    BY <1>1, ElemsTail
  <1>3. /\ Alone(Tail(callbacks))
        /\ Head(callbacks).kind # "close" =>
              \A c \in Elems(Tail(callbacks)) : c.d # Head(callbacks).d
    BY <1>1, AloneTail DEF HandInv
  <1>4. UNCHANGED Working
    BY <1>1 DEF Working
  <1> DEFINE d == Head(callbacks).d
  <1>5. CASE RunSettle
    <2>1. callbacks' = Tail(callbacks) /\ UNCHANGED <<inbox, io>> /\ Head(callbacks).kind # "close"
      BY <1>5 DEF RunSettle
    <2>2. Head(callbacks) \in Posted /\ Posted' \subseteq Posted
      BY <1>2, <2>1 DEF Posted
    <2>3. HandInv' /\ Afoot' \subseteq Afoot
      BY <1>1, <1>3, <1>4, <2>1, <2>2, HandKept
    <2>4. d \in Held
      BY <2>2 DEF Held, Posted
    <2>5. d \notin Elems(inbox)' /\ d \notin Working'
      BY <1>4, <2>1, <2>2 DEF HandInv
    <2>6. \A c \in Posted' : c.d # d
      BY <1>3, <2>1 DEF Posted
    <2>7. io' \notin Dispatching
      BY <1>1, <2>1
    <2>8. d \notin Afoot'
      BY <2>5, <2>6, <2>7 DEF Afoot
    <2> QED BY <2>3, <2>4, <2>8
  <1>6. CASE RunPoison
    <2> DEFINE a == [kind |-> "ack", d |-> d]
    <2>1. /\ Tail(callbacks) \in Seq(Callback) /\ a \in Callback /\ a.kind # "close" /\ a.d = d
      BY <1>1, <1>6, CallbackHead DEF RunPoison, TypeInv, Callback, Kinds
    <2>2. /\ callbacks' \in {<<a>> \o Tail(callbacks), Tail(callbacks)} /\ UNCHANGED <<inbox, io>>
          /\ Head(callbacks).kind = "poison"
      BY <1>6 DEF RunPoison
    <2> HIDE DEF a
    <2>3. Head(callbacks) \in Posted
      BY <1>2, <2>2 DEF Posted
    <2>4. Elems(callbacks)' \subseteq {a} \union Elems(Tail(callbacks))
      BY <2>1, <2>2, ElemsCons
    <2>5. Posted' \subseteq {a} \union Posted
      BY <1>2, <2>4 DEF Posted
    <2>6. Alone(callbacks')
      BY <1>1, <1>3, <2>1, <2>2, AloneCons DEF HandInv
    <2>7. Afoot' \subseteq Afoot
      BY <1>1, <1>4, <2>1, <2>2, <2>3, <2>5 DEF Afoot
    <2>8. ASSUME NEW c \in Posted' PROVE c.d \notin Elems(inbox)' /\ c.d \notin Working'
      <3>1. \E b \in Posted : c.d = b.d
        BY <2>1, <2>3, <2>5
      <3> QED BY <1>4, <2>2, <3>1 DEF HandInv
    <2>9. HandInv'
      BY <1>1, <2>2, <2>6, <2>7, <2>8 DEF HandInv
    <2> QED BY <1>6, <2>7, <2>9 DEF RunPoison, RunSettle
  <1>7. CASE RunClose
    <2>1. io' = "top" /\ inbox' = << >> /\ callbacks' = << >>
      BY <1>7 DEF RunClose, Close
    <2>2. Elems(inbox)' = {} /\ Posted' = {} /\ Alone(callbacks') /\ io' \notin Dispatching
      BY <2>1, ElemsEmpty, AloneEmpty DEF Posted, Dispatching
    <2>3. HandInv' /\ Afoot' \subseteq Afoot
      BY <1>4, <2>2, HandKept
    <2> QED BY <1>7, <2>3 DEF RunClose, RunSettle
  <1> QED BY <1>5, <1>6, <1>7 DEF IoCallback

LEMMA IoHand ==
  ASSUME TypeInv, HandInv, Start \/ IoStep
  PROVE  HandInv' /\ Afoot' \subseteq Afoot
  <1>types. inbox \in Seq(Delivery)
    BY DEF TypeInv, TypeOK
  <1>1. CASE /\ UNCHANGED jobs
             /\ inbox' \in {inbox, << >>} /\ callbacks' \in {callbacks, << >>}
             /\ io' \in Dispatching => io \in Dispatching /\ cur' = cur
    <2>1. /\ Elems(inbox)' \subseteq Elems(inbox) /\ Posted' \subseteq Posted
          /\ UNCHANGED Working /\ Alone(callbacks')
      BY <1>1, ElemsEmpty, AloneEmpty DEF Posted, Working, HandInv
    <2> QED BY <1>1, <2>1, HandKept
  <1>2. CASE \/ Start \/ IoExit \/ IoLoop \/ IoConnect \/ IoConnectFails \/ IoSetup
             \/ IoSetupFails \/ IoPumpRaises \/ IoDispatch \/ IoReturn
    BY <1>1, <1>2 DEF Start, IoExit, IoLoop, IoConnect, IoConnectFails, IoSetup, IoSetupFails,
             IoPumpRaises, IoDispatch, IoReturn, Dispatching
  <1>3. CASE IoFail
    BY <1>1, <1>3 DEF IoFail, Close, Dispatching
  <1>4. CASE IoHandler \/ IoSettle \/ IoSettleRaises
    BY <1>1, <1>4 DEF IoHandler, IoSettle, IoSettleRaises, Dispatching
  <1>5. CASE IoCallback
    BY <1>5, CallbackHand
  <1>6. CASE IoAccept
    <2>1. /\ inbox # << >> /\ inbox' = Tail(inbox) /\ io \notin Dispatching
          /\ io' \in Dispatching => cur' = Head(inbox)
          /\ UNCHANGED <<callbacks, jobs>>
      BY <1>6 DEF IoAccept, Dispatching
    <2>2. Elems(inbox) = {Head(inbox)} \union Elems(inbox)'
      BY <1>types, <2>1, ElemsTail
    <2>3. UNCHANGED <<Working, Posted>>
      BY <2>1 DEF Working, Posted
    <2>4. Afoot' \subseteq Afoot
      BY <2>1, <2>2, <2>3 DEF Afoot
    <2>5. (\A c \in Posted : /\ c.d \notin Elems(inbox) /\ c.d \notin Working
                             /\ io \in Dispatching => c.d # cur)'
      BY <2>1, <2>2, <2>3 DEF HandInv
    <2> QED BY <2>1, <2>4, <2>5 DEF HandInv
  <1>7. CASE IoAcquire
    <2> DEFINE n == [d |-> cur, at |-> "queued", kind |-> "ack"]
    <2>1. /\ io \in Dispatching /\ io' \notin Dispatching
          /\ jobs' \subseteq jobs \union {n} /\ UNCHANGED <<inbox, callbacks>>
      BY <1>7 DEF IoAcquire, Dispatching
    <2>2. n.d = cur
      OBVIOUS
    <2> HIDE DEF n
    <2>3. Working' \subseteq Working \union {cur} /\ UNCHANGED Posted
      BY <2>1, <2>2 DEF Working, Posted
    <2>4. Afoot' \subseteq Afoot
      BY <2>1, <2>3 DEF Afoot
    <2>5. (\A c \in Posted : c.d \notin Elems(inbox) /\ c.d \notin Working)'
      BY <2>1, <2>3 DEF HandInv
    <2> QED BY <2>1, <2>4, <2>5 DEF HandInv
  <1> QED BY <1>2, <1>3, <1>4, <1>5, <1>6, <1>7 DEF IoStep

LEMMA WorkerHand ==
  ASSUME TypeInv, Distinct, HandInv, NEW j \in jobs, WorkerStep(j)
  PROVE  HandInv' /\ Afoot' \subseteq Afoot
  <1>1. UNCHANGED <<io, cur, inbox>>
    BY DEF WorkerStep, WorkerRun, WorkerCheck, WorkerPost, WorkerDirect
  <1>2. Working' \subseteq Working
    BY WorkerJobs, AdvanceHeld DEF TypeInv, Working
  <1> DEFINE p == [kind |-> j.kind, d |-> j.d]
  <1>3. p \in Callback /\ callbacks \in Seq(Callback) /\ p.d = j.d /\ p.kind # "close"
    BY DEF TypeInv, TypeOK, Job, Callback, Kinds
  <1>4. UNCHANGED callbacks \/ (callbacks' = Append(callbacks, p) /\ jobs' = jobs \ {j})
    BY DEF WorkerStep, WorkerRun, WorkerCheck, WorkerPost, WorkerDirect, Scheduled, AfterPost
  <1> HIDE DEF p
  <1>5. CASE UNCHANGED callbacks
    <2>1. UNCHANGED Posted /\ Alone(callbacks')
      BY <1>5 DEF Posted, HandInv
    <2> QED BY <1>1, <1>2, <2>1, HandKept
  <1>6. CASE callbacks' = Append(callbacks, p) /\ jobs' = jobs \ {j}
    <2>1. Elems(callbacks)' = Elems(callbacks) \union {p}
      BY <1>3, <1>6, ElemsAppend
    <2>2. Posted' = Posted \union {p}
      BY <1>3, <2>1 DEF Posted
    <2>3. j.d \in Working /\ j.d \in Afoot /\ j.d # NoDelivery
      <3>1. j.d \in Working /\ j.d \in Afoot
        BY DEF Working, Afoot
      <3> QED BY <3>1 DEF HandInv, NoDelivery
    <2>4. Alone(callbacks')
      <3>1. \A c \in Elems(callbacks) : c.d # p.d
        BY <1>3, <2>3, CloseCallback DEF HandInv
      <3> QED BY <1>3, <1>6, <3>1, AloneAppend DEF HandInv
    <2>5. Afoot' \subseteq Afoot
      BY <1>1, <1>2, <1>3, <2>2, <2>3 DEF Afoot
    <2>6. p.d \notin Elems(inbox)' /\ p.d \notin Working' /\ (io' \in Dispatching => p.d # cur')
      BY <1>1, <1>3, <1>6 DEF Distinct, Working
    <2>7. (\A c \in Posted : /\ c.d \notin Elems(inbox) /\ c.d \notin Working
                             /\ io \in Dispatching => c.d # cur)'
      BY <1>1, <1>2, <2>2, <2>6 DEF HandInv
    <2> QED BY <2>4, <2>5, <2>7 DEF HandInv
  <1> QED BY <1>4, <1>5, <1>6

LEMMA StopHand ==
  ASSUME TypeInv, HandInv, StopSet \/ StopStep
  PROVE  HandInv' /\ Afoot' \subseteq Afoot
  <1>1. /\ UNCHANGED <<io, cur, jobs>> /\ inbox' \in {inbox, << >>}
    BY DEF StopSet, StopStep, StopShutdown, StopCheck, StopSchedule, StopDirect, Close
  <1>2. /\ Request \in Callback /\ Request.kind = "close" /\ Request.d = NoDelivery
        /\ callbacks' \in {callbacks, << >>, Append(callbacks, Request)} /\ callbacks \in Seq(Callback)
    BY StopPosts
  <1>3. Elems(callbacks)' \subseteq Elems(callbacks) \union {Request}
    BY StopPosts
  <1>4. Posted' \subseteq Posted
    BY <1>2, <1>3 DEF Posted
  <1>5. \A b \in Posted : b.d # NoDelivery
    BY DEF HandInv, Afoot, NoDelivery
  <1>6. Alone(callbacks')
    <2>1. \A b \in Elems(callbacks) : b.kind # "close" => b.d # Request.d
      BY <1>2, <1>5 DEF Posted
    <2> QED BY <1>1, <1>2, <2>1, AloneAppend, AloneEmpty DEF HandInv
  <1>7. Elems(inbox)' \subseteq Elems(inbox) /\ UNCHANGED Working
    BY <1>1, ElemsEmpty DEF Working
  <1> QED BY <1>1, <1>4, <1>6, <1>7, HandKept


-----------------------------------------------------------------------------
(* What the broker waits for. *)

\* A step that gives up a delivery nobody has any more, or the channel with all of them.
LEMMA AwaitKept ==
  ASSUME Awaited, config' = config, Afoot' \subseteq Afoot,
         \/ UNCHANGED <<conn, chan, chanOpen>> /\ \A e \in Afoot' : e \in unacked => e \in unacked'
         \/ conn' # "open"
         \/ ~chanOpen'
  PROVE  Awaited'
  <1>1. AutoAck' = AutoAck
    BY DEF AutoAck
  <1>2. CASE conn' # "open"
    BY <1>2 DEF Awaited
  <1>3. CASE ~chanOpen'
    BY <1>3 DEF Awaited, Usable
  <1>4. CASE UNCHANGED <<conn, chan, chanOpen>> /\ \A e \in Afoot' : e \in unacked => e \in unacked'
    <2>1. \A e : Usable(e)' = Usable(e)
      BY <1>4 DEF Usable
    <2> QED BY <1>1, <1>4, <2>1 DEF Awaited
  <1> QED BY <1>2, <1>3, <1>4

\* An ack or a nack removes no delivery but its own.
LEMMA SettleOwn ==
  ASSUME TagInv, NEW kind, NEW d \in Held, Settle(kind, d)
  PROVE  \A e \in unacked : e # d => e \in unacked'
  <1> SUFFICES ASSUME NEW e \in unacked, e # d PROVE e \in unacked'
    OBVIOUS
  <1>1. ~(e.ch = SentOn(d) /\ e.tag = d.tag)
    BY DEF TagInv, Held, SentOn
  <1> QED BY <1>1 DEF Settle

LEMMA BrokerAwait ==
  ASSUME TypeInv, TagInv, HandInv, Awaited,
         \/ \E m \in Messages : BrokerDeliver(m) \/ BrokerReturn(m)
         \/ ConnBreak \/ ChanClose
  PROVE  Awaited'
  <1>1. UNCHANGED config
    BY DEF BrokerDeliver, BrokerReturn, ConnBreak, ChanClose
  <1>2. ASSUME NEW m \in Messages, BrokerDeliver(m) PROVE Awaited'
    <2> DEFINE d == [msg |-> m, ch |-> chan, tag |-> nextTag, attempt |-> Attempt(m)]
    <2>1. /\ UNCHANGED <<conn, chan, chanOpen>>
          /\ ~AutoAck => unacked' = unacked \union {d}
      BY <1>2 DEF BrokerDeliver, ConsumerAutoAck
    <2>2. Afoot' = Afoot \union {d}
      BY <1>2, DeliverHand
    <2> HIDE DEF d
    <2>3. \A e : Usable(e)' = Usable(e)
      BY <2>1 DEF Usable
    <2> QED BY <1>1, <2>1, <2>2, <2>3 DEF Awaited, AutoAck
  <1>3. CASE \E m \in Messages : BrokerReturn(m)
    <2>1. UNCHANGED <<conn, chan, chanOpen, unacked>>
      BY <1>3 DEF BrokerReturn
    <2>2. Afoot' \subseteq Afoot
      BY <1>3, BrokerHand
    <2> QED BY <1>1, <2>1, <2>2, AwaitKept
  <1>4. CASE ConnBreak \/ ChanClose
    <2>1. conn' # "open" \/ ~chanOpen'
      BY <1>4 DEF ConnBreak, ChanClose
    <2>2. Afoot' \subseteq Afoot
      BY <1>4, BrokerHand
    <2> QED BY <1>1, <2>1, <2>2, AwaitKept
  <1> QED BY <1>2, <1>3, <1>4

LEMMA IoAwait ==
  ASSUME TypeInv, TagInv, Distinct, OffInv, AckInv, HandInv, Awaited, Start \/ IoStep
  PROVE  Awaited'
  <1>config. UNCHANGED config
    BY DEF IoStep, Start, IoExit, IoLoop, IoConnect, IoConnectFails, IoSetup, IoSetupFails,
           IoFail, IoPumpRaises, IoCallback, IoDispatch, IoReturn, IoAccept, IoAcquire,
           IoHandler, IoSettle, IoSettleRaises
  <1>afoot. Afoot' \subseteq Afoot
    BY IoHand
  <1>1. CASE UNCHANGED <<conn, chan, chanOpen, unacked>>
    BY <1>1, <1>config, <1>afoot, AwaitKept
  <1>2. CASE \/ Start \/ IoExit \/ IoLoop \/ IoConnectFails \/ IoSetupFails \/ IoDispatch
             \/ IoReturn \/ IoAccept \/ IoAcquire \/ IoHandler \/ IoSettleRaises
    BY <1>1, <1>2 DEF Start, IoExit, IoLoop, IoConnectFails, IoSetupFails, IoDispatch, IoReturn,
             IoAccept, IoAcquire, IoHandler, IoSettleRaises
  <1>3. CASE IoConnect
    <2>1. ~chanOpen'
      BY <1>3 DEF IoConnect, OffInv, AckInv
    <2> QED BY <2>1, <1>config, <1>afoot, AwaitKept
  <1>4. CASE IoSetup
    <2>1. chan' = chan + 1 /\ chan \in Nat
      BY <1>4 DEF IoSetup, TypeInv, TypeOK
    <2>2. \A d \in Afoot : d.ch \in Nat /\ d.ch <= chan
      BY <2>1, AfootHeld DEF TagInv, Known
    <2>3. \A d \in Afoot' : ~Usable(d)'
      BY <1>afoot, <2>1, <2>2 DEF Usable
    <2> QED BY <2>3 DEF Awaited
  <1>5. CASE IoFail
    <2>1. UNCHANGED <<conn, chan, chanOpen, unacked>> \/ ~chanOpen'
      BY <1>5 DEF IoFail, Close
    <2> QED BY <2>1, <1>config, <1>afoot, AwaitKept
  <1>6. CASE IoPumpRaises
    <2>1. ~chanOpen'
      BY <1>6 DEF IoPumpRaises
    <2> QED BY <2>1, <1>config, <1>afoot, AwaitKept
  <1>7. CASE IoCallback
    <2>1. CASE RunSettle
      <3>1. /\ Settle(Head(callbacks).kind, Head(callbacks).d)
            /\ UNCHANGED <<conn, chan, chanOpen>>
        BY <2>1 DEF RunSettle
      <3>2. Head(callbacks).d \in Held /\ Head(callbacks).d \notin Afoot'
        BY <1>7, <2>1, CallbackHand
      <3>3. \A e \in Afoot' : e \in unacked => e \in unacked'
        BY <3>1, <3>2, SettleOwn
      <3> QED BY <3>1, <3>3, <1>config, <1>afoot, AwaitKept
    <2>2. CASE RunPoison
      BY <1>1, <2>2 DEF RunPoison
    <2>3. CASE RunClose
      <3>1. ~chanOpen'
        BY <2>3 DEF RunClose, Close
      <3> QED BY <3>1, <1>config, <1>afoot, AwaitKept
    <2> QED BY <1>7, <2>1, <2>2, <2>3 DEF IoCallback
  <1>8. CASE IoSettle
    <2>1. /\ Settle(IF io = "ack" THEN "ack" ELSE "requeue", cur)
          /\ io \in Dispatching /\ io' \notin Dispatching
          /\ UNCHANGED <<conn, chan, chanOpen, inbox, callbacks, jobs>>
      BY <1>8 DEF IoSettle, Dispatching
    <2>2. cur \in Held /\ cur \notin Afoot'
      BY <2>1 DEF Held, Afoot, Distinct, HandInv, Working, Posted
    <2>3. \A e \in Afoot' : e \in unacked => e \in unacked'
      BY <2>1, <2>2, SettleOwn
    <2> QED BY <2>1, <2>3, <1>config, <1>afoot, AwaitKept
  <1> QED BY <1>2, <1>3, <1>4, <1>5, <1>6, <1>7, <1>8 DEF IoStep

LEMMA WorkerAwait ==
  ASSUME TypeInv, Distinct, HandInv, Awaited, NEW j \in jobs, WorkerStep(j)
  PROVE  Awaited'
  <1>1. UNCHANGED <<config, conn, chan, chanOpen, unacked>>
    BY DEF WorkerStep, WorkerRun, WorkerCheck, WorkerPost, WorkerDirect
  <1> QED BY <1>1, WorkerHand, AwaitKept

LEMMA StopAwait ==
  ASSUME TypeInv, HandInv, Awaited, StopSet \/ StopStep
  PROVE  Awaited'
  <1>1. /\ UNCHANGED config
        /\ UNCHANGED <<conn, chan, chanOpen, unacked>> \/ ~chanOpen'
    BY DEF StopSet, StopStep, StopShutdown, StopCheck, StopSchedule, StopDirect, Close
  <1> QED BY <1>1, StopHand, AwaitKept

\* Only the I/O thread makes a delivery usable again, and not the one it has left behind.
LEMMA LeftKept ==
  ASSUME LeftBehind, UNCHANGED <<config, cur, io>>,
         \/ UNCHANGED <<conn, chan, chanOpen>>
         \/ conn' # "open"
         \/ ~chanOpen'
  PROVE  LeftBehind'
  BY DEF LeftBehind, AutoAck, Usable

LEMMA IoLeft ==
  ASSUME LeftBehind, Start \/ IoStep
  PROVE  LeftBehind'
  <1>config. UNCHANGED AutoAck
    BY DEF IoStep, Start, IoExit, IoLoop, IoConnect, IoConnectFails, IoSetup, IoSetupFails,
           IoFail, IoPumpRaises, IoCallback, IoDispatch, IoReturn, IoAccept, IoAcquire,
           IoHandler, IoSettle, IoSettleRaises, AutoAck
  <1>1. CASE cur' = cur /\ io \notin Dispatching \union {"failed"}
    BY <1>1, <1>config DEF LeftBehind
  <1>2. CASE \/ Start \/ IoExit \/ IoLoop \/ IoConnect \/ IoConnectFails \/ IoSetup
             \/ IoSetupFails \/ IoPumpRaises \/ IoCallback \/ IoDispatch \/ IoReturn
    BY <1>1, <1>2 DEF Start, IoExit, IoLoop, IoConnect, IoConnectFails, IoSetup, IoSetupFails,
             IoPumpRaises, IoCallback, IoDispatch, IoReturn, Dispatching
  <1>3. CASE IoFail \/ IoAcquire \/ IoSettle
    <2>1. cur' = NoDelivery
      BY <1>3 DEF IoFail, IoAcquire, IoSettle
    <2> QED BY <2>1 DEF LeftBehind
  <1>4. CASE IoAccept
    <2>1. io = "batch" /\ (cur' = cur \/ io' \in {"acquire", "handler"})
      BY <1>4 DEF IoAccept
    <2> QED BY <1>1, <2>1 DEF LeftBehind, Dispatching
  <1>5. CASE IoHandler
    <2>1. ~AutoAck => io' \in {"ack", "nack"}
      BY <1>5 DEF IoHandler, OnError
    <2> QED BY <2>1, <1>config DEF LeftBehind, Dispatching
  <1>6. CASE IoSettleRaises
    <2>1. /\ io' = "failed" /\ UNCHANGED <<conn, chan, chanOpen, cur>>
          /\ ~Usable(cur) \/ conn = "broken"
      BY <1>6 DEF IoSettleRaises
    <2> QED BY <2>1 DEF LeftBehind, Usable
  <1> QED BY <1>2, <1>3, <1>4, <1>5, <1>6 DEF IoStep

SettleInv == HandInv /\ Awaited /\ LeftBehind

LEMMA NextSettle ==
  TypeInv /\ TagInv /\ PoolInv /\ OffInv /\ AckInv /\ SettleInv /\ [Next]_vars => SettleInv'
  <1> SUFFICES ASSUME TypeInv, TagInv, PoolInv, OffInv, AckInv, HandInv, Awaited, LeftBehind,
                      [Next]_vars
               PROVE  HandInv' /\ Awaited' /\ LeftBehind'
    BY DEF SettleInv
  <1>1. Distinct
    BY DEF PoolInv
  <1>2. CASE Start \/ IoStep
    BY <1>1, <1>2, IoHand, IoAwait, IoLeft
  <1>3. ASSUME NEW j \in jobs, WorkerStep(j) PROVE HandInv' /\ Awaited' /\ LeftBehind'
    <2>1. UNCHANGED <<config, cur, io, conn, chan, chanOpen>>
      BY <1>3 DEF WorkerStep, WorkerRun, WorkerCheck, WorkerPost, WorkerDirect
    <2> QED BY <1>1, <1>3, <2>1, WorkerHand, WorkerAwait, LeftKept
  <1>4. CASE StopSet \/ StopStep
    <2>1. /\ UNCHANGED <<config, cur, io>>
          /\ UNCHANGED <<conn, chan, chanOpen>> \/ ~chanOpen'
      BY <1>4 DEF StopSet, StopStep, StopShutdown, StopCheck, StopSchedule, StopDirect, Close
    <2> QED BY <1>4, <2>1, StopHand, StopAwait, LeftKept
  <1>5. CASE \/ \E m \in Messages : BrokerDeliver(m) \/ BrokerReturn(m)
             \/ ConnBreak \/ ChanClose
    <2>1. /\ UNCHANGED <<config, cur, io>>
          /\ UNCHANGED <<conn, chan, chanOpen>> \/ conn' # "open" \/ ~chanOpen'
      BY <1>5 DEF BrokerDeliver, BrokerReturn, ConnBreak, ChanClose
    <2> QED BY <1>5, <2>1, DeliverHand, BrokerHand, BrokerAwait, LeftKept
  <1>6. CASE UNCHANGED vars
    <2>1. UNCHANGED <<Elems(inbox), Posted, Working>> /\ UNCHANGED <<config, cur, io, callbacks>>
      BY <1>6 DEF vars, Posted, Working
    <2>2. HandInv' /\ Afoot' \subseteq Afoot
      BY <2>1, HandKept DEF HandInv
    <2>3. UNCHANGED <<conn, chan, chanOpen, unacked>>
      BY <1>6 DEF vars
    <2> QED BY <2>1, <2>2, <2>3, AwaitKept, LeftKept
  <1> QED BY <1>2, <1>3, <1>4, <1>5, <1>6 DEF Next

\* The delivery somebody still has to settle.
LEMMA OutstandingAfoot ==
  ASSUME TypeInv, SettleInv, conn = "open", ~AutoAck, NEW d \in Outstanding, Usable(d)
  PROVE  d \in Afoot
  <1>1. CASE d \in {j.d : j \in jobs}
    BY <1>1 DEF Afoot, Working
  <1>2. CASE d \in {callbacks[i].d : i \in {k \in 1 .. Len(callbacks) : callbacks[k].kind # "close"}}
    BY <1>2 DEF Afoot, Posted, Elems
  <1>3. CASE cur # NoDelivery /\ d = cur
    BY <1>3 DEF SettleInv, LeftBehind, Afoot
  <1> QED BY <1>1, <1>2, <1>3 DEF Outstanding

\* A delivery is settled once, and with a tag the broker still waits for: by the worker
\* that has it, by one scheduled callback or by the wrapper (sync_adapter.py:212 on, 330),
\* for every number of workers and however often the channel is replaced.
THEOREM SettledJustOnce == Spec => []SettledOnce
  <1>1. TypeInv /\ PoolInv /\ SettleInv => SettledOnce
    <2> SUFFICES ASSUME TypeInv, PoolInv, SettleInv PROVE SettledOnce
      OBVIOUS
    <2>1. conn = "open" /\ ~AutoAck => \A d \in Outstanding : Usable(d) => d \in unacked
      BY OutstandingAfoot DEF SettleInv, Awaited
    <2>2. \A i, k \in 1 .. Len(callbacks) :
             callbacks[i].d = callbacks[k].d /\ callbacks[i].kind # "close" => i = k
      BY DEF SettleInv, HandInv, Alone
    <2>3. \A j, k \in jobs : j.d = k.d => j = k
      BY DEF PoolInv, Distinct
    <2>4. ASSUME NEW j \in jobs, NEW i \in 1 .. Len(callbacks) PROVE callbacks[i].d # j.d
      <3>1. callbacks[i] \in Elems(callbacks)
        BY DEF Elems
      <3>2. j.d \in Working /\ j.d.tag >= 1
        BY DEF Working, Afoot, SettleInv, HandInv
      <3>3. CASE callbacks[i] \in Posted
        BY <3>2, <3>3 DEF SettleInv, HandInv
      <3>4. CASE callbacks[i] \notin Posted
        BY <3>1, <3>2, <3>4, CloseCallback DEF NoDelivery
      <3> QED BY <3>3, <3>4
    <2> QED BY <2>1, <2>2, <2>3, <2>4 DEF SettledOnce
  <1>2. Init => SettleInv
    BY InitHand DEF SettleInv
  <1> QED BY <1>1, <1>2, InitType, NextType, InitTag, NextTagInv, InitPool, NextPool, InitOff, NextOff,
             InitAck, NextAck, NextSettle, PTL DEF Spec


-----------------------------------------------------------------------------
(* The contract.  What is on its way to the broker as a settlement or a     *)
(* copy is about a message the user callback has been given, and with       *)
(* auto_ack the broker has forgotten what is not in its queue any more.     *)

TriedInv ==
    /\ \A j \in jobs : j.at # "queued" => calls[j.d.msg] > 0
    /\ \A c \in Posted : calls[c.d.msg] > 0
    /\ AutoAck => Messages \subseteq ready \union acked

LEMMA InitTried == Init => TriedInv
  <1> SUFFICES ASSUME Init PROVE TriedInv
    OBVIOUS
  <1>1. callbacks = << >> /\ jobs = {} /\ ready = Messages
    BY DEF Init
  <1> QED BY <1>1, ElemsEmpty DEF TriedInv, Posted

\* A step that calls nobody, and after which nothing new is tried.
LEMMA TriedKept ==
  ASSUME TriedInv, UNCHANGED <<config, calls>>,
         \A j \in jobs' : j.at # "queued" => j \in jobs \/ calls[j.d.msg] > 0,
         \A c \in Posted' : c \in Posted \/ calls[c.d.msg] > 0,
         AutoAck => ready \subseteq ready' \union acked' /\ acked \subseteq acked'
  PROVE  TriedInv'
  <1>1. AutoAck' = AutoAck
    BY DEF AutoAck
  <1>2. (\A j \in jobs : j.at # "queued" => calls[j.d.msg] > 0)'
    BY DEF TriedInv
  <1>3. (\A c \in Posted : calls[c.d.msg] > 0)'
    BY DEF TriedInv
  <1> QED BY <1>1, <1>2, <1>3 DEF TriedInv

\* The callback gets a message: what was tried stays tried.
LEMMA CalledMore ==
  ASSUME TypeOK, NEW m \in Messages, Called(m)
  PROVE  /\ calls'[m] > 0
         /\ \A n \in Messages : calls[n] > 0 => calls'[n] > 0
  <1>1. calls \in [Messages -> 0 .. 2]
    BY DEF TypeOK
  <1>2. \A n \in Messages : calls'[n] = IF n # m THEN calls[n] ELSE IF calls[m] < 2 THEN calls[m] + 1 ELSE 2
    BY <1>1 DEF Called
  <1> QED BY <1>1, <1>2

LEMMA SettleKeeps ==
  ASSUME NEW kind, NEW d, Settle(kind, d)
  PROVE  ready \subseteq ready' /\ acked \subseteq acked'
  BY DEF Settle

LEMMA BrokerTried ==
  ASSUME TriedInv, \/ \E m \in Messages : BrokerDeliver(m) \/ BrokerReturn(m)
                   \/ ConnBreak \/ ChanClose
  PROVE  TriedInv'
  <1>1. UNCHANGED <<config, calls, jobs, callbacks>>
    BY DEF BrokerDeliver, BrokerReturn, ConnBreak, ChanClose
  <1>2. AutoAck => ready \subseteq ready' \union acked' /\ acked \subseteq acked'
    BY DEF BrokerDeliver, BrokerReturn, ConnBreak, ChanClose, Requeue, ConsumerAutoAck
  <1> QED BY <1>1, <1>2, TriedKept DEF Posted

LEMMA IoTried ==
  ASSUME TypeInv, TriedInv, Start \/ IoStep
  PROVE  TriedInv'
  <1>types. inbox \in Seq(Delivery) /\ callbacks \in Seq(Callback)
    BY DEF TypeInv, TypeOK
  <1>1. CASE /\ UNCHANGED <<config, calls, jobs>> /\ callbacks' \in {callbacks, << >>}
             /\ ready \subseteq ready' /\ acked \subseteq acked'
    <2>1. Posted' \subseteq Posted
      BY <1>1, ElemsEmpty DEF Posted
    <2> QED BY <1>1, <2>1, TriedKept
  <1>2. CASE \/ Start \/ IoExit \/ IoLoop \/ IoConnect \/ IoConnectFails \/ IoSetup
             \/ IoSetupFails \/ IoPumpRaises \/ IoDispatch \/ IoReturn \/ IoAccept \/ IoSettleRaises
    BY <1>1, <1>2 DEF Start, IoExit, IoLoop, IoConnect, IoConnectFails, IoSetup, IoSetupFails,
             IoPumpRaises, IoDispatch, IoReturn, IoAccept, IoSettleRaises
  <1>3. CASE IoFail
    BY <1>1, <1>3 DEF IoFail, Close, Requeue
  <1>4. CASE IoCallback
    <2>1. callbacks # << >> /\ UNCHANGED <<config, calls, jobs>>
      BY <1>4 DEF IoCallback
    <2>2. Elems(callbacks) = {Head(callbacks)} \union Elems(Tail(callbacks))
      BY <1>types, <2>1, ElemsTail
    <2>3. CASE RunSettle
      <3>1. callbacks' = Tail(callbacks) /\ ready \subseteq ready' /\ acked \subseteq acked'
        BY <2>3, SettleKeeps DEF RunSettle
      <3> QED BY <2>1, <2>2, <3>1, TriedKept DEF Posted
    <2>4. CASE RunPoison
      <3> DEFINE a == [kind |-> "ack", d |-> Head(callbacks).d]
      <3>1. /\ Tail(callbacks) \in Seq(Callback) /\ a \in Callback /\ a.d = Head(callbacks).d
        BY <2>1, <2>4, CallbackHead DEF RunPoison, TypeInv, Callback, Kinds
      <3>2. /\ callbacks' \in {<<a>> \o Tail(callbacks), Tail(callbacks)}
            /\ UNCHANGED <<ready, acked>> /\ Head(callbacks).kind = "poison"
        BY <2>4 DEF RunPoison
      <3> HIDE DEF a
      <3>3. Elems(callbacks)' \subseteq {a} \union Elems(Tail(callbacks))
        BY <3>1, <3>2, ElemsCons
      <3>4. calls[a.d.msg] > 0
        BY <2>2, <3>1, <3>2 DEF TriedInv, Posted
      <3>5. \A c \in Posted' : c \in Posted \/ calls[c.d.msg] > 0
        BY <2>2, <3>3, <3>4 DEF Posted
      <3> QED BY <2>1, <3>2, <3>5, TriedKept
    <2>5. CASE RunClose
      BY <1>1, <2>1, <2>5 DEF RunClose, Close, Requeue
    <2> QED BY <1>4, <2>3, <2>4, <2>5 DEF IoCallback
  <1>5. CASE IoAcquire
    <2> DEFINE n == [d |-> cur, at |-> "queued", kind |-> "ack"]
    <2>1. jobs' \subseteq jobs \union {n} /\ UNCHANGED <<config, calls, callbacks, ready, acked>>
      BY <1>5 DEF IoAcquire
    <2>2. n.at = "queued"
      OBVIOUS
    <2> HIDE DEF n
    <2> QED BY <2>1, <2>2, TriedKept DEF Posted
  <1>6. CASE IoHandler
    <2>1. Called(cur.msg) /\ UNCHANGED <<config, jobs, callbacks, ready, acked>>
      BY <1>6 DEF IoHandler
    <2>2. cur.msg \in Messages
      BY <1>6 DEF IoHandler, TypeInv, Dispatching, Delivery
    <2>3. \A n \in Messages : calls[n] > 0 => calls'[n] > 0
      BY <2>1, <2>2, CalledMore DEF TypeInv
    <2>4. (\A j \in jobs : j.at # "queued" => calls[j.d.msg] > 0)'
      BY <2>1, <2>3 DEF TriedInv, TypeInv, TypeOK, Job, Delivery
    <2>5. ASSUME NEW c \in Posted PROVE c.d.msg \in Messages
      BY CloseCallback DEF Posted, Callback, Kinds, Delivery
    <2>6. (\A c \in Posted : calls[c.d.msg] > 0)'
      BY <2>1, <2>3, <2>5 DEF TriedInv, Posted
    <2> QED BY <2>1, <2>4, <2>6 DEF TriedInv, AutoAck
  <1>7. CASE IoSettle
    BY <1>1, <1>7, SettleKeeps DEF IoSettle
  <1> QED BY <1>2, <1>3, <1>4, <1>5, <1>6, <1>7 DEF IoStep

LEMMA WorkerTried ==
  ASSUME TypeInv, TriedInv, NEW j \in jobs, WorkerStep(j)
  PROVE  TriedInv'
  <1>1. UNCHANGED <<config, ready, acked>>
    BY DEF WorkerStep, WorkerRun, WorkerCheck, WorkerPost, WorkerDirect
  <1>2. j.d.msg \in Messages /\ \A k \in jobs : k.d.msg \in Messages
    BY DEF TypeInv, TypeOK, Job, Delivery
  <1>3. ASSUME NEW at, NEW kind, Advance(j, at, kind), NEW k \in jobs'
        PROVE  k \in jobs \/ k.d = j.d
    <2>1. k \in jobs \/ k = [j EXCEPT !.at = at, !.kind = kind]
      BY <1>3 DEF Advance
    <2>2. [j EXCEPT !.at = at, !.kind = kind].d = j.d
      BY DEF TypeInv, TypeOK, Job
    <2> QED BY <2>1, <2>2
  <1>4. CASE WorkerRun(j)
    <2>1. Called(j.d.msg) /\ UNCHANGED callbacks /\ \E kind : Advance(j, "done", kind)
      BY <1>4 DEF WorkerRun
    <2>2. calls'[j.d.msg] > 0 /\ \A n \in Messages : calls[n] > 0 => calls'[n] > 0
      BY <1>2, <2>1, CalledMore DEF TypeInv
    <2>3. \A k \in jobs' : k \in jobs \/ k.d = j.d
      BY <1>3, <2>1
    <2>4. (\A k \in jobs : k.at # "queued" => calls[k.d.msg] > 0)'
      BY <1>2, <2>2, <2>3 DEF TriedInv
    <2>5. ASSUME NEW c \in Posted PROVE c.d.msg \in Messages
      BY CloseCallback DEF Posted, Callback, Kinds, Delivery
    <2>6. (\A c \in Posted : calls[c.d.msg] > 0)'
      BY <2>1, <2>2, <2>5 DEF TriedInv, Posted
    <2> QED BY <1>1, <2>4, <2>6 DEF TriedInv, AutoAck
  <1>5. CASE WorkerCheck(j) \/ WorkerPost(j) \/ WorkerDirect(j)
    <2>1. calls[j.d.msg] > 0 /\ UNCHANGED calls
      BY <1>5 DEF TriedInv, WorkerCheck, WorkerPost, WorkerDirect
    <2>2. jobs' \subseteq jobs \/ \E at, kind : Advance(j, at, kind)
      BY <1>5 DEF WorkerCheck, WorkerPost, WorkerDirect, Finish, AfterPost
    <2>3. \A k \in jobs' : k \in jobs \/ k.d = j.d
      BY <1>3, <2>2
    <2> DEFINE p == [kind |-> j.kind, d |-> j.d]
    <2>4. callbacks' \in {callbacks, Append(callbacks, p)}
      BY <1>5 DEF WorkerCheck, WorkerPost, WorkerDirect, Scheduled
    <2>5. p \in Callback /\ callbacks \in Seq(Callback) /\ p.d = j.d
      BY DEF TypeInv, TypeOK, Job, Callback
    <2> HIDE DEF p
    <2>6. Elems(callbacks)' \subseteq Elems(callbacks) \union {p}
      BY <2>4, <2>5, ElemsGrow
    <2>7. \A c \in Posted' : c \in Posted \/ calls[c.d.msg] > 0
      BY <2>1, <2>5, <2>6 DEF Posted
    <2> QED BY <1>1, <2>1, <2>3, <2>7, TriedKept
  <1> QED BY <1>4, <1>5 DEF WorkerStep

LEMMA StopTried ==
  ASSUME TypeInv, TriedInv, StopSet \/ StopStep
  PROVE  TriedInv'
  <1>1. /\ UNCHANGED <<config, calls, jobs, acked>> /\ ready \subseteq ready'
    BY DEF StopSet, StopStep, StopShutdown, StopCheck, StopSchedule, StopDirect, Close, Requeue
  <1>2. /\ Request \in Callback /\ Request.kind = "close" /\ Request.d = NoDelivery
        /\ callbacks' \in {callbacks, << >>, Append(callbacks, Request)} /\ callbacks \in Seq(Callback)
    BY StopPosts
  <1>3. Elems(callbacks)' \subseteq Elems(callbacks) \union {Request}
    BY StopPosts
  <1>4. Posted' \subseteq Posted
    BY <1>2, <1>3 DEF Posted
  <1> QED BY <1>1, <1>4, TriedKept

LEMMA NextTried == TypeInv /\ TriedInv /\ [Next]_vars => TriedInv'
  <1> SUFFICES ASSUME TypeInv, TriedInv, [Next]_vars PROVE TriedInv'
    OBVIOUS
  <1>1. CASE UNCHANGED vars
    BY <1>1, TriedKept DEF vars, Posted
  <1>2. CASE Next
    BY <1>2, BrokerTried, IoTried, WorkerTried, StopTried DEF Next
  <1> QED BY <1>1, <1>2


\* The steps of the contract, in the variables of the listener.
LEMMA ContractStutters ==
  ASSUME UNCHANGED <<config, acked, calls, handled, dlq>>
  PROVE  UNCHANGED Contract!contractVars
  BY DEF Contract!contractVars, AutoAck

LEMMA ContractForgets ==
  ASSUME UNCHANGED <<config, calls, handled, dlq>>, NEW m \in Messages,
         acked' = acked \union {m}, AutoAck \/ m \in handled \union dlq
  PROVE  [Contract!Next]_(Contract!contractVars)
  <1>1. AutoAck' = AutoAck
    BY DEF AutoAck
  <1>2. CASE m \in acked
    <2>1. acked' = acked
      BY <1>2
    <2> QED BY <2>1, ContractStutters
  <1>3. CASE m \notin acked
    <2>1. Contract!Forget(m)
      BY <1>1, <1>3 DEF Contract!Forget
    <2> QED BY <2>1 DEF Contract!Next
  <1> QED BY <1>2, <1>3

LEMMA ContractCalls ==
  ASSUME UNCHANGED <<config, acked, dlq>>, NEW m \in Messages, Called(m),
         handled' \in {handled, handled \union {m}},
         AutoAck => m \in acked /\ calls[m] = 0
  PROVE  [Contract!Next]_(Contract!contractVars)
  <1>1. AutoAck' = AutoAck
    BY DEF AutoAck
  <1>2. Contract!Call(m)
    BY <1>1 DEF Contract!Call, Called
  <1> QED BY <1>2 DEF Contract!Next

LEMMA ContractCopies ==
  ASSUME UNCHANGED <<config, acked, calls, handled>>, NEW m \in Messages,
         dlq' = dlq \union {m}, ~AutoAck, calls[m] > 0
  PROVE  [Contract!Next]_(Contract!contractVars)
  <1>1. AutoAck' = AutoAck
    BY DEF AutoAck
  <1>2. Contract!Copy(m)
    BY <1>1 DEF Contract!Copy
  <1> QED BY <1>2 DEF Contract!Next

\* A settlement: the broker forgets at most the message it is about, and only for an ack.
LEMMA ContractSettles ==
  ASSUME TypeInv, TagInv, NEW kind, NEW d \in Held, Settle(kind, d), d.msg \in Messages,
         UNCHANGED <<config, calls, handled, dlq>>,
         kind = "ack" /\ conn = "open" => d.msg \in handled \union dlq
  PROVE  [Contract!Next]_(Contract!contractVars)
  <1>1. CASE acked' = acked
    BY <1>1, ContractStutters
  <1>2. CASE acked' # acked
    <2>1. kind = "ack" /\ conn = "open" /\ acked' \subseteq acked \union {d.msg}
      BY <1>2, SettleAcked
    <2>2. acked \subseteq acked'
      BY SettleKeeps
    <2>3. acked' = acked \union {d.msg}
      BY <1>2, <2>1, <2>2
    <2> QED BY <2>1, <2>3, ContractForgets
  <1> QED BY <1>1, <1>2

ContractInv == TypeInv /\ TagInv /\ PoolInv /\ HotInv /\ AckInv /\ OnceInv /\ TriedInv

\* A callback on the connection: it settles its delivery, copies a poison message or closes.
LEMMA CallbackRefines ==
  ASSUME ContractInv, IoCallback
  PROVE  [Contract!Next]_(Contract!contractVars)
  <1> DEFINE c == Head(callbacks)
  <1>types. TypeInv /\ TagInv /\ callbacks \in Seq(Callback)
    BY DEF ContractInv, TypeInv, TypeOK
  <1>1. UNCHANGED <<config, calls, handled>> /\ callbacks # << >>
    BY DEF IoCallback
  <1>2. c \in Elems(callbacks) /\ c \in Callback
    BY <1>types, <1>1, ElemsTail
  <1>3. c.d \in Held /\ (c.kind # "close" => c.d.msg \in Messages)
    BY <1>2 DEF Held, Callback, Delivery
  <1>4. CASE RunSettle
    <2>1. Settle(c.kind, c.d) /\ c.kind # "close" /\ UNCHANGED dlq
      BY <1>4 DEF RunSettle
    <2>2. c.kind = "ack" /\ conn = "open" => c.d.msg \in handled \union dlq
      BY <1>2 DEF ContractInv, AckInv
    <2> QED BY <1>types, <1>1, <1>3, <2>1, <2>2, ContractSettles
  <1>5. CASE RunPoison
    <2>1. /\ c.kind = "poison" /\ acked' = acked
          /\ dlq' \in {dlq, dlq \union {c.d.msg}}
      BY <1>5 DEF RunPoison, Copy
    <2>2. calls[c.d.msg] > 0
      BY <1>2, <2>1 DEF ContractInv, TriedInv, Posted
    <2>3. ~AutoAck
      BY <1>2, <2>1 DEF ContractInv, OnceInv, Once
    <2> QED BY <1>1, <1>3, <2>1, <2>2, <2>3, ContractCopies, ContractStutters
  <1>6. CASE RunClose
    BY <1>1, <1>6, ContractStutters DEF RunClose, Close, Requeue
  <1> QED BY <1>4, <1>5, <1>6 DEF IoCallback

LEMMA IoRefines ==
  ASSUME ContractInv, Start \/ IoStep
  PROVE  [Contract!Next]_(Contract!contractVars)
  <1>types. TypeInv /\ TagInv
    BY DEF ContractInv
  <1>1. CASE \/ Start \/ IoExit \/ IoLoop \/ IoConnect \/ IoConnectFails \/ IoSetup
             \/ IoSetupFails \/ IoFail
    BY <1>1, ContractStutters DEF Start, IoExit, IoLoop, IoConnect, IoConnectFails, IoSetup,
             IoSetupFails, IoFail, Close, Requeue
  <1>2. CASE IoPumpRaises \/ IoDispatch \/ IoReturn \/ IoAccept \/ IoAcquire \/ IoSettleRaises
    BY <1>2, ContractStutters DEF IoPumpRaises, IoDispatch, IoReturn, IoAccept, IoAcquire,
             IoSettleRaises
  <1>3. CASE IoHandler
    <2>1. io = "handler" /\ Called(cur.msg) /\ UNCHANGED <<config, acked, dlq, ready>>
          /\ handled' \in {handled, handled \union {cur.msg}}
      BY <1>3 DEF IoHandler
    <2>2. cur \in Waiting /\ cur.msg \in Messages
      BY <2>1, <1>types DEF Waiting, TypeInv, Dispatching, Delivery
    <2>3. AutoAck => cur.msg \in acked /\ calls[cur.msg] = 0
      BY <2>2 DEF ContractInv, OnceInv, Once, TriedInv
    <2> QED BY <2>1, <2>2, <2>3, ContractCalls
  <1>4. CASE IoSettle
    <2>1. /\ io \in {"ack", "nack"} /\ Settle(IF io = "ack" THEN "ack" ELSE "requeue", cur)
          /\ UNCHANGED <<config, calls, handled, dlq>>
      BY <1>4 DEF IoSettle
    <2>2. cur \in Held /\ cur.msg \in Messages
      BY <2>1, <1>types DEF Held, TypeInv, Dispatching, Delivery
    <2>3. io = "ack" => cur.msg \in handled \union dlq
      BY DEF ContractInv, AckInv
    <2> QED BY <1>types, <2>1, <2>2, <2>3, ContractSettles
  <1> QED BY <1>1, <1>2, <1>3, <1>4, CallbackRefines DEF IoStep

LEMMA WorkerRefines ==
  ASSUME ContractInv, NEW j \in jobs, WorkerStep(j)
  PROVE  [Contract!Next]_(Contract!contractVars)
  <1>1. CASE WorkerRun(j)
    <2>1. j.at = "queued" /\ Called(j.d.msg) /\ UNCHANGED <<config, acked, dlq>>
          /\ handled' \in {handled, handled \union {j.d.msg}}
      BY <1>1 DEF WorkerRun
    <2>2. j.d \in Waiting /\ j.d.msg \in Messages
      BY <2>1 DEF Waiting, ContractInv, TypeInv, TypeOK, Job, Delivery
    <2>3. AutoAck => j.d.msg \in acked /\ calls[j.d.msg] = 0
      BY <2>2 DEF ContractInv, OnceInv, Once, TriedInv
    <2> QED BY <2>1, <2>2, <2>3, ContractCalls
  <1>2. CASE WorkerCheck(j) \/ WorkerPost(j) \/ WorkerDirect(j)
    BY <1>2, ContractStutters DEF WorkerCheck, WorkerPost, WorkerDirect
  <1> QED BY <1>1, <1>2 DEF WorkerStep

LEMMA StepRefines ==
  ContractInv /\ [Next]_vars => [Contract!Next]_(Contract!contractVars)
  <1> SUFFICES ASSUME ContractInv, [Next]_vars
               PROVE  [Contract!Next]_(Contract!contractVars)
    OBVIOUS
  <1>1. CASE UNCHANGED vars
    BY <1>1, ContractStutters DEF vars, userVars, brokerVars
  <1>2. CASE StopSet \/ StopStep
    BY <1>2, ContractStutters DEF StopSet, StopStep, StopShutdown, StopCheck, StopSchedule,
             StopDirect, Close, Requeue
  <1>3. CASE ConnBreak \/ ChanClose \/ \E m \in Messages : BrokerReturn(m)
    BY <1>3, ContractStutters DEF ConnBreak, ChanClose, Requeue, BrokerReturn
  <1>4. ASSUME NEW m \in Messages, BrokerDeliver(m)
        PROVE  [Contract!Next]_(Contract!contractVars)
    <2>1. /\ UNCHANGED <<config, calls, handled, dlq>>
          /\ acked' = IF AutoAck THEN acked \union {m} ELSE acked
      BY <1>4 DEF BrokerDeliver, ConsumerAutoAck
    <2> QED BY <2>1, ContractForgets, ContractStutters
  <1> QED BY <1>1, <1>2, <1>3, <1>4, IoRefines, WorkerRefines DEF Next

\* "auto_ack=True: at-most-once delivery", "auto_ack=False: at-least-once delivery": for
\* every configuration the listener is one that DeliveryContract describes, step by step
\* (sync_adapter.py:163 on, _internal_wrapper and _offload_wrapper).
THEOREM Refinement == Spec => ContractSpec
  <1>1. Init => Contract!Init
    <2> SUFFICES ASSUME Init PROVE Contract!Init
      OBVIOUS
    <2>1. AutoAck \in BOOLEAN
      BY ConfigsAssumption DEF Init, Config, AutoAck
    <2> QED BY <2>1 DEF Init, Contract!Init
  <1>2. TypeInv /\ TagInv /\ PoolInv /\ HotInv /\ AckInv /\ OnceInv /\ TriedInv => ContractInv
    BY DEF ContractInv
  <1> QED BY <1>1, <1>2, StepRefines, InitType, NextType, InitTag, NextTagInv, InitPool, NextPool,
             InitHot, NextHot, InitAck, NextAck, InitOnce, NextOnce, InitTried, NextTried,
             PTL DEF Spec, ContractSpec, Contract!Spec

=============================================================================
