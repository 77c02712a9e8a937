---------------------------- MODULE AsyncSenderProofs ----------------------------
(***************************************************************************)
(* Theorems about AsyncSender, for any number of coroutines, attempts,     *)
(* connections, calls of stop() and faults.                                *)
(***************************************************************************)
EXTENDS AsyncSender, FiniteSetTheorems, TLAPS

-----------------------------------------------------------------------------
(* Type correctness.  A coroutine that publishes is in some attempt of its  *)
(* send(): its futures are in Futs.                                         *)

SendInv == \A p \in Procs : at[p] \in {"send_ready", "publishing", "flushing"} => tries[p] > 0
TypeInv == TypeOK /\ SendInv

LEMMA Bounds == MaxAttempts \in Nat \ {0} /\ MaxConns \in Nat \ {0}
  BY BoundsAssumption

LEMMA ConfigNat == ASSUME TypeOK PROVE config.maxStops \in Nat /\ config.maxFaults \in Nat
  BY DEF TypeOK, Config

LEMMA TypeInit == Init => TypeInv
<1> SUFFICES ASSUME Init PROVE TypeInv
  OBVIOUS
<1>1. config \in Config
  BY ConfigsAssumption DEF Init
<1>2. config.maxStops \in Nat /\ config.maxFaults \in Nat
  BY <1>1 DEF Config
<1>3. futs \in [Futs -> Fut]
  BY Bounds DEF Init, Fut
<1> QED
  BY <1>1, <1>2, <1>3, Bounds DEF Init, TypeInv, TypeOK, SendInv, ProcState

\* What a coroutine may disturb between two awaits.
CallTypes ==
  /\ at \in [Procs -> ProcState] /\ result \in [Procs -> {"none", "ok", "raised"}]
  /\ tries \in [Procs -> 0 .. MaxAttempts] /\ batch \in [Waiters -> SUBSET Futs]
  /\ conn \in 0 .. MaxConns /\ chan \in 0 .. MaxConns /\ exch \in 0 .. MaxConns
  /\ pending \subseteq Futs /\ futs \in [Futs -> Fut]
  /\ SendInv

LEMMA CallPart == ASSUME TypeInv PROVE CallTypes
  BY DEF TypeInv, TypeOK, CallTypes

LEMMA ReturnTypes ==
  ASSUME TypeInv, NEW p \in Procs, NEW r \in {"ok", "raised"}, Return(p, r)
  PROVE /\ at' \in [Procs -> ProcState] /\ result' \in [Procs -> {"none", "ok", "raised"}]
        /\ UNCHANGED tries => SendInv'
  BY DEF TypeInv, TypeOK, SendInv, Return, ProcState

LEMMA RaisesTypes ==
  ASSUME TypeInv, NEW p \in Procs, PublishRaises(p) PROVE CallTypes'
<1>1. batch' \in [Waiters -> SUBSET Futs] /\ pending' \subseteq Futs /\ futs' \in [Futs -> Fut]
  BY DEF TypeInv, TypeOK, PublishRaises
<1>2. CASE LastAttempt(tries[p])
  BY <1>1, <1>2, ReturnTypes, Bounds DEF TypeInv, TypeOK, PublishRaises, CallTypes
<1>3. CASE ~LastAttempt(tries[p])
  <2>1. tries' \in [Procs -> 0 .. MaxAttempts] /\ at' \in [Procs -> ProcState] /\ SendInv'
    BY <1>3, Bounds DEF TypeInv, TypeOK, SendInv, PublishRaises, LastAttempt, ProcState
  <2> QED
    BY <1>1, <1>3, <2>1 DEF TypeInv, TypeOK, PublishRaises, CallTypes, fieldVars
<1> QED
  BY <1>2, <1>3

LEMMA PublishTypes ==
  ASSUME TypeInv, NEW p \in Procs, tries[p] > 0, NEW e \in 0 .. MaxConns,
         PublishOn(p, e, tries[p]), UNCHANGED tries,
         conn' \in 0 .. MaxConns, chan' \in 0 .. MaxConns, exch' \in 0 .. MaxConns
  PROVE CallTypes'
<1>1. <<p, tries[p]>> \in Futs
  BY Bounds DEF TypeInv, TypeOK, Futs
<1>2. futs' \in [Futs -> Fut]
  BY <1>1 DEF TypeInv, TypeOK, PublishOn, Fut
<1>3. batch' \in [Waiters -> SUBSET Futs] /\ pending' \subseteq Futs
  BY <1>1 DEF TypeInv, TypeOK, PublishOn, Waiters
<1>4. /\ at' \in [Procs -> ProcState] /\ result' \in [Procs -> {"none", "ok", "raised"}]
      /\ SendInv'
  BY DEF TypeInv, TypeOK, SendInv, PublishOn, Return, ProcState
<1> QED
  BY <1>2, <1>3, <1>4 DEF CallTypes, TypeInv, TypeOK

LEMMA CallStepTypes ==
  ASSUME TypeInv, CallTypes', startTries' \in [Procs -> 0 .. MaxAttempts],
         own' \in [Procs -> 0 .. MaxConns],
         flusher' \in {"none", "created", "sleeping", "flushing", "done"},
         link' \in [Conns -> {"none", "bare", "up", "lost", "closed"}],
         UNCHANGED <<config, stopVars, copies>>, faults' \in 0 .. config.maxFaults
  PROVE TypeInv'
  BY DEF TypeInv, TypeOK, CallTypes, stopVars

LEMMA TypeAttempt == ASSUME TypeInv, NEW p \in Procs, Attempt(p) PROVE TypeInv'
<1>1. tries[p] > 0
  BY DEF Attempt, TypeInv, SendInv
<1>2. /\ startTries' \in [Procs -> 0 .. MaxAttempts]
      /\ UNCHANGED <<config, own, flusher, stopVars, link, copies, faults>>
  BY Bounds DEF Attempt, TrySend, TypeInv, TypeOK
<1>3. CallTypes'
  <2>1. CASE ~Connected
    BY <2>1 DEF Attempt, TrySend, TypeInv, TypeOK, SendInv, CallTypes, ProcState, fieldVars
  <2>2. CASE Connected /\ exch = 0
    BY <2>2, RaisesTypes DEF Attempt, TrySend
  <2>3. CASE Connected /\ exch # 0
    <3>1. conn' \in 0 .. MaxConns /\ chan' \in 0 .. MaxConns /\ exch' \in 0 .. MaxConns
      BY <2>3 DEF Attempt, TrySend, TypeInv, TypeOK, fieldVars
    <3>2. PublishOn(p, exch, tries[p]) /\ UNCHANGED tries /\ exch \in 0 .. MaxConns
      BY <2>3 DEF Attempt, TrySend, TypeInv, TypeOK
    <3> QED
      BY <1>1, <3>1, <3>2, PublishTypes
  <2> QED
    BY <2>1, <2>2, <2>3
<1> QED
  BY <1>2, <1>3, CallStepTypes DEF TypeInv, TypeOK

LEMMA TypeSendAwaited == ASSUME TypeInv, NEW p \in Procs, SendAwaited(p) PROVE TypeInv'
<1>1. CASE PublishRaises(p)
  BY <1>1, RaisesTypes, CallStepTypes DEF SendAwaited, TypeInv, TypeOK
<1>2. CASE /\ Return(p, "ok") /\ batch' = [batch EXCEPT ![p] = {}]
           /\ pending' = PendingOnceGathered /\ UNCHANGED <<tries, fieldVars, futs>>
  <2>1. CallTypes'
    BY <1>2, ReturnTypes DEF TypeInv, TypeOK, CallTypes, PendingOnceGathered, fieldVars
  <2> QED
    BY <2>1, CallStepTypes DEF SendAwaited, TypeInv, TypeOK
<1> QED
  BY <1>1, <1>2 DEF SendAwaited

LEMMA TypeCalls ==
  ASSUME TypeInv, NEW p \in Procs,
         SendCall(p) \/ StartCall(p) \/ StartRetry(p) \/ ConnectionMade(p) \/ ChannelMade(p)
  PROVE TypeInv'
<1>1. CallTypes'
  <2>1. /\ at' \in [Procs -> ProcState] /\ tries' \in [Procs -> 0 .. MaxAttempts]
        /\ result' \in [Procs -> {"none", "ok", "raised"}]
    BY Bounds DEF TypeInv, TypeOK, SendCall, StartCall, Return, StartRetry, ConnectionMade, ChannelMade, ProcState
  <2>2. SendInv'
    BY Bounds DEF TypeInv, TypeOK, SendInv, SendCall, StartCall, Return, StartRetry, ConnectionMade, ChannelMade
  <2>3. /\ conn' \in 0 .. MaxConns /\ chan' \in 0 .. MaxConns /\ exch' \in 0 .. MaxConns
        /\ UNCHANGED <<batch, pending, futs>>
    BY Bounds DEF TypeInv, TypeOK, SendCall, StartCall, StartRetry, ConnectionMade, ChannelMade, fieldVars, Conns
  <2> QED
    BY <2>1, <2>2, <2>3 DEF TypeInv, TypeOK, CallTypes
<1>2. startTries' \in [Procs -> 0 .. MaxAttempts] /\ own' \in [Procs -> 0 .. MaxConns]
  <2>1. 1 \in 0 .. MaxAttempts /\ Conns \subseteq 0 .. MaxConns
    BY Bounds DEF Conns
  <2>2. CASE StartCall(p)
    BY <2>1, <2>2 DEF TypeInv, TypeOK, StartCall
  <2>3. CASE ConnectionMade(p)
    BY <2>1, <2>3 DEF TypeInv, TypeOK, ConnectionMade
  <2>4. CASE SendCall(p) \/ StartRetry(p) \/ ChannelMade(p)
    BY <2>4 DEF TypeInv, TypeOK, SendCall, StartRetry, ChannelMade
  <2> QED
    BY <2>2, <2>3, <2>4
<1>4. link' \in [Conns -> {"none", "bare", "up", "lost", "closed"}]
  BY DEF TypeInv, TypeOK, SendCall, StartCall, StartRetry, ConnectionMade, ChannelMade
<1>3. UNCHANGED <<config, stopVars, copies, flusher, faults>>
  BY DEF SendCall, StartCall, StartRetry, ConnectionMade, ChannelMade
<1> QED
  BY <1>1, <1>2, <1>3, <1>4, CallStepTypes DEF TypeInv, TypeOK

LEMMA TypeDeclared == ASSUME TypeInv, NEW p \in Procs, Declared(p) PROVE TypeInv'
<1>1. own[p] \in 0 .. MaxConns /\ conn' \in 0 .. MaxConns /\ chan' \in 0 .. MaxConns
      /\ exch' \in 0 .. MaxConns /\ UNCHANGED tries
  BY DEF Declared, TypeInv, TypeOK
<1>2. CallTypes'
  <2>1. CASE tries[p] = 0
    BY <1>1, <2>1, ReturnTypes DEF Declared, TypeInv, TypeOK, CallTypes
  <2>2. CASE tries[p] # 0
    BY <1>1, <2>2, PublishTypes DEF Declared, TypeInv, TypeOK
  <2> QED
    BY <2>1, <2>2
<1>3. flusher' \in {"none", "created", "sleeping", "flushing", "done"}
  BY DEF Declared, TypeInv, TypeOK
<1> QED
  BY <1>2, <1>3, CallStepTypes DEF Declared, TypeInv, TypeOK

LEMMA TypeStartFails == ASSUME TypeInv, NEW p \in Procs, StartFails(p) PROVE TypeInv'
<1>1. faults' \in 0 .. config.maxFaults
  BY ConfigNat DEF StartFails, TypeInv, TypeOK
<1>2. startTries' \in [Procs -> 0 .. MaxAttempts]
  BY Bounds DEF StartFails, TypeInv, TypeOK, LastAttempt
<1>3. CallTypes'
  <2>1. CASE ~LastAttempt(startTries[p])
    BY <2>1 DEF StartFails, TypeInv, TypeOK, CallTypes, SendInv, ProcState, fieldVars
  <2>2. CASE LastAttempt(startTries[p]) /\ tries[p] # 0
    BY <2>2, RaisesTypes DEF StartFails
  <2>3. CASE LastAttempt(startTries[p]) /\ tries[p] = 0
    BY <2>3, ReturnTypes DEF StartFails, TypeInv, TypeOK, CallTypes, fieldVars
  <2> QED
    BY <2>1, <2>2, <2>3
<1> QED
  BY <1>1, <1>2, <1>3, CallStepTypes DEF StartFails, TypeInv, TypeOK

LEMMA TypeFlusher == ASSUME TypeInv, FlusherStep PROVE TypeInv'
<1>1. flusher' \in {"none", "created", "sleeping", "flushing", "done"}
  BY DEF FlusherStep, AfterFailedFlush, TypeInv, TypeOK
<1>2. batch' \in [Waiters -> SUBSET Futs] /\ pending' \subseteq Futs
  BY DEF FlusherStep, PendingOnceGathered, TypeInv, TypeOK
<1> QED
  BY <1>1, <1>2 DEF FlusherStep, TypeInv, TypeOK, SendInv, procVars, fieldVars, stopVars

LEMMA TypePublish ==
  ASSUME TypeInv, NEW f \in Futs, Sent(f) \/ SentInVain(f) \/ Confirmed(f) \/ Rejected(f) \/ Aborted(f)
  PROVE TypeInv'
<1>1. futs[f] \in Fut
  BY DEF TypeInv, TypeOK
<1>2. futs' \in [Futs -> Fut]
  BY <1>1 DEF Sent, SentInVain, Confirmed, Rejected, Aborted, TypeInv, TypeOK, Fut
<1>3. faults' \in 0 .. config.maxFaults /\ copies' \in [Procs -> Nat]
  BY ConfigNat DEF Sent, SentInVain, Confirmed, Rejected, Aborted, TypeInv, TypeOK
<1>4. UNCHANGED <<envUnchanged, link>>
  BY DEF Sent, SentInVain, Confirmed, Rejected, Aborted
<1> QED
  BY <1>2, <1>3, <1>4 DEF TypeInv, TypeOK, SendInv, envUnchanged, procVars, fieldVars, stopVars

LEMMA BrokenTypes == ASSUME TypeInv, NEW C PROVE Broken(C) \in [Futs -> Fut]
<1>1. \A f \in Futs : futs[f] \in Fut /\ [futs[f] EXCEPT !.at = "failed"] \in Fut
  BY DEF TypeInv, TypeOK, Fut
<1> QED
  BY <1>1 DEF Broken

LEMMA CancelledTypes == ASSUME TypeInv PROVE Cancelled \in [Futs -> Fut]
<1>1. \A f \in Futs : futs[f] \in Fut /\ [futs[f] EXCEPT !.at = "cancelled"] \in Fut
  BY DEF TypeInv, TypeOK, Fut
<1> QED
  BY <1>1 DEF Cancelled

LEMMA TypeConnection ==
  ASSUME TypeInv, NEW c \in Conns, ConnectionLost(c) \/ Reconnected(c) PROVE TypeInv'
<1>1. futs' \in [Futs -> Fut]
  BY BrokenTypes DEF ConnectionLost, Reconnected, TypeInv, TypeOK
<1>2. faults' \in 0 .. config.maxFaults
  BY ConfigNat DEF ConnectionLost, Reconnected, TypeInv, TypeOK
<1>3. link' \in [Conns -> {"none", "bare", "up", "lost", "closed"}]
  BY DEF ConnectionLost, Reconnected, TypeInv, TypeOK
<1> QED
  BY <1>1, <1>2, <1>3 DEF ConnectionLost, Reconnected, TypeInv, TypeOK, SendInv, envUnchanged, procVars,
     fieldVars, stopVars

\* What stop() may disturb.
StopTypes ==
  /\ batch \in [Waiters -> SUBSET Futs] /\ pending \subseteq Futs
  /\ conn \in 0 .. MaxConns /\ chan \in 0 .. MaxConns /\ exch \in 0 .. MaxConns
  /\ closing \in 0 .. MaxConns
  /\ flusher \in {"none", "created", "sleeping", "flushing", "done"}
  /\ stop \in {"idle", "flushing", "closing_chan", "closing_conn", "stopped"}
  /\ futs \in [Futs -> Fut]
  /\ link \in [Conns -> {"none", "bare", "up", "lost", "closed"}]

LEMMA StopPart == ASSUME TypeInv PROVE StopTypes
  BY DEF TypeInv, TypeOK, StopTypes

LEMMA StopStepTypes ==
  ASSUME TypeInv, StopTypes', UNCHANGED <<config, procVars, copies, faults>>,
         promised' \subseteq Procs, stops' \in 0 .. config.maxStops
  PROVE TypeInv'
  BY DEF TypeInv, TypeOK, StopTypes, SendInv, procVars

LEMMA CloseTypes ==
  ASSUME TypeInv, NEW l \in [Conns -> {"none", "bare", "up", "lost", "closed"}], CloseConnection(l)
  PROVE /\ conn' \in 0 .. MaxConns /\ chan' \in 0 .. MaxConns /\ exch' \in 0 .. MaxConns
        /\ closing' \in 0 .. MaxConns
        /\ stop' \in {"idle", "flushing", "closing_chan", "closing_conn", "stopped"}
        /\ link' \in [Conns -> {"none", "bare", "up", "lost", "closed"}]
  BY Bounds DEF CloseConnection, TypeInv, TypeOK

LEMMA CancelTypes ==
  ASSUME TypeInv, CancelAndClose, pending' \subseteq Futs PROVE StopTypes'
<1>1. /\ flusher' \in {"none", "created", "sleeping", "flushing", "done"}
      /\ batch' \in [Waiters -> SUBSET Futs] /\ futs' \in [Futs -> Fut]
  BY CancelledTypes DEF CancelAndClose, TypeInv, TypeOK
<1>2. /\ conn' \in 0 .. MaxConns /\ chan' \in 0 .. MaxConns /\ exch' \in 0 .. MaxConns
      /\ closing' \in 0 .. MaxConns
      /\ stop' \in {"idle", "flushing", "closing_chan", "closing_conn", "stopped"}
      /\ link' \in [Conns -> {"none", "bare", "up", "lost", "closed"}]
  <2>1. CASE CloseConnection(link)
    BY <2>1, CloseTypes DEF TypeInv, TypeOK
  <2>2. CASE stop' = "closing_chan" /\ closing' = chan /\ UNCHANGED <<fieldVars, link>>
    BY <2>2 DEF TypeInv, TypeOK, fieldVars
  <2> QED
    BY <2>1, <2>2 DEF CancelAndClose
<1> QED
  BY <1>1, <1>2 DEF StopTypes

LEMMA TypeStopCall == ASSUME TypeInv, StopCall PROVE TypeInv'
<1>1. promised' \subseteq Procs /\ stops' \in 0 .. config.maxStops
      /\ UNCHANGED <<config, procVars, copies, faults>> /\ pending' \subseteq Futs
  BY ConfigNat DEF StopCall, TypeInv, TypeOK
<1>2. CASE CancelAndClose
  BY <1>1, <1>2, CancelTypes, StopStepTypes
<1>3. CASE /\ stop' = "flushing" /\ batch' = [batch EXCEPT !["stop"] = pending]
           /\ UNCHANGED <<closing, fieldVars, flusher, futs, link>>
  <2>1. StopTypes'
    BY <1>1, <1>3 DEF StopTypes, TypeInv, TypeOK, fieldVars
  <2> QED
    BY <1>1, <2>1, StopStepTypes
<1> QED
  BY <1>2, <1>3 DEF StopCall

LEMMA TypeStopStep == ASSUME TypeInv, StopStep PROVE TypeInv'
<1>1. /\ promised' \subseteq Procs /\ stops' \in 0 .. config.maxStops
      /\ UNCHANGED <<config, procVars, copies, faults>>
  BY DEF StopStep, StopFlushed, ChannelClosed, ConnectionClosed, TypeInv, TypeOK
<1>2. CASE StopFlushed
  <2>1. pending' \subseteq Futs
    BY <1>2 DEF StopFlushed, PendingOnceGathered, TypeInv, TypeOK
  <2> QED
    BY <1>1, <1>2, <2>1, CancelTypes, StopStepTypes DEF StopFlushed
<1>3. CASE ChannelClosed
  <2> DEFINE l == [link EXCEPT ![closing] = IF @ = "closed" THEN @ ELSE "bare"]
  <2>1. l \in [Conns -> {"none", "bare", "up", "lost", "closed"}]
    BY DEF TypeInv, TypeOK
  <2>2. CloseConnection(l)
    BY <1>3 DEF ChannelClosed
  <2> HIDE DEF l
  <2>3. StopTypes'
    BY <1>3, <2>1, <2>2, CloseTypes DEF ChannelClosed, StopTypes, TypeInv, TypeOK
  <2> QED
    BY <1>1, <2>3, StopStepTypes
<1>4. CASE ConnectionClosed
  <2>1. StopTypes'
    BY <1>4, Bounds DEF ConnectionClosed, StopTypes, TypeInv, TypeOK
  <2> QED
    BY <1>1, <2>1, StopStepTypes
<1> QED
  BY <1>2, <1>3, <1>4 DEF StopStep

LEMMA TypeStep == ASSUME TypeInv, [Next]_vars PROVE TypeInv'
<1>1. CASE UNCHANGED vars
  BY <1>1 DEF TypeInv, TypeOK, SendInv, vars, procVars, fieldVars, stopVars
<1>2. CASE Next
  BY <1>2, TypeAttempt, TypeSendAwaited, TypeCalls, TypeDeclared, TypeStartFails, TypeFlusher, TypePublish,
     TypeConnection, TypeStopCall, TypeStopStep DEF Next, ProcStep, PublishStep
<1> QED
  BY <1>1, <1>2

LEMMA TypeInvariant == Spec => []TypeInv
<1>1. Init => TypeInv
  BY TypeInit
<1>2. TypeInv /\ [Next]_vars => TypeInv'
  BY TypeStep
<1> QED
  BY <1>1, <1>2, PTL DEF Spec

\* The fields of the sender, its coroutines, the futures and the connections keep their types.
THEOREM TypeCorrect == Spec => []TypeOK
<1>1. TypeInv => TypeOK
  BY DEF TypeInv
<1> QED
  BY <1>1, TypeInvariant, PTL

-----------------------------------------------------------------------------
(* Returned means published.  Without batches a send() returns when the     *)
(* future of its last attempt is done, and that is after the broker has the *)
(* message.                                                                 *)

Single == config.confirm /\ ~Batched

SingleInv ==
  /\ \A p \in Procs : at[p] # "done" => result[p] = "none"
  /\ \A p \in Procs : at[p] = "idle" => tries[p] = 0
  /\ Single => \A f \in Futs : futs[f].at \in {"sent", "ok"} => copies[f[1]] > 0
  /\ Single => \A p \in Procs : at[p] = "publishing" => \E n \in 1 .. MaxAttempts : batch[p] = {<<p, n>>}
  /\ Single => \A p \in Procs : at[p] # "flushing"
  /\ Single => \A p \in Procs : tries[p] > 0 /\ result[p] = "ok" => copies[p] > 0

LEMMA SameConfig == ASSUME [Next]_vars PROVE UNCHANGED config
  BY DEF Next, vars, ProcStep, PublishStep, StopStep, SendCall, StartCall, Attempt, TrySend, SendAwaited,
     StartRetry, ConnectionMade, ChannelMade, Declared, StartFails, FlusherStep, Sent, SentInVain, Confirmed,
     Rejected, ConnectionLost, Reconnected, Aborted, StopCall, StopFlushed, ChannelClosed, ConnectionClosed,
     envUnchanged

LEMMA SameSingle == ASSUME UNCHANGED config PROVE Single' = Single /\ Batched' = Batched
  BY DEF Single, Batched

LEMMA SingleInit == Init => SingleInv
  BY DEF Init, SingleInv

\* A new future, of a message the broker does not have to have.
LEMMA SinglePublish ==
  ASSUME TypeInv, SingleInv, NEW p \in Procs, tries[p] > 0, at[p] # "done", NEW e,
         PublishOn(p, e, tries[p]), UNCHANGED <<config, tries, copies>>
  PROVE SingleInv'
<1>1. tries[p] \in 1 .. MaxAttempts
  BY Bounds DEF TypeInv, TypeOK
<1>2. \A q \in Procs : q # p => at'[q] = at[q] /\ batch'[q] = batch[q] /\ result'[q] = result[q]
  BY DEF PublishOn, Return, TypeInv, TypeOK, Waiters
<1>3. \A f \in Futs : futs'[f].at \in {"sent", "ok"} => futs'[f] = futs[f]
  BY DEF PublishOn, TypeInv, TypeOK
<1>4. Single => at'[p] = "publishing" /\ batch'[p] = {<<p, tries[p]>>} /\ result'[p] = result[p]
  BY DEF PublishOn, Single, TypeInv, TypeOK, Waiters
<1>5. at'[p] # "idle" /\ (at'[p] # "done" => result'[p] = result[p])
  BY DEF PublishOn, Return, TypeInv, TypeOK
<1>6. /\ \A q \in Procs : at'[q] # "done" => result'[q] = "none"
      /\ \A q \in Procs : at'[q] = "idle" => tries'[q] = 0
  BY <1>2, <1>5 DEF SingleInv
<1>7. Single => \A q \in Procs : at'[q] = "publishing" => \E n \in 1 .. MaxAttempts : batch'[q] = {<<q, n>>}
  BY <1>1, <1>2, <1>4 DEF SingleInv
<1>8. Single => \A q \in Procs : tries'[q] > 0 /\ result'[q] = "ok" => copies'[q] > 0
  BY <1>2, <1>4 DEF SingleInv
<1>9. Single => \A q \in Procs : at'[q] # "flushing"
  BY <1>2, <1>4 DEF SingleInv
<1>10. Single => \A f \in Futs : futs'[f].at \in {"sent", "ok"} => copies'[f[1]] > 0
  BY <1>3 DEF SingleInv
<1> QED
  BY <1>6, <1>7, <1>8, <1>9, <1>10, SameSingle DEF SingleInv

\* A coroutine goes from one place to another, or raises; nothing is published or awaited.
LEMMA SingleMove ==
  ASSUME TypeInv, SingleInv, NEW p \in Procs, at[p] # "done", UNCHANGED <<config, futs, copies>>,
         \A q \in Procs \ {p} : /\ at'[q] = at[q] /\ result'[q] = result[q] /\ tries'[q] = tries[q]
                                /\ batch'[q] = batch[q],
         at'[p] \notin {"idle", "publishing", "flushing"},
         \/ result'[p] = result[p]
         \/ at'[p] = "done" /\ (tries'[p] = 0 \/ result'[p] = "raised")
         \/ at'[p] = "done" /\ (Single => copies[p] > 0)
  PROVE SingleInv'
<1>1. result[p] = "none"
  BY DEF SingleInv
<1>2. /\ \A q \in Procs : at'[q] # "done" => result'[q] = "none"
      /\ \A q \in Procs : at'[q] = "idle" => tries'[q] = 0
  BY <1>1 DEF SingleInv
<1>3. Single => \A q \in Procs : at'[q] = "publishing" => \E n \in 1 .. MaxAttempts : batch'[q] = {<<q, n>>}
  BY DEF SingleInv
<1>4. Single => \A q \in Procs : tries'[q] > 0 /\ result'[q] = "ok" => copies'[q] > 0
  BY <1>1 DEF SingleInv
<1> QED
  BY <1>2, <1>3, <1>4, SameSingle DEF SingleInv

LEMMA SingleRaises ==
  ASSUME TypeInv, SingleInv, NEW p \in Procs, at[p] # "done", PublishRaises(p), UNCHANGED <<config, copies>>
  PROVE SingleInv'
<1>1. \A q \in Procs \ {p} : /\ at'[q] = at[q] /\ result'[q] = result[q] /\ tries'[q] = tries[q]
                             /\ batch'[q] = batch[q]
  BY DEF PublishRaises, Return, TypeInv, TypeOK
<1>2. \/ at'[p] = "done" /\ result'[p] = "raised"
      \/ at'[p] = "send_ready" /\ result'[p] = result[p]
  BY DEF PublishRaises, Return, TypeInv, TypeOK
<1>3. UNCHANGED futs
  BY DEF PublishRaises
<1> QED
  BY <1>1, <1>2, <1>3, SingleMove

LEMMA SingleAttempt == ASSUME TypeInv, SingleInv, NEW p \in Procs, Attempt(p) PROVE SingleInv'
<1>1. tries[p] > 0 /\ at[p] = "send_ready" /\ UNCHANGED <<config, copies>>
  BY DEF Attempt, TrySend, TypeInv, SendInv
<1>2. CASE ~Connected
  <2>1. at' = [at EXCEPT ![p] = "connecting"] /\ UNCHANGED <<tries, result, batch, futs>>
    BY <1>2 DEF Attempt, TrySend
  <2>2. at'[p] = "connecting" /\ \A q \in Procs \ {p} : at'[q] = at[q]
    BY <2>1 DEF TypeInv, TypeOK
  <2> QED
    BY <1>1, <2>1, <2>2, SingleMove
<1>3. CASE Connected /\ exch = 0
  BY <1>1, <1>3, SingleRaises DEF Attempt, TrySend
<1>4. CASE Connected /\ exch # 0
  BY <1>1, <1>4, SinglePublish DEF Attempt, TrySend
<1> QED
  BY <1>2, <1>3, <1>4

LEMMA SingleSendAwaited == ASSUME TypeInv, SingleInv, NEW p \in Procs, SendAwaited(p) PROVE SingleInv'
<1>1. at[p] \in {"publishing", "flushing"} /\ UNCHANGED <<config, copies>>
  BY DEF SendAwaited
<1>2. CASE PublishRaises(p)
  BY <1>1, <1>2, SingleRaises
<1>3. CASE /\ ~SomeFailed(batch[p]) /\ Return(p, "ok") /\ batch' = [batch EXCEPT ![p] = {}]
           /\ UNCHANGED <<tries, fieldVars, futs>>
  <2>1. Single => copies[p] > 0
    <3> SUFFICES ASSUME Single PROVE copies[p] > 0
      OBVIOUS
    <3>1. PICK n \in 1 .. MaxAttempts : batch[p] = {<<p, n>>}
      BY <1>1 DEF SingleInv
    <3>2. <<p, n>> \in Futs /\ futs[<<p, n>>].at = "ok"
      BY <1>3, <3>1 DEF SendAwaited, Gathered, AllOk, Futs
    <3> QED
      BY <3>2 DEF SingleInv
  <2>2. /\ at'[p] = "done"
        /\ \A q \in Procs \ {p} : /\ at'[q] = at[q] /\ result'[q] = result[q] /\ tries'[q] = tries[q]
                                  /\ batch'[q] = batch[q]
    BY <1>3 DEF Return, TypeInv, TypeOK, Waiters
  <2> QED
    BY <1>1, <1>3, <2>1, <2>2, SingleMove
<1> QED
  BY <1>2, <1>3 DEF SendAwaited

LEMMA SingleCalls ==
  ASSUME TypeInv, SingleInv, NEW p \in Procs,
         SendCall(p) \/ StartCall(p) \/ StartRetry(p) \/ ConnectionMade(p) \/ ChannelMade(p)
  PROVE SingleInv'
<1>1. UNCHANGED <<config, batch, futs, copies>> /\ at[p] # "done"
  BY DEF SendCall, StartCall, StartRetry, ConnectionMade, ChannelMade
<1>2. \A q \in Procs \ {p} : at'[q] = at[q] /\ result'[q] = result[q] /\ tries'[q] = tries[q]
  BY DEF SendCall, StartCall, Return, StartRetry, ConnectionMade, ChannelMade, TypeInv, TypeOK
<1>3. at'[p] \notin {"idle", "publishing", "flushing"}
  BY DEF SendCall, StartCall, Return, StartRetry, ConnectionMade, ChannelMade, TypeInv, TypeOK
<1>4. \/ result'[p] = result[p]
      \/ at'[p] = "done" /\ tries'[p] = 0
  BY DEF SendCall, StartCall, Return, StartRetry, ConnectionMade, ChannelMade, TypeInv, TypeOK, SingleInv
<1> QED
  BY <1>1, <1>2, <1>3, <1>4, SingleMove

LEMMA SingleDeclared == ASSUME TypeInv, SingleInv, NEW p \in Procs, Declared(p) PROVE SingleInv'
<1>1. at[p] = "declaring" /\ UNCHANGED <<config, tries, copies>>
  BY DEF Declared
<1>2. CASE tries[p] = 0
  <2>1. Return(p, "ok") /\ UNCHANGED <<batch, futs>>
    BY <1>2 DEF Declared
  <2>2. at'[p] = "done" /\ \A q \in Procs \ {p} : at'[q] = at[q] /\ result'[q] = result[q]
    BY <2>1 DEF Return, TypeInv, TypeOK
  <2> QED
    BY <1>1, <1>2, <2>1, <2>2, SingleMove
<1>3. CASE tries[p] # 0
  <2>1. tries[p] > 0 /\ PublishOn(p, own[p], tries[p])
    BY <1>3 DEF Declared, TypeInv, TypeOK
  <2> QED
    BY <1>1, <2>1, SinglePublish
<1> QED
  BY <1>2, <1>3

LEMMA SingleStartFails == ASSUME TypeInv, SingleInv, NEW p \in Procs, StartFails(p) PROVE SingleInv'
<1>1. at[p] \notin {"idle", "done"} /\ UNCHANGED <<config, copies>>
  BY DEF StartFails
<1>2. CASE LastAttempt(startTries[p]) /\ tries[p] # 0
  BY <1>1, <1>2, SingleRaises DEF StartFails
<1>3. CASE ~(LastAttempt(startTries[p]) /\ tries[p] # 0)
  <2>1. UNCHANGED <<tries, batch, futs>>
    BY <1>3 DEF StartFails
  <2>2. \A q \in Procs \ {p} : at'[q] = at[q] /\ result'[q] = result[q]
    BY <1>3 DEF StartFails, Return, TypeInv, TypeOK
  <2>3. \/ at'[p] = "start_ready" /\ result'[p] = result[p]
        \/ at'[p] = "done" /\ result'[p] = "raised"
    BY <1>3 DEF StartFails, Return, TypeInv, TypeOK
  <2> QED
    BY <1>1, <2>1, <2>2, <2>3, SingleMove
<1> QED
  BY <1>2, <1>3

\* The flusher, the environment and stop().
LEMMA SingleOutside ==
  ASSUME TypeInv, TypeInv', SingleInv,
         \/ FlusherStep \/ StopCall \/ StopStep \/ UNCHANGED vars
         \/ \E f \in Futs : Sent(f) \/ SentInVain(f) \/ Confirmed(f) \/ Rejected(f) \/ Aborted(f)
         \/ \E c \in Conns : ConnectionLost(c) \/ Reconnected(c)
  PROVE SingleInv'
<1>1. UNCHANGED <<config, procVars>>
  BY DEF FlusherStep, StopCall, StopStep, StopFlushed, ChannelClosed, ConnectionClosed, vars, envUnchanged,
     Sent, SentInVain, Confirmed, Rejected, Aborted, ConnectionLost, Reconnected
<1>2. \A p \in Procs : batch'[p] = batch[p]
  <2>1. CASE FlusherStep
    BY <2>1, ProcsAssumption DEF FlusherStep, TypeInv, TypeOK, Waiters
  <2>2. CASE StopCall \/ StopStep
    BY <2>2, ProcsAssumption DEF StopCall, StopStep, StopFlushed, ChannelClosed, ConnectionClosed,
       CancelAndClose, TypeInv, TypeOK, Waiters
  <2>3. UNCHANGED batch \/ FlusherStep \/ StopCall \/ StopStep
    BY DEF vars, envUnchanged, Sent, SentInVain, Confirmed, Rejected, Aborted, ConnectionLost, Reconnected
  <2> QED
    BY <2>1, <2>2, <2>3
<1>3. \A p \in Procs : copies'[p] >= copies[p]
  <2>1. UNCHANGED copies \/ \E f \in Futs : copies' = [copies EXCEPT ![f[1]] = @ + 1]
    BY DEF FlusherStep, StopCall, StopStep, StopFlushed, ChannelClosed, ConnectionClosed, vars, Sent,
       SentInVain, Confirmed, Rejected, Aborted, ConnectionLost, Reconnected
  <2> QED
    BY <2>1 DEF TypeInv, TypeOK
<1>4. Single => \A g \in Futs : futs'[g].at \in {"sent", "ok"} =>
                   futs[g].at \in {"sent", "ok"} \/ copies'[g[1]] > 0
  <2>1. CASE FlusherStep \/ StopStep \/ StopCall \/ UNCHANGED vars \/ \E c \in Conns : Reconnected(c)
    <3>1. futs' = futs \/ futs' = Cancelled
      BY <2>1 DEF FlusherStep, StopCall, StopStep, StopFlushed, ChannelClosed, ConnectionClosed, vars,
         envUnchanged, CancelAndClose, Reconnected
    <3>2. \A g \in Futs : Cancelled[g].at \in {"sent", "ok"} => Cancelled[g] = futs[g]
      BY DEF Cancelled, TypeInv, TypeOK, Fut
    <3> QED
      BY <3>1, <3>2
  <2>2. CASE \E c \in Conns : ConnectionLost(c)
    <3>1. PICK c \in Conns : futs' = Broken({c})
      BY <2>2 DEF ConnectionLost
    <3>2. \A g \in Futs : Broken({c})[g].at \in {"sent", "ok"} => Broken({c})[g] = futs[g]
      BY DEF Broken, TypeInv, TypeOK, Fut
    <3> QED
      BY <3>1, <3>2
  <2>3. ASSUME NEW f \in Futs, Sent(f)
        PROVE \A g \in Futs : futs'[g].at \in {"sent", "ok"} =>
                 futs[g].at \in {"sent", "ok"} \/ copies'[g[1]] > 0
    <3>1. f[1] \in Procs /\ copies'[f[1]] = copies[f[1]] + 1 /\ copies[f[1]] \in Nat
      BY <2>3 DEF Sent, Futs, TypeInv, TypeOK
    <3>2. \A g \in Futs : g # f => futs'[g] = futs[g]
      BY <2>3 DEF Sent, TypeInv, TypeOK
    <3> QED
      BY <3>1, <3>2
  <2>4. ASSUME NEW f \in Futs, SentInVain(f) \/ Confirmed(f) \/ Rejected(f) \/ Aborted(f), Single
        PROVE \A g \in Futs : futs'[g].at \in {"sent", "ok"} => futs[g].at \in {"sent", "ok"}
    <3>1. /\ \A g \in Futs : g # f => futs'[g] = futs[g]
          /\ futs'[f].at \in {"sent", "ok"} => futs[f].at \in {"sent", "ok"}
      BY <2>4 DEF SentInVain, Confirmed, Rejected, Aborted, Single, TypeInv, TypeOK, Fut
    <3> QED
      BY <3>1
  <2> QED
    BY <2>1, <2>2, <2>3, <2>4
<1>5. UNCHANGED <<at, result, tries>>
  BY <1>1 DEF procVars
<1>6. Single => \A f \in Futs : futs'[f].at \in {"sent", "ok"} => copies'[f[1]] > 0
  BY <1>3, <1>4 DEF SingleInv, Futs, TypeInv, TypeOK
<1>7. Single => \A p \in Procs : tries'[p] > 0 /\ result'[p] = "ok" => copies'[p] > 0
  BY <1>3, <1>5 DEF SingleInv, TypeInv, TypeOK
<1> QED
  BY <1>1, <1>2, <1>5, <1>6, <1>7, SameSingle DEF SingleInv

LEMMA SingleNext == ASSUME TypeInv, SingleInv, [Next]_vars PROVE SingleInv'
<1>1. TypeInv'
  BY TypeStep
<1> QED
  BY <1>1, SingleAttempt, SingleSendAwaited, SingleCalls, SingleDeclared, SingleStartFails, SingleOutside
     DEF Next, ProcStep, PublishStep

\* With confirms and no batches a send() that returned has its message at the broker, for any
\* number of coroutines, attempts, connections, faults and calls of stop().
THEOREM ReturnedIsPublished == Spec => []SentIsPublished
<1>1. Init => SingleInv
  BY SingleInit
<1>2. TypeInv /\ SingleInv /\ [Next]_vars => SingleInv'
  BY SingleNext
<1>3. SingleInv => SentIsPublished
  BY DEF SingleInv, Single, SentIsPublished
<1> QED
  BY <1>1, <1>2, <1>3, TypeInvariant, PTL DEF Spec

-----------------------------------------------------------------------------
(* Who awaits a publish.  Every future is with at most one holder: the      *)
(* list, the coroutine that awaits a full batch, the flusher or stop().     *)

Before == {"idle", "send_ready", "start_ready", "connecting", "opening", "declaring"}

\* An attempt that has not published yet has a future of its own.
Fresh ==
  /\ \A p \in Procs : at[p] = "idle" => tries[p] = 0
  /\ \A f \in Futs : futs[f].at # "none" =>
        f[2] < tries[f[1]] \/ (f[2] = tries[f[1]] /\ at[f[1]] \notin Before)

\* No future is in two places, and one of no publish in none.
Apart ==
  /\ \A w \in Waiters : \A f \in batch[w] : f \notin pending
  /\ \A v, w \in Waiters : \A f \in batch[v] : f \in batch[w] => v = w
  /\ \A f \in Futs : futs[f].at = "none" => f \notin pending /\ \A w \in Waiters : f \notin batch[w]

\* Only who awaits something has a batch.
Awaiting ==
  /\ flusher # "flushing" => batch["flusher"] = {}
  /\ stop # "flushing" => batch["stop"] = {}
  /\ \A p \in Procs : at[p] \notin {"publishing", "flushing"} => batch[p] = {}

AwaitInv == Fresh /\ Apart /\ Awaiting

Tracked(f) == f \in pending \/ \E w \in Waiters : f \in batch[w]

\* What NoForgottenConfirm says of a step.
Kept ==
  \A f \in Futs : Unsettled(f)' =>
    \/ Tracked(f)'
    \/ Unsettled(f) /\ ~Tracked(f)
    \/ \E w \in Waiters : f \in batch[w] /\ GatherRaises(w)

LEMMA AwaitInit == Init => AwaitInv
  BY DEF Init, AwaitInv, Fresh, Apart, Awaiting, Waiters

\* A coroutine goes on without publishing.
LEMMA FreshMove ==
  ASSUME TypeInv, Fresh, NEW p \in Procs, UNCHANGED futs,
         \A q \in Procs \ {p} : at'[q] = at[q] /\ tries'[q] = tries[q],
         at'[p] # "idle",
         \/ tries'[p] = tries[p] /\ (at[p] \in Before \/ at'[p] \notin Before)
         \/ at[p] = "idle"
         \/ tries'[p] = tries[p] + 1
  PROVE  Fresh'
<1>1. \A q \in Procs : at'[q] = "idle" => tries'[q] = 0
  BY DEF Fresh
<1>2. ASSUME NEW f \in Futs, futs'[f].at # "none"
      PROVE  f[2] < tries'[f[1]] \/ (f[2] = tries'[f[1]] /\ at'[f[1]] \notin Before)
  <2>1. f[1] \in Procs /\ f[2] \in Nat /\ f[2] > 0 /\ tries[f[1]] \in Nat
    BY DEF Futs, TypeInv, TypeOK
  <2>2. f[2] < tries[f[1]] \/ (f[2] = tries[f[1]] /\ at[f[1]] \notin Before)
    BY <1>2 DEF Fresh
  <2>3. CASE f[1] # p
    BY <2>1, <2>2, <2>3
  <2>4. CASE f[1] = p /\ tries'[p] = tries[p] + 1
    BY <2>1, <2>2, <2>4
  <2>5. CASE f[1] = p /\ at[p] = "idle"
    BY <2>1, <2>2, <2>5 DEF Fresh, Before
  <2>6. CASE f[1] = p /\ tries'[p] = tries[p]
    BY <2>1, <2>2, <2>6 DEF Before
  <2> QED
    BY <2>3, <2>4, <2>5, <2>6
<1> QED
  BY <1>1, <1>2 DEF Fresh

\* The steps that leave the batches alone settle futures, or none.
LEMMA ApartSame ==
  ASSUME Apart, UNCHANGED <<batch, pending>>,
         \A f \in Futs : /\ futs'[f].at = "none" => futs[f].at = "none"
                         /\ Unsettled(f)' => Unsettled(f)
  PROVE  Apart' /\ Kept
<1>1. Apart'
  BY DEF Apart
<1>2. Kept
  BY DEF Kept, Tracked
<1> QED
  BY <1>1, <1>2

\* A gather ends.
LEMMA ApartRelease ==
  ASSUME Apart, NEW w \in Waiters, Gathered(batch[w]) \/ batch[w] = {},
         batch'[w] = {}, \A v \in Waiters \ {w} : batch'[v] = batch[v], UNCHANGED <<pending, futs>>
  PROVE  Apart' /\ Kept
<1>1. \A v \in Waiters : batch'[v] \subseteq batch[v]
  OBVIOUS
<1>2. Apart'
  BY <1>1 DEF Apart
<1>3. ASSUME NEW f \in Futs, Unsettled(f), f \in batch[w] PROVE GatherRaises(w)
  <2>1. SomeFailed(batch[w])
    BY <1>3 DEF Gathered, AllOk, Unsettled
  <2> QED
    BY <2>1 DEF GatherRaises, SomeFailed
<1>4. Kept
  BY <1>3 DEF Kept, Tracked, Unsettled
<1> QED
  BY <1>2, <1>4

\* The list becomes the batch of somebody who awaited nothing.
LEMMA ApartTake ==
  ASSUME Apart, NEW w \in Waiters, batch[w] = {}, batch'[w] = pending,
         \A v \in Waiters \ {w} : batch'[v] = batch[v], pending' = {}, UNCHANGED futs
  PROVE  Apart' /\ Kept
<1>1. Apart'
  BY DEF Apart
<1>2. \A f \in Futs : Tracked(f) => Tracked(f)'
  BY DEF Tracked
<1> QED
  BY <1>1, <1>2 DEF Kept, Unsettled

\* Steps that only the futures' settling tells apart.
LEMMA AwaitOutside ==
  ASSUME TypeInv, AwaitInv, UNCHANGED <<at, tries, batch, pending, flusher, stop>>,
         \A f \in Futs : /\ futs'[f].at = "none" <=> futs[f].at = "none"
                         /\ Unsettled(f)' => Unsettled(f)
  PROVE  AwaitInv' /\ Kept
<1>1. Fresh'
  BY DEF AwaitInv, Fresh
<1>2. Awaiting'
  BY DEF AwaitInv, Awaiting
<1> QED
  BY <1>1, <1>2, ApartSame DEF AwaitInv

\* Steps of a coroutine that awaits nothing and does not publish.
LEMMA AwaitMove ==
  ASSUME TypeInv, AwaitInv, NEW p \in Procs, at[p] \in Before, at'[p] # "idle",
         \A q \in Procs \ {p} : at'[q] = at[q] /\ tries'[q] = tries[q],
         at[p] = "idle" \/ tries'[p] \in {tries[p], tries[p] + 1},
         UNCHANGED <<batch, pending, futs, stop>>,
         flusher' = flusher \/ (flusher # "flushing" /\ flusher' # "flushing")
  PROVE  AwaitInv' /\ Kept
<1>1. Fresh'
  BY FreshMove DEF AwaitInv
<1>2. batch[p] = {}
  BY DEF AwaitInv, Awaiting, Before
<1>3. Awaiting'
  BY <1>2 DEF AwaitInv, Awaiting
<1>4. Apart' /\ Kept
  BY ApartSame DEF AwaitInv, Unsettled
<1> QED
  BY <1>1, <1>3, <1>4 DEF AwaitInv

\* PublishRaises, of a coroutine whose gather has ended or that awaits nothing.
LEMMA AwaitRaises ==
  ASSUME TypeInv, AwaitInv, NEW p \in Procs, at[p] # "idle", PublishRaises(p),
         at[p] \in Before \/ Gathered(batch[p]), UNCHANGED <<flusher, stop>>
  PROVE  AwaitInv' /\ Kept
<1>1. /\ \/ at'[p] = "done" /\ tries'[p] = tries[p]
         \/ at'[p] = "send_ready" /\ tries'[p] = tries[p] + 1
      /\ \A q \in Procs \ {p} : at'[q] = at[q] /\ tries'[q] = tries[q]
  BY DEF PublishRaises, Return, TypeInv, TypeOK
<1>2. /\ batch'[p] = {} /\ \A v \in Waiters \ {p} : batch'[v] = batch[v]
      /\ UNCHANGED <<pending, futs>>
  BY DEF PublishRaises, TypeInv, TypeOK, Waiters
<1>3. p \in Waiters /\ p # "flusher" /\ p # "stop" /\ {"flusher", "stop"} \subseteq Waiters
  BY ProcsAssumption DEF Waiters
<1>4. Fresh'
  BY <1>1, <1>2, FreshMove DEF AwaitInv, Before
<1>5. at[p] \in Before => batch[p] = {}
  BY DEF AwaitInv, Awaiting, Before
<1>6. Apart' /\ Kept
  BY <1>2, <1>3, <1>5, ApartRelease DEF AwaitInv
<1>7. Awaiting'
  BY <1>1, <1>2, <1>3 DEF AwaitInv, Awaiting, Waiters
<1> QED
  BY <1>4, <1>6, <1>7 DEF AwaitInv

\* The future is new, and nobody else has it.
LEMMA AwaitPublish ==
  ASSUME TypeInv, AwaitInv, NEW p \in Procs, at[p] \in Before, tries[p] > 0, NEW e,
         PublishOn(p, e, tries[p]), UNCHANGED <<tries, stop>>,
         flusher' = flusher \/ (flusher # "flushing" /\ flusher' # "flushing")
  PROVE  AwaitInv' /\ Kept
<1> DEFINE f == <<p, tries[p]>>
<1>1. f \in Futs /\ f[1] = p /\ f[2] = tries[p]
  BY Bounds DEF TypeInv, TypeOK, Futs
<1>2. futs[f].at = "none"
  BY <1>1, Bounds DEF AwaitInv, Fresh, TypeInv, TypeOK
<1>3. /\ futs'[f].at = "new"
      /\ \A g \in Futs \ {f} : futs'[g] = futs[g]
  BY <1>1 DEF PublishOn, TypeInv, TypeOK
<1>4. /\ at'[p] \in {"publishing", "flushing", "done"}
      /\ \A q \in Procs \ {p} : at'[q] = at[q]
  BY DEF PublishOn, Return, TypeInv, TypeOK
<1>5. \/ at'[p] = "publishing" /\ batch' = [batch EXCEPT ![p] = {f}] /\ pending' = pending
      \/ at'[p] = "flushing" /\ batch' = [batch EXCEPT ![p] = pending \union {f}] /\ pending' = {}
      \/ at'[p] = "done" /\ batch' = batch /\ pending' = pending \union {f}
  BY DEF PublishOn, Return, TypeInv, TypeOK, f
<1> HIDE DEF f
<1>6. f \notin pending /\ \A w \in Waiters : f \notin batch[w]
  BY <1>1, <1>2 DEF AwaitInv, Apart
<1>7. batch[p] = {} /\ p \in Waiters /\ p # "stop" /\ p # "flusher"
  BY ProcsAssumption DEF AwaitInv, Awaiting, Before, Waiters
<1>8. \A w \in Waiters \ {p} : batch'[w] = batch[w]
  BY <1>5 DEF TypeInv, TypeOK
<1>9. \/ batch'[p] = {f} /\ pending' = pending /\ at'[p] = "publishing"
      \/ batch'[p] = pending \union {f} /\ pending' = {} /\ at'[p] = "flushing"
      \/ batch'[p] = {} /\ pending' = pending \union {f} /\ at'[p] = "done"
  BY <1>5, <1>7 DEF TypeInv, TypeOK
<1>10. Fresh'
  <2>1. \A q \in Procs : at'[q] = "idle" => tries'[q] = 0
    BY <1>4 DEF AwaitInv, Fresh
  <2>2. ASSUME NEW g \in Futs, futs'[g].at # "none"
        PROVE  g[2] < tries'[g[1]] \/ (g[2] = tries'[g[1]] /\ at'[g[1]] \notin Before)
    <3>1. CASE g = f
      BY <1>1, <1>4, <3>1 DEF Before
    <3>2. CASE g # f
      BY <1>3, <1>4, <2>2, <3>2 DEF AwaitInv, Fresh, Before, Futs
    <3> QED
      BY <3>1, <3>2
  <2> QED
    BY <2>1, <2>2 DEF Fresh
<1>11. Awaiting'
  BY <1>4, <1>7, <1>8, <1>9 DEF AwaitInv, Awaiting, Waiters
<1>12. \A w \in Waiters : \A g \in batch'[w] : g \notin pending'
  BY <1>6, <1>8, <1>9 DEF AwaitInv, Apart
<1>13. \A v, w \in Waiters : \A g \in batch'[v] : g \in batch'[w] => v = w
  BY <1>6, <1>8, <1>9 DEF AwaitInv, Apart
<1>14. \A g \in Futs : futs'[g].at = "none" => g \notin pending' /\ \A w \in Waiters : g \notin batch'[w]
  BY <1>3, <1>8, <1>9 DEF AwaitInv, Apart
<1>15. \A g \in Futs : Tracked(g) \/ g = f => Tracked(g)'
  BY <1>7, <1>8, <1>9 DEF Tracked
<1>16. Kept
  BY <1>3, <1>15 DEF Kept, Unsettled
<1> QED
  BY <1>10, <1>11, <1>12, <1>13, <1>14, <1>16 DEF AwaitInv, Apart

LEMMA AwaitAttempt == ASSUME TypeInv, AwaitInv, NEW p \in Procs, Attempt(p) PROVE AwaitInv' /\ Kept
<1>1. tries[p] > 0 /\ at[p] = "send_ready" /\ at[p] \in Before /\ UNCHANGED <<flusher, stop>>
  BY DEF Attempt, TrySend, TypeInv, SendInv, Before, stopVars
<1>2. CASE ~Connected
  <2>1. at' = [at EXCEPT ![p] = "connecting"] /\ UNCHANGED <<tries, batch, pending, futs>>
    BY <1>2 DEF Attempt, TrySend
  <2>2. at'[p] = "connecting" /\ \A q \in Procs \ {p} : at'[q] = at[q]
    BY <2>1 DEF TypeInv, TypeOK
  <2> QED
    BY <1>1, <2>1, <2>2, AwaitMove
<1>3. CASE Connected /\ exch = 0
  BY <1>1, <1>3, AwaitRaises DEF Attempt, TrySend
<1>4. CASE Connected /\ exch # 0
  BY <1>1, <1>4, AwaitPublish DEF Attempt, TrySend
<1> QED
  BY <1>2, <1>3, <1>4

LEMMA AwaitCalls ==
  ASSUME TypeInv, AwaitInv, NEW p \in Procs,
         SendCall(p) \/ StartCall(p) \/ StartRetry(p) \/ ConnectionMade(p) \/ ChannelMade(p)
  PROVE  AwaitInv' /\ Kept
<1>1. /\ at[p] \in Before /\ UNCHANGED <<futs, batch, pending, stop, flusher>>
      /\ at[p] = "idle" \/ tries'[p] = tries[p]
  BY DEF SendCall, StartCall, StartRetry, ConnectionMade, ChannelMade, Before, stopVars
<1>2. at'[p] # "idle" /\ \A q \in Procs \ {p} : at'[q] = at[q] /\ tries'[q] = tries[q]
  BY DEF SendCall, StartCall, Return, StartRetry, ConnectionMade, ChannelMade, TypeInv, TypeOK
<1> QED
  BY <1>1, <1>2, AwaitMove

LEMMA AwaitDeclared == ASSUME TypeInv, AwaitInv, NEW p \in Procs, Declared(p) PROVE AwaitInv' /\ Kept
<1>1. /\ at[p] \in Before /\ UNCHANGED <<tries, stop>>
      /\ flusher' = flusher \/ (flusher # "flushing" /\ flusher' # "flushing")
  BY DEF Declared, Before, stopVars
<1>2. CASE tries[p] = 0
  <2>1. Return(p, "ok") /\ UNCHANGED <<batch, pending, futs>>
    BY <1>2 DEF Declared
  <2>2. at'[p] = "done" /\ \A q \in Procs \ {p} : at'[q] = at[q]
    BY <2>1 DEF Return, TypeInv, TypeOK
  <2> QED
    BY <1>1, <2>1, <2>2, AwaitMove
<1>3. CASE tries[p] # 0
  <2>1. tries[p] > 0 /\ PublishOn(p, own[p], tries[p])
    BY <1>3 DEF Declared, TypeInv, TypeOK
  <2> QED
    BY <1>1, <2>1, AwaitPublish
<1> QED
  BY <1>2, <1>3

LEMMA AwaitStartFails == ASSUME TypeInv, AwaitInv, NEW p \in Procs, StartFails(p) PROVE AwaitInv' /\ Kept
<1>1. at[p] \in Before /\ at[p] # "idle" /\ UNCHANGED <<flusher, stop>>
  BY DEF StartFails, Before, stopVars
<1>2. CASE LastAttempt(startTries[p]) /\ tries[p] # 0
  BY <1>1, <1>2, AwaitRaises DEF StartFails
<1>3. CASE ~(LastAttempt(startTries[p]) /\ tries[p] # 0)
  <2>1. UNCHANGED <<tries, batch, pending, futs>>
    BY <1>3 DEF StartFails
  <2>2. at'[p] \in {"start_ready", "done"} /\ \A q \in Procs \ {p} : at'[q] = at[q]
    BY <1>3 DEF StartFails, Return, TypeInv, TypeOK
  <2> QED
    BY <1>1, <2>1, <2>2, AwaitMove
<1> QED
  BY <1>2, <1>3

LEMMA AwaitSendAwaited ==
  ASSUME TypeInv, AwaitInv, NEW p \in Procs, SendAwaited(p) PROVE AwaitInv' /\ Kept
<1>1. /\ at[p] \notin Before /\ at[p] # "idle" /\ Gathered(batch[p]) /\ UNCHANGED <<flusher, stop>>
      /\ p \in Waiters /\ p # "flusher" /\ p # "stop" /\ {"flusher", "stop"} \subseteq Waiters
  BY ProcsAssumption DEF SendAwaited, Before, stopVars, Waiters
<1>2. CASE SomeFailed(batch[p])
  BY <1>1, <1>2, AwaitRaises DEF SendAwaited
<1>3. CASE ~SomeFailed(batch[p])
  <2>1. Return(p, "ok") /\ batch' = [batch EXCEPT ![p] = {}] /\ UNCHANGED <<pending, tries, futs>>
    BY <1>3 DEF SendAwaited, PendingOnceGathered
  <2>2. at'[p] = "done" /\ \A q \in Procs \ {p} : at'[q] = at[q]
    BY <2>1 DEF Return, TypeInv, TypeOK
  <2>3. batch'[p] = {} /\ \A v \in Waiters \ {p} : batch'[v] = batch[v]
    BY <1>1, <2>1 DEF TypeInv, TypeOK
  <2>4. Fresh'
    BY <2>1, <2>2, FreshMove DEF AwaitInv, Before
  <2>5. Awaiting'
    BY <1>1, <2>2, <2>3 DEF AwaitInv, Awaiting, Waiters
  <2>6. Apart' /\ Kept
    BY <1>1, <2>1, <2>3, ApartRelease DEF AwaitInv
  <2> QED
    BY <2>4, <2>5, <2>6 DEF AwaitInv
<1> QED
  BY <1>2, <1>3

LEMMA AwaitFlusher == ASSUME TypeInv, AwaitInv, FlusherStep PROVE AwaitInv' /\ Kept
<1>1. /\ UNCHANGED <<at, tries, stop, futs>>
      /\ {"flusher", "stop"} \subseteq Waiters /\ \A p \in Procs : p \in Waiters /\ p # "flusher"
  BY ProcsAssumption DEF FlusherStep, procVars, stopVars, Waiters
<1>2. Fresh'
  BY <1>1 DEF AwaitInv, Fresh
<1>3. CASE flusher # "flushing" /\ flusher' # "flushing" /\ UNCHANGED <<batch, pending>>
  <2>1. Awaiting'
    BY <1>1, <1>3 DEF AwaitInv, Awaiting
  <2>2. Apart' /\ Kept
    BY <1>1, <1>3, ApartSame DEF AwaitInv, Unsettled
  <2> QED
    BY <1>2, <2>1, <2>2 DEF AwaitInv
<1>4. CASE /\ flusher = "sleeping" /\ flusher' = "flushing"
           /\ batch' = [batch EXCEPT !["flusher"] = pending] /\ pending' = {}
  <2>1. /\ batch["flusher"] = {} /\ batch'["flusher"] = pending
        /\ \A w \in Waiters \ {"flusher"} : batch'[w] = batch[w]
    BY <1>1, <1>4 DEF AwaitInv, Awaiting, TypeInv, TypeOK
  <2>2. Awaiting'
    BY <1>1, <1>4, <2>1 DEF AwaitInv, Awaiting
  <2>3. Apart' /\ Kept
    BY <1>1, <1>4, <2>1, ApartTake DEF AwaitInv
  <2> QED
    BY <1>2, <2>2, <2>3 DEF AwaitInv
<1>5. CASE /\ flusher = "flushing" /\ flusher' # "flushing" /\ Gathered(batch["flusher"])
           /\ batch' = [batch EXCEPT !["flusher"] = {}] /\ UNCHANGED pending
  <2>1. batch'["flusher"] = {} /\ \A w \in Waiters \ {"flusher"} : batch'[w] = batch[w]
    BY <1>1, <1>5 DEF TypeInv, TypeOK
  <2>2. Awaiting'
    BY <1>1, <1>5, <2>1 DEF AwaitInv, Awaiting
  <2>3. Apart' /\ Kept
    BY <1>1, <1>5, <2>1, ApartRelease DEF AwaitInv
  <2> QED
    BY <1>2, <2>2, <2>3 DEF AwaitInv
<1> QED
  BY <1>3, <1>4, <1>5 DEF FlusherStep, AfterFailedFlush, PendingOnceGathered

\* The broker, the connections, and steps of stop() that await a close.
LEMMA AwaitEnvironment ==
  ASSUME TypeInv, AwaitInv,
         \/ \E f \in Futs : Sent(f) \/ SentInVain(f) \/ Confirmed(f) \/ Rejected(f) \/ Aborted(f)
         \/ \E c \in Conns : ConnectionLost(c) \/ Reconnected(c)
         \/ UNCHANGED vars
  PROVE  AwaitInv' /\ Kept
<1>1. UNCHANGED <<at, tries, batch, pending, flusher, stop>>
  BY DEF Sent, SentInVain, Confirmed, Rejected, Aborted, ConnectionLost, Reconnected, vars,
         envUnchanged, procVars, stopVars
<1>2. \A f \in Futs : /\ futs'[f].at = "none" <=> futs[f].at = "none"
                      /\ Unsettled(f)' => Unsettled(f)
  <2>1. ASSUME NEW f \in Futs, Sent(f) \/ SentInVain(f) \/ Confirmed(f) \/ Rejected(f) \/ Aborted(f)
        PROVE  \A g \in Futs : /\ futs'[g].at = "none" <=> futs[g].at = "none"
                               /\ Unsettled(g)' => Unsettled(g)
    <3>1. \A g \in Futs : g # f => futs'[g] = futs[g]
      BY <2>1 DEF Sent, SentInVain, Confirmed, Rejected, Aborted, TypeInv, TypeOK
    <3>2. Unsettled(f) /\ futs'[f].at \in {"sent", "ok", "failed"}
      BY <2>1 DEF Sent, SentInVain, Confirmed, Rejected, Aborted, Unsettled, TypeInv, TypeOK, Fut
    <3> QED
      BY <3>1, <3>2 DEF Unsettled
  <2>2. ASSUME NEW c \in Conns, ConnectionLost(c)
        PROVE  \A g \in Futs : /\ futs'[g].at = "none" <=> futs[g].at = "none"
                               /\ Unsettled(g)' => Unsettled(g)
    <3>1. \A g \in Futs : futs'[g] = futs[g] \/ (futs[g].at = "sent" /\ futs'[g].at = "failed")
      BY <2>2 DEF ConnectionLost, Broken, TypeInv, TypeOK, Fut
    <3> QED
      BY <3>1 DEF Unsettled
  <2>3. CASE UNCHANGED vars \/ \E c \in Conns : Reconnected(c)
    BY <2>3 DEF vars, Reconnected, envUnchanged, Unsettled
  <2> QED
    BY <2>1, <2>2, <2>3
<1> QED
  BY <1>1, <1>2, AwaitOutside

\* stop() once it has gathered: the flusher's publishes are cancelled with it.
LEMMA AwaitCancel ==
  ASSUME TypeInv, AwaitInv, CancelAndClose, UNCHANGED <<at, tries, pending>>,
         Gathered(batch["stop"]) \/ batch["stop"] = {}
  PROVE  AwaitInv' /\ Kept
<1>1. /\ flusher' = "none" /\ futs' = Cancelled
      /\ stop' \in {"closing_chan", "closing_conn", "stopped"}
  BY DEF CancelAndClose, CloseConnection
<1>2. /\ {"flusher", "stop"} \subseteq Waiters /\ \A p \in Procs : p \in Waiters /\ p \notin {"flusher", "stop"}
      /\ batch'["flusher"] = {} /\ batch'["stop"] = {}
      /\ \A w \in Waiters \ {"flusher", "stop"} : batch'[w] = batch[w]
  BY ProcsAssumption DEF CancelAndClose, Waiters, TypeInv, TypeOK
<1>3. \A f \in Futs : /\ futs'[f].at = "none" <=> futs[f].at = "none"
                      /\ Unsettled(f)' => Unsettled(f) /\ f \notin batch["flusher"]
  <2>1. \A f \in Futs : \/ futs'[f] = futs[f] /\ ~(f \in batch["flusher"] /\ Unsettled(f))
                        \/ Unsettled(f) /\ futs'[f].at = "cancelled"
    BY <1>1 DEF Cancelled, Unsettled, TypeInv, TypeOK, Fut
  <2> QED
    BY <2>1 DEF Unsettled
<1>4. Fresh'
  BY <1>3 DEF AwaitInv, Fresh
<1>5. Awaiting'
  BY <1>1, <1>2 DEF AwaitInv, Awaiting
<1>6. \A w \in Waiters : batch'[w] \subseteq batch[w]
  BY <1>2
<1>7. Apart'
  BY <1>3, <1>6 DEF AwaitInv, Apart
<1>8. ASSUME NEW f \in Futs, Unsettled(f), f \in batch["stop"] PROVE GatherRaises("stop")
  <2>1. SomeFailed(batch["stop"])
    BY <1>8 DEF Gathered, AllOk, Unsettled
  <2> QED
    BY <1>2, <2>1 DEF GatherRaises, SomeFailed
<1>9. Kept
  BY <1>2, <1>3, <1>8 DEF Kept, Tracked
<1> QED
  BY <1>4, <1>5, <1>7, <1>9 DEF AwaitInv

LEMMA AwaitStop == ASSUME TypeInv, AwaitInv, StopCall \/ StopStep PROVE AwaitInv' /\ Kept
<1>1. UNCHANGED <<at, tries>>
  BY DEF StopCall, StopStep, StopFlushed, ChannelClosed, ConnectionClosed, procVars
<1>2. CASE StopCall /\ pending = {}
  <2>1. CancelAndClose /\ UNCHANGED pending
    BY <1>2 DEF StopCall
  <2>2. batch["stop"] = {}
    BY <1>2 DEF StopCall, AwaitInv, Awaiting
  <2> QED
    BY <1>1, <2>1, <2>2, AwaitCancel
<1>3. CASE StopCall /\ pending # {}
  <2>1. /\ stop # "flushing" /\ stop' = "flushing" /\ pending' = {} /\ UNCHANGED <<flusher, futs>>
        /\ batch' = [batch EXCEPT !["stop"] = pending]
    BY <1>3 DEF StopCall
  <2>2. /\ {"flusher", "stop"} \subseteq Waiters /\ \A p \in Procs : p \in Waiters /\ p # "stop"
        /\ batch["stop"] = {} /\ batch'["stop"] = pending
        /\ \A w \in Waiters \ {"stop"} : batch'[w] = batch[w]
    BY <2>1, ProcsAssumption DEF AwaitInv, Awaiting, Waiters, TypeInv, TypeOK
  <2>3. Fresh'
    BY <1>1, <2>1 DEF AwaitInv, Fresh
  <2>4. Awaiting'
    BY <1>1, <2>1, <2>2 DEF AwaitInv, Awaiting
  <2>5. Apart' /\ Kept
    BY <2>1, <2>2, ApartTake DEF AwaitInv
  <2> QED
    BY <2>3, <2>4, <2>5 DEF AwaitInv
<1>4. CASE StopFlushed
  BY <1>1, <1>4, AwaitCancel DEF StopFlushed, PendingOnceGathered
<1>5. CASE ChannelClosed \/ ConnectionClosed
  <2>1. /\ UNCHANGED <<batch, pending, flusher, futs>>
        /\ stop # "flushing" /\ stop' \in {"closing_conn", "stopped"}
    BY <1>5 DEF ChannelClosed, ConnectionClosed, CloseConnection
  <2>2. Fresh' /\ Awaiting'
    BY <1>1, <2>1 DEF AwaitInv, Fresh, Awaiting
  <2>3. Apart' /\ Kept
    BY <2>1, ApartSame DEF AwaitInv, Unsettled
  <2> QED
    BY <2>2, <2>3 DEF AwaitInv
<1> QED
  BY <1>2, <1>3, <1>4, <1>5 DEF StopStep

LEMMA AwaitNext == ASSUME TypeInv, AwaitInv, [Next]_vars PROVE AwaitInv' /\ Kept
<1>1. CASE UNCHANGED vars
  BY <1>1, AwaitEnvironment
<1>2. CASE Next
  BY <1>2, AwaitAttempt, AwaitCalls, AwaitDeclared, AwaitStartFails, AwaitSendAwaited, AwaitFlusher,
     AwaitEnvironment, AwaitStop DEF Next, ProcStep, PublishStep
<1> QED
  BY <1>1, <1>2

\* A future has one keeper or none.
LEMMA KeepersOf ==
  TypeInv /\ AwaitInv => \A f \in Futs : Keepers(f) = IF Tracked(f) THEN 1 ELSE 0
<1> SUFFICES ASSUME TypeInv, AwaitInv, NEW f \in Futs
             PROVE  Keepers(f) = IF Tracked(f) THEN 1 ELSE 0
  OBVIOUS
<1>1. CASE \E w \in Waiters : f \in batch[w]
  <2>1. PICK w \in Waiters : f \in batch[w]
    BY <1>1
  <2>2. Holders(f) = {w} /\ f \notin pending
    BY <2>1 DEF AwaitInv, Apart, Holders
  <2> QED
    BY <2>1, <2>2, FS_Singleton DEF Keepers, Tracked
<1>2. CASE \A w \in Waiters : f \notin batch[w]
  <2>1. Holders(f) = {}
    BY <1>2 DEF Holders
  <2> QED
    BY <1>2, <2>1, FS_EmptySet DEF Keepers, Tracked
<1> QED
  BY <1>1, <1>2

\* Whatever fails, is retried or is stopped: an unconfirmed publish is kept by the list or by one
\* awaiting coroutine, until it is settled or a failed confirm of its own batch ends the gather.
THEOREM EveryConfirmHeld == Spec => NoForgottenConfirm
<1> DEFINE Step == \A f \in Futs : Unsettled(f)' =>
                     \/ Keepers(f)' = 1
                     \/ Keepers(f)' = 0 /\ \/ Unsettled(f) /\ Keepers(f) = 0
                                           \/ \E w \in Holders(f) : GatherRaises(w)
           One == \A f \in Futs : Keepers(f) = IF Tracked(f) THEN 1 ELSE 0
<1>1. TypeInv /\ AwaitInv => One
  BY KeepersOf
<1>2. AwaitInv /\ TypeInv /\ [Next]_vars => AwaitInv' /\ Kept
  BY AwaitNext
<1>3. One /\ One' /\ Kept => Step
  BY DEF Kept, Holders
<1> QED
  BY <1>1, <1>2, <1>3, AwaitInit, TypeInvariant, PTL DEF Spec, NoForgottenConfirm

-----------------------------------------------------------------------------
(* Without faults and stop().  A send() publishes in one attempt only, and  *)
(* a connection that is used stays up.                                      *)

Calm == faults = 0 /\ stops = 0

OnceInv ==
  /\ stop = "idle"
  /\ \A f \in Futs : futs[f].at \in {"none", "new", "sent", "ok"}
  /\ \A f \in Futs : futs[f].at # "none" => at[f[1]] \notin Before /\ f[2] = tries[f[1]]
  /\ \A f \in Futs : futs[f].at = "new" => copies[f[1]] = 0
  /\ \A p \in Procs : at[p] \in Before => copies[p] = 0
  /\ \A p \in Procs : copies[p] <= 1
  /\ \A f \in Futs : futs[f].at # "none" => futs[f].conn # 0 /\ link[futs[f].conn] = "up"
  /\ exch # 0 => link[exch] = "up"
  /\ \A p \in Procs : at[p] \in {"opening", "declaring"} => own[p] # 0

CalmInv == Calm => OnceInv

LinkKept == \A c \in Conns : link[c] = "up" => link'[c] = "up"

LEMMA CalmBack == ASSUME TypeInv, [Next]_vars, Calm' PROVE Calm
<1>1. faults \in Nat /\ stops \in Nat
  BY ConfigNat DEF TypeInv, TypeOK
<1>2. faults' \in {faults, faults + 1} /\ stops' \in {stops, stops + 1}
  BY DEF Next, vars, ProcStep, PublishStep, StopStep, SendCall, StartCall, Attempt, TrySend, SendAwaited,
     StartRetry, ConnectionMade, ChannelMade, Declared, StartFails, FlusherStep, Sent, SentInVain, Confirmed,
     Rejected, ConnectionLost, Reconnected, Aborted, StopCall, StopFlushed, ChannelClosed, ConnectionClosed,
     envUnchanged, stopVars
<1> QED
  BY <1>1, <1>2 DEF Calm

LEMMA CalmInit == Init => CalmInv
  BY DEF Init, CalmInv, OnceInv

LEMMA NoneFailed == ASSUME TypeInv, OnceInv, NEW w \in Waiters PROVE ~SomeFailed(batch[w])
  BY DEF TypeInv, TypeOK, OnceInv, SomeFailed

\* Where a connection that is used can be.
LEMMA UsedConns ==
  ASSUME TypeInv, OnceInv
  PROVE /\ \A f \in Futs : futs[f].at # "none" => futs[f].conn \in Conns /\ link[futs[f].conn] = "up"
        /\ exch # 0 => exch \in Conns /\ link[exch] = "up"
<1>1. \A f \in Futs : futs[f].conn \in 0 .. MaxConns
  BY DEF TypeInv, TypeOK, Fut
<1>2. exch \in 0 .. MaxConns
  BY DEF TypeInv, TypeOK
<1>3. \A c \in 0 .. MaxConns : c # 0 => c \in Conns
  BY Bounds DEF Conns
<1> QED
  BY <1>1, <1>2, <1>3 DEF OnceInv

\* A coroutine that has not published yet goes on, or is done without having published.
LEMMA CalmMove ==
  ASSUME TypeInv, OnceInv, NEW p \in Procs, at[p] \in Before, at'[p] \in Before \union {"done"},
         \A q \in Procs \ {p} : at'[q] = at[q] /\ tries'[q] = tries[q] /\ own'[q] = own[q],
         UNCHANGED <<futs, copies, stop>>, LinkKept,
         exch' \in {0, exch} \/ link'[exch'] = "up",
         at'[p] \in {"opening", "declaring"} => own'[p] # 0
  PROVE OnceInv'
<1>1. \A f \in Futs : f[1] = p => futs[f].at = "none"
  BY DEF OnceInv
<1>2. \A f \in Futs : futs'[f].at # "none" => at'[f[1]] \notin Before /\ f[2] = tries'[f[1]]
  BY <1>1 DEF OnceInv, Futs
<1>3. \A f \in Futs : futs'[f].at # "none" => futs'[f].conn # 0 /\ link'[futs'[f].conn] = "up"
  BY UsedConns DEF LinkKept, OnceInv
<1>4. exch' # 0 => link'[exch'] = "up"
  BY UsedConns DEF LinkKept
<1>5. \A q \in Procs : at'[q] \in {"opening", "declaring"} => own'[q] # 0
  BY DEF OnceInv
<1>6. \A q \in Procs : at'[q] \in Before => copies'[q] = 0
  BY DEF OnceInv
<1> QED
  BY <1>2, <1>3, <1>4, <1>5, <1>6 DEF OnceInv

\* PublishRaises, of a coroutine that awaits nothing.
LEMMA CalmRaises ==
  ASSUME TypeInv, OnceInv, NEW p \in Procs, at[p] \in Before, PublishRaises(p),
         UNCHANGED <<copies, own, stop, link>>
  PROVE OnceInv'
<1>1. UNCHANGED futs
  BY DEF PublishRaises
<1>2. /\ at'[p] \in {"done", "send_ready"}
      /\ \A q \in Procs \ {p} : at'[q] = at[q] /\ tries'[q] = tries[q] /\ own'[q] = own[q]
  BY DEF PublishRaises, Return, TypeInv, TypeOK
<1>3. exch' \in {0, exch} /\ LinkKept
  BY DEF PublishRaises, LinkKept, fieldVars
<1> QED
  BY <1>1, <1>2, <1>3, CalmMove DEF Before

\* The future is new, and nobody else holds it.
LEMMA CalmPublish ==
  ASSUME TypeInv, OnceInv, NEW p \in Procs, at[p] \in Before, tries[p] > 0,
         NEW e \in Conns, link[e] = "up", PublishOn(p, e, tries[p]),
         UNCHANGED <<tries, own, copies, link, stop>>, exch' \in {exch, e}
  PROVE OnceInv'
<1> DEFINE f == <<p, tries[p]>>
<1>1. f \in Futs /\ f[1] = p /\ f[2] = tries[p] /\ futs[f].at = "none"
  BY Bounds DEF TypeInv, TypeOK, Futs, OnceInv
<1>2. e # 0
  BY Bounds DEF Conns
<1>3. /\ futs'[f] = [at |-> "new", conn |-> e]
      /\ \A g \in Futs \ {f} : futs'[g] = futs[g]
  BY <1>1 DEF PublishOn, TypeInv, TypeOK
<1>4. /\ at'[p] \in {"publishing", "flushing", "done"}
      /\ \A q \in Procs \ {p} : at'[q] = at[q]
  BY DEF PublishOn, Return, TypeInv, TypeOK
<1>5. \A g \in Futs : g[1] = p => futs[g].at = "none"
  BY DEF OnceInv
<1> HIDE DEF f
<1>6. \A g \in Futs : futs'[g].at # "none" => at'[g[1]] \notin Before /\ g[2] = tries'[g[1]]
  BY <1>1, <1>3, <1>4, <1>5 DEF OnceInv, Before, Futs
<1>7. /\ \A g \in Futs : futs'[g].at \in {"none", "new", "sent", "ok"}
      /\ \A g \in Futs : futs'[g].at = "new" => copies'[g[1]] = 0
  BY <1>1, <1>3 DEF OnceInv
<1>8. \A g \in Futs : futs'[g].at # "none" => futs'[g].conn # 0 /\ link'[futs'[g].conn] = "up"
  BY <1>2, <1>3 DEF OnceInv
<1>9. /\ exch' # 0 => link'[exch'] = "up"
      /\ \A q \in Procs : at'[q] \in Before => copies'[q] = 0
      /\ \A q \in Procs : at'[q] \in {"opening", "declaring"} => own'[q] # 0
  BY <1>4 DEF OnceInv, Before
<1> QED
  BY <1>6, <1>7, <1>8, <1>9 DEF OnceInv

LEMMA CalmAttempt ==
  ASSUME TypeInv, OnceInv, NEW p \in Procs, Attempt(p) PROVE OnceInv'
<1>1. /\ tries[p] > 0 /\ at[p] = "send_ready" /\ at[p] \in Before
      /\ UNCHANGED <<own, stop, link, copies>>
  BY DEF Attempt, TrySend, TypeInv, SendInv, Before, stopVars
<1>2. CASE ~Connected
  <2>1. at' = [at EXCEPT ![p] = "connecting"] /\ UNCHANGED <<tries, fieldVars, batch, pending, futs>>
    BY <1>2 DEF Attempt, TrySend
  <2>2. at'[p] = "connecting" /\ \A q \in Procs \ {p} : at'[q] = at[q]
    BY <2>1 DEF TypeInv, TypeOK
  <2> QED
    BY <1>1, <2>1, <2>2, CalmMove DEF Before, LinkKept, fieldVars
<1>3. CASE Connected /\ exch = 0
  BY <1>1, <1>3, CalmRaises DEF Attempt, TrySend
<1>4. CASE Connected /\ exch # 0
  <2>1. PublishOn(p, exch, tries[p]) /\ UNCHANGED <<tries, exch>>
    BY <1>4 DEF Attempt, TrySend, fieldVars
  <2>2. exch \in Conns /\ link[exch] = "up"
    BY <1>4, UsedConns
  <2> QED
    BY <1>1, <2>1, <2>2, CalmPublish
<1> QED
  BY <1>2, <1>3, <1>4

LEMMA CalmCalls ==
  ASSUME TypeInv, OnceInv, NEW p \in Procs,
         SendCall(p) \/ StartCall(p) \/ StartRetry(p) \/ ConnectionMade(p) \/ ChannelMade(p)
  PROVE OnceInv'
<1>1. at[p] \in Before /\ UNCHANGED <<futs, copies, stop, exch>>
  BY DEF SendCall, StartCall, StartRetry, ConnectionMade, ChannelMade, Before, stopVars, fieldVars
<1>2. /\ at'[p] \in Before \union {"done"}
      /\ \A q \in Procs \ {p} : at'[q] = at[q] /\ tries'[q] = tries[q] /\ own'[q] = own[q]
  BY DEF SendCall, StartCall, Return, StartRetry, ConnectionMade, ChannelMade, Before, TypeInv, TypeOK
<1>3. LinkKept
  BY DEF SendCall, StartCall, StartRetry, ConnectionMade, ChannelMade, LinkKept, Opened, TypeInv, TypeOK
<1>4. at'[p] \in {"opening", "declaring"} => own'[p] # 0
  <2>1. CASE ConnectionMade(p)
    BY <2>1, Bounds DEF ConnectionMade, Conns, TypeInv, TypeOK
  <2>2. CASE ChannelMade(p)
    BY <2>2 DEF ChannelMade, OnceInv
  <2>3. CASE SendCall(p) \/ StartCall(p) \/ StartRetry(p)
    BY <2>3 DEF SendCall, StartCall, Return, StartRetry, TypeInv, TypeOK
  <2> QED
    BY <2>1, <2>2, <2>3
<1> QED
  BY <1>1, <1>2, <1>3, <1>4, CalmMove

LEMMA CalmDeclared ==
  ASSUME TypeInv, OnceInv, NEW p \in Procs, Declared(p) PROVE OnceInv'
<1>1. /\ at[p] = "declaring" /\ at[p] \in Before /\ link[own[p]] = "up" /\ exch' = own[p]
      /\ UNCHANGED <<tries, own, stop, link, copies>>
  BY DEF Declared, Before, stopVars
<1>2. own[p] \in Conns
  BY <1>1, Bounds DEF OnceInv, TypeInv, TypeOK, Conns
<1>3. CASE tries[p] = 0
  <2>1. Return(p, "ok") /\ UNCHANGED futs
    BY <1>3 DEF Declared
  <2>2. at'[p] = "done" /\ \A q \in Procs \ {p} : at'[q] = at[q]
    BY <2>1 DEF Return, TypeInv, TypeOK
  <2> QED
    BY <1>1, <2>1, <2>2, CalmMove DEF LinkKept
<1>4. CASE tries[p] # 0
  <2>1. tries[p] > 0 /\ PublishOn(p, own[p], tries[p])
    BY <1>4 DEF Declared, TypeInv, TypeOK
  <2> QED
    BY <1>1, <1>2, <2>1, CalmPublish
<1> QED
  BY <1>3, <1>4

LEMMA CalmStartFails ==
  ASSUME TypeInv, OnceInv, NEW p \in Procs, StartFails(p) PROVE OnceInv'
<1>1. at[p] \in Before /\ UNCHANGED <<own, stop, link, copies>>
  BY DEF StartFails, Before, stopVars
<1>2. CASE LastAttempt(startTries[p]) /\ tries[p] # 0
  BY <1>1, <1>2, CalmRaises DEF StartFails
<1>3. CASE ~(LastAttempt(startTries[p]) /\ tries[p] # 0)
  <2>1. UNCHANGED <<tries, futs, exch>>
    BY <1>3 DEF StartFails, fieldVars
  <2>2. at'[p] \in {"start_ready", "done"} /\ \A q \in Procs \ {p} : at'[q] = at[q]
    BY <1>3 DEF StartFails, Return, TypeInv, TypeOK
  <2> QED
    BY <1>1, <2>1, <2>2, CalmMove DEF Before, LinkKept
<1> QED
  BY <1>2, <1>3

LEMMA CalmSendAwaited ==
  ASSUME TypeInv, OnceInv, NEW p \in Procs, SendAwaited(p) PROVE OnceInv'
<1>1. p \in Waiters /\ ~SomeFailed(batch[p])
  BY NoneFailed DEF Waiters
<1>2. Return(p, "ok") /\ UNCHANGED <<tries, fieldVars, futs, own, stop, link, copies>>
  BY <1>1 DEF SendAwaited, stopVars
<1>3. at[p] \notin Before /\ at'[p] = "done" /\ \A q \in Procs \ {p} : at'[q] = at[q]
  BY <1>2 DEF SendAwaited, Before, Return, TypeInv, TypeOK
<1> QED
  BY <1>2, <1>3 DEF OnceInv, Before, fieldVars, Futs

LEMMA CalmSent == ASSUME TypeInv, OnceInv, NEW f \in Futs, Sent(f) PROVE OnceInv'
<1>1. /\ futs[f].at = "new" /\ futs[f] \in Fut /\ f[1] \in Procs /\ copies[f[1]] = 0
      /\ UNCHANGED <<envUnchanged, link>>
  BY DEF Sent, OnceInv, TypeInv, TypeOK, Futs
<1>2. /\ futs'[f].at \in {"sent", "ok"} /\ futs'[f].conn = futs[f].conn
      /\ \A g \in Futs \ {f} : futs'[g] = futs[g]
  BY <1>1 DEF Sent, TypeInv, TypeOK, Fut
<1>3. copies'[f[1]] = 1 /\ \A p \in Procs \ {f[1]} : copies'[p] = copies[p]
  BY <1>1 DEF Sent, TypeInv, TypeOK
<1>4. \A g \in Futs \ {f} : futs[g].at = "new" => g[1] # f[1]
  BY <1>1 DEF OnceInv, Futs
<1>5. at[f[1]] \notin Before
  BY <1>1 DEF OnceInv
<1>6. \A g \in Futs : futs'[g].at = "new" => copies'[g[1]] = 0
  BY <1>2, <1>3, <1>4 DEF OnceInv, Futs
<1>7. /\ \A p \in Procs : at'[p] \in Before => copies'[p] = 0
      /\ \A p \in Procs : copies'[p] <= 1
  BY <1>1, <1>3, <1>5 DEF OnceInv, envUnchanged, procVars
<1> QED
  BY <1>1, <1>2, <1>6, <1>7 DEF OnceInv, envUnchanged, procVars, fieldVars, stopVars

LEMMA CalmConfirmed ==
  ASSUME TypeInv, OnceInv, NEW f \in Futs, Confirmed(f) PROVE OnceInv'
<1>1. futs[f].at = "sent" /\ futs[f] \in Fut /\ UNCHANGED <<envUnchanged, link, copies>>
  BY DEF Confirmed, TypeInv, TypeOK
<1>2. /\ futs'[f].at = "ok" /\ futs'[f].conn = futs[f].conn
      /\ \A g \in Futs \ {f} : futs'[g] = futs[g]
  BY <1>1 DEF Confirmed, TypeInv, TypeOK, Fut
<1> QED
  BY <1>1, <1>2 DEF OnceInv, envUnchanged, procVars, fieldVars, stopVars

\* Steps that cannot be taken, or only with a fault or a stop().
LEMMA CalmImpossible ==
  ASSUME TypeInv, OnceInv, Calm, Calm'
  PROVE /\ ~StopCall /\ ~StopStep
        /\ \A f \in Futs : ~SentInVain(f) /\ ~Rejected(f) /\ ~Aborted(f)
        /\ \A c \in Conns : ~ConnectionLost(c)
<1>1. ~StopCall /\ ~StopStep
  BY DEF StopCall, StopStep, StopFlushed, ChannelClosed, ConnectionClosed, OnceInv, Calm
<1>2. \A f \in Futs : futs[f].at # "none" => ~ChannelGone(f)
  BY DEF ChannelGone, OnceInv
<1>3. \A f \in Futs : ~SentInVain(f) /\ ~Rejected(f) /\ ~Aborted(f)
  BY <1>2 DEF SentInVain, Rejected, Aborted, Calm
<1>4. \A c \in Conns : ~ConnectionLost(c)
  BY DEF ConnectionLost, Calm
<1> QED
  BY <1>1, <1>3, <1>4

LEMMA CalmSame ==
  ASSUME TypeInv, OnceInv,
         UNCHANGED vars \/ FlusherStep \/ \E c \in Conns : Reconnected(c)
  PROVE OnceInv'
<1>1. UNCHANGED <<procVars, fieldVars, stop, futs, copies>> /\ LinkKept
  BY DEF vars, FlusherStep, Reconnected, LinkKept, envUnchanged, stopVars, TypeInv, TypeOK
<1>2. /\ \A f \in Futs : futs[f].at # "none" => futs[f].conn # 0 /\ link'[futs[f].conn] = "up"
      /\ exch # 0 => link'[exch] = "up"
  BY <1>1, UsedConns DEF LinkKept, OnceInv
<1> QED
  BY <1>1, <1>2 DEF OnceInv, procVars, fieldVars

LEMMA CalmNext == ASSUME TypeInv, CalmInv, [Next]_vars PROVE CalmInv'
<1> SUFFICES ASSUME Calm' PROVE OnceInv'
  BY DEF CalmInv
<1>1. Calm /\ OnceInv
  BY CalmBack DEF CalmInv
<1> QED
  BY <1>1, CalmAttempt, CalmCalls, CalmDeclared, CalmStartFails, CalmSendAwaited, CalmSent,
     CalmConfirmed, CalmImpossible, CalmSame DEF Next, ProcStep, PublishStep

LEMMA CalmInvariant == Spec => []CalmInv
<1>1. Init => CalmInv
  BY CalmInit
<1>2. TypeInv /\ CalmInv /\ [Next]_vars => CalmInv'
  BY CalmNext
<1> QED
  BY <1>1, <1>2, TypeInvariant, PTL DEF Spec

\* Without faults and stop() no message is published twice, whatever coroutines send, start and
\* flush at the same time and however often they try.
THEOREM NoDuplicates == Spec => []PublishedOnce
<1>1. CalmInv => PublishedOnce
  BY DEF CalmInv, Calm, OnceInv, PublishedOnce
<1> QED
  BY <1>1, CalmInvariant, PTL

=============================================================================
