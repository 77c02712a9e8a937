------------------------ MODULE DeliveryContractProofs ------------------------
(***************************************************************************)
(* What the contract promises, derived from its steps: a listener that     *)
(* implements DeliveryContract has these properties without its channels,  *)
(* threads and tasks being looked at again.                                *)
(***************************************************************************)
EXTENDS DeliveryContract, TLAPS

Promise ==
  /\ auto => \A m \in Messages : calls[m] <= 1
  /\ auto => copied = {}
  /\ ~auto => Messages \ kept \subseteq handled \union copied
  /\ \A m \in handled \union copied : calls[m] > 0

Typing ==
  /\ auto \in BOOLEAN
  /\ kept \subseteq Messages /\ handled \subseteq Messages /\ copied \subseteq Messages
  /\ calls \in [Messages -> 0 .. 2]

LEMMA InitPromise == Init => Typing /\ Promise
  BY DEF Init, Typing, Promise

LEMMA ForgetPromise == ASSUME Typing, Promise, NEW m \in Messages, Forget(m) PROVE Typing' /\ Promise'
  BY DEF Forget, Typing, Promise

\* The message that is called for was never called for before when the broker forgets first.
LEMMA CallPromise == ASSUME Typing, Promise, NEW m \in Messages, Call(m) PROVE Typing' /\ Promise'
<1>1. UNCHANGED <<auto, kept, copied>> /\ (auto => calls[m] = 0)
      /\ handled' \in {handled, handled \union {m}}
  BY DEF Call
<1>2. calls'[m] > 0 /\ calls' \in [Messages -> 0 .. 2] /\ (calls[m] = 0 => calls'[m] = 1)
      /\ \A n \in Messages : n # m => calls'[n] = calls[n]
  BY DEF Call, Typing
<1>3. Typing'
  BY <1>1, <1>2 DEF Typing
<1>4. auto => \A n \in Messages : calls'[n] <= 1
  BY <1>1, <1>2 DEF Promise
<1>5. \A n \in handled' \union copied' : calls'[n] > 0
  <2>1. \A n \in Messages : calls[n] > 0 => calls'[n] > 0
    BY <1>2
  <2> QED
    BY <1>1, <1>2, <2>1 DEF Promise, Typing
<1> QED
  BY <1>1, <1>3, <1>4, <1>5 DEF Promise

LEMMA ReturnPromise ==
  ASSUME Typing, Promise, NEW m \in Messages, Return(m) \/ Copy(m) PROVE Typing' /\ Promise'
  BY DEF Return, Copy, Typing, Promise

\* "auto_ack=True: at-most-once delivery", "auto_ack=False: at-least-once delivery"
\* (sync_adapter.py:40, async_adapter.py:277): with auto_ack no message is passed to the
\* callback twice and none goes to the dead letter queue; without it only a message that was
\* handled or copied is forgotten; and nothing is handled or copied that the callback never got.
THEOREM ContractKeepsPromise == Spec => []Promise
<1>1. Typing /\ Promise /\ [Next]_contractVars => Typing' /\ Promise'
  <2> SUFFICES ASSUME Typing, Promise, [Next]_contractVars PROVE Typing' /\ Promise'
    OBVIOUS
  <2>1. CASE UNCHANGED contractVars
    BY <2>1 DEF contractVars, Typing, Promise
  <2> QED
    BY <2>1, ForgetPromise, CallPromise, ReturnPromise DEF Next
<1> QED
  BY <1>1, InitPromise, PTL DEF Spec
=============================================================================
