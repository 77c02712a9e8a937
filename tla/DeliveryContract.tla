--------------------------- MODULE DeliveryContract ---------------------------
(***************************************************************************)
(* What an application may rely on when it consumes a queue through a      *)
(* listener, the synchronous or the asynchronous one: "auto_ack=True:      *)
(* at-most-once delivery", "auto_ack=False: at-least-once delivery".       *)
(*                                                                         *)
(* Connections, channels, deliveries and threads do not appear: a message  *)
(* is kept by the broker, is passed to the user callback, and is kept no   *)
(* longer.                                                                 *)
(***************************************************************************)
EXTENDS Naturals

CONSTANT Messages

VARIABLES
    auto,      \* the auto_ack argument
    kept,      \* messages the broker has not forgotten
    calls,     \* times the user callback got a message, at most 2
    handled,   \* messages for which the user callback returned
    copied     \* messages with a copy in the dead letter queue

contractVars == <<auto, kept, calls, handled, copied>>

Init ==
    /\ auto \in BOOLEAN
    /\ kept = Messages
    /\ calls = [m \in Messages |-> 0] /\ handled = {} /\ copied = {}

\* With auto_ack the broker forgets a message when it delivers it, otherwise only one
\* that has been processed or copied.
Forget(m) ==
    /\ m \in kept
    /\ auto \/ m \in handled \union copied
    /\ kept' = kept \ {m}
    /\ UNCHANGED <<auto, calls, handled, copied>>

\* With auto_ack the callback gets a message once, and only after the broker forgot it;
\* otherwise any number of times.  It may have returned already.
Call(m) ==
    /\ auto => m \notin kept /\ calls[m] = 0
    /\ calls' = [calls EXCEPT ![m] = IF @ < 2 THEN @ + 1 ELSE 2]
    /\ handled' \in {handled, handled \union {m}}
    /\ UNCHANGED <<auto, kept, copied>>

Return(m) ==
    /\ calls[m] > 0
    /\ handled' = handled \union {m}
    /\ UNCHANGED <<auto, kept, calls, copied>>

\* A message is dead only once it has been tried, and never with auto_ack.
Copy(m) ==
    /\ ~auto /\ calls[m] > 0
    /\ copied' = copied \union {m}
    /\ UNCHANGED <<auto, kept, calls, handled>>

Next == \E m \in Messages : Forget(m) \/ Call(m) \/ Return(m) \/ Copy(m)

Spec == Init /\ [][Next]_contractVars
=============================================================================
