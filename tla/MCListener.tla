------------------------------ MODULE MCListener ------------------------------
(***************************************************************************)
(* Model checking of Listener: the configurations the runs use.  The       *)
(* messages are interchangeable.                                           *)
(***************************************************************************)
EXTENDS Listener, TLC

Symmetry == Permutations(Messages)

\* Two workers; a message that fails is poison at once.
Parking == [offload |-> TRUE, auto_ack |-> FALSE, on_error |-> "requeue", has_dlq |-> TRUE,
            max_retries |-> 1, max_in_flight |-> 2]

\* One worker; a message that fails goes through the exchange once.
Retrying == [Parking EXCEPT !.on_error = "dead_letter", !.max_retries = 2, !.max_in_flight = 1]

\* One worker; a message that fails goes through the exchange every time.
Returning == [Retrying EXCEPT !.has_dlq = FALSE]

\* The user callback on the I/O thread.
Direct == [Parking EXCEPT !.offload = FALSE, !.has_dlq = FALSE]

\* The same, with a dead letter exchange that failures are to go through.
DirectDead == [Direct EXCEPT !.on_error = "dead_letter"]

AutoAcking == {[Parking EXCEPT !.auto_ack = TRUE], [Direct EXCEPT !.auto_ack = TRUE]}

SafetyConfigs == {Parking, Retrying, Direct, DirectDead} \union AutoAcking
LivenessConfigs == {Returning}
StopConfigs == {Parking}
DirectConfigs == {DirectDead}
=============================================================================
