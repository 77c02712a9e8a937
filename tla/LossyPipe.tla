------------------------------ MODULE LossyPipe ------------------------------
(***************************************************************************)
(* What a publisher may rely on when it hands messages to the library's    *)
(* synchronous publish path: a pipe that may lose messages and may be      *)
(* arbitrarily slow, but that never invents, reorders or duplicates one.   *)
(*                                                                         *)
(* A message is its ticket, the position at which the pipe accepted it.    *)
(***************************************************************************)
EXTENDS Naturals, Sequences

VARIABLES
    sent,       \* number of messages accepted so far; their tickets are 1..sent
    delivered   \* tickets that came out at the broker, in order of arrival

pipeVars == <<sent, delivered>>

\* Every ticket that came out so far is smaller than m.
After(m) == \A i \in 1 .. Len(delivered) : delivered[i] < m

Init == sent = 0 /\ delivered = << >>

Send == sent' = sent + 1 /\ UNCHANGED delivered

\* Tickets between the last delivered one and m are lost for good.
Deliver(m) ==
    /\ After(m)
    /\ delivered' = Append(delivered, m)
    /\ UNCHANGED sent

Next == Send \/ \E m \in 1 .. sent : Deliver(m)

Spec == Init /\ [][Next]_pipeVars
=============================================================================
