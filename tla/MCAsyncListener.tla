--------------------------- MODULE MCAsyncListener ---------------------------
(* Instances of AsyncListener for TLC.                                      *)
EXTENDS AsyncListener, TLC

CONSTANTS m1, m2

Cfg(auto, onError, dlq, retries) ==
    [auto_ack |-> auto, on_error |-> onError, has_dlq |-> dlq, max_retries |-> retries]

\* requeue; auto_ack; poison at the first and at the second attempt.
AllConfigs == {Cfg(TRUE, "requeue", FALSE, 1),
               Cfg(FALSE, "requeue", TRUE, 1), Cfg(FALSE, "dead_letter", TRUE, 2)}
LivenessConfigs == {Cfg(FALSE, "dead_letter", TRUE, 2)}
Symmetry == Permutations({m1, m2})
=============================================================================
