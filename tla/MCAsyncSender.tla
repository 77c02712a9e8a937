---------------------------- MODULE MCAsyncSender ----------------------------
(* Instances of AsyncSender for TLC.                                        *)
EXTENDS AsyncSender, TLC

CONSTANTS s1, s2

Cfg(confirm, size, interval, nstops, nfaults) ==
    [confirm |-> confirm, batch |-> size, periodic |-> interval,
     maxStops |-> nstops, maxFaults |-> nfaults]

\* Without confirms; a confirm per message; batches of two, with and without the flusher;
\* stop() is called, something fails, or, in one configuration, both.
AllConfigs == {Cfg(FALSE, 0, FALSE, 0, 1), Cfg(TRUE, 0, FALSE, 1, 0), Cfg(TRUE, 0, FALSE, 0, 1),
               Cfg(TRUE, 2, FALSE, 1, 1), Cfg(TRUE, 2, TRUE, 1, 0), Cfg(TRUE, 2, TRUE, 0, 1)}

\* Batches of two with the flusher, and a stop().
StopConfigs == {Cfg(TRUE, 2, TRUE, 1, 0)}
=============================================================================
