------------------------- MODULE MCSyncPublishBackend -------------------------
(***************************************************************************)
(* Model checking of SyncPublishBackend.  The threads are model values, so *)
(* the configurations give them directly; this module adds the symmetry    *)
(* used by the runs that check no liveness property.                       *)
(***************************************************************************)
EXTENDS SyncPublishBackend, TLC

\* Publishers never compare themselves, and start() takes any fresh Thread.
Symmetry == Permutations(Publishers \ (Starters \union Stoppers)) \union Permutations(IoThreads)
=============================================================================
