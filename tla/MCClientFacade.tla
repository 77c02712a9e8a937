--------------------------- MODULE MCClientFacade ---------------------------
(* Instances of ClientFacade for TLC.  The types in the map are             *)
(* interchangeable.                                                         *)
EXTENDS ClientFacade, TLC

CONSTANTS t1, t2, orders, logs, typo

Symmetry == Permutations(KnownTypes)
=============================================================================
