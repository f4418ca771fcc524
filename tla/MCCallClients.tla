--------------------------- MODULE MCCallClients ---------------------------
(* Model checking CallClients: the calls are interchangeable. *)
EXTENDS CallClients, TLC

Symmetry == Permutations(Calls)
=============================================================================
