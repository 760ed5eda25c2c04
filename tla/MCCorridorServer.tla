-------------------------- MODULE MCCorridorServer --------------------------
(* CorridorServer on small instances; the constants come from the .cfgs.   *)
EXTENDS CorridorServer, TLC

Interchangeable == Permutations(Asking) \cup Permutations(Requests \ Asking) \cup Permutations(Clients)
=============================================================================
