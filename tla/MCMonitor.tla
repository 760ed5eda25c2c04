----------------------------- MODULE MCMonitor ------------------------------
(* Monitor on small instances; the constants come from the .cfg files.     *)
EXTENDS Monitor, TLC

(* Sets of dependencies are only compared with each other. *)
DepSymmetry == Permutations(DepSets)
=============================================================================
