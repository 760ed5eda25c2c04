------------------------------ MODULE MCLadder ------------------------------
(* Ladder on small instances; the constants come from the .cfg files.      *)
EXTENDS Ladder
=============================================================================
