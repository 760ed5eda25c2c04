---------------------------- MODULE MCRateCache -----------------------------
(* RateCache on small instances; the constants come from the .cfg files.   *)
EXTENDS RateCache
=============================================================================
