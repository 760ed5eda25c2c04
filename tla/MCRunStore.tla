----------------------------- MODULE MCRunStore -----------------------------
(* RunStore on small instances; the constants come from the .cfg files.    *)
EXTENDS RunStore
=============================================================================
