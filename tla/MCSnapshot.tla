----------------------------- MODULE MCSnapshot -----------------------------
(* Snapshot on a small instance: two hosts with a path in common, and two  *)
(* answers, one of them with CRLF line endings.                            *)
EXTENDS Snapshot, TLC

MCCalls == {[host |-> "anchor", path |-> "/.well-known/stellar.toml"],
            [host |-> "home", path |-> "/.well-known/stellar.toml"],
            [host |-> "horizon", path |-> "/paths/strict-send"]}

MCBodies == {[text |-> "x", eol |-> "lf"], [text |-> "y", eol |-> "crlf"]}

Interchangeable == Permutations(Processes)
=============================================================================
