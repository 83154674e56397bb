------------------------------ MODULE MCTrust -------------------------------
(* Small instances of Trust for TLC. *)
EXTENDS Trust

CONSTANTS k1, k2
=============================================================================
