---------------------------- MODULE MCRevocation ----------------------------
(* Small instances of Revocation for TLC. *)
EXTENDS Revocation

CONSTANTS a, b, c, x1, x2

\* All deltas are written by c.
ByTarget == [x \in Deltas |-> c]
=============================================================================
