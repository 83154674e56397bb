------------------------------- MODULE MCSdk --------------------------------
(* Two calls of the SDK over a core that is revoked, for TLC. *)
EXTENDS Sdk

Spec == Init /\ [][Next]_vars /\ Fairness
=============================================================================
