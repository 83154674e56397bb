------------------------------- MODULE MCCrdt -------------------------------
(* Two devices that write and merge two rows, for TLC. *)
EXTENDS Crdt

Order == <<RowKey, "k1", "k2">>
Spec  == Init /\ [][Next]_vars
=============================================================================
