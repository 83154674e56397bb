---------------------------- MODULE MCDurability ----------------------------
(* Small instances of Durability for TLC. *)
EXTENDS Durability, TLC

CONSTANTS d1, d2, d3, w1, w2, p1, p2, p3, p4, b1, b2

TwoDeltas   == {d1, d2}
ThreeDeltas == {d1, d2, d3}
SquadTags   == {"alpha", "bravo", "north", "south"}

Untagged    == [p \in Peers |-> NoTag]
NoBeacons   == [b \in {} |-> "north"]

SymmetricPeers == Permutations(Deltas) \cup Permutations(Writers) \cup Permutations(Peers)

\* Bound: a migration takes the place of the third delta and of the restart.
Bound  == current = 0 \/ (Cardinality(dag) <= 2 /\ restarts = 0)
MCNext == Next /\ Bound'
MCSpec == Init /\ [][MCNext]_vars
=============================================================================
