---------------------------- MODULE Subsequences ----------------------------
(***************************************************************************)
(* Sorting a set by a key and keeping some places of a sequence: what      *)
(* sort_by_key and the loops that filter a queue do.  Both are defined by  *)
(* counting, since the provers know no definition of SortSeq or SelectSeq. *)
(***************************************************************************)
EXTENDS Naturals, FiniteSets, Sequences

\* The members of S by increasing key, which no two of them share.
SortedBy(S, key) ==
    [i \in 1 .. Cardinality(S) |->
        CHOOSE x \in S : Cardinality({y \in S : key[y] < key[x]}) = i - 1]

\* The entries of s at the places in P.
Kept(s, P) ==
    LET place == SortedBy(P, [i \in P |-> i])
    IN  [k \in 1 .. Cardinality(P) |-> s[place[k]]]
=============================================================================
