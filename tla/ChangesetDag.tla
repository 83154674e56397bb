---------------------------- MODULE ChangesetDag ----------------------------
(***************************************************************************)
(* The queries of the persistent changeset DAG (crdt/dag.rs, dag_tips of   *)
(* crdt/mod.rs) over a set of nodes [id, parents].  Edges have no foreign  *)
(* key, so a node may name parents that have not been inserted.            *)
(***************************************************************************)
EXTENDS Integers, FiniteSets

Ids(nodes) == {n.id : n \in nodes}

children(nodes, id) == {n.id : n \in {m \in nodes : id \in m.parents}}

parents(nodes, id) == UNION {n.parents : n \in {m \in nodes : m.id = id}}

\* bfs_descendants, descendants_of: the root, stored or not, and whatever
\* child edges reach from it.
bfs_descendants(nodes, root) ==
    LET step[k \in 0..Cardinality(nodes)] ==
            IF k = 0 THEN {root}
            ELSE UNION {{id} \cup children(nodes, id) : id \in step[k - 1]}
    IN  step[Cardinality(nodes)]

\* Kahn's algorithm as the set of nodes it outputs: every edge counts in the
\* in-degree, and only output nodes take theirs away, so a node below an
\* absent parent is never output.
topological_sort(nodes) ==
    LET round[k \in 0..Cardinality(nodes)] ==
            IF k = 0 THEN {}
            ELSE LET output == round[k - 1] IN {n.id : n \in {m \in nodes : m.parents \subseteq output}}
    IN  round[Cardinality(nodes)]

\* Mutant: the sources of the DAG instead of its tips.
dag_tips_sources(nodes) == {id \in topological_sort(nodes) : parents(nodes, id) = {}}

\* Sorted nodes that have no child, sorted or not.
dag_tips(nodes) == {id \in topological_sort(nodes) : children(nodes, id) = {}}

\* Every parent named in the DAG is stored in it.
Closed(nodes) == UNION {n.parents : n \in nodes} \subseteq Ids(nodes)

\* The stored or missing past of a set of deltas.
Ancestors(nodes, ids) ==
    LET step[k \in 0..Cardinality(nodes)] ==
            IF k = 0 THEN ids
            ELSE UNION {{id} \cup parents(nodes, id) : id \in step[k - 1]}
    IN  step[Cardinality(nodes)]
=============================================================================
