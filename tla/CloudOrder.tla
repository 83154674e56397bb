----------------------------- MODULE CloudOrder -----------------------------
(***************************************************************************)
(* The order in which one cloud sync cycle visits the cloud outbound queue *)
(* (durability/cloud_queue.rs, topological_sort_queue): Kahn's algorithm   *)
(* over the causal parents that are still queued, ties broken by queue     *)
(* position, entries of a cycle appended at the end.                       *)
(*                                                                         *)
(* A queue is a set Q of delta ids with ticket[d], the position at which d *)
(* was pushed: push_back and retain never reorder a VecDeque.              *)
(***************************************************************************)
EXTENDS Naturals, FiniteSets, Sequences, Subsequences

\* The elements of S in queue order (sort_by_key on order_index).
InQueueOrder(S, ticket) == SortedBy(S, ticket)

\* Mutant: the freed children go to the front of the ready list.
KahnPop_front(Q, parents, ticket, st) ==
    IF st.ready = <<>> THEN st
    ELSE LET node == Head(st.ready)
             kids == {c \in Q : node \in parents[c]}
             free == {c \in kids : st.inDegree[c] = 1}
         IN  [ready    |-> InQueueOrder(free, ticket) \o Tail(st.ready),
              inDegree |-> [c \in Q |-> IF c \in kids THEN st.inDegree[c] - 1
                                                      ELSE st.inDegree[c]],
              sorted   |-> Append(st.sorted, node)]

\* One pop_front of the ready list: emit the node, decrement its children
\* and append those that became ready, in queue order.
KahnPop(Q, parents, ticket, st) ==
    IF st.ready = <<>> THEN st
    ELSE LET node == Head(st.ready)
             kids == {c \in Q : node \in parents[c]}
             free == {c \in kids : st.inDegree[c] = 1}
         IN  [ready    |-> Tail(st.ready) \o InQueueOrder(free, ticket),
              inDegree |-> [c \in Q |-> IF c \in kids THEN st.inDegree[c] - 1
                                                      ELSE st.inDegree[c]],
              sorted   |-> Append(st.sorted, node)]

\* Mutant: plain queue order.
queue_order_only(Q, parents, ticket) == InQueueOrder(Q, ticket)

topological_sort_queue(Q, parents, ticket) ==
    LET degree == [c \in Q |-> Cardinality(parents[c] \cap Q)]
        start  == [ready    |-> InQueueOrder({c \in Q : degree[c] = 0}, ticket),
                   inDegree |-> degree,
                   sorted   |-> <<>>]
        kahn[n \in 0 .. Cardinality(Q)] ==
            IF n = 0 THEN start ELSE KahnPop(Q, parents, ticket, kahn[n - 1])
        sorted == kahn[Cardinality(Q)].sorted
    IN  sorted \o InQueueOrder(Q \ {sorted[i] : i \in DOMAIN sorted}, ticket)
=============================================================================
