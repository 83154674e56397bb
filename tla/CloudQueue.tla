----------------------------- MODULE CloudQueue -----------------------------
(***************************************************************************)
(* topological_sort_queue against reference definitions, over every queue  *)
(* of up to MaxEntries entries with any causal parents, cyclic ones        *)
(* included (the code appends those at the end).  Entry n is the n-th one  *)
(* pushed; an entry leaves when it is acknowledged.                        *)
(***************************************************************************)
EXTENDS CloudOrder, SequencesExt

CONSTANT MaxEntries \* bound: entries ever pushed

VARIABLES pushes, queue, parents

Entries == 1 .. MaxEntries
position == [d \in Entries |-> d]
sortedQueue == topological_sort_queue(queue, parents, position)

Init == pushes = 0 /\ queue = {} /\ parents = [d \in Entries |-> {}]

Push(ps) ==
    /\ pushes < MaxEntries
    /\ pushes' = pushes + 1
    /\ queue' = queue \cup {pushes + 1}
    /\ parents' = [parents EXCEPT ![pushes + 1] = ps]

Acknowledge(d) == d \in queue /\ queue' = queue \ {d} /\ UNCHANGED <<pushes, parents>>

Next == \/ \E ps \in SUBSET Entries : pushes + 1 \notin ps /\ Push(ps)
        \/ \E d \in Entries : Acknowledge(d)

-----------------------------------------------------------------------------
\* Reference: the entries on or behind a cycle of queued entries.
Cyclic == UNION {S \in SUBSET queue : \A d \in S : parents[d] \cap S # {}}

\* Reference: entries whose longest chain of queued ancestors has at most n
\* links.
WithinDepth[n \in 0 .. MaxEntries] ==
    {d \in queue : IF n = 0 THEN parents[d] \cap queue = {}
                            ELSE parents[d] \cap queue \subseteq WithinDepth[n - 1]}

\* Req 16.3: the order is a permutation of the queue, and an entry that is
\* not on or behind a cycle comes after all its queued parents.
SortedCausally ==
    /\ ToSet(sortedQueue) = queue /\ Len(sortedQueue) = Cardinality(queue)
    /\ \A i, j \in DOMAIN sortedQueue :
          sortedQueue[i] \in parents[sortedQueue[j]] \ Cyclic => i < j

\* Entries on or behind a cycle are kept, after all others and in queue order,
\* so one corrupt parent list never keeps a delta from being sent.
CyclicEntriesLast ==
    SubSeq(sortedQueue, Cardinality(queue \ Cyclic) + 1, Len(sortedQueue))
        = InQueueOrder(Cyclic, position)

\* Deltas are sent generation by generation: one with a shorter longest chain
\* of queued ancestors is never behind one with a longer chain, so a long
\* chain in the backlog does not delay unrelated deltas.
GenerationOrder ==
    \A i, j \in DOMAIN sortedQueue : \A n \in 0 .. MaxEntries :
        i < j /\ sortedQueue[j] \in WithinDepth[n] => sortedQueue[i] \in WithinDepth[n]

\* Req 16.3: the sort is exactly what a sync cycle needs: a causal permutation,
\* generation by generation, with corrupt entries kept at the end.
SortIsExact == SortedCausally /\ CyclicEntriesLast /\ GenerationOrder
=============================================================================
