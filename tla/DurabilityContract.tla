------------------------- MODULE DurabilityContract -------------------------
(***************************************************************************)
(* What two-tier durability promises an application, without queues,       *)
(* trackers, threads or tickets: which devices hold a delta, which deltas  *)
(* the Cloud Ledger keeps, and the tier that follows from them.  A tier is *)
(* only ever raised on evidence, and only a crash of the process takes it  *)
(* back.  Durability implements it.                                        *)
(***************************************************************************)
EXTENDS Naturals

CONSTANTS Deltas, Peers,
          Enough(_)  \* the sets of holders that make a delta durable

VARIABLES tier,      \* the tier the application is told
          held,      \* deltas each peer holds
          archived,  \* deltas the ledger acknowledged
          epoch      \* process lifetimes

vars == <<tier, held, archived, epoch>>

Init ==
    /\ tier = [d \in Deltas |-> "Uncommitted"]
    /\ held = [p \in Peers |-> {}]
    /\ archived = {}
    /\ epoch = 0

\* A peer gets hold of a delta, once.
Replicate(p, d) ==
    /\ d \notin held[p] /\ held' = [held EXCEPT ![p] = @ \cup {d}]
    /\ UNCHANGED <<tier, archived, epoch>>

\* Tier-1: enough devices hold the delta.
Replicated(d) ==
    /\ tier[d] = "Uncommitted" /\ Enough({p \in Peers : d \in held[p]})
    /\ tier' = [tier EXCEPT ![d] = "Tier1"]
    /\ UNCHANGED <<held, archived, epoch>>

\* Tier-2: the ledger takes some deltas for good, from either tier below.
Archive(S) ==
    /\ S # {} /\ S \cap archived = {}
    /\ archived' = archived \cup S
    /\ tier' = [d \in Deltas |-> IF d \in S THEN "Tier2" ELSE tier[d]]
    /\ UNCHANGED <<held, epoch>>

\* The process dies with its tiers and the ledger it hosts.
Crash ==
    /\ epoch' = epoch + 1
    /\ tier' = [d \in Deltas |-> "Uncommitted"] /\ archived' = {}
    /\ UNCHANGED held

Next ==
    \/ \E p \in Peers, d \in Deltas : Replicate(p, d)
    \/ \E d \in Deltas : Replicated(d)
    \/ \E S \in SUBSET Deltas : Archive(S)
    \/ Crash

Spec == Init /\ [][Next]_vars
=============================================================================
