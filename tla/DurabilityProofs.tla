-------------------------- MODULE DurabilityProofs --------------------------
(***************************************************************************)
(* Theorems about Durability, for every number of deltas, writers, peers,  *)
(* beacons, restarts and migrations, every K and every queue depth.        *)
(***************************************************************************)
EXTENDS Durability, OrderLemmas, FiniteSetTheorems, TLAPS

USE DEF dagVars, writeVars, trackVars, queueVars, meshVars, ledgerVars, anchorVars

\* The types hold at the start, ...
LEMMA InitType == Init => TypeOK
  BY BoundAssumption, TagAssumption DEF Init, TypeOK, NoReceipts, NoEntry, FirstSchema

\* ... and every action preserves them.
LEMMA NextType == TypeOK /\ [Next]_vars => TypeOK'
<1> SUFFICES ASSUME TypeOK, [Next]_vars PROVE TypeOK'
  OBVIOUS
<1>1. ASSUME NEW w \in Writers, NEW d \in Deltas, NEW c \in BOOLEAN, Produce(w, d, c)
      PROVE  TypeOK'
  BY <1>1 DEF TypeOK, Produce, insert_dag_node, Tips
<1>2. ASSUME NEW w \in Writers, Register(w)
      PROVE  TypeOK'
  <2> DEFINE d == mine[w]
  <2>1. d \in Deltas
    BY <1>2 DEF TypeOK, Register
  <2>2. NoReceipts \in [Peers -> Tags \cup {NoTag, Unseen}]
    BY DEF NoReceipts
  <2>3. NewEntry
           \in [bytes : BOOLEAN, compacted : BOOLEAN, holders : SUBSET Peers]
    BY DEF NewEntry
  <2>4. /\ queue' \subseteq Deltas /\ ticket' \in [Deltas -> Nat] /\ pushed' \in Nat
        /\ entry' \in [Deltas -> [bytes : BOOLEAN, compacted : BOOLEAN,
                                  holders : SUBSET Peers]]
    <3>1. CASE enqueue(d)
      BY <3>1, <2>1, <2>3 DEF TypeOK, enqueue
    <3>2. CASE UNCHANGED queueVars
      BY <3>2 DEF TypeOK
    <3> QED
      BY <1>2, <3>1, <3>2 DEF Register
  <2>5. /\ pc' \in [Writers -> {"idle", "produced", "registered", "marked"}]
        /\ returned' \in [Deltas -> {"none", "ok", "full"}]
        /\ \A v \in Writers : pc'[v] # "idle" => mine'[v] \in Deltas
    BY <1>2, <2>1 DEF TypeOK, Register
  <2>6. /\ states' \subseteq Deltas
        /\ tier' \in [Deltas -> {"Uncommitted", "Tier1", "Tier2"}]
        /\ permitted' \in [Deltas -> BOOLEAN]
        /\ counted' \in [Deltas -> [Peers -> Tags \cup {NoTag, Unseen}]]
        /\ achieved' \in [Deltas -> BOOLEAN]
    BY <1>2, <2>1, <2>2 DEF TypeOK, Register
  <2> QED
    BY <1>2, <2>4, <2>5, <2>6 DEF TypeOK, Register
<1>3. ASSUME NEW w \in Writers, MarkCompacted(w)
      PROVE  TypeOK'
  <2>1. entry' \in [Deltas -> [bytes : BOOLEAN, compacted : BOOLEAN,
                              holders : SUBSET Peers]]
    BY <1>3 DEF TypeOK, MarkCompacted
  <2> QED
    BY <1>3, <2>1 DEF TypeOK, MarkCompacted
<1>4. ASSUME NEW w \in Writers, NEW b \in BOOLEAN, Publish(w, b)
      PROVE  TypeOK'
  BY <1>4 DEF TypeOK, Publish
<1>5. ASSUME NEW p \in Peers, NEW d \in Deltas, PeerMerge(p, d)
      PROVE  TypeOK'
  BY <1>5 DEF TypeOK, PeerMerge
<1>6. ASSUME NEW p \in Peers, NEW d \in Deltas, NEW t \in Beacons \cup {NoTag},
             receive_receipt(p, d, t)
      PROVE  TypeOK'
  <2> DEFINE tag == diversity_tag(p, t)
             r   == add_receipt_with_tag(d, p, tag)
  <2>1. tag \in Tags \cup {NoTag, Unseen}
    BY <1>6, TagAssumption DEF TypeOK, receive_receipt, diversity_tag
  <2>2. r.counted \in [Peers -> Tags \cup {NoTag, Unseen}] /\ r.tier1 \in BOOLEAN
    BY <2>1 DEF TypeOK, add_receipt_with_tag, QuorumReached
  <2> HIDE DEF tag, r
  <2>3. /\ counted' \in [Deltas -> [Peers -> Tags \cup {NoTag, Unseen}]]
        /\ achieved' \in [Deltas -> BOOLEAN]
    BY <1>6, <2>2 DEF TypeOK, receive_receipt, tag, r
  <2>4. /\ tier' \in [Deltas -> {"Uncommitted", "Tier1", "Tier2"}]
        /\ permitted' \in [Deltas -> BOOLEAN]
    BY <1>6 DEF TypeOK, receive_receipt
  <2>5. entry' \in [Deltas -> [bytes : BOOLEAN, compacted : BOOLEAN,
                              holders : SUBSET Peers]]
    BY <1>6 DEF TypeOK, receive_receipt
  <2>6. seen' \subseteq Beacons /\ overdue' \subseteq Beacons
    BY <1>6 DEF TypeOK, receive_receipt
  <2> QED
    BY <1>6, <2>3, <2>4, <2>5, <2>6
       DEF TypeOK, receive_receipt
<1>7. ASSUME NEW x \in SUBSET Deltas, NEW y \in SUBSET Deltas, run_cloud_sync_cycle(x, y)
      PROVE  TypeOK'
  BY <1>7 DEF TypeOK, run_cloud_sync_cycle, receive_delta, on_cloud_ack, NoEntry
<1>8. ASSUME NEW b \in Beacons, BeaconSilent(b)
      PROVE  TypeOK'
  BY <1>8 DEF TypeOK, BeaconSilent
<1>9. ASSUME MonitorTick PROVE TypeOK'
  BY <1>9 DEF TypeOK, MonitorTick
<1>10. ASSUME MigrateSchema PROVE TypeOK'
  BY <1>10 DEF TypeOK, MigrateSchema
<1>11. ASSUME Restart PROVE TypeOK'
  BY <1>11 DEF TypeOK, Restart, NoReceipts, NoEntry, FirstSchema
<1>12. ASSUME UNCHANGED vars PROVE TypeOK'
  BY <1>12 DEF TypeOK, vars
<1> QED
  BY <1>1, <1>2, <1>3, <1>4, <1>5, <1>6, <1>7, <1>8, <1>9, <1>10, <1>11, <1>12 DEF Next

\* Type correctness of the durability subsystem, its queue and its ledger.
THEOREM TypeCorrect == Spec => []TypeOK
  BY InitType, NextType, PTL DEF Spec

-----------------------------------------------------------------------------
\* The issuers of a tracker are a finite set of peers.
LEMMA IssuersFinite ==
  ASSUME NEW c
  PROVE  /\ Issuers(c) \subseteq Peers /\ IsFiniteSet(Issuers(c))
         /\ Cardinality(Issuers(c)) \in Nat
<1>1. Issuers(c) \subseteq Peers
  BY DEF Issuers
<1>2. IsFiniteSet(Issuers(c))
  BY <1>1, FS_Subset, QuorumAssumption
<1> QED
  BY <1>1, <1>2, FS_CardinalityType

\* An empty tracker has no issuers and no quorum (K is at least 1).
LEMMA EmptyTracker == Issuers(NoReceipts) = {} /\ ~QuorumReached(NoReceipts)
<1>1. Issuers(NoReceipts) = {}
  BY DEF Issuers, NoReceipts
<1>2. Cardinality(Issuers(NoReceipts)) = 0
  BY <1>1, FS_EmptySet
<1> QED
  BY <1>1, <1>2, QuorumAssumption DEF QuorumReached

\* What one sync cycle sends: the acknowledged entries of the queue, each after
\* its parents.
LEMMA BatchInOrder ==
  ASSUME TypeOK, TrackInv, OrderInv, NEW acked
  PROVE  LET order == topological_sort_queue(queue, parents, ticket)
             batch == Kept(order, {i \in DOMAIN order : order[i] \in acked})
         IN  /\ batch \in Seq(dag)
             /\ \A i, j \in DOMAIN batch : batch[i] \in parents[batch[j]] => i < j
<1> DEFINE order == topological_sort_queue(queue, parents, ticket)
           P == {i \in DOMAIN order : order[i] \in acked}
           batch == Kept(order, P)
<1>1. IsFiniteSet(queue) /\ DistinctKeys(queue, ticket) /\ queue \subseteq dag
  BY DEF TypeOK, OrderInv, DistinctKeys, TrackInv
<1>2. \A S \in SUBSET queue : S # {} => \E d \in S : parents[d] \cap S = {}
  BY <1>1 DEF OrderInv
<1>3. /\ order \in Seq(queue)
      /\ \A i, j \in 1 .. Len(order) : order[i] \in parents[order[j]] => i < j
  BY <1>1, <1>2, FoundedSort
<1> HIDE DEF order
<1>4. P \in SUBSET (1 .. Len(order)) /\ order \in Seq(dag)
  BY <1>1, <1>3, SeqMonotonic
<1> HIDE DEF P
<1>5. batch \in Seq(dag) /\ \A i, j \in DOMAIN batch : batch[i] \in parents[batch[j]] => i < j
  BY <1>3, <1>4, KeptCausal
<1> QED BY <1>5 DEF order, P, batch

\* The steps that leave the DAG, the queue's order and the batches alone.
Elsewhere ==
    \/ \E w \in Writers : MarkCompacted(w) \/ \E b \in BOOLEAN : Publish(w, b)
    \/ \E p \in Peers, d \in Deltas :
          PeerMerge(p, d) \/ \E t \in Beacons \cup {NoTag} : receive_receipt(p, d, t)
    \/ \E b \in Beacons : BeaconSilent(b)
    \/ MonitorTick \/ MigrateSchema \/ UNCHANGED vars

\* They do.
LEMMA OrderFrame == Elsewhere => UNCHANGED <<dag, parents, queue, ticket, pushed, batches>>
<1> DEFINE Same == UNCHANGED <<dag, parents, queue, ticket, pushed, batches>>
<1>1. ASSUME NEW w \in Writers, MarkCompacted(w) PROVE Same
  BY <1>1 DEF MarkCompacted
<1>2. ASSUME NEW w \in Writers, NEW b \in BOOLEAN, Publish(w, b) PROVE Same
  BY <1>2 DEF Publish
<1>3. ASSUME NEW p \in Peers, NEW d \in Deltas, PeerMerge(p, d) PROVE Same
  BY <1>3 DEF PeerMerge
<1>4. ASSUME NEW p \in Peers, NEW d \in Deltas, NEW t \in Beacons \cup {NoTag}, receive_receipt(p, d, t)
      PROVE  Same
  BY <1>4 DEF receive_receipt
<1>5. ASSUME NEW b \in Beacons, BeaconSilent(b) PROVE Same
  BY <1>5 DEF BeaconSilent
<1>6. ASSUME MonitorTick \/ MigrateSchema \/ UNCHANGED vars PROVE Same
  BY <1>6 DEF MonitorTick, MigrateSchema, vars
<1> HIDE DEF Same
<1>7. Elsewhere => Same
  BY <1>1, <1>2, <1>3, <1>4, <1>5, <1>6 DEF Elsewhere
<1> QED BY <1>7 DEF Same

\* The order of the DAG and of the queue is kept: a new delta is nobody's parent,
\* and an entry is pushed behind all others.
LEMMA NextOrder == TypeOK /\ WriteInv /\ TrackInv /\ OrderInv /\ [Next]_vars => OrderInv'
<1> SUFFICES ASSUME TypeOK, WriteInv, TrackInv, OrderInv, [Next]_vars PROVE OrderInv'
  OBVIOUS
<1>1. ASSUME NEW w \in Writers, NEW d \in Deltas, NEW c \in BOOLEAN, Produce(w, d, c)
      PROVE  OrderInv'
  <2>1. /\ d \notin dag /\ dag' = dag \cup {d} /\ parents' = [parents EXCEPT ![d] = Tips]
        /\ queue' = queue /\ ticket' = ticket /\ pushed' = pushed /\ batches' = batches
    BY <1>1 DEF Produce, insert_dag_node
  <2>2. parents'[d] = Tips /\ Tips \subseteq dag /\ \A e \in dag : parents'[e] = parents[e] /\ e # d
    BY <2>1 DEF TypeOK, Tips
  <2>3. \A e \in dag' : parents'[e] \subseteq dag
    BY <2>1, <2>2 DEF OrderInv
  <2>4. ASSUME NEW S \in SUBSET dag', S # {} PROVE \E e \in S : parents'[e] \cap S = {}
    <3>1. CASE S \ {d} = {}
      BY <2>1, <2>2, <2>4, <3>1
    <3>2. CASE S \ {d} # {}
      <4>1. S \ {d} \in SUBSET dag
        BY <2>1
      <4>2. PICK e \in S \ {d} : parents[e] \cap (S \ {d}) = {}
        BY <3>2, <4>1 DEF OrderInv
      <4>3. parents'[e] = parents[e] /\ d \notin parents[e] /\ e \in S
        BY <2>1, <2>2, <4>1, <4>2 DEF OrderInv
      <4> QED BY <4>2, <4>3
    <3> QED BY <3>1, <3>2
  <2>5. batches' \in Seq(Seq(dag'))
    <3>1. Seq(dag) \subseteq Seq(dag')
      BY <2>1, SeqMonotonic
    <3> QED BY <2>1, <3>1, SeqMonotonic DEF OrderInv
  <2> QED BY <2>1, <2>3, <2>4, <2>5 DEF OrderInv
<1>2. ASSUME NEW w \in Writers, Register(w) PROVE OrderInv'
  <2> DEFINE d == mine[w]
  <2>1. d \in Deltas /\ d \notin queue /\ dag' = dag /\ parents' = parents /\ batches' = batches
    BY <1>2 DEF Register, TypeOK, WriteInv, TrackInv
  <2>2. CASE enqueue(d)
    <3>1. queue' = queue \cup {d} /\ ticket' = [ticket EXCEPT ![d] = pushed] /\ pushed' = pushed + 1
      BY <2>2 DEF enqueue
    <3>2. pushed \in Nat /\ \A e \in queue : ticket'[e] = ticket[e] /\ ticket[e] \in Nat
      BY <2>1, <3>1 DEF TypeOK
    <3>3. ticket'[d] = pushed
      BY <2>1, <3>1 DEF TypeOK
    <3> HIDE DEF d
    <3>4. IsFiniteSet(queue')
      BY <3>1, FS_AddElement DEF OrderInv
    <3>5. \A e \in queue' : ticket'[e] < pushed'
      BY <3>1, <3>2, <3>3 DEF OrderInv
    <3>6. \A e, f \in queue' : ticket'[e] = ticket'[f] => e = f
      BY <3>1, <3>2, <3>3 DEF OrderInv
    <3> QED BY <2>1, <3>4, <3>5, <3>6 DEF OrderInv
  <2>3. CASE UNCHANGED queueVars
    BY <2>1, <2>3 DEF OrderInv
  <2> QED BY <1>2, <2>2, <2>3 DEF Register
<1>3. ASSUME NEW x \in SUBSET Deltas, NEW y \in SUBSET Deltas, run_cloud_sync_cycle(x, y)
      PROVE  OrderInv'
  <2> DEFINE acked == queue \ (x \cup y)
             order == topological_sort_queue(queue, parents, ticket)
             batch == Kept(order, {i \in DOMAIN order : order[i] \in acked})
  <2>1. /\ queue' = queue \ acked /\ dag' = dag /\ parents' = parents /\ ticket' = ticket
        /\ pushed' = pushed /\ batches' = Append(batches, batch)
    BY <1>3 DEF run_cloud_sync_cycle, record_batch
  <2> HIDE DEF acked
  <2>2. batch \in Seq(dag)
    BY BatchInOrder
  <2> HIDE DEF batch
  <2>3. batches' \in Seq(Seq(dag'))
    BY <2>1, <2>2 DEF OrderInv
  <2>4. queue' \in SUBSET queue /\ IsFiniteSet(queue')
    BY <2>1, FS_Subset DEF OrderInv
  <2> QED BY <2>1, <2>3, <2>4 DEF OrderInv
<1>4. ASSUME Restart PROVE OrderInv'
  <2>1. queue' = {} /\ dag' = dag /\ parents' = parents /\ batches' = <<>>
    BY <1>4 DEF Restart
  <2>2. IsFiniteSet(queue') /\ batches' \in Seq(Seq(dag'))
    BY <2>1, FS_EmptySet
  <2> QED BY <2>1, <2>2 DEF OrderInv
<1>5. ASSUME UNCHANGED <<dag, parents, queue, ticket, pushed, batches>> PROVE OrderInv'
  BY <1>5 DEF OrderInv
<1>6. CASE Elsewhere
  BY <1>5, <1>6, OrderFrame
<1> QED BY <1>1, <1>2, <1>3, <1>4, <1>6 DEF Next, Elsewhere

\* The inductive invariant holds at the start, ...
LEMMA InitInv == Init => DurabilityInv
<1> SUFFICES ASSUME Init PROVE DurabilityInv
  OBVIOUS
<1>1. TypeOK
  BY InitType
<1>2. WriteInv /\ TrackInv /\ PendingStillQueued /\ Tier2InLedger
  BY DEF Init, WriteInv, TrackInv, PendingStillQueued, Tier2InLedger
<1>3. QuorumInv
  BY EmptyTracker DEF Init, QuorumInv
<1>4. OrderInv
  BY FS_EmptySet DEF Init, OrderInv
<1> QED
  BY <1>1, <1>2, <1>3, <1>4 DEF DurabilityInv

\* A receipt adds at most its issuer, keeps the others, and completes the
\* quorum exactly when the tracker reports it.
LEMMA ReceiptEffect ==
  ASSUME TypeOK, QuorumInv, NEW p \in Peers, NEW d \in Deltas,
         NEW t \in Beacons \cup {NoTag}, receive_receipt(p, d, t)
  PROVE  QuorumInv'
<1> DEFINE r == add_receipt_with_tag(d, p, diversity_tag(p, t))
<1>1. /\ held' = held /\ counted' = [counted EXCEPT ![d] = r.counted]
      /\ achieved' = [achieved EXCEPT ![d] = @ \/ r.tier1]
      /\ tier' = IF r.tier1 /\ tier[d] = "Uncommitted"
                 THEN [tier EXCEPT ![d] = "Tier1"] ELSE tier
      /\ p \in Peers /\ d \in held[p]
  BY DEF receive_receipt, PromotesToTier1, verify_receipt
<1>2. ASSUME NEW e \in Deltas, e # d
      PROVE  /\ counted'[e] = counted[e] /\ achieved'[e] = achieved[e]
             /\ tier'[e] = tier[e]
  BY <1>1, <1>2 DEF TypeOK
<1>3. /\ counted'[d] = r.counted /\ achieved'[d] = (achieved[d] \/ r.tier1)
      /\ tier'[d] = IF r.tier1 /\ tier[d] = "Uncommitted" THEN "Tier1" ELSE tier[d]
  BY <1>1 DEF TypeOK
<1>4. CASE counted[d][p] # Unseen
  <2>1. r.counted = counted[d] /\ r.tier1 = achieved[d]
    BY <1>4 DEF add_receipt_with_tag
  <2>2. counted'[d] = counted[d] /\ achieved'[d] = achieved[d]
    BY <1>3, <2>1 DEF TypeOK
  <2>3. tier'[d] = tier[d]
    BY <1>3, <2>1 DEF QuorumInv
  <2> QED
    BY <1>1, <1>2, <2>2, <2>3 DEF QuorumInv
<1>5. CASE counted[d][p] = Unseen
  <2> DEFINE c == [counted[d] EXCEPT ![p] = diversity_tag(p, t)]
  <2>1. r.counted = c /\ r.tier1 = (~achieved[d] /\ QuorumReached(c))
    BY <1>5 DEF add_receipt_with_tag
  <2>2. Issuers(counted[d]) \subseteq Issuers(c)
    BY <1>5 DEF Issuers, TypeOK
  <2>3. Issuers(c) \subseteq Issuers(counted[d]) \cup {p}
    BY DEF Issuers, TypeOK
  <2>4. Cardinality(Issuers(counted[d])) <= Cardinality(Issuers(c))
    BY <2>2, IssuersFinite, FS_Subset
  <2>5. QuorumReached(c) => Cardinality(Issuers(c)) >= K
    BY DEF QuorumReached
  <2>6. Issuers(c) \subseteq {q \in Peers : d \in held[q]}
    BY <1>1, <2>3 DEF QuorumInv
  <2>7. achieved'[d] => Cardinality(Issuers(c)) >= K
    <3>1. /\ Cardinality(Issuers(c)) \in Nat /\ K \in Nat
          /\ Cardinality(Issuers(counted[d])) \in Nat
      BY IssuersFinite, QuorumAssumption
    <3>2. achieved[d] => Cardinality(Issuers(counted[d])) >= K
      BY DEF QuorumInv
    <3>3. achieved'[d] = (achieved[d] \/ (~achieved[d] /\ QuorumReached(c)))
      BY <1>3, <2>1
    <3> HIDE DEF c
    <3>4. CASE achieved[d]
      BY <3>1, <3>2, <3>4, <2>4
    <3>5. CASE ~achieved[d]
      BY <3>3, <3>5, <2>5
    <3> QED
      BY <3>4, <3>5
  <2>8. QuorumReached(c) => achieved'[d]
    BY <1>3, <2>1
  <2>9. (achieved'[d] => tier'[d] # "Uncommitted") /\ (tier'[d] = "Tier1" => achieved'[d])
    BY <1>3 DEF QuorumInv
  <2> HIDE DEF c
  <2>10. QuorumInv'
    <3> SUFFICES ASSUME NEW e \in Deltas
                 PROVE  /\ Issuers(counted'[e]) \subseteq {q \in Peers : e \in held'[q]}
                        /\ achieved'[e] => Cardinality(Issuers(counted'[e])) >= K
                        /\ achieved'[e] => tier'[e] # "Uncommitted"
                        /\ tier'[e] = "Tier1" => achieved'[e]
                        /\ QuorumReached(counted'[e]) => achieved'[e]
      BY DEF QuorumInv, Issuers, QuorumReached, satisfies_diversity, DistinctTags, OfTag,
             effective_min_distinct
    <3>1. CASE e = d
      BY <3>1, <1>1, <1>3, <2>1, <2>6, <2>7, <2>8, <2>9
    <3>2. CASE e # d
      BY <3>2, <1>1, <1>2 DEF QuorumInv
    <3> QED
      BY <3>1, <3>2
  <2> QED
    BY <2>10
<1> QED
  BY <1>4, <1>5

\* Steps that leave the trackers alone, only add merges at the peers and move
\* tiers only to Tier-2 keep QuorumInv.
LEMMA QuorumFrame ==
  ASSUME QuorumInv, counted' = counted, achieved' = achieved,
         \A p \in Peers : held[p] \subseteq held'[p],
         \A e \in Deltas : tier'[e] \in {tier[e], "Tier2"}
  PROVE  QuorumInv'
<1>1. ASSUME NEW e \in Deltas
      PROVE  /\ Issuers(counted'[e]) \subseteq {q \in Peers : e \in held'[q]}
             /\ achieved'[e] => Cardinality(Issuers(counted'[e])) >= K
             /\ achieved'[e] => tier'[e] # "Uncommitted"
             /\ tier'[e] = "Tier1" => achieved'[e]
             /\ QuorumReached(counted'[e]) => achieved'[e]
  BY DEF QuorumInv
<1> QED
  BY <1>1 DEF QuorumInv, Issuers, QuorumReached, satisfies_diversity, DistinctTags, OfTag,
     effective_min_distinct

\* ... and every action preserves it.
LEMMA NextInv == DurabilityInv /\ [Next]_vars => DurabilityInv'
<1> SUFFICES ASSUME DurabilityInv, [Next]_vars PROVE DurabilityInv'
  OBVIOUS
<1> USE DEF DurabilityInv
<1>0. TypeOK' /\ OrderInv'
  BY NextType, NextOrder
<1>1. ASSUME NEW w \in Writers, NEW d \in Deltas, NEW c \in BOOLEAN, Produce(w, d, c)
      PROVE  DurabilityInv'
  <2> USE <1>1 DEF Produce, insert_dag_node
  <2>1. WriteInv'
    BY DEF TypeOK, WriteInv, TrackInv
  <2>2. TrackInv'
    BY DEF TypeOK, TrackInv
  <2>3. QuorumInv'
    BY QuorumFrame
  <2>4. PendingStillQueued'
    BY DEF PendingStillQueued
  <2>5. Tier2InLedger'
    BY DEF TypeOK, Tier2InLedger, TrackInv
  <2> QED
    BY <1>0, <2>1, <2>2, <2>3, <2>4, <2>5
<1>2. ASSUME NEW w \in Writers, Register(w)
      PROVE  DurabilityInv'
  <2> DEFINE d == mine[w]
  <2>1. /\ d \in Deltas /\ d \in dag \ states /\ d \notin queue /\ d \notin committed
        /\ pc[w] = "produced" /\ returned[d] = "none" /\ tier[d] = "Uncommitted"
    BY <1>2 DEF Register, TypeOK, WriteInv, TrackInv
  <2>2. QuorumInv'
    <3>1. /\ held' = held /\ counted' = [counted EXCEPT ![d] = NoReceipts]
          /\ achieved' = [achieved EXCEPT ![d] = FALSE]
          /\ tier' = [tier EXCEPT ![d] = "Uncommitted"]
      BY <1>2 DEF Register
    <3>2. ASSUME NEW e \in Deltas
          PROVE  /\ Issuers(counted'[e]) \subseteq {q \in Peers : e \in held'[q]}
                 /\ achieved'[e] => Cardinality(Issuers(counted'[e])) >= K
                 /\ achieved'[e] => tier'[e] # "Uncommitted"
                 /\ tier'[e] = "Tier1" => achieved'[e]
                 /\ QuorumReached(counted'[e]) => achieved'[e]
      <4>1. CASE e = d
        BY <4>1, <3>1, <2>1, EmptyTracker DEF TypeOK
      <4>2. CASE e # d
        BY <4>2, <3>1, <2>1 DEF TypeOK, QuorumInv
      <4> QED
        BY <4>1, <4>2
    <3> QED
      BY <3>2 DEF QuorumInv, Issuers, QuorumReached, satisfies_diversity, DistinctTags,
         OfTag, effective_min_distinct
  <2>3. CASE enqueue(d) /\ pc' = [pc EXCEPT ![w] = "registered"] /\ returned' = returned
    <3> USE <1>2, <2>1, <2>3 DEF Register, enqueue
    <3>1. WriteInv'
      <4>1. \A v \in Writers : v # w => pc'[v] = pc[v]
        BY DEF TypeOK
      <4>2. \A v \in Writers : v # w /\ pc[v] # "idle" => mine[v] # d
        BY DEF WriteInv
      <4>3. \A v \in Writers : pc'[v] # "idle" =>
               mine'[v] \in dag' /\ returned'[mine'[v]] = "none"
        BY <4>1, <4>2 DEF TypeOK, WriteInv
      <4>4. \A v \in Writers : pc'[v] = "produced" => mine'[v] \notin states'
        BY <4>1, <4>2 DEF TypeOK, WriteInv
      <4>5. \A u, v \in Writers : pc'[u] # "idle" /\ pc'[v] # "idle" /\ u # v =>
               mine'[u] # mine'[v]
        BY <4>1 DEF TypeOK, WriteInv
      <4>6. \A e \in Deltas \ dag' : returned'[e] = "none"
        BY DEF TypeOK, WriteInv
      <4> QED
        BY <4>3, <4>4, <4>5, <4>6 DEF WriteInv
    <3>2. TrackInv'
      BY DEF TypeOK, TrackInv
    <3>3. PendingStillQueued'
      BY DEF TypeOK, PendingStillQueued
    <3>4. Tier2InLedger'
      BY DEF TypeOK, Tier2InLedger
    <3> QED
      BY <1>0, <2>2, <3>1, <3>2, <3>3, <3>4
  <2>4. CASE /\ pc' = [pc EXCEPT ![w] = "idle"]
             /\ returned' = [returned EXCEPT ![d] = "full"] /\ UNCHANGED queueVars
    <3> USE <1>2, <2>1, <2>4 DEF Register
    <3>1. WriteInv'
      <4>1. \A v \in Writers : v # w => pc'[v] = pc[v]
        BY DEF TypeOK
      <4>2. \A v \in Writers : v # w /\ pc[v] # "idle" => mine[v] # d
        BY DEF WriteInv
      <4>3. \A v \in Writers : pc'[v] # "idle" =>
               mine'[v] \in dag' /\ returned'[mine'[v]] = "none"
        BY <4>1, <4>2 DEF TypeOK, WriteInv
      <4>4. \A v \in Writers : pc'[v] = "produced" => mine'[v] \notin states'
        BY <4>1, <4>2 DEF TypeOK, WriteInv
      <4>5. \A u, v \in Writers : pc'[u] # "idle" /\ pc'[v] # "idle" /\ u # v =>
               mine'[u] # mine'[v]
        BY <4>1 DEF TypeOK, WriteInv
      <4>6. \A e \in Deltas \ dag' : returned'[e] = "none"
        BY DEF TypeOK, WriteInv
      <4> QED
        BY <4>3, <4>4, <4>5, <4>6 DEF WriteInv
    <3>2. TrackInv'
      BY DEF TypeOK, TrackInv
    <3>3. PendingStillQueued'
      BY DEF TypeOK, PendingStillQueued
    <3>4. Tier2InLedger'
      BY DEF TypeOK, Tier2InLedger
    <3> QED
      BY <1>0, <2>2, <3>1, <3>2, <3>3, <3>4
  <2> QED
    BY <1>2, <2>3, <2>4 DEF Register
<1>3. ASSUME NEW w \in Writers, MarkCompacted(w)
      PROVE  DurabilityInv'
  <2> USE <1>3 DEF MarkCompacted
  <2>1. WriteInv'
    BY DEF TypeOK, WriteInv
  <2>2. TrackInv' /\ PendingStillQueued' /\ Tier2InLedger'
    BY DEF TrackInv, PendingStillQueued, Tier2InLedger
  <2>3. QuorumInv'
    BY QuorumFrame
  <2> QED
    BY <1>0, <2>1, <2>2, <2>3
<1>4. ASSUME NEW w \in Writers, NEW b \in BOOLEAN, Publish(w, b)
      PROVE  DurabilityInv'
  <2> USE <1>4 DEF Publish
  <2>1. WriteInv'
    BY DEF TypeOK, WriteInv
  <2>2. TrackInv' /\ PendingStillQueued' /\ Tier2InLedger'
    BY DEF TypeOK, WriteInv, TrackInv, PendingStillQueued, Tier2InLedger
  <2>3. QuorumInv'
    BY QuorumFrame
  <2> QED
    BY <1>0, <2>1, <2>2, <2>3
<1>5. ASSUME NEW p \in Peers, NEW d \in Deltas, PeerMerge(p, d)
      PROVE  DurabilityInv'
  <2> USE <1>5 DEF PeerMerge
  <2>1. WriteInv' /\ TrackInv' /\ PendingStillQueued' /\ Tier2InLedger'
    BY DEF WriteInv, TrackInv, PendingStillQueued, Tier2InLedger
  <2>2. QuorumInv'
    <3>1. \A q \in Peers : held[q] \subseteq held'[q]
      BY DEF TypeOK
    <3> QED
      BY <3>1, QuorumFrame
  <2> QED
    BY <1>0, <2>1, <2>2
<1>6. ASSUME NEW p \in Peers, NEW d \in Deltas, NEW t \in Beacons \cup {NoTag},
             receive_receipt(p, d, t)
      PROVE  DurabilityInv'
  <2>1. WriteInv'
    BY <1>6 DEF receive_receipt, WriteInv
  <2>2. TrackInv' /\ PendingStillQueued' /\ Tier2InLedger'
    BY <1>6 DEF receive_receipt, PromotesToTier1, TypeOK, TrackInv, PendingStillQueued,
       Tier2InLedger
  <2>3. QuorumInv'
    BY <1>6, ReceiptEffect
  <2> QED
    BY <1>0, <2>1, <2>2, <2>3
<1>7. ASSUME NEW x \in SUBSET Deltas, NEW y \in SUBSET Deltas, run_cloud_sync_cycle(x, y)
      PROVE  DurabilityInv'
  <2> DEFINE acked == queue \ (x \cup y)
  <2> USE <1>7 DEF run_cloud_sync_cycle, receive_delta, on_cloud_ack
  <2>1. WriteInv'
    BY DEF WriteInv
  <2>2. TrackInv'
    BY DEF TypeOK, TrackInv
  <2>3. PendingStillQueued'
    BY DEF TypeOK, TrackInv, PendingStillQueued
  <2>4. Tier2InLedger'
    BY DEF TypeOK, TrackInv, Tier2InLedger
  <2>5. QuorumInv'
    <3>1. /\ counted' = counted /\ achieved' = achieved /\ held' = held
          /\ \A e \in Deltas : tier'[e] \in {tier[e], "Tier2"}
      OBVIOUS
    <3> QED
      BY <3>1, QuorumFrame
  <2> QED
    BY <1>0, <2>1, <2>2, <2>3, <2>4, <2>5
<1>8. ASSUME UNCHANGED <<dag, writeVars, trackVars, queueVars, meshVars, ledgerVars, schema>>
      PROVE  DurabilityInv'
  <2>1. WriteInv' /\ TrackInv' /\ PendingStillQueued' /\ Tier2InLedger'
    BY <1>8 DEF WriteInv, TrackInv, PendingStillQueued, Tier2InLedger
  <2>2. QuorumInv'
    BY <1>8, QuorumFrame
  <2> QED
    BY <1>0, <2>1, <2>2
<1>9. ASSUME Restart PROVE DurabilityInv'
  <2>1. WriteInv' /\ TrackInv' /\ PendingStillQueued' /\ Tier2InLedger'
    BY <1>9 DEF Restart, TypeOK, WriteInv, TrackInv, PendingStillQueued, Tier2InLedger
  <2>2. QuorumInv'
    <3>1. ASSUME NEW e \in Deltas
          PROVE  /\ counted'[e] = NoReceipts /\ ~achieved'[e] /\ tier'[e] = "Uncommitted"
      BY <1>9 DEF Restart
    <3> QED
      BY <3>1, EmptyTracker DEF QuorumInv, Issuers, QuorumReached, satisfies_diversity,
         DistinctTags, OfTag, effective_min_distinct
  <2> QED
    BY <1>0, <2>1, <2>2
<1>10. CASE \/ \E b \in Beacons : BeaconSilent(b)
            \/ MonitorTick \/ MigrateSchema \/ UNCHANGED vars
  BY <1>8, <1>10 DEF BeaconSilent, MonitorTick, MigrateSchema, vars
<1> QED
  BY <1>1, <1>2, <1>3, <1>4, <1>5, <1>6, <1>7, <1>9, <1>10 DEF Next

\* DurabilityInv is an inductive invariant of the specification.
THEOREM DurabilityInvariant == Spec => []DurabilityInv
  BY InitInv, NextInv, PTL DEF Spec

\* Tier-1 needs K devices that really merged the delta: the issuers counted by
\* add_receipt_with_tag are distinct and each holds the delta.
LEMMA TierEvidence == DurabilityInv => Tier1Evidence
<1> SUFFICES ASSUME DurabilityInv, NEW d \in Deltas, tier[d] = "Tier1"
             PROVE  Cardinality({p \in Peers : d \in held[p]}) >= K
  BY DEF Tier1Evidence
<1> DEFINE holders == {p \in Peers : d \in held[p]}
<1>1. Issuers(counted[d]) \subseteq holders /\ Cardinality(Issuers(counted[d])) >= K
  BY DEF DurabilityInv, QuorumInv
<1>2. IsFiniteSet(holders)
  BY FS_Subset, QuorumAssumption
<1>3. Cardinality(Issuers(counted[d])) <= Cardinality(holders)
  BY <1>1, <1>2, FS_Subset
<1>4. Cardinality(holders) \in Nat /\ Cardinality(Issuers(counted[d])) \in Nat /\ K \in Nat
  BY <1>2, FS_CardinalityType, IssuersFinite, QuorumAssumption
<1> QED
  BY <1>1, <1>3, <1>4

\* Tier-1 is never claimed on fewer than K merged copies, however receipts are
\* repeated, reordered or interleaved with restarts (receive_receipt).
THEOREM Tier1HasEvidence == Spec => []Tier1Evidence
  BY DurabilityInvariant, TierEvidence, PTL

\* A registered delta stays in the cloud queue until the ledger acknowledges it
\* (enqueue, mark_compacted, cloud_sync_loop).
THEOREM PendingIsQueued == Spec => []PendingStillQueued
<1>1. DurabilityInv => PendingStillQueued
  BY DEF DurabilityInv
<1> QED
  BY <1>1, DurabilityInvariant, PTL

\* Tier-2 implies the ledger's acknowledgement, and its merge when the ledger
\* knows the schema (run_cloud_sync_cycle, CloudLedger::receive_delta).
THEOREM Tier2IsInLedger == Spec => []Tier2InLedger
<1>1. DurabilityInv => Tier2InLedger
  BY DEF DurabilityInv
<1> QED
  BY <1>1, DurabilityInvariant, PTL

\* Every quorum the counted receipts complete is reflected in the tier, for
\* every K and every diversity rule (add_receipt_with_tag).
THEOREM NoQuorumMissed == Spec => []QuorumNeverMissed
<1>1. DurabilityInv => QuorumNeverMissed
  BY DEF DurabilityInv, TypeOK, QuorumInv, QuorumNeverMissed
<1> QED
  BY <1>1, DurabilityInvariant, PTL

\* A queued delta can always be sent: its bytes are inline or in the DAG.
THEOREM QueuedIsRefetchable == Spec => []Refetchable
<1>1. DurabilityInv => Refetchable
  BY DEF DurabilityInv, TrackInv, Refetchable
<1> QED
  BY <1>1, DurabilityInvariant, PTL

\* No step of the device lowers a tier within one process lifetime.
LEMMA StepKeepsTier ==
  DurabilityInv /\ [Next]_vars =>
     [restarts' = restarts => \A d \in Deltas : Rank(tier[d]) <= Rank(tier'[d])]_vars
<1> SUFFICES ASSUME DurabilityInv, Next, restarts' = restarts, NEW e \in Deltas
             PROVE  Rank(tier[e]) <= Rank(tier'[e])
  BY DEF vars
<1>1. tier[e] \in {"Uncommitted", "Tier1", "Tier2"} /\ restarts \in Nat
  BY DEF DurabilityInv, TypeOK
<1>2. CASE tier'[e] \in {tier[e], "Tier2"}
  BY <1>1, <1>2 DEF Rank
<1>3. CASE tier[e] = "Uncommitted" /\ tier'[e] = "Tier1"
  BY <1>3 DEF Rank
<1>4. ASSUME NEW w \in Writers, Register(w)
      PROVE  tier'[e] = tier[e]
  BY <1>4 DEF Register, DurabilityInv, TypeOK, WriteInv, TrackInv
<1>5. ASSUME NEW p \in Peers, NEW d \in Deltas, NEW t \in Beacons \cup {NoTag},
             receive_receipt(p, d, t)
      PROVE  \/ tier'[e] = tier[e]
             \/ tier[e] = "Uncommitted" /\ tier'[e] = "Tier1"
  BY <1>5 DEF receive_receipt, PromotesToTier1, DurabilityInv, TypeOK
<1>6. ASSUME NEW x \in SUBSET Deltas, NEW y \in SUBSET Deltas, run_cloud_sync_cycle(x, y)
      PROVE  tier'[e] \in {tier[e], "Tier2"}
  BY <1>6 DEF run_cloud_sync_cycle, on_cloud_ack
<1>7. ~Restart
  BY <1>1 DEF Restart
<1> QED
  BY <1>2, <1>3, <1>4, <1>5, <1>6, <1>7 DEF Next, Produce, MarkCompacted, Publish, PeerMerge,
     BeaconSilent, MonitorTick, MigrateSchema

\* A delta's tier never goes down: a late receipt does not demote a Tier-2
\* delta, and register_delta never resets one that is already tracked.
THEOREM TierMonotone == Spec => TierNeverRegresses
  BY DurabilityInvariant, StepKeepsTier, PTL DEF Spec, TierNeverRegresses
-----------------------------------------------------------------------------
\* One step of the device is one step of the contract, or changes nothing the
\* contract sees.
LEMMA StepRefines ==
  DurabilityInv /\ DurabilityInv' /\ Tier1Evidence' /\ [Next]_vars
     => [Contract!Next]_(Contract!vars)
<1> SUFFICES ASSUME DurabilityInv, Tier1Evidence', [Next]_vars
             PROVE  Contract!Next \/ UNCHANGED Contract!vars
  OBVIOUS
<1>1. tier \in [Deltas -> {"Uncommitted", "Tier1", "Tier2"}] /\ TypeOK
  BY DEF DurabilityInv, TypeOK
<1>2. ASSUME NEW w \in Writers, Register(w)
      PROVE  UNCHANGED Contract!vars
  <2>1. mine[w] \in Deltas \ states
    BY <1>2 DEF Register, DurabilityInv, TypeOK, WriteInv
  <2>2. tier[mine[w]] = "Uncommitted"
    BY <2>1 DEF DurabilityInv, TrackInv
  <2>3. tier' = tier
    BY <1>1, <1>2, <2>2 DEF Register
  <2> QED
    BY <1>2, <2>3 DEF Register, Contract!vars
<1>3. ASSUME NEW p \in Peers, NEW d \in Deltas, PeerMerge(p, d)
      PROVE  Contract!Replicate(p, d)
  BY <1>3 DEF PeerMerge, Contract!Replicate
<1>4. ASSUME NEW p \in Peers, NEW d \in Deltas, NEW t \in Beacons \cup {NoTag},
             receive_receipt(p, d, t)
      PROVE  Contract!Replicated(d) \/ UNCHANGED Contract!vars
  <2>1. UNCHANGED <<held, committed, restarts>>
    BY <1>4 DEF receive_receipt
  <2>2. \/ tier' = tier
        \/ tier[d] = "Uncommitted" /\ tier' = [tier EXCEPT ![d] = "Tier1"]
    BY <1>4 DEF receive_receipt, PromotesToTier1
  <2>3. CASE tier' = tier
    BY <2>1, <2>3 DEF Contract!vars
  <2>4. CASE tier[d] = "Uncommitted" /\ tier' = [tier EXCEPT ![d] = "Tier1"]
    <3>1. tier'[d] = "Tier1"
      BY <1>1, <2>4
    <3>2. Cardinality({q \in Peers : d \in held[q]}) >= K
      BY <2>1, <3>1 DEF Tier1Evidence
    <3> QED
      BY <2>1, <2>4, <3>2 DEF Contract!Replicated, KOrMore
  <2> QED
    BY <2>2, <2>3, <2>4
<1>5. ASSUME NEW x \in SUBSET Deltas, NEW y \in SUBSET Deltas, run_cloud_sync_cycle(x, y)
      PROVE  \E S \in SUBSET Deltas : Contract!Archive(S)
  <2> DEFINE S == queue \ (x \cup y)
  <2>1. S # {} /\ S \in SUBSET Deltas /\ S \cap committed = {} /\ S \cap states = S
    BY <1>5 DEF run_cloud_sync_cycle, DurabilityInv, TypeOK, TrackInv
  <2>2. committed' = committed \cup S /\ UNCHANGED <<held, restarts>>
    BY <1>5 DEF run_cloud_sync_cycle, receive_delta
  <2>3. tier' = [d \in Deltas |-> IF d \in S THEN "Tier2" ELSE tier[d]]
    BY <1>5, <2>1 DEF run_cloud_sync_cycle, on_cloud_ack
  <2>4. Contract!Archive(S)
    BY <2>1, <2>2, <2>3 DEF Contract!Archive
  <2> QED
    BY <2>1, <2>4
<1>6. ASSUME Restart
      PROVE  Contract!Crash
  BY <1>6 DEF Restart, Contract!Crash
<1>7. ASSUME UNCHANGED <<tier, held, committed, restarts>>
      PROVE  UNCHANGED Contract!vars
  BY <1>7 DEF Contract!vars
<1>8. CASE Next
  BY <1>2, <1>3, <1>4, <1>5, <1>6, <1>7, <1>8 DEF Next, Produce, MarkCompacted, Publish,
     BeaconSilent, MonitorTick, MigrateSchema, Contract!Next
<1>9. CASE UNCHANGED vars
  BY <1>7, <1>9 DEF vars
<1> QED
  BY <1>8, <1>9

\* The subsystem with its queue, trackers, write calls and sync cycles keeps the
\* contract: tiers follow from the peers' copies and the ledger, in any
\* interleaving (register_delta, receive_receipt, run_cloud_sync_cycle).
THEOREM DurabilityRefinesContract == Spec => ImplementsContract
<1>1. Init => Contract!Init
  BY DEF Init, Contract!Init
<1>2. DurabilityInv /\ [Next]_vars => DurabilityInv'
  BY NextInv
<1>3. DurabilityInv => Tier1Evidence
  BY TierEvidence
<1> QED
  BY <1>1, <1>2, <1>3, StepRefines, DurabilityInvariant, PTL
     DEF Spec, ImplementsContract, Contract!Spec

-----------------------------------------------------------------------------
\* One sync cycle adds a batch in causal order; what was sent keeps its parents.
LEMMA CausalStep ==
  ASSUME DurabilityInv, CycleCausal, [Next]_vars
  PROVE  CycleCausal'
<1>1. TypeOK /\ TrackInv /\ OrderInv
  BY DEF DurabilityInv
<1>2. ASSUME NEW x \in SUBSET Deltas, NEW y \in SUBSET Deltas, run_cloud_sync_cycle(x, y)
      PROVE  CycleCausal'
  <2> DEFINE acked == queue \ (x \cup y)
             order == topological_sort_queue(queue, parents, ticket)
             batch == Kept(order, {i \in DOMAIN order : order[i] \in acked})
  <2>1. parents' = parents /\ batches' = Append(batches, batch)
    BY <1>2 DEF run_cloud_sync_cycle, record_batch
  <2> HIDE DEF acked
  <2>2. batch \in Seq(dag) /\ \A i, j \in DOMAIN batch : batch[i] \in parents[batch[j]] => i < j
    BY <1>1, BatchInOrder
  <2> HIDE DEF batch
  <2>3. /\ Len(batches) \in Nat /\ DOMAIN batches = 1 .. Len(batches) /\ DOMAIN batches' = 1 .. (Len(batches) + 1)
        /\ \A n \in 1 .. Len(batches) : batches'[n] = batches[n]
        /\ batches'[Len(batches) + 1] = batch
    BY <1>1, <2>1, <2>2 DEF OrderInv
  <2>4. ASSUME NEW n \in DOMAIN batches', NEW i \in DOMAIN batches'[n], NEW j \in DOMAIN batches'[n],
               batches'[n][i] \in parents'[batches'[n][j]]
        PROVE  i < j
    <3>1. CASE n = Len(batches) + 1
      BY <2>1, <2>2, <2>3, <2>4, <3>1
    <3>2. CASE n # Len(batches) + 1
      <4>1. n \in DOMAIN batches /\ batches'[n] = batches[n]
        BY <2>3, <3>2
      <4> QED BY <2>1, <2>4, <4>1 DEF CycleCausal
    <3> QED BY <3>1, <3>2
  <2> QED BY <2>4 DEF CycleCausal
<1>3. ASSUME NEW w \in Writers, NEW d \in Deltas, NEW c \in BOOLEAN, Produce(w, d, c)
      PROVE  CycleCausal'
  <2>1. d \notin dag /\ batches' = batches /\ \A e \in dag : parents'[e] = parents[e]
    BY <1>1, <1>3 DEF Produce, insert_dag_node, TypeOK
  <2>2. \A n \in DOMAIN batches : \A j \in DOMAIN batches[n] : batches[n][j] \in dag
    <3>1. \A n \in DOMAIN batches : batches[n] \in Seq(dag)
      BY <1>1 DEF OrderInv
    <3> QED BY <3>1
  <2> QED BY <2>1, <2>2 DEF CycleCausal
<1>4. ASSUME Restart PROVE CycleCausal'
  BY <1>4 DEF Restart, CycleCausal
<1>5. ASSUME UNCHANGED <<parents, batches>> PROVE CycleCausal'
  BY <1>5 DEF CycleCausal
<1>6. ASSUME NEW w \in Writers, Register(w) PROVE CycleCausal'
  <2>1. UNCHANGED <<parents, batches>>
    BY <1>6 DEF Register
  <2> QED BY <1>5, <2>1
<1>7. CASE Elsewhere
  BY <1>5, <1>7, OrderFrame
<1> QED BY <1>2, <1>3, <1>4, <1>6, <1>7 DEF Next, Elsewhere

\* Req 16.3: for every number of writers, deltas, cycles and restarts, and every
\* order in which concurrent writes registered, no sync cycle sends a delta
\* before a parent it sends (topological_sort_queue, cloud_sync_loop).
THEOREM CyclesStayCausal == Spec => []CycleCausal
<1>1. Init => CycleCausal
  BY DEF Init, CycleCausal
<1>2. DurabilityInv /\ CycleCausal /\ [Next]_vars => CycleCausal'
  BY CausalStep
<1> QED BY <1>1, <1>2, DurabilityInvariant, PTL DEF Spec

\* The attested tags, and none at all.
AttestedTags == {BeaconSite[b] : b \in Beacons} \cup {Unseen}

\* A step that neither enters the attested mode nor registers a delta nor
\* counts a receipt keeps the tags attested.
LEMMA AttestedFrame ==
  ASSUME AttestedTagsOnly, states' = states, counted' = counted, mode' = "BeaconAttested" => mode = "BeaconAttested"
  PROVE  AttestedTagsOnly'
  BY DEF AttestedTagsOnly

\* A new tracker has counted nobody; one receipt adds the site of its beacon.
LEMMA AttestedStep ==
  ASSUME TypeOK, AttestedTagsOnly, [Next]_vars
  PROVE  AttestedTagsOnly'
<1>1. ASSUME NEW w \in Writers, Register(w) PROVE AttestedTagsOnly'
  <2> SUFFICES ASSUME mode' = "BeaconAttested", NEW e \in states', NEW q \in Peers
               PROVE  counted'[e][q] \in AttestedTags
    BY DEF AttestedTagsOnly, AttestedTags
  <2>1. /\ mine[w] \in Deltas /\ mode' = mode /\ states' = states \cup {mine[w]}
        /\ counted' = [counted EXCEPT ![mine[w]] = NoReceipts]
    BY <1>1 DEF TypeOK, Register
  <2>2. CASE e = mine[w]
    BY <2>1, <2>2 DEF TypeOK, NoReceipts, AttestedTags
  <2>3. CASE e # mine[w]
    <3>1. e \in states /\ counted'[e] = counted[e]
      BY <2>1, <2>3 DEF TypeOK
    <3> QED BY <2>1, <3>1 DEF AttestedTagsOnly, AttestedTags
  <2> QED BY <2>2, <2>3
<1>2. ASSUME NEW p \in Peers, NEW d \in Deltas, NEW t \in Beacons \cup {NoTag}, receive_receipt(p, d, t)
      PROVE  AttestedTagsOnly'
  <2> SUFFICES ASSUME mode' = "BeaconAttested", NEW e \in states', NEW q \in Peers
               PROVE  counted'[e][q] \in AttestedTags
    BY DEF AttestedTagsOnly, AttestedTags
  <2> DEFINE c == add_receipt_with_tag(d, p, diversity_tag(p, t)).counted
  <2>1. /\ mode = "BeaconAttested" /\ states' = states /\ d \in states /\ t \in Beacons
        /\ counted' = [counted EXCEPT ![d] = c]
    BY <1>2 DEF receive_receipt
  <2>2. diversity_tag(p, t) \in AttestedTags
    BY <2>1 DEF diversity_tag, AttestedTags
  <2>3. counted[e][q] \in AttestedTags /\ counted[d][q] \in AttestedTags
    BY <2>1 DEF AttestedTagsOnly, AttestedTags
  <2>4. c \in {counted[d], [counted[d] EXCEPT ![p] = diversity_tag(p, t)]}
    BY DEF add_receipt_with_tag
  <2> HIDE DEF c
  <2>5. c[q] \in AttestedTags
    BY <2>2, <2>3, <2>4 DEF TypeOK
  <2>6. counted'[e] = IF e = d THEN c ELSE counted[e]
    BY <2>1 DEF TypeOK
  <2> QED BY <2>3, <2>5, <2>6
<1>3. ASSUME Restart PROVE AttestedTagsOnly'
  BY <1>3 DEF Restart, AttestedTagsOnly
<1>4. CASE Next
  BY <1>1, <1>2, <1>3, <1>4, AttestedFrame DEF Next, Produce, MarkCompacted, Publish, PeerMerge,
     run_cloud_sync_cycle, BeaconSilent, MonitorTick, MigrateSchema
<1>5. CASE UNCHANGED vars
  BY <1>5, AttestedFrame DEF vars
<1> QED BY <1>4, <1>5

\* Req 15.2: for every set of beacons and peers and every order of receipts,
\* silences, monitor ticks and restarts, no receipt counts under a
\* self-declared tag while the anchor is attested (receive_receipt,
\* diversity_tag).
THEOREM TagsStayAttested == Spec => []AttestedTagsOnly
<1>1. Init => AttestedTagsOnly
  BY DEF Init, AttestedTagsOnly
<1>2. TypeOK /\ AttestedTagsOnly /\ [Next]_vars => AttestedTagsOnly'
  BY AttestedStep
<1> QED BY <1>1, <1>2, TypeCorrect, PTL DEF Spec
=============================================================================
