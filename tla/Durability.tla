----------------------------- MODULE Durability -----------------------------
(***************************************************************************)
(* Two-tier durability of one native device: the durability half of        *)
(* CoreHandle::write, the DurabilitySubsystem with its quorum trackers,    *)
(* the cloud outbound queue, one run_cloud_sync_cycle per tick against the *)
(* Cloud Ledger the process hosts, and the beacon monitor.                 *)
(*                                                                         *)
(* Grain of atomicity: one action is one critical section.  write() takes  *)
(* the crdt lock (Produce), the durability lock (Register), the durability *)
(* lock again (MarkCompacted) and the transport lock (Publish), so other   *)
(* calls run in between; a sync cycle holds the durability lock            *)
(* throughout.  A receipt that is refused changes nothing and is a         *)
(* stuttering step.                                                        *)
(***************************************************************************)
EXTENDS Naturals, FiniteSets, Sequences, CloudOrder

CONSTANTS
    Deltas,           \* identifiers of the deltas this device may author
    Writers,          \* concurrent calls of CoreHandle::write
    Peers,            \* devices that may merge a delta and issue a receipt
    Tags,             \* spatial tags: squads, sectors and beacon locations
    NoDelta,          \* a write call that has no delta yet
    NoTag, Unseen,    \* a receipt without tag; an issuer not counted yet
    SquadTag,         \* the tag each peer declares in its receipts
    Beacons,          \* registered beacons (AnchorAttestedLocation)
    BeaconSite,       \* the location claim each beacon signs
    AnchorEnabled,    \* DeploymentConfig.anchor_attested_location
    K,                \* QuorumConfig.k
    MinTags,          \* QuorumConfig.spatial_diversity_min, 0 = unconfigured
    FracNum, FracDen, \* max_single_sector_fraction = FracNum / FracDen
    MaxQueueDepth,    \* MAX_QUEUE_DEPTH (100,000 in the code)
    Compaction,       \* whether some table has an Aggressive policy
    IoFaults,         \* whether a refetch or a send may fail
    MaxMigrations,    \* bound: schema migrations the device applies
    MaxRestarts       \* bound: process restarts

ASSUME QuorumAssumption ==
    /\ K \in Nat \ {0} /\ MinTags \in Nat
    /\ FracNum \in Nat /\ FracDen \in Nat \ {0}
    /\ IsFiniteSet(Peers)

ASSUME TagAssumption ==
    /\ NoTag \notin Tags /\ Unseen \notin Tags /\ NoTag # Unseen
    /\ SquadTag \in [Peers -> Tags \cup {NoTag}]
    /\ BeaconSite \in [Beacons -> Tags]

ASSUME BoundAssumption ==
    /\ MaxQueueDepth \in Nat /\ MaxMigrations \in Nat /\ MaxRestarts \in Nat
    /\ AnchorEnabled \in BOOLEAN /\ Compaction \in BOOLEAN /\ IoFaults \in BOOLEAN

VARIABLES
    dag,        \* deltas in the SQLite changeset DAG (survives a restart)
    parents,    \* their causal parents
    schema,     \* the schema version each was authored under
    current,    \* the CRDT engine's current schema version
    pc, mine, compacts, \* per write call: where it is, its delta, did it compact
    returned,   \* what write() returned for a delta
    states,     \* DurabilitySubsystem.states: the registered deltas
    tier, permitted,    \* their tier and compaction_permitted
    counted, achieved,  \* quorum tracker: tag per counted issuer, tier1_achieved
    queue, ticket, pushed, \* the cloud queue, its order, pushes so far
    entry,      \* what a queue entry holds
    published,  \* deltas that reached the mesh
    held,       \* deltas each peer merged and signed a receipt for
    committed, merged,  \* Cloud Ledger: ids acknowledged, ids its engine merged
    batches,    \* per sync cycle, the ids committed, in sending order
    mode,       \* anchor mode, "Off" when the feature is disabled
    seen,       \* beacons with an entry in beacon_last_seen
    overdue,    \* beacons silent longer than the threshold, counted from
                \* the last valid token, or from startup if there is none
    restarts

dagVars    == <<dag, parents, schema, current>>
writeVars  == <<pc, mine, compacts, returned>>
trackVars  == <<states, tier, permitted, counted, achieved>>
queueVars  == <<queue, ticket, pushed, entry>>
meshVars   == <<published, held>>
ledgerVars == <<committed, merged, batches>>
anchorVars == <<mode, seen, overdue>>
vars == <<dagVars, writeVars, trackVars, queueVars, meshVars, ledgerVars,
          anchorVars, restarts>>

NoReceipts == [p \in Peers |-> Unseen]
NewEntry   == [bytes |-> TRUE, compacted |-> FALSE, holders |-> {}]
NoEntry    == [bytes |-> FALSE, compacted |-> FALSE, holders |-> {}]
FirstSchema == 0
LedgerSchemas == {FirstSchema}  \* CloudLedger::new_in_memory; never extended

\* Causal parents of a new delta: the DAG's tips (CrdtEngine::dag_tips).
Tips == {d \in dag : \A c \in dag : d \notin parents[c]}

(***************************************************************************)
(* Quorum and spatial diversity (quorum.rs, spatial.rs).  c maps an issuer *)
(* to the tag its receipt counts under, or to Unseen.                      *)
(***************************************************************************)
Issuers(c)      == {p \in Peers : c[p] # Unseen}
DistinctTags(c) == {c[p] : p \in Issuers(c)} \ {NoTag}
OfTag(c, t)     == {p \in Issuers(c) : c[p] = t}

effective_min_distinct(c) ==
    LET n == Cardinality(DistinctTags(c))
    IN  IF MinTags # 0 THEN MinTags ELSE IF K < n THEN K ELSE n

\* Too few distinct tags degrade to flat K-of-N; otherwise no tag may exceed
\* its share of the receipts.
satisfies_diversity(c) ==
    \/ Cardinality(DistinctTags(c)) < effective_min_distinct(c)
    \/ \A t \in DistinctTags(c) :
          Cardinality(OfTag(c, t)) * FracDen <= FracNum * Cardinality(Issuers(c))

\* Mutant: the author counts itself toward K.
QuorumReached_self(c) == Cardinality(Issuers(c)) + 1 >= K /\ satisfies_diversity(c)

QuorumReached(c) == Cardinality(Issuers(c)) >= K /\ satisfies_diversity(c)

-----------------------------------------------------------------------------
Init ==
    /\ dag = {}
    /\ parents = [d \in Deltas |-> {}]
    /\ schema = [d \in Deltas |-> FirstSchema]
    /\ current = FirstSchema
    /\ pc = [w \in Writers |-> "idle"]
    /\ mine = [w \in Writers |-> NoDelta]
    /\ compacts = [w \in Writers |-> FALSE]
    /\ returned = [d \in Deltas |-> "none"]
    /\ states = {}
    /\ tier = [d \in Deltas |-> "Uncommitted"]
    /\ permitted = [d \in Deltas |-> FALSE]
    /\ counted = [d \in Deltas |-> NoReceipts]
    /\ achieved = [d \in Deltas |-> FALSE]
    /\ queue = {} /\ ticket = [d \in Deltas |-> 0] /\ pushed = 0
    /\ entry = [d \in Deltas |-> NoEntry]
    /\ published = {} /\ held = [p \in Peers |-> {}]
    /\ committed = {} /\ merged = {} /\ batches = <<>>
    /\ mode = IF AnchorEnabled THEN "BeaconAttested" ELSE "Off"
    /\ seen = {} /\ overdue = {}
    /\ restarts = 0

(***************************************************************************)
(* CoreHandle::write, in its critical sections.                            *)
(***************************************************************************)

\* CrdtEngine::insert_dag_node: node with the full serialised delta, edges.
insert_dag_node(d) ==
    /\ parents' = [parents EXCEPT ![d] = Tips]
    /\ schema' = [schema EXCEPT ![d] = current]
    /\ dag' = dag \cup {d}

\* produce_delta_with_tags signs the delta under the current schema and inserts
\* it in the DAG.  Of the crdt section before it (write_scalar, maybe_compact)
\* only whether it compacted is used later.
Produce(w, d, compacted) ==
    /\ pc[w] = "idle" /\ d \in Deltas \ dag
    /\ compacted => Compaction
    /\ insert_dag_node(d)
    /\ pc' = [pc EXCEPT ![w] = "produced"]
    /\ mine' = [mine EXCEPT ![w] = d]
    /\ compacts' = [compacts EXCEPT ![w] = compacted]
    /\ UNCHANGED <<current, returned, trackVars, queueVars, meshVars,
                   ledgerVars, anchorVars, restarts>>

\* CloudOutboundQueue::enqueue of an entry with inline bytes.
enqueue(d) ==
    /\ Cardinality(queue) < MaxQueueDepth
    /\ queue' = queue \cup {d}
    /\ ticket' = [ticket EXCEPT ![d] = pushed]
    /\ pushed' = pushed + 1
    /\ entry' = [entry EXCEPT ![d] = NewEntry]

\* register_delta inserts the durability state first and enqueues second.
\* At the cap write() returns CloudQueueFull and stops there.
Register(w) ==
    LET d == mine[w] IN
    /\ pc[w] = "produced"
    /\ states' = states \cup {d}
    /\ tier' = [tier EXCEPT ![d] = "Uncommitted"]
    /\ permitted' = [permitted EXCEPT ![d] = FALSE]
    /\ counted' = [counted EXCEPT ![d] = NoReceipts]
    /\ achieved' = [achieved EXCEPT ![d] = FALSE]
    /\ \/ /\ enqueue(d)
          /\ pc' = [pc EXCEPT ![w] = "registered"]
          /\ UNCHANGED returned
       \/ /\ Cardinality(queue) >= MaxQueueDepth
          /\ pc' = [pc EXCEPT ![w] = "idle"]
          /\ returned' = [returned EXCEPT ![d] = "full"]
          /\ UNCHANGED queueVars
    /\ UNCHANGED <<dagVars, mine, compacts, meshVars, ledgerVars, anchorVars,
                   restarts>>

\* Mutant: compaction removes the entry instead of its bytes.
MarkCompacted_drop(w) ==
    /\ pc[w] = "registered"
    /\ queue' = IF compacts[w] THEN queue \ {mine[w]} ELSE queue
    /\ pc' = [pc EXCEPT ![w] = "marked"]
    /\ UNCHANGED <<dagVars, mine, compacts, returned, trackVars, entry, ticket,
                   pushed, meshVars, ledgerVars, anchorVars, restarts>>

\* mark_compacted drops the entry's bytes; a no-op when the entry is gone.
MarkCompacted(w) ==
    LET d == mine[w] IN
    /\ pc[w] = "registered"
    /\ entry' = IF compacts[w] /\ d \in queue
                THEN [entry EXCEPT ![d] = [bytes |-> FALSE, compacted |-> TRUE,
                                           holders |-> @.holders]]
                ELSE entry
    /\ pc' = [pc EXCEPT ![w] = "marked"]
    /\ UNCHANGED <<dagVars, mine, compacts, returned, trackVars, queue, ticket,
                   pushed, meshVars, ledgerVars, anchorVars, restarts>>

\* send_delta is best-effort: the write returns Ok whether or not it works.
Publish(w, delivered) ==
    LET d == mine[w] IN
    /\ pc[w] = "marked"
    /\ published' = IF delivered THEN published \cup {d} ELSE published
    /\ returned' = [returned EXCEPT ![d] = "ok"]
    /\ pc' = [pc EXCEPT ![w] = "idle"]
    /\ UNCHANGED <<dagVars, mine, compacts, trackVars, queueVars, held,
                   ledgerVars, anchorVars, restarts>>

(***************************************************************************)
(* Receipts.  The mesh may delay, repeat or lose them, so a receipt that   *)
(* was issued can be delivered at any later time, any number of times.     *)
(***************************************************************************)

\* A peer merges a published delta and signs a receipt for it.
PeerMerge(p, d) ==
    /\ d \in published \ held[p]
    /\ held' = [held EXCEPT ![p] = @ \cup {d}]
    /\ UNCHANGED <<dagVars, writeVars, trackVars, queueVars, published,
                   ledgerVars, anchorVars, restarts>>

\* verify_receipt: the issuer's signature over the delta's state hash.
verify_receipt(p, d) == d \in held[p]

\* Mutant: the quorum is only evaluated at the K-th receipt.
add_receipt_at_k(d, p, tag) ==
    LET known == counted[d][p] # Unseen
        c == IF known THEN counted[d] ELSE [counted[d] EXCEPT ![p] = tag]
    IN  [counted |-> c,
         tier1   |-> IF known THEN achieved[d]
                     ELSE Cardinality(Issuers(c)) = K /\ QuorumReached(c)]

\* Tier1QuorumTracker::add_receipt_with_tag: the updated tracker, and whether
\* the call reports Tier-1.
add_receipt_with_tag(d, p, tag) ==
    LET known == counted[d][p] # Unseen
        c == IF known THEN counted[d] ELSE [counted[d] EXCEPT ![p] = tag]
    IN  [counted |-> c,
         tier1   |-> IF known THEN achieved[d]
                     ELSE ~achieved[d] /\ QuorumReached(c)]

PromotesToTier1(d, tier1) == tier1 /\ tier[d] = "Uncommitted"

\* Mutant: the self-declared tag counts although the anchor is attested.
diversity_tag_declared(p, token) == SquadTag[p]

\* The attested location while beacons are trusted, else the declared tag.
diversity_tag(p, token) ==
    IF mode = "BeaconAttested" THEN BeaconSite[token] ELSE SquadTag[p]

\* DurabilitySubsystem::receive_receipt for a registered delta; token is the
\* beacon whose token the receipt carries, or NoTag.
receive_receipt(p, d, token) ==
    /\ d \in states /\ verify_receipt(p, d)
    /\ mode = "BeaconAttested" => token \in Beacons
    /\ seen' = IF mode = "BeaconAttested" THEN seen \cup {token} ELSE seen
    /\ overdue' = IF mode = "BeaconAttested" THEN overdue \ {token} ELSE overdue
    /\ LET r == add_receipt_with_tag(d, p, diversity_tag(p, token))
           promote == PromotesToTier1(d, r.tier1)
       IN  /\ counted' = [counted EXCEPT ![d] = r.counted]
           /\ achieved' = [achieved EXCEPT ![d] = @ \/ r.tier1]
           /\ tier' = IF promote THEN [tier EXCEPT ![d] = "Tier1"] ELSE tier
           /\ permitted' = IF promote THEN [permitted EXCEPT ![d] = TRUE] ELSE permitted
    /\ entry' = IF d \in queue
                THEN [entry EXCEPT ![d].holders = @ \cup {p}] ELSE entry
    /\ UNCHANGED <<dagVars, writeVars, states, queue, ticket, pushed, meshVars,
                   ledgerVars, mode, restarts>>

(***************************************************************************)
(* Cloud sync.                                                             *)
(***************************************************************************)

\* CloudLedger::receive_delta acknowledges Merged and Quarantined alike; only
\* a delta under a schema its engine knows is merged into the ledger.
receive_delta(acked) ==
    /\ committed' = committed \cup acked
    /\ merged' = merged \cup {d \in acked \ committed : schema[d] \in LedgerSchemas}

on_cloud_ack(acked) ==
    tier' = [d \in Deltas |-> IF d \in acked \cap states THEN "Tier2" ELSE tier[d]]

\* Mutant: refetch from the receipt holders instead of the local DAG.
refetch_from_holders(d) == entry[d].holders # {}

\* The production refetch callback reads the delta back from the DAG.
refetch(d) == d \in dag

\* Entries whose bytes cannot be resolved at all.
Stranded == {d \in queue : ~entry[d].bytes /\ ~refetch(d)}

\* The ids of this cycle's acknowledgements, in sending order.
record_batch(acked) ==
    \E order \in {topological_sort_queue(queue, parents, ticket)} :
        batches' = Append(batches, Kept(order, {i \in DOMAIN order : order[i] \in acked}))

\* cloud_sync_loop, then on_cloud_ack for every freshly acknowledged id.  An
\* entry without bytes is refetched from the DAG and deferred when that
\* fails; a rejected entry stays; neither stops the entries after it.
run_cloud_sync_cycle(deferred, rejected) ==
    LET needFetch == {d \in queue : ~entry[d].bytes}
        acked     == queue \ (deferred \cup rejected)
    IN  /\ queue # {}
        /\ Stranded \subseteq deferred /\ deferred \subseteq needFetch
        /\ rejected \subseteq queue \ deferred
        /\ ~IoFaults => deferred = Stranded /\ rejected = {}
        /\ acked # {}
        /\ receive_delta(acked)
        /\ record_batch(acked)
        /\ queue' = queue \ acked
        /\ entry' = [d \in Deltas |-> IF d \in acked THEN NoEntry ELSE entry[d]]
        /\ on_cloud_ack(acked)
        /\ UNCHANGED <<dagVars, writeVars, states, permitted, counted, achieved,
                       ticket, pushed, meshVars, anchorVars, restarts>>

(***************************************************************************)
(* Beacons: the threshold passes for a beacon; the monitor loop ticks.     *)
(***************************************************************************)
BeaconSilent(b) ==
    /\ mode = "BeaconAttested" /\ overdue' = overdue \cup {b}
    /\ UNCHANGED <<dagVars, writeVars, trackVars, queueVars, meshVars,
                   ledgerVars, mode, seen, restarts>>

\* A beacon that was never seen has last_seen = i64::MIN.
check_signal_loss ==
    IF mode = "BeaconAttested" THEN overdue \cup (Beacons \ seen) ELSE {}

MonitorTick ==
    /\ check_signal_loss # {}
    /\ mode' = "SquadTagFallback"
    /\ UNCHANGED <<dagVars, writeVars, trackVars, queueVars, meshVars,
                   ledgerVars, seen, overdue, restarts>>

(***************************************************************************)
(* A migration moves the engine to the next schema; the ledger's engine is *)
(* not told.  A restart keeps the SQLite DAG and loses everything else,    *)
(* the in-process ledger included.                                         *)
(***************************************************************************)
MigrateSchema ==
    /\ current < MaxMigrations /\ current' = current + 1
    /\ UNCHANGED <<dag, parents, schema, writeVars, trackVars, queueVars,
                   meshVars, ledgerVars, anchorVars, restarts>>

Restart ==
    /\ restarts < MaxRestarts /\ restarts' = restarts + 1
    /\ current' = FirstSchema
    /\ pc' = [w \in Writers |-> "idle"]
    /\ mine' = [w \in Writers |-> NoDelta]
    /\ compacts' = [w \in Writers |-> FALSE]
    /\ states' = {}
    /\ tier' = [d \in Deltas |-> "Uncommitted"]
    /\ permitted' = [d \in Deltas |-> FALSE]
    /\ counted' = [d \in Deltas |-> NoReceipts]
    /\ achieved' = [d \in Deltas |-> FALSE]
    /\ queue' = {} /\ pushed' = 0
    /\ entry' = [d \in Deltas |-> NoEntry]
    /\ committed' = {} /\ merged' = {} /\ batches' = <<>>
    /\ mode' = IF AnchorEnabled THEN "BeaconAttested" ELSE "Off"
    /\ seen' = {} /\ overdue' = {}
    /\ UNCHANGED <<dag, parents, schema, returned, ticket, meshVars>>

Next ==
    \/ \E w \in Writers : \/ \E d \in Deltas, c \in BOOLEAN : Produce(w, d, c)
                          \/ Register(w)
                          \/ MarkCompacted(w)
                          \/ \E b \in BOOLEAN : Publish(w, b)
    \/ \E p \in Peers, d \in Deltas : \/ PeerMerge(p, d)
                                      \/ \E t \in Beacons \cup {NoTag} :
                                            receive_receipt(p, d, t)
    \/ \E deferred, rejected \in SUBSET Deltas :
          run_cloud_sync_cycle(deferred, rejected)
    \/ \E b \in Beacons : BeaconSilent(b)
    \/ MonitorTick
    \/ MigrateSchema
    \/ Restart

Spec == Init /\ [][Next]_vars

-----------------------------------------------------------------------------
TypeOK ==
    /\ dag \subseteq Deltas
    /\ parents \in [Deltas -> SUBSET Deltas]
    /\ schema \in [Deltas -> Nat] /\ current \in Nat
    /\ pc \in [Writers -> {"idle", "produced", "registered", "marked"}]
    /\ mine \in [Writers -> Deltas \cup {NoDelta}]
    /\ \A w \in Writers : pc[w] # "idle" => mine[w] \in Deltas
    /\ compacts \in [Writers -> BOOLEAN]
    /\ returned \in [Deltas -> {"none", "ok", "full"}]
    /\ states \subseteq Deltas
    /\ tier \in [Deltas -> {"Uncommitted", "Tier1", "Tier2"}]
    /\ permitted \in [Deltas -> BOOLEAN]
    /\ counted \in [Deltas -> [Peers -> Tags \cup {NoTag, Unseen}]]
    /\ achieved \in [Deltas -> BOOLEAN]
    /\ queue \subseteq Deltas /\ ticket \in [Deltas -> Nat] /\ pushed \in Nat
    /\ entry \in [Deltas -> [bytes : BOOLEAN, compacted : BOOLEAN,
                             holders : SUBSET Peers]]
    /\ published \subseteq Deltas
    /\ held \in [Peers -> SUBSET Deltas]
    /\ committed \subseteq Deltas /\ merged \subseteq Deltas
    /\ mode \in {"Off", "BeaconAttested", "SquadTagFallback"}
    /\ seen \subseteq Beacons /\ overdue \subseteq Beacons
    /\ restarts \in Nat

\* Req 14.8, 16.3: a registered delta leaves the cloud queue only by a ledger
\* acknowledgement, whatever receipts, compaction, failed cycles and other
\* writes happen meanwhile.  Only the write refused with CloudQueueFull is
\* tracked without being queued.
PendingStillQueued ==
    \A d \in states : tier[d] # "Tier2" /\ returned[d] # "full" => d \in queue

\* Req 14.2, 14.6: Tier-1 means at least K distinct devices really merged the
\* delta, however often receipts are repeated or reordered.
Tier1Evidence ==
    \A d \in Deltas :
        tier[d] = "Tier1" => Cardinality({p \in Peers : d \in held[p]}) >= K

\* Req 14.2, 14.3: no quorum goes unnoticed.  Whenever the receipts counted so
\* far satisfy K and the diversity rule, the delta is at least Tier-1, also
\* when diversity failed at the K-th receipt and a later one repaired it.
QuorumNeverMissed ==
    \A d \in states : QuorumReached(counted[d]) => tier[d] # "Uncommitted"

\* Req 14.4, 16.3: a Tier-2 delta was acknowledged by the ledger, is out of
\* the queue, and was merged by the ledger if authored under its schema.
Tier2InLedger ==
    \A d \in Deltas : tier[d] = "Tier2" =>
        /\ d \in committed \ queue
        /\ schema[d] \in LedgerSchemas => d \in merged

\* Req 16.8: an entry whose bytes were dropped by compaction can always be
\* refetched from the local DAG, so no queued delta is stranded.
Refetchable == \A d \in queue : entry[d].bytes \/ d \in dag

\* Req 15.2: while the anchor is in BeaconAttested mode no receipt counts
\* under its self-declared squad tag.
AttestedTagsOnly ==
    mode = "BeaconAttested" =>
        \A d \in states, p \in Peers :
            counted[d][p] \in {BeaconSite[b] : b \in Beacons} \cup {Unseen}

\* Req 16.3: within one sync cycle a delta is never sent before a causal
\* parent sent in the same cycle, even when concurrent writes registered them
\* in the opposite order.
CycleCausal ==
    \A n \in DOMAIN batches : \A i, j \in DOMAIN batches[n] :
        batches[n][i] \in parents[batches[n][j]] => i < j

(***************************************************************************)
(* The inductive strengthening behind the safety properties above.         *)
(***************************************************************************)

\* Each running write owns its delta, which is in the DAG and not returned.
WriteInv ==
    /\ \A w \in Writers : pc[w] # "idle" =>
          mine[w] \in dag /\ returned[mine[w]] = "none"
    /\ \A w \in Writers : pc[w] = "produced" => mine[w] \notin states
    /\ \A v, w \in Writers : pc[v] # "idle" /\ pc[w] # "idle" /\ v # w =>
          mine[v] # mine[w]
    /\ \A d \in Deltas \ dag : returned[d] = "none"

\* Queue, ledger and state table agree; only registered deltas have a tier.
TrackInv ==
    /\ queue \subseteq states /\ states \subseteq dag
    /\ committed \subseteq states /\ queue \cap committed = {}
    /\ \A d \in Deltas \ states : tier[d] = "Uncommitted"

\* Counted issuers hold the delta, and tier1_achieved, the counted receipts
\* and the tier agree.
QuorumInv ==
    \A d \in Deltas :
        /\ Issuers(counted[d]) \subseteq {p \in Peers : d \in held[p]}
        /\ achieved[d] => Cardinality(Issuers(counted[d])) >= K
        /\ achieved[d] => tier[d] # "Uncommitted"
        /\ tier[d] = "Tier1" => achieved[d]
        /\ QuorumReached(counted[d]) => achieved[d]

\* The causal order of the DAG is founded, queue positions are distinct, and
\* what was sent is in the DAG.
OrderInv ==
    /\ \A d \in dag : parents[d] \subseteq dag
    /\ \A S \in SUBSET dag : S # {} => \E d \in S : parents[d] \cap S = {}
    /\ IsFiniteSet(queue)
    /\ \A d \in queue : ticket[d] < pushed
    /\ \A d, e \in queue : ticket[d] = ticket[e] => d = e
    /\ batches \in Seq(Seq(dag))

\* All of it at once, with the properties it makes inductive.
DurabilityInv ==
    TypeOK /\ WriteInv /\ TrackInv /\ QuorumInv /\ OrderInv /\ PendingStillQueued /\ Tier2InLedger

Rank(t) == CASE t = "Uncommitted" -> 0 [] t = "Tier1" -> 1 [] t = "Tier2" -> 2

\* Req 14.7: within one process lifetime a delta's tier never goes down: a
\* quorum completed after the cloud acknowledgement does not demote it.
TierNeverRegresses ==
    [][restarts' = restarts => \A d \in Deltas : Rank(tier[d]) <= Rank(tier'[d])]_vars

\* The promise this subsystem implements: of all its state only the tiers, the
\* peers' copies, the ledger and the process lifetime are visible.
KOrMore(S) == Cardinality(S) >= K
Contract == INSTANCE DurabilityContract WITH
    archived <- committed, epoch <- restarts, Enough <- KOrMore

\* Req 14.2, 14.4, 14.7: every step of the subsystem, in every interleaving of
\* writes, receipts, sync cycles and restarts, is a step the contract allows or
\* invisible: a tier is raised on the evidence the contract asks for, one delta
\* at a time by receipts and once by the ledger.
ImplementsContract == Contract!Spec

-----------------------------------------------------------------------------
\* What the code's comments claim and the code does not do (see README).

\* cloud_ledger.rs: a quarantined delta is still stored by the ledger.
Tier2Stored == \A d \in Deltas : tier[d] = "Tier2" => d \in merged

\* cloud_queue.rs: parents are always transmitted before their children.
LedgerCausal == \A d \in committed : parents[d] \subseteq committed
=============================================================================
