# TLA+ models of TirBase

TirBase is an offline-first database for disconnected edge devices: every device
writes to a local SQLite store and an Automerge document, signs its changes as
*deltas*, gossips them over a libp2p or BLE mesh, and flushes them to a Cloud
Ledger when it can. This directory holds TLA+ models of its core, the TLC
instances that check them, and TLAPS proofs.

Paths below are relative to `src/tirbase-core/src/` unless they start with `src/`.
"Req n.m" is the numbering the code's own comments use.

## 1. Inventory

| Component | State it keeps | Operations | Modelled in |
|---|---|---|---|
| Write and inbound path (`api/mod.rs`) | none of its own; calls the others one lock at a time | trust gate, crdt write, sign, register, compact, publish, route inbound messages | each module, the part its component sees |
| Durability (`durability/mod.rs`, `quorum.rs`, `spatial.rs`, `receipt.rs`) | per delta: tier, `compaction_permitted`, quorum tracker | `register_delta`, `receive_receipt`, `on_cloud_ack` | `Durability`, `DurabilityContract` |
| Cloud queue (`durability/cloud_queue.rs`) and sync loop | entries in arrival order, at most 100,000 | `enqueue`, `mark_compacted`, `cloud_sync_loop`, `topological_sort_queue` | `Durability`, `CloudOrder`, `CloudQueue` |
| Cloud Ledger, anchor (`durability/cloud_ledger.rs`, `anchor.rs`) | `committed` ids, an in-memory engine; mode and beacon sightings | `receive_delta`, `check_signal_loss`, token validation | `Durability` |
| Background tasks (`api/mod.rs`) | bounded inbound, outbound and dial channels | swarm task, drain loop, scheduler loop | `NodeTasks` |
| Startup and identity (`api/mod.rs` init, `identity/`) | identity file, handles, tasks | init in its fallible steps, kill, init again | `Startup` |
| Revocation (`auth/revocation.rs`) | signatures per target, `revoked_dids` | initiate, accumulate, apply, re-announce | `Revocation` |
| Capability manager (`auth/`) | trust level, `unverified_since`, token expiry, root CA keys | `present_token`, `verify_token`, expiry monitor | `Trust` |
| CRDT engine and DAG (`crdt/`) | document, Lamport clock, DAG, known schemas, rejection log | write, produce, apply, override, project | `Crdt`, `ChangesetDag`, `MergeGate`, `SchemaDiff` |
| Local store (`store/`) | SQLite rows, documents, DAG nodes and edges | the statements of every call, compaction | `LocalStore` |
| Browser store (`store/indexed_db.rs`) | IndexedDB, the view of a session, two ledgers | open, write, compact, reload | `BrowserStore` |
| Schema migration (`migration/`) | schema, registry, windows, Side-Car, quarantine | validate, transform, commit, mirror, revoke, capture, replay | `Migration` |
| Migration sandbox (`migration/wasm_sandbox.rs`) | engine epoch and deadline, execution registry | run, time out, interrupt | `WasmSandbox` |
| Contamination engine (`contamination/`) | tag log, row flags, incidents | tag, propagate, merge incidents, verify, close | `Contamination`, `ChangesetDag` |
| Mesh transport (`transport/`) | DRR queues and deficits, lease, retry queue, reassembly slots, peers, sessions | schedule, fragment, reassemble, discover, handshake, rotate | `MeshScheduler`, `Fragments`, `BleBridge`, `MeshPeers` |
| Schema language (`schema/`) | none | print, parse, hash, diff | `SchemaLanguage`, `SchemaDiff` |
| TypeScript SDK (`src/tirbase-sdk/src/`) | mirror of the trust level, listeners | init, calls, tokens, event dispatch | `Sdk` |
| Diagnostics, API types | - | - | only the startup diagnostics (`Startup`) |

**Interaction.** `CoreHandle` holds one mutex per subsystem. Application threads,
the swarm task and the background loops (inbound drain, scheduler tick, cloud
sync, beacon monitor, token expiry monitor, migration jobs) take those mutexes in
short sections, so every operation that touches two subsystems can be interleaved
between its sections. Devices communicate by gossip, which loses, repeats and
reorders. SQLite (the DAG, the tables, the contamination tags) and the identity
file survive a restart; the queue, the tiers, the hosted ledger, the document and
its clock, the migration registry, the incidents, the trust level and the
revocation state do not. The browser build is single threaded but suspends at
awaits, and a reload drops everything but IndexedDB.

**What is hard.** Concurrent writes register in another order than they were
signed in; compaction drops bytes of an entry the sync loop may be sending;
receipts arrive late, twice, or after the cloud acknowledged; a revocation is
applied in three sections under three locks while deltas of its target are being
merged; a migration's transform runs off the lock while a revocation interrupts
it; incidents are merged and taken apart while deltas below their roots still
arrive; statements fail and processes die between two statements; fragments of
two senders mix in one slot; handshakes wait, take time and fail; a listener throws in
the middle of a batch of events; channels between tasks fill up. `PROJECT.json` lists
these hazards at their lines with the properties that would show them.

**What makes each component correct.**

* Durability: a delta is never promised more than the evidence supports, never
  loses a tier, never silently leaves the queue, and eventually reaches the ledger.
* Revocation: never below M signatures, never with a revoked manager's signature,
  always followed by the merge gate, eventually known everywhere.
* Trust: expiry is noticed, warned about with its first time, never lifts a
  revocation.
* CRDT: the same deltas give the same document, clocks and parents are causal, what
  the gate takes in was vouched for.
* Migration: a revoked migration never commits, transforms never overlap, captured
  writes are replayed or reported, every job and every run ends.
* Contamination: every open root is in an incident; clearing reaches exactly what
  lies below a verified root.
* Stores: calls are atomic over failures and kills; what is shown or acknowledged
  is durable, except for the row of an inbound delta whose store error is dropped.
* Transport: floors are served, leases end, only what arrived whole enters, backoff
  is respected, silent peers leave.
* Startup: one identity, consistent engines, no ownerless task.
* Schema language: print and parse are inverse on what the language can express.

## 2. Modules

Each component is a module with its variables, `Init`, an action per critical
section, handler or statement, and `Next`. TLC's runs are few and large:
`ReplicaMachines`, `DeviceMachines` and `NodeMachines` (and `MCDelivery`) put several
components side by side as *machines*, with their specification and the properties
the runs check, and the theorems are about the same specification. A variable
`machine`, chosen by the initial predicate, says which one a behaviour runs; the others
keep their single initial state. The `MC` modules give the constants small values. Those components share no state in these modules (what one assumes
of another is in its own module as a nondeterministic input), so this is the union
of the instances, not a restriction of any of them. An invariant of a machine is
stated behind `machine = ...`; action and temporal properties need no guard, since
the other machines stand still.

### Cloud durability: `Durability`, `DurabilityContract`, `CloudOrder`, `CloudQueue`
One device. An action is one critical section.

| Action | Code |
|---|---|
| `Produce` | crdt section of `write()`: `produce_delta_with_tags`, `insert_dag_node` with the DAG's tips as parents, whether `maybe_compact` compacted |
| `Register` | durability section: `register_delta`, state first, queue second, `CloudQueueFull` at the cap |
| `MarkCompacted` | second durability section: drops the entry's bytes |
| `Publish` | best-effort `send_delta`; `write()` returns Ok |
| `PeerMerge` | a peer merges a published delta and signs a receipt |
| `receive_receipt` | signature, anchor token, tracker, promotion, holder of the queue entry |
| `run_cloud_sync_cycle` | one tick under the durability lock: order, resolve bytes, send, remove, `on_cloud_ack`; any entries may be deferred or rejected when I/O can fail |
| `BeaconSilent`, `MonitorTick` | a beacon exceeds the threshold; the beacon monitor |
| `MigrateSchema`, `Restart` | `set_current_schema`; a new process over the same database |

A delta is an identifier with its parents and schema version; a signature is the
fact that the device really holds the delta, so a forged receipt is one that
`verify_receipt` refuses; refused receipts and cycles that acknowledge nothing are
stuttering steps. The tag fraction 0.7 is the ratio `FracNum / FracDen`. Errors of
the crdt section before the delta exists leave a write that did not start.

`DurabilityContract` is the promise of the two tiers: evidence accumulates (holders,
archive), a tier is raised only on evidence, one delta at a time by receipts and
any set at once by the ledger, and is lost only in a crash. `Durability` implements
it under `Contract == INSTANCE DurabilityContract WITH archived <- committed,
epoch <- restarts, Enough <- KOrMore` (the other names coincide); trackers, queue,
threads, compaction and beacons are hidden. The refinement is checked
(`durability_core`) and proved.

`CloudOrder` is `topological_sort_queue` as a recursive function (Kahn's algorithm,
generation by generation, entries of a cycle appended in queue order). `Subsequences`
has the two operators on sequences the code needs there and in the transport, a sort by
key and the filtering of a queue, defined by counting so that they can be reasoned about.
`CloudQueue`
pushes and acknowledges entries with arbitrary parents and compares the result with
independent definitions: ancestors, generations, the greatest set in which every
entry has a parent in the set.

### `Revocation`
Several devices. `Deliver` is the inbound arm of `receive_inbound`;
`initiate_revocation` and `Accumulate` are the call of an application thread; both
go on with `mark_did_revoked` (crdt lock) and `apply_revocation` (capability lock),
each thread with its own program counter `job[d][h]`. `Reannounce` is the mDNS
handler that sends complete deltas again; `Lose` and repeated delivery are the mesh.
`WriteGate`, `WriteCommit` and `MergeDelta` are the data path the revocation races
with. `process_incoming_delta` includes the DAG query and the tagging, which run
under the revocation lock. Which of several candidate signatures fill the last
places up to M depends on their order in the message, so `add_signatures` returns
every possible outcome. Left out: the browser variant, the end of the 24 h window
(every announcement is within it), the manager list (`Signers`), signature bytes.

### `Trust`
The capability manager of one device with a clock. Callers read the clock before
they take the lock, so each action works with a time up to `MaxLag` old. A token is
its signing key and its expiry. `Elapsed` keeps Rust's order on `Option`, in which
`None` is below every `Some`. `credential` is a history variable: the token accepted
last through either entry point.

### Rows and schemas: `Crdt`, `ChangesetDag`, `MergeGate`, `SchemaDiff`
`Crdt`: devices write rows in the three locked phases of `CoreHandle::write`
(`StoreWrite`, `write_scalar`, `produce_delta_with_tags`), merge each other's deltas
in any order (`apply`, with conflict capture and read-back verification), project
them after the engine lock was released (`ProjectMerged`), and restart with the DAG
and the store but without document and clock. An Automerge document is its set of
operations (external: merging is union, the winner is the highest operation id);
text, list and counter values are not told apart. `ChangesetDag` holds the DAG's
queries (`topological_sort`, `dag_tips`, descendants) as operators that `Crdt` and
`Contamination` share.
`MergeGate` is what `apply` does before it merges (revoked author, schema
classification, signature, adoption of additive schemas), the bounded rejection log
and the quarantine ledger. The merge and the DAG insert behind the adoption may fail, and
the schema then stays adopted. `SchemaDiff` is the diff over tables and fields.

### Migrations: `Migration`, `WasmSandbox`
`Migration`: a job per received MigrationDelta goes through its locked sections
(`JobStep`: validate, run off the lock, finish, mirror, replay), while
`receive_revocation_delta` arrives and interrupts, application writes are captured
inside a corruption window (`ProduceWrite`, `record_corrupted_window_write`), and the
process restarts. Schemas are positions of the version path; a transform's outcome
is a choice. `WasmSandbox` is one level down: the native engine with its epoch
deadline, timeout thread, execution registry and revocations that look an engine up
first and increment its epoch later, or find none; and the browser's call with fuel and
a moved store handle. A failed `set_fuel` returns without the handle
(`wasm_sandbox.rs:392-396`); it is in `HandleAfter`, and only `consume_fuel(true)` keeps it
from being taken. A transform is invalid, or a loop over rows that may spin or trap.

### `Contamination`
Roots come from revocations, bad migrations and human reaction (`LookupRow`,
`ProduceDelta`, `HumanReaction` are the three sections of a write on a contaminated
row). Incidents and composites are one sequence; a composite joins the affected rows by
`row_key` alone, so of two rows of different tables with one key it keeps one
(`JoinedByKey`). `verify_data`, `verify_data_wasm`
and `admin_close` resolve them while `receive_delta` goes on. The tag log and the
row flags are on disk, incidents are not (`Restart`).

### Stores: `LocalStore`, `BrowserStore`
`LocalStore`: two SQLite connections with a mutex each, writes and inbound deltas
statement by statement, `Fail` at any of them, `Crash` between any two. `receive_inbound`
returns the DAG's errors but drops the store's, and issues its receipt (`returns_ok`).
Nothing calls `write_with_automerge` (`store/mod.rs`), so it is not modelled. `BrowserStore`: a page
session over IndexedDB; a write suspends until its transaction commits, then
updates the view; errors, a second call (which panics on the held mutex) and a
reload come in between; the quarantine and Side-Car ledgers share the database.

### Mesh: `MeshScheduler`, `Fragments`, `BleBridge`, `MeshPeers`
`MeshScheduler`: the DRR queues, the Saturate lease and its copy in the scheduler,
the retry queue, the outbound channel and the loop that drives them each epoch
(`SchedulerEpoch` is the whole iteration, in the loop's order). `Fragments`:
sending whole, in fragments or through a relay, and the bounded reassembly buffer;
bytes are positions, so mixing two fragmentations is visible. The receiver joins what
fills the slots and parses it; whether bytes that are no delta's parse is a choice
(`garbled`). Nothing refuses a delta with too many fragments on the sending side. `BleBridge`: chunking,
link and task. `MeshPeers`: discovery table, sessions with resumption, backoff and
rotation, the swarm events; timestamps are ages. An attempt reads the clock, waits for
the transport's lock (up to `MaxDelay`), takes time in the exchange (up to
`MaxExchange`), and stamps everything it writes with its reading; failures before the
first message are not recorded. The four share only the epoch ticker
(`elapsed`).

### Around the core: `NodeTasks`, `Startup`, `Sdk`, `SchemaLanguage`
`NodeTasks`: swarm task, drain loop (or the application's own
`process_inbound_messages`), writers and scheduler over three bounded channels.
`Startup`: `CoreHandle::init` step by step, with the identity file, failures, kills
and repeated calls, and who owns which task. `Sdk`: calls suspended at their awaits
over the core's event queue, which the first call to return empties before it dispatches;
a listener that throws rejects that call and the rest of the batch is gone. `core_init` is
a call of the application's own; calls suspended over the handle it replaces are left with
a dangling pointer and may return, throw or never settle.
`SchemaLanguage`: print to tokens, parse by the grammar's choices one rule per step,
and keep what came back, as `build_schema_def_map` does; lexing is abstracted.

### Proof modules
`DurabilityProofs`, `RevocationProofs` and `MigrationProofs` extend the component they
are about. The others extend the modules that put the machines side by side, and state
the properties as the runs check them: `ReplicaProofs` (`Crdt`, `ChangesetDag`,
`MergeGate`, `SchemaDiff`) extends `ReplicaMachines` and `RevocationProofs`; `DeviceProofs`
(`Startup`, `Sdk`, `Contamination`, `CloudOrder`, `SchemaLanguage`) extends
`DeviceMachines`, and `StorageProofs` (`LocalStore`, `BrowserStore`) extends
`DeviceProofs`; `NodeProofs` (`Trust`, `WasmSandbox`, `MeshPeers`, `Fragments`,
`BleBridge`, `MeshScheduler`) extends `NodeMachines`. The migration pipeline is a machine
of two compositions, so `ReplicaProofs` and `NodeProofs` instantiate `MigrationProofs`.
`OrderLemmas` holds what they share: induction over the naturals, finite sets that are
counted, sorted and kept, and Kahn's algorithm. A lemma per machine says that a
behaviour of the whole is one of the machine's own specification.

## 3. Runs

Passing runs (a mutant of the code model breaks each property, see `PROJECT.json`):

| Run | Machines and their instances | What it shows |
|---|---|---|
| `durability_core` | 3 deltas, 2 writers, 2 peers, K = 2, queue of 2, compaction, I/O faults, 1 restart, or with 2 deltas 1 migration; symmetric in deltas, writers and peers; 994,006 states | `DurabilityInv` (no registered delta leaves the queue unacknowledged, bytes are refetchable, tiers are backed by evidence), `CycleCausal` (one cycle sends parents first), `ImplementsContract` |
| `delivery` | *quorum*: 1 delta, 4 peers (3 of one squad), 2 beacons, K = 2, 1 migration. *live*: 2 deltas, 2 writers, compaction, faults. *tasks*: 4 messages, 3 payloads, 2 dials, channels of 1. *spread*: 3 devices, M = 1. 83,586 states | `QuorumNeverMissed`, `AttestedTagsOnly`; `WritesReachTier2`; `ChannelsDeliver`; `Spreads` |
| `replica` | *revocation*: 3 devices, 2 managers, M = 2, 1 restart. *crdt*: 2 devices, 2 rows, 3 writes, clocks to 4, 1 restart. *gate*: a path of 4 versions, 2 authors, 4 kinds of signature, 3 deltas, a log of 2. *migration*: 4 migrations (two compete, one is corrupt), 2 jobs, 2 writes, threshold 2, 1 restart. 2,816,655 states | `ThresholdEvidence`; `NumbersAreCausal`, `SameDeltasSameDoc`, `TipsCoverDag`; `ClassificationIsInclusion`, `OnlyVouchedGetsIn`; `CommitsAreSound`, `CapturedWritesSettle` |
| `device` | *revocation*: 2 devices, one of them manager, both targets, 1 data delta. *contamination*: 3 deltas, 1 row, a migration marker, 4 incidents, 1 restart, both builds. *sqlite*: 2 keys, 3 calls, 1 crash. *indexeddb*: 2 keys, 2 deltas, 4 writes, 2 reloads. *init*: 3 starts, both builds. *sdk*: 2 calls, 3 events, 2 core inits. *order*: up to 4 entries, every parent relation. *language*: every default, keyword names, every constraint, one or two tables. 1,069,518 states | `RevocationInv`, `RevokedSignersRefused`; `IncidentsCoverRoots`, `ClearingIsExact`; `CallsAreAtomic`; `ShownIsDurable`; `InitIsConsistent`; `EventsOnceInOrder`; `SortIsExact`; `RoundTrips` |
| `node` | *trust*: 2 keys, clock to 4, expiries to 3, lag 1, 1 restart. *scheduler*: 3 classes with deltas of 5, 4 and 1 on a link of 10, queues of 2, channel and retry queue of 1, 2 managers. *fragments*: 3 deltas of 4 to 6 bytes for 2 slots, one of them fragmented three times, twice into equally many pieces, one also into too many, whole and through a relay, 7 messages. *ble*: 1 and 2 chunks. *peers*: 2 peers, one unresolvable, a backoff of 2, 1 waiting attempt, delays and exchanges of up to 1. *migration*: as above with 1 write. *sandbox*: 1 run, 2 rows, fuel 2. 218,969 states | `ExpiryIsHonest`, `VerifiedLapses`; `EpochIsFair`, `FloorServed`; `OnlyWholeDeltas`, `AssemblyIsKept`; `NoAttemptInBackoff`; `TimersFire`; `MigrationsEnd`; `InterruptIsNotForgiven`, `NothingEscapes` |

`TypesOK` is the machines' type invariant in the last three. For the schema language it
says what a type alone would not: nothing of one table or document is left over for the
next, and the map has one schema per hash.

Runs that end in a violation of what a comment or document says (section 5):
`quarantine_ack`, `concurrent_writes`, `revocation_race`, `trust_revived`,
`crdt_reverted`, `migration_mirror`, `sdk_revoked`.

**Why the bounds are enough.**

* *Durability*. Three deltas and two writers give every overlap of two writes with a
  third delta already queued, sent, compacted or refused; with a queue of two the
  third write meets the cap. Two peers with K = 2 is the smallest mesh where one
  repeated receipt could be taken for a quorum; four peers split 3:1 the smallest
  where the 0.7 share fails at the K-th receipt and is repaired by a later one. Four
  queue entries allow diamonds, chains and a cycle with an entry behind it.
* *Revocation*. Two managers and M = 2 separate one signature from a quorum and allow
  their orders; the restart lets a device accumulate twice.
* *Crdt*. Two devices, two rows, three writes: a concurrent pair and a third write
  that saw one of them, on the same row or another; a gap in the DAG; numbers reused
  after a restart.
* *Gate*. The path adds a field, adds a table while retyping a field, and drops both:
  identical, additive, breaking and mixed differences in both directions. Three
  deltas overflow a log of two.
* *Migration*. Two jobs race for one step or follow each other; two writes fall before,
  into and after a window; repeated and distinct manager signatures.
* *Contamination*. Three deltas give chains, forks and joins, and a late descendant of
  a root; four incidents hold two roots and their composite. There is one row, so rows
  that share a key are covered by the proofs only.
* *Stores*. Three calls on two keys let both connections overlap and a third call see
  the outcome; one crash or two reloads separate durable from shown state.
* *Transport*. Half the link, twice a floor and exactly a floor are the sizes at which
  the quanta decide differently. Three deltas for two slots make the choice between the
  fullest and the emptiest assembly; with three fragments as the cap, one delta is at it
  and one beyond; 2 + 2 pieces of one delta at different boundaries mix. A backoff of 2
  with delays and exchanges of 1 separates an attempt that read the clock before a
  failure, one after it, and a failure that is as old as the backoff when it is known.
* *Channels* of one are full after one message, so each task meets every full
  channel. *Trust*'s clock passes every expiry. *Sandbox* runs can end before, within
  and after the timeout and the revocation.

Deadlock is not checked: all models stop when their bounds are used up; where a
standstill would be a fault (`ChannelsDeliver`, `MigrationsEnd`, `TimersFire`) a
liveness property says so. Symmetry is used only in `durability_core`, which has no
liveness property.

**Fairness.** It is stated with the specifications, per machine.

* *live*: weak fairness of each remaining section of a write (a call runs to its end)
  and of a sync cycle in which no transient fault occurs; the ticker never stops. An
  entry that *cannot* be resolved (`Stranded`) stays deferred also in such a cycle, so
  the property is not assumed.
* *tasks*: tokio polls every ready task, and a drain that began ends. Nothing forces
  the network to deliver, the application to write or an epoch to forward.
* *spread*: handlers end, peers keep being discovered, and (strong) a complete delta
  sent again and again arrives; a mesh that loses every copy for ever is excluded.
* *trust*: time passes, the monitor's ticker goes on.
* *transport*: the ticker runs the loop when its interval elapsed, the swarm task
  publishes from its channel, time passes. The loop is spawned only when
  `transport.start` succeeded (`api/mod.rs:1192-1198`): `TimersFire` and `FloorServed` are
  about a node whose transport runs.
* *migration*, *sandbox*: each step of a spawned job or blocking thread, and the timeout
  thread, is eventually scheduled. A transform that loops gets no help: only the
  timeout ends it.
* `sdk_revoked`: the application goes on calling, and a call the core accepts over and
  over does not throw every time.

## 4. Proofs

All of the following hold for every value of the constants (any sets of deltas,
writers, devices, keys, any K and M).

* `DurabilityProofs`. Inductive invariant `DurabilityInv`: `TypeOK`, `WriteInv` (a
  running write owns its delta exclusively, and it is in the DAG), `TrackInv` (queue
  and ledger are disjoint parts of the state table, which is part of the DAG),
  `QuorumInv` (counted issuers hold the delta; `tier1_achieved`, the counted receipts
  and the tier agree), `OrderInv` (the DAG is founded, queue positions are distinct),
  `PendingStillQueued` and `Tier2InLedger`. `PendingStillQueued`
  alone is not inductive: a late `Register` could reset a delta that was acknowledged,
  which exclusive ownership rules out. `Tier1Evidence` needs `QuorumInv` and
  monotonicity of cardinality for finite sets. Theorems: `TypeCorrect`,
  `DurabilityInvariant`, `Tier1HasEvidence`, `PendingIsQueued`, `Tier2IsInLedger`,
  `NoQuorumMissed`, `QueuedIsRefetchable`, the action property `TierMonotone`, and the
  refinement `DurabilityRefinesContract`: `Init` maps to the contract's `Init`, and a
  case per action maps it to one contract step or a stutter. The promotion needs
  `QuorumInv` (the counted issuers are holders), the cycle needs `TrackInv` (an
  acknowledged delta is not acknowledged again). `TagsStayAttested`: every tag that
  counts while the anchor is attested is the site of a beacon; no step enters that mode
  but a restart, which clears the trackers. `CyclesStayCausal`: a batch is the part of the
  sorted queue that was acknowledged; in a founded DAG no entry is left to the cycle's
  tail, so the sort puts parents first, and keeping places of a sequence keeps their order.
* `RevocationProofs`. Inductive invariant `RevocationInv`: `TypeOK`, `StoreSound`
  (accumulated signatures are real, at most M, and M exactly when the target is
  revoked), `NetSound`, `GateKnown`, `JobsSound` (a handler under way has the evidence
  for its next step), `OnlyCondemnedTagged`, `GateFollows`. Theorems: `TypeCorrect`,
  `RevocationInvariant`, `NeverBelowThreshold`, `CompleteAnnouncements`,
  `TagsAreJustified`, `MergeGateFollows`, and the action property
  `RevokedNeverCounted`.
* `ReplicaProofs`. *Gate*: `GateInv` bounds the log and ties every known schema to the
  deployment or to a verified delta, whether its merge succeeded or not
  (`OnlyVouchedEnters`). *Schemas*: `DiffIsInclusion` is a fact about the
  diff alone: whatever two schemas declare, and however often, it is breaking exactly
  when structure is missing and additive exactly when structure is only added; on
  version paths this is `ClassificationStaysInclusion`. *Documents and DAG*: `CrdtInv` is
  `IdsInv` (a delta is known by the number of its `write()`, and what a DAG or a delta
  names exists), `ClockInv` (a replica that kept its clock has it beyond every delta of
  its DAG), `NumberInv` (every operation is in its writer's document, whose own
  operations are numbered without gaps) and `Founded` (parents precede children).
  `NumbersAreCausal` is not inductive: that a change number is unique needs the whole
  of `NumberInv`, since a merge brings operations back to their writer. `DocInv`, on top
  of it, says that a document is what the deltas of its DAG carry plus what a write in
  progress put; it holds until a verification override or a restart, and gives
  `SameDeltasKeepSameDoc`. `TipsKeepCovering` says that the tips `dag_tips` returns have
  the whole of a gapless DAG in their past; it goes through `topological_sort`'s
  generations (in a founded set none is left out) and the growth of ancestor sets.
  *Types*: `ValueInv` says that each actor's operations in a document are a gapless prefix
  of what it wrote, so that merging two documents keeps, per actor, the longer one, and
  that a row with an operation has a winner; `CrdtTypes` follows, and with the types of
  revocation and pipeline `ReplicaTypes`. The pipeline's results are restated for the
  composition as `CommitsStaySound` and `CapturedWritesStay`.
* `MigrationProofs`. `CoreInv` (the registry of migrations in progress names every
  transform under way, at most one job is in flight, its target is on the version path)
  gives `PipelineCommits`. `SettleInv` (a PENDING write is in the window of the current
  schema or of a schema a job has left and is about to replay) gives
  `PipelineCaptures`; both give `PipelineTypes`.
* `StorageProofs`. `SqliteInv` says of each statement of each call what it has behind it:
  whose transaction is open on which connection, that the row or node of the call is
  there, that a call that was refused a row never has one, and that two running calls hold
  different mutexes. Theorems:
  `SqliteInvariant`, `CallsStayAtomic`, `SqliteTypes`. `IdbInv` ties the suspended write
  to the newest number and to the database: `ShownStaysDurable`, `IdbTypes`. The types of
  all device machines together are `DeviceTypes`.
* `DeviceProofs`. `StartInv` follows `init` step by step: `IdentityInv` (every handle
  speaks for the identity file; a torn file is never read), `SchemaInv`, `TaskInv`,
  `KeyInv`. Theorems: `InitStaysConsistent`, `StartTypes`. `SdkInv`: the queue holds the latest
  events, consecutively, and everything before them was dispatched in order or lies
  behind one whose listener threw: `EventsStayInOrder`, `SdkTypes`.
  *Contamination*: `CceInv` is `CceTyped` (incidents are over deltas that exist, with one
  root unless they are composite; the index points at incidents), `TagsInv` (natively
  only stored deltas carry tags), `Covered` (every root of every incident, superseded
  ones included, is open, resolved or closed) and `ClearedWhenResolved`. Covering all
  incidents, not only the open ones, is what survives taking a composite apart: the
  fresh incidents are in some order of the surviving roots, a bijection, so each of them
  is open again. `CceInvariant`, `CceTypes`, and with what a verification does to tags and
  index, `IncidentsKeepRoots` and `ClearingStaysExact`.
  *Cloud order*: `SortStaysExact` is about the sort alone, for any parent relation. The
  in-degrees count the parents not yet sorted, so each generation is exactly the entries
  whose parents are all sorted; when none is ready, every entry left has a parent left,
  which is the greatest such set: the entries at or below a cycle. Each pass takes an
  entry out, so as many passes as entries are enough.
  *Schema language*: `LanguageTypes`, and `SchemasComeBack`: the document is at every step
  what was printed of the part still to be read. Rule by rule (literal, column list,
  constraint, field, directive, table, head) a lemma says that the parser reads what the
  printer wrote for it in exactly one way and leaves what follows untouched; the one rule
  that looks beyond its own tokens is a field, whose optional modifiers may come from the
  next line, so its lemma needs that what follows does not continue it (`Continues`), and
  the lemmas above it show that of every table in which no field called NOTNULL stands
  behind an open one. `Parts` gives `FlattenSeq` its prefixes, and `LeftBehind` is what
  remains behind the first k parts.
* `NodeProofs`. *Trust*: `TrustInv` is `TypeOK` with `LapseIsWarned`: that a timestamp is a
  time and never the marker makes the warning inductive. One lemma says what a step may
  do to level and timestamp; `ExpiryStaysHonest` combines the invariant with it.
  Theorems: `TrustInvariant`, `ExpiryStaysHonest`. *Sandbox*: `RunInv` (a run can be found only once its deadline is set) and
  `EpochInv` (the epoch counts the interrupt and the timeout, each once): without both,
  an increment before `set_epoch_deadline` would be forgotten. That a run is in the
  registry from before it may write until it ends gives `NothingGetsAway`. Theorems:
  `SandboxInvariant`, `InterruptsStick`, `NothingGetsAway`. *Peers*: `BackoffInv`, the
  record of a last failure survives, with its age, every pruning while the backoff lasts,
  whichever attempt prunes and however old its clock reading is: `BackoffIsKept`. *Fragments and BLE*: `FragInv`, every slot holds a piece of an arrived
  fragment of the slots' total; pieces that continue each other are of one MTU, by
  induction along the slots, so the delta's bytes mean that one fragmentation arrived, and
  other bytes that two with equal totals did (`OnlyWholeDeltasEnter`); `KeptInv`, what was
  gathered of an unmixed fragmentation is in its slots unless delivered or evicted
  (`AssemblyStaysKept`). *Scheduler*: `SchedInv` and lemmas on the DRR passes (a pass
  drains a prefix within its quanta, the quanta fit in the link, an unspent floor is
  spent before the spare) give `EpochsAreFair`. *Types*: `SchedulerTypes`, `FragmentTypes`
  (the buffer evicts before it adds) and `PeerTablesTypes` (so does the credential cache)
  are where the caps of the transport hold; with trust, pipeline and sandbox they make
  `NodeTypes`.

Assumptions. The named `ASSUME`s of the modules: K and M positive, Peers and Devices
finite, tags and times distinct from the markers, managers, targets and authors are
devices, configured keys are keys. TLC evaluates them in the runs. Hypotheses of single
theorems, which the instances of the runs satisfy too: bounds of the model are naturals
(`MaxWrites`, `MaxCalls`, `MaxStarts`, `MaxInits`, `MaxEvents`, `MaxRecords`; the length
of a row's key order); a version path has a first version; `BackoffTypes`, the backoff, the
delays and the exchanges are durations; `FragTypes` and `SchedTypes`, which give sizes,
MTUs, capacities and priorities their types; for `AssemblyStaysKept` only, `FragFit`: no
delta is empty, and there are finitely many;
`NoneIsNoCall`, the marker `None` is no record, and for `IncidentsKeepRoots` no incident
number. The type theorems add: `MaxEntries` and the transport's caps are naturals and the
credential cache holds at least one entry; `CrdtBounds`, in which `RowKey` is no key of
the application and actor ids are ordered; deployments are sequences of definitions; for
`SchemasComeBack` the texts include the language's keywords.

Induction. The library's induction theorems take an operator as parameter, which the
backends cannot instantiate. What is needed here is stated of sets instead: a set of
naturals with 0 that is closed under successor is `Nat` (`SetInduction`, from the
well-foundedness of `<`). That is enough for the recursive functions the proofs meet
(`topological_sort`, `topological_sort_queue`, `Ancestors`, the rows a diff overrides, the
DRR passes, the bytes of a sequence, `FlattenSeq`): each gets a lemma that its `CHOOSE`
exists. The SMT backend cannot read a brace inside a string, so the proofs about the
schema language name the two braces (`Opening`, `Closing`) and leave them to Zenon.

Only model-checked:

* The liveness properties `WritesReachTier2`, `ChannelsDeliver`, `Spreads`,
  `VerifiedLapses`, `FloorServed`, `TimersFire`, `MigrationsEnd`: fairness and ENABLED
  are outside TLAPS's reach.
* `RoundTrips` as a whole. `SchemasComeBack` is its positive half, for all schemas whose
  constraints have a form of their own; definitions with a standalone NOT NULL, which come
  back without it, and the negative half, that what the language cannot express is absent,
  are checked only. The negative half is about the names the checked deployments use: a
  field called NOTNULL may by its neighbours' names still make some other document.

## 5. Disagreements between code and documentation

Shown by a run (details and quotations in `PROJECT.json`):

* `quarantine_ack`: the ledger acknowledges a delta under a schema it does not
  know and keeps only its id; the comment says it stores the bytes.
* `concurrent_writes`: the causal order is per cycle, not per ledger.
* `revocation_race`: deltas of the target merged between the DAG query and
  the closing of the merge gate are not tagged.
* `trust_revived`: `present_token` lacks the REVOKED check of `verify_token`.
* `crdt_reverted`: the "provably exact" override gives a row the delta did not write
  an older value back.
* `migration_mirror`: two jobs mirror their schemas into the CRDT engine in the other
  order than they committed in.
* `sdk_revoked`: a revoked device's calls throw before the event queue is drained, so
  the SDK never shows the revocation.

Met while modelling, visible in the models, not kept as runs:

*Durability, revocation, trust*
* The queue is in memory and not rebuilt by `CoreHandle::init`: after `Restart` a
  delta whose write returned Ok is neither queued nor in the ledger (README.md:67
  promises the flush of outstanding deltas).
* `write()` drops an entry's bytes without asking `compaction_permitted`
  (`durability/mod.rs:446` requires Tier-1).
* A registered beacon that was never seen counts as lost at the first monitor tick.
* Revocations are forgotten at a restart; `Spreads` fails when two managers revoke each
  other: each refuses the other's complete delta for ever.
* The expiry monitor demotes a device verified through `register_root_ca_key` at once,
  because no expiry was recorded. A device that was never verified is UNVERIFIED
  without a warning.

*Rows*
* `crdt/mod.rs:727-729` ("rejected or malformed Deltas must never mutate engine state")
  holds for the refusals in front of it; a merge that ends in `DeltaMalformed`, or a DAG
  insert that fails, leaves the additive schema adopted (and, in the second case, the
  document merged), with neither a rejection record nor a quarantine entry.
* After a restart the document and the Lamport clock are empty, so change numbers are
  reused; the store is written before the document; `topological_sort` counts edges
  from absent parents; the document key ignores the table; `compact_table` marks all
  nodes.

*Migration*
* A failed replay leaves entries PENDING "for a later retry" (`migration/mod.rs:851`)
  that does not exist; writes stamped after the window are not captured; an aborted
  transform leaves the rows it wrote; the registry is in memory only; an interrupt that
  finds no run is logged as one at its completion (`api/mod.rs:3058-3062`), although the
  run may not have started yet, in which case it writes all its rows before its commit is
  refused; a MigrationDelta
  before `register_migration_ca_key` blacklists its honest sender; the version-path gate
  precedes the in-progress gate.

*Contamination*
* The rows of an open incident can be cleared through another root; composites are not
  found where single incidents are; a bad-migration root can never be resolved; the
  browser build never fills the engine's DAG and never prunes; repeated `VERIFY_DATA`
  re-creates incidents; incidents are lost at a restart while tags stay; a composite
  drops a row whose key a row of another table has (`contamination/incident.rs:146-152`).

*Stores, startup*
* `receive_inbound` drops or only logs the errors of `store.write`
  (`api/mod.rs:2608-2704`), issues its durability receipt and returns Ok: the delta is in
  the DAG and the document, and its row may be missing for good.
* A COMMIT that fails in `crdt/dag.rs` leaves the connection in its transaction. A
  fresh IndexedDB database never opens where the scan of an empty store is an error
  (`store/indexed_db.rs`, `wasm_tests.rs:60-77`); mutex guards live across awaits; a
  quarantined delta put again loses its migration id. A torn identity file makes
  every later init fail; the browser has a new DID after each reload; startup
  diagnostics are sent before anyone can subscribe.

*Transport*
* Deficits never carry over, since `tick_saturate` reconciles in each epoch; a refused
  epoch re-enqueues only the refused delta; renewal has no window check
  (`transport/saturate.rs:159`); the BLE task removes the pending chunks with every
  chunk, so a payload of several chunks is never reassembled; connected peers are
  evicted after `peer_timeout`; `register_session` skips the checks of `initiate`;
  a message larger than its class's quantum waits for spare capacity; a full retry queue
  refuses and its caller goes on; an error in
  `process_inbound_messages` ends the drain and loses the message.
* Two fragmentations of a delta into equally many pieces mix in its slots, and what they
  make only has to parse (`transport/fragment.rs:59-115`, `mod.rs:1120`). A sender does not
  refuse a delta with more than `MAX_FRAGMENTS_PER_DELTA` fragments, which no receiver takes.
  The "oldest" entry a full buffer evicts is the one with the fewest fragments, and late
  duplicates of a delivered delta occupy a slot again.
* A handshake's failure is recorded under the time its attempt began
  (`session.rs:525`, `537`), so one that fails after the backoff leaves none, and the errors
  of `session.rs:461`, `463` and `475` record nothing ("On any failure: records the
  backoff", `session.rs:436`).

*Schema language, SDK*
* `schema/printer.rs:5` ("parse(print(schema)) == schema") fails for
  `Constraint::NotNull`, empty column lists, names that are no identifiers, a field
  named like a keyword behind an open field definition, quotes and NaN;
  `build_schema_def_map` drops those definitions silently. `RoundTrips` states it for
  what the language can express.
* `TirBase.init` never calls `core_init`; another device's revocation can show as the
  own one; a late token reply overrides a polled REVOKED; two `TirBase` objects share
  one event queue. A listener that throws loses the rest of the drained events and rejects
  a write that was stored; a second `core_init` drops the handle suspended calls still
  point to (`lib.rs:190-201`).

## 6. Not modelled, and what is left

* Nesting of `CoreHandle`'s mutexes (deadlock by lock order): every model treats a
  critical section as one step. It needs a module with one variable per mutex.
* Field validation, read queries and query building; result conversion in the SDK;
  `write_with_automerge`, which only tests call; that below an MTU of 256 the scheduler
  sends several payloads per delta (`MeshScheduler` has one).
* Cryptography (signatures, Noise, Biscuit datalog, key and DID encoding): abstracted to
  who signed what and to success or failure. Lexing, serialisation: to tokens and sizes.
* Re-registration of beacons, the end of the 24 h announcement window, token minting.
* The browser's variants of the durability and revocation handlers: the same operations
  on one thread.
* API types, the crash-test binary, diagnostics beyond startup.

Worth proving next: the round trip of definitions with standalone NOT NULL constraints.
What is left beside it are the liveness properties, which stay with TLC.
