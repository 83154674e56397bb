---------------------------- MODULE NodeMachines ----------------------------
(***************************************************************************)
(* What a running node does by the clock, in seven machines of which each  *)
(* behaviour runs one (`machine`): the device's trust level, the four of   *)
(* the mesh transport (DRR scheduler, fragments, BLE bridge, peers), which *)
(* share no state but the epoch ticker, the migration pipeline, and the    *)
(* sandbox its transforms run in.                                          *)
(***************************************************************************)
EXTENDS Trust, Sequences

CONSTANTS
    SchedDeltas, priority, serialized_len, LinkCapacity, ChannelCapacity,  \* MeshScheduler
    MaxRetryQueue, RetryInterval, LeaseDuration, Managers,
    TerminationThreshold, MaxGrants, MaxQueue,
    FragDeltas, size, Sends, Relayed, Local, MtuLimit, MaxSlots,           \* Fragments
    MaxFragmentsPerDelta, MaxMessages,
    BleDeltas, bleSize, BleMaxPayload,                                     \* BleBridge
    Peers, Resolvable, MaxHopCount, PeerTimeout, CacheSize,                \* MeshPeers
    CredentialValidity, RetryBackoff, RotationInterval, MaxDelay, MaxWaiting, MaxExchange,
    Migrations, delta, SigLists, PathLength, CaKey, Threshold, MaxJobs,    \* Migration
    MaxWrites, MaxWindow, MigMaxRestarts,
    Runs, Rows, Fuel                                                       \* WasmSandbox

VARIABLES machine,
          elapsed, queue, deficit, saturate_mode, lease, retries, channel, grants, drained,
          network, pending, inbound, garbled, arrived, gathered, bleLink, bleSent, bleInbound, bleArrived,
          peers, handshakes, credentials, failures, sessions, sinceFailure,
          ca_public_key, local_schema, crdt_schema, known, revoked, in_progress, blacklisted,
          windows, jobs, runs, writes, sidecar, replayFailed, jobRestarts,
          transform, phase, epoch, deadline, executions, timer, revoker, interrupted,
          missed, late, written, result, handle, kept

schedulerVars == <<queue, deficit, saturate_mode, lease, retries, channel, grants, drained>>
fragmentVars == <<network, pending, inbound, garbled, arrived, gathered>>
bleVars == <<bleLink, bleSent, bleInbound, bleArrived>>
peerVars == <<peers, handshakes, credentials, failures, sessions, sinceFailure>>
transportVars == <<elapsed, schedulerVars, fragmentVars, bleVars, peerVars>>
migrationVars == <<ca_public_key, local_schema, crdt_schema, known, revoked, in_progress, blacklisted,
                   windows, jobs, runs, writes, sidecar, replayFailed, jobRestarts>>
sandboxVars == <<transform, phase, epoch, deadline, executions, timer, revoker, interrupted,
                 missed, late, written, result, handle, kept>>
allVars == <<machine, vars, transportVars, migrationVars, sandboxVars>>

Sched == INSTANCE MeshScheduler WITH Deltas <- SchedDeltas
Frag  == INSTANCE Fragments WITH Deltas <- FragDeltas
Ble   == INSTANCE BleBridge WITH Deltas <- BleDeltas, size <- bleSize
Peer  == INSTANCE MeshPeers

Pipeline == INSTANCE Migration WITH MaxRestarts <- MigMaxRestarts, restarts <- jobRestarts

Sandbox == INSTANCE WasmSandbox WITH registry <- executions

Mesh == {"scheduler", "fragments", "ble", "peers"}

\* The machines that do not run have one initial state.
NodeInit ==
    /\ machine \in {"trust", "migration", "sandbox"} \cup Mesh
    /\ Init /\ Sched!Init /\ Frag!Init /\ Ble!Init /\ Peer!Init /\ Pipeline!Init /\ Sandbox!Init
    /\ machine = "sandbox" \/ transform = [r \in Runs |-> "invalid"]

TrustStep     == machine = "trust" /\ Next /\ UNCHANGED <<machine, transportVars, migrationVars, sandboxVars>>
SchedulerStep ==
    machine = "scheduler" /\ Sched!Next /\ UNCHANGED <<machine, vars, fragmentVars, bleVars, peerVars, migrationVars, sandboxVars>>
FragmentStep ==
    machine = "fragments" /\ Frag!Next /\ UNCHANGED <<machine, vars, elapsed, schedulerVars, bleVars, peerVars, migrationVars, sandboxVars>>
BleStep ==
    machine = "ble" /\ Ble!Next /\ UNCHANGED <<machine, vars, elapsed, schedulerVars, fragmentVars, peerVars, migrationVars, sandboxVars>>
PeerStep ==
    machine = "peers" /\ Peer!Next /\ UNCHANGED <<machine, vars, schedulerVars, fragmentVars, bleVars, migrationVars, sandboxVars>>
MigrationStep == machine = "migration" /\ Pipeline!Next /\ UNCHANGED <<machine, vars, transportVars, sandboxVars>>
SandboxStep   == machine = "sandbox" /\ Sandbox!Next /\ UNCHANGED <<machine, vars, transportVars, migrationVars>>

NodeNext == TrustStep \/ SchedulerStep \/ FragmentStep \/ BleStep \/ PeerStep \/ MigrationStep \/ SandboxStep

\* Time passes, and the monitor's ticker never stops.
TrustFairness ==
    WF_vars(machine = "trust" /\ ClockTick) /\ WF_vars(machine = "trust" /\ MonitorTick(now))

\* The interval of the ticker elapses again and again, and each time the loop
\* runs, which nothing prevents for ever: the clock waits for the handshake
\* tasks that are due, at most.  The swarm task publishes what is in the channel.
TransportFairness ==
    /\ WF_elapsed(machine \in {"scheduler", "peers"} /\ ~elapsed /\ elapsed' = TRUE)
    /\ WF_elapsed(elapsed /\ elapsed' = FALSE)
    /\ WF_channel(channel > 0 /\ channel' = channel - 1)

\* A job is a spawned task: each of its steps is taken once it can be; the
\* sandbox ends by itself, by the epoch deadline at the latest.
MigrationFairness ==
    \A j \in 1..MaxJobs : WF_migrationVars(machine = "migration" /\ j <= Len(jobs) /\ Pipeline!JobStep(j))

\* The blocking thread of a run and its timeout thread are scheduled.
SandboxFairness ==
    \A r \in Runs :
        /\ WF_sandboxVars(machine = "sandbox" /\ Sandbox!execute_native(r))
        /\ WF_sandboxVars(machine = "sandbox" /\ Sandbox!TimeoutThread(r))

NodeSpec ==
    /\ NodeInit /\ [][NodeNext]_allVars
    /\ TrustFairness /\ TransportFairness /\ MigrationFairness /\ SandboxFairness

-----------------------------------------------------------------------------
\* The type invariants of the machines.
TypesOK ==
    CASE machine = "trust"         -> TypeOK
      [] machine \in Mesh          -> Sched!TypeOK /\ Frag!TypeOK /\ Peer!TypeOK
      [] machine = "migration"     -> Pipeline!TypeOK
      [] machine = "sandbox"       -> Sandbox!TypeOK

\* No DRR epoch drains more bytes than the link carries in it, the scheduler's
\* flag follows the lease through every lifecycle event, and the first epoch
\* after a lease ran out already serves the floors (scheduler.rs tick, mod.rs
\* tick_saturate).
EpochIsFair == Sched!EpochIsFair

\* Req 12: a class whose deltas fit its floor is served, whatever traffic and
\* leases the others see (scheduler.rs tick).
FloorServed == Sched!FloorServed

\* Req 5.4, 5.8: only a delta of which one fragmentation, or every BLE chunk,
\* arrived enters the inbound pipeline, and bytes of no delta only where two
\* fragmentations of one have equally many pieces (fragment.rs reassemble,
\* mod.rs process_wire_message and BLE task).
OnlyWholeDeltas == Frag!OnlyWholeDeltas /\ Ble!BleDeliversWhole

\* A delta all of whose fragments arrived, with no eviction in between, is
\* delivered in spite of order and duplicates, unless it was mixed or has too
\* many, and the assembly that is evicted is the least complete one of a full
\* buffer (fragment.rs add_fragment).
AssemblyIsKept == Frag!AssemblyIsKept

\* Req 6.6: no handshake starts within the backoff of the peer's last recorded
\* failure, counted from that attempt's clock reading (session.rs initiate,
\* record_failure, in_backoff, api/mod.rs initiate_noise_session).
NoAttemptInBackoff == Peer!NoAttemptInBackoff

\* Req 5.6, 6.4, 13.5: what only the ticker brings about comes about: a lease
\* that is not renewed ends, the keys of a handshaken session are rotated, a
\* silent peer leaves the table (saturate.rs tick, mod.rs tick_key_rotation,
\* discovery.rs tick_timeouts).
TimersFire == Sched!LeaseEnds /\ Peer!LiveSessionsRotate /\ Peer!SilentPeersLeave

\* Req 18.4: every received migration is dealt with, and every run of the
\* sandbox that began ends, even if its transform loops for ever
\* (dispatch_inbound_migration and its job, execute_native).
MigrationsEnd == Pipeline!JobsEnd /\ Sandbox!RunsEnd

\* Req 18.6: a revocation that found a run stops it at the guest's next epoch
\* check (wasm_sandbox.rs interrupt).
InterruptIsNotForgiven == Sandbox!InterruptIsNotForgiven

\* Req 18.6: an interrupt that finds no run met one that could not write yet or
\* was over, and the browser build gives the caller's handle back with all its
\* rows (wasm_sandbox.rs interrupt, execute_migration_wasm).
NothingEscapes == Sandbox!NothingEscapes
=============================================================================
