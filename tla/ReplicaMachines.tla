-------------------------- MODULE ReplicaMachines ---------------------------
(***************************************************************************)
(* What a replica takes in, in four machines of which each behaviour runs  *)
(* one (`machine`): a revocation among managers, devices that write and    *)
(* merge rows, the schema gate in front of the merge, and the migration    *)
(* pipeline with its side-car.                                             *)
(***************************************************************************)
EXTENDS Revocation, Sequences

CONSTANTS
    Replicas, Keys, RegOrder, MaxWrites, MaxLamport, CrdtMaxRestarts,     \* Crdt
    Path, Foreign, Authors, Signatures, MaxRecords, MaxReceived,          \* MergeGate
    Migrations, delta, SigLists, PathLength, CaKey, Threshold, MaxJobs,   \* Migration
    MaxLocalWrites, MaxWindow, MigMaxRestarts,
    None

VARIABLES machine,
          doc, lamport, crdtDag, projection, writeCall, merged, deltas, writes, overridden, crdtRestarts,
          current, known_schemas, schema_definitions, revoked_dids, rejection_records,
          rejections, ledger, vouched, takenIn, received,
          ca_public_key, local_schema, crdt_schema, known, migRevoked, in_progress, blacklisted,
          windows, jobs, runs, localWrites, sidecar, replayFailed, migRestarts

crdtVars == <<doc, lamport, crdtDag, projection, writeCall, merged, deltas, writes, overridden, crdtRestarts>>
gateVars == <<current, known_schemas, schema_definitions, revoked_dids, rejection_records,
              rejections, ledger, vouched, takenIn, received>>
migrationVars == <<ca_public_key, local_schema, crdt_schema, known, migRevoked, in_progress, blacklisted,
                   windows, jobs, runs, localWrites, sidecar, replayFailed, migRestarts>>
allVars == <<machine, vars, crdtVars, gateVars, migrationVars>>

Replica == INSTANCE Crdt WITH
    Devices <- Replicas, MaxRestarts <- CrdtMaxRestarts,
    dag <- crdtDag, store <- projection, writing <- writeCall, restarts <- crdtRestarts

Gate == INSTANCE MergeGate

Pipeline == INSTANCE Migration WITH
    MaxWrites <- MaxLocalWrites, MaxRestarts <- MigMaxRestarts,
    revoked <- migRevoked, writes <- localWrites, restarts <- migRestarts

ReplicaInit ==
    /\ machine \in {"revocation", "crdt", "gate", "migration"}
    /\ Init /\ Replica!Init /\ Gate!Init /\ Pipeline!Init
    /\ machine = "gate" \/ schema_definitions = {}

RevocationStep == machine = "revocation" /\ Next /\ UNCHANGED <<machine, crdtVars, gateVars, migrationVars>>
CrdtStep       == machine = "crdt" /\ Replica!Next /\ UNCHANGED <<machine, vars, gateVars, migrationVars>>
GateStep       == machine = "gate" /\ Gate!Next /\ UNCHANGED <<machine, vars, crdtVars, migrationVars>>
MigrationStep  == machine = "migration" /\ Pipeline!Next /\ UNCHANGED <<machine, vars, crdtVars, gateVars>>

ReplicaNext == RevocationStep \/ CrdtStep \/ GateStep \/ MigrationStep

ReplicaSpec == ReplicaInit /\ [][ReplicaNext]_allVars

-----------------------------------------------------------------------------
\* The type invariants of the machines.
TypesOK ==
    CASE machine = "revocation" -> TypeOK
      [] machine = "crdt"       -> Replica!TypeOK
      [] machine = "migration"  -> Pipeline!TypeOK
      [] OTHER                  -> TRUE

\* Devices that did not lose their memory number consistently: a delta's clock
\* exceeds those of its causal parents, and no change number is given twice
\* (CrdtEngine produce_delta, apply).
NumbersAreCausal == machine = "crdt" => Replica!NumbersAreCausal

\* Devices that inserted the same deltas in any order hold the same document,
\* unless the read-back verification rewrote one or a device lost its document
\* (CrdtEngine::apply).
SameDeltasSameDoc == machine = "crdt" => Replica!SameDeltasSameDoc

\* A delta produced over a DAG without gaps has that whole DAG as its past
\* (dag_tips, resolve_causal_parents).
TipsCoverDag == Replica!TipsCoverDag

\* Req 17.3, 17.4: additive means that the incoming schema keeps all the
\* device's own structure and has more; breaking that it lacks some of it.
ClassificationIsInclusion == machine = "gate" => Gate!ClassificationIsInclusion

\* A schema in known_schemas was deployed here or came with a verified delta of
\* an unrevoked author and keeps the structure of the version the device ran
\* then; what was merged is verified and stays known; the latest rejection
\* records are kept (CrdtEngine::apply, record_rejection).
OnlyVouchedGetsIn == machine = "gate" => Gate!OnlyVouchedGetsIn

\* Req 18.6: a migration revoked at any moment before its commit does not
\* advance the schema, and transforms never overlap, not even a revoked one
\* that still runs (prepare_migration, finish_migration).
CommitsAreSound == Pipeline!CommitsAreSound

\* Req 19.3, 19.6: a captured write waits in an open window or is about to be
\* replayed, unless a replay failed or the device restarted, and is complete
\* only if no write of its migration was refused (replay_corrupted_windows,
\* SideCarLedger::replay).
CapturedWritesSettle == machine = "migration" => Pipeline!CapturedWritesSettle
=============================================================================
