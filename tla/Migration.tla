------------------------------ MODULE Migration -----------------------------
(***************************************************************************)
(* Over-the-mesh schema migration on one device: background jobs that      *)
(* validate a MigrationDelta under the engine lock, run its transform off  *)
(* the lock, commit under the lock again and mirror the new schema into    *)
(* the CRDT engine; revocations that arrive in between and interrupt the   *)
(* sandbox; the corruption window, the Side-Car capture of local writes    *)
(* and its replay; restarts (migration/, api/mod.rs).                      *)
(*                                                                         *)
(* Schemas are the positions of the version path.  A migration has the     *)
(* fields dst (target), src, sender, ca (the key its transform is signed   *)
(* with) and intact (the embedded SHA-256 matches).                        *)
(***************************************************************************)
EXTENDS Integers, Sequences, FiniteSets

CONSTANTS
    Migrations,  \* ids of the migrations in circulation
    delta,       \* their MigrationDeltas
    PathLength,  \* length of the version path
    CaKey,       \* the deployment's migration CA key
    SigLists,    \* signature lists of revocations: sequences of <<manager, valid>>
    Threshold,   \* revocation_threshold_m
    MaxJobs,     \* bound: MigrationDeltas received
    MaxWrites,   \* bound: local writes
    MaxWindow,   \* bound: migrations that opened one window, repeats included
    MaxRestarts, \* bound: process restarts
    None

VARIABLES
    ca_public_key,       \* registered CA key
    local_schema,        \* SchemaMigrationEngine.local_schema_hash
    crdt_schema,         \* CrdtEngine.known_schema_hash
    known, revoked, in_progress, \* RevokedMigrationRegistry
    blacklisted,         \* blacklisted_senders
    windows,             \* corrupted_schema_windows
    jobs,                \* background jobs, by arrival
    runs,                \* MigrationExecutionRegistry: runs that can be interrupted
    writes,              \* local writes, by call
    sidecar,             \* persisted Side-Car ledger
    replayFailed,        \* a replay gave up (history)
    restarts

engineVars == <<ca_public_key, local_schema, known, revoked, in_progress, blacklisted, windows>>
vars == <<engineVars, crdt_schema, jobs, runs, writes, sidecar, replayFailed, restarts>>

Schemas == 1..PathLength

InitEngine ==
    /\ ca_public_key = None
    /\ local_schema = 1 /\ crdt_schema = 1
    /\ known = {} /\ revoked = {} /\ in_progress = {}
    /\ blacklisted = {}
    /\ windows = [s \in Schemas |-> <<>>]
    /\ jobs = <<>> /\ runs = {}

Init ==
    /\ InitEngine
    /\ writes = <<>> /\ sidecar = {}
    /\ replayFailed = FALSE /\ restarts = 0

-----------------------------------------------------------------------------
\* SchemaVersionPath::is_valid_step from the device's own schema.  The print
\* and parse check behind it refuses no definition that build_schema_def_map
\* registered, since that is what it registered it by (SchemaLanguage).
verify_version_path(m) ==
    delta[m].src = local_schema /\ delta[m].dst = local_schema + 1 /\ delta[m].dst \in Schemas

register_ca_public_key ==
    /\ ca_public_key = None
    /\ ca_public_key' = CaKey
    /\ UNCHANGED <<local_schema, known, revoked, in_progress, blacklisted, windows,
                   crdt_schema, jobs, runs, writes, sidecar, replayFailed, restarts>>

\* A job in its first phase, or a finished one of which nothing is kept.
JobIn(phase, m) == [m |-> m, phase |-> phase, result |-> None, source |-> None, current |-> None, halt |-> FALSE]
Job(m)          == JobIn("prepare", m)

\* receive_inbound, InboundMigrationDelta: a job of its own per message.
dispatch_inbound_migration(m) ==
    /\ Len(jobs) < MaxJobs
    /\ jobs' = Append(jobs, Job(m))
    /\ UNCHANGED <<engineVars, crdt_schema, runs, writes, sidecar, replayFailed, restarts>>

Finished == JobIn("done", None)

Ends(j) == jobs' = [jobs EXCEPT ![j] = Finished]

\* The gates of prepare_migration, in order.  A migration that passed the CA
\* and hash gates is known even if a later gate refuses it; only the last
\* refusal makes the job try again.
Refused(m)        == delta[m].sender \in blacklisted \/ m \in revoked
Authentic(m)      == ca_public_key = delta[m].ca /\ delta[m].intact
NotApplicable(m)  == ~verify_version_path(m)
MustWait          == in_progress # {}

prepare_migration(j) ==
    LET m == jobs[j].m IN
    /\ jobs[j].phase = "prepare"
    /\ \/ /\ Refused(m)
          /\ Ends(j) /\ UNCHANGED <<known, blacklisted, in_progress>>
       \/ /\ ~Refused(m) /\ ~Authentic(m)
          /\ blacklisted' = blacklisted \cup {delta[m].sender}
          /\ Ends(j) /\ UNCHANGED <<known, in_progress>>
       \/ /\ ~Refused(m) /\ Authentic(m)
          /\ known' = known \cup {m}
          /\ IF NotApplicable(m) THEN Ends(j) /\ UNCHANGED in_progress
             ELSE IF MustWait    THEN UNCHANGED <<jobs, in_progress>>
             ELSE /\ in_progress' = in_progress \cup {m}
                  /\ jobs' = [jobs EXCEPT ![j].phase = "starting"]
          /\ UNCHANGED blacklisted
    /\ UNCHANGED <<ca_public_key, local_schema, revoked, windows, crdt_schema, runs,
                   writes, sidecar, replayFailed, restarts>>

-----------------------------------------------------------------------------
\* execute_native: a bad module never starts; otherwise the epoch deadline is
\* armed and only then the run can be found by a revocation.
StartRun(j) ==
    /\ jobs[j].phase = "starting"
    /\ \/ /\ jobs' = [jobs EXCEPT ![j].phase = "ran", ![j].result = "Failed"]
          /\ UNCHANGED runs
       \/ /\ jobs' = [jobs EXCEPT ![j].phase = "running"]
          /\ runs' = runs \cup {jobs[j].m}
    /\ UNCHANGED <<engineVars, crdt_schema, writes, sidecar, replayFailed, restarts>>

\* The transform returns, traps, or is stopped by the epoch: its own timeout
\* or a revocation's interrupt, which guest code can only outrun by returning.
EndRun(j, result) ==
    /\ jobs[j].phase = "running"
    /\ jobs' = [jobs EXCEPT ![j].phase = "ran", ![j].result = result]
    /\ runs' = runs \ {jobs[j].m}
    /\ UNCHANGED <<engineVars, crdt_schema, writes, sidecar, replayFailed, restarts>>

\* Mutant: no second look at the revocations.
finish_migration_unchecked(j) ==
    LET m == jobs[j].m IN
    /\ jobs[j].phase = "ran"
    /\ in_progress' = in_progress \ {m}
    /\ IF jobs[j].result = "Success"
       THEN /\ local_schema' = delta[m].dst
            /\ jobs' = [jobs EXCEPT ![j].phase = "committed", ![j].source = local_schema]
       ELSE Ends(j) /\ UNCHANGED local_schema
    /\ UNCHANGED <<ca_public_key, known, revoked, blacklisted, windows, crdt_schema, runs,
                   writes, sidecar, replayFailed, restarts>>

\* Mutant: a revoked migration keeps its in-progress mark.
finish_migration_kept(j) ==
    LET m == jobs[j].m IN
    /\ jobs[j].phase = "ran"
    /\ in_progress' = IF m \in revoked THEN in_progress ELSE in_progress \ {m}
    /\ IF m \notin revoked /\ jobs[j].result = "Success"
       THEN /\ local_schema' = delta[m].dst
            /\ jobs' = [jobs EXCEPT ![j].phase = "committed", ![j].source = local_schema]
       ELSE Ends(j) /\ UNCHANGED local_schema
    /\ UNCHANGED <<ca_public_key, known, revoked, blacklisted, windows, crdt_schema, runs,
                   writes, sidecar, replayFailed, restarts>>

\* The commit gate, under the engine lock again.
finish_migration(j) ==
    LET m == jobs[j].m IN
    /\ jobs[j].phase = "ran"
    /\ in_progress' = in_progress \ {m}
    /\ IF m \notin revoked /\ jobs[j].result = "Success"
       THEN /\ local_schema' = delta[m].dst
            /\ jobs' = [jobs EXCEPT ![j].phase = "committed", ![j].source = local_schema]
       ELSE Ends(j) /\ UNCHANGED local_schema
    /\ UNCHANGED <<ca_public_key, known, revoked, blacklisted, windows, crdt_schema, runs,
                   writes, sidecar, replayFailed, restarts>>

\* The job reads the engine's schema and gives the lock up, ...
ReadCurrent(j) ==
    /\ jobs[j].phase = "committed"
    /\ jobs' = [jobs EXCEPT ![j].phase = "mirror", ![j].current = local_schema]
    /\ UNCHANGED <<engineVars, crdt_schema, runs, writes, sidecar, replayFailed, restarts>>

\* The CRDT lock is held from the mirroring to the end of the replay.
CrdtLocked == \E j \in 1..Len(jobs) : jobs[j].phase = "replay"

\* ... sets it as the CRDT engine's, ...
set_current_schema(j) ==
    /\ jobs[j].phase = "mirror" /\ ~CrdtLocked
    /\ crdt_schema' = jobs[j].current
    /\ jobs' = [jobs EXCEPT ![j].phase = "replay"]
    /\ UNCHANGED <<engineVars, runs, writes, sidecar, replayFailed, restarts>>

Elems(s) == {s[i] : i \in 1..Len(s)}

\* SideCarLedger::update_entry_status.
update_entry_status(e, status) == [e EXCEPT !.status = status]

\* CrdtEngine::apply takes a captured write or refuses it.
Replayed(e, refused) == update_entry_status(e, IF e \in refused THEN "CONFLICT" ELSE "REPLAYED")

load_entries_ordered(mid) == {e \in sidecar : e.mig = mid}

mark_migration_complete(entries) == {update_entry_status(e, "COMPLETE") : e \in entries}

\* One migration's entries: a conflict stops nothing, and only a pass without
\* conflicts completes them.
replay_sidecar(mid, refused) ==
    LET entries == load_entries_ordered(mid) IN
    IF entries \cap refused = {} THEN mark_migration_complete(entries)
    ELSE {Replayed(e, refused) : e \in entries}

\* Entries of migrations not replayed, or whose replay failed half-way.
Untouched(ids, failed, part, refused) ==
    {IF e \in part /\ e.mig \in failed THEN Replayed(e, refused) ELSE e :
        e \in {x \in sidecar : x.mig \notin ids \ failed}}

ReplayWindow(j, source) ==
    LET ids  == Elems(windows[source])
        mine == {e \in sidecar : e.mig \in ids}
    IN  \E failed \in SUBSET ids, refused \in SUBSET mine, part \in SUBSET mine :
          /\ sidecar' = Untouched(ids, failed, part, refused)
                        \cup UNION {replay_sidecar(mid, refused) : mid \in ids \ failed}
          /\ replayFailed' = (replayFailed \/ \E e \in mine : e.mig \in failed)
          /\ windows' = [windows EXCEPT ![source] = <<>>]
          /\ Ends(j)
          /\ UNCHANGED <<ca_public_key, local_schema, known, revoked, in_progress, blacklisted,
                         crdt_schema, runs, writes, restarts>>

\* Mutant: the window of the corrected schema is replayed.
replay_corrupted_windows_new(j) == jobs[j].phase = "replay" /\ ReplayWindow(j, jobs[j].current)

\* ... and replays what was captured under the schema it left.  The window is
\* closed first; a failing ledger is logged and its entries are left behind.
replay_corrupted_windows(j) == jobs[j].phase = "replay" /\ ReplayWindow(j, jobs[j].source)

-----------------------------------------------------------------------------
\* Distinct managers with a valid signature over the migration id.
ValidManagers(sigs) == {s[1] : s \in {x \in Elems(sigs) : x[2]}}

\* The mark stays until the run has really ended.
InProgressAfterRevocation(m) == in_progress

\* RevokedMigrationRegistry and quorum gates of apply_revocation.
Revocable(m, sigs) == m \in known /\ Cardinality(ValidManagers(sigs)) >= Threshold

\* receive_revocation_delta: block for good, and open a corruption window if
\* the device is on the schema the migration produced.
receive_revocation_delta(m, sigs) ==
    /\ Revocable(m, sigs)
    /\ Len(windows[local_schema]) < MaxWindow
    /\ revoked' = revoked \cup {m}
    /\ in_progress' = InProgressAfterRevocation(m)
    /\ windows' = IF delta[m].dst = local_schema
                  THEN [windows EXCEPT ![local_schema] = Append(@, m)] ELSE windows
    /\ jobs' = [j \in 1..Len(jobs) |->
                  IF jobs[j].m = m /\ jobs[j].phase \in {"starting", "running", "ran"}
                  THEN [jobs[j] EXCEPT !.halt = TRUE] ELSE jobs[j]]
    /\ UNCHANGED <<ca_public_key, local_schema, known, blacklisted, crdt_schema, runs,
                   writes, sidecar, replayFailed, restarts>>

\* After the lock: interrupt the run if it can be found in the registry.
interrupt(j) ==
    /\ jobs[j].halt
    /\ jobs' = [jobs EXCEPT ![j].halt = FALSE,
                            ![j].phase = IF jobs[j].m \in runs /\ @ = "running" THEN "ran" ELSE @,
                            ![j].result = IF jobs[j].m \in runs /\ jobs[j].phase = "running" THEN "Failed" ELSE @]
    /\ runs' = runs \ {jobs[j].m}
    /\ UNCHANGED <<engineVars, crdt_schema, writes, sidecar, replayFailed, restarts>>

-----------------------------------------------------------------------------
\* CoreHandle::write: the delta is produced under the CRDT lock, ...
ProduceWrite ==
    /\ Len(writes) < MaxWrites /\ ~CrdtLocked
    /\ writes' = Append(writes, "produced")
    /\ UNCHANGED <<engineVars, crdt_schema, jobs, runs, sidecar, replayFailed, restarts>>

\* The first migration whose revocation put the current schema in a window.
active_corruption_migration == IF windows[local_schema] = <<>> THEN None ELSE Head(windows[local_schema])

\* ... and offered to the Side-Car under the engine lock, later.
record_corrupted_window_write(w) ==
    /\ writes[w] = "produced"
    /\ writes' = [writes EXCEPT ![w] = "offered"]
    /\ sidecar' = IF active_corruption_migration = None THEN sidecar
                  ELSE sidecar \cup {[write |-> w, mig |-> active_corruption_migration, status |-> "PENDING"]}
    /\ UNCHANGED <<engineVars, crdt_schema, jobs, runs, replayFailed, restarts>>

\* Only the ledger is on disk.
Restart ==
    /\ restarts < MaxRestarts
    /\ restarts' = restarts + 1
    /\ ca_public_key' = None /\ local_schema' = 1 /\ crdt_schema' = 1
    /\ known' = {} /\ revoked' = {} /\ in_progress' = {} /\ blacklisted' = {}
    /\ windows' = [s \in Schemas |-> <<>>]
    /\ jobs' = <<>> /\ runs' = {}
    /\ writes' = [w \in 1..Len(writes) |-> "offered"]
    /\ UNCHANGED <<sidecar, replayFailed>>

JobStep(j) ==
    \/ prepare_migration(j)
    \/ StartRun(j)
    \/ \E r \in {"Success", "Failed"} : EndRun(j, r)
    \/ finish_migration(j)
    \/ ReadCurrent(j)
    \/ set_current_schema(j)
    \/ replay_corrupted_windows(j)

Next ==
    \/ register_ca_public_key
    \/ \E m \in Migrations : dispatch_inbound_migration(m)
    \/ \E j \in 1..Len(jobs) : JobStep(j) \/ interrupt(j)
    \/ \E m \in Migrations, sigs \in SigLists : receive_revocation_delta(m, sigs)
    \/ ProduceWrite
    \/ \E w \in 1..Len(writes) : record_corrupted_window_write(w)
    \/ Restart

-----------------------------------------------------------------------------
TypeOK ==
    /\ local_schema \in Schemas /\ crdt_schema \in Schemas
    /\ revoked \subseteq known /\ in_progress \subseteq known /\ known \subseteq Migrations
    /\ \A e \in sidecar : e.status \in {"PENDING", "REPLAYED", "CONFLICT", "COMPLETE"}

\* Req 18.6: a migration revoked at any moment before its commit, in whatever
\* state its run is, does not advance the schema.
RevokedNeverCommits ==
    [][\A j \in 1..Len(jobs) :
         jobs[j].phase = "ran" /\ jobs[j].m \in revoked
         => j > Len(jobs') \/ jobs'[j].phase # "committed"]_vars

Running == {j \in 1..Len(jobs) : jobs[j].phase \in {"starting", "running", "ran"}}

\* Transforms never overlap, not even a revoked one that still runs.
OneTransform == Cardinality(Running) <= 1

\* Req 19.3: a captured write waits in an open window, or is about to be
\* replayed, unless a replay failed or the device restarted.
PendingIsScheduled ==
    ~replayFailed /\ restarts = 0 =>
        \A e \in sidecar : e.status = "PENDING" =>
            \/ e.mig \in Elems(windows[local_schema])
            \/ \E j \in 1..Len(jobs) :
                 /\ jobs[j].phase \in {"committed", "mirror", "replay"}
                 /\ e.mig \in Elems(windows[jobs[j].source])

\* Req 19.6: a captured write is complete only if no write of its migration
\* was refused.
CompleteHasNoConflict ==
    ~replayFailed => \A e, f \in sidecar : e.mig = f.mig /\ e.status = "COMPLETE" => f.status # "CONFLICT"

\* Every received migration is dealt with: the pipeline comes to rest.
JobsEnd == []<>(\A j \in 1..Len(jobs) : jobs[j].phase = "done")

\* Req 18.6: a schema advances by one transform at a time and never by one
\* that is revoked (prepare_migration, finish_migration).
CommitsAreSound == []OneTransform /\ RevokedNeverCommits

\* Req 19.3, 19.6: a captured write is on its way to a replay, and reported
\* complete only if nothing of its migration was refused.
CapturedWritesSettle == PendingIsScheduled /\ CompleteHasNoConflict

-----------------------------------------------------------------------------
\* What the comments claim and the code does not do (see README).

\* api/mod.rs: an applied migration is mirrored into the CRDT engine.
MirrorFollowsEngine ==
    (\A j \in 1..Len(jobs) : jobs[j].phase = "done") => crdt_schema = local_schema
=============================================================================
