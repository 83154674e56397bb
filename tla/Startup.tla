------------------------------ MODULE Startup -------------------------------
(***************************************************************************)
(* CoreHandle::init (api/mod.rs), the device identity it loads or creates  *)
(* (identity/), the startup diagnostics and the background tasks it spawns,*)
(* over restarts: init may fail at every fallible step and be called again,*)
(* and the process may be killed at any point.                             *)
(*                                                                         *)
(* Only the identity file and the database survive.  A DID is the number   *)
(* of the key pair it was derived from; a schema is its version number,    *)
(* with 0 the default hash, and the deployment's definitions are the       *)
(* versions they hash to.                                                  *)
(***************************************************************************)
EXTENDS Naturals, Sequences, FiniteSets

CONSTANTS MaxStarts   \* bound: calls of init

VARIABLES build,        \* "native" or "browser"
          config,       \* the deployment: version path, definitions, anchor
          step,         \* where init is
          identityFile, \* DID in <storage>.identity.json, 0 if there is none
          torn,         \* that file was cut short
          keys,         \* key pairs generated so far
          handles,      \* DIDs of the handles init has returned
          mem,          \* what the process holds
          tasks,        \* background tasks running
          starts

vars == <<build, config, step, identityFile, torn, keys, handles, mem, tasks, starts>>

Versions == UNION {[1..n -> 1..2] : n \in 0..2}

\* A process in which init has done nothing yet.  stamped: known_schema_hash
\* of the CRDT engine; local: local_schema_hash of the migration engine;
\* ledger: the schema the Cloud Ledger starts on; emitted: diagnostics sent;
\* received: the ones a subscriber got.
Blank == [did |-> 0, stamped |-> 0, local |-> 0, ledger |-> 0, registered |-> {},
          swarm |-> FALSE, subscribed |-> FALSE, emitted |-> {}, received |-> {}]

Init ==
    /\ build \in {"native", "browser"}
    /\ config \in [path : Versions, definitions : Versions, anchor : BOOLEAN]
    /\ step = "down" /\ identityFile = 0 /\ torn = FALSE /\ keys = 0 /\ handles = {}
    /\ mem = Blank /\ tasks = {} /\ starts = 0

\* A broadcast channel: an entry reaches whoever has subscribed by then.
Sent(m, code) == [m EXCEPT !.emitted = @ \cup {code},
                           !.received = IF m.subscribed THEN @ \cup {code} ELSE @]

\* init returns an error: what it had built is dropped, spawned tasks run on.
Fails == step' = "down" /\ mem' = Blank /\ UNCHANGED tasks

init ==
    /\ step = "down" /\ starts < MaxStarts
    /\ starts' = starts + 1 /\ step' = "identity"
    /\ UNCHANGED <<build, config, identityFile, torn, keys, handles, mem, tasks>>

-----------------------------------------------------------------------------
\* load_identity_from: an identity file is there in a native build only, and
\* one that does not parse is an error.
load_identity_from ==
    /\ build = "native"
    /\ \/ torn /\ Fails
       \/ /\ ~torn /\ identityFile # 0
          /\ mem' = [mem EXCEPT !.did = identityFile] /\ step' = "capability" /\ UNCHANGED tasks
    /\ UNCHANGED keys

\* generate_keypair and derive_did: a number never used before; the random
\* source may fail.
generate_keypair ==
    \/ /\ keys' = keys + 1 /\ mem' = [mem EXCEPT !.did = keys']
       /\ step' = IF build = "native" THEN "persist" ELSE "capability"
       /\ UNCHANGED tasks
    \/ Fails /\ UNCHANGED keys

\* IdentityManager::init_with_path (init_in_memory in a browser): the stored
\* identity, or a new key pair.
init_with_path ==
    /\ step = "identity"
    /\ \/ load_identity_from
       \/ /\ build = "browser" \/ (~torn /\ identityFile = 0)
          /\ generate_keypair
    /\ UNCHANGED <<build, config, identityFile, torn, handles, starts>>

\* Mutant: a failure to persist the identity is ignored.
persist_identity_ignored ==
    /\ step = "persist"
    /\ \/ torn' = TRUE /\ step' = "writing" /\ UNCHANGED <<mem, tasks>>
       \/ torn' = FALSE /\ step' = "capability" /\ UNCHANGED <<mem, tasks>>
    /\ UNCHANGED <<build, config, identityFile, keys, handles, starts>>

\* persist_identity_to: std::fs::write creates the file, or fails ...
persist_identity_create ==
    /\ step = "persist"
    /\ \/ torn' = TRUE /\ step' = "writing" /\ UNCHANGED <<mem, tasks>>
       \/ torn' = FALSE /\ Fails
    /\ UNCHANGED <<build, config, identityFile, keys, handles, starts>>

\* ... and then fills it, or fails half way.
persist_identity_fill ==
    /\ step = "writing"
    /\ \/ torn' = FALSE /\ identityFile' = mem.did /\ step' = "capability" /\ UNCHANGED <<mem, tasks>>
       \/ UNCHANGED <<torn, identityFile>> /\ Fails
    /\ UNCHANGED <<build, config, keys, handles, starts>>

-----------------------------------------------------------------------------
\* The hash of the first definition, or the default one.
initial_schema_hash == IF config.definitions = <<>> THEN 0 ELSE config.definitions[1]

\* What the migration engine starts on.
migration_local_schema_hash ==
    IF config.definitions # <<>> THEN initial_schema_hash
    ELSE IF config.path # <<>> THEN config.path[1] ELSE 0

\* The steps in order; each may fail, but for the ones that cannot.
Order == <<"capability", "store", "revocation", "schemas", "migration", "ledger", "transport", "spawn", "finish">>

After(s) == LET i == CHOOSE i \in DOMAIN Order : Order[i] = s IN Order[i + 1]

\* Capability manager and, for 1-of-1 revocation, its warning.
create_capability ==
    /\ step = "capability" /\ step' = After(step)
    /\ \/ UNCHANGED mem
       \/ mem' = Sent(mem, "UNILATERAL_EXILE")
    /\ UNCHANGED <<build, config, identityFile, torn, keys, handles, tasks, starts>>

\* LocalStore::open and check_integrity, the engine on its own connection.
open_store ==
    /\ step = "store"
    /\ \/ step' = After(step) /\ mem' = [mem EXCEPT !.stamped = initial_schema_hash] /\ UNCHANGED tasks
       \/ Fails
    /\ UNCHANGED <<build, config, identityFile, torn, keys, handles, starts>>

\* The revocation subsystem's connection and persisted revocations.
open_revocation ==
    /\ step = "revocation"
    /\ \/ step' = After(step) /\ UNCHANGED <<mem, tasks>>
       \/ build = "native" /\ Fails
    /\ UNCHANGED <<build, config, identityFile, torn, keys, handles, starts>>

\* Every definition belongs to the path entry at its position: same number,
\* and register_schema_definition compares each hash.
DefinitionsFit ==
    /\ config.path = <<>> => config.definitions = <<>>
    /\ config.definitions # <<>> =>
        /\ Len(config.definitions) = Len(config.path)
        /\ \A i \in DOMAIN config.path : config.definitions[i] = config.path[i]

register_schemas ==
    /\ step = "schemas"
    /\ IF ~DefinitionsFit
       THEN Fails
       ELSE /\ step' = After(step) /\ UNCHANGED tasks
            /\ mem' = IF config.path = <<>> THEN mem
                      ELSE [mem EXCEPT !.stamped = config.path[1],
                                       !.registered = {config.definitions[i] : i \in DOMAIN config.definitions}]
    /\ UNCHANGED <<build, config, identityFile, torn, keys, handles, starts>>

\* SchemaMigrationEngine::new on a connection of its own.
open_migration ==
    /\ step = "migration"
    /\ \/ step' = After(step) /\ mem' = [mem EXCEPT !.local = migration_local_schema_hash] /\ UNCHANGED tasks
       \/ build = "native" /\ Fails
    /\ UNCHANGED <<build, config, identityFile, torn, keys, handles, starts>>

\* DurabilitySubsystem::with_anchor and, natively, the in-process Cloud Ledger.
open_ledger ==
    /\ step = "ledger"
    /\ \/ step' = After(step) /\ mem' = [mem EXCEPT !.ledger = initial_schema_hash] /\ UNCHANGED tasks
       \/ build = "native" /\ Fails
    /\ UNCHANGED <<build, config, identityFile, torn, keys, handles, starts>>

\* transport.start(): a failure leaves the device offline and is not fatal.
start_transport ==
    /\ step = "transport" /\ step' = After(step)
    /\ \/ build = "native" /\ mem' = [mem EXCEPT !.swarm = TRUE]
       \/ UNCHANGED mem
    /\ UNCHANGED <<build, config, identityFile, torn, keys, handles, tasks, starts>>

\* take_swarm: the polling task runs once there is a swarm.
spawn_swarm_task ==
    /\ step = "spawn" /\ step' = After(step)
    /\ tasks' = IF mem.swarm THEN {"swarm"} ELSE {}
    /\ UNCHANGED <<build, config, identityFile, torn, keys, handles, mem, starts>>

\* The loops spawned for the handle.
Loops ==
    {"drain", "cloud", "expiry"}
        \cup (IF "swarm" \in tasks THEN {"tick"} ELSE {})
        \cup (IF config.anchor THEN {"beacon"} ELSE {})

\* Startup diagnostics are sent, the loops spawned and the handle returned.
finish ==
    /\ step = "finish" /\ step' = "running"
    /\ mem' = Sent(mem, "STARTUP")
    /\ tasks' = IF build = "native" THEN tasks \cup Loops ELSE tasks
    /\ handles' = handles \cup {mem.did}
    /\ UNCHANGED <<build, config, identityFile, torn, keys, starts>>

\* subscribe_diagnostics: what is sent from now on.
subscribe_diagnostics ==
    /\ step = "running" /\ ~mem.subscribed
    /\ mem' = [mem EXCEPT !.subscribed = TRUE]
    /\ UNCHANGED <<build, config, step, identityFile, torn, keys, handles, tasks, starts>>

\* The process ends, killed or not.
Kill ==
    /\ step # "down"
    /\ step' = "down" /\ mem' = Blank /\ tasks' = {}
    /\ UNCHANGED <<build, config, identityFile, torn, keys, handles, starts>>

Next ==
    \/ init \/ init_with_path \/ persist_identity_create \/ persist_identity_fill
    \/ create_capability \/ open_store \/ open_revocation \/ register_schemas
    \/ open_migration \/ open_ledger \/ start_transport \/ spawn_swarm_task \/ finish
    \/ subscribe_diagnostics \/ Kill

-----------------------------------------------------------------------------
TypeOK ==
    /\ step \in {"down", "identity", "persist", "writing", "running"} \cup {Order[i] : i \in DOMAIN Order}
    /\ identityFile \in 0..keys /\ keys \in 0..MaxStarts /\ handles \subseteq 1..keys
    /\ tasks \subseteq {"swarm", "drain", "tick", "cloud", "expiry", "beacon"}

\* Req 7.1: every handle a native device ever gets speaks for one DID, however
\* often init failed, was killed or was repeated before.
OneIdentity == build = "native" => Cardinality(handles) <= 1

\* Every way init accepts a deployment starts the CRDT engine and the
\* migration engine on the same schema.
EnginesAgree == step = "running" => mem.stamped = mem.local

\* Nothing runs without a handle that owns it, and nothing is scheduled into
\* a channel that nobody drains.
TasksHaveTheirOwner ==
    /\ step = "down" => tasks = {}
    /\ "tick" \in tasks => "swarm" \in tasks

\* Req 7.1: however often init failed, was killed or repeated, a handle is one
\* device with one schema and tasks of its own.
InitIsConsistent == OneIdentity /\ EnginesAgree /\ TasksHaveTheirOwner
=============================================================================
