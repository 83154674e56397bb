---------------------------- MODULE DeviceProofs ----------------------------
(***************************************************************************)
(* Proofs about a device: CoreHandle::init over failures, kills and        *)
(* repeated calls (Startup), the events that the SDK hears from the core   *)
(* (Sdk), and the contamination engine's incidents and tags                *)
(* (Contamination), for every deployment and all bounds.                   *)
(***************************************************************************)
EXTENDS DeviceMachines, OrderLemmas, FiniteSetTheorems, SequenceTheorems, TLAPS

StartSpec == Start!Init /\ [][Start!Next]_(Start!vars)

-----------------------------------------------------------------------------
Codes == {"UNILATERAL_EXILE", "STARTUP"}

Process == [did : Nat, stamped : Nat, local : Nat, ledger : Nat, registered : SUBSET Nat,
            swarm : BOOLEAN, subscribed : BOOLEAN, emitted : SUBSET Codes, received : SUBSET Codes]

\* Where init is, once it has an identity, and once the schemas are compared.
LateSteps == {"transport", "spawn", "finish", "running"}
Compared  == {"migration", "ledger"} \cup LateSteps
Identified == {"capability", "store", "revocation", "schemas"} \cup Compared

\* A native device has one identity file, which every handle speaks for, and
\* none while a new key pair is being stored; a torn one is never read.
IdentityInv ==
    /\ handles \subseteq {identityFile} \ {0}
    /\ torn => identityFile = 0
    /\ step = "persist" => ~torn
    /\ step \in {"persist", "writing"} => identityFile = 0 /\ mem.did # 0
    /\ step \in Identified => mem.did = identityFile /\ identityFile # 0

\* Both engines' schemas, as far as init has come.
SchemaInv ==
    /\ step \in {"revocation", "schemas"} => mem.stamped = Start!initial_schema_hash
    /\ step \in Compared => /\ Start!DefinitionsFit
                            /\ mem.stamped = IF config.path = <<>> THEN 0 ELSE config.path[1]
    /\ step \in {"ledger"} \cup LateSteps => mem.local = Start!migration_local_schema_hash

\* Tasks are spawned by the last two steps only.
TaskInv ==
    /\ tasks \subseteq {"swarm", "drain", "tick", "cloud", "expiry", "beacon"}
    /\ step \notin {"finish", "running"} => tasks = {}
    /\ "tick" \in tasks => "swarm" \in tasks

\* A start generates at most one key pair.
KeyInv ==
    /\ keys \in Nat /\ starts \in Nat /\ keys <= starts /\ (step = "identity" => keys < starts)
    /\ identityFile \in 0..keys /\ handles \subseteq 1..keys
    /\ step \in {"persist", "writing"} \cup Identified => mem.did \in 1..keys

StartInv ==
    /\ config \in [path : Start!Versions, definitions : Start!Versions, anchor : BOOLEAN]
    /\ step \in {"down", "identity", "persist", "writing"} \cup Identified
    /\ build \in {"native", "browser"} /\ torn \in BOOLEAN /\ mem \in Process
    /\ build = "native" => IdentityInv
    /\ SchemaInv /\ TaskInv /\ KeyInv

\* The steps of init in their order.
LEMMA StepOrder ==
  /\ Start!After("capability") = "store" /\ Start!After("store") = "revocation"
  /\ Start!After("revocation") = "schemas" /\ Start!After("schemas") = "migration"
  /\ Start!After("migration") = "ledger" /\ Start!After("ledger") = "transport"
  /\ Start!After("transport") = "spawn" /\ Start!After("spawn") = "finish"
  BY DEF Start!After, Start!Order

\* What the steps of init do to the process's memory.
LEMMA MemSent ==
  ASSUME NEW z \in Process, NEW c \in Codes
  PROVE  /\ Start!Sent(z, c) \in Process /\ Start!Sent(z, c).did = z.did
         /\ Start!Sent(z, c).stamped = z.stamped /\ Start!Sent(z, c).local = z.local
  BY DEF Process, Start!Sent

\* The identity step sets the process's own DID.
LEMMA MemIdentified ==
  ASSUME NEW z \in Process, NEW n \in Nat, NEW y, y = [z EXCEPT !.did = n]
  PROVE  y \in Process /\ y.did = n
  BY DEF Process

\* The schema the CRDT engine stamps on deltas.
LEMMA MemStamped ==
  ASSUME NEW z \in Process, NEW n \in Nat, NEW y, y = [z EXCEPT !.stamped = n]
  PROVE  y \in Process /\ y.did = z.did /\ y.stamped = n
  BY DEF Process

RegisteredIn(z, n, S) == [z EXCEPT !.stamped = n, !.registered = S]

\* The stamped schema together with the registered ones.
LEMMA MemRegistered ==
  ASSUME NEW z \in Process, NEW n \in Nat, NEW S \in SUBSET Nat
  PROVE  /\ RegisteredIn(z, n, S) \in Process /\ RegisteredIn(z, n, S).did = z.did
         /\ RegisteredIn(z, n, S).stamped = n
  BY DEF Process, RegisteredIn

\* The schema the migration engine takes for its own.
LEMMA MemLocal ==
  ASSUME NEW z \in Process, NEW n \in Nat, NEW y, y = [z EXCEPT !.local = n]
  PROVE  y \in Process /\ y.did = z.did /\ y.stamped = z.stamped /\ y.local = n
  BY DEF Process

\* Ledger, swarm and subscription leave identity and schemas alone.
LEMMA MemRest ==
  ASSUME NEW z \in Process, NEW n \in Nat, NEW y,
         \/ y = [z EXCEPT !.ledger = n]
         \/ y = [z EXCEPT !.swarm = TRUE]
         \/ y = [z EXCEPT !.subscribed = TRUE]
  PROVE  y \in Process /\ y.did = z.did /\ y.stamped = z.stamped /\ y.local = z.local
  BY DEF Process

\* A process that has just begun.
LEMMA MemBlank == Start!Blank \in Process
  BY DEF Process, Start!Blank

\* A deployment's versions are numbers.
LEMMA DeploymentTypes ==
  ASSUME NEW v \in Start!Versions
  PROVE  /\ \A i \in DOMAIN v : v[i] \in Nat
         /\ v # <<>> => 1 \in DOMAIN v
<1>1. PICK n \in 0..2 : v \in [1..n -> 1..2]
  BY DEF Start!Versions
<1>2. \A i \in DOMAIN v : v[i] \in Nat
  BY <1>1
<1>3. ASSUME v # <<>> PROVE 1 \in DOMAIN v
  <2>1. n # 0
    <3>1. ASSUME n = 0 PROVE FALSE
      <4>1. v \in Seq(1..2) /\ Len(v) = 0
        BY <1>1, <3>1
      <4> QED BY <1>3, <4>1
    <3> QED BY <3>1
  <2> QED BY <1>1, <2>1
<1> QED BY <1>2, <1>3

\* A device on which init was never called.
LEMMA StartInitInv == Start!Init => StartInv
<1> SUFFICES ASSUME Start!Init PROVE StartInv
  OBVIOUS
<1>1. mem \in Process
  BY MemBlank DEF Start!Init
<1>2. SchemaInv /\ TaskInv /\ KeyInv /\ IdentityInv
  BY DEF Start!Init, SchemaInv, TaskInv, KeyInv, IdentityInv, Identified, Compared, LateSteps
<1> QED BY <1>1, <1>2 DEF StartInv, Start!Init

\* Down again: an error of init, or the end of the process.
LEMMA DownSound ==
  ASSUME StartInv, step' = "down", mem' = Start!Blank, tasks' = {}, torn' \in {torn, FALSE},
         UNCHANGED <<build, config, identityFile, keys, handles, starts>>
  PROVE  StartInv'
<1>1. mem' \in Process /\ torn' \in BOOLEAN
  BY MemBlank DEF StartInv
<1>2. SchemaInv' /\ TaskInv' /\ KeyInv'
  BY DEF StartInv, SchemaInv, TaskInv, KeyInv, Identified, Compared, LateSteps
<1>3. ASSUME build = "native" PROVE IdentityInv'
  <2>1. torn' => identityFile' = 0
    BY <1>3 DEF StartInv, IdentityInv
  <2> QED BY <1>3, <2>1 DEF StartInv, IdentityInv, Identified, Compared, LateSteps
<1> QED BY <1>1, <1>2, <1>3 DEF StartInv

\* An init that returns an error leaves nothing behind but the disk.
LEMMA FailSound ==
  ASSUME StartInv, Start!Fails, step \notin {"finish", "running"}, torn' \in {torn, FALSE},
         UNCHANGED <<build, config, identityFile, keys, handles, starts>>
  PROVE  StartInv'
  BY DownSound DEF Start!Fails, StartInv, TaskInv

\* The identity is read, or generated and stored, before any step that uses it.
LEMMA IdentitySound ==
  ASSUME StartInv, Start!init \/ Start!init_with_path \/ Start!persist_identity_create \/ Start!persist_identity_fill
  PROVE  StartInv'
<1> USE DEF Identified, Compared, LateSteps
<1>1. CASE Start!init
  BY <1>1 DEF Start!init, StartInv, SchemaInv, TaskInv, KeyInv, IdentityInv
<1>2. CASE Start!init_with_path
  <2>0. /\ step = "identity" /\ UNCHANGED <<build, config, identityFile, torn, handles, starts>>
        /\ mem \in Process /\ tasks = {} /\ keys \in Nat /\ identityFile \in Nat
    BY <1>2 DEF Start!init_with_path, StartInv, TaskInv, KeyInv
  <2>1. CASE Start!Fails /\ UNCHANGED keys
    BY <2>0, <2>1, FailSound DEF StartInv
  <2>2. CASE /\ build = "native" /\ ~torn /\ identityFile # 0 /\ UNCHANGED <<tasks, keys>>
             /\ mem' = [mem EXCEPT !.did = identityFile] /\ step' = "capability"
    <3>1. mem' \in Process /\ mem'.did = identityFile
      BY <2>0, <2>2, MemIdentified
    <3> QED BY <2>0, <2>2, <3>1 DEF StartInv, SchemaInv, TaskInv, KeyInv, IdentityInv
  <2>3. CASE /\ build = "browser" \/ (~torn /\ identityFile = 0)
             /\ keys' = keys + 1 /\ mem' = [mem EXCEPT !.did = keys'] /\ UNCHANGED tasks
             /\ step' = IF build = "native" THEN "persist" ELSE "capability"
    <3>0. keys' \in Nat
      BY <2>0, <2>3
    <3>1. mem' \in Process /\ mem'.did = keys + 1
      BY <2>0, <2>3, <3>0, MemIdentified
    <3>2. SchemaInv' /\ TaskInv'
      BY <2>0, <2>3 DEF StartInv, SchemaInv, TaskInv
    <3>3. KeyInv'
      BY <2>0, <2>3, <3>1 DEF StartInv, KeyInv
    <3>4. (build = "native" => IdentityInv)'
      BY <2>0, <2>3, <3>1 DEF StartInv, IdentityInv
    <3> QED BY <2>0, <2>3, <3>1, <3>2, <3>3, <3>4 DEF StartInv
  <2> QED BY <1>2, <2>1, <2>2, <2>3 DEF Start!init_with_path, Start!load_identity_from, Start!generate_keypair
<1>3. CASE Start!persist_identity_create
  <2>1. CASE torn' = FALSE /\ Start!Fails
    BY <1>3, <2>1, FailSound DEF Start!persist_identity_create
  <2>2. CASE torn' = TRUE /\ step' = "writing" /\ UNCHANGED <<mem, tasks>>
    <3>1. SchemaInv' /\ TaskInv' /\ KeyInv'
      BY <1>3, <2>2 DEF Start!persist_identity_create, StartInv, SchemaInv, TaskInv, KeyInv
    <3>2. ASSUME build = "native" PROVE IdentityInv'
      BY <1>3, <2>2, <3>2 DEF Start!persist_identity_create, StartInv, IdentityInv
    <3> QED BY <1>3, <2>2, <3>1, <3>2 DEF Start!persist_identity_create, StartInv
  <2> QED BY <1>3, <2>1, <2>2 DEF Start!persist_identity_create
<1>4. CASE Start!persist_identity_fill
  <2>1. CASE Start!Fails /\ UNCHANGED <<torn, identityFile>>
    BY <1>4, <2>1, FailSound DEF Start!persist_identity_fill
  <2>2. CASE torn' = FALSE /\ identityFile' = mem.did /\ step' = "capability" /\ UNCHANGED <<mem, tasks>>
    <3>1. SchemaInv' /\ TaskInv' /\ KeyInv'
      BY <1>4, <2>2 DEF Start!persist_identity_fill, StartInv, SchemaInv, TaskInv, KeyInv
    <3>2. ASSUME build = "native" PROVE IdentityInv'
      BY <1>4, <2>2, <3>2 DEF Start!persist_identity_fill, StartInv, IdentityInv
    <3> QED BY <1>4, <2>2, <3>1, <3>2 DEF Start!persist_identity_fill, StartInv
  <2> QED BY <1>4, <2>1, <2>2 DEF Start!persist_identity_fill
<1> QED BY <1>1, <1>2, <1>3, <1>4

\* The versions a deployment's engines may start on.
LEMMA SchemaTypes ==
  ASSUME StartInv
  PROVE  /\ Start!initial_schema_hash \in Nat /\ Start!migration_local_schema_hash \in Nat
         /\ config.path # <<>> => config.path[1] \in Nat
         /\ {config.definitions[i] : i \in DOMAIN config.definitions} \in SUBSET Nat
<1>1. config.path \in Start!Versions /\ config.definitions \in Start!Versions
  BY DEF StartInv
<1>2. /\ config.path # <<>> => config.path[1] \in Nat
      /\ config.definitions # <<>> => config.definitions[1] \in Nat
      /\ \A i \in DOMAIN config.definitions : config.definitions[i] \in Nat
  BY <1>1, DeploymentTypes
<1> QED BY <1>2 DEF Start!initial_schema_hash, Start!migration_local_schema_hash

\* A step of init past the identity, with the identity and the tasks untouched.
LEMMA PastIdentity ==
  ASSUME StartInv, step \in Identified, step' \in Identified, mem' \in Process, mem'.did = mem.did,
         tasks' = tasks, step \notin {"finish", "running"} \/ step' = step,
         UNCHANGED <<build, config, identityFile, torn, keys, handles, starts>>, SchemaInv'
  PROVE  StartInv'
<1> USE DEF Identified, Compared, LateSteps
<1>1. TaskInv' /\ KeyInv'
  BY DEF StartInv, TaskInv, KeyInv
<1>2. ASSUME build = "native" PROVE IdentityInv'
  BY <1>2 DEF StartInv, IdentityInv
<1> QED BY <1>1, <1>2 DEF StartInv

\* From the capability manager to the revocation engine.
LEMMA EarlySound ==
  ASSUME StartInv, Start!create_capability \/ Start!open_store \/ Start!open_revocation
  PROVE  StartInv'
<1>0. mem \in Process /\ Start!initial_schema_hash \in Nat
  BY SchemaTypes DEF StartInv
<1>1. CASE Start!create_capability
  <2>1. step = "capability" /\ step' = "store" /\ (mem' = mem \/ mem' = Start!Sent(mem, "UNILATERAL_EXILE"))
        /\ UNCHANGED <<build, config, identityFile, torn, keys, handles, tasks, starts>>
    BY <1>1, StepOrder DEF Start!create_capability
  <2>2. mem' \in Process /\ mem'.did = mem.did
    <3>1. "UNILATERAL_EXILE" \in Codes
      BY DEF Codes
    <3>2. Start!Sent(mem, "UNILATERAL_EXILE") \in Process /\ Start!Sent(mem, "UNILATERAL_EXILE").did = mem.did
      BY <1>0, <3>1, MemSent
    <3>3. CASE mem' = mem
      BY <1>0, <3>3
    <3>4. CASE mem' = Start!Sent(mem, "UNILATERAL_EXILE")
      BY <3>2, <3>4
    <3> QED BY <2>1, <3>3, <3>4
  <2>3. SchemaInv'
    BY <2>1 DEF SchemaInv, Compared, LateSteps
  <2> QED BY <2>1, <2>2, <2>3, PastIdentity DEF Identified, Compared, LateSteps
<1>2. CASE Start!open_store
  <2>0. step = "store" /\ UNCHANGED <<build, config, identityFile, torn, keys, handles, starts>>
    BY <1>2 DEF Start!open_store
  <2>1. CASE Start!Fails
    BY <2>0, <2>1, FailSound
  <2>2. CASE step' = "revocation" /\ mem' = [mem EXCEPT !.stamped = Start!initial_schema_hash] /\ UNCHANGED tasks
    <3>1. mem' \in Process /\ mem'.did = mem.did /\ mem'.stamped = Start!initial_schema_hash
      BY <1>0, <2>2, MemStamped
    <3>2. SchemaInv'
      BY <2>0, <2>2, <3>1 DEF SchemaInv, Compared, LateSteps, Start!initial_schema_hash
    <3> QED BY <2>0, <2>2, <3>1, <3>2, PastIdentity DEF Identified, Compared, LateSteps
  <2> QED BY <1>2, <2>1, <2>2, StepOrder DEF Start!open_store
<1>3. CASE Start!open_revocation
  <2>0. step = "revocation" /\ UNCHANGED <<build, config, identityFile, torn, keys, handles, starts>>
    BY <1>3 DEF Start!open_revocation
  <2>1. CASE Start!Fails
    BY <2>0, <2>1, FailSound
  <2>2. CASE step' = "schemas" /\ UNCHANGED <<mem, tasks>>
    <3>1. SchemaInv'
      BY <2>0, <2>2 DEF StartInv, SchemaInv, Compared, LateSteps, Start!initial_schema_hash
    <3> QED BY <1>0, <2>0, <2>2, <3>1, PastIdentity DEF Identified, Compared, LateSteps
  <2> QED BY <1>3, <2>1, <2>2, StepOrder DEF Start!open_revocation
<1> QED BY <1>1, <1>2, <1>3

\* The engine is stamped with the head of the path that its definitions fit.
LEMMA SchemasSound ==
  ASSUME StartInv, Start!register_schemas
  PROVE  StartInv'
<1>0. step = "schemas" /\ UNCHANGED <<build, config, identityFile, torn, keys, handles, starts>>
      /\ mem \in Process /\ mem.stamped = Start!initial_schema_hash
  BY DEF Start!register_schemas, StartInv, SchemaInv
<1>1. CASE Start!Fails
  BY <1>0, <1>1, FailSound
<1>2. CASE Start!DefinitionsFit /\ step' = "migration" /\ UNCHANGED tasks /\ config.path = <<>> /\ mem' = mem
  <2>1. mem.stamped = 0
    BY <1>0, <1>2 DEF Start!DefinitionsFit, Start!initial_schema_hash
  <2>2. SchemaInv'
    BY <1>0, <1>2, <2>1 DEF SchemaInv, Compared, LateSteps, Start!DefinitionsFit
  <2> QED BY <1>0, <1>2, <2>2, PastIdentity DEF Identified, Compared, LateSteps
<1>3. CASE /\ Start!DefinitionsFit /\ step' = "migration" /\ UNCHANGED tasks /\ config.path # <<>>
           /\ mem' = [mem EXCEPT !.stamped = config.path[1],
                                 !.registered = {config.definitions[i] : i \in DOMAIN config.definitions}]
  <2> DEFINE S == {config.definitions[i] : i \in DOMAIN config.definitions}
  <2>1. config.path[1] \in Nat /\ S \in SUBSET Nat
    BY <1>3, SchemaTypes
  <2>2. mem' = RegisteredIn(mem, config.path[1], S)
    BY <1>3 DEF RegisteredIn
  <2> HIDE DEF S
  <2>5. /\ RegisteredIn(mem, config.path[1], S) \in Process
        /\ RegisteredIn(mem, config.path[1], S).did = mem.did
        /\ RegisteredIn(mem, config.path[1], S).stamped = config.path[1]
    BY <1>0, <2>1, MemRegistered
  <2>3. mem' \in Process /\ mem'.did = mem.did /\ mem'.stamped = config.path[1]
    BY <2>2, <2>5
  <2>4. SchemaInv'
    BY <1>0, <1>3, <2>3 DEF SchemaInv, Compared, LateSteps, Start!DefinitionsFit
  <2> QED BY <1>0, <1>3, <2>3, <2>4, PastIdentity DEF Identified, Compared, LateSteps
<1> QED BY <1>0, <1>1, <1>2, <1>3, StepOrder DEF Start!register_schemas

\* The migration engine, the ledger and the transport.
LEMMA LateSound ==
  ASSUME StartInv, Start!open_migration \/ Start!open_ledger \/ Start!start_transport
  PROVE  StartInv'
<1>0. mem \in Process /\ Start!initial_schema_hash \in Nat /\ Start!migration_local_schema_hash \in Nat
  BY SchemaTypes DEF StartInv
<1>1. CASE Start!open_migration
  <2>0. step = "migration" /\ UNCHANGED <<build, config, identityFile, torn, keys, handles, starts>>
    BY <1>1 DEF Start!open_migration
  <2>1. CASE Start!Fails
    BY <2>0, <2>1, FailSound
  <2>2. CASE step' = "ledger" /\ mem' = [mem EXCEPT !.local = Start!migration_local_schema_hash] /\ UNCHANGED tasks
    <3>1. mem' \in Process /\ mem'.did = mem.did /\ mem'.stamped = mem.stamped
      BY <1>0, <2>2, MemLocal
    <3>3. mem'.local = Start!migration_local_schema_hash
      BY <1>0, <2>2, MemLocal
    <3>2. SchemaInv'
      BY <2>0, <2>2, <3>1, <3>3 DEF StartInv, SchemaInv, Compared, LateSteps, Start!DefinitionsFit,
         Start!migration_local_schema_hash, Start!initial_schema_hash
    <3> QED BY <2>0, <2>2, <3>1, <3>2, PastIdentity DEF Identified, Compared, LateSteps
  <2> QED BY <1>1, <2>1, <2>2, StepOrder DEF Start!open_migration
<1>2. CASE Start!open_ledger
  <2>0. step = "ledger" /\ UNCHANGED <<build, config, identityFile, torn, keys, handles, starts>>
    BY <1>2 DEF Start!open_ledger
  <2>1. CASE Start!Fails
    BY <2>0, <2>1, FailSound
  <2>2. CASE step' = "transport" /\ mem' = [mem EXCEPT !.ledger = Start!initial_schema_hash] /\ UNCHANGED tasks
    <3>1. mem' \in Process /\ mem'.did = mem.did /\ mem'.stamped = mem.stamped /\ mem'.local = mem.local
      BY <1>0, <2>2, MemRest
    <3>2. SchemaInv'
      BY <2>0, <2>2, <3>1 DEF StartInv, SchemaInv, Compared, LateSteps, Start!DefinitionsFit,
         Start!migration_local_schema_hash, Start!initial_schema_hash
    <3> QED BY <2>0, <2>2, <3>1, <3>2, PastIdentity DEF Identified, Compared, LateSteps
  <2> QED BY <1>2, <2>1, <2>2, StepOrder DEF Start!open_ledger
<1>3. CASE Start!start_transport
  <2>0. step = "transport" /\ step' = "spawn"
        /\ UNCHANGED <<build, config, identityFile, torn, keys, handles, tasks, starts>>
    BY <1>3, StepOrder DEF Start!start_transport
  <2>1. mem' \in Process /\ mem'.did = mem.did /\ mem'.stamped = mem.stamped /\ mem'.local = mem.local
    <3>1. CASE mem' = [mem EXCEPT !.swarm = TRUE]
      BY <1>0, <3>1, MemRest
    <3>2. CASE mem' = mem
      BY <1>0, <3>2
    <3> QED BY <1>3, <3>1, <3>2 DEF Start!start_transport
  <2>2. SchemaInv'
    BY <2>0, <2>1 DEF StartInv, SchemaInv, Compared, LateSteps, Start!DefinitionsFit,
       Start!migration_local_schema_hash, Start!initial_schema_hash
  <2> QED BY <2>0, <2>1, <2>2, PastIdentity DEF Identified, Compared, LateSteps
<1> QED BY <1>1, <1>2, <1>3

\* The tasks and the handle.
LEMMA LastSound ==
  ASSUME StartInv, Start!spawn_swarm_task \/ Start!finish \/ Start!subscribe_diagnostics
  PROVE  StartInv'
<1> USE DEF Identified, Compared, LateSteps
<1>0. mem \in Process
  BY DEF StartInv
<1>1. CASE Start!spawn_swarm_task
  <2>0. /\ step = "spawn" /\ step' = "finish" /\ tasks' \subseteq {"swarm"}
        /\ UNCHANGED <<build, config, identityFile, torn, keys, handles, mem, starts>>
    BY <1>1, StepOrder DEF Start!spawn_swarm_task
  <2>1. TaskInv' /\ KeyInv'
    BY <2>0 DEF StartInv, TaskInv, KeyInv
  <2>2. SchemaInv'
    BY <2>0 DEF StartInv, SchemaInv, Start!DefinitionsFit, Start!migration_local_schema_hash, Start!initial_schema_hash
  <2>3. ASSUME build = "native" PROVE IdentityInv'
    BY <2>0, <2>3 DEF StartInv, IdentityInv
  <2> QED BY <2>0, <2>1, <2>2, <2>3 DEF StartInv
<1>2. CASE Start!finish
  <2>0. /\ step = "finish" /\ step' = "running" /\ handles' = handles \cup {mem.did}
        /\ tasks' = tasks \/ tasks' = tasks \cup Start!Loops
        /\ mem' = Start!Sent(mem, "STARTUP")
        /\ UNCHANGED <<build, config, identityFile, torn, keys, starts>>
    BY <1>2 DEF Start!finish
  <2>1. mem' \in Process /\ mem'.did = mem.did /\ mem'.stamped = mem.stamped /\ mem'.local = mem.local
    <3>1. "STARTUP" \in Codes
      BY DEF Codes
    <3> QED BY <1>0, <2>0, <3>1, MemSent
  <2>2. TaskInv'
    BY <2>0 DEF StartInv, TaskInv, Start!Loops
  <2>3. KeyInv'
    BY <2>0, <2>1 DEF StartInv, KeyInv
  <2>4. SchemaInv'
    BY <2>0, <2>1 DEF StartInv, SchemaInv, Start!DefinitionsFit, Start!migration_local_schema_hash, Start!initial_schema_hash
  <2>5. ASSUME build = "native" PROVE IdentityInv'
    BY <2>0, <2>1, <2>5 DEF StartInv, IdentityInv
  <2> QED BY <2>0, <2>1, <2>2, <2>3, <2>4, <2>5 DEF StartInv
<1>3. CASE Start!subscribe_diagnostics
  <2>0. /\ step = "running" /\ mem' = [mem EXCEPT !.subscribed = TRUE]
        /\ UNCHANGED <<build, config, step, identityFile, torn, keys, handles, tasks, starts>>
    BY <1>3 DEF Start!subscribe_diagnostics
  <2>1. mem' \in Process /\ mem'.did = mem.did /\ mem'.stamped = mem.stamped /\ mem'.local = mem.local
    BY <1>0, <2>0, MemRest
  <2>2. SchemaInv'
    BY <2>0, <2>1 DEF StartInv, SchemaInv, Start!DefinitionsFit, Start!migration_local_schema_hash, Start!initial_schema_hash
  <2> QED BY <2>0, <2>1, <2>2, PastIdentity
<1> QED BY <1>1, <1>2, <1>3

\* Steps of the other machines.
LEMMA StartStutters ==
  ASSUME StartInv, UNCHANGED Start!vars
  PROVE  StartInv'
<1>0. UNCHANGED <<build, config, step, identityFile, torn, keys, handles, mem, tasks, starts>>
  BY DEF Start!vars
<1>1. SchemaInv' /\ TaskInv' /\ KeyInv'
  BY <1>0 DEF StartInv, SchemaInv, TaskInv, KeyInv, Start!DefinitionsFit, Start!migration_local_schema_hash, Start!initial_schema_hash
<1>2. (build = "native" => IdentityInv)'
  BY <1>0 DEF StartInv, IdentityInv
<1> QED BY <1>0, <1>1, <1>2 DEF StartInv

\* StartInv is inductive.
LEMMA StartInvariant == StartSpec => []StartInv
<1>1. ASSUME StartInv, [Start!Next]_(Start!vars) PROVE StartInv'
  <2>1. ASSUME Start!Kill PROVE StartInv'
    BY <1>1, <2>1, DownSound DEF Start!Kill
  <2> QED BY <1>1, <2>1, IdentitySound, EarlySound, SchemasSound, LateSound, LastSound, StartStutters DEF Start!Next
<1> QED BY <1>1, StartInitInv, PTL DEF StartSpec

\* The device takes start-up's steps and leaves its variables alone otherwise.
LEMMA StartRuns == DeviceSpec => StartSpec
<1>1. DeviceInit => Start!Init
  BY DEF DeviceInit
<1>2. [DeviceNext]_allVars => [Start!Next]_(Start!vars)
  BY DEF DeviceNext, allVars, initVars, Start!vars, RevocationStep, ContaminationStep, SqliteStep, IndexedDbStep,
         InitStep, SdkStep, OrderStep, LanguageStep
<1> QED BY <1>1, <1>2, PTL DEF DeviceSpec, StartSpec

\* What the invariant says of a device.
LEMMA StartConsistent == StartInv => InitIsConsistent
<1> SUFFICES ASSUME StartInv PROVE InitIsConsistent
  OBVIOUS
<1>1. Start!OneIdentity
  <2> SUFFICES ASSUME build = "native" PROVE Start!Cardinality(handles) <= 1
    BY DEF Start!OneIdentity
  <2>1. handles \subseteq {identityFile}
    BY DEF StartInv, IdentityInv
  <2>2. IsFiniteSet({identityFile}) /\ Cardinality({identityFile}) = 1
    BY FS_Singleton
  <2>3. Cardinality(handles) <= 1
    BY <2>1, <2>2, FS_Subset
  <2> QED BY <2>3 DEF Start!Cardinality, Cardinality
<1>2. Start!EnginesAgree
  <2> SUFFICES ASSUME step = "running" PROVE mem.stamped = mem.local
    BY DEF Start!EnginesAgree
  <2>1. /\ Start!DefinitionsFit /\ mem.local = Start!migration_local_schema_hash
        /\ mem.stamped = IF config.path = <<>> THEN 0 ELSE config.path[1]
    BY DEF StartInv, SchemaInv, Compared, LateSteps
  <2>2. config.path # <<>> => 1 \in DOMAIN config.path
    BY DeploymentTypes DEF StartInv
  <2> QED BY <2>1, <2>2 DEF Start!DefinitionsFit, Start!migration_local_schema_hash, Start!initial_schema_hash
<1>3. Start!TasksHaveTheirOwner
  BY DEF StartInv, TaskInv, Start!TasksHaveTheirOwner
<1> QED BY <1>1, <1>2, <1>3 DEF InitIsConsistent, Start!InitIsConsistent

\* However often init failed half way, was killed at any step or was called
\* again, every handle of a native device speaks for the one identity on disk,
\* its engines start on one schema, and no task is without an owner
\* (CoreHandle::init, IdentityManager::init_with_path).
THEOREM InitStaysConsistent == DeviceSpec => []InitIsConsistent
  BY StartRuns, StartInvariant, StartConsistent, PTL

\* Type correctness of start-up: a start generates at most one key pair.
THEOREM StartTypes ==
  ASSUME MaxStarts \in Nat
  PROVE  StartSpec => []Start!TypeOK
<1>1. Start!Init => starts <= MaxStarts
  BY DEF Start!Init
<1>2. StartInv /\ starts <= MaxStarts /\ [Start!Next]_(Start!vars) => (starts <= MaxStarts)'
  <2> SUFFICES ASSUME StartInv, starts <= MaxStarts, [Start!Next]_(Start!vars) PROVE starts' <= MaxStarts
    OBVIOUS
  <2>1. starts' = starts \/ (starts < MaxStarts /\ starts' = starts + 1)
    BY DEF Start!Next, Start!vars, Start!init, Start!init_with_path, Start!persist_identity_create,
       Start!persist_identity_fill, Start!create_capability, Start!open_store, Start!open_revocation,
       Start!register_schemas, Start!open_migration, Start!open_ledger, Start!start_transport,
       Start!spawn_swarm_task, Start!finish, Start!subscribe_diagnostics, Start!Kill
  <2>2. starts \in Nat
    BY DEF StartInv, KeyInv
  <2> QED BY <2>1, <2>2
<1>3. StartInv /\ starts <= MaxStarts => Start!TypeOK
  <2> SUFFICES ASSUME StartInv, starts <= MaxStarts PROVE Start!TypeOK
    OBVIOUS
  <2>1. step \in {"down", "identity", "persist", "writing", "running"} \cup {Start!Order[i] : i \in DOMAIN Start!Order}
    BY DEF StartInv, Identified, Compared, LateSteps, Start!Order
  <2>2. /\ identityFile \in 0..keys /\ keys \in 0..MaxStarts /\ handles \subseteq 1..keys
        /\ tasks \subseteq {"swarm", "drain", "tick", "cloud", "expiry", "beacon"}
    BY DEF StartInv, KeyInv, TaskInv
  <2> QED BY <2>1, <2>2 DEF Start!TypeOK
<1> QED BY <1>1, <1>2, <1>3, StartInvariant, PTL DEF StartSpec

-----------------------------------------------------------------------------
(* The SDK's event queue. *)

SdkSpec == App!Init /\ [][App!Next]_(App!vars)

\* How many events have left the queue.
Drained == produced - Len(eventQueue)

\* The queue holds the last events, in the order of their numbers ...
QueueInv ==
    /\ produced \in Nat /\ eventQueue \in Seq([no : Nat, kind : App!Kinds]) /\ Len(eventQueue) <= produced
    /\ \A i \in 1..Len(eventQueue) : eventQueue[i].no = Drained + i

\* ... and the others were dispatched or dropped.
HistoryInv ==
    /\ heard \in Seq(Nat) /\ App!Dispatched \cup lost = 1..Drained /\ App!Dispatched \cap lost = {}
    /\ threw \subseteq lost
    /\ App!HeardInOrder /\ App!DroppedBehindThrow

SdkInv == QueueInv /\ HistoryInv

\* The numbers that wait in the queue.
LEMMA QueuedNumbers ==
  ASSUME QueueInv
  PROVE  App!Queued = (Drained + 1)..produced /\ Drained \in Nat
<1>1. Len(eventQueue) \in Nat /\ DOMAIN eventQueue = 1..Len(eventQueue) /\ Drained \in Nat
  BY LenProperties DEF QueueInv, Drained
<1>2. ASSUME NEW n \in (Drained + 1)..produced PROVE n \in App!Queued
  <2>1. n - Drained \in 1..Len(eventQueue) /\ Drained + (n - Drained) = n
    BY <1>1 DEF QueueInv, Drained
  <2>2. eventQueue[n - Drained].no = n
    BY <2>1 DEF QueueInv
  <2> QED BY <1>1, <2>1, <2>2 DEF App!Queued
<1>3. ASSUME NEW i \in DOMAIN eventQueue PROVE eventQueue[i].no \in (Drained + 1)..produced
  BY <1>1 DEF QueueInv, Drained
<1> QED BY <1>1, <1>2, <1>3 DEF App!Queued

\* The invariant says what the application is promised.
LEMMA SdkPromise ==
  ASSUME SdkInv
  PROVE  App!EventsOnceInOrder
<1>1. App!Queued = (Drained + 1)..produced /\ Drained \in Nat /\ Drained <= produced /\ produced \in Nat
  <2>1. Len(eventQueue) \in Nat
    BY LenProperties DEF SdkInv, QueueInv
  <2> QED BY <2>1, QueuedNumbers DEF SdkInv, QueueInv, Drained
<1>2. App!Dispatched \cup lost = 1..Drained
  BY DEF SdkInv, HistoryInv
<1>3. App!Queued \cup 1..Drained = 1..produced /\ App!Queued \cap 1..Drained = {}
  BY <1>1
<1>4. App!EachEventOnce
  BY <1>2, <1>3 DEF SdkInv, HistoryInv, App!EachEventOnce
<1> QED BY <1>4 DEF SdkInv, HistoryInv, App!EventsOnceInOrder

\* Events of a call go to the end of the queue.
LEMMA PushSound ==
  ASSUME SdkInv, NEW es \in Seq(App!Kinds), App!push_wasm_events(es)
  PROVE  SdkInv'
<1> DEFINE new == [i \in 1..Len(es) |-> [no |-> produced + i, kind |-> es[i]]]
           T == [no : Nat, kind : App!Kinds]
<1>1. /\ eventQueue' = eventQueue \o new /\ produced' = produced + Len(es)
      /\ heard' = heard /\ lost' = lost /\ threw' = threw
  BY DEF App!push_wasm_events
<1>2. Len(es) \in Nat /\ produced \in Nat /\ eventQueue \in Seq(T) /\ Len(eventQueue) \in Nat
  BY LenProperties DEF SdkInv, QueueInv
<1>3. \A i \in 1..Len(es) : [no |-> produced + i, kind |-> es[i]] \in T
  BY <1>2
<1>4. new \in Seq(T) /\ Len(new) = Len(es)
  BY <1>2, <1>3
<1>5. \A i \in 1..Len(es) : new[i].no = produced + i
  OBVIOUS
<1> HIDE DEF new, T
<1>6. eventQueue' \in Seq(T) /\ Len(eventQueue') = Len(eventQueue) + Len(es)
  <2>1. eventQueue \o new \in Seq(T) /\ Len(eventQueue \o new) = Len(eventQueue) + Len(new)
    BY <1>2, <1>4, ConcatProperties, Zenon
  <2> QED BY <1>1, <1>4, <2>1
<1>7. Drained' = Drained
  BY <1>1, <1>2, <1>6 DEF Drained
<1>8. ASSUME NEW i \in 1..Len(eventQueue') PROVE eventQueue'[i].no = Drained' + i
  <2>1. CASE i <= Len(eventQueue)
    <3>1. i \in 1..Len(eventQueue) /\ eventQueue'[i] = eventQueue[i]
      BY <1>1, <1>2, <1>4, <1>6, <2>1
    <3> QED BY <1>7, <3>1 DEF SdkInv, QueueInv
  <2>2. CASE i > Len(eventQueue)
    <3>1. i - Len(eventQueue) \in 1..Len(es) /\ eventQueue'[i] = new[i - Len(eventQueue)]
      BY <1>1, <1>2, <1>4, <1>6, <2>2
    <3>2. eventQueue'[i].no = produced + (i - Len(eventQueue))
      BY <1>5, <3>1
    <3> QED BY <1>2, <1>6, <1>7, <3>2 DEF Drained
  <2> QED BY <1>2, <1>6, <2>1, <2>2
<1>9. QueueInv'
  <2>1. produced' \in Nat /\ Len(eventQueue') <= produced'
    BY <1>1, <1>2, <1>6 DEF SdkInv, QueueInv
  <2> QED BY <1>6, <1>8, <2>1 DEF QueueInv, T
<1>10. HistoryInv'
  BY <1>1, <1>7 DEF SdkInv, HistoryInv, App!Dispatched, App!HeardInOrder, App!DroppedBehindThrow
<1> QED BY <1>9, <1>10 DEF SdkInv

\* g goes on in order from h with the numbers from D + 1 to D + n.
GoesOn(g, h, D, n) ==
    /\ g \in Seq(Nat) /\ \A i, j \in DOMAIN g : i < j => g[i] < g[j]
    /\ {g[i] : i \in DOMAIN g} = {h[i] : i \in DOMAIN h} \cup (D + 1)..(D + n)

\* Dispatching the next events keeps the order.
LEMMA HeardMore ==
  ASSUME NEW h \in Seq(Nat), NEW D \in Nat, NEW n \in Nat, NEW t \in Seq(Nat), Len(t) = n,
         \A i \in DOMAIN h : h[i] \in 1..D,
         \A i, j \in DOMAIN h : i < j => h[i] < h[j],
         \A i \in 1..n : t[i] = D + i
  PROVE  GoesOn(h \o t, h, D, n)
<1> DEFINE g == h \o t
<1>1. /\ g \in Seq(Nat) /\ Len(h) \in Nat /\ Len(g) = Len(h) + n
      /\ DOMAIN g = 1..(Len(h) + n) /\ DOMAIN h = 1..Len(h)
  <2>1. g \in Seq(Nat) /\ Len(g) = Len(h) + n /\ Len(h) \in Nat
    <3>1. h \o t \in Seq(Nat) /\ Len(h \o t) = Len(h) + Len(t) /\ Len(h) \in Nat
      BY ConcatProperties, LenProperties, Zenon
    <3> QED BY <3>1
  <2>2. DOMAIN g = 1..Len(g) /\ DOMAIN h = 1..Len(h)
    BY <2>1, LenProperties
  <2> QED BY <2>1, <2>2
<1>2. \A i \in 1..Len(h) : g[i] = h[i] /\ h[i] \in Nat /\ h[i] <= D
  <2> SUFFICES ASSUME NEW i \in 1..Len(h) PROVE g[i] = h[i] /\ h[i] \in Nat /\ h[i] <= D
    OBVIOUS
  <2>1. g[i] = h[i]
    BY <1>1
  <2>2. h[i] \in 1..D
    BY <1>1
  <2> QED BY <2>1, <2>2
<1>3. \A i \in (Len(h) + 1)..(Len(h) + n) : g[i] = D + (i - Len(h)) /\ i - Len(h) \in 1..n
  <2> SUFFICES ASSUME NEW i \in (Len(h) + 1)..(Len(h) + n) PROVE g[i] = D + (i - Len(h)) /\ i - Len(h) \in 1..n
    OBVIOUS
  <2>1. i - Len(h) \in 1..n /\ g[i] = t[i - Len(h)]
    BY <1>1
  <2> QED BY <2>1
<1> HIDE DEF g
<1> DEFINE N == Len(h)
<1>0. N \in Nat /\ DOMAIN g = 1..(N + n) /\ DOMAIN h = 1..N
  BY <1>1
<1>31. \A i \in 1..N : g[i] = h[i] /\ h[i] \in Nat /\ h[i] <= D
  BY <1>2
<1>32. \A i \in (N + 1)..(N + n) : g[i] = D + (i - N) /\ i - N \in 1..n
  BY <1>3
<1> HIDE DEF N
<1>4. \A i, j \in DOMAIN g : i < j => g[i] < g[j]
  <2> SUFFICES ASSUME NEW i \in DOMAIN g, NEW j \in DOMAIN g, i < j PROVE g[i] < g[j]
    OBVIOUS
  <2>0. i \in 1..(N + n) /\ j \in 1..(N + n)
    BY <1>0
  <2>1. CASE j <= N
    <3>1. i \in 1..N /\ j \in 1..N
      BY <1>0, <2>0, <2>1
    <3>2. h[i] < h[j]
      BY <1>0, <3>1
    <3> QED BY <1>31, <3>1, <3>2
  <2>2. CASE i <= N /\ j > N
    <3>1. i \in 1..N /\ j \in (N + 1)..(N + n)
      BY <1>0, <2>0, <2>2
    <3>2. g[i] \in Nat /\ g[i] <= D /\ g[j] = D + (j - N) /\ j - N \in 1..n
      BY <1>31, <1>32, <3>1
    <3> QED BY <3>2
  <2>3. CASE i > N
    <3>1. i \in (N + 1)..(N + n) /\ j \in (N + 1)..(N + n)
      BY <1>0, <2>0, <2>3
    <3>2. g[i] = D + (i - N) /\ g[j] = D + (j - N)
      BY <1>32, <3>1
    <3> QED BY <1>0, <3>1, <3>2
  <2> QED BY <1>0, <2>0, <2>1, <2>2, <2>3
<1>5. {g[i] : i \in DOMAIN g} = {h[i] : i \in DOMAIN h} \cup (D + 1)..(D + n)
  <2>1. ASSUME NEW i \in DOMAIN g PROVE g[i] \in {h[k] : k \in DOMAIN h} \cup (D + 1)..(D + n)
    <3>1. CASE i <= N
      <4>1. i \in 1..N
        BY <1>0, <3>1
      <4> QED BY <1>0, <1>31, <4>1
    <3>2. CASE i > N
      <4>1. i \in (N + 1)..(N + n)
        BY <1>0, <3>2
      <4>2. g[i] = D + (i - N) /\ i - N \in 1..n
        BY <1>32, <4>1
      <4> QED BY <4>2
    <3> QED BY <1>0, <3>1, <3>2
  <2>2. ASSUME NEW i \in DOMAIN h PROVE h[i] \in {g[k] : k \in DOMAIN g}
    <3>1. i \in DOMAIN g /\ g[i] = h[i]
      BY <1>0, <1>31
    <3> QED BY <3>1
  <2>3. ASSUME NEW m \in (D + 1)..(D + n) PROVE m \in {g[k] : k \in DOMAIN g}
    <3>1. m - D + N \in (N + 1)..(N + n)
      BY <1>0
    <3>2. PICK k \in (N + 1)..(N + n) : k = m - D + N
      BY <3>1
    <3>3. g[k] = D + (k - N) /\ k \in 1..(N + n)
      BY <1>0, <1>32
    <3>4. g[k] = m
      BY <1>0, <3>2, <3>3
    <3> QED BY <1>0, <3>3, <3>4
  <2> QED BY <2>1, <2>2, <2>3
<1> QED BY <1>1, <1>4, <1>5 DEF g, GoesOn

\* A batch that is taken is dispatched up to the event whose listener throws.
LEMMA PollSound ==
  ASSUME SdkInv, NEW n \in 0..Len(eventQueue), App!pollWasmEvents(n)
  PROVE  SdkInv'
<1> DEFINE L == Len(eventQueue)
           D == Drained
           t == [i \in 1..n |-> eventQueue[i].no]
<1>1. /\ eventQueue' = <<>> /\ produced' = produced /\ heard' = heard \o t
  BY DEF App!pollWasmEvents, App!core_poll_events
<1>2. L \in Nat /\ produced \in Nat /\ D \in Nat /\ produced = D + L /\ n \in Nat /\ n <= L
  BY LenProperties DEF SdkInv, QueueInv, Drained
<1>3. \A i \in 1..L : eventQueue[i].no = D + i
  BY DEF SdkInv, QueueInv
<1>4. \A i \in 1..n : eventQueue[i].no \in Nat
  BY <1>2, <1>3
<1>5. t \in Seq(Nat) /\ Len(t) = n /\ \A i \in 1..n : t[i] = D + i
  BY <1>2, <1>3, <1>4
<1>6. /\ heard \in Seq(Nat) /\ \A i \in DOMAIN heard : heard[i] \in 1..D
      /\ \A i, j \in DOMAIN heard : i < j => heard[i] < heard[j]
  BY DEF SdkInv, HistoryInv, App!Dispatched, App!HeardInOrder
<1>7. Drained' = produced /\ QueueInv'
  <2>1. <<>> \in Seq([no : Nat, kind : App!Kinds]) /\ Len(<<>>) = 0
    OBVIOUS
  <2> QED BY <1>1, <1>2, <2>1 DEF QueueInv, Drained
<1> HIDE DEF t, D, L
<1>8. /\ heard' \in Seq(Nat) /\ App!HeardInOrder' /\ App!Dispatched' = App!Dispatched \cup (D + 1)..(D + n)
  <2>1. GoesOn(heard \o t, heard, D, n)
    BY <1>2, <1>5, <1>6, HeardMore
  <2>2. GoesOn(heard', heard, D, n)
    BY <1>1, <2>1
  <2> QED BY <2>2 DEF GoesOn, App!HeardInOrder, App!Dispatched
<1>9. /\ App!Dispatched \cup lost = 1..D /\ App!Dispatched \cap lost = {} /\ threw \subseteq lost
      /\ App!DroppedBehindThrow
  BY DEF SdkInv, HistoryInv, D
<1>10. CASE n = L /\ lost' = lost /\ threw' = threw
  <2>1. App!Dispatched' \cup lost' = 1..produced
    <3>1. 1..D \cup (D + 1)..(D + n) = 1..produced
      BY <1>2, <1>10
    <3> QED BY <1>8, <1>9, <1>10, <3>1
  <2>2. App!Dispatched' \cap lost' = {}
    <3>1. 1..D \cap (D + 1)..(D + n) = {}
      BY <1>2
    <3> QED BY <1>8, <1>9, <1>10, <3>1
  <2>3. App!DroppedBehindThrow'
    BY <1>9, <1>10 DEF App!DroppedBehindThrow
  <2> QED BY <1>7, <1>8, <1>9, <1>10, <2>1, <2>2, <2>3 DEF SdkInv, HistoryInv
<1>11. CASE /\ n < L /\ threw' = threw \cup {eventQueue[n + 1].no}
            /\ lost' = lost \cup {eventQueue[i].no : i \in (n + 1)..L}
  <2>1. threw' = threw \cup {D + n + 1}
    BY <1>2, <1>3, <1>11
  <2>2. lost' = lost \cup (D + n + 1)..produced
    <3>0. \A i \in (n + 1)..L : i \in 1..L
      BY <1>2
    <3>1. {eventQueue[i].no : i \in (n + 1)..L} = {D + i : i \in (n + 1)..L}
      BY <1>3, <3>0, Zenon
    <3>2. {D + i : i \in (n + 1)..L} = (D + n + 1)..produced
      <4>1. ASSUME NEW m \in (D + n + 1)..produced PROVE m \in {D + i : i \in (n + 1)..L}
        <5>1. m - D \in (n + 1)..L /\ m = D + (m - D)
          BY <1>2
        <5> QED BY <5>1
      <4>2. ASSUME NEW i \in (n + 1)..L PROVE D + i \in (D + n + 1)..produced
        BY <1>2
      <4> QED BY <4>1, <4>2
    <3> QED BY <1>11, <3>1, <3>2
  <2>3. App!Dispatched' \cup lost' = 1..produced
    <3>1. 1..D \cup (D + 1)..(D + n) \cup (D + n + 1)..produced = 1..produced
      BY <1>2
    <3> QED BY <1>8, <1>9, <2>2, <3>1
  <2>4. App!Dispatched' \cap lost' = {}
    <3>1. /\ 1..D \cap (D + 1)..(D + n) = {} /\ 1..D \cap (D + n + 1)..produced = {}
          /\ (D + 1)..(D + n) \cap (D + n + 1)..produced = {}
      BY <1>2
    <3> QED BY <1>8, <1>9, <2>2, <3>1
  <2>5. D + n + 1 \in (D + n + 1)..produced
    BY <1>2, <1>11
  <2>6. ASSUME NEW m \in lost' PROVE \E k \in threw' : k <= m /\ k..m \subseteq lost'
    <3>1. CASE m \in lost
      BY <1>9, <2>1, <2>2, <3>1 DEF App!DroppedBehindThrow
    <3>2. CASE m \in (D + n + 1)..produced
      <4>1. D + n + 1 <= m /\ (D + n + 1)..m \subseteq (D + n + 1)..produced
        BY <1>2, <3>2
      <4> QED BY <2>1, <2>2, <4>1
    <3> QED BY <2>2, <2>6, <3>1, <3>2
  <2>7. threw' \subseteq lost'
    BY <1>9, <2>1, <2>2, <2>5
  <2>8. App!DroppedBehindThrow'
    BY <2>6 DEF App!DroppedBehindThrow
  <2> QED BY <1>7, <1>8, <2>3, <2>4, <2>7, <2>8 DEF SdkInv, HistoryInv
<1> QED BY <1>10, <1>11 DEF App!pollWasmEvents, L

\* The calls that report an event.
LEMMA ReportSound ==
  ASSUME SdkInv,
         \/ \E did \in {"own"} \cup OtherDids : App!RevocationApplied(did)
         \/ \E e \in {"incident", "tier"} : App!push_wasm_events(<<e>>)
  PROVE  SdkInv'
<1>1. ASSUME NEW e \in {"incident", "tier"}, App!push_wasm_events(<<e>>) PROVE SdkInv'
  <2>1. <<e>> \in Seq(App!Kinds)
    BY DEF App!Kinds
  <2> QED BY <1>1, <2>1, PushSound
<1>2. ASSUME NEW did \in {"own"} \cup OtherDids, App!RevocationApplied(did) PROVE SdkInv'
  <2>1. PICK extra \in {<<>>, <<"incident">>} : App!push_wasm_events(<<"revoked">> \o extra)
    BY <1>2 DEF App!RevocationApplied, App!process_incoming_delta
  <2>2. <<"revoked">> \in Seq(App!Kinds) /\ extra \in Seq(App!Kinds)
    <3>1. "revoked" \in App!Kinds /\ "incident" \in App!Kinds
      BY DEF App!Kinds
    <3>2. <<"revoked">> \in Seq(App!Kinds) /\ <<"incident">> \in Seq(App!Kinds) /\ <<>> \in Seq(App!Kinds)
      BY <3>1
    <3>3. CASE extra = <<>>
      BY <3>2, <3>3
    <3>4. CASE extra = <<"incident">>
      BY <3>2, <3>4
    <3> QED BY <3>2, <3>3, <3>4
  <2>3. <<"revoked">> \o extra \in Seq(App!Kinds)
    BY <2>2
  <2> QED BY <2>1, <2>3, PushSound
<1> QED BY <1>1, <1>2

\* The numbering of the events is inductive.
LEMMA SdkInvariant == SdkSpec => []SdkInv
<1>1. App!Init => SdkInv
  <2> SUFFICES ASSUME App!Init PROVE SdkInv
    OBVIOUS
  <2>1. produced = 0 /\ eventQueue = <<>> /\ heard = <<>> /\ lost = {} /\ threw = {}
    BY DEF App!Init
  <2>2. <<>> \in Seq([no : Nat, kind : App!Kinds]) /\ <<>> \in Seq(Nat) /\ Len(<<>>) = 0 /\ DOMAIN <<>> = {}
    OBVIOUS
  <2>3. Drained = 0 /\ App!Dispatched = {}
    <3>0. Len(eventQueue) = 0 /\ produced = 0
      BY <2>1
    <3>1. Drained = 0
      BY ONLY <3>0 DEF Drained
    <3>2. App!Dispatched = {}
      <4>1. DOMAIN heard = {}
        BY <2>1, <2>2
      <4> QED BY <4>1 DEF App!Dispatched
    <3> QED BY <3>1, <3>2
  <2>4. QueueInv
    BY <2>1, <2>2 DEF QueueInv
  <2>5. App!HeardInOrder /\ App!DroppedBehindThrow
    BY <2>1, <2>2 DEF App!HeardInOrder, App!DroppedBehindThrow
  <2> QED BY <2>1, <2>2, <2>3, <2>4, <2>5 DEF SdkInv, HistoryInv
<1>2. ASSUME SdkInv, [App!Next]_(App!vars) PROVE SdkInv'
  <2>1. CASE UNCHANGED <<eventQueue, App!histories>>
    BY <1>2, <2>1 DEF SdkInv, QueueInv, HistoryInv, Drained, App!histories, App!Dispatched, App!HeardInOrder,
                      App!DroppedBehindThrow
  <2>2. CASE App!receivePeerMessage
    BY <1>2, <2>2, ReportSound DEF App!receivePeerMessage, App!core_receive_peer_message, App!receive_inbound_wasm
  <2>3. CASE App!ManagerOperation
    <3>1. CASE App!core_initiate_revocation
      BY <1>2, <2>3, <3>1, ReportSound DEF App!ManagerOperation, App!core_initiate_revocation
    <3>2. CASE App!core_close
      <4>1. "incident" \in {"incident", "tier"} /\ App!push_wasm_events(<<"incident">>)
        BY <2>3, <3>2 DEF App!ManagerOperation, App!core_close
      <4> QED BY <1>2, <4>1, ReportSound
    <3> QED BY <2>3, <3>1, <3>2 DEF App!ManagerOperation
  <2>4. ASSUME NEW c \in Calls, App!ReturnCall(c) PROVE SdkInv'
    BY <1>2, <2>4, PollSound DEF App!ReturnCall
  <2>5. ASSUME NEW c \in Calls,
               App!BeginCall(c) \/ App!ThrowCall(c) \/ App!Trap(c) \/ App!BeginToken(c) \/ App!ReturnToken(c)
        PROVE  UNCHANGED <<eventQueue, App!histories>>
    BY <2>5 DEF App!BeginCall, App!ThrowCall, App!Trap, App!BeginToken, App!ReturnToken
  <2>6. ASSUME App!core_init \/ App!init \/ App!RegisterKeyWithToken PROVE UNCHANGED <<eventQueue, App!histories>>
    BY <2>6 DEF App!core_init, App!init, App!RegisterKeyWithToken
  <2>7. ASSUME UNCHANGED App!vars PROVE UNCHANGED <<eventQueue, App!histories>>
    BY <2>7 DEF App!vars
  <2> QED BY <1>2, <2>1, <2>2, <2>3, <2>4, <2>5, <2>6, <2>7 DEF App!Next
<1> QED BY <1>1, <1>2, PTL DEF SdkSpec

\* The device takes the SDK's steps and leaves its variables alone otherwise.
LEMMA SdkRuns == DeviceSpec => SdkSpec
<1>1. DeviceInit => App!Init
  BY DEF DeviceInit
<1>2. [DeviceNext]_allVars => [App!Next]_(App!vars)
  BY DEF DeviceNext, allVars, sdkVars, App!vars, App!histories, RevocationStep, ContaminationStep, SqliteStep, IndexedDbStep,
         InitStep, SdkStep, OrderStep, LanguageStep
<1> QED BY <1>1, <1>2, PTL DEF DeviceSpec, SdkSpec

\* Every side effect of the core waits, reaches the application once and in
\* order, or was dropped behind an event whose listener threw, whichever
\* suspended call returns first, is rejected or runs over a handle that a second
\* core_init dropped (core_poll_events, _pollWasmEvents, core_ptr).
THEOREM EventsStayInOrder == DeviceSpec => []EventsOnceInOrder
<1>1. SdkInv => EventsOnceInOrder
  BY SdkPromise DEF EventsOnceInOrder
<1> QED BY <1>1, SdkRuns, SdkInvariant, PTL

\* A sequence whose elements all lie in a set.
LEMMA SeqNarrowed ==
  ASSUME NEW S, NEW T, NEW s \in Seq(S), \A i \in 1..Len(s) : s[i] \in T
  PROVE  s \in Seq(T)
<1>1. Len(s) \in Nat /\ DOMAIN s = 1..Len(s) /\ s \in [1..Len(s) -> S]
  BY LenProperties
<1>2. s \in [1..Len(s) -> T]
  BY <1>1
<1> QED BY <1>1, <1>2, SeqDef

\* What the numbering of the events says of the types of the queue.
LEMMA EventTypes ==
  ASSUME SdkInv
  PROVE  /\ eventQueue \in Seq([no : 1..produced, kind : App!Kinds]) /\ heard \in Seq(1..produced)
         /\ lost \subseteq 1..produced /\ threw \subseteq lost
<1>1. Len(eventQueue) \in Nat /\ Drained \in Nat /\ produced = Drained + Len(eventQueue) /\ produced \in Nat
  BY LenProperties DEF SdkInv, QueueInv, Drained
<1>2. /\ eventQueue \in Seq([no : Nat, kind : App!Kinds]) /\ heard \in Seq(Nat)
      /\ \A i \in 1..Len(eventQueue) : eventQueue[i].no = Drained + i
  BY DEF SdkInv, QueueInv, HistoryInv
<1>3. App!Dispatched \cup lost \subseteq 1..produced /\ threw \subseteq lost
  <2>1. 1..Drained \subseteq 1..produced
    BY <1>1
  <2> QED BY <2>1 DEF SdkInv, HistoryInv
<1>4. heard \in Seq(1..produced)
  <2>1. \A i \in 1..Len(heard) : heard[i] \in 1..produced
    BY <1>2, <1>3, LenProperties DEF App!Dispatched
  <2> QED BY <1>2, <2>1, SeqNarrowed, Zenon
<1>5. eventQueue \in Seq([no : 1..produced, kind : App!Kinds])
  <2>1. ASSUME NEW i \in 1..Len(eventQueue) PROVE eventQueue[i] \in [no : 1..produced, kind : App!Kinds]
    <3>0. eventQueue[i] \in [no : Nat, kind : App!Kinds]
      BY <1>2, LenProperties
    <3>1. eventQueue[i].no \in 1..produced
      BY <1>1, <1>2
    <3> QED BY <3>0, <3>1
  <2> QED BY <1>2, <2>1, SeqNarrowed, Zenon
<1> QED BY <1>3, <1>4, <1>5

\* Type correctness of the SDK and of the exports it calls.
THEOREM SdkTypes ==
  ASSUME MaxInits \in Nat, MaxEvents \in Nat
  PROVE  SdkSpec => []App!TypeOK
<1>1. App!Init /\ SdkInv => App!TypeOK
  <2> SUFFICES ASSUME App!Init, SdkInv PROVE App!TypeOK
    OBVIOUS
  <2>3. sdkCalls \in [Calls -> {"none", "io", "dangling", "trapped"} \cup App!SdkLevels]
    BY DEF App!Init
  <2>4. /\ core \in 0..MaxInits /\ level \in App!Levels /\ sdkRevoked \subseteq {"own"} \cup OtherDids
        /\ mirror \in App!Levels \cup App!SdkLevels /\ produced \in 0..MaxEvents
    BY DEF App!Init, App!Levels, App!SdkLevels
  <2>5. initialized \in BOOLEAN /\ unverifiedSince \in BOOLEAN
    BY DEF App!Init
  <2> QED BY <2>3, <2>4, <2>5, EventTypes DEF App!TypeOK
<1>2. SdkInv' => /\ (eventQueue \in Seq([no : 1..produced, kind : App!Kinds]))' /\ (heard \in Seq(1..produced))'
                 /\ (lost \subseteq 1..produced)' /\ (threw \subseteq lost)'
  BY EventTypes, PTL
<1>3. ASSUME SdkInv', App!TypeOK, [App!Next]_(App!vars) PROVE App!TypeOK'
  <2> USE DEF App!Levels, App!SdkLevels
  <2> DEFINE States == {"none", "io", "dangling", "trapped"} \cup App!SdkLevels
             Rest == /\ core \in 0..MaxInits /\ level \in App!Levels /\ sdkRevoked \subseteq {"own"} \cup OtherDids
                     /\ produced \in 0..MaxEvents /\ initialized \in BOOLEAN
                     /\ mirror \in App!Levels \cup App!SdkLevels /\ unverifiedSince \in BOOLEAN
                     /\ sdkCalls \in [Calls -> States]
  <2>0. Rest
    BY <1>3 DEF App!TypeOK
  <2> SUFFICES Rest'
    BY <1>2, <1>3 DEF App!TypeOK
  <2>1. CASE App!core_init \/ App!init \/ App!RegisterKeyWithToken
    <3>1. CASE App!core_init
      BY <2>0, <3>1 DEF App!core_init, App!sdkVars, App!histories
    <3>2. CASE App!init
      BY <2>0, <3>2 DEF App!init, App!core_trust_level, App!coreVars, App!histories
    <3>3. CASE App!RegisterKeyWithToken
      BY <2>0, <3>3 DEF App!RegisterKeyWithToken, App!sdkVars, App!histories
    <3> QED BY <2>1, <3>1, <3>2, <3>3
  <2>2. CASE App!receivePeerMessage \/ App!ManagerOperation
    <3>1. core' = core /\ sdkCalls' = sdkCalls /\ UNCHANGED <<initialized, mirror, unverifiedSince>>
      BY <2>2 DEF App!receivePeerMessage, App!ManagerOperation, App!sdkVars
    <3>2. ASSUME NEW es \in Seq(App!Kinds), App!push_wasm_events(es) PROVE produced' \in 0..MaxEvents
      BY <2>0, <3>2, LenProperties DEF App!push_wasm_events
    <3>3. ASSUME NEW e \in {"incident", "tier"}, App!push_wasm_events(<<e>>) PROVE produced' \in 0..MaxEvents
      <4>1. <<e>> \in Seq(App!Kinds)
        BY DEF App!Kinds
      <4> QED BY <3>2, <3>3, <4>1
    <3>4. ASSUME NEW did \in {"own"} \cup OtherDids, App!RevocationApplied(did)
          PROVE  /\ level' \in App!Levels /\ sdkRevoked' \subseteq {"own"} \cup OtherDids
                 /\ produced' \in 0..MaxEvents
      <4>1. sdkRevoked' = sdkRevoked \cup {did} /\ level' \in {"Revoked", level}
        BY <3>4 DEF App!RevocationApplied, App!process_incoming_delta
      <4>2. PICK extra \in {<<>>, <<"incident">>} : App!push_wasm_events(<<"revoked">> \o extra)
        BY <3>4 DEF App!RevocationApplied, App!process_incoming_delta
      <4>3. <<"revoked">> \in Seq(App!Kinds) /\ <<"incident">> \in Seq(App!Kinds) /\ <<>> \in Seq(App!Kinds)
        BY DEF App!Kinds
      <4>4. <<"revoked">> \o extra \in Seq(App!Kinds)
        <5>1. extra \in Seq(App!Kinds)
          <6>1. CASE extra = <<>>
            BY <4>3, <6>1
          <6>2. CASE extra = <<"incident">>
            BY <4>3, <6>2
          <6> QED BY <4>2, <6>1, <6>2
        <5> QED BY <4>3, <5>1
      <4>5. produced' \in 0..MaxEvents
        BY <3>2, <4>2, <4>4
      <4> QED BY <2>0, <4>1, <4>5
    <3>5. \/ \E did \in {"own"} \cup OtherDids : App!RevocationApplied(did)
          \/ (\E e \in {"incident", "tier"} : App!push_wasm_events(<<e>>)) /\ UNCHANGED <<level, sdkRevoked>>
      BY <2>2 DEF App!receivePeerMessage, App!ManagerOperation, App!core_receive_peer_message,
                 App!receive_inbound_wasm, App!core_initiate_revocation, App!core_close
    <3>6. level' \in App!Levels /\ sdkRevoked' \subseteq {"own"} \cup OtherDids /\ produced' \in 0..MaxEvents
      BY <2>0, <3>3, <3>4, <3>5
    <3> QED BY <2>0, <3>1, <3>6
  <2>3. ASSUME NEW c \in Calls, App!BeginCall(c) \/ App!ThrowCall(c) \/ App!Trap(c) PROVE Rest'
    BY <2>0, <2>3 DEF App!BeginCall, App!ThrowCall, App!Trap, App!sdkVars, App!coreVars, App!histories
  <2>4. ASSUME NEW c \in Calls, App!ReturnCall(c) PROVE Rest'
    <3>1. PICK n \in 0..Len(eventQueue) : App!pollWasmEvents(n)
      BY <2>4 DEF App!ReturnCall
    <3>2. PICK k : App!applyTrustLevelChange(App!ShownAfter(k))
      BY <3>1 DEF App!pollWasmEvents
    <3>3. mirror' \in {"REVOKED", mirror} /\ unverifiedSince' \in BOOLEAN
      BY <2>0, <3>2 DEF App!applyTrustLevelChange, App!ShownAfter
    <3>4. produced' = produced
      BY <3>1 DEF App!pollWasmEvents
    <3> QED BY <2>0, <2>4, <3>3, <3>4 DEF App!ReturnCall, App!coreVars
  <2>5. ASSUME NEW c \in Calls, App!ReturnToken(c) PROVE Rest'
    BY <2>0, <2>5 DEF App!ReturnToken, App!applyTrustLevelChange, App!coreVars, App!histories
  <2>6. ASSUME NEW c \in Calls, App!BeginToken(c) PROVE Rest'
    BY <2>0, <2>6 DEF App!BeginToken, App!core_present_token, App!sdkVars, App!histories
  <2>7. CASE UNCHANGED App!vars
    BY <2>0, <2>7 DEF App!vars, App!histories
  <2> QED BY <1>3, <2>1, <2>2, <2>3, <2>4, <2>5, <2>6, <2>7 DEF App!Next
<1> QED BY <1>1, <1>3, SdkInvariant, PTL DEF SdkSpec

-----------------------------------------------------------------------------
(* Contamination.                                                          *)

IdsOf(ns) == {n.id : n \in ns}

\* One round of the breadth-first walk.
Grown(ns, X) == UNION {{id} \cup Cce!Dag!children(ns, id) : id \in X}

\* What the engine and its DAG count.
LEMMA FiniteCount ==
  ASSUME NEW S, IsFiniteSet(S)
  PROVE  /\ Cce!Dag!Cardinality(S) \in Nat /\ Cce!Dag!Cardinality(S) = Cardinality(S)
         /\ Cce!Cardinality(S) = Cardinality(S)
<1>1. Cardinality(S) \in Nat
  BY FS_CardinalityType
<1> QED BY <1>1 DEF Cce!Dag!Cardinality, Cce!Cardinality, Cardinality

\* The walk below a root finds stored deltas, and the root.
LEMMA WalkWithin ==
  ASSUME NEW ns, IsFiniteSet(ns), NEW root
  PROVE  Cce!Dag!bfs_descendants(ns, root) \subseteq IdsOf(ns) \cup {root}
<1> DEFINE N == Cce!Dag!Cardinality(ns)
           S == SUBSET (IdsOf(ns) \cup {root})
           Walk(u) == u = [k \in 0 .. N |-> IF k = 0 THEN {root} ELSE Grown(ns, u[k - 1])]
           w == CHOOSE u : Walk(u)
           G == [X \in S |-> Grown(ns, X)]
<1>1. N \in Nat
  BY FiniteCount
<1>2. Cce!Dag!bfs_descendants(ns, root) = w[N]
  BY DEF Cce!Dag!bfs_descendants, Grown
<1>3. \A X \in S : Grown(ns, X) \in S
  BY DEF Grown, IdsOf, Cce!Dag!children
<1>4. {root} \in S /\ G \in [S -> S]
  BY <1>3
<1>5. \A X \in S : G[X] = Grown(ns, X)
  OBVIOUS
<1> HIDE DEF N, S, G
<1>6. \E u : Walk(u)
  <2>1. PICK u \in [0 .. N -> S] : u[0] = {root} /\ \A k \in 1 .. N : u[k] = G[u[k - 1]]
    BY <1>1, <1>4, Iteration
  <2>2. ASSUME NEW k \in 0 .. N PROVE u[k] = IF k = 0 THEN {root} ELSE Grown(ns, u[k - 1])
    <3>1. CASE k = 0
      BY <2>1, <3>1
    <3>2. CASE k # 0
      <4>1. k \in 1 .. N /\ k - 1 \in 0 .. N
        BY <1>1, <3>2
      <4>2. u[k - 1] \in S
        BY <4>1
      <4> QED BY <1>5, <2>1, <3>2, <4>1, <4>2
    <3> QED BY <3>1, <3>2
  <2>3. u = [k \in 0 .. N |-> IF k = 0 THEN {root} ELSE Grown(ns, u[k - 1])]
    BY <2>2
  <2> QED BY <2>3
<1>7. Walk(w)
  BY <1>6
<1> HIDE DEF w
<1>8. w[0] = {root} /\ \A k \in 1 .. N : w[k] = Grown(ns, w[k - 1])
  <2>1. PICK f : f = [k \in 0 .. N |-> IF k = 0 THEN {root} ELSE Grown(ns, w[k - 1])]
    OBVIOUS
  <2>2. w = f
    BY <1>7, <2>1
  <2> HIDE DEF Walk
  <2>3. f[0] = {root}
    BY <1>1, <2>1
  <2>4. ASSUME NEW k \in 1 .. N PROVE f[k] = Grown(ns, w[k - 1])
    <3>1. k \in 0 .. N /\ k # 0
      BY <1>1
    <3> QED BY <2>1, <3>1
  <2> QED BY <2>2, <2>3, <2>4
<1> DEFINE P == {k \in Nat : k <= N => w[k] \in S}
<1>9. 0 \in P
  BY <1>4, <1>8
<1>10. ASSUME NEW k \in P PROVE k + 1 \in P
  <2> SUFFICES ASSUME k + 1 <= N PROVE w[k + 1] \in S
    OBVIOUS
  <2>1. k \in Nat /\ w[k] \in S /\ k + 1 \in 1 .. N /\ (k + 1) - 1 = k
    BY <1>1
  <2>2. w[k + 1] = Grown(ns, w[k])
    BY <1>8, <2>1
  <2> QED BY <1>3, <2>1, <2>2
<1> HIDE DEF P
<1>11. P = Nat
  <2>1. P \in SUBSET Nat
    BY DEF P
  <2> QED BY <1>9, <1>10, <2>1, SetInduction
<1>12. w[N] \in S
  <2>1. N \in P /\ N <= N
    BY <1>1, <1>11
  <2> QED BY <2>1 DEF P
<1> QED BY <1>2, <1>12 DEF S

\* Roots and deltas of incidents: stored deltas and migration ids.
Known(ns) == IdsOf(ns) \cup Markers

\* A simple incident has one root; only composites have more.
Incident(K) ==
    {x \in [state : {"Open", "Superseded", "Decomposed", "Closed"}, roots : SUBSET K, deltas : SUBSET K,
            rows : SUBSET ProjectionRows, composite : BOOLEAN] :
        IsFiniteSet(x.roots) /\ (x.composite \/ \E r \in K : x.roots = {r})}

\* The fields of an incident.
LEMMA IncidentFields ==
  ASSUME NEW K, NEW x \in Incident(K)
  PROVE  /\ x.state \in {"Open", "Superseded", "Decomposed", "Closed"}
         /\ x.roots \in SUBSET K /\ x.deltas \in SUBSET K /\ x.rows \in SUBSET ProjectionRows
         /\ x.composite \in BOOLEAN /\ (~x.composite => \E r \in K : x.roots = {r}) /\ IsFiniteSet(x.roots)
  BY DEF Incident

\* Every change of an incident keeps its roots and its kind.
LEMMA IncidentChange ==
  ASSUME NEW K, NEW x \in Incident(K), NEW st \in {"Open", "Superseded", "Decomposed", "Closed"}, NEW more \in SUBSET K
  PROVE  /\ [x EXCEPT !.state = st] \in Incident(K)
         /\ [x EXCEPT !.deltas = @ \cup more] \in Incident(K)
<1>1. PICK y : y = [x EXCEPT !.state = st]
  OBVIOUS
<1>2. y \in [state : {"Open", "Superseded", "Decomposed", "Closed"}, roots : SUBSET K, deltas : SUBSET K,
             rows : SUBSET ProjectionRows, composite : BOOLEAN] /\ y.composite = x.composite /\ y.roots = x.roots
  BY <1>1 DEF Incident
<1>3. y \in Incident(K)
  BY <1>2 DEF Incident
<1>4. PICK z : z = [x EXCEPT !.deltas = @ \cup more]
  OBVIOUS
<1>5. z \in [state : {"Open", "Superseded", "Decomposed", "Closed"}, roots : SUBSET K, deltas : SUBSET K,
             rows : SUBSET ProjectionRows, composite : BOOLEAN] /\ z.composite = x.composite /\ z.roots = x.roots
  BY <1>4 DEF Incident
<1>6. z \in Incident(K)
  BY <1>5 DEF Incident
<1> QED BY <1>1, <1>3, <1>4, <1>6

\* A new incident is simple with one root, or composite.
LEMMA NewIncident ==
  ASSUME NEW K, NEW roots \in SUBSET K, NEW ds \in SUBSET K, NEW affected \in SUBSET ProjectionRows,
         NEW composite \in BOOLEAN, composite \/ \E r \in K : roots = {r}, IsFiniteSet(roots)
  PROVE  Cce!Ico(roots, ds, affected, composite) \in Incident(K)
<1>1. PICK y : y = [state |-> "Open", roots |-> roots, deltas |-> ds, rows |-> affected, composite |-> composite]
  OBVIOUS
<1>2. y \in [state : {"Open", "Superseded", "Decomposed", "Closed"}, roots : SUBSET K, deltas : SUBSET K,
             rows : SUBSET ProjectionRows, composite : BOOLEAN] /\ y.composite = composite /\ y.roots = roots
  BY <1>1
<1>3. y \in Incident(K)
  BY <1>2 DEF Incident
<1> QED BY <1>1, <1>3 DEF Cce!Ico

\* Incidents over known deltas stay so when more are known.
LEMMA IncidentsGrow ==
  ASSUME NEW K, NEW L, K \subseteq L, NEW icos \in Seq(Incident(K))
  PROVE  icos \in Seq(Incident(L))
<1>1. Incident(K) \subseteq Incident(L)
  BY DEF Incident
<1> QED BY <1>1

\* Every root of an incident is the root of an open one, or is in R.
OpenFor(icos, r) == \E k \in 1 .. Len(icos) : icos[k].state = "Open" /\ r \in icos[k].roots
Covered(icos, R) == \A i \in 1 .. Len(icos) : \A r \in icos[i].roots : r \in R \/ OpenFor(icos, r)

\* A new incident, alone or merged with an open one, keeps all roots covered.
LEMMA OpenedSound ==
  ASSUME NEW K, incidents \in Seq(Incident(K)), NEW root \in K, NEW ds \in SUBSET K, NEW affected \in SUBSET ProjectionRows,
         NEW R, Covered(incidents, R), NEW icos \in Cce!Opened(root, ds, affected)
  PROVE  icos \in Seq(Incident(K)) /\ Len(icos) >= 1 /\ Len(icos) >= Len(incidents) /\ Covered(icos, R)
<1>1. PICK new : new = Cce!Ico({root}, ds, affected, FALSE)
  OBVIOUS
<1>2. new \in Incident(K) /\ new.roots = {root} /\ new.state = "Open"
  <2>1. new \in Incident(K)
    BY <1>1, NewIncident, FS_Singleton
  <2> QED BY <1>1, <2>1 DEF Cce!Ico
<1>3. PICK all : all = Append(incidents, new)
  OBVIOUS
<1>4. PICK m : m = Len(incidents)
  OBVIOUS
<1>5. /\ m \in Nat /\ all \in Seq(Incident(K)) /\ Len(all) = m + 1 /\ all[m + 1] = new
      /\ \A i \in 1 .. m : all[i] = incidents[i]
  BY <1>2, <1>3, <1>4
<1>6. Covered(all, R)
  <2> SUFFICES ASSUME NEW i \in 1 .. (m + 1), NEW r \in all[i].roots PROVE r \in R \/ OpenFor(all, r)
    BY <1>5 DEF Covered
  <2>1. CASE i = m + 1
    <3>1. i \in 1 .. Len(all) /\ all[i].state = "Open"
      BY <1>2, <1>5, <2>1
    <3> QED BY <3>1 DEF OpenFor
  <2>2. CASE i # m + 1
    <3>1. i \in 1 .. m /\ all[i] = incidents[i]
      BY <1>5, <2>2
    <3>2. r \in R \/ \E k \in 1 .. m : incidents[k].state = "Open" /\ r \in incidents[k].roots
      BY <1>4, <3>1 DEF Covered, OpenFor
    <3>3. \A k \in 1 .. m : k \in 1 .. Len(all)
      BY <1>5
    <3> QED BY <1>5, <3>2, <3>3 DEF OpenFor
  <2> QED BY <2>1, <2>2
<1>7. CASE icos = all
  BY <1>4, <1>5, <1>6, <1>7
<1>8. ASSUME NEW a \in Cce!Overlapping(incidents, ds), icos \in Cce!composite_merge(all, a, m + 1)
      PROVE  icos \in Seq(Incident(K)) /\ Len(icos) = m + 2 /\ Covered(icos, R)
  <2>1. a \in 1 .. m /\ a # m + 1 /\ a \in 1 .. Len(all) /\ m + 1 \in 1 .. Len(all)
    BY <1>4, <1>5, <1>8 DEF Cce!Overlapping
  <2>0. PICK listed \in Cce!JoinedByKey(all[a].rows, all[m + 1].rows) :
          icos = Append([all EXCEPT ![a].state = "Superseded", ![m + 1].state = "Superseded"],
                        Cce!Ico(all[a].roots \cup all[m + 1].roots, all[a].deltas \cup all[m + 1].deltas, listed, TRUE))
    BY <1>8 DEF Cce!composite_merge
  <2> DEFINE b == m + 1
             old == [all EXCEPT ![a].state = "Superseded", ![b].state = "Superseded"]
             both == Cce!Ico(all[a].roots \cup all[b].roots, all[a].deltas \cup all[b].deltas,
                             listed, TRUE)
  <2>2. icos = Append(old, both)
    BY <2>0
  <2>3. \A i \in 1 .. b : all[i] \in Incident(K)
    BY <1>5
  <2>4. both \in Incident(K)
    <3>0. a \in 1 .. b /\ b \in 1 .. b
      BY <1>5, <2>1
    <3>1. all[a] \in Incident(K) /\ all[b] \in Incident(K)
      BY <2>3, <3>0
    <3>2. /\ all[a].roots \cup all[b].roots \in SUBSET K /\ all[a].deltas \cup all[b].deltas \in SUBSET K
          /\ all[a].rows \in SUBSET ProjectionRows /\ all[b].rows \in SUBSET ProjectionRows
      BY <3>1, IncidentFields
    <3>6. listed \in SUBSET ProjectionRows
      BY <3>2 DEF Cce!JoinedByKey
    <3>3. PICK x, y : x = all[a].roots /\ y = all[b].roots
      OBVIOUS
    <3>4. IsFiniteSet(x) /\ IsFiniteSet(y)
      BY <3>1, <3>3, IncidentFields
    <3>5. IsFiniteSet(x \cup y)
      BY <3>4, FS_Union
    <3> QED BY <3>2, <3>3, <3>5, <3>6, NewIncident
  <2>5. both.state = "Open" /\ both.roots = all[a].roots \cup all[b].roots
    BY DEF Cce!Ico
  <2>6. ASSUME NEW i \in 1 .. b
        PROVE  old[i] = IF i \in {a, b} THEN [all[i] EXCEPT !.state = "Superseded"] ELSE all[i]
    <3>1. PICK mid : mid = [all EXCEPT ![a].state = "Superseded"]
      OBVIOUS
    <3>2. DOMAIN all = 1 .. b
      BY <1>5
    <3>3. DOMAIN mid = 1 .. b /\ mid[i] = IF i = a THEN [all[i] EXCEPT !.state = "Superseded"] ELSE all[i]
      BY <3>1, <3>2
    <3>4. old = [mid EXCEPT ![b].state = "Superseded"]
      BY <3>1
    <3>5. old[i] = IF i = b THEN [mid[i] EXCEPT !.state = "Superseded"] ELSE mid[i]
      BY <3>3, <3>4
    <3>6. a # b
      BY <2>1
    <3> QED BY <3>3, <3>5, <3>6
  <2>7. ASSUME NEW i \in 1 .. b
        PROVE  /\ old[i] \in Incident(K) /\ old[i].roots = all[i].roots
               /\ i \notin {a, b} => old[i].state = all[i].state
    <3>1. all[i] \in Incident(K)
      BY <2>3
    <3>2. [all[i] EXCEPT !.state = "Superseded"] \in Incident(K)
      BY <3>1, IncidentChange
    <3>3. [all[i] EXCEPT !.state = "Superseded"].roots = all[i].roots
      BY <3>1 DEF Incident
    <3> QED BY <2>6, <3>1, <3>2, <3>3
  <2>8. DOMAIN old = 1 .. b /\ b \in Nat
    BY <1>5
  <2> HIDE DEF old, both
  <2>9. old \in Seq(Incident(K)) /\ Len(old) = b
    <3>1. old = [i \in 1 .. b |-> old[i]]
      BY <1>5, <2>8 DEF old
    <3>2. old \in [1 .. b -> Incident(K)]
      BY <2>7, <3>1
    <3> QED BY <2>8, <3>2
  <2>10. /\ icos \in Seq(Incident(K)) /\ Len(icos) = b + 1 /\ icos[b + 1] = both
         /\ \A i \in 1 .. b : icos[i] = old[i]
    BY <2>2, <2>4, <2>8, <2>9
  <2>11. \A r \in both.roots : OpenFor(icos, r)
    <3>1. b + 1 \in 1 .. Len(icos)
      BY <2>8, <2>10
    <3> QED BY <2>5, <2>10, <3>1 DEF OpenFor
  <2>12. \A r : OpenFor(all, r) => OpenFor(icos, r)
    <3> SUFFICES ASSUME NEW r, NEW k \in 1 .. Len(all), all[k].state = "Open", r \in all[k].roots
                 PROVE  OpenFor(icos, r)
      BY DEF OpenFor
    <3>0. k \in 1 .. b
      BY <1>5
    <3>1. CASE k \in {a, b}
      BY <2>5, <2>11, <3>1
    <3>2. CASE k \notin {a, b}
      <4>1. icos[k].state = "Open" /\ r \in icos[k].roots /\ k \in 1 .. Len(icos)
        BY <2>7, <2>8, <2>10, <3>0, <3>2
      <4> QED BY <4>1 DEF OpenFor
    <3> QED BY <3>1, <3>2
  <2>13. Covered(icos, R)
    <3> SUFFICES ASSUME NEW i \in 1 .. Len(icos), NEW r \in icos[i].roots PROVE r \in R \/ OpenFor(icos, r)
      BY DEF Covered
    <3>1. CASE i = b + 1
      BY <2>10, <2>11, <3>1
    <3>2. CASE i # b + 1
      <4>1. i \in 1 .. b /\ i \in 1 .. Len(all)
        BY <1>5, <2>8, <2>10, <3>2
      <4>2. r \in all[i].roots
        BY <2>7, <2>10, <4>1
      <4> QED BY <1>6, <2>12, <4>1, <4>2 DEF Covered
    <3> QED BY <3>1, <3>2
  <2> QED BY <1>5, <2>10, <2>13
<1>9. icos = all \/ \E a \in Cce!Overlapping(incidents, ds) : icos \in Cce!composite_merge(all, a, m + 1)
  BY <1>1, <1>3, <1>5 DEF Cce!Opened
<1> QED BY <1>4, <1>5, <1>7, <1>8, <1>9

\* The shape of the engine's state, its tag log and its incidents.
CceTyped ==
    /\ target \in {"native", "wasm"}
    /\ IsFiniteSet(cceNodes) /\ \A n \in cceNodes : n.row \in ProjectionRows /\ n.id \in 1 .. Cardinality(cceNodes)
    /\ cceRows \subseteq ProjectionRows /\ flags \subseteq cceRows
    /\ incidents \in Seq(Incident(Known(cceNodes)))
    /\ contaminated_rows \in [ProjectionRows -> (1 .. Len(incidents)) \cup {None}]
    /\ writeCall = None \/ writeCall \in [row : ProjectionRows, tag : BOOLEAN, root : IdsOf(cceNodes) \cup {None}]

\* Natively only stored deltas carry tags.
TagsInv ==
    target = "native" =>
        /\ resolved \subseteq IdsOf(cceNodes)
        /\ \A t \in contaminated : t[1] \in IdsOf(cceNodes)
        /\ \A t \in decontaminated : t[1] \in IdsOf(cceNodes)

CceInv == CceTyped /\ TagsInv /\ Covered(incidents, resolved \cup closed) /\ Cce!ClearedWhenResolved

\* Covered roots are no orphans.
LEMMA CoveredIsNoOrphan == Covered(incidents, resolved \cup closed) => Cce!NoOrphanRoot
  BY DEF Covered, OpenFor, Cce!NoOrphanRoot, Cce!OpenRoots

\* What a walk and the rows it affects can be.
LEMMA WalkTypes ==
  ASSUME CceTyped, NEW root \in Known(cceNodes)
  PROVE  /\ Cce!walk_dag_descendants(root) \in SUBSET Known(cceNodes)
         /\ \A ds : Cce!resolve_affected_rows(ds) \in SUBSET ProjectionRows
         /\ target = "native" => \A ds : Cce!resolve_affected_rows(ds) = cceRows
         /\ root \in IdsOf(cceNodes) => Cce!walk_dag_descendants(root) \in SUBSET IdsOf(cceNodes)
<1>1. Cce!Dag!bfs_descendants(cceNodes, root) \subseteq IdsOf(cceNodes) \cup {root}
  BY WalkWithin DEF CceTyped
<1>2. Cce!walk_dag_descendants(root) \in {Cce!Dag!bfs_descendants(cceNodes, root), {root}}
  BY DEF Cce!walk_dag_descendants
<1>3. \A ds : Cce!resolve_affected_rows(ds) \in SUBSET ProjectionRows
  BY DEF Cce!resolve_affected_rows, CceTyped
<1>4. target = "native" => \A ds : Cce!resolve_affected_rows(ds) = cceRows
  BY DEF Cce!resolve_affected_rows, Cce!Native
<1> QED BY <1>1, <1>2, <1>3, <1>4 DEF Known

\* Tagging a root.
LEMMA TagRootSound ==
  ASSUME CceInv, NEW root \in Known(cceNodes), Cce!TagRoot(root),
         UNCHANGED <<target, cceNodes, cceRows, decontaminated, resolved, closed>>,
         writeCall' \in {writeCall, None}
  PROVE  CceInv'
<1> DEFINE ds == Cce!walk_dag_descendants(root)
           affected == Cce!resolve_affected_rows(ds)
           K == Known(cceNodes)
<1>0. CceTyped /\ TagsInv /\ Covered(incidents, resolved \cup closed) /\ Cce!ClearedWhenResolved
  BY DEF CceInv
<1>1. ds \in SUBSET K /\ affected \in SUBSET ProjectionRows /\ (target = "native" => affected = cceRows)
  BY <1>0, WalkTypes
<1> HIDE DEF ds, affected
<1>2. /\ \E icos \in Cce!Opened(root, ds, affected) :
              /\ incidents' = icos
              /\ contaminated_rows' = Cce!Point(contaminated_rows, icos[Len(icos)].rows, Len(icos))
      /\ contaminated' = contaminated \cup {<<d, root>> : d \in {x \in ds : Cce!Taggable(x)}}
      /\ flags' = IF target = "native" THEN flags \cup affected ELSE flags
  BY DEF Cce!TagRoot, ds, affected, Cce!Native
<1>3. /\ incidents' \in Cce!Opened(root, ds, affected)
      /\ contaminated_rows' = Cce!Point(contaminated_rows, incidents'[Len(incidents')].rows, Len(incidents'))
  BY <1>2
<1>4. incidents \in Seq(Incident(K))
  BY <1>0 DEF CceTyped
<1>5. /\ incidents' \in Seq(Incident(K)) /\ Len(incidents') >= 1 /\ Len(incidents') >= Len(incidents)
      /\ Covered(incidents', resolved \cup closed)
  BY <1>0, <1>1, <1>3, <1>4, OpenedSound
<1>6. contaminated_rows' \in [ProjectionRows -> (1 .. Len(incidents')) \cup {None}]
  <2>1. Len(incidents) \in Nat /\ Len(incidents') \in Nat /\ Len(incidents') \in 1 .. Len(incidents')
    BY <1>4, <1>5
  <2>2. (1 .. Len(incidents)) \subseteq (1 .. Len(incidents'))
    BY <1>5, <2>1
  <2> QED BY <1>0, <1>3, <2>1, <2>2 DEF Cce!Point, CceTyped
<1>7. flags' \subseteq cceRows
  BY <1>0, <1>1, <1>2 DEF CceTyped
<1>8. target = "native" => \A t \in contaminated' : t[1] \in IdsOf(cceNodes)
  <2> SUFFICES ASSUME target = "native", NEW t \in contaminated' PROVE t[1] \in IdsOf(cceNodes)
    OBVIOUS
  <2>1. CASE t \in contaminated
    BY <1>0, <2>1 DEF TagsInv
  <2>2. CASE t \notin contaminated
    <3>1. PICK d \in ds : Cce!Taggable(d) /\ t = <<d, root>>
      BY <1>2, <2>2
    <3> QED BY <3>1 DEF Cce!Taggable, Cce!Native, Cce!Ids, IdsOf
  <2> QED BY <2>1, <2>2
<1>9. CceTyped'
  BY <1>0, <1>5, <1>6, <1>7 DEF CceTyped
<1>10. TagsInv'
  BY <1>0, <1>8 DEF TagsInv
<1>11. Covered(incidents', resolved' \cup closed') /\ Cce!ClearedWhenResolved'
  BY <1>0, <1>5 DEF Cce!ClearedWhenResolved
<1> QED BY <1>9, <1>10, <1>11 DEF CceInv

\* Deltas are numbered by arrival.
LEMMA NewNode ==
  ASSUME IsFiniteSet(cceNodes), \A n \in cceNodes : n.id \in 1 .. Cardinality(cceNodes),
         NEW new, new.id = Cce!Cardinality(cceNodes) + 1, cceNodes' = cceNodes \cup {new}
  PROVE  /\ IsFiniteSet(cceNodes') /\ \A n \in cceNodes' : n.id \in 1 .. Cardinality(cceNodes')
         /\ Cce!Cardinality(cceNodes') = new.id
<1>1. PICK c : c = Cardinality(cceNodes)
  OBVIOUS
<1>2. c \in Nat /\ Cce!Cardinality(cceNodes) = c
  BY <1>1, FiniteCount, FS_CardinalityType
<1>3. new \notin cceNodes
  BY <1>1, <1>2
<1>4. IsFiniteSet(cceNodes') /\ Cardinality(cceNodes') = c + 1
  BY <1>1, <1>3, FS_AddElement
<1>5. Cce!Cardinality(cceNodes') = c + 1
  BY <1>4, FiniteCount
<1>6. \A n \in cceNodes : n.id \in 1 .. c
  BY <1>1
<1>7. \A n \in cceNodes : n.id \in 1 .. (c + 1)
  BY <1>2, <1>6
<1>8. new.id \in 1 .. (c + 1)
  BY <1>2
<1> QED BY <1>2, <1>4, <1>5, <1>7, <1>8

\* A stored delta makes more ids known and changes no incident.
LEMMA InsertSound ==
  ASSUME CceInv, NEW r \in ProjectionRows, NEW ps, Cce!Insert(r, ps),
         UNCHANGED <<target, flags, contaminated, decontaminated, resolved, incidents, contaminated_rows, closed>>,
         writeCall' = None \/ writeCall' \in [row : ProjectionRows, tag : BOOLEAN, root : IdsOf(cceNodes') \cup {None}]
  PROVE  CceInv'
<1> DEFINE new == [id |-> Cce!Cardinality(cceNodes) + 1, parents |-> ps, row |-> r]
<1>0. CceTyped /\ TagsInv /\ Covered(incidents, resolved \cup closed) /\ Cce!ClearedWhenResolved
  BY DEF CceInv
<1>1. cceNodes' = cceNodes \cup {new} /\ cceRows' = cceRows \cup {r}
  BY DEF Cce!Insert
<1>2. new.row = r /\ new.id = Cce!Cardinality(cceNodes) + 1
  OBVIOUS
<1> HIDE DEF new
<1>3. IsFiniteSet(cceNodes') /\ \A n \in cceNodes' : n.id \in 1 .. Cardinality(cceNodes')
  BY <1>0, <1>1, <1>2, NewNode DEF CceTyped
<1>4. IdsOf(cceNodes) \subseteq IdsOf(cceNodes') /\ Known(cceNodes) \subseteq Known(cceNodes')
  BY <1>1 DEF IdsOf, Known
<1>5. incidents' \in Seq(Incident(Known(cceNodes')))
  BY <1>0, <1>4, IncidentsGrow DEF CceTyped
<1>6. CceTyped'
  BY <1>0, <1>1, <1>2, <1>3, <1>5 DEF CceTyped
<1>7. TagsInv'
  BY <1>0, <1>4 DEF TagsInv
<1>8. Covered(incidents', resolved' \cup closed') /\ Cce!ClearedWhenResolved'
  BY <1>0 DEF Cce!ClearedWhenResolved
<1> QED BY <1>6, <1>7, <1>8 DEF CceInv

-----------------------------------------------------------------------------
(* verify_data. *)

\* Late arrivals are known deltas.
LEMMA LateWithin ==
  ASSUME CceTyped, NEW ico, NEW roots \in SUBSET Known(cceNodes)
  PROVE  Cce!Late(ico, roots) \in SUBSET Known(cceNodes)
<1>1. \A r \in roots : Cce!walk_dag_descendants(r) \in SUBSET Known(cceNodes)
  BY WalkTypes
<1> QED BY <1>1 DEF Cce!Late

\* Incidents that differ in their deltas only.
Alike(x, y) == x.roots = y.roots /\ x.rows = y.rows /\ x.composite = y.composite

\* Late arrivals change the deltas of an incident only.
LEMMA JoinedSound ==
  ASSUME CceTyped, NEW icos \in Seq(Incident(Known(cceNodes))), NEW root, NEW res, NEW new, new = Cce!Joined(icos, root, res)
  PROVE  /\ new \in Seq(Incident(Known(cceNodes))) /\ Len(new) = Len(icos)
         /\ \A i \in 1 .. Len(icos) : Alike(new[i], icos[i]) /\ new[i].state = icos[i].state
<1> DEFINE K == Known(cceNodes)
<1>1. PICK n : n = Len(icos)
  OBVIOUS
<1>2. n \in Nat /\ \A i \in 1 .. n : icos[i] \in Incident(K)
  BY <1>1
<1>3. ASSUME NEW i \in 1 .. n
      PROVE  new[i] \in Incident(K) /\ Alike(new[i], icos[i]) /\ new[i].state = icos[i].state
  <2>1. PICK late : late = Cce!Late(icos[i], Cce!WalkedRoots(icos[i], res))
    OBVIOUS
  <2>2. new[i] \in {icos[i], [icos[i] EXCEPT !.deltas = @ \cup late]}
    BY <1>1, <2>1 DEF Cce!Joined
  <2>3. icos[i] \in Incident(K)
    BY <1>2
  <2>4. Cce!WalkedRoots(icos[i], res) \in SUBSET K
    BY <2>3, IncidentFields DEF Cce!WalkedRoots
  <2>5. late \in SUBSET K
    BY <2>1, <2>4, LateWithin
  <2>6. [icos[i] EXCEPT !.deltas = @ \cup late] \in Incident(K)
    BY <2>3, <2>5, IncidentChange
  <2>7. PICK x : x = icos[i]
    OBVIOUS
  <2>8. Alike([x EXCEPT !.deltas = @ \cup late], x) /\ [x EXCEPT !.deltas = @ \cup late].state = x.state
    BY <2>3, <2>7 DEF Alike, Incident
  <2> QED BY <2>2, <2>3, <2>6, <2>7, <2>8 DEF Alike
<1>4. new = [i \in 1 .. n |-> new[i]]
  BY <1>1 DEF Cce!Joined
<1>5. new \in [1 .. n -> Incident(K)]
  BY <1>3, <1>4
<1> QED BY <1>1, <1>2, <1>3, <1>5

\* Taking composites apart changes their state only.
LEMMA ApartSound ==
  ASSUME NEW K, NEW icos \in Seq(Incident(K)), NEW root, NEW new, new = Cce!TakenApart(icos, root)
  PROVE  /\ new \in Seq(Incident(K)) /\ Len(new) = Len(icos)
         /\ \A i \in 1 .. Len(icos) :
               /\ Alike(new[i], icos[i])
               /\ ~(root \in icos[i].roots /\ icos[i].composite) => new[i].state = icos[i].state
<1>1. PICK n : n = Len(icos)
  OBVIOUS
<1>2. n \in Nat /\ \A i \in 1 .. n : icos[i] \in Incident(K)
  BY <1>1
<1>3. ASSUME NEW i \in 1 .. n
      PROVE  /\ new[i] \in Incident(K) /\ Alike(new[i], icos[i])
             /\ ~(root \in icos[i].roots /\ icos[i].composite) => new[i].state = icos[i].state
  <2>1. PICK x : x = icos[i]
    OBVIOUS
  <2>2. new[i] = IF root \in x.roots /\ x.composite THEN [x EXCEPT !.state = "Decomposed"] ELSE x
    BY <1>1, <2>1 DEF Cce!TakenApart, Cce!Listing
  <2>3. x \in Incident(K)
    BY <1>2, <2>1
  <2>4. [x EXCEPT !.state = "Decomposed"] \in Incident(K)
    <3>1. {} \in SUBSET K
      OBVIOUS
    <3> QED BY <2>3, <3>1, IncidentChange
  <2>5. Alike([x EXCEPT !.state = "Decomposed"], x)
    BY <2>3 DEF Alike, Incident
  <2> QED BY <2>1, <2>2, <2>3, <2>4, <2>5 DEF Alike
<1>4. new = [i \in 1 .. n |-> new[i]]
  BY <1>1 DEF Cce!TakenApart
<1>5. new \in [1 .. n -> Incident(K)]
  BY <1>3, <1>4
<1> QED BY <1>1, <1>2, <1>3, <1>5

\* Fresh incidents are open, simple and cover one survivor each.
LEMMA FreshSound ==
  ASSUME CceTyped, NEW c \in Nat, NEW order, DOMAIN order = 1 .. c, Len(order) = c,
         \A k \in 1 .. c : order[k][2] \in Known(cceNodes), NEW new, new = Cce!Fresh(order)
  PROVE  /\ new \in Seq(Incident(Known(cceNodes))) /\ Len(new) = c
         /\ \A k \in 1 .. c : /\ new[k].state = "Open" /\ new[k].roots = {order[k][2]}
                              /\ target = "native" => new[k].rows = cceRows
<1> DEFINE K == Known(cceNodes)
<1>1. ASSUME NEW k \in 1 .. c
      PROVE  /\ new[k] \in Incident(K) /\ new[k].state = "Open" /\ new[k].roots = {order[k][2]}
             /\ target = "native" => new[k].rows = cceRows
  <2>1. PICK r : r = order[k][2]
    OBVIOUS
  <2>2. PICK ds : ds = Cce!walk_dag_descendants(r)
    OBVIOUS
  <2>3. PICK affected : affected = Cce!resolve_affected_rows(ds)
    OBVIOUS
  <2>4. new[k] = Cce!Ico({r}, ds, affected, FALSE)
    BY <2>1, <2>2, <2>3 DEF Cce!Fresh
  <2>5. r \in K /\ ds \in SUBSET K /\ affected \in SUBSET ProjectionRows /\ (target = "native" => affected = cceRows)
    BY <2>1, <2>2, <2>3, WalkTypes
  <2>6. Cce!Ico({r}, ds, affected, FALSE) \in Incident(K)
    <3>1. {r} \in SUBSET K /\ IsFiniteSet({r}) /\ (\E q \in K : {r} = {q}) /\ FALSE \in BOOLEAN
      BY <2>5, FS_Singleton
    <3> QED BY <2>5, <3>1, NewIncident
  <2> QED BY <2>1, <2>4, <2>5, <2>6 DEF Cce!Ico
<1>2. new = [k \in 1 .. c |-> new[k]]
  BY DEF Cce!Fresh
<1>3. new \in [1 .. c -> Incident(K)]
  BY <1>1, <1>2
<1> QED BY <1>1, <1>3

\* The surviving roots of composites are finitely many.
LEMMA SurvivorsFinite ==
  ASSUME NEW K, NEW icos \in Seq(Incident(K)), NEW root, NEW res
  PROVE  IsFiniteSet(Cce!Survivors(icos, root, res))
<1>1. PICK n : n = Len(icos)
  OBVIOUS
<1>2. n \in Nat /\ \A i \in 1 .. n : icos[i] \in Incident(K)
  BY <1>1
<1> DEFINE f == [i \in 1 .. n |-> icos[i].roots]
           T == {icos[i].roots : i \in 1 .. n}
<1>3. IsFiniteSet(1 .. n)
  BY <1>2, FS_Interval
<1>4. f \in Surjection(1 .. n, T)
  BY DEF Surjection
<1>5. IsFiniteSet(T)
  BY <1>3, <1>4, FS_Surjection
<1>6. \A t \in T : IsFiniteSet(t)
  BY <1>2, IncidentFields
<1>7. IsFiniteSet(UNION T)
  BY <1>5, <1>6, FS_UNION
<1>8. IsFiniteSet((1 .. n) \X UNION T)
  BY <1>3, <1>7, FS_Product
<1>9. Cce!Survivors(icos, root, res) \subseteq (1 .. n) \X UNION T
  BY <1>1 DEF Cce!Survivors, Cce!Listing
<1> QED BY <1>8, <1>9, FS_Subset

\* An order lists every member.
LEMMA OrderLists ==
  ASSUME NEW S, IsFiniteSet(S), NEW order \in Cce!Orders(S)
  PROVE  \E c \in Nat : /\ order \in [1 .. c -> S] /\ Len(order) = c
                        /\ \A s \in S : \E k \in 1 .. c : order[k] = s
<1>1. PICK c : c = Cardinality(S)
  OBVIOUS
<1>2. c \in Nat /\ Cce!Cardinality(S) = c
  BY <1>1, FiniteCount, FS_CardinalityType
<1>3. order \in [1 .. c -> S] /\ \A i, k \in 1 .. c : order[i] = order[k] => i = k
  BY <1>2 DEF Cce!Orders
<1>4. order \in Injection(1 .. c, S)
  BY <1>3 DEF Injection, IsInjective
<1>5. Cardinality(1 .. c) = c
  <2>1. 1 \in Int /\ c \in Int
    BY <1>2
  <2>2. Cardinality(1 .. c) = IF 1 > c THEN 0 ELSE c - 1 + 1
    BY <2>1, FS_Interval
  <2> QED BY <1>2, <2>2
<1>6. order \in Surjection(1 .. c, S)
  BY <1>1, <1>4, <1>5, FS_Injection
<1>7. \A s \in S : \E k \in 1 .. c : order[k] = s
  BY <1>6 DEF Surjection
<1> QED BY <1>2, <1>3, <1>7

\* What verify_data makes of the incidents: the composites of the root are taken
\* apart, and c fresh incidents cover their unresolved roots.
Recovered(old, new, root, res, c) ==
    /\ new \in Seq(Incident(Known(cceNodes))) /\ Len(new) = Len(old) + c
    /\ \A i \in 1 .. Len(old) :
          /\ Alike(new[i], old[i])
          /\ ~(root \in old[i].roots /\ old[i].composite) => new[i].state = old[i].state
          /\ root \in old[i].roots /\ old[i].composite =>
               \A r \in old[i].roots \ res : \E k \in 1 .. c : new[Len(old) + k].roots = {r}
    /\ \A k \in 1 .. c : /\ new[Len(old) + k].state = "Open" /\ new[Len(old) + k].rows = cceRows
                         /\ \E r \in Known(cceNodes) \ res : new[Len(old) + k].roots = {r}

\* It is what verify_data does.
LEMMA VerifyRecovers ==
  ASSUME CceTyped, NEW root, Cce!verify_data(root)
  PROVE  /\ \E c \in Nat : Recovered(incidents, incidents', root, resolved', c)
         /\ flags' \subseteq cceRows
         /\ contaminated_rows' =
               Cce!Pruned(Cce!Repointed(contaminated_rows, Len(incidents), incidents'), incidents', resolved')
<1> DEFINE K == Known(cceNodes)
<1>1. PICK res : res = resolved'
  OBVIOUS
<1>2. PICK old : old = incidents
  OBVIOUS
<1>3. PICK J : J = Cce!Joined(old, root, res)
  OBVIOUS
<1>4. PICK order \in Cce!Orders(Cce!Survivors(J, root, res)) :
         /\ incidents' = Cce!TakenApart(J, root) \o Cce!Fresh(order)
         /\ flags' \subseteq flags \cup cceRows
         /\ contaminated_rows' = Cce!Pruned(Cce!Repointed(contaminated_rows, Len(old), incidents'), incidents', res)
  BY <1>1, <1>2, <1>3 DEF Cce!verify_data
<1>5. PICK n : n = Len(old)
  OBVIOUS
<1>6. old \in Seq(Incident(K)) /\ n \in Nat /\ target = "native"
  BY <1>2, <1>5 DEF CceTyped, Cce!verify_data, Cce!Native
<1>7. /\ J \in Seq(Incident(K)) /\ Len(J) = n
      /\ \A i \in 1 .. n : Alike(J[i], old[i]) /\ J[i].state = old[i].state
  BY <1>3, <1>5, <1>6, JoinedSound
<1>8. PICK A : A = Cce!TakenApart(J, root)
  OBVIOUS
<1>9. /\ A \in Seq(Incident(K)) /\ Len(A) = n
      /\ \A i \in 1 .. n : /\ Alike(A[i], J[i])
                           /\ ~(root \in J[i].roots /\ J[i].composite) => A[i].state = J[i].state
  BY <1>7, <1>8, ApartSound
<1>10. PICK S : S = Cce!Survivors(J, root, res)
  OBVIOUS
<1>11. IsFiniteSet(S)
  BY <1>7, <1>10, SurvivorsFinite
<1>12. PICK c \in Nat : /\ order \in [1 .. c -> S] /\ Len(order) = c
                        /\ \A s \in S : \E k \in 1 .. c : order[k] = s
  <2>1. order \in Cce!Orders(S)
    BY <1>4, <1>10
  <2> QED BY <1>11, <2>1, OrderLists
<1>13. \A s \in S : s[2] \in K /\ s[2] \notin res
  <2> SUFFICES ASSUME NEW s \in S PROVE s[2] \in K /\ s[2] \notin res
    OBVIOUS
  <2>1. PICK i \in 1 .. n : \E r \in J[i].roots \ res : s = <<i, r>>
    BY <1>7, <1>10 DEF Cce!Survivors, Cce!Listing
  <2>2. J[i] \in Incident(K)
    BY <1>7
  <2>3. J[i].roots \in SUBSET K
    BY <2>2, IncidentFields
  <2> QED BY <2>1, <2>3
<1>14. \A i \in 1 .. n : root \in J[i].roots /\ J[i].composite => \A r \in J[i].roots \ res : <<i, r>> \in S
  BY <1>7, <1>10 DEF Cce!Survivors, Cce!Listing
<1>15. PICK F : F = Cce!Fresh(order)
  OBVIOUS
<1>16. \A k \in 1 .. c : order[k] \in S /\ order[k][2] \in K
  BY <1>12, <1>13
<1>17. /\ F \in Seq(Incident(K)) /\ Len(F) = c
       /\ \A k \in 1 .. c : F[k].state = "Open" /\ F[k].roots = {order[k][2]} /\ F[k].rows = cceRows
  <2>1. DOMAIN order = 1 .. c /\ Len(order) = c
    BY <1>12
  <2>2. \A k \in 1 .. c : order[k][2] \in Known(cceNodes)
    BY <1>16
  <2>3. /\ F \in Seq(Incident(Known(cceNodes))) /\ Len(F) = c
        /\ \A k \in 1 .. c : /\ F[k].state = "Open" /\ F[k].roots = {order[k][2]}
                             /\ target = "native" => F[k].rows = cceRows
    BY <1>15, <2>1, <2>2, FreshSound
  <2>4. \A k \in 1 .. c : F[k].state = "Open" /\ F[k].roots = {order[k][2]} /\ F[k].rows = cceRows
    BY <1>6, <2>3, Zenon
  <2> QED BY <2>3, <2>4, Zenon
<1>18. PICK new : new = incidents'
  OBVIOUS
<1>19. /\ new \in Seq(Incident(K)) /\ Len(new) = n + c
       /\ \A i \in 1 .. n : new[i] = A[i]
       /\ \A k \in 1 .. c : new[n + k] = F[k]
  <2>1. new = A \o F
    BY <1>4, <1>8, <1>15, <1>18
  <2>2. new \in Seq(Incident(K)) /\ Len(new) = n + c
    <3>1. PICK X : X = Incident(K)
      OBVIOUS
    <3>2. A \in Seq(X) /\ F \in Seq(X) /\ Len(A) = n /\ Len(F) = c
      BY <1>9, <1>17, <3>1
    <3>3. A \o F \in Seq(X) /\ Len(A \o F) = Len(A) + Len(F)
      BY <3>2
    <3>4. new \in Seq(X) /\ Len(new) = n + c
      BY <2>1, <3>2, <3>3, Zenon
    <3> QED BY <3>1, <3>4, Zenon
  <2>3. \A i \in 1 .. (n + c) : new[i] = IF i <= n THEN A[i] ELSE F[i - n]
    BY <1>9, <1>17, <2>1
  <2>4. \A i \in 1 .. n : i \in 1 .. (n + c) /\ i <= n
    BY <1>6, <1>12
  <2>5. \A k \in 1 .. c : n + k \in 1 .. (n + c) /\ ~(n + k <= n) /\ (n + k) - n = k
    BY <1>6, <1>12
  <2> QED BY <2>2, <2>3, <2>4, <2>5
<1>20. \A i \in 1 .. n :
          /\ Alike(new[i], old[i])
          /\ ~(root \in old[i].roots /\ old[i].composite) => new[i].state = old[i].state
          /\ root \in old[i].roots /\ old[i].composite =>
               \A r \in old[i].roots \ res : \E k \in 1 .. c : new[n + k].roots = {r}
  <2> SUFFICES ASSUME NEW i \in 1 .. n
               PROVE  /\ Alike(new[i], old[i])
                      /\ ~(root \in old[i].roots /\ old[i].composite) => new[i].state = old[i].state
                      /\ root \in old[i].roots /\ old[i].composite =>
                           \A r \in old[i].roots \ res : \E k \in 1 .. c : new[n + k].roots = {r}
    OBVIOUS
  <2>1. Alike(J[i], old[i]) /\ J[i].state = old[i].state /\ Alike(A[i], J[i]) /\ new[i] = A[i]
    <3>1. Alike(J[i], old[i]) /\ J[i].state = old[i].state
      BY <1>7
    <3>2. Alike(A[i], J[i])
      BY <1>9, Zenon
    <3>3. new[i] = A[i]
      BY <1>19
    <3> QED BY <3>1, <3>2, <3>3
  <2>2. J[i].roots = old[i].roots /\ J[i].composite = old[i].composite
    BY <2>1 DEF Alike
  <2>3. ~(root \in old[i].roots /\ old[i].composite) => new[i].state = old[i].state
    BY <1>9, <2>1, <2>2
  <2>4. ASSUME root \in old[i].roots, old[i].composite, NEW r \in old[i].roots \ res
        PROVE  \E k \in 1 .. c : new[n + k].roots = {r}
    <3>1. <<i, r>> \in S
      BY <1>14, <2>2, <2>4
    <3>2. PICK k \in 1 .. c : order[k] = <<i, r>>
      BY <1>12, <3>1
    <3>3. F[k].roots = {r}
      BY <1>17, <3>2
    <3> QED BY <1>19, <3>3
  <2> QED BY <2>1, <2>3, <2>4 DEF Alike
<1>21. \A k \in 1 .. c : new[n + k].state = "Open" /\ new[n + k].rows = cceRows /\ \E r \in K \ res : new[n + k].roots = {r}
  <2> SUFFICES ASSUME NEW k \in 1 .. c
               PROVE  new[n + k].state = "Open" /\ new[n + k].rows = cceRows /\ \E r \in K \ res : new[n + k].roots = {r}
    OBVIOUS
  <2>1. new[n + k] = F[k] /\ order[k] \in S
    BY <1>16, <1>19
  <2>2. order[k][2] \in K \ res
    BY <1>13, <2>1
  <2> QED BY <1>17, <2>1, <2>2
<1>22. Recovered(old, new, root, res, c)
  BY <1>5, <1>19, <1>20, <1>21 DEF Recovered
<1>23. flags' \subseteq cceRows
  BY <1>4 DEF CceTyped
<1> QED BY <1>1, <1>2, <1>4, <1>12, <1>18, <1>22, <1>23

\* The roots stay covered.
LEMMA RecoveredCovers ==
  ASSUME incidents \in Seq(Incident(Known(cceNodes))), NEW root, NEW c \in Nat, Recovered(incidents, incidents', root, resolved', c),
         Covered(incidents, resolved \cup closed), resolved \subseteq resolved', closed' = closed
  PROVE  Covered(incidents', resolved' \cup closed')
<1>1. PICK n : n = Len(incidents)
  OBVIOUS
<1>2. PICK new : new = incidents'
  OBVIOUS
<1>3. n \in Nat /\ Len(new) = n + c
  BY <1>1, <1>2 DEF Recovered
<1>4. \A i \in 1 .. n : i \in 1 .. Len(new)
  BY <1>3
<1>5. \A k \in 1 .. c : n + k \in 1 .. Len(new)
  BY <1>3
<1>6. ASSUME NEW r, OpenFor(incidents, r), r \notin resolved' PROVE OpenFor(new, r)
  <2>1. PICK k \in 1 .. n : incidents[k].state = "Open" /\ r \in incidents[k].roots
    BY <1>1, <1>6 DEF OpenFor
  <2>2. CASE root \in incidents[k].roots /\ incidents[k].composite
    <3>1. PICK j \in 1 .. c : new[n + j].roots = {r}
      BY <1>1, <1>2, <1>6, <2>1, <2>2 DEF Recovered
    <3>2. new[n + j].state = "Open" /\ n + j \in 1 .. Len(new)
      BY <1>1, <1>2, <1>5 DEF Recovered
    <3> QED BY <3>1, <3>2 DEF OpenFor
  <2>3. CASE ~(root \in incidents[k].roots /\ incidents[k].composite)
    <3>1. new[k].state = "Open" /\ r \in new[k].roots /\ k \in 1 .. Len(new)
      BY <1>1, <1>2, <1>4, <2>1, <2>3 DEF Recovered, Alike
    <3> QED BY <3>1 DEF OpenFor
  <2> QED BY <2>2, <2>3
<1> SUFFICES ASSUME NEW i \in 1 .. Len(new), NEW r \in new[i].roots, r \notin resolved' \cup closed
             PROVE  OpenFor(new, r)
  BY <1>2 DEF Covered
<1>7. CASE i \in 1 .. n
  <2>1. r \in incidents[i].roots
    BY <1>1, <1>2, <1>7 DEF Recovered, Alike
  <2>2. OpenFor(incidents, r)
    BY <1>1, <1>7, <2>1 DEF Covered
  <2> QED BY <1>6, <2>2
<1>8. CASE i \notin 1 .. n
  <2>1. i - n \in 1 .. c /\ n + (i - n) = i
    BY <1>3, <1>8
  <2>2. new[n + (i - n)].state = "Open"
    BY <1>1, <1>2, <2>1 DEF Recovered
  <2> QED BY <2>1, <2>2 DEF OpenFor
<1> QED BY <1>7, <1>8

\* verify_data keeps the invariant: it clears what is resolved and no more.
LEMMA VerifySound ==
  ASSUME CceInv, NEW root \in Known(cceNodes), Cce!verify_data(root)
  PROVE  CceInv'
<1>0. CceTyped /\ TagsInv /\ Covered(incidents, resolved \cup closed) /\ Cce!ClearedWhenResolved
  BY DEF CceInv
<1>1. PICK res : res = resolved'
  OBVIOUS
<1>2. /\ target = "native" /\ res = (IF Cce!Taggable(root) THEN resolved \cup {root} ELSE resolved)
      /\ UNCHANGED <<target, cceNodes, cceRows, writeCall, closed>>
  BY <1>1 DEF Cce!verify_data, Cce!Native
<1>3. /\ decontaminated' = decontaminated \cup Cce!LateCleared(incidents, root, res)
            \cup UNION {Cce!ClearedFor(incidents[i], incidents[i].deltas) : i \in Cce!Settled(incidents, root, res)}
      /\ contaminated' = contaminated \cup Cce!LateTainted(incidents, root, res)
  BY <1>1 DEF Cce!verify_data
<1>4. resolved \subseteq res /\ res \subseteq IdsOf(cceNodes)
  BY <1>0, <1>2 DEF TagsInv, Cce!Taggable, Cce!Native, Cce!Ids, IdsOf
<1>5. /\ \E c \in Nat : Recovered(incidents, incidents', root, resolved', c)
      /\ flags' \subseteq cceRows
      /\ contaminated_rows' =
            Cce!Pruned(Cce!Repointed(contaminated_rows, Len(incidents), incidents'), incidents', resolved')
  BY <1>0, VerifyRecovers
<1>6. PICK c \in Nat : Recovered(incidents, incidents', root, resolved', c)
  BY <1>5
<1>7. Covered(incidents', resolved' \cup closed')
  BY <1>0, <1>1, <1>2, <1>4, <1>6, RecoveredCovers DEF CceTyped
<1>8. contaminated_rows' \in [ProjectionRows -> (1 .. Len(incidents')) \cup {None}]
  <2>1. PICK n : n = Len(incidents)
    OBVIOUS
  <2>2. n \in Nat /\ Len(incidents') = n + c
    BY <1>0, <1>6, <2>1 DEF CceTyped, Recovered
  <2>3. PICK index : index = Cce!Repointed(contaminated_rows, Len(incidents), incidents')
    OBVIOUS
  <2>4. \A r \in ProjectionRows : index[r] \in (1 .. (n + c)) \cup {None}
    <3>1. contaminated_rows \in [ProjectionRows -> (1 .. n) \cup {None}]
      BY <1>0, <2>1 DEF CceTyped
    <3>2. (1 .. n) \subseteq (1 .. (n + c)) /\ (n + c # n => n + c \in 1 .. (n + c))
      BY <2>2
    <3>3. index = IF n + c = n THEN contaminated_rows
                  ELSE Cce!Point(contaminated_rows, incidents'[n + c].rows, n + c)
      BY <2>1, <2>2, <2>3 DEF Cce!Repointed
    <3> QED BY <3>1, <3>2, <3>3 DEF Cce!Point
  <2>5. contaminated_rows' = Cce!Pruned(index, incidents', resolved')
    BY <1>5, <2>3
  <2>6. contaminated_rows' \in [ProjectionRows -> (1 .. (n + c)) \cup {None}]
    BY <2>4, <2>5 DEF Cce!Pruned
  <2> QED BY <2>2, <2>6
<1>9. CceTyped'
  BY <1>0, <1>2, <1>5, <1>6, <1>8 DEF CceTyped, Recovered
<1>10. \A t \in contaminated' : t[1] \in IdsOf(cceNodes)
  <2>1. \A t \in Cce!LateTainted(incidents, root, res) : t[1] \in IdsOf(cceNodes)
    <3> SUFFICES ASSUME NEW t \in Cce!LateTainted(incidents, root, res) PROVE t[1] \in IdsOf(cceNodes)
      OBVIOUS
    <3> DEFINE Unresolved == {k \in Cce!Walked(incidents, root) : ~Cce!AllResolved(incidents[k], res)}
               Tags(i, r) == {<<d, r>> : d \in Cce!Late(incidents[i], {r}) \cap Cce!Ids}
               Of(i) == UNION {Tags(i, r) : r \in incidents[i].roots \ res}
    <3>0. Cce!LateTainted(incidents, root, res) = UNION {Of(i) : i \in Unresolved}
      BY DEF Cce!LateTainted
    <3> HIDE DEF Of, Unresolved
    <3>a. PICK i \in Unresolved : t \in Of(i)
      BY <3>0
    <3> HIDE DEF Tags
    <3>b. PICK r : t \in Tags(i, r)
      BY <3>a DEF Of
    <3>1. t \in {<<d, r>> : d \in Cce!Late(incidents[i], {r}) \cap Cce!Ids}
      BY <3>b DEF Tags
    <3> QED BY <3>1 DEF Cce!Ids, IdsOf
  <2> QED BY <1>0, <1>2, <1>3, <2>1 DEF TagsInv
<1>11. \A t \in decontaminated' : t[1] \in IdsOf(cceNodes) /\ t[2] \subseteq res
  <2>1. \A ico, ds : \A t \in Cce!ClearedFor(ico, ds) : t[1] \in IdsOf(cceNodes) /\ t[2] = ico.roots
    BY DEF Cce!ClearedFor, Cce!Ids, IdsOf
  <2>2. \A i \in Cce!Settled(incidents, root, res) : incidents[i].roots \subseteq res
    BY DEF Cce!Settled, Cce!AllResolved
  <2>3. \A t \in Cce!LateCleared(incidents, root, res) : t[1] \in IdsOf(cceNodes) /\ t[2] \subseteq res
    BY <2>1 DEF Cce!LateCleared, Cce!AllResolved
  <2>4. \A t \in decontaminated : t[1] \in IdsOf(cceNodes) /\ t[2] \subseteq res
    BY <1>0, <1>2, <1>4 DEF TagsInv, Cce!ClearedWhenResolved
  <2> SUFFICES ASSUME NEW t \in decontaminated',
                      t \notin decontaminated, t \notin Cce!LateCleared(incidents, root, res)
               PROVE  t[1] \in IdsOf(cceNodes) /\ t[2] \subseteq res
    BY <2>3, <2>4
  <2>5. PICK i \in Cce!Settled(incidents, root, res) : t \in Cce!ClearedFor(incidents[i], incidents[i].deltas)
    BY <1>3
  <2> QED BY <2>1, <2>2, <2>5
<1>12. TagsInv' /\ Cce!ClearedWhenResolved'
  BY <1>1, <1>2, <1>4, <1>10, <1>11 DEF TagsInv, Cce!ClearedWhenResolved
<1> QED BY <1>7, <1>9, <1>12 DEF CceInv
-----------------------------------------------------------------------------
\* The browser's verify_data clears the incidents all of whose roots are resolved.
LEMMA VerifyWasmSound ==
  ASSUME CceInv, NEW root \in Known(cceNodes), Cce!verify_data_wasm(root)
  PROVE  CceInv'
<1>0. CceTyped /\ TagsInv /\ Covered(incidents, resolved \cup closed) /\ Cce!ClearedWhenResolved
  BY DEF CceInv
<1>1. PICK res : res = resolved'
  OBVIOUS
<1>2. /\ target # "native" /\ res = resolved \cup {root}
      /\ decontaminated' = decontaminated \cup UNION {{<<d, incidents[i].roots>> : d \in incidents[i].deltas} :
            i \in Cce!Settled(incidents, root, res)}
      /\ contaminated_rows' = [r \in ProjectionRows |->
            IF Cce!is_row_contaminated(r) /\ incidents[contaminated_rows[r]].state = "Open"
            THEN contaminated_rows[r] ELSE None]
      /\ UNCHANGED <<target, cceNodes, cceRows, flags, contaminated, incidents, writeCall, closed>>
  BY <1>1 DEF Cce!verify_data_wasm, Cce!Native
<1>3. CceTyped'
  <2>1. contaminated_rows' \in [ProjectionRows -> (1 .. Len(incidents)) \cup {None}]
    BY <1>0, <1>2 DEF CceTyped
  <2> QED BY <1>0, <1>2, <2>1 DEF CceTyped
<1>4. TagsInv'
  BY <1>2 DEF TagsInv
<1>5. Covered(incidents', resolved' \cup closed')
  BY <1>0, <1>1, <1>2 DEF Covered
<1>6. Cce!ClearedWhenResolved'
  <2> SUFFICES ASSUME NEW t \in decontaminated' PROVE t[2] \subseteq res
    BY <1>1 DEF Cce!ClearedWhenResolved
  <2>1. CASE t \in decontaminated
    BY <1>0, <1>2, <2>1 DEF Cce!ClearedWhenResolved
  <2>2. CASE t \notin decontaminated
    <3>1. PICK i \in Cce!Settled(incidents, root, res) : t \in {<<d, incidents[i].roots>> : d \in incidents[i].deltas}
      BY <1>2, <2>2
    <3>2. t[2] = incidents[i].roots
      BY <3>1
    <3> QED BY <3>2 DEF Cce!Settled, Cce!AllResolved
  <2> QED BY <2>1, <2>2
<1> QED BY <1>3, <1>4, <1>5, <1>6 DEF CceInv

\* Closing an incident records its roots as closed.
LEMMA CloseSound ==
  ASSUME CceInv, NEW i \in 1 .. Len(incidents), Cce!admin_close(i)
  PROVE  CceInv'
<1>0. CceTyped /\ TagsInv /\ Covered(incidents, resolved \cup closed) /\ Cce!ClearedWhenResolved
  BY DEF CceInv
<1> DEFINE K == Known(cceNodes)
<1>1. PICK n, old, new : n = Len(incidents) /\ old = incidents /\ new = incidents'
  OBVIOUS
<1>2. /\ new = [old EXCEPT ![i].state = "Closed"] /\ closed' = closed \cup old[i].roots
      /\ UNCHANGED <<target, cceNodes, cceRows, flags, contaminated, decontaminated, resolved, contaminated_rows, writeCall>>
  BY <1>1 DEF Cce!admin_close
<1>3. n \in Nat /\ old \in Seq(Incident(K)) /\ DOMAIN old = 1 .. n /\ i \in 1 .. n
  BY <1>0, <1>1 DEF CceTyped
<1>4. old[i] \in Incident(K)
  BY <1>3
<1>5. [old[i] EXCEPT !.state = "Closed"] \in Incident(K)
  <2>1. {} \in SUBSET K
    OBVIOUS
  <2> QED BY <1>4, <2>1, IncidentChange
<1>6. [old[i] EXCEPT !.state = "Closed"].roots = old[i].roots
  BY <1>4 DEF Incident
<1>7. /\ \A k \in 1 .. n : k # i => new[k] = old[k]
      /\ new[i] = [old[i] EXCEPT !.state = "Closed"]
      /\ new \in Seq(Incident(K)) /\ Len(new) = n
  <2>1. PICK x : x = [old[i] EXCEPT !.state = "Closed"]
    OBVIOUS
  <2>2. new = [old EXCEPT ![i] = x]
    BY <1>2, <2>1
  <2>3. PICK X : X = Incident(K)
    OBVIOUS
  <2>4. old \in Seq(X) /\ x \in X
    BY <1>3, <1>5, <2>1, <2>3
  <2>5. new \in Seq(X) /\ Len(new) = n /\ new[i] = x /\ \A k \in 1 .. n : k # i => new[k] = old[k]
    BY <1>1, <1>3, <2>2, <2>4
  <2> QED BY <2>1, <2>3, <2>5
<1>8. \A k \in 1 .. n : new[k].roots = old[k].roots
  BY <1>6, <1>7
<1>9. Covered(new, resolved \cup closed \cup old[i].roots)
  <2> SUFFICES ASSUME NEW k \in 1 .. n, NEW r \in new[k].roots, r \notin resolved \cup closed, r \notin old[i].roots
               PROVE  OpenFor(new, r)
    BY <1>7 DEF Covered
  <2>1. r \in old[k].roots
    BY <1>8
  <2>2. PICK j \in 1 .. n : old[j].state = "Open" /\ r \in old[j].roots
    BY <1>0, <1>1, <2>1 DEF Covered, OpenFor
  <2>3. j # i
    BY <2>2
  <2> QED BY <1>7, <2>2, <2>3 DEF OpenFor
<1>10. CceTyped'
  BY <1>0, <1>1, <1>2, <1>7 DEF CceTyped
<1>11. TagsInv' /\ Cce!ClearedWhenResolved'
  BY <1>0, <1>2 DEF TagsInv, Cce!ClearedWhenResolved
<1>12. resolved' \cup closed' = resolved \cup closed \cup old[i].roots
  BY <1>2
<1> QED BY <1>1, <1>9, <1>10, <1>11, <1>12 DEF CceInv

CceSpec == Cce!Init /\ [][Cce!Next]_cceVars

\* The actions.
LEMMA CceCases ==
  ASSUME Cce!Next
  PROVE  \/ \E r \in ProjectionRows, ps \in SUBSET Cce!Ids : Cce!receive_delta(r, ps)
         \/ \E root \in Known(cceNodes) :
               Cce!tag_contamination_root(root) \/ Cce!verify_data(root) \/ Cce!verify_data_wasm(root)
         \/ \E r \in ProjectionRows : Cce!LookupRow(r)
         \/ Cce!ProduceDelta
         \/ Cce!HumanReaction
         \/ \E i \in 1 .. Len(incidents) : Cce!admin_close(i)
         \/ Cce!Restart
<1>1. Cce!Ids \cup (IF Cce!Room THEN Markers ELSE Cce!Tagged) \subseteq Known(cceNodes)
  BY DEF Cce!Ids, Cce!Tagged, Known, IdsOf
<1> QED BY <1>1 DEF Cce!Next

\* Nothing is stored, tagged or being written.
LEMMA CceInitInv == Cce!Init => CceInv
<1> SUFFICES ASSUME Cce!Init PROVE CceInv
  OBVIOUS
<1>1. /\ target \in {"native", "wasm"} /\ cceNodes = {} /\ cceRows = {} /\ flags = {} /\ contaminated = {}
      /\ decontaminated = {} /\ resolved = {} /\ incidents = <<>>
      /\ contaminated_rows = [r \in ProjectionRows |-> None] /\ writeCall = None /\ closed = {}
  BY DEF Cce!Init
<1>2. IsFiniteSet(cceNodes)
  BY <1>1, FS_EmptySet
<1>3. CceTyped
  BY <1>1, <1>2 DEF CceTyped
<1> QED BY <1>1, <1>3 DEF CceInv, TagsInv, Covered, Cce!ClearedWhenResolved

\* Every step keeps the invariant.
LEMMA CceStepInv ==
  ASSUME CceInv, [Cce!Next]_cceVars
  PROVE  CceInv'
<1>1. ASSUME NEW r \in ProjectionRows, NEW ps, Cce!receive_delta(r, ps) PROVE CceInv'
  <2>1. writeCall' = None \/ writeCall' \in [row : ProjectionRows, tag : BOOLEAN, root : IdsOf(cceNodes') \cup {None}]
    BY <1>1 DEF Cce!receive_delta, Cce!Insert, CceInv, CceTyped, IdsOf
  <2> QED BY <1>1, <2>1, InsertSound DEF Cce!receive_delta
<1>2. ASSUME NEW root \in Known(cceNodes), Cce!tag_contamination_root(root) PROVE CceInv'
  BY <1>2, TagRootSound DEF Cce!tag_contamination_root
<1>3. ASSUME NEW r \in ProjectionRows, Cce!LookupRow(r) PROVE CceInv'
  <2>1. /\ writeCall' = [row |-> r, tag |-> Cce!is_row_contaminated(r), root |-> None]
        /\ UNCHANGED <<target, cceNodes, cceRows, flags, contaminated, decontaminated, resolved, incidents, contaminated_rows, closed>>
    BY <1>3 DEF Cce!LookupRow
  <2>2. writeCall' \in [row : ProjectionRows, tag : BOOLEAN, root : IdsOf(cceNodes) \cup {None}]
    <3>1. Cce!is_row_contaminated(r) \in BOOLEAN
      BY DEF Cce!is_row_contaminated
    <3> QED BY <2>1, <3>1
  <2>3. CceTyped'
    BY <2>1, <2>2 DEF CceInv, CceTyped
  <2> QED BY <2>1, <2>3 DEF CceInv, TagsInv, Covered, OpenFor, Cce!ClearedWhenResolved
<1>4. ASSUME Cce!ProduceDelta PROVE CceInv'
  <2>1. /\ writeCall # None /\ Cce!Insert(writeCall.row, Cce!Dag!dag_tips(cceNodes))
        /\ writeCall' = IF writeCall.tag THEN [writeCall EXCEPT !.root = Cce!Cardinality(cceNodes')] ELSE None
        /\ UNCHANGED <<target, flags, contaminated, decontaminated, resolved, incidents, contaminated_rows, closed>>
    BY <1>4 DEF Cce!ProduceDelta
  <2>2. writeCall \in [row : ProjectionRows, tag : BOOLEAN, root : IdsOf(cceNodes) \cup {None}]
    BY <2>1 DEF CceInv, CceTyped
  <2>3. PICK new : /\ new = [id |-> Cce!Cardinality(cceNodes) + 1, parents |-> Cce!Dag!dag_tips(cceNodes), row |-> writeCall.row]
                   /\ cceNodes' = cceNodes \cup {new}
    BY <2>1 DEF Cce!Insert
  <2>4. new.id = Cce!Cardinality(cceNodes) + 1
    BY <2>3
  <2>5. Cce!Cardinality(cceNodes') = new.id
    BY <2>3, <2>4, NewNode DEF CceInv, CceTyped
  <2>6. Cce!Cardinality(cceNodes') \in IdsOf(cceNodes')
    BY <2>3, <2>5 DEF IdsOf
  <2>7. writeCall' = None \/ writeCall' \in [row : ProjectionRows, tag : BOOLEAN, root : IdsOf(cceNodes') \cup {None}]
    BY <2>1, <2>2, <2>6
  <2>8. writeCall.row \in ProjectionRows
    BY <2>2
  <2> QED BY <2>1, <2>7, <2>8, InsertSound
<1>5. ASSUME Cce!HumanReaction PROVE CceInv'
  <2>1. /\ writeCall # None /\ writeCall.root # None /\ Cce!TagRoot(writeCall.root) /\ writeCall' = None
        /\ UNCHANGED <<target, cceNodes, cceRows, decontaminated, resolved, closed>>
    BY <1>5 DEF Cce!HumanReaction
  <2>2. writeCall.root \in Known(cceNodes)
    BY <2>1 DEF CceInv, CceTyped, Known
  <2> QED BY <2>1, <2>2, TagRootSound
<1>6. ASSUME Cce!Restart PROVE CceInv'
  <2>1. /\ incidents' = <<>> /\ contaminated_rows' = [r \in ProjectionRows |-> None] /\ writeCall' = None
        /\ UNCHANGED <<target, cceNodes, cceRows, flags, contaminated, decontaminated, resolved, closed>>
    BY <1>6 DEF Cce!Restart
  <2>2. CceTyped'
    BY <2>1 DEF CceInv, CceTyped
  <2>3. Covered(incidents', resolved' \cup closed')
    BY <2>1 DEF Covered
  <2> QED BY <2>1, <2>2, <2>3 DEF CceInv, TagsInv, Cce!ClearedWhenResolved
<1>7. CASE UNCHANGED cceVars
  BY <1>7 DEF cceVars, CceInv, CceTyped, TagsInv, Covered, OpenFor, Cce!ClearedWhenResolved
<1>8. CASE Cce!Next
  BY <1>1, <1>2, <1>3, <1>4, <1>5, <1>6, <1>8, CceCases, VerifySound, VerifyWasmSound, CloseSound
<1> QED BY <1>7, <1>8
-----------------------------------------------------------------------------
\* A root that a step resolves natively is the one verify_data was called for,
\* and is stored.
LEMMA ResolvesByVerify ==
  ASSUME CceInv, [Cce!Next]_cceVars, NEW r \in resolved' \ resolved, target = "native"
  PROVE  Cce!verify_data(r) /\ r \in IdsOf(cceNodes)
<1>1. ASSUME NEW root, Cce!verify_data(root) PROVE root = r /\ r \in IdsOf(cceNodes)
  <2>1. resolved' = IF Cce!Taggable(root) THEN resolved \cup {root} ELSE resolved
    BY <1>1 DEF Cce!verify_data
  <2> QED BY <2>1 DEF Cce!Taggable, Cce!Native, Cce!Ids, IdsOf
<1>2. ASSUME NEW root, Cce!tag_contamination_root(root) \/ Cce!verify_data_wasm(root) PROVE FALSE
  BY <1>2 DEF Cce!tag_contamination_root, Cce!verify_data_wasm, Cce!Native
<1>3. ASSUME \/ \E q \in ProjectionRows, ps \in SUBSET Cce!Ids : Cce!receive_delta(q, ps)
             \/ \E q \in ProjectionRows : Cce!LookupRow(q)
             \/ Cce!ProduceDelta \/ Cce!HumanReaction
             \/ \E i \in 1 .. Len(incidents) : Cce!admin_close(i)
             \/ Cce!Restart
      PROVE  FALSE
  BY <1>3 DEF Cce!receive_delta, Cce!LookupRow, Cce!ProduceDelta, Cce!HumanReaction, Cce!admin_close, Cce!Restart
<1>4. CASE UNCHANGED cceVars
  BY <1>4 DEF cceVars
<1> QED BY <1>1, <1>2, <1>3, <1>4, CceCases

\* What VerifiedIsCleared says of a step.
ClearsBelow ==
    \A r \in resolved' \ resolved :
        Cce!Native /\ (\E i \in 1 .. Len(incidents) : Cce!Simple(i) /\ r \in incidents[i].roots)
        => \A d \in Cce!walk_dag_descendants(r) : \E t \in decontaminated' : t[1] = d

\* The incident's own deltas are cleared in step 3, later ones in step 4.
LEMMA ClearsBelowStep ==
  ASSUME CceInv, [Cce!Next]_cceVars
  PROVE  ClearsBelow
<1> SUFFICES ASSUME NEW r \in resolved' \ resolved, target = "native", NEW i \in 1 .. Len(incidents),
                    ~incidents[i].composite, r \in incidents[i].roots, NEW d \in Cce!walk_dag_descendants(r)
             PROVE  \E t \in decontaminated' : t[1] = d
  BY DEF ClearsBelow, Cce!Native, Cce!Simple
<1>1. Cce!verify_data(r) /\ r \in IdsOf(cceNodes)
  BY ResolvesByVerify
<1>2. d \in Cce!Ids
  BY <1>1, WalkTypes DEF CceInv, Known, Cce!Ids, IdsOf
<1>3. PICK x, res : x = incidents[i] /\ res = resolved'
  OBVIOUS
<1>4. x \in Incident(Known(cceNodes))
  BY <1>3 DEF CceInv, CceTyped
<1>5. x.roots = {r}
  BY <1>3, <1>4, IncidentFields
<1>6. Cce!AllResolved(x, res)
  BY <1>3, <1>5 DEF Cce!AllResolved
<1>7. decontaminated' = decontaminated \cup Cce!LateCleared(incidents, r, res)
        \cup UNION {Cce!ClearedFor(incidents[k], incidents[k].deltas) : k \in Cce!Settled(incidents, r, res)}
  BY <1>1, <1>3 DEF Cce!verify_data
<1>8. i \in Cce!Settled(incidents, r, res) /\ i \in Cce!Walked(incidents, r)
  BY <1>3, <1>6 DEF Cce!Settled, Cce!Walked, Cce!Listing
<1>9. CASE d \in x.deltas
  <2>1. <<d, x.roots>> \in Cce!ClearedFor(incidents[i], incidents[i].deltas)
    BY <1>2, <1>3, <1>9 DEF Cce!ClearedFor
  <2>2. <<d, x.roots>> \in decontaminated'
    BY <1>7, <1>8, <2>1
  <2> QED BY <2>2
<1>10. CASE d \notin x.deltas
  <2>1. d \in Cce!Late(incidents[i], incidents[i].roots)
    BY <1>3, <1>5, <1>10 DEF Cce!Late
  <2>2. <<d, x.roots>> \in Cce!ClearedFor(incidents[i], Cce!Late(incidents[i], incidents[i].roots))
    BY <1>2, <1>3, <2>1 DEF Cce!ClearedFor
  <2>3. <<d, x.roots>> \in Cce!LateCleared(incidents, r, res)
    BY <1>3, <1>6, <1>8, <2>2 DEF Cce!LateCleared
  <2>4. <<d, x.roots>> \in decontaminated'
    BY <1>7, <2>3
  <2> QED BY <2>4
<1> QED BY <1>9, <1>10

\* What CompositeKeepsRows says of a step.
KeepsRows ==
    \A r \in resolved' \ resolved :
        Cce!Native /\ (\E i \in 1 .. Len(incidents) : incidents[i].composite /\ r \in incidents[i].roots /\ ~(incidents[i].roots \subseteq resolved'))
        => \A row \in cceRows : contaminated_rows'[row] # None

\* The last fresh incident has every row, is open and has an unresolved root.
LEMMA KeepsRowsStep ==
  ASSUME CceInv, [Cce!Next]_cceVars, None \notin Nat
  PROVE  KeepsRows
<1> SUFFICES ASSUME NEW r \in resolved' \ resolved, target = "native", NEW i \in 1 .. Len(incidents),
                    incidents[i].composite, r \in incidents[i].roots, ~(incidents[i].roots \subseteq resolved'),
                    NEW row \in cceRows
             PROVE  contaminated_rows'[row] # None
  BY DEF KeepsRows, Cce!Native
<1>1. Cce!verify_data(r) /\ r \in IdsOf(cceNodes)
  BY ResolvesByVerify
<1>2. /\ \E c \in Nat : Recovered(incidents, incidents', r, resolved', c)
      /\ contaminated_rows' =
            Cce!Pruned(Cce!Repointed(contaminated_rows, Len(incidents), incidents'), incidents', resolved')
  BY <1>1, VerifyRecovers DEF CceInv
<1>3. PICK c \in Nat : Recovered(incidents, incidents', r, resolved', c)
  BY <1>2
<1>4. PICK n, new, res : n = Len(incidents) /\ new = incidents' /\ res = resolved'
  OBVIOUS
<1>5. n \in Nat
  BY <1>4 DEF CceInv, CceTyped
<1>6. PICK q \in incidents[i].roots : q \notin res
  BY <1>4
<1>7. \E k \in 1 .. c : new[n + k].roots = {q}
  BY <1>3, <1>4, <1>6 DEF Recovered
<1>8. c \in 1 .. c /\ Len(new) = n + c /\ n + c # n /\ n + c \in Nat
  BY <1>3, <1>4, <1>5, <1>7 DEF Recovered
<1>9. new[n + c].state = "Open" /\ new[n + c].rows = cceRows /\ \E p : p \notin res /\ new[n + c].roots = {p}
  BY <1>3, <1>4, <1>8 DEF Recovered
<1>10. PICK index : index = Cce!Repointed(contaminated_rows, n, new)
  OBVIOUS
<1>11. row \in ProjectionRows
  BY DEF CceInv, CceTyped
<1>12. index[row] = n + c
  BY <1>8, <1>9, <1>10, <1>11 DEF Cce!Repointed, Cce!Point
<1>13. contaminated_rows'[row] = IF index[row] # None /\ new[index[row]].state = "Open" /\ ~(new[index[row]].roots \subseteq res)
                                THEN index[row] ELSE None
  BY <1>2, <1>4, <1>10, <1>11 DEF Cce!Pruned
<1> QED BY <1>8, <1>9, <1>12, <1>13

\* The device runs the contamination engine or leaves it alone.
LEMMA CceRuns == DeviceSpec => CceSpec
<1>1. DeviceInit => Cce!Init
  BY DEF DeviceInit
<1>2. [DeviceNext]_allVars => [Cce!Next]_cceVars
  BY DEF DeviceNext, allVars, cceVars, RevocationStep, ContaminationStep, SqliteStep, IndexedDbStep, InitStep, SdkStep,
         OrderStep, LanguageStep
<1> QED BY <1>1, <1>2, PTL DEF DeviceSpec, CceSpec

\* The inductive invariant of the contamination engine: incidents, tag log and
\* row index fit together, every root of an incident is open, resolved or
\* closed, and nothing is cleared before its roots are resolved.
THEOREM CceInvariant == CceSpec => []CceInv
  BY CceInitInv, CceStepInv, PTL DEF CceSpec

\* Type correctness of the engine: natively only stored deltas carry tags, the
\* flags are on rows that exist, and the index points at incidents.
THEOREM CceTypes == CceSpec => []Cce!TypeOK
<1>1. CceInv => Cce!TypeOK
  BY DEF CceInv, CceTyped, TagsInv, Cce!TypeOK, Cce!Native, Cce!Ids, IdsOf
<1> QED BY <1>1, CceInvariant, PTL

\* Req 10.5, 10.6: for every number of rows, markers, deltas and incidents, a root
\* that is neither resolved nor closed is a root of an open incident, and
\* resolving one root of a composite leaves every row contaminated through
\* the others (tag_contamination_root, decompose_composites_if_needed).
THEOREM IncidentsKeepRoots ==
  ASSUME None \notin Nat
  PROVE  DeviceSpec => IncidentsCoverRoots
<1>1. CceInv => Cce!NoOrphanRoot
  BY CoveredIsNoOrphan DEF CceInv
<1>2. CceInv /\ [Cce!Next]_cceVars => KeepsRows
  BY KeepsRowsStep
<1> QED BY <1>1, <1>2, CceInvariant, CceRuns, PTL
        DEF CceSpec, KeepsRows, IncidentsCoverRoots, Cce!IncidentsCoverRoots, Cce!CompositeKeepsRows, cceVars, Cce!cceVars

\* Req 10.3, 11.1: for every number of rows, markers, deltas and incidents, a
\* verified root's descendants are cleared, late arrivals included, and no delta
\* is cleared for an incident with an unresolved root (verify_data).
THEOREM ClearingStaysExact == DeviceSpec => ClearingIsExact
<1>1. CceInv => Cce!ClearedWhenResolved
  BY DEF CceInv
<1>2. CceInv /\ [Cce!Next]_cceVars => ClearsBelow
  BY ClearsBelowStep
<1> QED BY <1>1, <1>2, CceInvariant, CceRuns, PTL
        DEF CceSpec, ClearsBelow, ClearingIsExact, Cce!ClearingIsExact, Cce!VerifiedIsCleared, cceVars, Cce!cceVars

-----------------------------------------------------------------------------
(* The order of the cloud queue.                                           *)

\* The queue machine uses the operators these lemmas are about.
LEMMA SameOrder ==
  /\ \A S : Order!Cardinality(S) = Cardinality(S)
  /\ \A S, k : Order!InQueueOrder(S, k) = InQueueOrder(S, k)
  /\ \A Q, ps, k : Order!topological_sort_queue(Q, ps, k) = topological_sort_queue(Q, ps, k)
<1>1. \A S : Order!Cardinality(S) = Cardinality(S)
  BY DEF Order!Cardinality, Cardinality
<1>2. ASSUME NEW S, NEW k PROVE Order!InQueueOrder(S, k) = InQueueOrder(S, k)
  BY DEF Order!InQueueOrder, InQueueOrder, Order!SortedBy, SortedBy, Order!Cardinality, Cardinality
<1>3. ASSUME NEW Q, NEW ps, NEW k
      PROVE  Order!topological_sort_queue(Q, ps, k) = topological_sort_queue(Q, ps, k)
  BY DEF Order!topological_sort_queue, topological_sort_queue, Order!KahnPop, KahnPop,
     Order!InQueueOrder, InQueueOrder, Order!SortedBy, SortedBy, Order!Cardinality, Cardinality
<1> QED BY <1>1, <1>2, <1>3

\* WithinDepth unfolds.
LEMMA DepthLayers ==
  ASSUME MaxEntries \in Nat
  PROVE  Layers(backlog, causes, MaxEntries, Order!WithinDepth)
<1> DEFINE N == MaxEntries
           Q == backlog
           a == {d \in Q : causes[d] \cap Q = {}}
           Up(X) == {d \in Q : causes[d] \cap Q \subseteq X}
           Rec(f) == f = [n \in 0 .. N |-> {d \in Q : IF n = 0 THEN causes[d] \cap Q = {}
                                                     ELSE causes[d] \cap Q \subseteq f[n - 1]}]
           D == CHOOSE f : Rec(f)
           G == [X \in SUBSET Q |-> Up(X)]
<1>1. Order!WithinDepth = D
  BY DEF Order!WithinDepth
<1>2. a \in SUBSET Q /\ G \in [SUBSET Q -> SUBSET Q] /\ \A X \in SUBSET Q : G[X] = Up(X)
  OBVIOUS
<1> HIDE DEF a, G
<1>3. PICK v \in [0 .. N -> SUBSET Q] : v[0] = a /\ \A k \in 1 .. N : v[k] = G[v[k - 1]]
  <2> DEFINE T == SUBSET Q
  <2>1. a \in T /\ G \in [T -> T]
    BY <1>2
  <2> HIDE DEF T, N
  <2>2. N \in Nat
    BY DEF N
  <2>3. \A S : \A x \in S, F \in [S -> S] :
            \E v \in [0 .. N -> S] : v[0] = x /\ \A k \in 1 .. N : v[k] = F[v[k - 1]]
    BY <2>2, Iteration
  <2>4. \E v \in [0 .. N -> T] : v[0] = a /\ \A k \in 1 .. N : v[k] = G[v[k - 1]]
    BY <2>1, <2>3
  <2> QED BY <2>4 DEF T, N
<1>4. Rec(v)
  <2>1. ASSUME NEW n \in 0 .. N
        PROVE  v[n] = {d \in Q : IF n = 0 THEN causes[d] \cap Q = {} ELSE causes[d] \cap Q \subseteq v[n - 1]}
    <3>1. CASE n = 0
      BY <1>3, <3>1 DEF a
    <3>2. CASE n # 0
      <4>1. n \in 1 .. N /\ n - 1 \in 0 .. N
        BY <3>2
      <4>2. v[n - 1] \in SUBSET Q /\ v[n] = G[v[n - 1]]
        BY <1>3, <4>1
      <4>3. v[n] = Up(v[n - 1])
        BY <1>2, <4>2
      <4> QED BY <3>2, <4>3
    <3> QED BY <3>1, <3>2
  <2>2. v = [n \in 0 .. N |-> v[n]]
    BY <1>3
  <2> QED BY <2>1, <2>2
<1>5. Rec(D)
  <2> HIDE DEF Rec
  <2> QED BY <1>4
<1> HIDE DEF D
<1>6. \A n \in 0 .. N : D[n] = {d \in Q : IF n = 0 THEN causes[d] \cap Q = {} ELSE causes[d] \cap Q \subseteq D[n - 1]}
  BY <1>5
<1>7. D \in [0 .. N -> SUBSET Q]
  <2>1. D = [n \in 0 .. N |-> D[n]]
    BY <1>5
  <2>2. \A n \in 0 .. N : D[n] \in SUBSET Q
    BY <1>6
  <2> QED BY <2>1, <2>2
<1>8. \A d \in Q : d \in D[0] <=> causes[d] \cap Q = {}
  <2>1. 0 \in 0 .. N
    OBVIOUS
  <2> QED BY <1>6, <2>1
<1>9. ASSUME NEW n \in 1 .. N, NEW d \in Q PROVE d \in D[n] <=> causes[d] \cap Q \subseteq D[n - 1]
  <2>1. n \in 0 .. N /\ n # 0
    OBVIOUS
  <2> QED BY <1>6, <2>1
<1> QED BY <1>1, <1>7, <1>8, <1>9 DEF Layers

\* What the sort promises of the queue of any state.
LEMMA QueueSorted ==
  ASSUME MaxEntries \in Nat, backlog \in SUBSET (1 .. MaxEntries)
  PROVE  Order!SortIsExact
<1> DEFINE Q == backlog
           pos == Order!position
           D == Order!WithinDepth
           t == Order!sortedQueue
<1>1. IsFiniteSet(Q) /\ DistinctKeys(Q, pos)
  <2>1. IsFiniteSet(1 .. MaxEntries)
    BY FS_Interval
  <2>2. IsFiniteSet(Q)
    BY <2>1, FS_Subset
  <2> QED BY <2>2 DEF DistinctKeys, Order!position, Order!Entries
<1>2. Layers(Q, causes, MaxEntries, D)
  BY DepthLayers
<1>3. t = topological_sort_queue(Q, causes, pos)
  BY SameOrder DEF Order!sortedQueue
<1> HIDE DEF Q, pos, D, t
<1>4. PICK s, R : SortedAs(Q, causes, pos, MaxEntries, D, s, R)
  BY <1>1, <1>2, SortResult
<1>5. Sorts(Q, causes, MaxEntries, D, s, R) /\ t = s \o InQueueOrder(R, pos)
  BY <1>3, <1>4 DEF SortedAs
<1>6. Placed(Q, causes, s, R, t)
  BY <1>1, <1>3, <1>4, SortPlaces
<1>7. DOMAIN t = 1 .. Len(t)
  BY <1>6 DEF Placed
<1>8. Order!Cyclic = R
  <2>1. R \in SUBSET Q /\ \A d \in R : causes[d] \cap R # {}
    BY <1>5 DEF Sorts
  <2>2. ASSUME NEW S \in SUBSET Q, \A d \in S : causes[d] \cap S # {} PROVE S \subseteq R
    BY <1>5, <2>2, CyclesAreRest
  <2>3. Order!Cyclic = UNION {S \in SUBSET Q : \A d \in S : causes[d] \cap S # {}}
    BY DEF Order!Cyclic, Q
  <2> QED BY <2>1, <2>2, <2>3
<1>9. Order!SortedCausally
  <2>1. Order!ToSet(t) = Q
    <3>1. Order!ToSet(t) = {t[i] : i \in DOMAIN t}
      BY DEF Order!ToSet
    <3> QED BY <1>6, <1>7, <3>1 DEF Placed, EntriesOf
  <2>2. Len(t) = Order!Cardinality(Q)
    BY <1>6, SameOrder DEF Placed
  <2>3. ASSUME NEW i \in DOMAIN t, NEW j \in DOMAIN t, t[i] \in causes[t[j]], t[i] \notin R
        PROVE  i < j
    <3>1. CASE t[j] \notin R
      BY <1>6, <1>7, <2>3, <3>1 DEF Placed
    <3>2. CASE t[j] \in R
      <4>1. Len(s) \in Nat /\ i \in 1 .. Len(t) /\ j \in 1 .. Len(t) /\ j > Len(s) /\ ~(i > Len(s))
        BY <1>6, <1>7, <2>3, <3>2 DEF Placed
      <4>2. Len(t) \in Nat
        BY <1>6 DEF Placed
      <4> QED BY <4>1, <4>2
    <3> QED BY <3>1, <3>2
  <2> QED BY <1>8, <2>1, <2>2, <2>3 DEF Order!SortedCausally, Q, t
<1>10. Order!CyclicEntriesLast
  <2> DEFINE w == InQueueOrder(R, pos)
             m == Len(s) + 1
             n == Len(t)
             r == SubSeq(t, m, n)
  <2>1. s \in Seq(Q) /\ R \in SUBSET Q
    BY <1>5 DEF Sorts
  <2>2. w \in Seq(Q)
    BY <1>1, <2>1, InOrder
  <2>3. t = s \o w
    BY <1>5
  <2> HIDE DEF w
  <2>4. /\ Len(t) = Len(s) + Len(w) /\ Len(s) \in Nat /\ Len(w) \in Nat
        /\ \A i \in 1 .. (Len(s) + Len(w)) : i > Len(s) => t[i] = w[i - Len(s)] /\ t[i] \in Q
    <3>1. /\ Len(s \o w) = Len(s) + Len(w) /\ Len(s) \in Nat /\ Len(w) \in Nat
          /\ \A i \in 1 .. (Len(s) + Len(w)) :
                i > Len(s) => i - Len(s) \in 1 .. Len(w) /\ (s \o w)[i] = w[i - Len(s)]
      BY <2>1, <2>2, JoinedSet
    <3> QED BY <2>2, <2>3, <3>1
  <2>5. m \in Int /\ n \in Int /\ (\A i \in m .. n : t[i] \in Q) /\ n - m + 1 = Len(w)
    BY <2>4
  <2>6. /\ r \in Seq(Q) /\ Len(r) = (IF m <= n THEN n - m + 1 ELSE 0)
        /\ \A i \in 1 .. (n - m + 1) : r[i] = t[m + i - 1]
    <3> HIDE DEF m, n
    <3> QED BY <2>5, SubSeqProperties
  <2>7. Len(r) = Len(w)
    BY <2>4, <2>6
  <2>8. ASSUME NEW i \in 1 .. Len(w) PROVE r[i] = w[i]
    <3>1. i \in 1 .. (n - m + 1) /\ m + i - 1 = Len(s) + i /\ Len(s) + i \in 1 .. (Len(s) + Len(w))
          /\ Len(s) + i > Len(s) /\ (Len(s) + i) - Len(s) = i
      BY <2>4
    <3>2. r[i] = t[m + i - 1]
      BY <2>6, <3>1
    <3> HIDE DEF r, m
    <3> QED BY <2>4, <3>1, <3>2
  <2> HIDE DEF r
  <2>9. r = w
    BY <2>2, <2>6, <2>7, <2>8, SeqEqual
  <2>10. Order!Cardinality(backlog \ R) = Len(s)
    BY <1>6, SameOrder DEF Placed, Q
  <2>11. w = Order!InQueueOrder(R, pos)
    BY SameOrder DEF w
  <2> QED BY <1>8, <2>9, <2>10, <2>11 DEF Order!CyclicEntriesLast, r, m, n, t, pos
<1>11. Order!GenerationOrder
  <2>1. ASSUME NEW i \in DOMAIN t, NEW j \in DOMAIN t, NEW n \in 0 .. MaxEntries, i < j, t[j] \in D[n]
        PROVE  t[i] \in D[n]
    <3>1. R \in SUBSET Q /\ \A c \in R : causes[c] \cap R # {}
      BY <1>5 DEF Sorts
    <3>2. t[j] \notin R
      BY <1>2, <2>1, <3>1, RestHasNoLayer
    <3>3. Len(s) \in Nat /\ Len(t) \in Nat /\ i \in 1 .. Len(t) /\ j \in 1 .. Len(t) /\ ~(j > Len(s))
      BY <1>6, <1>7, <3>2 DEF Placed
    <3>4. i \in 1 .. Len(s) /\ j \in 1 .. Len(s)
      BY <2>1, <3>3
    <3>5. t[i] = s[i] /\ t[j] = s[j]
      BY <1>6, <3>4 DEF Placed
    <3> QED BY <1>5, <2>1, <3>4, <3>5 DEF Sorts, KahnLayers
  <2> QED BY <2>1 DEF Order!GenerationOrder, t, D
<1> QED BY <1>9, <1>10, <1>11 DEF Order!SortIsExact

\* Entries are numbered as they are pushed, and only leave after that.
BacklogWithin == pushes \in Nat /\ backlog \in SUBSET (1 .. MaxEntries)

\* Req 16.3: for every number of queued entries, every assignment of causal
\* parents to them, cyclic ones included, and every order of acknowledgements,
\* the queue is sorted into a causal permutation, generation by generation,
\* entries on or behind a cycle last (topological_sort_queue).
THEOREM SortStaysExact ==
  ASSUME MaxEntries \in Nat
  PROVE  DeviceSpec => []SortIsExact
<1>1. DeviceInit => BacklogWithin
  BY DEF DeviceInit, Order!Init, BacklogWithin
<1>2. ASSUME BacklogWithin, [DeviceNext]_allVars PROVE BacklogWithin'
  <2>1. ASSUME OrderStep PROVE BacklogWithin'
    <3>1. ASSUME NEW ps, Order!Push(ps) PROVE BacklogWithin'
      BY <1>2, <3>1 DEF Order!Push, BacklogWithin
    <3>2. ASSUME NEW d, Order!Acknowledge(d) PROVE BacklogWithin'
      BY <1>2, <3>2 DEF Order!Acknowledge, BacklogWithin
    <3> QED BY <2>1, <3>1, <3>2 DEF OrderStep, Order!Next
  <2>2. ASSUME UNCHANGED orderVars PROVE BacklogWithin'
    BY <1>2, <2>2 DEF orderVars, BacklogWithin
  <2> QED BY <1>2, <2>1, <2>2 DEF DeviceNext, allVars, RevocationStep, ContaminationStep, SqliteStep, IndexedDbStep,
         InitStep, SdkStep, LanguageStep
<1>3. BacklogWithin => SortIsExact
  BY QueueSorted DEF BacklogWithin, SortIsExact
<1> QED BY <1>1, <1>2, <1>3, PTL DEF DeviceSpec

-----------------------------------------------------------------------------
(* The schema language.                                                    *)

LanguageSpec == Lang!Init /\ [][Lang!Next]_languageVars

\* The device runs the schema language or leaves it alone.
LEMMA LanguageRuns == DeviceSpec => LanguageSpec
<1>1. DeviceInit => Lang!Init
  BY DEF DeviceInit
<1>2. [DeviceNext]_allVars => [Lang!Next]_languageVars
  BY DEF DeviceNext, allVars, RevocationStep, ContaminationStep, SqliteStep, IndexedDbStep, InitStep, SdkStep,
         OrderStep, LanguageStep
<1> QED BY <1>1, <1>2, PTL DEF DeviceSpec, LanguageSpec

\* The deployment whose definitions are loaded stays the one it was.
LanguageInv == Lang!TypeOK /\ defs \in Deployments

\* Type correctness of build_schema_def_map: whichever rule a document fails
\* in, nothing of it is left for the next one, and the map keeps one schema
\* per identifier hash.
THEOREM LanguageTypes ==
  ASSUME NEW Definitions, Deployments \subseteq Seq(Definitions)
  PROVE  LanguageSpec => []Lang!TypeOK
<1> USE DEF LanguageInv
<1>1. Lang!Init => LanguageInv
  BY DEF Lang!Init, Lang!TypeOK
<1>2. LanguageInv /\ [Lang!Next]_languageVars => LanguageInv'
  <2> SUFFICES ASSUME LanguageInv, [Lang!Next]_languageVars PROVE LanguageInv'
    OBVIOUS
  <2>1. Len(defs) \in Nat
    OBVIOUS
  <2>2. CASE Lang!print_next
    BY <2>1, <2>2 DEF Lang!print_next, Lang!TypeOK
  <2>3. CASE Lang!parse_version_directive \/ Lang!parse_table_def
    BY <2>3 DEF Lang!parse_version_directive, Lang!parse_table_def, Lang!TypeOK
  <2>4. CASE Lang!TableItem \/ Lang!TableEnd
    BY <2>4 DEF Lang!TableItem, Lang!TableEnd, Lang!TypeOK
  <2>5. CASE Lang!parse_ok
    BY <2>5 DEF Lang!parse_ok, Lang!TypeOK
  <2>6. CASE Lang!parse_error
    BY <2>6 DEF Lang!parse_error, Lang!TypeOK
  <2>7. CASE UNCHANGED languageVars
    BY <2>7 DEF languageVars, Lang!TypeOK
  <2> QED BY <2>2, <2>3, <2>4, <2>5, <2>6, <2>7 DEF Lang!Next
<1>3. LanguageInv => Lang!TypeOK
  OBVIOUS
<1> QED BY <1>1, <1>2, <1>3, PTL DEF LanguageSpec

-----------------------------------------------------------------------------
(* The round trip of the schema language, rule by rule: each rule of the   *)
(* parser reads what the printer wrote for it, in one way only, and leaves *)
(* what follows untouched.                                                 *)

\* The words of the language.
Keywords ==
    {"schema", "version", "table", "compaction", "none", "aggressive", "NOT", "NULL", "NOTNULL", "DEFAULT",
     "PRIMARY", "KEY", "UNIQUE", "true", "false", "null"}
    \cup Lang!Punctuation \cup Lang!FieldTypes

\* The braces of the language; the SMT backend cannot read them in a string.
Opening == "{"
Closing == "}"

\* The braces differ from the words and from each other.
LEMMA Braces ==
  /\ {Opening, Closing} \subseteq Lang!Punctuation /\ {Opening, Closing} \subseteq Keywords
  /\ Opening # Closing
  /\ \A x \in {"NOT", "NOTNULL", "DEFAULT", "PRIMARY", "UNIQUE", "table"} : x # Closing
  BY Zenon DEF Opening, Closing, Keywords, Lang!Punctuation

\* The tokens of a document over some texts.
Token(T) == [kind : {"word", "string", "integer", "real", "other"}, text : T]

Identifiers(T) == T \ (Lang!BadNames \cup Lang!Punctuation)

\* The default values that can be written down.
Literals(T) ==
    [type : {"Text", "Integer"}, value : T] \cup [type : {"Real"}, value : T \ Lang!Unreadable]
    \cup [type : {"Boolean"}, value : {"true", "false"}] \cup {[type |-> "Null", value |-> "null"]}

\* What each kind of token reads as.
LEMMA TokensRead ==
  ASSUME NEW x
  PROVE  /\ Lang!parse_default_value([kind |-> "string", text |-> x]) = [type |-> "Text", value |-> x]
         /\ Lang!parse_default_value([kind |-> "integer", text |-> x]) = [type |-> "Integer", value |-> x]
         /\ Lang!parse_default_value([kind |-> "real", text |-> x]) = [type |-> "Real", value |-> x]
         /\ x \in {"true", "false"} => Lang!parse_default_value(Lang!W(x)) = [type |-> "Boolean", value |-> x]
         /\ Lang!parse_default_value(Lang!W("null")) = [type |-> "Null", value |-> "null"]
<1>1. Lang!parse_default_value([kind |-> "string", text |-> x]) = [type |-> "Text", value |-> x]
  BY DEF Lang!parse_default_value, Lang!W
<1>2. Lang!parse_default_value([kind |-> "integer", text |-> x]) = [type |-> "Integer", value |-> x]
  BY DEF Lang!parse_default_value, Lang!W
<1>3. Lang!parse_default_value([kind |-> "real", text |-> x]) = [type |-> "Real", value |-> x]
  BY DEF Lang!parse_default_value, Lang!W
<1>4. x \in {"true", "false"} => Lang!parse_default_value(Lang!W(x)) = [type |-> "Boolean", value |-> x]
  BY DEF Lang!parse_default_value, Lang!W
<1>5. Lang!parse_default_value(Lang!W("null")) = [type |-> "Null", value |-> "null"]
  BY DEF Lang!parse_default_value, Lang!W
<1> QED BY <1>1, <1>2, <1>3, <1>4, <1>5

\* What each kind of literal prints as.
LEMMA LiteralsPrint ==
  ASSUME NEW x
  PROVE  /\ Lang!print_default_value([type |-> "Text", value |-> x]) = [kind |-> "string", text |-> x]
         /\ Lang!print_default_value([type |-> "Integer", value |-> x]) = [kind |-> "integer", text |-> x]
         /\ x \notin Lang!Unreadable => Lang!print_default_value([type |-> "Real", value |-> x]) = [kind |-> "real", text |-> x]
         /\ Lang!print_default_value([type |-> "Boolean", value |-> x]) = Lang!W(x)
         /\ Lang!print_default_value([type |-> "Null", value |-> x]) = Lang!W(x)
<1>1. Lang!print_default_value([type |-> "Text", value |-> x]) = [kind |-> "string", text |-> x]
  BY DEF Lang!print_default_value
<1>2. Lang!print_default_value([type |-> "Integer", value |-> x]) = [kind |-> "integer", text |-> x]
  BY DEF Lang!print_default_value
<1>3. x \notin Lang!Unreadable => Lang!print_default_value([type |-> "Real", value |-> x]) = [kind |-> "real", text |-> x]
  BY DEF Lang!print_default_value
<1>4. Lang!print_default_value([type |-> "Boolean", value |-> x]) = Lang!W(x)
  BY DEF Lang!print_default_value
<1>5. Lang!print_default_value([type |-> "Null", value |-> x]) = Lang!W(x)
  BY DEF Lang!print_default_value
<1> QED BY <1>1, <1>2, <1>3, <1>4, <1>5

\* The shapes of a literal.
LEMMA LiteralShapes ==
  ASSUME NEW T, Keywords \subseteq T, NEW dv \in Literals(T)
  PROVE  \/ \E x \in T : dv = [type |-> "Text", value |-> x]
         \/ \E x \in T : dv = [type |-> "Integer", value |-> x]
         \/ \E x \in T \ Lang!Unreadable : dv = [type |-> "Real", value |-> x]
         \/ \E x \in {"true", "false"} : dv = [type |-> "Boolean", value |-> x]
         \/ dv = [type |-> "Null", value |-> "null"]
<1>1. dv = [type |-> dv.type, value |-> dv.value]
  BY DEF Literals
<1>2. \/ dv.type = "Text" /\ dv.value \in T
      \/ dv.type = "Integer" /\ dv.value \in T
      \/ dv.type = "Real" /\ dv.value \in T \ Lang!Unreadable
      \/ dv.type = "Boolean" /\ dv.value \in {"true", "false"}
      \/ dv.type = "Null" /\ dv.value = "null"
  BY DEF Literals
<1> QED BY <1>1, <1>2

\* A literal prints as one token that reads as a default value, as itself.
ComesBack(T, dv) ==
    /\ Lang!print_default_value(dv) \in Token(T)
    /\ Lang!IsDefaultValue(Lang!print_default_value(dv))
    /\ Lang!parse_default_value(Lang!print_default_value(dv)) = dv

\* Every literal comes back: a real is never read as an integer.
LEMMA LiteralsComeBack ==
  ASSUME NEW T, Keywords \subseteq T, NEW dv \in Literals(T)
  PROVE  ComesBack(T, dv) /\ dv # Lang!NoDefault
<1>1. ASSUME NEW x \in T, dv = [type |-> "Text", value |-> x] PROVE ComesBack(T, dv)
  <2>1. Lang!print_default_value(dv) = [kind |-> "string", text |-> x]
    BY <1>1, LiteralsPrint
  <2>2. PICK k : k = [kind |-> "string", text |-> x]
    OBVIOUS
  <2>3. k \in Token(T)
    BY <2>2 DEF Token
  <2>4. Lang!IsDefaultValue(k)
    BY <2>2 DEF Lang!IsDefaultValue
  <2>5. Lang!parse_default_value(k) = dv
    BY <1>1, <2>2, TokensRead
  <2> QED BY <2>1, <2>2, <2>3, <2>4, <2>5 DEF ComesBack
<1>2. ASSUME NEW x \in T, dv = [type |-> "Integer", value |-> x] PROVE ComesBack(T, dv)
  <2>1. Lang!print_default_value(dv) = [kind |-> "integer", text |-> x]
    BY <1>2, LiteralsPrint
  <2>2. PICK k : k = [kind |-> "integer", text |-> x]
    OBVIOUS
  <2>3. k \in Token(T)
    BY <2>2 DEF Token
  <2>4. Lang!IsDefaultValue(k)
    BY <2>2 DEF Lang!IsDefaultValue
  <2>5. Lang!parse_default_value(k) = dv
    BY <1>2, <2>2, TokensRead
  <2> QED BY <2>1, <2>2, <2>3, <2>4, <2>5 DEF ComesBack
<1>3. ASSUME NEW x \in T, dv = [type |-> "Real", value |-> x], x \notin Lang!Unreadable PROVE ComesBack(T, dv)
  <2>1. Lang!print_default_value(dv) = [kind |-> "real", text |-> x]
    BY <1>3, LiteralsPrint
  <2>2. PICK k : k = [kind |-> "real", text |-> x]
    OBVIOUS
  <2>3. k \in Token(T)
    BY <2>2 DEF Token
  <2>4. Lang!IsDefaultValue(k)
    BY <2>2 DEF Lang!IsDefaultValue
  <2>5. Lang!parse_default_value(k) = dv
    BY <1>3, <2>2, TokensRead
  <2> QED BY <2>1, <2>2, <2>3, <2>4, <2>5 DEF ComesBack
<1>4. ASSUME NEW x \in {"true", "false"}, dv = [type |-> "Boolean", value |-> x] PROVE ComesBack(T, dv)
  <2>1. Lang!print_default_value(dv) = Lang!W(x)
    BY <1>4, LiteralsPrint
  <2>2. Lang!W(x) \in Token(T) /\ Lang!IsDefaultValue(Lang!W(x))
    BY DEF Token, Lang!W, Lang!IsDefaultValue, Keywords
  <2>3. Lang!parse_default_value(Lang!W(x)) = dv
    BY <1>4, TokensRead
  <2> QED BY <2>1, <2>2, <2>3 DEF ComesBack
<1>5. ASSUME dv = [type |-> "Null", value |-> "null"] PROVE ComesBack(T, dv)
  <2>1. Lang!print_default_value(dv) = Lang!W("null")
    BY <1>5, LiteralsPrint
  <2>2. Lang!W("null") \in Token(T) /\ Lang!IsDefaultValue(Lang!W("null"))
    BY DEF Token, Lang!W, Lang!IsDefaultValue, Keywords
  <2>3. Lang!parse_default_value(Lang!W("null")) = dv
    BY <1>5, TokensRead
  <2> QED BY <2>1, <2>2, <2>3 DEF ComesBack
<1>6. dv # Lang!NoDefault
  <2>1. dv.type # "None"
    BY LiteralShapes
  <2>2. Lang!NoDefault.type = "None"
    BY DEF Lang!NoDefault
  <2> QED BY <2>1, <2>2
<1>7. \/ \E x \in T : dv = [type |-> "Text", value |-> x]
      \/ \E x \in T : dv = [type |-> "Integer", value |-> x]
      \/ \E x \in T \ Lang!Unreadable : dv = [type |-> "Real", value |-> x]
      \/ \E x \in {"true", "false"} : dv = [type |-> "Boolean", value |-> x]
      \/ dv = [type |-> "Null", value |-> "null"]
  BY LiteralShapes
<1> QED BY <1>1, <1>2, <1>3, <1>4, <1>5, <1>6, <1>7

\* Where the tokens of two joined parts are.
LEMMA Joined ==
  ASSUME NEW S, NEW a \in Seq(S), NEW b \in Seq(S)
  PROVE  /\ a \o b \in Seq(S) /\ Len(a \o b) = Len(a) + Len(b)
         /\ \A i \in 1 .. Len(a) : (a \o b)[i] = a[i]
         /\ \A i \in 1 .. Len(b) : (a \o b)[Len(a) + i] = b[i]
  OBVIOUS

\* A document begins with some words.
Starts(ts, texts) == Len(ts) >= Len(texts) /\ \A i \in 1 .. Len(texts) : ts[i] = Lang!W(texts[i])

\* The parser's lookahead sees them then.
LEMMA AheadIs ==
  ASSUME NEW T, NEW ts \in Seq(Token(T)), NEW texts \in Seq(T)
  PROVE  Lang!Ahead(ts, texts) <=> Starts(ts, texts)
<1>1. ASSUME Len(ts) >= Len(texts)
      PROVE  SubSeq(ts, 1, Len(texts)) = Lang!Words(texts) <=> \A i \in 1 .. Len(texts) : ts[i] = Lang!W(texts[i])
  <2>1. Len(ts) \in Nat /\ Len(texts) \in Nat
    OBVIOUS
  <2> DEFINE s == SubSeq(ts, 1, Len(texts))
             w == Lang!Words(texts)
  <2>2. s = [i \in 1 .. Len(texts) |-> ts[i]]
    BY <1>1, <2>1
  <2>3. w = [i \in 1 .. Len(texts) |-> Lang!W(texts[i])]
    BY DEF Lang!Words
  <2> QED BY <2>2, <2>3
<1> QED BY <1>1 DEF Lang!Ahead, Starts

\* The tokens of a list of columns, place by place.
Laid(columns, ts) ==
    /\ ts[1] = Lang!W("(") /\ ts[2 * Len(columns) + 1] = Lang!W(")")
    /\ \A i \in 1 .. Len(columns) : ts[2 * i] = Lang!W(columns[i])
    /\ \A i \in 1 .. (Len(columns) - 1) : ts[2 * i + 1] = Lang!W(",")

\* A list of columns is printed as p, which begins the document ts.
PrintedAs(T, columns, p, ts, more) ==
    /\ p \in Seq(Token(T)) /\ Len(p) = 2 * Len(columns) + 1
    /\ ts \in Seq(Token(T)) /\ Len(ts) = 2 * Len(columns) + 1 + Len(more)
    /\ Laid(columns, ts)

\* print_columns does that.
LEMMA ColumnsPrinted ==
  ASSUME NEW T, Keywords \subseteq T, NEW columns \in Seq(Identifiers(T)), columns # <<>>, NEW more \in Seq(Token(T)),
         NEW ts, ts = Lang!print_columns(columns) \o more
  PROVE  PrintedAs(T, columns, Lang!print_columns(columns), ts, more)
<1> DEFINE n == Len(columns)
           g == [i \in 1 .. (2 * n - 1) |-> IF i % 2 = 0 THEN Lang!W(",") ELSE Lang!Name(columns[(i + 1) \div 2])]
           p == Lang!print_columns(columns)
<1>1. n \in Nat \ {0} /\ \A i \in 1 .. n : columns[i] \in Identifiers(T)
  OBVIOUS
<1>2. \A x \in T : Lang!W(x) \in Token(T)
  BY DEF Lang!W, Token
<1>3. \A x \in Identifiers(T) : Lang!Name(x) = Lang!W(x) /\ Lang!W(x) \in Token(T)
  BY <1>2 DEF Lang!Name, Lang!W, Identifiers
<1>4. \A i \in 1 .. (2 * n - 1) : i % 2 # 0 => (i + 1) \div 2 \in 1 .. n
  BY <1>1
<1>5. g \in [1 .. (2 * n - 1) -> Token(T)]
  <2>1. ASSUME NEW i \in 1 .. (2 * n - 1) PROVE g[i] \in Token(T)
    <3>1. CASE i % 2 = 0
      BY <1>2, <3>1 DEF Keywords, Lang!Punctuation
    <3>2. CASE i % 2 # 0
      <4>1. (i + 1) \div 2 \in 1 .. n
        BY <1>4, <3>2
      <4>2. columns[(i + 1) \div 2] \in Identifiers(T)
        BY <1>1, <4>1
      <4>3. g[i] = Lang!Name(columns[(i + 1) \div 2])
        BY <3>2
      <4> HIDE DEF g
      <4> QED BY <1>3, <4>2, <4>3
    <3> QED BY <3>1, <3>2
  <2> QED BY <2>1
<1>6. \A i \in 1 .. n : g[2 * i - 1] = Lang!W(columns[i])
  <2> SUFFICES ASSUME NEW i \in 1 .. n PROVE g[2 * i - 1] = Lang!W(columns[i])
    OBVIOUS
  <2>1. 2 * i - 1 \in 1 .. (2 * n - 1) /\ (2 * i - 1) % 2 # 0 /\ ((2 * i - 1) + 1) \div 2 = i
    BY <1>1
  <2> QED BY <1>1, <1>3, <2>1
<1>7. \A i \in 1 .. (n - 1) : g[2 * i] = Lang!W(",")
  <2> SUFFICES ASSUME NEW i \in 1 .. (n - 1) PROVE g[2 * i] = Lang!W(",")
    OBVIOUS
  <2>1. 2 * i \in 1 .. (2 * n - 1) /\ (2 * i) % 2 = 0
    BY <1>1
  <2> QED BY <2>1
<1>8. p = (<<Lang!W("(")>> \o g) \o <<Lang!W(")")>>
  BY DEF Lang!print_columns
<1> HIDE DEF g, n, p
<1>9. g \in Seq(Token(T)) /\ Len(g) = 2 * n - 1
  <2>1. g \in Seq(Token(T))
    BY <1>1, <1>5, SeqDef
  <2>2. DOMAIN g = 1 .. (2 * n - 1)
    BY <1>5
  <2> QED BY <1>1, <2>1, <2>2
<1>10. PICK l, r : l = Lang!W("(") /\ r = Lang!W(")") /\ l \in Token(T) /\ r \in Token(T)
  BY <1>2 DEF Keywords, Lang!Punctuation
<1>11. PICK q : q = <<l>> \o g
  OBVIOUS
<1>12. q \in Seq(Token(T)) /\ Len(q) = 2 * n /\ q[1] = l /\ \A i \in 1 .. (2 * n - 1) : q[i + 1] = g[i]
  BY <1>1, <1>9, <1>10, <1>11
<1>13. p = q \o <<r>>
  BY <1>8, <1>10, <1>11
<1>14. /\ p \in Seq(Token(T)) /\ Len(p) = 2 * n + 1 /\ p[1] = Lang!W("(") /\ p[2 * n + 1] = Lang!W(")")
       /\ \A i \in 1 .. (2 * n - 1) : p[i + 1] = g[i]
  <2>0. <<r>> \in Seq(Token(T)) /\ Len(<<r>>) = 1 /\ <<r>>[1] = r
    BY <1>10
  <2>1. /\ p \in Seq(Token(T)) /\ Len(p) = Len(q) + 1 /\ p[Len(q) + 1] = r
        /\ \A i \in 1 .. Len(q) : p[i] = q[i]
    BY <1>12, <1>13, <2>0, Joined
  <2>2. Len(p) = 2 * n + 1 /\ p[2 * n + 1] = r /\ \A i \in 1 .. (2 * n) : p[i] = q[i]
    BY <1>1, <1>12, <2>1
  <2>3. p[1] = l
    BY <1>1, <1>12, <2>2
  <2>4. \A i \in 1 .. (2 * n - 1) : i + 1 \in 1 .. (2 * n)
    BY <1>1
  <2> QED BY <1>10, <1>12, <2>1, <2>2, <2>3, <2>4
<1>15. ts = p \o more
  BY DEF p
<1>16. ts \in Seq(Token(T)) /\ Len(ts) = 2 * n + 1 + Len(more) /\ \A i \in 1 .. (2 * n + 1) : ts[i] = p[i]
  <2>1. p \in Seq(Token(T)) /\ more \in Seq(Token(T)) /\ Len(p) = 2 * n + 1
    BY <1>14
  <2>2. p \in Seq(Token(T)) /\ more \in Seq(Token(T))
    BY <2>1
  <2>3. /\ p \o more \in Seq(Token(T)) /\ Len(p \o more) = Len(p) + Len(more)
        /\ \A i \in 1 .. Len(p) : (p \o more)[i] = p[i]
    BY <2>2, Joined, SMT
  <2> QED BY <1>15, <2>1, <2>3
<1>17. \A i \in 1 .. n : ts[2 * i] = Lang!W(columns[i])
  <2> SUFFICES ASSUME NEW i \in 1 .. n PROVE ts[2 * i] = Lang!W(columns[i])
    OBVIOUS
  <2>1. 2 * i - 1 \in 1 .. (2 * n - 1) /\ 2 * i \in 1 .. (2 * n + 1) /\ (2 * i - 1) + 1 = 2 * i
    BY <1>1
  <2> QED BY <1>6, <1>14, <1>16, <2>1
<1>18. \A i \in 1 .. (n - 1) : ts[2 * i + 1] = Lang!W(",")
  <2> SUFFICES ASSUME NEW i \in 1 .. (n - 1) PROVE ts[2 * i + 1] = Lang!W(",")
    OBVIOUS
  <2>1. 2 * i \in 1 .. (2 * n - 1) /\ 2 * i + 1 \in 1 .. (2 * n + 1)
    BY <1>1
  <2> QED BY <1>7, <1>14, <1>16, <2>1
<1>19. ts[1] = Lang!W("(") /\ ts[2 * n + 1] = Lang!W(")")
  BY <1>1, <1>14, <1>16
<1>20. Laid(columns, ts)
  BY <1>17, <1>18, <1>19 DEF n, Laid
<1> QED BY <1>14, <1>16, <1>20 DEF n, p, PrintedAs

\* What is left behind a part that was read.
LEMMA Dropped ==
  ASSUME NEW S, NEW a \in Seq(S), NEW b \in Seq(S)
  PROVE  Lang!Drop(a \o b, Len(a)) = b
<1>1. a \o b \in Seq(S) /\ Len(a \o b) = Len(a) + Len(b) /\ Len(a) \in Nat /\ Len(b) \in Nat
  OBVIOUS
<1> DEFINE t == SubSeq(a \o b, Len(a) + 1, Len(a) + Len(b))
<1>2. t = [i \in 1 .. Len(b) |-> (a \o b)[Len(a) + i]]
  BY <1>1
<1>3. \A i \in 1 .. Len(b) : (a \o b)[Len(a) + i] = b[i]
  BY Joined
<1>4. b = [i \in 1 .. Len(b) |-> b[i]]
  OBVIOUS
<1>5. t = b
  <2> HIDE DEF t
  <2> QED BY <1>2, <1>3, <1>4
<1> QED BY <1>1, <1>5 DEF Lang!Drop

\* Parts can be joined in either order of joining.
LEMMA JoinedAgain ==
  ASSUME NEW S, NEW a \in Seq(S), NEW b \in Seq(S), NEW c \in Seq(S)
  PROVE  (a \o b) \o c = a \o (b \o c)
  OBVIOUS

\* A document over some tokens.
Doc(D, a) == a \in Seq(D)

\* Joined documents are one.
LEMMA DocsJoin ==
  ASSUME NEW D, NEW a, NEW b, Doc(D, a), Doc(D, b)
  PROVE  Doc(D, a \o b)
  BY DEF Doc

Associates(a, b, c) == (a \o b) \o c = a \o (b \o c)

\* In whichever order they are joined.
LEMMA DocsRegroup ==
  ASSUME NEW D, NEW a, NEW b, NEW c, Doc(D, a), Doc(D, b), Doc(D, c)
  PROVE  Associates(a, b, c)
  BY JoinedAgain DEF Doc, Associates

\* Words are tokens.
LEMMA WordsAre ==
  ASSUME NEW T, NEW texts \in Seq(T)
  PROVE  /\ Lang!Words(texts) \in Seq(Token(T)) /\ Len(Lang!Words(texts)) = Len(texts)
         /\ \A i \in 1 .. Len(texts) : Lang!Words(texts)[i] = Lang!W(texts[i])
<1>1. Len(texts) \in Nat /\ \A i \in 1 .. Len(texts) : texts[i] \in T
  OBVIOUS
<1>2. \A x \in T : Lang!W(x) \in Token(T)
  BY DEF Lang!W, Token
<1>3. Lang!Words(texts) = [i \in 1 .. Len(texts) |-> Lang!W(texts[i])]
  BY DEF Lang!Words
<1>4. Lang!Words(texts) \in [1 .. Len(texts) -> Token(T)]
  BY <1>1, <1>2, <1>3
<1>5. Lang!Words(texts) \in Seq(Token(T))
  BY <1>1, <1>4, SeqDef
<1>6. DOMAIN Lang!Words(texts) = 1 .. Len(texts)
  BY <1>3
<1> QED BY <1>1, <1>3, <1>5, <1>6

\* A document is some words and what follows them.
Fronted(T, texts, ts, body) ==
    ts \in Seq(Token(T)) /\ Starts(ts, texts) /\ Lang!Drop(ts, Len(texts)) = body

\* Words that were printed are ahead, and behind them is what follows.
LEMMA WordsAhead ==
  ASSUME NEW T, NEW texts \in Seq(T), NEW body \in Seq(Token(T)), NEW ts, ts = Lang!Words(texts) \o body
  PROVE  Fronted(T, texts, ts, body)
<1>1. Len(texts) \in Nat /\ Len(body) \in Nat
  OBVIOUS
<1>2. PICK w : w = Lang!Words(texts)
  OBVIOUS
<1>3. w \in Seq(Token(T)) /\ Len(w) = Len(texts) /\ \A i \in 1 .. Len(texts) : w[i] = Lang!W(texts[i])
  BY <1>2, WordsAre
<1>4. ts = w \o body
  BY <1>2
<1>5. ts \in Seq(Token(T)) /\ Len(ts) = Len(texts) + Len(body) /\ \A i \in 1 .. Len(texts) : ts[i] = Lang!W(texts[i])
  BY <1>3, <1>4, Joined
<1>6. Len(ts) >= Len(texts)
  BY <1>1, <1>5
<1>7. Lang!Drop(ts, Len(texts)) = body
  BY <1>3, <1>4, Dropped
<1> QED BY <1>5, <1>6, <1>7 DEF Starts, Fronted

\* A list of columns is read in one way only, as itself.
LEMMA ColumnsComeBack ==
  ASSUME NEW T, NEW columns \in Seq(Identifiers(T)), columns # <<>>,
         NEW ts, NEW l \in Nat, Len(ts) = 2 * Len(columns) + 1 + l, Laid(columns, ts)
  PROVE  Lang!ColumnCounts(ts) = {Len(columns)} /\ Lang!parse_column_list(ts, Len(columns)) = columns
<1>0. PICK n \in Nat \ {0} : n = Len(columns)
  OBVIOUS
<1>1. \A i \in 1 .. n : columns[i] \in Identifiers(T)
  BY <1>0
<1>2. PICK h : h = Len(ts)
  OBVIOUS
<1>3. h \in Nat /\ h = 2 * n + 1 + l
  BY <1>0, <1>2
<1>4. /\ ts[1] = Lang!W("(") /\ ts[2 * n + 1] = Lang!W(")")
      /\ \A i \in 1 .. n : ts[2 * i] = Lang!W(columns[i])
      /\ \A i \in 1 .. (n - 1) : ts[2 * i + 1] = Lang!W(",")
  BY <1>0 DEF Laid
<1>5. Lang!W(")") # Lang!W(",")
  BY DEF Lang!W
<1>6. \A x \in Identifiers(T) : Lang!IsIdent(Lang!W(x)) /\ Lang!W(x).text = x
  BY DEF Lang!IsIdent, Lang!W, Identifiers
<1>7. \A k : k \in Lang!ColumnCounts(ts) <=>
        /\ k \in 1 .. (h \div 2) /\ h >= 2 * k + 1 /\ ts[1] = Lang!W("(") /\ ts[2 * k + 1] = Lang!W(")")
        /\ \A i \in 1 .. k : Lang!IsIdent(ts[2 * i])
        /\ \A i \in 1 .. (k - 1) : ts[2 * i + 1] = Lang!W(",")
  BY <1>2 DEF Lang!ColumnCounts
<1>8. n \in Lang!ColumnCounts(ts)
  <2>1. n \in 1 .. (h \div 2) /\ h >= 2 * n + 1
    BY <1>3
  <2>2. \A i \in 1 .. n : Lang!IsIdent(ts[2 * i])
    BY <1>1, <1>4, <1>6
  <2> QED BY <1>4, <1>7, <2>1, <2>2
<1>9. ASSUME NEW k \in Lang!ColumnCounts(ts) PROVE k = n
  <2>1. k \in 1 .. (h \div 2) /\ ts[2 * k + 1] = Lang!W(")") /\ \A i \in 1 .. (k - 1) : ts[2 * i + 1] = Lang!W(",")
    BY <1>7
  <2>2. k \in Nat /\ k >= 1
    <3>1. PICK g \in Nat : g = h \div 2
      BY <1>3
    <3>2. k \in 1 .. g
      BY <2>1, <3>1
    <3> QED BY <3>2
  <2>3. ~(k < n)
    <3> SUFFICES ASSUME k < n PROVE FALSE
      OBVIOUS
    <3>1. k \in 1 .. (n - 1)
      BY <2>2
    <3>2. ts[2 * k + 1] = Lang!W(",")
      BY <1>4, <3>1
    <3> QED BY <1>5, <2>1, <3>2
  <2>4. ~(k > n)
    <3> SUFFICES ASSUME k > n PROVE FALSE
      OBVIOUS
    <3>1. n \in 1 .. (k - 1)
      BY <2>2
    <3>2. ts[2 * n + 1] = Lang!W(",")
      BY <2>1, <3>1
    <3> QED BY <1>4, <1>5, <3>2
  <2> QED BY <2>2, <2>3, <2>4
<1>10. Lang!parse_column_list(ts, n) = columns
  <2>1. \A i \in 1 .. n : ts[2 * i].text = columns[i]
    BY <1>1, <1>4, <1>6
  <2>2. columns = [i \in 1 .. n |-> columns[i]]
    BY <1>0
  <2>3. Lang!parse_column_list(ts, n) = [i \in 1 .. n |-> ts[2 * i].text]
    BY DEF Lang!parse_column_list
  <2>4. PICK f : f = [i \in 1 .. n |-> ts[2 * i].text]
    OBVIOUS
  <2>5. f = columns
    BY <2>1, <2>2, <2>4
  <2> QED BY <2>3, <2>4, <2>5
<1>11. Lang!ColumnCounts(ts) = {n}
  BY <1>8, <1>9
<1> QED BY <1>0, <1>10, <1>11

\* One or two words of a set of texts.
LEMMA FewWords ==
  ASSUME NEW T, NEW x \in T, NEW y \in T
  PROVE  /\ <<x>> \in Seq(T) /\ Len(<<x>>) = 1 /\ <<x>>[1] = x
         /\ <<x, y>> \in Seq(T) /\ Len(<<x, y>>) = 2 /\ <<x, y>>[1] = x /\ <<x, y>>[2] = y
  OBVIOUS

\* The first word is the first token.
LEMMA FirstWord ==
  ASSUME NEW T, NEW ts \in Seq(Token(T)), NEW texts \in Seq(T), Len(texts) >= 1
  PROVE  Starts(ts, texts) => Len(ts) >= 1 /\ ts[1] = Lang!W(texts[1])
<1>1. PICK n \in Nat : n = Len(texts)
  OBVIOUS
<1>2. Len(ts) \in Nat
  OBVIOUS
<1>3. ASSUME Starts(ts, texts) PROVE Len(ts) >= n /\ \A i \in 1 .. n : ts[i] = Lang!W(texts[i])
  BY <1>1, <1>3 DEF Starts
<1>4. 1 \in 1 .. n
  BY <1>1
<1> QED BY <1>2, <1>3, <1>4

\* Words are told apart, and one word is a document.
LEMMA WordsDiffer ==
  ASSUME NEW x, NEW y
  PROVE  (Lang!W(x) = Lang!W(y) => x = y) /\ Lang!Words(<<x>>) = <<Lang!W(x)>>
<1>1. Lang!W(x) = Lang!W(y) => x = y
  BY DEF Lang!W
<1>2. Lang!Words(<<x>>) = <<Lang!W(x)>>
  BY DEF Lang!Words
<1> QED BY <1>1, <1>2

\* Words, a list of columns and what follows are seen in a document.
Headed(T, texts, columns, ts, size, more) ==
    /\ ts \in Seq(Token(T)) /\ Starts(ts, texts)
    /\ Lang!ColumnCounts(Lang!Drop(ts, Len(texts))) = {Len(columns)}
    /\ Lang!parse_column_list(Lang!Drop(ts, Len(texts)), Len(columns)) = columns
    /\ size = Len(texts) + 2 * Len(columns) + 1
    /\ Lang!Drop(ts, size) = more

\* Words and a list of columns are printed so that they are seen again.
LEMMA HeadedColumns ==
  ASSUME NEW T, Keywords \subseteq T, NEW texts \in Seq(T), NEW columns \in Seq(Identifiers(T)), columns # <<>>,
         NEW more \in Seq(Token(T)), NEW p, p = Lang!Words(texts) \o Lang!print_columns(columns),
         NEW ts, ts = p \o more
  PROVE  Headed(T, texts, columns, ts, Len(p), more) /\ p \in Seq(Token(T))
<1>1. PICK b : b = Lang!print_columns(columns)
  OBVIOUS
<1>2. PICK w : w = Lang!Words(texts)
  OBVIOUS
<1>3. PICK body : body = b \o more
  OBVIOUS
<1>4. PICK n \in Nat, l \in Nat, t \in Nat : n = Len(columns) /\ l = Len(more) /\ t = Len(texts)
  OBVIOUS
<1>5. b \in Seq(Token(T)) /\ Len(b) = 2 * n + 1 /\ body \in Seq(Token(T)) /\ Len(body) = 2 * n + 1 + l /\ Laid(columns, body)
  <2>1. body = Lang!print_columns(columns) \o more
    BY <1>1, <1>3
  <2>2. PrintedAs(T, columns, Lang!print_columns(columns), body, more)
    BY <2>1, ColumnsPrinted
  <2> QED BY <1>1, <1>4, <2>2 DEF PrintedAs
<1>6. Lang!ColumnCounts(body) = {Len(columns)} /\ Lang!parse_column_list(body, Len(columns)) = columns
  BY <1>4, <1>5, ColumnsComeBack
<1>7. w \in Seq(Token(T)) /\ Len(w) = t
  BY <1>2, <1>4, WordsAre
<1>8. p = w \o b /\ ts = (w \o b) \o more
  BY <1>1, <1>2
<1>9. ts = w \o body
  <2>1. Doc(Token(T), w) /\ Doc(Token(T), b) /\ Doc(Token(T), more)
    BY <1>5, <1>7 DEF Doc
  <2>2. Associates(w, b, more)
    BY <2>1, DocsRegroup
  <2> QED BY <1>3, <1>8, <2>2 DEF Associates
<1>10. p \in Seq(Token(T)) /\ Len(p) = Len(w) + Len(b)
  <2>1. w \o b \in Seq(Token(T)) /\ Len(w \o b) = Len(w) + Len(b)
    BY <1>5, <1>7, Joined
  <2> QED BY <1>8, <2>1
<1>11. Len(p) = t + 2 * n + 1
  BY <1>5, <1>7, <1>10
<1>12. Lang!Drop(ts, Len(p)) = more
  BY <1>10, Dropped
<1>13. ts \in Seq(Token(T)) /\ Starts(ts, texts) /\ Lang!Drop(ts, Len(texts)) = body
  <2>1. ts = Lang!Words(texts) \o body /\ body \in Seq(Token(T))
    BY <1>2, <1>5, <1>9
  <2>2. Fronted(T, texts, ts, body)
    BY <2>1, WordsAhead, Zenon
  <2> QED BY <2>2 DEF Fronted
<1> QED BY <1>4, <1>6, <1>10, <1>11, <1>12, <1>13 DEF Headed

\* A printed constraint is read in one way only, as itself, and nothing behind
\* it is touched.
ConstraintBack(c, ts, more) ==
    /\ Lang!parse_constraint(ts) = {[value |-> c, size |-> Len(Lang!print_constraint(c))]}
    /\ Lang!Drop(ts, Len(Lang!print_constraint(c))) = more
    /\ Len(ts) >= 1 /\ ts[1] \in {Lang!W("PRIMARY"), Lang!W("UNIQUE")}

\* The two constraints that have a form of their own come back.
LEMMA ConstraintsComeBack ==
  ASSUME NEW T, Keywords \subseteq T, NEW columns \in Seq(Identifiers(T)), columns # <<>>, NEW more \in Seq(Token(T)),
         NEW kind \in {"PrimaryKey", "Unique"}, NEW c, c = [kind |-> kind, columns |-> columns],
         NEW ts, ts = Lang!print_constraint(c) \o more
  PROVE  ConstraintBack(c, ts, more) /\ Lang!print_constraint(c) \in Seq(Token(T))
<1>1. "PRIMARY" \in T /\ "KEY" \in T /\ "UNIQUE" \in T
  BY DEF Keywords, Lang!Punctuation
<1>2. PICK pk, un : pk = <<"PRIMARY", "KEY">> /\ un = <<"UNIQUE">>
  OBVIOUS
<1>3. /\ pk \in Seq(T) /\ Len(pk) = 2 /\ pk[1] = "PRIMARY" /\ pk[2] = "KEY"
      /\ un \in Seq(T) /\ Len(un) = 1 /\ un[1] = "UNIQUE"
  BY <1>1, <1>2, FewWords
<1>4. Lang!W("PRIMARY") # Lang!W("UNIQUE")
  BY DEF Lang!W
<1>5. ~(Starts(ts, pk) /\ Starts(ts, un))
  BY <1>3, <1>4 DEF Starts
<1>6. PICK p : p = Lang!print_constraint(c)
  OBVIOUS
<1>7. PICK n : n = Len(columns)
  OBVIOUS
<1>8. CASE kind = "PrimaryKey"
  <2>1. p = Lang!Words(pk) \o Lang!print_columns(columns)
    BY <1>2, <1>6, <1>8 DEF Lang!print_constraint
  <2>2. Headed(T, pk, columns, ts, Len(p), more) /\ p \in Seq(Token(T))
    BY <1>3, <1>6, <2>1, HeadedColumns
  <2>3. Lang!Ahead(ts, pk) /\ ~Lang!Ahead(ts, un)
    BY <1>3, <1>5, <2>2, AheadIs DEF Headed
  <2>4. /\ Lang!ColumnCounts(Lang!Drop(ts, Len(pk))) = {n}
        /\ Lang!parse_column_list(Lang!Drop(ts, Len(pk)), n) = columns
        /\ Len(p) = Len(pk) + 2 * n + 1 /\ Lang!Drop(ts, Len(p)) = more
    BY <1>7, <2>2 DEF Headed
  <2>6. Len(ts) >= 1 /\ ts[1] = Lang!W(pk[1])
    <3>1. ts \in Seq(Token(T)) /\ Starts(ts, pk)
      BY <2>2 DEF Headed
    <3>2. pk \in Seq(T) /\ Len(pk) >= 1
      BY <1>3
    <3> QED BY <3>1, <3>2, FirstWord
  <2>5. Lang!parse_constraint(ts) = {[value |-> c, size |-> Len(p)]}
    BY <1>2, <1>8, <2>3, <2>4 DEF Lang!parse_constraint
  <2> QED BY <1>3, <1>6, <2>2, <2>4, <2>5, <2>6 DEF ConstraintBack
<1>9. CASE kind = "Unique"
  <2>1. p = Lang!Words(un) \o Lang!print_columns(columns)
    <3>1. p = <<Lang!W("UNIQUE")>> \o Lang!print_columns(columns)
      BY <1>6, <1>9 DEF Lang!print_constraint
    <3>2. Lang!Words(un) = <<Lang!W("UNIQUE")>>
      BY <1>2 DEF Lang!Words
    <3> QED BY <3>1, <3>2
  <2>2. Headed(T, un, columns, ts, Len(p), more) /\ p \in Seq(Token(T))
    BY <1>3, <1>6, <2>1, HeadedColumns
  <2>3. Lang!Ahead(ts, un) /\ ~Lang!Ahead(ts, pk)
    BY <1>3, <1>5, <2>2, AheadIs DEF Headed
  <2>4. /\ Lang!ColumnCounts(Lang!Drop(ts, Len(un))) = {n}
        /\ Lang!parse_column_list(Lang!Drop(ts, Len(un)), n) = columns
        /\ Len(p) = Len(un) + 2 * n + 1 /\ Lang!Drop(ts, Len(p)) = more
    BY <1>7, <2>2 DEF Headed
  <2>6. Len(ts) >= 1 /\ ts[1] = Lang!W(un[1])
    <3>1. ts \in Seq(Token(T)) /\ Starts(ts, un)
      BY <2>2 DEF Headed
    <3>2. un \in Seq(T) /\ Len(un) >= 1
      BY <1>3
    <3> QED BY <3>1, <3>2, FirstWord
  <2>5. Lang!parse_constraint(ts) = {[value |-> c, size |-> Len(p)]}
    BY <1>2, <1>9, <2>3, <2>4 DEF Lang!parse_constraint
  <2> QED BY <1>3, <1>6, <2>2, <2>4, <2>5, <2>6 DEF ConstraintBack
<1> QED BY <1>8, <1>9

\* Fields with a name of their own and a default that can be written down.
Field(T) == [name : Identifiers(T), type : Lang!FieldTypes, nullable : BOOLEAN,
             default : Literals(T) \cup {Lang!NoDefault}]

\* A default value follows.
DefaultAhead(ts) == Len(ts) >= 2 /\ ts[1] = Lang!W("DEFAULT") /\ Lang!IsDefaultValue(ts[2])

\* What follows a field would be read as a part of it.
Continues(f, more) ==
    /\ f.default = Lang!NoDefault
    /\ DefaultAhead(more) \/ (f.nullable /\ Lang!NotNullSize(more) # 0)

\* No list of columns begins with another token than a bracket.
LEMMA NoColumns ==
  ASSUME NEW ts, ts[1] # Lang!W("(")
  PROVE  Lang!ColumnCounts(ts) = {}
  BY DEF Lang!ColumnCounts

\* A name and a type are not the beginning of a constraint.
LEMMA FieldIsNoConstraint ==
  ASSUME NEW T, Keywords \subseteq T, NEW ts \in Seq(Token(T)), Len(ts) >= 2,
         NEW y \in Lang!FieldTypes, ts[2] = Lang!W(y)
  PROVE  Lang!parse_constraint(ts) = {}
<1>1. "PRIMARY" \in T /\ "KEY" \in T /\ "UNIQUE" \in T
  BY DEF Keywords
<1>2. PICK pk, un : pk = <<"PRIMARY", "KEY">> /\ un = <<"UNIQUE">>
  OBVIOUS
<1>3. /\ pk \in Seq(T) /\ Len(pk) = 2 /\ pk[1] = "PRIMARY" /\ pk[2] = "KEY"
      /\ un \in Seq(T) /\ Len(un) = 1 /\ un[1] = "UNIQUE"
  BY <1>1, <1>2, FewWords
<1>4. Lang!W(y) # Lang!W("KEY") /\ Lang!W(y) # Lang!W("(")
  BY DEF Lang!W, Lang!FieldTypes
<1>5. ~Lang!Ahead(ts, pk)
  <2>1. ~Starts(ts, pk)
    BY <1>3, <1>4 DEF Starts
  <2> QED BY <1>3, <2>1, AheadIs
<1>6. Lang!ColumnCounts(Lang!Drop(ts, Len(un))) = {}
  <2>1. Lang!Drop(ts, 1) = SubSeq(ts, 2, Len(ts))
    BY DEF Lang!Drop
  <2>2. SubSeq(ts, 2, Len(ts))[1] = ts[2]
    OBVIOUS
  <2> QED BY <1>3, <1>4, <2>1, <2>2, NoColumns
<1> QED BY <1>2, <1>5, <1>6 DEF Lang!parse_constraint

\* Which words are ahead, by the first of them.
LEMMA NoModifier ==
  ASSUME NEW T, Keywords \subseteq T, NEW ts \in Seq(Token(T)),
         Len(ts) >= 1 => ts[1] # Lang!W("NOT") /\ ts[1] # Lang!W("NOTNULL")
  PROVE  Lang!NotNullSize(ts) = 0
<1>1. "NOT" \in T /\ "NULL" \in T /\ "NOTNULL" \in T
  BY DEF Keywords
<1>2. PICK a, b : a = <<"NOT", "NULL">> /\ b = <<"NOTNULL">>
  OBVIOUS
<1>3. a \in Seq(T) /\ Len(a) = 2 /\ a[1] = "NOT" /\ b \in Seq(T) /\ Len(b) = 1 /\ b[1] = "NOTNULL"
  BY <1>1, <1>2, FewWords
<1>4. Len(ts) \in Nat
  OBVIOUS
<1>5. ~Starts(ts, a) /\ ~Starts(ts, b)
  BY <1>3, <1>4 DEF Starts
<1>6. ~Lang!Ahead(ts, a) /\ ~Lang!Ahead(ts, b)
  BY <1>3, <1>5, AheadIs
<1> QED BY <1>2, <1>6 DEF Lang!NotNullSize

\* A field is read in one way only, as itself, and nothing behind it is touched.
FieldBack(f, ts, more) ==
    /\ Lang!parse_constraint(ts) = {}
    /\ Lang!parse_field_def(ts) = {[value |-> f, size |-> Len(Lang!print_field(f))]}
    /\ Lang!Drop(ts, Len(Lang!print_field(f))) = more

\* What the parser sees of a field.
SeenField(ts, x, y, m, tail, dv) ==
    /\ Len(ts) >= 2 /\ Lang!IsIdent(ts[1]) /\ ts[1].text = x /\ ts[2] = Lang!W(y)
    /\ Lang!NotNullSize(Lang!Drop(ts, 2)) = m /\ Lang!Drop(ts, 2 + m) = tail
    /\ dv = IF DefaultAhead(tail) THEN Lang!parse_default_value(tail[2]) ELSE Lang!NoDefault

\* What it reads then.
ReadField(ts, x, y, m, tail, dv) ==
    Lang!parse_field_def(ts) = {[value |-> [name |-> x, type |-> y, nullable |-> m = 0, default |-> dv],
                                 size |-> 2 + m + IF DefaultAhead(tail) THEN 2 ELSE 0]}

\* Names, types and modifiers are read as they are seen.
LEMMA FieldRead ==
  ASSUME NEW ts, NEW x, NEW y \in Lang!FieldTypes, NEW m \in {0, 2}, NEW tail, NEW dv,
         SeenField(ts, x, y, m, tail, dv)
  PROVE  ReadField(ts, x, y, m, tail, dv)
<1>1. ts[2].kind = "word" /\ ts[2].text = y
  BY DEF Lang!W, SeenField
<1>2. (2 + m = 2) <=> (m = 0)
  OBVIOUS
<1> QED BY <1>1, <1>2 DEF Lang!parse_field_def, DefaultAhead, SeenField, ReadField

\* What is seen of a default clause and of what follows it.
ClauseRead(T, dv, clause, more, tail) ==
    /\ clause \in Seq(Token(T)) /\ tail \in Seq(Token(T))
    /\ dv = Lang!NoDefault => Len(clause) = 0 /\ tail = more
    /\ dv # Lang!NoDefault =>
         /\ Len(clause) = 2 /\ DefaultAhead(tail) /\ Lang!parse_default_value(tail[2]) = dv
         /\ Lang!NotNullSize(tail) = 0

\* The tokens of a default clause, which is there when there is a default.
LEMMA DefaultClause ==
  ASSUME NEW T, Keywords \subseteq T, NEW dv \in Literals(T) \cup {Lang!NoDefault}, NEW more \in Seq(Token(T)),
         NEW clause, clause = IF dv = Lang!NoDefault THEN <<>> ELSE <<Lang!W("DEFAULT"), Lang!print_default_value(dv)>>,
         NEW tail, tail = clause \o more
  PROVE  ClauseRead(T, dv, clause, more, tail)
<1>1. CASE dv = Lang!NoDefault
  BY <1>1 DEF ClauseRead
<1>2. CASE dv # Lang!NoDefault
  <2>1. PICK v : v = Lang!print_default_value(dv)
    OBVIOUS
  <2>2. v \in Token(T) /\ Lang!IsDefaultValue(v) /\ Lang!parse_default_value(v) = dv
    BY <1>2, <2>1, LiteralsComeBack DEF ComesBack
  <2>3. PICK d : d = Lang!W("DEFAULT") /\ d \in Token(T)
    BY DEF Keywords, Lang!W, Token
  <2>4. clause = <<d, v>>
    BY <1>2, <2>1, <2>3
  <2>5. clause \in Seq(Token(T)) /\ Len(clause) = 2 /\ clause[1] = d /\ clause[2] = v
    BY <2>2, <2>3, <2>4
  <2>6. tail \in Seq(Token(T)) /\ Len(tail) >= 2 /\ tail[1] = d /\ tail[2] = v
    BY <2>5
  <2>7. DefaultAhead(tail) /\ Lang!parse_default_value(tail[2]) = dv
    BY <2>2, <2>3, <2>6 DEF DefaultAhead
  <2>8. d # Lang!W("NOT") /\ d # Lang!W("NOTNULL")
    BY <2>3 DEF Lang!W
  <2>9. Lang!NotNullSize(tail) = 0
    BY <2>6, <2>8, NoModifier
  <2> QED BY <1>2, <2>5, <2>6, <2>7, <2>9 DEF ClauseRead
<1> QED BY <1>1, <1>2

\* Every field comes back, unless what follows continues it.
LEMMA FieldsComeBack ==
  ASSUME NEW T, Keywords \subseteq T, NEW f \in Field(T), NEW more \in Seq(Token(T)), ~Continues(f, more),
         NEW ts, ts = Lang!print_field(f) \o more
  PROVE  FieldBack(f, ts, more) /\ Len(ts) >= 2 /\ ts[1] = Lang!W(f.name) /\ ts[2] = Lang!W(f.type)
<1>1. PICK x, y, dv : x = f.name /\ y = f.type /\ dv = f.default
  OBVIOUS
<1>2. x \in Identifiers(T) /\ y \in Lang!FieldTypes /\ dv \in Literals(T) \cup {Lang!NoDefault} /\ f.nullable \in BOOLEAN
  BY <1>1 DEF Field
<1>3. f = [name |-> x, type |-> y, nullable |-> f.nullable, default |-> dv]
  BY <1>1 DEF Field
<1>4. PICK h, nn, clause : /\ h = <<Lang!Name(x), Lang!W(y)>>
                           /\ nn = (IF f.nullable THEN <<>> ELSE Lang!Words(<<"NOT", "NULL">>))
                           /\ clause = IF dv = Lang!NoDefault THEN <<>> ELSE <<Lang!W("DEFAULT"), Lang!print_default_value(dv)>>
  OBVIOUS
<1>5. Lang!print_field(f) = (h \o nn) \o clause
  BY <1>1, <1>4 DEF Lang!print_field
<1>6. PICK tail : tail = clause \o more
  OBVIOUS
<1>7. /\ clause \in Seq(Token(T)) /\ tail \in Seq(Token(T))
      /\ dv = Lang!NoDefault => Len(clause) = 0 /\ tail = more
      /\ dv # Lang!NoDefault =>
           /\ Len(clause) = 2 /\ DefaultAhead(tail) /\ Lang!parse_default_value(tail[2]) = dv
           /\ Lang!NotNullSize(tail) = 0
  <2>1. ClauseRead(T, dv, clause, more, tail)
    BY <1>2, <1>4, <1>6, DefaultClause
  <2> QED BY <2>1 DEF ClauseRead
<1>8. PICK hx, hy : hx = Lang!W(x) /\ hy = Lang!W(y) /\ hx \in Token(T) /\ hy \in Token(T)
  <2>1. x \in T /\ y \in T
    BY <1>2 DEF Identifiers, Keywords
  <2>2. Lang!W(x) \in Token(T) /\ Lang!W(y) \in Token(T)
    BY <2>1 DEF Lang!W, Token
  <2> QED BY <2>2
<1>9. Lang!Name(x) = hx /\ Lang!IsIdent(hx) /\ hx.text = x
  BY <1>2, <1>8 DEF Lang!Name, Lang!W, Lang!IsIdent, Identifiers
<1>10. h \in Seq(Token(T)) /\ Len(h) = 2 /\ h[1] = hx /\ h[2] = hy
  BY <1>4, <1>8, <1>9
<1>11. PICK words : words = <<"NOT", "NULL">>
  OBVIOUS
<1>12. words \in Seq(T) /\ Len(words) = 2
  <2>1. "NOT" \in T /\ "NULL" \in T
    BY DEF Keywords
  <2> QED BY <1>11, <2>1, FewWords
<1>13. PICK m : m = IF f.nullable THEN 0 ELSE 2
  OBVIOUS
<1>14. nn \in Seq(Token(T)) /\ Len(nn) = m /\ m \in {0, 2}
  <2>1. CASE f.nullable
    BY <1>4, <1>13, <2>1
  <2>2. CASE ~f.nullable
    BY <1>4, <1>11, <1>12, <1>13, <2>2, WordsAre
  <2> QED BY <2>1, <2>2
<1>15. PICK rest2 : rest2 = nn \o tail
  OBVIOUS
<1>16. rest2 \in Seq(Token(T))
  BY <1>7, <1>14, <1>15
<1>17. PICK hn : hn = h \o nn
  OBVIOUS
<1>18. hn \in Seq(Token(T)) /\ Len(hn) = 2 + m
  <2>1. h \o nn \in Seq(Token(T)) /\ Len(h \o nn) = Len(h) + Len(nn)
    BY <1>10, <1>14, Joined
  <2> QED BY <1>10, <1>14, <1>17, <2>1
<1>19. ts = hn \o tail
  <2>1. ts = (hn \o clause) \o more
    BY <1>5, <1>17
  <2>2. (hn \o clause) \o more = hn \o (clause \o more)
    <3>1. clause \in Seq(Token(T)) /\ hn \in Seq(Token(T))
      BY <1>7, <1>18
    <3> QED BY <3>1, JoinedAgain
  <2> QED BY <1>6, <2>1, <2>2
<1>36. ts = h \o rest2
  <2>1. (h \o nn) \o tail = h \o (nn \o tail)
    <3>1. h \in Seq(Token(T)) /\ nn \in Seq(Token(T)) /\ tail \in Seq(Token(T))
      BY <1>7, <1>10, <1>14
    <3> QED BY <3>1, JoinedAgain
  <2> QED BY <1>15, <1>17, <1>19, <2>1
<1>20. ts \in Seq(Token(T)) /\ Len(ts) >= 2 /\ ts[1] = hx /\ ts[2] = hy
  <2>1. /\ h \o rest2 \in Seq(Token(T)) /\ Len(h \o rest2) = Len(h) + Len(rest2)
        /\ \A i \in 1 .. Len(h) : (h \o rest2)[i] = h[i]
    BY <1>10, <1>16, Joined
  <2>2. Len(rest2) \in Nat
    BY <1>16
  <2> QED BY <1>10, <1>36, <2>1, <2>2
<1>21. Lang!Drop(ts, 2) = rest2
  BY <1>10, <1>16, <1>36, Dropped
<1>22. Lang!Drop(ts, 2 + m) = tail
  <2>1. Lang!Drop(hn \o tail, Len(hn)) = tail
    BY <1>7, <1>18, Dropped
  <2> QED BY <1>18, <1>19, <2>1
<1>23. Lang!NotNullSize(rest2) = m
  <2>1. CASE f.nullable
    <3>1. rest2 = tail
      BY <1>4, <1>7, <1>15, <2>1
    <3>2. Lang!NotNullSize(tail) = 0
      BY <1>1, <1>7, <2>1 DEF Continues
    <3> QED BY <1>13, <2>1, <3>1, <3>2
  <2>2. CASE ~f.nullable
    <3>1. rest2 = Lang!Words(words) \o tail
      BY <1>4, <1>11, <1>15, <2>2
    <3>2. Starts(rest2, words)
      BY <1>7, <1>12, <3>1, WordsAhead DEF Fronted
    <3>3. Lang!Ahead(rest2, words)
      BY <1>12, <1>16, <3>2, AheadIs
    <3> QED BY <1>11, <1>13, <2>2, <3>3 DEF Lang!NotNullSize
  <2> QED BY <2>1, <2>2
<1>24. DefaultAhead(tail) <=> dv # Lang!NoDefault
  BY <1>1, <1>7 DEF Continues
<1>25. dv = IF DefaultAhead(tail) THEN Lang!parse_default_value(tail[2]) ELSE Lang!NoDefault
  BY <1>7, <1>24
<1>26. Lang!parse_constraint(ts) = {}
  BY <1>2, <1>8, <1>20, FieldIsNoConstraint
<1>27. (m = 0) = f.nullable
  BY <1>2, <1>13
<1>28. PICK z : z = 2 + m + IF DefaultAhead(tail) THEN 2 ELSE 0
  OBVIOUS
<1>29. Lang!parse_field_def(ts) = {[value |-> [name |-> x, type |-> y, nullable |-> m = 0, default |-> dv], size |-> z]}
  <2>1. SeenField(ts, x, y, m, tail, dv)
    BY <1>8, <1>9, <1>20, <1>21, <1>22, <1>23, <1>25 DEF SeenField
  <2>2. ReadField(ts, x, y, m, tail, dv)
    BY <1>2, <1>14, <2>1, FieldRead
  <2> QED BY <1>28, <2>2 DEF ReadField
<1>30. [name |-> x, type |-> y, nullable |-> m = 0, default |-> dv] = f
  BY <1>3, <1>27
<1>31. PICK p : p = Lang!print_field(f)
  OBVIOUS
<1>32. p \in Seq(Token(T)) /\ Len(p) = Len(hn) + Len(clause)
  <2>1. hn \o clause \in Seq(Token(T)) /\ Len(hn \o clause) = Len(hn) + Len(clause)
    BY <1>7, <1>18, Joined
  <2> QED BY <1>5, <1>17, <1>31, <2>1
<1>33. Len(p) = z
  BY <1>7, <1>14, <1>18, <1>24, <1>28, <1>32
<1>34. Lang!Drop(ts, Len(p)) = more
  BY <1>31, <1>32, Dropped
<1>35. FieldBack(f, ts, more)
  BY <1>26, <1>29, <1>30, <1>31, <1>33, <1>34 DEF FieldBack
<1> QED BY <1>1, <1>8, <1>20, <1>35

\* A field begins with its name and its type.
LEMMA FieldFront ==
  ASSUME NEW T, Keywords \subseteq T, NEW f \in Field(T), NEW more \in Seq(Token(T)),
         NEW ts, ts = Lang!print_field(f) \o more
  PROVE  /\ Lang!print_field(f) \in Seq(Token(T)) /\ ts \in Seq(Token(T))
         /\ Len(ts) >= 2 /\ ts[1] = Lang!W(f.name) /\ ts[2] = Lang!W(f.type)
<1>1. PICK x, y, dv : x = f.name /\ y = f.type /\ dv = f.default
  OBVIOUS
<1>2. x \in Identifiers(T) /\ y \in Lang!FieldTypes /\ dv \in Literals(T) \cup {Lang!NoDefault}
  BY <1>1 DEF Field
<1>3. PICK h, nn, clause : /\ h = <<Lang!Name(x), Lang!W(y)>>
                           /\ nn = (IF f.nullable THEN <<>> ELSE Lang!Words(<<"NOT", "NULL">>))
                           /\ clause = IF dv = Lang!NoDefault THEN <<>> ELSE <<Lang!W("DEFAULT"), Lang!print_default_value(dv)>>
  OBVIOUS
<1>4. Lang!print_field(f) = (h \o nn) \o clause
  BY <1>1, <1>3 DEF Lang!print_field
<1>5. clause \in Seq(Token(T))
  <2>1. PICK tail : tail = clause \o more
    OBVIOUS
  <2>2. ClauseRead(T, dv, clause, more, tail)
    BY <1>2, <1>3, <2>1, DefaultClause
  <2> QED BY <2>2 DEF ClauseRead
<1>6. PICK hx, hy : hx = Lang!W(x) /\ hy = Lang!W(y) /\ hx \in Token(T) /\ hy \in Token(T)
  <2>1. x \in T /\ y \in T
    BY <1>2 DEF Identifiers, Keywords
  <2>2. Lang!W(x) \in Token(T) /\ Lang!W(y) \in Token(T)
    BY <2>1 DEF Lang!W, Token
  <2> QED BY <2>2
<1>7. Lang!Name(x) = hx
  BY <1>2, <1>6 DEF Lang!Name, Lang!W, Identifiers
<1>8. h \in Seq(Token(T)) /\ Len(h) = 2 /\ h[1] = hx /\ h[2] = hy
  BY <1>3, <1>6, <1>7
<1>9. nn \in Seq(Token(T))
  <2>1. CASE f.nullable
    BY <1>3, <2>1
  <2>2. CASE ~f.nullable
    <3>1. "NOT" \in T /\ "NULL" \in T
      BY DEF Keywords
    <3>2. <<"NOT", "NULL">> \in Seq(T)
      BY <3>1, FewWords
    <3> QED BY <1>3, <2>2, <3>2, WordsAre
  <2> QED BY <2>1, <2>2
<1>10. PICK p : p = (h \o nn) \o clause
  OBVIOUS
<1>11. p \in Seq(Token(T)) /\ Len(p) >= 2 /\ p[1] = hx /\ p[2] = hy
  <2>1. PICK q : q = h \o nn
    OBVIOUS
  <2>2. q \in Seq(Token(T)) /\ Len(q) >= 2 /\ q[1] = hx /\ q[2] = hy
    <3>1. /\ h \o nn \in Seq(Token(T)) /\ Len(h \o nn) = Len(h) + Len(nn)
          /\ \A i \in 1 .. Len(h) : (h \o nn)[i] = h[i]
      BY <1>8, <1>9, Joined
    <3>2. Len(nn) \in Nat
      BY <1>9
    <3> QED BY <1>8, <2>1, <3>1, <3>2
  <2>3. p = q \o clause
    BY <1>10, <2>1
  <2> QED BY <1>5, <2>2, <2>3
<1>12. ts = p \o more
  BY <1>4, <1>10
<1>13. ts \in Seq(Token(T)) /\ Len(ts) >= 2 /\ ts[1] = hx /\ ts[2] = hy
  BY <1>11, <1>12
<1> QED BY <1>1, <1>4, <1>6, <1>10, <1>11, <1>13

\* Neither a closing bracket nor a constraint continues a field.
LEMMA EndContinuesNothing ==
  ASSUME NEW T, Keywords \subseteq T, NEW f, NEW ts \in Seq(Token(T)), Len(ts) >= 1,
         ts[1] \in {Lang!W(Closing), Lang!W("PRIMARY"), Lang!W("UNIQUE")}
  PROVE  ~Continues(f, ts)
<1>1. ts[1] # Lang!W("NOT") /\ ts[1] # Lang!W("NOTNULL") /\ ts[1] # Lang!W("DEFAULT")
  <2>1. PICK x : x \in {Closing, "PRIMARY", "UNIQUE"} /\ ts[1] = Lang!W(x)
    OBVIOUS
  <2>2. x # "NOT" /\ x # "NOTNULL" /\ x # "DEFAULT"
    BY <2>1, Braces
  <2> QED BY <2>1, <2>2, WordsDiffer
<1>2. Lang!NotNullSize(ts) = 0
  BY <1>1, NoModifier
<1> QED BY <1>1, <1>2 DEF Continues, DefaultAhead

\* A field continues the one before only with the name NOTNULL.
LEMMA FieldContinuesRarely ==
  ASSUME NEW T, Keywords \subseteq T, NEW f, NEW ts \in Seq(Token(T)), Len(ts) >= 2,
         NEW x, ts[1] = Lang!W(x), NEW y \in Lang!FieldTypes, ts[2] = Lang!W(y),
         x = "NOTNULL" => ~f.nullable \/ f.default # Lang!NoDefault
  PROVE  ~Continues(f, ts)
<1>1. ~DefaultAhead(ts)
  <2>1. ~Lang!IsDefaultValue(Lang!W(y))
    BY DEF Lang!IsDefaultValue, Lang!W, Lang!FieldTypes
  <2> QED BY <2>1 DEF DefaultAhead
<1>2. ASSUME Lang!NotNullSize(ts) # 0 PROVE x = "NOTNULL"
  <2>1. "NOT" \in T /\ "NULL" \in T /\ "NOTNULL" \in T
    BY DEF Keywords
  <2>2. PICK a, b : a = <<"NOT", "NULL">> /\ b = <<"NOTNULL">>
    OBVIOUS
  <2>3. /\ a \in Seq(T) /\ Len(a) = 2 /\ a[1] = "NOT" /\ a[2] = "NULL"
        /\ b \in Seq(T) /\ Len(b) = 1 /\ b[1] = "NOTNULL"
    BY <2>1, <2>2, FewWords
  <2>4. Lang!W(y) # Lang!W("NULL") /\ (Lang!W(x) = Lang!W("NOTNULL") => x = "NOTNULL")
    BY DEF Lang!W, Lang!FieldTypes
  <2>5. ~Lang!Ahead(ts, a)
    <3>1. ~Starts(ts, a)
      BY <2>3, <2>4 DEF Starts
    <3> QED BY <2>3, <3>1, AheadIs
  <2>6. Lang!Ahead(ts, b)
    BY <1>2, <2>2, <2>5 DEF Lang!NotNullSize
  <2>7. Starts(ts, b)
    BY <2>3, <2>6, AheadIs
  <2>8. ts[1] = Lang!W("NOTNULL")
    BY <2>3, <2>7 DEF Starts
  <2> QED BY <2>4, <2>8
<1> QED BY <1>1, <1>2 DEF Continues

\* A word in front of a document is seen and can be dropped.
LEMMA WordThen ==
  ASSUME NEW T, NEW x \in T, NEW more \in Seq(Token(T)), NEW ts
  PROVE  ts = <<Lang!W(x)>> \o more =>
           /\ ts \in Seq(Token(T)) /\ Len(ts) >= 1 /\ ts[1] = Lang!W(x)
           /\ Lang!Ahead(ts, <<x>>) /\ Lang!Drop(ts, 1) = more
<1>1. PICK w : w = <<x>>
  OBVIOUS
<1>2. w \in Seq(T) /\ Len(w) = 1 /\ w[1] = x
  BY <1>1, FewWords
<1>3. Lang!Words(w) = <<Lang!W(x)>>
  BY <1>1, WordsDiffer
<1>4. PICK body : body = Lang!Words(w) \o more
  OBVIOUS
<1>5. body \in Seq(Token(T)) /\ Starts(body, w) /\ Lang!Drop(body, Len(w)) = more
  BY <1>2, <1>4, WordsAhead DEF Fronted
<1>6. Lang!Ahead(body, w)
  BY <1>2, <1>5, AheadIs
<1>7. Len(body) >= 1 /\ body[1] = Lang!W(x)
  BY <1>2, <1>5, FirstWord
<1> QED BY <1>1, <1>2, <1>3, <1>4, <1>5, <1>6, <1>7

\* A closing bracket is no item.
LEMMA BracketIsNoItem ==
  ASSUME NEW T, Keywords \subseteq T, NEW ts \in Seq(Token(T)), Len(ts) >= 1, ts[1] = Lang!W(Closing)
  PROVE  Lang!NoItem(ts)
<1>1. "PRIMARY" \in T /\ "KEY" \in T /\ "UNIQUE" \in T
  BY DEF Keywords
<1>2. PICK pk, un : pk = <<"PRIMARY", "KEY">> /\ un = <<"UNIQUE">>
  OBVIOUS
<1>3. pk \in Seq(T) /\ Len(pk) = 2 /\ pk[1] = "PRIMARY" /\ un \in Seq(T) /\ Len(un) = 1 /\ un[1] = "UNIQUE"
  BY <1>1, <1>2, FewWords
<1>4. Lang!W(Closing) # Lang!W("PRIMARY") /\ Lang!W(Closing) # Lang!W("UNIQUE")
  BY Braces, WordsDiffer
<1>5. ~Starts(ts, pk) /\ ~Starts(ts, un)
  <2>1. Starts(ts, pk) => Len(ts) >= 1 /\ ts[1] = Lang!W(pk[1])
    BY <1>3, FirstWord
  <2>2. Starts(ts, un) => Len(ts) >= 1 /\ ts[1] = Lang!W(un[1])
    <3>1. un \in Seq(T) /\ Len(un) >= 1
      BY <1>3
    <3> QED BY <3>1, FirstWord
  <2> QED BY <1>3, <1>4, <2>1, <2>2
<1>6. ~Lang!Ahead(ts, pk) /\ ~Lang!Ahead(ts, un)
  BY <1>3, <1>5, AheadIs
<1>7. Lang!parse_constraint(ts) = {}
  BY <1>2, <1>6 DEF Lang!parse_constraint
<1>8. ~Lang!IsIdent(Lang!W(Closing))
  BY Braces DEF Lang!IsIdent, Lang!W
<1>9. Lang!parse_field_def(ts) = {}
  BY <1>8 DEF Lang!parse_field_def
<1> QED BY <1>7, <1>9 DEF Lang!NoItem

\* The closing bracket is seen, and behind it is what follows.
LEMMA ClosingSeen ==
  ASSUME NEW T, Keywords \subseteq T, NEW more \in Seq(Token(T)), NEW ts, ts = <<Lang!W(Closing)>> \o more
  PROVE  /\ ts \in Seq(Token(T)) /\ Len(ts) >= 1 /\ ts[1] = Lang!W(Closing)
         /\ Lang!NoItem(ts) /\ Lang!Ahead(ts, <<Closing>>) /\ Lang!Drop(ts, 1) = more
<1>1. Closing \in T
  BY Braces
<1>2. /\ ts \in Seq(Token(T)) /\ Len(ts) >= 1 /\ ts[1] = Lang!W(Closing)
      /\ Lang!Ahead(ts, <<Closing>>) /\ Lang!Drop(ts, 1) = more
  BY <1>1, WordThen
<1>3. Lang!NoItem(ts)
  BY <1>2, BracketIsNoItem
<1> QED BY <1>2, <1>3

-----------------------------------------------------------------------------
(* Documents are printed part by part: what FlattenSeq joins.              *)

\* What the first parts of s make together, for each number of parts.
Parts(D, s, u) ==
    /\ u \in [0 .. Len(s) -> Seq(D)] /\ u[0] = <<>>
    /\ \A k \in 1 .. Len(s) : u[k] = u[k - 1] \o s[k]

\* There is such a function for every sequence of sequences.
LEMMA PartsExist ==
  ASSUME NEW D, NEW s \in Seq(Seq(D))
  PROVE  \E u : Parts(D, s, u)
<1>1. PICK N \in Nat : N = Len(s)
  OBVIOUS
<1>2. \A k \in 1 .. N : s[k] \in Seq(D)
  BY <1>1
<1> DEFINE Upto(n, u) == u[0] = <<>> /\ \A k \in 1 .. n : u[k] = u[k - 1] \o s[k]
           Reached(n) == \E u \in [0 .. n -> Seq(D)] : Upto(n, u)
           P == {n \in Nat : n <= N => Reached(n)}
<1>3. Reached(0)
  <2> DEFINE u == [k \in 0 .. 0 |-> <<>>]
  <2>1. u \in [0 .. 0 -> Seq(D)] /\ Upto(0, u)
    OBVIOUS
  <2> QED BY <2>1
<1>4. ASSUME NEW n \in Nat, n + 1 <= N, Reached(n) PROVE Reached(n + 1)
  <2>0. n \in Nat /\ n + 1 <= N
    BY <1>4
  <2>1. PICK u \in [0 .. n -> Seq(D)] : Upto(n, u)
    BY <1>4
  <2> DEFINE v == [k \in 0 .. (n + 1) |-> IF k = n + 1 THEN u[n] \o s[n + 1] ELSE u[k]]
  <2>2. u[n] \in Seq(D) /\ s[n + 1] \in Seq(D)
    BY <1>2, <2>0
  <2>3. u[n] \o s[n + 1] \in Seq(D)
    BY <2>2
  <2>4. v \in [0 .. (n + 1) -> Seq(D)]
    BY <2>0, <2>3
  <2>5. \A k \in 0 .. n : v[k] = u[k]
    BY <2>0
  <2>6. v[n + 1] = u[n] \o s[n + 1]
    BY <2>0
  <2> HIDE DEF v
  <2>7. v[0] = <<>>
    BY <2>0, <2>1, <2>5
  <2>8. ASSUME NEW k \in 1 .. (n + 1) PROVE v[k] = v[k - 1] \o s[k]
    <3>1. CASE k = n + 1
      <4>1. k - 1 = n /\ n \in 0 .. n
        BY <2>0, <3>1
      <4> QED BY <2>5, <2>6, <3>1, <4>1
    <3>2. CASE k # n + 1
      <4>1. k \in 1 .. n /\ k \in 0 .. n /\ k - 1 \in 0 .. n
        BY <2>0, <3>2
      <4>2. u[k] = u[k - 1] \o s[k]
        BY <2>1, <4>1
      <4> QED BY <2>5, <4>1, <4>2
    <3> QED BY <3>1, <3>2
  <2> QED BY <2>4, <2>7, <2>8
<1> HIDE DEF Reached
<1>5. P \in SUBSET Nat /\ 0 \in P
  BY <1>3
<1>6. ASSUME NEW n \in P PROVE n + 1 \in P
  <2>1. n \in Nat /\ (n <= N => Reached(n)) /\ (n + 1 <= N => n <= N)
    OBVIOUS
  <2> QED BY <1>4, <2>1
<1> HIDE DEF P
<1>7. P = Nat
  BY <1>5, <1>6, SetInduction
<1>8. Reached(N)
  BY <1>7 DEF P
<1> QED BY <1>1, <1>8 DEF Parts, Reached

\* A part is joined to those before it.
LEMMA PartJoins ==
  ASSUME NEW D, NEW s \in Seq(Seq(D)), NEW u, Parts(D, s, u), NEW k \in 0 .. (Len(s) - 1)
  PROVE  /\ u[k] \in Seq(D) /\ u[k + 1] \in Seq(D) /\ s[k + 1] \in Seq(D)
         /\ u[k + 1] = u[k] \o s[k + 1]
<1>1. PICK N \in Nat : N = Len(s)
  OBVIOUS
<1>2. k \in 0 .. N /\ k + 1 \in 0 .. N /\ k + 1 \in 1 .. N /\ (k + 1) - 1 = k
  BY <1>1
<1>3. s[k + 1] \in Seq(D)
  BY <1>1, <1>2
<1>4. u \in [0 .. N -> Seq(D)] /\ \A i \in 1 .. N : u[i] = u[i - 1] \o s[i]
  BY <1>1 DEF Parts
<1> QED BY <1>2, <1>3, <1>4

\* FlattenSeq joins all of them.
LEMMA FlattenIs ==
  ASSUME NEW D, NEW s \in Seq(Seq(D)), NEW u, Parts(D, s, u)
  PROVE  Lang!FlattenSeq(s) = u[Len(s)]
<1>1. PICK N \in Nat : N = Len(s)
  OBVIOUS
<1>2. CASE N = 0
  <2>1. Lang!FlattenSeq(s) = s
    BY <1>1, <1>2 DEF Lang!FlattenSeq
  <2>2. s = <<>>
    BY <1>1, <1>2, EmptySeq
  <2>3. u[0] = <<>>
    BY DEF Parts
  <2> QED BY <1>1, <1>2, <2>1, <2>2, <2>3
<1>3. CASE N # 0
  <2> DEFINE Rec(f) == f = [i \in 1 .. N |-> IF i = 1 THEN s[i] ELSE f[i - 1] \o s[i]]
             g == CHOOSE f : Rec(f)
             w == [i \in 1 .. N |-> u[i]]
  <2>1. Lang!FlattenSeq(s) = g[N]
    BY <1>1, <1>3 DEF Lang!FlattenSeq
  <2>2. \A i \in 1 .. N : u[i] = u[i - 1] \o s[i]
    BY <1>1 DEF Parts
  <2>3. u[1] = s[1]
    <3>1. s[1] \in Seq(D) /\ 1 \in 1 .. N
      BY <1>1, <1>3
    <3>2. u[1] = u[1 - 1] \o s[1]
      BY <2>2, <3>1
    <3>3. u[0] = <<>> /\ 1 - 1 = 0
      BY DEF Parts
    <3>4. <<>> \o s[1] = s[1]
      BY <3>1, ConcatEmptySeq
    <3> QED BY <3>2, <3>3, <3>4
  <2>4. \A i \in 1 .. N : i # 1 => w[i - 1] = u[i - 1]
    BY <1>3
  <2>5. \A i \in 1 .. N : u[i] = IF i = 1 THEN s[i] ELSE w[i - 1] \o s[i]
    <3> HIDE DEF w
    <3> QED BY <2>2, <2>3, <2>4
  <2>6. Rec(w)
    BY <2>5
  <2>7. Rec(g)
    <3> HIDE DEF Rec, w
    <3> QED BY <2>6
  <2> HIDE DEF g, w
  <2> DEFINE P == {k \in Nat : k + 1 <= N => g[k + 1] = u[k + 1]}
  <2>8. 0 \in P
    <3>1. 1 \in 1 .. N
      BY <1>3
    <3>2. g[1] = s[1]
      BY <2>7, <3>1
    <3> QED BY <2>3, <3>2
  <2>9. ASSUME NEW k \in P PROVE k + 1 \in P
    <3>0. k \in Nat
      OBVIOUS
    <3> SUFFICES ASSUME (k + 1) + 1 <= N PROVE g[(k + 1) + 1] = u[(k + 1) + 1]
      BY <3>0
    <3>1. k + 1 <= N /\ (k + 1) + 1 \in 1 .. N /\ (k + 1) + 1 # 1 /\ ((k + 1) + 1) - 1 = k + 1
      BY <3>0
    <3>2. g[k + 1] = u[k + 1]
      BY <3>1
    <3>3. g[(k + 1) + 1] = g[k + 1] \o s[(k + 1) + 1]
      BY <2>7, <3>1
    <3>4. u[(k + 1) + 1] = u[k + 1] \o s[(k + 1) + 1]
      BY <2>2, <3>1
    <3> QED BY <3>2, <3>3, <3>4
  <2>10. P \in SUBSET Nat
    OBVIOUS
  <2> HIDE DEF P
  <2>11. N - 1 \in P /\ (N - 1) + 1 = N
    <3>1. P = Nat
      BY <2>8, <2>9, <2>10, SetInduction
    <3> QED BY <1>3, <3>1
  <2>12. g[N] = u[N]
    BY <2>11 DEF P
  <2> QED BY <1>1, <2>1, <2>12
<1> QED BY <1>2, <1>3

\* What is common in front can be left out.
LEMMA SameFront ==
  ASSUME NEW D, NEW a \in Seq(D), NEW b \in Seq(D), NEW c \in Seq(D), a \o b = a \o c
  PROVE  b = c
<1>1. Lang!Drop(a \o b, Len(a)) = b /\ Lang!Drop(a \o c, Len(a)) = c
  BY Dropped
<1> QED BY <1>1

\* w begins with v.
Begins(D, w, v) == \E x \in Seq(D) : w = v \o x

\* The whole begins with the first parts.
LEMMA PartsSplit ==
  ASSUME NEW D, NEW s \in Seq(Seq(D)), NEW u, Parts(D, s, u), NEW k \in 0 .. Len(s)
  PROVE  Begins(D, u[Len(s)], u[k])
<1>1. PICK N \in Nat : N = Len(s)
  OBVIOUS
<1>2. k \in Nat /\ k <= N /\ \A i \in 0 .. N : u[i] \in Seq(D)
  BY <1>1 DEF Parts
<1> DEFINE Split(n) == \E x \in Seq(D) : u[n] = u[k] \o x
           P == {n \in Nat : k <= n /\ n <= N => Split(n)}
<1>3. Split(k)
  <2>1. u[k] \in Seq(D) /\ <<>> \in Seq(D)
    BY <1>2, EmptySeq
  <2>2. u[k] \o <<>> = u[k]
    BY <2>1, ConcatEmptySeq
  <2> QED BY <2>1, <2>2
<1>4. ASSUME NEW n \in Nat, n + 1 <= N, Split(n) PROVE Split(n + 1)
  <2>1. PICK x \in Seq(D) : u[n] = u[k] \o x
    BY <1>4
  <2>2. n \in 0 .. (Len(s) - 1)
    BY <1>1, <1>4
  <2>3. s[n + 1] \in Seq(D) /\ u[n + 1] = u[n] \o s[n + 1]
    BY <2>2, PartJoins
  <2>4. PICK y : y = s[n + 1]
    OBVIOUS
  <2>5. u[k] \in Seq(D) /\ y \in Seq(D)
    BY <1>2, <2>3, <2>4
  <2>6. (u[k] \o x) \o y = u[k] \o (x \o y)
    <3>1. PICK z : z = u[k]
      OBVIOUS
    <3>2. z \in Seq(D) /\ y \in Seq(D)
      BY <2>5, <3>1
    <3>3. (z \o x) \o y = z \o (x \o y)
      BY <3>2, JoinedAgain
    <3> QED BY <3>1, <3>3
  <2>7. x \o y \in Seq(D)
    BY <2>5
  <2>8. u[n + 1] = u[k] \o (x \o y)
    BY <2>1, <2>3, <2>4, <2>6
  <2> QED BY <2>7, <2>8
<1> HIDE DEF Split
<1>5. P \in SUBSET Nat /\ 0 \in P
  <2>1. k <= 0 => k = 0
    BY <1>2
  <2> QED BY <1>3, <2>1
<1>6. ASSUME NEW n \in P PROVE n + 1 \in P
  <2>1. n \in Nat /\ (k <= n /\ n <= N => Split(n)) /\ (n + 1 <= N => n <= N)
    OBVIOUS
  <2>2. k <= n + 1 => k <= n \/ k = n + 1
    BY <1>2, <2>1
  <2> QED BY <1>3, <1>4, <2>1, <2>2
<1> HIDE DEF P
<1>7. P = Nat
  BY <1>5, <1>6, SetInduction
<1>8. Split(N)
  BY <1>2, <1>7 DEF P
<1> QED BY <1>1, <1>8 DEF Split, Begins

\* Behind the tokens b, r goes on as w does behind c.
Resumes(D, b, c, w, r) == \E x \in Seq(D) : r = b \o x /\ c \o x = w

\* A document can be read on behind its next part.
LEMMA ReadOn ==
  ASSUME NEW D, NEW a \in Seq(D), NEW b \in Seq(D), NEW c, NEW e, NEW y \in Seq(D), NEW d \in Seq(D), NEW r \in Seq(D)
  PROVE  c = a \o b /\ e = c \o y /\ a \o r = e \o d => Resumes(D, b, c, e \o d, r)
<1>0. \A p \in Seq(D) : (p \o y) \o d = p \o (y \o d)
  BY JoinedAgain
<1>1. PICK x \in Seq(D) : x = y \o d
  <2>1. y \o d \in Seq(D)
    OBVIOUS
  <2> QED BY <2>1
<1>2. b \o x \in Seq(D) /\ a \o b \in Seq(D)
  OBVIOUS
<1>3. ((a \o b) \o y) \o d = (a \o b) \o (y \o d)
  BY <1>0, <1>2, Zenon
<1>4. (a \o b) \o x = a \o (b \o x)
  BY JoinedAgain
<1>5. ASSUME c = a \o b, e = c \o y, a \o r = e \o d PROVE Resumes(D, b, c, e \o d, r)
  <2>1. e \o d = c \o x
    BY <1>1, <1>3, <1>5
  <2>2. a \o r = a \o (b \o x)
    BY <1>4, <1>5, <2>1
  <2>3. r = b \o x
    BY <1>2, <2>2, SameFront
  <2> QED BY <2>1, <2>3 DEF Resumes
<1> QED BY <1>5

\* r is what is left of all parts and what follows them, behind the first k.
LeftOf(D, s, u, d, k, r) == r \in Seq(D) /\ u[k] \o r = u[Len(s)] \o d

\* The next part is in front of it.
LEMMA NextPart ==
  ASSUME NEW D, NEW s \in Seq(Seq(D)), NEW u, Parts(D, s, u), NEW d \in Seq(D),
         NEW k \in 0 .. (Len(s) - 1), NEW r, LeftOf(D, s, u, d, k, r)
  PROVE  \E x : r = s[k + 1] \o x /\ LeftOf(D, s, u, d, k + 1, x)
<1>1. k + 1 \in 0 .. Len(s)
  OBVIOUS
<1>2. PICK y \in Seq(D) : u[Len(s)] = u[k + 1] \o y
  <2>1. PICK m : m = k + 1
    OBVIOUS
  <2>2. m \in 0 .. Len(s)
    BY <1>1, <2>1
  <2>3. Begins(D, u[Len(s)], u[m])
    BY <2>2, PartsSplit
  <2> QED BY <2>1, <2>3 DEF Begins
<1>3. PICK a \in Seq(D), b \in Seq(D), c \in Seq(D) : a = u[k] /\ b = s[k + 1] /\ c = u[k + 1]
  BY PartJoins
<1>4. c = a \o b
  BY <1>3, PartJoins
<1>5. PICK e : e = u[Len(s)]
  OBVIOUS
<1>6. e = c \o y
  BY <1>2, <1>3, <1>5
<1>7. r \in Seq(D) /\ a \o r = e \o d
  BY <1>3, <1>5 DEF LeftOf
<1>8. Resumes(D, b, c, e \o d, r)
  BY <1>4, <1>6, <1>7, ReadOn
<1> QED BY <1>3, <1>5, <1>8 DEF LeftOf, Resumes

\* Behind all parts is what follows them.
LEMMA NoPartLeft ==
  ASSUME NEW D, NEW s \in Seq(Seq(D)), NEW u, Parts(D, s, u), NEW d \in Seq(D),
         NEW r, LeftOf(D, s, u, d, Len(s), r)
  PROVE  r = d
<1>1. u[Len(s)] \in Seq(D)
  BY DEF Parts
<1> QED BY <1>1, SameFront DEF LeftOf

\* At first everything is left.
LEMMA AllLeft ==
  ASSUME NEW D, NEW s \in Seq(Seq(D)), NEW u, Parts(D, s, u), NEW d \in Seq(D)
  PROVE  LeftOf(D, s, u, d, 0, Lang!FlattenSeq(s) \o d) /\ Lang!FlattenSeq(s) \in Seq(D)
<1>1. PICK a : a = u[Len(s)]
  OBVIOUS
<1>2. a \in Seq(D) /\ u[0] = <<>>
  BY <1>1 DEF Parts
<1>3. Lang!FlattenSeq(s) = a
  BY <1>1, FlattenIs
<1>4. a \o d \in Seq(D)
  BY <1>2
<1>5. <<>> \o (a \o d) = a \o d
  BY <1>4, ConcatEmptySeq
<1> QED BY <1>1, <1>2, <1>3, <1>4, <1>5 DEF LeftOf

\* What is left of a document behind the first k of its parts.
LeftBehind(D, s, d, k, r) == \E u : Parts(D, s, u) /\ LeftOf(D, s, u, d, k, r)

\* A sequence of documents.
IsDocs(D, s) == s \in Seq(Seq(D))

\* The next part is in front of what is left.
LEMMA NextLeft ==
  ASSUME NEW D, NEW s, IsDocs(D, s), NEW d \in Seq(D), NEW k \in 0 .. (Len(s) - 1), NEW r, LeftBehind(D, s, d, k, r)
  PROVE  \E x \in Seq(D) : r = s[k + 1] \o x /\ LeftBehind(D, s, d, k + 1, x)
<1>1. PICK u : Parts(D, s, u) /\ LeftOf(D, s, u, d, k, r)
  BY DEF LeftBehind
<1>2. s \in Seq(Seq(D))
  BY DEF IsDocs
<1>3. PICK x : r = s[k + 1] \o x /\ LeftOf(D, s, u, d, k + 1, x)
  BY <1>1, <1>2, NextPart
<1>4. x \in Seq(D)
  BY <1>3 DEF LeftOf
<1> QED BY <1>1, <1>3, <1>4 DEF LeftBehind

\* Behind all parts is what follows them, and at first everything is left.
LEMMA NoneOrAllLeft ==
  ASSUME NEW D, NEW s, IsDocs(D, s), NEW d \in Seq(D)
  PROVE  /\ \A r : LeftBehind(D, s, d, Len(s), r) => r = d
         /\ LeftBehind(D, s, d, 0, Lang!FlattenSeq(s) \o d) /\ Lang!FlattenSeq(s) \in Seq(D)
<1>1. s \in Seq(Seq(D))
  BY DEF IsDocs
<1>2. ASSUME NEW r, LeftBehind(D, s, d, Len(s), r) PROVE r = d
  <2>1. PICK u : Parts(D, s, u) /\ LeftOf(D, s, u, d, Len(s), r)
    BY <1>2 DEF LeftBehind
  <2> QED BY <1>1, <2>1, NoPartLeft
<1>3. PICK u : Parts(D, s, u)
  BY <1>1, PartsExist
<1>4. LeftOf(D, s, u, d, 0, Lang!FlattenSeq(s) \o d) /\ Lang!FlattenSeq(s) \in Seq(D)
  BY <1>1, <1>3, AllLeft
<1> QED BY <1>2, <1>3, <1>4 DEF LeftBehind

\* Each element printed.
LEMMA DocsOf ==
  ASSUME NEW D, NEW n \in Nat, NEW s, s \in [1 .. n -> Seq(D)]
  PROVE  IsDocs(D, s) /\ Len(s) = n
<1>1. s \in Seq(Seq(D))
  BY SeqDef
<1>2. DOMAIN s = 1 .. n
  OBVIOUS
<1> QED BY <1>1, <1>2 DEF IsDocs

-----------------------------------------------------------------------------
(* Schemas the language can say.                                           *)

\* The constraints that have a form of their own.
Constraint(T) == [kind : {"PrimaryKey", "Unique"}, columns : Seq(Identifiers(T)) \ {<<>>}]

\* No field called NOTNULL follows one that could take it for a modifier.
Separate(fields) ==
    \A k \in 1 .. (Len(fields) - 1) :
        fields[k + 1].name = "NOTNULL" => ~fields[k].nullable \/ fields[k].default # Lang!NoDefault

Table(T) == [name : Identifiers(T), compaction : T, fields : {s \in Seq(Field(T)) : Separate(s)},
             constraints : Seq(Constraint(T))]

Schema(T) == [version : T, tables : Seq(Table(T))]

PrintedFields(t) == [i \in 1 .. Len(t.fields) |-> Lang!print_field(t.fields[i])]
PrintedConstraints(t) == [i \in 1 .. Len(t.constraints) |-> Lang!print_constraint(t.constraints[i])]

\* What a table's parts are.
LEMMA TableShape ==
  ASSUME NEW T, NEW t \in Table(T)
  PROVE  /\ t.name \in Identifiers(T) /\ t.compaction \in T
         /\ t.fields \in Seq(Field(T)) /\ Separate(t.fields) /\ t.constraints \in Seq(Constraint(T))
         /\ Len(t.fields) \in Nat /\ Len(t.constraints) \in Nat
         /\ \A k \in 1 .. Len(t.fields) : t.fields[k] \in Field(T)
         /\ \A k \in 1 .. Len(t.constraints) : t.constraints[k] \in Constraint(T)
         /\ t = [name |-> t.name, compaction |-> t.compaction, fields |-> t.fields, constraints |-> t.constraints]
<1>1. /\ t.name \in Identifiers(T) /\ t.compaction \in T
      /\ t.fields \in Seq(Field(T)) /\ Separate(t.fields) /\ t.constraints \in Seq(Constraint(T))
      /\ t = [name |-> t.name, compaction |-> t.compaction, fields |-> t.fields, constraints |-> t.constraints]
  BY DEF Table
<1>2. PICK f, c : f = t.fields /\ c = t.constraints
  OBVIOUS
<1>3. f \in Seq(Field(T)) /\ c \in Seq(Constraint(T))
  BY <1>1, <1>2
<1>4. /\ Len(f) \in Nat /\ Len(c) \in Nat
      /\ \A k \in 1 .. Len(f) : f[k] \in Field(T)
      /\ \A k \in 1 .. Len(c) : c[k] \in Constraint(T)
  BY <1>3
<1> QED BY <1>1, <1>2, <1>4

\* Constraints print as documents that come back.
LEMMA ConstraintPrints ==
  ASSUME NEW T, Keywords \subseteq T, NEW c \in Constraint(T), NEW more \in Seq(Token(T)),
         NEW ts, ts = Lang!print_constraint(c) \o more
  PROVE  ConstraintBack(c, ts, more) /\ Lang!print_constraint(c) \in Seq(Token(T)) /\ ts \in Seq(Token(T))
<1>1. PICK kind \in {"PrimaryKey", "Unique"}, columns \in Seq(Identifiers(T)) :
        columns # <<>> /\ c = [kind |-> kind, columns |-> columns]
  BY DEF Constraint
<1>2. ConstraintBack(c, ts, more) /\ Lang!print_constraint(c) \in Seq(Token(T))
  BY <1>1, ConstraintsComeBack
<1>3. ts \in Seq(Token(T))
  <2>1. PICK p \in Seq(Token(T)) : p = Lang!print_constraint(c)
    BY <1>2
  <2> QED BY <2>1
<1> QED BY <1>2, <1>3

\* The fields and the constraints of a table are printed as documents.
LEMMA PartsAreDocs ==
  ASSUME NEW T, Keywords \subseteq T, NEW t \in Table(T)
  PROVE  /\ IsDocs(Token(T), PrintedFields(t)) /\ Len(PrintedFields(t)) = Len(t.fields)
         /\ \A k \in 1 .. Len(t.fields) : PrintedFields(t)[k] = Lang!print_field(t.fields[k])
         /\ IsDocs(Token(T), PrintedConstraints(t)) /\ Len(PrintedConstraints(t)) = Len(t.constraints)
         /\ \A k \in 1 .. Len(t.constraints) : PrintedConstraints(t)[k] = Lang!print_constraint(t.constraints[k])
<1>1. PICK n \in Nat, m \in Nat : n = Len(t.fields) /\ m = Len(t.constraints)
  BY TableShape
<1>2. <<>> \in Seq(Token(T))
  OBVIOUS
<1>3. \A f \in Field(T) : Lang!print_field(f) \in Seq(Token(T))
  <2> SUFFICES ASSUME NEW f \in Field(T) PROVE Lang!print_field(f) \in Seq(Token(T))
    OBVIOUS
  <2>1. PICK ts : ts = Lang!print_field(f) \o <<>>
    OBVIOUS
  <2> QED BY <1>2, <2>1, FieldFront
<1>4. \A c \in Constraint(T) : Lang!print_constraint(c) \in Seq(Token(T))
  <2> SUFFICES ASSUME NEW c \in Constraint(T) PROVE Lang!print_constraint(c) \in Seq(Token(T))
    OBVIOUS
  <2>1. PICK ts : ts = Lang!print_constraint(c) \o <<>>
    OBVIOUS
  <2> QED BY <1>2, <2>1, ConstraintPrints
<1>5. /\ \A k \in 1 .. n : t.fields[k] \in Field(T)
      /\ \A k \in 1 .. m : t.constraints[k] \in Constraint(T)
  BY <1>1, TableShape
<1>6. PICK f : f = PrintedFields(t)
  OBVIOUS
<1>7. f = [i \in 1 .. n |-> Lang!print_field(t.fields[i])]
  BY <1>1, <1>6 DEF PrintedFields
<1>8. f \in [1 .. n -> Seq(Token(T))] /\ \A k \in 1 .. n : f[k] = Lang!print_field(t.fields[k])
  BY <1>3, <1>5, <1>7
<1>9. IsDocs(Token(T), f) /\ Len(f) = n
  BY <1>8, DocsOf
<1>10. PICK c : c = PrintedConstraints(t)
  OBVIOUS
<1>11. c = [i \in 1 .. m |-> Lang!print_constraint(t.constraints[i])]
  BY <1>1, <1>10 DEF PrintedConstraints
<1>12. c \in [1 .. m -> Seq(Token(T))] /\ \A k \in 1 .. m : c[k] = Lang!print_constraint(t.constraints[k])
  BY <1>4, <1>5, <1>11
<1>13. IsDocs(Token(T), c) /\ Len(c) = m
  BY <1>12, DocsOf
<1> QED BY <1>1, <1>6, <1>8, <1>9, <1>10, <1>12, <1>13

-----------------------------------------------------------------------------
(* Where the parser is in a table.                                         *)

End == <<Lang!W(Closing)>>

\* What follows the fields of a table.
BehindFields(t, r) == Lang!FlattenSeq(PrintedConstraints(t)) \o (End \o r)

\* The table as far as it has been read.
TablePart(t, k, j) == [name |-> t.name, compaction |-> t.compaction, fields |-> SubSeq(t.fields, 1, k),
                       constraints |-> SubSeq(t.constraints, 1, j)]

\* The first k fields have been read.
AtFields(T, t, k, tb, rs, r) ==
    tb = TablePart(t, k, 0) /\ LeftBehind(Token(T), PrintedFields(t), BehindFields(t, r), k, rs)

\* All fields and the first j constraints have been read.
AtConstraints(T, t, j, tb, rs, r) ==
    tb = TablePart(t, Len(t.fields), j) /\ LeftBehind(Token(T), PrintedConstraints(t), End \o r, j, rs)

InTable(T, t, tb, rs, r) ==
    \/ \E k \in 0 .. (Len(t.fields) - 1) : AtFields(T, t, k, tb, rs, r)
    \/ \E j \in 0 .. Len(t.constraints) : AtConstraints(T, t, j, tb, rs, r)

\* The closing bracket and what follows it are a document.
LEMMA EndIs ==
  ASSUME NEW T, Keywords \subseteq T, NEW r \in Seq(Token(T))
  PROVE  End \in Seq(Token(T)) /\ End \o r \in Seq(Token(T))
<1>1. Closing \in T
  BY Braces
<1>2. Lang!W(Closing) \in Token(T)
  BY <1>1 DEF Lang!W, Token
<1>3. End \in Seq(Token(T))
  BY <1>2 DEF End
<1> QED BY <1>3

\* So are the constraints and it.
LEMMA BehindIs ==
  ASSUME NEW T, Keywords \subseteq T, NEW t \in Table(T), NEW r \in Seq(Token(T))
  PROVE  /\ BehindFields(t, r) \in Seq(Token(T))
         /\ LeftBehind(Token(T), PrintedConstraints(t), End \o r, 0, BehindFields(t, r))
<1>1. PICK e \in Seq(Token(T)) : e = End \o r
  BY EndIs
<1>2. IsDocs(Token(T), PrintedConstraints(t))
  BY PartsAreDocs
<1>3. PICK c \in Seq(Token(T)) : c = Lang!FlattenSeq(PrintedConstraints(t))
  BY <1>1, <1>2, NoneOrAllLeft
<1>4. LeftBehind(Token(T), PrintedConstraints(t), e, 0, c \o e)
  BY <1>2, <1>3, NoneOrAllLeft
<1>5. BehindFields(t, r) = c \o e
  BY <1>1, <1>3 DEF BehindFields
<1>6. c \o e \in Seq(Token(T))
  OBVIOUS
<1> QED BY <1>1, <1>4, <1>5, <1>6

\* Nothing has been read of a table that is open.
LEMMA FieldsFirst ==
  ASSUME NEW T, Keywords \subseteq T, NEW t \in Table(T), NEW r \in Seq(Token(T)), NEW tb, NEW k \in 0 .. Len(t.fields),
         NEW rs, AtFields(T, t, k, tb, rs, r)
  PROVE  InTable(T, t, tb, rs, r)
<1>1. PICK n \in Nat, m \in Nat : n = Len(t.fields) /\ m = Len(t.constraints)
  BY TableShape
<1>2. CASE k < n
  <2>1. k \in 0 .. (n - 1)
    BY <1>1, <1>2
  <2> QED BY <1>1, <2>1 DEF InTable
<1>3. CASE k = n
  <2>1. LeftBehind(Token(T), PrintedFields(t), BehindFields(t, r), n, rs) /\ tb = TablePart(t, n, 0)
    BY <1>3 DEF AtFields
  <2>2. IsDocs(Token(T), PrintedFields(t)) /\ n = Len(PrintedFields(t))
    BY <1>1, PartsAreDocs
  <2>3. BehindFields(t, r) \in Seq(Token(T))
    BY BehindIs
  <2>4. rs = BehindFields(t, r)
    BY <2>1, <2>2, <2>3, NoneOrAllLeft
  <2>5. AtConstraints(T, t, 0, tb, rs, r)
    BY <1>1, <2>1, <2>4, BehindIs DEF AtConstraints
  <2>6. 0 \in 0 .. m
    OBVIOUS
  <2> QED BY <1>1, <2>5, <2>6 DEF InTable
<1> QED BY <1>1, <1>2, <1>3

\* What has been read of a sequence grows by the next element.
LEMMA OneMore ==
  ASSUME NEW S, NEW s \in Seq(S), NEW k \in 0 .. (Len(s) - 1)
  PROVE  Append(SubSeq(s, 1, k), s[k + 1]) = SubSeq(s, 1, k + 1)
<1>1. PICK n \in Nat : n = Len(s)
  OBVIOUS
<1>2. k \in 0 .. (n - 1)
  BY <1>1
<1>3. PICK a, b : a = SubSeq(s, 1, k) /\ b = SubSeq(s, 1, k + 1)
  OBVIOUS
<1>4. a \in Seq(S) /\ Len(a) = k /\ \A i \in 1 .. k : a[i] = s[i]
  BY <1>1, <1>2, <1>3
<1>5. b \in Seq(S) /\ Len(b) = k + 1 /\ \A i \in 1 .. (k + 1) : b[i] = s[i]
  BY <1>1, <1>2, <1>3
<1>6. s[k + 1] \in S
  BY <1>1, <1>2
<1>7. PICK c : c = Append(a, s[k + 1])
  OBVIOUS
<1>8. c \in Seq(S) /\ Len(c) = k + 1 /\ \A i \in 1 .. (k + 1) : c[i] = b[i]
  BY <1>2, <1>4, <1>5, <1>6, <1>7
<1>9. c = b
  BY <1>5, <1>8, SeqEqual
<1> QED BY <1>3, <1>7, <1>9

\* A constraint is next, which is read as itself.
NextConstraint(T, t, tb, rs, r) ==
    \E c, z : /\ Lang!parse_constraint(rs) = {[value |-> c, size |-> z]}
              /\ InTable(T, t, [tb EXCEPT !.constraints = Append(@, c)], Lang!Drop(rs, z), r)

\* A field is next, which is read as itself.
NextField(T, t, tb, rs, r) ==
    \E f, z : /\ Lang!parse_constraint(rs) = {}
              /\ Lang!parse_field_def(rs) = {[value |-> f, size |-> z]}
              /\ InTable(T, t, [tb EXCEPT !.fields = Append(@, f)], Lang!Drop(rs, z), r)

\* What is behind the fields continues none of them.
LEMMA BehindContinuesNothing ==
  ASSUME NEW T, Keywords \subseteq T, NEW t \in Table(T), NEW r \in Seq(Token(T)), NEW f
  PROVE  ~Continues(f, BehindFields(t, r))
<1>1. PICK m \in Nat : m = Len(t.constraints)
  BY TableShape
<1>2. PICK e \in Seq(Token(T)) : e = End \o r
  BY EndIs
<1>3. PICK x \in Seq(Token(T)) : x = BehindFields(t, r)
  BY BehindIs
<1>4. LeftBehind(Token(T), PrintedConstraints(t), e, 0, x)
  BY <1>2, <1>3, BehindIs
<1>5. IsDocs(Token(T), PrintedConstraints(t)) /\ Len(PrintedConstraints(t)) = m
  BY <1>1, PartsAreDocs
<1>6. CASE m = 0
  <2>1. x = e
    BY <1>4, <1>5, <1>6, NoneOrAllLeft
  <2>2. Len(x) >= 1 /\ x[1] = Lang!W(Closing)
    BY <1>2, <2>1, ClosingSeen DEF End
  <2>3. ~Continues(f, x)
    BY <2>2, EndContinuesNothing
  <2> QED BY <1>3, <2>3
<1>7. CASE m # 0
  <2>1. 0 \in 0 .. (Len(PrintedConstraints(t)) - 1) /\ 1 \in 1 .. m
    BY <1>5, <1>7
  <2>2. PICK y \in Seq(Token(T)) : /\ x = PrintedConstraints(t)[0 + 1] \o y
                                   /\ LeftBehind(Token(T), PrintedConstraints(t), e, 0 + 1, y)
    BY <1>4, <1>5, <2>1, NextLeft
  <2>3. PICK c \in Constraint(T) : c = t.constraints[1]
    BY <1>1, <2>1, TableShape
  <2>4. PrintedConstraints(t)[0 + 1] = Lang!print_constraint(c)
    BY <1>1, <2>1, <2>3, PartsAreDocs
  <2>5. x = Lang!print_constraint(c) \o y
    BY <2>2, <2>4
  <2>6. Len(x) >= 1 /\ x[1] \in {Lang!W("PRIMARY"), Lang!W("UNIQUE")}
    BY <2>5, ConstraintPrints DEF ConstraintBack
  <2>7. ~Continues(f, x)
    BY <2>6, EndContinuesNothing
  <2> QED BY <1>3, <2>7
<1> QED BY <1>6, <1>7

\* What is behind a field of a table does not continue it.
LEMMA RestContinuesNothing ==
  ASSUME NEW T, Keywords \subseteq T, NEW t \in Table(T), NEW r \in Seq(Token(T)), NEW k \in 0 .. (Len(t.fields) - 1),
         NEW x \in Seq(Token(T)), LeftBehind(Token(T), PrintedFields(t), BehindFields(t, r), k + 1, x)
  PROVE  ~Continues(t.fields[k + 1], x)
<1>1. PICK n \in Nat : n = Len(t.fields)
  BY TableShape
<1>2. IsDocs(Token(T), PrintedFields(t)) /\ Len(PrintedFields(t)) = n
  BY <1>1, PartsAreDocs
<1>3. PICK d \in Seq(Token(T)) : d = BehindFields(t, r)
  BY BehindIs
<1>4. CASE k + 1 = n
  <2>1. x = d
    BY <1>2, <1>3, <1>4, NoneOrAllLeft
  <2> QED BY <1>3, <2>1, BehindContinuesNothing
<1>5. CASE k + 1 # n
  <2>1. k + 1 \in 0 .. (n - 1) /\ k + 2 \in 1 .. n /\ k + 1 \in 1 .. (n - 1) /\ (k + 1) + 1 = k + 2
    BY <1>1, <1>5
  <2>9. LeftBehind(Token(T), PrintedFields(t), d, k + 1, x)
    BY <1>3
  <2>2. PICK y \in Seq(Token(T)) : /\ x = PrintedFields(t)[(k + 1) + 1] \o y
                                   /\ LeftBehind(Token(T), PrintedFields(t), d, (k + 1) + 1, y)
    BY <1>2, <2>1, <2>9, NextLeft
  <2>3. PICK g \in Field(T) : g = t.fields[k + 2]
    BY <1>1, <2>1, TableShape
  <2>4. x = Lang!print_field(g) \o y
    BY <1>1, <2>1, <2>2, <2>3, PartsAreDocs
  <2>5. Len(x) >= 2 /\ x[1] = Lang!W(g.name) /\ x[2] = Lang!W(g.type)
    BY <2>4, FieldFront
  <2>6. g.type \in Lang!FieldTypes
    BY DEF Field
  <2>7. Separate(t.fields)
    BY TableShape
  <2>8. g.name = "NOTNULL" => ~t.fields[k + 1].nullable \/ t.fields[k + 1].default # Lang!NoDefault
    BY <1>1, <2>1, <2>3, <2>7 DEF Separate
  <2> QED BY <2>5, <2>6, <2>8, FieldContinuesRarely
<1> QED BY <1>4, <1>5

\* A table whose fields or constraints are replaced.
LEMMA TableWith ==
  ASSUME NEW x, NEW p, NEW a, NEW b, NEW c, NEW d, NEW tb, tb = [name |-> x, compaction |-> p, fields |-> a, constraints |-> c]
  PROVE  /\ tb.fields = a /\ tb.constraints = c
         /\ [tb EXCEPT !.fields = b] = [name |-> x, compaction |-> p, fields |-> b, constraints |-> c]
         /\ [tb EXCEPT !.constraints = d] = [name |-> x, compaction |-> p, fields |-> a, constraints |-> d]
  OBVIOUS

\* The next field of a table is read as itself.
LEMMA FieldIsRead ==
  ASSUME NEW T, Keywords \subseteq T, NEW t \in Table(T), NEW r \in Seq(Token(T)), NEW k \in 0 .. (Len(t.fields) - 1),
         NEW tb, NEW rs, AtFields(T, t, k, tb, rs, r)
  PROVE  NextField(T, t, tb, rs, r)
<1>1. PICK n \in Nat : n = Len(t.fields)
  BY TableShape
<1>2. IsDocs(Token(T), PrintedFields(t)) /\ Len(PrintedFields(t)) = n
  BY <1>1, PartsAreDocs
<1>3. PICK d \in Seq(Token(T)) : d = BehindFields(t, r)
  BY BehindIs
<1>4. LeftBehind(Token(T), PrintedFields(t), d, k, rs) /\ tb = TablePart(t, k, 0)
  BY <1>3 DEF AtFields
<1>5. PICK x \in Seq(Token(T)) : /\ rs = PrintedFields(t)[k + 1] \o x
                                 /\ LeftBehind(Token(T), PrintedFields(t), d, k + 1, x)
  BY <1>1, <1>2, <1>4, NextLeft
<1>6. k + 1 \in 1 .. n /\ k + 1 \in 0 .. n
  BY <1>1
<1>7. PICK f \in Field(T) : f = t.fields[k + 1]
  BY <1>1, <1>6, TableShape
<1>8. rs = Lang!print_field(f) \o x
  BY <1>1, <1>5, <1>6, <1>7, PartsAreDocs
<1>9. ~Continues(f, x)
  BY <1>3, <1>5, <1>7, RestContinuesNothing
<1>10. FieldBack(f, rs, x)
  BY <1>8, <1>9, FieldsComeBack
<1>11. t.fields \in Seq(Field(T))
  BY TableShape
<1>12. Append(SubSeq(t.fields, 1, k), f) = SubSeq(t.fields, 1, k + 1)
  BY <1>7, <1>11, OneMore
<1>13. [tb EXCEPT !.fields = Append(@, f)] = TablePart(t, k + 1, 0)
  <2>1. PICK a, b, c : a = SubSeq(t.fields, 1, k) /\ b = SubSeq(t.fields, 1, k + 1) /\ c = SubSeq(t.constraints, 1, 0)
    OBVIOUS
  <2>2. /\ tb = [name |-> t.name, compaction |-> t.compaction, fields |-> a, constraints |-> c]
        /\ TablePart(t, k + 1, 0) = [name |-> t.name, compaction |-> t.compaction, fields |-> b, constraints |-> c]
    BY <1>4, <2>1 DEF TablePart
  <2>3. b = Append(a, f)
    BY <1>12, <2>1
  <2>4. tb.fields = a /\ [tb EXCEPT !.fields = b] = TablePart(t, k + 1, 0)
    BY <2>2, TableWith
  <2> QED BY <2>3, <2>4
<1>14. AtFields(T, t, k + 1, [tb EXCEPT !.fields = Append(@, f)], x, r)
  BY <1>3, <1>5, <1>13 DEF AtFields
<1>15. InTable(T, t, [tb EXCEPT !.fields = Append(@, f)], x, r)
  BY <1>1, <1>6, <1>14, FieldsFirst
<1> QED BY <1>10, <1>15 DEF FieldBack, NextField

\* The next constraint of a table is read as itself.
LEMMA ConstraintIsRead ==
  ASSUME NEW T, Keywords \subseteq T, NEW t \in Table(T), NEW r \in Seq(Token(T)), NEW j \in 0 .. (Len(t.constraints) - 1),
         NEW tb, NEW rs, AtConstraints(T, t, j, tb, rs, r)
  PROVE  NextConstraint(T, t, tb, rs, r)
<1>1. PICK m \in Nat : m = Len(t.constraints)
  BY TableShape
<1>2. IsDocs(Token(T), PrintedConstraints(t)) /\ Len(PrintedConstraints(t)) = m
  BY <1>1, PartsAreDocs
<1>3. PICK e \in Seq(Token(T)) : e = End \o r
  BY EndIs
<1>4. LeftBehind(Token(T), PrintedConstraints(t), e, j, rs) /\ tb = TablePart(t, Len(t.fields), j)
  BY <1>3 DEF AtConstraints
<1>5. PICK x \in Seq(Token(T)) : /\ rs = PrintedConstraints(t)[j + 1] \o x
                                 /\ LeftBehind(Token(T), PrintedConstraints(t), e, j + 1, x)
  BY <1>1, <1>2, <1>4, NextLeft
<1>6. j + 1 \in 1 .. m /\ j + 1 \in 0 .. m
  BY <1>1
<1>7. PICK c \in Constraint(T) : c = t.constraints[j + 1]
  BY <1>1, <1>6, TableShape
<1>8. rs = Lang!print_constraint(c) \o x
  BY <1>1, <1>5, <1>6, <1>7, PartsAreDocs
<1>9. ConstraintBack(c, rs, x)
  BY <1>8, ConstraintPrints
<1>10. t.constraints \in Seq(Constraint(T))
  BY TableShape
<1>11. Append(SubSeq(t.constraints, 1, j), c) = SubSeq(t.constraints, 1, j + 1)
  BY <1>7, <1>10, OneMore
<1>12. [tb EXCEPT !.constraints = Append(@, c)] = TablePart(t, Len(t.fields), j + 1)
  <2>1. PICK a, b, g : /\ a = SubSeq(t.constraints, 1, j) /\ b = SubSeq(t.constraints, 1, j + 1)
                       /\ g = SubSeq(t.fields, 1, Len(t.fields))
    OBVIOUS
  <2>2. /\ tb = [name |-> t.name, compaction |-> t.compaction, fields |-> g, constraints |-> a]
        /\ TablePart(t, Len(t.fields), j + 1) =
              [name |-> t.name, compaction |-> t.compaction, fields |-> g, constraints |-> b]
    BY <1>4, <2>1 DEF TablePart
  <2>3. b = Append(a, c)
    BY <1>11, <2>1
  <2>4. tb.constraints = a /\ [tb EXCEPT !.constraints = b] = TablePart(t, Len(t.fields), j + 1)
    BY <2>2, TableWith
  <2> QED BY <2>3, <2>4
<1>13. AtConstraints(T, t, j + 1, [tb EXCEPT !.constraints = Append(@, c)], x, r)
  BY <1>3, <1>5, <1>12 DEF AtConstraints
<1>14. InTable(T, t, [tb EXCEPT !.constraints = Append(@, c)], x, r)
  BY <1>1, <1>6, <1>13 DEF InTable
<1> QED BY <1>9, <1>14 DEF ConstraintBack, NextConstraint

\* A whole sequence is its own first part.
LEMMA WholeSeq ==
  ASSUME NEW S, NEW s \in Seq(S)
  PROVE  SubSeq(s, 1, Len(s)) = s
<1>1. PICK n \in Nat : n = Len(s)
  OBVIOUS
<1>2. PICK a : a = SubSeq(s, 1, n)
  OBVIOUS
<1>3. a \in Seq(S) /\ Len(a) = n /\ \A i \in 1 .. n : a[i] = s[i]
  BY <1>1, <1>2
<1>4. a = s
  BY <1>1, <1>3, SeqEqual
<1> QED BY <1>1, <1>2, <1>4

\* In a table there is a next item, or all of it has been read.
LEMMA TableReads ==
  ASSUME NEW T, Keywords \subseteq T, NEW t \in Table(T), NEW r \in Seq(Token(T)), NEW tb, NEW rs, InTable(T, t, tb, rs, r)
  PROVE  NextConstraint(T, t, tb, rs, r) \/ NextField(T, t, tb, rs, r) \/ (tb = t /\ rs = End \o r)
<1>1. PICK m \in Nat : m = Len(t.constraints)
  BY TableShape
<1>2. CASE \E k \in 0 .. (Len(t.fields) - 1) : AtFields(T, t, k, tb, rs, r)
  BY <1>2, FieldIsRead
<1>3. CASE \E j \in 0 .. (m - 1) : AtConstraints(T, t, j, tb, rs, r)
  BY <1>1, <1>3, ConstraintIsRead
<1>4. CASE AtConstraints(T, t, m, tb, rs, r)
  <2>1. LeftBehind(Token(T), PrintedConstraints(t), End \o r, m, rs) /\ tb = TablePart(t, Len(t.fields), m)
    BY <1>4 DEF AtConstraints
  <2>2. IsDocs(Token(T), PrintedConstraints(t)) /\ Len(PrintedConstraints(t)) = m
    BY <1>1, PartsAreDocs
  <2>3. End \o r \in Seq(Token(T))
    BY EndIs
  <2>4. rs = End \o r
    BY <2>1, <2>2, <2>3, NoneOrAllLeft
  <2>5. t.fields \in Seq(Field(T)) /\ t.constraints \in Seq(Constraint(T))
    BY TableShape
  <2>6. SubSeq(t.fields, 1, Len(t.fields)) = t.fields /\ SubSeq(t.constraints, 1, m) = t.constraints
    BY <1>1, <2>5, WholeSeq
  <2>7. tb = t
    BY <2>1, <2>6, TableShape DEF TablePart
  <2> QED BY <2>4, <2>7
<1>5. \A j \in 0 .. m : j \in 0 .. (m - 1) \/ j = m
  OBVIOUS
<1> QED BY <1>1, <1>2, <1>3, <1>4, <1>5 DEF InTable

-----------------------------------------------------------------------------
(* The head of a table.                                                    *)

Directive(p) == <<Lang!W("compaction"), Lang!W("=")>> \o Lang!print_compaction(p)

\* A compaction directive comes back, and nothing behind it is touched.
DirectiveBack(T, p, ts, x) ==
    /\ Directive(p) \in Seq(Token(T)) /\ ts \in Seq(Token(T))
    /\ Lang!parse_compaction_directive(ts) = {[value |-> p, size |-> Len(Directive(p))]}
    /\ Lang!Drop(ts, Len(Directive(p))) = x

JoinThree(a, b, c) == <<a, b>> \o <<c>> = <<a, b, c>>
JoinSix(a, b, c, d, e, f) == <<a, b>> \o <<c, d, e, f>> = <<a, b, c, d, e, f>>

\* Tuples are joined to tuples.
LEMMA TuplesJoin ==
  ASSUME NEW D, NEW a \in D, NEW b \in D, NEW c \in D, NEW d \in D, NEW e \in D, NEW f \in D
  PROVE  JoinThree(a, b, c) /\ JoinSix(a, b, c, d, e, f)
<1>1. PICK p, q, r, u, v : p = <<a, b>> /\ q = <<c>> /\ r = <<c, d, e, f>> /\ u = <<a, b, c>> /\ v = <<a, b, c, d, e, f>>
  OBVIOUS
<1>2. p \in Seq(D) /\ Len(p) = 2 /\ p[1] = a /\ p[2] = b
  BY <1>1
<1>3. q \in Seq(D) /\ Len(q) = 1 /\ q[1] = c
  BY <1>1
<1>4. r \in Seq(D) /\ Len(r) = 4 /\ r[1] = c /\ r[2] = d /\ r[3] = e /\ r[4] = f
  BY <1>1
<1>5. u \in Seq(D) /\ Len(u) = 3 /\ u[1] = a /\ u[2] = b /\ u[3] = c
  BY <1>1
<1>6. v \in Seq(D) /\ Len(v) = 6 /\ v[1] = a /\ v[2] = b /\ v[3] = c /\ v[4] = d /\ v[5] = e /\ v[6] = f
  BY <1>1
<1>7. PICK w, z : w = p \o q /\ z = p \o r
  OBVIOUS
<1>8. w \in Seq(D) /\ Len(w) = 3 /\ w[1] = a /\ w[2] = b /\ w[3] = c
  <2>1. /\ w \in Seq(D) /\ Len(w) = Len(p) + Len(q)
        /\ \A i \in 1 .. Len(p) : w[i] = p[i]
        /\ \A i \in 1 .. Len(q) : w[Len(p) + i] = q[i]
    <3>1. p \in Seq(D) /\ q \in Seq(D)
      BY <1>2, <1>3
    <3>2. /\ p \o q \in Seq(D) /\ Len(p \o q) = Len(p) + Len(q)
          /\ \A i \in 1 .. Len(p) : (p \o q)[i] = p[i]
          /\ \A i \in 1 .. Len(q) : (p \o q)[Len(p) + i] = q[i]
      BY <3>1, Joined, SMT
    <3> QED BY <1>7, <3>2, Zenon
  <2>2. w[2 + 1] = q[1]
    BY <1>2, <1>3, <2>1
  <2> QED BY <1>2, <1>3, <2>1, <2>2
<1>9. z \in Seq(D) /\ Len(z) = 6 /\ z[1] = a /\ z[2] = b /\ z[3] = c /\ z[4] = d /\ z[5] = e /\ z[6] = f
  <2>1. /\ z \in Seq(D) /\ Len(z) = Len(p) + Len(r)
        /\ \A i \in 1 .. Len(p) : z[i] = p[i]
        /\ \A i \in 1 .. Len(r) : z[Len(p) + i] = r[i]
    <3>1. p \in Seq(D) /\ r \in Seq(D)
      BY <1>2, <1>4
    <3>2. /\ p \o r \in Seq(D) /\ Len(p \o r) = Len(p) + Len(r)
          /\ \A i \in 1 .. Len(p) : (p \o r)[i] = p[i]
          /\ \A i \in 1 .. Len(r) : (p \o r)[Len(p) + i] = r[i]
      BY <3>1, Joined, SMT
    <3> QED BY <1>7, <3>2, Zenon
  <2>2. z[2 + 1] = r[1] /\ z[2 + 2] = r[2] /\ z[2 + 3] = r[3] /\ z[2 + 4] = r[4]
    BY <1>2, <1>4, <2>1
  <2> QED BY <1>2, <1>4, <2>1, <2>2
<1>10. w = u
  BY <1>5, <1>8, SeqEqual
<1>11. z = v
  BY <1>6, <1>9, SeqEqual
<1> QED BY <1>1, <1>7, <1>10, <1>11 DEF JoinThree, JoinSix

\* Up to six tokens in front of a document.
LEMMA InFront ==
  ASSUME NEW D, NEW a \in D, NEW b \in D, NEW c \in D, NEW d \in D, NEW e \in D, NEW f \in D, NEW x \in Seq(D)
  PROVE  /\ <<a, b, c>> \in Seq(D) /\ Len(<<a, b, c>>) = 3
         /\ <<a, b, c, d, e, f>> \in Seq(D) /\ Len(<<a, b, c, d, e, f>>) = 6
         /\ \A ts : ts = <<a, b, c>> \o x => ts \in Seq(D) /\ Len(ts) >= 3 /\ ts[1] = a /\ ts[2] = b /\ ts[3] = c
         /\ \A ts : ts = <<a, b, c, d, e, f>> \o x =>
              /\ ts \in Seq(D) /\ Len(ts) >= 6 /\ ts[1] = a /\ ts[2] = b /\ ts[3] = c
              /\ ts[4] = d /\ ts[5] = e /\ ts[6] = f
<1>3. <<a, b, c>> \in Seq(D) /\ Len(<<a, b, c>>) = 3
  OBVIOUS
<1>4. <<a, b, c, d, e, f>> \in Seq(D) /\ Len(<<a, b, c, d, e, f>>) = 6
  OBVIOUS
<1>5. ASSUME NEW ts, ts = <<a, b, c>> \o x PROVE ts \in Seq(D) /\ Len(ts) >= 3 /\ ts[1] = a /\ ts[2] = b /\ ts[3] = c
  BY <1>5
<1>6. ASSUME NEW ts, ts = <<a, b, c, d, e, f>> \o x
      PROVE  /\ ts \in Seq(D) /\ Len(ts) >= 6 /\ ts[1] = a /\ ts[2] = b /\ ts[3] = c
             /\ ts[4] = d /\ ts[5] = e /\ ts[6] = f
  BY <1>6
<1> QED BY <1>3, <1>4, <1>5, <1>6

\* Three or four words.
LEMMA MoreWords ==
  ASSUME NEW T, NEW x \in T, NEW y \in T, NEW z \in T, NEW w \in T
  PROVE  /\ <<x, y, z>> \in Seq(T) /\ Len(<<x, y, z>>) = 3
         /\ <<x, y, z>>[1] = x /\ <<x, y, z>>[2] = y /\ <<x, y, z>>[3] = z
         /\ <<x, y, z, w>> \in Seq(T) /\ Len(<<x, y, z, w>>) = 4
         /\ <<x, y, z, w>>[1] = x /\ <<x, y, z, w>>[2] = y /\ <<x, y, z, w>>[3] = z /\ <<x, y, z, w>>[4] = w
  OBVIOUS

\* Every compaction policy comes back.
LEMMA DirectivesComeBack ==
  ASSUME NEW T, Keywords \subseteq T, NEW p \in T, NEW x \in Seq(Token(T)), NEW ts, ts = Directive(p) \o x
  PROVE  DirectiveBack(T, p, ts, x)
<1>1. {"compaction", "=", "none", "aggressive", "(", ")"} \subseteq T
  <2>1. {"compaction", "none", "aggressive"} \subseteq Keywords
    BY Zenon DEF Keywords
  <2>2. {"=", "(", ")"} \subseteq Keywords
    BY Zenon DEF Keywords, Lang!Punctuation
  <2> QED BY <2>1, <2>2
<1>2. PICK a, b, n, g, l, m : /\ a = Lang!W("compaction") /\ b = Lang!W("=") /\ n = Lang!W("none")
                              /\ g = Lang!W("aggressive") /\ l = Lang!W("(") /\ m = Lang!W(")")
  OBVIOUS
<1>3. PICK i : i = [kind |-> "integer", text |-> p]
  OBVIOUS
<1>4. {a, b, n, g, l, m, i} \subseteq Token(T)
  BY <1>1, <1>2, <1>3 DEF Lang!W, Token
<1>9. <<a, b>> \o <<n>> = <<a, b, n>> /\ <<a, b>> \o <<g, l, i, m>> = <<a, b, g, l, i, m>>
  <2>1. a \in Token(T) /\ b \in Token(T) /\ n \in Token(T) /\ g \in Token(T) /\ l \in Token(T) /\ i \in Token(T) /\ m \in Token(T)
    BY <1>4
  <2>2. JoinThree(a, b, n)
    BY <2>1, TuplesJoin
  <2>3. JoinSix(a, b, g, l, i, m)
    BY <2>1, TuplesJoin
  <2> QED BY <2>2, <2>3 DEF JoinThree, JoinSix
<1>5. /\ <<"compaction", "=", "aggressive", "(">> \in Seq(T) /\ Len(<<"compaction", "=", "aggressive", "(">>) = 4
      /\ <<"compaction", "=", "none">> \in Seq(T) /\ Len(<<"compaction", "=", "none">>) = 3
  BY <1>1, MoreWords
<1>6. n # g
  BY <1>2, WordsDiffer
<1>7. CASE p = "none"
  <2>1. Directive(p) = <<a, b, n>>
    <3>1. Directive(p) = <<a, b>> \o <<n>>
      BY <1>2, <1>7 DEF Directive, Lang!print_compaction
    <3> QED BY <1>9, <3>1
  <2>2. Directive(p) \in Seq(Token(T)) /\ Len(Directive(p)) = 3
    BY <1>4, <2>1, InFront
  <2>3. ts \in Seq(Token(T)) /\ Len(ts) >= 3 /\ ts[1] = a /\ ts[2] = b /\ ts[3] = n
    BY <1>4, <2>1, InFront
  <2>4. ~Starts(ts, <<"compaction", "=", "aggressive", "(">>)
    BY <1>2, <1>6, <2>3 DEF Starts
  <2>5. Starts(ts, <<"compaction", "=", "none">>)
    BY <1>2, <2>3 DEF Starts
  <2>6. ~Lang!Ahead(ts, <<"compaction", "=", "aggressive", "(">>) /\ Lang!Ahead(ts, <<"compaction", "=", "none">>)
    BY <1>5, <2>3, <2>4, <2>5, AheadIs
  <2>7. Lang!parse_compaction_directive(ts) = {[value |-> p, size |-> 3]}
    BY <1>7, <2>6 DEF Lang!parse_compaction_directive
  <2>8. Lang!Drop(ts, Len(Directive(p))) = x
    BY <2>2, Dropped
  <2> QED BY <2>2, <2>3, <2>7, <2>8 DEF DirectiveBack
<1>8. CASE p # "none"
  <2>1. Directive(p) = <<a, b, g, l, i, m>>
    <3>1. Directive(p) = <<a, b>> \o <<g, l, i, m>>
      BY <1>2, <1>3, <1>8 DEF Directive, Lang!print_compaction
    <3> QED BY <1>9, <3>1
  <2>2. Directive(p) \in Seq(Token(T)) /\ Len(Directive(p)) = 6
    BY <1>4, <2>1, InFront
  <2>3. /\ ts \in Seq(Token(T)) /\ Len(ts) >= 6 /\ ts[1] = a /\ ts[2] = b /\ ts[3] = g
        /\ ts[4] = l /\ ts[5] = i /\ ts[6] = m
    BY <1>4, <2>1, InFront
  <2>4. Starts(ts, <<"compaction", "=", "aggressive", "(">>)
    <3>1. PICK ws : ws = <<"compaction", "=", "aggressive", "(">>
      OBVIOUS
    <3>2. Len(ws) = 4 /\ ws[1] = "compaction" /\ ws[2] = "=" /\ ws[3] = "aggressive" /\ ws[4] = "("
      BY <3>1
    <3>3. \A k \in 1 .. 4 : ts[k] = Lang!W(ws[k])
      <4>1. \A k \in 1 .. 4 : k = 1 \/ k = 2 \/ k = 3 \/ k = 4
        OBVIOUS
      <4> QED BY <1>2, <2>3, <3>2, <4>1
    <3>4. Len(ts) >= 4
      BY <2>3
    <3> QED BY <3>1, <3>2, <3>3, <3>4 DEF Starts
  <2>5. Lang!Ahead(ts, <<"compaction", "=", "aggressive", "(">>)
    BY <1>5, <2>3, <2>4, AheadIs
  <2>6. ts[5].kind = "integer" /\ ts[5].text = p
    BY <1>3, <2>3
  <2>7. Lang!parse_compaction_directive(ts) = {[value |-> p, size |-> 6]}
    BY <1>2, <2>3, <2>5, <2>6 DEF Lang!parse_compaction_directive
  <2>8. Lang!Drop(ts, Len(Directive(p))) = x
    BY <2>2, Dropped
  <2> QED BY <2>2, <2>3, <2>7, <2>8 DEF DirectiveBack
<1> QED BY <1>7, <1>8

\* A table begins with its name and a bracket.
TableFront(t) == <<Lang!W("table"), Lang!W(t.name), Lang!W(Opening)>>

\* What follows the directive of a table.
TableBody(t, r) == Lang!FlattenSeq(PrintedFields(t)) \o BehindFields(t, r)

\* A table is printed part by part.
LEMMA TableLaid ==
  ASSUME NEW T, Keywords \subseteq T, NEW t \in Table(T)
  PROVE  Lang!print_table(t) = (((TableFront(t) \o <<Lang!W("compaction"), Lang!W("=")>>) \o Lang!print_compaction(t.compaction))
           \o Lang!FlattenSeq(PrintedFields(t))) \o Lang!FlattenSeq(PrintedConstraints(t)) \o End
<1>1. Lang!Name(t.name) = Lang!W(t.name)
  BY TableShape DEF Lang!Name, Lang!W, Identifiers
<1>2. <<Lang!W("table"), Lang!W(t.name), Lang!W(Opening), Lang!W("compaction"), Lang!W("=")>>
       = TableFront(t) \o <<Lang!W("compaction"), Lang!W("=")>>
  <2> HIDE DEF Opening
  <2> QED BY DEF TableFront
<1>3. Lang!print_table(t) = <<Lang!W("table"), Lang!Name(t.name), Lang!W(Opening), Lang!W("compaction"), Lang!W("=")>>
           \o Lang!print_compaction(t.compaction)
           \o Lang!FlattenSeq(PrintedFields(t)) \o Lang!FlattenSeq(PrintedConstraints(t)) \o End
  BY Zenon DEF Lang!print_table, PrintedFields, PrintedConstraints, End, Opening, Closing
<1> QED BY <1>1, <1>2, <1>3

\* The parts of a table regrouped.
Regrouped(D, a, w, c, f, g, e, r) ==
    /\ (((((a \o w) \o c) \o f) \o g) \o e) \o r = (a \o (w \o c)) \o (f \o (g \o (e \o r)))
    /\ Doc(D, w \o c) /\ Doc(D, f \o (g \o (e \o r))) /\ Doc(D, ((((a \o w) \o c) \o f) \o g) \o e)

\* Joining is associative.
LEMMA PartsRegroup ==
  ASSUME NEW D, NEW a, NEW w, NEW c, NEW f, NEW g, NEW e, NEW r,
         Doc(D, a), Doc(D, w), Doc(D, c), Doc(D, f), Doc(D, g), Doc(D, e), Doc(D, r)
  PROVE  Regrouped(D, a, w, c, f, g, e, r)
<1>1. PICK h, k : h = (a \o w) \o c /\ k = w \o c
  OBVIOUS
<1>2. h = a \o k
  <2>1. Associates(a, w, c)
    BY DocsRegroup
  <2> QED BY <1>1, <2>1 DEF Associates
<1>3. Doc(D, k) /\ Doc(D, h)
  BY <1>1, <1>2, DocsJoin
<1>4. PICK i : i = h \o f
  OBVIOUS
<1>5. Doc(D, i)
  BY <1>3, <1>4, DocsJoin
<1>6. PICK j : j = i \o g
  OBVIOUS
<1>7. Doc(D, j)
  BY <1>5, <1>6, DocsJoin
<1>8. PICK x : x = e \o r
  OBVIOUS
<1>9. Doc(D, x) /\ Doc(D, j \o e)
  BY <1>7, <1>8, DocsJoin
<1>10. PICK y : y = g \o x
  OBVIOUS
<1>11. Doc(D, y)
  BY <1>9, <1>10, DocsJoin
<1>12. Doc(D, f \o y)
  BY <1>11, DocsJoin
<1>13. (j \o e) \o r = j \o x
  <2>1. Associates(j, e, r)
    BY <1>7, DocsRegroup
  <2> QED BY <1>8, <2>1 DEF Associates
<1>14. j \o x = i \o y
  <2>1. Associates(i, g, x)
    BY <1>5, <1>9, DocsRegroup
  <2> QED BY <1>6, <1>10, <2>1 DEF Associates
<1>15. i \o y = h \o (f \o y)
  <2>1. Associates(h, f, y)
    BY <1>3, <1>11, DocsRegroup
  <2> QED BY <1>4, <2>1 DEF Associates
<1>16. (j \o e) \o r = h \o (f \o y)
  BY <1>13, <1>14, <1>15
<1> QED BY <1>1, <1>2, <1>3, <1>4, <1>6, <1>8, <1>9, <1>10, <1>12, <1>16 DEF Regrouped

\* The front of a table is three tokens.
LEMMA FrontIs ==
  ASSUME NEW T, Keywords \subseteq T, NEW t \in Table(T)
  PROVE  /\ TableFront(t) \in Seq(Token(T)) /\ Len(TableFront(t)) = 3
         /\ \A x \in Seq(Token(T)) : \A ts : ts = TableFront(t) \o x =>
              /\ ts \in Seq(Token(T)) /\ Len(ts) >= 3
              /\ ts[1] = Lang!W("table") /\ ts[2] = Lang!W(t.name) /\ ts[3] = Lang!W(Opening)
<1>1. "table" \in T /\ Opening \in T /\ t.name \in T
  <2>1. "table" \in Keywords
    BY Zenon DEF Keywords
  <2> QED BY <2>1, Braces, TableShape DEF Identifiers
<1>2. PICK a, b, c : a = Lang!W("table") /\ b = Lang!W(t.name) /\ c = Lang!W(Opening)
  OBVIOUS
<1>3. a \in Token(T) /\ b \in Token(T) /\ c \in Token(T)
  BY <1>1, <1>2 DEF Lang!W, Token
<1>4. TableFront(t) = <<a, b, c>>
  BY <1>2 DEF TableFront
<1>5. <<a, b, c>> \in Seq(Token(T)) /\ Len(<<a, b, c>>) = 3
  BY <1>3, InFront
<1>6. ASSUME NEW x \in Seq(Token(T)), NEW ts, ts = <<a, b, c>> \o x
      PROVE  ts \in Seq(Token(T)) /\ Len(ts) >= 3 /\ ts[1] = a /\ ts[2] = b /\ ts[3] = c
  BY <1>3, <1>6
<1> QED BY <1>2, <1>4, <1>5, <1>6

\* What the parser sees when a table is ahead.
TableSeen(T, t, ts, r) ==
    /\ ts \in Seq(Token(T)) /\ Lang!Opens(ts) /\ ts[2].text = t.name
    /\ \E z : /\ Lang!parse_compaction_directive(Lang!Drop(ts, 3)) = {[value |-> t.compaction, size |-> z]}
              /\ InTable(T, t, [Lang!BlankTable EXCEPT !.name = t.name, !.compaction = t.compaction],
                         Lang!Drop(ts, 3 + z), r)
    /\ ts # End /\ Lang!print_table(t) \in Seq(Token(T))

\* Parts of a table.
LEMMA TableParts ==
  ASSUME NEW T, Keywords \subseteq T, NEW t \in Table(T), NEW r \in Seq(Token(T))
  PROVE  /\ Lang!print_table(t) \in Seq(Token(T))
         /\ Directive(t.compaction) \in Seq(Token(T)) /\ TableBody(t, r) \in Seq(Token(T))
         /\ Lang!print_table(t) \o r = (TableFront(t) \o Directive(t.compaction)) \o TableBody(t, r)
<1>1. PICK a \in Seq(Token(T)) : a = TableFront(t)
  BY FrontIs
<1>2. PICK w, c : w = <<Lang!W("compaction"), Lang!W("=")>> /\ c = Lang!print_compaction(t.compaction)
  OBVIOUS
<1>3. w \in Seq(Token(T))
  <2>1. "compaction" \in T /\ "=" \in T
    BY Zenon DEF Keywords, Lang!Punctuation
  <2>2. Lang!W("compaction") \in Token(T) /\ Lang!W("=") \in Token(T)
    BY <2>1 DEF Lang!W, Token
  <2> QED BY <1>2, <2>2, FewWords
<1>4. t.compaction \in T
  BY TableShape
<1>5. c \in Seq(Token(T))
  <2>1. {"none", "aggressive", "(", ")"} \subseteq T
    BY Zenon DEF Keywords, Lang!Punctuation
  <2>2. PICK n, g, l, i, m : /\ n = Lang!W("none") /\ g = Lang!W("aggressive") /\ l = Lang!W("(") /\ m = Lang!W(")")
                             /\ i = [kind |-> "integer", text |-> t.compaction]
    OBVIOUS
  <2>3. n \in Token(T) /\ g \in Token(T) /\ l \in Token(T) /\ i \in Token(T) /\ m \in Token(T)
    BY <1>4, <2>1, <2>2 DEF Lang!W, Token
  <2>4. c = IF t.compaction = "none" THEN <<n>> ELSE <<g, l, i, m>>
    BY <1>2, <2>2 DEF Lang!print_compaction
  <2>5. <<n>> \in Seq(Token(T)) /\ <<g, l, i, m>> \in Seq(Token(T))
    BY <2>3, MoreWords, FewWords
  <2> QED BY <2>4, <2>5
<1>6. PICK e \in Seq(Token(T)) : e = End
  BY EndIs
<1>7. PICK f \in Seq(Token(T)) : f = Lang!FlattenSeq(PrintedFields(t))
  BY <1>6, PartsAreDocs, NoneOrAllLeft
<1>8. PICK g \in Seq(Token(T)) : g = Lang!FlattenSeq(PrintedConstraints(t))
  BY <1>6, PartsAreDocs, NoneOrAllLeft
<1>9. Regrouped(Token(T), a, w, c, f, g, e, r)
  <2>1. /\ Doc(Token(T), a) /\ Doc(Token(T), w) /\ Doc(Token(T), c) /\ Doc(Token(T), f) /\ Doc(Token(T), g)
        /\ Doc(Token(T), e) /\ Doc(Token(T), r)
    BY <1>3, <1>5 DEF Doc
  <2> QED BY <2>1, PartsRegroup
<1>10. Lang!print_table(t) = ((((a \o w) \o c) \o f) \o g) \o e
  BY <1>1, <1>2, <1>6, <1>7, <1>8, TableLaid
<1>11. Directive(t.compaction) = w \o c
  BY <1>2 DEF Directive
<1>12. TableBody(t, r) = f \o (g \o (e \o r))
  BY <1>6, <1>7, <1>8 DEF TableBody, BehindFields
<1>13. Lang!print_table(t) \o r = (a \o (w \o c)) \o (f \o (g \o (e \o r)))
  BY <1>9, <1>10 DEF Regrouped
<1>14. /\ w \o c \in Seq(Token(T)) /\ f \o (g \o (e \o r)) \in Seq(Token(T))
       /\ ((((a \o w) \o c) \o f) \o g) \o e \in Seq(Token(T))
  BY <1>9 DEF Regrouped, Doc
<1> QED BY <1>1, <1>10, <1>11, <1>12, <1>13, <1>14

\* A table that has been opened: nothing has been read of it.
LEMMA TableOpened ==
  ASSUME NEW T, Keywords \subseteq T, NEW t \in Table(T), NEW r \in Seq(Token(T)),
         NEW tb, tb = [Lang!BlankTable EXCEPT !.name = t.name, !.compaction = t.compaction]
  PROVE  InTable(T, t, tb, TableBody(t, r), r)
<1>1. PICK n \in Nat : n = Len(t.fields)
  BY TableShape
<1>2. t.fields \in Seq(Field(T)) /\ t.constraints \in Seq(Constraint(T))
  BY TableShape
<1>3. \A S : \A s \in Seq(S) : SubSeq(s, 1, 0) = <<>>
  OBVIOUS
<1>4. SubSeq(t.fields, 1, 0) = <<>> /\ SubSeq(t.constraints, 1, 0) = <<>>
  BY <1>2, <1>3
<1>5. tb = TablePart(t, 0, 0)
  BY <1>4 DEF TablePart, Lang!BlankTable
<1>6. IsDocs(Token(T), PrintedFields(t)) /\ BehindFields(t, r) \in Seq(Token(T))
  BY PartsAreDocs, BehindIs
<1>7. LeftBehind(Token(T), PrintedFields(t), BehindFields(t, r), 0, TableBody(t, r))
  BY <1>6, NoneOrAllLeft DEF TableBody
<1>8. AtFields(T, t, 0, tb, TableBody(t, r), r)
  BY <1>5, <1>7 DEF AtFields
<1>9. 0 \in 0 .. Len(t.fields)
  BY <1>1
<1> QED BY <1>8, <1>9, FieldsFirst

\* A table is seen as what was printed.
LEMMA TableIsSeen ==
  ASSUME NEW T, Keywords \subseteq T, NEW t \in Table(T), NEW r \in Seq(Token(T)),
         NEW ts, ts = Lang!print_table(t) \o r
  PROVE  TableSeen(T, t, ts, r)
<1>1. PICK a, d, b : a = TableFront(t) /\ d = Directive(t.compaction) /\ b = TableBody(t, r)
  OBVIOUS
<1>2. a \in Seq(Token(T)) /\ Len(a) = 3
  BY <1>1, FrontIs
<1>3. d \in Seq(Token(T)) /\ b \in Seq(Token(T)) /\ ts = (a \o d) \o b /\ Lang!print_table(t) \in Seq(Token(T))
  BY <1>1, TableParts
<1>4. PICK c : c = d \o b
  OBVIOUS
<1>5. c \in Seq(Token(T)) /\ ts = a \o c
  <2>1. Doc(Token(T), a) /\ Doc(Token(T), d) /\ Doc(Token(T), b)
    BY <1>2, <1>3 DEF Doc
  <2>2. Associates(a, d, b) /\ Doc(Token(T), d \o b)
    BY <2>1, DocsRegroup, DocsJoin
  <2> QED BY <1>3, <1>4, <2>2 DEF Associates, Doc
<1>6. /\ ts \in Seq(Token(T)) /\ Len(ts) >= 3
      /\ ts[1] = Lang!W("table") /\ ts[2] = Lang!W(t.name) /\ ts[3] = Lang!W(Opening)
  BY <1>1, <1>5, FrontIs
<1>7. Lang!Drop(ts, 3) = c
  <2>1. Lang!Drop(a \o c, Len(a)) = c
    BY <1>2, <1>5, Dropped
  <2> QED BY <1>2, <1>5, <2>1
<1>8. t.compaction \in T /\ t.name \in Identifiers(T)
  BY TableShape
<1>9. DirectiveBack(T, t.compaction, c, b)
  BY <1>1, <1>3, <1>4, <1>8, DirectivesComeBack
<1>10. PICK z \in Nat : z = Len(d)
  BY <1>3
<1>11. Lang!parse_compaction_directive(Lang!Drop(ts, 3)) = {[value |-> t.compaction, size |-> z]}
  BY <1>1, <1>7, <1>9, <1>10 DEF DirectiveBack
<1>12. Lang!Drop(ts, 3 + z) = b
  <2>1. PICK h : h = a \o d
    OBVIOUS
  <2>2. h \in Seq(Token(T)) /\ Len(h) = 3 + z
    <3>1. a \o d \in Seq(Token(T)) /\ Len(a \o d) = Len(a) + Len(d)
      BY <1>2, <1>3, Joined
    <3> QED BY <1>2, <1>10, <2>1, <3>1
  <2>3. Lang!Drop(h \o b, Len(h)) = b
    BY <1>3, <2>2, Dropped
  <2> QED BY <1>3, <2>1, <2>2, <2>3
<1>13. InTable(T, t, [Lang!BlankTable EXCEPT !.name = t.name, !.compaction = t.compaction], b, r)
  BY <1>1, TableOpened
<1>14. Lang!Opens(ts) /\ ts[2].text = t.name
  <2>1. "table" \in T
    BY Zenon DEF Keywords
  <2>2. <<"table">> \in Seq(T) /\ Len(<<"table">>) = 1 /\ <<"table">>[1] = "table"
    BY <2>1
  <2>3. Starts(ts, <<"table">>)
    BY <1>6, <2>2 DEF Starts
  <2>4. Lang!Ahead(ts, <<"table">>)
    BY <1>6, <2>2, <2>3, AheadIs
  <2>5. Lang!IsIdent(ts[2]) /\ ts[2].text = t.name
    BY <1>6, <1>8 DEF Lang!IsIdent, Lang!W, Identifiers
  <2>6. ts[3] = Lang!W("{")
    BY <1>6, Zenon DEF Opening
  <2>7. Len(ts) >= 3
    BY <1>6
  <2> QED BY <2>4, <2>5, <2>6, <2>7, Zenon DEF Lang!Opens
<1>15. ts # End
  <2>1. Len(End) = 1
    BY DEF End
  <2> QED BY <1>6, <2>1
<1>16. InTable(T, t, [Lang!BlankTable EXCEPT !.name = t.name, !.compaction = t.compaction], Lang!Drop(ts, 3 + z), r)
  BY <1>12, <1>13
<1> QED BY <1>3, <1>6, <1>11, <1>14, <1>15, <1>16 DEF TableSeen

-----------------------------------------------------------------------------
(* Where the parser is in a document.                                      *)

PrintedTables(s) == [i \in 1 .. Len(s.tables) |-> Lang!print_table(s.tables[i])]

\* The schema as far as it has been read.
SchemaPart(s, i) == [version |-> s.version, tables |-> SubSeq(s.tables, 1, i)]

\* The first i tables have been read.
AtTables(T, s, i, pd, rs) == pd = SchemaPart(s, i) /\ LeftBehind(Token(T), PrintedTables(s), End, i, rs)

\* What a schema's parts are, and how it is printed.
LEMMA SchemaShape ==
  ASSUME NEW T, Keywords \subseteq T, NEW s \in Schema(T)
  PROVE  /\ s.version \in T /\ s.tables \in Seq(Table(T)) /\ Len(s.tables) \in Nat
         /\ s = [version |-> s.version, tables |-> s.tables]
         /\ \A k \in 1 .. Len(s.tables) : s.tables[k] \in Table(T)
         /\ IsDocs(Token(T), PrintedTables(s)) /\ Len(PrintedTables(s)) = Len(s.tables)
         /\ \A k \in 1 .. Len(s.tables) : PrintedTables(s)[k] = Lang!print_table(s.tables[k])
<1>1. s.version \in T /\ s.tables \in Seq(Table(T)) /\ s = [version |-> s.version, tables |-> s.tables]
  BY DEF Schema
<1>2. PICK u : u = s.tables
  OBVIOUS
<1>3. PICK n \in Nat : n = Len(u)
  BY <1>1, <1>2
<1>4. \A k \in 1 .. n : u[k] \in Table(T)
  BY <1>1, <1>2, <1>3
<1>5. \A t \in Table(T) : Lang!print_table(t) \in Seq(Token(T))
  <2> SUFFICES ASSUME NEW t \in Table(T) PROVE Lang!print_table(t) \in Seq(Token(T))
    OBVIOUS
  <2>1. <<>> \in Seq(Token(T))
    OBVIOUS
  <2> QED BY <2>1, TableParts
<1>6. PICK p : p = PrintedTables(s)
  OBVIOUS
<1>7. p = [i \in 1 .. n |-> Lang!print_table(u[i])]
  BY <1>2, <1>3, <1>6 DEF PrintedTables
<1>8. p \in [1 .. n -> Seq(Token(T))] /\ \A k \in 1 .. n : p[k] = Lang!print_table(u[k])
  BY <1>4, <1>5, <1>7
<1>9. IsDocs(Token(T), p) /\ Len(p) = n
  BY <1>8, DocsOf
<1> QED BY <1>1, <1>2, <1>3, <1>4, <1>6, <1>8, <1>9

\* Between two tables of a document.
InTables(T, s, pd, rs) == \E i \in 0 .. Len(s.tables) : AtTables(T, s, i, pd, rs)

\* Within a table of a document.
InItems(T, s, pd, tb, rs) ==
    \E i \in 0 .. (Len(s.tables) - 1) : \E r \in Seq(Token(T)) :
        /\ pd = SchemaPart(s, i)
        /\ LeftBehind(Token(T), PrintedTables(s), End, i + 1, r)
        /\ InTable(T, s.tables[i + 1], tb, rs, r)

\* The front of a document.
HeadSeen(T, s, ts) ==
    ts[5].text = s.version /\ InTables(T, s, [version |-> s.version, tables |-> <<>>], Lang!Drop(ts, 5))

\* The version of a schema is seen and its tables follow.
LEMMA HeadIsSeen ==
  ASSUME NEW T, Keywords \subseteq T, NEW s \in Schema(T), NEW ts, ts = Lang!print(s)
  PROVE  HeadSeen(T, s, ts)
<1>1. PICK v : v = [kind |-> "string", text |-> s.version]
  OBVIOUS
<1>2. v \in Token(T) /\ v.text = s.version
  BY <1>1, SchemaShape DEF Token
<1>3. PICK ws : ws = <<"schema", Opening, "version", "=">>
  OBVIOUS
<1>4. ws \in Seq(T) /\ Len(ws) = 4
  <2>1. "schema" \in T /\ "version" \in T /\ "=" \in T
    BY Zenon DEF Keywords, Lang!Punctuation
  <2>2. Opening \in T
    BY Braces
  <2> QED BY <1>3, <2>1, <2>2, MoreWords
<1>5. PICK a : a = Lang!Words(ws)
  OBVIOUS
<1>6. a \in Seq(Token(T)) /\ Len(a) = 4
  BY <1>4, <1>5, WordsAre
<1>7. PICK b : b = a \o <<v>>
  OBVIOUS
<1>8. b \in Seq(Token(T)) /\ Len(b) = 5 /\ b[5] = v
  <2>1. PICK q : q = <<v>>
    OBVIOUS
  <2>2. q \in Seq(Token(T)) /\ Len(q) = 1 /\ q[1] = v
    BY <1>2, <2>1
  <2>3. /\ a \o q \in Seq(Token(T)) /\ Len(a \o q) = Len(a) + Len(q)
        /\ \A i \in 1 .. Len(q) : (a \o q)[Len(a) + i] = q[i]
    <3>1. a \in Seq(Token(T)) /\ q \in Seq(Token(T))
      BY <1>6, <2>2
    <3> QED BY <3>1, Joined, SMT
  <2>4. (a \o q)[4 + 1] = q[1]
    BY <1>6, <2>2, <2>3
  <2> QED BY <1>6, <1>7, <2>1, <2>2, <2>3, <2>4
<1>9. End \in Seq(Token(T))
  <2>1. <<>> \in Seq(Token(T))
    OBVIOUS
  <2> QED BY <2>1, EndIs
<1>10. IsDocs(Token(T), PrintedTables(s))
  BY SchemaShape
<1>11. PICK f : f = Lang!FlattenSeq(PrintedTables(s))
  OBVIOUS
<1>12. f \in Seq(Token(T)) /\ LeftBehind(Token(T), PrintedTables(s), End, 0, f \o End)
  BY <1>9, <1>10, <1>11, NoneOrAllLeft
<1>13. ts = (b \o f) \o End
  <2>1. Lang!print(s) = Lang!Words(<<"schema", Opening, "version", "=">>) \o <<[kind |-> "string", text |-> s.version]>>
           \o Lang!FlattenSeq(PrintedTables(s)) \o End
    BY Zenon DEF Lang!print, PrintedTables, End, Opening, Closing
  <2> QED BY <1>1, <1>3, <1>5, <1>7, <1>11, <2>1
<1>14. PICK c : c = f \o End
  OBVIOUS
<1>15. c \in Seq(Token(T)) /\ ts = b \o c
  <2>1. Doc(Token(T), b) /\ Doc(Token(T), f) /\ Doc(Token(T), End)
    BY <1>8, <1>9, <1>12 DEF Doc
  <2>2. Associates(b, f, End) /\ Doc(Token(T), f \o End)
    BY <2>1, DocsRegroup, DocsJoin
  <2> QED BY <1>13, <1>14, <2>2 DEF Associates, Doc
<1>16. ts[5] = v
  <2>1. b \in Seq(Token(T)) /\ c \in Seq(Token(T))
    BY <1>8, <1>15
  <2>2. \A i \in 1 .. Len(b) : (b \o c)[i] = b[i]
    BY <2>1, Joined, SMT
  <2>4. 5 \in 1 .. Len(b)
    BY <1>8
  <2>3. (b \o c)[5] = b[5]
    BY <2>2, <2>4, Zenon
  <2> QED BY <1>8, <1>15, <2>3, Zenon
<1>17. Lang!Drop(ts, 5) = c
  <2>1. Lang!Drop(b \o c, Len(b)) = c
    BY <1>8, <1>15, Dropped
  <2> QED BY <1>8, <1>15, <2>1
<1>18. AtTables(T, s, 0, [version |-> s.version, tables |-> <<>>], c)
  <2>1. \A S : \A u \in Seq(S) : SubSeq(u, 1, 0) = <<>>
    OBVIOUS
  <2>2. s.tables \in Seq(Table(T))
    BY SchemaShape
  <2>3. SchemaPart(s, 0) = [version |-> s.version, tables |-> <<>>]
    BY <2>1, <2>2 DEF SchemaPart
  <2> QED BY <1>12, <1>14, <2>3 DEF AtTables
<1>19. 0 \in 0 .. Len(s.tables)
  BY SchemaShape
<1>20. InTables(T, s, [version |-> s.version, tables |-> <<>>], c)
  BY <1>18, <1>19 DEF InTables
<1> QED BY <1>2, <1>16, <1>17, <1>20 DEF HeadSeen

\* A table is ahead.
TableAhead(T, s, pd, rs) ==
    /\ Lang!Opens(rs) /\ rs # End
    /\ \E c, z : /\ Lang!parse_compaction_directive(Lang!Drop(rs, 3)) = {[value |-> c, size |-> z]}
                 /\ InItems(T, s, pd, [Lang!BlankTable EXCEPT !.name = rs[2].text, !.compaction = c],
                            Lang!Drop(rs, 3 + z))

\* Between two tables, the next one is ahead or the schema has been read.
LEMMA TablesRead ==
  ASSUME NEW T, Keywords \subseteq T, NEW s \in Schema(T), NEW pd, NEW rs, InTables(T, s, pd, rs)
  PROVE  TableAhead(T, s, pd, rs) \/ (~Lang!Opens(rs) /\ rs = End /\ pd = s)
<1>1. PICK n \in Nat : n = Len(s.tables)
  BY SchemaShape
<1>2. PICK i \in 0 .. n : AtTables(T, s, i, pd, rs)
  BY <1>1 DEF InTables
<1>3. pd = SchemaPart(s, i) /\ LeftBehind(Token(T), PrintedTables(s), End, i, rs)
  BY <1>2 DEF AtTables
<1>4. IsDocs(Token(T), PrintedTables(s)) /\ Len(PrintedTables(s)) = n
  BY <1>1, SchemaShape
<1>5. End \in Seq(Token(T))
  <2>1. <<>> \in Seq(Token(T))
    OBVIOUS
  <2> QED BY <2>1, EndIs
<1>6. CASE i = n
  <2>1. rs = End
    BY <1>3, <1>4, <1>5, <1>6, NoneOrAllLeft
  <2>2. Len(End) = 1
    BY DEF End
  <2>3. ~(Len(End) >= 3)
    BY <2>2
  <2>4. ~Lang!Opens(rs)
    BY <2>1, <2>3, Zenon DEF Lang!Opens
  <2>5. s.tables \in Seq(Table(T))
    BY SchemaShape
  <2>6. SubSeq(s.tables, 1, n) = s.tables
    BY <1>1, <2>5, WholeSeq
  <2>7. pd = s
    BY <1>3, <1>6, <2>6, SchemaShape DEF SchemaPart
  <2> QED BY <2>1, <2>4, <2>7
<1>7. CASE i # n
  <2>1. i \in 0 .. (n - 1) /\ i + 1 \in 1 .. n
    BY <1>7
  <2>2. PICK r \in Seq(Token(T)) : /\ rs = PrintedTables(s)[i + 1] \o r
                                   /\ LeftBehind(Token(T), PrintedTables(s), End, i + 1, r)
    BY <1>3, <1>4, <1>5, <2>1, NextLeft
  <2>3. PICK t \in Table(T) : t = s.tables[i + 1]
    BY <1>1, <2>1, SchemaShape
  <2>4. rs = Lang!print_table(t) \o r
    BY <1>1, <2>1, <2>2, <2>3, SchemaShape
  <2>5. TableSeen(T, t, rs, r)
    BY <2>4, TableIsSeen
  <2>6. PICK z : /\ Lang!parse_compaction_directive(Lang!Drop(rs, 3)) = {[value |-> t.compaction, size |-> z]}
                 /\ InTable(T, t, [Lang!BlankTable EXCEPT !.name = t.name, !.compaction = t.compaction],
                            Lang!Drop(rs, 3 + z), r)
    BY <2>5 DEF TableSeen
  <2>7. Lang!Opens(rs) /\ rs # End /\ rs[2].text = t.name
    BY <2>5 DEF TableSeen
  <2>8. InItems(T, s, pd, [Lang!BlankTable EXCEPT !.name = rs[2].text, !.compaction = t.compaction], Lang!Drop(rs, 3 + z))
    BY <1>1, <1>3, <2>1, <2>2, <2>3, <2>6, <2>7 DEF InItems
  <2> QED BY <2>6, <2>7, <2>8 DEF TableAhead
<1> QED BY <1>6, <1>7

\* A constraint of a document is ahead.
ConstraintAhead(T, s, pd, tb, rs) ==
    \E c, z : /\ Lang!parse_constraint(rs) = {[value |-> c, size |-> z]}
              /\ InItems(T, s, pd, [tb EXCEPT !.constraints = Append(@, c)], Lang!Drop(rs, z))

\* A field of a document is ahead.
FieldAhead(T, s, pd, tb, rs) ==
    \E f, z : /\ Lang!parse_constraint(rs) = {}
              /\ Lang!parse_field_def(rs) = {[value |-> f, size |-> z]}
              /\ InItems(T, s, pd, [tb EXCEPT !.fields = Append(@, f)], Lang!Drop(rs, z))

\* The end of a table is ahead.
EndAhead(T, s, pd, tb, rs) ==
    /\ Lang!NoItem(rs) /\ Lang!Ahead(rs, <<Closing>>)
    /\ InTables(T, s, [pd EXCEPT !.tables = Append(@, tb)], Lang!Drop(rs, 1))

\* Within a table, an item or the end of the table is ahead.
LEMMA ItemsRead ==
  ASSUME NEW T, Keywords \subseteq T, NEW s \in Schema(T), NEW pd, NEW tb, NEW rs, InItems(T, s, pd, tb, rs)
  PROVE  ConstraintAhead(T, s, pd, tb, rs) \/ FieldAhead(T, s, pd, tb, rs) \/ EndAhead(T, s, pd, tb, rs)
<1>1. PICK n \in Nat : n = Len(s.tables)
  BY SchemaShape
<1>2. PICK i \in 0 .. (n - 1), r \in Seq(Token(T)) :
        /\ pd = SchemaPart(s, i)
        /\ LeftBehind(Token(T), PrintedTables(s), End, i + 1, r)
        /\ InTable(T, s.tables[i + 1], tb, rs, r)
  BY <1>1 DEF InItems
<1>3. i + 1 \in 1 .. n /\ i + 1 \in 0 .. n
  OBVIOUS
<1>4. PICK t \in Table(T) : t = s.tables[i + 1]
  BY <1>1, <1>3, SchemaShape
<1>5. \A tc, rc : InTable(T, t, tc, rc, r) => InItems(T, s, pd, tc, rc)
  BY <1>1, <1>2, <1>4 DEF InItems
<1>6. CASE NextConstraint(T, t, tb, rs, r)
  BY <1>5, <1>6 DEF NextConstraint, ConstraintAhead
<1>7. CASE NextField(T, t, tb, rs, r)
  BY <1>5, <1>7 DEF NextField, FieldAhead
<1>8. CASE tb = t /\ rs = End \o r
  <2>1. Lang!NoItem(rs) /\ Lang!Ahead(rs, <<Closing>>) /\ Lang!Drop(rs, 1) = r
    BY <1>8, ClosingSeen DEF End
  <2>2. s.tables \in Seq(Table(T))
    BY SchemaShape
  <2>3. Append(SubSeq(s.tables, 1, i), tb) = SubSeq(s.tables, 1, i + 1)
    BY <1>1, <1>4, <1>8, <2>2, OneMore
  <2>4. [pd EXCEPT !.tables = Append(@, tb)] = SchemaPart(s, i + 1)
    <3>1. PICK a, b : a = SubSeq(s.tables, 1, i) /\ b = SubSeq(s.tables, 1, i + 1)
      OBVIOUS
    <3>2. pd = [version |-> s.version, tables |-> a] /\ SchemaPart(s, i + 1) = [version |-> s.version, tables |-> b]
      BY <1>2, <3>1 DEF SchemaPart
    <3>3. pd.tables = a /\ [pd EXCEPT !.tables = b] = SchemaPart(s, i + 1)
      BY <3>2
    <3> QED BY <2>3, <3>1, <3>3
  <2>5. AtTables(T, s, i + 1, [pd EXCEPT !.tables = Append(@, tb)], r)
    BY <1>2, <2>4 DEF AtTables
  <2>6. InTables(T, s, [pd EXCEPT !.tables = Append(@, tb)], Lang!Drop(rs, 1))
    BY <1>1, <1>3, <2>1, <2>5 DEF InTables
  <2> QED BY <2>1, <2>6 DEF EndAhead
<1> QED BY <1>2, <1>4, <1>6, <1>7, <1>8, TableReads

-----------------------------------------------------------------------------
(* The round trip.                                                         *)

\* What the parser holds is what has been read of the definition it is at,
\* and what is left is what was printed behind that.
Reads(T, s) ==
    /\ stage = "head" => rest = Lang!print(s) /\ parsed = Lang!BlankSchema
    /\ stage = "tables" => InTables(T, s, parsed, rest)
    /\ stage = "items" => InItems(T, s, parsed, table, rest)
    /\ stage = "next" => parsed = s /\ parsed \in def_map

ReadInv(T) == at > 0 /\ defs[at] \in Schema(T) => Reads(T, defs[at])

\* A definition that the language can say, over the texts T, has come back as
\* it was and is in the map.
BackAsStated(T) ==
    stage = "next" /\ at > 0 /\ defs[at] \in Schema(T) => parsed = defs[at] /\ parsed \in def_map

\* What the steps of the parser do, without the brackets they look for.
LEMMA ParserSteps ==
  /\ Lang!print_next => /\ at' = at + 1 /\ rest' = Lang!print(defs[at + 1]) /\ parsed' = Lang!BlankSchema
                        /\ stage' = "head" /\ defs' = defs
  /\ Lang!parse_version_directive =>
       /\ stage = "head" /\ parsed' = [parsed EXCEPT !.version = rest[5].text]
       /\ rest' = Lang!Drop(rest, 5) /\ stage' = "tables" /\ defs' = defs /\ at' = at
  /\ Lang!TableEnd =>
       /\ stage = "items" /\ Lang!NoItem(rest) /\ parsed' = [parsed EXCEPT !.tables = Append(@, table)]
       /\ rest' = Lang!Drop(rest, 1) /\ stage' = "tables" /\ defs' = defs /\ at' = at
  /\ Lang!parse_ok =>
       /\ stage = "tables" /\ rest = End /\ parsed \in def_map' /\ stage' = "next"
       /\ defs' = defs /\ at' = at /\ parsed' = parsed
  /\ Lang!parse_error =>
       /\ \/ stage = "tables" /\ ~Lang!Opens(rest) /\ rest # End
          \/ stage = "items" /\ Lang!NoItem(rest) /\ ~Lang!Ahead(rest, <<Closing>>)
       /\ defs' = defs /\ at' = at
<1>1. Lang!print_next => /\ at' = at + 1 /\ rest' = Lang!print(defs[at + 1]) /\ parsed' = Lang!BlankSchema
                         /\ stage' = "head" /\ defs' = defs
  BY Zenon DEF Lang!print_next
<1>2. Lang!parse_version_directive =>
        /\ stage = "head" /\ parsed' = [parsed EXCEPT !.version = rest[5].text]
        /\ rest' = Lang!Drop(rest, 5) /\ stage' = "tables" /\ defs' = defs /\ at' = at
  BY Zenon DEF Lang!parse_version_directive
<1>3. Lang!TableEnd =>
        /\ stage = "items" /\ Lang!NoItem(rest) /\ parsed' = [parsed EXCEPT !.tables = Append(@, table)]
        /\ rest' = Lang!Drop(rest, 1) /\ stage' = "tables" /\ defs' = defs /\ at' = at
  BY Zenon DEF Lang!TableEnd
<1>4. Lang!parse_ok =>
        /\ stage = "tables" /\ rest = End /\ parsed \in def_map' /\ stage' = "next"
        /\ defs' = defs /\ at' = at /\ parsed' = parsed
  BY Zenon DEF Lang!parse_ok, End, Closing
<1>5. Lang!parse_error =>
        /\ \/ stage = "tables" /\ ~Lang!Opens(rest) /\ rest # End
           \/ stage = "items" /\ Lang!NoItem(rest) /\ ~Lang!Ahead(rest, <<Closing>>)
        /\ defs' = defs /\ at' = at
  BY Zenon DEF Lang!parse_error, End, Closing
<1> QED BY <1>1, <1>2, <1>3, <1>4, <1>5

\* Each step reads on.
LEMMA ReadingGoesOn ==
  ASSUME NEW T, Keywords \subseteq T, ReadInv(T), [Lang!Next]_languageVars
  PROVE  ReadInv(T)'
<1> SUFFICES ASSUME at' > 0, defs'[at'] \in Schema(T) PROVE Reads(T, defs[at])'
  BY DEF ReadInv
<1>1. PICK s \in Schema(T) : s = defs'[at']
  OBVIOUS
<1>2. ASSUME defs' = defs, at' = at PROVE Reads(T, s)
  BY <1>1, <1>2 DEF ReadInv
<1>3. SUFFICES /\ stage' = "head" => rest' = Lang!print(s) /\ parsed' = Lang!BlankSchema
               /\ stage' = "tables" => InTables(T, s, parsed', rest')
               /\ stage' = "items" => InItems(T, s, parsed', table', rest')
               /\ stage' = "next" => parsed' = s /\ parsed' \in def_map'
  BY <1>1 DEF Reads
<1>4. CASE Lang!print_next
  BY <1>1, <1>4, ParserSteps
<1>5. CASE Lang!parse_version_directive
  <2>1. /\ stage = "head" /\ parsed' = [parsed EXCEPT !.version = rest[5].text]
        /\ rest' = Lang!Drop(rest, 5) /\ stage' = "tables" /\ defs' = defs /\ at' = at
    BY <1>5, ParserSteps
  <2>2. rest = Lang!print(s) /\ parsed = Lang!BlankSchema
    BY <1>2, <2>1 DEF Reads
  <2>3. HeadSeen(T, s, rest)
    BY <2>2, HeadIsSeen
  <2>4. parsed' = [version |-> s.version, tables |-> <<>>]
    BY <2>1, <2>2, <2>3 DEF HeadSeen, Lang!BlankSchema
  <2>5. InTables(T, s, parsed', rest')
    BY <2>1, <2>3, <2>4 DEF HeadSeen
  <2> QED BY <2>1, <2>5
<1>6. CASE Lang!parse_table_def
  <2>1. PICK d \in Lang!parse_compaction_directive(Lang!Drop(rest, 3)) :
           /\ table' = [Lang!BlankTable EXCEPT !.name = rest[2].text, !.compaction = d.value]
           /\ rest' = Lang!Drop(rest, 3 + d.size)
    BY <1>6, Zenon DEF Lang!parse_table_def
  <2>2. stage = "tables" /\ Lang!Opens(rest) /\ stage' = "items" /\ defs' = defs /\ at' = at /\ parsed' = parsed
    BY <1>6, Zenon DEF Lang!parse_table_def
  <2>3. InTables(T, s, parsed, rest)
    BY <1>2, <2>2 DEF Reads
  <2>4. TableAhead(T, s, parsed, rest)
    BY <2>2, <2>3, TablesRead
  <2>5. PICK c, z : /\ Lang!parse_compaction_directive(Lang!Drop(rest, 3)) = {[value |-> c, size |-> z]}
                    /\ InItems(T, s, parsed, [Lang!BlankTable EXCEPT !.name = rest[2].text, !.compaction = c],
                               Lang!Drop(rest, 3 + z))
    BY <2>4 DEF TableAhead
  <2>6. d.value = c /\ d.size = z
    BY <2>1, <2>5
  <2>7. InItems(T, s, parsed', table', rest')
    BY <2>1, <2>2, <2>5, <2>6
  <2> QED BY <2>2, <2>7
<1>7. CASE Lang!TableItem
  <2>1. /\ stage = "items"
        /\ \/ \E c \in Lang!parse_constraint(rest) :
                 table' = [table EXCEPT !.constraints = Append(@, c.value)] /\ rest' = Lang!Drop(rest, c.size)
           \/ /\ Lang!parse_constraint(rest) = {}
              /\ \E f \in Lang!parse_field_def(rest) :
                   table' = [table EXCEPT !.fields = Append(@, f.value)] /\ rest' = Lang!Drop(rest, f.size)
        /\ defs' = defs /\ at' = at /\ stage' = stage /\ parsed' = parsed
    BY <1>7, Zenon DEF Lang!TableItem
  <2>2. InItems(T, s, parsed, table, rest)
    BY <1>2, <2>1 DEF Reads
  <2>3. CASE ConstraintAhead(T, s, parsed, table, rest)
    <3>1. PICK v, z : /\ Lang!parse_constraint(rest) = {[value |-> v, size |-> z]}
                      /\ InItems(T, s, parsed, [table EXCEPT !.constraints = Append(@, v)], Lang!Drop(rest, z))
      BY <2>3 DEF ConstraintAhead
    <3>2. PICK c \in Lang!parse_constraint(rest) :
             table' = [table EXCEPT !.constraints = Append(@, c.value)] /\ rest' = Lang!Drop(rest, c.size)
      BY <2>1, <3>1
    <3>3. c.value = v /\ c.size = z
      BY <3>1, <3>2
    <3>4. InItems(T, s, parsed', table', rest')
      BY <2>1, <3>1, <3>2, <3>3
    <3> QED BY <2>1, <3>4
  <2>4. CASE FieldAhead(T, s, parsed, table, rest)
    <3>1. PICK v, z : /\ Lang!parse_constraint(rest) = {} /\ Lang!parse_field_def(rest) = {[value |-> v, size |-> z]}
                      /\ InItems(T, s, parsed, [table EXCEPT !.fields = Append(@, v)], Lang!Drop(rest, z))
      BY <2>4 DEF FieldAhead
    <3>2. PICK f \in Lang!parse_field_def(rest) :
             table' = [table EXCEPT !.fields = Append(@, f.value)] /\ rest' = Lang!Drop(rest, f.size)
      BY <2>1, <3>1
    <3>3. f.value = v /\ f.size = z
      BY <3>1, <3>2
    <3>4. InItems(T, s, parsed', table', rest')
      BY <2>1, <3>1, <3>2, <3>3
    <3> QED BY <2>1, <3>4
  <2>5. CASE EndAhead(T, s, parsed, table, rest)
    BY <2>1, <2>5 DEF EndAhead, Lang!NoItem
  <2> QED BY <2>2, <2>3, <2>4, <2>5, ItemsRead
<1>8. CASE Lang!TableEnd
  <2>1. /\ stage = "items" /\ Lang!NoItem(rest) /\ parsed' = [parsed EXCEPT !.tables = Append(@, table)]
        /\ rest' = Lang!Drop(rest, 1) /\ stage' = "tables" /\ defs' = defs /\ at' = at
    BY <1>8, ParserSteps
  <2>2. InItems(T, s, parsed, table, rest)
    BY <1>2, <2>1 DEF Reads
  <2>3. ~ConstraintAhead(T, s, parsed, table, rest) /\ ~FieldAhead(T, s, parsed, table, rest)
    BY <2>1 DEF ConstraintAhead, FieldAhead, Lang!NoItem
  <2>4. InTables(T, s, parsed', rest')
    BY <2>1, <2>2, <2>3, ItemsRead DEF EndAhead
  <2> QED BY <2>1, <2>4
<1>9. CASE Lang!parse_ok
  <2>1. /\ stage = "tables" /\ rest = End /\ parsed \in def_map' /\ stage' = "next"
        /\ defs' = defs /\ at' = at /\ parsed' = parsed
    BY <1>9, ParserSteps
  <2>2. InTables(T, s, parsed, rest)
    BY <1>2, <2>1 DEF Reads
  <2>3. ~TableAhead(T, s, parsed, rest)
    BY <2>1 DEF TableAhead
  <2>4. parsed = s
    BY <2>2, <2>3, TablesRead
  <2> QED BY <2>1, <2>4
<1>10. CASE Lang!parse_error
  <2>1. /\ \/ stage = "tables" /\ ~Lang!Opens(rest) /\ rest # End
           \/ stage = "items" /\ Lang!NoItem(rest) /\ ~Lang!Ahead(rest, <<Closing>>)
        /\ defs' = defs /\ at' = at
    BY <1>10, ParserSteps
  <2>2. CASE stage = "tables" /\ ~Lang!Opens(rest) /\ rest # End
    <3>1. InTables(T, s, parsed, rest)
      BY <1>2, <2>1, <2>2 DEF Reads
    <3> QED BY <2>2, <3>1, TablesRead DEF TableAhead
  <2>3. CASE stage = "items" /\ Lang!NoItem(rest) /\ ~Lang!Ahead(rest, <<Closing>>)
    <3>1. InItems(T, s, parsed, table, rest)
      BY <1>2, <2>1, <2>3 DEF Reads
    <3>2. ~ConstraintAhead(T, s, parsed, table, rest) /\ ~FieldAhead(T, s, parsed, table, rest)
      BY <2>3 DEF ConstraintAhead, FieldAhead, Lang!NoItem
    <3>3. ~EndAhead(T, s, parsed, table, rest)
      BY <2>3 DEF EndAhead
    <3> QED BY <3>1, <3>2, <3>3, ItemsRead
  <2> QED BY <2>1, <2>2, <2>3
<1>11. CASE UNCHANGED languageVars
  <2>1. /\ defs' = defs /\ at' = at /\ stage' = stage /\ rest' = rest /\ table' = table /\ parsed' = parsed
        /\ def_map' = def_map
    BY <1>11 DEF languageVars
  <2> QED BY <1>2, <2>1 DEF Reads
<1> QED BY <1>4, <1>5, <1>6, <1>7, <1>8, <1>9, <1>10, <1>11 DEF Lang!Next

\* Req 20.3, parse(print(schema)) == schema (schema/printer.rs) as
\* build_schema_def_map relies on it: a configured definition of any size over
\* any texts, whose names are identifiers and whose defaults can be written
\* down, comes back exactly as it was configured and is kept; its document
\* fails in no rule, whichever definitions came before it.
THEOREM SchemasComeBack ==
  ASSUME NEW T, Keywords \subseteq T
  PROVE  LanguageSpec => []BackAsStated(T)
<1>1. Lang!Init => ReadInv(T)
  BY DEF Lang!Init, ReadInv
<1>2. ReadInv(T) /\ [Lang!Next]_languageVars => ReadInv(T)'
  BY ReadingGoesOn
<1>3. ReadInv(T) => BackAsStated(T)
  BY DEF ReadInv, Reads, BackAsStated
<1> QED BY <1>1, <1>2, <1>3, PTL DEF LanguageSpec
=============================================================================
