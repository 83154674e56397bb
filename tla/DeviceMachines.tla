--------------------------- MODULE DeviceMachines ---------------------------
(***************************************************************************)
(* What a device condemns and what it keeps, in eight machines of which    *)
(* each behaviour runs one (`machine`): managers that may revoke each      *)
(* other while deltas are written and merged, contamination incidents, the *)
(* SQLite store under its callers, the IndexedDB store of the browser,     *)
(* init and its background tasks, the SDK above the core, the order of the *)
(* cloud queue, and the schema language.                                   *)
(***************************************************************************)
EXTENDS Revocation, Sequences

CONSTANTS
    ProjectionRows, row_key, Markers, MaxDeltas, MaxIncidents, CceMaxRestarts, \* Contamination
    Keys,                                                    \* of both stores
    SqliteThreshold, MaxCalls, MaxCrashes,                   \* LocalStore
    Blobs, IdbThreshold, MaxWrites, MaxReloads,              \* BrowserStore
    MaxStarts,                                               \* Startup
    Calls, OtherDids, MaxInits, MaxEvents,                   \* Sdk
    MaxEntries,                                              \* CloudQueue
    Deployments,                                             \* SchemaLanguage
    None

VARIABLES machine,
          target, cceNodes, cceRows, flags, contaminated, decontaminated, resolved, incidents,
          contaminated_rows, writeCall, closed, cceRestarts,
          rows, nodes, edges, compacted, tx, lock, call, calls, crashes, up, refused, acked,
          version, kv, quarantine, sidecar, snapshots, session, view, idbCall, idbAcked, written, reloads,
          build, config, step, identityFile, torn, keys, handles, mem, tasks, starts,
          core, level, sdkRevoked, eventQueue, initialized, mirror, unverifiedSince, sdkCalls, produced, heard, lost, threw,
          pushes, backlog, causes,
          defs, at, stage, rest, table, parsed, def_map

cceVars == <<target, cceNodes, cceRows, flags, contaminated, decontaminated, resolved, incidents,
             contaminated_rows, writeCall, closed, cceRestarts>>
sqliteVars == <<rows, nodes, edges, compacted, tx, lock, call, calls, crashes, up, refused, acked>>
idbVars == <<version, kv, quarantine, sidecar, snapshots, session, view, idbCall, idbAcked, written, reloads>>
initVars == <<build, config, step, identityFile, torn, keys, handles, mem, tasks, starts>>
sdkVars == <<core, level, sdkRevoked, eventQueue, initialized, mirror, unverifiedSince, sdkCalls, produced, heard, lost, threw>>
orderVars == <<pushes, backlog, causes>>
languageVars == <<defs, at, stage, rest, table, parsed, def_map>>
allVars == <<machine, vars, cceVars, sqliteVars, idbVars, initVars, sdkVars, orderVars, languageVars>>

Cce == INSTANCE Contamination WITH
    Rows <- ProjectionRows, MaxRestarts <- CceMaxRestarts, build <- target, nodes <- cceNodes, rows <- cceRows,
    writing <- writeCall, restarts <- cceRestarts

Sqlite == INSTANCE LocalStore WITH Threshold <- SqliteThreshold

Idb == INSTANCE BrowserStore WITH
    Deltas <- Blobs, Threshold <- IdbThreshold, call <- idbCall, acked <- idbAcked

Start == INSTANCE Startup

App == INSTANCE Sdk WITH revoked <- sdkRevoked, calls <- sdkCalls

Order == INSTANCE CloudQueue WITH queue <- backlog, parents <- causes

Lang == INSTANCE SchemaLanguage

OneDeployment == CHOOSE d \in Deployments : TRUE

\* The machines that do not run have one initial state.
DeviceInit ==
    /\ machine \in {"revocation", "contamination", "sqlite", "indexeddb", "init", "sdk", "order", "language"}
    /\ Init
    /\ Cce!Init /\ (machine = "contamination" \/ target = "native")
    /\ Sqlite!Init
    /\ Idb!Init /\ (machine = "indexeddb" \/ version = 0)
    /\ Start!Init
    /\ machine = "init" \/ <<build, config>> = <<"native", [path |-> <<>>, definitions |-> <<>>, anchor |-> FALSE]>>
    /\ App!Init
    /\ Order!Init
    /\ Lang!Init /\ (machine = "language" \/ defs = OneDeployment)

RevocationStep ==
    machine = "revocation" /\ Next /\ UNCHANGED <<machine, cceVars, sqliteVars, idbVars, initVars, sdkVars, orderVars, languageVars>>
ContaminationStep ==
    machine = "contamination" /\ Cce!Next /\ UNCHANGED <<machine, vars, sqliteVars, idbVars, initVars, sdkVars, orderVars, languageVars>>
SqliteStep ==
    machine = "sqlite" /\ Sqlite!Next /\ UNCHANGED <<machine, vars, cceVars, idbVars, initVars, sdkVars, orderVars, languageVars>>
IndexedDbStep ==
    machine = "indexeddb" /\ Idb!Next /\ UNCHANGED <<machine, vars, cceVars, sqliteVars, initVars, sdkVars, orderVars, languageVars>>
InitStep ==
    machine = "init" /\ Start!Next /\ UNCHANGED <<machine, vars, cceVars, sqliteVars, idbVars, sdkVars, orderVars, languageVars>>
SdkStep ==
    machine = "sdk" /\ App!Next /\ UNCHANGED <<machine, vars, cceVars, sqliteVars, idbVars, initVars, orderVars, languageVars>>
OrderStep ==
    machine = "order" /\ Order!Next /\ UNCHANGED <<machine, vars, cceVars, sqliteVars, idbVars, initVars, sdkVars, languageVars>>
LanguageStep ==
    machine = "language" /\ Lang!Next /\ UNCHANGED <<machine, vars, cceVars, sqliteVars, idbVars, initVars, sdkVars, orderVars>>

DeviceNext == RevocationStep \/ ContaminationStep \/ SqliteStep \/ IndexedDbStep \/ InitStep \/ SdkStep
          \/ OrderStep \/ LanguageStep

DeviceSpec == DeviceInit /\ [][DeviceNext]_allVars

-----------------------------------------------------------------------------
\* The type invariants of the machines.
TypesOK ==
    CASE machine = "contamination" -> Cce!TypeOK
      [] machine = "sqlite"        -> Sqlite!TypeOK
      [] machine = "indexeddb"     -> Idb!TypeOK
      [] machine = "init"          -> Start!TypeOK
      [] machine = "sdk"           -> App!TypeOK
      [] machine = "language"      -> Lang!TypeOK
      [] OTHER                     -> TRUE

\* Req 10.5, 10.6: a root that is neither resolved nor closed is always a root
\* of some open incident, and resolving one root of a composite leaves every row
\* contaminated through the other (contamination/resolution.rs).
IncidentsCoverRoots == Cce!IncidentsCoverRoots

\* Req 10.3, 11.1: when a root is verified, everything below it in the DAG of
\* that moment is decontaminated, whenever it arrived, and no delta is before
\* all roots of its incident are resolved (contamination/taint.rs).
ClearingIsExact == Cce!ClearingIsExact

\* A delta never becomes visible without its causal parents, a write the store
\* refused leaves no row, and what returned Ok has left its node and, unless it
\* is an inbound delta the store refused, a row, whatever statement fails and
\* whenever the process is killed (store/mod.rs, crdt/dag.rs, receive_inbound).
CallsAreAtomic == machine = "sqlite" => Sqlite!CallsAreAtomic

\* Req 3.2: a write the browser acknowledged is in the database, and a session
\* shows no row that a reload would take back (store/indexed_db.rs).
ShownIsDurable == machine = "indexeddb" => Idb!ShownIsDurable

\* Req 7.1: every handle a native device ever gets speaks for one DID, its CRDT
\* and migration engines start on one schema, and no task runs without an
\* owner or into a channel nobody drains (api/mod.rs init, identity/did.rs).
InitIsConsistent == machine = "init" => Start!InitIsConsistent

\* Every side effect of the core is dispatched to the application once and in
\* the order it happened (core_poll_events, _pollWasmEvents).
EventsOnceInOrder == machine = "sdk" => App!EventsOnceInOrder

\* Req 16.3: the queue is sorted into a causal permutation, generation by
\* generation, entries on or behind a cycle last (topological_sort_queue).
SortIsExact == machine = "order" => Order!SortIsExact

\* Req 20.3: a configured definition comes back from print and parse exactly
\* as stated, or it is one that the language cannot express and it is absent
\* from the map (printer.rs, parser.rs, build_schema_def_map).
RoundTrips == machine = "language" => Lang!RoundTrips
=============================================================================
