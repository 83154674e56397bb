---------------------------- MODULE BrowserStore ----------------------------
(***************************************************************************)
(* The browser build's local store (store/mod.rs, store/indexed_db.rs,     *)
(* store/compaction.rs) and the two ledgers it keeps in the same IndexedDB *)
(* database (migration/quarantine.rs, migration/sidecar.rs).               *)
(*                                                                         *)
(* A page session opens the database and loads every row into a view; a    *)
(* write awaits a readwrite transaction and then updates the view.  The    *)
(* store's mutex guard lives across those awaits: a call that locks it     *)
(* meanwhile panics, and the panic takes the module down.  A reload drops  *)
(* everything but the database, at any await.                              *)
(*                                                                         *)
(* Row values are numbered in the order the application writes them.       *)
(***************************************************************************)
EXTENDS Naturals, FiniteSets

CONSTANTS Keys,       \* composite keys (table, key)
          Deltas,     \* deltas the schema gate or a migration sets aside
          Threshold,  \* CompactionPolicy::Aggressive, in changes
          MaxWrites, MaxReloads

VARIABLES version,    \* 0: no database yet, 1: kv only, 2: DB_VERSION
          kv,         \* the `kv` object store: value number, 0 if absent
          quarantine, \* the `quarantine_ledger` object store
          sidecar,    \* the `sidecar_ledger` object store
          snapshots,  \* the `compaction_snapshots` object store, by value number
          session, view, call, acked, written, reloads

vars == <<version, kv, quarantine, sidecar, snapshots, session, view, call, acked, written, reloads>>

NoCall == [key |-> "none", value |-> 0, at |-> "none"]

EmptyView == [k \in Keys |-> 0]

\* The database is absent, or has the first version, with only the `kv` store.
Init ==
    /\ \/ version = 0 /\ kv = EmptyView
       \/ version = 1 /\ kv \in [Keys -> 0..1]
    /\ quarantine = {} /\ sidecar = {} /\ snapshots = {}
    /\ session = "closed" /\ view = EmptyView /\ call = NoCall
    /\ acked = kv /\ written = 1 /\ reloads = 0

\* A cursor over an object store: idb's open_cursor gives no cursor for an
\* empty one, and every scan turns that into an error.
CursorIsNull(entries) == entries = {}

Rows == {k \in Keys : kv[k] # 0}

\* LocalStore::open: IdbStore::open upgrades the database, load_all scans it.
open ==
    /\ session = "closed"
    /\ version' = 2
    /\ IF CursorIsNull(Rows)
       THEN UNCHANGED <<session, view>>   \* open fails, now and at every retry
       ELSE session' = "open" /\ view' = kv
    /\ UNCHANGED <<kv, quarantine, sidecar, snapshots, call, acked, written, reloads>>

\* Mutant: a write that acknowledges when the request, not the transaction, is done.
write_begin_early(k) ==
    /\ session = "open" /\ call = NoCall /\ written < MaxWrites
    /\ written' = written + 1
    /\ call' = [key |-> k, value |-> written + 1, at |-> "put"]
    /\ acked' = [acked EXCEPT ![k] = written + 1]
    /\ UNCHANGED <<version, kv, quarantine, sidecar, snapshots, session, view, reloads>>

\* LocalStore::write takes the store's lock and begins the transaction.
write_begin(k) ==
    /\ session = "open" /\ call = NoCall /\ written < MaxWrites
    /\ written' = written + 1
    /\ call' = [key |-> k, value |-> written + 1, at |-> "put"]
    /\ UNCHANGED <<version, kv, quarantine, sidecar, snapshots, session, view, acked, reloads>>

\* Another call locks the store while the guard is held across an await.
lock_while_held ==
    /\ session = "open" /\ call # NoCall
    /\ session' = "trapped" /\ call' = NoCall
    /\ UNCHANGED <<version, kv, quarantine, sidecar, snapshots, view, acked, written, reloads>>

\* put(..).await, tx.commit().await: committed.
write_commit ==
    /\ call.at = "put"
    /\ kv' = [kv EXCEPT ![call.key] = call.value]
    /\ call' = [call EXCEPT !.at = "view"]
    /\ UNCHANGED <<version, quarantine, sidecar, snapshots, session, view, acked, written, reloads>>

\* put or commit fails (quota, aborted transaction): the error returns.
write_failed ==
    /\ call.at = "put" /\ call' = NoCall
    /\ UNCHANGED <<version, kv, quarantine, sidecar, snapshots, session, view, acked, written, reloads>>

\* The view is updated and the write acknowledged.
write_return ==
    /\ call.at = "view"
    /\ view' = [view EXCEPT ![call.key] = call.value]
    /\ acked' = [acked EXCEPT ![call.key] = call.value]
    /\ call' = NoCall
    /\ UNCHANGED <<version, kv, quarantine, sidecar, snapshots, session, written, reloads>>

should_compact(changes) == changes > Threshold

\* One put under table and time; nothing reads it back.
put_compaction_snapshot == snapshots' = snapshots \cup {written}

\* maybe_compact, compact_table_idb; a failed put is logged and changes nothing.
compact_table_idb ==
    /\ session = "open" /\ call = NoCall /\ should_compact(written)
    /\ put_compaction_snapshot
    /\ UNCHANGED <<version, kv, quarantine, sidecar, session, view, call, acked, written, reloads>>

\* A put under the delta's hash: a delta that comes again replaces its entry.
put_quarantine_entry(d) ==
    quarantine' = {e \in quarantine : e.delta # d} \cup {[delta |-> d, released |-> FALSE]}

\* QuarantineLedger::quarantine (browser)
QuarantineDelta(d) ==
    /\ session = "open" /\ put_quarantine_entry(d)
    /\ UNCHANGED <<version, kv, sidecar, snapshots, session, view, call, acked, written, reloads>>

\* scan_quarantine_entries: every entry; on an empty store it fails.
scan_quarantine_entries == {entries \in {quarantine} : ~CursorIsNull(entries)}

\* update_quarantine_migration_id: a get and a put in one transaction.
update_quarantine_migration_id(entries) ==
    quarantine' = (quarantine \ entries) \cup {[delta |-> e.delta, released |-> TRUE] : e \in entries}

\* release_for_migration: the scan, then one update per matching entry, of
\* which a reload or a failure may leave some undone.
release_for_migration ==
    /\ session = "open"
    /\ \E entries \in scan_quarantine_entries : \E S \in SUBSET entries : update_quarantine_migration_id(S)
    /\ UNCHANGED <<version, kv, sidecar, snapshots, session, view, call, acked, written, reloads>>

\* SideCarLedger::record: the duplicate check scans the ledger first.
Recorded(d) == IF CursorIsNull(sidecar) THEN sidecar ELSE sidecar \cup {d}

record(d) ==
    /\ session = "open"
    /\ sidecar' = Recorded(d)
    /\ UNCHANGED <<version, kv, quarantine, snapshots, session, view, call, acked, written, reloads>>

\* The page is reloaded: an unfinished transaction is aborted or committed.
reload ==
    /\ reloads < MaxReloads /\ session # "closed"
    /\ reloads' = reloads + 1
    /\ session' = "closed" /\ view' = EmptyView /\ call' = NoCall
    /\ \/ UNCHANGED kv
       \/ call.at = "put" /\ kv' = [kv EXCEPT ![call.key] = call.value]
    /\ UNCHANGED <<version, quarantine, sidecar, snapshots, acked, written>>

\* delete_database: factory reset of a closed database.
delete_database ==
    /\ session = "closed" /\ version = 2 /\ reloads > 0
    /\ version' = 0 /\ kv' = EmptyView /\ acked' = EmptyView
    /\ quarantine' = {} /\ sidecar' = {} /\ snapshots' = {}
    /\ UNCHANGED <<session, view, call, written, reloads>>

Next ==
    \/ open \/ write_commit \/ write_failed \/ write_return \/ lock_while_held
    \/ \E k \in Keys : write_begin(k)
    \/ \E d \in Deltas : QuarantineDelta(d) \/ record(d)
    \/ compact_table_idb \/ release_for_migration \/ reload \/ delete_database

-----------------------------------------------------------------------------
TypeOK ==
    /\ version \in 0..2 /\ session \in {"closed", "open", "trapped"}
    /\ kv \in [Keys -> 0..MaxWrites] /\ view \in [Keys -> 0..MaxWrites] /\ acked \in [Keys -> 0..MaxWrites]
    /\ quarantine \subseteq [delta : Deltas, released : BOOLEAN] /\ sidecar \subseteq Deltas
    /\ \A e, f \in quarantine : e.delta = f.delta => e = f

\* Req 3.2: an acknowledged write is in the database, whatever reload,
\* failed transaction or trap follows; a later write may only supersede it.
AckedWritesPersist == \A k \in Keys : kv[k] >= acked[k]

\* A session never shows a row that a reload would take back.
ViewIsDurable == session = "open" => \A k \in Keys : view[k] <= kv[k]

\* Req 3.2: what the browser acknowledged or shows survives a reload.
ShownIsDurable == AckedWritesPersist /\ ViewIsDurable
=============================================================================
