----------------------------- MODULE LocalStore -----------------------------
(***************************************************************************)
(* The native local store: SQLite in WAL mode behind separate connections  *)
(* (store/mod.rs, store/sqlite.rs, store/compaction.rs, crdt/dag.rs).      *)
(*                                                                         *)
(* The store's connection writes projection rows, the engine's connection  *)
(* inserts DAG nodes and compacts.  Each has a mutex of its own, held for  *)
(* one operation; SQLite lets one connection write at a time.  Every       *)
(* statement may fail (the other connection keeps the database busy, the   *)
(* disk is full) and the process may be killed between any two.  The calls *)
(* are a write and an inbound delta, statement by statement.  A write      *)
(* returns the error of the statement that failed; receive_inbound returns *)
(* the DAG's errors but only logs the store's, and then issues its         *)
(* durability receipt.  Nothing calls write_with_automerge, so that        *)
(* automerge_docs stays empty.                                             *)
(***************************************************************************)
EXTENDS Naturals, Sequences, FiniteSets

CONSTANTS Keys,        \* rows of one projection table
          Threshold,   \* CompactionPolicy::Aggressive
          MaxCalls,    \* bound: calls, numbered in their order
          MaxCrashes   \* bound: killed processes

VARIABLES rows,      \* proj_{table}: the call that wrote each row, 0 for none
          nodes,     \* dag_nodes with their parent list
          edges,     \* dag_edges
          compacted, \* ids of the nodes with compacted = 1
          tx,        \* uncommitted statements of each connection
          lock,      \* the connection that holds the WAL write lock
          call,      \* the call each thread is in
          calls, crashes, up,
          refused,   \* calls whose LocalStore::write returned an error
          acked      \* calls that returned Ok

vars == <<rows, nodes, edges, compacted, tx, lock, call, calls, crashes, up, refused, acked>>

file == <<rows, nodes, edges, compacted>>

\* The statements of each call, in order.
Program == [
    write   |-> <<"create", "upsert", "commit", "compact", "node", "edges", "dag_commit">>,
    inbound |-> <<"node", "edges", "dag_commit", "create", "upsert", "commit">>]

Threads == DOMAIN Program

NoCall == [id |-> 0, key |-> "none", pc |-> 0]

At(t) == IF call[t].pc = 0 THEN "idle" ELSE Program[t][call[t].pc]

Conn(stmt) == IF stmt \in {"compact", "node", "edges", "dag_commit"} THEN "dag" ELSE "store"

\* A call that is inside an operation holds that connection's mutex.
Holds(t, c) == At(t) \in {"upsert", "commit", "edges", "dag_commit"} /\ Conn(At(t)) = c

Free(t, c) == \A s \in Threads \ {t} : ~Holds(s, c)

NoTx == [open |-> FALSE, row |-> <<>>, node |-> {}, edges |-> {}]

\* A transaction after BEGIN and its first statement.
Begun(row, node) == [open |-> TRUE, row |-> row, node |-> node, edges |-> {}]

CanWrite(c) == lock \in {"none", c}

Init ==
    /\ rows = [k \in Keys |-> 0] /\ nodes = {} /\ edges = {} /\ compacted = {}
    /\ tx = [c \in {"store", "dag"} |-> NoTx] /\ lock = "none"
    /\ call = [t \in Threads |-> NoCall]
    /\ calls = 0 /\ crashes = 0 /\ up = FALSE /\ refused = {} /\ acked = {}

\* sqlite::open with its checkpoint and integrity check: whatever was not
\* committed is gone.
open ==
    /\ ~up /\ up' = TRUE
    /\ UNCHANGED <<rows, nodes, edges, compacted, tx, lock, call, calls, crashes, refused, acked>>

Begin(t) ==
    /\ up /\ call[t] = NoCall /\ calls < MaxCalls
    /\ calls' = calls + 1
    /\ \E k \in Keys : call' = [call EXCEPT ![t] = [id |-> calls', key |-> k, pc |-> 1]]
    /\ UNCHANGED <<rows, nodes, edges, compacted, tx, lock, crashes, up, refused, acked>>

\* What the caller, or the author of an inbound delta, is told.
Ack(t) == [id |-> call[t].id, key |-> call[t].key, by |-> t]

\* The statement succeeded: the next one, or the call returns Ok.
Advance(t) ==
    IF call[t].pc = Len(Program[t])
    THEN call' = [call EXCEPT ![t] = NoCall] /\ acked' = acked \cup {Ack(t)}
    ELSE call' = [call EXCEPT ![t].pc = @ + 1] /\ UNCHANGED acked

Ready(t, stmt) == up /\ At(t) = stmt /\ Free(t, Conn(stmt)) /\ CanWrite(Conn(stmt))

\* CREATE TABLE IF NOT EXISTS, in a transaction of its own.
create(t) ==
    /\ Ready(t, "create") /\ Advance(t)
    /\ UNCHANGED <<rows, nodes, edges, compacted, tx, lock, calls, crashes, up, refused>>

\* BEGIN DEFERRED and the upsert, which takes the write lock.
upsert(t) ==
    /\ Ready(t, "upsert") /\ ~tx["store"].open
    /\ tx' = [tx EXCEPT !["store"] = Begun(<<call[t].key, call[t].id>>, {})]
    /\ lock' = "store"
    /\ Advance(t)
    /\ UNCHANGED <<rows, nodes, edges, compacted, calls, crashes, up, refused>>

commit(t) ==
    /\ Ready(t, "commit")
    /\ LET w == tx["store"].row IN rows' = [rows EXCEPT ![w[1]] = w[2]]
    /\ tx' = [tx EXCEPT !["store"] = NoTx] /\ lock' = "none"
    /\ Advance(t)
    /\ UNCHANGED <<nodes, edges, compacted, calls, crashes, up, refused>>

-----------------------------------------------------------------------------
\* Deltas a new node names as parents: the latest one stored.
Tips == {n.id : n \in {m \in nodes : \A o \in nodes : o.id <= m.id}}

\* Mutant: no transaction around the node and its edges.
insert_node_autocommit(t) ==
    /\ Ready(t, "node") /\ ~tx["dag"].open
    /\ nodes' = nodes \cup {[id |-> call[t].id, parents |-> Tips]}
    /\ tx' = [tx EXCEPT !["dag"] = Begun(<<>>, {[id |-> call[t].id, parents |-> Tips]})]
    /\ lock' = "dag"
    /\ Advance(t)
    /\ UNCHANGED <<rows, edges, compacted, calls, crashes, up, refused>>

\* ChangesetDag::insert: BEGIN, then the node.  BEGIN fails on a connection
\* that is still inside a transaction.
insert_node(t) ==
    /\ Ready(t, "node") /\ ~tx["dag"].open
    /\ tx' = [tx EXCEPT !["dag"] = Begun(<<>>, {[id |-> call[t].id, parents |-> Tips]})]
    /\ lock' = "dag"
    /\ Advance(t)
    /\ UNCHANGED <<rows, nodes, edges, compacted, calls, crashes, up, refused>>

insert_edges(t) ==
    /\ Ready(t, "edges")
    /\ tx' = [tx EXCEPT !["dag"].edges = UNION {{<<p, n.id>> : p \in n.parents} : n \in tx["dag"].node}]
    /\ Advance(t)
    /\ UNCHANGED <<rows, nodes, edges, compacted, lock, calls, crashes, up, refused>>

insert_commit(t) ==
    /\ Ready(t, "dag_commit")
    /\ nodes' = nodes \cup tx["dag"].node /\ edges' = edges \cup tx["dag"].edges
    /\ tx' = [tx EXCEPT !["dag"] = NoTx] /\ lock' = "none"
    /\ Advance(t)
    /\ UNCHANGED <<rows, compacted, calls, crashes, up, refused>>

\* maybe_compact, compact_table: UPDATE automerge_docs, which finds no row,
\* then every node is marked; a failure of either is logged and the write
\* goes on.  On a connection inside a transaction nothing is committed.
compact_table(t) ==
    /\ up /\ At(t) = "compact" /\ Free(t, "dag") /\ Advance(t)
    /\ \/ calls > Threshold /\ CanWrite("dag") /\ ~tx["dag"].open
          /\ compacted' \in {compacted, {n.id : n \in nodes}}
       \/ UNCHANGED compacted
    /\ UNCHANGED <<rows, nodes, edges, tx, lock, calls, crashes, up, refused>>

-----------------------------------------------------------------------------
\* What a failed statement leaves of its connection's transaction.  The
\* store's guard rolls back, and so does the DAG after a failed INSERT; after
\* a failed COMMIT the DAG does not, and SQLite may or may not have done it.
Leftovers(stmt) ==
    IF stmt = "dag_commit" THEN {NoTx, tx["dag"]}
    ELSE IF stmt = "node" THEN {tx["dag"]}
    ELSE {NoTx}

\* LocalStore::write returned an error.
StoreRefuses(t) == At(t) \in {"create", "upsert", "commit"}

\* receive_inbound drops that error: the delta is in the DAG, the receipt is
\* issued and the call returns Ok without a row.
returns_ok(t) == t = "inbound" /\ StoreRefuses(t)

\* The statement fails, which ends the call.
Fail(t) ==
    /\ up /\ At(t) \notin {"idle", "compact"} /\ Free(t, Conn(At(t)))
    /\ \E left \in Leftovers(At(t)) :
        /\ tx' = [tx EXCEPT ![Conn(At(t))] = left]
        /\ lock' = IF left.open THEN lock ELSE IF lock = Conn(At(t)) THEN "none" ELSE lock
    /\ refused' = IF StoreRefuses(t) THEN refused \cup {call[t].id} ELSE refused
    /\ acked' = IF returns_ok(t) THEN acked \cup {Ack(t)} ELSE acked
    /\ call' = [call EXCEPT ![t] = NoCall]
    /\ UNCHANGED <<rows, nodes, edges, compacted, calls, crashes, up>>

\* The process is killed: open transactions are never committed.
Crash ==
    /\ up /\ crashes < MaxCrashes
    /\ crashes' = crashes + 1 /\ up' = FALSE
    /\ tx' = [c \in {"store", "dag"} |-> NoTx] /\ lock' = "none"
    /\ call' = [t \in Threads |-> NoCall]
    /\ UNCHANGED <<rows, nodes, edges, compacted, calls, refused, acked>>

Next ==
    \/ open \/ Crash
    \/ \E t \in Threads :
        \/ Begin(t) \/ create(t) \/ upsert(t) \/ commit(t)
        \/ insert_node(t) \/ insert_edges(t) \/ insert_commit(t) \/ compact_table(t) \/ Fail(t)

-----------------------------------------------------------------------------
TypeOK ==
    /\ rows \in [Keys -> 0..MaxCalls]
    /\ {n.id : n \in nodes} \subseteq 1..MaxCalls /\ compacted \subseteq {n.id : n \in nodes}
    /\ lock \in {"none", "store", "dag"}
    /\ \A c \in DOMAIN tx : tx[c].open => lock = c

\* A delta never becomes visible without its causal parents, however failed
\* statements and kills cut an insert short.
NodeHasItsEdges == \A n \in nodes : \A p \in n.parents : <<p, n.id>> \in edges

\* LocalStore::write "leaves the store in pre-write state" when it fails.
RefusedLeavesNoRow == \A k \in Keys : rows[k] \notin refused

\* A call that returned Ok, and so a delta whose receipt was issued, has its
\* node in the DAG, and a row under its key, its own or another call's: only
\* an inbound delta that the store refused may lack the row.  No later failure
\* or kill takes them back.
AckedIsStored ==
    \A a \in acked :
        /\ \E n \in nodes : n.id = a.id
        /\ rows[a.key] # 0 \/ (a.by = "inbound" /\ a.id \in refused)

\* What a call leaves behind when any statement fails and whenever the process
\* is killed.
CallsAreAtomic == NodeHasItsEdges /\ RefusedLeavesNoRow /\ AckedIsStored
=============================================================================
