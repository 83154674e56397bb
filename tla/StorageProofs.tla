---------------------------- MODULE StorageProofs ---------------------------
(***************************************************************************)
(* Proofs about the two local stores, BrowserStore and LocalStore: what    *)
(* was acknowledged survives every interleaving of statements, failures,   *)
(* reloads and kills, for every set of keys and deltas and all bounds.     *)
(***************************************************************************)
EXTENDS DeviceProofs

IdbSpec == Idb!Init /\ [][Idb!Next]_(Idb!vars)

\* The write under way holds the newest number, the database holds it once the
\* transaction is committed, and no number is above the last one given out.
IdbCall ==
    \/ idbCall = Idb!NoCall
    \/ /\ idbCall \in [key : Keys, value : Nat, at : {"put", "view"}]
       /\ idbCall.value = written /\ session = "open"
       /\ idbCall.at = "view" => kv[idbCall.key] = idbCall.value

IdbInv ==
    /\ kv \in [Keys -> Nat] /\ view \in [Keys -> Nat] /\ idbAcked \in [Keys -> Nat] /\ written \in Nat
    /\ \A k \in Keys : kv[k] <= written
    /\ IdbCall
    /\ Idb!ShownIsDurable

USE DEF Idb!ShownIsDurable, Idb!AckedWritesPersist, Idb!ViewIsDurable

\* A new browser profile: everything empty, no write under way.
LEMMA IdbInitInv == Idb!Init => IdbInv
  BY DEF Idb!Init, IdbInv, IdbCall, Idb!EmptyView

\* Every handler of the IndexedDB store, its failures, reloads and the deletion
\* of the database keep the invariant.
LEMMA IdbStepInv == IdbInv /\ [Idb!Next]_(Idb!vars) => IdbInv'
<1> SUFFICES ASSUME IdbInv, [Idb!Next]_(Idb!vars) PROVE IdbInv'
  OBVIOUS
<1>1. CASE Idb!open
  BY <1>1 DEF IdbInv, IdbCall, Idb!open, Idb!NoCall
<1>2. CASE Idb!write_commit
  BY <1>2 DEF IdbInv, IdbCall, Idb!write_commit, Idb!NoCall
<1>3. CASE Idb!write_failed
  BY <1>3 DEF IdbInv, IdbCall, Idb!write_failed, Idb!NoCall
<1>4. CASE Idb!write_return
  BY <1>4 DEF IdbInv, IdbCall, Idb!write_return, Idb!NoCall
<1>5. CASE Idb!lock_while_held
  BY <1>5 DEF IdbInv, IdbCall, Idb!lock_while_held, Idb!NoCall
<1>6. ASSUME NEW k \in Keys, Idb!write_begin(k) PROVE IdbInv'
  BY <1>6 DEF IdbInv, IdbCall, Idb!write_begin, Idb!NoCall
<1>7. ASSUME NEW d \in Blobs, Idb!QuarantineDelta(d) PROVE IdbInv'
  BY <1>7 DEF IdbInv, IdbCall, Idb!QuarantineDelta, Idb!NoCall
<1>8. ASSUME NEW d \in Blobs, Idb!record(d) PROVE IdbInv'
  BY <1>8 DEF IdbInv, IdbCall, Idb!record, Idb!NoCall
<1>9. CASE Idb!compact_table_idb
  BY <1>9 DEF IdbInv, IdbCall, Idb!compact_table_idb, Idb!NoCall
<1>10. CASE Idb!release_for_migration
  BY <1>10 DEF IdbInv, IdbCall, Idb!release_for_migration, Idb!NoCall
<1>11. CASE Idb!reload
  BY <1>11 DEF IdbInv, IdbCall, Idb!reload, Idb!NoCall, Idb!EmptyView
<1>12. CASE Idb!delete_database
  BY <1>12 DEF IdbInv, IdbCall, Idb!delete_database, Idb!NoCall, Idb!EmptyView
<1>13. CASE UNCHANGED Idb!vars
  BY <1>13 DEF IdbInv, IdbCall, Idb!vars, Idb!NoCall
<1> QED BY <1>1, <1>2, <1>3, <1>4, <1>5, <1>6, <1>7, <1>8, <1>9, <1>10, <1>11, <1>12, <1>13 DEF Idb!Next

\* The device runs the browser's store or leaves it alone.
LEMMA IdbRuns == DeviceSpec => IdbSpec
<1>1. DeviceInit => Idb!Init
  BY DEF DeviceInit
<1>2. [DeviceNext]_allVars => [Idb!Next]_(Idb!vars)
  BY DEF DeviceNext, allVars, idbVars, Idb!vars, RevocationStep, ContaminationStep, SqliteStep, IndexedDbStep,
         InitStep, SdkStep, OrderStep, LanguageStep
<1> QED BY <1>1, <1>2, PTL DEF DeviceSpec, IdbSpec

\* What write has acknowledged and what the in-memory view shows is in
\* IndexedDB, whatever is interleaved with the two halves of a write: failed
\* transactions, quarantine, compaction, reloads.
THEOREM ShownStaysDurable == DeviceSpec => []ShownIsDurable
<1>1. IdbInv => ShownIsDurable
  BY DEF IdbInv, ShownIsDurable
<1> QED BY IdbRuns, IdbInitInv, IdbStepInv, <1>1, PTL DEF IdbSpec

\* Type correctness of the browser's store: numbers stay within the bound on
\* writes and the quarantine ledger keeps one entry per delta.
THEOREM IdbTypes ==
  ASSUME MaxWrites \in Nat \ {0}
  PROVE  IdbSpec => []Idb!TypeOK
<1> DEFINE Inv == IdbInv /\ written <= MaxWrites /\ Idb!TypeOK
<1>1. Idb!Init => Inv
  <2> SUFFICES ASSUME Idb!Init PROVE Inv
    OBVIOUS
  <2>1. IdbInv /\ written <= MaxWrites
    BY IdbInitInv DEF Idb!Init
  <2> QED BY <2>1 DEF Idb!Init, Idb!TypeOK, Idb!EmptyView
<1>2. Inv /\ [Idb!Next]_(Idb!vars) => Inv'
  <2> SUFFICES ASSUME Inv, [Idb!Next]_(Idb!vars) PROVE Idb!TypeOK' /\ written' <= MaxWrites
    BY IdbStepInv
  <2>1. written \in 0..MaxWrites /\ \A k \in Keys : kv[k] \in 0..MaxWrites
    BY DEF IdbInv
  <2>2. CASE Idb!open
    BY <2>1, <2>2 DEF IdbInv, Idb!open, Idb!TypeOK
  <2>3. CASE Idb!write_commit \/ Idb!write_return
    BY <2>1, <2>3 DEF IdbInv, IdbCall, Idb!NoCall, Idb!write_commit, Idb!write_return, Idb!TypeOK
  <2>4. CASE Idb!write_failed \/ Idb!lock_while_held \/ \E k \in Keys : Idb!write_begin(k)
    BY <2>1, <2>4 DEF Idb!write_failed, Idb!lock_while_held, Idb!write_begin, Idb!TypeOK
  <2>5. ASSUME NEW d \in Blobs, Idb!QuarantineDelta(d) PROVE Idb!TypeOK' /\ written' <= MaxWrites
    <3> DEFINE new == [delta |-> d, released |-> FALSE]
    <3>1. new \in [delta : Blobs, released : BOOLEAN] /\ new.delta = d
      OBVIOUS
    <3> HIDE DEF new
    <3>2. quarantine' = {e \in quarantine : e.delta # d} \cup {new}
      BY <2>5 DEF Idb!QuarantineDelta, Idb!put_quarantine_entry, new
    <3>3. /\ quarantine' \subseteq [delta : Blobs, released : BOOLEAN]
          /\ \A e, f \in quarantine' : e.delta = f.delta => e = f
      BY <3>1, <3>2 DEF Idb!TypeOK
    <3> QED BY <2>1, <2>5, <3>3 DEF Idb!QuarantineDelta, Idb!TypeOK
  <2>6. ASSUME NEW d \in Blobs, Idb!record(d) PROVE Idb!TypeOK' /\ written' <= MaxWrites
    BY <2>1, <2>6 DEF Idb!record, Idb!Recorded, Idb!TypeOK
  <2>7. CASE Idb!compact_table_idb
    BY <2>1, <2>7 DEF Idb!compact_table_idb, Idb!TypeOK
  <2>8. CASE Idb!release_for_migration
    <3> DEFINE Released(e) == [delta |-> e.delta, released |-> TRUE]
    <3>1. \A e \in quarantine : Released(e) \in [delta : Blobs, released : BOOLEAN] /\ Released(e).delta = e.delta
      BY DEF Idb!TypeOK
    <3>2. PICK S \in SUBSET quarantine : quarantine' = (quarantine \ S) \cup {Released(e) : e \in S}
      BY <2>8 DEF Idb!release_for_migration, Idb!scan_quarantine_entries, Idb!update_quarantine_migration_id
    <3> HIDE DEF Released
    <3>3. /\ quarantine' \subseteq [delta : Blobs, released : BOOLEAN]
          /\ \A e, f \in quarantine' : e.delta = f.delta => e = f
      BY <3>1, <3>2 DEF Idb!TypeOK
    <3> QED BY <2>1, <2>8, <3>3 DEF Idb!release_for_migration, Idb!TypeOK
  <2>9. CASE Idb!reload
    BY <2>1, <2>9 DEF IdbInv, IdbCall, Idb!NoCall, Idb!reload, Idb!EmptyView, Idb!TypeOK
  <2>10. CASE Idb!delete_database
    BY <2>1, <2>10 DEF Idb!delete_database, Idb!EmptyView, Idb!TypeOK
  <2>11. CASE UNCHANGED Idb!vars
    BY <2>1, <2>11 DEF Idb!vars, Idb!TypeOK
  <2> QED BY <2>2, <2>3, <2>4, <2>5, <2>6, <2>7, <2>8, <2>9, <2>10, <2>11 DEF Idb!Next
<1>3. Inv => Idb!TypeOK
  OBVIOUS
<1> QED BY <1>1, <1>2, <1>3, PTL DEF IdbSpec

-----------------------------------------------------------------------------
SqliteSpec == Sqlite!Init /\ [][Sqlite!Next]_(Sqlite!vars)

\* Statements of a call that have its row or node behind them.
RowWritten(t) == t = "write" /\ call[t].pc > 3
NodeStored(t) == t = "inbound" /\ call[t].pc > 3

Running(t) == call[t].pc # 0

\* A running call has an identity of its own, is not refused, and finds what
\* its earlier statements wrote; no row carries its number before its commit.
CallInv(t) ==
    /\ call[t] \in [id : 1..calls, key : Keys, pc : 1..Len(Sqlite!Program[t])]
    /\ call[t].id \notin refused
    /\ IF RowWritten(t) THEN rows[call[t].key] # 0 ELSE \A k \in Keys : rows[k] # call[t].id
    /\ NodeStored(t) => \E n \in nodes : n.id = call[t].id

\* The open transaction of a connection is the one of the call inside it.
TxInv(t) ==
    /\ Sqlite!At(t) = "commit" => tx["store"].row = <<call[t].key, call[t].id>>
    /\ Sqlite!At(t) \in {"edges", "dag_commit"} => \E n \in tx["dag"].node : n.id = call[t].id
    /\ Sqlite!At(t) = "dag_commit" =>
        \A n \in tx["dag"].node : \A p \in n.parents : <<p, n.id>> \in tx["dag"].edges

\* Two running calls are different and hold different mutexes.
Apart(s, t) ==
    /\ call[s].id # call[t].id
    /\ \A c \in {"store", "dag"} : ~(Sqlite!Holds(s, c) /\ Sqlite!Holds(t, c))

Node == [id : 1..calls, parents : SUBSET Nat]

Acks == [id : 1..calls, key : Keys, by : Sqlite!Threads]

SqliteType ==
    /\ calls \in Nat /\ rows \in [Keys -> 0..calls] /\ nodes \subseteq Node
    /\ compacted \subseteq {n.id : n \in nodes}
    /\ refused \subseteq 1..calls /\ acked \subseteq Acks
    /\ tx \in [{"store", "dag"} -> [open : BOOLEAN, row : {<<>>} \cup Keys \X (1..calls), node : SUBSET Node, edges : SUBSET (Nat \X Nat)]]
    /\ lock \in {"none", "store", "dag"}
    /\ \A c \in {"store", "dag"} : tx[c].open => lock = c
    /\ DOMAIN call = Sqlite!Threads

SqliteInv ==
    /\ SqliteType
    /\ \A t \in Sqlite!Threads : call[t] = Sqlite!NoCall \/ (CallInv(t) /\ TxInv(t))
    /\ \A s, t \in Sqlite!Threads : s # t /\ Running(s) /\ Running(t) => Apart(s, t)
    /\ Sqlite!CallsAreAtomic

\* The programs, statement by statement.
LEMMA ProgramTable ==
    /\ Sqlite!Threads = {"write", "inbound"}
    /\ Len(Sqlite!Program["write"]) = 7 /\ Len(Sqlite!Program["inbound"]) = 6
    /\ Sqlite!Program["write"][1] = "create" /\ Sqlite!Program["write"][2] = "upsert"
    /\ Sqlite!Program["write"][3] = "commit" /\ Sqlite!Program["write"][4] = "compact"
    /\ Sqlite!Program["write"][5] = "node" /\ Sqlite!Program["write"][6] = "edges"
    /\ Sqlite!Program["write"][7] = "dag_commit"
    /\ Sqlite!Program["inbound"][1] = "node" /\ Sqlite!Program["inbound"][2] = "edges"
    /\ Sqlite!Program["inbound"][3] = "dag_commit" /\ Sqlite!Program["inbound"][4] = "create"
    /\ Sqlite!Program["inbound"][5] = "upsert" /\ Sqlite!Program["inbound"][6] = "commit"
  BY DEF Sqlite!Program, Sqlite!Threads

\* Where in which program a statement stands.
Stands(stmt, t, pc) ==
    /\ stmt = "idle" <=> pc = 0
    /\ stmt = "create" <=> <<t, pc>> \in {<<"write", 1>>, <<"inbound", 4>>}
    /\ stmt = "upsert" <=> <<t, pc>> \in {<<"write", 2>>, <<"inbound", 5>>}
    /\ stmt = "commit" <=> <<t, pc>> \in {<<"write", 3>>, <<"inbound", 6>>}
    /\ stmt = "compact" <=> <<t, pc>> = <<"write", 4>>
    /\ stmt = "node" <=> <<t, pc>> \in {<<"write", 5>>, <<"inbound", 1>>}
    /\ stmt = "edges" <=> <<t, pc>> \in {<<"write", 6>>, <<"inbound", 2>>}
    /\ stmt = "dag_commit" <=> <<t, pc>> \in {<<"write", 7>>, <<"inbound", 3>>}

\* Where a call stands in its statements.
LEMMA Position ==
  ASSUME NEW t \in Sqlite!Threads, NEW pc \in 0..Len(Sqlite!Program[t]), NEW stmt,
         stmt = IF pc = 0 THEN "idle" ELSE Sqlite!Program[t][pc]
  PROVE  Stands(stmt, t, pc)
<1>1. CASE t = "write"
  BY <1>1, ProgramTable DEF Stands
<1>2. CASE t = "inbound"
  BY <1>2, ProgramTable DEF Stands
<1> QED BY <1>1, <1>2, ProgramTable

\* What is known of the calls in a state of the invariant.
LEMMA CallFacts ==
  ASSUME SqliteInv, NEW t \in Sqlite!Threads
  PROVE  /\ call[t] = Sqlite!NoCall \/ (CallInv(t) /\ TxInv(t))
         /\ call[t].pc \in 0..Len(Sqlite!Program[t])
         /\ call[t].pc # 0 => CallInv(t) /\ TxInv(t)
         /\ Stands(Sqlite!At(t), t, call[t].pc)
<1>1. call[t] = Sqlite!NoCall \/ (CallInv(t) /\ TxInv(t))
  BY DEF SqliteInv
<1>2. Len(Sqlite!Program[t]) \in Nat
  BY ProgramTable
<1>3. call[t].pc \in 0..Len(Sqlite!Program[t]) /\ (call[t].pc # 0 => CallInv(t) /\ TxInv(t))
  BY <1>1, <1>2 DEF Sqlite!NoCall, CallInv
<1> QED BY <1>1, <1>3, Position DEF Sqlite!At

\* A statement that succeeded.
LEMMA AdvanceEffect ==
  ASSUME SqliteInv, NEW t \in Sqlite!Threads, call[t].pc # 0, Sqlite!Advance(t)
  PROVE  /\ DOMAIN call' = Sqlite!Threads /\ \A s \in Sqlite!Threads \ {t} : call'[s] = call[s]
         /\ \/ /\ call[t].pc < Len(Sqlite!Program[t]) /\ acked' = acked
               /\ call'[t] = [id |-> call[t].id, key |-> call[t].key, pc |-> call[t].pc + 1]
            \/ /\ call[t].pc = Len(Sqlite!Program[t]) /\ call'[t] = Sqlite!NoCall
               /\ acked' = acked \cup {Sqlite!Ack(t)}
<1>1. CallInv(t) /\ DOMAIN call = Sqlite!Threads
  BY CallFacts DEF SqliteInv, SqliteType
<1>2. Len(Sqlite!Program[t]) \in Nat
  BY ProgramTable
<1> QED BY <1>1, <1>2 DEF Sqlite!Advance, CallInv

\* A call that goes on is at the next statement of its program.
LEMMA NextStatement ==
  ASSUME SqliteInv, NEW t \in Sqlite!Threads, call[t].pc # 0, Sqlite!Advance(t), call'[t].pc # 0
  PROVE  /\ call[t].pc \in Nat /\ call[t].pc + 1 <= Len(Sqlite!Program[t])
         /\ call'[t] = [id |-> call[t].id, key |-> call[t].key, pc |-> call[t].pc + 1]
         /\ call'[t].id = call[t].id /\ call'[t].key = call[t].key /\ call'[t].pc = call[t].pc + 1
         /\ Stands(Sqlite!At(t), t, call[t].pc) /\ Stands(Sqlite!At(t)', t, call[t].pc + 1)
<1>1. Len(Sqlite!Program[t]) \in Nat
  BY ProgramTable
<1>2. CallInv(t) /\ Stands(Sqlite!At(t), t, call[t].pc)
  BY CallFacts
<1>3. call[t].pc \in 1..Len(Sqlite!Program[t])
  BY <1>2 DEF CallInv
<1>4. CASE call'[t] = Sqlite!NoCall
  BY <1>4 DEF Sqlite!NoCall
<1>5. CASE /\ call[t].pc < Len(Sqlite!Program[t])
           /\ call'[t] = [id |-> call[t].id, key |-> call[t].key, pc |-> call[t].pc + 1]
  <2>1. call[t].pc + 1 \in 0..Len(Sqlite!Program[t]) /\ call'[t].pc = call[t].pc + 1
    BY <1>1, <1>3, <1>5
  <2>2. Stands(Sqlite!At(t)', t, call[t].pc + 1)
    BY <2>1, Position DEF Sqlite!At
  <2>3. call'[t].id = call[t].id /\ call'[t].key = call[t].key
    BY <1>5
  <2> QED BY <1>1, <1>2, <1>3, <1>5, <2>1, <2>2, <2>3
<1> QED BY <1>4, <1>5, AdvanceEffect

\* Statements that succeed keep the calls apart: a call enters a connection's
\* mutex only when no other holds it.
LEMMA StillApart ==
  ASSUME SqliteInv, NEW t \in Sqlite!Threads, call[t].pc # 0, Sqlite!Advance(t),
         Sqlite!Free(t, Sqlite!Conn(Sqlite!At(t)))
  PROVE  \A r, s \in Sqlite!Threads : (r # s /\ Running(r) /\ Running(s) => Apart(r, s))'
<1>1. \A s \in Sqlite!Threads \ {t} : /\ call'[s] = call[s] /\ Sqlite!At(s)' = Sqlite!At(s)
                                      /\ \A c : Sqlite!Holds(s, c)' = Sqlite!Holds(s, c)
  BY AdvanceEffect DEF Sqlite!At, Sqlite!Holds
<1>2. \A s \in Sqlite!Threads \ {t} : Running(s) => call[s].id # call[t].id
  BY DEF SqliteInv, Apart, Running
<1>3. ASSUME call'[t].pc # 0, NEW c \in {"store", "dag"}, Sqlite!Holds(t, c)'
      PROVE  c = Sqlite!Conn(Sqlite!At(t))
  <2>2. /\ call[t].pc \in Nat
        /\ Stands(Sqlite!At(t), t, call[t].pc) /\ Stands(Sqlite!At(t)', t, call[t].pc + 1)
    BY <1>3, NextStatement
  <2>3. t \in {"write", "inbound"}
    BY ProgramTable
  <2>4. Sqlite!At(t)' \in {"upsert", "commit", "edges", "dag_commit"} /\ Sqlite!Conn(Sqlite!At(t)') = c
    BY <1>3 DEF Sqlite!Holds, Sqlite!Conn
  <2> QED BY <2>2, <2>3, <2>4 DEF Stands, Sqlite!Conn
<1>4. \A s \in Sqlite!Threads \ {t}, c \in {"store", "dag"} :
         call'[t].pc # 0 => ~(Sqlite!Holds(s, c)' /\ Sqlite!Holds(t, c)')
  BY <1>1, <1>3 DEF Sqlite!Free
<1>5. call'[t].pc # 0 => call'[t].id = call[t].id
  BY NextStatement
<1>6. ASSUME NEW s \in Sqlite!Threads \ {t}, Running(s)', Running(t)'
      PROVE  Apart(s, t)' /\ Apart(t, s)'
  BY <1>1, <1>2, <1>4, <1>5, <1>6 DEF Apart, Running
<1>7. ASSUME NEW r \in Sqlite!Threads \ {t}, NEW s \in Sqlite!Threads \ {t}, r # s, Running(r)', Running(s)'
      PROVE  Apart(r, s)'
  BY <1>1, <1>7 DEF SqliteInv, Apart, Running
<1> QED BY <1>6, <1>7
\* Statements that succeed keep the calls and what was promised, as long as rows
\* and nodes of a call become visible at its commits and its document when it
\* is saved.
LEMMA CallsKept ==
  ASSUME SqliteInv, NEW t \in Sqlite!Threads, call[t].pc # 0, Sqlite!Advance(t),
         calls' = calls, refused' = refused, nodes \subseteq nodes',
         rows' \in [Keys -> 0..calls],
         \A k \in Keys : rows'[k] # rows[k] => Sqlite!At(t) = "commit" /\ rows'[k] = call[t].id,
         Sqlite!At(t) = "commit" => rows'[call[t].key] = call[t].id,
         Sqlite!At(t) = "dag_commit" => \E n \in nodes' : n.id = call[t].id
  PROVE  /\ \A s \in Sqlite!Threads : call'[s] = Sqlite!NoCall \/ CallInv(s)'
         /\ Sqlite!RefusedLeavesNoRow' /\ Sqlite!AckedIsStored' /\ acked' \subseteq Acks
<1>1. /\ CallInv(t) /\ Stands(Sqlite!At(t), t, call[t].pc) /\ SqliteType
      /\ Sqlite!RefusedLeavesNoRow /\ Sqlite!AckedIsStored
  BY CallFacts DEF SqliteInv, Sqlite!CallsAreAtomic
<1>2. /\ call[t].id \in 1..calls /\ call[t].key \in Keys /\ call[t].pc \in 1..Len(Sqlite!Program[t])
      /\ call[t].id \notin refused /\ calls \in Nat
  BY <1>1 DEF CallInv, SqliteType
<1>3. t \in {"write", "inbound"}
  BY ProgramTable
<1>4. \A k \in Keys : rows[k] # 0 => rows'[k] # 0
  BY <1>2
<1>0. acked' = acked \/ (call[t].pc = Len(Sqlite!Program[t]) /\ acked' = acked \cup {Sqlite!Ack(t)})
  BY AdvanceEffect
<1>5. ASSUME NEW s \in Sqlite!Threads \ {t}
      PROVE  call'[s] = Sqlite!NoCall \/ CallInv(s)'
  <2>1. call'[s] = call[s]
    BY AdvanceEffect
  <2>2. CASE call[s] = Sqlite!NoCall
    BY <2>1, <2>2
  <2>3. CASE CallInv(s)
    <3>1. call[s].pc # 0 /\ Running(s) /\ Running(t)
      BY <2>3, ProgramTable DEF CallInv, Running
    <3>2. call[s].id # call[t].id
      BY <3>1 DEF SqliteInv, Apart
    <3>3. /\ RowWritten(s)' = RowWritten(s) /\ NodeStored(s)' = NodeStored(s)
      BY <2>1 DEF RowWritten, NodeStored
    <3>4. rows[call[s].key] # 0 => rows'[call[s].key] # 0
      BY <2>3, <1>4 DEF CallInv
    <3>5. (\A k \in Keys : rows[k] # call[s].id) => (\A k \in Keys : rows'[k] # call[s].id)
      BY <3>2
    <3> QED BY <2>1, <2>3, <3>3, <3>4, <3>5 DEF CallInv
  <2> QED BY <2>2, <2>3, CallFacts
<1>6. call'[t] = Sqlite!NoCall \/ CallInv(t)'
  <2> SUFFICES ASSUME call[t].pc < Len(Sqlite!Program[t]),
                      call'[t] = [id |-> call[t].id, key |-> call[t].key, pc |-> call[t].pc + 1]
               PROVE  CallInv(t)'
    BY AdvanceEffect
  <2>1. call'[t] \in [id : 1..calls', key : Keys, pc : 1..Len(Sqlite!Program[t])]
    <3>1. Len(Sqlite!Program[t]) \in Nat
      BY ProgramTable
    <3> QED BY <1>2, <3>1
  <2>2. RowWritten(t)' => rows'[call'[t].key] # 0
    <3>1. RowWritten(t)' => RowWritten(t) \/ Sqlite!At(t) = "commit"
      BY <1>1, <1>2, <1>3 DEF RowWritten, Stands
    <3>2. RowWritten(t) => rows[call[t].key] # 0
      BY <1>1 DEF CallInv
    <3> QED BY <3>1, <3>2, <1>2, <1>4
  <2>3. ~RowWritten(t)' => \A k \in Keys : rows'[k] # call'[t].id
    <3>1. ~RowWritten(t)' => ~RowWritten(t) /\ Sqlite!At(t) # "commit"
      <4>1. t = "inbound" => call[t].pc < 6
        BY ProgramTable
      <4> QED BY <4>1, <1>1, <1>2, <1>3 DEF RowWritten, Stands
    <3>2. ~RowWritten(t) => \A k \in Keys : rows[k] # call[t].id
      BY <1>1 DEF CallInv
    <3> QED BY <3>1, <3>2
  <2>4. NodeStored(t)' => \E n \in nodes' : n.id = call'[t].id
    <3>1. NodeStored(t)' => NodeStored(t) \/ Sqlite!At(t) = "dag_commit"
      BY <1>1, <1>2, <1>3 DEF NodeStored, Stands
    <3> QED BY <3>1, <1>1 DEF CallInv
  <2> QED BY <2>1, <2>2, <2>3, <2>4, <1>2 DEF CallInv
<1>7. Sqlite!RefusedLeavesNoRow'
  BY <1>1, <1>2 DEF Sqlite!RefusedLeavesNoRow
<1>8. acked' \subseteq Acks
  <2>1. Sqlite!Ack(t) \in Acks
    BY <1>2 DEF Sqlite!Ack, Acks
  <2> QED BY <1>0, <1>1, <2>1 DEF SqliteType
<1>9. ASSUME NEW a \in acked'
      PROVE  /\ \E n \in nodes' : n.id = a.id
             /\ rows'[a.key] # 0 \/ (a.by = "inbound" /\ a.id \in refused')
  <2>1. CASE a \in acked
    <3>1. a.key \in Keys
      BY <2>1, <1>1 DEF SqliteType, Acks
    <3> QED BY <2>1, <3>1, <1>1, <1>4 DEF Sqlite!AckedIsStored
  <2>2. CASE call[t].pc = Len(Sqlite!Program[t]) /\ a = Sqlite!Ack(t)
    <3>1. \/ RowWritten(t) /\ Sqlite!At(t) = "dag_commit"
          \/ NodeStored(t) /\ Sqlite!At(t) = "commit"
      BY <2>2, <1>1, <1>3, ProgramTable DEF Stands, RowWritten, NodeStored
    <3>2. rows'[call[t].key] # 0
      BY <3>1, <1>1, <1>2, <1>4 DEF CallInv
    <3>3. \E n \in nodes' : n.id = call[t].id
      BY <3>1, <1>1 DEF CallInv
    <3>4. a.id = call[t].id /\ a.key = call[t].key
      BY <2>2 DEF Sqlite!Ack
    <3> QED BY <3>2, <3>3, <3>4
  <2> QED BY <2>1, <2>2, <1>9, <1>0
<1> QED BY <1>5, <1>6, <1>7, <1>8, <1>9 DEF Sqlite!AckedIsStored

\* A connection's transaction changes only in the hands of the call that could
\* take its mutex, so the others find theirs as they left it.
LEMMA TxKept ==
  ASSUME SqliteInv, NEW t \in Sqlite!Threads, NEW s \in Sqlite!Threads \ {t},
         call'[s] = call[s], call[s].pc # 0,
         \A c \in {"store", "dag"} : tx'[c] # tx[c] => Sqlite!Free(t, c)
  PROVE  TxInv(s)'
<1>1. TxInv(s) /\ Sqlite!At(s)' = Sqlite!At(s)
  BY CallFacts DEF Sqlite!At
<1>2. Sqlite!At(s) = "commit" => tx'["store"] = tx["store"]
  BY DEF Sqlite!Free, Sqlite!Holds, Sqlite!Conn
<1>3. Sqlite!At(s) \in {"edges", "dag_commit"} => tx'["dag"] = tx["dag"]
  BY DEF Sqlite!Free, Sqlite!Holds, Sqlite!Conn
<1> QED BY <1>1, <1>2, <1>3 DEF TxInv
\* What is left to show of a statement that succeeded: the types, its own
\* transaction and the edges.
LEMMA StatementSound ==
  ASSUME SqliteInv, NEW t \in Sqlite!Threads, call[t].pc # 0, Sqlite!Advance(t),
         Sqlite!Free(t, Sqlite!Conn(Sqlite!At(t))),
         calls' = calls, refused' = refused, nodes \subseteq nodes',
         rows' \in [Keys -> 0..calls],
         \A k \in Keys : rows'[k] # rows[k] => Sqlite!At(t) = "commit" /\ rows'[k] = call[t].id,
         Sqlite!At(t) = "commit" => rows'[call[t].key] = call[t].id,
         Sqlite!At(t) = "dag_commit" => \E n \in nodes' : n.id = call[t].id,
         \A c \in {"store", "dag"} : tx'[c] # tx[c] => Sqlite!Free(t, c),
         acked' \subseteq Acks => SqliteType',
         call'[t].pc # 0 => TxInv(t)', Sqlite!NodeHasItsEdges'
  PROVE  SqliteInv'
<1>1. /\ \A s \in Sqlite!Threads : call'[s] = Sqlite!NoCall \/ CallInv(s)'
      /\ Sqlite!RefusedLeavesNoRow' /\ Sqlite!AckedIsStored' /\ acked' \subseteq Acks
  BY CallsKept
<1>2. \A r, s \in Sqlite!Threads : (r # s /\ Running(r) /\ Running(s) => Apart(r, s))'
  BY StillApart
<1>3. ASSUME NEW s \in Sqlite!Threads, call'[s] # Sqlite!NoCall
      PROVE  TxInv(s)'
  <2>1. CallInv(s)'
    BY <1>1, <1>3
  <2>2. Len(Sqlite!Program[s]) \in Nat
    BY ProgramTable
  <2>3. call'[s].pc # 0
    BY <2>1, <2>2 DEF CallInv
  <2>4. CASE s = t
    BY <2>3, <2>4
  <2>5. CASE s # t
    BY <2>3, <2>5, AdvanceEffect, TxKept
  <2> QED BY <2>4, <2>5
<1> QED BY <1>1, <1>2, <1>3 DEF SqliteInv, Sqlite!CallsAreAtomic

\* CREATE TABLE changes nothing but the call.
LEMMA QuietSound ==
  ASSUME SqliteInv, NEW t \in Sqlite!Threads, Sqlite!create(t)
  PROVE  SqliteInv'
<1>1. /\ Sqlite!At(t) = "create" /\ Sqlite!Free(t, Sqlite!Conn(Sqlite!At(t))) /\ Sqlite!Advance(t)
      /\ UNCHANGED <<rows, nodes, edges, compacted, tx, lock, calls, refused>>
  BY DEF Sqlite!create, Sqlite!Ready
<1>2. /\ call[t].pc # 0 /\ CallInv(t) /\ Stands(Sqlite!At(t), t, call[t].pc)
  BY <1>1, CallFacts DEF Stands
<1>3. Sqlite!NodeHasItsEdges' /\ rows' \in [Keys -> 0..calls]
  BY <1>1 DEF Sqlite!NodeHasItsEdges, SqliteInv, SqliteType, Sqlite!CallsAreAtomic
<1>4. acked' \subseteq Acks => SqliteType'
  BY <1>1, <1>2, AdvanceEffect DEF SqliteInv, SqliteType, Acks, Node
<1>5. ASSUME call'[t].pc # 0 PROVE Sqlite!At(t)' = "upsert"
  <2>1. call[t].pc \in Nat /\ Stands(Sqlite!At(t)', t, call[t].pc + 1)
    BY <1>1, <1>2, <1>5, NextStatement
  <2> QED BY <1>1, <1>2, <2>1 DEF Stands
<1>6. call'[t].pc # 0 => TxInv(t)'
  BY <1>5 DEF TxInv
<1> QED BY <1>1, <1>2, <1>3, <1>4, <1>6, StatementSound

\* The upsert: the row waits in the store's transaction.
LEMMA UpsertSound ==
  ASSUME SqliteInv, NEW t \in Sqlite!Threads, Sqlite!upsert(t)
  PROVE  SqliteInv'
<1>1. /\ Sqlite!At(t) = "upsert" /\ Sqlite!Free(t, "store") /\ Sqlite!Conn(Sqlite!At(t)) = "store"
      /\ Sqlite!Advance(t) /\ lock \in {"none", "store"} /\ lock' = "store"
      /\ tx' = [tx EXCEPT !["store"] = [open |-> TRUE, row |-> <<call[t].key, call[t].id>>, node |-> {}, edges |-> {}]]
      /\ UNCHANGED <<rows, nodes, edges, compacted, calls, refused>>
  BY DEF Sqlite!upsert, Sqlite!Ready, Sqlite!Conn, Sqlite!CanWrite, Sqlite!Begun
<1>2. /\ call[t].pc # 0 /\ CallInv(t) /\ Stands(Sqlite!At(t), t, call[t].pc) /\ SqliteType
  BY <1>1, CallFacts DEF Stands, SqliteInv
<1>3. Sqlite!NodeHasItsEdges' /\ rows' \in [Keys -> 0..calls]
  BY <1>1 DEF Sqlite!NodeHasItsEdges, SqliteInv, SqliteType, Sqlite!CallsAreAtomic
<1>4. call[t].id \in 1..calls /\ call[t].key \in Keys /\ DOMAIN call' = Sqlite!Threads
  BY <1>1, <1>2, AdvanceEffect DEF CallInv
<1>5. /\ tx'["store"] = [open |-> TRUE, row |-> <<call[t].key, call[t].id>>, node |-> {}, edges |-> {}]
      /\ tx'["dag"] = tx["dag"] /\ DOMAIN tx' = {"store", "dag"}
  BY <1>1, <1>2 DEF SqliteType
<1>6. tx' \in [{"store", "dag"} -> [open : BOOLEAN, row : {<<>>} \cup Keys \X (1..calls),
                                    node : SUBSET Node, edges : SUBSET (Nat \X Nat)]]
  BY <1>1, <1>2, <1>4 DEF SqliteType
<1>7. acked' \subseteq Acks => SqliteType'
  BY <1>1, <1>2, <1>4, <1>5, <1>6 DEF SqliteType, Acks, Node
<1>8. ASSUME call'[t].pc # 0 PROVE TxInv(t)'
  <2>1. /\ call[t].pc \in Nat /\ Stands(Sqlite!At(t)', t, call[t].pc + 1)
        /\ call'[t].id = call[t].id /\ call'[t].key = call[t].key
    BY <1>1, <1>2, <1>8, NextStatement
  <2>2. Sqlite!At(t)' = "commit"
    BY <1>1, <1>2, <2>1 DEF Stands
  <2> QED BY <1>5, <2>1, <2>2 DEF TxInv
<1> QED BY <1>1, <1>2, <1>3, <1>5, <1>7, <1>8, StatementSound

\* COMMIT of the store's transaction.
LEMMA CommitSound ==
  ASSUME SqliteInv, NEW t \in Sqlite!Threads, Sqlite!commit(t)
  PROVE  SqliteInv'
<1>1. /\ Sqlite!At(t) = "commit" /\ Sqlite!Free(t, "store") /\ Sqlite!Conn(Sqlite!At(t)) = "store"
      /\ Sqlite!Advance(t) /\ lock \in {"none", "store"} /\ lock' = "none"
      /\ rows' = [rows EXCEPT ![tx["store"].row[1]] = tx["store"].row[2]]
      /\ tx' = [tx EXCEPT !["store"] = [open |-> FALSE, row |-> <<>>, node |-> {}, edges |-> {}]]
      /\ UNCHANGED <<nodes, edges, compacted, calls, refused>>
  BY DEF Sqlite!commit, Sqlite!Ready, Sqlite!Conn, Sqlite!CanWrite, Sqlite!NoTx
<1>2. /\ call[t].pc # 0 /\ CallInv(t) /\ Stands(Sqlite!At(t), t, call[t].pc) /\ SqliteType /\ TxInv(t)
  BY <1>1, CallFacts DEF Stands, SqliteInv
<1>3. call[t].id \in 1..calls /\ call[t].key \in Keys /\ DOMAIN call' = Sqlite!Threads
  BY <1>1, <1>2, AdvanceEffect DEF CallInv
<1>4. rows' = [rows EXCEPT ![call[t].key] = call[t].id]
  <2>1. tx["store"].row = <<call[t].key, call[t].id>>
    BY <1>1, <1>2 DEF TxInv
  <2>2. tx["store"].row[1] = call[t].key /\ tx["store"].row[2] = call[t].id
    BY <2>1
  <2> QED BY <1>1, <2>2
<1>5. /\ rows' \in [Keys -> 0..calls] /\ rows'[call[t].key] = call[t].id
      /\ \A k \in Keys : rows'[k] # rows[k] => rows'[k] = call[t].id
  BY <1>2, <1>3, <1>4 DEF SqliteType
<1>6. Sqlite!NodeHasItsEdges'
  BY <1>1 DEF Sqlite!NodeHasItsEdges, SqliteInv, Sqlite!CallsAreAtomic
<1>7. /\ tx'["store"] = [open |-> FALSE, row |-> <<>>, node |-> {}, edges |-> {}]
      /\ tx'["dag"] = tx["dag"] /\ DOMAIN tx' = {"store", "dag"}
  BY <1>1, <1>2 DEF SqliteType
<1>8. tx' \in [{"store", "dag"} -> [open : BOOLEAN, row : {<<>>} \cup Keys \X (1..calls),
                                    node : SUBSET Node, edges : SUBSET (Nat \X Nat)]]
  BY <1>1, <1>2 DEF SqliteType
<1>9. acked' \subseteq Acks => SqliteType'
  BY <1>1, <1>2, <1>3, <1>5, <1>7, <1>8 DEF SqliteType, Acks, Node
<1>10. ASSUME call'[t].pc # 0 PROVE TxInv(t)'
  <2>1. call[t].pc \in Nat /\ Stands(Sqlite!At(t)', t, call[t].pc + 1)
        /\ call[t].pc + 1 <= Len(Sqlite!Program[t])
    BY <1>1, <1>2, <1>10, NextStatement
  <2>2. t = "inbound" => call[t].pc + 1 <= 6
    BY <2>1, ProgramTable
  <2>3. Sqlite!At(t)' = "compact"
    BY <1>1, <1>2, <2>1, <2>2 DEF Stands
  <2> QED BY <2>3 DEF TxInv
<1> QED BY <1>1, <1>2, <1>5, <1>6, <1>7, <1>9, <1>10, StatementSound
\* ChangesetDag::insert, BEGIN and the node.
LEMMA NodeSound ==
  ASSUME SqliteInv, NEW t \in Sqlite!Threads, Sqlite!insert_node(t)
  PROVE  SqliteInv'
<1>1. /\ Sqlite!At(t) = "node" /\ Sqlite!Free(t, "dag") /\ Sqlite!Conn(Sqlite!At(t)) = "dag"
      /\ Sqlite!Advance(t) /\ lock \in {"none", "dag"} /\ lock' = "dag"
      /\ tx' = [tx EXCEPT !["dag"] = [open |-> TRUE, row |-> <<>>, edges |-> {},
                                      node |-> {[id |-> call[t].id, parents |-> Sqlite!Tips]}]]
      /\ UNCHANGED <<rows, nodes, edges, compacted, calls, refused>>
  BY DEF Sqlite!insert_node, Sqlite!Ready, Sqlite!Conn, Sqlite!CanWrite, Sqlite!Begun
<1>2. /\ call[t].pc # 0 /\ CallInv(t) /\ Stands(Sqlite!At(t), t, call[t].pc) /\ SqliteType
  BY <1>1, CallFacts DEF Stands, SqliteInv
<1>3. Sqlite!NodeHasItsEdges' /\ rows' \in [Keys -> 0..calls]
  BY <1>1 DEF Sqlite!NodeHasItsEdges, SqliteInv, SqliteType, Sqlite!CallsAreAtomic
<1>4. call[t].id \in 1..calls /\ DOMAIN call' = Sqlite!Threads
  BY <1>1, <1>2, AdvanceEffect DEF CallInv
<1>5. [id |-> call[t].id, parents |-> Sqlite!Tips] \in Node
  BY <1>2, <1>4 DEF Sqlite!Tips, SqliteType, Acks, Node
<1>6. /\ tx'["dag"] = [open |-> TRUE, row |-> <<>>, edges |-> {}, node |-> {[id |-> call[t].id, parents |-> Sqlite!Tips]}]
      /\ tx'["store"] = tx["store"] /\ DOMAIN tx' = {"store", "dag"}
  BY <1>1, <1>2 DEF SqliteType
<1>7. tx' \in [{"store", "dag"} -> [open : BOOLEAN, row : {<<>>} \cup Keys \X (1..calls),
                                    node : SUBSET Node, edges : SUBSET (Nat \X Nat)]]
  BY <1>1, <1>2, <1>5 DEF SqliteType
<1>8. acked' \subseteq Acks => SqliteType'
  BY <1>1, <1>2, <1>4, <1>6, <1>7 DEF SqliteType, Acks, Node
<1>9. ASSUME call'[t].pc # 0 PROVE TxInv(t)'
  <2>1. call[t].pc \in Nat /\ Stands(Sqlite!At(t)', t, call[t].pc + 1) /\ call'[t].id = call[t].id
    BY <1>1, <1>2, <1>9, NextStatement
  <2>2. Sqlite!At(t)' = "edges"
    BY <1>1, <1>2, <2>1 DEF Stands
  <2>3. [id |-> call[t].id, parents |-> Sqlite!Tips] \in tx'["dag"].node
    BY <1>6
  <2>4. [id |-> call[t].id, parents |-> Sqlite!Tips].id = call[t].id
    OBVIOUS
  <2> QED BY <2>1, <2>2, <2>3, <2>4 DEF TxInv
<1> QED BY <1>1, <1>2, <1>3, <1>6, <1>8, <1>9, StatementSound

\* ... the edges of every parent ...
LEMMA EdgesSound ==
  ASSUME SqliteInv, NEW t \in Sqlite!Threads, Sqlite!insert_edges(t)
  PROVE  SqliteInv'
<1> DEFINE new == UNION {{<<p, n.id>> : p \in n.parents} : n \in tx["dag"].node}
<1>1. /\ Sqlite!At(t) = "edges" /\ Sqlite!Free(t, "dag") /\ Sqlite!Conn(Sqlite!At(t)) = "dag"
      /\ Sqlite!Advance(t) /\ tx' = [tx EXCEPT !["dag"].edges = new]
      /\ UNCHANGED <<rows, nodes, edges, compacted, lock, calls, refused>>
  BY DEF Sqlite!insert_edges, Sqlite!Ready, Sqlite!Conn
<1>2. /\ call[t].pc # 0 /\ CallInv(t) /\ Stands(Sqlite!At(t), t, call[t].pc) /\ SqliteType /\ TxInv(t)
  BY <1>1, CallFacts DEF Stands, SqliteInv
<1>3. Sqlite!NodeHasItsEdges' /\ rows' \in [Keys -> 0..calls]
  BY <1>1 DEF Sqlite!NodeHasItsEdges, SqliteInv, SqliteType, Sqlite!CallsAreAtomic
<1>4. DOMAIN call' = Sqlite!Threads
  BY <1>1, <1>2, AdvanceEffect
<1>5. /\ new \subseteq Nat \X Nat
      /\ \A n \in tx["dag"].node : \A p \in n.parents : <<p, n.id>> \in new
  BY <1>2 DEF SqliteType, Acks, Node
<1> HIDE DEF new
<1>6. /\ tx'["dag"].edges = new /\ tx'["dag"].node = tx["dag"].node /\ tx'["dag"].open = tx["dag"].open
      /\ tx'["store"] = tx["store"]
  BY <1>1, <1>2 DEF SqliteType
<1>7. tx' \in [{"store", "dag"} -> [open : BOOLEAN, row : {<<>>} \cup Keys \X (1..calls),
                                    node : SUBSET Node, edges : SUBSET (Nat \X Nat)]]
  BY <1>1, <1>2, <1>5 DEF SqliteType
<1>8. acked' \subseteq Acks => SqliteType'
  BY <1>1, <1>2, <1>4, <1>6, <1>7 DEF SqliteType, Acks, Node
<1>9. ASSUME call'[t].pc # 0 PROVE TxInv(t)'
  <2>1. call[t].pc \in Nat /\ Stands(Sqlite!At(t)', t, call[t].pc + 1) /\ call'[t].id = call[t].id
    BY <1>1, <1>2, <1>9, NextStatement
  <2>2. Sqlite!At(t)' = "dag_commit"
    BY <1>1, <1>2, <2>1 DEF Stands
  <2>3. \E n \in tx'["dag"].node : n.id = call[t].id
    BY <1>1, <1>2, <1>6 DEF TxInv
  <2> QED BY <1>5, <1>6, <2>1, <2>2, <2>3 DEF TxInv
<1> QED BY <1>1, <1>2, <1>3, <1>6, <1>8, <1>9, StatementSound

\* ... and COMMIT.
LEMMA InsertCommitSound ==
  ASSUME SqliteInv, NEW t \in Sqlite!Threads, Sqlite!insert_commit(t)
  PROVE  SqliteInv'
<1>1. /\ Sqlite!At(t) = "dag_commit" /\ Sqlite!Free(t, "dag") /\ Sqlite!Conn(Sqlite!At(t)) = "dag"
      /\ Sqlite!Advance(t) /\ lock \in {"none", "dag"} /\ lock' = "none"
      /\ nodes' = nodes \cup tx["dag"].node /\ edges' = edges \cup tx["dag"].edges
      /\ tx' = [tx EXCEPT !["dag"] = [open |-> FALSE, row |-> <<>>, node |-> {}, edges |-> {}]]
      /\ UNCHANGED <<rows, compacted, calls, refused>>
  BY DEF Sqlite!insert_commit, Sqlite!Ready, Sqlite!Conn, Sqlite!CanWrite, Sqlite!NoTx
<1>2. /\ call[t].pc # 0 /\ CallInv(t) /\ Stands(Sqlite!At(t), t, call[t].pc) /\ SqliteType /\ TxInv(t)
  BY <1>1, CallFacts DEF Stands, SqliteInv
<1>3. Sqlite!NodeHasItsEdges' /\ rows' \in [Keys -> 0..calls] /\ \E n \in nodes' : n.id = call[t].id
  BY <1>1, <1>2 DEF Sqlite!NodeHasItsEdges, SqliteInv, SqliteType, Sqlite!CallsAreAtomic, TxInv
<1>4. DOMAIN call' = Sqlite!Threads
  BY <1>1, <1>2, AdvanceEffect
<1>5. tx["dag"].node \subseteq Node
  BY <1>2 DEF SqliteType
<1>6. /\ tx'["dag"] = [open |-> FALSE, row |-> <<>>, node |-> {}, edges |-> {}]
      /\ tx'["store"] = tx["store"]
  BY <1>1, <1>2 DEF SqliteType
<1>7. tx' \in [{"store", "dag"} -> [open : BOOLEAN, row : {<<>>} \cup Keys \X (1..calls),
                                    node : SUBSET Node, edges : SUBSET (Nat \X Nat)]]
  BY <1>1, <1>2 DEF SqliteType
<1>8. acked' \subseteq Acks => SqliteType'
  BY <1>1, <1>2, <1>4, <1>5, <1>6, <1>7 DEF SqliteType, Acks, Node
<1>9. ASSUME call'[t].pc # 0 PROVE TxInv(t)'
  <2>1. call[t].pc \in Nat /\ Stands(Sqlite!At(t)', t, call[t].pc + 1)
        /\ call[t].pc + 1 <= Len(Sqlite!Program[t])
    BY <1>1, <1>2, <1>9, NextStatement
  <2>2. t = "write" => call[t].pc + 1 <= 7
    BY <2>1, ProgramTable
  <2>3. Sqlite!At(t)' = "create"
    BY <1>1, <1>2, <2>1, <2>2 DEF Stands
  <2> QED BY <2>3 DEF TxInv
<1> QED BY <1>1, <1>2, <1>3, <1>6, <1>8, <1>9, StatementSound
\* maybe_compact marks stored nodes only.
LEMMA CompactSound ==
  ASSUME SqliteInv, NEW t \in Sqlite!Threads, Sqlite!compact_table(t)
  PROVE  SqliteInv'
<1>1. /\ Sqlite!At(t) = "compact" /\ Sqlite!Free(t, "dag") /\ Sqlite!Conn(Sqlite!At(t)) = "dag"
      /\ Sqlite!Advance(t) /\ compacted' \in {compacted, {n.id : n \in nodes}}
      /\ UNCHANGED <<rows, nodes, edges, tx, lock, calls, refused>>
  BY DEF Sqlite!compact_table, Sqlite!Conn
<1>2. /\ call[t].pc # 0 /\ CallInv(t) /\ Stands(Sqlite!At(t), t, call[t].pc) /\ SqliteType
  BY <1>1, CallFacts DEF Stands, SqliteInv
<1>3. Sqlite!NodeHasItsEdges' /\ rows' \in [Keys -> 0..calls]
  BY <1>1 DEF Sqlite!NodeHasItsEdges, SqliteInv, SqliteType, Sqlite!CallsAreAtomic
<1>4. DOMAIN call' = Sqlite!Threads
  BY <1>1, <1>2, AdvanceEffect
<1>5. acked' \subseteq Acks => SqliteType'
  BY <1>1, <1>2, <1>4 DEF SqliteType, Acks, Node
<1>6. ASSUME call'[t].pc # 0 PROVE TxInv(t)'
  <2>1. call[t].pc \in Nat /\ Stands(Sqlite!At(t)', t, call[t].pc + 1)
    BY <1>1, <1>2, <1>6, NextStatement
  <2>2. Sqlite!At(t)' = "node"
    BY <1>1, <1>2, <2>1 DEF Stands
  <2> QED BY <2>2 DEF TxInv
<1> QED BY <1>1, <1>2, <1>3, <1>5, <1>6, StatementSound

\* A new call: its number is above every one in use.
LEMMA BeginSound ==
  ASSUME SqliteInv, NEW t \in Sqlite!Threads, Sqlite!Begin(t)
  PROVE  SqliteInv'
<1>1. PICK k \in Keys : call' = [call EXCEPT ![t] = [id |-> calls + 1, key |-> k, pc |-> 1]]
  BY DEF Sqlite!Begin
<1>2. /\ calls' = calls + 1 /\ call[t] = Sqlite!NoCall
      /\ UNCHANGED <<rows, nodes, edges, compacted, tx, lock, refused, acked>>
  BY DEF Sqlite!Begin
<1>3. SqliteType
  BY DEF SqliteInv
<1>4. /\ call'[t] = [id |-> calls + 1, key |-> k, pc |-> 1] /\ DOMAIN call' = Sqlite!Threads
      /\ \A s \in Sqlite!Threads \ {t} : call'[s] = call[s]
  BY <1>1, <1>3 DEF SqliteType
<1>5. call'[t].id = calls + 1 /\ call'[t].key = k /\ call'[t].pc = 1
  BY <1>4
<1>6. calls \in Nat /\ 1..calls \subseteq 1..calls' /\ calls' \in Nat
  BY <1>2, <1>3 DEF SqliteType
<1>7. SqliteType'
  <2>1. Node \subseteq Node'
    BY <1>6 DEF Node
  <2>2. rows' \in [Keys -> 0..calls'] /\ refused' \subseteq 1..calls'
        /\ acked' \subseteq Acks'
    <3>1. Acks \subseteq Acks'
      BY <1>6 DEF Acks
    <3> QED BY <1>2, <1>3, <1>6, <3>1 DEF SqliteType
  <2>3. tx' \in [{"store", "dag"} -> [open : BOOLEAN, row : {<<>>} \cup Keys \X (1..calls'),
                                      node : SUBSET Node', edges : SUBSET (Nat \X Nat)]]
    <3>1. ASSUME NEW c \in {"store", "dag"}
          PROVE  tx[c] \in [open : BOOLEAN, row : {<<>>} \cup Keys \X (1..calls'),
                            node : SUBSET Node', edges : SUBSET (Nat \X Nat)]
      <4>1. tx[c] \in [open : BOOLEAN, row : {<<>>} \cup Keys \X (1..calls),
                       node : SUBSET Node, edges : SUBSET (Nat \X Nat)]
        BY <1>3 DEF SqliteType
      <4>2. {<<>>} \cup Keys \X (1..calls) \subseteq {<<>>} \cup Keys \X (1..calls')
        BY <1>6
      <4> HIDE DEF Node
      <4> QED BY <4>1, <4>2, <2>1
    <3> QED BY <1>2, <1>3, <3>1 DEF SqliteType
  <2>4. nodes' \subseteq Node' /\ compacted' \subseteq {n.id : n \in nodes'}
        /\ lock' \in {"none", "store", "dag"} /\ \A c \in {"store", "dag"} : tx'[c].open => lock' = c
    BY <1>2, <1>3, <2>1 DEF SqliteType
  <2> QED BY <1>4, <1>6, <2>2, <2>3, <2>4 DEF SqliteType
<1>8. CallInv(t)' /\ TxInv(t)'
  <2>1. 1 \in 1..Len(Sqlite!Program[t]) /\ 1 \in 0..Len(Sqlite!Program[t])
    BY ProgramTable
  <2>2. Stands(Sqlite!At(t)', t, 1)
    BY <1>5, <2>1, Position DEF Sqlite!At
  <2>3. TxInv(t)'
    BY <2>2 DEF Stands, TxInv
  <2>4. call'[t].id \notin refused' /\ \A j \in Keys : rows'[j] # call'[t].id
    BY <1>2, <1>3, <1>5 DEF SqliteType
  <2>5. call'[t] \in [id : 1..calls', key : Keys, pc : 1..Len(Sqlite!Program[t])]
    BY <1>2, <1>4, <1>6, <2>1
  <2>6. ~RowWritten(t)' /\ ~NodeStored(t)'
    BY <1>5 DEF RowWritten, NodeStored
  <2> QED BY <2>3, <2>4, <2>5, <2>6 DEF CallInv
<1>9. ASSUME NEW s \in Sqlite!Threads \ {t}, call[s].pc # 0
      PROVE  /\ CallInv(s)' /\ TxInv(s)' /\ call[s].id # calls + 1
             /\ \A c : Sqlite!Holds(s, c)' = Sqlite!Holds(s, c)
  <2>1. CallInv(s) /\ TxInv(s) /\ call'[s] = call[s]
    BY <1>4, <1>9, CallFacts
  <2>2. call[s].id \in 1..calls
    BY <2>1 DEF CallInv
  <2>3. call'[s] \in [id : 1..calls', key : Keys, pc : 1..Len(Sqlite!Program[s])]
    BY <1>6, <2>1 DEF CallInv
  <2>4. CallInv(s)'
    BY <1>2, <2>1, <2>3 DEF CallInv, RowWritten, NodeStored
  <2> QED BY <1>2, <1>6, <2>1, <2>2, <2>4 DEF TxInv, Sqlite!At, Sqlite!Holds
<1>10. ASSUME NEW c \in {"store", "dag"} PROVE ~Sqlite!Holds(t, c)'
  <2>1. 1 \in 0..Len(Sqlite!Program[t])
    BY ProgramTable
  <2>2. Stands(Sqlite!At(t)', t, 1)
    BY <1>5, <2>1, Position DEF Sqlite!At
  <2> QED BY <1>5, <2>2 DEF Stands, Sqlite!Holds
<1>11. ASSUME NEW r \in Sqlite!Threads, NEW s \in Sqlite!Threads, r # s, Running(r)', Running(s)'
       PROVE  Apart(r, s)'
  <2>1. CASE r = t
    BY <2>1, <1>4, <1>5, <1>9, <1>10, <1>11 DEF Apart, Running
  <2>2. CASE s = t
    BY <2>2, <1>4, <1>5, <1>9, <1>10, <1>11 DEF Apart, Running
  <2>3. CASE r # t /\ s # t
    <3>1. Apart(r, s)
      BY <2>3, <1>4, <1>11 DEF SqliteInv, Running
    <3> QED BY <2>3, <3>1, <1>4, <1>9, <1>11 DEF Apart, Running
  <2> QED BY <2>1, <2>2, <2>3
<1>12. Sqlite!CallsAreAtomic'
  BY <1>2 DEF SqliteInv, Sqlite!CallsAreAtomic, Sqlite!NodeHasItsEdges, Sqlite!RefusedLeavesNoRow, Sqlite!AckedIsStored
<1>13. ASSUME NEW s \in Sqlite!Threads PROVE (call[s] = Sqlite!NoCall \/ (CallInv(s) /\ TxInv(s)))'
  <2>1. CASE s = t
    BY <2>1, <1>8
  <2>2. CASE s # t /\ call[s] = Sqlite!NoCall
    BY <2>2, <1>4 DEF Sqlite!NoCall
  <2>3. CASE s # t /\ CallInv(s)
    <3>1. call[s].pc # 0
      BY <2>3, ProgramTable DEF CallInv
    <3> QED BY <2>3, <3>1, <1>9
  <2> QED BY <2>1, <2>2, <2>3, CallFacts
<1> QED BY <1>7, <1>11, <1>12, <1>13 DEF SqliteInv
\* A statement that fails ends its call; what it leaves of its transaction is
\* seen by no other call, for none is inside that connection.
LEMMA CallFailSound ==
  ASSUME SqliteInv, NEW t \in Sqlite!Threads, Sqlite!Fail(t)
  PROVE  SqliteInv'
<1> DEFINE c == Sqlite!Conn(Sqlite!At(t))
<1>1. PICK left \in Sqlite!Leftovers(Sqlite!At(t)) :
         /\ tx' = [tx EXCEPT ![c] = left]
         /\ lock' = IF left.open THEN lock ELSE IF lock = c THEN "none" ELSE lock
  BY DEF Sqlite!Fail
<1>2. /\ Sqlite!At(t) \notin {"idle", "compact"} /\ Sqlite!Free(t, c) /\ c \in {"store", "dag"}
      /\ refused' = IF Sqlite!At(t) \in {"create", "upsert", "commit"} THEN refused \cup {call[t].id} ELSE refused
      /\ acked' = IF t = "inbound" /\ Sqlite!At(t) \in {"create", "upsert", "commit"}
                  THEN acked \cup {Sqlite!Ack(t)} ELSE acked
      /\ call' = [call EXCEPT ![t] = Sqlite!NoCall]
      /\ UNCHANGED <<rows, nodes, edges, compacted, calls>>
  BY DEF Sqlite!Fail, Sqlite!returns_ok, Sqlite!StoreRefuses, Sqlite!Conn
<1>3. /\ call[t].pc # 0 /\ CallInv(t) /\ Stands(Sqlite!At(t), t, call[t].pc) /\ SqliteType
  BY <1>2, CallFacts DEF Stands, SqliteInv
<1>4. call'[t] = Sqlite!NoCall /\ DOMAIN call' = Sqlite!Threads /\ \A s \in Sqlite!Threads \ {t} : call'[s] = call[s]
  BY <1>2, <1>3 DEF SqliteType
<1>5. left = tx[c] \/ left = Sqlite!NoTx
  BY DEF Sqlite!Leftovers, Sqlite!Conn
<1> HIDE DEF c
<1>6. /\ \A d \in {"store", "dag"} : tx'[d] = IF d = c THEN left ELSE tx[d]
      /\ tx' \in [{"store", "dag"} -> [open : BOOLEAN, row : {<<>>} \cup Keys \X (1..calls),
                                       node : SUBSET Node, edges : SUBSET (Nat \X Nat)]]
  <2>1. Sqlite!NoTx \in [open : BOOLEAN, row : {<<>>} \cup Keys \X (1..calls),
                         node : SUBSET Node, edges : SUBSET (Nat \X Nat)]
    BY DEF Sqlite!NoTx
  <2>2. tx \in [{"store", "dag"} -> [open : BOOLEAN, row : {<<>>} \cup Keys \X (1..calls),
                                       node : SUBSET Node, edges : SUBSET (Nat \X Nat)]]
    BY <1>3 DEF SqliteType
  <2>3. left \in [open : BOOLEAN, row : {<<>>} \cup Keys \X (1..calls),
                         node : SUBSET Node, edges : SUBSET (Nat \X Nat)]
    BY <1>2, <1>5, <2>1, <2>2
  <2> QED BY <1>1, <1>2, <2>2, <2>3
<1>7. lock' \in {"none", "store", "dag"} /\ \A d \in {"store", "dag"} : tx'[d].open => lock' = d
  <2>1. \A d \in {"store", "dag"} : tx[d].open => lock = d
    BY <1>3 DEF SqliteType
  <2>2. left.open => tx[c].open
    BY <1>5 DEF Sqlite!NoTx
  <2>3. lock \in {"none", "store", "dag"}
    BY <1>3 DEF SqliteType
  <2> QED BY <1>1, <1>2, <1>6, <2>1, <2>2, <2>3
<1>8. call[t].id \in 1..calls /\ call[t].key \in Keys /\ Sqlite!Ack(t) \in Acks
  BY <1>3 DEF CallInv, Acks, Sqlite!Ack
<1>9. SqliteType'
  BY <1>2, <1>3, <1>4, <1>6, <1>7, <1>8 DEF SqliteType, Acks, Node
<1>10. ASSUME NEW s \in Sqlite!Threads \ {t}, call[s].pc # 0
       PROVE  /\ CallInv(s)' /\ TxInv(s)'
              /\ \A d : Sqlite!Holds(s, d)' = Sqlite!Holds(s, d)
  <2>1. CallInv(s) /\ call'[s] = call[s]
    BY <1>4, <1>10, CallFacts
  <2>2. call[s].id # call[t].id
    BY <1>3, <1>10 DEF SqliteInv, Apart, Running
  <2>3. CallInv(s)'
    BY <1>2, <2>1, <2>2 DEF CallInv, RowWritten, NodeStored
  <2>4. TxInv(s)'
    BY <1>2, <1>6, <1>10, <2>1, TxKept
  <2> QED BY <2>1, <2>3, <2>4 DEF Sqlite!At, Sqlite!Holds
<1>11. ASSUME NEW r \in Sqlite!Threads, NEW s \in Sqlite!Threads, r # s, Running(r)', Running(s)'
       PROVE  Apart(r, s)'
  <2>1. r # t /\ s # t /\ Running(r) /\ Running(s) /\ call'[r] = call[r] /\ call'[s] = call[s]
    BY <1>4, <1>11 DEF Running, Sqlite!NoCall
  <2>2. Apart(r, s)
    BY <2>1, <1>11 DEF SqliteInv
  <2> QED BY <2>1, <2>2, <1>10 DEF Apart, Running
<1>12. Sqlite!RefusedLeavesNoRow'
  <2>1. Sqlite!RefusedLeavesNoRow
    BY DEF SqliteInv, Sqlite!CallsAreAtomic
  <2>2. Sqlite!At(t) \in {"create", "upsert", "commit"} => ~RowWritten(t)
    BY <1>3 DEF Stands, RowWritten
  <2>3. ~RowWritten(t) => \A k \in Keys : rows[k] # call[t].id
    BY <1>3 DEF CallInv
  <2> QED BY <1>2, <2>1, <2>2, <2>3 DEF Sqlite!RefusedLeavesNoRow
<1>13. Sqlite!NodeHasItsEdges' /\ Sqlite!AckedIsStored'
  <2>1. Sqlite!NodeHasItsEdges /\ Sqlite!AckedIsStored
    BY DEF SqliteInv, Sqlite!CallsAreAtomic
  <2>2. Sqlite!NodeHasItsEdges'
    BY <1>2, <2>1 DEF Sqlite!NodeHasItsEdges
  <2>3. ASSUME NEW a \in acked'
        PROVE  (\E n \in nodes : n.id = a.id) /\ (rows[a.key] # 0 \/ (a.by = "inbound" /\ a.id \in refused'))
    <3>1. CASE a \in acked
      BY <1>2, <2>1, <3>1 DEF Sqlite!AckedIsStored
    <3>2. CASE t = "inbound" /\ Sqlite!At(t) \in {"create", "upsert", "commit"} /\ a = Sqlite!Ack(t)
      <4>1. a.id = call[t].id /\ a.by = "inbound" /\ a.id \in refused'
        BY <1>2, <3>2 DEF Sqlite!Ack
      <4>2. NodeStored(t)
        BY <1>3, <3>2 DEF Stands, NodeStored
      <4> QED BY <1>3, <4>1, <4>2 DEF CallInv
    <3> QED BY <1>2, <2>3, <3>1, <3>2
  <2> QED BY <1>2, <2>2, <2>3 DEF Sqlite!AckedIsStored
<1>14. ASSUME NEW s \in Sqlite!Threads PROVE (call[s] = Sqlite!NoCall \/ (CallInv(s) /\ TxInv(s)))'
  <2>1. CASE s = t
    BY <2>1, <1>4 DEF Sqlite!NoCall
  <2>2. CASE s # t /\ call[s] = Sqlite!NoCall
    BY <2>2, <1>4 DEF Sqlite!NoCall
  <2>3. CASE s # t /\ CallInv(s)
    <3>1. call[s].pc # 0
      BY <2>3, ProgramTable DEF CallInv
    <3> QED BY <2>3, <3>1, <1>10
  <2> QED BY <2>1, <2>2, <2>3, CallFacts
<1> QED BY <1>9, <1>11, <1>12, <1>13, <1>14 DEF SqliteInv, Sqlite!CallsAreAtomic

\* Kill and reopen: nothing is running, nothing uncommitted is kept.
LEMMA KillSound ==
  ASSUME SqliteInv, Sqlite!Crash \/ Sqlite!open \/ UNCHANGED Sqlite!vars
  PROVE  SqliteInv'
<1>1. CASE Sqlite!Crash
  <2>1. /\ tx' = [c \in {"store", "dag"} |-> Sqlite!NoTx] /\ lock' = "none"
        /\ call' = [t \in Sqlite!Threads |-> Sqlite!NoCall]
        /\ UNCHANGED <<rows, nodes, edges, compacted, calls, refused, acked>>
    BY <1>1 DEF Sqlite!Crash
  <2>2. Sqlite!NoTx \in [open : BOOLEAN, row : {<<>>} \cup Keys \X (1..calls),
                         node : SUBSET Node, edges : SUBSET (Nat \X Nat)] /\ ~Sqlite!NoTx.open
    BY DEF Sqlite!NoTx
  <2>3. SqliteType'
    BY <2>1, <2>2 DEF SqliteInv, SqliteType, Acks, Node
  <2>4. \A t \in Sqlite!Threads : call'[t] = Sqlite!NoCall /\ ~Running(t)'
    BY <2>1 DEF Running, Sqlite!NoCall
  <2>5. Sqlite!CallsAreAtomic'
    BY <2>1 DEF SqliteInv, Sqlite!CallsAreAtomic, Sqlite!NodeHasItsEdges, Sqlite!RefusedLeavesNoRow, Sqlite!AckedIsStored
  <2> QED BY <2>3, <2>4, <2>5 DEF SqliteInv
<1>2. CASE UNCHANGED <<rows, nodes, edges, compacted, tx, lock, call, calls, refused, acked>>
  BY <1>2 DEF SqliteInv, SqliteType, Acks, Node, CallInv, TxInv, Apart, Running, RowWritten, NodeStored,
     Sqlite!At, Sqlite!Holds, Sqlite!CallsAreAtomic, Sqlite!NodeHasItsEdges, Sqlite!RefusedLeavesNoRow, Sqlite!AckedIsStored
<1> QED BY <1>1, <1>2 DEF Sqlite!open, Sqlite!vars

\* An empty database and two idle calls.
LEMMA SqliteInitInv == Sqlite!Init => SqliteInv
<1> SUFFICES ASSUME Sqlite!Init PROVE SqliteInv
  OBVIOUS
<1>1. Sqlite!NoTx \in [open : BOOLEAN, row : {<<>>} \cup Keys \X (1..calls),
                       node : SUBSET Node, edges : SUBSET (Nat \X Nat)] /\ ~Sqlite!NoTx.open
  BY DEF Sqlite!NoTx
<1>2. SqliteType
  BY <1>1 DEF Sqlite!Init, SqliteType, Acks, Node
<1>3. \A t \in Sqlite!Threads : call[t] = Sqlite!NoCall /\ ~Running(t)
  BY DEF Running, Sqlite!NoCall, Sqlite!Init
<1>4. Sqlite!CallsAreAtomic
  BY DEF Sqlite!Init, Sqlite!CallsAreAtomic, Sqlite!NodeHasItsEdges, Sqlite!RefusedLeavesNoRow, Sqlite!AckedIsStored
<1> QED BY <1>2, <1>3, <1>4 DEF SqliteInv

\* Every statement, every commit, every failure and a kill keep the invariant.
LEMMA SqliteStepInv == SqliteInv /\ [Sqlite!Next]_(Sqlite!vars) => SqliteInv'
  BY QuietSound, UpsertSound, CommitSound, NodeSound, EdgesSound, InsertCommitSound,
     CompactSound, BeginSound, CallFailSound, KillSound DEF Sqlite!Next

\* The inductive invariant of the SQLite store: who holds the connection's
\* transaction, and which of its statements have been executed.
THEOREM SqliteInvariant == SqliteSpec => []SqliteInv
  BY SqliteInitInv, SqliteStepInv, PTL DEF SqliteSpec

\* The device runs the SQLite store or leaves it alone.
LEMMA SqliteRuns == DeviceSpec => SqliteSpec
<1>1. DeviceInit => Sqlite!Init
  BY DEF DeviceInit
<1>2. [DeviceNext]_allVars => [Sqlite!Next]_(Sqlite!vars)
  BY DEF DeviceNext, allVars, sqliteVars, Sqlite!vars, RevocationStep, ContaminationStep, SqliteStep, IndexedDbStep,
         InitStep, SdkStep, OrderStep, LanguageStep
<1> QED BY <1>1, <1>2, PTL DEF DeviceSpec, SqliteSpec

\* For every interleaving of calls on the two connections, of failed statements
\* and of kills: no DAG node is stored without its edges (insert_node), no row
\* of a refused write stays (upsert), and what returned Ok, a receipt included,
\* keeps its node, and its row unless it is an inbound delta the store refused.
THEOREM CallsStayAtomic == DeviceSpec => []CallsAreAtomic
<1>1. SqliteInv => CallsAreAtomic
  BY DEF SqliteInv, CallsAreAtomic
<1> QED BY SqliteRuns, SqliteInvariant, <1>1, PTL

\* Type correctness of the SQLite store: the numbers stay within the bound on
\* calls, compaction marks stored nodes, and an open transaction holds the lock.
THEOREM SqliteTypes ==
  ASSUME MaxCalls \in Nat
  PROVE  SqliteSpec => []Sqlite!TypeOK
<1> DEFINE Bounded == calls <= MaxCalls
<1>1. Sqlite!Init => Bounded
  BY DEF Sqlite!Init
<1>2. SqliteInv /\ Bounded /\ [Sqlite!Next]_(Sqlite!vars) => Bounded'
  <2>1. ASSUME NEW t \in Sqlite!Threads, SqliteInv, Sqlite!Begin(t), Bounded PROVE Bounded'
    BY <2>1 DEF SqliteInv, SqliteType, Sqlite!Begin
  <2>2. [Sqlite!Next]_(Sqlite!vars) => calls' = calls \/ \E t \in Sqlite!Threads : Sqlite!Begin(t)
    BY DEF Sqlite!Next, Sqlite!vars, Sqlite!open, Sqlite!Crash, Sqlite!create, Sqlite!upsert,
       Sqlite!commit, Sqlite!insert_node, Sqlite!insert_edges, Sqlite!insert_commit, Sqlite!compact_table,
       Sqlite!Fail
  <2> QED BY <2>1, <2>2
<1>3. SqliteInv /\ Bounded => Sqlite!TypeOK
  BY DEF SqliteInv, SqliteType, Acks, Node, Sqlite!TypeOK
<1> QED BY <1>1, <1>2, <1>3, SqliteInvariant, PTL DEF SqliteSpec

-----------------------------------------------------------------------------
\* Type correctness of all the machines of a device: for every deployment and
\* all bounds, whichever machine runs, its state keeps the types and the
\* bounds that its code relies on.
THEOREM DeviceTypes ==
  ASSUME MaxStarts \in Nat, MaxInits \in Nat, MaxEvents \in Nat, MaxWrites \in Nat \ {0},
         MaxCalls \in Nat, NEW Definitions, Deployments \subseteq Seq(Definitions)
  PROVE  DeviceSpec => []TypesOK
<1>1. /\ StartSpec => []Start!TypeOK
      /\ SdkSpec => []App!TypeOK
      /\ CceSpec => []Cce!TypeOK
      /\ IdbSpec => []Idb!TypeOK
      /\ SqliteSpec => []Sqlite!TypeOK
      /\ LanguageSpec => []Lang!TypeOK
  BY StartTypes, SdkTypes, CceTypes, IdbTypes, SqliteTypes, LanguageTypes
<1>2. Start!TypeOK /\ App!TypeOK /\ Cce!TypeOK /\ Idb!TypeOK /\ Sqlite!TypeOK /\ Lang!TypeOK => TypesOK
  BY Zenon DEF TypesOK
<1> QED BY <1>1, <1>2, StartRuns, SdkRuns, CceRuns, IdbRuns, SqliteRuns, LanguageRuns, PTL
=============================================================================
