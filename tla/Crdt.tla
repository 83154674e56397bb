-------------------------------- MODULE Crdt --------------------------------
(***************************************************************************)
(* Devices that write rows and exchange deltas: the three locked phases of *)
(* CoreHandle::write, CrdtEngine::apply with its read-back verification,   *)
(* the projection into the local store after the engine lock was given up, *)
(* and a restart that keeps the store and the DAG but neither the Automerge*)
(* document nor the Lamport clock (crdt/mod.rs, crdt/verify.rs,            *)
(* api/mod.rs).                                                            *)
(*                                                                         *)
(* An Automerge document is its set of put operations; merging is union.   *)
(* A produced delta may be lost, duplicated and received in any order.     *)
(***************************************************************************)
EXTENDS Integers, Sequences, FiniteSets

CONSTANTS
    Devices,     \* their numbers order their actor ids
    Keys,        \* row keys of one table
    RegOrder,    \* the document's root keys in key order
    MaxWrites,   \* bound: write() calls
    MaxLamport,  \* bound: Lamport clock
    MaxRestarts, \* bound: process restarts
    None

\* The root key that tells which row the writer meant.
RowKey == "_tirbase_key"

VARIABLES
    doc,        \* CrdtEngine.doc
    lamport,    \* CrdtEngine.lamport
    dag,        \* persisted DAG: ids of the deltas each device inserted
    store,      \* persisted projection rows
    writing,    \* the write() in progress
    merged,     \* the merged delta the inbound loop still has to project
    deltas,     \* every delta produced so far
    writes,     \* write() calls so far
    overridden, \* verify_and_override has changed a document (history)
    restarts

vars == <<doc, lamport, dag, store, writing, merged, deltas, writes, overridden, restarts>>

Dag == INSTANCE ChangesetDag

Init ==
    /\ doc = [d \in Devices |-> {}]
    /\ lamport = [d \in Devices |-> 0]
    /\ dag = [d \in Devices |-> {}]
    /\ store = [d \in Devices |-> [k \in Keys |-> None]]
    /\ writing = [d \in Devices |-> None]
    /\ merged = [d \in Devices |-> None]
    /\ deltas = {} /\ writes = 0 /\ overridden = FALSE
    /\ restarts = [d \in Devices |-> 0]

-----------------------------------------------------------------------------
\* Automerge, as the engine uses it.

OpId(o) == <<o.ctr, o.actor>>

Later(o, p) == o.ctr > p.ctr \/ (o.ctr = p.ctr /\ o.actor > p.actor)

\* Operations on a root key that no other operation of the document replaced.
Visible(ops, reg) ==
    {o \in ops : o.reg = reg /\ \A p \in ops : OpId(o) \notin p.pred}

\* The winner among them: greatest counter, then greatest actor.
Winner(ops, reg) == CHOOSE o \in Visible(ops, reg) : \A p \in Visible(ops, reg) : o = p \/ Later(o, p)

Has(ops, reg) == \E o \in ops : o.reg = reg

MaxCtr(ops) == IF ops = {} THEN 0 ELSE CHOOSE c \in {o.ctr : o \in ops} : \A o \in ops : o.ctr <= c

\* A put.  Putting the only visible value again is no operation.
put(ops, d, reg, val) ==
    LET vis == Visible(ops, reg) IN
    IF \E o \in vis : vis = {o} /\ o.val = val
    THEN ops
    ELSE ops \cup {[reg |-> reg, val |-> val, actor |-> d, ctr |-> MaxCtr(ops) + 1,
                    n |-> Cardinality({o \in ops : o.actor = d}) + 1,
                    pred |-> {OpId(o) : o \in vis}]}

\* Merging fails when an actor's changes were numbered twice.
DuplicateSeq(mine, theirs) ==
    \E o \in theirs \ mine : \E p \in mine : p.actor = o.actor /\ p.n = o.n

-----------------------------------------------------------------------------
\* CoreHandle::write, first lock: LocalStore::write.
StoreWrite(d, k) ==
    /\ writing[d] = None /\ writes < MaxWrites
    /\ writes' = writes + 1
    /\ store' = [store EXCEPT ![d][k] = writes']
    /\ writing' = [writing EXCEPT ![d] = [phase |-> "stored", key |-> k, val |-> writes', bytes |-> {}]]
    /\ UNCHANGED <<doc, lamport, dag, merged, deltas, overridden, restarts>>

\* Mutant: the document is saved before the value is put.
write_scalar_early_save(d) ==
    LET w == writing[d]
        ops == put(doc[d], d, RowKey, w.key)
    IN  /\ w # None /\ w.phase = "stored"
        /\ doc' = [doc EXCEPT ![d] = put(ops, d, w.key, w.val)]
        /\ writing' = [writing EXCEPT ![d].phase = "put", ![d].bytes = ops]
        /\ UNCHANGED <<lamport, dag, store, merged, deltas, writes, overridden, restarts>>

\* Second lock: the row key, then the value, and the saved document.
write_scalar(d) ==
    LET w == writing[d]
        ops == put(put(doc[d], d, RowKey, w.key), d, w.key, w.val)
    IN  /\ w # None /\ w.phase = "stored"
        /\ doc' = [doc EXCEPT ![d] = ops]
        /\ writing' = [writing EXCEPT ![d].phase = "put", ![d].bytes = ops]
        /\ UNCHANGED <<lamport, dag, store, merged, deltas, writes, overridden, restarts>>

Nodes(d) == {x \in deltas : x.id \in dag[d]}

\* Third lock: clock, parents, signature, DAG node; then the delta is sent.
produce_delta_with_tags(d) ==
    LET w == writing[d]
        x == [id |-> w.val, author |-> d, key |-> w.key, bytes |-> w.bytes,
              lamport |-> lamport'[d], parents |-> Dag!dag_tips(Nodes(d)),
              life |-> restarts[d]]
    IN  /\ w # None /\ w.phase = "put" /\ lamport[d] < MaxLamport
        /\ lamport' = [lamport EXCEPT ![d] = @ + 1]
        /\ dag' = [dag EXCEPT ![d] = @ \cup {x.id}]
        /\ deltas' = deltas \cup {x}
        /\ writing' = [writing EXCEPT ![d] = None]
        /\ UNCHANGED <<doc, store, merged, writes, overridden, restarts>>

-----------------------------------------------------------------------------
\* Root keys both documents hold, with different winning operations.
capture_conflicts(mine, theirs) ==
    {reg \in Keys \cup {RowKey} :
        /\ Has(mine, reg) /\ Has(theirs, reg)
        /\ OpId(Winner(mine, reg)) # OpId(Winner(theirs, reg))}

\* Every conflict in key order: where the merge kept the local operation, the
\* incoming value is put again.
Overrides(d, mine, theirs) ==
    LET conflicts == capture_conflicts(mine, theirs)
        after[i \in 0..Len(RegOrder)] ==
            IF i = 0 THEN mine \cup theirs
            ELSE LET ops == after[i - 1]
                     reg == RegOrder[i]
                 IN  IF reg \in conflicts /\ OpId(Winner(ops, reg)) = OpId(Winner(mine, reg))
                     THEN put(ops, d, reg, Winner(theirs, reg).val)
                     ELSE ops
    IN  after[Len(RegOrder)]

\* Only when the delta's clock exceeds the engine's: the definitive zone.
verify_and_override(d, x) ==
    IF x.lamport > lamport[d] THEN Overrides(d, doc[d], x.bytes) ELSE doc[d] \cup x.bytes

\* Mutant: the clock takes no notice of the incoming one.
AdvanceLamport_local(d, x) == lamport[d] + 1

AdvanceLamport(d, x) ==
    (IF x.lamport > lamport[d] THEN x.lamport ELSE lamport[d]) + 1

\* receive_inbound, first lock: CrdtEngine::apply of an accepted delta.  A
\* failing merge returns before the clock and the DAG.
apply(d, x) ==
    /\ merged[d] = None /\ x.author # d
    /\ AdvanceLamport(d, x) <= MaxLamport
    /\ ~DuplicateSeq(doc[d], x.bytes)
    /\ doc' = [doc EXCEPT ![d] = verify_and_override(d, x)]
    /\ overridden' = (overridden \/ doc'[d] # doc[d] \cup x.bytes)
    /\ lamport' = [lamport EXCEPT ![d] = AdvanceLamport(d, x)]
    /\ dag' = [dag EXCEPT ![d] = @ \cup {x.id}]
    /\ merged' = [merged EXCEPT ![d] = x.key]
    /\ UNCHANGED <<store, writing, deltas, writes, restarts>>

\* Second lock: the row the merged document names, whichever delta that is.
ProjectMerged(d) ==
    LET key == Winner(doc[d], RowKey).val IN
    /\ merged[d] # None
    /\ store' = IF Has(doc[d], RowKey) /\ Has(doc[d], key)
                THEN [store EXCEPT ![d][key] = Winner(doc[d], key).val] ELSE store
    /\ merged' = [merged EXCEPT ![d] = None]
    /\ UNCHANGED <<doc, lamport, dag, writing, deltas, writes, overridden, restarts>>

\* A new CrdtEngine over the same database.
Restart(d) ==
    /\ restarts[d] < MaxRestarts
    /\ restarts' = [restarts EXCEPT ![d] = @ + 1]
    /\ doc' = [doc EXCEPT ![d] = {}]
    /\ lamport' = [lamport EXCEPT ![d] = 0]
    /\ writing' = [writing EXCEPT ![d] = None]
    /\ merged' = [merged EXCEPT ![d] = None]
    /\ UNCHANGED <<dag, store, deltas, writes, overridden>>

Next ==
    \E d \in Devices :
        \/ \E k \in Keys : StoreWrite(d, k)
        \/ write_scalar(d)
        \/ produce_delta_with_tags(d)
        \/ \E x \in deltas : apply(d, x)
        \/ ProjectMerged(d)
        \/ Restart(d)

-----------------------------------------------------------------------------
TypeOK ==
    \A d \in Devices :
        /\ lamport[d] \in 0..MaxLamport
        /\ dag[d] \subseteq {x.id : x \in deltas}
        /\ store[d] \in [Keys -> (1..MaxWrites) \cup {None}]
        /\ \A o \in doc[d] : o.reg \in Keys \cup {RowKey} /\ o.actor \in Devices

\* Without a restart of its author, a delta's clock exceeds those of its
\* causal parents, whoever wrote them and in whatever order they came.
LamportCausal ==
    \A x, p \in deltas : p.id \in x.parents /\ x.life = 0 => x.lamport > p.lamport

\* A delta produced over a DAG without gaps has that whole DAG as its past.
TipsCoverDag ==
    [][\A x \in deltas' \ deltas :
         Dag!Closed(Nodes(x.author)) => dag[x.author] \subseteq Dag!Ancestors(deltas', x.parents)]_vars

Settled(d) == writing[d] = None /\ merged[d] = None

\* Devices that inserted the same deltas hold the same document, unless the
\* read-back verification rewrote one or a device lost its document.
SameDeltasSameDoc ==
    \A d, e \in Devices :
        /\ Settled(d) /\ Settled(e) /\ dag[d] = dag[e]
        /\ ~overridden /\ restarts[d] = 0 /\ restarts[e] = 0
        => doc[d] = doc[e]

\* A received document can be merged unless its writer, or the receiver, lost
\* its own and numbered changes twice.
MergeFailsAfterRestartOnly ==
    \A d \in Devices, x \in deltas :
        DuplicateSeq(doc[d], x.bytes) => \E e \in Devices : restarts[e] > 0

\* Devices that did not lose their memory number consistently: clocks grow
\* along causality, and no change number is given twice (produce_delta, apply).
NumbersAreCausal == LamportCausal /\ MergeFailsAfterRestartOnly

-----------------------------------------------------------------------------
\* What the comments claim and the code does not do (see README).

\* verify.rs: in the definitive zone the incoming value is the rightful one;
\* so a value that a later write of the row replaced never wins again.
ReplacedStaysReplaced ==
    [][\A d \in Devices, k \in Keys : restarts' = restarts =>
         \A o \in doc[d] :
            o.reg = k /\ o \notin Visible(doc[d], k) /\ Winner(doc[d], k).val # o.val =>
                Winner(doc'[d], k).val # o.val]_vars
=============================================================================
