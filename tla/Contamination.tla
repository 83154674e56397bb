---------------------------- MODULE Contamination ---------------------------
(***************************************************************************)
(* The Causal Contamination Engine (contamination/): roots are tagged by   *)
(* revocations, bad migrations and writes on contaminated rows; a manager  *)
(* verifies roots or closes incidents; deltas keep arriving meanwhile.     *)
(* The tag log and the row flags are on disk, incidents are not.           *)
(*                                                                         *)
(* Deltas are numbered by arrival.  The tag log is kept as relations, the  *)
(* incidents (simple and composite) in one sequence indexed by their id.   *)
(***************************************************************************)
EXTENDS Integers, Sequences, FiniteSets

CONSTANTS
    Rows,         \* projection rows, each a key of some table
    row_key,      \* row -> its key, which rows of other tables may share
    Markers,      \* migration ids: roots that are no DAG node
    MaxDeltas,    \* bound: deltas inserted
    MaxIncidents, \* bound: incidents, composites included
    MaxRestarts,  \* bound: process restarts
    None

VARIABLES
    build,        \* "native" or "wasm"
    nodes,        \* persisted DAG
    rows,         \* rows that exist in the projection
    flags,        \* rows with contaminated = 1
    contaminated, \* Contaminated tags: <<delta, root>>
    decontaminated, \* Decontaminated tags: <<delta, roots of the incident>>
    resolved,     \* deltas with a Resolved tag
    incidents,    \* incidents and composite_incidents
    contaminated_rows, \* row -> incident
    writing,      \* the write() between its look-up and its delta
    closed,       \* roots of incidents a manager has closed (history)
    restarts

cceVars == <<build, nodes, rows, flags, contaminated, decontaminated, resolved, incidents,
             contaminated_rows, writing, closed, restarts>>

Dag == INSTANCE ChangesetDag

Native == build = "native"
Ids == {n.id : n \in nodes}

\* The bound on deltas, which a restart and a migration marker share.
Tagged == Markers \cap UNION {incidents[i].roots : i \in 1..Len(incidents)}
Room   == Cardinality(nodes) + Cardinality(Tagged) + restarts < MaxDeltas

Init ==
    /\ build \in {"native", "wasm"}
    /\ nodes = {} /\ rows = {} /\ flags = {}
    /\ contaminated = {} /\ decontaminated = {} /\ resolved = {}
    /\ incidents = <<>>
    /\ contaminated_rows = [r \in Rows |-> None]
    /\ writing = None /\ closed = {} /\ restarts = 0

-----------------------------------------------------------------------------
\* The browser build never inserts into the engine's own DAG, so a walk finds
\* the root alone.
walk_dag_descendants(root) == IF Native THEN Dag!bfs_descendants(nodes, root) ELSE {root}

\* Native: every projection row.  Browser: the rows the deltas wrote.
resolve_affected_rows(ds) ==
    IF Native THEN rows ELSE {n.row : n \in {m \in nodes : m.id \in ds}}

\* Mutant: a tag is stored for any id.
Taggable_any(d) == TRUE

\* append_tag updates the delta's own DAG row; without one nothing happens
\* natively, while the browser's tag store takes any id.
Taggable(d) == d \in Ids \/ ~Native

Ico(roots, ds, affected, composite) ==
    [state |-> "Open", roots |-> roots, deltas |-> ds, rows |-> affected, composite |-> composite]

Simple(i) == ~incidents[i].composite

\* Open simple incidents that share a delta with the new one.
Overlapping(icos, ds) ==
    {i \in 1..Len(icos) : ~icos[i].composite /\ icos[i].state = "Open" /\ icos[i].deltas \cap ds # {}}

KeysOf(S) == {row_key[r] : r \in S}

\* Rows are joined by their key alone: of the second list one row per key that
\* the first lacks, whichever comes first.
JoinedByKey(first, second) ==
    {first \cup S : S \in {T \in SUBSET second :
        /\ KeysOf(T) = KeysOf(second) \ KeysOf(first)
        /\ \A r, q \in T : row_key[r] = row_key[q] => r = q}}

\* composite_merge: the union of both, which are superseded.
composite_merge(icos, a, b) ==
    {Append([icos EXCEPT ![a].state = "Superseded", ![b].state = "Superseded"],
            Ico(icos[a].roots \cup icos[b].roots, icos[a].deltas \cup icos[b].deltas, affected, TRUE)) :
        affected \in JoinedByKey(icos[a].rows, icos[b].rows)}

Point(index, affected, i) == [r \in Rows |-> IF r \in affected THEN i ELSE index[r]]

\* The new incident, and the composite if it overlaps an open one.
Opened(root, ds, affected) ==
    LET icos == Append(incidents, Ico({root}, ds, affected, FALSE))
        n    == Len(icos)
    IN  IF Overlapping(incidents, ds) = {} THEN {icos}
        ELSE UNION {composite_merge(icos, a, n) : a \in Overlapping(incidents, ds)}

\* tag_contamination_root without its frame.
TagRoot(root) ==
    LET ds == walk_dag_descendants(root)
        affected == resolve_affected_rows(ds)
    IN  /\ Len(incidents) + 2 <= MaxIncidents
        /\ \E icos \in Opened(root, ds, affected) :
              /\ incidents' = icos
              /\ contaminated_rows' = Point(contaminated_rows, icos[Len(icos)].rows, Len(icos))
        /\ contaminated' = contaminated \cup {<<d, root>> : d \in {x \in ds : Taggable(x)}}
        /\ flags' = IF Native THEN flags \cup affected ELSE flags

tag_contamination_root(root) ==
    /\ TagRoot(root)
    /\ UNCHANGED <<build, nodes, rows, decontaminated, resolved, writing, closed, restarts>>

-----------------------------------------------------------------------------
\* A merged delta of a peer, projected into the store.
Insert(r, ps) ==
    /\ Room
    /\ nodes' = nodes \cup {[id |-> Cardinality(nodes) + 1, parents |-> ps, row |-> r]}
    /\ rows' = rows \cup {r}

receive_delta(r, ps) ==
    /\ Insert(r, ps)
    /\ UNCHANGED <<build, flags, contaminated, decontaminated, resolved, incidents,
                   contaminated_rows, writing, closed, restarts>>

is_row_contaminated(r) == contaminated_rows[r] # None

\* CoreHandle::write: the contamination of the row is read, ...
LookupRow(r) ==
    /\ writing = None /\ Room
    /\ writing' = [row |-> r, tag |-> is_row_contaminated(r), root |-> None]
    /\ UNCHANGED <<build, nodes, rows, flags, contaminated, decontaminated, resolved, incidents,
                   contaminated_rows, closed, restarts>>

\* ... the delta is produced over the DAG's tips, ...
ProduceDelta ==
    /\ writing # None /\ writing.root = None
    /\ Insert(writing.row, Dag!dag_tips(nodes))
    /\ writing' = IF writing.tag THEN [writing EXCEPT !.root = Cardinality(nodes')] ELSE None
    /\ UNCHANGED <<build, flags, contaminated, decontaminated, resolved, incidents,
                   contaminated_rows, closed, restarts>>

\* ... and is a root of its own if the row was contaminated at the look-up.
HumanReaction ==
    /\ writing # None /\ writing.root # None
    /\ TagRoot(writing.root)
    /\ writing' = None
    /\ UNCHANGED <<build, nodes, rows, decontaminated, resolved, closed, restarts>>

-----------------------------------------------------------------------------
\* verify_data, step by step.

Listing(icos, root) == {i \in 1..Len(icos) : root \in icos[i].roots}

AllResolved(ico, res) == ico.roots \subseteq res

\* Decontaminated tags of an incident, for the stored ones of some deltas.
ClearedFor(ico, ds) == {<<d, ico.roots>> : d \in ds \cap Ids}

\* Step 3: resolved simple incidents, whatever their state, are cleared.
Settled(icos, root, res) ==
    {i \in Listing(icos, root) : ~icos[i].composite /\ AllResolved(icos[i], res)}

\* Mutant: nobody looks at the live DAG.
Late_none(ico, roots) == {}

\* walk_late_arrival_descendants: below these roots now, not in the snapshot.
Late(ico, roots) == (UNION {walk_dag_descendants(r) : r \in roots}) \ ico.deltas

\* Step 4, for every simple and every open composite incident of the root: from
\* all its roots once they are resolved, else from the unresolved ones.
Walked(icos, root) == {i \in Listing(icos, root) : icos[i].composite => icos[i].state = "Open"}

WalkedRoots(ico, res) == IF AllResolved(ico, res) THEN ico.roots ELSE ico.roots \ res

\* Late arrivals are cleared with a resolved incident, ...
LateCleared(icos, root, res) ==
    UNION {ClearedFor(icos[i], Late(icos[i], icos[i].roots)) : i \in {k \in Walked(icos, root) : AllResolved(icos[k], res)}}

\* ... contaminated with another, under the one unresolved root they lie below
\* (of two, the one just verified is a marker, which has no descendants), ...
LateTainted(icos, root, res) ==
    UNION {UNION {{<<d, r>> : d \in Late(icos[i], {r}) \cap Ids} : r \in icos[i].roots \ res} :
             i \in {k \in Walked(icos, root) : ~AllResolved(icos[k], res)}}

\* ... and join it.
Joined(icos, root, res) ==
    [i \in 1..Len(icos) |->
        IF i \in Walked(icos, root) THEN [icos[i] EXCEPT !.deltas = @ \cup Late(icos[i], WalkedRoots(icos[i], res))]
        ELSE icos[i]]

\* Step 5, decompose_composites_if_needed: composites that listed the root, with
\* the roots that survive it, ...
Survivors(icos, root, res) ==
    UNION {{<<i, r>> : r \in icos[i].roots \ res} : i \in {k \in Listing(icos, root) : icos[k].composite}}

Orders(S) == {f \in [1..Cardinality(S) -> S] : \A i, k \in DOMAIN f : f[i] = f[k] => i = k}

\* ... are taken apart, ...
TakenApart(icos, root) ==
    [i \in 1..Len(icos) |->
        IF i \in Listing(icos, root) /\ icos[i].composite THEN [icos[i] EXCEPT !.state = "Decomposed"] ELSE icos[i]]

\* ... and a fresh incident opened per survivor, in the order the map yields them.
Fresh(order) ==
    [k \in 1..Len(order) |->
        LET ds == walk_dag_descendants(order[k][2])
        IN  Ico({order[k][2]}, ds, resolve_affected_rows(ds), FALSE)]

\* Mutant: the rows keep pointing at the composite that was taken apart.
Repointed_not(index, old, icos) == index

\* The index points at the fresh incidents, the last one for all rows, ...
Repointed(index, old, icos) ==
    IF Len(icos) = old THEN index ELSE Point(index, icos[Len(icos)].rows, Len(icos))

\* ... and keeps a row while its incident is open and has an unresolved root.
Pruned(index, icos, res) ==
    [r \in Rows |-> IF index[r] # None /\ icos[index[r]].state = "Open" /\ ~(icos[index[r]].roots \subseteq res)
                    THEN index[r] ELSE None]

\* Fresh incidents mark every row again.
verify_data(root) ==
    LET res     == IF Taggable(root) THEN resolved \cup {root} ELSE resolved
        settled == Settled(incidents, root, res)
        joined  == Joined(incidents, root, res)
    IN  /\ Native
        /\ resolved' = res
        /\ decontaminated' = decontaminated \cup LateCleared(incidents, root, res)
                              \cup UNION {ClearedFor(incidents[i], incidents[i].deltas) : i \in settled}
        /\ contaminated' = contaminated \cup LateTainted(incidents, root, res)
        /\ \E order \in Orders(Survivors(joined, root, res)) :
              /\ Len(incidents) + Len(order) <= MaxIncidents
              /\ incidents' = TakenApart(joined, root) \o Fresh(order)
              /\ flags' = (flags \ UNION {incidents[i].rows : i \in settled})
                          \cup (IF order = <<>> THEN {} ELSE rows)
              /\ contaminated_rows' =
                    Pruned(Repointed(contaminated_rows, Len(incidents), incidents'), incidents', res)
        /\ UNCHANGED <<build, nodes, rows, writing, closed, restarts>>

\* The browser's verify_data: no late arrivals, no decomposition, and a row is
\* kept while its incident is open.
verify_data_wasm(root) ==
    /\ ~Native
    /\ resolved' = resolved \cup {root}
    /\ decontaminated' = decontaminated \cup UNION {{<<d, incidents[i].roots>> : d \in incidents[i].deltas} :
            i \in Settled(incidents, root, resolved')}
    /\ contaminated_rows' = [r \in Rows |->
            IF is_row_contaminated(r) /\ incidents[contaminated_rows[r]].state = "Open"
            THEN contaminated_rows[r] ELSE None]
    /\ UNCHANGED <<build, nodes, rows, flags, contaminated, incidents, writing, closed, restarts>>

\* Only simple incidents can be found, only open ones closed; no tag changes.
admin_close(i) ==
    /\ Simple(i) /\ incidents[i].state = "Open"
    /\ incidents' = [incidents EXCEPT ![i].state = "Closed"]
    /\ closed' = closed \cup incidents[i].roots
    /\ UNCHANGED <<build, nodes, rows, flags, contaminated, decontaminated, resolved,
                   contaminated_rows, writing, restarts>>

\* Incidents and the index are in memory only.
Restart ==
    /\ Native /\ restarts < MaxRestarts /\ Room
    /\ restarts' = restarts + 1
    /\ incidents' = <<>>
    /\ contaminated_rows' = [r \in Rows |-> None]
    /\ writing' = None
    /\ UNCHANGED <<build, nodes, rows, flags, contaminated, decontaminated, resolved, closed>>

Next ==
    \/ \E r \in Rows, ps \in SUBSET Ids : receive_delta(r, ps)
    \/ \E root \in Ids \cup (IF Room THEN Markers ELSE Tagged) :
            tag_contamination_root(root) \/ verify_data(root) \/ verify_data_wasm(root)
    \/ \E r \in Rows : LookupRow(r)
    \/ ProduceDelta
    \/ HumanReaction
    \/ \E i \in 1..Len(incidents) : admin_close(i)
    \/ Restart

-----------------------------------------------------------------------------
TypeOK ==
    /\ flags \subseteq rows /\ rows \subseteq Rows
    /\ \A r \in Rows : contaminated_rows[r] \in (1..Len(incidents)) \cup {None}
    /\ Native => resolved \cup {t[1] : t \in contaminated} \cup {t[1] : t \in decontaminated} \subseteq Ids

OpenRoots == UNION {incidents[i].roots : i \in {k \in 1..Len(incidents) : incidents[k].state = "Open"}}

\* Req 10.5, 10.6: through merging, partial resolution and repeated
\* verification, a root that is neither resolved nor closed is always a root
\* of some open incident.
NoOrphanRoot ==
    \A i \in 1..Len(incidents) : incidents[i].roots \subseteq OpenRoots \cup resolved \cup closed

\* Req 11.1: no delta is decontaminated for an incident before all its roots
\* are resolved, late arrivals of composites included.
ClearedWhenResolved ==
    \A t \in decontaminated : t[2] \subseteq resolved

\* Req 10.3: when a root is verified, everything below it in the DAG of that
\* moment is decontaminated, whenever it arrived.
VerifiedIsCleared ==
    [][\A r \in resolved' \ resolved :
         Native /\ (\E i \in 1..Len(incidents) : Simple(i) /\ r \in incidents[i].roots)
         => \A d \in walk_dag_descendants(r) : \E t \in decontaminated' : t[1] = d]_cceVars

\* Req 10.6: resolving one root of a composite leaves every row contaminated
\* through the other.
CompositeKeepsRows ==
    [][\A r \in resolved' \ resolved :
         Native /\ (\E i \in 1..Len(incidents) : incidents[i].composite /\ r \in incidents[i].roots /\ ~(incidents[i].roots \subseteq resolved'))
         => \A row \in rows : contaminated_rows'[row] # None]_cceVars

\* Req 10.5, 10.6: merging incidents and taking them apart loses no root and
\* no row (contamination/resolution.rs).
IncidentsCoverRoots == []NoOrphanRoot /\ CompositeKeepsRows

\* Req 10.3, 11.1: verification clears everything below a root, late arrivals
\* included, and nothing before its time (contamination/taint.rs).
ClearingIsExact == []ClearedWhenResolved /\ VerifiedIsCleared
=============================================================================
