------------------------------ MODULE MergeGate -----------------------------
(***************************************************************************)
(* What CrdtEngine::apply does before it merges (crdt/mod.rs): revocation, *)
(* schema classification, signature and the adoption of additive schemas;  *)
(* the bounded record of rejections (crdt/failure.rs) and the quarantine   *)
(* ledger (migration/quarantine.rs) the inbound loop writes to.            *)
(*                                                                         *)
(* An incoming delta has an author, a schema and a signature: "good",      *)
(* "forged", "missing" or "unresolvable" (its author's DID).               *)
(***************************************************************************)
EXTENDS Integers, Sequences

CONSTANTS
    Path,         \* the deployment's version path, with definitions
    Foreign,      \* a schema without a registered definition
    Authors, Signatures,
    MaxRecords,   \* MAX_REJECTION_RECORDS
    MaxReceived,  \* bound: deltas received
    None

VARIABLES
    current,      \* CrdtEngine.known_schema_hash, as a position of Path
    known_schemas,
    schema_definitions,
    revoked_dids,
    rejection_records,
    rejections,   \* every rejection so far (history)
    ledger,       \* persisted quarantine entries
    vouched,      \* <<schema, version of the device>> of deltas that came from an unrevoked
                  \* author under a good signature, whatever the gates made of them (history)
    takenIn,      \* <<schema, signature>> of the deltas whose merge succeeded (history)
    received

gateVars == <<current, known_schemas, schema_definitions, revoked_dids, rejection_records,
              rejections, ledger, vouched, takenIn, received>>

Diff == INSTANCE SchemaDiff

Versions == 1..Len(Path)
Incoming   == [author : Authors, schema : Versions \cup {Foreign}, sig : Signatures]

\* CoreHandle::init: every definition hashes to its place of the path, and
\* the first version is current.
Init ==
    /\ \A i, k \in Versions : Diff!identifier_hash(Path[i]) = Diff!identifier_hash(Path[k]) => i = k
    /\ current = 1 /\ known_schemas = {1} /\ vouched = {} /\ takenIn = {}
    /\ schema_definitions \in {{}, Versions}
    /\ revoked_dids = {} /\ rejection_records = <<>> /\ rejections = <<>>
    /\ ledger = {} /\ received = 0

-----------------------------------------------------------------------------
classify_incoming_schema(s) ==
    LET d == Diff!diff_schemas(Path[current], Path[s]) IN
    IF s \in known_schemas THEN "Known"
    ELSE IF current \notin schema_definitions \/ s \notin schema_definitions THEN "Unknown"
    ELSE IF Diff!is_additive(d) THEN "Additive"
    ELSE IF Diff!is_breaking(d) THEN "Breaking"
    ELSE "Unknown"

\* record_rejection: append, then drop the oldest beyond the bound.
Bounded(records, r) ==
    LET longer == Append(records, r) IN
    IF Len(longer) > MaxRecords THEN Tail(longer) ELSE longer

record_rejection(code, x) ==
    /\ rejection_records' = Bounded(rejection_records, <<code, x.author>>)
    /\ rejections' = Append(rejections, <<code, x.author>>)
    /\ UNCHANGED <<known_schemas, ledger, takenIn>>

\* quarantine_incoming: keyed by the bytes, so a repeat changes nothing.
quarantine_incoming(x, reason) ==
    /\ ledger' = IF \E e \in ledger : e.delta = x THEN ledger
                 ELSE ledger \cup {[delta |-> x, reason |-> reason, migration_id |-> None]}
    /\ UNCHANGED <<known_schemas, rejection_records, rejections, takenIn>>

\* The schema is adopted, then the Automerge merge and the DAG insert succeed
\* or the call ends in an error: DeltaMalformed when the two documents number
\* their changes alike, LocalStoreWriteFailed when the DAG cannot be written.
\* The error leaves the schema adopted, and neither a record nor an entry.
merge(x) ==
    /\ known_schemas' = known_schemas \cup {x.schema}
    /\ takenIn' \in {takenIn, takenIn \cup {<<x.schema, x.sig>>}}
    /\ UNCHANGED <<rejection_records, rejections, ledger>>

Vouches(x) == x.sig = "good" /\ x.author \notin revoked_dids

\* What every call of apply has in common, and the history.
Receive(x) ==
    /\ received < MaxReceived /\ received' = received + 1
    /\ vouched' = IF Vouches(x) THEN vouched \cup {<<x.schema, current>>} ELSE vouched
    /\ UNCHANGED <<current, schema_definitions, revoked_dids>>

\* Mutant: an additive schema is adopted as soon as it is classified.
apply_adopts_early(x) ==
    LET class == classify_incoming_schema(x.schema) IN
    /\ Receive(x)
    /\ IF class = "Additive" THEN merge(x)
       ELSE UNCHANGED <<known_schemas, rejection_records, rejections, ledger, takenIn>>

\* apply, in the order of its gates, and what receive_inbound does with the
\* outcome.
apply(x) ==
    LET class == classify_incoming_schema(x.schema) IN
    /\ Receive(x)
    /\ IF x.author \in revoked_dids  THEN record_rejection("RevokedAuthor", x)
       ELSE IF class = "Breaking"    THEN quarantine_incoming(x, "BreakingSchemaChange")
       ELSE IF class = "Unknown"     THEN quarantine_incoming(x, "UnknownSchemaHash")
       ELSE IF x.sig = "missing"     THEN record_rejection("MissingSignature", x)
       ELSE IF x.sig = "unresolvable" THEN record_rejection("DidResolutionFailed", x)
       ELSE IF x.sig = "forged"      THEN record_rejection("SignatureVerificationFailed", x)
       ELSE merge(x)

\* A migration has advanced the device by one version.
set_current_schema ==
    /\ current < Len(Path)
    /\ current' = current + 1
    /\ known_schemas' = known_schemas \cup {current'}
    /\ UNCHANGED <<schema_definitions, revoked_dids, rejection_records, rejections, ledger,
                   vouched, takenIn, received>>

mark_did_revoked(a) ==
    /\ a \notin revoked_dids
    /\ revoked_dids' = revoked_dids \cup {a}
    /\ UNCHANGED <<current, known_schemas, schema_definitions, rejection_records, rejections,
                   ledger, vouched, takenIn, received>>

Next ==
    \/ \E x \in Incoming : apply(x)
    \/ set_current_schema
    \/ \E a \in Authors : mark_did_revoked(a)

-----------------------------------------------------------------------------
\* Structure(s): what a schema promises, declared or not.
Structure(s) ==
    {<<t>> : t \in Diff!Names(s)} \cup
    UNION {{<<t, f, Diff!Lookup(Diff!Lookup(s, t).fields, f).type>> : f \in Diff!Names(Diff!Lookup(s, t).fields)} :
             t \in Diff!Names(s)}

\* Req 17.3, 17.4: additive means that the incoming schema keeps all the
\* device's own structure and has more; breaking that it lacks some of it.
ClassificationIsInclusion ==
    \A i, k \in Versions :
        LET d == Diff!diff_schemas(Path[i], Path[k]) IN
        /\ Diff!is_additive(d) <=> Structure(Path[i]) \subseteq Structure(Path[k]) /\ Structure(Path[i]) # Structure(Path[k])
        /\ Diff!is_breaking(d) <=> ~(Structure(Path[i]) \subseteq Structure(Path[k]))

\* A schema the gate knows was deployed here, or a verified delta of an
\* unrevoked author brought it while this device ran a version whose structure
\* it keeps whole.
AdoptedIsVouched ==
    \A s \in known_schemas :
        \/ s \in 1..current
        \/ \E v \in vouched : v[1] = s /\ Structure(Path[v[2]]) \subseteq Structure(Path[s])

\* What was merged carried a good signature and a schema that stays known: no
\* later device version or revocation makes it foreign again.
MergedIsKnown == \A m \in takenIn : m[2] = "good" /\ m[1] \in known_schemas

\* The retained records are the latest rejections, oldest first.
RecordsAreLatest ==
    LET n == Len(rejections)
        k == Len(rejection_records)
    IN  /\ k = IF n < MaxRecords THEN n ELSE MaxRecords
        /\ \A i \in 1..k : rejection_records[i] = rejections[n - k + i]

\* What the gate lets in is vouched for, and the bounded log of refusals
\* forgets the oldest first (CrdtEngine::apply).
OnlyVouchedGetsIn == AdoptedIsVouched /\ MergedIsKnown /\ RecordsAreLatest
=============================================================================
