--------------------------- MODULE ReplicaProofs ----------------------------
(***************************************************************************)
(* Proofs about what a replica takes in: the schema gate in front of the   *)
(* merge (MergeGate, SchemaDiff), the changeset DAG (ChangesetDag), and    *)
(* the writing and merging replicas (Crdt), as machines of ReplicaMachines.*)
(***************************************************************************)
EXTENDS ReplicaMachines, RevocationProofs, OrderLemmas, SequenceTheorems

-----------------------------------------------------------------------------
(* The schema classification.                                              *)

\* The fields of a table of a schema, and the type of one.
FieldsOf(s, t) == Gate!Diff!Names(Gate!Diff!Lookup(s, t).fields)
TypeOf(s, t, f) == Gate!Diff!Lookup(Gate!Diff!Lookup(s, t).fields, f).type

\* A schema's structure: its tables, and their fields with types.
LEMMA StructureIs ==
  ASSUME NEW s
  PROVE  Gate!Structure(s) = {<<t>> : t \in Gate!Diff!Names(s)} \cup
            UNION {{<<t, f, TypeOf(s, t, f)>> : f \in FieldsOf(s, t)} : t \in Gate!Diff!Names(s)}
BY DEF Gate!Structure, TypeOf, FieldsOf

\* Inclusion of structure, table by table and field by field.
LEMMA InclusionIs ==
  ASSUME NEW s, NEW u
  PROVE  Gate!Structure(s) \subseteq Gate!Structure(u) <=>
            \A t \in Gate!Diff!Names(s) :
                /\ t \in Gate!Diff!Names(u)
                /\ \A f \in FieldsOf(s, t) : f \in FieldsOf(u, t) /\ TypeOf(s, t, f) = TypeOf(u, t, f)
<1> DEFINE N(q) == Gate!Diff!Names(q)
           T(q) == {<<t>> : t \in N(q)}
           F(q) == UNION {{<<t, f, TypeOf(q, t, f)>> : f \in FieldsOf(q, t)} : t \in N(q)}
<1>1. Gate!Structure(s) = T(s) \cup F(s) /\ Gate!Structure(u) = T(u) \cup F(u)
  BY StructureIs
<1>2. \A q, e : e \in T(q) <=> \E t \in N(q) : e = <<t>>
  OBVIOUS
<1>3. \A q, e : e \in F(q) <=> \E t \in N(q) : \E f \in FieldsOf(q, t) : e = <<t, f, TypeOf(q, t, f)>>
  OBVIOUS
<1>4. \A t, k, f, y : <<t>> # <<k, f, y>>
  OBVIOUS
<1>5. \A t, k : <<t>> = <<k>> => t = k
  OBVIOUS
<1>6. \A t, f, y, k, g, z : <<t, f, y>> = <<k, g, z>> => t = k /\ f = g /\ y = z
  OBVIOUS
<1> HIDE DEF N, T, F
<1>7. ASSUME Gate!Structure(s) \subseteq Gate!Structure(u), NEW t \in N(s)
      PROVE  t \in N(u) /\ \A f \in FieldsOf(s, t) : f \in FieldsOf(u, t) /\ TypeOf(s, t, f) = TypeOf(u, t, f)
  <2>1. <<t>> \in T(u)
    <3>1. <<t>> \in T(s)
      BY <1>2
    <3>2. <<t>> \in T(u) \/ <<t>> \in F(u)
      BY <1>1, <1>7, <3>1
    <3> QED BY <1>3, <1>4, <3>2
  <2>2. t \in N(u)
    BY <1>2, <1>5, <2>1
  <2>3. ASSUME NEW f \in FieldsOf(s, t)
        PROVE  f \in FieldsOf(u, t) /\ TypeOf(s, t, f) = TypeOf(u, t, f)
    <3>1. PICK e : e = <<t, f, TypeOf(s, t, f)>>
      OBVIOUS
    <3>2. e \in F(s)
      BY <1>3, <3>1
    <3>3. e \in T(u) \/ e \in F(u)
      BY <1>1, <1>7, <3>2
    <3>4. e \in F(u)
      BY <1>2, <1>4, <3>1, <3>3
    <3> QED BY <1>3, <1>6, <3>1, <3>4
  <2> QED BY <2>2, <2>3
<1>8. ASSUME \A t \in N(s) : t \in N(u) /\ \A f \in FieldsOf(s, t) : f \in FieldsOf(u, t) /\ TypeOf(s, t, f) = TypeOf(u, t, f),
             NEW e \in Gate!Structure(s)
      PROVE  e \in Gate!Structure(u)
  <2>1. CASE e \in T(s)
    BY <1>1, <1>2, <1>8, <2>1
  <2>2. CASE e \in F(s)
    <3>1. PICK t \in N(s) : \E f \in FieldsOf(s, t) : e = <<t, f, TypeOf(s, t, f)>>
      BY <1>3, <2>2
    <3>2. PICK f \in FieldsOf(s, t) : e = <<t, f, TypeOf(s, t, f)>>
      BY <3>1
    <3>3. t \in N(u) /\ f \in FieldsOf(u, t) /\ e = <<t, f, TypeOf(u, t, f)>>
      BY <1>8, <3>1, <3>2
    <3> QED BY <1>1, <1>3, <3>3
  <2> QED BY <1>1, <2>1, <2>2
<1>9. Gate!Structure(s) \subseteq Gate!Structure(u) <=>
        \A t \in N(s) : t \in N(u) /\ \A f \in FieldsOf(s, t) : f \in FieldsOf(u, t) /\ TypeOf(s, t, f) = TypeOf(u, t, f)
  BY <1>7, <1>8
<1> QED BY <1>9 DEF N

\* What the diff reports as removed, retyped and added.
LEMMA DiffIs ==
  ASSUME NEW s, NEW u, NEW d, d = Gate!Diff!diff_schemas(s, u)
  PROVE  /\ d.removed_tables = {} <=> \A t \in Gate!Diff!Names(s) : t \in Gate!Diff!Names(u)
         /\ d.added_tables = {} <=> \A t \in Gate!Diff!Names(u) : t \in Gate!Diff!Names(s)
         /\ d.removed_fields = {} <=> \A t \in Gate!Diff!Names(s) \cap Gate!Diff!Names(u) :
                                        \A f \in FieldsOf(s, t) : f \in FieldsOf(u, t)
         /\ d.added_fields = {} <=> \A t \in Gate!Diff!Names(s) \cap Gate!Diff!Names(u) :
                                        \A f \in FieldsOf(u, t) : f \in FieldsOf(s, t)
         /\ d.retyped = {} <=> \A t \in Gate!Diff!Names(s) \cap Gate!Diff!Names(u) :
                                 \A f \in FieldsOf(s, t) \cap FieldsOf(u, t) : TypeOf(s, t, f) = TypeOf(u, t, f)
<1> DEFINE N(q) == Gate!Diff!Names(q)
<1>1. /\ d.removed_tables = N(s) \ N(u) /\ d.added_tables = N(u) \ N(s)
      /\ d.removed_fields = Gate!Diff!FieldsMissing(s, u) /\ d.added_fields = Gate!Diff!FieldsMissing(u, s)
      /\ d.retyped = Gate!Diff!retyped_fields(s, u)
  BY DEF Gate!Diff!diff_schemas
<1>2. \A p, q : Gate!Diff!FieldsMissing(p, q) = UNION {{<<t, f>> : f \in FieldsOf(p, t) \ FieldsOf(q, t)} : t \in N(p) \cap N(q)}
  BY DEF Gate!Diff!FieldsMissing, FieldsOf
<1>3. Gate!Diff!retyped_fields(s, u) =
        UNION {{<<t, f>> : f \in {g \in FieldsOf(s, t) \cap FieldsOf(u, t) : TypeOf(s, t, g) # TypeOf(u, t, g)}} : t \in N(s) \cap N(u)}
  BY DEF Gate!Diff!retyped_fields, FieldsOf, TypeOf
<1> HIDE DEF N
<1>4. ASSUME NEW p, NEW q
      PROVE  Gate!Diff!FieldsMissing(p, q) = {} <=> \A t \in N(p) \cap N(q) : \A f \in FieldsOf(p, t) : f \in FieldsOf(q, t)
  <2>1. \A e : e \in Gate!Diff!FieldsMissing(p, q) <=>
               \E t \in N(p) \cap N(q) : \E f \in FieldsOf(p, t) \ FieldsOf(q, t) : e = <<t, f>>
    BY <1>2
  <2>2. Gate!Diff!FieldsMissing(p, q) = {} <=> \A e : e \notin Gate!Diff!FieldsMissing(p, q)
    OBVIOUS
  <2> QED BY <2>1, <2>2
<1>5. Gate!Diff!retyped_fields(s, u) = {} <=>
        \A t \in N(s) \cap N(u) : \A f \in FieldsOf(s, t) \cap FieldsOf(u, t) : TypeOf(s, t, f) = TypeOf(u, t, f)
  <2>1. \A e : e \in Gate!Diff!retyped_fields(s, u) <=>
               \E t \in N(s) \cap N(u) : \E f \in FieldsOf(s, t) \cap FieldsOf(u, t) :
                  TypeOf(s, t, f) # TypeOf(u, t, f) /\ e = <<t, f>>
    BY <1>3
  <2>2. Gate!Diff!retyped_fields(s, u) = {} <=> \A e : e \notin Gate!Diff!retyped_fields(s, u)
    OBVIOUS
  <2> QED BY <2>1, <2>2
<1>6. d.removed_tables = {} <=> \A t \in N(s) : t \in N(u)
  BY <1>1
<1>7. d.added_tables = {} <=> \A t \in N(u) : t \in N(s)
  BY <1>1
<1>8. d.removed_fields = {} <=> \A t \in N(s) \cap N(u) : \A f \in FieldsOf(s, t) : f \in FieldsOf(u, t)
  BY <1>1, <1>4
<1>9. d.added_fields = {} <=> \A t \in N(s) \cap N(u) : \A f \in FieldsOf(u, t) : f \in FieldsOf(s, t)
  <2>1. N(u) \cap N(s) = N(s) \cap N(u)
    OBVIOUS
  <2> QED BY <1>1, <1>4, <2>1
<1> QED BY <1>1, <1>5, <1>6, <1>7, <1>8, <1>9 DEF N

\* Of any two schemas, however their tables and fields are declared or
\* redeclared: a diff is breaking exactly when the incoming schema lacks some
\* structure of the base, and additive exactly when it has all of it and more.
THEOREM DiffIsInclusion ==
  ASSUME NEW s, NEW u, NEW d, d = Gate!Diff!diff_schemas(s, u)
  PROVE  /\ Gate!Diff!is_breaking(d) <=> ~(Gate!Structure(s) \subseteq Gate!Structure(u))
         /\ Gate!Diff!is_additive(d) <=>
              Gate!Structure(s) \subseteq Gate!Structure(u) /\ Gate!Structure(s) # Gate!Structure(u)
<1> DEFINE N(q) == Gate!Diff!Names(q)
           Within(p, q) == \A t \in N(p) : t \in N(q) /\ \A f \in FieldsOf(p, t) : f \in FieldsOf(q, t) /\ TypeOf(p, t, f) = TypeOf(q, t, f)
<1>1. /\ d.removed_tables = {} <=> \A t \in N(s) : t \in N(u)
      /\ d.added_tables = {} <=> \A t \in N(u) : t \in N(s)
      /\ d.removed_fields = {} <=> \A t \in N(s) \cap N(u) : \A f \in FieldsOf(s, t) : f \in FieldsOf(u, t)
      /\ d.added_fields = {} <=> \A t \in N(s) \cap N(u) : \A f \in FieldsOf(u, t) : f \in FieldsOf(s, t)
      /\ d.retyped = {} <=> \A t \in N(s) \cap N(u) :
                              \A f \in FieldsOf(s, t) \cap FieldsOf(u, t) : TypeOf(s, t, f) = TypeOf(u, t, f)
  BY DiffIs
<1>2. \A p, q : Gate!Structure(p) \subseteq Gate!Structure(q) <=> Within(p, q)
  BY InclusionIs
<1> HIDE DEF N
<1>3. (d.removed_tables = {} /\ d.removed_fields = {} /\ d.retyped = {}) <=> Within(s, u)
  BY <1>1
<1>4. ASSUME d.removed_tables = {}, d.removed_fields = {}, d.retyped = {}
      PROVE  (d.added_tables = {} /\ d.added_fields = {}) <=> Within(u, s)
  BY <1>1, <1>4
<1> HIDE DEF Within
<1>5. Gate!Structure(s) = Gate!Structure(u) <=> Within(s, u) /\ Within(u, s)
  BY <1>2
<1>6. Gate!Diff!is_breaking(d) <=> ~(d.removed_tables = {} /\ d.removed_fields = {} /\ d.retyped = {})
  BY DEF Gate!Diff!is_breaking
<1>7. Gate!Diff!is_additive(d) <=>
        /\ d.removed_tables = {} /\ d.removed_fields = {} /\ d.retyped = {}
        /\ ~(d.added_tables = {} /\ d.added_fields = {})
  BY DEF Gate!Diff!is_additive, Gate!Diff!is_identical
<1> QED BY <1>2, <1>3, <1>4, <1>5, <1>6, <1>7

\* For every version path, the classification is inclusion of structure.
THEOREM ClassificationStaysInclusion == ReplicaSpec => []ClassificationIsInclusion
<1>1. ClassificationIsInclusion
  BY DiffIsInclusion DEF ClassificationIsInclusion, Gate!ClassificationIsInclusion
<1> QED BY <1>1, PTL

-----------------------------------------------------------------------------
(* The merge gate.                                                         *)

\* The reasons for which a delta is refused.
Codes == {"RevokedAuthor", "MissingSignature", "DidResolutionFailed", "SignatureVerificationFailed"}

\* What the gate remembers: where each schema it knows comes from, what was
\* merged, and that the bounded log is the end of the whole history.
GateInv ==
    /\ current \in Nat /\ Gate!AdoptedIsVouched /\ Gate!MergedIsKnown
    /\ rejections \in Seq(Codes \X Authors) /\ rejection_records \in Seq(Codes \X Authors)
    /\ Gate!RecordsAreLatest

\* A log l that holds the end of a history h, as much as its bound allows.
LatestOf(h, l) ==
    /\ Len(l) = IF Len(h) < MaxRecords THEN Len(h) ELSE MaxRecords
    /\ \A i \in 1 .. Len(l) : l[i] = h[Len(h) - Len(l) + i]

\* The log, bounded after every record, is the end of the history.
LEMMA LogIsLatest ==
  ASSUME MaxRecords \in Nat, NEW A, NEW h \in Seq(A), NEW l \in Seq(A), NEW r \in A, LatestOf(h, l),
         NEW g, g = Append(h, r), NEW m, m = Gate!Bounded(l, r)
  PROVE  g \in Seq(A) /\ m \in Seq(A) /\ LatestOf(g, m)
<1>1. PICK b : b = Append(l, r)
  OBVIOUS
<1>2. PICK H \in Nat : H = Len(h)
  OBVIOUS
<1>3. PICK L \in Nat : L = Len(l)
  OBVIOUS
<1>4. /\ g \in Seq(A) /\ Len(g) = H + 1 /\ g[H + 1] = r
      /\ \A i \in 1 .. H : g[i] = h[i]
  BY <1>2
<1>5. /\ b \in Seq(A) /\ Len(b) = L + 1 /\ b[L + 1] = r
      /\ \A i \in 1 .. L : b[i] = l[i]
  BY <1>1, <1>3
<1>6. L = IF H < MaxRecords THEN H ELSE MaxRecords
  BY <1>2, <1>3 DEF LatestOf
<1>7. \A i \in 1 .. L : l[i] = h[H - L + i]
  BY <1>2, <1>3 DEF LatestOf
<1>8. ASSUME NEW i \in 1 .. (L + 1) PROVE b[i] = g[H - L + i]
  <2>1. CASE i = L + 1
    <3>1. H - L + i = H + 1
      BY <2>1
    <3> QED BY <1>4, <1>5, <2>1, <3>1
  <2>2. CASE i \in 1 .. L
    <3>1. H - L + i \in 1 .. H
      BY <1>6, <2>2
    <3> QED BY <1>4, <1>5, <1>7, <2>2, <3>1
  <2>3. i = L + 1 \/ i \in 1 .. L
    OBVIOUS
  <2> QED BY <2>1, <2>2, <2>3
<1>9. CASE L + 1 > MaxRecords
  <2>1. m = Tail(b) /\ L = MaxRecords /\ ~(H + 1 < MaxRecords)
    BY <1>1, <1>5, <1>6, <1>9 DEF Gate!Bounded
  <2>2. b # <<>>
    BY <1>5
  <2>3. m \in Seq(A) /\ Len(m) = L /\ \A i \in 1 .. L : m[i] = b[i + 1]
    <3>1. m \in Seq(A) /\ Len(m) = Len(b) - 1 /\ \A i \in 1 .. (Len(b) - 1) : m[i] = b[i + 1]
      BY <1>5, <2>1, <2>2
    <3>2. (L + 1) - 1 = L
      OBVIOUS
    <3> QED BY <1>5, <3>1, <3>2
  <2>4. ASSUME NEW i \in 1 .. L PROVE m[i] = g[(H + 1) - L + i]
    <3>1. i + 1 \in 1 .. (L + 1)
      OBVIOUS
    <3>2. H - L + (i + 1) = (H + 1) - L + i
      OBVIOUS
    <3> QED BY <1>8, <2>3, <3>1, <3>2
  <2> QED BY <1>4, <2>1, <2>3, <2>4 DEF LatestOf
<1>10. CASE ~(L + 1 > MaxRecords)
  <2>1. m = b /\ L = H
    BY <1>1, <1>5, <1>6, <1>10 DEF Gate!Bounded
  <2>2. ASSUME NEW i \in 1 .. (L + 1) PROVE m[i] = g[(H + 1) - (L + 1) + i]
    <3>1. H - L + i = (H + 1) - (L + 1) + i
      OBVIOUS
    <3> QED BY <1>8, <2>1, <3>1
  <2>3. Len(m) = IF H + 1 < MaxRecords THEN H + 1 ELSE MaxRecords
    BY <1>5, <1>10, <2>1
  <2> QED BY <1>4, <1>5, <2>1, <2>2, <2>3 DEF LatestOf
<1> QED BY <1>9, <1>10

\* The gate's schemas and merges, apart from its log.
SchemasInv == current \in Nat /\ Gate!AdoptedIsVouched /\ Gate!MergedIsKnown
LogInv ==
    /\ rejections \in Seq(Codes \X Authors) /\ rejection_records \in Seq(Codes \X Authors)
    /\ Gate!RecordsAreLatest

\* Verified deltas are added to the history whatever the gates do, and schemas
\* stay known: what was vouched for stays vouched for.
LEMMA SchemasKept ==
  ASSUME SchemasInv, current' = current, known_schemas' = known_schemas, takenIn' = takenIn,
         vouched \subseteq vouched'
  PROVE  SchemasInv'
BY DEF SchemasInv, Gate!AdoptedIsVouched, Gate!MergedIsKnown

\* A rejection is logged.
LEMMA RejectionStep ==
  ASSUME MaxRecords \in Nat, LogInv, NEW code \in Codes, NEW x \in Gate!Incoming, Gate!record_rejection(code, x)
  PROVE  LogInv'
<1>1. PICK r : r = <<code, x.author>>
  OBVIOUS
<1>2. r \in Codes \X Authors
  BY <1>1 DEF Gate!Incoming
<1>3. /\ rejection_records' = Gate!Bounded(rejection_records, r) /\ rejections' = Append(rejections, r)
  BY <1>1 DEF Gate!record_rejection
<1>4. LatestOf(rejections, rejection_records)
  BY DEF LogInv, Gate!RecordsAreLatest, LatestOf
<1>5. rejections \in Seq(Codes \X Authors) /\ rejection_records \in Seq(Codes \X Authors)
  BY DEF LogInv
<1>6. PICK g : g = rejections'
  OBVIOUS
<1>7. PICK m : m = rejection_records'
  OBVIOUS
<1>8. g \in Seq(Codes \X Authors) /\ m \in Seq(Codes \X Authors) /\ LatestOf(g, m)
  <2>1. PICK A : A = Codes \X Authors
    OBVIOUS
  <2>2. g = Append(rejections, r) /\ m = Gate!Bounded(rejection_records, r)
    BY <1>3, <1>6, <1>7
  <2>3. r \in A /\ rejections \in Seq(A) /\ rejection_records \in Seq(A)
    BY <1>2, <1>5, <2>1
  <2>4. g \in Seq(A) /\ m \in Seq(A) /\ LatestOf(g, m)
    BY <1>4, <2>2, <2>3, LogIsLatest
  <2> QED BY <2>1, <2>4
<1>9. LatestOf(rejections', rejection_records')
  BY <1>6, <1>7, <1>8
<1>10. Gate!RecordsAreLatest'
  BY <1>9 DEF LatestOf, Gate!RecordsAreLatest
<1> QED BY <1>3, <1>6, <1>7, <1>8, <1>10 DEF LogInv

\* A schema is adopted only when it was known or is additive, and only from a
\* delta the history vouches for.
LEMMA MergeStep ==
  ASSUME SchemasInv, NEW x, Gate!Vouches(x), Gate!Receive(x), Gate!merge(x),
         Gate!classify_incoming_schema(x.schema) \in {"Known", "Additive"},
         x.sig = "good"
  PROVE  SchemasInv'
<1>1. /\ current' = current /\ current \in Nat
      /\ vouched' = vouched \cup {<<x.schema, current>>} /\ known_schemas' = known_schemas \cup {x.schema}
      /\ takenIn' \subseteq takenIn \cup {<<x.schema, x.sig>>}
  BY DEF SchemasInv, Gate!Receive, Gate!merge
<1>2. x.schema \in known_schemas \/ Gate!Structure(Path[current]) \subseteq Gate!Structure(Path[x.schema])
  <2>1. PICK d : d = Gate!Diff!diff_schemas(Path[current], Path[x.schema])
    OBVIOUS
  <2>2. x.schema \in known_schemas \/ Gate!Diff!is_additive(d)
    BY <2>1 DEF Gate!classify_incoming_schema
  <2> QED BY <2>1, <2>2, DiffIsInclusion
<1>3. Gate!AdoptedIsVouched'
  <2>1. ASSUME NEW s \in known_schemas
        PROVE  s \in 1..current \/ \E v \in vouched' : v[1] = s /\ Gate!Structure(Path[v[2]]) \subseteq Gate!Structure(Path[s])
    BY <1>1 DEF SchemasInv, Gate!AdoptedIsVouched
  <2>2. ASSUME x.schema \notin known_schemas
        PROVE  \E v \in vouched' : v[1] = x.schema /\ Gate!Structure(Path[v[2]]) \subseteq Gate!Structure(Path[x.schema])
    <3>1. <<x.schema, current>> \in vouched'
      BY <1>1
    <3> QED BY <1>2, <2>2, <3>1
  <2> QED BY <1>1, <2>1, <2>2 DEF Gate!AdoptedIsVouched
<1>4. Gate!MergedIsKnown'
  BY <1>1 DEF SchemasInv, Gate!MergedIsKnown
<1> QED BY <1>1, <1>3, <1>4 DEF SchemasInv

\* Every step of the gate keeps its inductive invariant.
LEMMA GateStepKeeps ==
  ASSUME MaxRecords \in Nat, Signatures \subseteq {"good", "forged", "missing", "unresolvable"},
         GateInv, [Gate!Next]_gateVars
  PROVE  GateInv'
<1> SUFFICES SchemasInv' /\ LogInv'
  BY DEF GateInv, SchemasInv, LogInv
<1>1. SchemasInv /\ LogInv
  BY DEF GateInv, SchemasInv, LogInv
<1>2. ASSUME UNCHANGED <<rejections, rejection_records>> PROVE LogInv'
  BY <1>1, <1>2 DEF LogInv, Gate!RecordsAreLatest
<1>3. ASSUME NEW x \in Gate!Incoming, Gate!apply(x) PROVE SchemasInv' /\ LogInv'
  <2>1. \/ \E code \in Codes : Gate!record_rejection(code, x)
        \/ \E why : Gate!quarantine_incoming(x, why)
        \/ /\ Gate!merge(x) /\ Gate!Vouches(x) /\ x.sig = "good"
           /\ Gate!classify_incoming_schema(x.schema) \in {"Known", "Additive"}
    <3>1. x.sig \in {"good", "forged", "missing", "unresolvable"}
      BY DEF Gate!Incoming
    <3>2. Gate!classify_incoming_schema(x.schema) \in {"Known", "Unknown", "Additive", "Breaking"}
      BY DEF Gate!classify_incoming_schema
    <3>3. /\ "RevokedAuthor" \in Codes /\ "MissingSignature" \in Codes
          /\ "DidResolutionFailed" \in Codes /\ "SignatureVerificationFailed" \in Codes
      BY DEF Codes
    <3>4. \/ Gate!record_rejection("RevokedAuthor", x) \/ Gate!record_rejection("MissingSignature", x)
          \/ Gate!record_rejection("DidResolutionFailed", x)
          \/ Gate!record_rejection("SignatureVerificationFailed", x)
          \/ Gate!quarantine_incoming(x, "BreakingSchemaChange") \/ Gate!quarantine_incoming(x, "UnknownSchemaHash")
          \/ /\ Gate!merge(x) /\ x.author \notin revoked_dids /\ x.sig \notin {"missing", "unresolvable", "forged"}
             /\ Gate!classify_incoming_schema(x.schema) \notin {"Breaking", "Unknown"}
      BY <1>3 DEF Gate!apply
    <3>5. ASSUME Gate!merge(x), x.author \notin revoked_dids, x.sig \notin {"missing", "unresolvable", "forged"},
                 Gate!classify_incoming_schema(x.schema) \notin {"Breaking", "Unknown"}
          PROVE  /\ Gate!Vouches(x) /\ x.sig = "good"
                 /\ Gate!classify_incoming_schema(x.schema) \in {"Known", "Additive"}
      BY <3>1, <3>2, <3>5 DEF Gate!Vouches
    <3> QED BY <3>3, <3>4, <3>5, Zenon
  <2>2. /\ Gate!Receive(x) /\ current' = current /\ vouched \subseteq vouched'
    BY <1>3 DEF Gate!apply, Gate!Receive
  <2>3. ASSUME NEW why, Gate!quarantine_incoming(x, why) PROVE SchemasInv' /\ LogInv'
    BY <1>1, <1>2, <2>2, <2>3, SchemasKept DEF Gate!quarantine_incoming
  <2>4. ASSUME NEW code \in Codes, Gate!record_rejection(code, x) PROVE SchemasInv' /\ LogInv'
    <3>1. LogInv'
      BY <1>1, <2>4, RejectionStep
    <3>2. known_schemas' = known_schemas /\ takenIn' = takenIn
      BY <2>4 DEF Gate!record_rejection
    <3> QED BY <1>1, <2>2, <3>1, <3>2, SchemasKept
  <2>5. ASSUME Gate!merge(x), Gate!Vouches(x), x.sig = "good",
               Gate!classify_incoming_schema(x.schema) \in {"Known", "Additive"}
        PROVE  SchemasInv' /\ LogInv'
    <3>1. SchemasInv'
      BY <1>1, <2>2, <2>5, MergeStep
    <3>2. UNCHANGED <<rejections, rejection_records>>
      BY <2>5 DEF Gate!merge
    <3> QED BY <1>2, <3>1, <3>2
  <2> QED BY <2>1, <2>3, <2>4, <2>5
<1>4. CASE Gate!set_current_schema
  <2>1. /\ current \in Nat /\ current' = current + 1 /\ known_schemas' = known_schemas \cup {current + 1}
        /\ UNCHANGED <<vouched, takenIn, rejections, rejection_records>>
    BY <1>1, <1>4 DEF SchemasInv, Gate!set_current_schema
  <2>2. current + 1 \in 1 .. (current + 1) /\ 1 .. current \subseteq 1 .. (current + 1)
    BY <2>1
  <2>3. SchemasInv'
    BY <1>1, <2>1, <2>2 DEF SchemasInv, Gate!AdoptedIsVouched, Gate!MergedIsKnown
  <2> QED BY <1>2, <2>1, <2>3
<1>5. ASSUME NEW d \in Authors, Gate!mark_did_revoked(d) PROVE SchemasInv' /\ LogInv'
  BY <1>1, <1>2, <1>5, SchemasKept DEF Gate!mark_did_revoked
<1>6. CASE UNCHANGED gateVars
  BY <1>1, <1>2, <1>6, SchemasKept DEF gateVars
<1> QED BY <1>3, <1>4, <1>5, <1>6 DEF Gate!Next

\* Whatever machine runs, the gate's variables take gate steps.
LEMMA GateRuns == ReplicaSpec => Gate!Init /\ [][Gate!Next]_gateVars
<1>1. ReplicaInit => Gate!Init
  BY DEF ReplicaInit
<1>2. [ReplicaNext]_allVars => [Gate!Next]_gateVars
  BY DEF ReplicaNext, RevocationStep, CrdtStep, GateStep, MigrationStep, allVars, gateVars
<1> QED BY <1>1, <1>2, PTL DEF ReplicaSpec

\* For every version path, set of authors and log bound: only verified deltas
\* of unrevoked authors make a schema known that was not deployed here, it keeps
\* the structure the device had then, merged schemas stay known, and the log
\* keeps the latest refusals.
THEOREM OnlyVouchedEnters ==
  ASSUME MaxRecords \in Nat, Signatures \subseteq {"good", "forged", "missing", "unresolvable"}
  PROVE  ReplicaSpec => []OnlyVouchedGetsIn
<1>1. Gate!Init => GateInv
  BY DEF Gate!Init, GateInv, Gate!RecordsAreLatest, Gate!AdoptedIsVouched, Gate!MergedIsKnown
<1>2. GateInv /\ [Gate!Next]_gateVars => GateInv'
  BY GateStepKeeps
<1>3. GateInv => OnlyVouchedGetsIn
  BY DEF GateInv, OnlyVouchedGetsIn, Gate!OnlyVouchedGetsIn
<1> QED BY <1>1, <1>2, <1>3, GateRuns, PTL

-----------------------------------------------------------------------------
(* The changeset DAG.                                                      *)

\* What the DAG module counts.
LEMMA CountIs ==
  ASSUME NEW S, IsFiniteSet(S)
  PROVE  Replica!Dag!Cardinality(S) = Cardinality(S) /\ Replica!Cardinality(S) = Cardinality(S) /\ Cardinality(S) \in Nat
<1>1. Cardinality(S) \in Nat
  BY FS_CardinalityType
<1> QED BY <1>1 DEF Replica!Dag!Cardinality, Replica!Cardinality, Cardinality

IdsOf(ns) == {n.id : n \in ns}

\* Sets that grow until they hold T do so within as many rounds as T has members.
LEMMA Growth ==
  ASSUME NEW N \in Nat, NEW T, IsFiniteSet(T), Cardinality(T) <= N, NEW w,
         \A k \in 0 .. N : k < N => T \cap w[k] \subseteq w[k + 1],
         \A k \in 0 .. N : k < N /\ ~(T \subseteq w[k]) => \E t \in T : t \notin w[k] /\ t \in w[k + 1]
  PROVE  T \subseteq w[N]
<1> DEFINE A(k) == T \cap w[k]
           P == {k \in Nat : k <= N => T \subseteq w[k] \/ Cardinality(A(k)) >= k}
<1>1. \A k : IsFiniteSet(A(k)) /\ Cardinality(A(k)) \in Nat /\ Cardinality(A(k)) <= Cardinality(T)
  <2> TAKE k
  <2>1. A(k) \in SUBSET T
    OBVIOUS
  <2> HIDE DEF A
  <2> QED BY <2>1, FS_Subset, FS_CardinalityType
<1>2. 0 \in P
  <2>1. Cardinality(A(0)) \in Nat
    BY <1>1
  <2>2. Cardinality(A(0)) >= 0
    <3> HIDE DEF A
    <3> QED BY <2>1
  <2> QED BY <2>2
<1>3. ASSUME NEW k \in P PROVE k + 1 \in P
  <2> SUFFICES ASSUME k + 1 <= N, ~(T \subseteq w[k + 1]) PROVE Cardinality(A(k + 1)) >= k + 1
    OBVIOUS
  <2>1. k \in Nat /\ k \in 0 .. N /\ k < N
    OBVIOUS
  <2>2. T \cap w[k] \subseteq w[k + 1]
    BY <2>1
  <2>3. ~(T \subseteq w[k])
    BY <2>2
  <2>4. Cardinality(A(k)) >= k
    BY <2>1, <2>3
  <2>5. PICK t \in T : t \notin w[k] /\ t \in w[k + 1]
    BY <2>1, <2>3
  <2>6. PICK B : B = A(k) \cup {t}
    OBVIOUS
  <2>7. B \in SUBSET A(k + 1) /\ t \notin A(k)
    BY <2>2, <2>5, <2>6
  <2> HIDE DEF A
  <2>8. Cardinality(B) = Cardinality(A(k)) + 1
    BY <1>1, <2>6, <2>7, FS_AddElement
  <2>9. Cardinality(B) <= Cardinality(A(k + 1))
    BY <1>1, <2>7, FS_Subset
  <2> QED BY <1>1, <2>1, <2>4, <2>8, <2>9
<1>4. P \in SUBSET Nat
  OBVIOUS
<1> HIDE DEF P
<1>5. P = Nat
  BY <1>2, <1>3, <1>4, SetInduction
<1>6. T \subseteq w[N] \/ Cardinality(A(N)) >= N
  BY <1>5 DEF P
<1>7. ASSUME Cardinality(A(N)) >= N PROVE T \subseteq w[N]
  <2>1. Cardinality(T) \in Nat
    BY FS_CardinalityType
  <2>2. Cardinality(T) = Cardinality(A(N))
    <3> HIDE DEF A
    <3> QED BY <1>1, <1>7, <2>1
  <2>3. A(N) \in SUBSET T
    OBVIOUS
  <2>4. T = A(N)
    <3> HIDE DEF A
    <3> QED BY <2>2, <2>3, FS_Subset
  <2> QED BY <2>4
<1> QED BY <1>6, <1>7

\* The ids of finitely many deltas.
LEMMA IdsAreFinite ==
  ASSUME NEW ns, IsFiniteSet(ns)
  PROVE  IsFiniteSet(IdsOf(ns)) /\ Cardinality(IdsOf(ns)) <= Cardinality(ns)
<1> DEFINE f == [n \in ns |-> n.id]
<1>1. f \in Surjection(ns, IdsOf(ns))
  BY DEF Surjection, IdsOf
<1> QED BY <1>1, FS_Surjection

\* One round of Kahn's algorithm.
Sorted(ns, out) == {n.id : n \in {m \in ns : m.parents \subseteq out}}

\* The sort, unfolded.
LEMMA SortUnfolds ==
  ASSUME NEW ns, IsFiniteSet(ns), NEW N, N = Cardinality(ns)
  PROVE  \E w : /\ Replica!Dag!topological_sort(ns) = w[N]
                /\ w[0] = {} /\ \A k \in 1 .. N : w[k] = Sorted(ns, w[k - 1])
<1> DEFINE Rec(u) == u = [k \in 0 .. N |-> IF k = 0 THEN {} ELSE Sorted(ns, u[k - 1])]
           w == CHOOSE u : Rec(u)
           Run(n, u) == u[0] = {} /\ \A k \in 1 .. n : u[k] = Sorted(ns, u[k - 1])
           P == {n \in Nat : \E u : Run(n, u)}
<1>1. N \in Nat /\ Replica!Dag!Cardinality(ns) = N
  BY CountIs
<1>2. Replica!Dag!topological_sort(ns) = w[N]
  BY <1>1 DEF Replica!Dag!topological_sort, Sorted
<1>3. 0 \in P
  <2>1. Run(0, [k \in 0 .. 0 |-> {}])
    OBVIOUS
  <2> QED BY <2>1
<1>4. ASSUME NEW n \in P PROVE n + 1 \in P
  <2>1. n \in Nat
    OBVIOUS
  <2>2. PICK u : Run(n, u)
    OBVIOUS
  <2> DEFINE v == [k \in 0 .. (n + 1) |-> IF k = n + 1 THEN Sorted(ns, u[n]) ELSE u[k]]
  <2>3. \A k \in 0 .. n : v[k] = u[k]
    BY <2>1
  <2>4. v[n + 1] = Sorted(ns, u[n])
    BY <2>1
  <2> HIDE DEF v
  <2>5. v[0] = {}
    BY <2>1, <2>2, <2>3
  <2>6. ASSUME NEW k \in 1 .. (n + 1) PROVE v[k] = Sorted(ns, v[k - 1])
    <3>1. CASE k = n + 1
      <4>1. k - 1 = n /\ n \in 0 .. n
        BY <2>1, <3>1
      <4> QED BY <2>3, <2>4, <3>1, <4>1
    <3>2. CASE k # n + 1
      <4>1. k \in 1 .. n /\ k \in 0 .. n /\ k - 1 \in 0 .. n
        BY <2>1, <3>2
      <4>2. u[k] = Sorted(ns, u[k - 1])
        BY <2>2, <4>1
      <4> QED BY <2>3, <4>1, <4>2
    <3> QED BY <3>1, <3>2
  <2>7. Run(n + 1, v)
    BY <2>5, <2>6
  <2> QED BY <2>1, <2>7
<1> HIDE DEF P
<1>5. P = Nat
  <2>1. P \in SUBSET Nat
    BY DEF P
  <2> QED BY <1>3, <1>4, <2>1, SetInduction
<1>6. PICK u : Run(N, u)
  BY <1>1, <1>5 DEF P
<1>7. PICK f : f = [k \in 0 .. N |-> IF k = 0 THEN {} ELSE Sorted(ns, u[k - 1])]
  OBVIOUS
<1>8. \A k \in 0 .. N : f[k] = u[k]
  <2> TAKE k \in 0 .. N
  <2>1. f[k] = IF k = 0 THEN {} ELSE Sorted(ns, u[k - 1])
    BY <1>7
  <2>2. k # 0 => k \in 1 .. N
    BY <1>1
  <2> QED BY <1>6, <2>1, <2>2
<1>9. f = [k \in 0 .. N |-> IF k = 0 THEN {} ELSE Sorted(ns, f[k - 1])]
  <2>1. \A k \in 0 .. N : k # 0 => k - 1 \in 0 .. N
    BY <1>1
  <2>2. \A k \in 0 .. N : (IF k = 0 THEN {} ELSE Sorted(ns, u[k - 1])) = (IF k = 0 THEN {} ELSE Sorted(ns, f[k - 1]))
    BY <1>8, <2>1
  <2> QED BY <1>7, <2>2
<1>10. Rec(w)
  <2>1. Rec(f)
    BY <1>9
  <2> HIDE DEF Rec
  <2> QED BY <2>1
<1> HIDE DEF w
<1>11. PICK g : g = [k \in 0 .. N |-> IF k = 0 THEN {} ELSE Sorted(ns, w[k - 1])]
  OBVIOUS
<1>12. w = g
  BY <1>10, <1>11
<1> HIDE DEF Rec
<1>13. w[0] = {}
  BY <1>1, <1>11, <1>12
<1>14. ASSUME NEW k \in 1 .. N PROVE w[k] = Sorted(ns, w[k - 1])
  <2>1. k \in 0 .. N /\ k # 0
    BY <1>1
  <2>2. g[k] = Sorted(ns, w[k - 1])
    BY <1>11, <2>1
  <2> QED BY <1>12, <2>2
<1> QED BY <1>2, <1>13, <1>14

\* The sort outputs stored deltas only.
LEMMA SortWithin ==
  ASSUME NEW ns, IsFiniteSet(ns)
  PROVE  Replica!Dag!topological_sort(ns) \subseteq IdsOf(ns)
<1>1. PICK N : N = Cardinality(ns)
  OBVIOUS
<1>2. N \in Nat
  BY <1>1, FS_CardinalityType
<1>3. PICK w : /\ Replica!Dag!topological_sort(ns) = w[N]
               /\ w[0] = {} /\ \A k \in 1 .. N : w[k] = Sorted(ns, w[k - 1])
  BY <1>1, SortUnfolds
<1>4. CASE N = 0
  BY <1>3, <1>4
<1>5. CASE N # 0
  <2>1. N \in 1 .. N
    BY <1>2, <1>5
  <2>2. w[N] = Sorted(ns, w[N - 1])
    BY <1>3, <2>1
  <2> QED BY <1>3, <2>2 DEF Sorted, IdsOf
<1> QED BY <1>4, <1>5

\* Tips are stored deltas.
LEMMA TipsWithin ==
  ASSUME NEW ns, IsFiniteSet(ns)
  PROVE  Replica!Dag!dag_tips(ns) \subseteq IdsOf(ns)
BY SortWithin DEF Replica!Dag!dag_tips

\* No set of deltas is without an oldest and a newest one.
Founded(ns) ==
    \A S \in SUBSET ns : S # {} =>
        /\ \E x \in S : \A y \in S : y.id \notin x.parents
        /\ \E x \in S : \A y \in S : x.id \notin y.parents

\* Over a DAG without gaps the sort outputs every delta.
LEMMA SortIsComplete ==
  ASSUME NEW ns, IsFiniteSet(ns), Founded(ns), Replica!Dag!Closed(ns)
  PROVE  Replica!Dag!topological_sort(ns) = IdsOf(ns)
<1>1. PICK N : N = Cardinality(ns)
  OBVIOUS
<1>2. N \in Nat
  BY <1>1, FS_CardinalityType
<1>3. PICK w : /\ Replica!Dag!topological_sort(ns) = w[N]
               /\ w[0] = {} /\ \A k \in 1 .. N : w[k] = Sorted(ns, w[k - 1])
  BY <1>1, SortUnfolds
<1>4. \A k \in Nat : k < N => w[k + 1] = Sorted(ns, w[k])
  <2> TAKE k \in Nat
  <2> HAVE k < N
  <2>1. k + 1 \in 1 .. N /\ (k + 1) - 1 = k
    BY <1>2
  <2> QED BY <1>3, <2>1
<1>5. \A n \in ns : \A p \in n.parents : p \in IdsOf(ns)
  BY DEF Replica!Dag!Closed, Replica!Dag!Ids, IdsOf
<1> DEFINE P == {k \in Nat : k < N => w[k] \subseteq w[k + 1]}
<1>6. 0 \in P
  BY <1>3
<1>7. ASSUME NEW k \in P PROVE k + 1 \in P
  <2> SUFFICES ASSUME k + 1 < N PROVE w[k + 1] \subseteq w[(k + 1) + 1]
    OBVIOUS
  <2>1. k \in Nat /\ k < N /\ k + 1 \in Nat
    BY <1>2
  <2>2. w[k] \subseteq w[k + 1]
    BY <2>1
  <2>3. w[k + 1] = Sorted(ns, w[k]) /\ w[(k + 1) + 1] = Sorted(ns, w[k + 1])
    BY <1>4, <2>1
  <2>4. Sorted(ns, w[k]) \subseteq Sorted(ns, w[k + 1])
    BY <2>2 DEF Sorted
  <2> QED BY <2>3, <2>4
<1>8. P \in SUBSET Nat
  OBVIOUS
<1> HIDE DEF P
<1>9. P = Nat
  BY <1>6, <1>7, <1>8, SetInduction
<1>10. PICK T : T = IdsOf(ns)
  OBVIOUS
<1>11. IsFiniteSet(T) /\ Cardinality(T) <= N
  BY <1>1, <1>10, IdsAreFinite
<1>12. \A k \in 0 .. N : k < N => T \cap w[k] \subseteq w[k + 1]
  BY <1>2, <1>9 DEF P
<1>13. ASSUME NEW k \in 0 .. N, k < N, ~(T \subseteq w[k])
       PROVE  \E t \in T : t \notin w[k] /\ t \in w[k + 1]
  <2>1. PICK S : S = {n \in ns : n.id \notin w[k]}
    OBVIOUS
  <2>2. S \in SUBSET ns /\ S # {}
    BY <1>10, <1>13, <2>1 DEF IdsOf
  <2>3. PICK x \in S : \A y \in S : y.id \notin x.parents
    BY <2>2 DEF Founded
  <2>4. x \in ns /\ x.id \notin w[k]
    BY <2>1, <2>3
  <2>5. x.parents \subseteq w[k]
    <3> SUFFICES ASSUME NEW p \in x.parents, p \notin w[k] PROVE FALSE
      OBVIOUS
    <3>1. PICK y \in ns : p = y.id
      BY <1>5, <2>4 DEF IdsOf
    <3>2. y \in S
      BY <2>1, <3>1
    <3> QED BY <2>3, <3>1, <3>2
  <2>6. x.id \in Sorted(ns, w[k])
    BY <2>4, <2>5 DEF Sorted
  <2>7. w[k + 1] = Sorted(ns, w[k])
    BY <1>2, <1>4, <1>13
  <2>8. x.id \in T
    BY <1>10, <2>4 DEF IdsOf
  <2> QED BY <2>4, <2>6, <2>7, <2>8
<1>14. T \subseteq w[N]
  BY <1>2, <1>11, <1>12, <1>13, Growth
<1>15. w[N] \subseteq T
  BY <1>3, <1>10, SortWithin
<1> QED BY <1>3, <1>10, <1>14, <1>15

\* One step back from a set of deltas.
Older(ns, out) == UNION {{id} \cup Replica!Dag!parents(ns, id) : id \in out}

\* The past of a set of deltas, unfolded.
LEMMA PastUnfolds ==
  ASSUME NEW ns, NEW ids, IsFiniteSet(ns), NEW N, N = Cardinality(ns)
  PROVE  \E w : /\ Replica!Dag!Ancestors(ns, ids) = w[N]
                /\ w[0] = ids /\ \A k \in 1 .. N : w[k] = Older(ns, w[k - 1])
<1> DEFINE Rec(u) == u = [k \in 0 .. N |-> IF k = 0 THEN ids ELSE Older(ns, u[k - 1])]
           w == CHOOSE u : Rec(u)
           Run(n, u) == u[0] = ids /\ \A k \in 1 .. n : u[k] = Older(ns, u[k - 1])
           P == {n \in Nat : \E u : Run(n, u)}
<1>1. N \in Nat /\ Replica!Dag!Cardinality(ns) = N
  BY CountIs
<1>2. Replica!Dag!Ancestors(ns, ids) = w[N]
  BY <1>1 DEF Replica!Dag!Ancestors, Older
<1>3. 0 \in P
  <2>1. Run(0, [k \in 0 .. 0 |-> ids])
    OBVIOUS
  <2> QED BY <2>1
<1>4. ASSUME NEW n \in P PROVE n + 1 \in P
  <2>1. n \in Nat
    OBVIOUS
  <2>2. PICK u : Run(n, u)
    OBVIOUS
  <2> DEFINE v == [k \in 0 .. (n + 1) |-> IF k = n + 1 THEN Older(ns, u[n]) ELSE u[k]]
  <2>3. \A k \in 0 .. n : v[k] = u[k]
    BY <2>1
  <2>4. v[n + 1] = Older(ns, u[n])
    BY <2>1
  <2> HIDE DEF v
  <2>5. v[0] = ids
    BY <2>1, <2>2, <2>3
  <2>6. ASSUME NEW k \in 1 .. (n + 1) PROVE v[k] = Older(ns, v[k - 1])
    <3>1. CASE k = n + 1
      <4>1. k - 1 = n /\ n \in 0 .. n
        BY <2>1, <3>1
      <4> QED BY <2>3, <2>4, <3>1, <4>1
    <3>2. CASE k # n + 1
      <4>1. k \in 1 .. n /\ k \in 0 .. n /\ k - 1 \in 0 .. n
        BY <2>1, <3>2
      <4>2. u[k] = Older(ns, u[k - 1])
        BY <2>2, <4>1
      <4> QED BY <2>3, <4>1, <4>2
    <3> QED BY <3>1, <3>2
  <2>7. Run(n + 1, v)
    BY <2>5, <2>6
  <2> QED BY <2>1, <2>7
<1> HIDE DEF P
<1>5. P = Nat
  <2>1. P \in SUBSET Nat
    BY DEF P
  <2> QED BY <1>3, <1>4, <2>1, SetInduction
<1>6. PICK u : Run(N, u)
  BY <1>1, <1>5 DEF P
<1>7. PICK f : f = [k \in 0 .. N |-> IF k = 0 THEN ids ELSE Older(ns, u[k - 1])]
  OBVIOUS
<1>8. \A k \in 0 .. N : f[k] = u[k]
  <2> TAKE k \in 0 .. N
  <2>1. f[k] = IF k = 0 THEN ids ELSE Older(ns, u[k - 1])
    BY <1>7
  <2>2. k # 0 => k \in 1 .. N
    BY <1>1
  <2> QED BY <1>6, <2>1, <2>2
<1>9. f = [k \in 0 .. N |-> IF k = 0 THEN ids ELSE Older(ns, f[k - 1])]
  <2>1. \A k \in 0 .. N : k # 0 => k - 1 \in 0 .. N
    BY <1>1
  <2>2. \A k \in 0 .. N : (IF k = 0 THEN ids ELSE Older(ns, u[k - 1])) = (IF k = 0 THEN ids ELSE Older(ns, f[k - 1]))
    BY <1>8, <2>1
  <2> QED BY <1>7, <2>2
<1>10. Rec(w)
  <2>1. Rec(f)
    BY <1>9
  <2> HIDE DEF Rec
  <2> QED BY <2>1
<1> HIDE DEF w
<1>11. PICK g : g = [k \in 0 .. N |-> IF k = 0 THEN ids ELSE Older(ns, w[k - 1])]
  OBVIOUS
<1>12. w = g
  BY <1>10, <1>11
<1> HIDE DEF Rec
<1>13. w[0] = ids
  BY <1>1, <1>11, <1>12
<1>14. ASSUME NEW k \in 1 .. N PROVE w[k] = Older(ns, w[k - 1])
  <2>1. k \in 0 .. N /\ k # 0
    BY <1>1
  <2>2. g[k] = Older(ns, w[k - 1])
    BY <1>11, <2>1
  <2> QED BY <1>12, <2>2
<1> QED BY <1>2, <1>13, <1>14


\* The tips of a DAG without gaps have every other delta in their past.
LEMMA TipsReach ==
  ASSUME NEW all, IsFiniteSet(all), NEW ns \in SUBSET all, Founded(ns), Replica!Dag!Closed(ns)
  PROVE  IdsOf(ns) \subseteq Replica!Dag!Ancestors(all, Replica!Dag!dag_tips(ns))
<1>1. PICK N : N = Cardinality(all)
  OBVIOUS
<1>2. N \in Nat
  BY <1>1, FS_CardinalityType
<1>3. PICK tips : tips = Replica!Dag!dag_tips(ns)
  OBVIOUS
<1>4. PICK w : /\ Replica!Dag!Ancestors(all, tips) = w[N]
               /\ w[0] = tips /\ \A k \in 1 .. N : w[k] = Older(all, w[k - 1])
  BY <1>1, PastUnfolds
<1>5. \A k \in Nat : k < N => w[k + 1] = Older(all, w[k])
  <2> TAKE k \in Nat
  <2> HAVE k < N
  <2>1. k + 1 \in 1 .. N /\ (k + 1) - 1 = k
    BY <1>2
  <2> QED BY <1>4, <2>1
<1>6. \A X : X \subseteq Older(all, X)
  BY DEF Older
<1>7. IsFiniteSet(ns) /\ Cardinality(ns) <= N /\ Cardinality(ns) \in Nat
  BY <1>1, FS_Subset, FS_CardinalityType
<1>8. \A n \in ns : n.id \in tips <=> ~ \E c \in ns : n.id \in c.parents
  <2>1. Replica!Dag!topological_sort(ns) = IdsOf(ns)
    BY <1>7, SortIsComplete
  <2> QED BY <1>3, <2>1 DEF Replica!Dag!dag_tips, Replica!Dag!children, IdsOf
<1> DEFINE P == {k \in Nat : k <= N => tips \subseteq w[k]}
<1>9. 0 \in P
  BY <1>4
<1>10. ASSUME NEW k \in P PROVE k + 1 \in P
  <2> SUFFICES ASSUME k + 1 <= N PROVE tips \subseteq w[k + 1]
    OBVIOUS
  <2>1. k \in Nat /\ k < N
    BY <1>2
  <2>2. tips \subseteq w[k]
    BY <1>2, <2>1
  <2> QED BY <1>5, <1>6, <2>1, <2>2
<1>11. P \in SUBSET Nat
  OBVIOUS
<1> HIDE DEF P
<1>12. P = Nat
  BY <1>9, <1>10, <1>11, SetInduction
<1>13. PICK T : T = IdsOf(ns)
  OBVIOUS
<1>14. IsFiniteSet(T) /\ Cardinality(T) <= N
  <2>1. IsFiniteSet(T) /\ Cardinality(T) <= Cardinality(ns)
    BY <1>7, <1>13, IdsAreFinite
  <2>2. Cardinality(T) \in Nat
    BY <2>1, FS_CardinalityType
  <2> QED BY <1>2, <1>7, <2>1, <2>2
<1>15. \A k \in 0 .. N : k < N => T \cap w[k] \subseteq w[k + 1]
  BY <1>2, <1>5, <1>6
<1>16. ASSUME NEW k \in 0 .. N, k < N, ~(T \subseteq w[k])
       PROVE  \E t \in T : t \notin w[k] /\ t \in w[k + 1]
  <2>1. PICK S : S = {n \in ns : n.id \notin w[k]}
    OBVIOUS
  <2>2. S \in SUBSET ns /\ S # {}
    BY <1>13, <1>16, <2>1 DEF IdsOf
  <2>3. PICK x \in S : \A y \in S : x.id \notin y.parents
    BY <2>2 DEF Founded
  <2>4. x \in ns /\ x.id \notin w[k]
    BY <2>1, <2>3
  <2>5. x.id \notin tips
    BY <1>2, <1>12, <2>4 DEF P
  <2>6. PICK c \in ns : x.id \in c.parents
    BY <1>8, <2>4, <2>5
  <2>7. c.id \in w[k]
    BY <2>1, <2>3, <2>6
  <2>8. x.id \in Replica!Dag!parents(all, c.id)
    BY <2>6 DEF Replica!Dag!parents
  <2>9. x.id \in Older(all, w[k])
    BY <2>7, <2>8 DEF Older
  <2>10. w[k + 1] = Older(all, w[k])
    BY <1>2, <1>5, <1>16
  <2>11. x.id \in T
    BY <1>13, <2>4 DEF IdsOf
  <2> QED BY <2>4, <2>9, <2>10, <2>11
<1>17. T \subseteq w[N]
  BY <1>2, <1>14, <1>15, <1>16, Growth
<1> QED BY <1>3, <1>4, <1>13, <1>17

-----------------------------------------------------------------------------
(* Writing and merging: identities, clocks and documents.                  *)

Stored(d) == {x \in deltas : x.id \in crdtDag[d]}

\* The variables hold one value per replica.
Domains ==
    /\ DOMAIN doc = Replicas /\ DOMAIN lamport = Replicas /\ DOMAIN crdtDag = Replicas
    /\ DOMAIN writeCall = Replicas /\ DOMAIN crdtRestarts = Replicas

\* A delta is known by the number of its write() call, and what a DAG or
\* another delta names has been produced.
IdsInv ==
    /\ writes \in Nat /\ IsFiniteSet(deltas)
    /\ \A x \in deltas : x.id \in Nat /\ x.id <= writes /\ x.parents \subseteq IdsOf(deltas)
    /\ \A x, y \in deltas : x.id = y.id => x = y
    /\ \A d \in Replicas : crdtDag[d] \subseteq IdsOf(deltas)
    /\ \A d \in Replicas : writeCall[d] # None =>
          writeCall[d].val \in Nat /\ writeCall[d].val <= writes /\ writeCall[d].val \notin IdsOf(deltas)
    /\ \A d, e \in Replicas : writeCall[d] # None /\ writeCall[e] # None /\ writeCall[d].val = writeCall[e].val => d = e

\* A replica that kept its clock has it beyond every delta in its DAG.
ClockInv ==
    /\ \A d \in Replicas : lamport[d] \in Nat /\ crdtRestarts[d] \in Nat
    /\ \A x \in deltas : x.lamport \in Nat
    /\ \A d \in Replicas, x \in deltas : crdtRestarts[d] = 0 /\ x.id \in crdtDag[d] => x.lamport <= lamport[d]
    /\ Replica!LamportCausal

\* The document holds what the deltas of the DAG carry, and what a write()
\* has put and not yet produced.
Pending(w) == IF w # None /\ w.phase = "put" THEN w.bytes ELSE {}
Carried(ds, ids) == UNION {x.bytes : x \in {y \in ds : y.id \in ids}}
DocInv ==
    ~overridden => \A d \in Replicas : crdtRestarts[d] = 0 =>
        doc[d] = Carried(deltas, crdtDag[d]) \cup Pending(writeCall[d])

\* None is no write() in progress.
NoneIsNoCall == \A p, k, v, b : [phase |-> p, key |-> k, val |-> v, bytes |-> b] # None

\* A write() in progress has its fields.
IsCall(w) == \E p, k, v, b : w = [phase |-> p, key |-> k, val |-> v, bytes |-> b]
CallInv == \A d \in Replicas : writeCall[d] # None => IsCall(writeCall[d])

\* What a step of the replicas' machine may be.
LEMMA CrdtCases ==
  ASSUME [Replica!Next]_crdtVars
  PROVE  \/ UNCHANGED crdtVars
         \/ \E d \in Replicas : \/ \E k \in Keys : Replica!StoreWrite(d, k)
                                \/ Replica!write_scalar(d) \/ Replica!produce_delta_with_tags(d)
                                \/ \E x \in deltas : Replica!apply(d, x)
                                \/ Replica!ProjectMerged(d) \/ Replica!Restart(d)
BY DEF Replica!Next

\* What the first step of a write() changes.
LEMMA StoreWriteIs ==
  ASSUME Domains, NEW d \in Replicas, NEW k, Replica!StoreWrite(d, k)
  PROVE  /\ Domains' /\ writes' = writes + 1 /\ writeCall[d] = None
         /\ writeCall'[d] = [phase |-> "stored", key |-> k, val |-> writes + 1, bytes |-> {}]
         /\ \A e \in Replicas : e # d => writeCall'[e] = writeCall[e]
         /\ doc' = doc /\ lamport' = lamport /\ crdtDag' = crdtDag /\ deltas' = deltas
         /\ overridden' = overridden /\ crdtRestarts' = crdtRestarts
BY DEF Replica!StoreWrite, Domains

\* What its second step changes.
LEMMA WriteScalarIs ==
  ASSUME Domains, CallInv, NEW d \in Replicas, Replica!write_scalar(d),
         NEW ops, ops = Replica!put(Replica!put(doc[d], d, Replica!RowKey, writeCall[d].key), d, writeCall[d].key, writeCall[d].val)
  PROVE  /\ Domains' /\ writeCall[d] # None /\ writeCall[d].phase = "stored"
         /\ doc'[d] = ops /\ \A e \in Replicas : e # d => doc'[e] = doc[e] /\ writeCall'[e] = writeCall[e]
         /\ writeCall'[d] = [phase |-> "put", key |-> writeCall[d].key, val |-> writeCall[d].val, bytes |-> ops]
         /\ writes' = writes /\ lamport' = lamport /\ crdtDag' = crdtDag /\ deltas' = deltas
         /\ overridden' = overridden /\ crdtRestarts' = crdtRestarts
<1>1. /\ writeCall[d] # None /\ writeCall[d].phase = "stored" /\ doc' = [doc EXCEPT ![d] = ops]
      /\ writeCall' = [writeCall EXCEPT ![d].phase = "put", ![d].bytes = ops]
      /\ UNCHANGED <<lamport, crdtDag, deltas, writes, overridden, crdtRestarts>>
  BY DEF Replica!write_scalar
<1>2. PICK p, k, v, b : writeCall[d] = [phase |-> p, key |-> k, val |-> v, bytes |-> b]
  BY <1>1 DEF CallInv, IsCall
<1>3. PICK mid : mid = [writeCall EXCEPT ![d].phase = "put"]
  OBVIOUS
<1>4. writeCall' = [mid EXCEPT ![d].bytes = ops]
  BY <1>1, <1>3
<1>5. DOMAIN mid = Replicas /\ mid[d] = [writeCall[d] EXCEPT !.phase = "put"] /\ \A e \in Replicas : e # d => mid[e] = writeCall[e]
  BY <1>3 DEF Domains
<1>6. mid[d] = [phase |-> "put", key |-> k, val |-> v, bytes |-> b]
  BY <1>2, <1>5
<1>7. writeCall'[d] = [mid[d] EXCEPT !.bytes = ops] /\ \A e \in Replicas : e # d => writeCall'[e] = mid[e]
  BY <1>4, <1>5
<1>8. writeCall'[d] = [phase |-> "put", key |-> k, val |-> v, bytes |-> ops]
  BY <1>6, <1>7
<1>9. k = writeCall[d].key /\ v = writeCall[d].val
  BY <1>2
<1>10. Domains'
  BY <1>1, <1>4, <1>5 DEF Domains
<1> QED BY <1>1, <1>5, <1>7, <1>8, <1>9, <1>10 DEF Domains

\* What its last step produces.
LEMMA ProduceIs ==
  ASSUME Domains, NEW d \in Replicas, Replica!produce_delta_with_tags(d)
  PROVE  \E x : /\ Domains' /\ writeCall[d] # None /\ writeCall[d].phase = "put"
                /\ x.id = writeCall[d].val /\ x.author = d /\ x.bytes = writeCall[d].bytes
                /\ x.lamport = lamport'[d] /\ x.parents = Replica!Dag!dag_tips(Stored(d)) /\ x.life = crdtRestarts[d]
                /\ lamport'[d] = lamport[d] + 1 /\ crdtDag'[d] = crdtDag[d] \cup {x.id}
                /\ \A e \in Replicas : e # d => lamport'[e] = lamport[e] /\ crdtDag'[e] = crdtDag[e] /\ writeCall'[e] = writeCall[e]
                /\ deltas' = deltas \cup {x} /\ writeCall'[d] = None
                /\ doc' = doc /\ writes' = writes /\ overridden' = overridden /\ crdtRestarts' = crdtRestarts
<1>1. PICK x : x = [id |-> writeCall[d].val, author |-> d, key |-> writeCall[d].key, bytes |-> writeCall[d].bytes,
                    lamport |-> lamport'[d], parents |-> Replica!Dag!dag_tips(Replica!Nodes(d)), life |-> crdtRestarts[d]]
  OBVIOUS
<1>2. /\ writeCall[d] # None /\ writeCall[d].phase = "put"
      /\ lamport' = [lamport EXCEPT ![d] = @ + 1]
      /\ crdtDag' = [crdtDag EXCEPT ![d] = @ \cup {x.id}]
      /\ deltas' = deltas \cup {x}
      /\ writeCall' = [writeCall EXCEPT ![d] = None]
      /\ UNCHANGED <<doc, writes, overridden, crdtRestarts>>
  BY <1>1 DEF Replica!produce_delta_with_tags
<1>3. Replica!Nodes(d) = Stored(d)
  BY DEF Replica!Nodes, Stored
<1>4. Domains'
  BY <1>2 DEF Domains
<1>5. /\ x.id = writeCall[d].val /\ x.author = d /\ x.bytes = writeCall[d].bytes
      /\ x.lamport = lamport'[d] /\ x.parents = Replica!Dag!dag_tips(Stored(d)) /\ x.life = crdtRestarts[d]
  BY <1>1, <1>3
<1>6. /\ lamport'[d] = lamport[d] + 1 /\ crdtDag'[d] = crdtDag[d] \cup {x.id} /\ writeCall'[d] = None
      /\ \A e \in Replicas : e # d => lamport'[e] = lamport[e] /\ crdtDag'[e] = crdtDag[e] /\ writeCall'[e] = writeCall[e]
  BY <1>2 DEF Domains
<1> QED BY <1>2, <1>4, <1>5, <1>6

\* What a merge changes.
LEMMA ApplyIs ==
  ASSUME Domains, NEW d \in Replicas, NEW x \in deltas, Replica!apply(d, x)
  PROVE  /\ Domains' /\ ~Replica!DuplicateSeq(doc[d], x.bytes)
         /\ doc'[d] = Replica!verify_and_override(d, x) /\ lamport'[d] = Replica!AdvanceLamport(d, x)
         /\ overridden' = (overridden \/ doc'[d] # doc[d] \cup x.bytes)
         /\ crdtDag'[d] = crdtDag[d] \cup {x.id}
         /\ \A e \in Replicas : e # d => doc'[e] = doc[e] /\ lamport'[e] = lamport[e] /\ crdtDag'[e] = crdtDag[e]
         /\ writeCall' = writeCall /\ deltas' = deltas /\ writes' = writes /\ crdtRestarts' = crdtRestarts
<1>1. /\ ~Replica!DuplicateSeq(doc[d], x.bytes)
      /\ doc' = [doc EXCEPT ![d] = Replica!verify_and_override(d, x)]
      /\ overridden' = (overridden \/ doc'[d] # doc[d] \cup x.bytes)
      /\ lamport' = [lamport EXCEPT ![d] = Replica!AdvanceLamport(d, x)]
      /\ crdtDag' = [crdtDag EXCEPT ![d] = @ \cup {x.id}]
      /\ UNCHANGED <<writeCall, deltas, writes, crdtRestarts>>
  BY Zenon DEF Replica!apply
<1>2. Domains'
  BY <1>1 DEF Domains
<1>3. /\ doc'[d] = Replica!verify_and_override(d, x) /\ lamport'[d] = Replica!AdvanceLamport(d, x)
      /\ crdtDag'[d] = crdtDag[d] \cup {x.id}
      /\ \A e \in Replicas : e # d => doc'[e] = doc[e] /\ lamport'[e] = lamport[e] /\ crdtDag'[e] = crdtDag[e]
  BY <1>1 DEF Domains
<1>4. overridden' = (overridden \/ doc'[d] # doc[d] \cup x.bytes)
  BY <1>1
<1> QED BY <1>1, <1>2, <1>3, <1>4, Zenon

\* What a restart changes.
LEMMA RestartIs ==
  ASSUME Domains, NEW d \in Replicas, Replica!Restart(d)
  PROVE  /\ Domains' /\ crdtRestarts'[d] = crdtRestarts[d] + 1 /\ doc'[d] = {} /\ lamport'[d] = 0 /\ writeCall'[d] = None
         /\ \A e \in Replicas : e # d => /\ crdtRestarts'[e] = crdtRestarts[e] /\ doc'[e] = doc[e]
                                         /\ lamport'[e] = lamport[e] /\ writeCall'[e] = writeCall[e]
         /\ crdtDag' = crdtDag /\ deltas' = deltas /\ writes' = writes /\ overridden' = overridden
BY DEF Replica!Restart, Domains

\* The projection changes the store alone.
LEMMA ProjectIs ==
  ASSUME Domains, NEW d \in Replicas, Replica!ProjectMerged(d)
  PROVE  UNCHANGED <<doc, lamport, crdtDag, writeCall, deltas, writes, overridden, crdtRestarts>>
BY DEF Replica!ProjectMerged

-----------------------------------------------------------------------------
(* Identities.                                                             *)

\* Every step keeps the identities.
LEMMA IdsStep ==
  ASSUME Domains, IdsInv, CallInv, [Replica!Next]_crdtVars
  PROVE  Domains' /\ IdsInv' /\ CallInv'
<1>1. ASSUME UNCHANGED <<doc, lamport, crdtDag, writeCall, deltas, writes, crdtRestarts>>
      PROVE  Domains' /\ IdsInv' /\ CallInv'
  BY <1>1 DEF Domains, IdsInv, CallInv
<1>2. ASSUME NEW d \in Replicas, NEW k \in Keys, Replica!StoreWrite(d, k) PROVE Domains' /\ IdsInv' /\ CallInv'
  <2>1. /\ Domains' /\ writes' = writes + 1 /\ writeCall[d] = None
        /\ writeCall'[d] = [phase |-> "stored", key |-> k, val |-> writes + 1, bytes |-> {}]
        /\ \A e \in Replicas : e # d => writeCall'[e] = writeCall[e]
        /\ crdtDag' = crdtDag /\ deltas' = deltas
    BY <1>2, StoreWriteIs
  <2>2. CallInv'
    <3>1. IsCall(writeCall'[d])
      BY <2>1 DEF IsCall
    <3> QED BY <2>1, <3>1 DEF CallInv
  <2>3. writeCall'[d].val = writes + 1
    BY <2>1
  <2>4. \A i \in IdsOf(deltas) : i \in Nat /\ i <= writes
    BY DEF IdsInv, IdsOf
  <2>5. writes \in Nat
    BY DEF IdsInv
  <2>6. \A e \in Replicas : writeCall'[e] # None =>
          writeCall'[e].val \in Nat /\ writeCall'[e].val <= writes' /\ writeCall'[e].val \notin IdsOf(deltas')
    <3> TAKE e \in Replicas
    <3>1. CASE e = d
      BY <2>1, <2>3, <2>4, <2>5, <3>1
    <3>2. CASE e # d
      <4>1. writeCall[e] # None => writeCall[e].val \in Nat /\ writeCall[e].val <= writes /\ writeCall[e].val \notin IdsOf(deltas)
        BY DEF IdsInv
      <4> QED BY <2>1, <2>5, <3>2, <4>1
    <3> QED BY <3>1, <3>2
  <2>7. \A e \in Replicas : e # d /\ writeCall'[e] # None => writeCall'[e].val # writeCall'[d].val
    <3> TAKE e \in Replicas
    <3>1. writeCall[e] # None => writeCall[e].val \in Nat /\ writeCall[e].val <= writes
      BY DEF IdsInv
    <3> QED BY <2>1, <2>3, <2>5, <3>1
  <2>8. \A c, e \in Replicas : writeCall'[c] # None /\ writeCall'[e] # None /\ writeCall'[c].val = writeCall'[e].val => c = e
    <3>1. \A c, e \in Replicas : writeCall[c] # None /\ writeCall[e] # None /\ writeCall[c].val = writeCall[e].val => c = e
      BY DEF IdsInv
    <3> QED BY <2>1, <2>7, <3>1
  <2>9. \A x \in deltas' : x.id \in Nat /\ x.id <= writes' /\ x.parents \subseteq IdsOf(deltas')
    <3>1. \A x \in deltas : x.id \in Nat /\ x.id <= writes /\ x.parents \subseteq IdsOf(deltas)
      BY DEF IdsInv
    <3> QED BY <2>1, <2>5, <3>1
  <2> QED BY <2>1, <2>2, <2>5, <2>6, <2>8, <2>9 DEF IdsInv
<1>3. ASSUME NEW d \in Replicas, Replica!write_scalar(d) PROVE Domains' /\ IdsInv' /\ CallInv'
  <2>1. PICK ops : ops = Replica!put(Replica!put(doc[d], d, Replica!RowKey, writeCall[d].key), d, writeCall[d].key, writeCall[d].val)
    OBVIOUS
  <2>2. /\ Domains' /\ writeCall[d] # None
        /\ \A e \in Replicas : e # d => writeCall'[e] = writeCall[e]
        /\ writeCall'[d] = [phase |-> "put", key |-> writeCall[d].key, val |-> writeCall[d].val, bytes |-> ops]
        /\ writes' = writes /\ crdtDag' = crdtDag /\ deltas' = deltas
    BY <1>3, <2>1, WriteScalarIs
  <2>3. CallInv'
    <3>1. IsCall(writeCall'[d])
      BY <2>2 DEF IsCall
    <3> QED BY <2>2, <3>1 DEF CallInv
  <2>4. writeCall'[d].val = writeCall[d].val
    BY <2>2
  <2>5. \A e \in Replicas : writeCall'[e] # None => writeCall[e] # None /\ writeCall'[e].val = writeCall[e].val
    BY <2>2, <2>4
  <2> QED BY <2>2, <2>3, <2>5 DEF IdsInv
<1>4. ASSUME NEW d \in Replicas, Replica!produce_delta_with_tags(d) PROVE Domains' /\ IdsInv' /\ CallInv'
  <2>1. PICK x : /\ Domains' /\ writeCall[d] # None
                 /\ x.id = writeCall[d].val /\ x.parents = Replica!Dag!dag_tips(Stored(d))
                 /\ crdtDag'[d] = crdtDag[d] \cup {x.id}
                 /\ \A e \in Replicas : e # d => crdtDag'[e] = crdtDag[e] /\ writeCall'[e] = writeCall[e]
                 /\ deltas' = deltas \cup {x} /\ writeCall'[d] = None /\ writes' = writes
    BY <1>4, ProduceIs
  <2>2. CallInv'
    BY <2>1 DEF CallInv
  <2>3. x.id \in Nat /\ x.id <= writes /\ x.id \notin IdsOf(deltas)
    BY <2>1 DEF IdsInv
  <2>4. x.parents \subseteq IdsOf(deltas)
    <3>1. Stored(d) \in SUBSET deltas
      BY DEF Stored
    <3>2. IsFiniteSet(Stored(d))
      BY <3>1, FS_Subset DEF IdsInv
    <3>3. x.parents \subseteq IdsOf(Stored(d))
      BY <2>1, <3>2, TipsWithin
    <3> QED BY <3>1, <3>3 DEF IdsOf
  <2>5. IdsOf(deltas') = IdsOf(deltas) \cup {x.id}
    BY <2>1 DEF IdsOf
  <2>6. IsFiniteSet(deltas')
    BY <2>1, FS_AddElement DEF IdsInv
  <2>7. \A y \in deltas' : y.id \in Nat /\ y.id <= writes' /\ y.parents \subseteq IdsOf(deltas')
    BY <2>1, <2>3, <2>4, <2>5 DEF IdsInv
  <2>8. \A y, z \in deltas' : y.id = z.id => y = z
    <3>1. \A y \in deltas : y.id # x.id
      BY <2>3 DEF IdsOf
    <3> QED BY <2>1, <3>1 DEF IdsInv
  <2>9. \A e \in Replicas : crdtDag'[e] \subseteq IdsOf(deltas')
    BY <2>1, <2>5 DEF IdsInv
  <2>10. \A e \in Replicas : writeCall'[e] # None => e # d /\ writeCall'[e] = writeCall[e] /\ writeCall[e].val # x.id
    BY <2>1 DEF IdsInv
  <2>11. \A e \in Replicas : writeCall'[e] # None =>
          writeCall'[e].val \in Nat /\ writeCall'[e].val <= writes' /\ writeCall'[e].val \notin IdsOf(deltas')
    BY <2>1, <2>5, <2>10 DEF IdsInv
  <2>12. \A c, e \in Replicas : writeCall'[c] # None /\ writeCall'[e] # None /\ writeCall'[c].val = writeCall'[e].val => c = e
    BY <2>10 DEF IdsInv
  <2>13. writes' \in Nat
    BY <2>1 DEF IdsInv
  <2> QED BY <2>1, <2>2, <2>6, <2>7, <2>8, <2>9, <2>11, <2>12, <2>13 DEF IdsInv
<1>5. ASSUME NEW d \in Replicas, NEW x \in deltas, Replica!apply(d, x) PROVE Domains' /\ IdsInv' /\ CallInv'
  <2>1. /\ Domains' /\ crdtDag'[d] = crdtDag[d] \cup {x.id}
        /\ \A e \in Replicas : e # d => crdtDag'[e] = crdtDag[e]
        /\ writeCall' = writeCall /\ deltas' = deltas /\ writes' = writes
    BY <1>5, ApplyIs
  <2>2. x.id \in IdsOf(deltas)
    BY DEF IdsOf
  <2>3. CallInv'
    BY <2>1 DEF CallInv
  <2> QED BY <2>1, <2>2, <2>3 DEF IdsInv
<1>6. ASSUME NEW d \in Replicas, Replica!ProjectMerged(d) PROVE Domains' /\ IdsInv' /\ CallInv'
  BY <1>1, <1>6, ProjectIs
<1>7. ASSUME NEW d \in Replicas, Replica!Restart(d) PROVE Domains' /\ IdsInv' /\ CallInv'
  <2>1. /\ Domains' /\ writeCall'[d] = None
        /\ \A e \in Replicas : e # d => writeCall'[e] = writeCall[e]
        /\ crdtDag' = crdtDag /\ deltas' = deltas /\ writes' = writes
    BY <1>7, RestartIs
  <2>2. \A e \in Replicas : writeCall'[e] # None => writeCall'[e] = writeCall[e] /\ writeCall[e] # None
    BY <2>1
  <2>3. CallInv'
    BY <2>2 DEF CallInv
  <2> QED BY <2>1, <2>2, <2>3 DEF IdsInv
<1>8. CASE UNCHANGED crdtVars
  BY <1>1, <1>8 DEF crdtVars
<1> QED BY <1>2, <1>3, <1>4, <1>5, <1>6, <1>7, <1>8, CrdtCases

-----------------------------------------------------------------------------
(* Clocks.                                                                 *)

\* Every step keeps the clocks.
LEMMA ClockStep ==
  ASSUME Domains, IdsInv, CallInv, ClockInv, [Replica!Next]_crdtVars
  PROVE  ClockInv'
<1>1. ASSUME UNCHANGED <<lamport, crdtDag, deltas, crdtRestarts>> PROVE ClockInv'
  BY <1>1 DEF ClockInv, Replica!LamportCausal
<1>2. ASSUME NEW d \in Replicas, NEW k \in Keys, Replica!StoreWrite(d, k) PROVE ClockInv'
  BY <1>1, <1>2, StoreWriteIs
<1>3. ASSUME NEW d \in Replicas, Replica!write_scalar(d) PROVE ClockInv'
  BY <1>1, <1>3 DEF Replica!write_scalar
<1>4. ASSUME NEW d \in Replicas, Replica!produce_delta_with_tags(d) PROVE ClockInv'
  <2>1. PICK x : /\ x.id = writeCall[d].val /\ writeCall[d] # None
                 /\ x.lamport = lamport'[d] /\ x.parents = Replica!Dag!dag_tips(Stored(d)) /\ x.life = crdtRestarts[d]
                 /\ lamport'[d] = lamport[d] + 1 /\ crdtDag'[d] = crdtDag[d] \cup {x.id}
                 /\ \A e \in Replicas : e # d => lamport'[e] = lamport[e] /\ crdtDag'[e] = crdtDag[e]
                 /\ deltas' = deltas \cup {x} /\ crdtRestarts' = crdtRestarts
    BY <1>4, ProduceIs
  <2>2. x.id \notin IdsOf(deltas)
    BY <2>1 DEF IdsInv
  <2>3. x.parents \subseteq IdsOf(Stored(d))
    <3>1. Stored(d) \in SUBSET deltas
      BY DEF Stored
    <3>2. IsFiniteSet(Stored(d))
      BY <3>1, FS_Subset DEF IdsInv
    <3> QED BY <2>1, <3>2, TipsWithin
  <2>4. \A e \in Replicas : lamport'[e] \in Nat /\ crdtRestarts'[e] \in Nat /\ lamport[e] \in Nat /\ lamport[e] <= lamport'[e]
    BY <2>1 DEF ClockInv
  <2>5. \A y \in deltas' : y.lamport \in Nat
    BY <2>1, <2>4 DEF ClockInv
  <2>6. ASSUME NEW e \in Replicas, NEW y \in deltas', crdtRestarts'[e] = 0, y.id \in crdtDag'[e]
        PROVE  y.lamport <= lamport'[e]
    <3>1. CASE y \in deltas
      <4>1. y.id # x.id /\ y.id \in crdtDag[e] /\ crdtRestarts[e] = 0
        BY <2>1, <2>2, <2>6, <3>1 DEF IdsOf
      <4>2. y.lamport <= lamport[e] /\ y.lamport \in Nat
        BY <3>1, <4>1 DEF ClockInv
      <4> QED BY <2>4, <4>2
    <3>2. CASE y = x
      <4>1. e = d
        BY <2>1, <2>2, <2>6, <3>2 DEF IdsInv
      <4> QED BY <2>1, <2>4, <3>2, <4>1
    <3> QED BY <2>1, <3>1, <3>2
  <2>7. ASSUME NEW y \in deltas', NEW p \in deltas', p.id \in y.parents, y.life = 0
        PROVE  y.lamport > p.lamport
    <3>1. CASE y \in deltas
      <4>1. p.id # x.id
        BY <2>2, <2>7, <3>1 DEF IdsInv
      <4>2. p \in deltas
        BY <2>1, <2>7, <4>1
      <4> QED BY <2>7, <3>1, <4>2 DEF ClockInv, Replica!LamportCausal
    <3>2. CASE y = x
      <4>1. PICK q \in Stored(d) : q.id = p.id
        BY <2>3, <2>7, <3>2 DEF IdsOf
      <4>2. q \in deltas /\ q.id \in crdtDag[d]
        BY <4>1 DEF Stored
      <4>3. q = p
        <5>1. p # x
          BY <2>2, <4>1, <4>2 DEF IdsOf
        <5> QED BY <2>1, <2>7, <4>1, <4>2, <5>1 DEF IdsInv
      <4>4. crdtRestarts[d] = 0
        BY <2>1, <2>7, <3>2
      <4>5. p.lamport <= lamport[d] /\ p.lamport \in Nat /\ lamport[d] \in Nat
        BY <4>2, <4>3, <4>4 DEF ClockInv
      <4> QED BY <2>1, <3>2, <4>5
    <3> QED BY <2>1, <3>1, <3>2
  <2>8. Replica!LamportCausal'
    BY <2>7 DEF Replica!LamportCausal
  <2> QED BY <2>4, <2>5, <2>6, <2>8 DEF ClockInv
<1>5. ASSUME NEW d \in Replicas, NEW x \in deltas, Replica!apply(d, x) PROVE ClockInv'
  <2>1. /\ lamport'[d] = Replica!AdvanceLamport(d, x) /\ crdtDag'[d] = crdtDag[d] \cup {x.id}
        /\ \A e \in Replicas : e # d => lamport'[e] = lamport[e] /\ crdtDag'[e] = crdtDag[e]
        /\ deltas' = deltas /\ crdtRestarts' = crdtRestarts
    BY <1>5, ApplyIs
  <2>2. x.lamport \in Nat /\ lamport[d] \in Nat
    BY DEF ClockInv
  <2>3. lamport'[d] \in Nat /\ lamport[d] <= lamport'[d] /\ x.lamport <= lamport'[d]
    BY <2>1, <2>2 DEF Replica!AdvanceLamport
  <2>4. ASSUME NEW e \in Replicas, NEW y \in deltas, crdtRestarts[e] = 0, y.id \in crdtDag'[e]
        PROVE  y.lamport <= lamport'[e]
    <3>1. y.lamport \in Nat
      BY DEF ClockInv
    <3>2. CASE y = x /\ e = d
      BY <2>3, <3>2
    <3>3. CASE ~(y = x /\ e = d)
      <4>1. y.id \in crdtDag[e]
        BY <2>1, <2>4, <3>3 DEF IdsInv
      <4>2. y.lamport <= lamport[e]
        BY <2>4, <4>1 DEF ClockInv
      <4> QED BY <2>1, <2>2, <2>3, <3>1, <4>2
    <3> QED BY <3>2, <3>3
  <2>5. \A e \in Replicas : lamport'[e] \in Nat
    BY <2>1, <2>3 DEF ClockInv
  <2> QED BY <2>1, <2>4, <2>5 DEF ClockInv, Replica!LamportCausal
<1>6. ASSUME NEW d \in Replicas, Replica!ProjectMerged(d) PROVE ClockInv'
  BY <1>1, <1>6, ProjectIs
<1>7. ASSUME NEW d \in Replicas, Replica!Restart(d) PROVE ClockInv'
  <2>1. /\ crdtRestarts'[d] = crdtRestarts[d] + 1 /\ lamport'[d] = 0
        /\ \A e \in Replicas : e # d => crdtRestarts'[e] = crdtRestarts[e] /\ lamport'[e] = lamport[e]
        /\ crdtDag' = crdtDag /\ deltas' = deltas
    BY <1>7, RestartIs
  <2>2. crdtRestarts'[d] \in Nat /\ crdtRestarts'[d] # 0
    BY <2>1 DEF ClockInv
  <2> QED BY <2>1, <2>2 DEF ClockInv, Replica!LamportCausal
<1>8. CASE UNCHANGED crdtVars
  BY <1>1, <1>8 DEF crdtVars
<1> QED BY <1>2, <1>3, <1>4, <1>5, <1>6, <1>7, <1>8, CrdtCases

-----------------------------------------------------------------------------
(* Documents.                                                              *)

\* A put adds at most one operation, of the device's own, numbered next.
LEMMA PutIs ==
  ASSUME NEW ops, NEW d, NEW reg, NEW val
  PROVE  \/ Replica!put(ops, d, reg, val) = ops
         \/ \E o : /\ Replica!put(ops, d, reg, val) = ops \cup {o} /\ o.actor = d
                   /\ o.n = Replica!Cardinality({p \in ops : p.actor = d}) + 1
<1> DEFINE o == [reg |-> reg, val |-> val, actor |-> d, ctr |-> Replica!MaxCtr(ops) + 1,
                 n |-> Replica!Cardinality({p \in ops : p.actor = d}) + 1,
                 pred |-> {Replica!OpId(p) : p \in Replica!Visible(ops, reg)}]
<1>1. o.actor = d /\ o.n = Replica!Cardinality({p \in ops : p.actor = d}) + 1
  OBVIOUS
<1>2. Replica!put(ops, d, reg, val) \in {ops, ops \cup {o}}
  BY DEF Replica!put
<1> HIDE DEF o
<1> QED BY <1>1, <1>2

\* ops grew to new by operations of d alone.
GrownBy(ops, new, d) ==
    /\ ops \subseteq new /\ \A o \in new \ ops : o.actor = d
    /\ IsFiniteSet(ops) => IsFiniteSet(new)

\* A device's operations are numbered one by one.
Own(ops, d) == {o \in ops : o.actor = d}
Numbered(ops, d) ==
    /\ IsFiniteSet(ops)
    /\ \A o \in Own(ops, d) : o.n \in 1 .. Cardinality(Own(ops, d))
    /\ \A o, p \in Own(ops, d) : o.n = p.n => o = p

\* A device has finitely many operations in a finite document.
LEMMA OwnIsFinite ==
  ASSUME NEW ops, IsFiniteSet(ops), NEW d
  PROVE  IsFiniteSet(Own(ops, d)) /\ Cardinality(Own(ops, d)) \in Nat /\ Replica!Cardinality({p \in ops : p.actor = d}) = Cardinality(Own(ops, d))
<1>1. Own(ops, d) \in SUBSET ops /\ Own(ops, d) = {p \in ops : p.actor = d}
  BY DEF Own
<1>2. IsFiniteSet(Own(ops, d))
  BY <1>1, FS_Subset
<1> QED BY <1>1, <1>2, CountIs

\* A put is the device's own and keeps the numbering.
LEMMA PutKeeps ==
  ASSUME NEW ops, NEW d, NEW reg, NEW val, NEW new, new = Replica!put(ops, d, reg, val)
  PROVE  GrownBy(ops, new, d) /\ (Numbered(ops, d) => Numbered(new, d))
<1>1. CASE new = ops
  BY <1>1 DEF GrownBy
<1>2. ASSUME NEW o, new = ops \cup {o}, o.actor = d, o.n = Replica!Cardinality({p \in ops : p.actor = d}) + 1
      PROVE  GrownBy(ops, new, d) /\ (Numbered(ops, d) => Numbered(new, d))
  <2>1. GrownBy(ops, new, d)
    BY <1>2, FS_AddElement DEF GrownBy
  <2>2. ASSUME Numbered(ops, d) PROVE Numbered(new, d)
    <3>1. IsFiniteSet(ops) /\ IsFiniteSet(new)
      BY <2>1, <2>2 DEF Numbered, GrownBy
    <3>2. PICK n \in Nat : n = Cardinality(Own(ops, d))
      BY <3>1, OwnIsFinite
    <3>3. o.n = n + 1
      BY <1>2, <3>1, <3>2, OwnIsFinite
    <3>4. \A p \in Own(ops, d) : p.n \in 1 .. n
      BY <2>2, <3>2 DEF Numbered
    <3>5. o \notin Own(ops, d)
      BY <3>3, <3>4
    <3>6. Own(new, d) = Own(ops, d) \cup {o}
      BY <1>2 DEF Own
    <3>7. Cardinality(Own(new, d)) = n + 1
      BY <3>1, <3>2, <3>5, <3>6, OwnIsFinite, FS_AddElement
    <3>8. \A p \in Own(new, d) : p.n \in 1 .. (n + 1)
      BY <3>3, <3>4, <3>6
    <3>9. \A p \in Own(ops, d) : p.n # o.n
      BY <3>3, <3>4
    <3>10. \A p, q \in Own(new, d) : p.n = q.n => p = q
      BY <2>2, <3>6, <3>9 DEF Numbered
    <3> QED BY <3>1, <3>7, <3>8, <3>10 DEF Numbered
  <2> QED BY <2>1, <2>2
<1>3. new = ops \/ \E o : new = ops \cup {o} /\ o.actor = d /\ o.n = Replica!Cardinality({p \in ops : p.actor = d}) + 1
  BY PutIs
<1> QED BY <1>1, <1>2, <1>3

\* Growth by one device's operations is transitive.
LEMMA GrownTwice ==
  ASSUME NEW a, NEW b, NEW c, NEW d, GrownBy(a, b, d), GrownBy(b, c, d)
  PROVE  GrownBy(a, c, d)
BY DEF GrownBy

\* One conflict of the read-back verification.
Redo(d, mine, theirs, i, ops) ==
    IF /\ RegOrder[i] \in Replica!capture_conflicts(mine, theirs)
       /\ Replica!OpId(Replica!Winner(ops, RegOrder[i])) = Replica!OpId(Replica!Winner(mine, RegOrder[i]))
    THEN Replica!put(ops, d, RegOrder[i], Replica!Winner(theirs, RegOrder[i]).val)
    ELSE ops

\* The rounds of the verification, one for each root key.
Rounds(d, mine, theirs, N, w) ==
    /\ Replica!Overrides(d, mine, theirs) = w[N]
    /\ w[0] = mine \cup theirs /\ \A k \in 1 .. N : w[k] = Redo(d, mine, theirs, k, w[k - 1])

\* The verification, unfolded.
LEMMA OverridesUnfold ==
  ASSUME NEW d, NEW mine, NEW theirs, NEW N \in Nat, N = Len(RegOrder)
  PROVE  \E w : Rounds(d, mine, theirs, N, w)
<1> DEFINE F(k, ops) == Redo(d, mine, theirs, k, ops)
           Rec(u) == u = [i \in 0 .. Len(RegOrder) |-> IF i = 0 THEN mine \cup theirs ELSE F(i, u[i - 1])]
           w == CHOOSE u : Rec(u)
           a == mine \cup theirs
           Run(n, u) == u[0] = a /\ \A k \in 1 .. n : u[k] = F(k, u[k - 1])
           P == {n \in Nat : \E u : Run(n, u)}
<1>1. Replica!Overrides(d, mine, theirs) = w[Len(RegOrder)]
  BY DEF Replica!Overrides, Redo
<1> HIDE DEF F, a
<1>2. 0 \in P
  <2>1. Run(0, [k \in 0 .. 0 |-> a])
    OBVIOUS
  <2> QED BY <2>1
<1>3. ASSUME NEW n \in P PROVE n + 1 \in P
  <2>1. n \in Nat
    OBVIOUS
  <2>2. PICK u : Run(n, u)
    OBVIOUS
  <2> DEFINE v == [k \in 0 .. (n + 1) |-> IF k = n + 1 THEN F(n + 1, u[n]) ELSE u[k]]
  <2>3. \A k \in 0 .. n : v[k] = u[k]
    BY <2>1
  <2>4. v[n + 1] = F(n + 1, u[n])
    BY <2>1
  <2> HIDE DEF v
  <2>5. v[0] = a
    BY <2>1, <2>2, <2>3
  <2>6. ASSUME NEW k \in 1 .. (n + 1) PROVE v[k] = F(k, v[k - 1])
    <3>1. CASE k = n + 1
      <4>1. k - 1 = n /\ n \in 0 .. n
        BY <2>1, <3>1
      <4> QED BY <2>3, <2>4, <3>1, <4>1
    <3>2. CASE k # n + 1
      <4>1. k \in 1 .. n /\ k \in 0 .. n /\ k - 1 \in 0 .. n
        BY <2>1, <3>2
      <4>2. u[k] = F(k, u[k - 1])
        BY <2>2, <4>1
      <4> QED BY <2>3, <4>1, <4>2
    <3> QED BY <3>1, <3>2
  <2>7. Run(n + 1, v)
    BY <2>5, <2>6
  <2> QED BY <2>1, <2>7
<1> HIDE DEF P
<1>4. P = Nat
  <2>1. P \in SUBSET Nat
    BY DEF P
  <2> QED BY <1>2, <1>3, <2>1, SetInduction
<1>5. PICK u : Run(N, u)
  BY <1>4 DEF P
<1>6. PICK f : f = [k \in 0 .. N |-> IF k = 0 THEN a ELSE F(k, u[k - 1])]
  OBVIOUS
<1>7. \A k \in 0 .. N : f[k] = u[k]
  <2> TAKE k \in 0 .. N
  <2>1. f[k] = IF k = 0 THEN a ELSE F(k, u[k - 1])
    BY <1>6
  <2>2. k # 0 => k \in 1 .. N
    OBVIOUS
  <2> QED BY <1>5, <2>1, <2>2
<1>8. f = [k \in 0 .. N |-> IF k = 0 THEN a ELSE F(k, f[k - 1])]
  <2>1. \A k \in 0 .. N : k # 0 => k - 1 \in 0 .. N
    OBVIOUS
  <2>2. \A k \in 0 .. N : (IF k = 0 THEN a ELSE F(k, u[k - 1])) = (IF k = 0 THEN a ELSE F(k, f[k - 1]))
    BY <1>7, <2>1
  <2> QED BY <1>6, <2>2
<1>9. Rec(w)
  <2>1. Rec(f)
    BY <1>8 DEF a
  <2> HIDE DEF Rec
  <2> QED BY <2>1
<1> HIDE DEF w
<1>10. PICK g : g = [k \in 0 .. N |-> IF k = 0 THEN a ELSE F(k, w[k - 1])]
  OBVIOUS
<1>11. w = g
  BY <1>9, <1>10 DEF a
<1> HIDE DEF Rec
<1>12. w[0] = a
  BY <1>10, <1>11
<1>13. ASSUME NEW k \in 1 .. N PROVE w[k] = F(k, w[k - 1])
  <2>1. k \in 0 .. N /\ k # 0
    OBVIOUS
  <2>2. g[k] = F(k, w[k - 1])
    BY <1>10, <2>1
  <2> QED BY <1>11, <2>2
<1>14. Replica!Overrides(d, mine, theirs) = w[N]
  BY <1>1
<1>15. w[0] = mine \cup theirs
  BY <1>12 DEF a
<1>16. \A k \in 1 .. N : w[k] = Redo(d, mine, theirs, k, w[k - 1])
  BY <1>13 DEF F
<1> QED BY <1>14, <1>15, <1>16 DEF Rounds

\* The verification adds operations of the device's own only, numbered on.
LEMMA OverridesKeep ==
  ASSUME NEW d, NEW mine, NEW theirs, Len(RegOrder) \in Nat, NEW new, new = Replica!Overrides(d, mine, theirs)
  PROVE  GrownBy(mine \cup theirs, new, d) /\ (Numbered(mine \cup theirs, d) => Numbered(new, d))
<1>1. PICK N \in Nat : N = Len(RegOrder)
  OBVIOUS
<1>0. PICK w : Rounds(d, mine, theirs, N, w)
  BY <1>1, OverridesUnfold
<1>2. /\ Replica!Overrides(d, mine, theirs) = w[N]
      /\ w[0] = mine \cup theirs /\ \A k \in 1 .. N : w[k] = Redo(d, mine, theirs, k, w[k - 1])
  BY <1>0 DEF Rounds
<1>3. PICK a : a = mine \cup theirs
  OBVIOUS
<1> DEFINE Good(ops) == GrownBy(a, ops, d) /\ (Numbered(a, d) => Numbered(ops, d))
           P == {k \in Nat : k <= N => Good(w[k])}
<1>4. Good(a)
  BY DEF GrownBy
<1>5. ASSUME NEW k, NEW ops, Good(ops) PROVE Good(Redo(d, mine, theirs, k, ops))
  <2>1. CASE Redo(d, mine, theirs, k, ops) = ops
    BY <1>5, <2>1
  <2>2. ASSUME NEW reg, NEW val, Redo(d, mine, theirs, k, ops) = Replica!put(ops, d, reg, val)
        PROVE  Good(Redo(d, mine, theirs, k, ops))
    <3>1. PICK b : b = Replica!put(ops, d, reg, val)
      OBVIOUS
    <3>2. GrownBy(ops, b, d) /\ (Numbered(ops, d) => Numbered(b, d))
      BY <3>1, PutKeeps
    <3>3. GrownBy(a, b, d)
      BY <1>5, <3>2, GrownTwice
    <3> QED BY <1>5, <2>2, <3>1, <3>2, <3>3
  <2>3. \/ Redo(d, mine, theirs, k, ops) = ops
        \/ \E reg, val : Redo(d, mine, theirs, k, ops) = Replica!put(ops, d, reg, val)
    BY DEF Redo
  <2> HIDE DEF Good
  <2> QED BY <2>1, <2>2, <2>3
<1> HIDE DEF Good
<1>6. 0 \in P
  BY <1>2, <1>3, <1>4
<1>7. ASSUME NEW k \in P PROVE k + 1 \in P
  <2> SUFFICES ASSUME k + 1 <= N PROVE Good(w[k + 1])
    OBVIOUS
  <2>1. k \in Nat /\ k <= N /\ k + 1 \in 1 .. N /\ (k + 1) - 1 = k
    OBVIOUS
  <2>2. Good(w[k])
    BY <2>1
  <2>3. w[k + 1] = Redo(d, mine, theirs, k + 1, w[k])
    BY <1>2, <2>1
  <2> QED BY <1>5, <2>2, <2>3
<1>8. P \in SUBSET Nat
  OBVIOUS
<1> HIDE DEF P
<1>9. P = Nat
  BY <1>6, <1>7, <1>8, SetInduction
<1>10. Good(w[N])
  BY <1>9 DEF P
<1> QED BY <1>2, <1>3, <1>10 DEF Good

\* So does every merge.
LEMMA MergeKeeps ==
  ASSUME NEW d, NEW x, Len(RegOrder) \in Nat, NEW new, new = Replica!verify_and_override(d, x)
  PROVE  GrownBy(doc[d] \cup x.bytes, new, d) /\ (Numbered(doc[d] \cup x.bytes, d) => Numbered(new, d))
<1>1. PICK a : a = doc[d] \cup x.bytes
  OBVIOUS
<1>2. new = a \/ new = Replica!Overrides(d, doc[d], x.bytes)
  BY <1>1 DEF Replica!verify_and_override
<1>3. GrownBy(a, a, d)
  BY DEF GrownBy
<1> QED BY <1>1, <1>2, <1>3, OverridesKeep

\* So do the two puts of a write().
LEMMA WriteKeeps ==
  ASSUME NEW d, NEW ops, NEW key, NEW val, NEW r, NEW new,
         new = Replica!put(Replica!put(ops, d, r, key), d, key, val)
  PROVE  GrownBy(ops, new, d) /\ (Numbered(ops, d) => Numbered(new, d))
<1>1. PICK b : b = Replica!put(ops, d, r, key)
  OBVIOUS
<1>2. GrownBy(ops, b, d) /\ (Numbered(ops, d) => Numbered(b, d))
  BY <1>1, PutKeeps
<1>3. GrownBy(b, new, d) /\ (Numbered(b, d) => Numbered(new, d))
  BY <1>1, PutKeeps
<1> QED BY <1>2, <1>3, GrownTwice

-----------------------------------------------------------------------------
(* Change numbers.                                                         *)

\* Every set of operations there is: documents, produced deltas, saved bytes.
OpSets(docs, ds, wc) ==
    {docs[e] : e \in Replicas} \cup {x.bytes : x \in ds} \cup {wc[e].bytes : e \in {c \in Replicas : wc[c] # None}}

NoRestart == \A e \in Replicas : crdtRestarts[e] = 0

\* They are finite, and written by replicas.
Written(X) == \A B \in X : IsFiniteSet(B) /\ \A o \in B : o.actor \in Replicas

\* Every operation is in its writer's document, and numbered there.
Complete(X, docs) ==
    /\ \A B \in X : \A o \in B : o \in docs[o.actor]
    /\ \A e \in Replicas : Numbered(docs[e], e)

NumberInv ==
    /\ Written(OpSets(doc, deltas, writeCall))
    /\ NoRestart => Complete(OpSets(doc, deltas, writeCall), doc)

\* The documents are among X; they differ in what d holds.
Held(X, docs) == \A e \in Replicas : docs[e] \in X
Differ(docs, docs2, d, new) == docs2[d] = new /\ \A e \in Replicas : e # d => docs2[e] = docs[e]

\* A step in which one replica's document grows by its own operations, over
\* operations there were already.
LEMMA NumbersGrow ==
  ASSUME NEW X, NEW Y, NEW docs, NEW docs2, NEW d \in Replicas, NEW B, NEW new,
         Held(X, docs), B \in X \/ B = {}, Differ(docs, docs2, d, new),
         GrownBy(docs[d] \cup B, new, d), Y \subseteq X \cup {{}, new}, Written(X)
  PROVE  /\ Written(Y)
         /\ Complete(X, docs) /\ (Numbered(docs[d] \cup B, d) => Numbered(new, d)) => Complete(Y, docs2)
<1> USE DEF Held, Differ
<1>1. IsFiniteSet(docs[d]) /\ IsFiniteSet(B)
  BY FS_EmptySet DEF Written
<1>2. IsFiniteSet(docs[d] \cup B)
  BY <1>1, FS_Union
<1>3. IsFiniteSet(new)
  BY <1>2 DEF GrownBy
<1>4. \A o \in new : o \in docs[d] \/ o \in B \/ o.actor = d
  BY DEF GrownBy
<1>5. \A o \in new : o.actor \in Replicas
  BY <1>4 DEF Written
<1>6. Written(Y)
  BY <1>3, <1>5, FS_EmptySet DEF Written
<1>7. ASSUME Complete(X, docs), Numbered(docs[d] \cup B, d) => Numbered(new, d) PROVE Complete(Y, docs2)
  <2>1. \A o \in B : o.actor = d => o \in docs[d]
    BY <1>7 DEF Complete
  <2>2. Own(docs[d] \cup B, d) = Own(docs[d], d)
    BY <2>1 DEF Own
  <2>3. Numbered(docs[d] \cup B, d)
    BY <1>2, <1>7, <2>2 DEF Complete, Numbered
  <2>4. \A e \in Replicas : Numbered(docs2[e], e)
    BY <1>7, <2>3 DEF Complete
  <2>5. \A e \in Replicas : docs[e] \subseteq docs2[e]
    BY DEF GrownBy
  <2>6. ASSUME NEW C \in X, NEW o \in C PROVE o \in docs2[o.actor]
    <3>1. o \in docs[o.actor] /\ o.actor \in Replicas
      BY <1>7 DEF Complete, Written
    <3> QED BY <2>5, <3>1
  <2>7. ASSUME NEW o \in new PROVE o \in docs2[o.actor]
    <3>1. CASE o.actor = d
      BY <3>1
    <3>2. CASE o.actor # d
      <4>1. \E C \in X : o \in C
        BY <1>4, <3>2
      <4> QED BY <2>6, <4>1
    <3> QED BY <3>1, <3>2
  <2>8. \A C \in Y : \A o \in C : o \in docs2[o.actor]
    BY <2>6, <2>7
  <2> QED BY <2>4, <2>8 DEF Complete
<1> QED BY <1>6, <1>7

\* Membership in the sets of operations.
LEMMA OpSetsAre ==
  ASSUME NEW docs, NEW ds, NEW wc
  PROVE  \A C : C \in OpSets(docs, ds, wc) <=>
            \/ \E e \in Replicas : C = docs[e]
            \/ \E x \in ds : C = x.bytes
            \/ \E e \in Replicas : wc[e] # None /\ C = wc[e].bytes
BY DEF OpSets

\* Every step keeps the numbers.
LEMMA NumberStep ==
  ASSUME Domains, IdsInv, CallInv, ClockInv, NumberInv, Len(RegOrder) \in Nat, [Replica!Next]_crdtVars
  PROVE  NumberInv'
<1>1. PICK X : X = OpSets(doc, deltas, writeCall)
  OBVIOUS
<1>2. PICK docs2 : docs2 = doc'
  OBVIOUS
<1>3. PICK ds2 : ds2 = deltas'
  OBVIOUS
<1>4. PICK wc2 : wc2 = writeCall'
  OBVIOUS
<1>5. PICK Y : Y = OpSets(docs2, ds2, wc2)
  OBVIOUS
<1>6. Written(X) /\ (NoRestart => Complete(X, doc))
  BY <1>1 DEF NumberInv
<1>7. \A e \in Replicas : doc[e] \in X
  BY <1>1 DEF OpSets
<1>8. ASSUME NEW d \in Replicas, NEW B, B \in X \/ B = {}, NEW new, docs2[d] = new,
             \A e \in Replicas : e # d => docs2[e] = doc[e],
             GrownBy(doc[d] \cup B, new, d), Numbered(doc[d] \cup B, d) => Numbered(new, d),
             Y \subseteq X \cup {{}, new}, NoRestart' => NoRestart
      PROVE  NumberInv'
  <2>1. Written(Y) /\ (Complete(X, doc) => Complete(Y, docs2))
    <3>1. Held(X, doc) /\ Differ(doc, docs2, d, new)
      BY <1>7, <1>8 DEF Held, Differ
    <3>2. Written(X)
      BY <1>6
    <3> QED BY <1>8, <3>1, <3>2, NumbersGrow
  <2>2. NoRestart' => Complete(Y, docs2)
    BY <1>6, <1>8, <2>1
  <2> QED BY <1>2, <1>3, <1>4, <1>5, <2>1, <2>2 DEF NumberInv
<1>9. ASSUME NEW d \in Replicas, docs2 = doc, Y \subseteq X \cup {{}}, crdtRestarts' = crdtRestarts PROVE NumberInv'
  <2>1. GrownBy(doc[d] \cup {}, doc[d], d) /\ (Numbered(doc[d] \cup {}, d) => Numbered(doc[d], d))
    <3>1. doc[d] \cup {} = doc[d]
      OBVIOUS
    <3> QED BY <3>1 DEF GrownBy
  <2>2. NoRestart' => NoRestart
    BY <1>9 DEF NoRestart
  <2> QED BY <1>8, <1>9, <2>1, <2>2
<1>10. \A C : C \in X <=> \/ \E e \in Replicas : C = doc[e]
                          \/ \E x \in deltas : C = x.bytes
                          \/ \E e \in Replicas : writeCall[e] # None /\ C = writeCall[e].bytes
  BY <1>1, OpSetsAre
<1>11. \A C : C \in Y <=> \/ \E e \in Replicas : C = docs2[e]
                          \/ \E x \in ds2 : C = x.bytes
                          \/ \E e \in Replicas : wc2[e] # None /\ C = wc2[e].bytes
  BY <1>5, OpSetsAre
<1>12. ASSUME NEW d \in Replicas, NEW k \in Keys, Replica!StoreWrite(d, k) PROVE NumberInv'
  <2>1. /\ wc2[d] = [phase |-> "stored", key |-> k, val |-> writes + 1, bytes |-> {}]
        /\ \A e \in Replicas : e # d => wc2[e] = writeCall[e]
        /\ docs2 = doc /\ ds2 = deltas /\ crdtRestarts' = crdtRestarts
    BY <1>2, <1>3, <1>4, <1>12, StoreWriteIs
  <2>2. wc2[d].bytes = {}
    BY <2>1
  <2>3. Y \subseteq X \cup {{}}
    BY <1>10, <1>11, <2>1, <2>2
  <2> QED BY <1>9, <2>1, <2>3
<1>13. ASSUME NEW d \in Replicas, Replica!write_scalar(d) PROVE NumberInv'
  <2>1. PICK new : new = Replica!put(Replica!put(doc[d], d, Replica!RowKey, writeCall[d].key), d, writeCall[d].key, writeCall[d].val)
    OBVIOUS
  <2>2. /\ docs2[d] = new /\ \A e \in Replicas : e # d => docs2[e] = doc[e] /\ wc2[e] = writeCall[e]
        /\ wc2[d] = [phase |-> "put", key |-> writeCall[d].key, val |-> writeCall[d].val, bytes |-> new]
        /\ ds2 = deltas /\ crdtRestarts' = crdtRestarts
    BY <1>2, <1>3, <1>4, <1>13, <2>1, WriteScalarIs
  <2>3. wc2[d].bytes = new
    BY <2>2
  <2>4. Y \subseteq X \cup {{}, new}
    BY <1>10, <1>11, <2>2, <2>3
  <2>5. GrownBy(doc[d], new, d) /\ (Numbered(doc[d], d) => Numbered(new, d))
    BY <2>1, WriteKeeps
  <2>6. doc[d] \cup {} = doc[d]
    OBVIOUS
  <2>7. GrownBy(doc[d] \cup {}, new, d) /\ (Numbered(doc[d] \cup {}, d) => Numbered(new, d))
    BY <2>5, <2>6
  <2>8. NoRestart' => NoRestart
    BY <2>2 DEF NoRestart
  <2> QED BY <1>8, <2>2, <2>4, <2>7, <2>8
<1>14. ASSUME NEW d \in Replicas, Replica!produce_delta_with_tags(d) PROVE NumberInv'
  <2>1. PICK x : /\ writeCall[d] # None /\ x.bytes = writeCall[d].bytes
                 /\ \A e \in Replicas : e # d => wc2[e] = writeCall[e]
                 /\ ds2 = deltas \cup {x} /\ wc2[d] = None
                 /\ docs2 = doc /\ crdtRestarts' = crdtRestarts
    BY <1>2, <1>3, <1>4, <1>14, ProduceIs
  <2>2. Y \subseteq X \cup {{}}
    BY <1>10, <1>11, <2>1
  <2> QED BY <1>9, <2>1, <2>2
<1>15. ASSUME NEW d \in Replicas, NEW x \in deltas, Replica!apply(d, x) PROVE NumberInv'
  <2>1. PICK new : new = Replica!verify_and_override(d, x)
    OBVIOUS
  <2>2. /\ docs2[d] = new /\ \A e \in Replicas : e # d => docs2[e] = doc[e]
        /\ wc2 = writeCall /\ ds2 = deltas /\ crdtRestarts' = crdtRestarts
    BY <1>2, <1>3, <1>4, <1>15, <2>1, ApplyIs
  <2>3. Y \subseteq X \cup {{}, new}
    BY <1>10, <1>11, <2>2
  <2>4. GrownBy(doc[d] \cup x.bytes, new, d) /\ (Numbered(doc[d] \cup x.bytes, d) => Numbered(new, d))
    BY <2>1, MergeKeeps
  <2>5. x.bytes \in X
    BY <1>10
  <2>6. NoRestart' => NoRestart
    BY <2>2 DEF NoRestart
  <2> QED BY <1>8, <2>2, <2>3, <2>4, <2>5, <2>6
<1>16. ASSUME NEW d \in Replicas, Replica!ProjectMerged(d) PROVE NumberInv'
  BY <1>16, ProjectIs DEF NumberInv, NoRestart
<1>17. ASSUME NEW d \in Replicas, Replica!Restart(d) PROVE NumberInv'
  <2>1. /\ crdtRestarts'[d] = crdtRestarts[d] + 1 /\ docs2[d] = {} /\ wc2[d] = None
        /\ \A e \in Replicas : e # d => docs2[e] = doc[e] /\ wc2[e] = writeCall[e]
        /\ ds2 = deltas
    BY <1>2, <1>3, <1>4, <1>17, RestartIs
  <2>2. ~NoRestart'
    <3>1. crdtRestarts'[d] # 0
      BY <2>1 DEF ClockInv
    <3> QED BY <3>1 DEF NoRestart
  <2>3. Y \subseteq X \cup {{}}
    BY <1>10, <1>11, <2>1
  <2>4. Written(Y)
    BY <1>6, <2>3, FS_EmptySet DEF Written
  <2> QED BY <1>2, <1>3, <1>4, <1>5, <2>2, <2>4 DEF NumberInv
<1>18. CASE UNCHANGED crdtVars
  BY <1>18 DEF crdtVars, NumberInv, NoRestart
<1> QED BY <1>12, <1>13, <1>14, <1>15, <1>16, <1>17, <1>18, CrdtCases

\* Without a restart, whoever merges what finds no change number twice.
LEMMA NumbersSuffice ==
  ASSUME NumberInv, ClockInv
  PROVE  Replica!MergeFailsAfterRestartOnly
<1> SUFFICES ASSUME NEW d \in Replicas, NEW x \in deltas, Replica!DuplicateSeq(doc[d], x.bytes),
                    ~ \E e \in Replicas : crdtRestarts[e] > 0
             PROVE  FALSE
  BY DEF Replica!MergeFailsAfterRestartOnly
<1>1. NoRestart
  BY DEF ClockInv, NoRestart
<1>2. PICK X : X = OpSets(doc, deltas, writeCall)
  OBVIOUS
<1>3. Written(X) /\ Complete(X, doc)
  BY <1>1, <1>2 DEF NumberInv
<1>4. x.bytes \in X /\ doc[d] \in X
  BY <1>2 DEF OpSets
<1>5. PICK o \in x.bytes \ doc[d], p \in doc[d] : p.actor = o.actor /\ p.n = o.n
  BY DEF Replica!DuplicateSeq
<1>6. PICK c \in Replicas : c = o.actor
  BY <1>3, <1>4, <1>5 DEF Written
<1>7. o \in Own(doc[c], c) /\ p \in Own(doc[c], c)
  BY <1>3, <1>4, <1>5, <1>6 DEF Complete, Own
<1>8. o = p
  BY <1>3, <1>5, <1>7 DEF Complete, Numbered
<1> QED BY <1>5, <1>8

-----------------------------------------------------------------------------
(* Documents of replicas with the same deltas.                             *)

\* Every step keeps the documents what the deltas carry.
LEMMA DocStep ==
  ASSUME Domains, IdsInv, CallInv, ClockInv, DocInv, NoneIsNoCall, [Replica!Next]_crdtVars
  PROVE  DocInv'
<1>1. ASSUME UNCHANGED <<doc, crdtDag, writeCall, deltas, overridden, crdtRestarts>> PROVE DocInv'
  BY <1>1 DEF DocInv
<1>2. ASSUME NEW d \in Replicas, NEW k \in Keys, Replica!StoreWrite(d, k) PROVE DocInv'
  <2>1. /\ writeCall[d] = None
        /\ writeCall'[d] = [phase |-> "stored", key |-> k, val |-> writes + 1, bytes |-> {}]
        /\ \A e \in Replicas : e # d => writeCall'[e] = writeCall[e]
        /\ doc' = doc /\ crdtDag' = crdtDag /\ deltas' = deltas
        /\ overridden' = overridden /\ crdtRestarts' = crdtRestarts
    BY <1>2, StoreWriteIs
  <2>2. Pending(writeCall[d]) = {} /\ Pending(writeCall'[d]) = {}
    BY <2>1 DEF Pending
  <2>3. \A e \in Replicas : Pending(writeCall'[e]) = Pending(writeCall[e])
    BY <2>1, <2>2
  <2> QED BY <2>1, <2>3 DEF DocInv
<1>3. ASSUME NEW d \in Replicas, Replica!write_scalar(d) PROVE DocInv'
  <2>1. PICK ops : ops = Replica!put(Replica!put(doc[d], d, Replica!RowKey, writeCall[d].key), d, writeCall[d].key, writeCall[d].val)
    OBVIOUS
  <2>2. /\ writeCall[d].phase = "stored"
        /\ doc'[d] = ops /\ \A e \in Replicas : e # d => doc'[e] = doc[e] /\ writeCall'[e] = writeCall[e]
        /\ writeCall'[d] = [phase |-> "put", key |-> writeCall[d].key, val |-> writeCall[d].val, bytes |-> ops]
        /\ crdtDag' = crdtDag /\ deltas' = deltas /\ overridden' = overridden /\ crdtRestarts' = crdtRestarts
    BY <1>3, <2>1, WriteScalarIs
  <2>3. writeCall'[d] # None
    BY <2>2 DEF NoneIsNoCall
  <2>4. Pending(writeCall[d]) = {} /\ Pending(writeCall'[d]) = ops
    BY <2>2, <2>3 DEF Pending
  <2>5. doc[d] \subseteq ops
    BY <2>1, WriteKeeps DEF GrownBy
  <2> QED BY <2>2, <2>4, <2>5 DEF DocInv
<1>4. ASSUME NEW d \in Replicas, Replica!produce_delta_with_tags(d) PROVE DocInv'
  <2>1. PICK x : /\ writeCall[d] # None /\ writeCall[d].phase = "put"
                 /\ x.id = writeCall[d].val /\ x.bytes = writeCall[d].bytes
                 /\ crdtDag'[d] = crdtDag[d] \cup {x.id}
                 /\ \A e \in Replicas : e # d => crdtDag'[e] = crdtDag[e] /\ writeCall'[e] = writeCall[e]
                 /\ deltas' = deltas \cup {x} /\ writeCall'[d] = None
                 /\ doc' = doc /\ overridden' = overridden /\ crdtRestarts' = crdtRestarts
    BY <1>4, ProduceIs
  <2>2. x.id \notin IdsOf(deltas)
    BY <2>1 DEF IdsInv
  <2>3. Pending(writeCall[d]) = x.bytes /\ Pending(writeCall'[d]) = {}
    BY <2>1 DEF Pending
  <2>4. Carried(deltas', crdtDag'[d]) = Carried(deltas, crdtDag[d]) \cup x.bytes
    <3>1. {y \in deltas' : y.id \in crdtDag'[d]} = {y \in deltas : y.id \in crdtDag[d]} \cup {x}
      BY <2>1, <2>2 DEF IdsOf
    <3> QED BY <3>1 DEF Carried
  <2>5. \A e \in Replicas : e # d => Carried(deltas', crdtDag'[e]) = Carried(deltas, crdtDag[e])
    <3> TAKE e \in Replicas
    <3> HAVE e # d
    <3>1. x.id \notin crdtDag[e]
      BY <2>2 DEF IdsInv
    <3>2. {y \in deltas' : y.id \in crdtDag'[e]} = {y \in deltas : y.id \in crdtDag[e]}
      BY <2>1, <3>1
    <3> QED BY <3>2 DEF Carried
  <2> QED BY <2>1, <2>3, <2>4, <2>5 DEF DocInv
<1>5. ASSUME NEW d \in Replicas, NEW x \in deltas, Replica!apply(d, x) PROVE DocInv'
  <2>1. /\ overridden' = (overridden \/ doc'[d] # doc[d] \cup x.bytes)
        /\ crdtDag'[d] = crdtDag[d] \cup {x.id}
        /\ \A e \in Replicas : e # d => doc'[e] = doc[e] /\ crdtDag'[e] = crdtDag[e]
        /\ writeCall' = writeCall /\ deltas' = deltas /\ crdtRestarts' = crdtRestarts
    BY <1>5, ApplyIs, Zenon
  <2>2. Carried(deltas, crdtDag[d] \cup {x.id}) = Carried(deltas, crdtDag[d]) \cup x.bytes
    <3>1. {y \in deltas : y.id \in crdtDag[d] \cup {x.id}} = {y \in deltas : y.id \in crdtDag[d]} \cup {x}
      BY DEF IdsInv
    <3> QED BY <3>1 DEF Carried
  <2>3. ~overridden' => ~overridden /\ doc'[d] = doc[d] \cup x.bytes
    BY <2>1, Zenon
  <2>4. ASSUME ~overridden', NEW e \in Replicas, crdtRestarts'[e] = 0
        PROVE  doc'[e] = Carried(deltas', crdtDag'[e]) \cup Pending(writeCall'[e])
    <3>1. doc[e] = Carried(deltas, crdtDag[e]) \cup Pending(writeCall[e])
      BY <2>1, <2>3, <2>4 DEF DocInv
    <3> QED BY <2>1, <2>2, <2>3, <2>4, <3>1
  <2> QED BY <2>4 DEF DocInv
<1>6. ASSUME NEW d \in Replicas, Replica!ProjectMerged(d) PROVE DocInv'
  BY <1>1, <1>6, ProjectIs
<1>7. ASSUME NEW d \in Replicas, Replica!Restart(d) PROVE DocInv'
  <2>1. /\ crdtRestarts'[d] = crdtRestarts[d] + 1
        /\ \A e \in Replicas : e # d => /\ crdtRestarts'[e] = crdtRestarts[e] /\ doc'[e] = doc[e]
                                        /\ writeCall'[e] = writeCall[e]
        /\ crdtDag' = crdtDag /\ deltas' = deltas /\ overridden' = overridden
    BY <1>7, RestartIs
  <2>2. crdtRestarts'[d] # 0
    BY <2>1 DEF ClockInv
  <2> QED BY <2>1, <2>2 DEF DocInv
<1>8. CASE UNCHANGED crdtVars
  BY <1>1, <1>8 DEF crdtVars
<1> QED BY <1>2, <1>3, <1>4, <1>5, <1>6, <1>7, <1>8, CrdtCases

-----------------------------------------------------------------------------
(* The past of a delta.                                                    *)

\* Production keeps the DAG well founded.
LEMMA FoundedGrows ==
  ASSUME NEW ns, Founded(ns), NEW x, \A y \in ns : x.id \notin y.parents, x.id \notin x.parents
  PROVE  Founded(ns \cup {x})
<1> SUFFICES ASSUME NEW S \in SUBSET (ns \cup {x}), S # {}
             PROVE  /\ \E a \in S : \A b \in S : b.id \notin a.parents
                    /\ \E a \in S : \A b \in S : a.id \notin b.parents
  BY DEF Founded
<1>1. PICK R : R = S \ {x}
  OBVIOUS
<1>2. R \in SUBSET ns
  BY <1>1
<1>3. CASE R = {}
  <2>1. S = {x}
    BY <1>1, <1>3
  <2> QED BY <2>1
<1>4. CASE R # {}
  <2>1. PICK p \in R : \A b \in R : b.id \notin p.parents
    BY <1>2, <1>4 DEF Founded
  <2>2. p \in S /\ \A b \in S : b.id \notin p.parents
    BY <1>1, <1>2, <2>1
  <2>3. PICK q \in R : \A b \in R : q.id \notin b.parents
    BY <1>2, <1>4 DEF Founded
  <2>4. \E a \in S : \A b \in S : a.id \notin b.parents
    <3>1. CASE x \in S
      BY <3>1
    <3>2. CASE x \notin S
      BY <1>1, <2>3, <3>2
    <3> QED BY <3>1, <3>2
  <2> QED BY <2>2, <2>4
<1> QED BY <1>3, <1>4

\* Every step keeps the DAG well founded.
LEMMA FoundedStep ==
  ASSUME Domains, IdsInv, CallInv, Founded(deltas), [Replica!Next]_crdtVars
  PROVE  Founded(deltas')
<1>1. CASE deltas' = deltas
  BY <1>1
<1>2. ASSUME NEW d \in Replicas, Replica!produce_delta_with_tags(d) PROVE Founded(deltas')
  <2>1. PICK x : /\ writeCall[d] # None /\ x.id = writeCall[d].val
                 /\ x.parents = Replica!Dag!dag_tips(Stored(d)) /\ deltas' = deltas \cup {x}
    BY <1>2, ProduceIs
  <2>2. x.id \notin IdsOf(deltas)
    BY <2>1 DEF IdsInv
  <2>3. x.parents \subseteq IdsOf(deltas)
    <3>1. Stored(d) \in SUBSET deltas
      BY DEF Stored
    <3>2. IsFiniteSet(Stored(d))
      BY <3>1, FS_Subset DEF IdsInv
    <3>3. x.parents \subseteq IdsOf(Stored(d))
      BY <2>1, <3>2, TipsWithin
    <3> QED BY <3>1, <3>3 DEF IdsOf
  <2>4. \A y \in deltas : x.id \notin y.parents
    BY <2>2 DEF IdsInv
  <2>5. Founded(deltas \cup {x})
    BY <2>2, <2>3, <2>4, FoundedGrows
  <2> QED BY <2>1, <2>5
<1>3. \/ deltas' = deltas \/ \E d \in Replicas : Replica!produce_delta_with_tags(d)
  <2>1. CASE UNCHANGED crdtVars
    BY <2>1 DEF crdtVars
  <2>2. ASSUME NEW d \in Replicas,
               \/ \E k \in Keys : Replica!StoreWrite(d, k)
               \/ Replica!write_scalar(d)
               \/ \E x \in deltas : Replica!apply(d, x)
               \/ Replica!ProjectMerged(d) \/ Replica!Restart(d)
        PROVE  deltas' = deltas
    BY <2>2 DEF Replica!StoreWrite, Replica!write_scalar, Replica!apply, Replica!ProjectMerged, Replica!Restart
  <2> QED BY <2>1, <2>2, CrdtCases
<1> QED BY <1>1, <1>2, <1>3

\* What TipsCoverDag says of a step.
TipsCover ==
    \A x \in deltas' \ deltas :
        Replica!Dag!Closed(Replica!Nodes(x.author)) =>
            crdtDag[x.author] \subseteq Replica!Dag!Ancestors(deltas', x.parents)

\* Every step has it.
LEMMA TipsCoverStep ==
  ASSUME Domains, IdsInv, CallInv, Founded(deltas), [Replica!Next]_crdtVars
  PROVE  TipsCover
<1> SUFFICES ASSUME NEW x \in deltas' \ deltas, Replica!Dag!Closed(Replica!Nodes(x.author))
             PROVE  crdtDag[x.author] \subseteq Replica!Dag!Ancestors(deltas', x.parents)
  BY DEF TipsCover
<1>1. PICK d \in Replicas : Replica!produce_delta_with_tags(d)
  <2>1. CASE UNCHANGED crdtVars
    BY <2>1 DEF crdtVars
  <2>2. ASSUME NEW d \in Replicas,
               \/ \E k \in Keys : Replica!StoreWrite(d, k)
               \/ Replica!write_scalar(d)
               \/ \E y \in deltas : Replica!apply(d, y)
               \/ Replica!ProjectMerged(d) \/ Replica!Restart(d)
        PROVE  deltas' = deltas
    BY <2>2 DEF Replica!StoreWrite, Replica!write_scalar, Replica!apply, Replica!ProjectMerged, Replica!Restart
  <2> QED BY <2>1, <2>2, CrdtCases
<1>2. PICK y : /\ y.author = d /\ y.parents = Replica!Dag!dag_tips(Stored(d)) /\ deltas' = deltas \cup {y}
  BY <1>1, ProduceIs
<1>3. x = y
  BY <1>2
<1>4. PICK all : all = deltas'
  OBVIOUS
<1>5. PICK ns : ns = Stored(d)
  OBVIOUS
<1>6. ns \in SUBSET deltas /\ ns \in SUBSET all /\ IsFiniteSet(all)
  BY <1>2, <1>4, <1>5, FS_AddElement DEF IdsInv, Stored
<1>7. Founded(ns)
  BY <1>6 DEF Founded
<1>8. Replica!Dag!Closed(ns)
  BY <1>2, <1>3, <1>5 DEF Replica!Nodes, Stored
<1>9. IdsOf(ns) \subseteq Replica!Dag!Ancestors(all, Replica!Dag!dag_tips(ns))
  BY <1>6, <1>7, <1>8, TipsReach
<1>10. crdtDag[d] \subseteq IdsOf(ns)
  BY <1>5 DEF IdsInv, IdsOf, Stored
<1> QED BY <1>2, <1>3, <1>4, <1>5, <1>9, <1>10

-----------------------------------------------------------------------------
(* Well-formed documents: what a read of a row returns.                    *)

\* A finite non-empty set of naturals has a greatest element.
LEMMA FiniteGreatest ==
  ASSUME NEW T \in SUBSET Nat, IsFiniteSet(T), T # {}
  PROVE  \E n \in T : \A m \in T : m <= n
<1>1. PICK key : key = [x \in T |-> x]
  OBVIOUS
<1>2. \A x \in T : key[x] = x
  BY <1>1
<1>3. DistinctKeys(T, key)
  BY <1>2 DEF DistinctKeys
<1>4. PICK s : s = SortedBy(T, key)
  OBVIOUS
<1>5. PICK N \in Nat : N = Cardinality(T)
  BY FS_CardinalityType
<1>6. /\ \A i \in 1 .. N : s[i] \in T
      /\ \A i, j \in 1 .. N : i < j => key[s[i]] < key[s[j]]
      /\ \A x \in T : \E i \in 1 .. N : s[i] = x
  BY <1>3, <1>4, <1>5, SortedLists
<1>7. N # 0
  BY <1>5, FS_EmptySet
<1>8. s[N] \in T
  BY <1>6, <1>7
<1>9. ASSUME NEW m \in T PROVE m <= s[N]
  <2>1. PICK i \in 1 .. N : s[i] = m
    BY <1>6
  <2>2. CASE i = N
    <3>1. s[N] = m /\ m \in Nat
      BY <2>1, <2>2
    <3> QED BY <3>1
  <2>3. CASE i # N
    <3>1. i < N /\ N \in 1 .. N
      BY <2>3
    <3>2. key[s[i]] < key[s[N]]
      BY <1>6, <3>1
    <3>3. key[s[i]] = m /\ key[s[N]] = s[N] /\ m \in Nat /\ s[N] \in Nat
      BY <1>2, <1>8, <2>1
    <3>4. m < s[N]
      BY <3>2, <3>3
    <3> QED BY <3>3, <3>4
  <2> QED BY <2>2, <2>3
<1> QED BY <1>8, <1>9

\* So has a non-empty finite set's image, under a function into the naturals.
LEMMA GreatestImage ==
  ASSUME NEW S, IsFiniteSet(S), S # {}, NEW f, \A x \in S : f[x] \in Nat
  PROVE  \E x \in S : \A y \in S : f[y] <= f[x]
<1> DEFINE T == {f[x] : x \in S}
           g == [x \in S |-> f[x]]
<1>1. g \in Surjection(S, T)
  BY DEF Surjection
<1>2. IsFiniteSet(T)
  BY <1>1, FS_Surjection
<1>3. T \in SUBSET Nat /\ T # {}
  OBVIOUS
<1>4. PICK n \in T : \A m \in T : m <= n
  BY <1>2, <1>3, FiniteGreatest
<1> QED BY <1>4

\* An operation on the row key names a row, one on a row has a written value.
OpTyped(o) ==
    /\ o.actor \in Replicas /\ o.ctr \in Nat /\ o.n \in Nat
    /\ \/ o.reg = Replica!RowKey /\ o.val \in Keys
       \/ o.reg \in Keys /\ o.val \in 1 .. MaxWrites

\* A replica's operations are numbered without gaps, and later numbers have
\* later counters.
Gapless(ops, e) ==
    /\ Numbered(ops, e)
    /\ \A k \in 1 .. Cardinality(Own(ops, e)) : \E o \in Own(ops, e) : o.n = k
    /\ \A o, p \in Own(ops, e) : o.n < p.n => o.ctr < p.ctr

\* What an operation replaced is in the document, on the same root key and
\* with a smaller counter.
Replaces(ops, o) ==
    \A i \in o.pred : \E q \in ops : Replica!OpId(q) = i /\ q.reg = o.reg /\ q.ctr < o.ctr

GoodDoc(ops) ==
    /\ IsFiniteSet(ops)
    /\ \A o \in ops : OpTyped(o) /\ Replaces(ops, o)
    /\ \A e \in Replicas : Gapless(ops, e)

\* The empty document.
LEMMA EmptyGood == GoodDoc({})
<1>1. IsFiniteSet({}) /\ Cardinality({}) = 0
  BY FS_EmptySet
<1>2. \A e \in Replicas : Own({}, e) = {}
  BY DEF Own
<1> QED BY <1>1, <1>2 DEF GoodDoc, Gapless, Numbered

\* Counter and actor identify an operation.
LEMMA IdsDiffer ==
  ASSUME NEW ops, GoodDoc(ops), NEW o \in ops, NEW p \in ops, o.ctr = p.ctr, o.actor = p.actor
  PROVE  o = p
<1>1. PICK e \in Replicas : e = o.actor
  BY DEF GoodDoc, OpTyped
<1>2. o \in Own(ops, e) /\ p \in Own(ops, e)
  BY <1>1 DEF Own
<1>3. Gapless(ops, e)
  BY DEF GoodDoc
<1>4. o.n \in Nat /\ p.n \in Nat /\ o.ctr \in Nat /\ p.ctr \in Nat
  BY DEF GoodDoc, OpTyped
<1>5. ~(o.n < p.n) /\ ~(p.n < o.n)
  BY <1>2, <1>3, <1>4 DEF Gapless
<1>6. o.n = p.n
  BY <1>4, <1>5
<1> QED BY <1>2, <1>3, <1>6 DEF Gapless, Numbered

\* MaxCtr is the greatest counter.
LEMMA MaxCtrIs ==
  ASSUME NEW ops, GoodDoc(ops)
  PROVE  Replica!MaxCtr(ops) \in Nat /\ \A o \in ops : o.ctr <= Replica!MaxCtr(ops)
<1>1. CASE ops = {}
  BY <1>1 DEF Replica!MaxCtr
<1>2. CASE ops # {}
  <2>1. PICK f : f = [o \in ops |-> o.ctr]
    OBVIOUS
  <2>2. \A o \in ops : f[o] = o.ctr /\ o.ctr \in Nat
    BY <2>1 DEF GoodDoc, OpTyped
  <2>3. PICK o \in ops : \A p \in ops : f[p] <= f[o]
    BY <1>2, <2>2, GreatestImage DEF GoodDoc
  <2>4. PICK T : T = {p.ctr : p \in ops}
    OBVIOUS
  <2>5. o.ctr \in T /\ \A p \in ops : p.ctr <= o.ctr
    BY <2>2, <2>3, <2>4
  <2>6. Replica!MaxCtr(ops) = CHOOSE c \in T : \A p \in ops : p.ctr <= c
    BY <1>2, <2>4 DEF Replica!MaxCtr
  <2>7. Replica!MaxCtr(ops) \in T /\ \A p \in ops : p.ctr <= Replica!MaxCtr(ops)
    BY <2>5, <2>6
  <2> QED BY <2>2, <2>4, <2>7
<1> QED BY <1>1, <1>2

\* A root key that was ever put has a winning operation.
LEMMA WinnerIs ==
  ASSUME Replicas \subseteq Nat, NEW ops, GoodDoc(ops), NEW reg, Replica!Has(ops, reg)
  PROVE  Replica!Winner(ops, reg) \in ops /\ Replica!Winner(ops, reg).reg = reg
<1>1. PICK V : V = Replica!Visible(ops, reg)
  OBVIOUS
<1>2. V = {o \in ops : o.reg = reg /\ \A p \in ops : Replica!OpId(o) \notin p.pred}
  BY <1>1 DEF Replica!Visible
<1>3. \A o \in ops : o.ctr \in Nat /\ o.actor \in Replicas /\ Replaces(ops, o)
  BY DEF GoodDoc, OpTyped
<1>4. IsFiniteSet(ops)
  BY DEF GoodDoc
<1>5. PICK S : S = {o \in ops : o.reg = reg}
  OBVIOUS
<1>6. S \in SUBSET ops /\ S # {} /\ V \in SUBSET ops
  BY <1>2, <1>5 DEF Replica!Has
<1>7. IsFiniteSet(S) /\ IsFiniteSet(V)
  BY <1>4, <1>6, FS_Subset
<1>8. PICK f : f = [o \in ops |-> o.ctr]
  OBVIOUS
<1>9. \A o \in S : f[o] = o.ctr /\ f[o] \in Nat
  BY <1>3, <1>6, <1>8
<1>10. PICK o \in S : \A p \in S : f[p] <= f[o]
  BY <1>6, <1>7, <1>9, GreatestImage
<1>12. \A p \in S : p.ctr <= o.ctr
  BY <1>9, <1>10
<1>13. o \in V
  <2>1. ASSUME NEW p \in ops, Replica!OpId(o) \in p.pred PROVE FALSE
    <3>1. PICK q \in ops : Replica!OpId(q) = Replica!OpId(o) /\ q.reg = p.reg /\ q.ctr < p.ctr
      BY <1>3, <2>1 DEF Replaces
    <3>2. q.ctr = o.ctr /\ q.actor = o.actor
      BY <3>1 DEF Replica!OpId
    <3>3. o \in ops /\ o.reg = reg
      BY <1>5
    <3>4. q = o
      BY <3>2, <3>3, IdsDiffer
    <3>5. p \in S
      BY <1>5, <3>1, <3>3, <3>4
    <3>6. p.ctr <= o.ctr /\ o.ctr < p.ctr
      BY <1>12, <3>1, <3>4, <3>5
    <3> QED BY <1>3, <3>3, <3>6
  <2> QED BY <1>2, <1>5, <2>1
<1>14. PICK W : W = {p \in V : p.ctr = o.ctr}
  OBVIOUS
<1>15. PICK g : g = [p \in ops |-> p.actor]
  OBVIOUS
<1>16. W \in SUBSET V /\ o \in W
  BY <1>13, <1>14
<1>17. IsFiniteSet(W)
  BY <1>7, <1>16, FS_Subset
<1>18. \A p \in W : g[p] = p.actor /\ g[p] \in Nat
  BY <1>3, <1>6, <1>15, <1>16
<1>20. PICK w \in W : \A p \in W : g[p] <= g[w]
  BY <1>16, <1>17, <1>18, GreatestImage
<1>21. ASSUME NEW p \in V PROVE w = p \/ Replica!Later(w, p)
  <2>1. p \in S /\ w \in S /\ p \in ops /\ w \in ops /\ w.ctr = o.ctr
    BY <1>2, <1>5, <1>14, <1>20
  <2>2. p.ctr <= w.ctr /\ p.ctr \in Nat /\ w.ctr \in Nat /\ p.actor \in Nat /\ w.actor \in Nat
    BY <1>3, <1>12, <2>1
  <2>3. CASE p.ctr = w.ctr
    <3>1. p.actor <= w.actor
      BY <1>14, <1>18, <1>20, <2>1, <2>3
    <3>2. CASE p.actor = w.actor
      BY <2>1, <2>3, <3>2, IdsDiffer
    <3>3. CASE p.actor # w.actor
      BY <2>2, <2>3, <3>1, <3>3 DEF Replica!Later
    <3> QED BY <3>2, <3>3
  <2>4. CASE p.ctr # w.ctr
    BY <2>2, <2>4 DEF Replica!Later
  <2> QED BY <2>3, <2>4
<1>22. Replica!Winner(ops, reg) = CHOOSE u \in V : \A p \in V : u = p \/ Replica!Later(u, p)
  BY <1>1 DEF Replica!Winner
<1>23. w \in V
  BY <1>16, <1>20
<1>24. Replica!Winner(ops, reg) \in V
  BY <1>21, <1>22, <1>23
<1> QED BY <1>2, <1>24

\* A put keeps a document well formed: its counter exceeds all others.
LEMMA PutGood ==
  ASSUME NEW ops, GoodDoc(ops), NEW d \in Replicas, NEW reg, NEW val,
         (reg = Replica!RowKey /\ val \in Keys) \/ (reg \in Keys /\ val \in 1 .. MaxWrites)
  PROVE  GoodDoc(Replica!put(ops, d, reg, val))
<1>1. PICK V : V = Replica!Visible(ops, reg)
  OBVIOUS
<1>2. PICK c \in Nat : c = Replica!MaxCtr(ops) /\ \A p \in ops : p.ctr <= c
  BY MaxCtrIs
<1>3. IsFiniteSet(ops)
  BY DEF GoodDoc
<1>4. PICK k \in Nat : k = Cardinality(Own(ops, d)) /\ k = Replica!Cardinality({p \in ops : p.actor = d})
  BY <1>3, OwnIsFinite
<1>5. PICK o : o = [reg |-> reg, val |-> val, actor |-> d, ctr |-> c + 1, n |-> k + 1, pred |-> {Replica!OpId(p) : p \in V}]
  OBVIOUS
<1>6. /\ o.reg = reg /\ o.val = val /\ o.actor = d /\ o.ctr = c + 1 /\ o.n = k + 1
      /\ o.pred = {Replica!OpId(p) : p \in V}
  BY <1>5
<1>7. PICK new : new = ops \cup {o}
  OBVIOUS
<1>8. Replica!put(ops, d, reg, val) \in {ops, new}
  BY <1>1, <1>2, <1>4, <1>5, <1>7 DEF Replica!put
<1>9. IsFiniteSet(new)
  BY <1>3, <1>7, FS_AddElement
<1>10. OpTyped(o)
  BY <1>6 DEF OpTyped
<1>11. Replaces(new, o)
  <2>1. ASSUME NEW i \in o.pred PROVE \E q \in new : Replica!OpId(q) = i /\ q.reg = o.reg /\ q.ctr < o.ctr
    <3>1. PICK q \in V : Replica!OpId(q) = i
      BY <1>6, <2>1
    <3>2. q \in ops /\ q.reg = reg
      BY <1>1, <3>1 DEF Replica!Visible
    <3>3. q.ctr \in Nat /\ q.ctr <= c
      BY <1>2, <3>2 DEF GoodDoc, OpTyped
    <3>4. q.ctr < o.ctr
      BY <1>6, <3>3
    <3> QED BY <1>6, <1>7, <3>1, <3>2, <3>4
  <2> QED BY <2>1 DEF Replaces
<1>12. ASSUME NEW p \in ops PROVE OpTyped(p) /\ Replaces(new, p)
  BY <1>7 DEF GoodDoc, Replaces
<1>13. ASSUME NEW e \in Replicas, e # d PROVE Gapless(new, e)
  <2>1. Own(new, e) = Own(ops, e)
    BY <1>6, <1>7, <1>13 DEF Own
  <2> QED BY <1>9, <2>1 DEF GoodDoc, Gapless, Numbered
<1>14. Gapless(new, d)
  <2>1. Gapless(ops, d)
    BY DEF GoodDoc
  <2>2. \A p \in Own(ops, d) : p.n \in 1 .. k /\ p.ctr \in Nat /\ p.ctr <= c /\ p # o
    <3> SUFFICES ASSUME NEW p \in Own(ops, d) PROVE p.n \in 1 .. k /\ p.ctr \in Nat /\ p.ctr <= c /\ p # o
      OBVIOUS
    <3>1. p.n \in 1 .. k
      BY <1>4, <2>1 DEF Gapless, Numbered
    <3>2. p \in ops
      BY DEF Own
    <3>3. p.ctr \in Nat /\ p.ctr <= c
      BY <1>2, <3>2 DEF GoodDoc, OpTyped
    <3>4. p.n # o.n
      BY <1>6, <3>1
    <3> QED BY <3>1, <3>3, <3>4
  <2>3. Own(new, d) = Own(ops, d) \cup {o} /\ o \notin Own(ops, d)
    BY <1>6, <1>7, <2>2 DEF Own
  <2>4. Cardinality(Own(new, d)) = k + 1
    <3>1. IsFiniteSet(Own(ops, d))
      BY <1>3, OwnIsFinite
    <3>2. PICK X : X = Own(ops, d)
      OBVIOUS
    <3>3. IsFiniteSet(X) /\ o \notin X /\ k = Cardinality(X)
      BY <1>4, <2>3, <3>1, <3>2
    <3>4. Cardinality(X \cup {o}) = Cardinality(X) + 1
      BY <3>3, FS_AddElement
    <3> QED BY <2>3, <3>2, <3>3, <3>4
  <2>5. \A p \in Own(new, d) : p.n \in 1 .. (k + 1)
    BY <1>6, <2>2, <2>3
  <2>6. \A p, q \in Own(new, d) : p.n = q.n => p = q
    <3>1. \A p, q \in Own(ops, d) : p.n = q.n => p = q
      BY <2>1 DEF Gapless, Numbered
    <3>2. \A p \in Own(ops, d) : p.n # o.n
      BY <1>6, <2>2
    <3> QED BY <2>3, <3>1, <3>2
  <2>7. ASSUME NEW j \in 1 .. (k + 1) PROVE \E p \in Own(new, d) : p.n = j
    <3>1. CASE j = k + 1
      BY <1>6, <2>3, <3>1
    <3>2. CASE j # k + 1
      <4>1. j \in 1 .. k
        BY <3>2
      <4> QED BY <1>4, <2>1, <2>3, <4>1 DEF Gapless
    <3> QED BY <3>1, <3>2
  <2>8. ASSUME NEW p \in Own(new, d), NEW q \in Own(new, d), p.n < q.n PROVE p.ctr < q.ctr
    <3>1. CASE q = o
      <4>1. p \in Own(ops, d)
        BY <1>6, <2>3, <2>8, <3>1
      <4> QED BY <1>6, <2>2, <3>1, <4>1
    <3>2. CASE q # o
      <4>1. q \in Own(ops, d) /\ q.n \in 1 .. k
        BY <2>2, <2>3, <3>2
      <4>2. p \in Own(ops, d)
        BY <1>6, <2>3, <2>8, <4>1
      <4> QED BY <2>1, <2>8, <4>1, <4>2 DEF Gapless
    <3> QED BY <3>1, <3>2
  <2> QED BY <1>9, <2>4, <2>5, <2>6, <2>7, <2>8 DEF Gapless, Numbered
<1>15. GoodDoc(new)
  BY <1>7, <1>9, <1>10, <1>11, <1>12, <1>13, <1>14 DEF GoodDoc
<1> QED BY <1>8, <1>15

\* Two documents that no change number tells apart have, of every replica, one
\* the operations of the other and perhaps more; so their union is well formed.
LEMMA UnionGood ==
  ASSUME NEW a, NEW b, GoodDoc(a), GoodDoc(b), ~Replica!DuplicateSeq(a, b)
  PROVE  GoodDoc(a \cup b)
<1>1. PICK u : u = a \cup b
  OBVIOUS
<1>2. IsFiniteSet(a) /\ IsFiniteSet(b) /\ IsFiniteSet(u)
  BY <1>1, FS_Union DEF GoodDoc
<1>3. \A o \in u : OpTyped(o) /\ Replaces(u, o)
  BY <1>1 DEF GoodDoc, Replaces
<1>4. \A o \in b, p \in a : p.actor = o.actor /\ p.n = o.n => o \in a
  BY DEF Replica!DuplicateSeq
<1>5. ASSUME NEW e \in Replicas PROVE Gapless(u, e)
  <2>1. Gapless(a, e) /\ Gapless(b, e)
    BY DEF GoodDoc
  <2>2. PICK k \in Nat, l \in Nat : k = Cardinality(Own(a, e)) /\ l = Cardinality(Own(b, e))
    BY <1>2, OwnIsFinite
  <2>3. \A o \in Own(a, e) : o \in a /\ o.actor = e /\ o.n \in 1 .. k
    BY <2>1, <2>2 DEF Gapless, Numbered, Own
  <2>4. \A o \in Own(b, e) : o \in b /\ o.actor = e /\ o.n \in 1 .. l
    BY <2>1, <2>2 DEF Gapless, Numbered, Own
  <2>5. CASE l <= k
    <3>1. ASSUME NEW o \in Own(b, e) PROVE o \in Own(a, e)
      <4>1. o.n \in 1 .. k
        BY <2>4, <2>5
      <4>2. PICK p \in Own(a, e) : p.n = o.n
        BY <2>1, <2>2, <4>1 DEF Gapless
      <4> QED BY <1>4, <2>3, <2>4, <4>2 DEF Own
    <3>2. Own(u, e) = Own(a, e)
      BY <1>1, <3>1 DEF Own
    <3> QED BY <1>2, <2>1, <3>2 DEF Gapless, Numbered
  <2>6. CASE k < l
    <3>1. ASSUME NEW p \in Own(a, e) PROVE p \in Own(b, e)
      <4>1. p.n \in 1 .. l
        BY <2>3, <2>6
      <4>2. PICK o \in Own(b, e) : o.n = p.n
        BY <2>1, <2>2, <4>1 DEF Gapless
      <4>3. o \in Own(a, e)
        BY <1>4, <2>3, <2>4, <4>2 DEF Own
      <4>4. o = p
        BY <2>1, <4>2, <4>3 DEF Gapless, Numbered
      <4> QED BY <4>4
    <3>2. Own(u, e) = Own(b, e)
      BY <1>1, <3>1 DEF Own
    <3> QED BY <1>2, <2>1, <3>2 DEF Gapless, Numbered
  <2> QED BY <2>2, <2>5, <2>6
<1> QED BY <1>1, <1>2, <1>3, <1>5 DEF GoodDoc

\* So does the read-back verification: what it puts again is the winner of an
\* incoming document.
LEMMA OverridesGood ==
  ASSUME Replicas \subseteq Nat, Len(RegOrder) \in Nat, NEW d \in Replicas,
         NEW mine, NEW theirs, GoodDoc(mine), GoodDoc(theirs), ~Replica!DuplicateSeq(mine, theirs)
  PROVE  GoodDoc(Replica!Overrides(d, mine, theirs))
<1>1. PICK N \in Nat : N = Len(RegOrder)
  OBVIOUS
<1>0. PICK w : Rounds(d, mine, theirs, N, w)
  BY <1>1, OverridesUnfold
<1>2. /\ Replica!Overrides(d, mine, theirs) = w[N]
      /\ w[0] = mine \cup theirs /\ \A k \in 1 .. N : w[k] = Redo(d, mine, theirs, k, w[k - 1])
  BY <1>0 DEF Rounds
<1> DEFINE P == {k \in Nat : k <= N => GoodDoc(w[k])}
<1>3. 0 \in P
  BY <1>2, UnionGood
<1>4. ASSUME NEW k, NEW ops, GoodDoc(ops) PROVE GoodDoc(Redo(d, mine, theirs, k, ops))
  <2>1. PICK reg : reg = RegOrder[k]
    OBVIOUS
  <2>2. CASE reg \in Replica!capture_conflicts(mine, theirs)
    <3>1. Replica!Has(theirs, reg)
      BY <2>2 DEF Replica!capture_conflicts
    <3>2. PICK o \in theirs : o = Replica!Winner(theirs, reg) /\ o.reg = reg
      BY <3>1, WinnerIs
    <3>3. OpTyped(o)
      BY <3>2 DEF GoodDoc
    <3>4. (reg = Replica!RowKey /\ o.val \in Keys) \/ (reg \in Keys /\ o.val \in 1 .. MaxWrites)
      BY <3>2, <3>3 DEF OpTyped
    <3>5. GoodDoc(Replica!put(ops, d, reg, o.val))
      BY <1>4, <3>4, PutGood
    <3>6. Redo(d, mine, theirs, k, ops) \in {ops, Replica!put(ops, d, reg, o.val)}
      BY <2>1, <3>2 DEF Redo
    <3> QED BY <1>4, <3>5, <3>6
  <2>3. CASE reg \notin Replica!capture_conflicts(mine, theirs)
    BY <1>4, <2>1, <2>3 DEF Redo
  <2> QED BY <2>2, <2>3
<1>5. ASSUME NEW k \in P PROVE k + 1 \in P
  <2> SUFFICES ASSUME k + 1 <= N PROVE GoodDoc(w[k + 1])
    OBVIOUS
  <2>1. k \in Nat /\ k <= N /\ k + 1 \in 1 .. N /\ (k + 1) - 1 = k
    OBVIOUS
  <2>2. GoodDoc(w[k])
    BY <2>1
  <2>3. w[k + 1] = Redo(d, mine, theirs, k + 1, w[k])
    BY <1>2, <2>1
  <2> QED BY <1>4, <2>2, <2>3
<1>6. P \in SUBSET Nat
  OBVIOUS
<1> HIDE DEF P
<1>7. P = Nat
  BY <1>3, <1>5, <1>6, SetInduction
<1>8. GoodDoc(w[N])
  BY <1>7 DEF P
<1> QED BY <1>2, <1>8

\* What is written, merged and projected is well formed and within the bounds.
ValueInv ==
    /\ \A B \in OpSets(doc, deltas, writeCall) : GoodDoc(B)
    /\ \A d \in Replicas : writeCall[d] # None => writeCall[d].key \in Keys /\ writeCall[d].val \in 1 .. MaxWrites
    /\ \A d \in Replicas : lamport[d] \in 0 .. MaxLamport
    /\ projection \in [Replicas -> [Keys -> (1 .. MaxWrites) \cup {None}]]

\* The bounds and what the names stand for: actor ids are ordered, the reserved
\* root key is not a row's.
CrdtBounds ==
    /\ Replicas \subseteq Nat /\ Len(RegOrder) \in Nat /\ Replica!RowKey \notin Keys
    /\ MaxWrites \in Nat /\ MaxLamport \in Nat

\* Nothing written yet.
LEMMA ValueInit == CrdtBounds /\ Replica!Init => ValueInv
<1> SUFFICES ASSUME CrdtBounds, Replica!Init PROVE ValueInv
  OBVIOUS
<1>1. /\ doc = [d \in Replicas |-> {}] /\ lamport = [d \in Replicas |-> 0]
      /\ writeCall = [d \in Replicas |-> None] /\ deltas = {}
      /\ projection = [d \in Replicas |-> [k \in Keys |-> None]]
  BY DEF Replica!Init
<1>2. \A C \in OpSets(doc, deltas, writeCall) : C = {}
  BY <1>1, OpSetsAre
<1>3. \A C \in OpSets(doc, deltas, writeCall) : GoodDoc(C)
  BY <1>2, EmptyGood
<1>4. projection \in [Replicas -> [Keys -> (1 .. MaxWrites) \cup {None}]]
  BY <1>1
<1>5. \A d \in Replicas : writeCall[d] = None /\ lamport[d] \in 0 .. MaxLamport
  BY <1>1 DEF CrdtBounds
<1> QED BY <1>3, <1>4, <1>5 DEF ValueInv

\* Every step keeps the values within their types.
LEMMA ValueStep ==
  ASSUME CrdtBounds, Domains, IdsInv, CallInv, ClockInv, ValueInv, [Replica!Next]_crdtVars
  PROVE  ValueInv'
<1> DEFINE Calls(wc) == \A d \in Replicas : wc[d] # None => wc[d].key \in Keys /\ wc[d].val \in 1 .. MaxWrites
           Docs(dd, ds, wc) == \A B \in OpSets(dd, ds, wc) : GoodDoc(B)
           Clocks(l) == \A d \in Replicas : l[d] \in 0 .. MaxLamport
           Rows(p) == p \in [Replicas -> [Keys -> (1 .. MaxWrites) \cup {None}]]
<1>1. Docs(doc, deltas, writeCall) /\ Calls(writeCall) /\ Clocks(lamport) /\ Rows(projection)
  BY DEF ValueInv
<1>2. ASSUME Docs(doc', deltas', writeCall'), Calls(writeCall'), Clocks(lamport'), Rows(projection')
      PROVE  ValueInv'
  BY <1>2 DEF ValueInv, OpSets
<1>3. /\ \A e \in Replicas : GoodDoc(doc[e]) /\ (writeCall[e] # None => GoodDoc(writeCall[e].bytes))
      /\ \A x \in deltas : GoodDoc(x.bytes)
  BY <1>1, OpSetsAre
<1>4. ASSUME NEW dd, NEW ds, NEW wc,
             \A e \in Replicas : GoodDoc(dd[e]) /\ (wc[e] # None => GoodDoc(wc[e].bytes)),
             \A x \in ds : GoodDoc(x.bytes)
      PROVE  Docs(dd, ds, wc)
  BY <1>4, OpSetsAre
<1> HIDE DEF Docs
<1>5. ASSUME NEW d \in Replicas, NEW k \in Keys, Replica!StoreWrite(d, k) PROVE ValueInv'
  <2>1. /\ writes' = writes + 1 /\ writeCall'[d] = [phase |-> "stored", key |-> k, val |-> writes + 1, bytes |-> {}]
        /\ \A e \in Replicas : e # d => writeCall'[e] = writeCall[e]
        /\ doc' = doc /\ lamport' = lamport /\ deltas' = deltas
    BY <1>5, StoreWriteIs
  <2>2. writes < MaxWrites /\ projection' = [projection EXCEPT ![d][k] = writes']
    BY <1>5 DEF Replica!StoreWrite
  <2>3. writes + 1 \in 1 .. MaxWrites
    BY <2>2 DEF IdsInv, CrdtBounds
  <2>4. writeCall'[d].key = k /\ writeCall'[d].val = writes + 1 /\ writeCall'[d].bytes = {}
    BY <2>1
  <2>5. Calls(writeCall')
    BY <1>1, <2>1, <2>3, <2>4
  <2>6. Rows(projection')
    BY <1>1, <2>1, <2>2, <2>3
  <2>7. \A e \in Replicas : writeCall'[e] # None => GoodDoc(writeCall'[e].bytes)
    BY <1>3, <2>1, <2>4, EmptyGood
  <2>8. Docs(doc', deltas', writeCall')
    BY <1>3, <1>4, <2>1, <2>7
  <2> QED BY <1>1, <1>2, <2>1, <2>5, <2>6, <2>8
<1>6. ASSUME NEW d \in Replicas, Replica!write_scalar(d) PROVE ValueInv'
  <2>1. PICK ops : ops = Replica!put(Replica!put(doc[d], d, Replica!RowKey, writeCall[d].key), d, writeCall[d].key, writeCall[d].val)
    OBVIOUS
  <2>2. /\ writeCall[d] # None /\ doc'[d] = ops
        /\ \A e \in Replicas : e # d => doc'[e] = doc[e] /\ writeCall'[e] = writeCall[e]
        /\ writeCall'[d] = [phase |-> "put", key |-> writeCall[d].key, val |-> writeCall[d].val, bytes |-> ops]
        /\ lamport' = lamport /\ deltas' = deltas
    BY <1>6, <2>1, WriteScalarIs
  <2>3. projection' = projection
    BY <1>6 DEF Replica!write_scalar
  <2>4. writeCall'[d].key = writeCall[d].key /\ writeCall'[d].val = writeCall[d].val /\ writeCall'[d].bytes = ops
    BY <2>2
  <2>5. writeCall[d].key \in Keys /\ writeCall[d].val \in 1 .. MaxWrites
    BY <1>1, <2>2
  <2>6. PICK mid : mid = Replica!put(doc[d], d, Replica!RowKey, writeCall[d].key)
    OBVIOUS
  <2>7. GoodDoc(mid)
    BY <1>3, <2>5, <2>6, PutGood
  <2>8. GoodDoc(ops)
    BY <2>1, <2>5, <2>6, <2>7, PutGood
  <2>9. Calls(writeCall')
    BY <1>1, <2>2, <2>4, <2>5
  <2>10. \A e \in Replicas : GoodDoc(doc'[e]) /\ (writeCall'[e] # None => GoodDoc(writeCall'[e].bytes))
    BY <1>3, <2>2, <2>4, <2>8
  <2>11. Docs(doc', deltas', writeCall')
    BY <1>3, <1>4, <2>2, <2>10
  <2> QED BY <1>1, <1>2, <2>2, <2>3, <2>9, <2>11
<1>7. ASSUME NEW d \in Replicas, Replica!produce_delta_with_tags(d) PROVE ValueInv'
  <2>1. PICK x : /\ writeCall[d] # None /\ x.bytes = writeCall[d].bytes /\ lamport'[d] = lamport[d] + 1
                 /\ \A e \in Replicas : e # d => lamport'[e] = lamport[e] /\ writeCall'[e] = writeCall[e]
                 /\ deltas' = deltas \cup {x} /\ writeCall'[d] = None /\ doc' = doc
    BY <1>7, ProduceIs
  <2>2. lamport[d] < MaxLamport /\ projection' = projection
    BY <1>7 DEF Replica!produce_delta_with_tags
  <2>3. lamport[d] + 1 \in 0 .. MaxLamport
    BY <1>1, <2>2 DEF CrdtBounds
  <2>4. Clocks(lamport') /\ Calls(writeCall')
    BY <1>1, <2>1, <2>3
  <2>5. GoodDoc(x.bytes)
    BY <1>3, <2>1
  <2>6. \A e \in Replicas : writeCall'[e] # None => GoodDoc(writeCall'[e].bytes)
    BY <1>3, <2>1
  <2>7. \A y \in deltas' : GoodDoc(y.bytes)
    BY <1>3, <2>1, <2>5
  <2>8. Docs(doc', deltas', writeCall')
    BY <1>3, <1>4, <2>1, <2>6, <2>7
  <2> QED BY <1>1, <1>2, <2>2, <2>4, <2>8
<1>8. ASSUME NEW d \in Replicas, NEW x \in deltas, Replica!apply(d, x) PROVE ValueInv'
  <2>1. /\ ~Replica!DuplicateSeq(doc[d], x.bytes)
        /\ doc'[d] = Replica!verify_and_override(d, x) /\ lamport'[d] = Replica!AdvanceLamport(d, x)
        /\ \A e \in Replicas : e # d => doc'[e] = doc[e] /\ lamport'[e] = lamport[e]
        /\ writeCall' = writeCall /\ deltas' = deltas
    BY <1>8, ApplyIs
  <2>2. Replica!AdvanceLamport(d, x) <= MaxLamport /\ projection' = projection
    BY <1>8 DEF Replica!apply
  <2>3. Replica!AdvanceLamport(d, x) \in Nat
    BY DEF ClockInv, Replica!AdvanceLamport
  <2>4. Clocks(lamport')
    BY <1>1, <2>1, <2>2, <2>3 DEF CrdtBounds
  <2>5. GoodDoc(doc[d]) /\ GoodDoc(x.bytes)
    BY <1>3
  <2>6. GoodDoc(doc[d] \cup x.bytes) /\ GoodDoc(Replica!Overrides(d, doc[d], x.bytes))
    BY <2>1, <2>5, UnionGood, OverridesGood DEF CrdtBounds
  <2>7. GoodDoc(doc'[d])
    BY <2>1, <2>6 DEF Replica!verify_and_override
  <2>8. \A e \in Replicas : GoodDoc(doc'[e])
    BY <1>3, <2>1, <2>7
  <2>9. Docs(doc', deltas', writeCall')
    BY <1>3, <1>4, <2>1, <2>8
  <2> QED BY <1>1, <1>2, <2>1, <2>2, <2>4, <2>9
<1>9. ASSUME NEW d \in Replicas, Replica!ProjectMerged(d) PROVE ValueInv'
  <2>1. UNCHANGED <<doc, lamport, crdtDag, writeCall, deltas, writes, overridden, crdtRestarts>>
    BY <1>9, ProjectIs
  <2>2. PICK key : key = Replica!Winner(doc[d], Replica!RowKey).val
    OBVIOUS
  <2>3. PICK val : val = Replica!Winner(doc[d], key).val
    OBVIOUS
  <2>4. projection' = IF Replica!Has(doc[d], Replica!RowKey) /\ Replica!Has(doc[d], key)
                      THEN [projection EXCEPT ![d][key] = val] ELSE projection
    BY <1>9, <2>2, <2>3 DEF Replica!ProjectMerged
  <2>5. CASE Replica!Has(doc[d], Replica!RowKey) /\ Replica!Has(doc[d], key)
    <3>1. PICK o \in doc[d] : key = o.val /\ o.reg = Replica!RowKey
      BY <1>3, <2>2, <2>5, WinnerIs DEF CrdtBounds
    <3>2. key \in Keys
      BY <1>3, <3>1 DEF GoodDoc, OpTyped, CrdtBounds
    <3>3. PICK p \in doc[d] : val = p.val /\ p.reg = key
      BY <1>3, <2>3, <2>5, WinnerIs DEF CrdtBounds
    <3>4. val \in 1 .. MaxWrites
      BY <1>3, <3>2, <3>3 DEF GoodDoc, OpTyped, CrdtBounds
    <3>5. Rows(projection')
      BY <1>1, <2>4, <2>5, <3>2, <3>4
    <3> QED BY <1>1, <1>2, <2>1, <3>5 DEF Docs
  <2>6. CASE ~(Replica!Has(doc[d], Replica!RowKey) /\ Replica!Has(doc[d], key))
    BY <1>1, <1>2, <2>1, <2>4, <2>6 DEF Docs
  <2> QED BY <2>5, <2>6
<1>10. ASSUME NEW d \in Replicas, Replica!Restart(d) PROVE ValueInv'
  <2>1. /\ doc'[d] = {} /\ lamport'[d] = 0 /\ writeCall'[d] = None /\ deltas' = deltas
        /\ \A e \in Replicas : e # d => doc'[e] = doc[e] /\ lamport'[e] = lamport[e] /\ writeCall'[e] = writeCall[e]
    BY <1>10, RestartIs
  <2>2. projection' = projection
    BY <1>10 DEF Replica!Restart
  <2>3. Clocks(lamport') /\ Calls(writeCall')
    BY <1>1, <2>1 DEF CrdtBounds
  <2>4. \A e \in Replicas : GoodDoc(doc'[e]) /\ (writeCall'[e] # None => GoodDoc(writeCall'[e].bytes))
    BY <1>3, <2>1, EmptyGood
  <2>5. Docs(doc', deltas', writeCall')
    BY <1>3, <1>4, <2>1, <2>4
  <2> QED BY <1>1, <1>2, <2>2, <2>3, <2>5
<1>11. CASE UNCHANGED crdtVars
  <2>1. UNCHANGED <<doc, deltas, writeCall, lamport, projection>>
    BY <1>11 DEF crdtVars
  <2> QED BY <1>1, <1>2, <2>1 DEF Docs
<1> QED BY <1>5, <1>6, <1>7, <1>8, <1>9, <1>10, <1>11, CrdtCases

-----------------------------------------------------------------------------
(* The theorems.                                                           *)

\* The inductive invariant of the replicas' machine.
CrdtInv ==
    /\ Domains /\ IdsInv /\ CallInv /\ ClockInv /\ NumberInv
    /\ Founded(deltas)

\* The invariant holds of empty documents and an empty DAG.
LEMMA CrdtInvInit == Replica!Init => CrdtInv /\ DocInv
<1> SUFFICES ASSUME Replica!Init PROVE CrdtInv /\ DocInv
  OBVIOUS
<1>1. /\ doc = [d \in Replicas |-> {}] /\ lamport = [d \in Replicas |-> 0] /\ crdtDag = [d \in Replicas |-> {}]
      /\ writeCall = [d \in Replicas |-> None] /\ deltas = {} /\ writes = 0
      /\ crdtRestarts = [d \in Replicas |-> 0]
  BY DEF Replica!Init
<1>2. \A d \in Replicas : doc[d] = {} /\ lamport[d] = 0 /\ crdtDag[d] = {} /\ writeCall[d] = None /\ crdtRestarts[d] = 0
  BY <1>1
<1>3. Domains
  BY <1>1 DEF Domains
<1>4. IdsInv
  BY <1>1, <1>2, FS_EmptySet DEF IdsInv
<1>5. CallInv
  BY <1>2 DEF CallInv
<1>6. ClockInv
  BY <1>1, <1>2 DEF ClockInv, Replica!LamportCausal
<1>7. \A C \in OpSets(doc, deltas, writeCall) : C = {}
  BY <1>1, <1>2, OpSetsAre
<1>8. \A d \in Replicas : Numbered({}, d)
  BY FS_EmptySet DEF Numbered, Own
<1>9. NumberInv
  BY <1>2, <1>7, <1>8, FS_EmptySet DEF NumberInv, Written, Complete
<1>10. Founded(deltas)
  BY <1>1 DEF Founded
<1>11. DocInv
  BY <1>1, <1>2 DEF DocInv, Pending, Carried
<1> QED BY <1>3, <1>4, <1>5, <1>6, <1>9, <1>10, <1>11 DEF CrdtInv

\* Every step keeps the whole invariant.
LEMMA CrdtInvStep ==
  ASSUME Len(RegOrder) \in Nat, CrdtInv, [Replica!Next]_crdtVars
  PROVE  CrdtInv'
<1>1. Domains /\ IdsInv /\ CallInv /\ ClockInv /\ NumberInv /\ Founded(deltas)
  BY DEF CrdtInv
<1>2. Domains' /\ IdsInv' /\ CallInv'
  BY <1>1, IdsStep
<1>3. ClockInv'
  BY <1>1, ClockStep
<1>4. NumberInv'
  BY <1>1, NumberStep
<1>5. Founded(deltas')
  BY <1>1, FoundedStep
<1>6. Founded(deltas)'
  BY <1>5
<1> QED BY <1>2, <1>3, <1>4, <1>6 DEF CrdtInv

\* Whatever machine runs, the replicas' variables take steps of their machine.
LEMMA CrdtRuns == ReplicaSpec => Replica!Init /\ [][Replica!Next]_crdtVars
<1>1. ReplicaInit => Replica!Init
  BY DEF ReplicaInit
<1>2. [ReplicaNext]_allVars => [Replica!Next]_crdtVars
  BY DEF ReplicaNext, RevocationStep, CrdtStep, GateStep, MigrationStep, allVars, crdtVars
<1> QED BY <1>1, <1>2, PTL DEF ReplicaSpec

\* The inductive invariant of writing, merging, projecting and restarting.
THEOREM CrdtInvariant ==
  ASSUME Len(RegOrder) \in Nat
  PROVE  ReplicaSpec => []CrdtInv
<1>1. Replica!Init => CrdtInv
  BY CrdtInvInit
<1>2. CrdtInv /\ [Replica!Next]_crdtVars => CrdtInv'
  BY CrdtInvStep
<1> QED BY <1>1, <1>2, CrdtRuns, PTL

\* For every set of replicas and keys and every order of writes, merges,
\* duplicates and restarts: clocks grow along causality, and no change number
\* is given twice unless a device restarted.
THEOREM NumbersStayCausal ==
  ASSUME Len(RegOrder) \in Nat
  PROVE  ReplicaSpec => []NumbersAreCausal
<1>1. CrdtInv => NumbersAreCausal
  BY NumbersSuffice DEF CrdtInv, ClockInv, NumbersAreCausal, Replica!NumbersAreCausal
<1> QED BY <1>1, CrdtInvariant, PTL

\* For every set of replicas and keys: replicas that inserted the same deltas
\* in any order, with any duplicates, hold the same document, unless the
\* read-back verification rewrote one or a device lost its own.
THEOREM SameDeltasKeepSameDoc ==
  ASSUME Len(RegOrder) \in Nat, NoneIsNoCall
  PROVE  ReplicaSpec => []SameDeltasSameDoc
<1>1. Replica!Init => DocInv
  BY CrdtInvInit
<1>2. CrdtInv /\ DocInv /\ [Replica!Next]_crdtVars => DocInv'
  BY DocStep DEF CrdtInv
<1>3. DocInv => SameDeltasSameDoc
  <2> SUFFICES ASSUME DocInv, NEW d \in Replicas, NEW e \in Replicas,
                      writeCall[d] = None, writeCall[e] = None, crdtDag[d] = crdtDag[e],
                      ~overridden, crdtRestarts[d] = 0, crdtRestarts[e] = 0
               PROVE  doc[d] = doc[e]
    BY DEF SameDeltasSameDoc, Replica!SameDeltasSameDoc, Replica!Settled
  <2>1. Pending(writeCall[d]) = {} /\ Pending(writeCall[e]) = {}
    BY DEF Pending
  <2> QED BY <2>1 DEF DocInv
<1> QED BY <1>1, <1>2, <1>3, CrdtInvariant, CrdtRuns, PTL

\* For every set of replicas and keys: a delta produced over a DAG without gaps
\* has the whole DAG in its causal past, however the deltas came in.
THEOREM TipsKeepCovering ==
  ASSUME Len(RegOrder) \in Nat
  PROVE  ReplicaSpec => TipsCoverDag
<1>1. CrdtInv /\ [Replica!Next]_crdtVars => [TipsCover]_crdtVars
  BY TipsCoverStep DEF CrdtInv
<1>2. ReplicaSpec => [][TipsCover]_crdtVars
  BY <1>1, CrdtInvariant, CrdtRuns, PTL
<1>3. [][TipsCover]_crdtVars => TipsCoverDag
  BY PTL DEF TipsCover, TipsCoverDag, Replica!TipsCoverDag, Replica!vars, crdtVars
<1> QED BY <1>2, <1>3

\* Type correctness of the replicas: over every order of writes, merges,
\* duplicates and restarts documents stay well formed, so that what is
\* projected into a row is a value that was written to it (write_scalar, apply,
\* verify_and_override, the projection of a merged delta in receive_inbound).
THEOREM CrdtTypes ==
  ASSUME CrdtBounds
  PROVE  ReplicaSpec => []Replica!TypeOK
<1>1. Replica!Init => CrdtInv /\ ValueInv
  BY CrdtInvInit, ValueInit
<1>2. CrdtInv /\ ValueInv /\ [Replica!Next]_crdtVars => CrdtInv' /\ ValueInv'
  BY CrdtInvStep, ValueStep DEF CrdtInv, CrdtBounds
<1>3. CrdtInv /\ ValueInv => Replica!TypeOK
  <2> SUFFICES ASSUME CrdtInv, ValueInv, NEW d \in Replicas
               PROVE  /\ lamport[d] \in 0 .. MaxLamport
                      /\ crdtDag[d] \subseteq {x.id : x \in deltas}
                      /\ projection[d] \in [Keys -> (1 .. MaxWrites) \cup {None}]
                      /\ \A o \in doc[d] : o.reg \in Keys \cup {Replica!RowKey} /\ o.actor \in Replicas
    BY DEF Replica!TypeOK
  <2>1. doc[d] \in OpSets(doc, deltas, writeCall)
    BY DEF OpSets
  <2>2. GoodDoc(doc[d])
    BY <2>1 DEF ValueInv
  <2>3. \A o \in doc[d] : o.reg \in Keys \cup {Replica!RowKey} /\ o.actor \in Replicas
    BY <2>2 DEF GoodDoc, OpTyped
  <2>4. crdtDag[d] \subseteq {x.id : x \in deltas}
    BY DEF CrdtInv, IdsInv, IdsOf
  <2> QED BY <2>3, <2>4 DEF ValueInv
<1> QED BY <1>1, <1>2, <1>3, CrdtRuns, PTL

-----------------------------------------------------------------------------
(* The pipeline on a replica.                                              *)

Mig == INSTANCE MigrationProofs WITH
    MaxWrites <- MaxLocalWrites, MaxRestarts <- MigMaxRestarts,
    revoked <- migRevoked, writes <- localWrites, restarts <- migRestarts

\* The machine's pipeline is the one of MigrationProofs: same initial states, ...
LEMMA SamePipelineInit == Pipeline!Init <=> Mig!Init
  BY DEF Pipeline!Init, Mig!Init, Pipeline!InitEngine, Mig!InitEngine, Pipeline!Schemas, Mig!Schemas

\* ... same state, ...
LEMMA SamePipelineVars == UNCHANGED Pipeline!vars <=> UNCHANGED Mig!vars
  BY DEF Pipeline!vars, Mig!vars, Pipeline!engineVars, Mig!engineVars

\* ... same types, ...
LEMMA SamePipelineTypes == Pipeline!TypeOK <=> Mig!TypeOK
  BY DEF Pipeline!TypeOK, Mig!TypeOK, Pipeline!Schemas, Mig!Schemas

\* ... same steps.
LEMMA SamePipelineNext == Pipeline!Next <=> Mig!Next
  BY DEF Pipeline!Next, Mig!Next, Pipeline!JobStep, Mig!JobStep, Pipeline!register_ca_public_key,
         Mig!register_ca_public_key, Pipeline!dispatch_inbound_migration, Mig!dispatch_inbound_migration,
         Pipeline!prepare_migration, Mig!prepare_migration, Pipeline!StartRun, Mig!StartRun, Pipeline!EndRun,
         Mig!EndRun, Pipeline!finish_migration, Mig!finish_migration, Pipeline!ReadCurrent, Mig!ReadCurrent,
         Pipeline!set_current_schema, Mig!set_current_schema, Pipeline!replay_corrupted_windows,
         Mig!replay_corrupted_windows, Pipeline!interrupt, Mig!interrupt, Pipeline!receive_revocation_delta,
         Mig!receive_revocation_delta, Pipeline!ProduceWrite, Mig!ProduceWrite,
         Pipeline!record_corrupted_window_write, Mig!record_corrupted_window_write, Pipeline!Restart, Mig!Restart,
         Pipeline!Schemas, Mig!Schemas, Pipeline!engineVars, Mig!engineVars, Pipeline!verify_version_path,
         Mig!verify_version_path, Pipeline!JobIn, Mig!JobIn, Pipeline!Job, Mig!Job, Pipeline!Finished,
         Mig!Finished, Pipeline!Ends, Mig!Ends, Pipeline!Refused, Mig!Refused, Pipeline!Authentic, Mig!Authentic,
         Pipeline!NotApplicable, Mig!NotApplicable, Pipeline!MustWait, Mig!MustWait, Pipeline!CrdtLocked,
         Mig!CrdtLocked, Pipeline!Elems, Mig!Elems, Pipeline!update_entry_status, Mig!update_entry_status,
         Pipeline!Replayed, Mig!Replayed, Pipeline!load_entries_ordered, Mig!load_entries_ordered,
         Pipeline!mark_migration_complete, Mig!mark_migration_complete, Pipeline!replay_sidecar,
         Mig!replay_sidecar, Pipeline!Untouched, Mig!Untouched, Pipeline!ReplayWindow, Mig!ReplayWindow,
         Pipeline!ValidManagers, Mig!ValidManagers, Pipeline!InProgressAfterRevocation,
         Mig!InProgressAfterRevocation, Pipeline!Revocable, Mig!Revocable, Pipeline!active_corruption_migration,
         Mig!active_corruption_migration, Pipeline!Cardinality, Mig!Cardinality

\* The replica runs the pipeline or leaves it alone.
LEMMA PipelineRuns == ReplicaSpec => Mig!PipelineSpec
<1>1. ReplicaInit => Mig!Init
  BY SamePipelineInit DEF ReplicaInit
<1>2. [ReplicaNext]_allVars => [Pipeline!Next]_(Pipeline!vars)
  BY DEF ReplicaNext, allVars, migrationVars, Pipeline!vars, Pipeline!engineVars, RevocationStep, CrdtStep, GateStep,
         MigrationStep
<1>3. [ReplicaNext]_allVars => [Mig!Next]_(Mig!vars)
  BY <1>2, SamePipelineNext, SamePipelineVars
<1> QED BY <1>1, <1>3, PTL DEF ReplicaSpec, Mig!PipelineSpec

\* Req 18.6, prepare_migration and finish_migration: for every version path and
\* every set of migrations, a replica's transforms never overlap, and a
\* migration that is revoked by the time its transform ends is not committed.
THEOREM CommitsStaySound ==
  ASSUME PathLength \in Nat \ {0}
  PROVE  ReplicaSpec => CommitsAreSound
<1>1. Mig!PipelineSpec => Mig!CommitsAreSound
  BY Mig!PipelineCommits
<1>2. Mig!OneTransform => Pipeline!OneTransform
  BY DEF Mig!OneTransform, Pipeline!OneTransform, Mig!Running, Pipeline!Running, Mig!Cardinality, Pipeline!Cardinality
<1> DEFINE Stays == \A j \in 1..Len(jobs) :
                      jobs[j].phase = "ran" /\ jobs[j].m \in migRevoked
                      => j > Len(jobs') \/ jobs'[j].phase # "committed"
<1>3. [Stays]_(Mig!vars) => [Stays]_(Pipeline!vars)
  BY SamePipelineVars
<1> QED BY <1>1, <1>2, <1>3, PipelineRuns, PTL
        DEF CommitsAreSound, Mig!CommitsAreSound, Pipeline!CommitsAreSound,
            Mig!RevokedNeverCommits, Pipeline!RevokedNeverCommits

\* Req 19.3, 19.6, replay_corrupted_windows and replay_sidecar: for every
\* history of revocations, commits and writes a captured write waits in an open
\* window or in one that a job will replay, unless a replay failed or the device
\* restarted, and none is reported complete beside a refused one of its migration.
THEOREM CapturedWritesStay ==
  ASSUME PathLength \in Nat \ {0}
  PROVE  ReplicaSpec => []CapturedWritesSettle
<1>1. Mig!PipelineSpec => []Mig!CapturedWritesSettle
  BY Mig!PipelineCaptures
<1>2. Mig!CapturedWritesSettle => CapturedWritesSettle
  BY DEF CapturedWritesSettle, Mig!CapturedWritesSettle, Pipeline!CapturedWritesSettle,
         Mig!PendingIsScheduled, Pipeline!PendingIsScheduled, Mig!CompleteHasNoConflict,
         Pipeline!CompleteHasNoConflict, Mig!Elems, Pipeline!Elems
<1> QED BY <1>1, <1>2, PipelineRuns, PTL

\* The replica's revocations take steps of Revocation.
LEMMA RevocationRuns == ReplicaSpec => Spec
<1>1. ReplicaInit => Init
  BY DEF ReplicaInit
<1>2. [ReplicaNext]_allVars => [Next]_vars
  BY DEF ReplicaNext, RevocationStep, CrdtStep, GateStep, MigrationStep, allVars
<1> QED BY <1>1, <1>2, PTL DEF ReplicaSpec, Spec

\* Type correctness of all the machines of a replica, for every mesh, every set
\* of keys and migrations and all bounds.
THEOREM ReplicaTypes ==
  ASSUME CrdtBounds, PathLength \in Nat \ {0}
  PROVE  ReplicaSpec => []TypesOK
<1>1. /\ Mig!PipelineSpec => []Mig!TypeOK
      /\ ReplicaSpec => []Replica!TypeOK
      /\ Spec => []TypeOK
  BY Mig!PipelineTypes, CrdtTypes, TypeCorrect
<1>2. TypeOK /\ Replica!TypeOK /\ Mig!TypeOK => TypesOK
  BY SamePipelineTypes, Zenon DEF TypesOK
<1> QED BY <1>1, <1>2, PipelineRuns, RevocationRuns, PTL
=============================================================================
