----------------------------- MODULE SchemaDiff -----------------------------
(***************************************************************************)
(* The schema language's algorithms (schema/): structural hash, field-level*)
(* diff and its additive / breaking classification.  A schema is a         *)
(* sequence of tables [name, fields], fields a sequence of [name, type],   *)
(* in declaration order.                                                   *)
(***************************************************************************)
EXTENDS Sequences, Integers

Names(s) == {s[i].name : i \in 1..Len(s)}

\* A HashMap collected from declarations: the last one of a name counts.
Lookup(s, name) == s[CHOOSE i \in 1..Len(s) : s[i].name = name /\ \A k \in (i + 1)..Len(s) : s[k].name # name]

\* compute_schema_identifier_hash sorts tables and fields before hashing, so
\* the digest stands for the set of what was declared.
identifier_hash(schema) ==
    {[table |-> t.name, fields |-> {t.fields[i] : i \in 1..Len(t.fields)}] : t \in {schema[i] : i \in 1..Len(schema)}}

\* Mutant: fields of common tables are compared by name only.
retyped_fields_none(base, incoming) == {}

\* Fields of common tables that changed their type.
retyped_fields(base, incoming) ==
    UNION {{<<t, f>> : f \in {g \in Names(Lookup(base, t).fields) \cap Names(Lookup(incoming, t).fields) :
                                 Lookup(Lookup(base, t).fields, g).type # Lookup(Lookup(incoming, t).fields, g).type}} :
             t \in Names(base) \cap Names(incoming)}

\* <<table, field>> pairs of common tables that only one of them has.
FieldsMissing(from, in) ==
    UNION {{<<t, f>> : f \in Names(Lookup(from, t).fields) \ Names(Lookup(in, t).fields)} :
             t \in Names(from) \cap Names(in)}

diff_schemas(base, incoming) ==
    [added_tables   |-> Names(incoming) \ Names(base),
     removed_tables |-> Names(base) \ Names(incoming),
     added_fields   |-> FieldsMissing(incoming, base),
     removed_fields |-> FieldsMissing(base, incoming),
     retyped        |-> retyped_fields(base, incoming)]

is_identical(d) ==
    d.added_tables = {} /\ d.removed_tables = {} /\ d.added_fields = {} /\ d.removed_fields = {} /\ d.retyped = {}

is_additive(d) ==
    ~is_identical(d) /\ d.removed_tables = {} /\ d.removed_fields = {} /\ d.retyped = {}

is_breaking(d) == d.removed_tables # {} \/ d.removed_fields # {} \/ d.retyped # {}
=============================================================================
