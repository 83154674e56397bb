--------------------------- MODULE SchemaLanguage ---------------------------
(***************************************************************************)
(* The schema definition language (schema/printer.rs, parser.rs and the    *)
(* grammar) as build_schema_def_map uses it: every configured definition   *)
(* is printed, parsed back and kept under the hash of what came back; a    *)
(* definition that does not parse is dropped silently.  A document is a    *)
(* sequence of tokens [kind, text]; the parser takes one grammar rule per  *)
(* step, in the order of the PEG's choices.  Numbers are their digits; a   *)
(* whole real has none behind the point.                                   *)
(***************************************************************************)
EXTENDS Integers, Sequences, SequencesExt
LOCAL INSTANCE SchemaDiff

CONSTANT Deployments   \* the sequences of definitions that may be configured

VARIABLES defs,     \* schema_definitions of the configuration
          at,       \* the definition being processed
          stage,    \* the grammar rule the parser is in
          rest,     \* what is left of the printed document
          table,    \* the table being parsed
          parsed,   \* the schema parsed so far
          def_map   \* the result: schemas, one per identifier hash

languageVars == <<defs, at, stage, rest, table, parsed, def_map>>

W(text) == [kind |-> "word", text |-> text]
Words(texts) == [i \in 1..Len(texts) |-> W(texts[i])]
NoDefault == [type |-> "None", value |-> ""]
FieldTypes == {"TEXT", "INTEGER", "REAL", "BLOB", "BOOLEAN"}
Punctuation == {"{", "}", "(", ")", ",", "="}
BlankTable == [name |-> "", compaction |-> "none", fields |-> <<>>, constraints |-> <<>>]
BlankSchema == [version |-> "", tables |-> <<>>]
Whole == {"0"}      \* the reals whose Display has no point
Unreadable == {"NaN"}
BadNames == {"9t"}  \* names that are no identifiers
Name(text) == [kind |-> IF text \in BadNames THEN "other" ELSE "word", text |-> text]

-----------------------------------------------------------------------------
(* printer.rs *)

\* Mutant: a real is printed as f64's Display prints it.
print_default_value_display(dv) ==
    CASE dv.type = "Text"    -> [kind |-> "string", text |-> dv.value]
      [] dv.type = "Integer" -> [kind |-> "integer", text |-> dv.value]
      [] dv.type = "Real"    -> [kind |-> IF dv.value \in Unreadable THEN "other"
                                          ELSE IF dv.value \in Whole THEN "integer" ELSE "real",
                                 text |-> dv.value]
      [] OTHER               -> W(dv.value)

\* A real always gets a point, so that it cannot be read as an integer.
print_default_value(dv) ==
    CASE dv.type = "Text"    -> [kind |-> "string", text |-> dv.value]
      [] dv.type = "Integer" -> [kind |-> "integer", text |-> dv.value]
      [] dv.type = "Real"    -> [kind |-> IF dv.value \in Unreadable THEN "other" ELSE "real", text |-> dv.value]
      [] OTHER               -> W(dv.value)

print_field(field) ==
    <<Name(field.name), W(field.type)>>
    \o (IF field.nullable THEN <<>> ELSE Words(<<"NOT", "NULL">>))
    \o (IF field.default = NoDefault THEN <<>> ELSE <<W("DEFAULT"), print_default_value(field.default)>>)

print_columns(columns) ==
    <<W("(")>> \o [i \in 1..(2 * Len(columns) - 1) |-> IF i % 2 = 0 THEN W(",") ELSE Name(columns[(i + 1) \div 2])]
    \o <<W(")")>>

\* A standalone NOT NULL is printed as a comment, which the grammar skips.
print_constraint(c) ==
    CASE c.kind = "PrimaryKey" -> Words(<<"PRIMARY", "KEY">>) \o print_columns(c.columns)
      [] c.kind = "Unique"     -> <<W("UNIQUE")>> \o print_columns(c.columns)
      [] OTHER                 -> <<>>

print_compaction(policy) ==
    IF policy = "none" THEN <<W("none")>>
    ELSE <<W("aggressive"), W("("), [kind |-> "integer", text |-> policy], W(")")>>

print_table(t) ==
    <<W("table"), Name(t.name), W("{"), W("compaction"), W("=")>> \o print_compaction(t.compaction)
    \o FlattenSeq([i \in 1..Len(t.fields) |-> print_field(t.fields[i])])
    \o FlattenSeq([i \in 1..Len(t.constraints) |-> print_constraint(t.constraints[i])])
    \o <<W("}")>>

print(schema) ==
    Words(<<"schema", "{", "version", "=">>) \o <<[kind |-> "string", text |-> schema.version]>>
    \o FlattenSeq([i \in 1..Len(schema.tables) |-> print_table(schema.tables[i])])
    \o <<W("}")>>

-----------------------------------------------------------------------------
(* parser.rs; each rule looks at the front of a token sequence *)

Ahead(ts, texts) == Len(ts) >= Len(texts) /\ SubSeq(ts, 1, Len(texts)) = Words(texts)
Drop(ts, n) == SubSeq(ts, n + 1, Len(ts))
IsIdent(token) == token.kind = "word" /\ token.text \notin Punctuation

\* The numbers of columns for which a column_list is ahead (one at most).
ColumnCounts(ts) ==
    {n \in 1..(Len(ts) \div 2) :
        /\ Len(ts) >= 2 * n + 1 /\ ts[1] = W("(") /\ ts[2 * n + 1] = W(")")
        /\ \A i \in 1..n : IsIdent(ts[2 * i])
        /\ \A i \in 1..(n - 1) : ts[2 * i + 1] = W(",")}

parse_column_list(ts, n) == [i \in 1..n |-> ts[2 * i].text]

\* The ways to read a constraint: its value and how many tokens it takes.
parse_constraint(ts) ==
    LET After(kind, texts) ==
            {[value |-> [kind |-> kind, columns |-> parse_column_list(Drop(ts, Len(texts)), n)],
              size |-> Len(texts) + 2 * n + 1] :
               n \in IF Ahead(ts, texts) THEN ColumnCounts(Drop(ts, Len(texts))) ELSE {}}
    IN  After("PrimaryKey", <<"PRIMARY", "KEY">>) \cup After("Unique", <<"UNIQUE">>)

\* Keywords need no white space between them, so one name reads as two.
NotNullSize(ts) ==
    IF Ahead(ts, <<"NOT", "NULL">>) THEN 2 ELSE IF Ahead(ts, <<"NOTNULL">>) THEN 1 ELSE 0

parse_default_value(token) ==
    CASE token.kind = "real"    -> [type |-> "Real", value |-> token.text]
      [] token.kind = "integer" -> [type |-> "Integer", value |-> token.text]
      [] token.kind = "string"  -> [type |-> "Text", value |-> token.text]
      [] token = W("null")      -> [type |-> "Null", value |-> "null"]
      [] OTHER                  -> [type |-> "Boolean", value |-> token.text]

IsDefaultValue(token) == token.kind \in {"real", "integer", "string"} \/ token \in {W("true"), W("false"), W("null")}

\* The ways to read a field (one at most); both modifiers are optional.
parse_field_def(ts) ==
    IF ~(Len(ts) >= 2 /\ IsIdent(ts[1]) /\ ts[2].kind = "word" /\ ts[2].text \in FieldTypes) THEN {}
    ELSE LET skip == 2 + NotNullSize(Drop(ts, 2))
             more == Drop(ts, skip)
             has  == Len(more) >= 2 /\ more[1] = W("DEFAULT") /\ IsDefaultValue(more[2])
         IN  {[value |-> [name |-> ts[1].text, type |-> ts[2].text, nullable |-> skip = 2,
                          default |-> IF has THEN parse_default_value(more[2]) ELSE NoDefault],
               size |-> skip + IF has THEN 2 ELSE 0]}

parse_compaction_directive(ts) ==
    IF Ahead(ts, <<"compaction", "=", "aggressive", "(">>) /\ Len(ts) >= 6
       /\ ts[5].kind = "integer" /\ ts[6] = W(")") THEN {[value |-> ts[5].text, size |-> 6]}
    ELSE IF Ahead(ts, <<"compaction", "=", "none">>) THEN {[value |-> "none", size |-> 3]}
    ELSE {}

-----------------------------------------------------------------------------
(* The steps of build_schema_def_map and of the parser under it *)

Init ==
    /\ defs \in Deployments /\ at = 0 /\ stage = "next"
    /\ rest = <<>> /\ table = BlankTable /\ parsed = BlankSchema /\ def_map = {}

\* What compute_schema_identifier_hash looks at.
Structure(schema) ==
    [i \in 1..Len(schema.tables) |->
        [name   |-> schema.tables[i].name,
         fields |-> [k \in 1..Len(schema.tables[i].fields) |->
                        [name |-> schema.tables[i].fields[k].name, type |-> schema.tables[i].fields[k].type]]]]
hash(schema) == identifier_hash(Structure(schema))

print_next ==
    /\ stage = "next" /\ at < Len(defs)
    /\ at' = at + 1 /\ rest' = print(defs[at + 1]) /\ parsed' = BlankSchema
    /\ stage' = "head"
    /\ UNCHANGED <<defs, table, def_map>>

parse_version_directive ==
    /\ stage = "head"
    /\ Ahead(rest, <<"schema", "{", "version", "=">>) /\ rest[5].kind = "string"
    /\ parsed' = [parsed EXCEPT !.version = rest[5].text]
    /\ rest' = Drop(rest, 5) /\ stage' = "tables"
    /\ UNCHANGED <<defs, at, table, def_map>>

Opens(ts) == Ahead(ts, <<"table">>) /\ Len(ts) >= 3 /\ IsIdent(ts[2]) /\ ts[3] = W("{")

parse_table_def ==
    /\ stage = "tables" /\ Opens(rest)
    /\ \E c \in parse_compaction_directive(Drop(rest, 3)) :
         /\ table' = [BlankTable EXCEPT !.name = rest[2].text, !.compaction = c.value]
         /\ rest' = Drop(rest, 3 + c.size)
    /\ stage' = "items"
    /\ UNCHANGED <<defs, at, parsed, def_map>>

\* table_item tries a constraint first and a field only when that fails.
TableItem ==
    /\ stage = "items"
    /\ \/ \E c \in parse_constraint(rest) :
            /\ table' = [table EXCEPT !.constraints = Append(@, c.value)] /\ rest' = Drop(rest, c.size)
       \/ /\ parse_constraint(rest) = {}
          /\ \E f \in parse_field_def(rest) :
               table' = [table EXCEPT !.fields = Append(@, f.value)] /\ rest' = Drop(rest, f.size)
    /\ UNCHANGED <<defs, at, stage, parsed, def_map>>

NoItem(ts) == parse_constraint(ts) = {} /\ parse_field_def(ts) = {}

TableEnd ==
    /\ stage = "items" /\ NoItem(rest) /\ Ahead(rest, <<"}">>)
    /\ parsed' = [parsed EXCEPT !.tables = Append(@, table)]
    /\ table' = BlankTable /\ rest' = Drop(rest, 1) /\ stage' = "tables"
    /\ UNCHANGED <<defs, at, def_map>>

\* End of input: the map keeps the last schema of a hash.
parse_ok ==
    /\ stage = "tables" /\ rest = <<W("}")>>
    /\ def_map' = {s \in def_map : hash(s) # hash(parsed)} \cup {parsed}
    /\ rest' = <<>> /\ stage' = "next"
    /\ UNCHANGED <<defs, at, table, parsed>>

\* A document that fits no rule any more: `if let Ok(...)` drops it.
parse_error ==
    /\ \/ stage = "tables" /\ ~Opens(rest) /\ rest # <<W("}")>>
       \/ stage = "items" /\ NoItem(rest) /\ ~Ahead(rest, <<"}">>)
    /\ parsed' = BlankSchema /\ table' = BlankTable /\ rest' = <<>> /\ stage' = "next"
    /\ UNCHANGED <<defs, at, def_map>>

Next == print_next \/ parse_version_directive \/ parse_table_def \/ TableItem \/ TableEnd \/ parse_ok \/ parse_error

-----------------------------------------------------------------------------
\* Nothing of one table or document is left over for the next, and the map has
\* one schema per hash.
TypeOK ==
    /\ at \in 0..Len(defs) /\ stage \in {"next", "head", "tables", "items"}
    /\ stage = "next" => rest = <<>>
    /\ stage # "items" => table = BlankTable
    /\ stage = "head" => parsed = BlankSchema
    /\ \A s, t \in def_map : hash(s) = hash(t) => s = t

\* A definition without the standalone NOT NULL constraints, which have no
\* form in the language but the modifier of their field.
Stated(schema) ==
    [schema EXCEPT !.tables = [i \in DOMAIN @ |->
        [@[i] EXCEPT !.constraints = SelectSeq(@, LAMBDA c : c.kind # "NotNull")]]]

\* What the language can express: identifiers, readable defaults, no empty
\* column list, and no field that continues the line before it.
Expressible(schema) ==
    \A i \in 1..Len(schema.tables) : LET t == schema.tables[i] IN
        /\ t.name \notin BadNames
        /\ \A k \in 1..Len(t.fields) :
             /\ t.fields[k].default.value \notin Unreadable
             /\ k > 1 /\ t.fields[k].name = "NOTNULL" =>
                  ~t.fields[k - 1].nullable \/ t.fields[k - 1].default # NoDefault
        /\ \A k \in 1..Len(t.constraints) : t.constraints[k].kind = "NotNull" \/ t.constraints[k].columns # <<>>

\* Req 20: whenever a definition has been processed, it came back exactly as
\* stated, hash included, or the language cannot express it and it is absent.
RoundTrips ==
    stage = "next" /\ at > 0 =>
        IF Expressible(defs[at]) THEN parsed = Stated(defs[at]) /\ parsed \in def_map
        ELSE parsed = BlankSchema
=============================================================================
