------------------------------ MODULE MCDevice ------------------------------
\* The instance of DeviceMachines that TLC checks.
EXTENDS DeviceMachines

CONSTANTS a, b, x1

\* The device that is no manager writes.
ByOther == [x \in Deltas |-> b]

\* Rows of several tables under one key.
OneKey == [r \in ProjectionRows |-> "key"]

\* Definitions of one or two tables: every default, a name that is a keyword,
\* every kind of constraint.
Lit(type, value) == [type |-> type, value |-> value]
Field(name, type, nullable, default) == [name |-> name, type |-> type, nullable |-> nullable, default |-> default]
LanguageDefaults ==
    {Lit("None", ""), Lit("Text", "t"), Lit("Integer", "0"), Lit("Real", "0"), Lit("Real", "0.5"),
     Lit("Real", "NaN"), Lit("Boolean", "true"), Lit("Null", "null")}
LanguageTables ==
    [name : {"t"}, compaction : {"none", "500"},
     fields : {<<f>> \o g :
        f \in [name : {"id"}, type : {"TEXT", "REAL"}, nullable : BOOLEAN, default : LanguageDefaults],
        g \in {<<>>} \cup {<<Field(n, "TEXT", TRUE, Lit("None", ""))>> : n \in {"NOTNULL", "DEFAULT", "UNIQUE"}}},
     constraints : {<<>>, <<[kind |-> "PrimaryKey", columns |-> <<"id">>]>>, <<[kind |-> "Unique", columns |-> <<>>]>>,
                    <<[kind |-> "NotNull", columns |-> <<"id">>], [kind |-> "Unique", columns |-> <<"id", "t">>]>>}]
Plain(name, default) == [version |-> "1", tables |-> <<[name |-> name, compaction |-> "none", constraints |-> <<>>,
                                                        fields |-> <<Field("id", "REAL", TRUE, default)>>]>>]
LanguageDeployments ==
    {<<[version |-> "1", tables |-> <<t>>]>> : t \in LanguageTables}
    \cup {<<[version |-> "1", tables |-> <<t, [t EXCEPT !.name = "table"]>>], Plain("t", d)>> :
            t \in {u \in LanguageTables : Len(u.fields) = 1 /\ u.compaction = "none"}, d \in LanguageDefaults}
    \cup {<<Plain(name, d), Plain("t", e)>> : name \in {"t", "9t"}, d, e \in LanguageDefaults}
=============================================================================
