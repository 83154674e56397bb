----------------------------- MODULE MCReplica ------------------------------
\* The instance of ReplicaMachines that TLC checks.
EXTENDS ReplicaMachines

CONSTANTS a, b, c

NoAuthor == [x \in {} |-> c]

\* A version path that adds a field, adds a table and retypes a field, and
\* drops both again.
Field(n, t) == [name |-> n, type |-> t]
Table(n, fs) == [name |-> n, fields |-> fs]
VersionPath ==
    << <<Table("people", <<Field("name", "Text")>>)>>,
       <<Table("people", <<Field("age", "Int"), Field("name", "Text")>>)>>,
       <<Table("camps", <<Field("name", "Text")>>),
         Table("people", <<Field("age", "Text"), Field("name", "Text")>>)>>,
       <<Table("people", <<Field("age", "Text")>>)>> >>

\* Every key of the document in key order.
KeyOrder == <<"_tirbase_key", "k1", "k2">>

\* Two migrations for the first step, one of them for the second, and one
\* whose content does not match its hash; the managers' signatures are
\* repeated or distinct.
Step(from, sender, intact) ==
    [src |-> from, dst |-> from + 1, sender |-> sender, ca |-> "ca", intact |-> intact]
MCDelta ==
    [m1 |-> Step(1, "x", TRUE), m1b |-> Step(1, "y", TRUE), m2 |-> Step(2, "y", TRUE), bad |-> Step(1, "x", FALSE)]
MCSigLists == {<< <<"a", TRUE>>, <<"a", TRUE>> >>, << <<"a", TRUE>>, <<"b", TRUE>> >>}
=============================================================================
