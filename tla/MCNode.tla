------------------------------- MODULE MCNode -------------------------------
\* The instance of NodeMachines that TLC checks.
EXTENDS NodeMachines

CONSTANTS k1, k2

\* Deltas of half the link, of twice the MEDIUM floor, and of the LOW floor.
MCPriority == [alert |-> "High", route |-> "Medium", note |-> "Low"]
MCLength   == [alert |-> 5, route |-> 4, note |-> 1]

\* Three deltas for two slots.  One is fragmented three times, twice into as
\* many pieces with other boundaries; one has as many fragments as a receiver
\* accepts; one also goes out in too many, whole, and through a relay.
MCSize  == [a |-> 5, b |-> 6, c |-> 4]
MCSends == {<<"a", 2>>, <<"a", 3>>, <<"a", 4>>, <<"b", 2>>, <<"c", 2>>, <<"c", 1>>, <<"c", 0>>}
MCRelayed == {<<"c", "me">>, <<"c", "other">>}

\* One delta takes two chunks, the other fits in one.
MCBleSize == [b |-> 4, c |-> 3]

\* Two migrations for the first step, one of them for the second, and one
\* whose content does not match its hash; the managers' signatures are
\* repeated or distinct.
Step(from, sender, intact) ==
    [src |-> from, dst |-> from + 1, sender |-> sender, ca |-> "ca", intact |-> intact]
MCDelta ==
    [m1 |-> Step(1, "x", TRUE), m1b |-> Step(1, "y", TRUE), m2 |-> Step(2, "y", TRUE), bad |-> Step(1, "x", FALSE)]
MCSigLists == {<< <<"a", TRUE>>, <<"a", TRUE>> >>, << <<"a", TRUE>>, <<"b", TRUE>> >>}
=============================================================================
