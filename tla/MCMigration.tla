----------------------------- MODULE MCMigration ----------------------------
(* A small instance of the migration pipeline for TLC. *)
EXTENDS Migration

Step(from, sender, intact) ==
    [src |-> from, dst |-> from + 1, sender |-> sender, ca |-> "ca", intact |-> intact]
MCdelta == [m1 |-> Step(1, "x", TRUE), m1b |-> Step(1, "y", TRUE), m2 |-> Step(2, "y", TRUE),
            bad |-> Step(1, "x", FALSE)]
MCSigs  == {<< <<"a", TRUE>>, <<"a", TRUE>> >>, << <<"a", TRUE>>, <<"b", TRUE>> >>}

Spec == Init /\ [][Next]_vars
=============================================================================
