------------------------------ MODULE MCVserver -----------------------------
(* Vserver with two command processes and settings of each kind.           *)
EXTENDS Vserver, TLC

CONSTANTS c1, c2

Symmetry == Permutations({c1, c2})

Changes == {"start", "stop", "restart"}

\* Every step of start and stop that can fail does; and commands are
\* interrupted, too, at any point.
Failing     == [verbs |-> Changes, faults |-> {"prep", "ifs", "mount", "pre", "gen"},
                avoidNamespace |-> TRUE]
Interrupted == [Failing EXCEPT !.faults = @ \cup {"post", "int"}]

\* Locks time out, and others look at the run file without one.
TimingOut   == [verbs |-> AllVerbs, faults |-> {"lock", "iflock", "post", "gen"},
                avoidNamespace |-> FALSE]

FaultSetups == {Failing, Interrupted, TimingOut}

LivenessSetups == {[verbs |-> {"start", "stop"}, faults |-> {"gen", "prep"},
                    avoidNamespace |-> FALSE]}

RunningSetups == {[verbs |-> {"start", "running"}, faults |-> {}, avoidNamespace |-> TRUE]}
=============================================================================
