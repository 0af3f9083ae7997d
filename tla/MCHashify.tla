------------------------------ MODULE MCHashify -----------------------------
(* Hashify with two guests, two contents and one instance at a time.       *)
EXTENDS Hashify, TLC

CONSTANTS g1, g2, p1, ca, cb

\* Given to one instance or another.
SomeOptions == {{"refresh"}, {"sledgehammer"}}

Symmetry == Permutations({g1, g2}) \cup Permutations({ca, cb})
=============================================================================
