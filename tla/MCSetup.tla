------------------------------- MODULE MCSetup -------------------------------
(* Instances of Setup for TLC. *)
EXTENDS Setup, TLC

CONSTANTS r1, r2, ann, bo

TwoReqs == {r1, r2}
TwoNames == {ann, bo}
Symmetry == Permutations(TwoReqs) \cup Permutations(TwoNames)

=============================================================================
