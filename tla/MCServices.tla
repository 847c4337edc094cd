----------------------------- MODULE MCServices -----------------------------
(* Instances of Services for TLC. *)
EXTENDS Services, TLC

CONSTANTS r1, r2, a, b, p1, p2

OneReq == {r1}
TwoReqs == {r1, r2}
TwoServices == {a, b}
OnePassword == {p1}
TwoPasswords == {p1, p2}
Symmetry == Permutations(TwoReqs) \cup Permutations(TwoServices)
            \cup Permutations(TwoPasswords)

=============================================================================
