----------------------------- MODULE MCMonitor -----------------------------
(* Instances of Monitor for TLC. *)
EXTENDS Monitor, TLC

CONSTANTS q1, q2, c1, c2, f1, api

TwoReqs == {q1, q2}
TwoClients == {c1, c2}
OneClient == {c1}
OneFollower == {f1}
None == {}
OneService == {api}
OneOutcome == {<<Gateway, TRUE>>}
ServiceOutcome == {<<api, TRUE>>}
ReqSymmetry == Permutations(TwoReqs)

=============================================================================
