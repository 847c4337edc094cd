---------------------------- MODULE MCRateLimiter ----------------------------
(* Instances of RateLimiter for TLC. *)
EXTENDS RateLimiter, TLC

CONSTANTS r1, r2, k1, k2

OneReq == {r1}
TwoReqs == {r1, r2}
OneKey == {k1}
TwoKeys == {k1, k2}

\* A rule without burst (normalised to 1), a wider one, and no limit.
ThreeRules == {[rpm |-> 2, burst |-> 0], [rpm |-> 1, burst |-> 2],
               [rpm |-> -5, burst |-> 7]}
\* A burst that takes longer than StaleAfter to refill.
WideBurst == {[rpm |-> 1, burst |-> 12]}
MinuteOrIdle == {60, 601}
LongIdle == {601}

ReqSymmetry == Permutations(Req)
=============================================================================
