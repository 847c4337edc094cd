----------------------------- MODULE MCGateway -----------------------------
(* Instances of Gateway for TLC. *)
EXTENDS Gateway

CONSTANTS q1, api, llm

OneReq == {q1}
TwoServices == {api, llm}
SomeCredentials == {{"token"}, {"cookie"}, {"token", "cookie", "csrf"}}
SomeRoutes == {<<"GET", 2>>, <<"POST", 1>>}
NoneOrOne == {{}, {api}}

Rule(p, m, mfa) == [service |-> api, prefix |-> p, methods |-> m, mfa |-> mfa]

(* A general rule with an exception below it, and rules that overlap. *)
SomeRules == {{Rule(1, {"GET"}, FALSE), Rule(2, {}, TRUE)},
              {Rule(2, {"GET"}, TRUE), Rule(2, {}, FALSE)}}

=============================================================================
