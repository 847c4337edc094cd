------------------------------- MODULE MCLogin -------------------------------
(* Instances of Login for TLC. *)
EXTENDS Login, TLC

CONSTANTS r1, r2, alice, bob, t1, t2, t3

TwoReqs == {r1, r2}
OneUser == {alice}
NoFounder == {}
TwoUsers == {alice, bob}

\* One code, valid from the first instant on, typed in several ways.
OneText == {t1}
TwoTexts == {t1, t2}
ThreeTexts == {t1, t2, t3}
OneCode == [t \in Text |-> 0]

\* Requests are interchangeable, and so are texts that hold the same code.
ReqSymmetry == Permutations(Req) \cup Permutations(Text)

==============================================================================
