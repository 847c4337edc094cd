---------------------------- MODULE MCKeyDelivery ----------------------------
(* Instances of KeyDelivery for TLC. *)
EXTENDS KeyDelivery, TLC

CONSTANTS i1, i2, p1, p2

TwoIds == {i1, i2}
OnePassword == {p1}
TwoPasswords == {p1, p2}
ServerOnly == {"server"}
ServerAndCLI == {"server", "cli"}
Immortal == {Forever}
ShortOrImmortal == {Forever, 0}

IdSymmetry == Permutations(Id)

==============================================================================
