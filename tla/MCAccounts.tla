----------------------------- MODULE MCAccounts -----------------------------
(* Instances of Accounts for TLC. *)
EXTENDS Accounts, TLC

CONSTANTS r1, r2, root, bob, eve

TwoReqs == {r1, r2}
ReqSymmetry == Permutations(TwoReqs)
TwoNames == {root, bob}
ThreeNames == {root, bob, eve}
NoFaults == {}
AnyFault == {"refused", "truncated"}

\* "apig0 users delete", a process of its own that loads both files, deletes
\* without asking IsProtectedAdmin and is done.
CliUsersDelete(n) ==
    /\ usersFile # Corrupt /\ usersFile[n] # NoUser
    /\ usersFile' = [usersFile EXCEPT ![n] = NoUser]
    /\ vaultFile' = IF vaultFile = Corrupt THEN Corrupt
                                           ELSE [vaultFile EXCEPT ![n] = 0]
    /\ owed' = [owed EXCEPT ![n] = "no"]
    /\ given' = [given EXCEPT ![n] = 0]
    /\ UNCHANGED <<lost, up, boots, cache, secrets, minted, births, req, settled>>

SpecBesideCLI == Init /\ [][Next \/ \E n \in Name : CliUsersDelete(n)]_vars

=============================================================================
