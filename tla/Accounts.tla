------------------------------ MODULE Accounts ------------------------------
(***************************************************************************)
(* User accounts and their TOTP secrets in local persistent mode: the user *)
(* store (config/userstore.go, file backend), the secret vault             *)
(* (config/vault.go, file provider) and the handlers that change both      *)
(* (auth/admin.go).                                                        *)
(*                                                                         *)
(* The user store changes its cache and rewrites users.json under one      *)
(* mutex.  The vault reads and rewrites its file under two separate        *)
(* sections of its mutex, and UserSecrets, the map the login reads, has    *)
(* none: Go stops the process when it catches two accesses at once, and    *)
(* Stop may happen at any point.                                           *)
(*                                                                         *)
(* The gateway has been set up: Root is the administrator that setup made. *)
(* APIG0_USERS is not set, so no accounts come from the environment, and   *)
(* the command line does not change the same files (MCAccounts adds it).   *)
(***************************************************************************)
EXTENDS Integers, FiniteSets

CONSTANTS
    Req,                    \* request goroutines
    Name, Root, NoName,
    Corrupt,                \* the content of a file json.Unmarshal refuses
    Faults,                 \* what a failed write may leave: "refused" the old
                            \* file, "truncated" a cut one
    MaxSecrets, MaxBoots    \* bounds of the instance

ASSUME AccountConstants ==
    /\ Root \in Name /\ NoName \notin Name
    /\ Faults \subseteq {"refused", "truncated"}
    /\ MaxSecrets \in Nat /\ MaxBoots \in Nat

VARIABLES
    up, boots,
    cache, usersFile,       \* UserStore.cache and users.json
    secrets, vaultFile,     \* UserSecrets and totp-secrets.json
    minted, births,         \* secrets and CreatedAt stamps drawn so far
    req,                    \* the local variables of each request
    owed,                   \* history: "yes" if a creation of the name by a
                            \* request that had it to itself was saved, "half"
                            \* if it only reached the cache or was disputed
    lost,                   \* history: names whose owed account a start did not
                            \* find, because users.json was cut
    given,                  \* history: the secret shown by a request that had
                            \* the name to itself, until the next one begins
    settled                 \* history: the same, within one run of the process

vars == <<up, boots, cache, usersFile, secrets, vaultFile, minted, births, req,
          owed, lost, given, settled>>

User == [role : {"admin", "user"}, born : Nat]
NoUser == [role |-> "none", born |-> 0]
Users == [Name -> User \cup {NoUser}]
Secrets == [Name -> Nat]        \* 0: no secret
NobodyYet == [n \in Name |-> NoUser]
NoSecrets == [n \in Name |-> 0]

ASSUME CorruptIsNoMap == Corrupt \notin Users /\ Corrupt \notin Secrets

Only(n, v, none) == [m \in Name |-> IF m = n THEN v ELSE none]

Idle == [pc |-> "idle", name |-> NoName, role |-> "user", secret |-> 0,
         new |-> FALSE, born |-> 0, read |-> NoSecrets, alone |-> FALSE]
Pc == {"idle", "create", "storeRead", "storeWrite", "remember", "rollback",
       "delete", "wipeRead", "wipeWrite", "forget", "cacheSecret"}
Request == [pc : Pc, name : Name \cup {NoName}, role : {"admin", "user"},
            secret : Nat, new : BOOLEAN, born : Nat, read : Secrets,
            alone : BOOLEAN]

Init ==
    /\ up = TRUE /\ boots = 1
    /\ cache = Only(Root, [role |-> "admin", born |-> 1], NoUser)
    /\ usersFile = cache
    /\ secrets = Only(Root, 1, 0) /\ vaultFile = secrets
    /\ minted = 1 /\ births = 1
    /\ req = [r \in Req |-> Idle]
    /\ owed = Only(Root, "yes", "no") /\ lost = {}
    /\ given = Only(Root, 1, 0) /\ settled = given

-----------------------------------------------------------------------------
(* Files.  os.WriteFile truncates before it writes: a write that fails, or that  *)
(* a crash ends, leaves the old file or a cut one.                               *)

\* saveToFile writes the cache it is given, or fails; a cut file never parses.
UsersSaved(c) == usersFile' = c
UsersNotSaved ==
    \/ "refused" \in Faults /\ usersFile' = usersFile
    \/ "truncated" \in Faults /\ usersFile' = Corrupt

\* writeAll; a file cut to nothing reads as an empty vault, one cut elsewhere
\* does not read at all.
VaultSaved(v) == vaultFile' = v
VaultNotSaved ==
    \/ "refused" \in Faults /\ vaultFile' = vaultFile
    \/ "truncated" \in Faults /\ vaultFile' \in {NoSecrets, Corrupt}

-----------------------------------------------------------------------------
(* Requests *)

\* Request r begins an operation on n; whoever else is at work on n is no
\* longer alone.
Begin(r, n, local) ==
    req' = [q \in Req |->
              IF q = r THEN [local EXCEPT !.name = n,
                                          !.alone = \A x \in Req : req[x].name # n]
              ELSE [req[q] EXCEPT !.alone = @ /\ req[q].name # n]]
Goto(r, pc) == req' = [req EXCEPT ![r].pc = pc]
Answer(r) == req' = [req EXCEPT ![r] = Idle]
Unsettle(n) == /\ given' = [given EXCEPT ![n] = 0]
               /\ settled' = [settled EXCEPT ![n] = 0]

Exists(n) == cache[n] # NoUser

\* ProvisionUser up to its first call, for CreateUserHandler and the setup
\* handlers: a secret is drawn.
ProvisionUser(r, n, role) ==
    /\ up /\ req[r].pc = "idle" /\ minted < MaxSecrets
    /\ minted' = minted + 1
    /\ Begin(r, n, [Idle EXCEPT !.pc = "create", !.role = role, !.new = TRUE,
                                !.secret = minted + 1])
    /\ Unsettle(n)
    /\ UNCHANGED <<lost, up, boots, cache, usersFile, secrets, vaultFile, births,
                   owed>>

\* Create; persist changes the cache before the file and leaves it so when the
\* file cannot be written.
Create(r) ==
    LET n == req[r].name
    IN  /\ req[r].pc = "create"
        /\ \/ /\ Exists(n)
              /\ Answer(r)
              /\ UNCHANGED <<cache, usersFile, births, owed>>
           \/ /\ ~Exists(n)
              /\ births' = births + 1
              /\ cache' = [cache EXCEPT ![n] = [role |-> req[r].role,
                                                born |-> births + 1]]
              /\ \/ /\ UsersSaved(cache')
                    /\ owed' = [owed EXCEPT ![n] =
                                  IF req[r].alone THEN "yes" ELSE "half"]
                    /\ req' = [req EXCEPT ![r].pc = "storeRead",
                                          ![r].born = births + 1]
                 \/ /\ UsersNotSaved
                    /\ owed' = [owed EXCEPT ![n] = "half"]
                    /\ Answer(r)
        /\ UNCHANGED <<lost, up, boots, secrets, vaultFile, minted, given, settled>>

\* ResetTOTPHandler up to StoreUserSecret.
ResetTOTP(r, n) ==
    /\ up /\ req[r].pc = "idle" /\ minted < MaxSecrets /\ Exists(n)
    /\ minted' = minted + 1
    /\ Begin(r, n, [Idle EXCEPT !.pc = "storeRead", !.secret = minted + 1])
    /\ Unsettle(n)
    /\ UNCHANGED <<lost, up, boots, cache, usersFile, secrets, vaultFile, births,
                   owed>>

\* StoreUserSecret failed: ProvisionUser takes the account back.
StoreFailed(r) == IF req[r].new THEN Goto(r, "rollback") ELSE Answer(r)

\* FileVault.StoreSecret, first section of the vault's mutex: readAll.
StoreReadAnyway(r) ==
    /\ req[r].pc = "storeRead"
    /\ req' = [req EXCEPT ![r].pc = "storeWrite", ![r].read = vaultFile]
    /\ UNCHANGED <<lost, up, boots, cache, usersFile, secrets, vaultFile, minted, births,
                   owed, given, settled>>

StoreRead(r) ==
    /\ req[r].pc = "storeRead"
    /\ IF vaultFile = Corrupt
       THEN StoreFailed(r)
       ELSE req' = [req EXCEPT ![r].pc = "storeWrite", ![r].read = vaultFile]
    /\ UNCHANGED <<lost, up, boots, cache, usersFile, secrets, vaultFile, minted, births,
                   owed, given, settled>>

\* Second section: writeAll of what was read, changed for this name.
StoreWrite(r) ==
    LET n == req[r].name
    IN  /\ req[r].pc = "storeWrite"
        /\ \/ /\ VaultSaved([req[r].read EXCEPT ![n] = req[r].secret])
              /\ req' = [req EXCEPT ![r].pc = "remember", ![r].read = NoSecrets]
           \/ /\ VaultNotSaved
              /\ StoreFailed(r)
        /\ UNCHANGED <<lost, up, boots, cache, usersFile, secrets, minted, births, owed,
                       given, settled>>

\* The secret enters UserSecrets and is shown to the administrator.
Remember(r) ==
    LET n == req[r].name
    IN  /\ req[r].pc = "remember"
        /\ secrets' = [secrets EXCEPT ![n] = req[r].secret]
        /\ IF req[r].alone
           THEN /\ given' = [given EXCEPT ![n] = req[r].secret]
                /\ settled' = [settled EXCEPT ![n] = req[r].secret]
           ELSE UNCHANGED <<given, settled>>
        /\ Answer(r)
        /\ UNCHANGED <<lost, up, boots, cache, usersFile, vaultFile, minted, births,
                       owed>>

\* UserStore.Delete; when the file cannot be written the cache is put back.
\* What is owed afterwards depends on whose account it was.
ForgetfulDelete(n, left) ==
    /\ Exists(n)
    /\ cache' = [cache EXCEPT ![n] = NoUser]
    /\ \/ UsersSaved(cache') /\ owed' = [owed EXCEPT ![n] = left]
       \/ UsersNotSaved /\ UNCHANGED owed

Delete(n, left) ==
    /\ Exists(n)
    /\ \/ /\ cache' = [cache EXCEPT ![n] = NoUser]
          /\ UsersSaved(cache')
          /\ owed' = [owed EXCEPT ![n] = left]
       \/ UsersNotSaved /\ UNCHANGED <<cache, owed>>

\* ProvisionUser's rollback, its error ignored: it deletes by name, and an
\* account that another request has made in the meantime remains owed.
Rollback(r) ==
    LET n == req[r].name
    IN  /\ req[r].pc = "rollback"
        /\ \/ Delete(n, IF cache[n].born = req[r].born THEN "no" ELSE owed[n])
           \/ ~Exists(n) /\ UNCHANGED <<cache, usersFile, owed>>
        /\ Answer(r)
        /\ UNCHANGED <<lost, up, boots, secrets, vaultFile, minted, births, given,
                       settled>>

\* IsProtectedAdmin: the administrator with the earliest CreatedAt.
NewestAdmin(n) == /\ cache[n].role = "admin"
                  /\ \A m \in Name : cache[m].role = "admin"
                                       => cache[m].born <= cache[n].born

IsProtectedAdmin(n) == /\ cache[n].role = "admin"
                       /\ \A m \in Name : cache[m].role = "admin"
                                            => cache[n].born <= cache[m].born

\* DeleteUserHandler up to its check.
DeleteUser(r, n) ==
    /\ up /\ req[r].pc = "idle" /\ ~IsProtectedAdmin(n)
    /\ Begin(r, n, [Idle EXCEPT !.pc = "delete"])
    /\ Unsettle(n)
    /\ UNCHANGED <<lost, up, boots, cache, usersFile, secrets, vaultFile, minted, births,
                   owed>>

DeleteRecord(r) ==
    LET n == req[r].name
    IN  /\ req[r].pc = "delete"
        /\ \/ /\ Delete(n, "no")
              /\ IF cache'[n] = NoUser THEN Goto(r, "wipeRead") ELSE Answer(r)
           \/ /\ ~Exists(n)
              /\ Answer(r)
              /\ UNCHANGED <<cache, usersFile, owed>>
        /\ UNCHANGED <<lost, up, boots, secrets, vaultFile, minted, births, given,
                       settled>>

\* DeleteUserSecret: FileVault.DeleteSecret in two sections, its error ignored,
\* and the deletion from UserSecrets.
WipeRead(r) ==
    /\ req[r].pc = "wipeRead"
    /\ IF vaultFile = Corrupt
       THEN Goto(r, "forget")
       ELSE req' = [req EXCEPT ![r].pc = "wipeWrite", ![r].read = vaultFile]
    /\ UNCHANGED <<lost, up, boots, cache, usersFile, secrets, vaultFile, minted, births,
                   owed, given, settled>>

WipeWrite(r) ==
    /\ req[r].pc = "wipeWrite"
    /\ \/ VaultSaved([req[r].read EXCEPT ![req[r].name] = 0])
       \/ VaultNotSaved
    /\ req' = [req EXCEPT ![r].pc = "forget", ![r].read = NoSecrets]
    /\ UNCHANGED <<lost, up, boots, cache, usersFile, secrets, minted, births, owed, given,
                   settled>>

Forget(r) ==
    /\ req[r].pc = "forget"
    /\ secrets' = [secrets EXCEPT ![req[r].name] = 0]
    /\ Answer(r)
    /\ UNCHANGED <<lost, up, boots, cache, usersFile, vaultFile, minted, births, owed,
                   given, settled>>

\* SetAllowedServices and RemoveAllowedServiceEverywhere: of the records only
\* the service lists change, which are not modelled, but the whole cache is
\* written.
SetAllowedServices ==
    /\ up
    /\ UsersSaved(cache) \/ UsersNotSaved
    /\ UNCHANGED <<lost, up, boots, cache, secrets, vaultFile, minted, births, req, owed,
                   given, settled>>

-----------------------------------------------------------------------------
(* LoadUserSecret, called by the login for any name: the vault is read when    *)
(* UserSecrets has no entry, and its answer is cached.                         *)

ReloadUserSecret(r, n) ==
    /\ up /\ req[r].pc = "idle"
    /\ vaultFile # Corrupt /\ vaultFile[n] # 0
    /\ Begin(r, n, [Idle EXCEPT !.pc = "cacheSecret", !.secret = vaultFile[n]])
    /\ UNCHANGED <<lost, up, boots, cache, usersFile, secrets, vaultFile, minted, births,
                   owed, given, settled>>

LoadUserSecret(r, n) ==
    /\ up /\ req[r].pc = "idle" /\ secrets[n] = 0
    /\ vaultFile # Corrupt /\ vaultFile[n] # 0
    /\ Begin(r, n, [Idle EXCEPT !.pc = "cacheSecret", !.secret = vaultFile[n]])
    /\ UNCHANGED <<lost, up, boots, cache, usersFile, secrets, vaultFile, minted, births,
                   owed, given, settled>>

CacheSecret(r) ==
    /\ req[r].pc = "cacheSecret"
    /\ secrets' = [secrets EXCEPT ![req[r].name] = req[r].secret]
    /\ Answer(r)
    /\ UNCHANGED <<lost, up, boots, cache, usersFile, vaultFile, minted, births, owed,
                   given, settled>>

-----------------------------------------------------------------------------
(* The process starts and stops; the command line tool beside it             *)

\* InitSecrets: an unreadable users.json is logged and counts as no users.
Start ==
    /\ ~up /\ boots < MaxBoots
    /\ up' = TRUE /\ boots' = boots + 1
    /\ IF usersFile = Corrupt
       THEN /\ cache' = NobodyYet
            /\ lost' = lost \cup {n \in Name : owed[n] = "yes"}
            /\ owed' = [n \in Name |-> "no"]
       ELSE cache' = usersFile /\ UNCHANGED <<owed, lost>>
    /\ UNCHANGED <<usersFile, secrets, vaultFile, minted, births, req, given,
                   settled>>

Stop ==
    /\ up
    /\ up' = FALSE
    /\ cache' = NobodyYet /\ secrets' = NoSecrets
    /\ req' = [r \in Req |-> Idle]
    /\ settled' = NoSecrets
    /\ UNCHANGED <<lost, boots, usersFile, vaultFile, minted, births, owed, given>>

Next ==
    \/ \E r \in Req :
          \/ \E n \in Name :
                \/ \E role \in {"admin", "user"} : ProvisionUser(r, n, role)
                \/ ResetTOTP(r, n) \/ DeleteUser(r, n) \/ LoadUserSecret(r, n)
          \/ Create(r) \/ StoreRead(r) \/ StoreWrite(r) \/ Remember(r)
          \/ Rollback(r) \/ DeleteRecord(r) \/ WipeRead(r) \/ WipeWrite(r)
          \/ Forget(r) \/ CacheSecret(r)
    \/ SetAllowedServices
    \/ Start \/ Stop

Spec == Init /\ [][Next]_vars

-----------------------------------------------------------------------------
(* Properties *)

\* The maps and files have the shapes of their Go types, and a process that is
\* down holds nothing.
TypeOK ==
    /\ up \in BOOLEAN /\ boots \in Nat /\ minted \in Nat /\ births \in Nat
    /\ cache \in Users /\ usersFile \in Users \cup {Corrupt}
    /\ secrets \in Secrets /\ vaultFile \in Secrets \cup {Corrupt}
    /\ req \in [Req -> Request]
    /\ \A r \in Req : req[r].pc # "idle" => up /\ req[r].name \in Name
    /\ owed \in [Name -> {"no", "half", "yes"}] /\ lost \subseteq Name
    /\ given \in Secrets /\ settled \in Secrets
    /\ ~up => cache = NobodyYet /\ secrets = NoSecrets

\* DeleteUserHandler: "the first admin can only be removed by a full reset".
\* While the gateway runs, Root is in its store and is the protected one,
\* although the check and the deletion are separate critical sections and other
\* administrators come and go between them; only a start that found users.json
\* cut is without Root.
FirstAdminStays == up /\ Root \notin lost => IsProtectedAdmin(Root)

\* A store c, in memory or on disk, has every account that is owed and no other
\* that is not in dispute.
KeepsOwed(c) == \A n \in Name : /\ owed[n] = "yes" => c[n] # NoUser
                                /\ owed[n] = "no" => c[n] = NoUser

\* An account whose creation was saved by a request that had the name to itself is
\* in memory and in users.json until its deletion is saved, and not afterwards:
\* a failed save of one account never costs another, a file cut by it is made
\* whole by the next save, and no rollback of another creation takes the account.
\* The promise ends with a start that finds the file still cut (such a start
\* owes nobody anything).
UsersDurable == /\ up => KeepsOwed(cache)
                /\ usersFile # Corrupt => KeepsOwed(usersFile)

\* A secret shown by an operation that had its name to itself is the one the
\* login uses until another operation on the name begins or the process stops,
\* although operations on other names rewrite the same vault file from copies
\* that may lack it.
SecretInUse == \A n \in Name : settled[n] # 0 => secrets[n] = settled[n]

\* RuntimeStatus: "Users, policies, API tokens, and TOTP secrets stay available
\* after restart while" their files "remain intact".  The vault holds the secret
\* last shown for a name by a request that had the name to itself.
SecretsSurvive ==
    \A n \in Name : given[n] # 0 => vaultFile # Corrupt /\ vaultFile[n] = given[n]

=============================================================================
