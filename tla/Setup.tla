-------------------------------- MODULE Setup --------------------------------
(***************************************************************************)
(* Setup, the first administrator, the upgrade to persistent storage and   *)
(* the reset (auth/setup.go, config/setup_runtime.go,                      *)
(* config/runtime_reload.go, config/secrets.go), over restarts.            *)
(*                                                                         *)
(* Every store has a permanent file, read when the mode is persistent, and *)
(* a temporary one with a random name.  Where a store writes is decided at *)
(* different moments: users and services when they are loaded, limits from *)
(* the environment at every save, tokens from the mode.  "tokens" stands   *)
(* for the tokens, deliveries, policies, notes and service secrets, which  *)
(* are all found by the mode.  Users are administrators; other data is     *)
(* there or not.  Modules Accounts and Services have the finer steps of    *)
(* the users' and services' stores, Login the sessions.                    *)
(*                                                                         *)
(* os.WriteFile empties a file before it writes: a write that fails leaves *)
(* the old file, if it could not open it, or a piece of the new one.  A    *)
(* crash in the middle of a write is such a failure and Stop.              *)
(***************************************************************************)
EXTENDS Integers, FiniteSets

CONSTANTS
    Req, Nobody,    \* request goroutines
    Name, NoName,   \* administrators
    Entry,          \* what an administrator enters into a store
    NoFile,
    MaxRequests,    \* bounds of the instance: requests to set up, upgrade and
    MaxEdits,       \* reset, other changes of a store,
    MaxFaults       \* and how often a file is not written or not removed

ASSUME SetupConstants ==
    /\ Nobody \notin Req /\ NoName \notin Name /\ Entry \notin Name
    /\ {MaxRequests, MaxEdits, MaxFaults} \subseteq Nat

Stores == {"users", "secrets", "services", "limits", "tokens"}
Edited == {"services", "limits", "tokens"}
Files == Stores \cup {"setup", "temp"}               \* temp: the tokens' temporary file
UserVault == {"env", "file"}
SetupConfig == [mode : {"first", "temporary", "persistent"}, vault : UserVault]
FirstRun == [mode |-> "first", vault |-> "env"]     \* defaultSetupConfig
Place == {"perm", "temp", "old"}                    \* old: a name nobody reads again

ASSUME NoFileIsNoSetup == NoFile \notin SetupConfig

VARIABLES
    up,
    requests, edits, faults,    \* how much of each bound is used up
    setup, setupFile,       \* activeSetup with the environment, and what its file says
    setupMu,
    storePath, servicePath, \* where users and services write
    activeVault,
    mem, perm, temp,        \* each store: memory, what is read from its permanent
                            \* and from its temporary file
    cut,                    \* the files that hold a piece only: nothing is read from them
    caching,                \* secrets read from the vault, not yet in memory
    sessions,               \* administrators with a browser session
    req,                    \* the local variables of each request
    founders,               \* history: administrators told of their account by
                            \* a request nothing overlapped,
    enrolled,               \* and those whose TOTP secret is to stay
    wiped,                  \* history: told of a reset, and nothing since
    upgraded                \* history: this process went over to persistent mode
                            \* with temporary tokens

vars == <<up, requests, edits, faults, setup, setupFile, setupMu, storePath, servicePath,
          activeVault, mem, perm, temp, cut, caching, sessions, req, founders, enrolled, wiped, upgraded>>
runVars == <<up, requests, edits, caching>>
pathVars == <<storePath, servicePath, activeVault>>
dataVars == <<mem, perm, temp, cut>>
setupVars == <<setup, setupFile, setupMu, sessions>>
promises == <<founders, enrolled>>
history == <<promises, wiped, upgraded>>

Empty == [x \in Stores |-> {}]
(* cfg, saved and before are emptied as soon as they are used.             *)
Idle == [pc |-> "idle", op |-> "none", name |-> NoName, cfg |-> FirstRun,
         saved |-> {}, before |-> Empty, alone |-> TRUE]

-----------------------------------------------------------------------------
(* Files *)

PlaceOf(s) == IF s.mode = "persistent" THEN "perm" ELSE "temp"

PathOf(x) ==
    CASE x = "users" -> storePath
      [] x = "services" -> servicePath
      [] x = "secrets" -> IF activeVault = "file" THEN "perm" ELSE "old"
      [] OTHER -> PlaceOf(setup)

FileOf(x) ==
    CASE PathOf(x) = "perm" -> {x}
      [] PathOf(x) = "temp" /\ x = "tokens" -> {"temp"}
      [] OTHER -> {}

(* A file fails; everything else leaves the count of faults alone.         *)
Fault == faults < MaxFaults /\ faults' = faults + 1
NoFault == UNCHANGED faults

FileHolds(x, c) ==
    /\ perm' = IF PathOf(x) = "perm" THEN [perm EXCEPT ![x] = c] ELSE perm
    /\ temp' = IF PathOf(x) = "temp" THEN [temp EXCEPT ![x] = c] ELSE temp

(* Store x holds c from now on; its file is written, or keeps what it had, *)
(* or is cut.                                                              *)
Written(x, c) ==
    /\ NoFault
    /\ mem' = [mem EXCEPT ![x] = c]
    /\ FileHolds(x, c) /\ cut' = cut \ FileOf(x)

NotWritten(x, c) ==
    /\ Fault
    /\ mem' = [mem EXCEPT ![x] = c]
    /\ \/ UNCHANGED <<perm, temp, cut>>
       \/ FileHolds(x, {}) /\ cut' = cut \cup FileOf(x)

(* The setup file says nothing after a write that cut it.                  *)
SetupNotWritten ==
    /\ Fault
    /\ \/ UNCHANGED <<setupFile, cut>>
       \/ setupFile' = NoFile /\ cut' = cut \cup {"setup"}

(* The file vault reads its file before it writes it: a piece is an error, *)
(* an empty file is not.  All secrets are in the one file.                 *)
VaultStores(names) ==
    /\ activeVault = "file" => "secrets" \notin cut
    /\ NoFault
    /\ mem' = [mem EXCEPT !["secrets"] = @ \cup names]
    /\ perm' = IF activeVault = "file" THEN [perm EXCEPT !["secrets"] = @ \cup names] ELSE perm
    /\ UNCHANGED <<temp, cut, promises>>

VaultFails ==
    /\ activeVault = "file"
    /\ \/ "secrets" \in cut /\ NoFault /\ UNCHANGED <<perm, cut, promises>>
       \/ "secrets" \notin cut /\ Fault /\ UNCHANGED <<perm, cut, promises>>
       \/ /\ "secrets" \notin cut /\ Fault
          /\ perm' = [perm EXCEPT !["secrets"] = {}]
          /\ cut' \in {cut, cut \cup {"secrets"}}
          /\ enrolled' = {} /\ UNCHANGED founders
    /\ UNCHANGED <<mem, temp>>

(* A new setup draws new names for the temporary files; the tokens' names  *)
(* are drawn once for the process.                                         *)
NewNames(t) == [t EXCEPT !["users"] = {}, !["services"] = {}, !["limits"] = {}]
Renamed(place) == IF place = "perm" THEN "perm" ELSE "old"

-----------------------------------------------------------------------------
(* The process *)

At(r, pc) == up /\ req[r].pc = pc
Goto(r, pc) == req' = [req EXCEPT ![r].pc = pc]
Fail(r) == req' = [req EXCEPT ![r] = Idle]          \* an error is answered
HasAdmin == mem["users"] # {}

(* LoadSetupBootstrap and ReloadRuntime.  Whoever was in a file that was   *)
(* cut is gone.                                                            *)
Start ==
    /\ ~up /\ up' = TRUE
    /\ setup' = IF setupFile = NoFile THEN FirstRun ELSE setupFile
    /\ storePath' = PlaceOf(setup') /\ servicePath' = PlaceOf(setup')
    /\ activeVault' = setup'.vault
    /\ mem' = [x \in Stores |-> IF setup'.mode = "persistent" /\ x # "secrets"
                                THEN perm[x] ELSE {}]
    /\ founders' = IF cut \cap {"setup", "users"} = {} THEN founders ELSE {}
    /\ enrolled' = enrolled \cap founders'
    /\ UNCHANGED <<requests, edits, caching, faults, setupFile, setupMu, sessions, perm, temp, cut,
                   req, wiped, upgraded>>

(* Temporary mode keeps nothing, nor does the environment keep a secret,   *)
(* and an upgrade that was not answered promises nothing.                  *)
Stop ==
    /\ up
    /\ up' = FALSE /\ setupMu' = Nobody /\ sessions' = {}
    /\ mem' = Empty /\ temp' = Empty /\ cut' = cut \ {"temp"} /\ caching' = {}
    /\ req' = [r \in Req |-> Idle]
    /\ founders' = IF setup.mode = "persistent" /\ \A r \in Req : req[r].op # "upgrade"
                   THEN founders ELSE {}
    /\ enrolled' = IF setup.vault = "file" THEN enrolled \cap founders' ELSE {}
    /\ upgraded' = FALSE
    /\ UNCHANGED <<requests, edits, faults, setup, setupFile, pathVars, perm, wiped>>

Init ==
    /\ up = FALSE /\ requests = 0 /\ edits = 0 /\ faults = 0
    /\ setup = FirstRun /\ setupFile = NoFile /\ setupMu = Nobody
    /\ storePath = "temp" /\ servicePath = "temp" /\ activeVault = "env"
    /\ mem = Empty /\ perm = Empty /\ temp = Empty /\ cut = {} /\ caching = {} /\ sessions = {}
    /\ req = [r \in Req |-> Idle]
    /\ founders = {} /\ enrolled = {} /\ wiped = FALSE /\ upgraded = FALSE

-----------------------------------------------------------------------------
(* Requests *)

InFlight == {r \in Req : req[r].pc # "idle"}
Disturbed(rs) == [o \in Req |-> IF o \in rs THEN [req[o] EXCEPT !.alone = FALSE, !.before = Empty]
                                            ELSE req[o]]

Begin(r, rec) ==
    /\ At(r, "idle")
    /\ requests < MaxRequests /\ requests' = requests + 1
    /\ req' = [Disturbed(InFlight) EXCEPT
                  ![r] = [rec EXCEPT !.alone = (InFlight = {} /\ caching = {}),
                                     !.before = IF InFlight = {} THEN mem ELSE Empty]]
    /\ wiped' = FALSE
    /\ UNCHANGED <<up, edits, caching, faults, setupVars, pathVars, dataVars, upgraded>>

SetupRequest(r, op, n, cfg) ==
    /\ op \in {"complete", "bootstrap"} /\ cfg.mode # "first"
    /\ op = "bootstrap" => cfg = [mode |-> "temporary", vault |-> "env"]   \* unused
    /\ Begin(r, [Idle EXCEPT !.pc = "check", !.op = op, !.name = n, !.cfg = cfg])
    /\ UNCHANGED promises

(* LoginHandler and VerifyHandler: LoadUserSecret looks for the secret in  *)
(* memory, then in the vault, whose answer it keeps.                       *)
ReadSecret(n) ==
    /\ up /\ n \in mem["users"] \ mem["secrets"]
    /\ activeVault = "file" /\ n \in perm["secrets"] \ caching
    /\ caching' = caching \cup {n} /\ req' = Disturbed(InFlight)
    /\ UNCHANGED <<up, requests, edits, faults, setupVars, pathVars, dataVars, history>>

CacheSecret(n) ==
    /\ up /\ n \in caching /\ caching' = caching \ {n}
    /\ mem' = [mem EXCEPT !["secrets"] = @ \cup {n}]
    /\ UNCHANGED <<up, requests, edits, faults, setupVars, pathVars, perm, temp, cut, req, history>>

LogIn(n) ==
    /\ up /\ n \in (mem["users"] \cap mem["secrets"]) \ sessions
    /\ sessions' = sessions \cup {n}
    /\ UNCHANGED <<runVars, faults, setup, setupFile, setupMu, pathVars, dataVars, req, history>>

AdminSession == sessions \cap mem["users"] # {}

(* Upgrades and resets come from an administrator's session.               *)
UpgradeRequest(r, vault) ==
    /\ AdminSession
    /\ Begin(r, [Idle EXCEPT !.pc = "check", !.op = "upgrade",
                    !.cfg = [mode |-> "persistent", vault |-> vault]])
    /\ UNCHANGED promises

ResetRequest(r) ==
    /\ AdminSession
    /\ Begin(r, [Idle EXCEPT !.pc = "reset", !.op = "reset"])
    /\ founders' = {} /\ enrolled' = {}

(* Another request of an administrator changes store x, ...               *)
Edits ==
    /\ up /\ AdminSession
    /\ edits < MaxEdits /\ edits' = edits + 1
    /\ req' = Disturbed(InFlight) /\ wiped' = FALSE
    /\ UNCHANGED <<up, requests, caching, setupVars, pathVars, upgraded>>

Edit(x) ==
    /\ Edits /\ x \in Edited
    /\ x = "tokens" => setupMu = Nobody
    /\ mem[x] # {Entry}
    /\ Written(x, {Entry}) \/ NotWritten(x, {Entry})
    /\ UNCHANGED promises

(* ... or an account that is not an administrator's, or its secret.        *)
EditAccounts ==
    /\ Edits
    /\ \/ Written("users", mem["users"]) /\ UNCHANGED promises
       \/ NotWritten("users", mem["users"]) /\ UNCHANGED promises
       \/ VaultFails

(* The administrator is told that the request succeeded.                   *)
Succeed(r) ==
    LET new == IF req[r].alone /\ req[r].op \in {"complete", "bootstrap"}
               THEN {req[r].name} ELSE {}
    IN  /\ At(r, "ok")
        /\ req' = [req EXCEPT ![r] = Idle]
        /\ founders' = founders \cup new /\ enrolled' = enrolled \cup new
        /\ sessions' = sessions \cup (IF req[r].op \in {"complete", "bootstrap"}
                                     THEN {req[r].name} ELSE {})
        /\ wiped' = (req[r].alone /\ req[r].op = "reset")
        /\ UNCHANGED <<runVars, faults, setup, setupFile, setupMu, pathVars, dataVars, upgraded>>

-----------------------------------------------------------------------------
(* The handlers' checks *)

(* Mutated: setup counts as done in persistent mode only. *)
PassesTemporary(op) ==
    CASE op = "complete" -> setup.mode # "persistent" \/ ~HasAdmin
      [] op = "bootstrap" -> setup.mode # "first" /\ ~HasAdmin
      [] op = "upgrade" -> setup.mode # "persistent"

(* GetRuntimeStatus, as each handler reads it.                             *)
Passes(op) ==
    CASE op = "complete" -> setup.mode = "first" \/ ~HasAdmin
      [] op = "bootstrap" -> setup.mode # "first" /\ ~HasAdmin
      [] op = "upgrade" -> setup.mode # "persistent"

AfterCheck(op) ==
    CASE op = "complete" -> "configure"
      [] op = "bootstrap" -> "create"
      [] op = "upgrade" -> "snapshot"

Check(r) ==
    /\ At(r, "check") /\ setupMu = Nobody
    /\ IF Passes(req[r].op) THEN Goto(r, AfterCheck(req[r].op)) ELSE Fail(r)
    /\ UNCHANGED <<runVars, faults, setupVars, pathVars, dataVars, history>>

-----------------------------------------------------------------------------
(* CompleteSetupHandler and BootstrapAdminHandler *)

(* SavePersistentSetup or ActivateTemporarySetup.                          *)
Configure(r) ==
    LET cfg == req[r].cfg
        switch == /\ setup' = cfg
                  /\ temp' = NewNames(temp)
                  /\ storePath' = Renamed(storePath) /\ servicePath' = Renamed(servicePath)
                  /\ upgraded' = (upgraded \/ (cfg.mode = "persistent" /\ temp["tokens"] # {}))
                  /\ NoFault /\ req' = [req EXCEPT ![r].pc = "init", ![r].cfg = FirstRun]
    IN  /\ At(r, "configure") /\ setupMu = Nobody
        /\ \/ cfg.mode = "persistent" /\ setupFile' = cfg /\ cut' = cut \ {"setup"} /\ switch
           \/ cfg.mode = "temporary" /\ UNCHANGED <<setupFile, cut>> /\ switch
           \/ /\ cfg.mode = "persistent" /\ SetupNotWritten /\ Fail(r)
              /\ UNCHANGED <<setup, temp, storePath, servicePath, upgraded>>
        /\ UNCHANGED <<runVars, setupMu, sessions, activeVault, mem, perm, promises, wiped>>

(* ProvisionUser: the account ...                                          *)
CreateUser(r) ==
    LET users == mem["users"] \cup {req[r].name}
    IN  /\ At(r, "create")
        /\ \/ /\ req[r].name \notin mem["users"]
              /\ Written("users", users) /\ Goto(r, "secret")
           \/ /\ req[r].name \notin mem["users"]
              /\ NotWritten("users", users) /\ Fail(r)
           \/ /\ req[r].name \in mem["users"]
              /\ NoFault /\ Fail(r) /\ UNCHANGED dataVars
        /\ UNCHANGED <<runVars, setupVars, pathVars, history>>

(* ... and its TOTP secret.                                                *)
StoreUserSecret(r) ==
    /\ At(r, "secret")
    /\ \/ VaultStores({req[r].name}) /\ Goto(r, "ok")
       \/ VaultFails /\ Goto(r, "rollback")
    /\ UNCHANGED <<runVars, setupVars, pathVars, wiped, upgraded>>

(* An account that cannot be taken back stays.                             *)
RollBack(r) ==
    /\ At(r, "rollback")
    /\ Written("users", mem["users"] \ {req[r].name}) \/ NotWritten("users", mem["users"])
    /\ Fail(r)
    /\ UNCHANGED <<runVars, setupVars, pathVars, history>>

-----------------------------------------------------------------------------
(* ReloadRuntime *)

(* InitSecrets opens the vault and the users' store of the current setup.  *)
(* Whoever was in a file that was cut is gone.                             *)
Opened(r, then) ==
    /\ storePath' = PlaceOf(setup) /\ activeVault' = setup.vault
    /\ mem' = [mem EXCEPT !["secrets"] = {},
                          !["users"] = IF PlaceOf(setup) = "perm" THEN perm["users"]
                                       ELSE temp["users"]]
    /\ founders' = IF PlaceOf(setup) = "perm" /\ "users" \in cut THEN {} ELSE founders
    /\ enrolled' = enrolled \cap founders'
    /\ Goto(r, then)
    /\ UNCHANGED <<runVars, faults, setupVars, servicePath, perm, temp, cut, wiped, upgraded>>

InitSecrets(r) ==
    /\ At(r, "init")
    /\ Opened(r, "limits")

(* Limits that no file holds stay as they are.                             *)
LoadRateLimits(r) ==
    LET file == IF PlaceOf(setup) = "perm" THEN perm["limits"] ELSE temp["limits"]
    IN  /\ At(r, "limits")
        /\ mem' = IF file = {} THEN mem ELSE [mem EXCEPT !["limits"] = file]
        /\ Goto(r, "services")
        /\ UNCHANGED <<runVars, faults, setupVars, pathVars, perm, temp, cut, history>>

LoadServices(r) ==
    /\ At(r, "services")
    /\ servicePath' = PlaceOf(setup)
    /\ mem' = [mem EXCEPT !["services"] = IF PlaceOf(setup) = "perm" THEN perm["services"]
                                          ELSE temp["services"]]
    /\ Goto(r, "tokens")
    /\ UNCHANGED <<runVars, faults, setupVars, storePath, activeVault, perm, temp, cut, history>>

(* LoadAPITokens and the stores after it: a file that is cut, or that      *)
(* cannot be read now, is an error.                                        *)
LoadTokens(r) ==
    /\ At(r, "tokens") /\ setupMu = Nobody
    /\ \/ /\ FileOf("tokens") \cap cut = {}
          /\ mem' = [mem EXCEPT !["tokens"] = IF PlaceOf(setup) = "perm" THEN perm["tokens"]
                                              ELSE temp["tokens"]]
          /\ NoFault /\ Goto(r, IF req[r].op = "complete" THEN "create" ELSE "ok")
       \/ /\ (NoFault /\ FileOf("tokens") \cap cut # {}) \/ Fault
          /\ mem' = [mem EXCEPT !["tokens"] = {}] /\ Fail(r)
    /\ UNCHANGED <<runVars, setupVars, pathVars, perm, temp, cut, history>>

-----------------------------------------------------------------------------
(* UpgradeStorageHandler *)

SnapshotSecrets(r) ==
    /\ At(r, "snapshot")
    /\ req' = [req EXCEPT ![r].saved = mem["secrets"], ![r].pc = "writeSetup"]
    /\ UNCHANGED <<runVars, faults, setupVars, pathVars, dataVars, history>>

(* UpgradeToPersistent, which holds setupMu: the setup file first, ...     *)
WriteSetup(r) ==
    /\ At(r, "writeSetup") /\ setupMu = Nobody
    /\ \/ /\ NoFault /\ setupFile' = req[r].cfg /\ cut' = cut \ {"setup"}
          /\ setupMu' = r /\ Goto(r, "saveServices")
       \/ SetupNotWritten /\ Fail(r) /\ UNCHANGED setupMu
    /\ UNCHANGED <<runVars, setup, sessions, pathVars, mem, perm, temp, history>>

(* Mutated: an error returns without unlocking. *)
SaveStoreLocked(r, x, pc, then) ==
    /\ At(r, pc)
    /\ \/ Written(x, mem[x]) /\ Goto(r, then)
       \/ NotWritten(x, mem[x]) /\ Fail(r)
    /\ UNCHANGED <<runVars, setupVars, pathVars, history>>

(* ... services and limits, wherever they are written now, ...             *)
SaveStore(r, x, pc, then) ==
    /\ At(r, pc)
    /\ \/ Written(x, mem[x]) /\ Goto(r, then) /\ UNCHANGED setupMu
       \/ NotWritten(x, mem[x]) /\ Fail(r) /\ setupMu' = Nobody
    /\ UNCHANGED <<runVars, setup, setupFile, sessions, pathVars, history>>

SaveServices(r) == SaveStore(r, "services", "saveServices", "saveLimits")
SaveRateLimits(r) == SaveStore(r, "limits", "saveLimits", "saveUsers")

(* ... then the users, into the permanent file, and the switch.            *)
SaveUsers(r) ==
    /\ At(r, "saveUsers")
    /\ setupMu' = Nobody
    /\ \/ /\ storePath' = "perm" /\ servicePath' = Renamed(servicePath)
          /\ perm' = [perm EXCEPT !["users"] = mem["users"]] /\ cut' = cut \ {"users"}
          /\ setup' = req[r].cfg
          /\ temp' = NewNames(temp)
          /\ upgraded' = (upgraded \/ temp["tokens"] # {})
          /\ NoFault /\ req' = [req EXCEPT ![r].pc = "reinit", ![r].cfg = FirstRun]
       \/ /\ Fault /\ Fail(r)
          /\ \/ UNCHANGED <<perm, cut>>
             \/ perm' = [perm EXCEPT !["users"] = {}] /\ cut' = cut \cup {"users"}
          /\ UNCHANGED <<setup, storePath, servicePath, temp, upgraded>>
    /\ UNCHANGED <<runVars, setupFile, sessions, activeVault, mem, promises, wiped>>

OpenNewVault(r) ==
    /\ At(r, "reinit")
    /\ Opened(r, "migrate")

(* Mutated: the snapshot is dropped. *)
MigrateNothing(r) ==
    /\ At(r, "migrate") /\ Goto(r, "init")
    /\ UNCHANGED <<runVars, faults, setupVars, pathVars, dataVars, history>>

(* The secrets go to the new vault one by one.  Errors are ignored: nobody *)
(* is told which are not stored, nor that the file was cut meanwhile and   *)
(* holds only what came later.  The environment keeps none beyond the      *)
(* reload.                                                                 *)
MigrateSecrets(r) ==
    LET all == req[r].saved
        vault == perm["secrets"]
        kept(names, file) ==
            /\ mem' = [mem EXCEPT !["secrets"] = @ \cup names]
            /\ perm' = [perm EXCEPT !["secrets"] = file]
            /\ enrolled' = IF activeVault = "file" THEN enrolled \cap file ELSE {}
    IN  /\ At(r, "migrate")
        /\ \/ /\ activeVault = "env"
              /\ NoFault /\ UNCHANGED cut /\ kept(all, vault)
           \/ /\ activeVault = "file" /\ "secrets" \in cut
              /\ NoFault /\ UNCHANGED cut /\ kept({}, vault)
           \/ /\ activeVault = "file" /\ "secrets" \notin cut
              /\ NoFault /\ UNCHANGED cut /\ kept(all, vault \cup all)
           \/ /\ activeVault = "file" /\ "secrets" \notin cut /\ Fault
              /\ \E names \in SUBSET all \ {all} :
                    \/ UNCHANGED cut /\ kept(names, vault \cup names)
                    \/ UNCHANGED cut /\ \E later \in SUBSET names : kept(names, later)
                    \/ cut' = cut \cup {"secrets"} /\ kept(names, {})
        /\ req' = [req EXCEPT ![r].pc = "init", ![r].saved = {}]
        /\ UNCHANGED <<runVars, setupVars, pathVars, temp, founders, wiped, upgraded>>

-----------------------------------------------------------------------------
(* ResetSetupHandler *)

(* Mutated: the vault's file is not among them. *)
TargetsButVault == Stores \ {"secrets"}

(* resetTargetsLocked: the permanent files to remove.                      *)
ResetTargets == Stores

(* The temporary files of the current setup go as well.  After an error    *)
(* the other files are removed all the same, but the handler stops.        *)
ResetSetupState(r) ==
    /\ At(r, "reset") /\ setupMu = Nobody
    /\ setup' = FirstRun
    /\ temp' = [NewNames(temp) EXCEPT !["tokens"] = IF setup.mode = "persistent" THEN @ ELSE {}]
    /\ storePath' = Renamed(storePath) /\ servicePath' = Renamed(servicePath)
    /\ \E removed \in SUBSET (ResetTargets \cup {"setup"}) :
          /\ IF removed = ResetTargets \cup {"setup"}
             THEN NoFault /\ Goto(r, "sessions")
             ELSE Fault /\ Fail(r)
          /\ perm' = [x \in Stores |-> IF x \in removed THEN {} ELSE perm[x]]
          /\ setupFile' = IF "setup" \in removed THEN NoFile ELSE setupFile
          /\ cut' = cut \ (removed \cup (IF setup.mode = "persistent" THEN {} ELSE {"temp"}))
    /\ UNCHANGED <<runVars, setupMu, sessions, activeVault, mem, history>>

ResetSessionState(r) ==
    /\ At(r, "sessions")
    /\ sessions' = {}
    /\ Goto(r, "init")
    /\ UNCHANGED <<runVars, faults, setup, setupFile, setupMu, pathVars, dataVars, history>>

-----------------------------------------------------------------------------

Next ==
    \/ Start \/ Stop
    \/ (\E x \in Edited : Edit(x)) \/ EditAccounts
    \/ \E n \in Name : ReadSecret(n) \/ CacheSecret(n) \/ LogIn(n)
    \/ \E r \in Req :
          \/ \E op \in {"complete", "bootstrap"}, n \in Name, cfg \in SetupConfig :
                SetupRequest(r, op, n, cfg)
          \/ \E v \in UserVault : UpgradeRequest(r, v)
          \/ ResetRequest(r) \/ Succeed(r) \/ Check(r)
          \/ Configure(r) \/ CreateUser(r) \/ StoreUserSecret(r) \/ RollBack(r)
          \/ InitSecrets(r) \/ LoadRateLimits(r) \/ LoadServices(r) \/ LoadTokens(r)
          \/ SnapshotSecrets(r) \/ WriteSetup(r) \/ SaveServices(r) \/ SaveRateLimits(r)
          \/ SaveUsers(r) \/ OpenNewVault(r) \/ MigrateSecrets(r)
          \/ ResetSetupState(r) \/ ResetSessionState(r)

Spec == Init /\ [][Next]_vars

-----------------------------------------------------------------------------
(* Properties *)

TypeOK ==
    /\ up \in BOOLEAN
    /\ setup \in SetupConfig /\ setupFile \in SetupConfig \cup {NoFile}
    /\ setupFile # NoFile => setupFile.mode = "persistent"
    /\ setupMu \in Req \cup {Nobody}
    /\ setupMu # Nobody => req[setupMu].pc \in {"saveServices", "saveLimits", "saveUsers"}
    /\ storePath \in Place /\ servicePath \in Place /\ activeVault \in UserVault
    /\ \A f \in {mem, perm, temp} :
          /\ DOMAIN f = Stores
          /\ \A x \in Stores : f[x] \subseteq IF x \in Edited THEN {Entry} ELSE Name
    /\ cut \subseteq Files
    /\ caching \subseteq Name /\ sessions \subseteq Name
    /\ enrolled \subseteq founders /\ founders \subseteq Name
    /\ wiped \in BOOLEAN /\ upgraded \in BOOLEAN

Migrating == \E r \in Req : req[r].pc \in {"reinit", "migrate"}

(* The first administrator, once told so by a request that nothing         *)
(* overlapped, has the account and the TOTP secret: through edits and      *)
(* upgrades that may overlap and fail and, in persistent mode with the     *)
(* file vault, through restarts (CompleteSetupHandler,                     *)
(* UpgradeStorageHandler).  Only a reset ends this, or a stop in the       *)
(* middle of an upgrade, or a failed write that has cut the users' or the  *)
(* setup file at the moment the program next reads it: until then the      *)
(* running program keeps the account, and the next write that succeeds     *)
(* makes the file whole.  The secret is lost sooner, when a write cuts the *)
(* vault's file or an upgrade fails to store it.                           *)
FounderKept ==
    \A n \in founders :
       /\ up => n \in mem["users"]
       /\ setup.mode = "persistent" => /\ setupFile # NoFile \/ "setup" \in cut
                                       /\ n \in perm["users"] \/ "users" \in cut
       /\ n \in enrolled /\ setup.mode = "temporary" /\ setup.vault = "env"
             => n \in mem["secrets"]
       /\ n \in enrolled /\ setup.vault = "file" /\ ~Migrating => n \in perm["secrets"]

(* As long as that promise holds, neither completing setup nor             *)
(* bootstrapping lets a request through: also while an upgrade replaces    *)
(* the users' store, after a write that failed, and in later runs.  Once   *)
(* the program has read a users' or setup file that was cut, setup is open *)
(* again; of requests that race before the first administrator is told so, *)
(* nothing is said.                                                        *)
SetupCloses ==
    [][\A r \in Req : (req[r].pc = "check" /\ req'[r].pc \in {"configure", "create"})
                      => founders = {}]_vars

(* A reset that was reported done and that nothing overlapped, not even    *)
(* the reading of a secret for a login, has forgotten everything but the   *)
(* limits in memory: memory is empty and the permanent files are gone,     *)
(* also those that a failed write had cut, so nothing comes back with the  *)
(* next setup or start.                                                    *)
(* A process that went over to persistent mode finds the tokens of its     *)
(* temporary days again.                                                   *)
ResetForgets ==
    wiped =>
       /\ setupFile = NoFile /\ perm = Empty /\ cut \subseteq {"temp"}
       /\ setup.mode = "first"
       /\ \A x \in Stores \ {"limits"} : mem[x] # {} => x = "tokens" /\ upgraded

(* "It writes the current in-memory state (users, services, rate limits,   *)
(* secrets) to local files" (config/setup_runtime.go, UpgradeToPersistent, *)
(* UpgradeStorageHandler): when an upgrade that nothing overlapped is      *)
(* reported done, the users, services and limits there were are in files   *)
(* that the next start reads.                                              *)
UpgradeKeeps ==
    \A r \in Req : req[r].op = "upgrade" /\ req[r].pc = "ok" /\ req[r].alone =>
       \A x \in {"users", "services", "limits"} : req[r].before[x] \subseteq perm[x]

=============================================================================
