------------------------------ MODULE Services ------------------------------
(***************************************************************************)
(* The service catalog (config/services.go), the upstream secrets          *)
(* (config/service_secrets.go), their metadata                             *)
(* (config/service_secret_metadata.go) and the handlers that change them   *)
(* (auth/services_admin.go), in local persistent mode.                     *)
(*                                                                         *)
(* UpsertService and DeleteService read the whole catalog in one section   *)
(* of serviceMu and write it in another, memory first and the file after;  *)
(* the notes on a secret are read and written in two sections as well.     *)
(* Secrets change under one section.  They are kept in an encrypted file,  *)
(* sealed with the master password of the run that wrote it last; a run    *)
(* started without a password finds the store locked, and one started with *)
(* another password falls back to keeping secrets in memory.               *)
(*                                                                         *)
(* A service's settings are a revision number.  The files of the catalog   *)
(* and of the secrets are written with os.WriteFile, which empties a file  *)
(* before it fills it: a write that fails leaves the old file or a cut     *)
(* one.  A cut catalog loads as an empty one, and a cut file of secrets    *)
(* can be opened with no password.  The notes' errors are ignored by the   *)
(* code and left out.                                                      *)
(***************************************************************************)
EXTENDS Integers, FiniteSets

CONSTANTS
    Req,                    \* request goroutines
    Service, NoService,
    Password, NoPassword,   \* APIG0_SERVICE_MASTER_PASSWORD of a run
    NoFile, Cut,            \* a file that is not there, or was written in part
    MaxRevisions            \* bound of the instance

ASSUME ServiceConstants ==
    /\ NoService \notin Service /\ NoPassword \notin Password
    /\ MaxRevisions \in Nat

VARIABLES
    up, password,
    serviceData, serviceFile,
    secretMode, locked,     \* serviceSecretConfig
    serviceSecrets, sealed, \* the secrets in memory and their file
    metaData,               \* the notes, in memory and in their file
    revisions,              \* revision numbers and secrets drawn so far
    req,                    \* the local variables of each request
    settled,                \* history: what an administrator was told of a
                            \* service by a request nothing interfered with
    owed                    \* history: for each service the secret last
                            \* written to the file, and those that failed
                            \* requests have asked for since

vars == <<up, password, serviceData, serviceFile, secretMode, locked, serviceSecrets,
          sealed, metaData, revisions, req, settled, owed>>
catalogVars == <<serviceData, serviceFile>>
secretVars == <<secretMode, locked, serviceSecrets, sealed, owed>>
runVars == <<up, password>>

ServiceConfig == [rev : 1..MaxRevisions, hasSecret : BOOLEAN]
Absent == [rev |-> 0, hasSecret |-> FALSE]
Catalog == [Service -> ServiceConfig \cup {Absent}]
Secrets == [Service -> 0..MaxRevisions]             \* 0: no secret
NoServices == [s \in Service |-> Absent]
NoSecrets == [s \in Service |-> 0]
ServiceSecretMetadata == [rotated : 0..MaxRevisions, tested : 0..MaxRevisions]
NoNotes == [rotated |-> 0, tested |-> 0]

(* What the administrator may rely on: the entry and, if the request gave  *)
(* or cleared the secret, that secret for the rest of the run ("fresh"),   *)
(* and the notes on it if the request asked for any ("noted").             *)
Unsettled == [known |-> FALSE, entry |-> Absent, secret |-> 0, fresh |-> FALSE,
              noted |-> FALSE]

ASSUME NoFileIsNoFile ==
    /\ NoFile # Cut /\ Cut \notin Catalog
    /\ {NoFile, Cut} \cap [by : Password, secrets : Secrets] = {}

Idle == [pc |-> "idle", op |-> "none", svc |-> NoService, entry |-> Absent, secret |-> 0,
         dated |-> TRUE, clear |-> FALSE, copy |-> NoServices, notes |-> NoNotes, clean |-> TRUE,
         alone |-> TRUE]

-----------------------------------------------------------------------------
(* Starting: LoadServices and ConfigureServiceSecrets *)

(* Mutated: a file that cannot be decrypted counts as no file. *)
OpenedOrNew(p) ==
    IF sealed = NoFile THEN "new"
    ELSE IF p = NoPassword THEN "locked"
    ELSE IF sealed # Cut /\ p = sealed.by THEN "open" ELSE "new"

(* What a run started with password p finds in the secrets' file.  Without *)
(* a password only the presence of the file is looked at.                  *)
Opened(p) ==
    IF sealed = NoFile THEN "new"
    ELSE IF p = NoPassword THEN "locked"
    ELSE IF sealed # Cut /\ p = sealed.by THEN "open" ELSE "error"

(* Mutated: the file is written whether there is a password or not. *)
SealedAnyway(p) ==
    IF Opened(p) = "error" THEN sealed
    ELSE [by |-> p, secrets |-> IF Opened(p) = "open" THEN sealed.secrets ELSE NoSecrets]

(* Every start that could read the file writes it again, unless it has no  *)
(* password.                                                               *)
Reseals(p) == p # NoPassword /\ Opened(p) # "error"

SealedAtStart(p) ==
    IF ~Reseals(p) THEN sealed
    ELSE [by |-> p, secrets |-> IF Opened(p) = "open" THEN sealed.secrets ELSE NoSecrets]

Start(p) ==
    /\ ~up /\ up' = TRUE /\ password' = p
    /\ serviceData' = IF serviceFile = Cut THEN NoServices ELSE serviceFile
    /\ settled' = IF serviceFile = Cut THEN [s \in Service |-> Unsettled] ELSE settled
    /\ secretMode' = IF Opened(p) = "error" THEN "memory" ELSE "encrypted_file"
    /\ locked' = (Opened(p) = "locked")
    /\ serviceSecrets' = IF Opened(p) = "open" THEN sealed.secrets ELSE NoSecrets
    /\ \/ sealed' = SealedAtStart(p)
       \/ Reseals(p) /\ sealed' \in {sealed, Cut}     \* the error is only logged
    /\ UNCHANGED <<serviceFile, metaData, revisions, req, owed>>

Stop ==
    /\ up
    /\ up' = FALSE
    /\ req' = [r \in Req |-> Idle]
    /\ settled' = [s \in Service |-> IF \E r \in Req : req[r].svc = s /\ req[r].op # "test"
                                     THEN Unsettled ELSE [settled[s] EXCEPT !.fresh = FALSE]]
    /\ UNCHANGED <<password, catalogVars, secretVars, metaData, revisions>>

Init ==
    /\ up = FALSE /\ password = NoPassword
    /\ serviceData = NoServices /\ serviceFile = NoServices
    /\ secretMode = "memory" /\ locked = FALSE
    /\ serviceSecrets = NoSecrets /\ sealed = NoFile
    /\ metaData = [s \in Service |-> NoNotes]
    /\ revisions = 0
    /\ req = [r \in Req |-> Idle]
    /\ settled = [s \in Service |-> Unsettled]
    /\ owed = [s \in Service |-> {0}]

-----------------------------------------------------------------------------
(* The handlers' first checks *)

At(r, pc) == up /\ req[r].pc = pc

(* Going on, without what was read before, or answering with an error.     *)
Goto(r, pc) ==
    req' = [req EXCEPT ![r] = IF pc = "idle" THEN Idle
                              ELSE [@ EXCEPT !.pc = pc, !.copy = NoServices, !.notes = NoNotes]]

(* A request for s begins with rec.  Two requests for one service are      *)
(* neither of them alone, and one that may change it unsettles it.         *)
Begin(r, s, rec) ==
    /\ At(r, "idle")
    /\ LET same == {o \in Req : req[o].svc = s}
       IN  req' = [o \in Req |->
                     IF o = r THEN [rec EXCEPT !.svc = s, !.alone = (same = {})]
                     ELSE IF o \in same THEN [req[o] EXCEPT !.alone = FALSE] ELSE req[o]]
    /\ settled' = IF rec.op = "test" THEN settled ELSE [settled EXCEPT ![s] = Unsettled]
    /\ UNCHANGED <<runVars, catalogVars, secretVars, metaData>>

(* CreateServiceHandler: a secret is given or not, and with it a date of   *)
(* expiry that can be read (none counts as one) or one that cannot.        *)
CreateService(r, s, withSecret, dated) ==
    /\ withSecret \/ dated
    /\ revisions < MaxRevisions /\ revisions' = revisions + 1
    /\ serviceData[s] = Absent
    /\ ~(withSecret /\ locked)                      \* ensureServiceSecretWritable
    /\ Begin(r, s, [Idle EXCEPT !.pc = "upsert", !.op = "create",
                       !.entry = [rev |-> revisions', hasSecret |-> withSecret],
                       !.secret = IF withSecret THEN revisions' ELSE 0, !.dated = dated])

(* UpdateServiceHandler: the secret is kept, replaced or cleared.          *)
UpdateService(r, s, withSecret, dated, clear) ==
    /\ withSecret \/ dated
    /\ revisions < MaxRevisions /\ revisions' = revisions + 1
    /\ serviceData[s] # Absent
    /\ ~((withSecret \/ clear) /\ locked)
    /\ Begin(r, s, [Idle EXCEPT !.pc = "upsert", !.op = "update", !.clear = clear,
                       !.entry = [rev |-> revisions',
                                  hasSecret |-> ~clear /\ (withSecret \/ serviceData[s].hasSecret)],
                       !.secret = IF withSecret THEN revisions' ELSE 0, !.dated = dated])

(* DeleteServiceHandler.                                                   *)
DeleteServiceHandler(r, s) ==
    /\ serviceData[s] # Absent
    /\ ~(serviceData[s].hasSecret /\ locked)
    /\ Begin(r, s, [Idle EXCEPT !.op = "delete",
                       !.pc = IF serviceData[s].hasSecret THEN "deleteSecret" ELSE "filter"])
    /\ UNCHANGED revisions

(* TestServiceAuthHandler: the call to the service goes out with the       *)
(* secret of that moment.                                                  *)
TestServiceAuth(r, s) ==
    /\ serviceData[s] # Absent
    /\ Begin(r, s, [Idle EXCEPT !.pc = "readNotes", !.op = "test", !.secret = serviceSecrets[s]])
    /\ UNCHANGED revisions

-----------------------------------------------------------------------------
(* UpsertService and DeleteService *)

Holding == {"save", "saveWithout"}

(* GetServiceCatalog copies the catalog.  Requests that hold a copy at the *)
(* same time interfere.                                                    *)
GetServiceCatalog(r, from, to) ==
    LET holders == {o \in Req : req[o].pc \in Holding}
    IN  /\ At(r, from)
        /\ req' = [o \in Req |->
                     IF o = r THEN [req[o] EXCEPT !.pc = to, !.copy = serviceData,
                                       !.clean = req[o].clean /\ holders = {}]
                     ELSE IF o \in holders THEN [req[o] EXCEPT !.clean = FALSE] ELSE req[o]]
        /\ UNCHANGED <<runVars, catalogVars, secretVars, metaData, revisions, settled>>

(* Mutated: the error of the file is dropped. *)
SaveAndHope(r, catalog, then) ==
    /\ serviceData' = catalog
    /\ serviceFile' \in {serviceFile, Cut, catalog} /\ Goto(r, then)
    /\ UNCHANGED <<runVars, secretVars, metaData, revisions, settled>>

(* SaveServices: memory first, then the file.                              *)
SaveServices(r, catalog, then) ==
    /\ serviceData' = catalog
    /\ \/ serviceFile' = catalog /\ Goto(r, then)
       \/ serviceFile' \in {serviceFile, Cut} /\ Goto(r, "idle")
    /\ UNCHANGED <<runVars, secretVars, metaData, revisions, settled>>

UpsertRead(r) == GetServiceCatalog(r, "upsert", "save")

UpsertWrite(r) ==
    /\ At(r, "save")
    /\ SaveServices(r, [req[r].copy EXCEPT ![req[r].svc] = req[r].entry],
                    IF req[r].clear THEN "deleteSecret"
                    ELSE IF req[r].secret # 0 THEN "setSecret" ELSE "ok")

DeleteRead(r) == GetServiceCatalog(r, "filter", "saveWithout")

(* A service that is no longer there is reported as not found.  The        *)
(* handler goes on with the users' lists, which Gateway models.            *)
DeleteWrite(r) ==
    /\ At(r, "saveWithout")
    /\ IF req[r].copy[req[r].svc] = Absent
       THEN Goto(r, "idle") /\ UNCHANGED <<runVars, catalogVars, secretVars, metaData,
                                           revisions, settled>>
       ELSE SaveServices(r, [req[r].copy EXCEPT ![req[r].svc] = Absent],
                         IF req[r].op = "delete" THEN "ok" ELSE "idle")

-----------------------------------------------------------------------------
(* SetServiceSecret and DeleteServiceSecret *)

(* persistServiceSecretsLocked: nothing is written in memory mode and      *)
(* without a password, and both count as success.                          *)
Persists == secretMode = "encrypted_file" /\ password # NoPassword

ChangeSecret(r, secret, then, otherwise) ==
    LET next == [serviceSecrets EXCEPT ![req[r].svc] = secret]
    IN  \/ /\ ~locked
           /\ serviceSecrets' = next
           /\ \/ /\ Persists
                 /\ sealed' = [by |-> password, secrets |-> next]
                 /\ owed' = [s \in Service |-> {next[s]}]
                 /\ Goto(r, then)
              \/ ~Persists /\ Goto(r, then) /\ UNCHANGED <<sealed, owed>>
              \/ /\ Persists
                 /\ sealed' \in {sealed, Cut}
                 /\ owed' = [owed EXCEPT ![req[r].svc] = @ \cup {secret}]
                 /\ Goto(r, otherwise)
        \/ locked /\ Goto(r, otherwise) /\ UNCHANGED <<serviceSecrets, sealed, owed>>

(* A creation whose secret cannot be stored takes the service back.  The   *)
(* rotation is noted only if the date of expiry could be read; the answer  *)
(* is a success either way.                                                *)
SetServiceSecret(r) ==
    /\ At(r, "setSecret")
    /\ ChangeSecret(r, req[r].secret, IF req[r].dated THEN "readNotes" ELSE "ok",
                    IF req[r].op = "create" THEN "filter" ELSE "idle")
    /\ UNCHANGED <<runVars, catalogVars, secretMode, locked, metaData, revisions, settled>>

DeleteServiceSecret(r) ==
    /\ At(r, "deleteSecret")
    /\ ChangeSecret(r, 0, "deleteNotes", "idle")
    /\ UNCHANGED <<runVars, catalogVars, secretMode, locked, metaData, revisions, settled>>

-----------------------------------------------------------------------------
(* The notes on secrets *)

DeleteServiceSecretMetadata(r) ==
    /\ At(r, "deleteNotes")
    /\ metaData' = [metaData EXCEPT ![req[r].svc] = NoNotes]
    /\ Goto(r, IF req[r].op = "delete" THEN "filter"
               ELSE IF req[r].secret # 0 THEN "setSecret" ELSE "ok")
    /\ UNCHANGED <<runVars, catalogVars, secretVars, revisions, settled>>

(* NoteServiceSecretRotated and NoteServiceSecretTest read the notes ...   *)
GetServiceSecretMetadata(r) ==
    /\ At(r, "readNotes")
    /\ req' = [req EXCEPT ![r].notes = metaData[req[r].svc], ![r].pc = "writeNotes"]
    /\ UNCHANGED <<runVars, catalogVars, secretVars, metaData, revisions, settled>>

(* Mutated: a test starts from empty notes. *)
OverwriteMetadata(r) ==
    /\ At(r, "writeNotes")
    /\ metaData' = [metaData EXCEPT ![req[r].svc] =
                      IF req[r].op = "test"
                      THEN [NoNotes EXCEPT !.tested = req[r].secret]
                      ELSE [NoNotes EXCEPT !.rotated = req[r].secret]]
    /\ Goto(r, "ok")
    /\ UNCHANGED <<runVars, catalogVars, secretVars, revisions, settled>>

(* ... and write all of them back.                                         *)
UpdateServiceSecretMetadata(r) ==
    /\ At(r, "writeNotes")
    /\ metaData' = [metaData EXCEPT ![req[r].svc] =
                      IF req[r].op = "test"
                      THEN [req[r].notes EXCEPT !.tested = req[r].secret]
                      ELSE [req[r].notes EXCEPT !.rotated = req[r].secret]]
    /\ Goto(r, "ok")
    /\ UNCHANGED <<runVars, catalogVars, secretVars, revisions, settled>>

-----------------------------------------------------------------------------

(* The administrator is told that the request succeeded.                   *)
Succeed(r) ==
    LET s == req[r].svc
    IN  /\ At(r, "ok")
        /\ settled' = IF req[r].op # "test" /\ req[r].clean /\ req[r].alone
                      THEN [settled EXCEPT ![s] = [known |-> TRUE, entry |-> req[r].entry,
                                                   secret |-> req[r].secret,
                                                   fresh |-> req[r].secret # 0 \/ req[r].clear,
                                                   noted |-> req[r].dated]]
                      ELSE settled
        /\ req' = [req EXCEPT ![r] = Idle]
        /\ UNCHANGED <<runVars, catalogVars, secretVars, metaData, revisions>>

Next ==
    \/ Stop \/ \E p \in Password \cup {NoPassword} : Start(p)
    \/ \E r \in Req :
          \/ \E s \in Service :
                \/ DeleteServiceHandler(r, s) \/ TestServiceAuth(r, s)
                \/ \E w, d, c \in BOOLEAN : UpdateService(r, s, w, d, c)
                \/ \E w, d \in BOOLEAN : CreateService(r, s, w, d)
          \/ UpsertRead(r) \/ UpsertWrite(r) \/ DeleteRead(r) \/ DeleteWrite(r)
          \/ SetServiceSecret(r) \/ DeleteServiceSecret(r)
          \/ DeleteServiceSecretMetadata(r) \/ GetServiceSecretMetadata(r)
          \/ UpdateServiceSecretMetadata(r) \/ Succeed(r)

Spec == Init /\ [][Next]_vars

-----------------------------------------------------------------------------
(* Properties *)

TypeOK ==
    /\ up \in BOOLEAN /\ password \in Password \cup {NoPassword}
    /\ serviceData \in Catalog /\ serviceFile \in Catalog \cup {Cut}
    /\ secretMode \in {"memory", "encrypted_file"} /\ locked \in BOOLEAN
    /\ serviceSecrets \in Secrets /\ owed \in [Service -> SUBSET (0..MaxRevisions)]
    /\ sealed \in [by : Password, secrets : Secrets] \cup {NoFile, Cut}
    /\ metaData \in [Service -> ServiceSecretMetadata]
    /\ revisions \in 0..MaxRevisions
    /\ \A r \in Req : req[r].copy \in Catalog /\ req[r].svc \in Service \cup {NoService}

(* What an administrator was told about a service stays true until         *)
(* somebody changes that service again.  In memory it holds for the rest   *)
(* of the run: requests for other services and failed writes do not undo   *)
(* it, a later save writes it back over a file that was cut.  In the file, *)
(* and so over restarts, it holds unless a failed write of the catalog     *)
(* left the file cut; a start that finds it so begins with no services and *)
(* ends every promise.  All this is promised to a request that held its    *)
(* copy of the catalog while nobody else held one, and had the service to  *)
(* itself; without that, UpsertService and DeleteService overwrite each    *)
(* other.                                                                  *)
CatalogKept ==
    \A s \in Service : settled[s].known =>
       /\ serviceFile # Cut => serviceFile[s] = settled[s].entry
       /\ up => serviceData[s] = settled[s].entry

(* README.md:314: services persist across restart.  A start brings back    *)
(* every service as its administrator was told it is (LoadServices).       *)
ServicesPersist ==
    [][~up /\ up' => \A s \in Service : settled[s].known
                                          => serviceData'[s] = settled[s].entry]_vars

(* The secret given with such a request is the one requests to the service *)
(* are sent with, through tests of the service and everything that happens *)
(* to other services, until the run ends (SetServiceSecret).  The notes    *)
(* name it as the last one set if the request came with a date of expiry   *)
(* the handler could read, or none (NoteServiceSecretRotated); otherwise   *)
(* they go on naming the one before.                                       *)
SecretInForce ==
    \A s \in Service : settled[s].fresh =>
       /\ serviceSecrets[s] = settled[s].secret
       /\ settled[s].noted => metaData[s].rotated = settled[s].secret

(* The secrets' file holds what was last written to it by a change of a    *)
(* secret, or what a change asked for that failed since, whatever          *)
(* passwords the gateway is started with in between: a start without the   *)
(* password, or with a wrong one, destroys nothing, not even a file that   *)
(* is cut (ConfigureServiceSecrets).  A failed write may cut the file, at  *)
(* a change and at every start with the right password; a run that keeps   *)
(* secrets then still has all of them in memory and its next change writes *)
(* them back, but if it ends before that, they are lost.                   *)
SealedSecretsSurvive ==
    /\ sealed = NoFile => \A s \in Service : 0 \in owed[s]
    /\ sealed \notin {NoFile, Cut} => \A s \in Service : sealed.secrets[s] \in owed[s]
    /\ up /\ Persists => \A s \in Service : serviceSecrets[s] \in owed[s]

=============================================================================
