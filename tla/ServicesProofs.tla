--------------------------- MODULE ServicesProofs ---------------------------
(***************************************************************************)
(* Proofs about the service catalog and its secrets, for any number of     *)
(* requests, services, passwords, revisions and starts.                    *)
(*                                                                         *)
(* The invariant types the local variables of every request as well: what  *)
(* a handler carries from one section of a lock to the next ends up in the *)
(* catalog, the secrets' file and the notes.                               *)
(*                                                                         *)
(* What an administrator was told stays true by a second invariant,        *)
(* KeptInv.  A request that has written and that nothing has interfered    *)
(* with finds its entry in memory, in every copy of the catalog another    *)
(* request holds, and in the file unless that was cut; when it succeeds,   *)
(* it hands this over to what is settled.                                  *)
(***************************************************************************)
EXTENDS Services, TLAPS

Steps == {"idle", "upsert", "save", "filter", "saveWithout", "setSecret", "deleteSecret",
          "deleteNotes", "readNotes", "writeNotes", "ok"}

Local == [pc : Steps, op : {"none", "create", "update", "delete", "test"},
          svc : Service \cup {NoService}, entry : ServiceConfig \cup {Absent},
          secret : 0..MaxRevisions, dated : BOOLEAN, clear : BOOLEAN, copy : Catalog,
          notes : ServiceSecretMetadata, clean : BOOLEAN, alone : BOOLEAN]

ReqInv ==
    /\ req \in [Req -> Local]
    /\ \A r \in Req : req[r].pc # "idle" => req[r].svc \in Service

RunInv ==
    /\ up \in BOOLEAN /\ password \in Password \cup {NoPassword}
    /\ revisions \in 0..MaxRevisions

CatalogInv == serviceData \in Catalog /\ serviceFile \in Catalog \cup {Cut}

Debts == [Service -> SUBSET (0..MaxRevisions)]

SecretInv ==
    /\ secretMode \in {"memory", "encrypted_file"} /\ locked \in BOOLEAN
    /\ serviceSecrets \in Secrets /\ owed \in Debts
    /\ sealed \in [by : Password, secrets : Secrets] \cup {NoFile, Cut}

NotesInv == metaData \in [Service -> ServiceSecretMetadata]

ServiceInv ==
    /\ RunInv /\ ReqInv /\ CatalogInv /\ SecretInv /\ NotesInv
    /\ SealedSecretsSurvive

-----------------------------------------------------------------------------

(* The bounds and values of the instance, as the provers need them.        *)
LEMMA Constants ==
    /\ MaxRevisions \in Nat /\ 0 \in 0..MaxRevisions
    /\ NoService \notin Service /\ NoPassword \notin Password
    /\ NoFile \notin [by : Password, secrets : Secrets]
    /\ Cut \notin [by : Password, secrets : Secrets]
    /\ NoFile # Cut /\ Cut \notin Catalog
BY ServiceConstants, NoFileIsNoFile DEF ServiceConstants, NoFileIsNoFile

(* The empty values are of their types.                                    *)
LEMMA EmptyValues ==
    /\ NoServices \in Catalog /\ NoSecrets \in Secrets /\ NoNotes \in ServiceSecretMetadata
    /\ Idle \in Local
<1>1. NoServices \in Catalog
  BY DEF NoServices, Catalog
<1>2. NoSecrets \in Secrets
  BY Constants DEF NoSecrets, Secrets
<1>3. NoNotes \in ServiceSecretMetadata
  BY Constants DEF NoNotes, ServiceSecretMetadata
<1>4. Idle \in Local
  BY <1>1, <1>3, Constants DEF Idle, Local, Steps
<1> QED
  BY <1>1, <1>2, <1>3, <1>4

(* At the first start there is nothing, and nothing is owed.               *)
LEMMA ServiceInitially == Init => ServiceInv
<1> SUFFICES ASSUME Init PROVE ServiceInv
  OBVIOUS
<1>1. RunInv
  BY Constants DEF Init, RunInv
<1>2. ReqInv
  BY EmptyValues DEF Init, ReqInv, Idle
<1>3. CatalogInv /\ SecretInv /\ NotesInv
  BY EmptyValues, Constants DEF Init, CatalogInv, SecretInv, NotesInv, Debts
<1>4. SealedSecretsSurvive
  BY DEF Init, SealedSecretsSurvive, NoSecrets
<1> QED
  BY <1>1, <1>2, <1>3, <1>4 DEF ServiceInv

-----------------------------------------------------------------------------
(* Starting and stopping *)

(* What a start writes to the secrets' file, and what it has in memory if  *)
(* it goes on to keep secrets, is what the file held, or no secrets if     *)
(* there was none.                                                         *)
LEMMA StartKeepsTheFile ==
    ASSUME SecretInv, SealedSecretsSurvive, NEW p \in Password, Reseals(p),
           NEW secrets, secrets = (IF Opened(p) = "open" THEN sealed.secrets ELSE NoSecrets)
    PROVE  /\ SealedAtStart(p) = [by |-> p, secrets |-> secrets]
           /\ SealedAtStart(p) \in [by : Password, secrets : Secrets]
           /\ secrets \in Secrets
           /\ \A s \in Service : secrets[s] \in owed[s]
<1>1. p # NoPassword
  BY Constants
<1>2. CASE sealed = NoFile
  <2>1. Opened(p) = "new"
    BY <1>2 DEF Opened
  <2>2. secrets = NoSecrets /\ SealedAtStart(p) = [by |-> p, secrets |-> secrets]
    BY <2>1 DEF SealedAtStart
  <2>3. \A s \in Service : NoSecrets[s] \in owed[s]
    BY <1>2 DEF SealedSecretsSurvive, NoSecrets
  <2> QED
    BY <2>2, <2>3, EmptyValues
<1>3. CASE sealed # NoFile
  <2>1. Opened(p) = "open" /\ sealed # Cut
    BY <1>1, <1>3 DEF Reseals, Opened
  <2>2. secrets = sealed.secrets /\ SealedAtStart(p) = [by |-> p, secrets |-> secrets]
    BY <2>1 DEF SealedAtStart
  <2>3. sealed.secrets \in Secrets
    BY <1>3, <2>1 DEF SecretInv
  <2>4. \A s \in Service : sealed.secrets[s] \in owed[s]
    BY <1>3, <2>1 DEF SealedSecretsSurvive
  <2> QED
    BY <2>2, <2>3, <2>4
<1> QED
  BY <1>2, <1>3

(* LoadServices and ConfigureServiceSecrets with any password,             *)
LEMMA StartStep ==
    ASSUME ServiceInv, NEW p \in Password \cup {NoPassword}, Start(p)
    PROVE  ServiceInv'
<1>1. RunInv'
  BY Constants DEF ServiceInv, RunInv, Start
<1>2. ReqInv'
  BY DEF ServiceInv, ReqInv, Start
<1>3. CatalogInv' /\ NotesInv'
  BY EmptyValues DEF ServiceInv, CatalogInv, NotesInv, Start
<1>4. PICK secrets : secrets = IF Opened(p) = "open" THEN sealed.secrets ELSE NoSecrets
  OBVIOUS
<1>5. /\ owed' = owed /\ serviceSecrets' = secrets /\ password' = p
      /\ secretMode' = (IF Opened(p) = "error" THEN "memory" ELSE "encrypted_file")
      /\ locked' \in BOOLEAN
      /\ sealed' = SealedAtStart(p) \/ (Reseals(p) /\ sealed' \in {sealed, Cut})
  BY <1>4 DEF Start
<1>6. Opened(p) = "open" => sealed \in [by : Password, secrets : Secrets]
  BY DEF ServiceInv, SecretInv, Opened
<1>7. serviceSecrets' \in Secrets
  BY <1>4, <1>5, <1>6, EmptyValues
<1>8. secretMode' \in {"memory", "encrypted_file"}
  BY <1>5
<1>9. CASE ~Reseals(p)
  <2>1. sealed' = sealed /\ ~Persists'
    BY <1>5, <1>9 DEF Reseals, SealedAtStart, Persists
  <2> QED
    BY <1>1, <1>2, <1>3, <1>5, <1>7, <1>8, <2>1 DEF ServiceInv, SecretInv, SealedSecretsSurvive
<1>10. CASE Reseals(p)
  <2>1. p \in Password
    BY <1>10 DEF Reseals
  <2>2. /\ SealedAtStart(p) = [by |-> p, secrets |-> secrets]
        /\ SealedAtStart(p) \in [by : Password, secrets : Secrets]
        /\ \A s \in Service : secrets[s] \in owed[s]
    BY <1>4, <1>10, <2>1, StartKeepsTheFile DEF ServiceInv
  <2>3. /\ sealed' \in [by : Password, secrets : Secrets] \cup {NoFile, Cut}
        /\ sealed' \in {sealed, Cut} \/ (sealed'.secrets = secrets /\ sealed' # NoFile)
    BY <1>5, <2>2, Constants DEF ServiceInv, SecretInv
  <2>4. SecretInv'
    BY <1>5, <1>7, <1>8, <2>3 DEF ServiceInv, SecretInv
  <2>5. SealedSecretsSurvive'
    BY <1>5, <2>2, <2>3, Constants DEF ServiceInv, SealedSecretsSurvive
  <2> QED
    BY <1>1, <1>2, <1>3, <2>4, <2>5 DEF ServiceInv
<1> QED
  BY <1>9, <1>10

(* and the end of the process keep the invariant.                          *)
LEMMA StopStep ==
    ASSUME ServiceInv, Stop
    PROVE  ServiceInv'
<1>1. RunInv'
  BY DEF ServiceInv, RunInv, Stop
<1>2. ReqInv'
  BY EmptyValues DEF ServiceInv, ReqInv, Stop, Idle
<1>3. CatalogInv' /\ SecretInv' /\ NotesInv' /\ SealedSecretsSurvive'
  BY DEF ServiceInv, CatalogInv, SecretInv, NotesInv, SealedSecretsSurvive, Persists,
         Stop, catalogVars, secretVars
<1> QED
  BY <1>1, <1>2, <1>3 DEF ServiceInv

-----------------------------------------------------------------------------
(* What requests do to their local variables *)

(* Answering,                                                              *)
LEMMA AnswerKeeps ==
    ASSUME ReqInv, NEW r \in Req, req' = [req EXCEPT ![r] = Idle]
    PROVE  ReqInv'
BY EmptyValues DEF ReqInv, Idle

(* moving on,                                                              *)
LEMMA GotoKeeps ==
    ASSUME ReqInv, NEW r \in Req, NEW pc \in Steps, Goto(r, pc), req[r].pc # "idle"
    PROVE  ReqInv'
<1>1. CASE pc = "idle"
  BY <1>1, AnswerKeeps DEF Goto
<1>2. CASE pc # "idle"
  <2> DEFINE mine == [req[r] EXCEPT !.pc = pc, !.copy = NoServices, !.notes = NoNotes]
  <2>1. mine \in Local /\ mine.svc = req[r].svc
    BY EmptyValues DEF ReqInv, Local
  <2>2. req' = [req EXCEPT ![r] = mine]
    BY <1>2 DEF Goto, ReqInv
  <2> HIDE DEF mine
  <2> QED
    BY <2>1, <2>2 DEF ReqInv
<1> QED
  BY <1>1, <1>2

(* beginning, *)
LEMMA BeginKeeps ==
    ASSUME ReqInv, NEW r \in Req, NEW s \in Service, NEW rec \in Local, Begin(r, s, rec)
    PROVE  ReqInv'
<1> DEFINE same == {o \in Req : req[o].svc = s}
           new == [rec EXCEPT !.svc = s, !.alone = (same = {})]
<1>1. req' = [o \in Req |-> IF o = r THEN new
                            ELSE IF o \in same THEN [req[o] EXCEPT !.alone = FALSE] ELSE req[o]]
  BY DEF Begin
<1>2. (same = {}) \in BOOLEAN
  OBVIOUS
<1>3. new \in Local /\ new.svc \in Service
  <2> HIDE DEF same
  <2> QED
    BY <1>2 DEF Local
<1>4. \A o \in Req : /\ [req[o] EXCEPT !.alone = FALSE] \in Local
                     /\ [req[o] EXCEPT !.alone = FALSE].pc = req[o].pc
                     /\ [req[o] EXCEPT !.alone = FALSE].svc = req[o].svc
  BY DEF ReqInv, Local
<1> HIDE DEF same, new
<1> QED
  BY <1>1, <1>3, <1>4 DEF ReqInv

(* and copying the catalog keep them well formed.                          *)
LEMMA CopyKeeps ==
    ASSUME ReqInv, CatalogInv, NEW r \in Req, NEW from \in Steps \ {"idle"}, NEW to \in Steps,
           GetServiceCatalog(r, from, to)
    PROVE  ReqInv'
<1> DEFINE holders == {o \in Req : req[o].pc \in Holding}
           mine == [req[r] EXCEPT !.pc = to, !.copy = serviceData,
                       !.clean = req[r].clean /\ holders = {}]
<1>1. req' = [o \in Req |-> IF o = r THEN mine
                            ELSE IF o \in holders THEN [req[o] EXCEPT !.clean = FALSE] ELSE req[o]]
  BY DEF GetServiceCatalog
<1>2. (req[r].clean /\ holders = {}) \in BOOLEAN
  OBVIOUS
<1>3. mine \in Local /\ mine.svc = req[r].svc
  <2> HIDE DEF holders
  <2> QED
    BY <1>2 DEF Local, ReqInv, CatalogInv
<1>4. req[r].svc \in Service
  BY DEF ReqInv, GetServiceCatalog, At
<1>5. \A o \in Req : /\ [req[o] EXCEPT !.clean = FALSE] \in Local
                     /\ [req[o] EXCEPT !.clean = FALSE].pc = req[o].pc
                     /\ [req[o] EXCEPT !.clean = FALSE].svc = req[o].svc
  BY DEF ReqInv, Local
<1> HIDE DEF holders, mine
<1> QED
  BY <1>1, <1>3, <1>4, <1>5 DEF ReqInv

-----------------------------------------------------------------------------
(* The handlers' first checks *)

(* Beginning a request touches no store.                                   *)
LEMMA BeginFrame ==
    ASSUME ServiceInv, NEW r \in Req, NEW s \in Service, NEW rec, Begin(r, s, rec)
    PROVE  /\ CatalogInv' /\ SecretInv' /\ NotesInv' /\ SealedSecretsSurvive'
           /\ UNCHANGED runVars
BY DEF ServiceInv, CatalogInv, SecretInv, NotesInv, SealedSecretsSurvive, Persists,
       Begin, catalogVars, secretVars, runVars

(* So beginning keeps the invariant if the record is well formed:          *)
LEMMA BeginStep ==
    ASSUME ServiceInv, NEW r \in Req, NEW s \in Service, NEW rec \in Local, Begin(r, s, rec),
           revisions' \in 0..MaxRevisions
    PROVE  ServiceInv'
<1>1. ReqInv'
  BY BeginKeeps DEF ServiceInv
<1>2. RunInv'
  BY BeginFrame DEF ServiceInv, RunInv, runVars
<1> QED
  BY <1>1, <1>2, BeginFrame DEF ServiceInv

(* A revision that is drawn is a number of the instance.                   *)
LEMMA NewRevision ==
    ASSUME RunInv, revisions < MaxRevisions, revisions' = revisions + 1
    PROVE  revisions' \in 0..MaxRevisions /\ revisions' \in 1..MaxRevisions
BY Constants DEF RunInv

(* as CreateServiceHandler makes it,                                       *)
LEMMA CreateStep ==
    ASSUME ServiceInv, NEW r \in Req, NEW s \in Service, NEW w \in BOOLEAN,
           NEW d \in BOOLEAN, CreateService(r, s, w, d)
    PROVE  ServiceInv'
<1> DEFINE rec == [Idle EXCEPT !.pc = "upsert", !.op = "create",
                     !.entry = [rev |-> revisions', hasSecret |-> w],
                     !.secret = IF w THEN revisions' ELSE 0, !.dated = d]
<1>1. revisions' \in 0..MaxRevisions /\ revisions' \in 1..MaxRevisions
  BY NewRevision DEF ServiceInv, CreateService
<1>2. [rev |-> revisions', hasSecret |-> w] \in ServiceConfig
  BY <1>1 DEF ServiceConfig
<1>3. (IF w THEN revisions' ELSE 0) \in 0..MaxRevisions
  BY <1>1, Constants
<1>4. rec \in Local
  BY <1>2, <1>3, EmptyValues DEF Local, Steps
<1>5. Begin(r, s, rec)
  BY DEF CreateService
<1> HIDE DEF rec
<1> QED
  BY <1>1, <1>4, <1>5, BeginStep

(* UpdateServiceHandler,                                                   *)
LEMMA UpdateStep ==
    ASSUME ServiceInv, NEW r \in Req, NEW s \in Service, NEW w \in BOOLEAN,
           NEW d \in BOOLEAN, NEW c \in BOOLEAN, UpdateService(r, s, w, d, c)
    PROVE  ServiceInv'
<1> DEFINE has == ~c /\ (w \/ serviceData[s].hasSecret)
           rec == [Idle EXCEPT !.pc = "upsert", !.op = "update", !.clear = c,
                     !.entry = [rev |-> revisions', hasSecret |-> has],
                     !.secret = IF w THEN revisions' ELSE 0, !.dated = d]
<1>1. revisions' \in 0..MaxRevisions /\ revisions' \in 1..MaxRevisions
  BY NewRevision DEF ServiceInv, UpdateService
<1>2. has \in BOOLEAN
  OBVIOUS
<1>3. [rev |-> revisions', hasSecret |-> has] \in ServiceConfig
  <2> HIDE DEF has
  <2> QED
    BY <1>1, <1>2 DEF ServiceConfig
<1>4. (IF w THEN revisions' ELSE 0) \in 0..MaxRevisions
  BY <1>1, Constants
<1>5. rec \in Local
  <2> HIDE DEF has
  <2> QED
    BY <1>3, <1>4, EmptyValues DEF Local, Steps
<1>6. Begin(r, s, rec)
  BY DEF UpdateService
<1> HIDE DEF rec
<1> QED
  BY <1>1, <1>5, <1>6, BeginStep

(* DeleteServiceHandler                                                    *)
LEMMA DeleteStep ==
    ASSUME ServiceInv, NEW r \in Req, NEW s \in Service, DeleteServiceHandler(r, s)
    PROVE  ServiceInv'
<1> DEFINE rec == [Idle EXCEPT !.op = "delete",
                     !.pc = IF serviceData[s].hasSecret THEN "deleteSecret" ELSE "filter"]
<1>1. (IF serviceData[s].hasSecret THEN "deleteSecret" ELSE "filter") \in Steps
  BY DEF Steps
<1>2. rec \in Local
  BY <1>1, EmptyValues DEF Local
<1>3. Begin(r, s, rec) /\ revisions' = revisions
  BY DEF DeleteServiceHandler
<1> HIDE DEF rec
<1> QED
  BY <1>2, <1>3, BeginStep DEF ServiceInv, RunInv

(* and TestServiceAuthHandler.                                             *)
LEMMA TestStep ==
    ASSUME ServiceInv, NEW r \in Req, NEW s \in Service, TestServiceAuth(r, s)
    PROVE  ServiceInv'
<1> DEFINE rec == [Idle EXCEPT !.pc = "readNotes", !.op = "test", !.secret = serviceSecrets[s]]
<1>1. serviceSecrets[s] \in 0..MaxRevisions
  BY DEF ServiceInv, SecretInv, Secrets
<1>2. rec \in Local
  BY <1>1, EmptyValues DEF Local, Steps
<1>3. Begin(r, s, rec) /\ revisions' = revisions
  BY DEF TestServiceAuth
<1> HIDE DEF rec
<1> QED
  BY <1>2, <1>3, BeginStep DEF ServiceInv, RunInv

-----------------------------------------------------------------------------
(* The catalog *)

(* Reading the catalog,                                                    *)
LEMMA CopyStep ==
    ASSUME ServiceInv, NEW r \in Req, NEW from \in Steps \ {"idle"}, NEW to \in Steps,
           GetServiceCatalog(r, from, to)
    PROVE  ServiceInv'
<1>1. ReqInv'
  BY CopyKeeps DEF ServiceInv
<1>2. /\ RunInv' /\ CatalogInv' /\ SecretInv' /\ NotesInv' /\ SealedSecretsSurvive'
  BY DEF ServiceInv, RunInv, CatalogInv, SecretInv, NotesInv, SealedSecretsSurvive, Persists,
         GetServiceCatalog, runVars, catalogVars, secretVars
<1> QED
  BY <1>1, <1>2 DEF ServiceInv

(* and SaveServices with a well-formed catalog keep the invariant,         *)
LEMMA SaveStep ==
    ASSUME ServiceInv, NEW r \in Req, NEW catalog \in Catalog, NEW then \in Steps,
           SaveServices(r, catalog, then), req[r].pc # "idle"
    PROVE  ServiceInv'
<1>1. "idle" \in Steps
  BY DEF Steps
<1>2. ReqInv'
  BY <1>1, GotoKeeps DEF ServiceInv, SaveServices
<1>3. CatalogInv'
  BY DEF ServiceInv, CatalogInv, SaveServices
<1>4. RunInv' /\ SecretInv' /\ NotesInv' /\ SealedSecretsSurvive'
  BY DEF ServiceInv, RunInv, SecretInv, NotesInv, SealedSecretsSurvive, Persists,
         SaveServices,
         runVars, secretVars
<1> QED
  BY <1>2, <1>3, <1>4 DEF ServiceInv

(* which is what UpsertService                                             *)
LEMMA UpsertWriteStep ==
    ASSUME ServiceInv, NEW r \in Req, UpsertWrite(r)
    PROVE  ServiceInv'
<1> DEFINE next == [req[r].copy EXCEPT ![req[r].svc] = req[r].entry]
           then == IF req[r].clear THEN "deleteSecret"
                   ELSE IF req[r].secret # 0 THEN "setSecret" ELSE "ok"
<1>1. req[r].copy \in Catalog /\ req[r].entry \in ServiceConfig \cup {Absent}
  BY DEF ServiceInv, ReqInv, Local
<1>2. next \in Catalog
  BY <1>1 DEF Catalog
<1>3. then \in Steps
  BY DEF Steps
<1>4. SaveServices(r, next, then) /\ req[r].pc # "idle"
  BY DEF UpsertWrite, At
<1> HIDE DEF next, then
<1> QED
  BY <1>2, <1>3, <1>4, SaveStep

(* and DeleteService write.                                                *)
LEMMA DeleteWriteStep ==
    ASSUME ServiceInv, NEW r \in Req, DeleteWrite(r)
    PROVE  ServiceInv'
<1>1. CASE req[r].copy[req[r].svc] = Absent
  <2>1. "idle" \in Steps /\ Goto(r, "idle") /\ req[r].pc # "idle"
    BY <1>1 DEF DeleteWrite, At, Steps
  <2>2. ReqInv'
    BY <2>1, GotoKeeps DEF ServiceInv
  <2>3. RunInv' /\ CatalogInv' /\ SecretInv' /\ NotesInv' /\ SealedSecretsSurvive'
    BY <1>1 DEF ServiceInv, RunInv, CatalogInv, SecretInv, NotesInv, SealedSecretsSurvive, Persists,
                DeleteWrite, runVars, catalogVars, secretVars
  <2> QED
    BY <2>2, <2>3 DEF ServiceInv
<1>2. CASE req[r].copy[req[r].svc] # Absent
  <2> DEFINE next == [req[r].copy EXCEPT ![req[r].svc] = Absent]
             then == IF req[r].op = "delete" THEN "ok" ELSE "idle"
  <2>1. next \in Catalog
    BY DEF ServiceInv, ReqInv, Local, Catalog
  <2>2. then \in Steps
    BY DEF Steps
  <2>3. SaveServices(r, next, then) /\ req[r].pc # "idle"
    BY <1>2 DEF DeleteWrite, At
  <2> HIDE DEF next, then
  <2> QED
    BY <2>1, <2>2, <2>3, SaveStep
<1> QED
  BY <1>1, <1>2

-----------------------------------------------------------------------------
(* Secrets *)

(* A change of a secret writes to the file exactly what it is then owed,   *)
(* or leaves the file as it was or cut; memory holds what is owed in any   *)
(* case.                                                                   *)
LEMMA ChangeKeeps ==
    ASSUME ServiceInv, NEW r \in Req, NEW secret \in 0..MaxRevisions, NEW then \in Steps,
           NEW otherwise \in Steps, ChangeSecret(r, secret, then, otherwise),
           up, req[r].pc # "idle", UNCHANGED <<up, password, secretMode, locked>>
    PROVE  ReqInv' /\ SecretInv' /\ SealedSecretsSurvive'
<1>1. ReqInv'
  <2>1. Goto(r, then) \/ Goto(r, otherwise)
    BY DEF ChangeSecret
  <2> QED
    BY <2>1, GotoKeeps DEF ServiceInv
<1>2. PICK next : next = [serviceSecrets EXCEPT ![req[r].svc] = secret]
  OBVIOUS
<1>3. /\ next \in Secrets /\ req[r].svc \in Service
      /\ \A s \in Service : next[s] = IF s = req[r].svc THEN secret ELSE serviceSecrets[s]
  BY <1>2 DEF ServiceInv, SecretInv, ReqInv, Secrets
<1>4. secretMode' \in {"memory", "encrypted_file"} /\ locked' \in BOOLEAN /\ Persists' = Persists
  BY DEF ServiceInv, SecretInv, Persists
<1>5. CASE /\ Persists /\ serviceSecrets' = next
           /\ sealed' = [by |-> password, secrets |-> next]
           /\ owed' = [s \in Service |-> {next[s]}]
  <2>1. password \in Password
    BY <1>5 DEF Persists, ServiceInv, RunInv
  <2>2. sealed' \in [by : Password, secrets : Secrets] /\ sealed'.secrets = next
    BY <1>3, <1>5, <2>1
  <2>3. \A s \in Service : next[s] \in 0..MaxRevisions
    BY <1>3 DEF Secrets
  <2>4. owed' \in Debts /\ \A s \in Service : next[s] \in owed'[s]
    BY <1>5, <2>3 DEF Debts
  <2>5. SealedSecretsSurvive'
    BY <1>5, <2>2, <2>4, Constants DEF SealedSecretsSurvive
  <2>6. SecretInv'
    BY <1>3, <1>4, <1>5, <2>2, <2>4 DEF SecretInv
  <2> QED
    BY <1>1, <2>5, <2>6
<1>6. CASE ~Persists /\ serviceSecrets' = next /\ UNCHANGED <<sealed, owed>>
  BY <1>1, <1>3, <1>4, <1>6 DEF ServiceInv, SecretInv, SealedSecretsSurvive
<1>7. CASE /\ Persists /\ serviceSecrets' = next /\ sealed' \in {sealed, Cut}
           /\ owed' = [owed EXCEPT ![req[r].svc] = @ \cup {secret}]
  <2>1. \A s \in Service : owed[s] \in SUBSET (0..MaxRevisions)
    BY DEF ServiceInv, SecretInv, Debts
  <2>2. owed' \in Debts
    BY <1>7, <2>1 DEF ServiceInv, SecretInv, Debts
  <2>3. \A s \in Service : owed'[s] = IF s = req[r].svc THEN owed[s] \cup {secret} ELSE owed[s]
    BY <1>7 DEF ServiceInv, SecretInv, Debts
  <2>4. \A s \in Service : serviceSecrets[s] \in owed[s]
    BY <1>7 DEF ServiceInv, SealedSecretsSurvive
  <2>5. \A s \in Service : owed[s] \subseteq owed'[s] /\ next[s] \in owed'[s]
    BY <1>3, <2>3, <2>4
  <2>6. sealed' \notin {NoFile, Cut} => sealed' = sealed /\ sealed \notin {NoFile, Cut}
    BY <1>7
  <2>7. sealed' = NoFile => sealed = NoFile
    BY <1>7, Constants
  <2>8. SealedSecretsSurvive'
    BY <1>7, <2>5, <2>6, <2>7 DEF ServiceInv, SealedSecretsSurvive
  <2>9. SecretInv'
    BY <1>3, <1>4, <1>7, <2>2 DEF ServiceInv, SecretInv
  <2> QED
    BY <1>1, <2>8, <2>9
<1>8. CASE UNCHANGED <<serviceSecrets, sealed, owed>>
  BY <1>1, <1>4, <1>8 DEF ServiceInv, SecretInv, SealedSecretsSurvive
<1> QED
  BY <1>2, <1>5, <1>6, <1>7, <1>8 DEF ChangeSecret

(* SetServiceSecret                                                        *)
LEMMA SetSecretStep ==
    ASSUME ServiceInv, NEW r \in Req, SetServiceSecret(r)
    PROVE  ServiceInv'
<1> DEFINE otherwise == IF req[r].op = "create" THEN "filter" ELSE "idle"
           then == IF req[r].dated THEN "readNotes" ELSE "ok"
<1>1. otherwise \in Steps /\ then \in Steps
  BY DEF Steps
<1>2. req[r].secret \in 0..MaxRevisions
  BY DEF ServiceInv, ReqInv, Local
<1>3. /\ ChangeSecret(r, req[r].secret, then, otherwise)
      /\ up /\ req[r].pc # "idle" /\ UNCHANGED <<up, password, secretMode, locked>>
  BY DEF SetServiceSecret, At, runVars
<1> HIDE DEF otherwise, then
<1>4. ReqInv' /\ SecretInv' /\ SealedSecretsSurvive'
  BY <1>1, <1>2, <1>3, ChangeKeeps
<1>5. RunInv' /\ CatalogInv' /\ NotesInv'
  BY DEF ServiceInv, RunInv, CatalogInv, NotesInv, SetServiceSecret, runVars, catalogVars
<1> QED
  BY <1>4, <1>5 DEF ServiceInv

(* and DeleteServiceSecret change it to a secret of the instance.          *)
LEMMA DeleteSecretStep ==
    ASSUME ServiceInv, NEW r \in Req, DeleteServiceSecret(r)
    PROVE  ServiceInv'
<1>1. "deleteNotes" \in Steps /\ "idle" \in Steps
  BY DEF Steps
<1>2. /\ ChangeSecret(r, 0, "deleteNotes", "idle")
      /\ up /\ req[r].pc # "idle" /\ UNCHANGED <<up, password, secretMode, locked>>
  BY DEF DeleteServiceSecret, At, runVars
<1>3. ReqInv' /\ SecretInv' /\ SealedSecretsSurvive'
  BY <1>1, <1>2, Constants, ChangeKeeps
<1>4. RunInv' /\ CatalogInv' /\ NotesInv'
  BY DEF ServiceInv, RunInv, CatalogInv, NotesInv, DeleteServiceSecret, runVars, catalogVars
<1> QED
  BY <1>3, <1>4 DEF ServiceInv

-----------------------------------------------------------------------------
(* Notes and answers *)

(* Deleting,                                                               *)
LEMMA DeleteNotesStep ==
    ASSUME ServiceInv, NEW r \in Req, DeleteServiceSecretMetadata(r)
    PROVE  ServiceInv'
<1> DEFINE then == IF req[r].op = "delete" THEN "filter"
                   ELSE IF req[r].secret # 0 THEN "setSecret" ELSE "ok"
<1>1. then \in Steps
  BY DEF Steps
<1>2. Goto(r, then) /\ req[r].pc # "idle"
  BY DEF DeleteServiceSecretMetadata, At
<1> HIDE DEF then
<1>3. ReqInv'
  BY <1>1, <1>2, GotoKeeps DEF ServiceInv
<1>4. NotesInv'
  BY EmptyValues DEF ServiceInv, NotesInv, DeleteServiceSecretMetadata
<1>5. RunInv' /\ CatalogInv' /\ SecretInv' /\ SealedSecretsSurvive'
  BY DEF ServiceInv, RunInv, CatalogInv, SecretInv, SealedSecretsSurvive, Persists,
         DeleteServiceSecretMetadata, runVars, catalogVars, secretVars
<1> QED
  BY <1>3, <1>4, <1>5 DEF ServiceInv

(* reading                                                                 *)
LEMMA ReadNotesStep ==
    ASSUME ServiceInv, NEW r \in Req, GetServiceSecretMetadata(r)
    PROVE  ServiceInv'
<1>1. req[r].svc \in Service
  BY DEF ServiceInv, ReqInv, GetServiceSecretMetadata, At
<1>2. metaData[req[r].svc] \in ServiceSecretMetadata /\ "writeNotes" \in Steps
  BY <1>1 DEF ServiceInv, NotesInv, Steps
<1>3. PICK notes \in ServiceSecretMetadata :
         req' = [req EXCEPT ![r].notes = notes, ![r].pc = "writeNotes"]
  BY <1>2 DEF GetServiceSecretMetadata
<1>4. ReqInv'
  <2> DEFINE mine == [req[r] EXCEPT !.notes = notes, !.pc = "writeNotes"]
  <2>1. mine \in Local /\ mine.svc = req[r].svc
    BY <1>2, <1>3 DEF ServiceInv, ReqInv, Local
  <2>2. req' = [req EXCEPT ![r] = mine]
    BY <1>3 DEF ServiceInv, ReqInv
  <2> HIDE DEF mine
  <2> QED
    BY <1>1, <2>1, <2>2 DEF ServiceInv, ReqInv
<1>5. RunInv' /\ CatalogInv' /\ SecretInv' /\ NotesInv' /\ SealedSecretsSurvive'
  BY DEF ServiceInv, RunInv, CatalogInv, SecretInv, NotesInv, SealedSecretsSurvive, Persists,
         GetServiceSecretMetadata, runVars, catalogVars, secretVars
<1> QED
  BY <1>4, <1>5 DEF ServiceInv

(* and writing notes,                                                      *)
LEMMA WriteNotesStep ==
    ASSUME ServiceInv, NEW r \in Req, UpdateServiceSecretMetadata(r)
    PROVE  ServiceInv'
<1> DEFINE notes == IF req[r].op = "test" THEN [req[r].notes EXCEPT !.tested = req[r].secret]
                    ELSE [req[r].notes EXCEPT !.rotated = req[r].secret]
<1>1. req[r].notes \in ServiceSecretMetadata /\ req[r].secret \in 0..MaxRevisions
  BY DEF ServiceInv, ReqInv, Local
<1>2. notes \in ServiceSecretMetadata
  BY <1>1 DEF ServiceSecretMetadata
<1>3. metaData' = [metaData EXCEPT ![req[r].svc] = notes]
  BY DEF UpdateServiceSecretMetadata
<1> HIDE DEF notes
<1>4. NotesInv'
  BY <1>2, <1>3 DEF ServiceInv, NotesInv
<1>5. "ok" \in Steps /\ Goto(r, "ok") /\ req[r].pc # "idle"
  BY DEF UpdateServiceSecretMetadata, At, Steps
<1>6. ReqInv'
  BY <1>5, GotoKeeps DEF ServiceInv
<1>7. RunInv' /\ CatalogInv' /\ SecretInv' /\ SealedSecretsSurvive'
  BY DEF ServiceInv, RunInv, CatalogInv, SecretInv, SealedSecretsSurvive, Persists,
         UpdateServiceSecretMetadata, runVars, catalogVars, secretVars
<1> QED
  BY <1>4, <1>6, <1>7 DEF ServiceInv

(* and the answers of the handlers.                                        *)
LEMMA AnswerStep ==
    ASSUME ServiceInv, NEW r \in Req, Succeed(r)
    PROVE  ServiceInv'
<1>1. ReqInv'
  BY AnswerKeeps DEF ServiceInv, Succeed
<1>2. RunInv' /\ CatalogInv' /\ SecretInv' /\ NotesInv' /\ SealedSecretsSurvive'
  BY DEF ServiceInv, RunInv, CatalogInv, SecretInv, NotesInv, SealedSecretsSurvive, Persists,
         Succeed, runVars, catalogVars, secretVars
<1> QED
  BY <1>1, <1>2 DEF ServiceInv

-----------------------------------------------------------------------------

(* Every step of the catalog, its secrets and its handlers keeps the       *)
(* invariant.                                                              *)
LEMMA ServiceInvIsInductive == ServiceInv /\ [Next]_vars => ServiceInv'
<1> SUFFICES ASSUME ServiceInv, [Next]_vars PROVE ServiceInv'
  OBVIOUS
<1>1. CASE UNCHANGED vars
  BY <1>1 DEF vars, ServiceInv, RunInv, ReqInv, CatalogInv, SecretInv, NotesInv,
              SealedSecretsSurvive, Persists
<1>2. CASE Stop
  BY <1>2, StopStep
<1>3. ASSUME NEW p \in Password \cup {NoPassword}, Start(p) PROVE ServiceInv'
  BY <1>3, StartStep
<1>4. ASSUME NEW r \in Req, NEW s \in Service,
             \/ DeleteServiceHandler(r, s) \/ TestServiceAuth(r, s)
             \/ \E w, d, c \in BOOLEAN : UpdateService(r, s, w, d, c)
             \/ \E w, d \in BOOLEAN : CreateService(r, s, w, d)
      PROVE  ServiceInv'
  BY <1>4, DeleteStep, TestStep, UpdateStep, CreateStep
<1>5. ASSUME NEW r \in Req, UpsertRead(r) \/ DeleteRead(r) PROVE ServiceInv'
  <2>1. {"upsert", "filter"} \subseteq Steps \ {"idle"} /\ {"save", "saveWithout"} \subseteq Steps
    BY DEF Steps
  <2> QED
    BY <1>5, <2>1, CopyStep DEF UpsertRead, DeleteRead
<1>6. ASSUME NEW r \in Req, UpsertWrite(r) \/ DeleteWrite(r) PROVE ServiceInv'
  BY <1>6, UpsertWriteStep, DeleteWriteStep
<1>7. ASSUME NEW r \in Req, SetServiceSecret(r) \/ DeleteServiceSecret(r) PROVE ServiceInv'
  BY <1>7, SetSecretStep, DeleteSecretStep
<1>8. ASSUME NEW r \in Req,
             \/ DeleteServiceSecretMetadata(r) \/ GetServiceSecretMetadata(r)
             \/ UpdateServiceSecretMetadata(r)
      PROVE  ServiceInv'
  BY <1>8, DeleteNotesStep, ReadNotesStep, WriteNotesStep
<1>9. ASSUME NEW r \in Req, Succeed(r) PROVE ServiceInv'
  BY <1>9, AnswerStep
<1> QED
  BY <1>1, <1>2, <1>3, <1>4, <1>5, <1>6, <1>7, <1>8, <1>9 DEF Next

(* It therefore holds in every behaviour.                                  *)
LEMMA ServiceInvHolds == Spec => []ServiceInv
BY ServiceInitially, ServiceInvIsInductive, PTL DEF Spec

(* Every reachable state of the catalog, the secrets and the notes is well *)
(* typed, whatever the handlers carried from one lock section to the next. *)
THEOREM ServicesTypeCorrect == Spec => []TypeOK
<1>1. ServiceInv => TypeOK
  BY DEF ServiceInv, RunInv, ReqInv, Local, CatalogInv, SecretInv, NotesInv, Debts, TypeOK
<1> QED
  BY <1>1, ServiceInvHolds, PTL

(* The secrets' file, unless a failed write left it cut, holds what the    *)
(* last change of a secret wrote to it or a failed one asked for since,    *)
(* and a run that keeps secrets has them in memory even while the file is  *)
(* cut, under any sequence of starts with and without passwords, failed    *)
(* writes and concurrent requests (ConfigureServiceSecrets,                *)
(* SetServiceSecret, DeleteServiceSecret).                                 *)
THEOREM SecretsFileSurvives == Spec => []SealedSecretsSurvive
<1>1. ServiceInv => SealedSecretsSurvive
  BY DEF ServiceInv
<1> QED
  BY <1>1, ServiceInvHolds, PTL

-----------------------------------------------------------------------------
(* What was told stays true *)

Claim == [known : BOOLEAN, entry : ServiceConfig \cup {Absent}, secret : 0..MaxRevisions,
          fresh : BOOLEAN, noted : BOOLEAN]

(* The request has written its entry to the catalog.                       *)
Written(rec) ==
    \/ /\ rec.op \in {"create", "update"}
       /\ rec.pc \in {"setSecret", "deleteSecret", "deleteNotes", "readNotes", "writeNotes", "ok"}
    \/ rec.op = "delete" /\ rec.pc = "ok"

DeletePlaces == {"deleteSecret", "deleteNotes", "filter", "saveWithout", "ok"}

(* Each handler keeps to its own places, and requests live while the       *)
(* gateway is up.                                                          *)
OpInv ==
    \A r \in Req :
       /\ req[r].op = "test" => req[r].pc \in {"readNotes", "writeNotes", "ok"}
       /\ req[r].op = "delete" =>
             /\ req[r].secret = 0 /\ ~req[r].clear /\ req[r].entry = Absent
             /\ req[r].pc \in DeletePlaces
       /\ req[r].pc = "idle" => req[r] = Idle
       /\ req[r].pc # "idle" => up /\ req[r].op # "none"

(* A request that is alone shares its service with no other,               *)
AloneInv ==
    \A r, o \in Req : r # o /\ req[r].alone /\ req[r].svc \in Service => req[o].svc # req[r].svc

(* and one that is clean holds its copy of the catalog alone.              *)
HolderInv ==
    \A r, o \in Req : r # o /\ req[r].clean /\ req[r].pc \in Holding => req[o].pc \notin Holding

ClaimInv ==
    \A r \in Req : Written(req[r]) /\ req[r].clean /\ req[r].alone =>
       /\ serviceFile # Cut => serviceFile[req[r].svc] = req[r].entry
       /\ serviceData[req[r].svc] = req[r].entry
       /\ \A o \in Req : req[o].pc \in Holding => req[o].copy[req[r].svc] = req[r].entry

SettledInv ==
    /\ settled \in [Service -> Claim]
    /\ \A s \in Service : settled[s].known =>
          /\ serviceFile # Cut => serviceFile[s] = settled[s].entry
          /\ up => serviceData[s] = settled[s].entry
          /\ \A o \in Req : req[o].pc \in Holding => req[o].copy[s] = settled[s].entry
          /\ \A o \in Req : req[o].svc = s => req[o].op = "test"

SecretClaim(rec) ==
    rec.op \in {"create", "update"} /\ rec.alone =>
       /\ rec.pc \in {"readNotes", "writeNotes"} => serviceSecrets[rec.svc] = rec.secret
       /\ rec.pc = "deleteNotes" => serviceSecrets[rec.svc] = 0
       /\ rec.pc = "ok" /\ (rec.secret # 0 \/ rec.clear) =>
             /\ serviceSecrets[rec.svc] = rec.secret
             /\ rec.dated => metaData[rec.svc].rotated = rec.secret

SecretClaimInv == \A r \in Req : SecretClaim(req[r])

FreshInv ==
    \A s \in Service : settled[s].fresh =>
       /\ up /\ settled[s].known
       /\ serviceSecrets[s] = settled[s].secret
       /\ settled[s].noted =>
             /\ metaData[s].rotated = settled[s].secret
             /\ \A o \in Req : req[o].svc = s /\ req[o].pc = "writeNotes"
                                  => req[o].notes.rotated = settled[s].secret

KeptInv ==
    OpInv /\ AloneInv /\ HolderInv /\ ClaimInv /\ SettledInv /\ SecretClaimInv /\ FreshInv

(* What a request looks like that is not there.                            *)
LEMMA IdleFields ==
    /\ Idle.pc = "idle" /\ Idle.op = "none" /\ Idle.svc = NoService /\ Idle.entry = Absent
    /\ Idle.secret = 0 /\ ~Idle.clear
BY DEF Idle

(* At first nobody was told anything.                                      *)
LEMMA KeptInitially == Init => KeptInv
<1> SUFFICES ASSUME Init PROVE KeptInv
  OBVIOUS
<1>1. \A r \in Req : /\ req[r] = Idle /\ req[r].pc = "idle" /\ req[r].op = "none"
                     /\ req[r].svc = NoService
  BY DEF Init, Idle
<1>2. OpInv /\ AloneInv /\ HolderInv /\ ClaimInv /\ SecretClaimInv
  BY <1>1, Constants DEF OpInv, AloneInv, HolderInv, ClaimInv, SecretClaimInv, SecretClaim,
                         Written, Holding
<1>3. Unsettled \in Claim /\ ~Unsettled.known /\ ~Unsettled.fresh
  BY Constants DEF Unsettled, Claim
<1>4. SettledInv /\ FreshInv
  BY <1>3 DEF Init, SettledInv, FreshInv
<1> QED
  BY <1>2, <1>4 DEF KeptInv

(* A step of request r that goes on to place to: besides its place only    *)
(* its copy of the catalog and its notes change.                           *)
Moves(r, to) ==
    /\ \A o \in Req \ {r} : req'[o] = req[o]
    /\ req'[r].pc = to /\ req'[r].op = req[r].op /\ req'[r].svc = req[r].svc
    /\ req'[r].entry = req[r].entry /\ req'[r].secret = req[r].secret
    /\ req'[r].clear = req[r].clear /\ req'[r].clean = req[r].clean
    /\ req'[r].dated = req[r].dated
    /\ req'[r].alone = req[r].alone

(* Other services keep their secrets and notes, and what the copy of the   *)
(* catalog said of them.                                                   *)
Elsewhere(r) ==
    \A s \in Service \ {req[r].svc} :
       /\ serviceSecrets'[s] = serviceSecrets[s] /\ metaData'[s] = metaData[s]
       /\ \/ serviceData'[s] = serviceData[s] /\ serviceFile' = serviceFile
          \/ /\ req[r].pc \in Holding /\ serviceData'[s] = req[r].copy[s]
             /\ \/ serviceFile' \in {serviceFile, Cut}
                \/ serviceFile'[s] = req[r].copy[s]

(* A test of the service changes neither its entry nor its secret, and     *)
(* hands on what the notes say of the last one set.                        *)
Harmless(r) ==
    /\ UNCHANGED <<serviceData, serviceFile, serviceSecrets>>
    /\ \A x : metaData[req[r].svc].rotated = x
              /\ (req[r].pc = "writeNotes" => req[r].notes.rotated = x)
              => /\ metaData'[req[r].svc].rotated = x
                 /\ req'[r].pc = "writeNotes" => req'[r].notes.rotated = x

(* Such a step keeps the invariant if what the request claims of its own   *)
(* service afterwards is true.                                             *)
LEMMA OwnStep ==
    ASSUME ServiceInv, KeptInv, NEW r \in Req, req[r].pc # "idle",
           NEW to \in Steps \ {"idle", "save", "saveWithout"}, Moves(r, to), Elsewhere(r),
           UNCHANGED <<up, settled>>,
           req[r].op = "test" => Harmless(r) /\ to \in {"writeNotes", "ok"},
           req[r].op = "delete" => to \in DeletePlaces,
           Written(req'[r]) /\ req[r].clean /\ req[r].alone =>
              /\ (serviceFile' # Cut => serviceFile'[req[r].svc] = req[r].entry)
              /\ serviceData'[req[r].svc] = req[r].entry
              /\ \A o \in Req \ {r} : req[o].pc \in Holding
                                         => req[o].copy[req[r].svc] = req[r].entry,
           SecretClaim(req[r])'
    PROVE  KeptInv'
<1>1. \A o \in Req : /\ o # r => req'[o] = req[o]
                     /\ req'[o].pc \in Holding => req[o].pc \in Holding /\ o # r
                     /\ req'[o].svc = req[o].svc /\ req'[o].op = req[o].op
                     /\ req'[o].alone = req[o].alone /\ req'[o].clean = req[o].clean
  BY DEF Moves, Holding
<1>2. req[r].svc \in Service /\ \A o \in Req : req[o].pc # "idle" => req[o].svc \in Service
  BY DEF ServiceInv, ReqInv
<1>3. OpInv'
  BY <1>1 DEF KeptInv, OpInv, Moves
<1>4. AloneInv' /\ HolderInv'
  BY <1>1 DEF KeptInv, AloneInv, HolderInv
<1>5. ASSUME NEW q \in Req, q # r, req[q].alone, req[q].pc # "idle"
      PROVE  req[q].svc \in Service \ {req[r].svc} /\ req'[q] = req[q]
  BY <1>1, <1>2, <1>5 DEF KeptInv, AloneInv
<1>6. ClaimInv'
  <2> SUFFICES ASSUME NEW q \in Req, Written(req'[q]), req'[q].clean, req'[q].alone
               PROVE  /\ (serviceFile' # Cut => serviceFile'[req'[q].svc] = req'[q].entry)
                      /\ serviceData'[req'[q].svc] = req'[q].entry
                      /\ \A o \in Req : req'[o].pc \in Holding
                                         => req'[o].copy[req'[q].svc] = req'[q].entry
    BY DEF ClaimInv
  <2>1. CASE q = r
    BY <1>1, <2>1 DEF Moves
  <2>2. CASE q # r
    <3>1. req'[q] = req[q] /\ Written(req[q]) /\ req[q].pc # "idle"
      BY <1>1, <2>2 DEF Written
    <3>2. req[q].svc \in Service \ {req[r].svc}
      BY <1>1, <1>5, <2>2, <3>1
    <3>3. /\ (serviceFile # Cut => serviceFile[req[q].svc] = req[q].entry)
        /\ serviceData[req[q].svc] = req[q].entry
          /\ \A o \in Req : req[o].pc \in Holding => req[o].copy[req[q].svc] = req[q].entry
      BY <1>1, <3>1 DEF KeptInv, ClaimInv
    <3> QED
      BY <1>1, <3>1, <3>2, <3>3 DEF Elsewhere
  <2> QED
    BY <2>1, <2>2
<1>7. SettledInv'
  <2>1. settled' \in [Service -> Claim]
    BY DEF KeptInv, SettledInv
  <2>2. ASSUME NEW s \in Service, settled'[s].known
        PROVE  /\ (serviceFile' # Cut => serviceFile'[s] = settled'[s].entry)
               /\ (up' => serviceData'[s] = settled'[s].entry)
               /\ \A o \in Req : req'[o].pc \in Holding => req'[o].copy[s] = settled'[s].entry
               /\ \A o \in Req : req'[o].svc = s => req'[o].op = "test"
    <3>1. /\ (serviceFile # Cut => serviceFile[s] = settled[s].entry)
          /\ (up => serviceData[s] = settled[s].entry)
          /\ \A o \in Req : req[o].pc \in Holding => req[o].copy[s] = settled[s].entry
          /\ \A o \in Req : req[o].svc = s => req[o].op = "test"
      BY <2>2 DEF KeptInv, SettledInv
    <3>2. CASE s = req[r].svc
      BY <1>1, <3>1, <3>2 DEF Harmless
    <3>3. CASE s # req[r].svc
      BY <1>1, <3>1, <3>3 DEF Elsewhere
    <3> QED
      BY <3>2, <3>3
  <2> QED
    BY <2>1, <2>2 DEF SettledInv
<1>8. SecretClaimInv'
  <2> SUFFICES ASSUME NEW q \in Req, q # r PROVE SecretClaim(req[q])'
    BY DEF SecretClaimInv
  <2>1. req'[q] = req[q] /\ SecretClaim(req[q])
    BY <1>1 DEF KeptInv, SecretClaimInv
  <2>2. CASE req[q].alone /\ req[q].pc # "idle"
    <3>1. /\ serviceSecrets'[req[q].svc] = serviceSecrets[req[q].svc]
          /\ metaData'[req[q].svc] = metaData[req[q].svc]
      BY <1>5, <2>2 DEF Elsewhere
    <3> QED
      BY <2>1, <3>1 DEF SecretClaim
  <2>3. CASE ~(req[q].alone /\ req[q].pc # "idle")
    BY <2>1, <2>3 DEF SecretClaim
  <2> QED
    BY <2>2, <2>3
<1>9. FreshInv'
  <2> SUFFICES ASSUME NEW s \in Service, settled'[s].fresh
               PROVE  /\ up' /\ settled'[s].known
                      /\ serviceSecrets'[s] = settled'[s].secret
                      /\ settled'[s].noted =>
                            /\ metaData'[s].rotated = settled'[s].secret
                            /\ \A o \in Req : req'[o].svc = s /\ req'[o].pc = "writeNotes"
                                  => req'[o].notes.rotated = settled'[s].secret
    BY DEF FreshInv
  <2>1. /\ up /\ settled[s].known
        /\ serviceSecrets[s] = settled[s].secret
        /\ settled[s].noted =>
              /\ metaData[s].rotated = settled[s].secret
              /\ \A o \in Req : req[o].svc = s /\ req[o].pc = "writeNotes"
                    => req[o].notes.rotated = settled[s].secret
    BY DEF KeptInv, FreshInv
  <2>2. CASE s = req[r].svc
    <3>1. req[r].op = "test"
      BY <2>1, <2>2 DEF KeptInv, SettledInv
    <3>2. /\ serviceSecrets' = serviceSecrets
          /\ settled[s].noted =>
                /\ metaData'[s].rotated = settled[s].secret
                /\ req'[r].pc = "writeNotes" => req'[r].notes.rotated = settled[s].secret
      BY <2>1, <2>2, <3>1 DEF Harmless
    <3> QED
      BY <1>1, <2>1, <2>2, <3>2
  <2>3. CASE s # req[r].svc
    BY <1>1, <2>1, <2>3 DEF Elsewhere, Moves
  <2> QED
    BY <2>2, <2>3
<1> QED
  BY <1>3, <1>4, <1>6, <1>7, <1>8, <1>9 DEF KeptInv

(* A request that is answered is gone; it undoes nothing of what is        *)
(* claimed of other services.                                              *)
LEMMA GoneKeeps ==
    ASSUME ServiceInv, KeptInv, NEW r \in Req, req[r].pc # "idle",
           req' = [req EXCEPT ![r] = Idle], Elsewhere(r), UNCHANGED up
    PROVE  OpInv' /\ AloneInv' /\ HolderInv' /\ ClaimInv' /\ SecretClaimInv'
<1>1. /\ req \in [Req -> Local] /\ req[r].svc \in Service
      /\ \A o \in Req : req[o].pc # "idle" => req[o].svc \in Service
  BY DEF ServiceInv, ReqInv
<1>2. req'[r] = Idle /\ \A o \in Req : o # r => req'[o] = req[o]
  BY <1>1
<1>3. /\ req'[r].pc = "idle" /\ req'[r].op = "none" /\ req'[r].svc = NoService
      /\ req'[r].pc \notin Holding /\ ~Written(req'[r])
  BY <1>2, IdleFields DEF Holding, Written
<1>4. OpInv'
  BY <1>2, <1>3 DEF KeptInv, OpInv
<1>5. AloneInv'
  BY <1>2, <1>3, Constants DEF KeptInv, AloneInv
<1>6. HolderInv'
  BY <1>2, <1>3 DEF KeptInv, HolderInv
<1>7. ASSUME NEW q \in Req, q # r, req[q].alone, req[q].pc # "idle"
      PROVE  req[q].svc \in Service \ {req[r].svc}
  BY <1>1, <1>7 DEF KeptInv, AloneInv
<1>8. ClaimInv'
  <2> SUFFICES ASSUME NEW q \in Req, Written(req'[q]), req'[q].clean, req'[q].alone
               PROVE  /\ (serviceFile' # Cut => serviceFile'[req'[q].svc] = req'[q].entry)
                      /\ serviceData'[req'[q].svc] = req'[q].entry
                      /\ \A o \in Req : req'[o].pc \in Holding
                                         => req'[o].copy[req'[q].svc] = req'[q].entry
    BY DEF ClaimInv
  <2>1. q # r
    BY <1>3
  <2>2. req'[q] = req[q] /\ req[q].pc # "idle"
    BY <1>2, <2>1 DEF Written
  <2>3. /\ (serviceFile # Cut => serviceFile[req[q].svc] = req[q].entry)
        /\ serviceData[req[q].svc] = req[q].entry
        /\ \A o \in Req : req[o].pc \in Holding => req[o].copy[req[q].svc] = req[q].entry
    BY <2>2 DEF KeptInv, ClaimInv
  <2>4. req[q].svc \in Service \ {req[r].svc}
    BY <1>7, <2>1, <2>2
  <2> QED
    BY <1>2, <1>3, <2>2, <2>3, <2>4 DEF Elsewhere
<1>9. SecretClaimInv'
  <2> SUFFICES ASSUME NEW q \in Req PROVE SecretClaim(req[q])'
    BY DEF SecretClaimInv
  <2>1. CASE q = r
    BY <1>3, <2>1 DEF SecretClaim
  <2>2. CASE q # r
    <3>1. req'[q] = req[q] /\ SecretClaim(req[q])
      BY <1>2, <2>2 DEF KeptInv, SecretClaimInv
    <3>2. req[q].alone /\ req[q].pc # "idle" =>
             /\ serviceSecrets'[req[q].svc] = serviceSecrets[req[q].svc]
             /\ metaData'[req[q].svc] = metaData[req[q].svc]
      BY <1>7, <2>2 DEF Elsewhere
    <3> QED
      BY <3>1, <3>2 DEF SecretClaim
  <2> QED
    BY <2>1, <2>2
<1> QED
  BY <1>4, <1>5, <1>6, <1>8, <1>9

(* A handler that answers with an error was about a service nobody is      *)
(* promised anything of.                                                   *)
LEMMA FailKeeps ==
    ASSUME ServiceInv, KeptInv, NEW r \in Req, req[r].pc # "idle", req[r].op # "test",
           Goto(r, "idle"), Elsewhere(r), UNCHANGED <<up, settled>>
    PROVE  KeptInv'
<1>1. req \in [Req -> Local] /\ req[r].svc \in Service /\ req' = [req EXCEPT ![r] = Idle]
  BY DEF ServiceInv, ReqInv, Goto
<1>2. req'[r] = Idle /\ \A o \in Req : o # r => req'[o] = req[o]
  BY <1>1
<1>3. req'[r].pc \notin Holding /\ req'[r].svc = NoService
  BY <1>2, IdleFields DEF Holding
<1>4. \A s \in Service : settled[s].known => s # req[r].svc
  BY DEF KeptInv, SettledInv
<1>5. SettledInv'
  <2>1. settled' \in [Service -> Claim]
    BY DEF KeptInv, SettledInv
  <2>2. ASSUME NEW s \in Service, settled'[s].known
        PROVE  /\ (serviceFile' # Cut => serviceFile'[s] = settled'[s].entry)
               /\ (up' => serviceData'[s] = settled'[s].entry)
               /\ \A o \in Req : req'[o].pc \in Holding => req'[o].copy[s] = settled'[s].entry
               /\ \A o \in Req : req'[o].svc = s => req'[o].op = "test"
    <3>1. /\ (serviceFile # Cut => serviceFile[s] = settled[s].entry)
          /\ (up => serviceData[s] = settled[s].entry)
          /\ \A o \in Req : req[o].pc \in Holding => req[o].copy[s] = settled[s].entry
          /\ \A o \in Req : req[o].svc = s => req[o].op = "test"
      BY <2>2 DEF KeptInv, SettledInv
    <3>2. s \in Service \ {req[r].svc}
      BY <1>4, <2>2
    <3> QED
      BY <1>2, <1>3, <3>1, <3>2, Constants DEF Elsewhere
  <2> QED
    BY <2>1, <2>2 DEF SettledInv
<1>6. FreshInv'
  <2> SUFFICES ASSUME NEW s \in Service, settled'[s].fresh
               PROVE  /\ up' /\ settled'[s].known
                      /\ serviceSecrets'[s] = settled'[s].secret
                      /\ settled'[s].noted =>
                            /\ metaData'[s].rotated = settled'[s].secret
                            /\ \A o \in Req : req'[o].svc = s /\ req'[o].pc = "writeNotes"
                                  => req'[o].notes.rotated = settled'[s].secret
    BY DEF FreshInv
  <2>1. /\ up /\ settled[s].known
        /\ serviceSecrets[s] = settled[s].secret
        /\ settled[s].noted =>
              /\ metaData[s].rotated = settled[s].secret
              /\ \A o \in Req : req[o].svc = s /\ req[o].pc = "writeNotes"
                    => req[o].notes.rotated = settled[s].secret
    BY DEF KeptInv, FreshInv
  <2>2. s \in Service \ {req[r].svc}
    BY <1>4, <2>1
  <2> QED
    BY <1>2, <1>3, <2>1, <2>2, Constants DEF Elsewhere
<1> QED
  BY <1>1, <1>5, <1>6, GoneKeeps DEF KeptInv

(* The steps that go on with one assignment of pc are of this kind.        *)
LEMMA GotoMoves ==
    ASSUME ServiceInv, NEW r \in Req, NEW to \in Steps \ {"idle"}, Goto(r, to)
    PROVE  Moves(r, to)
<1>1. req \in [Req -> Local]
  BY DEF ServiceInv, ReqInv
<1> QED
  BY <1>1 DEF Goto, Moves, Local

(* UpsertService writes its copy with the request's own entry: a clean     *)
(* request is the only one that holds a copy,                              *)
LEMMA UpsertWriteKeeps ==
    ASSUME ServiceInv, KeptInv, NEW r \in Req, UpsertWrite(r)
    PROVE  KeptInv'
<1> DEFINE then == IF req[r].clear THEN "deleteSecret"
                   ELSE IF req[r].secret # 0 THEN "setSecret" ELSE "ok"
           catalog == [req[r].copy EXCEPT ![req[r].svc] = req[r].entry]
<1>1. /\ req[r].pc = "save" /\ req[r].op # "test" /\ req[r].op # "delete"
      /\ req[r].svc \in Service /\ req[r].copy \in Catalog
  BY DEF UpsertWrite, At, KeptInv, OpInv, DeletePlaces, ServiceInv, ReqInv, Local
<1>2. PICK to \in {then, "idle"} :
         /\ Goto(r, to) /\ serviceData' = catalog
         /\ serviceFile' \in {serviceFile, Cut, catalog}
         /\ to # "idle" => serviceFile' = catalog
  BY DEF UpsertWrite, SaveServices
<1>3. UNCHANGED <<up, settled, serviceSecrets, metaData>>
  BY DEF UpsertWrite, SaveServices, runVars, secretVars
<1>4. to \in {"setSecret", "deleteSecret", "ok", "idle"}
  BY <1>2
<1>5. catalog[req[r].svc] = req[r].entry
      /\ \A s \in Service \ {req[r].svc} : catalog[s] = req[r].copy[s]
  BY <1>1 DEF Catalog
<1> HIDE DEF catalog
<1>6. Elsewhere(r)
  BY <1>1, <1>2, <1>3, <1>5 DEF Elsewhere, Holding
<1> SUFFICES ASSUME to # "idle" PROVE KeptInv'
  BY <1>1, <1>2, <1>3, <1>6, FailKeeps
<1>7. to \in Steps \ {"idle", "save", "saveWithout"} /\ Moves(r, to)
  BY <1>2, <1>4, GotoMoves DEF Steps
<1>8. Written(req'[r]) /\ req[r].clean /\ req[r].alone =>
         /\ (serviceFile' # Cut => serviceFile'[req[r].svc] = req[r].entry)
              /\ serviceData'[req[r].svc] = req[r].entry
         /\ \A o \in Req \ {r} : req[o].pc \in Holding
                                    => req[o].copy[req[r].svc] = req[r].entry
  <2>1. req[r].clean => \A o \in Req \ {r} : req[o].pc \notin Holding
    BY <1>1 DEF KeptInv, HolderInv, Holding
  <2> QED
    BY <1>2, <1>5, <2>1
<1>9. SecretClaim(req[r])'
  <2>1. to = "ok" => req[r].secret = 0 /\ ~req[r].clear
    BY <1>2
  <2> QED
    BY <1>4, <1>7, <2>1 DEF SecretClaim, Moves
<1> QED
  BY <1>1, <1>3, <1>6, <1>7, <1>8, <1>9, OwnStep

(* and so does DeleteService without it.                                   *)
LEMMA DeleteWriteKeeps ==
    ASSUME ServiceInv, KeptInv, NEW r \in Req, DeleteWrite(r)
    PROVE  KeptInv'
<1> DEFINE then == IF req[r].op = "delete" THEN "ok" ELSE "idle"
           catalog == [req[r].copy EXCEPT ![req[r].svc] = Absent]
<1>1. /\ req[r].pc = "saveWithout" /\ req[r].op # "test"
      /\ req[r].svc \in Service /\ req[r].copy \in Catalog
      /\ req[r].op = "delete" => req[r].entry = Absent
  BY DEF DeleteWrite, At, KeptInv, OpInv, ServiceInv, ReqInv, Local
<1>2. UNCHANGED <<up, settled, serviceSecrets, metaData>>
  BY DEF DeleteWrite, SaveServices, runVars, secretVars
<1>3. PICK to \in {then, "idle"} :
         /\ Goto(r, to)
         /\ \/ to = "idle" /\ serviceData' = serviceData /\ serviceFile' = serviceFile
            \/ /\ serviceData' = catalog /\ serviceFile' \in {serviceFile, Cut, catalog}
               /\ to # "idle" => serviceFile' = catalog
  BY DEF DeleteWrite, SaveServices, catalogVars
<1>4. to \in {"ok", "idle"} /\ (to = "ok" => req[r].op = "delete")
  BY <1>3
<1>5. catalog[req[r].svc] = Absent
      /\ \A s \in Service \ {req[r].svc} : catalog[s] = req[r].copy[s]
  BY <1>1 DEF Catalog
<1> HIDE DEF catalog
<1>6. Elsewhere(r)
  BY <1>1, <1>2, <1>3, <1>5 DEF Elsewhere, Holding
<1> SUFFICES ASSUME to # "idle" PROVE KeptInv'
  BY <1>1, <1>2, <1>3, <1>6, FailKeeps
<1>7. to \in Steps \ {"idle", "save", "saveWithout"} /\ Moves(r, to)
  BY <1>3, <1>4, GotoMoves DEF Steps
<1>8. Written(req'[r]) /\ req[r].clean /\ req[r].alone =>
         /\ (serviceFile' # Cut => serviceFile'[req[r].svc] = req[r].entry)
              /\ serviceData'[req[r].svc] = req[r].entry
         /\ \A o \in Req \ {r} : req[o].pc \in Holding
                                    => req[o].copy[req[r].svc] = req[r].entry
  <2>1. req[r].clean => \A o \in Req \ {r} : req[o].pc \notin Holding
    BY <1>1 DEF KeptInv, HolderInv, Holding
  <2> QED
    BY <1>1, <1>3, <1>4, <1>5, <2>1
<1>9. SecretClaim(req[r])'
  BY <1>4, <1>7 DEF SecretClaim, Moves
<1>10. req[r].op = "delete" => to \in DeletePlaces
  BY <1>4 DEF DeletePlaces
<1> QED
  BY <1>1, <1>2, <1>6, <1>7, <1>8, <1>9, <1>10, OwnStep

(* Once the catalog is written, the request's later steps leave it alone.  *)
LEMMA LaterStep ==
    ASSUME ServiceInv, KeptInv, NEW r \in Req, req[r].pc # "idle",
           NEW to \in Steps \ {"idle", "save", "saveWithout"}, Moves(r, to),
           UNCHANGED <<up, settled, serviceData, serviceFile>>,
           \A s \in Service \ {req[r].svc} :
              serviceSecrets'[s] = serviceSecrets[s] /\ metaData'[s] = metaData[s],
           req[r].op = "test" => Harmless(r) /\ to \in {"writeNotes", "ok"},
           req[r].op = "delete" => to \in DeletePlaces \ {"ok"},
           req[r].op \in {"delete", "test"} \/ Written(req[r]) \/ to = "filter",
           SecretClaim(req[r])'
    PROVE  KeptInv'
<1>1. Elsewhere(r)
  BY DEF Elsewhere
<1>2. req'[r].pc = to /\ req'[r].op = req[r].op
  BY DEF Moves
<1>3. Written(req'[r]) => Written(req[r])
  BY <1>2 DEF Written
<1>4. Written(req[r]) /\ req[r].clean /\ req[r].alone =>
         /\ (serviceFile # Cut => serviceFile[req[r].svc] = req[r].entry)
         /\ serviceData[req[r].svc] = req[r].entry
         /\ \A o \in Req : req[o].pc \in Holding => req[o].copy[req[r].svc] = req[r].entry
  BY DEF KeptInv, ClaimInv
<1>5. Written(req'[r]) /\ req[r].clean /\ req[r].alone =>
         /\ (serviceFile' # Cut => serviceFile'[req[r].svc] = req[r].entry)
              /\ serviceData'[req[r].svc] = req[r].entry
         /\ \A o \in Req \ {r} : req[o].pc \in Holding
                                    => req[o].copy[req[r].svc] = req[r].entry
  BY <1>3, <1>4
<1>6. req[r].op = "delete" => to \in DeletePlaces
  OBVIOUS
<1> QED
  BY <1>1, <1>5, <1>6, OwnStep

(* SetServiceSecret and DeleteServiceSecret change the secret of one       *)
(* service,                                                                *)
LEMMA SetSecretKeeps ==
    ASSUME ServiceInv, KeptInv, NEW r \in Req, SetServiceSecret(r)
    PROVE  KeptInv'
<1> DEFINE otherwise == IF req[r].op = "create" THEN "filter" ELSE "idle"
           then == IF req[r].dated THEN "readNotes" ELSE "ok"
<1>1. /\ req[r].pc = "setSecret" /\ req[r].op \in {"create", "update"}
      /\ req[r].svc \in Service /\ serviceSecrets \in Secrets
  BY DEF SetServiceSecret, At, KeptInv, OpInv, DeletePlaces, ServiceInv, ReqInv, Local, SecretInv
<1>2. PICK to \in {then, otherwise} :
         /\ Goto(r, to)
         /\ to = then => serviceSecrets' = [serviceSecrets EXCEPT ![req[r].svc] = req[r].secret]
         /\ serviceSecrets' \in {serviceSecrets,
                                 [serviceSecrets EXCEPT ![req[r].svc] = req[r].secret]}
  BY DEF SetServiceSecret, ChangeSecret
<1>3. UNCHANGED <<up, settled, serviceData, serviceFile, metaData>>
  BY DEF SetServiceSecret, runVars, catalogVars
<1>4. /\ to \in {"readNotes", "ok", "filter", "idle"}
      /\ to \in {"readNotes", "ok"} => to = then
      /\ to = "ok" => ~req[r].dated
  BY <1>2
<1>5. \A s \in Service \ {req[r].svc} : serviceSecrets'[s] = serviceSecrets[s]
  BY <1>1, <1>2 DEF Secrets
<1> SUFFICES ASSUME to # "idle" PROVE KeptInv'
  <2>1. Elsewhere(r)
    BY <1>3, <1>5 DEF Elsewhere
  <2> QED
    BY <1>1, <1>2, <1>3, <2>1, FailKeeps
<1>6. to \in Steps \ {"idle", "save", "saveWithout"} /\ Moves(r, to)
  BY <1>2, <1>4, GotoMoves DEF Steps
<1>7. to \in {"readNotes", "ok"} => serviceSecrets'[req[r].svc] = req[r].secret
  BY <1>1, <1>2, <1>4 DEF Secrets
<1>8. SecretClaim(req[r])'
  BY <1>4, <1>6, <1>7 DEF SecretClaim, Moves
<1>9. Written(req[r])
  BY <1>1 DEF Written
<1> QED
  BY <1>1, <1>3, <1>5, <1>6, <1>8, <1>9, LaterStep

LEMMA DeleteSecretKeeps ==
    ASSUME ServiceInv, KeptInv, NEW r \in Req, DeleteServiceSecret(r)
    PROVE  KeptInv'
<1>1. /\ req[r].pc = "deleteSecret" /\ req[r].op \in {"create", "update", "delete"}
      /\ req[r].svc \in Service /\ serviceSecrets \in Secrets
  BY DEF DeleteServiceSecret, At, KeptInv, OpInv, ServiceInv, ReqInv, Local, SecretInv
<1>2. PICK to \in {"deleteNotes", "idle"} :
         /\ Goto(r, to)
         /\ to = "deleteNotes" => serviceSecrets' = [serviceSecrets EXCEPT ![req[r].svc] = 0]
         /\ serviceSecrets' \in {serviceSecrets, [serviceSecrets EXCEPT ![req[r].svc] = 0]}
  BY DEF DeleteServiceSecret, ChangeSecret
<1>3. UNCHANGED <<up, settled, serviceData, serviceFile, metaData>>
  BY DEF DeleteServiceSecret, runVars, catalogVars
<1>4. \A s \in Service \ {req[r].svc} : serviceSecrets'[s] = serviceSecrets[s]
  BY <1>1, <1>2 DEF Secrets
<1> SUFFICES ASSUME to # "idle" PROVE KeptInv'
  <2>1. Elsewhere(r)
    BY <1>3, <1>4 DEF Elsewhere
  <2> QED
    BY <1>1, <1>2, <1>3, <2>1, FailKeeps
<1>5. to \in Steps \ {"idle", "save", "saveWithout"} /\ Moves(r, to)
  BY <1>2, GotoMoves DEF Steps
<1>6. to = "deleteNotes" => serviceSecrets'[req[r].svc] = 0
  BY <1>1, <1>2, Constants DEF Secrets
<1>7. SecretClaim(req[r])'
  BY <1>2, <1>5, <1>6 DEF SecretClaim, Moves
<1>8. Written(req[r]) \/ req[r].op = "delete"
  BY <1>1 DEF Written
<1>9. req[r].op = "delete" => to \in DeletePlaces \ {"ok"}
  BY <1>2 DEF DeletePlaces
<1> QED
  BY <1>1, <1>3, <1>4, <1>5, <1>7, <1>8, <1>9, LaterStep

(* and the notes on it are cleared with it,                                *)
LEMMA DeleteNotesKeeps ==
    ASSUME ServiceInv, KeptInv, NEW r \in Req, DeleteServiceSecretMetadata(r)
    PROVE  KeptInv'
<1> DEFINE to == IF req[r].op = "delete" THEN "filter"
                 ELSE IF req[r].secret # 0 THEN "setSecret" ELSE "ok"
<1>1. /\ req[r].pc = "deleteNotes" /\ req[r].op \in {"create", "update", "delete"}
      /\ req[r].svc \in Service /\ metaData \in [Service -> ServiceSecretMetadata]
  BY DEF DeleteServiceSecretMetadata, At, KeptInv, OpInv, ServiceInv, ReqInv, Local, NotesInv
<1>2. UNCHANGED <<up, settled, serviceData, serviceFile, serviceSecrets>> /\ Goto(r, to)
  BY DEF DeleteServiceSecretMetadata, runVars, catalogVars, secretVars
<1>3. /\ to \in {"filter", "setSecret", "ok"} /\ (to = "ok" => req[r].secret = 0)
      /\ req[r].op = "delete" => to = "filter"
  BY <1>1
<1> HIDE DEF to
<1>4. to \in Steps \ {"idle", "save", "saveWithout"} /\ Moves(r, to)
  BY <1>2, <1>3, GotoMoves DEF Steps
<1>5. /\ metaData'[req[r].svc].rotated = 0
      /\ \A s \in Service \ {req[r].svc} : metaData'[s] = metaData[s]
  BY <1>1 DEF DeleteServiceSecretMetadata, NoNotes
<1>6. SecretClaim(req[r])'
  <2>1. SecretClaim(req[r])
    BY DEF KeptInv, SecretClaimInv
  <2> QED
    BY <1>1, <1>2, <1>3, <1>4, <1>5, <2>1 DEF SecretClaim, Moves
<1>7. Written(req[r]) \/ req[r].op = "delete"
  BY <1>1 DEF Written
<1>8. req[r].op = "delete" => to \in DeletePlaces \ {"ok"}
  BY <1>3 DEF DeletePlaces
<1> QED
  BY <1>1, <1>2, <1>4, <1>5, <1>6, <1>7, <1>8, LaterStep

(* read                                                                    *)
LEMMA ReadNotesKeeps ==
    ASSUME ServiceInv, KeptInv, NEW r \in Req, GetServiceSecretMetadata(r)
    PROVE  KeptInv'
<1>1. /\ req[r].pc = "readNotes" /\ req[r].op \in {"create", "update", "test"}
      /\ req[r].svc \in Service /\ req \in [Req -> Local]
  BY DEF GetServiceSecretMetadata, At, KeptInv, OpInv, DeletePlaces, ServiceInv, ReqInv, Local
<1>2. /\ UNCHANGED <<up, settled, serviceData, serviceFile, serviceSecrets, metaData>>
      /\ req' = [req EXCEPT ![r].notes = metaData[req[r].svc], ![r].pc = "writeNotes"]
  BY DEF GetServiceSecretMetadata, runVars, catalogVars, secretVars
<1>3. Moves(r, "writeNotes") /\ req'[r].notes = metaData[req[r].svc]
  BY <1>1, <1>2 DEF Moves, Local
<1>4. "writeNotes" \in Steps \ {"idle", "save", "saveWithout"}
  BY DEF Steps
<1>5. Harmless(r)
  BY <1>2, <1>3 DEF Harmless
<1>6. SecretClaim(req[r])'
  <2>1. SecretClaim(req[r])
    BY DEF KeptInv, SecretClaimInv
  <2> QED
    BY <1>1, <1>2, <1>3, <2>1 DEF SecretClaim, Moves
<1>7. Written(req[r]) \/ req[r].op = "test"
  BY <1>1 DEF Written
<1> QED
  BY <1>1, <1>2, <1>3, <1>4, <1>5, <1>6, <1>7, LaterStep

(* and written back whole.                                                 *)
LEMMA WriteNotesKeeps ==
    ASSUME ServiceInv, KeptInv, NEW r \in Req, UpdateServiceSecretMetadata(r)
    PROVE  KeptInv'
<1>1. /\ req[r].pc = "writeNotes" /\ req[r].op \in {"create", "update", "test"}
      /\ req[r].svc \in Service /\ metaData \in [Service -> ServiceSecretMetadata]
      /\ req[r].notes \in ServiceSecretMetadata
  BY DEF UpdateServiceSecretMetadata, At, KeptInv, OpInv, DeletePlaces, ServiceInv, ReqInv,
         Local, NotesInv
<1>2. /\ UNCHANGED <<up, settled, serviceData, serviceFile, serviceSecrets>> /\ Goto(r, "ok")
  BY DEF UpdateServiceSecretMetadata, runVars, catalogVars, secretVars
<1>3. "ok" \in Steps \ {"idle", "save", "saveWithout"} /\ Moves(r, "ok")
  BY <1>2, GotoMoves DEF Steps
<1>4. \A s \in Service \ {req[r].svc} : metaData'[s] = metaData[s]
  BY <1>1 DEF UpdateServiceSecretMetadata
<1>5. metaData'[req[r].svc].rotated = IF req[r].op = "test" THEN req[r].notes.rotated
                                      ELSE req[r].secret
  BY <1>1 DEF UpdateServiceSecretMetadata, ServiceSecretMetadata
<1>6. req[r].op = "test" => Harmless(r)
  BY <1>1, <1>2, <1>3, <1>5 DEF Harmless, Moves
<1>7. SecretClaim(req[r])'
  <2>1. SecretClaim(req[r])
    BY DEF KeptInv, SecretClaimInv
  <2> QED
    BY <1>1, <1>2, <1>3, <1>5, <2>1 DEF SecretClaim, Moves
<1>8. Written(req[r]) \/ req[r].op = "test"
  BY <1>1 DEF Written
<1> QED
  BY <1>1, <1>2, <1>3, <1>4, <1>6, <1>7, <1>8, LaterStep

-----------------------------------------------------------------------------

(* How each handler begins.                                                *)
Opening(rec) ==
    /\ \/ rec.op \in {"create", "update"} /\ rec.pc = "upsert"
       \/ rec.op = "test" /\ rec.pc = "readNotes"
       \/ /\ rec.op = "delete" /\ rec.pc \in {"deleteSecret", "filter"}
          /\ rec.secret = 0 /\ ~rec.clear /\ rec.entry = Absent

(* A request that begins takes from the others for the same service that   *)
(* they are alone, and unsettles the service unless it only tests it.      *)
LEMMA BeginKeepsClaims ==
    ASSUME ServiceInv, KeptInv, NEW r \in Req, NEW s \in Service, NEW rec \in Local,
           Opening(rec), Begin(r, s, rec)
    PROVE  KeptInv'
<1> DEFINE same == {o \in Req : req[o].svc = s}
<1>1. req \in [Req -> Local] /\ (\A q \in Req : req[q].pc # "idle" => req[q].svc \in Service)
  BY DEF ServiceInv, ReqInv
<1>2. /\ up /\ UNCHANGED <<up, serviceData, serviceFile, serviceSecrets, metaData>>
      /\ req[r].pc = "idle"
  BY DEF Begin, At, runVars, catalogVars, secretVars
<1>3. req' = [o \in Req |->
                IF o = r THEN [rec EXCEPT !.svc = s, !.alone = (same = {})]
                ELSE IF o \in same THEN [req[o] EXCEPT !.alone = FALSE] ELSE req[o]]
  BY DEF Begin
<1>4. /\ req'[r].pc = rec.pc /\ req'[r].op = rec.op /\ req'[r].secret = rec.secret
      /\ req'[r].clear = rec.clear /\ req'[r].entry = rec.entry /\ req'[r].svc = s
      /\ req'[r].alone = (same = {})
  BY <1>3 DEF Local
<1>5. /\ rec.pc \notin Holding /\ rec.pc # "idle" /\ rec.pc # "writeNotes" /\ rec.op # "none"
      /\ ~Written(req'[r]) /\ (rec.op = "test" => rec.pc = "readNotes")
      /\ rec.op = "delete" => /\ rec.secret = 0 /\ ~rec.clear /\ rec.entry = Absent
                               /\ rec.pc \in DeletePlaces
  BY <1>4 DEF Opening, Holding, Written, DeletePlaces
<1>6. ASSUME NEW o \in Req, o # r
      PROVE  /\ req'[o].pc = req[o].pc /\ req'[o].op = req[o].op /\ req'[o].svc = req[o].svc
             /\ req'[o].secret = req[o].secret /\ req'[o].clear = req[o].clear
             /\ req'[o].entry = req[o].entry /\ req'[o].copy = req[o].copy
             /\ req'[o].notes = req[o].notes /\ req'[o].clean = req[o].clean
             /\ req[o].svc = s => ~req'[o].alone
             /\ req[o].svc # s => req'[o] = req[o]
  BY <1>1, <1>3, <1>6 DEF Local
<1>7. same = {} => \A o \in Req : req[o].svc # s
  OBVIOUS
<1> HIDE DEF same
<1>8. OpInv'
  <2> SUFFICES ASSUME NEW q \in Req
               PROVE  /\ req'[q].op = "test" => req'[q].pc \in {"readNotes", "writeNotes", "ok"}
                      /\ req'[q].op = "delete" =>
                            /\ req'[q].secret = 0 /\ ~req'[q].clear /\ req'[q].entry = Absent
                            /\ req'[q].pc \in DeletePlaces
                      /\ req'[q].pc = "idle" => req'[q] = Idle
                      /\ req'[q].pc # "idle" => up' /\ req'[q].op # "none"
    BY DEF OpInv
  <2>1. CASE q = r
    BY <1>2, <1>4, <1>5, <2>1
  <2>2. CASE q # r
    <3>1. req[q].pc = "idle" => req[q] = Idle /\ req[q].svc = NoService
      BY IdleFields DEF KeptInv, OpInv
    <3>2. req'[q].pc = "idle" => req'[q] = Idle
      BY <1>6, <2>2, <3>1, Constants
    <3> QED
      BY <1>2, <1>6, <2>2, <3>2 DEF KeptInv, OpInv
  <2> QED
    BY <2>1, <2>2
<1>9. AloneInv'
  <2> SUFFICES ASSUME NEW q \in Req, NEW o \in Req, q # o, req'[q].alone, req'[q].svc \in Service
               PROVE  req'[o].svc # req'[q].svc
    BY DEF AloneInv
  <2>1. CASE q = r
    BY <1>4, <1>6, <1>7, <2>1
  <2>2. CASE q # r
    <3>1. req[q].svc # s /\ req'[q] = req[q]
      BY <1>6, <2>2
    <3>2. CASE o = r
      BY <1>4, <3>1, <3>2
    <3>3. CASE o # r
      BY <1>6, <3>1, <3>3 DEF KeptInv, AloneInv
    <3> QED
      BY <3>2, <3>3
  <2> QED
    BY <2>1, <2>2
<1>10. HolderInv'
  BY <1>4, <1>5, <1>6 DEF KeptInv, HolderInv
<1>11. ClaimInv'
  <2> SUFFICES ASSUME NEW q \in Req, Written(req'[q]), req'[q].clean, req'[q].alone
               PROVE  /\ (serviceFile' # Cut => serviceFile'[req'[q].svc] = req'[q].entry)
                      /\ serviceData'[req'[q].svc] = req'[q].entry
                      /\ \A o \in Req : req'[o].pc \in Holding
                                         => req'[o].copy[req'[q].svc] = req'[q].entry
    BY DEF ClaimInv
  <2>1. q # r
    BY <1>5
  <2>2. req'[q] = req[q]
    BY <1>6, <2>1
  <2>3. /\ (serviceFile # Cut => serviceFile[req[q].svc] = req[q].entry)
        /\ serviceData[req[q].svc] = req[q].entry
        /\ \A o \in Req : req[o].pc \in Holding => req[o].copy[req[q].svc] = req[q].entry
    BY <2>2 DEF KeptInv, ClaimInv
  <2> QED
    BY <1>2, <1>4, <1>5, <1>6, <2>2, <2>3
<1>12. /\ settled' \in [Service -> Claim]
       /\ \A t \in Service :
             \/ settled'[t] = settled[t] /\ (t = s => rec.op = "test")
             \/ ~settled'[t].known /\ ~settled'[t].fresh
  <2>1. Unsettled \in Claim /\ ~Unsettled.known /\ ~Unsettled.fresh
    BY Constants DEF Unsettled, Claim
  <2>2. settled' = IF rec.op = "test" THEN settled ELSE [settled EXCEPT ![s] = Unsettled]
    BY DEF Begin
  <2>3. settled \in [Service -> Claim]
    BY DEF KeptInv, SettledInv
  <2> QED
    BY <2>1, <2>2, <2>3
<1>13. SettledInv'
  <2>1. ASSUME NEW t \in Service, settled'[t].known
        PROVE  /\ (serviceFile' # Cut => serviceFile'[t] = settled'[t].entry)
               /\ (up' => serviceData'[t] = settled'[t].entry)
               /\ \A o \in Req : req'[o].pc \in Holding => req'[o].copy[t] = settled'[t].entry
               /\ \A o \in Req : req'[o].svc = t => req'[o].op = "test"
    <3>1. settled'[t] = settled[t] /\ (t = s => rec.op = "test")
      BY <1>12, <2>1
    <3>2. /\ (serviceFile # Cut => serviceFile[t] = settled[t].entry)
          /\ (up => serviceData[t] = settled[t].entry)
          /\ \A o \in Req : req[o].pc \in Holding => req[o].copy[t] = settled[t].entry
          /\ \A o \in Req : req[o].svc = t => req[o].op = "test"
      BY <2>1, <3>1 DEF KeptInv, SettledInv
    <3> QED
      BY <1>2, <1>4, <1>5, <1>6, <3>1, <3>2
  <2> QED
    BY <1>12, <2>1 DEF SettledInv
<1>14. SecretClaimInv'
  <2> SUFFICES ASSUME NEW q \in Req PROVE SecretClaim(req[q])'
    BY DEF SecretClaimInv
  <2>1. CASE q = r
    BY <1>4, <2>1 DEF SecretClaim, Opening
  <2>2. CASE q # r /\ req[q].svc # s
    <3>1. req'[q] = req[q] /\ SecretClaim(req[q])
      BY <1>6, <2>2 DEF KeptInv, SecretClaimInv
    <3> QED
      BY <1>2, <3>1 DEF SecretClaim
  <2>3. CASE q # r /\ req[q].svc = s
    BY <1>6, <2>3 DEF SecretClaim
  <2> QED
    BY <2>1, <2>2, <2>3
<1>15. FreshInv'
  <2> SUFFICES ASSUME NEW t \in Service, settled'[t].fresh
               PROVE  /\ up' /\ settled'[t].known
                      /\ serviceSecrets'[t] = settled'[t].secret
                      /\ settled'[t].noted =>
                            /\ metaData'[t].rotated = settled'[t].secret
                            /\ \A o \in Req : req'[o].svc = t /\ req'[o].pc = "writeNotes"
                                  => req'[o].notes.rotated = settled'[t].secret
    BY DEF FreshInv
  <2>1. settled'[t] = settled[t]
    BY <1>12
  <2>2. /\ up /\ settled[t].known
        /\ serviceSecrets[t] = settled[t].secret
        /\ settled[t].noted =>
              /\ metaData[t].rotated = settled[t].secret
              /\ \A o \in Req : req[o].svc = t /\ req[o].pc = "writeNotes"
                    => req[o].notes.rotated = settled[t].secret
    BY <2>1 DEF KeptInv, FreshInv
  <2> QED
    BY <1>2, <1>4, <1>5, <1>6, <2>1, <2>2
<1> QED
  BY <1>8, <1>9, <1>10, <1>11, <1>13, <1>14, <1>15 DEF KeptInv

(* CreateServiceHandler, UpdateServiceHandler, DeleteServiceHandler and    *)
(* TestServiceAuthHandler begin like this.                                 *)
LEMMA CreateKeeps ==
    ASSUME ServiceInv, KeptInv, NEW r \in Req, NEW s \in Service, NEW w \in BOOLEAN,
           NEW d \in BOOLEAN, CreateService(r, s, w, d)
    PROVE  KeptInv'
<1> DEFINE rec == [Idle EXCEPT !.pc = "upsert", !.op = "create",
                     !.entry = [rev |-> revisions', hasSecret |-> w],
                     !.secret = IF w THEN revisions' ELSE 0, !.dated = d]
<1>1. revisions' \in 0..MaxRevisions /\ revisions' \in 1..MaxRevisions
  BY NewRevision DEF ServiceInv, CreateService
<1>2. [rev |-> revisions', hasSecret |-> w] \in ServiceConfig
  BY <1>1 DEF ServiceConfig
<1>3. (IF w THEN revisions' ELSE 0) \in 0..MaxRevisions
  BY <1>1, Constants
<1>4. rec \in Local
  BY <1>2, <1>3, EmptyValues DEF Local, Steps
<1>5. rec.op = "create" /\ rec.pc = "upsert"
  BY EmptyValues DEF Local
<1>6. Begin(r, s, rec)
  BY DEF CreateService
<1> HIDE DEF rec
<1> QED
  BY <1>4, <1>5, <1>6, BeginKeepsClaims DEF Opening

LEMMA UpdateKeeps ==
    ASSUME ServiceInv, KeptInv, NEW r \in Req, NEW s \in Service, NEW w \in BOOLEAN,
           NEW d \in BOOLEAN, NEW c \in BOOLEAN, UpdateService(r, s, w, d, c)
    PROVE  KeptInv'
<1> DEFINE has == ~c /\ (w \/ serviceData[s].hasSecret)
           rec == [Idle EXCEPT !.pc = "upsert", !.op = "update", !.clear = c,
                     !.entry = [rev |-> revisions', hasSecret |-> has],
                     !.secret = IF w THEN revisions' ELSE 0, !.dated = d]
<1>1. revisions' \in 0..MaxRevisions /\ revisions' \in 1..MaxRevisions
  BY NewRevision DEF ServiceInv, UpdateService
<1>2. Begin(r, s, rec)
  BY DEF UpdateService
<1>3. has \in BOOLEAN
  OBVIOUS
<1> HIDE DEF has
<1>4. [rev |-> revisions', hasSecret |-> has] \in ServiceConfig
  BY <1>1, <1>3 DEF ServiceConfig
<1>5. (IF w THEN revisions' ELSE 0) \in 0..MaxRevisions
  BY <1>1, Constants
<1>6. rec \in Local
  BY <1>4, <1>5, EmptyValues DEF Local, Steps
<1>7. rec.op = "update" /\ rec.pc = "upsert"
  BY EmptyValues DEF Local
<1> HIDE DEF rec
<1> QED
  BY <1>2, <1>6, <1>7, BeginKeepsClaims DEF Opening

LEMMA DeleteKeeps ==
    ASSUME ServiceInv, KeptInv, NEW r \in Req, NEW s \in Service, DeleteServiceHandler(r, s)
    PROVE  KeptInv'
<1> DEFINE first == IF serviceData[s].hasSecret THEN "deleteSecret" ELSE "filter"
           rec == [Idle EXCEPT !.op = "delete", !.pc = first]
<1>1. first \in {"deleteSecret", "filter"}
  OBVIOUS
<1>2. Begin(r, s, rec)
  BY DEF DeleteServiceHandler
<1> HIDE DEF first
<1>3. rec \in Local
  BY <1>1, EmptyValues DEF Local, Steps
<1>4. /\ rec.op = "delete" /\ rec.pc = first /\ rec.secret = 0 /\ ~rec.clear
      /\ rec.entry = Absent
  BY EmptyValues, IdleFields DEF Local
<1> HIDE DEF rec
<1> QED
  BY <1>1, <1>2, <1>3, <1>4, BeginKeepsClaims DEF Opening

LEMMA TestKeeps ==
    ASSUME ServiceInv, KeptInv, NEW r \in Req, NEW s \in Service, TestServiceAuth(r, s)
    PROVE  KeptInv'
<1> DEFINE rec == [Idle EXCEPT !.pc = "readNotes", !.op = "test", !.secret = serviceSecrets[s]]
<1>1. serviceSecrets[s] \in 0..MaxRevisions
  BY DEF ServiceInv, SecretInv, Secrets
<1>2. Begin(r, s, rec)
  BY DEF TestServiceAuth
<1>3. rec \in Local
  BY <1>1, EmptyValues DEF Local, Steps
<1>4. rec.op = "test" /\ rec.pc = "readNotes"
  BY EmptyValues DEF Local
<1> HIDE DEF rec
<1> QED
  BY <1>2, <1>3, <1>4, BeginKeepsClaims DEF Opening

(* A request that copies the catalog while others hold copies leaves none  *)
(* of them clean, and its copy says what was written and settled.          *)
LEMMA CopyKeepsClaims ==
    ASSUME ServiceInv, KeptInv, NEW r \in Req, UpsertRead(r) \/ DeleteRead(r)
    PROVE  KeptInv'
<1>1. req \in [Req -> Local]
  BY DEF ServiceInv, ReqInv
<1> DEFINE to == IF req[r].pc = "upsert" THEN "save" ELSE "saveWithout"
           holders == {o \in Req : req[o].pc \in Holding}
<1>2. /\ req' = [o \in Req |->
                  IF o = r THEN [req[o] EXCEPT !.pc = to, !.copy = serviceData,
                                    !.clean = req[o].clean /\ holders = {}]
                  ELSE IF o \in holders THEN [req[o] EXCEPT !.clean = FALSE] ELSE req[o]]
      /\ to \in Holding
  BY DEF UpsertRead, DeleteRead, GetServiceCatalog, Holding, At
<1>3. /\ up /\ UNCHANGED <<up, settled, serviceData, serviceFile, serviceSecrets, metaData>>
      /\ req[r].op # "test" /\ req[r].pc \in {"upsert", "filter"} /\ req[r].pc # "idle"
  BY DEF UpsertRead, DeleteRead, GetServiceCatalog, At, KeptInv, OpInv, runVars, catalogVars,
         secretVars
<1>4. req[r].op = "delete" => to \in DeletePlaces
  BY <1>3 DEF KeptInv, OpInv, DeletePlaces
<1>5. (holders = {} => \A h \in Req : req[h].pc \notin Holding)
      /\ \A h \in Req : h \in holders <=> req[h].pc \in Holding
  OBVIOUS
<1> HIDE DEF to, holders
<1>6. /\ req'[r].pc = to /\ req'[r].op = req[r].op /\ req'[r].svc = req[r].svc
      /\ req'[r].secret = req[r].secret /\ req'[r].clear = req[r].clear
      /\ req'[r].entry = req[r].entry /\ req'[r].copy = serviceData
      /\ req'[r].alone = req[r].alone /\ req'[r].notes = req[r].notes
      /\ req'[r].clean => \A h \in Req : req[h].pc \notin Holding
  BY <1>1, <1>2, <1>5 DEF Local
<1>7. ASSUME NEW o \in Req, o # r
      PROVE  /\ req'[o].pc = req[o].pc /\ req'[o].op = req[o].op /\ req'[o].svc = req[o].svc
             /\ req'[o].secret = req[o].secret /\ req'[o].clear = req[o].clear
             /\ req'[o].entry = req[o].entry /\ req'[o].copy = req[o].copy
             /\ req'[o].notes = req[o].notes /\ req'[o].alone = req[o].alone
             /\ req'[o].dated = req[o].dated
             /\ req[o].pc \in Holding => ~req'[o].clean
             /\ req[o].pc \notin Holding => req'[o] = req[o]
             /\ req'[o].clean => req[o].clean
  BY <1>1, <1>2, <1>5, <1>7 DEF Local
<1>8. to # "idle" /\ to # "writeNotes" /\ ~Written(req'[r])
  BY <1>2, <1>6 DEF Holding, Written
<1>9. OpInv'
  <2> SUFFICES ASSUME NEW q \in Req
               PROVE  /\ req'[q].op = "test" => req'[q].pc \in {"readNotes", "writeNotes", "ok"}
                      /\ req'[q].op = "delete" =>
                            /\ req'[q].secret = 0 /\ ~req'[q].clear /\ req'[q].entry = Absent
                            /\ req'[q].pc \in DeletePlaces
                      /\ req'[q].pc = "idle" => req'[q] = Idle
                      /\ req'[q].pc # "idle" => up' /\ req'[q].op # "none"
    BY DEF OpInv
  <2>1. CASE q = r
    BY <1>3, <1>4, <1>6, <1>8, <2>1 DEF KeptInv, OpInv
  <2>2. CASE q # r
    <3>1. "idle" \notin Holding
      BY DEF Holding
    <3> QED
      BY <1>3, <1>7, <2>2, <3>1 DEF KeptInv, OpInv
  <2> QED
    BY <2>1, <2>2
<1>10. AloneInv'
  BY <1>6, <1>7 DEF KeptInv, AloneInv
<1>11. HolderInv'
  <2> SUFFICES ASSUME NEW q \in Req, NEW o \in Req, q # o, req'[q].clean, req'[q].pc \in Holding
               PROVE  req'[o].pc \notin Holding
    BY DEF HolderInv
  <2>1. q = r
    BY <1>7
  <2> QED
    BY <1>6, <1>7, <2>1
<1>12. ClaimInv'
  <2> SUFFICES ASSUME NEW q \in Req, Written(req'[q]), req'[q].clean, req'[q].alone
               PROVE  /\ (serviceFile' # Cut => serviceFile'[req'[q].svc] = req'[q].entry)
                      /\ serviceData'[req'[q].svc] = req'[q].entry
                      /\ \A o \in Req : req'[o].pc \in Holding
                                         => req'[o].copy[req'[q].svc] = req'[q].entry
    BY DEF ClaimInv
  <2>1. q # r
    BY <1>8
  <2>2. req'[q] = req[q]
    BY <1>7, <2>1
  <2>3. /\ (serviceFile # Cut => serviceFile[req[q].svc] = req[q].entry)
        /\ serviceData[req[q].svc] = req[q].entry
        /\ \A o \in Req : req[o].pc \in Holding => req[o].copy[req[q].svc] = req[q].entry
    BY <2>2 DEF KeptInv, ClaimInv
  <2> QED
    BY <1>3, <1>6, <1>7, <2>2, <2>3
<1>13. SettledInv'
  <2>1. ASSUME NEW t \in Service, settled'[t].known
        PROVE  /\ (serviceFile' # Cut => serviceFile'[t] = settled'[t].entry)
               /\ (up' => serviceData'[t] = settled'[t].entry)
               /\ \A o \in Req : req'[o].pc \in Holding => req'[o].copy[t] = settled'[t].entry
               /\ \A o \in Req : req'[o].svc = t => req'[o].op = "test"
    <3>1. /\ (serviceFile # Cut => serviceFile[t] = settled[t].entry)
          /\ (up => serviceData[t] = settled[t].entry)
          /\ \A o \in Req : req[o].pc \in Holding => req[o].copy[t] = settled[t].entry
          /\ \A o \in Req : req[o].svc = t => req[o].op = "test"
      BY <1>3, <2>1 DEF KeptInv, SettledInv
    <3> QED
      BY <1>3, <1>6, <1>7, <3>1
  <2>2. settled' \in [Service -> Claim]
    BY <1>3 DEF KeptInv, SettledInv
  <2> QED
    BY <2>1, <2>2 DEF SettledInv
<1>14. SecretClaimInv'
  <2> SUFFICES ASSUME NEW q \in Req PROVE SecretClaim(req[q])'
    BY DEF SecretClaimInv
  <2>1. CASE q = r
    BY <1>2, <1>6, <2>1 DEF SecretClaim, Holding
  <2>2. CASE q # r
    <3>1. SecretClaim(req[q])
      BY DEF KeptInv, SecretClaimInv
    <3> QED
      BY <1>3, <1>7, <2>2, <3>1 DEF SecretClaim
  <2> QED
    BY <2>1, <2>2
<1>15. FreshInv'
  <2> SUFFICES ASSUME NEW t \in Service, settled'[t].fresh
               PROVE  /\ up' /\ settled'[t].known
                      /\ serviceSecrets'[t] = settled'[t].secret
                      /\ settled'[t].noted =>
                            /\ metaData'[t].rotated = settled'[t].secret
                            /\ \A o \in Req : req'[o].svc = t /\ req'[o].pc = "writeNotes"
                                  => req'[o].notes.rotated = settled'[t].secret
    BY DEF FreshInv
  <2>1. /\ up /\ settled[t].known
        /\ serviceSecrets[t] = settled[t].secret
        /\ settled[t].noted =>
              /\ metaData[t].rotated = settled[t].secret
              /\ \A o \in Req : req[o].svc = t /\ req[o].pc = "writeNotes"
                    => req[o].notes.rotated = settled[t].secret
    BY <1>3 DEF KeptInv, FreshInv
  <2> QED
    BY <1>3, <1>6, <1>7, <1>8, <2>1
<1> QED
  BY <1>9, <1>10, <1>11, <1>12, <1>13, <1>14, <1>15 DEF KeptInv

(* What was settled before stays settled when a request is answered.       *)
LEMMA StillSettled ==
    ASSUME ServiceInv, KeptInv, NEW r \in Req, req' = [req EXCEPT ![r] = Idle],
           UNCHANGED <<up, serviceData, serviceFile, serviceSecrets, metaData>>,
           NEW s \in Service, settled'[s] = settled[s]
    PROVE  /\ settled'[s].known =>
                 /\ (serviceFile' # Cut => serviceFile'[s] = settled'[s].entry)
                 /\ (up' => serviceData'[s] = settled'[s].entry)
                 /\ \A o \in Req : req'[o].pc \in Holding => req'[o].copy[s] = settled'[s].entry
                 /\ \A o \in Req : req'[o].svc = s => req'[o].op = "test"
           /\ settled'[s].fresh =>
                 /\ up' /\ settled'[s].known
                 /\ serviceSecrets'[s] = settled'[s].secret
                 /\ settled'[s].noted =>
                       /\ metaData'[s].rotated = settled'[s].secret
                       /\ \A o \in Req : req'[o].svc = s /\ req'[o].pc = "writeNotes"
                             => req'[o].notes.rotated = settled'[s].secret
<1>1. req \in [Req -> Local]
  BY DEF ServiceInv, ReqInv
<1>2. req'[r] = Idle /\ \A o \in Req : o # r => req'[o] = req[o]
  BY <1>1
<1>3. /\ req'[r].pc = "idle" /\ req'[r].svc = NoService /\ req'[r].pc \notin Holding
  BY <1>2, IdleFields DEF Holding
<1>4. settled[s].known =>
         /\ (serviceFile # Cut => serviceFile[s] = settled[s].entry)
         /\ (up => serviceData[s] = settled[s].entry)
         /\ \A o \in Req : req[o].pc \in Holding => req[o].copy[s] = settled[s].entry
         /\ \A o \in Req : req[o].svc = s => req[o].op = "test"
  BY DEF KeptInv, SettledInv
<1>5. settled[s].fresh =>
         /\ up /\ settled[s].known
         /\ serviceSecrets[s] = settled[s].secret
         /\ settled[s].noted =>
               /\ metaData[s].rotated = settled[s].secret
               /\ \A o \in Req : req[o].svc = s /\ req[o].pc = "writeNotes"
                     => req[o].notes.rotated = settled[s].secret
  BY DEF KeptInv, FreshInv
<1> QED
  BY <1>2, <1>3, <1>4, <1>5, Constants

(* A success that nothing interfered with is settled: its entry is         *)
(* written, nobody else is at work on the service, and the secret and its  *)
(* notes are the request's.                                                *)
LEMMA SucceedKeeps ==
    ASSUME ServiceInv, KeptInv, NEW r \in Req, Succeed(r)
    PROVE  KeptInv'
<1> DEFINE t == req[r].svc
           told == req[r].op # "test" /\ req[r].clean /\ req[r].alone
           claim == [known |-> TRUE, entry |-> req[r].entry, secret |-> req[r].secret,
                     fresh |-> req[r].secret # 0 \/ req[r].clear, noted |-> req[r].dated]
<1>1. /\ req' = [req EXCEPT ![r] = Idle]
      /\ UNCHANGED <<up, serviceData, serviceFile, serviceSecrets, metaData>>
      /\ up /\ req[r].pc = "ok" /\ req[r].pc # "idle"
      /\ settled' = IF told THEN [settled EXCEPT ![t] = claim] ELSE settled
  BY DEF Succeed, At, runVars, catalogVars, secretVars
<1>2. /\ req \in [Req -> Local] /\ t \in Service /\ settled \in [Service -> Claim]
      /\ req[r].op \in {"create", "update", "delete", "test"}
      /\ req[r].op = "delete" => req[r].secret = 0 /\ ~req[r].clear
  BY <1>1 DEF ServiceInv, ReqInv, KeptInv, SettledInv, OpInv, Local
<1>3. claim \in Claim
  <2>1. /\ req[r].entry \in ServiceConfig \cup {Absent} /\ req[r].secret \in 0..MaxRevisions
        /\ (req[r].secret # 0 \/ req[r].clear) \in BOOLEAN /\ req[r].dated \in BOOLEAN
    BY <1>2 DEF Local
  <2> QED
    BY <2>1 DEF Claim
<1>4. /\ claim.known /\ claim.entry = req[r].entry /\ claim.secret = req[r].secret
      /\ (claim.fresh => req[r].secret # 0 \/ req[r].clear) /\ claim.noted = req[r].dated
  OBVIOUS
<1> HIDE DEF claim
<1>5. settled' \in [Service -> Claim]
  BY <1>1, <1>2, <1>3
<1>6. ASSUME told
      PROVE  /\ (serviceFile # Cut => serviceFile[t] = req[r].entry) /\ serviceData[t] = req[r].entry
             /\ \A o \in Req : req[o].pc \in Holding => req[o].copy[t] = req[r].entry
             /\ \A o \in Req : o # r => req[o].svc # t
             /\ req[r].secret # 0 \/ req[r].clear =>
                   /\ serviceSecrets[t] = req[r].secret
                   /\ req[r].dated => metaData[t].rotated = req[r].secret
  <2>1. Written(req[r])
    BY <1>1, <1>2, <1>6 DEF Written
  <2>2. /\ (serviceFile # Cut => serviceFile[t] = req[r].entry) /\ serviceData[t] = req[r].entry
        /\ \A o \in Req : req[o].pc \in Holding => req[o].copy[t] = req[r].entry
    BY <1>6, <2>1 DEF KeptInv, ClaimInv
  <2>3. \A o \in Req : o # r => req[o].svc # t
    BY <1>2, <1>6 DEF KeptInv, AloneInv
  <2>4. SecretClaim(req[r])
    BY DEF KeptInv, SecretClaimInv
  <2>5. req[r].secret # 0 \/ req[r].clear =>
           /\ serviceSecrets[t] = req[r].secret
           /\ req[r].dated => metaData[t].rotated = req[r].secret
    BY <1>1, <1>2, <1>6, <2>4 DEF SecretClaim
  <2> QED
    BY <2>2, <2>3, <2>5
<1>7. req'[r] = Idle /\ \A o \in Req : o # r => req'[o] = req[o]
  BY <1>1, <1>2
<1>8. req'[r].pc \notin Holding /\ req'[r].svc = NoService
  BY <1>7, IdleFields DEF Holding
<1>9. ASSUME NEW s \in Service
      PROVE  /\ settled'[s].known =>
                 /\ (serviceFile' # Cut => serviceFile'[s] = settled'[s].entry)
                 /\ (up' => serviceData'[s] = settled'[s].entry)
                 /\ \A o \in Req : req'[o].pc \in Holding => req'[o].copy[s] = settled'[s].entry
                 /\ \A o \in Req : req'[o].svc = s => req'[o].op = "test"
             /\ settled'[s].fresh =>
                 /\ up' /\ settled'[s].known
                 /\ serviceSecrets'[s] = settled'[s].secret
                 /\ settled'[s].noted =>
                       /\ metaData'[s].rotated = settled'[s].secret
                       /\ \A o \in Req : req'[o].svc = s /\ req'[o].pc = "writeNotes"
                             => req'[o].notes.rotated = settled'[s].secret
  <2>1. CASE settled'[s] = settled[s]
    BY <1>1, <2>1, StillSettled
  <2>2. CASE settled'[s] # settled[s]
    <3>1. told /\ s = t /\ settled'[s] = claim
      BY <1>1, <1>2, <2>2
    <3>2. \A o \in Req : req'[o].svc # s
      BY <1>2, <1>6, <1>7, <1>8, <3>1, Constants
    <3> QED
      BY <1>1, <1>4, <1>6, <1>7, <1>8, <3>1, <3>2
  <2> QED
    BY <2>1, <2>2
<1>10. SettledInv' /\ FreshInv'
  BY <1>5, <1>9 DEF SettledInv, FreshInv
<1>11. Elsewhere(r)
  BY <1>1 DEF Elsewhere
<1> QED
  BY <1>1, <1>10, <1>11, GoneKeeps DEF KeptInv

(* A run ends with the requests that were under way: what they were about  *)
(* is no longer settled, the rest is, in the file.                         *)
LEMMA StopKeeps == ASSUME ServiceInv, KeptInv, Stop PROVE KeptInv'
<1>1. /\ ~up' /\ UNCHANGED <<serviceData, serviceFile>>
      /\ req' = [r \in Req |-> Idle]
  BY DEF Stop, catalogVars
<1>2. \A r \in Req : /\ req'[r] = Idle /\ req'[r].pc = "idle" /\ req'[r].op = "none"
                     /\ req'[r].svc = NoService
  BY <1>1, IdleFields
<1>3. OpInv' /\ AloneInv' /\ HolderInv' /\ ClaimInv' /\ SecretClaimInv'
  BY <1>2, Constants DEF OpInv, AloneInv, HolderInv, ClaimInv, SecretClaimInv, SecretClaim,
                         Written, Holding
<1>4. Unsettled \in Claim /\ ~Unsettled.known /\ ~Unsettled.fresh
  BY Constants DEF Unsettled, Claim
<1>5. settled \in [Service -> Claim]
  BY DEF KeptInv, SettledInv
<1>6. ASSUME NEW s \in Service
      PROVE  /\ settled'[s] \in Claim /\ ~settled'[s].fresh
             /\ settled'[s].known => settled[s].known /\ settled'[s].entry = settled[s].entry
  <2>1. \/ settled'[s] = Unsettled
        \/ settled'[s] = [settled[s] EXCEPT !.fresh = FALSE]
    BY DEF Stop
  <2>2. settled[s] \in Claim
    BY <1>5
  <2> QED
    BY <1>4, <2>1, <2>2 DEF Claim
<1>7. settled' \in [Service -> Claim]
  <2>1. settled' = [s \in Service |-> settled'[s]]
    BY DEF Stop
  <2> QED
    BY <1>6, <2>1
<1>8. SettledInv'
  <2>1. \A s \in Service : settled[s].known /\ serviceFile # Cut => serviceFile[s] = settled[s].entry
    BY DEF KeptInv, SettledInv
  <2>2. \A o \in Req : req'[o].pc \notin Holding /\ req'[o].svc \notin Service
    BY <1>2, Constants DEF Holding
  <2> QED
    BY <1>1, <1>6, <1>7, <2>1, <2>2 DEF SettledInv
<1>9. FreshInv'
  BY <1>6 DEF FreshInv
<1> QED
  BY <1>3, <1>8, <1>9 DEF KeptInv

(* LoadServices reads back what the file says, and no request is under way *)
(* that could have been promised more; a file that is cut ends every       *)
(* promise.                                                                *)
LEMMA StartKeeps ==
    ASSUME ServiceInv, KeptInv, NEW p \in Password \cup {NoPassword}, Start(p)
    PROVE  KeptInv'
<1>1. /\ ~up /\ up' /\ UNCHANGED <<serviceFile, metaData, req>>
      /\ \/ serviceFile # Cut /\ serviceData' = serviceFile /\ settled' = settled
         \/ serviceFile = Cut /\ settled' = [s \in Service |-> Unsettled]
  BY DEF Start
<1>2. \A r \in Req : /\ req[r] = Idle /\ req[r].pc = "idle" /\ req[r].op = "none"
                     /\ req[r].svc = NoService
  BY <1>1, IdleFields DEF KeptInv, OpInv
<1>3. \A r \in Req : /\ req'[r] = Idle /\ req'[r].pc = "idle" /\ req'[r].op = "none"
                     /\ req'[r].svc = NoService
  BY <1>1, <1>2
<1>4. OpInv' /\ AloneInv' /\ HolderInv' /\ ClaimInv' /\ SecretClaimInv'
  BY <1>3, Constants DEF OpInv, AloneInv, HolderInv, ClaimInv, SecretClaimInv, SecretClaim,
                         Written, Holding
<1>5. \A o \in Req : req'[o].pc \notin Holding /\ req'[o].svc \notin Service
  BY <1>3, Constants DEF Holding
<1>6. CASE serviceFile # Cut /\ serviceData' = serviceFile /\ settled' = settled
  <2>1. SettledInv'
    BY <1>1, <1>5, <1>6 DEF KeptInv, SettledInv
  <2>2. FreshInv'
    BY <1>1, <1>6 DEF KeptInv, FreshInv
  <2> QED
    BY <1>4, <2>1, <2>2 DEF KeptInv
<1>7. CASE serviceFile = Cut /\ settled' = [s \in Service |-> Unsettled]
  <2>1. Unsettled \in Claim /\ ~Unsettled.known /\ ~Unsettled.fresh
    BY Constants DEF Unsettled, Claim
  <2>2. SettledInv' /\ FreshInv'
    BY <1>7, <2>1 DEF SettledInv, FreshInv
  <2> QED
    BY <1>4, <2>2 DEF KeptInv
<1> QED
  BY <1>1, <1>6, <1>7

-----------------------------------------------------------------------------

(* Every step keeps what was told.                                         *)
LEMMA KeptInvIsInductive == ServiceInv /\ KeptInv /\ [Next]_vars => KeptInv'
<1> SUFFICES ASSUME ServiceInv, KeptInv, [Next]_vars PROVE KeptInv'
  OBVIOUS
<1>1. CASE UNCHANGED vars
  <2>1. UNCHANGED <<up, serviceData, serviceFile, serviceSecrets, metaData, req, settled>>
    BY <1>1 DEF vars
  <2>2. OpInv' /\ AloneInv' /\ HolderInv' /\ ClaimInv'
    BY <2>1 DEF KeptInv, OpInv, AloneInv, HolderInv, ClaimInv
  <2>3. SettledInv' /\ SecretClaimInv' /\ FreshInv'
    BY <2>1 DEF KeptInv, SettledInv, SecretClaimInv, SecretClaim, FreshInv
  <2> QED
    BY <2>2, <2>3 DEF KeptInv
<1>2. CASE Stop
  BY <1>2, StopKeeps
<1>3. ASSUME NEW p \in Password \cup {NoPassword}, Start(p) PROVE KeptInv'
  BY <1>3, StartKeeps
<1>4. ASSUME NEW r \in Req, NEW s \in Service,
             \/ DeleteServiceHandler(r, s) \/ TestServiceAuth(r, s)
             \/ \E w, d, c \in BOOLEAN : UpdateService(r, s, w, d, c)
             \/ \E w, d \in BOOLEAN : CreateService(r, s, w, d)
      PROVE  KeptInv'
  BY <1>4, DeleteKeeps, TestKeeps, UpdateKeeps, CreateKeeps
<1>5. ASSUME NEW r \in Req,
             UpsertRead(r) \/ DeleteRead(r) \/ UpsertWrite(r) \/ DeleteWrite(r)
      PROVE  KeptInv'
  BY <1>5, CopyKeepsClaims, UpsertWriteKeeps, DeleteWriteKeeps
<1>6. ASSUME NEW r \in Req, SetServiceSecret(r) \/ DeleteServiceSecret(r) PROVE KeptInv'
  BY <1>6, SetSecretKeeps, DeleteSecretKeeps
<1>7. ASSUME NEW r \in Req,
             \/ DeleteServiceSecretMetadata(r) \/ GetServiceSecretMetadata(r)
             \/ UpdateServiceSecretMetadata(r)
      PROVE  KeptInv'
  BY <1>7, DeleteNotesKeeps, ReadNotesKeeps, WriteNotesKeeps
<1>8. ASSUME NEW r \in Req, Succeed(r) PROVE KeptInv'
  BY <1>8, SucceedKeeps
<1> QED
  BY <1>1, <1>2, <1>3, <1>4, <1>5, <1>6, <1>7, <1>8 DEF Next

(* It therefore holds in every behaviour.                                  *)
LEMMA KeptInvHolds == Spec => []KeptInv
BY KeptInitially, KeptInvIsInductive, ServiceInvHolds, PTL DEF Spec

(* What an administrator was told about a service by a request nothing     *)
(* interfered with stays true in memory and, unless a failed write cuts    *)
(* it, in the file, under requests for other services, failed writes and   *)
(* restarts, until somebody changes that service again or a start finds    *)
(* the file cut (UpsertService, DeleteService, SaveServices,               *)
(* LoadServices).                                                          *)
THEOREM CatalogIsKept == Spec => []CatalogKept
<1>1. KeptInv => CatalogKept
  BY DEF KeptInv, SettledInv, CatalogKept
<1> QED
  BY <1>1, KeptInvHolds, PTL

(* The secret such a request gave is the one the service is called with,   *)
(* and the notes name it as the last one set if they were asked to,        *)
(* however tests of the service and changes to others interleave, until    *)
(* the run ends                                                            *)
(* (SetServiceSecret, NoteServiceSecretRotated, NoteServiceSecretTest).    *)
THEOREM SecretStaysInForce == Spec => []SecretInForce
<1>1. KeptInv => SecretInForce
  BY DEF KeptInv, FreshInv, SecretInForce
<1> QED
  BY <1>1, KeptInvHolds, PTL

=============================================================================
