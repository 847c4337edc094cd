--------------------------- MODULE AccountsProofs ---------------------------
(***************************************************************************)
(* Theorems about Accounts for any set of names and requests.              *)
(*                                                                         *)
(* All of them hold whatever write fails and whatever it leaves; the ones  *)
(* on the user store are for the gateway without the command line tool,    *)
(* which each of them states as a hypothesis.                              *)
(***************************************************************************)
EXTENDS Accounts, TLAPS

\* A request that is at work has a name, in a process that is up.
RequestsOK ==
    /\ req \in [Req -> Request]
    /\ \A r \in Req : req[r].pc # "idle" => up /\ req[r].name \in Name

StoresOK ==
    /\ up \in BOOLEAN /\ boots \in Nat /\ minted \in Nat /\ births \in Nat
    /\ cache \in Users /\ usersFile \in Users \cup {Corrupt}
    /\ secrets \in Secrets /\ vaultFile \in Secrets \cup {Corrupt}
    /\ ~up => cache = NobodyYet /\ secrets = NoSecrets

HistoryOK ==
    /\ owed \in [Name -> {"no", "half", "yes"}] /\ lost \subseteq Name
    /\ given \in Secrets /\ settled \in Secrets

LEMMA TypeParts == TypeOK <=> RequestsOK /\ StoresOK /\ HistoryOK
BY DEF TypeOK, RequestsOK, StoresOK, HistoryOK

-----------------------------------------------------------------------------
(* What the steps of a request do to the requests *)

\* The idle request is well formed.
LEMMA IdleIsRequest ==
    /\ Idle \in Request /\ Idle.pc = "idle" /\ Idle.name = NoName
    /\ Idle.alone = FALSE /\ NoSecrets \in Secrets /\ NobodyYet \in Users
BY DEF Idle, Request, Pc, NoSecrets, Secrets, NobodyYet, Users

\* Answering a request keeps all requests well formed.
LEMMA AnswerKeeps ==
    ASSUME RequestsOK, NEW r \in Req, Answer(r), up' = up
    PROVE  RequestsOK'
BY IdleIsRequest DEF RequestsOK, Answer

\* So does moving one that is at work,
LEMMA GotoKeeps ==
    ASSUME RequestsOK, NEW r \in Req, NEW pc \in Pc, Goto(r, pc), up' = up,
           req[r].pc # "idle"
    PROVE  RequestsOK'
BY DEF RequestsOK, Goto, Request

\* ... moving it with a new copy of the vault,
LEMMA ReadKeeps ==
    ASSUME RequestsOK, NEW r \in Req, NEW pc \in Pc, NEW v \in Secrets, up' = up,
           req' = [req EXCEPT ![r].pc = pc, ![r].read = v], req[r].pc # "idle"
    PROVE  RequestsOK'
BY DEF RequestsOK, Request

\* ... moving it with the stamp of its account,
LEMMA BornKeeps ==
    ASSUME RequestsOK, NEW r \in Req, NEW pc \in Pc, NEW b \in Nat, up' = up,
           req' = [req EXCEPT ![r].pc = pc, ![r].born = b], req[r].pc # "idle"
    PROVE  RequestsOK'
BY DEF RequestsOK, Request

\* ... and beginning an operation.
LEMMA BeginKeeps ==
    ASSUME RequestsOK, NEW r \in Req, NEW n \in Name, NEW local \in Request,
           Begin(r, n, local), up, up' = up
    PROVE  RequestsOK'
<1> DEFINE alone == \A x \in Req : req[x].name # n
<1>1. [local EXCEPT !.name = n, !.alone = alone] \in Request
  BY DEF Request
<1>2. \A q \in Req : [req[q] EXCEPT !.alone = @ /\ req[q].name # n] \in Request
  BY DEF RequestsOK, Request
<1>3. req' \in [Req -> Request]
  BY <1>1, <1>2 DEF Begin
<1>4. \A q \in Req : req'[q].name \in Name \/ req'[q].pc = "idle"
  BY DEF RequestsOK, Request, Begin
<1> QED BY <1>3, <1>4 DEF RequestsOK

-----------------------------------------------------------------------------
(* Type correctness *)

LEMMA InitType == Init => TypeOK
<1> SUFFICES ASSUME Init PROVE TypeOK OBVIOUS
<1>1. cache \in Users /\ secrets \in Secrets
  BY AccountConstants DEF Init, Only, Users, User, Secrets
<1>2. owed \in [Name -> {"no", "half", "yes"}] /\ given \in Secrets
  BY DEF Init, Only, Secrets
<1> QED
  BY <1>1, <1>2, IdleIsRequest DEF Init, TypeOK

\* A step that begins an operation and draws a secret, or none.
LEMMA BeginType ==
    ASSUME TypeOK, NEW r \in Req, NEW n \in Name, NEW local \in Request,
           Begin(r, n, local), up, minted' \in Nat,
           given' \in Secrets, settled' \in Secrets,
           UNCHANGED <<up, boots, cache, usersFile, secrets, vaultFile, births, owed,
                       lost>>
    PROVE  TypeOK'
<1>1. RequestsOK'
  BY BeginKeeps, TypeParts
<1> QED
  BY <1>1
  DEF TypeOK, RequestsOK, StoresOK, HistoryOK

LEMMA UnsettleType ==
    ASSUME TypeOK, NEW n \in Name, Unsettle(n)
    PROVE  given' \in Secrets /\ settled' \in Secrets
BY DEF TypeOK, Unsettle, Secrets

LEMMA ProvisionUserType ==
    ASSUME TypeOK, NEW r \in Req, NEW n \in Name, NEW role \in {"admin", "user"},
           ProvisionUser(r, n, role)
    PROVE  TypeOK'
<1> DEFINE local == [Idle EXCEPT !.pc = "create", !.role = role, !.new = TRUE,
                                 !.secret = minted + 1]
<1>1. minted + 1 \in Nat /\ minted' = minted + 1
  BY DEF TypeOK, ProvisionUser
<1>2. local \in Request
  BY <1>1, IdleIsRequest DEF Request, Pc
<1> QED
  BY <1>1, <1>2, BeginType, UnsettleType DEF ProvisionUser

LEMMA ResetTOTPType ==
    ASSUME TypeOK, NEW r \in Req, NEW n \in Name, ResetTOTP(r, n)
    PROVE  TypeOK'
<1> DEFINE local == [Idle EXCEPT !.pc = "storeRead", !.secret = minted + 1]
<1>1. minted + 1 \in Nat /\ minted' = minted + 1
  BY DEF TypeOK, ResetTOTP
<1>2. local \in Request
  BY <1>1, IdleIsRequest DEF Request, Pc
<1> QED
  BY <1>1, <1>2, BeginType, UnsettleType DEF ResetTOTP

LEMMA DeleteUserType ==
    ASSUME TypeOK, NEW r \in Req, NEW n \in Name, DeleteUser(r, n)
    PROVE  TypeOK'
<1> DEFINE local == [Idle EXCEPT !.pc = "delete"]
<1>1. local \in Request /\ minted' \in Nat
  BY IdleIsRequest DEF TypeOK, DeleteUser, Request, Pc
<1> QED
  BY <1>1, BeginType, UnsettleType DEF DeleteUser

LEMMA LoadUserSecretType ==
    ASSUME TypeOK, NEW r \in Req, NEW n \in Name, LoadUserSecret(r, n)
    PROVE  TypeOK'
<1> DEFINE local == [Idle EXCEPT !.pc = "cacheSecret", !.secret = vaultFile[n]]
<1>1. vaultFile[n] \in Nat
  BY DEF TypeOK, LoadUserSecret, Secrets
<1>2. local \in Request /\ minted' \in Nat
  BY <1>1, IdleIsRequest DEF TypeOK, LoadUserSecret, Request, Pc
<1>3. given' \in Secrets /\ settled' \in Secrets
  BY DEF TypeOK, LoadUserSecret
<1> QED
  BY <1>2, <1>3, BeginType DEF LoadUserSecret

LEMMA CreateType ==
    ASSUME TypeOK, NEW r \in Req, Create(r)
    PROVE  TypeOK'
<1>1. RequestsOK /\ StoresOK /\ HistoryOK
  BY TypeParts
<1>2. up /\ req[r].name \in Name /\ req[r].role \in {"admin", "user"}
  BY <1>1 DEF RequestsOK, Create, Request
<1>3. RequestsOK'
  <2>1. births + 1 \in Nat /\ up' = up /\ req[r].pc # "idle" /\ "storeRead" \in Pc
    BY <1>1 DEF StoresOK, Create, Pc
  <2> QED BY <1>1, <2>1, AnswerKeeps, BornKeeps DEF Create
<1>4. births' \in Nat /\ cache' \in Users
  BY <1>1, <1>2 DEF StoresOK, Create, Users, User
<1>5. usersFile' \in Users \cup {Corrupt}
  BY <1>1, <1>4 DEF StoresOK, Create, UsersSaved, UsersNotSaved
<1>6. owed' \in [Name -> {"no", "half", "yes"}]
  BY <1>1, <1>2 DEF HistoryOK, Create
<1> QED
  BY <1>1, <1>2, <1>3, <1>4, <1>5, <1>6
  DEF TypeOK, RequestsOK, Create, StoresOK, HistoryOK

LEMMA StoreFailedKeeps ==
    ASSUME RequestsOK, NEW r \in Req, StoreFailed(r), up' = up, req[r].pc # "idle"
    PROVE  RequestsOK'
BY AnswerKeeps, GotoKeeps DEF StoreFailed, Pc

LEMMA VaultStepType ==
    ASSUME TypeOK, NEW r \in Req,
           StoreRead(r) \/ StoreWrite(r) \/ WipeRead(r) \/ WipeWrite(r)
    PROVE  TypeOK'
<1>1. RequestsOK /\ StoresOK /\ HistoryOK
  BY TypeParts
<1>2. req[r].pc # "idle" /\ up' = up /\ NoSecrets \in Secrets
  BY IdleIsRequest DEF StoreRead, StoreWrite, WipeRead, WipeWrite
<1>3. /\ up /\ req[r].name \in Name
      /\ req[r].secret \in Nat /\ req[r].read \in Secrets
  BY <1>1, <1>2 DEF RequestsOK, Request
<1>4. vaultFile' \in Secrets \cup {Corrupt}
  BY <1>1, <1>2, <1>3
  DEF StoreRead, StoreWrite, WipeRead, WipeWrite, VaultSaved, VaultNotSaved,
      Secrets, StoresOK
<1>5. RequestsOK'
  <2>1. CASE StoreRead(r)
    BY <1>1, <1>2, <2>1, StoreFailedKeeps, ReadKeeps DEF StoreRead, StoresOK, Pc
  <2>2. CASE StoreWrite(r)
    BY <1>1, <1>2, <2>2, StoreFailedKeeps, ReadKeeps DEF StoreWrite, Pc
  <2>3. CASE WipeRead(r)
    BY <1>1, <1>2, <2>3, GotoKeeps, ReadKeeps DEF WipeRead, StoresOK, Pc
  <2>4. CASE WipeWrite(r)
    BY <1>1, <1>2, <2>4, ReadKeeps DEF WipeWrite, Pc
  <2> QED BY <2>1, <2>2, <2>3, <2>4
<1> QED
  BY <1>1, <1>4, <1>5
  DEF TypeOK, RequestsOK, StoreRead, StoreWrite, WipeRead, WipeWrite,
      StoresOK, HistoryOK

LEMMA MemoryStepType ==
    ASSUME TypeOK, NEW r \in Req, Remember(r) \/ Forget(r) \/ CacheSecret(r)
    PROVE  TypeOK'
<1>1. RequestsOK /\ StoresOK /\ HistoryOK
  BY TypeParts
<1>2. up /\ up' = up /\ req[r].name \in Name /\ req[r].secret \in Nat
  BY <1>1 DEF RequestsOK, Request, Remember, Forget, CacheSecret
<1>3. RequestsOK'
  BY <1>1, <1>2, AnswerKeeps DEF Remember, Forget, CacheSecret
<1>4. secrets' \in Secrets
  BY <1>1, <1>2 DEF StoresOK, Secrets, Remember, Forget, CacheSecret
<1>5. given' \in Secrets /\ settled' \in Secrets
  BY <1>1, <1>2 DEF HistoryOK, Secrets, Remember, Forget, CacheSecret
<1> QED
  BY <1>1, <1>2, <1>3, <1>4, <1>5
  DEF TypeOK, RequestsOK, Remember, Forget, CacheSecret, StoresOK,
      HistoryOK

\* What UserStore.Delete may do to the stores.
LEMMA DeleteStores ==
    ASSUME StoresOK, HistoryOK, NEW n \in Name, NEW left \in {"no", "half", "yes"},
           Delete(n, left)
    PROVE  /\ cache' \in Users /\ usersFile' \in Users \cup {Corrupt}
           /\ owed' \in [Name -> {"no", "half", "yes"}]
<1>1. cache' \in Users
  BY DEF Delete, StoresOK, Users
<1>2. usersFile' \in Users \cup {Corrupt}
  BY <1>1 DEF Delete, StoresOK, UsersSaved, UsersNotSaved
<1> QED
  BY <1>1, <1>2 DEF Delete, HistoryOK

LEMMA DeletionType ==
    ASSUME TypeOK, NEW r \in Req, Rollback(r) \/ DeleteRecord(r)
    PROVE  TypeOK'
<1>1. RequestsOK /\ StoresOK /\ HistoryOK
  BY TypeParts
<1>2. up /\ up' = up /\ req[r].name \in Name /\ req[r].pc # "idle"
  BY <1>1 DEF RequestsOK, Rollback, DeleteRecord
<1>3. RequestsOK'
  BY <1>1, <1>2, AnswerKeeps, GotoKeeps DEF Rollback, DeleteRecord, Pc
<1>4. /\ cache' \in Users /\ usersFile' \in Users \cup {Corrupt}
      /\ owed' \in [Name -> {"no", "half", "yes"}]
  <2>1. /\ owed[req[r].name] \in {"no", "half", "yes"}
        /\ "no" \in {"no", "half", "yes"}
    BY <1>1, <1>2 DEF HistoryOK
  <2> QED
    BY <1>1, <1>2, <2>1, DeleteStores
    DEF Rollback, DeleteRecord, StoresOK, HistoryOK
<1> QED
  BY <1>1, <1>2, <1>3, <1>4
  DEF TypeOK, RequestsOK, Rollback, DeleteRecord, StoresOK, HistoryOK

LEMMA ProcessType ==
    ASSUME TypeOK,
           SetAllowedServices \/ Start \/ Stop
    PROVE  TypeOK'
<1>1. RequestsOK /\ StoresOK /\ HistoryOK
  BY TypeParts
<1>2. CASE SetAllowedServices
  BY <1>1, <1>2
  DEF TypeOK, RequestsOK, SetAllowedServices, UsersSaved,
      UsersNotSaved, StoresOK, HistoryOK
<1>3. CASE Start
  BY <1>1, <1>3, IdleIsRequest
  DEF TypeOK, RequestsOK, Start, StoresOK, HistoryOK
<1>4. CASE Stop
  BY <1>1, <1>4, IdleIsRequest
  DEF TypeOK, RequestsOK, Stop, StoresOK, HistoryOK
<1> QED BY <1>2, <1>3, <1>4

LEMMA NextType == TypeOK /\ [Next]_vars => TypeOK'
<1> SUFFICES ASSUME TypeOK, [Next]_vars PROVE TypeOK'
  OBVIOUS
<1>1. CASE UNCHANGED vars
  BY <1>1 DEF vars, TypeOK
<1>2. CASE Next
  BY <1>2, ProvisionUserType, ResetTOTPType, DeleteUserType, LoadUserSecretType,
     CreateType, VaultStepType, MemoryStepType, DeletionType, ProcessType
  DEF Next
<1> QED BY <1>1, <1>2

\* Every reachable state of the account stores is well typed, whatever fails,
\* with or without the command line tool.
THEOREM AccountsTypeCorrect == Spec => []TypeOK
BY InitType, NextType, PTL DEF Spec

-----------------------------------------------------------------------------
(* The secret in use *)

\* A request that had its name to itself still has it to itself.
AloneInv ==
    \A r \in Req : req[r].alone =>
        /\ req[r].name \in Name
        /\ \A q \in Req : q # r => req[q].name # req[r].name

\* A settled name is at rest.
SettledInv ==
    \A n \in Name : settled[n] # 0 =>
        /\ secrets[n] = settled[n]
        /\ \A r \in Req : req[r].name # n

SecretInv == TypeOK /\ AloneInv /\ SettledInv

\* No request takes up a name; one may give up its own.
NoNewWork ==
    \A q \in Req : \/ req'[q].name = req[q].name /\ req'[q].alone = req[q].alone
                   \/ req'[q].name = NoName /\ req'[q].alone = FALSE

LEMMA QuietSteps ==
    ASSUME RequestsOK, NEW r \in Req, NEW pc \in Pc, NEW v \in Secrets,
           \/ Answer(r) \/ Goto(r, pc)
           \/ req' = [req EXCEPT ![r].pc = pc, ![r].read = v]
           \/ \E b \in Nat : req' = [req EXCEPT ![r].pc = pc, ![r].born = b]
    PROVE  NoNewWork
<1>1. req \in [Req -> Request]
  BY DEF RequestsOK
<1>2. CASE Answer(r)
  BY <1>1, <1>2, IdleIsRequest DEF Answer, NoNewWork
<1>3. CASE Goto(r, pc)
  BY <1>1, <1>3 DEF Goto, NoNewWork, Request
<1>4. CASE req' = [req EXCEPT ![r].pc = pc, ![r].read = v]
  BY <1>1, <1>4 DEF NoNewWork, Request
<1>5. ASSUME NEW b \in Nat, req' = [req EXCEPT ![r].pc = pc, ![r].born = b]
      PROVE  NoNewWork
  <2>1. \A q \in Req : q # r => req'[q] = req[q]
    BY <1>1, <1>5
  <2>2. req'[r] = [req[r] EXCEPT !.pc = pc, !.born = b] /\ req[r] \in Request
    BY <1>1, <1>5
  <2>3. req'[r].name = req[r].name
    BY <2>2 DEF Request
  <2>4. req'[r].alone = req[r].alone
    BY <2>2 DEF Request
  <2> QED BY <2>1, <2>3, <2>4 DEF NoNewWork
<1> QED BY <1>2, <1>3, <1>4, <1>5

LEMMA NoNewWorkKeepsAlone ==
    ASSUME AloneInv, NoNewWork
    PROVE  AloneInv'
BY AccountConstants DEF AloneInv, NoNewWork

\* Quiet steps that leave UserSecrets alone.
LEMMA QuietKeepsSecrets ==
    ASSUME AloneInv, SettledInv, NoNewWork, UNCHANGED <<secrets, settled>>
    PROVE  AloneInv' /\ SettledInv'
<1>1. AloneInv'
  BY NoNewWorkKeepsAlone
<1>2. SettledInv'
  BY AccountConstants DEF SettledInv, NoNewWork
<1> QED BY <1>1, <1>2

\* Beginning an operation on a name that is not, or no longer, settled.
LEMMA BeginKeepsSecrets ==
    ASSUME TypeOK, AloneInv, SettledInv, NEW r \in Req, NEW n \in Name,
           NEW local \in Request, Begin(r, n, local), secrets' = secrets,
           settled'[n] = 0,
           \A m \in Name : m # n => settled'[m] = settled[m]
    PROVE  AloneInv' /\ SettledInv'
<1>1. \A q \in Req : req[q] \in Request
  BY DEF TypeOK
<1>2. \A q \in Req : req'[q].name = IF q = r THEN n ELSE req[q].name
  BY <1>1 DEF Begin, Request
<1>3. /\ req'[r].alone => \A x \in Req : req[x].name # n
      /\ \A q \in Req : q # r /\ req'[q].alone => req[q].alone /\ req[q].name # n
  BY <1>1 DEF Begin, Request
<1>4. AloneInv'
  BY <1>2, <1>3 DEF AloneInv
<1>5. SettledInv'
  BY <1>2 DEF SettledInv
<1> QED BY <1>4, <1>5

LEMMA UnsettleOne ==
    ASSUME TypeOK, NEW n \in Name, Unsettle(n)
    PROVE  settled'[n] = 0 /\ \A m \in Name : m # n => settled'[m] = settled[m]
BY DEF TypeOK, Unsettle, Secrets

LEMMA BeginningsKeepSecrets ==
    ASSUME SecretInv, NEW r \in Req, NEW n \in Name,
           \/ \E role \in {"admin", "user"} : ProvisionUser(r, n, role)
           \/ ResetTOTP(r, n) \/ DeleteUser(r, n) \/ LoadUserSecret(r, n)
    PROVE  AloneInv' /\ SettledInv'
<1>1. TypeOK /\ AloneInv /\ SettledInv
  BY DEF SecretInv
<1>2. minted + 1 \in Nat
  BY <1>1 DEF TypeOK
<1>3. ASSUME NEW role \in {"admin", "user"}, ProvisionUser(r, n, role)
      PROVE  AloneInv' /\ SettledInv'
  <2> DEFINE local == [Idle EXCEPT !.pc = "create", !.role = role, !.new = TRUE,
                                   !.secret = minted + 1]
  <2>1. local \in Request
    BY <1>2, IdleIsRequest DEF Request, Pc
  <2> QED BY <1>1, <1>3, <2>1, BeginKeepsSecrets, UnsettleOne DEF ProvisionUser
<1>4. CASE ResetTOTP(r, n)
  <2> DEFINE local == [Idle EXCEPT !.pc = "storeRead", !.secret = minted + 1]
  <2>1. local \in Request
    BY <1>2, IdleIsRequest DEF Request, Pc
  <2> QED BY <1>1, <1>4, <2>1, BeginKeepsSecrets, UnsettleOne DEF ResetTOTP
<1>5. CASE DeleteUser(r, n)
  <2> DEFINE local == [Idle EXCEPT !.pc = "delete"]
  <2>1. local \in Request
    BY IdleIsRequest DEF Request, Pc
  <2> QED BY <1>1, <1>5, <2>1, BeginKeepsSecrets, UnsettleOne DEF DeleteUser
<1>6. CASE LoadUserSecret(r, n)
  <2> DEFINE local == [Idle EXCEPT !.pc = "cacheSecret", !.secret = vaultFile[n]]
  <2>1. vaultFile[n] \in Nat
    BY <1>1, <1>6 DEF TypeOK, LoadUserSecret, Secrets
  <2>2. local \in Request
    BY <2>1, IdleIsRequest DEF Request, Pc
  <2>3. settled[n] = 0
    BY <1>1, <1>6 DEF SettledInv, LoadUserSecret
  <2> QED BY <1>1, <1>6, <2>2, <2>3, BeginKeepsSecrets DEF LoadUserSecret
<1> QED BY <1>3, <1>4, <1>5, <1>6

\* The steps that change UserSecrets are on a name that is being worked on.
LEMMA MemoryKeepsSecrets ==
    ASSUME SecretInv, NEW r \in Req, Remember(r) \/ Forget(r) \/ CacheSecret(r)
    PROVE  AloneInv' /\ SettledInv'
<1> DEFINE n == req[r].name
<1>1. TypeOK /\ AloneInv /\ SettledInv
  BY DEF SecretInv
<1>2. RequestsOK /\ Answer(r)
  BY <1>1, TypeParts DEF Remember, Forget, CacheSecret
<1>3. NoNewWork
  BY <1>2, QuietSteps, IdleIsRequest DEF Pc
<1>4. n \in Name /\ settled[n] = 0
  BY <1>1, <1>2 DEF RequestsOK, SettledInv, Remember, Forget, CacheSecret
<1>5. /\ secrets \in [Name -> Nat] /\ settled \in [Name -> Nat]
      /\ req \in [Req -> Request]
  BY <1>1 DEF TypeOK, Secrets
<1>6. \A m \in Name : m # n => secrets'[m] = secrets[m]
  BY <1>4, <1>5 DEF Remember, Forget, CacheSecret
<1>7. \A m \in Name : m # n => settled'[m] = settled[m]
  BY <1>4, <1>5 DEF Remember, Forget, CacheSecret
<1>8. settled'[n] = 0 \/ (req[r].alone /\ settled'[n] = secrets'[n])
  BY <1>4, <1>5 DEF Remember, Forget, CacheSecret
<1>9. req[r].alone => \A q \in Req : req'[q].name # n
  <2> SUFFICES ASSUME req[r].alone, NEW q \in Req PROVE req'[q].name # n
    OBVIOUS
  <2>1. CASE q = r
    BY <1>2, <1>4, <1>5, <2>1, IdleIsRequest, AccountConstants DEF Answer
  <2>2. CASE q # r
    BY <1>1, <1>2, <1>5, <2>2 DEF Answer, AloneInv
  <2> QED BY <2>1, <2>2
<1>10. SettledInv'
  <2> SUFFICES ASSUME NEW m \in Name, settled'[m] # 0
               PROVE  secrets'[m] = settled'[m] /\ \A q \in Req : req'[q].name # m
    BY DEF SettledInv
  <2>1. CASE m = n
    BY <1>8, <1>9, <2>1
  <2>2. CASE m # n
    BY <1>1, <1>3, <1>6, <1>7, <2>2, AccountConstants DEF SettledInv, NoNewWork
  <2> QED BY <2>1, <2>2
<1> QED BY <1>1, <1>3, <1>10, NoNewWorkKeepsAlone

LEMMA OtherStepsKeepSecrets ==
    ASSUME SecretInv, NEW r \in Req,
           \/ Create(r) \/ StoreRead(r) \/ StoreWrite(r) \/ Rollback(r)
           \/ DeleteRecord(r) \/ WipeRead(r) \/ WipeWrite(r)
    PROVE  AloneInv' /\ SettledInv'
<1>1. TypeOK /\ AloneInv /\ SettledInv /\ RequestsOK /\ StoresOK
  BY TypeParts DEF SecretInv
<1>2. UNCHANGED <<secrets, settled>>
  BY DEF Create, StoreRead, StoreWrite, Rollback, DeleteRecord, WipeRead, WipeWrite
<1>3. NoNewWork
  <2>1. CASE Create(r)
    <3>1. births + 1 \in Nat
      BY <1>1 DEF StoresOK
    <3> QED BY <1>1, <2>1, <3>1, QuietSteps, IdleIsRequest DEF Create, Pc
  <2>2. CASE StoreRead(r)
    BY <1>1, <2>2, QuietSteps, IdleIsRequest
    DEF StoreRead, StoreFailed, StoresOK, Pc
  <2>3. CASE StoreWrite(r)
    BY <1>1, <2>3, QuietSteps, IdleIsRequest DEF StoreWrite, StoreFailed, Pc
  <2>4. CASE Rollback(r)
    BY <1>1, <2>4, QuietSteps, IdleIsRequest DEF Rollback, Pc
  <2>5. CASE DeleteRecord(r)
    BY <1>1, <2>5, QuietSteps, IdleIsRequest DEF DeleteRecord, Pc
  <2>6. CASE WipeRead(r)
    BY <1>1, <2>6, QuietSteps, IdleIsRequest DEF WipeRead, StoresOK, Pc
  <2>7. CASE WipeWrite(r)
    BY <1>1, <2>7, QuietSteps, IdleIsRequest DEF WipeWrite, Pc
  <2> QED BY <2>1, <2>2, <2>3, <2>4, <2>5, <2>6, <2>7
<1> QED BY <1>1, <1>2, <1>3, QuietKeepsSecrets

LEMMA ProcessKeepsSecrets ==
    ASSUME SecretInv,
           SetAllowedServices \/ Start \/ Stop
    PROVE  AloneInv' /\ SettledInv'
<1>1. CASE UNCHANGED <<req, secrets, settled>>
  BY <1>1 DEF SecretInv, AloneInv, SettledInv
<1>2. CASE Stop
  <2>1. \A n \in Name : settled'[n] = 0
    BY <1>2 DEF Stop, NoSecrets
  <2> QED BY <1>2, <2>1, IdleIsRequest DEF Stop, AloneInv, SettledInv
<1> QED
  BY <1>1, <1>2 DEF SetAllowedServices, Start

LEMMA SecretStep == SecretInv /\ [Next]_vars => SecretInv'
<1> SUFFICES ASSUME SecretInv, [Next]_vars PROVE SecretInv'
  OBVIOUS
<1>1. TypeOK'
  BY NextType DEF SecretInv
<1>2. CASE UNCHANGED vars
  BY <1>1, <1>2 DEF vars, SecretInv, AloneInv, SettledInv
<1>3. CASE Next
  BY <1>1, <1>3, BeginningsKeepSecrets, MemoryKeepsSecrets, OtherStepsKeepSecrets,
     ProcessKeepsSecrets
  DEF Next, SecretInv
<1> QED BY <1>2, <1>3

LEMMA SecretStart == Init => SecretInv
<1> SUFFICES ASSUME Init PROVE SecretInv
  OBVIOUS
<1>1. TypeOK
  BY InitType
<1>2. \A r \in Req : req[r] = Idle
  BY DEF Init
<1> QED
  BY <1>1, <1>2, IdleIsRequest, AccountConstants
  DEF Init, SecretInv, AloneInv, SettledInv

\* The secret that an operation showed, having its name to itself, is the one the
\* login uses until the next operation on the name, for any number of requests
\* and names, whatever fails.
THEOREM ShownSecretIsInUse == Spec => []SecretInUse
<1>1. SecretInv => SecretInUse
  BY DEF SecretInv, SettledInv, SecretInUse
<1> QED BY <1>1, SecretStart, SecretStep, PTL DEF Spec

-----------------------------------------------------------------------------
(* The user store, for the gateway alone                                     *)

\* A store c, in memory or on disk, has Root as its oldest account.
HoldsRoot(c) ==
    /\ c[Root] = [role |-> "admin", born |-> 1]
    /\ \A n \in Name : c[n] = NoUser \/ c[n].born >= 1

\* No request is about to remove Root.
RootIsSafe(q) ==
    q.name = Root => /\ q.pc \notin {"delete", "rollback"}
                     /\ q.pc \in {"storeRead", "storeWrite"} => ~q.new

\* The account that is owed for the name of a creation is the creation's own: a
\* rollback takes no other.
OwnAccount(q, c, o) ==
    /\ q.pc = "rollback" => q.new
    /\ q.new /\ q.pc \in {"storeRead", "storeWrite", "rollback"} /\ o[q.name] = "yes"
          => c[q.name].born = q.born

\* What holds until a start finds Root's account cut away.
RootInv ==
    /\ owed[Root] = "yes"
    /\ up => HoldsRoot(cache)
    /\ usersFile # Corrupt => HoldsRoot(usersFile)
    /\ \A r \in Req : RootIsSafe(req[r])

OwnInv == \A r \in Req : OwnAccount(req[r], cache, owed)

UsersInv ==
    /\ SecretInv /\ UsersDurable /\ OwnInv
    /\ Root \notin lost => RootInv

\* In a store that holds Root, Root is the protected administrator.
LEMMA RootIsProtected ==
    ASSUME HoldsRoot(cache)
    PROVE  IsProtectedAdmin(Root)
BY DEF HoldsRoot, IsProtectedAdmin, NoUser

\* Steps that change neither store nor what is owed.
LEMMA StoresUntouched ==
    ASSUME UsersInv, SecretInv', UNCHANGED <<up, cache, usersFile, owed, lost>>,
           OwnInv', Root \notin lost => \A r \in Req : RootIsSafe(req'[r])
    PROVE  UsersInv'
<1>1. UsersDurable'
  BY DEF UsersInv, UsersDurable, KeepsOwed
<1>2. (Root \notin lost => RootInv)'
  BY DEF UsersInv, RootInv, HoldsRoot
<1> QED BY <1>1, <1>2 DEF UsersInv

\* The idle request and one that has not moved are safe.
LEMMA IdleIsSafe == RootIsSafe(Idle) /\ \A c, o : OwnAccount(Idle, c, o)
BY IdleIsRequest, AccountConstants DEF RootIsSafe, OwnAccount

LEMMA BeginIsSafe ==
    ASSUME UsersInv, NEW r \in Req, NEW n \in Name, NEW local \in Request,
           Begin(r, n, local), UNCHANGED <<cache, owed>>,
           local.pc # "rollback", local.new => local.pc = "create",
           Root \notin lost => RootIsSafe([local EXCEPT !.name = n])
    PROVE  OwnInv' /\ (Root \notin lost => \A q \in Req : RootIsSafe(req'[q]))
<1>1. \A q \in Req : req[q] \in Request
  BY DEF UsersInv, SecretInv, TypeOK
<1>2. \A q \in Req :
         /\ req'[q].name = IF q = r THEN n ELSE req[q].name
         /\ req'[q].pc = IF q = r THEN local.pc ELSE req[q].pc
         /\ req'[q].new = IF q = r THEN local.new ELSE req[q].new
         /\ req'[q].born = IF q = r THEN local.born ELSE req[q].born
  BY <1>1 DEF Begin, Request
<1>3. /\ [local EXCEPT !.name = n].name = n
      /\ [local EXCEPT !.name = n].pc = local.pc
      /\ [local EXCEPT !.name = n].new = local.new
  BY DEF Request
<1>4. OwnInv'
  <2>1. \A q \in Req : OwnAccount(req[q], cache, owed)
    BY DEF UsersInv, OwnInv
  <2>2. \A q \in Req : q # r => OwnAccount(req'[q], cache, owed)
    BY <1>2, <2>1 DEF OwnAccount
  <2>3. OwnAccount(req'[r], cache, owed)
    BY <1>2 DEF OwnAccount
  <2> QED BY <2>2, <2>3 DEF OwnInv
<1>5. ASSUME Root \notin lost PROVE \A q \in Req : RootIsSafe(req'[q])
  <2>1. \A q \in Req : RootIsSafe(req[q])
    BY <1>5 DEF UsersInv, RootInv
  <2> QED BY <1>2, <1>3, <1>5, <2>1 DEF RootIsSafe
<1> QED BY <1>4, <1>5

LEMMA BeginningsKeepUsers ==
    ASSUME UsersInv, SecretInv', NEW r \in Req, NEW n \in Name,
           \/ \E role \in {"admin", "user"} : ProvisionUser(r, n, role)
           \/ ResetTOTP(r, n) \/ DeleteUser(r, n) \/ LoadUserSecret(r, n)
    PROVE  UsersInv'
<1>1. TypeOK /\ minted + 1 \in Nat
  BY DEF UsersInv, SecretInv, TypeOK
<1>2. ASSUME NEW role \in {"admin", "user"}, ProvisionUser(r, n, role)
      PROVE  UsersInv'
  <2> DEFINE local == [Idle EXCEPT !.pc = "create", !.role = role, !.new = TRUE,
                                   !.secret = minted + 1]
  <2>1. local \in Request /\ local.pc = "create"
    BY <1>1, IdleIsRequest DEF Request, Pc
  <2>2. RootIsSafe([local EXCEPT !.name = n])
    BY <2>1 DEF RootIsSafe, Request
  <2> HIDE DEF local
  <2>3. Begin(r, n, local)
    BY <1>2 DEF ProvisionUser, local
  <2> QED BY <1>2, <2>1, <2>2, <2>3, BeginIsSafe, StoresUntouched DEF ProvisionUser
<1>3. CASE ResetTOTP(r, n)
  <2> DEFINE local == [Idle EXCEPT !.pc = "storeRead", !.secret = minted + 1]
  <2>1. local \in Request /\ local.pc = "storeRead" /\ local.new = FALSE
    BY <1>1, IdleIsRequest DEF Request, Pc, Idle
  <2>2. RootIsSafe([local EXCEPT !.name = n])
    BY <2>1 DEF RootIsSafe, Request
  <2> HIDE DEF local
  <2>3. Begin(r, n, local)
    BY <1>3 DEF ResetTOTP, local
  <2> QED BY <1>3, <2>1, <2>2, <2>3, BeginIsSafe, StoresUntouched DEF ResetTOTP
<1>4. CASE DeleteUser(r, n)
  <2> DEFINE local == [Idle EXCEPT !.pc = "delete"]
  <2>1. local \in Request /\ local.pc = "delete" /\ local.new = FALSE
    BY IdleIsRequest DEF Request, Pc, Idle
  <2>2. Root \notin lost => n # Root
    BY <1>4, RootIsProtected DEF DeleteUser, UsersInv, RootInv
  <2>3. Root \notin lost => RootIsSafe([local EXCEPT !.name = n])
    BY <2>1, <2>2 DEF RootIsSafe, Request
  <2> HIDE DEF local
  <2>4. Begin(r, n, local)
    BY <1>4 DEF DeleteUser, local
  <2> QED BY <1>4, <2>1, <2>3, <2>4, BeginIsSafe, StoresUntouched DEF DeleteUser
<1>5. CASE LoadUserSecret(r, n)
  <2> DEFINE local == [Idle EXCEPT !.pc = "cacheSecret", !.secret = vaultFile[n]]
  <2>1. vaultFile[n] \in Nat
    BY <1>1, <1>5 DEF TypeOK, LoadUserSecret, Secrets
  <2>2. local \in Request /\ local.pc = "cacheSecret" /\ local.new = FALSE
    BY <2>1, IdleIsRequest DEF Request, Pc, Idle
  <2>3. RootIsSafe([local EXCEPT !.name = n])
    BY <2>2 DEF RootIsSafe, Request
  <2> HIDE DEF local
  <2>4. Begin(r, n, local)
    BY <1>5 DEF LoadUserSecret, local
  <2> QED BY <1>5, <2>2, <2>3, <2>4, BeginIsSafe, StoresUntouched DEF LoadUserSecret
<1> QED BY <1>2, <1>3, <1>4, <1>5

\* Every request but r is as safe as it was when r answers or moves.
LEMMA AnswerIsSafe ==
    ASSUME UsersInv, NEW r \in Req, Answer(r)
    PROVE  Root \notin lost => \A q \in Req : RootIsSafe(req'[q])
BY IdleIsSafe DEF UsersInv, RootInv, SecretInv, TypeOK, Answer

LEMMA AnswerIsOwn ==
    ASSUME UsersInv, NEW r \in Req, Answer(r), UNCHANGED <<cache, owed>>
    PROVE  OwnInv'
BY IdleIsSafe DEF UsersInv, OwnInv, SecretInv, TypeOK, Answer

\* A request that moves is safe where it arrives if its name is not Root, or if
\* the place is harmless.
LEMMA MoveIsSafe ==
    ASSUME UsersInv, NEW r \in Req, NEW pc \in Pc, NEW v \in Secrets,
           Goto(r, pc) \/ req' = [req EXCEPT ![r].pc = pc, ![r].read = v],
           \/ req[r].name # Root
           \/ /\ pc \notin {"delete", "rollback"}
              /\ pc \in {"storeRead", "storeWrite"} => ~req[r].new
    PROVE  Root \notin lost => \A q \in Req : RootIsSafe(req'[q])
<1>1. req \in [Req -> Request]
  BY DEF UsersInv, SecretInv, TypeOK
<1>2. Root \notin lost => \A q \in Req : RootIsSafe(req[q])
  BY DEF UsersInv, RootInv
<1>3. /\ req'[r].name = req[r].name /\ req'[r].pc = pc
      /\ req'[r].new = req[r].new
      /\ \A q \in Req : q # r => req'[q] = req[q]
  BY <1>1 DEF Goto, Request
<1> QED BY <1>1, <1>2, <1>3 DEF RootIsSafe

\* ... and its account stays its own, once it has one.
LEMMA MoveIsOwn ==
    ASSUME UsersInv, NEW r \in Req, NEW pc \in Pc, NEW v \in Secrets,
           Goto(r, pc) \/ req' = [req EXCEPT ![r].pc = pc, ![r].read = v],
           \/ pc \notin {"storeRead", "storeWrite", "rollback"}
           \/ req[r].pc \in {"storeRead", "storeWrite", "rollback"},
           pc = "rollback" => req[r].new, UNCHANGED <<cache, owed>>
    PROVE  OwnInv'
<1>1. req \in [Req -> Request] /\ \A q \in Req : OwnAccount(req[q], cache, owed)
  BY DEF UsersInv, SecretInv, TypeOK, OwnInv
<1>2. /\ req'[r].name = req[r].name /\ req'[r].pc = pc
      /\ req'[r].new = req[r].new /\ req'[r].born = req[r].born
      /\ \A q \in Req : q # r => req'[q] = req[q]
  BY <1>1 DEF Goto, Request
<1>3. OwnAccount(req'[r], cache, owed)
  BY <1>1, <1>2 DEF OwnAccount
<1> QED BY <1>1, <1>2, <1>3 DEF OwnInv

LEMMA VaultStepsKeepUsers ==
    ASSUME UsersInv, SecretInv', NEW r \in Req,
           \/ StoreRead(r) \/ StoreWrite(r) \/ WipeRead(r) \/ WipeWrite(r)
    PROVE  UsersInv'
<1>1. NoSecrets \in Secrets /\ vaultFile \in Secrets \cup {Corrupt}
  BY IdleIsRequest DEF UsersInv, SecretInv, TypeOK
<1>2. Root \notin lost => RootIsSafe(req[r])
  BY DEF UsersInv, RootInv
<1>3. UNCHANGED <<up, cache, usersFile, owed, lost>>
  BY DEF StoreRead, StoreWrite, WipeRead, WipeWrite
<1>4. CASE StoreRead(r) \/ StoreWrite(r)
  <2>1. Root \notin lost /\ req[r].name = Root => ~req[r].new
    BY <1>2, <1>4 DEF StoreRead, StoreWrite, RootIsSafe
  <2>2. PICK pc \in {"storeWrite", "remember", "rollback"}, v \in Secrets :
           \/ Answer(r)
           \/ /\ Goto(r, pc) \/ req' = [req EXCEPT ![r].pc = pc, ![r].read = v]
              /\ pc = "rollback" => req[r].new
    BY <1>1, <1>4 DEF StoreRead, StoreWrite, StoreFailed
  <2>3. pc \in Pc /\ req[r].pc \in {"storeRead", "storeWrite", "rollback"}
    BY <1>4 DEF StoreRead, StoreWrite, Pc
  <2>4. OwnInv'
    BY <1>3, <2>2, <2>3, AnswerIsOwn, MoveIsOwn
  <2>5. Root \notin lost => \A q \in Req : RootIsSafe(req'[q])
    BY <2>1, <2>2, <2>3, AnswerIsSafe, MoveIsSafe
  <2> QED BY <1>3, <2>4, <2>5, StoresUntouched
<1>5. CASE WipeRead(r) \/ WipeWrite(r)
  <2>1. PICK pc \in {"wipeWrite", "forget"}, v \in Secrets :
           Goto(r, pc) \/ req' = [req EXCEPT ![r].pc = pc, ![r].read = v]
    BY <1>1, <1>5 DEF WipeRead, WipeWrite
  <2>2. pc \in Pc
    BY DEF Pc
  <2>3. OwnInv'
    BY <1>3, <2>1, <2>2, MoveIsOwn
  <2>4. Root \notin lost => \A q \in Req : RootIsSafe(req'[q])
    BY <2>1, <2>2, MoveIsSafe
  <2> QED BY <1>3, <2>3, <2>4, StoresUntouched
<1> QED BY <1>4, <1>5

LEMMA MemoryStepsKeepUsers ==
    ASSUME UsersInv, SecretInv', NEW r \in Req,
           Remember(r) \/ Forget(r) \/ CacheSecret(r)
    PROVE  UsersInv'
BY AnswerIsSafe, AnswerIsOwn, StoresUntouched DEF Remember, Forget, CacheSecret

\* A creation that adds an account.
LEMMA CreateKeepsUsers ==
    ASSUME UsersInv, SecretInv', NEW r \in Req, Create(r)
    PROVE  UsersInv'
<1> DEFINE n == req[r].name
<1>1. up /\ up' = up /\ lost' = lost /\ n \in Name /\ TypeOK /\ TypeOK' /\ AloneInv
  BY DEF UsersInv, SecretInv, TypeOK, Create
<1>2. CASE Exists(n)
  BY <1>2, AnswerIsSafe, AnswerIsOwn, StoresUntouched DEF Create
<1>3. CASE ~Exists(n)
  <2>1. Root \notin lost => n # Root
    BY <1>1, <1>3 DEF UsersInv, RootInv, HoldsRoot, Exists, NoUser
  <2>2. /\ births \in Nat /\ cache \in Users
        /\ cache' = [cache EXCEPT ![n] = [role |-> req[r].role, born |-> births + 1]]
    BY <1>1, <1>3 DEF TypeOK, Create
  <2>3. /\ cache'[n].born = births + 1 /\ cache'[n] # NoUser
        /\ \A m \in Name : m # n => cache'[m] = cache[m]
    BY <1>1, <2>2 DEF Users, NoUser
  <2>4. /\ owed'[n] \in {"yes", "half"} /\ (owed'[n] = "yes" => req[r].alone)
        /\ \A m \in Name : m # n => owed'[m] = owed[m]
    BY <1>1, <1>3 DEF TypeOK, Create
  <2>5. KeepsOwed(cache)'
    BY <1>1, <2>3, <2>4 DEF UsersInv, UsersDurable, KeepsOwed
  <2>6. \/ usersFile' \in {cache', Corrupt}
        \/ usersFile' = usersFile /\ owed'[n] = "half"
    BY <1>1, <1>3 DEF TypeOK, Create, UsersSaved, UsersNotSaved
  <2>7. (usersFile # Corrupt => KeepsOwed(usersFile))'
    <3>1. CASE usersFile' = cache'
      BY <2>5, <3>1 DEF KeepsOwed
    <3>2. CASE usersFile' = usersFile /\ owed'[n] = "half"
      BY <2>4, <3>2 DEF UsersInv, UsersDurable, KeepsOwed
    <3> QED BY <2>6, <3>1, <3>2
  <2>8. \/ Answer(r) /\ owed'[n] = "half"
        \/ req' = [req EXCEPT ![r].pc = "storeRead", ![r].born = births + 1]
    BY <1>1, <1>3 DEF TypeOK, Create
  <2>9. \A q \in Req : q # r => req'[q] = req[q]
    BY <1>1, <2>8 DEF TypeOK, Answer
  <2>10. /\ req'[r].name # NoName => req'[r].name = n
         /\ req'[r] = Idle \/ req'[r].born = births + 1
    BY <1>1, <2>8, IdleIsRequest DEF TypeOK, Request, Answer
  <2>11. OwnInv'
    <3>0. \A q \in Req : req'[q].pc = "rollback" => req'[q].new
      BY <1>1, <2>8, <2>9, IdleIsRequest
      DEF UsersInv, OwnInv, OwnAccount, TypeOK, Request, Answer
    <3> SUFFICES ASSUME NEW q \in Req, req'[q].new,
                        req'[q].pc \in {"storeRead", "storeWrite", "rollback"},
                        owed'[req'[q].name] = "yes"
                 PROVE  cache'[req'[q].name].born = req'[q].born
      BY <3>0 DEF OwnInv, OwnAccount
    <3>1. CASE q = r
      <4>1. req'[r].name \in Name /\ req'[r] # Idle
        BY <1>1, <3>1, IdleIsRequest DEF TypeOK
      <4>2. req'[r].name = n /\ req'[r].born = births + 1
        BY <2>10, <4>1, AccountConstants
      <4> QED BY <2>3, <3>1, <4>2
    <3>2. CASE q # r
      <4>1. req'[q] = req[q] /\ req[q].name \in Name
        BY <1>1, <2>9, <3>2 DEF TypeOK
      <4>2. req[q].name # n
        BY <1>1, <2>4, <3>2, <4>1 DEF AloneInv
      <4> QED BY <2>3, <2>4, <4>1, <4>2 DEF UsersInv, OwnInv, OwnAccount
    <3> QED BY <3>1, <3>2
  <2>12. (Root \notin lost => RootInv)'
    <3> SUFFICES ASSUME Root \notin lost PROVE RootInv'
      BY <1>1
    <3>1. RootInv /\ n # Root
      BY <2>1 DEF UsersInv
    <3>2. HoldsRoot(cache)'
      BY <1>1, <2>2, <2>3, <3>1, AccountConstants DEF RootInv, HoldsRoot
    <3>3. (usersFile # Corrupt => HoldsRoot(usersFile))'
      BY <2>6, <3>1, <3>2 DEF RootInv, HoldsRoot
    <3>4. req'[r].name # Root
      BY <2>10, <3>1, AccountConstants
    <3>5. \A q \in Req : RootIsSafe(req'[q])
      BY <2>9, <3>1, <3>4 DEF RootInv, RootIsSafe
    <3> QED BY <2>4, <3>1, <3>2, <3>3, <3>5, AccountConstants DEF RootInv
  <2> QED BY <1>1, <2>5, <2>7, <2>11, <2>12 DEF UsersInv, UsersDurable
<1> QED BY <1>2, <1>3

\* UserStore.Delete, when what is owed afterwards is not an account.
LEMMA DeleteKeepsUsers ==
    ASSUME UsersInv, up, up' = up, lost' = lost, NEW n \in Name, NEW left,
           left # "yes", Delete(n, left), Root \notin lost => n # Root
    PROVE  /\ UsersDurable'
           /\ \A m \in Name : owed'[m] = "yes" => owed[m] = "yes" /\ cache'[m] = cache[m]
           /\ Root \notin lost => /\ owed'[Root] = "yes" /\ HoldsRoot(cache')
                                  /\ usersFile' # Corrupt => HoldsRoot(usersFile')
<1>1. cache \in Users /\ owed \in [Name -> {"no", "half", "yes"}]
  BY DEF UsersInv, SecretInv, TypeOK
<1>2. CASE UsersNotSaved /\ UNCHANGED <<cache, owed>>
  BY <1>2 DEF UsersNotSaved, UsersInv, RootInv, UsersDurable, KeepsOwed
<1>3. CASE /\ cache' = [cache EXCEPT ![n] = NoUser] /\ UsersSaved(cache')
           /\ owed' = [owed EXCEPT ![n] = left]
  <2>1. /\ cache'[n] = NoUser /\ owed'[n] = left /\ usersFile' = cache'
        /\ \A m \in Name : m # n => cache'[m] = cache[m] /\ owed'[m] = owed[m]
    BY <1>1, <1>3 DEF Users, UsersSaved
  <2>2. KeepsOwed(cache)'
    BY <2>1 DEF UsersInv, UsersDurable, KeepsOwed
  <2>3. KeepsOwed(usersFile)'
    BY <2>1, <2>2 DEF KeepsOwed
  <2>4. Root \notin lost => owed'[Root] = "yes" /\ HoldsRoot(cache')
    BY <2>1, AccountConstants DEF UsersInv, RootInv, HoldsRoot
  <2> QED BY <2>1, <2>2, <2>3, <2>4 DEF UsersDurable
<1> QED BY <1>2, <1>3 DEF Delete

LEMMA DeletionsKeepUsers ==
    ASSUME UsersInv, SecretInv', NEW r \in Req, Rollback(r) \/ DeleteRecord(r)
    PROVE  UsersInv'
<1> DEFINE n == req[r].name
<1>1. /\ up /\ up' = up /\ lost' = lost /\ n \in Name
      /\ req \in [Req -> Request] /\ req[r].pc \in {"rollback", "delete"}
  BY DEF UsersInv, SecretInv, TypeOK, Rollback, DeleteRecord
<1>2. Root \notin lost => n # Root
  BY DEF UsersInv, RootInv, RootIsSafe, Rollback, DeleteRecord
<1>3. Answer(r) \/ Goto(r, "wipeRead")
  BY DEF Rollback, DeleteRecord
<1>4. Root \notin lost => \A q \in Req : RootIsSafe(req'[q])
  BY <1>2, <1>3, IdleIsRequest, AnswerIsSafe, MoveIsSafe DEF Pc
<1>5. ASSUME NEW left, left # "yes", Delete(n, left) PROVE UsersInv'
  <2>1. /\ UsersDurable'
        /\ \A m \in Name : owed'[m] = "yes" => owed[m] = "yes" /\ cache'[m] = cache[m]
        /\ Root \notin lost => /\ owed'[Root] = "yes" /\ HoldsRoot(cache')
                               /\ usersFile' # Corrupt => HoldsRoot(usersFile')
    BY <1>1, <1>2, <1>5, DeleteKeepsUsers
  <2>2. OwnInv'
    <3>0. \A q \in Req : req'[q].pc = "rollback" => req'[q].new
      BY <1>1, <1>3, IdleIsRequest DEF UsersInv, OwnInv, OwnAccount, Request, Answer, Goto
    <3> SUFFICES ASSUME NEW q \in Req, req'[q].new,
                        req'[q].pc \in {"storeRead", "storeWrite", "rollback"},
                        owed'[req'[q].name] = "yes"
                 PROVE  cache'[req'[q].name].born = req'[q].born
      BY <3>0 DEF OwnInv, OwnAccount
    <3>1. q # r
      <4>1. req'[r].pc \in {"idle", "wipeRead"}
        BY <1>1, <1>3, IdleIsRequest DEF Answer, Goto, Request
      <4> QED BY <4>1
    <3>2. req'[q] = req[q] /\ req[q].name \in Name
      BY <1>1, <1>3, <3>1 DEF Answer, Goto, UsersInv, SecretInv, TypeOK
    <3> QED BY <2>1, <3>2 DEF UsersInv, OwnInv, OwnAccount
  <2>3. (Root \notin lost => RootInv)'
    BY <1>1, <1>4, <2>1 DEF RootInv, HoldsRoot
  <2> QED BY <2>1, <2>2, <2>3 DEF UsersInv
<1>6. CASE UNCHANGED <<cache, usersFile, owed>>
  <2>1. OwnInv'
    BY <1>3, <1>6, IdleIsRequest, AnswerIsOwn, MoveIsOwn DEF Pc
  <2> QED BY <1>1, <1>4, <1>6, <2>1, StoresUntouched
<1>7. CASE DeleteRecord(r)
  BY <1>5, <1>6, <1>7 DEF DeleteRecord
<1>8. CASE Rollback(r)
  <2> DEFINE left == IF cache[n].born = req[r].born THEN "no" ELSE owed[n]
  <2>1. Delete(n, left) \/ UNCHANGED <<cache, usersFile, owed>>
    BY <1>8 DEF Rollback
  <2>2. CASE left = "yes"
    BY <1>8, <2>2 DEF UsersInv, OwnInv, OwnAccount, Rollback
  <2> QED BY <1>5, <1>6, <2>1, <2>2
<1> QED BY <1>7, <1>8

LEMMA ProcessKeepsUsers ==
    ASSUME UsersInv, SecretInv',
           SetAllowedServices \/ Start \/ Stop
    PROVE  UsersInv'
<1>1. CASE SetAllowedServices
  <2>1. usersFile' \in {cache, usersFile, Corrupt} /\ up
        /\ UNCHANGED <<up, cache, req, owed, lost>>
    BY <1>1 DEF SetAllowedServices, UsersSaved, UsersNotSaved
  <2>2. UsersDurable'
    BY <2>1 DEF UsersInv, UsersDurable, KeepsOwed
  <2>3. (Root \notin lost => RootInv)'
    BY <2>1 DEF UsersInv, RootInv, HoldsRoot
  <2>4. OwnInv'
    BY <2>1 DEF UsersInv, OwnInv, OwnAccount
  <2> QED BY <2>2, <2>3, <2>4 DEF UsersInv
<1>2. CASE Start
  <2>1. \A r \in Req : req'[r].pc = "idle"
    BY <1>2 DEF Start, UsersInv, SecretInv, TypeOK
  <2>2. OwnInv'
    BY <2>1 DEF OwnInv, OwnAccount
  <2>3. CASE usersFile = Corrupt
    <3>1. /\ usersFile' = Corrupt /\ cache' = NobodyYet
          /\ owed' = [n \in Name |-> "no"] /\ Root \in lost'
      BY <1>2, <2>3, AccountConstants DEF Start, UsersInv, RootInv
    <3> QED BY <2>2, <3>1 DEF UsersInv, UsersDurable, KeepsOwed, NobodyYet
  <2>4. CASE usersFile # Corrupt
    <3>1. UNCHANGED <<usersFile, req, owed, lost>> /\ cache' = usersFile
      BY <1>2, <2>4 DEF Start
    <3>2. UsersDurable'
      BY <2>4, <3>1 DEF UsersInv, UsersDurable, KeepsOwed
    <3>3. (Root \notin lost => RootInv)'
      BY <2>4, <3>1 DEF UsersInv, RootInv, HoldsRoot
    <3> QED BY <2>2, <3>2, <3>3 DEF UsersInv
  <2> QED BY <2>3, <2>4
<1>3. CASE Stop
  <2>1. ~up' /\ UNCHANGED <<usersFile, owed, lost>> /\ \A r \in Req : req'[r] = Idle
    BY <1>3 DEF Stop
  <2>2. OwnInv'
    BY <2>1, IdleIsSafe DEF OwnInv
  <2>3. (Root \notin lost => RootInv)'
    BY <2>1, IdleIsSafe DEF UsersInv, RootInv, HoldsRoot
  <2>4. UsersDurable'
    BY <2>1 DEF UsersInv, UsersDurable, KeepsOwed
  <2> QED BY <2>2, <2>3, <2>4 DEF UsersInv
<1> QED BY <1>1, <1>2, <1>3

LEMMA UsersStep == UsersInv /\ [Next]_vars => UsersInv'
<1> SUFFICES ASSUME UsersInv, [Next]_vars PROVE UsersInv'
  OBVIOUS
<1>1. SecretInv'
  BY SecretStep DEF UsersInv
<1>2. CASE UNCHANGED vars
  BY <1>1, <1>2 DEF vars, UsersInv, UsersDurable, KeepsOwed, OwnInv, OwnAccount,
                    RootInv, HoldsRoot
<1>3. CASE Next
  BY <1>1, <1>3, BeginningsKeepUsers, VaultStepsKeepUsers, MemoryStepsKeepUsers,
     CreateKeepsUsers, DeletionsKeepUsers, ProcessKeepsUsers
  DEF Next
<1> QED BY <1>2, <1>3

LEMMA UsersStart == Init => UsersInv
<1> SUFFICES ASSUME Init PROVE UsersInv
  OBVIOUS
<1>1. SecretInv /\ TypeOK
  BY SecretStart, InitType
<1>2. /\ cache[Root] = [role |-> "admin", born |-> 1] /\ owed[Root] = "yes"
      /\ \A n \in Name : n # Root => cache[n] = NoUser /\ owed[n] = "no"
  BY AccountConstants DEF Init, Only
<1>3. usersFile = cache /\ cache[Root] # NoUser /\ \A r \in Req : req[r] = Idle
  BY <1>2 DEF Init, NoUser
<1>4. UsersDurable
  BY <1>2, <1>3 DEF UsersDurable, KeepsOwed
<1>5. RootInv
  BY <1>2, <1>3, IdleIsSafe DEF RootInv, HoldsRoot
<1>6. OwnInv
  BY <1>3, IdleIsSafe DEF OwnInv
<1> QED BY <1>1, <1>4, <1>5, <1>6 DEF UsersInv

\* Whatever write fails, leaving the old file or a cut one, and whenever the
\* gateway stops: until a start finds users.json cut, memory and file hold every
\* account saved by a creation that had the name to itself, up to its saved
\* deletion, and none whose deletion was saved.
THEOREM AccountsAreDurable == Spec => []UsersDurable
<1>1. UsersInv => UsersDurable
  BY DEF UsersInv
<1>2. UsersInv /\ [Next]_vars => UsersInv'
  BY UsersStep
<1> QED BY <1>1, <1>2, UsersStart, PTL DEF Spec

\* The first administrator is never removed and stays the protected one until a
\* start finds users.json cut, although
\* DeleteUserHandler checks and deletes in separate critical sections.
THEOREM FirstAdminIsKept == Spec => []FirstAdminStays
<1>1. UsersInv => FirstAdminStays
  BY RootIsProtected DEF UsersInv, RootInv, FirstAdminStays
<1>2. UsersInv /\ [Next]_vars => UsersInv'
  BY UsersStep
<1> QED BY <1>1, <1>2, UsersStart, PTL DEF Spec

=============================================================================
