----------------------------- MODULE LoginProofs -----------------------------
(* Proofs about Login for every set of requests, users and texts and every   *)
(* choice of the durations allowed by LoginConstants.                        *)
EXTENDS Login, FiniteSetTheorems, TLAPS

(* ---------------------------- type correctness --------------------------- *)

\* What a request knows at each point of its handler: a verify has a code, a
\* request past IsLockedOut has the instant of its check, and one between
\* totp.Validate and replayMu has the instant of a successful validation.
LocalOK(x, t) ==
    /\ x \in Request
    /\ x.pc \notin {"idle", "verifyPeek"} => x.user \in User
    /\ x.pc \in {"verifyPeek", "verifyCheck", "verifyTOTP", "verifyReplay"}
         => x.text \in Text
    /\ x.pc \in PastCheck => x.checkedAt \in Nat /\ x.checkedAt <= t
    /\ x.pc = "verifyReplay" => /\ x.validatedAt \in Nat
                                /\ x.validatedAt <= t
                                /\ ValidAt(x.text, x.validatedAt)

ReqOK == /\ req \in [Req -> Request]
         /\ \A r \in Req : LocalOK(req[r], now)

MapsOK ==
    /\ challenges \subseteq [tok : Nat, user : User, expires : Nat]
    /\ sessions \subseteq [tok : Nat, user : User, expires : Nat, via : Nat]
    /\ usedCodes \subseteq [user : User, text : Text, expires : Nat]
    /\ lockouts \in [User -> [failures : Nat, lockedAt : Nat \cup {Never}]]

RestOK == /\ now \in Nat /\ minted \in Nat
          /\ setupRequired \in BOOLEAN /\ hasAdmin \in BOOLEAN
          /\ resetting \in {"no", "sessions", "reload"}
          /\ accepted \in Seq(Acceptance)

TypeInv == ReqOK /\ MapsOK /\ RestOK

LEMMA TypeInvTypeOK == TypeInv => TypeOK
  BY DEF TypeInv, ReqOK, MapsOK, RestOK, LocalOK, TypeOK

LEMMA IdleOK == ASSUME NEW t PROVE LocalOK(Idle, t)
  BY LoginConstants DEF LocalOK, Idle, Request, Pc, PastCheck, Never

\* A step that replaces the locals of one request and leaves the clock alone.
LEMMA ReqStep ==
  ASSUME ReqOK, NEW r \in Req, NEW x, LocalOK(x, now),
         req' = [req EXCEPT ![r] = x], now' = now
  PROVE  ReqOK'
  BY DEF ReqOK, LocalOK

LEMMA AnswerStep ==
  ASSUME ReqOK, NEW r \in Req, Answer(r), now' = now
  PROVE  ReqOK'
  BY ReqStep, IdleOK DEF Answer

LEMMA GotoStep ==
  ASSUME ReqOK, NEW r \in Req, NEW pc \in Pc, Goto(r, pc), now' = now,
         LocalOK([req[r] EXCEPT !.pc = pc], now)
  PROVE  ReqOK'
  BY ReqStep DEF Goto

LEMMA InitTypeInv == Init => TypeInv
  <1> SUFFICES ASSUME Init PROVE TypeInv
    OBVIOUS
  <1>1. ReqOK
    BY IdleOK DEF Init, ReqOK, LocalOK
  <1>2. MapsOK
    BY DEF Init, MapsOK, NoEntry
  <1>3. accepted \in Seq(Acceptance)
    BY DEF Init
  <1>4. RestOK
    BY <1>3 DEF Init, RestOK
  <1> QED
    BY <1>1, <1>2, <1>4 DEF TypeInv

LEMMA LoginStartType ==
  ASSUME TypeInv, NEW r \in Req, NEW u \in User, LoginStart(r, u)
  PROVE  TypeInv'
  <1>1. LocalOK([Idle EXCEPT !.pc = "loginCheck", !.user = u], now)
    BY LoginConstants DEF LocalOK, Idle, Request, Pc, PastCheck, Never
  <1>2. ReqOK'
    BY <1>1, ReqStep DEF LoginStart, TypeInv
  <1> QED
    BY <1>2 DEF TypeInv, MapsOK, RestOK, LoginStart

LEMMA CheckLockoutType ==
  ASSUME TypeInv, NEW r \in Req, CheckLockout(r)
  PROVE  TypeInv'
  <1> DEFINE x == [req[r] EXCEPT
                     !.pc = IF @ = "loginCheck" THEN "loginPassword"
                                                ELSE "verifyTOTP",
                     !.checkedAt = now]
  <1>1. LocalOK(x, now)
    <2>1. /\ req[r].pc \in {"loginCheck", "verifyCheck"}
          /\ LocalOK(req[r], now) /\ now \in Nat
      BY DEF TypeInv, ReqOK, RestOK, CheckLockout
    <2>2. /\ x.user = req[r].user /\ x.text = req[r].text
          /\ x.checkedAt = now
          /\ x.pc = IF req[r].pc = "loginCheck" THEN "loginPassword"
                                               ELSE "verifyTOTP"
      BY <2>1 DEF LocalOK, Request
    <2>3. x \in Request
      BY <2>1 DEF LocalOK, Request, Pc
    <2> QED
      BY <2>1, <2>2, <2>3 DEF LocalOK, PastCheck
  <1>2. Answer(r) \/ req' = [req EXCEPT ![r] = x]
    BY DEF CheckLockout
  <1>3. ReqOK'
    BY <1>1, <1>2, ReqStep, AnswerStep DEF CheckLockout, TypeInv
  <1>4. MapsOK'
    BY DEF TypeInv, MapsOK, CheckLockout, DropExpiredLock, NoEntry
  <1> QED
    BY <1>3, <1>4 DEF TypeInv, RestOK, CheckLockout

LEMMA LoginPasswordType ==
  ASSUME TypeInv, NEW r \in Req, LoginPassword(r)
  PROVE  TypeInv'
  <1>1. /\ LocalOK([req[r] EXCEPT !.pc = "loginFail"], now)
        /\ LocalOK([req[r] EXCEPT !.pc = "loginChallenge"], now)
    BY DEF TypeInv, ReqOK, LoginPassword, LocalOK, Request, Pc, PastCheck
  <1>2. ReqOK'
    BY <1>1, GotoStep DEF LoginPassword, TypeInv, Pc
  <1> QED
    BY <1>2 DEF TypeInv, MapsOK, RestOK, LoginPassword

LEMMA FailType ==
  ASSUME TypeInv, NEW r \in Req, Fail(r)
  PROVE  TypeInv'
  <1>1. ReqOK'
    BY AnswerStep DEF Fail, TypeInv
  <1>2. req[r].user \in User
    BY DEF TypeInv, ReqOK, LocalOK, Fail
  <1>3. MapsOK'
    BY <1>2 DEF TypeInv, MapsOK, RestOK, Fail, RecordFailure
  <1> QED
    BY <1>1, <1>3 DEF TypeInv, RestOK, Fail

LEMMA LoginChallengeType ==
  ASSUME TypeInv, NEW r \in Req, LoginChallenge(r)
  PROVE  TypeInv'
  <1>1. ReqOK'
    BY AnswerStep DEF LoginChallenge, TypeInv
  <1>2. req[r].user \in User
    BY DEF TypeInv, ReqOK, LocalOK, LoginChallenge
  <1>3. MapsOK'
    BY <1>2, LoginConstants DEF TypeInv, MapsOK, RestOK, LoginChallenge
  <1> QED
    BY <1>1, <1>3 DEF TypeInv, RestOK, LoginChallenge

LEMMA VerifyStartType ==
  ASSUME TypeInv, NEW r \in Req, NEW t \in 1..minted, NEW c \in Text,
         VerifyStart(r, t, c)
  PROVE  TypeInv'
  <1>1. LocalOK([Idle EXCEPT !.pc = "verifyPeek", !.chal = t, !.text = c], now)
    <2>1. t \in Nat
      BY DEF TypeInv, RestOK
    <2> QED
      BY <2>1, LoginConstants
         DEF LocalOK, Idle, Request, Pc, PastCheck, Never
  <1>2. ReqOK'
    BY <1>1, ReqStep DEF VerifyStart, TypeInv
  <1> QED
    BY <1>2 DEF TypeInv, MapsOK, RestOK, VerifyStart

LEMMA VerifyPeekType ==
  ASSUME TypeInv, NEW r \in Req, VerifyPeek(r)
  PROVE  TypeInv'
  <1>1. MapsOK'
    BY DEF TypeInv, MapsOK, VerifyPeek
  <1>2. CASE Answer(r)
    BY <1>1, <1>2, AnswerStep DEF TypeInv, RestOK, VerifyPeek
  <1>3. ASSUME NEW c \in challenges',
               req' = [req EXCEPT ![r].pc = "verifyCheck", ![r].user = c.user]
        PROVE  TypeInv'
    <2> DEFINE x == [req[r] EXCEPT !.pc = "verifyCheck", !.user = c.user]
    <2>1. c.user \in User
      BY <1>1, <1>3 DEF MapsOK
    <2>a. req[r].pc = "verifyPeek" /\ LocalOK(req[r], now)
      BY DEF TypeInv, ReqOK, VerifyPeek
    <2>b. req[r] \in Request /\ req[r].text \in Text
      BY <2>a DEF LocalOK
    <2>c. x \in Request
      BY <2>1, <2>b DEF Request, Pc
    <2>d. x.pc = "verifyCheck" /\ x.user = c.user /\ x.text = req[r].text
      BY <2>b DEF Request
    <2> HIDE DEF x
    <2>2. LocalOK(x, now)
      BY <2>1, <2>b, <2>c, <2>d DEF LocalOK, PastCheck
    <2> USE DEF x
    <2>3. req' = [req EXCEPT ![r] = x]
      BY <1>3
    <2>4. ReqOK'
      BY <2>2, <2>3, ReqStep DEF VerifyPeek, TypeInv
    <2> QED
      BY <1>1, <2>4 DEF TypeInv, RestOK, VerifyPeek
  <1> QED
    BY <1>2, <1>3 DEF VerifyPeek

LEMMA VerifyTOTPType ==
  ASSUME TypeInv, NEW r \in Req, VerifyTOTP(r)
  PROVE  TypeInv'
  <1> DEFINE x == [req[r] EXCEPT !.pc = "verifyReplay", !.validatedAt = now]
  <1>1. req[r].pc = "verifyTOTP" /\ LocalOK(req[r], now) /\ now \in Nat
    BY DEF TypeInv, ReqOK, RestOK, VerifyTOTP
  <1>2. LocalOK([req[r] EXCEPT !.pc = "verifyFail"], now)
    BY <1>1 DEF LocalOK, Request, Pc, PastCheck
  <1>3. ASSUME ValidAt(req[r].text, now) PROVE LocalOK(x, now)
    <2>1. /\ x.pc = "verifyReplay" /\ x.user = req[r].user
          /\ x.text = req[r].text /\ x.checkedAt = req[r].checkedAt
          /\ x.validatedAt = now
      BY <1>1 DEF LocalOK, Request
    <2>2. x \in Request
      BY <1>1 DEF LocalOK, Request, Pc
    <2> QED
      BY <1>1, <1>3, <2>1, <2>2 DEF LocalOK, PastCheck
  <1>4. \/ Answer(r)
        \/ Goto(r, "verifyFail")
        \/ ValidAt(req[r].text, now) /\ req' = [req EXCEPT ![r] = x]
    BY DEF VerifyTOTP
  <1>5. ReqOK'
    BY <1>2, <1>3, <1>4, AnswerStep, GotoStep, ReqStep DEF VerifyTOTP, TypeInv, Pc
  <1> QED
    BY <1>5 DEF TypeInv, MapsOK, RestOK, VerifyTOTP

LEMMA VerifyReplayType ==
  ASSUME TypeInv, NEW r \in Req, VerifyReplay(r)
  PROVE  TypeInv'
  <1> DEFINE x == [req[r] EXCEPT !.pc = "verifyConsume", !.slot = Len(accepted) + 1]
  <1>1. /\ req[r].pc = "verifyReplay" /\ LocalOK(req[r], now)
        /\ now \in Nat /\ accepted \in Seq(Acceptance)
    BY DEF TypeInv, ReqOK, RestOK, VerifyReplay
  <1>2. CASE Goto(r, "verifyFail") /\ UNCHANGED accepted
            /\ usedCodes' = LiveCodes(req[r].user)
    <2>1. LocalOK([req[r] EXCEPT !.pc = "verifyFail"], now)
      BY <1>1 DEF LocalOK, Request, Pc, PastCheck
    <2>2. ReqOK'
      BY <1>2, <2>1, GotoStep DEF VerifyReplay, TypeInv, Pc
    <2> QED
      BY <1>2, <2>2 DEF TypeInv, MapsOK, RestOK, VerifyReplay, LiveCodes
  <1>3. CASE AcceptCode(r, LiveCodes(req[r].user))
    <2>1. LocalOK(x, now)
      <3>1. /\ x.pc = "verifyConsume" /\ x.user = req[r].user
            /\ x.checkedAt = req[r].checkedAt
        BY <1>1 DEF LocalOK, Request
      <3>2. Len(accepted) + 1 \in Nat
        BY <1>1
      <3>3. x \in Request
        BY <1>1, <3>2 DEF LocalOK, Request, Pc
      <3> QED
        BY <1>1, <3>1, <3>3 DEF LocalOK, PastCheck
    <2>2. req' = [req EXCEPT ![r] = x]
      BY <1>3 DEF AcceptCode
    <2>3. ReqOK'
      BY <2>1, <2>2, ReqStep DEF VerifyReplay, TypeInv
    <2>4. [user |-> req[r].user, text |-> req[r].text, chal |-> req[r].chal,
           validatedAt |-> req[r].validatedAt, at |-> now] \in Acceptance
      BY <1>1 DEF LocalOK, Request, Acceptance
    <2>5. accepted' \in Seq(Acceptance)
      BY <1>1, <1>3, <2>4 DEF AcceptCode
    <2>6. [user |-> req[r].user, text |-> req[r].text, expires |-> now + ReplayTTL]
             \in [user : User, text : Text, expires : Nat]
      BY <1>1, LoginConstants DEF LocalOK
    <2>7. MapsOK'
      BY <1>3, <2>6 DEF TypeInv, MapsOK, VerifyReplay, AcceptCode, LiveCodes
    <2> QED
      BY <2>3, <2>5, <2>7 DEF TypeInv, RestOK, VerifyReplay
  <1> QED
    BY <1>2, <1>3 DEF VerifyReplay

LEMMA VerifyConsumeType ==
  ASSUME TypeInv, NEW r \in Req, VerifyConsume(r)
  PROVE  TypeInv'
  <1>1. LocalOK([req[r] EXCEPT !.pc = "verifyClear"], now)
    BY DEF TypeInv, ReqOK, VerifyConsume, LocalOK, Request, Pc, PastCheck
  <1>2. ReqOK'
    BY <1>1, GotoStep DEF VerifyConsume, TypeInv, Pc
  <1> QED
    BY <1>2 DEF TypeInv, MapsOK, RestOK, VerifyConsume

LEMMA VerifyClearType ==
  ASSUME TypeInv, NEW r \in Req, VerifyClear(r)
  PROVE  TypeInv'
  <1>1. LocalOK([req[r] EXCEPT !.pc = "verifySession"], now)
    BY DEF TypeInv, ReqOK, VerifyClear, LocalOK, Request, Pc, PastCheck
  <1>2. ReqOK'
    BY <1>1, GotoStep DEF VerifyClear, TypeInv, Pc
  <1>3. MapsOK'
    BY DEF TypeInv, MapsOK, VerifyClear, ClearFailures, NoEntry
  <1> QED
    BY <1>2, <1>3 DEF TypeInv, RestOK, VerifyClear

LEMMA VerifySessionType ==
  ASSUME TypeInv, NEW r \in Req, VerifySession(r)
  PROVE  TypeInv'
  <1>1. ReqOK'
    BY AnswerStep DEF VerifySession, TypeInv
  <1>2. req[r].user \in User /\ req[r].slot \in Nat
    BY DEF TypeInv, ReqOK, LocalOK, VerifySession, Request
  <1>3. MapsOK'
    BY <1>2, LoginConstants DEF TypeInv, MapsOK, RestOK, VerifySession
  <1> QED
    BY <1>1, <1>3 DEF TypeInv, RestOK, VerifySession

\* The steps of the setup handlers.
LEMMA SetupType ==
  ASSUME TypeInv, NEW r \in Req, SetupHandler(r)
  PROVE  TypeInv'
  <1>1. ASSUME NEW u \in User, NEW pc \in {"setupSave", "setupReload"}
        PROVE  LocalOK([Idle EXCEPT !.pc = pc, !.user = u], now)
    BY LoginConstants DEF LocalOK, Idle, Request, Pc, PastCheck, Never
  <1>2. ASSUME NEW u \in Founder, CompleteSetup(r, u) \/ BootstrapAdmin(r, u)
        PROVE  TypeInv'
    <2>1. u \in User
      BY LoginConstants
    <2>2. ReqOK'
      BY <1>1, <1>2, <2>1, ReqStep DEF CompleteSetup, BootstrapAdmin, TypeInv
    <2> QED
      BY <1>2, <2>2 DEF TypeInv, MapsOK, RestOK, CompleteSetup, BootstrapAdmin
  <1>3. ASSUME NEW pc \in {"setupReload", "setupSession"}, LocalOK(req[r], now),
               req[r].pc \in {"setupSave", "setupReload"}
        PROVE  LocalOK([req[r] EXCEPT !.pc = pc], now)
    BY <1>3 DEF LocalOK, Request, Pc, PastCheck
  <1>4. LocalOK(req[r], now)
    BY DEF TypeInv, ReqOK
  <1>5. CASE SetupSave(r)
    <2>1. ReqOK'
      BY <1>3, <1>4, <1>5, AnswerStep, GotoStep DEF SetupSave, TypeInv, Pc
    <2> QED
      BY <1>5, <2>1 DEF TypeInv, MapsOK, RestOK, SetupSave
  <1>6. CASE SetupProvision(r)
    <2>1. ReqOK'
      BY <1>3, <1>4, <1>6, AnswerStep, GotoStep DEF SetupProvision, TypeInv, Pc
    <2> QED
      BY <1>6, <2>1 DEF TypeInv, MapsOK, RestOK, SetupProvision
  <1>7. CASE SetupSession(r)
    <2>1. ReqOK'
      BY <1>7, AnswerStep DEF SetupSession, TypeInv
    <2>2. req[r].user \in User
      BY <1>4, <1>7 DEF LocalOK, SetupSession
    <2>3. MapsOK'
      BY <1>7, <2>2, LoginConstants
         DEF TypeInv, MapsOK, RestOK, SetupSession, BySetup
    <2> QED
      BY <1>7, <2>1, <2>3 DEF TypeInv, RestOK, SetupSession
  <1> QED
    BY <1>2, <1>5, <1>6, <1>7 DEF SetupHandler

\* The steps that touch no request: logout, sweeps, setup reset.
LEMMA MaintenanceType ==
  ASSUME TypeInv,
         \/ \E s \in sessions : Logout(s) \/ ValidateSession(s)
         \/ SweepExpired \/ SweepReplayCodes \/ SweepLockouts
         \/ ResetSetupState \/ ResetSessionState \/ ResetReload
  PROVE  TypeInv'
  <1>1. req' = req /\ now' = now
    BY DEF Logout, ValidateSession, SweepExpired, SweepReplayCodes, SweepLockouts,
           ResetSetupState, ResetSessionState, ResetReload
  <1>2. ReqOK'
    BY <1>1 DEF TypeInv, ReqOK
  <1>3. MapsOK'
    <2>1. MapsOK
      BY DEF TypeInv
    <2>2. CASE \E s \in sessions : Logout(s) \/ ValidateSession(s)
      BY <2>1, <2>2 DEF MapsOK, Logout, ValidateSession
    <2>3. CASE SweepExpired \/ SweepReplayCodes
      BY <2>1, <2>3 DEF MapsOK, SweepExpired, SweepReplayCodes
    <2>4. CASE SweepLockouts
      BY <2>1, <2>4 DEF MapsOK, NoEntry, SweepLockouts
    <2>5. CASE ResetSetupState \/ ResetSessionState \/ ResetReload
      BY <2>1, <2>5 DEF MapsOK, ResetSetupState, ResetSessionState, ResetReload
    <2> QED
      BY <2>2, <2>3, <2>4, <2>5
  <1>4. RestOK'
    BY DEF TypeInv, RestOK, Logout, ValidateSession, SweepExpired,
           SweepReplayCodes, SweepLockouts, ResetSetupState, ResetSessionState,
           ResetReload
  <1> QED
    BY <1>2, <1>3, <1>4 DEF TypeInv

LEMMA TickType == TypeInv /\ Tick => TypeInv'
  <1> SUFFICES ASSUME TypeInv, Tick PROVE TypeInv'
    OBVIOUS
  <1>1. now \in Nat /\ now' = now + 1
    BY DEF TypeInv, RestOK, Tick
  <1>2. ASSUME NEW x, LocalOK(x, now) PROVE LocalOK(x, now')
    BY <1>1, <1>2 DEF LocalOK
  <1>3. ReqOK'
    BY <1>2 DEF TypeInv, ReqOK, Tick
  <1> QED
    BY <1>1, <1>3 DEF TypeInv, MapsOK, RestOK, Tick

LEMMA NextTypeInv == TypeInv /\ [Next]_vars => TypeInv'
  <1> SUFFICES ASSUME TypeInv, [Next]_vars PROVE TypeInv'
    OBVIOUS
  <1>1. CASE UNCHANGED vars
    BY <1>1 DEF TypeInv, ReqOK, MapsOK, RestOK, vars
  <1>2. ASSUME NEW r \in Req, LoginHandler(r) PROVE TypeInv'
    BY <1>2, LoginStartType, LoginPasswordType, LoginChallengeType DEF LoginHandler
  <1>3. ASSUME NEW r \in Req, VerifyHandler(r) PROVE TypeInv'
    BY <1>3, VerifyStartType, VerifyPeekType, VerifyTOTPType, VerifyReplayType,
       VerifyConsumeType, VerifyClearType, VerifySessionType DEF VerifyHandler
  <1> QED
    BY <1>1, <1>2, <1>3, SetupType, CheckLockoutType, FailType, MaintenanceType,
       TickType
       DEF Next

\* Type correctness: in every reachable state the maps and the locals of every
\* handler have the shapes the Go declarations give them.
THEOREM LoginTypeCorrect == Spec => []TypeOK
  <1>1. Spec => []TypeInv
    BY InitTypeInv, NextTypeInv, PTL DEF Spec
  <1> QED
    BY <1>1, TypeInvTypeOK, PTL

(* ----------------------------- replay cache ------------------------------ *)

\* The strengthening that makes ReplaySpacing inductive: an acceptance lies in
\* the past, not before its code became valid, and the cache still holds it as
\* long as ReplayTTL has not passed.
ReplayMemory ==
    \A i \in DOMAIN accepted :
        /\ accepted[i].at <= now
        /\ TrimSpace[accepted[i].text] <= accepted[i].at
        /\ now <= accepted[i].at + ReplayTTL =>
             [user |-> accepted[i].user, text |-> accepted[i].text,
              expires |-> accepted[i].at + ReplayTTL] \in usedCodes

ReplayInv == ReplayMemory /\ ReplaySpacing

LEMMA ReplayTouchingSteps ==
  ASSUME Next
  PROVE  \/ UNCHANGED <<now, usedCodes, accepted>>
         \/ Tick \/ SweepReplayCodes
         \/ \E r \in Req : VerifyReplay(r)
  <1> DEFINE Kept == UNCHANGED <<now, usedCodes, accepted>>
  <1>1. ASSUME NEW r \in Req, LoginHandler(r) PROVE Kept
    BY <1>1 DEF LoginHandler, LoginStart, LoginPassword, LoginChallenge
  <1>2. ASSUME NEW r \in Req, VerifyHandler(r) PROVE Kept \/ VerifyReplay(r)
    BY <1>2 DEF VerifyHandler, VerifyStart, VerifyPeek, VerifyTOTP, VerifyConsume,
       VerifyClear, VerifySession
  <1>3. ASSUME NEW r \in Req, SetupHandler(r) PROVE Kept
    BY <1>3 DEF SetupHandler, CompleteSetup, BootstrapAdmin, SetupSave,
       SetupProvision, SetupSession
  <1>4. ASSUME NEW r \in Req, CheckLockout(r) \/ Fail(r) PROVE Kept
    BY <1>4 DEF CheckLockout, Fail
  <1>5. ASSUME NEW s \in sessions, Logout(s) \/ ValidateSession(s) PROVE Kept
    BY <1>5 DEF Logout, ValidateSession
  <1>6. ASSUME SweepExpired \/ SweepLockouts \/ ResetSetupState
               \/ ResetSessionState \/ ResetReload
        PROVE  Kept
    BY <1>6 DEF SweepExpired, SweepLockouts, ResetSetupState, ResetSessionState,
       ResetReload
  <1> HIDE DEF Kept
  <1>7. Kept \/ Tick \/ SweepReplayCodes \/ \E r \in Req : VerifyReplay(r)
    BY <1>1, <1>2, <1>3, <1>4, <1>5, <1>6 DEF Next
  <1> QED
    BY <1>7 DEF Kept

\* Removing only entries that have expired keeps every memory that matters.
LEMMA PurgeKeepsReplayInv ==
  ASSUME TypeInv, ReplayInv, UNCHANGED <<now, accepted>>,
         \A e \in usedCodes : now <= e.expires => e \in usedCodes'
  PROVE  ReplayInv'
  <1>1. ReplaySpacing'
    BY DEF ReplayInv, ReplaySpacing, SameText
  <1>2. ASSUME NEW i \in DOMAIN accepted PROVE accepted[i] \in Acceptance
    BY DEF TypeInv, RestOK
  <1>3. ReplayMemory'
    <2> SUFFICES ASSUME NEW i \in DOMAIN accepted,
                        now <= accepted[i].at + ReplayTTL
                 PROVE  [user |-> accepted[i].user, text |-> accepted[i].text,
                         expires |-> accepted[i].at + ReplayTTL] \in usedCodes'
      BY DEF ReplayInv, ReplayMemory
    <2> QED
      BY DEF ReplayInv, ReplayMemory
  <1> QED
    BY <1>1, <1>3 DEF ReplayInv

LEMMA TickKeepsReplayInv ==
  ASSUME TypeInv, ReplayInv, Tick
  PROVE  ReplayInv'
  <1>1. ReplaySpacing'
    BY DEF ReplayInv, ReplaySpacing, SameText, Tick
  <1>2. now \in Nat /\ now' = now + 1 /\ accepted' = accepted /\ usedCodes' = usedCodes
    BY DEF TypeInv, RestOK, Tick
  <1>3. ASSUME NEW i \in DOMAIN accepted PROVE accepted[i].at \in Nat
    <2>1. accepted[i] \in Acceptance
      BY DEF TypeInv, RestOK
    <2> QED
      BY <2>1 DEF Acceptance
  <1>4. ReplayMemory'
    BY <1>2, <1>3, LoginConstants DEF ReplayInv, ReplayMemory
  <1> QED
    BY <1>1, <1>4 DEF ReplayInv

LEMMA AcceptKeepsReplayInv ==
  ASSUME TypeInv, ReplayInv, NEW r \in Req, VerifyReplay(r),
         AcceptCode(r, LiveCodes(req[r].user)),
         \A e \in LiveCodes(req[r].user) :
             ~(e.user = req[r].user /\ e.text = req[r].text)
  PROVE  ReplayInv'
  <1> DEFINE n == Len(accepted)
             a == [user |-> req[r].user, text |-> req[r].text,
                   chal |-> req[r].chal,
                   validatedAt |-> req[r].validatedAt, at |-> now]
  <1>1. /\ now \in Nat /\ now' = now /\ accepted \in Seq(Acceptance)
        /\ accepted' = Append(accepted, a)
        /\ LocalOK(req[r], now) /\ req[r].pc = "verifyReplay"
    BY DEF TypeInv, RestOK, ReqOK, VerifyReplay, AcceptCode
  <1>2. /\ n \in Nat /\ DOMAIN accepted = 1..n /\ DOMAIN accepted' = 1..(n + 1)
        /\ \A i \in 1..n : accepted'[i] = accepted[i] /\ accepted[i] \in Acceptance
        /\ accepted'[n + 1] = a
    BY <1>1
  <1>3. TrimSpace[req[r].text] <= now
    <2>1. /\ req[r].text \in Text /\ req[r].validatedAt \in Nat
          /\ req[r].validatedAt <= now /\ TrimSpace[req[r].text] <= req[r].validatedAt
      BY <1>1 DEF LocalOK, ValidAt
    <2>2. TrimSpace[req[r].text] \in Nat
      BY <2>1, LoginConstants
    <2> QED
      BY <1>1, <2>1, <2>2
  <1>4. ASSUME NEW i \in 1..n, now <= accepted[i].at + ReplayTTL
        PROVE  [user |-> accepted[i].user, text |-> accepted[i].text,
                expires |-> accepted[i].at + ReplayTTL] \in LiveCodes(req[r].user)
    BY <1>2, <1>4 DEF ReplayInv, ReplayMemory, LiveCodes
  <1>5. ASSUME NEW i \in 1..n,
               accepted[i].user = req[r].user, accepted[i].text = req[r].text
        PROVE  now > accepted[i].at + ReplayTTL
    <2>1. accepted[i].at \in Nat
      BY <1>2 DEF Acceptance
    <2>2. ~(now <= accepted[i].at + ReplayTTL)
      BY <1>4, <1>5
    <2> QED
      BY <1>1, <2>1, <2>2, LoginConstants
  <1>6. ReplaySpacing'
    <2> SUFFICES ASSUME NEW i \in 1..(n + 1), NEW j \in 1..(n + 1), i < j,
                        accepted'[i].user = accepted'[j].user,
                        accepted'[i].text = accepted'[j].text
                 PROVE  accepted'[j].at > accepted'[i].at + ReplayTTL
      BY <1>2 DEF ReplaySpacing, SameText
    <2>1. i \in 1..n
      BY <1>2
    <2>2. CASE j = n + 1
      BY <1>2, <1>5, <2>1, <2>2
    <2>3. CASE j \in 1..n
      BY <1>2, <2>1, <2>3 DEF ReplayInv, ReplaySpacing, SameText
    <2> QED
      BY <1>2, <2>2, <2>3
  <1>7. ReplayMemory'
    <2> SUFFICES ASSUME NEW i \in 1..(n + 1)
                 PROVE  /\ accepted'[i].at <= now
                        /\ TrimSpace[accepted'[i].text] <= accepted'[i].at
                        /\ now <= accepted'[i].at + ReplayTTL =>
                             [user |-> accepted'[i].user,
                              text |-> accepted'[i].text,
                              expires |-> accepted'[i].at + ReplayTTL] \in usedCodes'
      BY <1>1, <1>2 DEF ReplayMemory
    <2>1. CASE i = n + 1
      BY <1>1, <1>2, <1>3, <2>1 DEF AcceptCode
    <2>2. CASE i \in 1..n
      BY <1>2, <1>4, <2>2 DEF ReplayInv, ReplayMemory, AcceptCode
    <2> QED
      BY <1>2, <2>1, <2>2
  <1> QED
    BY <1>6, <1>7 DEF ReplayInv

LEMMA NextReplayInv == TypeInv /\ ReplayInv /\ [Next]_vars => ReplayInv'
  <1> SUFFICES ASSUME TypeInv, ReplayInv, [Next]_vars PROVE ReplayInv'
    OBVIOUS
  <1>1. CASE UNCHANGED <<now, usedCodes, accepted>>
    BY <1>1, PurgeKeepsReplayInv
  <1>2. CASE Tick
    BY <1>2, TickKeepsReplayInv
  <1>3. CASE SweepReplayCodes
    BY <1>3, PurgeKeepsReplayInv DEF SweepReplayCodes
  <1>4. ASSUME NEW r \in Req, VerifyReplay(r) PROVE ReplayInv'
    <2>1. CASE usedCodes' = LiveCodes(req[r].user) /\ UNCHANGED accepted
      BY <1>4, <2>1, PurgeKeepsReplayInv DEF LiveCodes, VerifyReplay
    <2>2. CASE /\ AcceptCode(r, LiveCodes(req[r].user))
               /\ \A e \in LiveCodes(req[r].user) :
                     ~(e.user = req[r].user /\ e.text = req[r].text)
      BY <1>4, <2>2, AcceptKeepsReplayInv
    <2> QED
      BY <1>4, <2>1, <2>2 DEF VerifyReplay
  <1>5. UNCHANGED vars => UNCHANGED <<now, usedCodes, accepted>>
    BY DEF vars
  <1> QED
    BY <1>1, <1>2, <1>3, <1>4, <1>5, ReplayTouchingSteps

LEMMA ReplayInvHolds == Spec => [](TypeInv /\ ReplayInv)
  <1>1. Init => ReplayInv
    BY DEF Init, ReplayInv, ReplayMemory, ReplaySpacing
  <1> QED
    BY <1>1, InitTypeInv, NextTypeInv, NextReplayInv, PTL DEF Spec

\* For any number of concurrent verify requests and any sweeping, two
\* acceptances of one text for one user are more than ReplayTTL apart.
THEOREM TextsAreSpaced == Spec => []ReplaySpacing
  BY ReplayInvHolds, PTL DEF ReplayInv

\* Because the cache outlives the code, no text is accepted twice inside the
\* window of its code; this is what ReplayCoversWindow is needed for.
THEOREM TextUsedOnceInWindow == Spec => []AcceptedOnceInWindow
  <1>1. TypeInv /\ ReplayInv => AcceptedOnceInWindow
    <2> SUFFICES ASSUME TypeInv, ReplayInv,
                        NEW i \in DOMAIN accepted, NEW j \in DOMAIN accepted,
                        i < j, SameText(i, j)
                 PROVE  ~ValidAt(accepted[j].text, accepted[j].at)
      BY DEF AcceptedOnceInWindow
    <2>1. /\ accepted[i] \in Acceptance /\ accepted[j] \in Acceptance
      BY DEF TypeInv, RestOK
    <2>2. /\ accepted[i].at \in Nat /\ accepted[j].at \in Nat
          /\ TrimSpace[accepted[i].text] \in Nat /\ accepted[j].text = accepted[i].text
      BY <2>1, LoginConstants DEF Acceptance, SameText
    <2>3. /\ accepted[j].at > accepted[i].at + ReplayTTL
          /\ TrimSpace[accepted[i].text] <= accepted[i].at
      BY DEF ReplayInv, ReplaySpacing, ReplayMemory
    <2> QED
      BY <2>2, <2>3, LoginConstants, ReplayCoversWindow DEF ValidAt
  <1> QED
    BY <1>1, ReplayInvHolds, PTL

(* -------------------------------- lockout -------------------------------- *)

\* A lock is stamped in the past, and the count reaches the threshold only
\* together with a lock.
LockStamps ==
    \A u \in User :
        /\ lockouts[u].lockedAt # Never => lockouts[u].lockedAt <= now
        /\ lockouts[u].failures >= MaxFailedAttempts
             => lockouts[u].lockedAt # Never

LockInv == LockStamps /\ LockNewerThanChecks /\ LockoutBound

LEMMA PendingFinite ==
  ASSUME NEW u \in User
  PROVE  /\ IsFiniteSet(Req) /\ Cardinality(Req) \in Nat
         /\ Pending(u) \subseteq Req
         /\ IsFiniteSet(Pending(u)) /\ Cardinality(Pending(u)) \in Nat
         /\ Pending(u)' \subseteq Req
         /\ IsFiniteSet(Pending(u)') /\ Cardinality(Pending(u)') \in Nat
         /\ Cardinality(Pending(u)') <= Cardinality(Req)
  <1>1. IsFiniteSet(Req) /\ Cardinality(Req) \in Nat
    BY LoginConstants, FS_CardinalityType
  <1>2. Pending(u) \subseteq Req /\ Pending(u)' \subseteq Req
    BY DEF Pending
  <1> QED
    BY <1>1, <1>2, FS_Subset, FS_CardinalityType

\* Steps after which no name has more recorded failures or more requests that
\* may record one.
Quiet == \A u \in User : /\ lockouts'[u].failures <= lockouts[u].failures
                         /\ Pending(u)' \subseteq Pending(u)

LEMMA QuietBound ==
  ASSUME TypeInv, TypeInv', LockoutBound, Quiet
  PROVE  LockoutBound'
  <1> SUFFICES ASSUME NEW u \in User
               PROVE  lockouts'[u].failures + Cardinality(Pending(u)')
                        <= MaxFailedAttempts - 1 + Cardinality(Req)
    BY DEF LockoutBound
  <1>1. lockouts[u].failures \in Nat /\ lockouts'[u].failures \in Nat
    BY DEF TypeInv, MapsOK
  <1>2. Cardinality(Pending(u)') <= Cardinality(Pending(u))
    BY PendingFinite, FS_Subset DEF Quiet
  <1>3. lockouts[u].failures + Cardinality(Pending(u))
          <= MaxFailedAttempts - 1 + Cardinality(Req)
    BY DEF LockoutBound
  <1> HIDE DEF Pending
  <1> QED
    BY <1>1, <1>2, <1>3, PendingFinite, LoginConstants DEF Quiet

LEMMA CheckLockoutBound ==
  ASSUME TypeInv, TypeInv', LockInv, NEW r \in Req, CheckLockout(r)
  PROVE  LockoutBound'
  <1> SUFFICES ASSUME NEW u \in User
               PROVE  lockouts'[u].failures + Cardinality(Pending(u)')
                        <= MaxFailedAttempts - 1 + Cardinality(Req)
    BY DEF LockoutBound
  <1>1. /\ lockouts[u].failures \in Nat /\ lockouts'[u].failures \in Nat
        /\ req \in [Req -> Request] /\ req[r].user \in User
        /\ req[r].pc \in {"loginCheck", "verifyCheck"}
        /\ lockouts \in [User -> [failures : Nat, lockedAt : Nat \cup {Never}]]
    BY DEF TypeInv, MapsOK, ReqOK, LocalOK, CheckLockout
  <1>2. CASE u = req[r].user /\ ~Locked(u)
    <2>1. lockouts'[u].failures <= MaxFailedAttempts - 1
      <3>1. CASE lockouts[u].lockedAt # Never
        <4>1. lockouts' = [lockouts EXCEPT ![u] = NoEntry]
          BY <1>2, <3>1 DEF CheckLockout, DropExpiredLock
        <4>2. lockouts'[u].failures = 0
          BY <1>1, <4>1 DEF NoEntry
        <4> QED
          BY <4>2, LoginConstants
      <3>2. CASE lockouts[u].lockedAt = Never
        <4>1. lockouts'[u] = lockouts[u]
          BY <1>2, <3>2 DEF CheckLockout, DropExpiredLock
        <4> QED
          BY <1>1, <3>2, <4>1, LoginConstants DEF LockInv, LockStamps
      <3> QED
        BY <3>1, <3>2
    <2>2. MaxFailedAttempts \in Nat
      BY LoginConstants
    <2>3. /\ Cardinality(Pending(u)') \in Nat /\ Cardinality(Req) \in Nat
          /\ Cardinality(Pending(u)') <= Cardinality(Req)
      BY PendingFinite
    <2> QED
      BY <1>1, <2>1, <2>2, <2>3
  <1>3. CASE ~(u = req[r].user /\ ~Locked(u))
    <2>1. lockouts'[u].failures = lockouts[u].failures
      BY <1>1, <1>3 DEF CheckLockout, DropExpiredLock
    <2>a. \A q \in Req : q # r => req'[q] = req[q]
      BY <1>1 DEF CheckLockout, Answer
    <2>b. req'[r].pc \in MayFail => req'[r].user # u
      <3>1. CASE Locked(req[r].user)
        <4>1. req'[r] = Idle
          BY <1>1, <3>1 DEF CheckLockout, Answer
        <4> QED
          BY <4>1 DEF Idle, MayFail
      <3>2. CASE ~Locked(req[r].user)
        <4>1. u # req[r].user
          BY <1>3, <3>2
        <4>2. req'[r].user = req[r].user
          BY <1>1, <3>2 DEF CheckLockout, Request
        <4> QED
          BY <4>1, <4>2
      <3> QED
        BY <3>1, <3>2
    <2>2. Pending(u)' \subseteq Pending(u)
      BY <2>a, <2>b DEF Pending
    <2>3. Cardinality(Pending(u)') <= Cardinality(Pending(u))
      BY <2>2, PendingFinite, FS_Subset
    <2>4. lockouts[u].failures + Cardinality(Pending(u))
            <= MaxFailedAttempts - 1 + Cardinality(Req)
      BY DEF LockInv, LockoutBound
    <2> QED
      BY <1>1, <2>1, <2>3, <2>4, PendingFinite, LoginConstants
  <1> QED
    BY <1>2, <1>3

LEMMA FailBound ==
  ASSUME TypeInv, TypeInv', LockInv, NEW r \in Req, Fail(r)
  PROVE  LockoutBound'
  <1> SUFFICES ASSUME NEW u \in User
               PROVE  lockouts'[u].failures + Cardinality(Pending(u)')
                        <= MaxFailedAttempts - 1 + Cardinality(Req)
    BY DEF LockoutBound
  <1>1. /\ lockouts[u].failures \in Nat /\ lockouts'[u].failures \in Nat
        /\ req \in [Req -> Request] /\ req[r].user \in User
        /\ req[r].pc \in {"loginFail", "verifyFail"}
        /\ lockouts \in [User -> [failures : Nat, lockedAt : Nat \cup {Never}]]
    BY DEF TypeInv, MapsOK, ReqOK, LocalOK, Fail
  <1>2. lockouts[u].failures + Cardinality(Pending(u))
          <= MaxFailedAttempts - 1 + Cardinality(Req)
    BY DEF LockInv, LockoutBound
  <1>3. CASE u = req[r].user
    <2>1. lockouts'[u].failures = lockouts[u].failures + 1
      BY <1>1, <1>3 DEF Fail, RecordFailure
    <2>2. r \in Pending(u) /\ Pending(u)' = Pending(u) \ {r}
      BY <1>1, <1>3 DEF Pending, Fail, Answer, Idle, MayFail, Request
    <2>3. Cardinality(Pending(u)') = Cardinality(Pending(u)) - 1
      BY <2>2, PendingFinite, FS_RemoveElement
    <2> QED
      BY <1>1, <1>2, <2>1, <2>3, PendingFinite, LoginConstants
  <1>4. CASE u # req[r].user
    <2>1. lockouts'[u].failures = lockouts[u].failures
      BY <1>1, <1>4 DEF Fail, RecordFailure
    <2>2. Pending(u)' = Pending(u)
      BY <1>1, <1>4 DEF Pending, Fail, Answer, Idle, MayFail, Request
    <2> QED
      BY <1>1, <1>2, <2>1, <2>2, PendingFinite, LoginConstants
  <1> QED
    BY <1>3, <1>4

LEMMA ClearBound ==
  ASSUME TypeInv, TypeInv', LockoutBound, NEW r \in Req, VerifyClear(r)
  PROVE  LockoutBound'
  <1>1. /\ req \in [Req -> Request] /\ req[r].user \in User
        /\ req[r].pc = "verifyClear"
        /\ lockouts \in [User -> [failures : Nat, lockedAt : Nat \cup {Never}]]
    BY DEF TypeInv, MapsOK, ReqOK, LocalOK, VerifyClear
  <1>2. \A u \in User : lockouts'[u].failures <= lockouts[u].failures
    BY <1>1 DEF VerifyClear, ClearFailures, NoEntry
  <1>3. \A u \in User : Pending(u)' \subseteq Pending(u)
    BY <1>1 DEF VerifyClear, Goto, Pending, MayFail, Request
  <1> QED
    BY <1>2, <1>3, QuietBound DEF Quiet

LEMMA SweepBound ==
  ASSUME TypeInv, TypeInv', LockoutBound, SweepLockouts
  PROVE  LockoutBound'
  <1>1. lockouts \in [User -> [failures : Nat, lockedAt : Nat \cup {Never}]]
    BY DEF TypeInv, MapsOK
  <1>2. \A u \in User : lockouts'[u].failures <= lockouts[u].failures
    BY <1>1 DEF SweepLockouts, NoEntry
  <1>3. \A u \in User : Pending(u)' \subseteq Pending(u)
    BY DEF SweepLockouts, Pending
  <1> QED
    BY <1>2, <1>3, QuietBound DEF Quiet

\* Steps of a request that leave lockouts alone move it to a point where it may
\* fail only from another such point.
Mover(r) == \/ LoginHandler(r) \/ SetupHandler(r)
            \/ \E t \in 1..minted, c \in Text : VerifyStart(r, t, c)
            \/ VerifyPeek(r) \/ VerifyTOTP(r) \/ VerifyReplay(r)
            \/ VerifyConsume(r) \/ VerifySession(r)

Moved(r) ==
    /\ lockouts' = lockouts /\ now' = now
    /\ \A q \in Req : q # r => req'[q] = req[q]
    /\ req'[r].pc \in PastCheck => /\ req[r].pc \in PastCheck
                                   /\ req'[r].user = req[r].user
                                   /\ req'[r].checkedAt = req[r].checkedAt
    /\ req'[r].pc \in MayFail => req[r].pc \in MayFail

LEMMA MoverMoves ==
  ASSUME TypeInv, NEW r \in Req, Mover(r)
  PROVE  Moved(r)
  <1>0. req \in [Req -> Request]
    BY DEF TypeInv, ReqOK
  <1> USE <1>0 DEF Moved, PastCheck, MayFail, Request
  <1>1. ASSUME NEW u \in User, LoginStart(r, u) PROVE Moved(r)
    BY <1>1 DEF LoginStart, Idle
  <1>2. CASE LoginPassword(r)
    BY <1>2 DEF LoginPassword, Goto
  <1>3. CASE LoginChallenge(r)
    BY <1>3 DEF LoginChallenge, Answer, Idle
  <1>4. ASSUME NEW t \in 1..minted, NEW c \in Text, VerifyStart(r, t, c)
        PROVE  Moved(r)
    BY <1>4 DEF VerifyStart, Idle
  <1>5. CASE VerifyPeek(r)
    BY <1>5 DEF VerifyPeek, Answer, Idle
  <1>6. CASE VerifyTOTP(r)
    BY <1>6 DEF VerifyTOTP, Answer, Goto, Idle
  <1>7. CASE VerifyReplay(r)
    BY <1>7 DEF VerifyReplay, AcceptCode, Goto
  <1>8. CASE VerifyConsume(r)
    BY <1>8 DEF VerifyConsume, Goto
  <1>9. CASE VerifySession(r)
    BY <1>9 DEF VerifySession, Answer, Idle
  <1>10. ASSUME NEW u \in Founder, CompleteSetup(r, u) \/ BootstrapAdmin(r, u)
         PROVE  Moved(r)
    <2>1. CASE CompleteSetup(r, u)
      BY <2>1 DEF CompleteSetup, Idle
    <2>2. CASE BootstrapAdmin(r, u)
      BY <2>2 DEF BootstrapAdmin, Idle
    <2> QED
      BY <1>10, <2>1, <2>2
  <1>11. CASE SetupSave(r) \/ SetupProvision(r) \/ SetupSession(r)
    <2>1. CASE SetupSave(r)
      BY <2>1 DEF SetupSave, Answer, Goto, Idle
    <2>2. CASE SetupProvision(r)
      BY <2>2 DEF SetupProvision, Answer, Goto, Idle
    <2>3. CASE SetupSession(r)
      BY <2>3 DEF SetupSession, Answer, Idle
    <2> QED
      BY <1>11, <2>1, <2>2, <2>3
  <1> HIDE <1>0 DEF Moved, PastCheck, MayFail, Request
  <1> QED
    BY <1>1, <1>2, <1>3, <1>4, <1>5, <1>6, <1>7, <1>8, <1>9, <1>10, <1>11
       DEF Mover, LoginHandler, SetupHandler

LEMMA MovedBound ==
  ASSUME TypeInv, TypeInv', LockoutBound, NEW r \in Req, Moved(r)
  PROVE  LockoutBound'
  <1>1. \A u \in User : lockouts'[u].failures <= lockouts[u].failures
    BY DEF Moved, TypeInv, MapsOK
  <1>2. \A u \in User : Pending(u)' \subseteq Pending(u)
    BY DEF Moved, Pending, MayFail, PastCheck
  <1> QED
    BY <1>1, <1>2, QuietBound DEF Quiet

\* Steps that touch neither the requests nor the lockouts.
LEMMA OtherLockSteps ==
  ASSUME Next
  PROVE  \/ \E r \in Req : \/ Mover(r) \/ CheckLockout(r) \/ Fail(r)
                           \/ VerifyClear(r)
         \/ SweepLockouts
         \/ UNCHANGED <<req, lockouts>> /\ (now' = now \/ now' = now + 1)
  BY DEF Next, Mover, VerifyHandler, Logout, ValidateSession, SweepExpired,
     SweepReplayCodes, ResetSetupState, ResetSessionState, ResetReload, Tick

LEMMA IdleBound ==
  ASSUME TypeInv, TypeInv', LockoutBound, UNCHANGED <<req, lockouts>>
  PROVE  LockoutBound'
  <1>1. \A u \in User : lockouts'[u].failures <= lockouts[u].failures
    BY DEF TypeInv, MapsOK
  <1>2. \A u \in User : Pending(u)' \subseteq Pending(u)
    BY DEF Pending
  <1> QED
    BY <1>1, <1>2, QuietBound DEF Quiet

LEMMA NextLockoutBound ==
  ASSUME TypeInv, TypeInv', LockInv, [Next]_vars
  PROVE  LockoutBound'
  <1>1. CASE UNCHANGED vars
    BY <1>1, IdleBound DEF vars, LockInv
  <1>2. CASE Next
    BY <1>2, OtherLockSteps, MoverMoves, MovedBound, CheckLockoutBound, FailBound,
       ClearBound, SweepBound, IdleBound DEF LockInv
  <1> QED
    BY <1>1, <1>2

\* The two remaining conjuncts of LockInv, action by action.
LockOrder == LockStamps /\ LockNewerThanChecks

LEMMA CheckLockoutOrder ==
  ASSUME TypeInv, LockOrder, NEW r \in Req, CheckLockout(r)
  PROVE  LockOrder'
  <1>1. /\ req \in [Req -> Request] /\ req[r].user \in User
        /\ req[r].pc \in {"loginCheck", "verifyCheck"} /\ now \in Nat /\ now' = now
        /\ lockouts \in [User -> [failures : Nat, lockedAt : Nat \cup {Never}]]
    BY DEF TypeInv, MapsOK, ReqOK, RestOK, LocalOK, CheckLockout
  <1>2. CASE Locked(req[r].user)
    <2>1. UNCHANGED lockouts /\ Answer(r)
      BY <1>2 DEF CheckLockout
    <2>2. \A q \in Req : req'[q].pc \in PastCheck => req'[q] = req[q]
      BY <1>1, <2>1 DEF Answer, Idle, PastCheck
    <2> QED
      BY <1>1, <2>1, <2>2 DEF LockOrder, LockStamps, LockNewerThanChecks
  <1>3. CASE ~Locked(req[r].user)
    <2>1. /\ lockouts' \in [User -> [failures : Nat, lockedAt : Nat \cup {Never}]]
          /\ lockouts'[req[r].user].lockedAt = Never
          /\ lockouts'[req[r].user].failures = lockouts[req[r].user].failures
               \/ lockouts'[req[r].user].failures = 0
          /\ lockouts[req[r].user].lockedAt = Never => lockouts' = lockouts
          /\ \A u \in User : u # req[r].user => lockouts'[u] = lockouts[u]
      BY <1>1, <1>3 DEF CheckLockout, DropExpiredLock, NoEntry
    <2>2. LockStamps'
      BY <1>1, <1>3, <2>1, LoginConstants
         DEF LockOrder, LockStamps, CheckLockout, DropExpiredLock, NoEntry
    <2>3. \A q \in Req : q # r => req'[q] = req[q]
      BY <1>1, <1>3 DEF CheckLockout
    <2>4. req'[r].user = req[r].user
      BY <1>1, <1>3 DEF CheckLockout, Request
    <2>5. \A q \in Req : req[q].pc \in PastCheck => req[q].user \in User
      BY DEF TypeInv, ReqOK, LocalOK, PastCheck
    <2>6. LockNewerThanChecks'
      BY <1>1, <2>1, <2>3, <2>4, <2>5 DEF LockOrder, LockNewerThanChecks
    <2> QED
      BY <2>2, <2>6 DEF LockOrder
  <1> QED
    BY <1>2, <1>3

LEMMA FailOrder ==
  ASSUME TypeInv, LockOrder, NEW r \in Req, Fail(r)
  PROVE  LockOrder'
  <1>1. /\ req \in [Req -> Request] /\ req[r].user \in User
        /\ now \in Nat /\ now' = now
        /\ lockouts \in [User -> [failures : Nat, lockedAt : Nat \cup {Never}]]
    BY DEF TypeInv, MapsOK, ReqOK, RestOK, LocalOK, Fail
  <1>2. \A u \in User : lockouts'[u].lockedAt \in {now, lockouts[u].lockedAt}
    BY <1>1 DEF Fail, RecordFailure
  <1>3. \A q \in Req : req'[q].pc \in PastCheck
           => /\ req'[q] = req[q] /\ req[q].user \in User
              /\ req[q].checkedAt \in Nat /\ req[q].checkedAt <= now
    BY <1>1 DEF Fail, Answer, Idle, PastCheck, TypeInv, ReqOK, LocalOK
  <1>4. LockNewerThanChecks'
    <2> SUFFICES ASSUME NEW q \in Req, req'[q].pc \in PastCheck,
                        lockouts'[req'[q].user].lockedAt # Never
                 PROVE  req'[q].checkedAt <= lockouts'[req'[q].user].lockedAt
      BY DEF LockNewerThanChecks
    <2>1. req'[q] = req[q] /\ req[q].user \in User
      BY <1>3
    <2>2. CASE lockouts'[req[q].user].lockedAt = now
      BY <1>3, <2>1, <2>2
    <2>3. CASE lockouts'[req[q].user].lockedAt = lockouts[req[q].user].lockedAt
      BY <2>1, <2>3 DEF LockOrder, LockNewerThanChecks
    <2> QED
      BY <1>2, <2>1, <2>2, <2>3
  <1>5. LockStamps'
    <2> SUFFICES ASSUME NEW u \in User
                 PROVE  /\ lockouts'[u].lockedAt # Never => lockouts'[u].lockedAt <= now
                        /\ lockouts'[u].failures >= MaxFailedAttempts
                             => lockouts'[u].lockedAt # Never
      BY <1>1 DEF LockStamps
    <2>1. CASE u = req[r].user
      BY <1>1, <2>1, LoginConstants
         DEF Fail, RecordFailure, LockOrder, LockStamps, Never
    <2>2. CASE u # req[r].user
      BY <1>1, <2>2 DEF Fail, RecordFailure, LockOrder, LockStamps
    <2> QED
      BY <2>1, <2>2
  <1> QED
    BY <1>4, <1>5 DEF LockOrder

\* Clearing entries can only make LockOrder easier.
LEMMA ClearingOrder ==
  ASSUME TypeInv, LockOrder, now' = now,
         \A u \in User : lockouts'[u] \in {NoEntry, lockouts[u]},
         \A q \in Req : req'[q].pc \in PastCheck
            => /\ req[q].pc \in PastCheck /\ req'[q].user = req[q].user
               /\ req'[q].checkedAt = req[q].checkedAt
  PROVE  LockOrder'
  <1>1. \A q \in Req : req[q].pc \in PastCheck => req[q].user \in User
    BY DEF TypeInv, ReqOK, LocalOK, PastCheck
  <1>2. LockNewerThanChecks'
    BY <1>1 DEF LockOrder, LockNewerThanChecks, NoEntry
  <1>3. LockStamps'
    BY LoginConstants DEF LockOrder, LockStamps, NoEntry
  <1> QED
    BY <1>2, <1>3 DEF LockOrder

LEMMA NextLockOrder ==
  ASSUME TypeInv, LockOrder, [Next]_vars
  PROVE  LockOrder'
  <1>1. CASE UNCHANGED <<req, lockouts>> /\ (now' = now \/ now' = now + 1)
    <2>1. now \in Nat
      BY DEF TypeInv, RestOK
    <2>2. \A u \in User : lockouts[u].lockedAt \in Nat \cup {Never}
      BY DEF TypeInv, MapsOK
    <2> QED
      BY <1>1, <2>1, <2>2 DEF LockOrder, LockStamps, LockNewerThanChecks, Never
  <1>2. ASSUME NEW r \in Req, Mover(r) PROVE LockOrder'
    BY <1>2, MoverMoves, ClearingOrder DEF Moved
  <1>3. ASSUME NEW r \in Req, VerifyClear(r) PROVE LockOrder'
    <2>1. /\ req \in [Req -> Request] /\ req[r].pc = "verifyClear"
          /\ lockouts \in [User -> [failures : Nat, lockedAt : Nat \cup {Never}]]
      BY <1>3 DEF TypeInv, MapsOK, ReqOK, VerifyClear
    <2>2. \A u \in User : lockouts'[u] \in {NoEntry, lockouts[u]}
      BY <1>3, <2>1 DEF VerifyClear, ClearFailures
    <2>3. \A q \in Req : req'[q].pc \in PastCheck
            => /\ req[q].pc \in PastCheck /\ req'[q].user = req[q].user
               /\ req'[q].checkedAt = req[q].checkedAt
      BY <1>3, <2>1 DEF VerifyClear, Goto, PastCheck, Request
    <2> QED
      BY <1>3, <2>2, <2>3, ClearingOrder DEF VerifyClear
  <1>4. CASE SweepLockouts
    <2>1. \A u \in User : lockouts'[u] \in {NoEntry, lockouts[u]}
      BY <1>4 DEF SweepLockouts
    <2> QED
      BY <1>4, <2>1, ClearingOrder DEF SweepLockouts
  <1>5. UNCHANGED vars => UNCHANGED <<req, lockouts>> /\ now' = now
    BY DEF vars
  <1> QED
    BY <1>1, <1>2, <1>3, <1>4, <1>5, CheckLockoutOrder, FailOrder, OtherLockSteps

LEMMA LockInvHolds == Spec => [](TypeInv /\ LockInv)
  <1>1. Init => LockInv
    <2> SUFFICES ASSUME Init PROVE LockInv
      OBVIOUS
    <2>1. \A u \in User : lockouts[u] = NoEntry /\ Pending(u) = {}
      BY DEF Init, Pending, Idle, MayFail
    <2>2. LockStamps /\ LockNewerThanChecks
      BY <2>1, LoginConstants
         DEF LockStamps, LockNewerThanChecks, NoEntry, Init, Idle, PastCheck
    <2>3. LockoutBound
      BY <2>1, FS_EmptySet, PendingFinite, LoginConstants, FS_CardinalityType
         DEF LockoutBound, NoEntry
    <2> QED
      BY <2>2, <2>3 DEF LockInv
  <1>2. TypeInv /\ TypeInv' /\ LockInv /\ [Next]_vars => LockInv'
    BY NextLockoutBound, NextLockOrder DEF LockInv, LockOrder
  <1> QED
    BY <1>1, <1>2, InitTypeInv, NextTypeInv, PTL DEF Spec

\* No request is ever past IsLockedOut under a lock older than its check.
THEOREM ChecksRespectLocks == Spec => []LockNewerThanChecks
  BY LockInvHolds, PTL DEF LockInv

\* With any number n of concurrent requests at most MaxFailedAttempts - 1 + n
\* wrong credentials are examined for one name before its lock has expired.
THEOREM LockoutOvershoot == Spec => []LockoutBound
  BY LockInvHolds, PTL DEF LockInv

\* A lock in force is lifted only by a successful verify that passed its check
\* before the lock was set.
THEOREM LocksEndForAReason == Spec => EarlyUnlock
  <1> DEFINE Act == \A u \in User :
          Locked(u) /\ lockouts'[u].lockedAt = Never
            => \E r \in Req : /\ req[r].pc = "verifyClear"
                              /\ req[r].user = u
                              /\ req[r].checkedAt <= lockouts[u].lockedAt
  <1>1. ASSUME TypeInv, LockInv, [Next]_vars PROVE [Act]_vars
    <2> SUFFICES ASSUME Next, NEW u \in User, Locked(u),
                        lockouts'[u].lockedAt = Never
                 PROVE  \E r \in Req : /\ req[r].pc = "verifyClear"
                                       /\ req[r].user = u
                                       /\ req[r].checkedAt <= lockouts[u].lockedAt
      BY <1>1
    <2>0. /\ lockouts \in [User -> [failures : Nat, lockedAt : Nat \cup {Never}]]
          /\ now \in Nat /\ lockouts[u].lockedAt # Never
      BY <1>1 DEF TypeInv, MapsOK, RestOK, Locked
    <2>1. ASSUME NEW r \in Req, CheckLockout(r) PROVE FALSE
      BY <2>0, <2>1 DEF CheckLockout, DropExpiredLock, NoEntry
    <2>2. ASSUME NEW r \in Req, Fail(r) PROVE FALSE
      BY <2>0, <2>2 DEF Fail, RecordFailure, Never
    <2>3. ~SweepLockouts
      BY <2>0 DEF SweepLockouts
    <2>4. ASSUME NEW r \in Req, Mover(r) PROVE FALSE
      BY <1>1, <2>0, <2>4, MoverMoves DEF Moved
    <2>5. ASSUME NEW r \in Req, VerifyClear(r)
          PROVE  req[r].user = u /\ req[r].pc = "verifyClear"
      BY <2>0, <2>5 DEF VerifyClear, ClearFailures
    <2>6. PICK r \in Req : VerifyClear(r)
      BY <2>0, <2>1, <2>2, <2>3, <2>4, OtherLockSteps
    <2> QED
      BY <1>1, <2>0, <2>5, <2>6 DEF LockInv, LockNewerThanChecks, PastCheck
  <1>2. [](TypeInv /\ LockInv) /\ [][Next]_vars => [][Act]_vars
    BY <1>1, PTL
  <1> QED
    BY <1>2, LockInvHolds, PTL DEF Spec, EarlyUnlock

(* -------------------------------- sessions ------------------------------- *)

\* Request r keeps the acceptance it is about to redeem, or has none to redeem.
KeepsSlot(r) ==
    req'[r].pc \in Redeeming => /\ req[r].pc \in Redeeming
                                /\ req'[r].slot = req[r].slot
                                /\ req'[r].user = req[r].user

\* Nothing is accepted, no session is added, and nobody starts to redeem.
Unpaid ==
    /\ accepted' = accepted /\ sessions' \subseteq sessions
    /\ \A r \in Req : KeepsSlot(r)

LEMMA UnpaidKeeps ==
  ASSUME SessionPerAcceptance, Unpaid
  PROVE  SessionPerAcceptance'
  BY DEF SessionPerAcceptance, Unpaid, KeepsSlot

\* A request that is answered, or goes on and is not yet past its code.
LEMMA MovedSlots ==
  ASSUME TypeInv, NEW r \in Req, NEW x, req' = [req EXCEPT ![r] = x],
         x.pc \in Redeeming => /\ req[r].pc \in Redeeming
                               /\ x.slot = req[r].slot /\ x.user = req[r].user
  PROVE  \A q \in Req : KeepsSlot(q)
  BY DEF TypeInv, ReqOK, KeepsSlot

LEMMA AnsweredSlots ==
  ASSUME TypeInv, NEW r \in Req, Answer(r)
  PROVE  \A q \in Req : KeepsSlot(q)
  <1>1. Idle.pc \notin Redeeming
    BY DEF Idle, Redeeming
  <1> QED
    BY <1>1, MovedSlots DEF Answer

LEMMA GoneToSlots ==
  ASSUME TypeInv, NEW r \in Req, NEW pc, Goto(r, pc),
         pc \in Redeeming => req[r].pc \in Redeeming
  PROVE  \A q \in Req : KeepsSlot(q)
  <1> DEFINE x == [req[r] EXCEPT !.pc = pc]
  <1>1. x.pc = pc /\ x.slot = req[r].slot /\ x.user = req[r].user
    BY DEF TypeInv, ReqOK, Request
  <1>2. req' = [req EXCEPT ![r] = x]
    BY DEF Goto
  <1> HIDE DEF x
  <1> QED
    BY <1>1, <1>2, MovedSlots

LEMMA LoginUnpaid ==
  ASSUME TypeInv, NEW r \in Req,
         LoginHandler(r) \/ CheckLockout(r) \/ Fail(r)
  PROVE  Unpaid
  <1>1. accepted' = accepted /\ sessions' = sessions
    BY DEF LoginHandler, LoginStart, LoginPassword, LoginChallenge, CheckLockout, Fail
  <1> SUFFICES \A q \in Req : KeepsSlot(q)
    BY <1>1 DEF Unpaid
  <1>2. ASSUME NEW u \in User, LoginStart(r, u) PROVE \A q \in Req : KeepsSlot(q)
    <2> DEFINE x == [Idle EXCEPT !.pc = "loginCheck", !.user = u]
    <2>1. req' = [req EXCEPT ![r] = x] /\ x.pc \notin Redeeming
      BY <1>2 DEF LoginStart, Idle, Redeeming
    <2> HIDE DEF x
    <2> QED
      BY <2>1, MovedSlots
  <1>3. CASE LoginPassword(r)
    BY <1>3, GoneToSlots DEF LoginPassword, Redeeming
  <1>4. CASE LoginChallenge(r) \/ Fail(r)
    BY <1>4, AnsweredSlots DEF LoginChallenge, Fail
  <1>5. CASE CheckLockout(r)
    <2> DEFINE x == [req[r] EXCEPT !.pc = IF @ = "loginCheck" THEN "loginPassword"
                                                              ELSE "verifyTOTP",
                                   !.checkedAt = now]
    <2>1. Answer(r) \/ req' = [req EXCEPT ![r] = x]
      BY <1>5 DEF CheckLockout
    <2>2. x.pc \notin Redeeming
      BY DEF TypeInv, ReqOK, Request, Redeeming
    <2> HIDE DEF x
    <2> QED
      BY <2>1, <2>2, MovedSlots, AnsweredSlots
  <1> QED
    BY <1>2, <1>3, <1>4, <1>5 DEF LoginHandler

\* The steps of VerifyHandler but the acceptance and the session.
LEMMA VerifyUnpaid ==
  ASSUME TypeInv, NEW r \in Req,
         \/ \E t \in 1..minted, c \in Text : VerifyStart(r, t, c)
         \/ VerifyPeek(r) \/ VerifyTOTP(r) \/ VerifyConsume(r) \/ VerifyClear(r)
  PROVE  Unpaid
  <1>1. accepted' = accepted /\ sessions' = sessions
    BY DEF VerifyStart, VerifyPeek, VerifyTOTP, VerifyConsume, VerifyClear
  <1> SUFFICES \A q \in Req : KeepsSlot(q)
    BY <1>1 DEF Unpaid
  <1>2. ASSUME NEW t, NEW c, VerifyStart(r, t, c) PROVE \A q \in Req : KeepsSlot(q)
    <2> DEFINE x == [Idle EXCEPT !.pc = "verifyPeek", !.chal = t, !.text = c]
    <2>1. req' = [req EXCEPT ![r] = x] /\ x.pc \notin Redeeming
      BY <1>2 DEF VerifyStart, Idle, Redeeming
    <2> HIDE DEF x
    <2> QED
      BY <2>1, MovedSlots
  <1>3. CASE VerifyPeek(r)
    <2>1. ASSUME NEW u, req' = [req EXCEPT ![r].pc = "verifyCheck", ![r].user = u]
          PROVE  \A q \in Req : KeepsSlot(q)
      <3> DEFINE x == [req[r] EXCEPT !.pc = "verifyCheck", !.user = u]
      <3>1. req' = [req EXCEPT ![r] = x] /\ x.pc \notin Redeeming
        BY <2>1 DEF TypeInv, ReqOK, Request, Redeeming
      <3> HIDE DEF x
      <3> QED
        BY <3>1, MovedSlots
    <2> QED
      BY <1>3, <2>1, AnsweredSlots DEF VerifyPeek
  <1>4. CASE VerifyTOTP(r)
    <2> DEFINE x == [req[r] EXCEPT !.pc = "verifyReplay", !.validatedAt = now]
    <2>1. Answer(r) \/ Goto(r, "verifyFail") \/ req' = [req EXCEPT ![r] = x]
      BY <1>4 DEF VerifyTOTP
    <2>2. x.pc \notin Redeeming /\ "verifyFail" \notin Redeeming
      BY DEF TypeInv, ReqOK, Request, Redeeming
    <2> HIDE DEF x
    <2> QED
      BY <2>1, <2>2, MovedSlots, AnsweredSlots, GoneToSlots
  <1>5. CASE VerifyConsume(r) \/ VerifyClear(r)
    BY <1>5, GoneToSlots DEF VerifyConsume, VerifyClear, Redeeming
  <1> QED
    BY <1>2, <1>3, <1>4, <1>5

\* The setup handlers but their session, and everything outside the handlers.
LEMMA SetupUnpaid ==
  ASSUME TypeInv, NEW r \in Req,
         \/ \E u \in Founder : CompleteSetup(r, u) \/ BootstrapAdmin(r, u)
         \/ SetupSave(r) \/ SetupProvision(r)
  PROVE  Unpaid
  <1>1. accepted' = accepted /\ sessions' = sessions
    BY DEF CompleteSetup, BootstrapAdmin, SetupSave, SetupProvision
  <1> SUFFICES \A q \in Req : KeepsSlot(q)
    BY <1>1 DEF Unpaid
  <1>2. ASSUME NEW u, NEW pc \in {"setupSave", "setupReload"},
               req' = [req EXCEPT ![r] = [Idle EXCEPT !.pc = pc, !.user = u]]
        PROVE  \A q \in Req : KeepsSlot(q)
    <2> DEFINE x == [Idle EXCEPT !.pc = pc, !.user = u]
    <2>1. req' = [req EXCEPT ![r] = x] /\ x.pc \notin Redeeming
      BY <1>2 DEF Idle, Redeeming
    <2> HIDE DEF x
    <2> QED
      BY <2>1, MovedSlots
  <1>3. ASSUME NEW u \in Founder, CompleteSetup(r, u) \/ BootstrapAdmin(r, u)
        PROVE  \A q \in Req : KeepsSlot(q)
    BY <1>2, <1>3 DEF CompleteSetup, BootstrapAdmin
  <1>4. CASE SetupSave(r) \/ SetupProvision(r)
    BY <1>4, AnsweredSlots, GoneToSlots DEF SetupSave, SetupProvision, Redeeming
  <1> QED
    BY <1>3, <1>4

LEMMA MaintenanceUnpaid ==
  ASSUME \/ \E s \in sessions : Logout(s) \/ ValidateSession(s)
         \/ SweepExpired \/ SweepReplayCodes \/ SweepLockouts
         \/ ResetSetupState \/ ResetSessionState \/ ResetReload \/ Tick
         \/ UNCHANGED vars
  PROVE  Unpaid
  <1>1. accepted' = accepted /\ sessions' \subseteq sessions /\ req' = req
    BY DEF Logout, ValidateSession, SweepExpired, SweepReplayCodes, SweepLockouts,
       ResetSetupState, ResetSessionState, ResetReload, Tick, vars
  <1> QED
    BY <1>1 DEF Unpaid, KeepsSlot

\* The place of a new acceptance is one that nobody has yet.
LEMMA AcceptKeepsSessions ==
  ASSUME TypeInv, SessionPerAcceptance, NEW r \in Req, VerifyReplay(r)
  PROVE  SessionPerAcceptance'
  <1> DEFINE n == Len(accepted)
             a == [user |-> req[r].user, text |-> req[r].text, chal |-> req[r].chal,
                   validatedAt |-> req[r].validatedAt, at |-> now]
             x == [req[r] EXCEPT !.pc = "verifyConsume", !.slot = n + 1]
  <1>1. /\ req \in [Req -> Request] /\ accepted \in Seq(Acceptance) /\ n \in Nat
        /\ sessions \subseteq [tok : Nat, user : User, expires : Nat, via : Nat]
        /\ sessions' = sessions
    BY DEF TypeInv, ReqOK, MapsOK, RestOK, VerifyReplay
  <1>2. CASE Goto(r, "verifyFail") /\ accepted' = accepted
    <2>1. Unpaid
      BY <1>1, <1>2, GoneToSlots DEF Unpaid, Redeeming
    <2> QED
      BY <2>1, UnpaidKeeps
  <1>3. CASE AcceptCode(r, LiveCodes(req[r].user))
    <2>1. /\ accepted' = Append(accepted, a) /\ a.user = req[r].user
          /\ req' = [req EXCEPT ![r] = x]
      BY <1>3 DEF AcceptCode
    <2>2. x.slot = n + 1 /\ x.user = req[r].user
      BY <1>1 DEF Request
    <2> HIDE DEF a, x
    <2>3. /\ DOMAIN accepted = 1..n /\ DOMAIN accepted' = 1..(n + 1)
          /\ \A i \in 1..n : accepted'[i] = accepted[i]
          /\ accepted'[n + 1] = a
      BY <1>1, <2>1
    <2>4. \A q \in Req : IF q = r THEN req'[q] = x ELSE req'[q] = req[q]
      BY <1>1, <2>1
    <2> HIDE DEF n
    <2>5. \A s \in sessions : s.via \in Nat /\ s.via # n + 1
      <3>1. \A s \in sessions : s.via \in Nat /\ (s.via = 0 \/ s.via \in 1..n)
        BY <1>1, <2>3 DEF SessionPerAcceptance, BySetup
      <3> QED
        BY <1>1, <3>1
    <2>6. \A q \in Req : q # r /\ req'[q].pc \in Redeeming =>
             /\ req[q].pc \in Redeeming
             /\ req'[q].slot = req[q].slot /\ req'[q].user = req[q].user
             /\ req[q].slot \in 1..n /\ req[q].slot # n + 1
      <3>1. \A q \in Req : req[q].pc \in Redeeming => req[q].slot \in 1..n
        BY <2>3 DEF SessionPerAcceptance
      <3> QED
        BY <1>1, <2>4, <3>1
    <2>7. req'[r].slot = n + 1 /\ req'[r].user = req[r].user
      BY <2>2, <2>4
    <2>8. \A s \in sessions' : s.via # BySetup =>
             /\ s.via \in DOMAIN accepted'
             /\ accepted'[s.via].user = s.user
             /\ \A t \in sessions' : s.via = t.via => s = t
      BY <1>1, <2>3 DEF SessionPerAcceptance
    <2>9. ASSUME NEW q \in Req, req'[q].pc \in Redeeming
          PROVE  /\ req'[q].slot \in DOMAIN accepted'
                 /\ accepted'[req'[q].slot].user = req'[q].user
                 /\ \A s \in sessions' : s.via # req'[q].slot
                 /\ \A o \in Req : o # q /\ req'[o].pc \in Redeeming
                                     => req'[o].slot # req'[q].slot
      <3>1. CASE q = r
        <4>1. req'[q].slot \in DOMAIN accepted' /\ accepted'[req'[q].slot].user = req'[q].user
          BY <1>1, <2>1, <2>3, <2>7, <3>1
        <4>2. \A s \in sessions' : s.via # req'[q].slot
          BY <1>1, <2>5, <2>7, <3>1
        <4>3. \A o \in Req : o # q /\ req'[o].pc \in Redeeming => req'[o].slot # req'[q].slot
          BY <2>6, <2>7, <3>1
        <4> QED
          BY <4>1, <4>2, <4>3
      <3>2. CASE q # r
        <4>1. /\ req[q].pc \in Redeeming /\ req'[q].slot = req[q].slot
              /\ req'[q].user = req[q].user /\ req[q].slot \in 1..n /\ req[q].slot # n + 1
          BY <2>6, <2>9, <3>2
        <4>2. req'[q].slot \in DOMAIN accepted' /\ accepted'[req'[q].slot].user = req'[q].user
          BY <1>1, <2>3, <4>1 DEF SessionPerAcceptance
        <4>3. \A s \in sessions' : s.via # req'[q].slot
          BY <1>1, <4>1 DEF SessionPerAcceptance
        <4>4. \A o \in Req : o # q /\ req'[o].pc \in Redeeming => req'[o].slot # req'[q].slot
          BY <2>6, <2>7, <4>1 DEF SessionPerAcceptance
        <4> QED
          BY <4>2, <4>3, <4>4
      <3> QED
        BY <3>1, <3>2
    <2> QED
      BY <2>8, <2>9 DEF SessionPerAcceptance
  <1> QED
    BY <1>2, <1>3 DEF VerifyReplay

\* A session takes its acceptance with it: the request is answered.
LEMMA SessionKeepsSessions ==
  ASSUME TypeInv, SessionPerAcceptance, NEW r \in Req,
         VerifySession(r) \/ SetupSession(r)
  PROVE  SessionPerAcceptance'
  <1> DEFINE v == IF req[r].pc = "verifySession" THEN req[r].slot ELSE BySetup
             s == [tok |-> minted + 1, user |-> req[r].user,
                   expires |-> now + SessionTTL, via |-> v]
  <1>1. /\ req \in [Req -> Request] /\ accepted \in Seq(Acceptance)
        /\ accepted' = accepted /\ sessions' = sessions \cup {s} /\ Answer(r)
        /\ req[r].pc \in {"verifySession", "setupSession"}
    BY DEF TypeInv, ReqOK, RestOK, VerifySession, SetupSession
  <1>2. s.via = v /\ s.user = req[r].user
    OBVIOUS
  <1>3. /\ req'[r].pc \notin Redeeming
        /\ \A q \in Req : q # r => req'[q] = req[q]
    BY <1>1 DEF Answer, Idle, Redeeming
  <1>4. v # BySetup => /\ v = req[r].slot /\ v \in DOMAIN accepted
                       /\ accepted[v].user = req[r].user
                       /\ \A t \in sessions : t.via # v
                       /\ \A q \in Req : q # r /\ req[q].pc \in Redeeming => req[q].slot # v
    BY <1>1 DEF SessionPerAcceptance, Redeeming
  <1>5. \A q \in Req : req[q].pc \in Redeeming => req[q].slot # BySetup
    BY <1>1 DEF SessionPerAcceptance, BySetup
  <1> HIDE DEF s, v
  <1>6. \A t \in sessions' : t.via # BySetup =>
           /\ t.via \in DOMAIN accepted' /\ accepted'[t.via].user = t.user
           /\ \A z \in sessions' : t.via = z.via => t = z
    BY <1>1, <1>2, <1>4 DEF SessionPerAcceptance
  <1>7. ASSUME NEW q \in Req, req'[q].pc \in Redeeming
        PROVE  /\ req'[q].slot \in DOMAIN accepted'
               /\ accepted'[req'[q].slot].user = req'[q].user
               /\ \A t \in sessions' : t.via # req'[q].slot
               /\ \A o \in Req : o # q /\ req'[o].pc \in Redeeming
                                   => req'[o].slot # req'[q].slot
    <2>1. q # r /\ req'[q] = req[q] /\ req[q].pc \in Redeeming
      BY <1>3, <1>7
    <2>2. req[q].slot # v
      BY <1>4, <1>5, <2>1
    <2> QED
      BY <1>1, <1>2, <1>3, <2>1, <2>2 DEF SessionPerAcceptance
  <1> QED
    BY <1>6, <1>7 DEF SessionPerAcceptance

LEMMA NextSessions == TypeInv /\ SessionPerAcceptance /\ [Next]_vars => SessionPerAcceptance'
  <1> SUFFICES ASSUME TypeInv, SessionPerAcceptance, [Next]_vars PROVE SessionPerAcceptance'
    OBVIOUS
  <1>1. ASSUME NEW r \in Req, VerifyHandler(r) PROVE SessionPerAcceptance'
    BY <1>1, VerifyUnpaid, UnpaidKeeps, AcceptKeepsSessions, SessionKeepsSessions
       DEF VerifyHandler
  <1>2. ASSUME NEW r \in Req, SetupHandler(r) PROVE SessionPerAcceptance'
    BY <1>2, SetupUnpaid, UnpaidKeeps, SessionKeepsSessions DEF SetupHandler
  <1> QED
    BY <1>1, <1>2, LoginUnpaid, MaintenanceUnpaid, UnpaidKeeps DEF Next

\* However logins, verifies, logouts, sweeps, setups and resets interleave, a
\* session was paid for by one accepted code of its user and no code pays twice.
THEOREM SessionsArePaidFor == Spec => []SessionPerAcceptance
  <1>1. Init => SessionPerAcceptance
    BY DEF Init, SessionPerAcceptance, Idle, Redeeming
  <1> QED
    BY <1>1, InitTypeInv, NextTypeInv, NextSessions, PTL DEF Spec

(* --------------------------- redeemed challenges ------------------------- *)

\* Requests that have had a code accepted on challenge c and have not consumed
\* it yet, and whether c is still there.
Consuming(c) == {r \in Req : req[r].pc = "verifyConsume" /\ req[r].chal = c}
Live(c) == \E e \in challenges : e.tok = c

\* Tokens that have not been drawn are unknown.
FreshTokens ==
    /\ \A r \in Req : req[r].chal <= minted
    /\ \A i \in DOMAIN accepted : accepted[i].chal <= minted
    /\ \A e \in challenges : e.tok \in 1..minted

\* While a challenge is there, every acceptance on it is of a request that has
\* yet to consume it.
LiveAcceptances ==
    \A c \in 1..minted :
        Live(c) => Cardinality(AcceptedOn(c)) <= Cardinality(Consuming(c))

ChalInv == FreshTokens /\ LiveAcceptances /\ ChallengeBound

LEMMA ChalFinite ==
  ASSUME TypeInv, NEW c
  PROVE  /\ IsFiniteSet(Req) /\ Cardinality(Req) \in Nat
         /\ IsFiniteSet(AcceptedOn(c)) /\ Cardinality(AcceptedOn(c)) \in Nat
         /\ IsFiniteSet(MayRedeem(c)) /\ Cardinality(MayRedeem(c)) \in Nat
         /\ IsFiniteSet(Consuming(c)) /\ Cardinality(Consuming(c)) \in Nat
  <1>1. IsFiniteSet(Req)
    BY LoginConstants
  <1>2. DOMAIN accepted = 1..Len(accepted) /\ Len(accepted) \in Nat
    BY DEF TypeInv, RestOK
  <1>3. IsFiniteSet(1..Len(accepted))
    BY <1>2, FS_Interval
  <1>4. /\ AcceptedOn(c) \subseteq 1..Len(accepted)
        /\ MayRedeem(c) \subseteq Req /\ Consuming(c) \subseteq Req
    BY <1>2 DEF AcceptedOn, MayRedeem, Consuming
  <1>5. /\ IsFiniteSet(AcceptedOn(c)) /\ IsFiniteSet(MayRedeem(c))
        /\ IsFiniteSet(Consuming(c))
    BY <1>1, <1>3, <1>4, FS_Subset
  <1> QED
    BY <1>1, <1>5, FS_CardinalityType

\* A step after which no challenge has more acceptances, more requests that may
\* have one or fewer that are about to consume it.
QuietOnChallenges ==
    /\ accepted' = accepted /\ minted' \in {minted, minted + 1}
    /\ \A e \in challenges' : e \in challenges \/ (e.tok = minted + 1 /\ minted' = e.tok)
    /\ \A c \in 1..minted : /\ MayRedeem(c)' \subseteq MayRedeem(c)
                            /\ Consuming(c) \subseteq Consuming(c)'
    /\ \A r \in Req : /\ req'[r].chal <= minted
                      /\ req'[r].pc \in {"verifyCheck", "verifyTOTP", "verifyReplay"}
                           => req'[r].chal = req[r].chal

LEMMA QuietKeepsChalInv ==
  ASSUME TypeInv, TypeInv', ChalInv, QuietOnChallenges
  PROVE  ChalInv'
  <1>1. minted \in Nat /\ minted' \in {minted, minted + 1} /\ accepted' = accepted
    BY DEF TypeInv, RestOK, QuietOnChallenges
  <1>2. \A i \in DOMAIN accepted : accepted[i].chal \in Nat
    <2>1. \A i \in DOMAIN accepted : accepted[i] \in Acceptance
      BY DEF TypeInv, RestOK
    <2> QED BY <2>1 DEF Acceptance
  <1>3. \A r \in Req : req[r].chal \in Nat /\ req'[r].chal \in Nat
    BY DEF TypeInv, ReqOK, LocalOK, Request
  <1>4. \A e \in challenges : e.tok \in Nat
    BY DEF TypeInv, MapsOK
  <1>5. FreshTokens'
    BY <1>1, <1>2, <1>3, <1>4 DEF ChalInv, FreshTokens, QuietOnChallenges
  <1>6. \A c \in 1..minted : Live(c)' => Live(c)
    BY <1>1, <1>4 DEF Live, QuietOnChallenges
  <1>7. ASSUME NEW c \in 1..minted
        PROVE  /\ Live(c)' => Cardinality(AcceptedOn(c))' <= Cardinality(Consuming(c))'
               /\ Cardinality(AcceptedOn(c))' + Cardinality(MayRedeem(c))'
                    <= Cardinality(Req)
    <2>1. AcceptedOn(c)' = AcceptedOn(c)
      BY <1>1 DEF AcceptedOn
    <2>2. /\ Cardinality(MayRedeem(c)') <= Cardinality(MayRedeem(c))
          /\ Cardinality(Consuming(c)) <= Cardinality(Consuming(c)')
      <3>1. MayRedeem(c)' \subseteq MayRedeem(c) /\ Consuming(c) \subseteq Consuming(c)'
        BY DEF QuietOnChallenges
      <3>2. IsFiniteSet(MayRedeem(c)) /\ IsFiniteSet(Consuming(c)')
        <4>1. Consuming(c)' \subseteq Req
          BY DEF Consuming
        <4> QED BY <4>1, ChalFinite, FS_Subset
      <3> QED BY <3>1, <3>2, FS_Subset
    <2>3. /\ Cardinality(AcceptedOn(c)) \in Nat /\ Cardinality(Req) \in Nat
          /\ Cardinality(MayRedeem(c)) \in Nat /\ Cardinality(Consuming(c)) \in Nat
          /\ Cardinality(MayRedeem(c)') \in Nat /\ Cardinality(Consuming(c)') \in Nat
      <3>1. MayRedeem(c)' \subseteq Req /\ Consuming(c)' \subseteq Req
        BY DEF MayRedeem, Consuming
      <3> QED BY <3>1, ChalFinite, FS_Subset, FS_CardinalityType
    <2> QED
      BY <1>6, <2>1, <2>2, <2>3 DEF ChalInv, LiveAcceptances, ChallengeBound
  <1>8. ASSUME NEW c \in 1..minted', c \notin 1..minted
        PROVE  /\ Live(c)' => Cardinality(AcceptedOn(c))' <= Cardinality(Consuming(c))'
               /\ Cardinality(AcceptedOn(c))' + Cardinality(MayRedeem(c))'
                    <= Cardinality(Req)
    <2>1. c = minted + 1
      BY <1>1, <1>8
    <2>2. AcceptedOn(c)' = {} /\ MayRedeem(c)' = {}
      <3>1. \A i \in DOMAIN accepted : accepted[i].chal # c
        BY <1>1, <1>2, <2>1 DEF ChalInv, FreshTokens
      <3>2. \A r \in Req : req'[r].chal # c
        BY <1>1, <1>3, <2>1 DEF QuietOnChallenges
      <3> QED BY <1>1, <3>1, <3>2 DEF AcceptedOn, MayRedeem
    <2>3. Cardinality(Consuming(c)') \in Nat /\ Cardinality(Req) \in Nat
      <3>1. Consuming(c)' \subseteq Req
        BY DEF Consuming
      <3> QED BY <3>1, ChalFinite, FS_Subset, FS_CardinalityType
    <2> QED
      BY <2>2, <2>3, FS_EmptySet
  <1>9. LiveAcceptances' /\ ChallengeBound'
    BY <1>7, <1>8 DEF LiveAcceptances, ChallengeBound
  <1> QED
    BY <1>5, <1>9 DEF ChalInv

\* A request that moves without passing PeekChallenge, being accepted or
\* consuming its challenge.
MovedOn(r) ==
    /\ accepted' = accepted /\ \A q \in Req : q # r => req'[q] = req[q]
    /\ req'[r].chal <= minted /\ req[r].pc # "verifyConsume"
    /\ req'[r].pc \in {"verifyCheck", "verifyTOTP", "verifyReplay"}
         => /\ req[r].pc \in {"verifyCheck", "verifyTOTP", "verifyReplay"}
            /\ req'[r].chal = req[r].chal

LEMMA MovedOnIsQuiet ==
  ASSUME TypeInv, ChalInv, NEW r \in Req, MovedOn(r), minted' \in {minted, minted + 1},
         \A e \in challenges' : e \in challenges \/ (e.tok = minted + 1 /\ minted' = e.tok)
  PROVE  QuietOnChallenges
  <1>1. \A c \in 1..minted : /\ MayRedeem(c)' \subseteq MayRedeem(c)
                             /\ Consuming(c) \subseteq Consuming(c)'
    BY DEF MovedOn, MayRedeem, Consuming
  <1>2. \A q \in Req : /\ req'[q].chal <= minted
                       /\ req'[q].pc \in {"verifyCheck", "verifyTOTP", "verifyReplay"}
                            => req'[q].chal = req[q].chal
    BY DEF MovedOn, ChalInv, FreshTokens
  <1> QED
    BY <1>1, <1>2 DEF MovedOn, QuietOnChallenges

\* The steps of requests that are quiet.
LEMMA RequestStepsAreQuiet ==
  ASSUME TypeInv, ChalInv, NEW r \in Req,
         \/ LoginHandler(r) \/ SetupHandler(r) \/ CheckLockout(r) \/ Fail(r)
         \/ \E t \in 1..minted, x \in Text : VerifyStart(r, t, x)
         \/ VerifyTOTP(r) \/ VerifyClear(r) \/ VerifySession(r)
  PROVE  QuietOnChallenges
  <1>1. req \in [Req -> Request] /\ minted \in Nat /\ req[r].chal <= minted
    BY DEF TypeInv, ReqOK, RestOK, ChalInv, FreshTokens
  <1>2. Idle.pc = "idle" /\ Idle.chal = 0 /\ 0 <= minted
    BY <1>1 DEF Idle
  <1>3. ASSUME Answer(r), accepted' = accepted, req[r].pc # "verifyConsume"
        PROVE  MovedOn(r)
    BY <1>1, <1>2, <1>3 DEF Answer, MovedOn
  <1>4. ASSUME NEW pc, Goto(r, pc), accepted' = accepted, req[r].pc # "verifyConsume",
               pc \notin {"verifyCheck", "verifyTOTP", "verifyReplay"}
        PROVE  MovedOn(r)
    BY <1>1, <1>4 DEF Goto, MovedOn, Request
  <1>5. CASE LoginHandler(r)
    <2>1. MovedOn(r)
      BY <1>1, <1>2, <1>3, <1>4, <1>5
      DEF LoginHandler, LoginStart, LoginPassword, LoginChallenge, MovedOn, Idle
    <2>2. CASE LoginChallenge(r)
      <3>1. /\ minted' = minted + 1
            /\ \A e \in challenges' : e \in challenges \/ e.tok = minted + 1
        BY <2>2 DEF LoginChallenge
      <3> QED BY <2>1, <3>1, MovedOnIsQuiet
    <2>3. CASE UNCHANGED <<challenges, minted>>
      BY <2>1, <2>3, MovedOnIsQuiet
    <2> QED
      BY <1>5, <2>2, <2>3 DEF LoginHandler, LoginStart, LoginPassword
  <1>6. CASE SetupHandler(r)
    <2>1. MovedOn(r)
      BY <1>1, <1>2, <1>3, <1>4, <1>6
      DEF SetupHandler, CompleteSetup, BootstrapAdmin, SetupSave, SetupProvision,
          SetupSession, MovedOn, Idle
    <2> QED
      BY <1>6, <2>1, MovedOnIsQuiet
      DEF SetupHandler, CompleteSetup, BootstrapAdmin, SetupSave, SetupProvision,
          SetupSession
  <1>7. CASE CheckLockout(r)
    <2>1. MovedOn(r)
      BY <1>1, <1>2, <1>3, <1>7 DEF CheckLockout, MovedOn, Request
    <2> QED BY <1>7, <2>1, MovedOnIsQuiet DEF CheckLockout
  <1>8. CASE Fail(r)
    BY <1>3, <1>8, MovedOnIsQuiet DEF Fail
  <1>9. ASSUME NEW t \in 1..minted, NEW x \in Text, VerifyStart(r, t, x)
        PROVE  QuietOnChallenges
    <2>1. /\ req[r].pc = "idle" /\ accepted' = accepted
          /\ \A q \in Req : q # r => req'[q] = req[q]
          /\ req'[r].pc = "verifyPeek" /\ req'[r].chal = t /\ t <= minted
      <3>1. t \in Nat /\ t <= minted
        BY <1>1
      <3>2. /\ req[r].pc = "idle" /\ accepted' = accepted
            /\ req' = [req EXCEPT ![r] = [Idle EXCEPT !.pc = "verifyPeek",
                                                     !.chal = t, !.text = x]]
        BY <1>9 DEF VerifyStart
      <3> QED BY <1>1, <3>1, <3>2 DEF Idle
    <2>2. MovedOn(r)
      BY <2>1 DEF MovedOn
    <2> QED BY <1>9, <2>2, MovedOnIsQuiet DEF VerifyStart
  <1>10. CASE VerifyTOTP(r)
    <2>1. MovedOn(r)
      BY <1>1, <1>3, <1>4, <1>10 DEF VerifyTOTP, MovedOn, Request
    <2> QED BY <1>10, <2>1, MovedOnIsQuiet DEF VerifyTOTP
  <1>11. CASE VerifyClear(r) \/ VerifySession(r)
    <2>1. MovedOn(r)
      BY <1>1, <1>3, <1>4, <1>11 DEF VerifyClear, VerifySession
    <2> QED BY <1>11, <2>1, MovedOnIsQuiet DEF VerifyClear, VerifySession
  <1> QED
    BY <1>5, <1>6, <1>7, <1>8, <1>9, <1>10, <1>11

\* Sweeps, logouts, resets and time.
LEMMA MaintenanceIsQuiet ==
  ASSUME TypeInv, ChalInv,
         \/ \E s \in sessions : Logout(s) \/ ValidateSession(s)
         \/ SweepExpired \/ SweepReplayCodes \/ SweepLockouts
         \/ ResetSetupState \/ ResetSessionState \/ ResetReload \/ Tick
         \/ UNCHANGED vars
  PROVE  QuietOnChallenges
  <1>1. UNCHANGED <<accepted, minted, req>> /\ challenges' \subseteq challenges
    BY DEF Logout, ValidateSession, SweepExpired, SweepReplayCodes, SweepLockouts,
       ResetSetupState, ResetSessionState, ResetReload, Tick, vars
  <1> QED
    BY <1>1 DEF QuietOnChallenges, ChalInv, FreshTokens, MayRedeem, Consuming

\* PeekChallenge lets a request through only while the challenge is there, and
\* then the acceptances on it are outnumbered by requests yet to consume it.
LEMMA PeekKeepsChalInv ==
  ASSUME TypeInv, TypeInv', ChalInv, NEW r \in Req, VerifyPeek(r)
  PROVE  ChalInv'
  <1>0. PICK k : k = req[r].chal
    OBVIOUS
  <1>1. /\ req \in [Req -> Request] /\ req[r].pc = "verifyPeek" /\ minted \in Nat
        /\ k \in Nat /\ k <= minted
        /\ UNCHANGED <<accepted, minted>> /\ challenges' \subseteq challenges
    BY <1>0 DEF TypeInv, ReqOK, RestOK, Request, ChalInv, FreshTokens, VerifyPeek
  <1>2. CASE Answer(r)
    <2>1. MovedOn(r)
      BY <1>1, <1>2 DEF Answer, Idle, MovedOn
    <2> QED BY <1>1, <2>1, MovedOnIsQuiet, QuietKeepsChalInv
  <1>3. ASSUME NEW e \in challenges', e.tok = req[r].chal,
               req' = [req EXCEPT ![r].pc = "verifyCheck", ![r].user = e.user]
        PROVE  ChalInv'
    <2>1. /\ req'[r].pc = "verifyCheck" /\ req'[r].chal = k
          /\ \A q \in Req : q # r => req'[q] = req[q]
      BY <1>0, <1>1, <1>3 DEF Request
    <2>2. FreshTokens'
      BY <1>1, <2>1 DEF ChalInv, FreshTokens
    <2>3. \A c : /\ AcceptedOn(c)' = AcceptedOn(c) /\ Consuming(c)' = Consuming(c)
                 /\ c # k => MayRedeem(c)' = MayRedeem(c)
      BY <1>0, <1>1, <2>1 DEF AcceptedOn, Consuming, MayRedeem
    <2>4. \A c : Live(c)' => Live(c)
      BY <1>1 DEF Live
    <2>5. LiveAcceptances'
      BY <1>1, <2>3, <2>4 DEF ChalInv, LiveAcceptances
    <2>6. Cardinality(AcceptedOn(k)) + Cardinality(MayRedeem(k)') <= Cardinality(Req)
      <3>1. k \in 1..minted /\ Live(k)
        <4>1. e \in challenges /\ e.tok \in 1..minted
          BY <1>1, <1>3 DEF ChalInv, FreshTokens
        <4> QED BY <1>0, <1>3, <4>1 DEF Live
      <3>2. Cardinality(AcceptedOn(k)) <= Cardinality(Consuming(k))
        BY <3>1 DEF ChalInv, LiveAcceptances
      <3>3. /\ MayRedeem(k)' \subseteq Req /\ Consuming(k) \subseteq Req
            /\ MayRedeem(k)' \cap Consuming(k) = {}
        BY <1>1, <2>1 DEF MayRedeem, Consuming
      <3>4. /\ IsFiniteSet(MayRedeem(k)') /\ IsFiniteSet(Consuming(k))
            /\ IsFiniteSet(Req)
        BY <3>3, ChalFinite, FS_Subset
      <3>5. Cardinality(MayRedeem(k)' \cup Consuming(k))
              = Cardinality(MayRedeem(k)') + Cardinality(Consuming(k))
                  - Cardinality(MayRedeem(k)' \cap Consuming(k))
        BY <3>4, FS_Union
      <3>6. Cardinality(MayRedeem(k)' \cup Consuming(k)) <= Cardinality(Req)
        <4>1. MayRedeem(k)' \cup Consuming(k) \subseteq Req
          BY <3>3
        <4> QED BY <3>4, <4>1, FS_Subset
      <3>7. Cardinality(MayRedeem(k)' \cap Consuming(k)) = 0
        BY <3>3, FS_EmptySet
      <3>8. /\ Cardinality(MayRedeem(k)') \in Nat /\ Cardinality(Consuming(k)) \in Nat
            /\ Cardinality(AcceptedOn(k)) \in Nat /\ Cardinality(Req) \in Nat
        BY <3>4, ChalFinite, FS_CardinalityType
      <3> QED BY <3>2, <3>5, <3>6, <3>7, <3>8
    <2>7. ChallengeBound'
      <3> QED BY <1>1, <2>3, <2>6 DEF ChalInv, ChallengeBound
    <2> QED BY <2>2, <2>5, <2>7 DEF ChalInv
  <1> QED
    BY <1>2, <1>3 DEF VerifyPeek

\* An acceptance takes its request from the one side of the bound to the other.
LEMMA ReplayKeepsChalInv ==
  ASSUME TypeInv, TypeInv', ChalInv, NEW r \in Req, VerifyReplay(r)
  PROVE  ChalInv'
  <1>0. PICK k : k = req[r].chal
    OBVIOUS
  <1>1. /\ req \in [Req -> Request] /\ req[r].pc = "verifyReplay" /\ minted \in Nat
        /\ k \in Nat /\ k <= minted /\ accepted \in Seq(Acceptance)
        /\ UNCHANGED <<challenges, minted>>
    BY <1>0 DEF TypeInv, ReqOK, RestOK, Request, ChalInv, FreshTokens, VerifyReplay
  <1>2. CASE Goto(r, "verifyFail") /\ accepted' = accepted
    <2>1. MovedOn(r)
      BY <1>0, <1>1, <1>2 DEF Goto, MovedOn, Request
    <2> QED BY <1>1, <2>1, MovedOnIsQuiet, QuietKeepsChalInv
  <1>3. CASE AcceptCode(r, LiveCodes(req[r].user))
    <2>1. /\ req'[r].pc = "verifyConsume" /\ req'[r].chal = k
          /\ \A q \in Req : q # r => req'[q] = req[q]
      BY <1>0, <1>1, <1>3 DEF AcceptCode, Request
    <2>2. PICK a : a.chal = k /\ accepted' = Append(accepted, a)
      BY <1>0, <1>3 DEF AcceptCode
    <2>3. /\ Len(accepted) \in Nat /\ DOMAIN accepted = 1..Len(accepted)
          /\ DOMAIN accepted' = 1..(Len(accepted) + 1)
          /\ \A i \in DOMAIN accepted : accepted'[i] = accepted[i]
          /\ accepted'[Len(accepted) + 1] = a
      BY <1>1, <2>2
    <2> DEFINE last == Len(accepted) + 1
    <2>4. /\ AcceptedOn(k)' = AcceptedOn(k) \cup {last} /\ last \notin AcceptedOn(k)
          /\ \A c : c # k => AcceptedOn(c)' = AcceptedOn(c)
      BY <2>2, <2>3 DEF AcceptedOn
    <2>5. /\ MayRedeem(k)' = MayRedeem(k) \ {r} /\ r \in MayRedeem(k)
          /\ Consuming(k)' = Consuming(k) \cup {r} /\ r \notin Consuming(k)
          /\ \A c : c # k => MayRedeem(c)' = MayRedeem(c) /\ Consuming(c)' = Consuming(c)
      BY <1>0, <1>1, <2>1 DEF MayRedeem, Consuming
    <2>6. FreshTokens'
      BY <1>1, <2>1, <2>2, <2>3 DEF ChalInv, FreshTokens
    <2> HIDE DEF last
    <2>7. /\ Cardinality(AcceptedOn(k)') = Cardinality(AcceptedOn(k)) + 1
          /\ Cardinality(MayRedeem(k)') = Cardinality(MayRedeem(k)) - 1
          /\ Cardinality(Consuming(k)') = Cardinality(Consuming(k)) + 1
      <3>1. /\ IsFiniteSet(AcceptedOn(k)) /\ IsFiniteSet(MayRedeem(k))
            /\ IsFiniteSet(Consuming(k))
        BY ChalFinite
      <3>2. Cardinality(AcceptedOn(k) \cup {last}) = Cardinality(AcceptedOn(k)) + 1
        BY <2>4, <3>1, FS_AddElement
      <3>3. Cardinality(MayRedeem(k) \ {r}) = Cardinality(MayRedeem(k)) - 1
        BY <2>5, <3>1, FS_RemoveElement
      <3>4. Cardinality(Consuming(k) \cup {r}) = Cardinality(Consuming(k)) + 1
        BY <2>5, <3>1, FS_AddElement
      <3> QED BY <2>4, <2>5, <3>2, <3>3, <3>4
    <2>8. /\ Cardinality(AcceptedOn(k)) \in Nat /\ Cardinality(MayRedeem(k)) \in Nat
          /\ Cardinality(Consuming(k)) \in Nat /\ Cardinality(Req) \in Nat
      BY ChalFinite
    <2>9. \A c : Live(c)' <=> Live(c)
      BY <1>1 DEF Live
    <2>10. LiveAcceptances'
      <3> SUFFICES ASSUME NEW c \in 1..minted, Live(c)
                   PROVE  Cardinality(AcceptedOn(c)') <= Cardinality(Consuming(c)')
        BY <1>1, <2>9 DEF LiveAcceptances
      <3>1. Cardinality(AcceptedOn(c)) <= Cardinality(Consuming(c))
        BY DEF ChalInv, LiveAcceptances
      <3>2. CASE c = k
        BY <2>7, <2>8, <3>1, <3>2
      <3>3. CASE c # k
        BY <2>4, <2>5, <3>1, <3>3
      <3> QED BY <3>2, <3>3
    <2>11. ChallengeBound'
      <3> SUFFICES ASSUME NEW c \in 1..minted
                   PROVE  Cardinality(AcceptedOn(c)') + Cardinality(MayRedeem(c)')
                            <= Cardinality(Req)
        BY <1>1 DEF ChallengeBound
      <3>1. Cardinality(AcceptedOn(c)) + Cardinality(MayRedeem(c)) <= Cardinality(Req)
        BY DEF ChalInv, ChallengeBound
      <3>2. CASE c = k
        BY <2>7, <2>8, <3>1, <3>2
      <3>3. CASE c # k
        BY <2>4, <2>5, <3>1, <3>3
      <3> QED BY <3>2, <3>3
    <2> QED BY <2>6, <2>10, <2>11 DEF ChalInv
  <1> QED
    BY <1>2, <1>3 DEF VerifyReplay

\* A challenge that is consumed is gone.
LEMMA ConsumeKeepsChalInv ==
  ASSUME TypeInv, TypeInv', ChalInv, NEW r \in Req, VerifyConsume(r)
  PROVE  ChalInv'
  <1>0. PICK k : k = req[r].chal
    OBVIOUS
  <1>1. /\ req \in [Req -> Request] /\ UNCHANGED <<accepted, minted>>
        /\ challenges' = {e \in challenges : e.tok # k}
        /\ req'[r].pc = "verifyClear" /\ req'[r].chal = k
        /\ \A q \in Req : q # r => req'[q] = req[q]
        /\ req[r].pc = "verifyConsume"
    BY <1>0 DEF TypeInv, ReqOK, VerifyConsume, Goto, Request
  <1>2. FreshTokens'
    <2>1. \A q \in Req : req'[q].chal <= minted
      BY <1>0, <1>1 DEF ChalInv, FreshTokens
    <2>2. challenges' \subseteq challenges
      BY <1>1
    <2> QED BY <1>1, <2>1, <2>2 DEF ChalInv, FreshTokens
  <1>3. \A c : /\ AcceptedOn(c)' = AcceptedOn(c) /\ MayRedeem(c)' = MayRedeem(c)
               /\ c # k => Consuming(c)' = Consuming(c)
    BY <1>0, <1>1 DEF AcceptedOn, MayRedeem, Consuming
  <1>4. \A c : Live(c)' => Live(c) /\ c # k
    BY <1>1 DEF Live
  <1>5. LiveAcceptances'
    BY <1>1, <1>3, <1>4 DEF ChalInv, LiveAcceptances
  <1>6. ChallengeBound'
    BY <1>1, <1>3 DEF ChalInv, ChallengeBound
  <1> QED BY <1>2, <1>5, <1>6 DEF ChalInv

LEMMA NextChalInv == TypeInv /\ ChalInv /\ [Next]_vars => ChalInv'
  <1> SUFFICES ASSUME TypeInv, ChalInv, [Next]_vars PROVE ChalInv'
    OBVIOUS
  <1>1. TypeInv'
    BY NextTypeInv
  <1>2. CASE UNCHANGED vars
    BY <1>1, <1>2, MaintenanceIsQuiet, QuietKeepsChalInv
  <1>3. CASE Next
    <2>1. \/ QuietOnChallenges
          \/ \E r \in Req : VerifyPeek(r) \/ VerifyReplay(r) \/ VerifyConsume(r)
      BY <1>3, RequestStepsAreQuiet, MaintenanceIsQuiet DEF Next, VerifyHandler
    <2> QED
      BY <1>1, <2>1, QuietKeepsChalInv, PeekKeepsChalInv, ReplayKeepsChalInv,
         ConsumeKeepsChalInv
  <1> QED
    BY <1>2, <1>3

\* Although a challenge is looked at and consumed in separate critical sections,
\* no challenge is redeemed more often than there are request goroutines, for any
\* requests, texts, sweeps and resets.
THEOREM ChallengesAreBounded == Spec => []ChallengeBound
  <1>1. Init => ChalInv
    <2> SUFFICES ASSUME Init PROVE ChalInv
      OBVIOUS
    <2>1. minted = 0 /\ challenges = {} /\ DOMAIN accepted = {} /\ 1..minted = {}
      BY DEF Init
    <2>2. \A r \in Req : req[r].chal = 0
      BY DEF Init, Idle
    <2> QED
      BY <2>1, <2>2 DEF ChalInv, FreshTokens, LiveAcceptances, ChallengeBound
  <1>2. ChalInv => ChallengeBound
    BY DEF ChalInv
  <1> QED
    BY <1>1, <1>2, InitTypeInv, NextTypeInv, NextChalInv, PTL DEF Spec

=============================================================================
