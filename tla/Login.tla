-------------------------------- MODULE Login --------------------------------
(***************************************************************************)
(* The browser login of the gateway (package auth): password, then TOTP    *)
(* code, then session.  Every HTTP request is a goroutine that runs        *)
(* LoginHandler or VerifyHandler; the handlers share four in-memory maps,  *)
(* each behind its own mutex, so a handler is a chain of atomic steps and  *)
(* any other request, sweep or reset may run between two of them.          *)
(*                                                                         *)
(* A code of the RFC 6238 generator is named by the first instant at which *)
(* totp.Validate accepts it; it is accepted for CodeWindow instants (three *)
(* 30 s periods with the library's default skew of one).  The library      *)
(* trims what was typed, the handlers do not, so several texts may hold    *)
(* one code.                                                               *)
(***************************************************************************)
EXTENDS Integers, Sequences, FiniteSets

CONSTANTS
    Req,                \* request goroutines
    User,               \* names that may be typed into the login form
    Account,            \* names that ever have a password in the user store
    Enrolled,           \* names that ever have a TOTP secret in the vault
    Founder,            \* names an operator may set up as first administrator
    NoUser, NoText,
    Text,               \* what may be typed as a code
    TrimSpace,          \* strings.TrimSpace: the code each text holds, named
                        \* by its first valid instant
    MaxFailedAttempts, LockoutDuration, ReplayTTL, CodeWindow,
    ChallengeTTL, SessionTTL,
    MaxTime, MaxTokens  \* bounds of the instance

ASSUME LoginConstants ==
    /\ NoUser \notin User /\ Account \subseteq User /\ Enrolled \subseteq User
    /\ Founder \subseteq User
    /\ IsFiniteSet(Req)
    /\ NoText \notin Text /\ TrimSpace \in [Text -> Nat]
    /\ MaxFailedAttempts \in Nat \ {0} /\ LockoutDuration \in Nat \ {0}
    /\ ReplayTTL \in Nat /\ CodeWindow \in Nat
    /\ ChallengeTTL \in Nat /\ SessionTTL \in Nat
    /\ MaxTime \in Nat /\ MaxTokens \in Nat

\* The replay cache remembers a code for at least the code's validity
\* (totp.go: 90 s for three periods of 30 s).
ASSUME ReplayCoversWindow == ReplayTTL + 1 >= CodeWindow

VARIABLES
    now,            \* time.Now()
    setupRequired,  \* GetRuntimeStatus().SetupRequired
    hasAdmin,       \* GetRuntimeStatus().HasAdmin
    resetting,      \* the call ResetSetupHandler makes next
    req,            \* the local variables of each request
    challenges, sessions,   \* session.go, under mu
    lockouts,               \* lockout.go, under lockoutMu
    usedCodes,              \* totp.go, under replayMu
    minted,         \* number of tokens drawn from randHex so far
    accepted        \* history: the texts ValidateTOTP has accepted, in order

vars == <<now, setupRequired, hasAdmin, resetting, req, challenges, sessions, lockouts,
          usedCodes, minted, accepted>>

Never == -1
Idle == [pc |-> "idle", user |-> NoUser, chal |-> 0, text |-> NoText,
         checkedAt |-> Never, validatedAt |-> Never, slot |-> 0]
BySetup == 0        \* sessions that no code was needed for
NoEntry == [failures |-> 0, lockedAt |-> Never]

Pc == {"idle", "loginCheck", "loginPassword", "loginFail", "loginChallenge",
       "verifyPeek", "verifyCheck", "verifyTOTP", "verifyReplay",
       "verifyFail", "verifyConsume", "verifyClear", "verifySession",
       "setupSave", "setupReload", "setupSession"}

\* Requests that have been let through by IsLockedOut.
PastCheck == {"loginPassword", "loginFail", "loginChallenge", "verifyTOTP",
              "verifyReplay", "verifyFail", "verifyConsume", "verifyClear",
              "verifySession"}
\* ... of these, the ones that may still call RecordFailure,
MayFail == {"loginPassword", "loginFail", "verifyTOTP", "verifyReplay",
            "verifyFail"}
\* ... and the ones whose code has been accepted.
Redeeming == {"verifyConsume", "verifyClear", "verifySession"}

Init ==
    /\ now = 0
    /\ setupRequired = FALSE /\ hasAdmin = TRUE /\ resetting = "no"
    /\ req = [r \in Req |-> Idle]
    /\ challenges = {} /\ sessions = {}
    /\ lockouts = [u \in User |-> NoEntry]
    /\ usedCodes = {}
    /\ minted = 0
    /\ accepted = <<>>

-----------------------------------------------------------------------------
(* lockout.go *)

Locked(u) == /\ lockouts[u].lockedAt # Never
             /\ now - lockouts[u].lockedAt < LockoutDuration

KeepExpiredLock(u) == lockouts' = lockouts

\* IsLockedOut's side effect: an expired lock is deleted when it is looked at.
DropExpiredLock(u) ==
    lockouts' = IF lockouts[u].lockedAt # Never
                THEN [lockouts EXCEPT ![u] = NoEntry]
                ELSE lockouts

\* RecordFailure: at the threshold, and on every failure after it, the lock is
\* stamped with the present instant.
RecordFailureLate(u) ==
    LET n == lockouts[u].failures + 1
    IN  lockouts' = [lockouts EXCEPT ![u] =
            [failures |-> n,
             lockedAt |-> IF n > MaxFailedAttempts THEN now ELSE @.lockedAt]]

RecordFailure(u) ==
    LET n == lockouts[u].failures + 1
    IN  lockouts' = [lockouts EXCEPT ![u] =
            [failures |-> n,
             lockedAt |-> IF n >= MaxFailedAttempts THEN now ELSE @.lockedAt]]

ClearFailures(u) == lockouts' = [lockouts EXCEPT ![u] = NoEntry]

SweepEveryLock ==
    /\ \E u \in User : lockouts[u].lockedAt # Never
    /\ lockouts' = [u \in User |->
                      IF lockouts[u].lockedAt # Never THEN NoEntry
                                                      ELSE lockouts[u]]
    /\ UNCHANGED <<now, setupRequired, hasAdmin, resetting, req, challenges, sessions,
                   usedCodes, minted, accepted>>

SweepLockouts ==
    /\ \E u \in User : lockouts[u].lockedAt # Never /\ ~Locked(u)
    /\ lockouts' = [u \in User |->
                      IF lockouts[u].lockedAt # Never /\ ~Locked(u)
                      THEN NoEntry ELSE lockouts[u]]
    /\ UNCHANGED <<now, setupRequired, hasAdmin, resetting, req, challenges, sessions,
                   usedCodes, minted, accepted>>

-----------------------------------------------------------------------------
(* handlers.go: POST /auth/login *)

Goto(r, pc) == req' = [req EXCEPT ![r].pc = pc]
Answer(r) == req' = [req EXCEPT ![r] = Idle]

\* A request that finds setup required is answered 403 and changes nothing.
LoginStart(r, u) ==
    /\ req[r].pc = "idle" /\ ~setupRequired
    /\ req' = [req EXCEPT ![r] = [Idle EXCEPT !.pc = "loginCheck", !.user = u]]
    /\ UNCHANGED <<now, setupRequired, hasAdmin, resetting, challenges, sessions,
                   lockouts, usedCodes, minted, accepted>>

\* IsLockedOut, called by both handlers.
CheckLockout(r) ==
    LET u == req[r].user
    IN  /\ req[r].pc \in {"loginCheck", "verifyCheck"}
        /\ \/ /\ Locked(u)
              /\ Answer(r)
              /\ UNCHANGED lockouts
           \/ /\ ~Locked(u)
              /\ DropExpiredLock(u)
              /\ req' = [req EXCEPT
                    ![r].pc = IF @ = "loginCheck" THEN "loginPassword"
                                                  ELSE "verifyTOTP",
                    ![r].checkedAt = now]
        /\ UNCHANGED <<now, setupRequired, hasAdmin, resetting, challenges, sessions,
                       usedCodes, minted, accepted>>

\* config.ValidatePassword: a right or a wrong password was typed.
LoginPassword(r) ==
    /\ req[r].pc = "loginPassword"
    /\ \/ Goto(r, "loginFail")
       \/ req[r].user \in Account /\ Goto(r, "loginChallenge")
    /\ UNCHANGED <<now, setupRequired, hasAdmin, resetting, challenges, sessions,
                   lockouts, usedCodes, minted, accepted>>

Fail(r) ==
    /\ req[r].pc \in {"loginFail", "verifyFail"}
    /\ RecordFailure(req[r].user)
    /\ Answer(r)
    /\ UNCHANGED <<now, setupRequired, hasAdmin, resetting, challenges, sessions,
                   usedCodes, minted, accepted>>

\* NewChallenge
LoginChallenge(r) ==
    /\ req[r].pc = "loginChallenge"
    /\ minted < MaxTokens
    /\ minted' = minted + 1
    /\ challenges' = challenges \cup
         {[tok |-> minted + 1, user |-> req[r].user,
           expires |-> now + ChallengeTTL]}
    /\ Answer(r)
    /\ UNCHANGED <<now, setupRequired, hasAdmin, resetting, sessions, lockouts,
                   usedCodes, accepted>>

-----------------------------------------------------------------------------
(* handlers.go: POST /auth/verify *)

VerifyStart(r, t, text) ==
    /\ req[r].pc = "idle" /\ ~setupRequired
    /\ req' = [req EXCEPT ![r] =
                 [Idle EXCEPT !.pc = "verifyPeek", !.chal = t, !.text = text]]
    /\ UNCHANGED <<now, setupRequired, hasAdmin, resetting, challenges, sessions,
                   lockouts, usedCodes, minted, accepted>>

\* PeekChallenge: a missing challenge ends the request, an expired one is
\* deleted as well, a live one names the user and stays.
VerifyPeekNoReturn(r) ==
    /\ req[r].pc = "verifyPeek"
    /\ challenges' = {c \in challenges : c.tok # req[r].chal \/ now <= c.expires}
    /\ Goto(r, "verifyCheck")
    /\ UNCHANGED <<now, setupRequired, hasAdmin, resetting, sessions, lockouts,
                   usedCodes, minted, accepted>>

VerifyPeek(r) ==
    /\ req[r].pc = "verifyPeek"
    /\ challenges' = {c \in challenges : c.tok # req[r].chal \/ now <= c.expires}
    /\ \/ /\ \A c \in challenges' : c.tok # req[r].chal
          /\ Answer(r)
       \/ \E c \in challenges' :
             /\ c.tok = req[r].chal
             /\ req' = [req EXCEPT ![r].pc = "verifyCheck", ![r].user = c.user]
    /\ UNCHANGED <<now, setupRequired, hasAdmin, resetting, sessions, lockouts,
                   usedCodes, minted, accepted>>

\* The library's totp.Validate at instant t: it trims the text.
ValidAt(text, t) == /\ TrimSpace[text] <= t
                    /\ t < TrimSpace[text] + CodeWindow

\* LoadUserSecret, then totp.Validate, which reads the clock before replayMu is
\* taken.  A name without a secret (not enrolled, or removed by an admin in the
\* meantime) is refused without a recorded failure.
VerifyTOTPSkippingReplay(r) ==
    /\ req[r].pc = "verifyTOTP"
    /\ ValidAt(req[r].text, now)
    /\ req' = [req EXCEPT ![r].pc = "verifyConsume", ![r].validatedAt = now,
                          ![r].slot = Len(accepted)]
    /\ UNCHANGED <<now, setupRequired, hasAdmin, resetting, challenges, sessions,
                   lockouts, usedCodes, minted, accepted>>

VerifyTOTP(r) ==
    /\ req[r].pc = "verifyTOTP"
    /\ \/ Answer(r)
       \/ /\ req[r].user \in Enrolled
          /\ ~ValidAt(req[r].text, now)
          /\ Goto(r, "verifyFail")
       \/ /\ req[r].user \in Enrolled
          /\ ValidAt(req[r].text, now)
          /\ req' = [req EXCEPT ![r].pc = "verifyReplay",
                                ![r].validatedAt = now]
    /\ UNCHANGED <<now, setupRequired, hasAdmin, resetting, challenges, sessions,
                   lockouts, usedCodes, minted, accepted>>

\* Mutated: an entry is purged in the instant of its expiry.
LiveCodesStrictly(u) == {e \in usedCodes : e.user # u \/ now < e.expires}

\* The rest of ValidateTOTP, under replayMu: purge this user's expired entries,
\* refuse a text still remembered, otherwise remember it, as it was typed, and
\* accept.
LiveCodes(u) == {e \in usedCodes : e.user # u \/ now <= e.expires}

AcceptCode(r, kept) ==
    /\ usedCodes' = kept \cup {[user |-> req[r].user, text |-> req[r].text,
                                expires |-> now + ReplayTTL]}
    /\ accepted' = Append(accepted,
                     [user |-> req[r].user, text |-> req[r].text,
                      chal |-> req[r].chal,
                      validatedAt |-> req[r].validatedAt, at |-> now])
    /\ req' = [req EXCEPT ![r].pc = "verifyConsume",
                          ![r].slot = Len(accepted) + 1]

VerifyReplayPerChallenge(r) ==
    LET kept == LiveCodes(req[r].user)
    IN  /\ req[r].pc = "verifyReplay"
        /\ AcceptCode(r, kept)
        /\ UNCHANGED <<now, setupRequired, hasAdmin, resetting, challenges, sessions,
                       lockouts, minted>>

VerifyReplay(r) ==
    LET kept == LiveCodes(req[r].user)
        seen == \E e \in kept : e.user = req[r].user /\ e.text = req[r].text
    IN  /\ req[r].pc = "verifyReplay"
        /\ \/ /\ seen
              /\ usedCodes' = kept
              /\ Goto(r, "verifyFail")
              /\ UNCHANGED accepted
           \/ /\ ~seen
              /\ AcceptCode(r, kept)
        /\ UNCHANGED <<now, setupRequired, hasAdmin, resetting, challenges, sessions,
                       lockouts, minted>>

VerifyKeep(r) ==
    /\ req[r].pc = "verifyConsume"
    /\ Goto(r, "verifyClear")
    /\ UNCHANGED <<now, setupRequired, hasAdmin, resetting, challenges, sessions, lockouts,
                   usedCodes, minted, accepted>>

\* ConsumeChallenge
VerifyConsume(r) ==
    /\ req[r].pc = "verifyConsume"
    /\ challenges' = {c \in challenges : c.tok # req[r].chal}
    /\ Goto(r, "verifyClear")
    /\ UNCHANGED <<now, setupRequired, hasAdmin, resetting, sessions, lockouts,
                   usedCodes, minted, accepted>>

VerifyClear(r) ==
    /\ req[r].pc = "verifyClear"
    /\ ClearFailures(req[r].user)
    /\ Goto(r, "verifySession")
    /\ UNCHANGED <<now, setupRequired, hasAdmin, resetting, challenges, sessions,
                   usedCodes, minted, accepted>>

\* NewSession.  The field via is history: the acceptance that paid for it.
VerifySession(r) ==
    /\ req[r].pc = "verifySession"
    /\ minted < MaxTokens
    /\ minted' = minted + 1
    /\ sessions' = sessions \cup
         {[tok |-> minted + 1, user |-> req[r].user,
           expires |-> now + SessionTTL, via |-> req[r].slot]}
    /\ Answer(r)
    /\ UNCHANGED <<now, setupRequired, hasAdmin, resetting, challenges, lockouts,
                   usedCodes, accepted>>

-----------------------------------------------------------------------------
(* Sessions in use, the sweeps, setup reset and time *)

\* LogoutHandler / DeleteSession, and ValidateSession's deletion of an expired
\* session.
Logout(s) ==
    /\ s \in sessions
    /\ sessions' = sessions \ {s}
    /\ UNCHANGED <<now, setupRequired, hasAdmin, resetting, req, challenges, lockouts,
                   usedCodes, minted, accepted>>

ValidateSession(s) ==
    /\ s \in sessions /\ now > s.expires
    /\ sessions' = {x \in sessions : x.tok # s.tok}
    /\ UNCHANGED <<now, setupRequired, hasAdmin, resetting, req, challenges, lockouts,
                   usedCodes, minted, accepted>>

SweepExpired ==
    /\ challenges' = {c \in challenges : now <= c.expires}
    /\ sessions' = {s \in sessions : now <= s.expires}
    /\ UNCHANGED <<now, setupRequired, hasAdmin, resetting, req, lockouts, usedCodes,
                   minted, accepted>>

SweepReplayCodes ==
    /\ usedCodes' = {e \in usedCodes : now <= e.expires}
    /\ UNCHANGED <<now, setupRequired, hasAdmin, resetting, req, challenges, sessions,
                   lockouts, minted, accepted>>

\* ResetSetupHandler: the setup is withdrawn, then the maps of session.go are
\* emptied, then ReloadRuntime reads the user store again; users kept in an
\* outside vault survive.  A file that cannot be removed ends the handler after
\* the withdrawal, before the maps are emptied.
ResetSetupState ==
    /\ resetting = "no"
    /\ setupRequired' = TRUE /\ resetting' \in {"no", "sessions"}
    /\ UNCHANGED <<now, hasAdmin, req, challenges, sessions, lockouts,
                   usedCodes, minted, accepted>>

ResetSessionState ==
    /\ resetting = "sessions"
    /\ resetting' = "reload"
    /\ challenges' = {} /\ sessions' = {}
    /\ UNCHANGED <<now, setupRequired, hasAdmin, req, lockouts, usedCodes,
                   minted, accepted>>

ResetReload ==
    /\ resetting = "reload"
    /\ resetting' = "no" /\ hasAdmin' \in {FALSE, hasAdmin}
    /\ UNCHANGED <<now, setupRequired, req, challenges, sessions, lockouts,
                   usedCodes, minted, accepted>>

-----------------------------------------------------------------------------
(* setup.go: the first administrator gets a session without a code *)

\* CompleteSetupHandler up to its check
CompleteSetup(r, u) ==
    /\ req[r].pc = "idle" /\ (setupRequired \/ ~hasAdmin)
    /\ req' = [req EXCEPT ![r] = [Idle EXCEPT !.pc = "setupSave", !.user = u]]
    /\ UNCHANGED <<now, setupRequired, hasAdmin, resetting, challenges,
                   sessions, lockouts, usedCodes, minted, accepted>>

\* BootstrapAdminHandler up to its check
BootstrapAdmin(r, u) ==
    /\ req[r].pc = "idle" /\ ~setupRequired /\ ~hasAdmin
    /\ req' = [req EXCEPT ![r] = [Idle EXCEPT !.pc = "setupReload", !.user = u]]
    /\ UNCHANGED <<now, setupRequired, hasAdmin, resetting, challenges,
                   sessions, lockouts, usedCodes, minted, accepted>>

\* SavePersistentSetup (which may fail) or ActivateTemporarySetup
SetupSave(r) ==
    /\ req[r].pc = "setupSave"
    /\ \/ Answer(r) /\ UNCHANGED setupRequired
       \/ Goto(r, "setupReload") /\ setupRequired' = FALSE
    /\ UNCHANGED <<now, hasAdmin, resetting, challenges, sessions, lockouts,
                   usedCodes, minted, accepted>>

\* ReloadRuntime and ProvisionUser, of which each may fail; the store that was
\* loaded, or the record ProvisionUser could not take back, decides HasAdmin.
SetupProvision(r) ==
    /\ req[r].pc = "setupReload"
    /\ \/ Answer(r) /\ hasAdmin' \in BOOLEAN
       \/ Goto(r, "setupSession") /\ hasAdmin' = TRUE
    /\ UNCHANGED <<now, setupRequired, resetting, challenges, sessions,
                   lockouts, usedCodes, minted, accepted>>

SetupSession(r) ==
    /\ req[r].pc = "setupSession"
    /\ minted < MaxTokens
    /\ minted' = minted + 1
    /\ sessions' = sessions \cup
         {[tok |-> minted + 1, user |-> req[r].user,
           expires |-> now + SessionTTL, via |-> BySetup]}
    /\ Answer(r)
    /\ UNCHANGED <<now, setupRequired, hasAdmin, resetting, challenges,
                   lockouts, usedCodes, accepted>>

Tick ==
    /\ now < MaxTime
    /\ now' = now + 1
    /\ UNCHANGED <<setupRequired, hasAdmin, resetting, req, challenges, sessions,
                   lockouts, usedCodes, minted, accepted>>

LoginHandler(r) ==
    \/ \E u \in User : LoginStart(r, u)
    \/ LoginPassword(r)
    \/ LoginChallenge(r)

VerifyHandler(r) ==
    \/ \E t \in 1..minted, text \in Text : VerifyStart(r, t, text)
    \/ VerifyPeek(r)
    \/ VerifyTOTP(r)
    \/ VerifyReplay(r)
    \/ VerifyConsume(r)
    \/ VerifyClear(r)
    \/ VerifySession(r)

SetupHandler(r) ==
    \/ \E u \in Founder : CompleteSetup(r, u) \/ BootstrapAdmin(r, u)
    \/ SetupSave(r) \/ SetupProvision(r) \/ SetupSession(r)

Next ==
    \/ \E r \in Req : LoginHandler(r) \/ VerifyHandler(r) \/ SetupHandler(r)
                      \/ CheckLockout(r) \/ Fail(r)
    \/ \E s \in sessions : Logout(s) \/ ValidateSession(s)
    \/ SweepExpired \/ SweepReplayCodes \/ SweepLockouts
    \/ ResetSetupState \/ ResetSessionState \/ ResetReload
    \/ Tick

Spec == Init /\ [][Next]_vars

-----------------------------------------------------------------------------
(* Properties *)

Request == [pc : Pc, user : User \cup {NoUser}, chal : Nat,
            text : Text \cup {NoText}, checkedAt : Nat \cup {Never},
            validatedAt : Nat \cup {Never}, slot : Nat]
Acceptance == [user : User, text : Text, chal : Nat, validatedAt : Nat,
               at : Nat]

\* Every variable has the shape the Go declarations give it, and a handler that
\* has passed PeekChallenge knows its user (VerifyHandler returns early when the
\* challenge is missing).
TypeOK ==
    /\ now \in Nat /\ minted \in Nat
    /\ setupRequired \in BOOLEAN /\ hasAdmin \in BOOLEAN
    /\ resetting \in {"no", "sessions", "reload"}
    /\ req \in [Req -> Request]
    /\ \A r \in Req : req[r].pc \notin {"idle", "verifyPeek"}
                        => req[r].user \in User
    /\ challenges \subseteq [tok : Nat, user : User, expires : Nat]
    /\ sessions \subseteq [tok : Nat, user : User, expires : Nat, via : Nat]
    /\ lockouts \in [User -> [failures : Nat, lockedAt : Nat \cup {Never}]]
    /\ usedCodes \subseteq [user : User, text : Text, expires : Nat]
    /\ accepted \in Seq(Acceptance)

SameText(i, j) == /\ accepted[i].user = accepted[j].user
                  /\ accepted[i].text = accepted[j].text

\* Two acceptances of "this exact code", typed alike, for the same user are more
\* than ReplayTTL apart, however the verify requests interleave with each other
\* and with sweepReplayCodes (ValidateTOTP's lock covers look-up and marking).
ReplaySpacing ==
    \A i, j \in DOMAIN accepted :
        i < j /\ SameText(i, j) => accepted[j].at > accepted[i].at + ReplayTTL

\* A text is accepted at most once while its code is valid: a second acceptance
\* can only come from a request that validated it inside the window and was
\* stopped until the window had closed before it took replayMu.
AcceptedOnceInWindow ==
    \A i, j \in DOMAIN accepted :
        i < j /\ SameText(i, j) => ~ValidAt(accepted[j].text, accepted[j].at)

\* The comment on the replay cache: "each code is accepted only once" while it is
\* valid.  (Texts that differ in blanks hold the same code.)
CodeAcceptedOnce ==
    \A i, j \in DOMAIN accepted :
        /\ i < j /\ accepted[i].user = accepted[j].user
        /\ TrimSpace[accepted[i].text] = TrimSpace[accepted[j].text]
        => ~ValidAt(accepted[j].text, accepted[j].at)

\* CREDITS: the login step "issues a short-lived (5-minute), single-use challenge
\* token".
ChallengeUsedOnce ==
    \A s, t \in sessions :
        /\ s.via # BySetup /\ t.via # BySetup
        /\ accepted[s.via].chal = accepted[t.via].chal
        => s = t

\* What was accepted on challenge c, and the requests past PeekChallenge that may
\* still have a code accepted on it.
AcceptedOn(c) == {i \in DOMAIN accepted : accepted[i].chal = c}
MayRedeem(c) == {r \in Req : /\ req[r].pc \in {"verifyCheck", "verifyTOTP",
                                               "verifyReplay"}
                             /\ req[r].chal = c}

\* PeekChallenge and ConsumeChallenge are separate critical sections, so one
\* challenge may be redeemed more than once, but only by requests that were in
\* flight together: never more often than there are request goroutines, because
\* the first to consume it turns all later ones away.
ChallengeBound ==
    \A c \in 1..minted :
        Cardinality(AcceptedOn(c)) + Cardinality(MayRedeem(c)) <= Cardinality(Req)

\* A lock that exists while a request is past IsLockedOut was set (or renewed)
\* after that request's check: no request is let through under a lock, and the
\* remains of an expired lock are gone once a request has been let through.
LockNewerThanChecks ==
    \A r \in Req :
        req[r].pc \in PastCheck /\ lockouts[req[r].user].lockedAt # Never
            => req[r].checkedAt <= lockouts[req[r].user].lockedAt

\* Requests that may still record a failure for u.
Pending(u) == {r \in Req : req[r].pc \in MayFail /\ req[r].user = u}

\* The check and the count are separate critical sections, so the count can
\* overshoot maxFailedAttempts, but only by requests that were in flight
\* together: with n request goroutines at most MaxFailedAttempts - 1 + n wrong
\* passwords or codes are examined for one name before its lock expires.
LockoutBound ==
    \A u \in User : lockouts[u].failures + Cardinality(Pending(u))
                      <= MaxFailedAttempts - 1 + Cardinality(Req)

\* A lock in force ends early only through a verify that is about to clear it
\* after a correct code and that had passed IsLockedOut before the lock was set.
EarlyUnlock ==
    [][\A u \in User :
          Locked(u) /\ lockouts'[u].lockedAt = Never
            => \E r \in Req : /\ req[r].pc = "verifyClear"
                              /\ req[r].user = u
                              /\ req[r].checkedAt <= lockouts[u].lockedAt]_vars

\* Every session was paid for by one accepted code of its own user, and no
\* acceptance pays for two sessions, live or about to be created.  The one
\* exception is the session of CompleteSetupHandler or BootstrapAdminHandler.
SessionPerAcceptance ==
    /\ \A s \in sessions : s.via # BySetup =>
          /\ s.via \in DOMAIN accepted
          /\ accepted[s.via].user = s.user
          /\ \A t \in sessions : s.via = t.via => s = t
    /\ \A r \in Req : req[r].pc \in Redeeming =>
          /\ req[r].slot \in DOMAIN accepted
          /\ accepted[req[r].slot].user = req[r].user
          /\ \A s \in sessions : s.via # req[r].slot
          /\ \A q \in Req : q # r /\ req[q].pc \in Redeeming
                              => req[q].slot # req[r].slot

=============================================================================
