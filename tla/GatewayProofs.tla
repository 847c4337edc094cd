--------------------------- MODULE GatewayProofs ---------------------------
(***************************************************************************)
(* Proofs about the way of a request through the gateway, for any number   *)
(* of requests, services and changes by administrators.                    *)
(*                                                                         *)
(* The invariant follows one request at a time.  Sound says what its local *)
(* variables tell about the steps behind it, Earned which checks it must   *)
(* have met by then, and ScopeInv that the copy of the token's scope it    *)
(* carries is no wider than what the token was issued for.                 *)
(***************************************************************************)
EXTENDS Gateway, TLAPS, FiniteSetTheorems, WellFoundedInduction

Granted == {"models", "sending", "waiting", "copying"}
LookedUp == {"role", "access", "policy"} \cup Granted
Unknown == {"idle", "authenticate", "cookie", "done"}
Unsent == {"idle", "authenticate", "cookie", "admit", "lookup", "role", "access", "policy", "models"}

Local == [pc : Unsent \cup {"sending", "waiting", "copying", "done"},
          api : {"proxy", "openai"}, carries : SUBSET {"token", "cookie", "csrf"},
          method : {"GET", "POST"}, path : 1..2, svc : Service \cup {NoService},
          source : {"none", "token", "session"}, scope : SUBSET Service, attempt : Nat,
          sent : Nat, expired : BOOLEAN,
          answer : {"none", "refused", "answered", "unavailable", "error"}]

AttemptsOf(rec) == IF rec.method = "GET" THEN 1 + RetryCount ELSE 1
Covers(rec) == rec.source = "token" => rec.scope = {} \/ rec.svc \in rec.scope

(* Where a request stands bounds what it has sent so far.                  *)
Sound(rec) ==
    /\ rec.pc \notin Unknown => rec.source # "none"
    /\ rec.pc = "idle" => rec.source = "none"
    /\ rec.pc \in Unsent => rec.sent = 0 /\ rec.attempt = 0
    /\ rec.pc = "sending" => rec.sent <= rec.attempt
    /\ rec.sent <= rec.attempt + 1 /\ rec.attempt < AttemptsOf(rec)
    /\ rec.pc \in LookedUp \/ rec.sent > 0 => Covers(rec)

(* The checks h that a request with local variables rec has met.           *)
Earned(rec, h) ==
    /\ rec.source # "none" => "credential" \in h /\ (Covers(rec) => "scope" \in h)
    /\ rec.pc \in LookedUp => "service" \in h
    /\ rec.pc \in Granted \cup {"policy"} => "account" \in h
    /\ rec.pc \in Granted => "policy" \in h
    /\ rec.sent > 0 => h = Checks

StoreInv ==
    /\ account \in [exists : BOOLEAN, admin : BOOLEAN, limited : BOOLEAN, allowed : SUBSET Service]
    /\ ~account.exists => account = NoAccount
    /\ catalog \in [enabled : SUBSET Service, known : SUBSET Service]
    /\ catalog.enabled \subseteq catalog.known
    /\ deleting \subseteq Service /\ updating \subseteq SUBSET Service
    /\ session \in BOOLEAN /\ stranded \in BOOLEAN
    /\ token \in [active : BOOLEAN, scope : SUBSET Service, saved : SUBSET Service]

(* The list of rules is in the order of their prefixes.                    *)
PolicyInv ==
    /\ \E n \in Nat : policies \in [1..n -> AccessPolicyRule]
    /\ \A i, j \in DOMAIN policies :
          i < j /\ policies[i].service = policies[j].service
             => policies[i].prefix <= policies[j].prefix

ReqInv == req \in [Req -> Local] /\ \A q \in Req : Sound(req[q])

HeldInv == held \in [Req -> SUBSET Checks] /\ \A q \in Req : Earned(req[q], held[q])

(* Neither the memory nor the file ever has more of the scope than was     *)
(* issued.                                                                 *)
ScopeInv ==
    issued # {} =>
       /\ token.scope \subseteq token.saved /\ token.saved \subseteq issued
       /\ ~stranded => token.scope # {}
       /\ ~stranded => \A q \in Req : req[q].source = "token" => req[q].scope # {} /\ req[q].scope \subseteq issued

GatewayInv == StoreInv /\ PolicyInv /\ ReqInv /\ HeldInv /\ ScopeInv

-----------------------------------------------------------------------------

(* The bounds and values of the instance, as the provers need them.        *)
LEMMA Constants ==
    /\ NoService \notin Service /\ OpenAIService \in Service
    /\ \A S \in Scopes : S \in SUBSET Service
    /\ \A C \in Credentials : C \in SUBSET {"token", "cookie", "csrf"}
    /\ \A route \in Routes : route[1] \in {"GET", "POST"} /\ route[2] \in 1..2
    /\ RetryCount \in Nat
BY GatewayConstants DEF GatewayConstants

(* A request nobody has made yet is well formed.                           *)
LEMMA NoRequestIsSound == NoRequest \in Local /\ Sound(NoRequest) /\ NoRequest.source = "none"
BY Constants DEF NoRequest, Local, Sound, Unsent, Unknown, LookedUp, Granted, AttemptsOf, Covers

(* At the first moment nobody has asked for anything.                      *)
LEMMA GatewayInitially == Init => GatewayInv
<1> SUFFICES ASSUME Init PROVE GatewayInv
  OBVIOUS
<1>1. issued \in SUBSET Service
  BY Constants DEF Init
<1>2. StoreInv
  BY <1>1 DEF Init, StoreInv, NoAccount
<1>3. PolicyInv
  <2>1. policies \in [1..0 -> AccessPolicyRule] /\ DOMAIN policies = {}
    BY DEF Init
  <2> QED
    BY <2>1 DEF PolicyInv
<1>4. ReqInv
  BY NoRequestIsSound DEF Init, ReqInv
<1>5. HeldInv
  BY DEF Init, HeldInv, Earned, NoRequest, LookedUp, Granted
<1>6. ScopeInv
  BY <1>1 DEF Init, ScopeInv, NoRequest
<1> QED
  BY <1>2, <1>3, <1>4, <1>5, <1>6 DEF GatewayInv

-----------------------------------------------------------------------------
(* What a step adds to the checks a request has met *)

(* Observe lets a request that is being handled keep what it has met.      *)
LEMMA ObserveAdds ==
    ASSUME HeldInv, Observe
    PROVE  /\ held' \in [Req -> SUBSET Checks]
           /\ \A q \in Req : req'[q].pc # "idle" => held'[q] = held[q] \cup TrueNow(q)'
           /\ \A q \in Req : req'[q].pc = "idle" => held'[q] = {}
<1>1. \A q \in Req : TrueNow(q)' \subseteq Checks
  BY DEF TrueNow
<1> QED
  BY <1>1 DEF Observe, HeldInv

(* More checks can only help.                                              *)
LEMMA EarnedMore ==
    ASSUME NEW rec, NEW h \in SUBSET Checks, NEW more \in SUBSET Checks, Earned(rec, h)
    PROVE  Earned(rec, h \cup more)
BY DEF Earned

(* What holds of a request with a credential when a step ends is met.      *)
LEMMA MetNow ==
    ASSUME NEW q \in Req, req'[q].source # "none"
    PROVE  /\ (IF req'[q].source = "token" THEN token'.active ELSE session')
                 => "credential" \in TrueNow(q)'
           /\ (req'[q].source = "token" => token'.scope = {} \/ req'[q].svc \in token'.scope)
                 => "scope" \in TrueNow(q)'
           /\ req'[q].svc \in catalog'.enabled => "service" \in TrueNow(q)'
           /\ MayAccess(req[q].svc)' => "account" \in TrueNow(q)'
           /\ (account'.exists /\ account'.admin)
                 \/ PolicyAllows(policies, req[q].svc, req[q].method, req[q].path, req[q].source)'
                 => "policy" \in TrueNow(q)'
BY DEF TrueNow, Checks, Enabled, MayAccess

(* A request that a step leaves alone keeps what it has met.               *)
LEMMA UntouchedEarns ==
    ASSUME ReqInv, HeldInv, Observe, NEW p \in Req, req'[p] = req[p]
    PROVE  Earned(req'[p], held'[p])
<1>1. Sound(req[p]) /\ req[p] \in Local /\ held[p] \in SUBSET Checks /\ Earned(req[p], held[p])
  BY DEF ReqInv, HeldInv
<1>2. CASE req[p].pc = "idle"
  <2>1. Earned(req[p], {})
    BY <1>1, <1>2 DEF Sound, Earned, LookedUp, Granted, Unsent, Local
  <2> QED
    BY <1>2, <2>1, ObserveAdds
<1>3. CASE req[p].pc # "idle"
  <2> DEFINE now == TrueNow(p)'
  <2>1. held'[p] = held[p] \cup now
    BY <1>3, ObserveAdds
  <2>2. now \in SUBSET Checks
    BY DEF TrueNow
  <2> HIDE DEF now
  <2>3. Earned(req[p], held[p] \cup now)
    BY <1>1, <2>2, EarnedMore
  <2> QED
    BY <2>1, <2>3
<1> QED
  BY <1>2, <1>3

(* A step of one request keeps the invariant if the request is sound after *)
(* it and has met what its place asks for.                                 *)
LEMMA RequestMoves ==
    ASSUME GatewayInv, NEW q \in Req, NEW rec \in Local, Sound(rec), rec.pc # "idle",
           req' = [req EXCEPT ![q] = rec], UNCHANGED stores, Observe,
           Earned(rec, held[q] \cup TrueNow(q)'),
           rec.source = "token" => \/ req[q].source = "token" /\ rec.scope = req[q].scope
                                   \/ rec.scope = token.scope
    PROVE  GatewayInv'
<1>1. StoreInv' /\ PolicyInv'
  BY DEF GatewayInv, StoreInv, PolicyInv, stores
<1>2. /\ req \in [Req -> Local] /\ req' \in [Req -> Local] /\ req'[q] = rec
      /\ \A p \in Req \ {q} : req'[p] = req[p]
  BY DEF GatewayInv, ReqInv
<1>3. ReqInv'
  BY <1>2 DEF GatewayInv, ReqInv
<1>4. HeldInv'
  <2>1. held' \in [Req -> SUBSET Checks]
    BY ObserveAdds DEF GatewayInv
  <2>2. Earned(req'[q], held'[q])
    BY <1>2, ObserveAdds DEF GatewayInv
  <2>3. ASSUME NEW p \in Req \ {q} PROVE Earned(req'[p], held'[p])
    BY <1>2, UntouchedEarns DEF GatewayInv
  <2> QED
    BY <2>1, <2>2, <2>3 DEF HeldInv
<1>5. ScopeInv'
  BY <1>2 DEF GatewayInv, ScopeInv, stores
<1> QED
  BY <1>1, <1>3, <1>4, <1>5 DEF GatewayInv

-----------------------------------------------------------------------------
(* Requests *)

(* What the invariant says of one request.                                 *)
LEMMA OneRequest ==
    ASSUME GatewayInv, NEW q \in Req
    PROVE  /\ req[q] \in Local /\ Sound(req[q]) /\ req \in [Req -> Local]
           /\ held[q] \in SUBSET Checks /\ Earned(req[q], held[q])
           /\ TrueNow(q)' \in SUBSET Checks
<1>1. TrueNow(q)' \in SUBSET Checks
  BY DEF TrueNow
<1> QED
  BY <1>1 DEF GatewayInv, ReqInv, HeldInv

(* A new request has met nothing.                                          *)
LEMMA ArriveStep ==
    ASSUME GatewayInv, NEW q \in Req, Arrive(q), Observe
    PROVE  GatewayInv'
<1>1. PICK api \in {"proxy", "openai"}, carries \in Credentials, route \in Routes,
           s \in Service \cup {NoService} :
         /\ (api = "openai") = (s = NoService)
         /\ req' = [req EXCEPT ![q] =
                   [NoRequest EXCEPT !.pc = "authenticate", !.api = api, !.carries = carries,
                                     !.method = route[1], !.path = route[2], !.svc = s]]
  BY DEF Arrive
<1> DEFINE rec == [NoRequest EXCEPT !.pc = "authenticate", !.api = api, !.carries = carries,
                                    !.method = route[1], !.path = route[2], !.svc = s]
<1>2. carries \in SUBSET {"token", "cookie", "csrf"} /\ route[1] \in {"GET", "POST"}
      /\ route[2] \in 1..2
  BY Constants
<1>3. rec \in Local
  BY <1>2, NoRequestIsSound DEF Local, Unsent
<1>4. rec.source = "none" /\ rec.pc = "authenticate" /\ rec.sent = 0 /\ rec.attempt = 0
  BY DEF NoRequest
<1> HIDE DEF rec
<1>5. Sound(rec) /\ Earned(rec, held[q] \cup TrueNow(q)')
  BY <1>3, <1>4, Constants DEF Sound, Earned, Unknown, LookedUp, Granted, AttemptsOf, Local
<1>6. req' = [req EXCEPT ![q] = rec] /\ UNCHANGED stores
  BY <1>1 DEF rec, Arrive
<1> QED
  BY <1>3, <1>4, <1>5, <1>6, RequestMoves

(* A request that is refused has sent nothing.                             *)
LEMMA RefuseStep ==
    ASSUME GatewayInv, NEW q \in Req, Refuse(q), req[q].pc \in Unsent, UNCHANGED stores, Observe
    PROVE  GatewayInv'
<1> DEFINE rec == [req[q] EXCEPT !.pc = "done", !.answer = "refused"]
<1>1. rec \in Local
  <2>1. req[q] \in Local
    BY OneRequest
  <2> QED
    BY <2>1 DEF Local
<1>2. /\ rec.pc = "done" /\ rec.sent = 0 /\ rec.attempt = 0 /\ rec.source = req[q].source
      /\ rec.scope = req[q].scope /\ rec.svc = req[q].svc /\ rec.method = req[q].method
  BY OneRequest DEF Local, Sound
<1>3. req' = [req EXCEPT ![q] = rec]
  BY DEF Refuse
<1> HIDE DEF rec
<1>4. Sound(rec)
  BY <1>1, <1>2, Constants DEF Sound, Unknown, Unsent, LookedUp, Granted, AttemptsOf, Local
<1>5. Earned(rec, held[q] \cup TrueNow(q)')
  BY <1>2, OneRequest DEF Earned, Covers, LookedUp, Granted
<1> QED
  BY <1>1, <1>2, <1>3, <1>4, <1>5, RequestMoves

(* A request that has sent nothing may go on if it has met what the next   *)
(* place asks for.                                                         *)
LEMMA GotoStep ==
    ASSUME GatewayInv, NEW q \in Req, NEW to \in (Unsent \ {"idle"}) \cup {"sending"},
           Goto(q, to), req[q].pc \in Unsent \ {"idle"}, UNCHANGED stores, Observe,
           to \notin Unknown => req[q].source # "none",
           to \in LookedUp => /\ Covers(req[q])
                              /\ "service" \in held[q] \cup TrueNow(q)',
           to \in Granted \cup {"policy"} => "account" \in held[q] \cup TrueNow(q)',
           to \in Granted => "policy" \in held[q] \cup TrueNow(q)'
    PROVE  GatewayInv'
<1> DEFINE rec == [req[q] EXCEPT !.pc = to]
<1>1. rec \in Local
  <2>1. req[q] \in Local
    BY OneRequest
  <2> QED
    BY <2>1 DEF Local
<1>2. /\ rec.pc = to /\ rec.sent = 0 /\ rec.attempt = 0 /\ rec.source = req[q].source
      /\ rec.scope = req[q].scope /\ rec.svc = req[q].svc /\ rec.method = req[q].method
  BY OneRequest DEF Local, Sound
<1>3. req' = [req EXCEPT ![q] = rec]
  BY DEF Goto
<1> HIDE DEF rec
<1>4. Sound(rec)
  BY <1>1, <1>2, Constants DEF Sound, Unsent, AttemptsOf, Local, Covers
<1>5. Earned(rec, held[q] \cup TrueNow(q)')
  BY <1>2, OneRequest DEF Earned, Covers
<1> QED
  BY <1>1, <1>2, <1>3, <1>4, <1>5, RequestMoves DEF Unsent

(* The token is active when it is copied, so the request has met it and,   *)
(* if the copy covers the service, its scope.                              *)
LEMMA AuthenticateTokenStep ==
    ASSUME GatewayInv, NEW q \in Req, AuthenticateToken(q), Observe
    PROVE  GatewayInv'
<1>1. UNCHANGED stores /\ req[q].pc = "authenticate"
  BY DEF AuthenticateToken
<1>2. CASE "token" \in req[q].carries /\ token.active
  <2> DEFINE svc == IF req[q].api = "openai" THEN OpenAIService ELSE req[q].svc
             rec == [req[q] EXCEPT !.pc = "admit", !.source = "token", !.scope = token.scope,
                                   !.svc = svc]
  <2>1. req' = [req EXCEPT ![q] = rec]
    BY <1>2 DEF AuthenticateToken
  <2>2. svc \in Service \cup {NoService} /\ token.scope \in SUBSET Service
    BY Constants, OneRequest DEF Local, GatewayInv, StoreInv
  <2> HIDE DEF svc
  <2>3. rec \in Local
    <3>1. req[q] \in Local
      BY OneRequest
    <3> QED
      BY <2>2, <3>1 DEF Local, Unsent
  <2>4. /\ rec.pc = "admit" /\ rec.sent = 0 /\ rec.attempt = 0 /\ rec.source = "token"
        /\ rec.scope = token.scope
    BY <1>1, OneRequest DEF Local, Sound, Unsent
  <2>5. req'[q] = rec /\ token' = token
    BY <1>1, <2>1, OneRequest DEF stores
  <2> HIDE DEF rec
  <2>6. Sound(rec)
    BY <2>3, <2>4, Constants DEF Sound, Unsent, Unknown, LookedUp, Granted, AttemptsOf, Local
  <2>7. "credential" \in TrueNow(q)' /\ (Covers(rec) => "scope" \in TrueNow(q)')
    BY <1>2, <2>4, <2>5, MetNow DEF Covers
  <2>8. Earned(rec, held[q] \cup TrueNow(q)')
    BY <2>4, <2>7 DEF Earned, LookedUp, Granted
  <2> QED
    BY <1>1, <2>1, <2>3, <2>4, <2>6, <2>8, RequestMoves
<1>3. CASE ~("token" \in req[q].carries /\ token.active)
  <2>1. Goto(q, "cookie")
    BY <1>3 DEF AuthenticateToken
  <2> QED
    BY <1>1, <2>1, GotoStep DEF Unsent, Unknown, LookedUp, Granted
<1> QED
  BY <1>2, <1>3

(* The session is live when the cookie is looked up.                       *)
LEMMA AuthenticateSessionStep ==
    ASSUME GatewayInv, NEW q \in Req, AuthenticateSession(q), Observe
    PROVE  GatewayInv'
<1>1. UNCHANGED stores /\ req[q].pc = "cookie"
  BY DEF AuthenticateSession
<1>2. CASE "cookie" \in req[q].carries /\ session
  <2> DEFINE rec == [req[q] EXCEPT !.pc = "admit", !.source = "session"]
  <2>1. req' = [req EXCEPT ![q] = rec]
    BY <1>2 DEF AuthenticateSession
  <2>2. rec \in Local
    <3>1. req[q] \in Local
      BY OneRequest
    <3> QED
      BY <3>1 DEF Local, Unsent
  <2>3. rec.pc = "admit" /\ rec.sent = 0 /\ rec.attempt = 0 /\ rec.source = "session"
    BY <1>1, OneRequest DEF Local, Sound, Unsent
  <2>4. req'[q] = rec /\ session' = session
    BY <1>1, <2>1, OneRequest DEF stores
  <2> HIDE DEF rec
  <2>5. Sound(rec)
    BY <2>2, <2>3, Constants DEF Sound, Unsent, Unknown, LookedUp, Granted, AttemptsOf, Local
  <2>6. "credential" \in TrueNow(q)' /\ "scope" \in TrueNow(q)'
    BY <1>2, <2>3, <2>4, MetNow
  <2>7. Earned(rec, held[q] \cup TrueNow(q)')
    BY <2>3, <2>6 DEF Earned, LookedUp, Granted
  <2> QED
    BY <1>1, <2>1, <2>2, <2>3, <2>5, <2>7, RequestMoves
<1>3. CASE ~("cookie" \in req[q].carries /\ session)
  <2>1. Refuse(q)
    BY <1>3 DEF AuthenticateSession
  <2> QED
    BY <1>1, <2>1, RefuseStep DEF Unsent
<1> QED
  BY <1>2, <1>3

(* CSRF and the rate limit let a request go on with its credential.        *)
LEMMA AdmitStep ==
    ASSUME GatewayInv, NEW q \in Req, Admit(q), Observe
    PROVE  GatewayInv'
<1>1. UNCHANGED stores /\ req[q].pc = "admit"
  BY DEF Admit
<1>2. CASE Goto(q, "lookup")
  <2>1. req[q].source # "none"
    BY <1>1, OneRequest DEF Sound, Unknown
  <2> QED
    BY <1>1, <1>2, <2>1, GotoStep DEF Unsent, LookedUp, Granted
<1>3. CASE Refuse(q)
  BY <1>1, <1>3, RefuseStep DEF Unsent
<1> QED
  BY <1>2, <1>3 DEF Admit

(* A service that is looked up is enabled and within the token's scope.    *)
LEMMA LookupServiceStep ==
    ASSUME GatewayInv, NEW q \in Req, LookupService(q), Observe
    PROVE  GatewayInv'
<1>1. UNCHANGED stores /\ req[q].pc = "lookup" /\ req[q].source # "none"
  BY OneRequest DEF LookupService, Sound, Unknown
<1>2. CASE Goto(q, "role") /\ Enabled(req[q].svc) /\ InScope(q)
  <2>1. req'[q].svc = req[q].svc /\ req'[q].source = req[q].source /\ catalog' = catalog
    BY <1>1, <1>2, OneRequest DEF Goto, Local, stores
  <2>2. "service" \in TrueNow(q)'
    BY <1>1, <1>2, <2>1, MetNow DEF Enabled
  <2>3. Covers(req[q])
    BY <1>2 DEF Covers, InScope
  <2> QED
    BY <1>1, <1>2, <2>2, <2>3, GotoStep DEF Unsent, Unknown, LookedUp, Granted
<1>3. CASE Refuse(q)
  BY <1>1, <1>3, RefuseStep DEF Unsent
<1> QED
  BY <1>2, <1>3 DEF LookupService

(* What a request between two sections of EvaluateRouteAccess has met, and *)
(* what a step of its own leaves alone.                                    *)
LEMMA Deciding ==
    ASSUME GatewayInv, NEW q \in Req, NEW to, Goto(q, to), UNCHANGED stores,
           req[q].pc \in {"role", "access", "policy", "models"}
    PROVE  /\ req[q].source # "none" /\ Covers(req[q]) /\ "service" \in held[q]
           /\ req[q].pc \in {"policy", "models"} => "account" \in held[q]
           /\ req[q].pc = "models" => "policy" \in held[q]
           /\ req'[q].svc = req[q].svc /\ req'[q].source = req[q].source
           /\ req'[q].method = req[q].method /\ req'[q].path = req[q].path
           /\ account' = account /\ policies' = policies
<1>1. /\ req[q] \in Local /\ Sound(req[q]) /\ Earned(req[q], held[q]) /\ req \in [Req -> Local]
  BY OneRequest
<1>2. /\ req'[q].svc = req[q].svc /\ req'[q].source = req[q].source
      /\ req'[q].method = req[q].method /\ req'[q].path = req[q].path
      /\ account' = account /\ policies' = policies
  BY <1>1 DEF Goto, Local, stores
<1> QED
  BY <1>1, <1>2 DEF Sound, Earned, Unknown, LookedUp, Granted

(* An administrator needs neither a service list nor a policy.             *)
LEMMA GetRoleStep ==
    ASSUME GatewayInv, NEW q \in Req, GetRole(q), Observe
    PROVE  GatewayInv'
<1>1. UNCHANGED stores /\ req[q].pc = "role"
  BY DEF GetRole
<1>2. CASE account.exists /\ account.admin
  <2>1. Goto(q, "models")
    BY <1>2 DEF GetRole
  <2>2. "account" \in TrueNow(q)' /\ "policy" \in TrueNow(q)'
    BY <1>1, <1>2, <2>1, Deciding, MetNow DEF MayAccess
  <2> QED
    BY <1>1, <2>1, <2>2, Deciding, GotoStep DEF Unsent, Unknown, LookedUp, Granted
<1>3. CASE ~(account.exists /\ account.admin)
  <2>1. Goto(q, "access")
    BY <1>3 DEF GetRole
  <2> QED
    BY <1>1, <2>1, Deciding, GotoStep DEF Unsent, Unknown, LookedUp, Granted
<1> QED
  BY <1>2, <1>3

(* Anyone else needs the service on the list,                              *)
LEMMA CanAccessServiceStep ==
    ASSUME GatewayInv, NEW q \in Req, CanAccessService(q), Observe
    PROVE  GatewayInv'
<1>1. UNCHANGED stores /\ req[q].pc = "access"
  BY DEF CanAccessService
<1>2. CASE MayAccess(req[q].svc)
  <2>1. Goto(q, "policy")
    BY <1>2 DEF CanAccessService
  <2>2. "account" \in TrueNow(q)'
    BY <1>1, <1>2, <2>1, Deciding, MetNow DEF MayAccess
  <2> QED
    BY <1>1, <2>1, <2>2, Deciding, GotoStep DEF Unsent, Unknown, LookedUp, Granted
<1>3. CASE ~MayAccess(req[q].svc)
  BY <1>1, <1>3, RefuseStep DEF CanAccessService, Unsent
<1> QED
  BY <1>2, <1>3

(* and a policy that allows the route.                                     *)
LEMMA EvaluatePoliciesStep ==
    ASSUME GatewayInv, NEW q \in Req, EvaluatePolicies(q), Observe
    PROVE  GatewayInv'
<1> DEFINE ok == PolicyAllows(policies, req[q].svc, req[q].method, req[q].path, req[q].source)
<1>1. UNCHANGED stores /\ req[q].pc = "policy" /\ IF ok THEN Goto(q, "models") ELSE Refuse(q)
  BY DEF EvaluatePolicies
<1>2. CASE ok
  <2>1. Goto(q, "models")
    BY <1>1, <1>2
  <2>2. "policy" \in TrueNow(q)'
    BY <1>1, <1>2, <2>1, Deciding, MetNow
  <2> QED
    BY <1>1, <2>1, <2>2, Deciding, GotoStep DEF Unsent, Unknown, LookedUp, Granted
<1>3. CASE ~ok
  BY <1>1, <1>3, RefuseStep DEF Unsent
<1> QED
  BY <1>2, <1>3

(* Provider and model are the adapter's own matter.                        *)
LEMMA CheckModelStep ==
    ASSUME GatewayInv, NEW q \in Req, CheckModel(q), Observe
    PROVE  GatewayInv'
<1>1. UNCHANGED stores /\ req[q].pc = "models"
  BY DEF CheckModel
<1>2. CASE Goto(q, "sending")
  BY <1>1, <1>2, Deciding, GotoStep DEF Unsent, Unknown, LookedUp, Granted
<1>3. CASE Refuse(q)
  BY <1>1, <1>3, RefuseStep DEF Unsent
<1> QED
  BY <1>2, <1>3 DEF CheckModel

-----------------------------------------------------------------------------
(* Forwarding *)

(* A request that is being forwarded has met all checks, and stays so as   *)
(* long as it keeps its identity and its counts are sound.                 *)
LEMMA ForwardStep ==
    ASSUME GatewayInv, NEW q \in Req, NEW rec \in Local,
           req' = [req EXCEPT ![q] = rec], UNCHANGED stores, Observe,
           req[q].pc \in {"sending", "waiting", "copying"},
           rec.pc \in {"sending", "waiting", "copying", "done"},
           rec.source = req[q].source, rec.scope = req[q].scope, rec.svc = req[q].svc,
           rec.pc = "sending" => rec.sent <= rec.attempt,
           rec.sent <= rec.attempt + 1, rec.attempt < AttemptsOf(rec)
    PROVE  GatewayInv'
<1>1. /\ Sound(req[q]) /\ Earned(req[q], held[q]) /\ held[q] \in SUBSET Checks
      /\ TrueNow(q)' \in SUBSET Checks
  BY OneRequest
<1>2. req[q].source # "none" /\ Covers(req[q])
  BY <1>1 DEF Sound, Unknown, LookedUp, Granted
<1>3. held[q] = Checks
  BY <1>1, <1>2 DEF Earned, LookedUp, Granted, Checks
<1>4. Covers(rec)
  BY <1>2 DEF Covers
<1>5. Sound(rec)
  BY <1>2, <1>4 DEF Sound, Unknown, Unsent, Local
<1>6. Earned(rec, held[q] \cup TrueNow(q)')
  BY <1>1, <1>3 DEF Earned, Checks
<1> QED
  BY <1>5, <1>6, RequestMoves

(* The deadline changes neither,                                           *)
LEMMA ExpireStep ==
    ASSUME GatewayInv, NEW q \in Req, Expire(q), Observe
    PROVE  GatewayInv'
<1> DEFINE rec == [req[q] EXCEPT !.expired = TRUE]
<1>1. req[q] \in Local /\ Sound(req[q])
  BY OneRequest
<1>2. rec \in Local /\ AttemptsOf(rec) = AttemptsOf(req[q])
  BY <1>1 DEF Local, AttemptsOf
<1>3. /\ rec.source = req[q].source /\ rec.scope = req[q].scope /\ rec.svc = req[q].svc
      /\ rec.sent = req[q].sent /\ rec.attempt = req[q].attempt /\ rec.pc = req[q].pc
  BY <1>1 DEF Local
<1>4. req' = [req EXCEPT ![q] = rec] /\ UNCHANGED stores /\ req[q].pc \in {"sending", "waiting"}
  BY DEF Expire
<1> HIDE DEF rec
<1> QED
  BY <1>1, <1>2, <1>3, <1>4, ForwardStep DEF Sound

(* an attempt is sent at most once,                                        *)
LEMMA SendAttemptStep ==
    ASSUME GatewayInv, NEW q \in Req, SendAttempt(q), Observe
    PROVE  GatewayInv'
<1> DEFINE sent == IF req[q].expired THEN req[q].sent ELSE req[q].sent + 1
           rec == [req[q] EXCEPT !.pc = "waiting", !.sent = sent]
<1>1. req[q] \in Local /\ Sound(req[q]) /\ req \in [Req -> Local]
  BY OneRequest
<1>2. UNCHANGED stores /\ req[q].pc = "sending"
  BY DEF SendAttempt
<1>3. req' = [req EXCEPT ![q] = rec]
  BY <1>1 DEF SendAttempt, Local
<1>4. sent \in Nat /\ sent <= req[q].attempt + 1
  BY <1>1, <1>2 DEF Local, Sound
<1> HIDE DEF sent
<1>5. rec \in Local
  BY <1>1, <1>4 DEF Local
<1>6. /\ rec.source = req[q].source /\ rec.scope = req[q].scope /\ rec.svc = req[q].svc
      /\ rec.sent = sent /\ rec.attempt = req[q].attempt /\ rec.pc = "waiting"
      /\ AttemptsOf(rec) = AttemptsOf(req[q])
  BY <1>1 DEF Local, AttemptsOf
<1> HIDE DEF rec
<1> QED
  BY <1>1, <1>2, <1>3, <1>4, <1>5, <1>6, ForwardStep DEF Sound

(* another one begins only while the method has attempts left,             *)
LEMMA RoundTripStep ==
    ASSUME GatewayInv, NEW q \in Req, NEW result \in {"answered", "unavailable", "error"},
           RoundTrip(q, result), Observe
    PROVE  GatewayInv'
<1>1. req[q] \in Local /\ Sound(req[q])
  BY OneRequest
<1>2. UNCHANGED stores /\ req[q].pc = "waiting"
  BY DEF RoundTrip
<1>3. Attempts(q) = AttemptsOf(req[q]) /\ AttemptsOf(req[q]) \in Nat
  BY Constants DEF Attempts, AttemptsOf
<1>4. CASE /\ req[q].attempt + 1 < Attempts(q)
           /\ req' = [req EXCEPT ![q] = [req[q] EXCEPT !.pc = "sending",
                                                       !.attempt = req[q].attempt + 1]]
  <2> DEFINE rec == [req[q] EXCEPT !.pc = "sending", !.attempt = req[q].attempt + 1]
  <2>1. rec \in Local
    <3> DEFINE next == req[q].attempt + 1
    <3>1. next \in Nat
      BY <1>1 DEF Local
    <3> HIDE DEF next
    <3>2. [req[q] EXCEPT !.pc = "sending", !.attempt = next] \in Local
      BY <1>1, <3>1 DEF Local
    <3> QED
      BY <3>2 DEF next
  <2>2. /\ rec.source = req[q].source /\ rec.scope = req[q].scope /\ rec.svc = req[q].svc
        /\ rec.sent = req[q].sent /\ rec.attempt = req[q].attempt + 1 /\ rec.pc = "sending"
        /\ AttemptsOf(rec) = AttemptsOf(req[q])
    BY <1>1 DEF Local, AttemptsOf
  <2>3. rec.sent <= rec.attempt /\ rec.sent <= rec.attempt + 1 /\ rec.attempt < AttemptsOf(rec)
    BY <1>1, <1>3, <1>4, <2>2 DEF Sound, Local
  <2> HIDE DEF rec
  <2> QED
    BY <1>2, <1>4, <2>1, <2>2, <2>3, ForwardStep DEF rec
<1>5. CASE req' = [req EXCEPT ![q] = [req[q] EXCEPT !.pc = "copying", !.answer = result]]
  <2> DEFINE rec == [req[q] EXCEPT !.pc = "copying", !.answer = result]
  <2>1. rec \in Local
    BY <1>1 DEF Local
  <2>2. /\ rec.source = req[q].source /\ rec.scope = req[q].scope /\ rec.svc = req[q].svc
        /\ rec.sent = req[q].sent /\ rec.attempt = req[q].attempt /\ rec.pc = "copying"
        /\ AttemptsOf(rec) = AttemptsOf(req[q])
    BY <1>1 DEF Local, AttemptsOf
  <2> HIDE DEF rec
  <2> QED
    BY <1>1, <1>2, <1>5, <2>1, <2>2, ForwardStep DEF rec, Sound
<1>6. \/ /\ req[q].attempt + 1 < Attempts(q)
         /\ req' = [req EXCEPT ![q] = [req[q] EXCEPT !.pc = "sending",
                                                     !.attempt = req[q].attempt + 1]]
      \/ req' = [req EXCEPT ![q] = [req[q] EXCEPT !.pc = "copying", !.answer = result]]
  <2> DEFINE more == req[q].attempt + 1 < Attempts(q)
             again == \/ result = "error"
                      \/ result = "unavailable" /\ req[q].method = "GET"
  <2>1. req' = [req EXCEPT ![q] =
                  IF more /\ again
                  THEN [req[q] EXCEPT !.pc = "sending", !.attempt = req[q].attempt + 1]
                  ELSE [req[q] EXCEPT !.pc = "copying", !.answer = result]]
    BY <1>1 DEF RoundTrip, Local
  <2> HIDE DEF again
  <2> QED
    BY <2>1
<1> QED
  BY <1>4, <1>5, <1>6

(* and the answer ends it.                                                 *)
LEMMA CopyResponseStep ==
    ASSUME GatewayInv, NEW q \in Req, CopyResponse(q), Observe
    PROVE  GatewayInv'
<1> DEFINE rec == [req[q] EXCEPT !.pc = "done"]
<1>1. req[q] \in Local /\ Sound(req[q])
  BY OneRequest
<1>2. rec \in Local
  BY <1>1 DEF Local
<1>3. /\ rec.source = req[q].source /\ rec.scope = req[q].scope /\ rec.svc = req[q].svc
      /\ rec.sent = req[q].sent /\ rec.attempt = req[q].attempt /\ rec.pc = "done"
      /\ AttemptsOf(rec) = AttemptsOf(req[q])
  BY <1>1 DEF Local, AttemptsOf
<1>4. req' = [req EXCEPT ![q] = rec] /\ UNCHANGED stores /\ req[q].pc = "copying"
  BY DEF CopyResponse, Goto
<1> HIDE DEF rec
<1> QED
  BY <1>1, <1>2, <1>3, <1>4, ForwardStep DEF Sound

-----------------------------------------------------------------------------
(* Administrators *)

(* A change that leaves requests and the token's scope alone keeps what is *)
(* known about them.                                                       *)
LEMMA ChangeKeeps ==
    ASSUME GatewayInv, Observe, req' = req, token'.scope = token.scope,
           token'.saved \in {token.saved, token.scope}, issued' = issued, stranded' = stranded
    PROVE  ReqInv' /\ HeldInv' /\ ScopeInv'
<1>1. ReqInv'
  BY DEF GatewayInv, ReqInv
<1>2. HeldInv'
  <2>1. held' \in [Req -> SUBSET Checks]
    BY ObserveAdds DEF GatewayInv
  <2>2. ASSUME NEW p \in Req PROVE Earned(req'[p], held'[p])
    BY UntouchedEarns DEF GatewayInv
  <2> QED
    BY <2>1, <2>2 DEF HeldInv
<1>3. ScopeInv'
  BY DEF GatewayInv, ScopeInv
<1> QED
  BY <1>1, <1>2, <1>3

(* Changes of the account,                                                 *)
LEMMA AccountStep ==
    ASSUME GatewayInv, Observe,
           \/ DeleteUser \/ \E S \in Scopes : CreateUser(S) \/ UpdateUserAccess(S)
           \/ \E S \in updating : SetAllowedServices(S)
    PROVE  GatewayInv'
<1>1. /\ UNCHANGED <<policies, catalog, deleting, session, token, req, issued, stranded>>
  BY DEF DeleteUser, CreateUser, UpdateUserAccess, SetAllowedServices
<1>2. /\ account' \in [exists : BOOLEAN, admin : BOOLEAN, limited : BOOLEAN,
                       allowed : SUBSET Service]
      /\ ~account'.exists => account' = NoAccount
      /\ updating' \subseteq SUBSET Service
  <2>0. /\ \A S : S \cap catalog.enabled \in SUBSET Service
        /\ updating \subseteq SUBSET Service
    BY DEF GatewayInv, StoreInv
  <2>1. CASE DeleteUser
    BY <2>0, <2>1 DEF DeleteUser, NoAccount
  <2>2. ASSUME NEW S \in Scopes, CreateUser(S)
        PROVE  /\ account' \in [exists : BOOLEAN, admin : BOOLEAN, limited : BOOLEAN,
                                allowed : SUBSET Service]
               /\ account'.exists /\ updating' = updating
    BY <2>0, <2>2 DEF CreateUser
  <2>3. ASSUME NEW S \in Scopes, UpdateUserAccess(S)
        PROVE  account' = account /\ updating' \subseteq SUBSET Service
    BY <2>0, <2>3 DEF UpdateUserAccess
  <2>4. ASSUME NEW S \in updating, SetAllowedServices(S)
        PROVE  /\ account' \in [exists : BOOLEAN, admin : BOOLEAN, limited : BOOLEAN,
                                allowed : SUBSET Service]
               /\ account'.exists \/ account' = account
               /\ updating' \subseteq SUBSET Service
    <3>1. PICK T : T = S \cap catalog.enabled
      OBVIOUS
    <3>2. /\ account' \in {account, [account EXCEPT !.limited = TRUE, !.allowed = T]}
          /\ account' = account \/ account.exists
          /\ updating' = updating \ {S}
      BY <2>4, <3>1 DEF SetAllowedServices
    <3>3. /\ account \in [exists : BOOLEAN, admin : BOOLEAN, limited : BOOLEAN,
                          allowed : SUBSET Service]
          /\ T \in SUBSET Service
      BY <2>0, <3>1 DEF GatewayInv, StoreInv
    <3>4. /\ account' \in [exists : BOOLEAN, admin : BOOLEAN, limited : BOOLEAN,
                           allowed : SUBSET Service]
          /\ account'.exists = account.exists
      BY <3>2, <3>3
    <3> QED
      BY <2>0, <3>2, <3>4
  <2> QED
    BY <2>0, <2>1, <2>2, <2>3, <2>4 DEF GatewayInv, StoreInv
<1>3. StoreInv' /\ PolicyInv'
  BY <1>1, <1>2 DEF GatewayInv, StoreInv, PolicyInv
<1> QED
  BY <1>1, <1>3, ChangeKeeps DEF GatewayInv

(* of the route policies, which are kept sorted,                           *)
LEMMA UpdateUserPoliciesStep ==
    ASSUME GatewayInv, Observe, NEW rules \in RuleSets, UpdateUserPolicies(rules)
    PROVE  GatewayInv'
<1>1. /\ UNCHANGED <<account, catalog, deleting, updating, session, token, req, issued, stranded>>
      /\ policies' \in Normalized(rules)
  BY DEF UpdateUserPolicies
<1>2. rules \subseteq AccessPolicyRule /\ Cardinality(rules) \in Nat
  BY RuleSetsAreRules, FS_CardinalityType DEF RuleSetsAreRules
<1>3. policies' \in [1..Cardinality(rules) -> AccessPolicyRule]
  BY <1>1, <1>2 DEF Normalized
<1>4. \A i, j \in DOMAIN policies' :
         i < j /\ policies'[i].service = policies'[j].service
            => policies'[i].prefix <= policies'[j].prefix
  BY <1>1 DEF Normalized
<1>5. PolicyInv'
  BY <1>2, <1>3, <1>4 DEF PolicyInv
<1>6. StoreInv'
  BY <1>1 DEF GatewayInv, StoreInv
<1> QED
  BY <1>1, <1>5, <1>6, ChangeKeeps DEF GatewayInv

(* of sessions and of the token,                                           *)
LEMMA CredentialStep ==
    ASSUME GatewayInv, Observe, LogIn \/ LogOut \/ RevokeToken \/ ChangeOtherToken
    PROVE  GatewayInv'
<1>1. /\ UNCHANGED <<account, policies, catalog, deleting, updating, req, issued, stranded>>
      /\ session' \in BOOLEAN
      /\ \/ token' = token
         \/ token' = [token EXCEPT !.saved = token.scope]
         \/ token' = [token EXCEPT !.active = FALSE, !.saved = token.scope]
  BY DEF GatewayInv, StoreInv, LogIn, LogOut, RevokeToken, ChangeOtherToken
<1>2. /\ token' \in [active : BOOLEAN, scope : SUBSET Service, saved : SUBSET Service]
      /\ token'.scope = token.scope /\ token'.saved \in {token.saved, token.scope}
  BY <1>1 DEF GatewayInv, StoreInv
<1>3. StoreInv' /\ PolicyInv'
  BY <1>1, <1>2 DEF GatewayInv, StoreInv, PolicyInv
<1> QED
  BY <1>1, <1>2, <1>3, ChangeKeeps DEF GatewayInv

(* and of the catalog keep the invariant.                                  *)
LEMMA CatalogStep ==
    ASSUME GatewayInv, Observe, NEW s \in Service,
           \/ DeleteService(s) \/ RemoveAllowedServiceEverywhere(s)
           \/ \E on \in BOOLEAN : UpsertService(s, on)
    PROVE  GatewayInv'
<1>1. UNCHANGED <<policies, updating, session, token, req, issued, stranded>>
  BY DEF DeleteService, RemoveAllowedServiceEverywhere, UpsertService
<1>2. StoreInv'
  <2>1. CASE DeleteService(s)
    BY <2>1 DEF DeleteService, GatewayInv, StoreInv
  <2>2. CASE RemoveAllowedServiceEverywhere(s)
    <3>1. /\ account' = [account EXCEPT !.allowed = account.allowed \ {s}]
          /\ deleting' = deleting \ {s} /\ UNCHANGED <<catalog, updating, session, token, stranded>>
      BY <2>2 DEF RemoveAllowedServiceEverywhere, GatewayInv, StoreInv
    <3>2. account' \in [exists : BOOLEAN, admin : BOOLEAN, limited : BOOLEAN,
                        allowed : SUBSET Service]
      BY <3>1 DEF GatewayInv, StoreInv
    <3>3. ASSUME ~account'.exists PROVE account' = NoAccount
      <4>1. account = NoAccount
        BY <3>1, <3>3 DEF GatewayInv, StoreInv
      <4>2. account.allowed \ {s} = {}
        BY <4>1 DEF NoAccount
      <4>3. account' = [NoAccount EXCEPT !.allowed = {}]
        BY <3>1, <4>1, <4>2
      <4> QED
        BY <4>3 DEF NoAccount
    <3> QED
      BY <3>1, <3>2, <3>3 DEF GatewayInv, StoreInv
  <2>3. ASSUME NEW on \in BOOLEAN, UpsertService(s, on) PROVE StoreInv'
    BY <2>3 DEF UpsertService, GatewayInv, StoreInv
  <2> QED
    BY <2>1, <2>2, <2>3
<1>3. PolicyInv'
  BY <1>1 DEF GatewayInv, PolicyInv
<1> QED
  BY <1>1, <1>2, <1>3, ChangeKeeps DEF GatewayInv

(* A restart forgets the requests and reads the token's scope from the     *)
(* file, without what is not enabled; if that leaves none of it, the token *)
(* is stranded.                                                            *)
LEMMA RestartStep ==
    ASSUME GatewayInv, Observe, Restart
    PROVE  GatewayInv'
<1>1. /\ UNCHANGED <<account, policies, catalog, issued>> /\ session' = FALSE
      /\ deleting' = {} /\ updating' = {}
      /\ token' = [token EXCEPT !.scope = token.saved \cap catalog.enabled]
      /\ stranded' = (issued # {} /\ token.saved \cap catalog.enabled = {})
      /\ req' = [q \in Req |-> NoRequest]
  BY DEF Restart, LoadedScope
<1>2. /\ token' \in [active : BOOLEAN, scope : SUBSET Service, saved : SUBSET Service]
      /\ token'.scope = token.saved \cap catalog.enabled /\ token'.saved = token.saved
  BY <1>1 DEF GatewayInv, StoreInv
<1>3. stranded' \in BOOLEAN
  BY <1>1
<1>4. StoreInv' /\ PolicyInv'
  BY <1>1, <1>2, <1>3 DEF GatewayInv, StoreInv, PolicyInv
<1>5. ReqInv'
  BY <1>1, NoRequestIsSound DEF ReqInv
<1>6. HeldInv'
  <2>1. held' \in [Req -> SUBSET Checks] /\ \A q \in Req : req'[q].pc = "idle" => held'[q] = {}
    BY ObserveAdds DEF GatewayInv
  <2>2. Earned(NoRequest, {})
    BY DEF Earned, NoRequest, LookedUp, Granted
  <2> QED
    BY <1>1, <2>1, <2>2 DEF HeldInv, NoRequest
<1>7. ScopeInv'
  BY <1>1, <1>2, NoRequestIsSound DEF GatewayInv, ScopeInv
<1> QED
  BY <1>4, <1>5, <1>6, <1>7 DEF GatewayInv

-----------------------------------------------------------------------------

(* One step per action.                                                    *)
LEMMA GatewayInvIsInductive == GatewayInv /\ [Next]_vars => GatewayInv'
<1> SUFFICES ASSUME GatewayInv, [Next]_vars PROVE GatewayInv'
  OBVIOUS
<1>1. ASSUME NEW q \in Req, Observe,
             \/ Arrive(q) \/ RequestStep(q) \/ Expire(q)
             \/ \E result \in {"answered", "unavailable", "error"} : RoundTrip(q, result)
      PROVE  GatewayInv'
  BY <1>1, ArriveStep, AuthenticateTokenStep, AuthenticateSessionStep, AdmitStep,
     LookupServiceStep, GetRoleStep, CanAccessServiceStep, EvaluatePoliciesStep, CheckModelStep,
     ExpireStep, SendAttemptStep, RoundTripStep, CopyResponseStep DEF RequestStep
<1>2. ASSUME Observe, AdminStep PROVE GatewayInv'
  BY <1>2, AccountStep, UpdateUserPoliciesStep, CredentialStep, CatalogStep, RestartStep
     DEF AdminStep
<1>3. CASE UNCHANGED vars
  BY <1>3 DEF vars, GatewayInv, StoreInv, PolicyInv, ReqInv, HeldInv, ScopeInv
<1> QED
  BY <1>1, <1>2, <1>3 DEF Next, Step

(* The invariant holds in every run of the gateway.                        *)
LEMMA GatewayInvHolds == Spec => []GatewayInv
BY GatewayInitially, GatewayInvIsInductive, PTL DEF Spec

(* The gateway's state keeps its shape: whatever administrators do, no     *)
(* service is enabled that is not known, a user who is gone has no rights  *)
(* left, and a request past authentication has a credential.               *)
THEOREM GatewayTypeCorrect == Spec => []TypeOK
<1>1. GatewayInv => TypeOK
  BY DEF GatewayInv, StoreInv, PolicyInv, ReqInv, HeldInv, TypeOK, Sound, Unknown, Local
<1> QED
  BY <1>1, GatewayInvHolds, PTL

(* A forwarded request has met its credential, the token's scope, the      *)
(* service, the account and the route policy, each at some moment of its   *)
(* own, although the chain reads them one after the other.                 *)
THEOREM ForwardingNeedsPermission == Spec => []ForwardedWasPermitted
<1>1. GatewayInv => ForwardedWasPermitted
  <2> SUFFICES ASSUME GatewayInv, NEW q \in Req, Forwarded(q) PROVE held[q] = Checks
    BY DEF ForwardedWasPermitted
  <2>1. Sound(req[q]) /\ Earned(req[q], held[q]) /\ held[q] \in SUBSET Checks
    BY DEF GatewayInv, ReqInv, HeldInv
  <2> QED
    BY <2>1 DEF Forwarded, Sound, Earned, Granted, LookedUp, Unknown, Checks
<1> QED
  BY <1>1, GatewayInvHolds, PTL

(* A token made for some services is never good for another one, unless it *)
(* was loaded while none of its services was enabled.                      *)
THEOREM TokenKeepsItsScope == Spec => []ScopeIsKept
<1>1. GatewayInv => ScopeIsKept
  <2> SUFFICES ASSUME GatewayInv, issued # {}, ~stranded
               PROVE  /\ token.scope # {} /\ token.scope \subseteq issued
                      /\ \A q \in Req : Forwarded(q) /\ req[q].source = "token"
                                          => req[q].svc \in issued
    BY DEF ScopeIsKept
  <2>1. token.scope # {} /\ token.scope \subseteq issued
    BY DEF GatewayInv, ScopeInv
  <2>2. ASSUME NEW q \in Req, Forwarded(q), req[q].source = "token"
        PROVE  req[q].svc \in issued
    <3>1. Covers(req[q])
      BY <2>2 DEF GatewayInv, ReqInv, Sound, Forwarded, LookedUp, Granted
    <3> QED
      BY <2>2, <3>1 DEF GatewayInv, ScopeInv, Covers
  <2> QED
    BY <2>1, <2>2
<1> QED
  BY <1>1, GatewayInvHolds, PTL

(* A request that may change something reaches the service at most once,   *)
(* and a safe one at most 1 + RetryCount times.                            *)
THEOREM ServiceIsReachedAtMost == Spec => []SentAtMost
<1>1. GatewayInv => SentAtMost
  <2> SUFFICES ASSUME GatewayInv, NEW q \in Req
               PROVE  req[q].sent <= (IF req[q].method = "GET" THEN 1 + RetryCount ELSE 1)
    BY DEF SentAtMost
  <2>1. req[q] \in Local /\ Sound(req[q])
    BY DEF GatewayInv, ReqInv
  <2> QED
    BY <2>1, Constants DEF Sound, AttemptsOf, Local
<1> QED
  BY <1>1, GatewayInvHolds, PTL

-----------------------------------------------------------------------------
(* Route policies *)

(* Every set of numbers that is not empty has a least one.                 *)
LEMMA LeastNumber ==
    ASSUME NEW S \in SUBSET Nat, S # {}
    PROVE  \E m \in S : \A k \in S : m <= k
<1> DEFINE R == OpToRel(<, Nat)
<1>1. IsWellFoundedOn(R, Nat)
  BY NatLessThanWellFounded
<1>2. \A x, y \in Nat : x < y => <<x, y>> \in R
  BY DEF OpToRel
<1> HIDE DEF R
<1>3. PICK m \in S : \A k \in S : ~(<<k, m>> \in R)
  BY <1>1, WFMin
<1>4. m \in Nat /\ S \subseteq Nat
  OBVIOUS
<1>5. ASSUME NEW k \in S PROVE m <= k
  <2>1. k \in Nat /\ ~(k < m)
    BY <1>2, <1>3, <1>4
  <2> QED
    BY <1>4, <2>1
<1> QED
  BY <1>5

(* In a sorted list the first rule that fits has the shortest prefix of    *)
(* those that fit, so it does not matter which of them came first.         *)
THEOREM ShortestPrefixIsDecisive == Spec => []ShortestPrefixDecides
<1>1. PolicyInv => ShortestPrefixDecides
  <2> SUFFICES ASSUME PolicyInv, NEW s \in Service, NEW m \in {"GET", "POST"}, NEW p \in 1..2,
                      NEW source \in {"token", "session"}
               PROVE  LET mine == {rule \in {policies[i] : i \in DOMAIN policies} :
                                     rule.service = s}
                          fit == {rule \in mine : Fits(rule, m, p)}
                          shortest == {rule \in fit : \A other \in fit :
                                         rule.prefix <= other.prefix}
                      IN  PolicyAllows(policies, s, m, p, source) \in
                            IF mine = {} THEN {TRUE}
                            ELSE IF fit = {} THEN {FALSE}
                            ELSE {rule.mfa => source = "session" : rule \in shortest}
    BY DEF ShortestPrefixDecides
  <2> DEFINE mine == {rule \in {policies[i] : i \in DOMAIN policies} : rule.service = s}
             fit == {rule \in mine : Fits(rule, m, p)}
             shortest == {rule \in fit : \A other \in fit : rule.prefix <= other.prefix}
             places == RulesFor(s, policies)
             fitting == {i \in places : Fits(policies[i], m, p)}
             first == CHOOSE i \in fitting : \A j \in fitting : i <= j
  <2>1. PolicyAllows(policies, s, m, p, source)
          = (places = {} \/ (fitting # {} /\ (policies[first].mfa => source = "session")))
    BY DEF PolicyAllows
  <2>2. PICK n \in Nat : policies \in [1..n -> AccessPolicyRule]
    BY DEF PolicyInv
  <2>3. mine = {policies[i] : i \in places} /\ fit = {policies[i] : i \in fitting}
    BY DEF RulesFor
  <2>4. fitting \subseteq places /\ places \subseteq 1..n /\ 1..n \subseteq Nat
    BY <2>2 DEF RulesFor
  <2>5. CASE mine = {}
    BY <2>1, <2>3, <2>5
  <2>6. CASE mine # {} /\ fit = {}
    BY <2>1, <2>3, <2>6
  <2>7. CASE fit # {}
    <3>1. fitting \in SUBSET Nat /\ fitting # {}
      BY <2>3, <2>4, <2>7
    <3> HIDE DEF fitting
    <3>2. first \in fitting /\ \A j \in fitting : first <= j
      BY <3>1, LeastNumber
    <3> HIDE DEF first
    <3>3. ASSUME NEW j \in fitting PROVE policies[first].prefix <= policies[j].prefix
      <4>1. first \in 1..n /\ j \in 1..n /\ first <= j
        BY <2>4, <3>2
      <4>2. policies[first].service = s /\ policies[j].service = s
        BY <3>2 DEF fitting, RulesFor
      <4>3. policies[first].prefix \in 1..2 /\ policies[j].prefix \in 1..2
        BY <2>2, <4>1 DEF AccessPolicyRule
      <4>4. first < j => policies[first].prefix <= policies[j].prefix
        BY <2>2, <4>1, <4>2 DEF PolicyInv
      <4> QED
        BY <4>1, <4>3, <4>4
    <3>4. policies[first] \in shortest
      BY <2>3, <3>2, <3>3
    <3>5. PolicyAllows(policies, s, m, p, source) = (policies[first].mfa => source = "session")
      BY <2>1, <2>4, <3>1, <3>2
    <3>6. mine # {}
      BY <2>7
    <3> HIDE DEF shortest, mine, fit
    <3>7. PolicyAllows(policies, s, m, p, source)
            \in {rule.mfa => source = "session" : rule \in shortest}
      BY <3>4, <3>5
    <3> QED
      BY <2>7, <3>6, <3>7 DEF shortest, mine, fit
  <2> QED
    BY <2>5, <2>6, <2>7
<1> QED
  BY <1>1, GatewayInvHolds, PTL DEF GatewayInv

=============================================================================
