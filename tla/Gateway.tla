------------------------------ MODULE Gateway ------------------------------
(***************************************************************************)
(* The way of a request through the gateway: the middleware chain and the  *)
(* catch-all handler of main.go, the OpenAI adapter (proxy/openai.go), the *)
(* access decision (config/access_policies.go, config/userstore.go), and   *)
(* the reverse proxy with its retries (proxy/proxy.go), while              *)
(* administrators change what the decision rests on.                       *)
(*                                                                         *)
(* Every store has its own mutex, and the chain reads one after the other: *)
(* each read is a step.  Audit events are left out.  The model follows one *)
(* user, with one session and one gateway token; writes of the stores      *)
(* succeed (Accounts, KeyDelivery and Services are about the writes that   *)
(* fail).                                                                  *)
(***************************************************************************)
EXTENDS Integers, FiniteSets

CONSTANTS
    Req,                    \* request goroutines
    Service, NoService,
    OpenAIService,          \* the service the token is for in the adapter
    Credentials, Routes,    \* what requests carry, and the method and path
                            \* they ask for
    RuleSets,               \* the lists of route policies administrators send
    Scopes,                 \* the service lists administrators send
    RetryCount,             \* of every service, as normalizeServiceConfig cuts it
    MaxChanges              \* bound of the instance: administrators' steps

ASSUME GatewayConstants ==
    /\ NoService \notin Service /\ OpenAIService \in Service
    /\ Scopes \subseteq SUBSET Service
    /\ Credentials \subseteq SUBSET {"token", "cookie", "csrf"}
    /\ Routes \subseteq {"GET", "POST"} \X (1..2)
    /\ RetryCount \in 0..3 /\ MaxChanges \in Nat

VARIABLES
    account,                \* the user's entry of the user store
    policies,               \* accessPolicyData of the user
    catalog,                \* the known services, and those of them enabled
    deleting,               \* services whose deletion is half done
    updating,               \* service lists of updates that have passed their checks
    session,                \* is the user's session live?
    token,                  \* the user's gateway token: in memory, and its scope
                            \* in the file
    req,                    \* the local variables of each request
    changes,                \* steps administrators have taken
    held,                   \* history: the checks that were true at some
                            \* moment of the request
    issued, stranded        \* history: the scope the token was created with,
                            \* and was it last loaded while none of the scope
                            \* in the file was enabled?

vars == <<account, policies, catalog, deleting, updating, session, token, req, changes,
          held, issued, stranded>>
stores == <<account, policies, catalog, deleting, updating, session, token, changes, issued, stranded>>

(* A rule for one of two paths, one being below the other: prefix 1 stands *)
(* for "/" and 2 for a longer one.  No methods means all.                  *)
AccessPolicyRule == [service : Service, prefix : 1..2,
                     methods : SUBSET {"GET", "POST"}, mfa : BOOLEAN]

ASSUME RuleSetsAreRules ==
    \A rules \in RuleSets : rules \subseteq AccessPolicyRule /\ IsFiniteSet(rules)

NoAccount == [exists |-> FALSE, admin |-> FALSE, limited |-> FALSE, allowed |-> {}]
NoRequest == [pc |-> "idle", api |-> "proxy", carries |-> {}, method |-> "GET", path |-> 1,
              svc |-> NoService, source |-> "none", scope |-> {}, attempt |-> 0,
              sent |-> 0, expired |-> FALSE, answer |-> "none"]

Enabled(s) == s \in catalog.enabled

Init ==
    /\ account = [exists |-> TRUE, admin |-> FALSE, limited |-> FALSE, allowed |-> {}]
    /\ policies = <<>>
    /\ catalog = [enabled |-> Service, known |-> Service]
    /\ deleting = {} /\ updating = {}
    /\ session = TRUE
    /\ issued \in Scopes
    /\ token = [active |-> TRUE, scope |-> issued, saved |-> issued]
    /\ req = [q \in Req |-> NoRequest]
    /\ changes = 0
    /\ held = [q \in Req |-> {}]
    /\ stranded = FALSE

-----------------------------------------------------------------------------
(* The access decision *)

(* The first rule in the list that fits decides.                           *)
Fits(rule, method, path) ==
    /\ rule.prefix <= path
    /\ rule.methods = {} \/ method \in rule.methods

(* The places of the rules for service s. *)
RulesFor(s, rules) == {i \in DOMAIN rules : rules[i].service = s}

PolicyAllows(rules, s, method, path, source) ==
    LET mine == RulesFor(s, rules)
        fit == {i \in mine : Fits(rules[i], method, path)}
        first == CHOOSE i \in fit : \A j \in fit : i <= j
    IN  \/ mine = {}
        \/ fit # {} /\ (rules[first].mfa => source = "session")

(* Mutated: a user without an entry has no restrictions. *)
MissingMayAccess(s) ==
    ~account.exists \/ account.admin \/ ~account.limited \/ s \in account.allowed

(* CanAccessService *)
MayAccess(s) ==
    /\ account.exists
    /\ account.admin \/ ~account.limited \/ s \in account.allowed

(* Mutated: the rules stay in the order they were sent in. *)
Unsorted(rules) ==
    {s \in [1..Cardinality(rules) -> rules] : {s[i] : i \in DOMAIN s} = rules}

(* normalizeAccessPolicyRules sorts by service and prefix, then by ID; IDs *)
(* are random, so rules with the same prefix end up in any order.          *)
Normalized(rules) ==
    {s \in [1..Cardinality(rules) -> rules] :
        /\ {s[i] : i \in DOMAIN s} = rules
        /\ \A i, j \in DOMAIN s :
              i < j /\ s[i].service = s[j].service => s[i].prefix <= s[j].prefix}

-----------------------------------------------------------------------------
(* Requests *)

Goto(q, pc) == req' = [req EXCEPT ![q].pc = pc]
Refuse(q) == req' = [req EXCEPT ![q] = [@ EXCEPT !.pc = "done", !.answer = "refused"]]

(* A request arrives with a token, a session cookie, or both, and with or  *)
(* without a valid CSRF header.                                            *)
Arrive(q) ==
    /\ req[q].pc = "idle"
    /\ \E api \in {"proxy", "openai"}, carries \in Credentials, route \in Routes,
          s \in Service \cup {NoService} :
          /\ (api = "openai") = (s = NoService)      \* the adapter's comes with the token
          /\ req' = [req EXCEPT ![q] =
                    [NoRequest EXCEPT !.pc = "authenticate", !.api = api, !.carries = carries,
                                      !.method = route[1], !.path = route[2], !.svc = s]]
    /\ UNCHANGED stores

(* authenticateRequest tries the token and attaches a copy of it ...       *)
AuthenticateToken(q) ==
    /\ req[q].pc = "authenticate"
    /\ IF "token" \in req[q].carries /\ token.active
       THEN req' = [req EXCEPT ![q] =
                      [@ EXCEPT !.pc = "admit", !.source = "token", !.scope = token.scope,
                                !.svc = IF req[q].api = "openai" THEN OpenAIService
                                         ELSE req[q].svc]]
       ELSE Goto(q, "cookie")
    /\ UNCHANGED stores

(* ... and then the session cookie.                                        *)
AuthenticateSession(q) ==
    /\ req[q].pc = "cookie"
    /\ IF "cookie" \in req[q].carries /\ session
       THEN req' = [req EXCEPT ![q] = [@ EXCEPT !.pc = "admit", !.source = "session"]]
       ELSE Refuse(q)
    /\ UNCHANGED stores

(* CSRF, which only the catch-all route has, the rate limit, and the       *)
(* adapter's demand for a token.                                           *)
Admitted(q) ==
    IF req[q].api = "openai" THEN req[q].source = "token"
    ELSE req[q].method = "GET" \/ req[q].source = "token" \/ "csrf" \in req[q].carries

Admit(q) ==
    /\ req[q].pc = "admit"
    /\ \/ Admitted(q) /\ Goto(q, "lookup")
       \/ Refuse(q)                                \* also: the rate limit
    /\ UNCHANGED stores

(* Mutated: the adapter does not look at the token's services. *)
InScopeOfProxy(q) ==
    (req[q].api = "proxy" /\ req[q].source = "token") =>
       req[q].scope = {} \/ req[q].svc \in req[q].scope

InScope(q) == req[q].source = "token" => req[q].scope = {} \/ req[q].svc \in req[q].scope

(* LookupService, and the checks of the attached token.                    *)
LookupService(q) ==
    /\ req[q].pc = "lookup"
    /\ \/ /\ Enabled(req[q].svc) /\ InScope(q)
          /\ Goto(q, "role")
       \/ ~(Enabled(req[q].svc) /\ InScope(q)) /\ Refuse(q)
    /\ UNCHANGED stores

(* EvaluateRouteAccess in three sections: GetRole, ...                     *)
GetRole(q) ==
    /\ req[q].pc = "role"
    /\ Goto(q, IF account.exists /\ account.admin THEN "models" ELSE "access")
    /\ UNCHANGED stores

(* ... CanAccessService, ...                                               *)
CanAccessService(q) ==
    /\ req[q].pc = "access"
    /\ IF MayAccess(req[q].svc) THEN Goto(q, "policy") ELSE Refuse(q)
    /\ UNCHANGED stores

(* ... and GetUserAccessPolicies.                                          *)
EvaluatePolicies(q) ==
    LET ok == PolicyAllows(policies, req[q].svc, req[q].method, req[q].path, req[q].source)
    IN  /\ req[q].pc = "policy"
        /\ IF ok THEN Goto(q, "models") ELSE Refuse(q)
        /\ UNCHANGED stores

(* The adapter looks at provider and model, which are the token's own.     *)
CheckModel(q) ==
    /\ req[q].pc = "models"
    /\ \/ Goto(q, "sending")
       \/ req[q].api = "openai" /\ Refuse(q)
    /\ UNCHANGED stores

-----------------------------------------------------------------------------
(* Forwarding *)

(* Mutated: every method is tried again. *)
AttemptsForAll(q) == 1 + RetryCount

Attempts(q) == IF req[q].method = "GET" THEN 1 + RetryCount ELSE 1

(* Mutated: the deadline covers the first attempt only. *)
ExpireFirst(q) ==
    /\ req[q].pc \in {"sending", "waiting"} /\ ~req[q].expired /\ req[q].attempt = 0
    /\ req' = [req EXCEPT ![q].expired = TRUE]
    /\ UNCHANGED stores

(* The deadline of the whole request passes, or its client goes away.      *)
Expire(q) ==
    /\ req[q].pc \in {"sending", "waiting"} /\ ~req[q].expired
    /\ req' = [req EXCEPT ![q].expired = TRUE]
    /\ UNCHANGED stores

(* RoundTrip starts an attempt.  The transport sends nothing in a context  *)
(* that is over.                                                           *)
SendAttempt(q) ==
    /\ req[q].pc = "sending"
    /\ req' = [req EXCEPT ![q].pc = "waiting",
                          ![q].sent = IF req[q].expired THEN @ ELSE @ + 1]
    /\ UNCHANGED stores

(* The attempt ends: the service answers, answers that it is unavailable,  *)
(* or the transport fails, as it must when the context is over.  An        *)
(* attempt's own timeout is no shorter than the rest of the request's.     *)
RoundTrip(q, result) ==
    LET more == req[q].attempt + 1 < Attempts(q)
        again == \/ result = "error"
                 \/ result = "unavailable" /\ req[q].method = "GET"
    IN  /\ req[q].pc = "waiting"
        /\ req[q].expired => result = "error"
        /\ req' = [req EXCEPT ![q] =
                     IF more /\ again THEN [@ EXCEPT !.pc = "sending", !.attempt = req[q].attempt + 1]
                     ELSE [@ EXCEPT !.pc = "copying", !.answer = result]]
        /\ UNCHANGED stores

(* The answer, or the error handler's, is copied to the client.  (A body   *)
(* may break off: RoundTrip has already cancelled the attempt's context.)  *)
CopyResponse(q) ==
    /\ req[q].pc = "copying"
    /\ Goto(q, "done")
    /\ UNCHANGED stores

RequestStep(q) ==
    \/ AuthenticateToken(q) \/ AuthenticateSession(q) \/ Admit(q) \/ LookupService(q)
    \/ GetRole(q) \/ CanAccessService(q) \/ EvaluatePolicies(q) \/ CheckModel(q)
    \/ SendAttempt(q) \/ CopyResponse(q)

-----------------------------------------------------------------------------
(* Administrators *)

Change == changes < MaxChanges /\ changes' = changes + 1

(* Sessions and tokens of a deleted user stay.                             *)
DeleteUser ==
    /\ Change /\ account.exists
    /\ account' = NoAccount
    /\ UNCHANGED <<policies, catalog, deleting, updating, session, token, req, issued, stranded>>

(* Only administrators are created without restrictions (accounts from     *)
(* the environment, as in Init, have none either).                         *)
CreateUser(S) ==
    /\ Change /\ ~account.exists
    /\ \E admin \in BOOLEAN :
          account' = [exists |-> TRUE, admin |-> admin, limited |-> ~admin,
                      allowed |-> S \cap catalog.enabled]
    /\ UNCHANGED <<policies, catalog, deleting, updating, session, token, req, issued, stranded>>

(* UpdateUserAccessHandler refuses administrators and, later and without   *)
(* another look at the role, ...                                           *)
UpdateUserAccess(S) ==
    /\ Change /\ account.exists /\ ~account.admin
    /\ updating' = updating \cup {S \cap catalog.enabled}
    /\ UNCHANGED <<account, policies, catalog, deleting, session, token, req, issued, stranded>>

(* Mutated: the account is not looked up again. *)
SetAnyAllowedServices(S) ==
    /\ S \in updating /\ updating' = updating \ {S}
    /\ account' = [account EXCEPT !.limited = TRUE, !.allowed = S \cap catalog.enabled]
    /\ UNCHANGED <<policies, catalog, deleting, session, token, req, changes, issued, stranded>>

(* ... sets the list, without the services that are not enabled.           *)
SetAllowedServices(S) ==
    /\ S \in updating /\ updating' = updating \ {S}
    /\ account' = IF account.exists
                  THEN [account EXCEPT !.limited = TRUE, !.allowed = S \cap catalog.enabled]
                  ELSE account
    /\ UNCHANGED <<policies, catalog, deleting, session, token, req, changes, issued, stranded>>

(* UpdateUserPoliciesHandler has looked at the account in earlier sections *)
(* of the store's lock; it may be gone or another one by now.              *)
UpdateUserPolicies(rules) ==
    /\ Change
    /\ policies' \in Normalized(rules)
    /\ UNCHANGED <<account, catalog, deleting, updating, session, token, req, issued, stranded>>

LogIn ==
    /\ Change /\ account.exists /\ ~session
    /\ session' = TRUE
    /\ UNCHANGED <<account, policies, catalog, deleting, updating, token, req, issued, stranded>>

LogOut ==
    /\ Change /\ session
    /\ session' = FALSE
    /\ UNCHANGED <<account, policies, catalog, deleting, updating, token, req, issued, stranded>>

(* Every change of a token writes all of them.                             *)
RevokeToken ==
    /\ Change /\ token.active
    /\ token' = [token EXCEPT !.active = FALSE, !.saved = token.scope]
    /\ UNCHANGED <<account, policies, catalog, deleting, updating, session, req, issued, stranded>>

ChangeOtherToken ==
    /\ Change
    /\ token' = [token EXCEPT !.saved = token.scope]
    /\ UNCHANGED <<account, policies, catalog, deleting, updating, session, req, issued, stranded>>

(* UpdateServiceHandler or CreateServiceHandler.                           *)
UpsertService(s, on) ==
    /\ Change
    /\ catalog' = [known |-> catalog.known \cup {s},
                   enabled |-> IF on THEN catalog.enabled \cup {s} ELSE catalog.enabled \ {s}]
    /\ UNCHANGED <<account, policies, deleting, updating, session, token, req, issued, stranded>>

(* DeleteServiceHandler takes the service off the catalog ...              *)
DeleteService(s) ==
    /\ Change /\ s \in catalog.known
    /\ catalog' = [known |-> catalog.known \ {s}, enabled |-> catalog.enabled \ {s}]
    /\ deleting' = deleting \cup {s}
    /\ UNCHANGED <<account, policies, updating, session, token, req, issued, stranded>>

(* ... and then off the users' lists; it may be back on the catalog.       *)
RemoveAllowedServiceEverywhere(s) ==
    /\ s \in deleting
    /\ deleting' = deleting \ {s}
    /\ account' = [account EXCEPT !.allowed = @ \ {s}]
    /\ UNCHANGED <<policies, catalog, updating, session, token, req, changes, issued, stranded>>

(* NormalizeAllowedServices on a token that is loaded.                     *)
LoadedScope == token.saved \cap catalog.enabled

(* The process stops and starts: requests and sessions are gone, and       *)
(* LoadAPITokens reads the tokens.  The file keeps what it says.           *)
Restart ==
    /\ Change
    /\ session' = FALSE
    /\ token' = [token EXCEPT !.scope = LoadedScope]
    /\ stranded' = (issued # {} /\ LoadedScope = {})
    /\ deleting' = {} /\ updating' = {}
    /\ req' = [q \in Req |-> NoRequest]
    /\ UNCHANGED <<account, policies, catalog, issued>>

AdminStep ==
    \/ DeleteUser \/ LogIn \/ LogOut \/ RevokeToken \/ ChangeOtherToken \/ Restart
    \/ \E S \in Scopes : CreateUser(S) \/ UpdateUserAccess(S)
    \/ \E S \in updating : SetAllowedServices(S)
    \/ \E rules \in RuleSets : UpdateUserPolicies(rules)
    \/ \E s \in Service :
          \/ DeleteService(s) \/ RemoveAllowedServiceEverywhere(s)
          \/ \E on \in BOOLEAN : UpsertService(s, on)

-----------------------------------------------------------------------------
(* What a request needs, and whether it has it at this moment.             *)
Checks == {"credential", "scope", "service", "account", "policy"}

TrueNow(q) ==
    LET s == req[q].svc
        byToken == req[q].source = "token"
        admin == account.exists /\ account.admin
        Holds == [credential |-> IF byToken THEN token.active ELSE session,
                  scope |-> byToken => token.scope = {} \/ s \in token.scope,
                  service |-> Enabled(s),
                  account |-> /\ account.exists
                              /\ account.admin \/ (account.limited => s \in account.allowed),
                  policy |-> admin \/ PolicyAllows(policies, s, req[q].method, req[q].path,
                                                  req[q].source)]
    IN  IF req[q].source = "none" THEN {} ELSE {c \in Checks : Holds[c]}

Observe ==
    held' = [q \in Req |-> IF req'[q].pc = "idle" THEN {} ELSE held[q] \cup TrueNow(q)']

Step ==
    \/ \E q \in Req :
          \/ Arrive(q) \/ RequestStep(q) \/ Expire(q)
          \/ \E result \in {"answered", "unavailable", "error"} : RoundTrip(q, result)
    \/ AdminStep

Next == Step /\ Observe

Spec == Init /\ [][Next]_vars

(* The scheduler runs the handlers, timers fire, and an attempt whose      *)
(* context is over returns.  A service need not answer at all.             *)
Progress(q) ==
    RequestStep(q) \/ Expire(q) \/ (req[q].expired /\ RoundTrip(q, "error"))

Fairness == \A q \in Req : WF_vars(Progress(q) /\ Observe)

FairSpec == Spec /\ Fairness

-----------------------------------------------------------------------------
(* Properties *)

TypeOK ==
    /\ account \in [exists : BOOLEAN, admin : BOOLEAN, limited : BOOLEAN, allowed : SUBSET Service]
    /\ ~account.exists => account = NoAccount
    /\ \A i \in DOMAIN policies : policies[i] \in AccessPolicyRule
    /\ catalog.enabled \subseteq catalog.known /\ catalog.known \subseteq Service
    /\ deleting \subseteq Service /\ updating \subseteq SUBSET Service
    /\ session \in BOOLEAN /\ stranded \in BOOLEAN
    /\ token \in [active : BOOLEAN, scope : SUBSET Service, saved : SUBSET Service]
    /\ \A q \in Req :
          /\ req[q].svc \in Service \cup {NoService} /\ req[q].scope \subseteq Service
          /\ req[q].pc \notin {"idle", "authenticate", "cookie", "done"} => req[q].source # "none"
          /\ held[q] \subseteq Checks

Forwarded(q) == req[q].pc \in {"sending", "waiting", "copying"} \/ req[q].sent > 0

(* A request is forwarded only if its credential, the token's scope, the   *)
(* service, the account and the route policy each allowed it at some       *)
(* moment while it was being handled, although the chain reads them one    *)
(* after the other and administrators change them in between.  In          *)
(* particular the session or token of a deleted user opens nothing.        *)
ForwardedWasPermitted == \A q \in Req : Forwarded(q) => held[q] = Checks

(* What is decided by a list of rules does not depend on the order they    *)
(* were sent in: among the rules for the service that fit the request, one *)
(* with the shortest prefix decides (EvaluateRouteAccess after             *)
(* normalizeAccessPolicyRules).                                            *)
ShortestPrefixDecides ==
    \A s \in Service, m \in {"GET", "POST"}, p \in 1..2, source \in {"token", "session"} :
       LET mine == {rule \in {policies[i] : i \in DOMAIN policies} : rule.service = s}
           fit == {rule \in mine : Fits(rule, m, p)}
           shortest == {rule \in fit : \A other \in fit : rule.prefix <= other.prefix}
       IN  PolicyAllows(policies, s, m, p, source) \in
              IF mine = {} THEN {TRUE}
              ELSE IF fit = {} THEN {FALSE}
              ELSE {rule.mfa => source = "session" : rule \in shortest}

(* A token made for some services is never good for another one, over any  *)
(* number of changes of the catalog, saves and restarts, unless it was     *)
(* last loaded while none of the services in its file was enabled          *)
(* (LoadAPITokens): that is the only way for its scope to become empty,    *)
(* which means no restriction.                                             *)
ScopeIsKept ==
    (issued # {} /\ ~stranded) =>
       /\ token.scope # {} /\ token.scope \subseteq issued
       /\ \A q \in Req : Forwarded(q) /\ req[q].source = "token" => req[q].svc \in issued

(* A request that may change something reaches the service at most once,   *)
(* and a safe one at most 1 + RetryCount times, whatever the transport     *)
(* reports (RoundTrip).                                                    *)
SentAtMost ==
    \A q \in Req : req[q].sent <= (IF req[q].method = "GET" THEN 1 + RetryCount ELSE 1)

(* Every request is answered, even if the service never says anything: its *)
(* deadline ends the attempt, and the retries that follow end at once.     *)
RequestsAnswered == \A q \in Req : req[q].pc # "idle" ~> req[q].pc \in {"idle", "done"}

=============================================================================
