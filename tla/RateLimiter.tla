----------------------------- MODULE RateLimiter -----------------------------
(***************************************************************************)
(* The token-bucket rate limiter of middleware/ratelimit.go and the        *)
(* settings it reads (config/ratelimits.go).                               *)
(*                                                                         *)
(* Time is in seconds and a bucket's tokens in sixtieths, so that a bucket *)
(* gains exactly RequestsPerMinute units a second and a request costs 60.  *)
(* allow() works under two mutexes, one after the other: it finds or makes *)
(* the bucket of its key under rl.mu and spends from it under b.mu.  The   *)
(* sweeper holds rl.mu, but b.mu only while it looks at a bucket.  Between *)
(* any two of these sections other requests, the sweeper and the admin who *)
(* saves new settings may run.                                             *)
(*                                                                         *)
(* The buckets a key has had are numbered; the number of the current one   *)
(* is the number of times the sweeper took one away.                       *)
(***************************************************************************)
EXTENDS Integers, FiniteSets

CONSTANTS
    Req,                \* handler goroutines
    Key, NoKey,         \* users, client addresses, "token:" keys
    Rule,               \* the rules an admin saves, before normalisation
    StaleAfter,         \* 10 min: the idle time after which a bucket goes
    Delay,              \* how far the clock may jump at once
    MaxTime, MaxSweeps  \* bounds of the instance

Cost == 60

\* NormalizeRateLimitRule
NormalizeRateLimitRule(rule) ==
    LET rpm == IF rule.rpm < 0 THEN 0 ELSE rule.rpm
    IN  [rpm   |-> rpm,
         burst |-> IF rpm > 0 /\ rule.burst <= 0 THEN 1
                   ELSE IF rule.burst < 0 THEN 0 ELSE rule.burst]

Normal == {NormalizeRateLimitRule(rule) : rule \in Rule}

ASSUME RateConstants ==
    /\ NoKey \notin Key /\ IsFiniteSet(Req)
    /\ Rule \subseteq [rpm : Int, burst : Int]
    /\ StaleAfter \in Nat /\ Delay \subseteq Nat
    /\ MaxTime \in Nat /\ MaxSweeps \in Nat

VARIABLES
    now,
    settings,       \* the normalised rule that GetRateLimits gives for a key
    gen, present,   \* the number of the key's bucket; is it in rl.buckets?
    heap,           \* every bucket object: its tokens and lastRefill
    doomed,         \* the key whose bucket the sweeper, holding rl.mu, has
                    \* found stale and not yet deleted
    req,            \* each request's step, key, rule and bucket number
    allowed,        \* history: requests let through, per key
    overdrawn,      \* history: those paid from a bucket already given up
    throttled       \* history: keys that were answered 429

vars == <<now, settings, gen, present, heap, doomed, req, allowed, overdrawn,
          throttled>>

Gen == 0..MaxSweeps
Bucket == [tokens : Nat, last : Nat]
Request == [pc : {"idle"}]
             \cup [pc : {"ruled"}, key : Key, rule : Normal]
             \cup [pc : {"holding"}, key : Key, rule : Normal, ref : Gen]
Idle == [pc |-> "idle"]

Init ==
    /\ now = 0
    /\ settings \in [Key -> Normal]
    /\ gen = [k \in Key |-> 0] /\ present = [k \in Key |-> FALSE]
    /\ heap = [k \in Key |-> [g \in Gen |-> [tokens |-> 0, last |-> 0]]]
    /\ doomed = NoKey
    /\ req = [r \in Req |-> Idle]
    /\ allowed = [k \in Key |-> 0] /\ overdrawn = [k \in Key |-> 0]
    /\ throttled = {}

-----------------------------------------------------------------------------

\* SaveRateLimits: a new rule for a key replaces the old one in memory, also
\* when the file cannot be written.
SaveRateLimits(k, rule) ==
    /\ settings' = [settings EXCEPT ![k] = NormalizeRateLimitRule(rule)]
    /\ UNCHANGED <<now, gen, present, heap, doomed, req, allowed, overdrawn,
                   throttled>>

\* RateLimit up to the call of allow; with no limit the request passes here.
RateLimit(r, k) ==
    /\ req[r].pc = "idle" /\ settings[k].rpm > 0
    /\ req' = [req EXCEPT ![r] =
                 [pc |-> "ruled", key |-> k, rule |-> settings[k]]]
    /\ UNCHANGED <<now, settings, gen, present, heap, doomed, allowed,
                   overdrawn, throttled>>

\* allow, first section (rl.mu): the key's bucket, made full if there is none.
FetchEmpty(r) ==
    LET k == req[r].key
    IN  /\ req[r].pc = "ruled" /\ doomed = NoKey
        /\ present' = [present EXCEPT ![k] = TRUE]
        /\ heap' = IF present[k] THEN heap
                   ELSE [heap EXCEPT ![k][gen[k]] = [tokens |-> 0, last |-> now]]
        /\ req' = [req EXCEPT ![r] = [pc |-> "holding", key |-> k,
                                      rule |-> req[r].rule, ref |-> gen[k]]]
        /\ UNCHANGED <<now, settings, gen, doomed, allowed, overdrawn, throttled>>

Fetch(r) ==
    LET k == req[r].key
    IN  /\ req[r].pc = "ruled" /\ doomed = NoKey
        /\ present' = [present EXCEPT ![k] = TRUE]
        /\ heap' = IF present[k] THEN heap
                   ELSE [heap EXCEPT ![k][gen[k]] =
                           [tokens |-> Cost * req[r].rule.burst, last |-> now]]
        /\ req' = [req EXCEPT ![r] = [pc |-> "holding", key |-> k,
                                      rule |-> req[r].rule, ref |-> gen[k]]]
        /\ UNCHANGED <<now, settings, gen, doomed, allowed, overdrawn, throttled>>

\* The tokens of bucket b after the refill under a rule.
RefillUncapped(b, rule) == b.tokens + (now - b.last) * rule.rpm

Refill(b, rule) ==
    LET full == Cost * rule.burst
        grown == b.tokens + (now - b.last) * rule.rpm
    IN  IF grown > full THEN full ELSE grown

\* A request's bucket has been given up by the sweeper.
Orphaned(r) ==
    LET k == req[r].key
    IN  req[r].ref # gen[k] \/ ~present[k] \/ doomed = k

\* allow, second section (b.mu), and the answer.
SpendOverdraft(r) ==
    LET k == req[r].key
        tokens == Refill(heap[k][req[r].ref], req[r].rule)
    IN  /\ req[r].pc = "holding"
        /\ heap' = [heap EXCEPT ![k][req[r].ref] =
                      [tokens |-> IF tokens < Cost THEN 0 ELSE tokens - Cost,
                       last |-> now]]
        /\ allowed' = [allowed EXCEPT ![k] = @ + 1]
        /\ overdrawn' = IF Orphaned(r) THEN [overdrawn EXCEPT ![k] = @ + 1]
                                       ELSE overdrawn
        /\ req' = [req EXCEPT ![r] = Idle]
        /\ UNCHANGED <<now, settings, gen, present, doomed, throttled>>

Spend(r) ==
    LET k == req[r].key
        tokens == Refill(heap[k][req[r].ref], req[r].rule)
        admit == tokens >= Cost
    IN  /\ req[r].pc = "holding"
        /\ heap' = [heap EXCEPT ![k][req[r].ref] =
                      [tokens |-> IF admit THEN tokens - Cost ELSE tokens,
                       last |-> now]]
        /\ \/ /\ admit
              /\ allowed' = [allowed EXCEPT ![k] = @ + 1]
              /\ overdrawn' = IF Orphaned(r)
                              THEN [overdrawn EXCEPT ![k] = @ + 1]
                              ELSE overdrawn
              /\ UNCHANGED throttled
           \/ /\ ~admit
              /\ throttled' = throttled \cup {k}
              /\ UNCHANGED <<allowed, overdrawn>>
        /\ req' = [req EXCEPT ![r] = Idle]
        /\ UNCHANGED <<now, settings, gen, present, doomed>>

\* sweep, for one key: the bucket has not been refilled for StaleAfter.
Stale(k) == now - heap[k][gen[k]].last > StaleAfter

SweepCheck(k) ==
    /\ doomed = NoKey /\ present[k] /\ gen[k] < MaxSweeps
    /\ Stale(k)
    /\ doomed' = k
    /\ UNCHANGED <<now, settings, gen, present, heap, req, allowed, overdrawn,
                   throttled>>

SweepDelete ==
    /\ doomed # NoKey
    /\ gen' = [gen EXCEPT ![doomed] = @ + 1]
    /\ present' = [present EXCEPT ![doomed] = FALSE]
    /\ doomed' = NoKey
    /\ UNCHANGED <<now, settings, heap, req, allowed, overdrawn, throttled>>

Tick(d) ==
    /\ now + d <= MaxTime
    /\ now' = now + d
    /\ UNCHANGED <<settings, gen, present, heap, doomed, req, allowed, overdrawn,
                   throttled>>

Next ==
    \/ \E k \in Key, rule \in Rule : SaveRateLimits(k, rule)
    \/ \E r \in Req : (\E k \in Key : RateLimit(r, k)) \/ Fetch(r) \/ Spend(r)
    \/ \E k \in Key : SweepCheck(k)
    \/ SweepDelete
    \/ \E d \in Delay : Tick(d)

Spec == Init /\ [][Next]_vars

-----------------------------------------------------------------------------
(* Properties.  MaxRpm and MaxBurst bound the rules an admin ever saves.     *)

CONSTANTS MaxRpm, MaxBurst, MinBurst

ASSUME RuleBounds ==
    /\ MaxRpm \in Nat /\ MaxBurst \in Nat /\ MinBurst \in Nat
    /\ \A rule \in Normal : rule.rpm > 0 => /\ rule.rpm <= MaxRpm
                                            /\ rule.burst \in MinBurst..MaxBurst

\* Every variable has its type; no bucket holds more than the largest burst or
\* was refilled in the future.
TypeOK ==
    /\ now \in Nat
    /\ settings \in [Key -> Normal]
    /\ gen \in [Key -> Gen] /\ present \in [Key -> BOOLEAN]
    /\ heap \in [Key -> [Gen -> Bucket]]
    /\ doomed \in Key \cup {NoKey}
    /\ req \in [Req -> Request]
    /\ allowed \in [Key -> Nat] /\ overdrawn \in [Key -> Nat]
    /\ throttled \subseteq Key
    /\ \A k \in Key, g \in Gen : /\ heap[k][g].tokens <= Cost * MaxBurst
                                 /\ heap[k][g].last <= now

\* The limit, for rules whose bucket refills within StaleAfter: what a key was
\* let through is at most one burst and the sustained rate since the start,
\* plus one request per handler for each time its bucket was swept away while
\* allow() was between its two sections.
RateEnvelope ==
    Cost * MaxBurst <= MaxRpm * StaleAfter =>
        \A k \in Key : Cost * allowed[k] <=
            Cost * MaxBurst + MaxRpm * now
              + Cost * Cardinality(Req) * (gen[k] + IF doomed = k THEN 1 ELSE 0)

\* No key is answered 429 before a whole burst of its requests went through,
\* whatever settings were saved meanwhile and whichever handler made the bucket.
BurstHonoured == \A k \in throttled : allowed[k] >= MinBurst

\* A bucket fills at the fixed rate up to its burst, so one burst and the
\* sustained rate bound what passes, with no request in flight at a sweep.
FixedRate ==
    \A k \in Key : overdrawn[k] = 0 =>
        Cost * allowed[k] <= Cost * MaxBurst + MaxRpm * now

=============================================================================
