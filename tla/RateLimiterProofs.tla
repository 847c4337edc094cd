-------------------------- MODULE RateLimiterProofs --------------------------
(* Proofs about RateLimiter for any number of handlers, keys, rules, sweeps  *)
(* and clock jumps.                                                          *)
EXTENDS RateLimiter, FiniteSetTheorems, TLAPS

\* The key's bucket is in the map and the sweeper has not given it up.
Live(k) == present[k] /\ doomed # k

\* The bucket object g of key k has been made.
Made(k, g) == g < gen[k] \/ (g = gen[k] /\ present[k])

\* Requests that will spend from a bucket already given up.
Orphans(k) == {r \in Req : /\ req[r].pc = "holding" /\ req[r].key = k
                           /\ Orphaned(r)}

Sweeps(k) == gen[k] + IF doomed = k THEN 1 ELSE 0

\* What a request carries from one section to the next.
RequestInv ==
    /\ doomed # NoKey => present[doomed] /\ gen[doomed] < MaxSweeps
    /\ \A r \in Req :
          /\ req[r].pc # "idle" => req[r].rule.rpm > 0
          /\ req[r].pc = "holding" => Made(req[r].key, req[r].ref)

\* A live bucket still holds what the key has not used of one burst and the
\* rate; a key without one has used no more than the rate alone gives.
PaidInv ==
    Cost * MaxBurst <= MaxRpm * StaleAfter =>
      \A k \in Key :
        /\ Live(k) => Cost * (allowed[k] - overdrawn[k]) + heap[k][gen[k]].tokens
                        <= Cost * MaxBurst + MaxRpm * heap[k][gen[k]].last
        /\ ~Live(k) => Cost * (allowed[k] - overdrawn[k]) <= MaxRpm * now

\* Each sweep of a key leaves at most every handler with an orphaned bucket.
OrphanInv ==
    \A k \in Key : overdrawn[k] + Cardinality(Orphans(k))
                     <= Cardinality(Req) * Sweeps(k)

\* A bucket lacks tokens of the smallest burst only for requests let through.
BurstInv ==
    /\ \A k \in Key, g \in Gen :
          Made(k, g) => heap[k][g].tokens + Cost * allowed[k] >= Cost * MinBurst
    /\ BurstHonoured

RateInv == TypeOK /\ RequestInv /\ PaidInv /\ OrphanInv /\ BurstInv

-----------------------------------------------------------------------------
(* Arithmetic, normalised rules and finite sets                              *)

LEMMA Monotone ==
    ASSUME NEW a \in Nat, NEW b \in Nat, NEW c \in Nat, a <= b
    PROVE  /\ a * c <= b * c /\ c * a <= c * b
           /\ a * c \in Nat /\ c * a \in Nat /\ c * b \in Nat
OBVIOUS

LEMMA NormalRule ==
    ASSUME NEW rule \in Normal
    PROVE  /\ rule.rpm \in Nat /\ rule.burst \in Nat
           /\ rule.rpm > 0 => rule.rpm <= MaxRpm /\ rule.burst >= MinBurst
                                /\ rule.burst <= MaxBurst
BY RateConstants, RuleBounds DEF Normal, NormalizeRateLimitRule

LEMMA SubsetCount ==
    ASSUME NEW S \in SUBSET Req
    PROVE  /\ IsFiniteSet(S) /\ Cardinality(S) \in Nat
           /\ Cardinality(S) <= Cardinality(Req) /\ Cardinality(Req) \in Nat
BY RateConstants, FS_Subset, FS_CardinalityType

\* A step after which no further request is orphaned, and nothing else counts.
LEMMA FewerOrphans ==
    ASSUME TypeOK, OrphanInv, NEW k \in Key, Orphans(k)' \subseteq Orphans(k),
           overdrawn'[k] = overdrawn[k], Sweeps(k)' = Sweeps(k)
    PROVE  (overdrawn[k] + Cardinality(Orphans(k))
              <= Cardinality(Req) * Sweeps(k))'
<1>1. Orphans(k) \in SUBSET Req /\ Orphans(k)' \in SUBSET Req
  BY DEF Orphans
<1>2. Cardinality(Orphans(k)') <= Cardinality(Orphans(k))
  BY <1>1, SubsetCount, FS_Subset
<1>3. /\ Cardinality(Orphans(k)') \in Nat /\ Cardinality(Orphans(k)) \in Nat
      /\ Cardinality(Req) \in Nat /\ overdrawn[k] \in Nat /\ Sweeps(k) \in Nat
  BY <1>1, SubsetCount DEF TypeOK, Sweeps, Gen
<1>4. overdrawn[k] + Cardinality(Orphans(k)) <= Cardinality(Req) * Sweeps(k)
  BY DEF OrphanInv
<1>5. Cardinality(Req) * Sweeps(k) \in Nat
  BY <1>3
<1> QED  BY <1>2, <1>3, <1>4, <1>5

\* The tokens after a refill: bounded by the burst, by the rate times the time
\* that has passed, and from below by what was there and the smallest burst.
LEMMA RefillBounds ==
    ASSUME now \in Nat, NEW b \in Bucket, b.last <= now, NEW rule \in Normal,
           rule.rpm > 0
    PROVE  /\ Refill(b, rule) \in Nat
           /\ Refill(b, rule) <= Cost * MaxBurst
           /\ Refill(b, rule) <= b.tokens + MaxRpm * now - MaxRpm * b.last
           /\ Refill(b, rule) >= b.tokens \/ Refill(b, rule) >= Cost * MinBurst
<1>1. /\ rule.rpm \in Nat /\ rule.burst \in Nat /\ rule.rpm <= MaxRpm
      /\ rule.burst >= MinBurst /\ rule.burst <= MaxBurst
  BY NormalRule
<1>2. b.tokens \in Nat /\ b.last \in Nat /\ now - b.last \in Nat
  BY DEF Bucket
<1>3. /\ (now - b.last) * rule.rpm <= (now - b.last) * MaxRpm
      /\ (now - b.last) * rule.rpm \in Nat
  BY <1>1, <1>2, RuleBounds, Monotone
<1>4. (now - b.last) * MaxRpm = MaxRpm * now - MaxRpm * b.last
  BY <1>2, RuleBounds
<1>5. MaxRpm * now \in Nat /\ MaxRpm * b.last \in Nat
  BY <1>2, RuleBounds
<1> DEFINE e == (now - b.last) * rule.rpm
<1>6. e \in Nat /\ e <= MaxRpm * now - MaxRpm * b.last
  BY <1>3, <1>4
<1>7. Refill(b, rule) = IF b.tokens + e > Cost * rule.burst
                        THEN Cost * rule.burst ELSE b.tokens + e
  BY DEF Refill
<1> HIDE DEF e
<1> QED  BY <1>1, <1>2, <1>5, <1>6, <1>7, RuleBounds DEF Cost

-----------------------------------------------------------------------------
(* One lemma per action                                                      *)

LEMMA InitInv == Init => RateInv
<1> SUFFICES ASSUME Init PROVE RateInv
  OBVIOUS
<1> USE RateConstants, RuleBounds DEF Init
<1>1. Idle \in Request
  BY DEF Idle, Request
<1>2. TypeOK
  BY <1>1 DEF TypeOK, Gen, Bucket, Cost
<1>3. RequestInv
  BY DEF RequestInv, Idle
<1>4. PaidInv
  BY DEF PaidInv, Live, Cost
<1>5. OrphanInv
  <2> SUFFICES ASSUME NEW k \in Key
               PROVE  overdrawn[k] + Cardinality(Orphans(k))
                        <= Cardinality(Req) * Sweeps(k)
    BY DEF OrphanInv
  <2>1. Orphans(k) = {}
    BY DEF Orphans, Idle
  <2>2. overdrawn[k] = 0 /\ Sweeps(k) = 0 /\ Cardinality(Orphans(k)) = 0
    BY <2>1, FS_EmptySet DEF Sweeps
  <2>3. Cardinality(Req) \in Nat
    BY SubsetCount
  <2> QED  BY <2>2, <2>3
<1>6. BurstInv
  BY DEF BurstInv, BurstHonoured, Made, Gen
<1> QED  BY <1>2, <1>3, <1>4, <1>5, <1>6 DEF RateInv

\* Steps that leave buckets, requests and counts alone.
LEMMA QuietInv ==
    ASSUME RateInv, settings' \in [Key -> Normal], now' \in Nat, now' >= now,
           UNCHANGED <<gen, present, heap, doomed, req, allowed, overdrawn,
                       throttled>>
    PROVE  RateInv'
<1> USE RateConstants, RuleBounds DEF RateInv
<1>1. TypeOK'
  BY DEF TypeOK, Bucket
<1>2. RequestInv'
  BY DEF RequestInv, Made
<1>3. PaidInv'
  <2> SUFFICES ASSUME Cost * MaxBurst <= MaxRpm * StaleAfter, NEW k \in Key,
                      ~Live(k)
               PROVE  Cost * (allowed[k] - overdrawn[k]) <= MaxRpm * now'
    BY DEF PaidInv, Live
  <2>1. Cost * (allowed[k] - overdrawn[k]) <= MaxRpm * now
    BY DEF PaidInv
  <2>a. now \in Nat /\ MaxRpm \in Nat
    BY DEF TypeOK
  <2>2. MaxRpm * now <= MaxRpm * now' /\ MaxRpm * now \in Nat
          /\ MaxRpm * now' \in Nat
    BY <2>a, Monotone
  <2>3. Cost * (allowed[k] - overdrawn[k]) \in Int
    BY DEF TypeOK, Cost
  <2> HIDE DEF Cost
  <2> QED  BY <2>1, <2>2, <2>3
<1>4. OrphanInv'
  <2>1. \A k \in Key : Orphans(k)' = Orphans(k)
    BY DEF Orphans, Orphaned
  <2> QED  BY <2>1 DEF OrphanInv, Sweeps
<1>5. BurstInv'
  BY DEF BurstInv, BurstHonoured, Made
<1> QED  BY <1>1, <1>2, <1>3, <1>4, <1>5

LEMMA RateLimitInv ==
    ASSUME RateInv, NEW r \in Req, NEW k \in Key, RateLimit(r, k)
    PROVE  RateInv'
<1> USE RateConstants, RuleBounds DEF RateInv, RateLimit
<1>1. [pc |-> "ruled", key |-> k, rule |-> settings[k]] \in Request
  BY DEF TypeOK, Request
<1>2. TypeOK'
  BY <1>1 DEF TypeOK
<1>3. RequestInv'
  BY DEF RequestInv, Made, TypeOK
<1>4. PaidInv'
  BY DEF PaidInv, Live
<1>5. OrphanInv'
  <2>1. \A j \in Key : Orphans(j)' = Orphans(j)
    BY DEF Orphans, Orphaned, TypeOK
  <2> QED  BY <2>1 DEF OrphanInv, Sweeps
<1>6. BurstInv'
  BY DEF BurstInv, BurstHonoured, Made
<1> QED  BY <1>2, <1>3, <1>4, <1>5, <1>6

\* The shapes of a request past its first and past its second step.
LEMMA RequestShape ==
    ASSUME RateInv, NEW r \in Req, req[r].pc # "idle"
    PROVE  /\ req[r].key \in Key /\ req[r].rule \in Normal
           /\ req[r].rule.rpm > 0
           /\ req[r].pc = "holding" => req[r].ref \in Gen
<1>1. req[r] \in Request
  BY DEF RateInv, TypeOK
<1>2. /\ req[r].key \in Key /\ req[r].rule \in Normal
      /\ req[r].pc = "holding" => req[r].ref \in Gen
  BY <1>1 DEF Request
<1> QED  BY <1>2 DEF RateInv, RequestInv

LEMMA FetchInv ==
    ASSUME RateInv, NEW r \in Req, Fetch(r)
    PROVE  RateInv'
<1> DEFINE k == req[r].key
           g == gen[k]
           new == [tokens |-> Cost * req[r].rule.burst, last |-> now]
<1> USE RateConstants, RuleBounds DEF RateInv
<1>1. /\ req[r].pc = "ruled" /\ doomed = NoKey
      /\ present' = [present EXCEPT ![k] = TRUE]
      /\ heap' = IF present[k] THEN heap ELSE [heap EXCEPT ![k][g] = new]
      /\ req' = [req EXCEPT ![r] = [pc |-> "holding", key |-> k,
                                    rule |-> req[r].rule, ref |-> g]]
      /\ UNCHANGED <<now, settings, gen, doomed, allowed, overdrawn, throttled>>
  BY DEF Fetch
<1>2. k \in Key /\ g \in Gen /\ req[r].rule \in Normal /\ req[r].rule.rpm > 0
  BY <1>1, RequestShape DEF TypeOK
<1>3. /\ new \in Bucket /\ new.last = now /\ new.tokens >= Cost * MinBurst
      /\ new.tokens <= Cost * MaxBurst
  BY <1>2, NormalRule DEF Bucket, Cost, TypeOK
<1>4. [pc |-> "holding", key |-> k, rule |-> req[r].rule, ref |-> g] \in Request
  BY <1>2 DEF Request
<1>5. \A j \in Key, h \in Gen :
         heap'[j][h] = IF j = k /\ h = g /\ ~present[k] THEN new ELSE heap[j][h]
  BY <1>1, <1>2 DEF TypeOK
<1>6. heap' \in [Key -> [Gen -> Bucket]]
  BY <1>1, <1>2, <1>3 DEF TypeOK
<1>7. \A j \in Key : present'[j] = (present[j] \/ j = k)
  BY <1>1 DEF TypeOK
<1> HIDE DEF k, g, new
<1>8. TypeOK'
  BY <1>1, <1>2, <1>3, <1>4, <1>5, <1>6 DEF TypeOK
<1>9. RequestInv'
  <2>1. \A q \in Req : q # r => req'[q] = req[q]
    BY <1>1 DEF TypeOK
  <2>2. /\ req'[r].pc = "holding" /\ req'[r].key = k /\ req'[r].ref = g
        /\ req'[r].rule = req[r].rule
    BY <1>1 DEF TypeOK
  <2>3. g = gen'[k] /\ present'[k]
    BY <1>1, <1>2, <1>7 DEF g
  <2>4. \A q \in Req : q # r /\ req[q].pc = "holding" =>
           Made(req[q].key, req[q].ref)'
    BY <1>1, <1>7, RequestShape DEF Made, RequestInv
  <2> QED  BY <1>1, <1>2, <2>1, <2>2, <2>3, <2>4 DEF RequestInv, Made
<1>10. PaidInv'
  <2> SUFFICES ASSUME Cost * MaxBurst <= MaxRpm * StaleAfter, NEW j \in Key
               PROVE  (/\ Live(j) => Cost * (allowed[j] - overdrawn[j])
                             + heap[j][gen[j]].tokens
                             <= Cost * MaxBurst + MaxRpm * heap[j][gen[j]].last
                       /\ ~Live(j) => Cost * (allowed[j] - overdrawn[j])
                                        <= MaxRpm * now)'
    BY DEF PaidInv
  <2>1. CASE j # k \/ present[k]
    BY <2>1, <1>1, <1>2, <1>5, <1>7 DEF PaidInv, Live, TypeOK
  <2>2. CASE j = k /\ ~present[k]
    <3>1. heap'[j][gen'[j]] = new
      BY <2>2, <1>1, <1>2, <1>5 DEF g
    <3>2. Cost * (allowed[j] - overdrawn[j]) <= MaxRpm * now
      BY <2>2, <1>2 DEF PaidInv, Live
    <3>3. Live(j)'
      BY <2>2, <1>1, <1>2, <1>7 DEF Live
    <3>4. new.tokens \in Nat
      BY <1>3 DEF Bucket
    <3> QED  BY <3>1, <3>2, <3>3, <3>4, <1>1, <1>3 DEF TypeOK, Cost
  <2> QED  BY <2>1, <2>2
<1>11. OrphanInv'
  <2> SUFFICES ASSUME NEW j \in Key
               PROVE  (overdrawn[j] + Cardinality(Orphans(j))
                         <= Cardinality(Req) * Sweeps(j))'
    BY DEF OrphanInv
  <2>1. ~Orphaned(r)'
    BY <1>1, <1>2, <1>7 DEF Orphaned, TypeOK, g
  <2>2. Orphans(j)' \subseteq Orphans(j)
    BY <2>1, <1>1, <1>7, RequestShape DEF Orphans, Orphaned, TypeOK
  <2> QED  BY <2>2, <1>1, FewerOrphans DEF Sweeps
<1>12. BurstInv'
  <2> SUFFICES ASSUME NEW j \in Key, NEW h \in Gen, Made(j, h)'
               PROVE  (heap[j][h].tokens + Cost * allowed[j]
                         >= Cost * MinBurst)'
    BY <1>1 DEF BurstInv, BurstHonoured
  <2>1. CASE j = k /\ h = g /\ ~present[k]
    BY <2>1, <1>1, <1>3, <1>5 DEF TypeOK, Cost, Bucket
  <2>2. CASE ~(j = k /\ h = g /\ ~present[k])
    BY <2>2, <1>1, <1>2, <1>5, <1>7 DEF BurstInv, Made, g
  <2> QED  BY <2>1, <2>2
<1> QED  BY <1>8, <1>9, <1>10, <1>11, <1>12

LEMMA SpendInv ==
    ASSUME RateInv, NEW r \in Req, Spend(r)
    PROVE  RateInv'
<1> DEFINE k == req[r].key
           g == req[r].ref
           b == heap[k][g]
           tokens == Refill(b, req[r].rule)
           admit == tokens >= Cost
           new == [tokens |-> IF admit THEN tokens - Cost ELSE tokens,
                   last |-> now]
<1> USE RateConstants, RuleBounds DEF RateInv
<1>1. /\ req[r].pc = "holding"
      /\ heap' = [heap EXCEPT ![k][g] = new]
      /\ req' = [req EXCEPT ![r] = Idle]
      /\ UNCHANGED <<now, settings, gen, present, doomed>>
  BY DEF Spend
<1>2. \/ /\ admit /\ allowed' = [allowed EXCEPT ![k] = @ + 1]
         /\ overdrawn' = IF Orphaned(r) THEN [overdrawn EXCEPT ![k] = @ + 1]
                                        ELSE overdrawn
         /\ UNCHANGED throttled
      \/ /\ ~admit /\ throttled' = throttled \cup {k}
         /\ UNCHANGED <<allowed, overdrawn>>
  BY DEF Spend
<1>3. k \in Key /\ g \in Gen /\ req[r].rule \in Normal /\ req[r].rule.rpm > 0
  BY <1>1, RequestShape
<1>4. b \in Bucket /\ b.last <= now /\ now \in Nat
  BY <1>3 DEF TypeOK
<1>5. /\ tokens \in Nat /\ tokens <= Cost * MaxBurst
      /\ tokens <= b.tokens + MaxRpm * now - MaxRpm * b.last
      /\ tokens >= b.tokens \/ tokens >= Cost * MinBurst
  BY <1>3, <1>4, RefillBounds
<1> HIDE DEF tokens
<1>a. /\ new.last = now
      /\ new.tokens = IF admit THEN tokens - Cost ELSE tokens
  OBVIOUS
<1>b. (IF admit THEN tokens - Cost ELSE tokens) \in 0..(Cost * MaxBurst)
  BY <1>5 DEF Cost
<1>6. /\ new \in Bucket /\ new.last = now /\ new.tokens <= Cost * MaxBurst
      /\ new.tokens = IF admit THEN tokens - Cost ELSE tokens
  BY <1>a, <1>b, <1>4 DEF Bucket, Cost
<1>7. \A j \in Key, h \in Gen :
         heap'[j][h] = IF j = k /\ h = g THEN new ELSE heap[j][h]
  BY <1>1, <1>3 DEF TypeOK
<1>8. heap' \in [Key -> [Gen -> Bucket]]
  BY <1>1, <1>3, <1>6 DEF TypeOK
<1>9. /\ \A j \in Key : j # k => allowed'[j] = allowed[j]
                                 /\ overdrawn'[j] = overdrawn[j]
      /\ allowed'[k] = IF admit THEN allowed[k] + 1 ELSE allowed[k]
      /\ overdrawn'[k] = IF admit /\ Orphaned(r) THEN overdrawn[k] + 1
                                                  ELSE overdrawn[k]
      /\ allowed' \in [Key -> Nat] /\ overdrawn' \in [Key -> Nat]
      /\ \A j \in Key : allowed'[j] >= allowed[j]
  <2> HIDE DEF k, admit
  <2>0. allowed \in [Key -> Nat] /\ overdrawn \in [Key -> Nat] /\ k \in Key
    BY <1>3 DEF TypeOK
  <2>1. CASE ~admit
    <3>1. allowed' = allowed /\ overdrawn' = overdrawn
      BY <2>1, <1>2
    <3> QED  BY <2>0, <2>1, <3>1
  <2>2. CASE admit /\ Orphaned(r)
    <3>1. /\ allowed' = [allowed EXCEPT ![k] = @ + 1]
          /\ overdrawn' = [overdrawn EXCEPT ![k] = @ + 1]
      BY <2>2, <1>2
    <3> QED  BY <2>0, <2>2, <3>1
  <2>3. CASE admit /\ ~Orphaned(r)
    <3>1. /\ allowed' = [allowed EXCEPT ![k] = @ + 1]
          /\ overdrawn' = overdrawn
      BY <2>3, <1>2
    <3> QED  BY <2>0, <2>3, <3>1
  <2> QED  BY <2>1, <2>2, <2>3
<1>10. /\ \A q \in Req : q # r => req'[q] = req[q]
       /\ req'[r] = Idle /\ req'[r].pc = "idle" /\ req' \in [Req -> Request]
  BY <1>1 DEF TypeOK, Idle, Request
<1>11. throttled' \subseteq Key
  BY <1>2, <1>3 DEF TypeOK
<1> HIDE DEF k, g, b, admit, new
<1>12. TypeOK'
  BY <1>1, <1>3, <1>6, <1>7, <1>8, <1>9, <1>10, <1>11 DEF TypeOK
<1>13. RequestInv'
  BY <1>1, <1>10 DEF RequestInv, Made
<1>14. PaidInv'
  <2> SUFFICES ASSUME Cost * MaxBurst <= MaxRpm * StaleAfter, NEW j \in Key
               PROVE  (/\ Live(j) => Cost * (allowed[j] - overdrawn[j])
                             + heap[j][gen[j]].tokens
                             <= Cost * MaxBurst + MaxRpm * heap[j][gen[j]].last
                       /\ ~Live(j) => Cost * (allowed[j] - overdrawn[j])
                                        <= MaxRpm * now)'
    BY DEF PaidInv
  <2>1. gen[j] \in Gen /\ gen'[j] = gen[j] /\ now' = now
    BY <1>1 DEF TypeOK
  <2>2. Live(j)' <=> Live(j)
    BY <1>1 DEF Live
  <2>3. /\ Live(j) => Cost * (allowed[j] - overdrawn[j]) + heap[j][gen[j]].tokens
                        <= Cost * MaxBurst + MaxRpm * heap[j][gen[j]].last
        /\ ~Live(j) => Cost * (allowed[j] - overdrawn[j]) <= MaxRpm * now
    BY DEF PaidInv
  <2>4. CASE j = k /\ Live(k) /\ g = gen[k]
    <3>1. ~Orphaned(r)
      BY <2>4 DEF Orphaned, Live, k, g
    <3>2. heap'[j][gen'[j]] = new /\ heap[j][gen[j]] = b
      BY <2>1, <2>4, <1>7 DEF b
    <3>3. Cost * (allowed[k] - overdrawn[k]) + b.tokens
            <= Cost * MaxBurst + MaxRpm * b.last
      BY <2>3, <2>4, <3>2
    <3>4. MaxRpm * b.last \in Nat /\ MaxRpm * now \in Nat /\ b.tokens \in Nat
      BY <1>4 DEF Bucket
    <3>5. allowed[k] \in Nat /\ overdrawn[k] \in Nat
      BY <1>3 DEF TypeOK
    <3>6. Cost * (allowed'[k] - overdrawn'[k]) + new.tokens
            <= Cost * MaxBurst + MaxRpm * now
      BY <3>1, <3>3, <3>4, <3>5, <1>5, <1>6, <1>9 DEF Cost
    <3> QED  BY <2>1, <2>2, <2>4, <3>2, <3>6, <1>6
  <2>5. CASE j = k /\ ~(Live(k) /\ g = gen[k])
    <3>1. Orphaned(r)
      BY <2>5 DEF Orphaned, Live, k, g
    <3>2. allowed'[k] - overdrawn'[k] = allowed[k] - overdrawn[k]
      BY <3>1, <1>3, <1>9 DEF TypeOK
    <3>3. Live(j) => heap'[j][gen'[j]] = heap[j][gen[j]]
      BY <2>1, <2>5, <1>7
    <3> QED  BY <2>1, <2>2, <2>3, <2>5, <3>2, <3>3
  <2>6. CASE j # k
    BY <2>1, <2>2, <2>3, <2>6, <1>7, <1>9
  <2> QED  BY <2>4, <2>5, <2>6
<1>15. OrphanInv'
  <2> SUFFICES ASSUME NEW j \in Key
               PROVE  (overdrawn[j] + Cardinality(Orphans(j))
                         <= Cardinality(Req) * Sweeps(j))'
    BY DEF OrphanInv
  <2>1. Orphans(j)' = Orphans(j) \ {r}
    BY <1>1, <1>10 DEF Orphans, Orphaned
  <2>2. Sweeps(j)' = Sweeps(j)
    BY <1>1 DEF Sweeps
  <2>3. CASE overdrawn'[j] = overdrawn[j]
    BY <2>1, <2>2, <2>3, FewerOrphans
  <2>4. CASE overdrawn'[j] # overdrawn[j]
    <3>1. j = k /\ Orphaned(r) /\ overdrawn'[j] = overdrawn[j] + 1
      BY <2>4, <1>9
    <3>2. r \in Orphans(j)
      BY <3>1, <1>1 DEF Orphans, k
    <3>3. Orphans(j) \in SUBSET Req
      BY DEF Orphans
    <3>4. Cardinality(Orphans(j)') = Cardinality(Orphans(j)) - 1
      BY <2>1, <3>2, <3>3, SubsetCount, FS_RemoveElement
    <3>5. /\ Cardinality(Orphans(j)) \in Nat /\ overdrawn[j] \in Nat
          /\ overdrawn[j] + Cardinality(Orphans(j))
               <= Cardinality(Req) * Sweeps(j)
      BY <3>3, SubsetCount DEF OrphanInv, TypeOK
    <3>6. overdrawn'[j] + Cardinality(Orphans(j)')
            = overdrawn[j] + Cardinality(Orphans(j))
      BY <3>1, <3>4, <3>5
    <3> QED  BY <3>5, <3>6, <2>2
  <2> QED  BY <2>3, <2>4
<1>16. BurstInv'
  <2>1. \A j \in Key : allowed[j] \in Nat /\ allowed'[j] \in Nat
                         /\ allowed'[j] >= allowed[j]
    BY <1>3, <1>9 DEF TypeOK
  <2>a. Made(k, g)
    BY <1>1 DEF RequestInv, k, g
  <2>2. b.tokens + Cost * allowed[k] >= Cost * MinBurst /\ b.tokens \in Nat
    BY <2>a, <1>3, <1>4 DEF BurstInv, b, Bucket
  <2>3. tokens + Cost * allowed[k] >= Cost * MinBurst
    BY <2>1, <2>2, <1>3, <1>5 DEF Cost
  <2>4. new.tokens + Cost * allowed'[k] >= Cost * MinBurst
    BY <2>1, <2>3, <1>3, <1>5, <1>6, <1>9 DEF Cost
  <2>5. ASSUME NEW j \in Key, NEW h \in Gen, Made(j, h)'
        PROVE  (heap[j][h].tokens + Cost * allowed[j] >= Cost * MinBurst)'
    <3>1. CASE j = k /\ h = g
      BY <3>1, <2>4, <1>7
    <3>2. CASE ~(j = k /\ h = g)
      <4>1. heap[j][h].tokens + Cost * allowed[j] >= Cost * MinBurst
        BY <2>5, <1>1 DEF BurstInv, Made
      <4>2. heap[j][h].tokens \in Nat
        BY DEF TypeOK, Bucket
      <4>3. heap'[j][h] = heap[j][h]
        BY <3>2, <1>7
      <4> QED  BY <4>1, <4>2, <4>3, <2>1 DEF Cost
    <3> QED  BY <3>1, <3>2
  <2>6. ~admit => allowed[k] >= MinBurst
    BY <2>1, <2>3, <1>3, <1>5 DEF admit, Cost
  <2>7. BurstHonoured'
    <3>1. ASSUME NEW j \in throttled'  PROVE allowed'[j] >= MinBurst
      <4>1. CASE j \in throttled
        BY <4>1, <2>1 DEF BurstInv, BurstHonoured, TypeOK
      <4>2. CASE j \notin throttled
        BY <4>2, <3>1, <2>1, <2>6, <1>2, <1>3
      <4> QED  BY <4>1, <4>2
    <3> QED  BY <3>1 DEF BurstHonoured
  <2> QED  BY <2>5, <2>7 DEF BurstInv
<1> QED  BY <1>12, <1>13, <1>14, <1>15, <1>16

LEMMA SweepCheckInv ==
    ASSUME RateInv, NEW k \in Key, SweepCheck(k)
    PROVE  RateInv'
<1> DEFINE b == heap[k][gen[k]]
<1> USE RateConstants, RuleBounds DEF RateInv
<1>1. /\ doomed = NoKey /\ present[k] /\ gen[k] < MaxSweeps
      /\ now - b.last > StaleAfter /\ doomed' = k
      /\ UNCHANGED <<now, settings, gen, present, heap, req, allowed, overdrawn,
                     throttled>>
  BY DEF SweepCheck, Stale
<1>2. b \in Bucket /\ gen[k] \in Nat /\ k # NoKey
  BY DEF TypeOK, Gen
<1>3. TypeOK'
  BY <1>1 DEF TypeOK
<1>4. RequestInv'
  BY <1>1 DEF RequestInv, Made
<1>5. PaidInv'
  <2> SUFFICES ASSUME Cost * MaxBurst <= MaxRpm * StaleAfter
               PROVE  Cost * (allowed[k] - overdrawn[k]) <= MaxRpm * now
    BY <1>1 DEF PaidInv, Live
  <2>1. Cost * (allowed[k] - overdrawn[k]) + b.tokens
          <= Cost * MaxBurst + MaxRpm * b.last
    BY <1>1, <1>2 DEF PaidInv, Live
  <2>2. /\ b.tokens \in Nat /\ b.last \in Nat /\ now \in Nat
        /\ allowed[k] \in Nat /\ overdrawn[k] \in Nat
    BY <1>2 DEF TypeOK, Bucket
  <2>3. MaxRpm * StaleAfter <= MaxRpm * (now - b.last)
    BY <2>2, <1>1, Monotone
  <2>4. MaxRpm * (now - b.last) = MaxRpm * now - MaxRpm * b.last
    BY <2>2
  <2>5. MaxRpm * now \in Nat /\ MaxRpm * b.last \in Nat
          /\ MaxRpm * StaleAfter \in Nat
    BY <2>2
  <2> QED  BY <2>1, <2>2, <2>3, <2>4, <2>5 DEF Cost
<1>6. OrphanInv'
  <2> SUFFICES ASSUME NEW j \in Key
               PROVE  (overdrawn[j] + Cardinality(Orphans(j))
                         <= Cardinality(Req) * Sweeps(j))'
    BY DEF OrphanInv
  <2>1. CASE j # k
    <3>1. Orphans(j)' = Orphans(j) /\ Sweeps(j)' = Sweeps(j)
      BY <2>1, <1>1 DEF Orphans, Orphaned, Sweeps
    <3> QED  BY <3>1, <1>1 DEF OrphanInv
  <2>2. CASE j = k
    <3>1. Orphans(k) \in SUBSET Req /\ Orphans(k)' \in SUBSET Req
      BY DEF Orphans
    <3>2. /\ Cardinality(Orphans(k)) \in Nat /\ Cardinality(Orphans(k)') \in Nat
          /\ Cardinality(Orphans(k)') <= Cardinality(Req)
          /\ Cardinality(Req) \in Nat
      BY <3>1, SubsetCount
    <3>3. Sweeps(k) = gen[k] /\ Sweeps(k)' = gen[k] + 1
      BY <1>1, <1>2 DEF Sweeps
    <3>4. /\ overdrawn[k] + Cardinality(Orphans(k)) <= Cardinality(Req) * gen[k]
          /\ overdrawn[k] \in Nat
      BY <3>3 DEF OrphanInv, TypeOK
    <3>5. Cardinality(Req) * (gen[k] + 1) = Cardinality(Req) * gen[k]
            + Cardinality(Req)
      BY <3>2, <1>2
    <3>6. Cardinality(Req) * gen[k] \in Nat
      BY <3>2, <1>2
    <3> QED  BY <2>2, <3>2, <3>3, <3>4, <3>5, <3>6, <1>1
  <2> QED  BY <2>1, <2>2
<1>7. BurstInv'
  BY <1>1 DEF BurstInv, BurstHonoured, Made
<1> QED  BY <1>3, <1>4, <1>5, <1>6, <1>7

LEMMA SweepDeleteInv ==
    ASSUME RateInv, SweepDelete
    PROVE  RateInv'
<1> USE RateConstants, RuleBounds DEF RateInv
<1>1. PICK k \in Key : k = doomed
  BY DEF SweepDelete, TypeOK
<1>2. /\ present[k] /\ gen[k] < MaxSweeps /\ doomed' = NoKey
      /\ gen' = [gen EXCEPT ![k] = @ + 1]
      /\ present' = [present EXCEPT ![k] = FALSE]
      /\ UNCHANGED <<now, settings, heap, req, allowed, overdrawn, throttled>>
  BY <1>1 DEF SweepDelete, RequestInv
<1>3. /\ \A j \in Key : j # k => gen'[j] = gen[j] /\ present'[j] = present[j]
      /\ gen'[k] = gen[k] + 1 /\ present'[k] = FALSE /\ gen[k] \in Nat
      /\ gen' \in [Key -> Gen]
  BY <1>2 DEF TypeOK, Gen
<1>4. TypeOK'
  BY <1>2, <1>3 DEF TypeOK
<1>5. RequestInv'
  <2>1. \A r \in Req : req[r].pc = "holding" =>
           Made(req[r].key, req[r].ref)'
    <3> SUFFICES ASSUME NEW r \in Req, req[r].pc = "holding"
                 PROVE  Made(req[r].key, req[r].ref)'
      OBVIOUS
    <3>1. req[r].key \in Key /\ req[r].ref \in Nat
             /\ Made(req[r].key, req[r].ref)
      BY RequestShape DEF RequestInv, Gen
    <3> QED  BY <3>1, <1>2, <1>3 DEF Made, TypeOK, Gen
  <2> QED  BY <2>1, <1>2 DEF RequestInv
<1>6. PaidInv'
  <2>1. \A j \in Key : Live(j)' <=> Live(j)
    BY <1>1, <1>2, <1>3 DEF Live
  <2>2. \A j \in Key : Live(j) => gen'[j] = gen[j]
    BY <1>1, <1>3 DEF Live
  <2> QED  BY <2>1, <2>2, <1>2 DEF PaidInv
<1>7. OrphanInv'
  <2> SUFFICES ASSUME NEW j \in Key
               PROVE  (overdrawn[j] + Cardinality(Orphans(j))
                         <= Cardinality(Req) * Sweeps(j))'
    BY DEF OrphanInv
  <2>1. Orphans(j)' \subseteq Orphans(j)
    <3> SUFFICES ASSUME NEW r \in Req, req[r].pc = "holding", req[r].key = j,
                        Orphaned(r)'
                 PROVE  Orphaned(r)
      BY <1>2 DEF Orphans
    <3> QED  BY <1>1, <1>2, <1>3 DEF Orphaned
  <2>2. Sweeps(j)' = Sweeps(j)
    BY <1>1, <1>2, <1>3 DEF Sweeps, TypeOK, Gen
  <2> QED  BY <2>1, <2>2, <1>2, FewerOrphans
<1>8. BurstInv'
  <2>1. \A j \in Key, h \in Gen : Made(j, h)' => Made(j, h)
    BY <1>2, <1>3 DEF Made, Gen
  <2> QED  BY <2>1, <1>2 DEF BurstInv, BurstHonoured
<1> QED  BY <1>4, <1>5, <1>6, <1>7, <1>8

LEMMA StepInv ==
    ASSUME RateInv, [Next]_vars
    PROVE  RateInv'
<1> USE RateConstants
<1>0. settings \in [Key -> Normal] /\ now \in Nat
  BY DEF RateInv, TypeOK
<1>1. CASE UNCHANGED vars
  BY <1>0, <1>1, QuietInv DEF vars
<1>2. ASSUME NEW k \in Key, NEW rule \in Rule, SaveRateLimits(k, rule)
      PROVE  RateInv'
  <2>1. NormalizeRateLimitRule(rule) \in Normal
    BY DEF Normal
  <2>2. settings' \in [Key -> Normal]
    BY <1>0, <1>2, <2>1 DEF SaveRateLimits
  <2> QED  BY <1>0, <1>2, <2>2, QuietInv DEF SaveRateLimits
<1>3. ASSUME NEW d \in Delay, Tick(d)
      PROVE  RateInv'
  <2>1. now' \in Nat /\ now' >= now
    BY <1>0, <1>3 DEF Tick
  <2> QED  BY <1>0, <1>3, <2>1, QuietInv DEF Tick
<1> QED  BY <1>1, <1>2, <1>3, RateLimitInv, FetchInv, SpendInv, SweepCheckInv,
            SweepDeleteInv DEF Next

-----------------------------------------------------------------------------

\* RateInv is an invariant of the limiter.
THEOREM RateInvariant == Spec => []RateInv
<1>1. RateInv /\ [Next]_vars => RateInv'
  BY StepInv
<1> QED  BY <1>1, InitInv, PTL DEF Spec

\* Buckets never hold more than the largest burst, nor anything ill-typed.
THEOREM RateTypeCorrect == Spec => []TypeOK
<1>1. RateInv => TypeOK
  BY DEF RateInv
<1> QED  BY <1>1, RateInvariant, PTL

\* allow() lets through at most one burst, the sustained rate, and one request
\* per handler and sweep, for every choice of rules that refill in StaleAfter.
THEOREM RateIsLimited == Spec => []RateEnvelope
<1>1. RateInv => RateEnvelope
  <2> SUFFICES ASSUME RateInv, Cost * MaxBurst <= MaxRpm * StaleAfter,
                      NEW k \in Key
               PROVE  Cost * allowed[k] <= Cost * MaxBurst + MaxRpm * now
                        + Cost * Cardinality(Req)
                            * (gen[k] + IF doomed = k THEN 1 ELSE 0)
    BY DEF RateEnvelope
  <2> USE RateConstants, RuleBounds DEF RateInv
  <2>a. heap[k][gen[k]] \in Bucket /\ heap[k][gen[k]].last <= now
    BY DEF TypeOK
  <2>b. gen[k] \in Nat
    BY DEF TypeOK, Gen
  <2>1. /\ now \in Nat /\ allowed[k] \in Nat /\ overdrawn[k] \in Nat
        /\ Sweeps(k) \in Nat /\ gen[k] \in Gen
        /\ heap[k][gen[k]].tokens \in Nat /\ heap[k][gen[k]].last \in Nat
        /\ heap[k][gen[k]].last <= now
    BY <2>a, <2>b DEF TypeOK, Sweeps, Bucket
  <2>2. /\ MaxRpm * heap[k][gen[k]].last <= MaxRpm * now
        /\ MaxRpm * heap[k][gen[k]].last \in Nat /\ MaxRpm * now \in Nat
    BY <2>1, Monotone
  <2>3. Cost * (allowed[k] - overdrawn[k]) <= Cost * MaxBurst + MaxRpm * now
    BY <2>1, <2>2 DEF PaidInv, Cost
  <2>4. overdrawn[k] <= Cardinality(Req) * Sweeps(k)
    <3>1. Orphans(k) \in SUBSET Req
      BY DEF Orphans
    <3>2. Cardinality(Orphans(k)) \in Nat /\ Cardinality(Req) \in Nat
      BY <3>1, SubsetCount
    <3>3. Cardinality(Req) * Sweeps(k) \in Nat
      BY <3>2, <2>1
    <3> QED  BY <2>1, <3>2, <3>3 DEF OrphanInv
  <2>5. Cardinality(Req) \in Nat
    BY SubsetCount
  <2> DEFINE extra == Cardinality(Req) * Sweeps(k)
  <2>6. extra \in Nat /\ overdrawn[k] <= extra
    BY <2>1, <2>4, <2>5
  <2>7. Cost * Cardinality(Req) * Sweeps(k) = Cost * extra
    BY <2>1, <2>5 DEF Cost
  <2> HIDE DEF extra
  <2>8. Cost * allowed[k] <= Cost * MaxBurst + MaxRpm * now + Cost * extra
    BY <2>1, <2>2, <2>3, <2>6 DEF Cost
  <2> QED  BY <2>7, <2>8 DEF Sweeps
<1> QED  BY <1>1, RateInvariant, PTL

\* No key is throttled before its burst was let through.
THEOREM BurstIsHonoured == Spec => []BurstHonoured
<1>1. RateInv => BurstHonoured
  BY DEF RateInv, BurstInv
<1> QED  BY <1>1, RateInvariant, PTL

=============================================================================
