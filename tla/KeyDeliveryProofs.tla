-------------------------- MODULE KeyDeliveryProofs --------------------------
(* Proofs about KeyDelivery when the gateway is the only process that works  *)
(* on the files (Proc = {"server"}), for any number of tokens, passwords,    *)
(* restarts, crashes and failed writes.                                      *)
EXTENDS KeyDelivery, TLAPS

\* No trace of a delivery of token i in memory, in the file or in a claim.
Gone(i) == /\ \A d \in deliveries["server"] : d.id # i
           /\ delFile # Corrupt => \A d \in delFile : d.id # i
           /\ claiming # i

\* Tokens that have not been minted are nowhere, and a token whose revocation
\* has reached the file is active neither there nor in memory.  Only a
\* running server is in the middle of CreateTokenHandler.
TokenInv ==
    /\ \A i \in Id : i \notin minted =>
          /\ tokens["server"][i].status = "absent"
          /\ tokFile # Corrupt => tokFile[i].status = "absent"
    /\ \A i \in acked \cup revoking["server"] :
          /\ i \in minted
          /\ tokens["server"][i].status # "active"
          /\ tokFile # Corrupt => tokFile[i].status # "active"
    /\ claimStale = FALSE /\ staleReveal = {}
    /\ creating # {} => up["server"]

\* A delivery exists only between its creation and its claim; the memory of a
\* server without master password and the file hold different deliveries.
DeliveryInv ==
    /\ \A i \in Id : /\ claimed[i] \in {0, 1}
                     /\ i \notin minted \/ i \in creating => claimed[i] = 0
                     /\ i \notin minted \/ i \in creating \/ claimed[i] = 1
                          => Gone(i)
    /\ ~Persistent("server") /\ delFile # Corrupt =>
          \A d \in deliveries["server"], e \in delFile : d.id # e.id
    /\ claiming # Nobody => \E d \in deliveries["server"] : d.id = claiming

KeyInv == TypeOK /\ TokenInv /\ DeliveryInv

-----------------------------------------------------------------------------
(* The shapes an action has to preserve, with one server.                    *)

LEMMA InitInv ==
    ASSUME Proc = {"server"}, Init
    PROVE  KeyInv
<1> USE KeyConstants DEF Init, NoTokens, Absent
<1>1. TypeOK
  BY DEF TypeOK, Token, Delivery, Forever
<1>2. TokenInv
  BY DEF TokenInv
<1>3. DeliveryInv
  BY DEF DeliveryInv, Gone
<1> QED  BY <1>1, <1>2, <1>3 DEF KeyInv

LEMMA StartInv ==
    ASSUME Proc = {"server"}, KeyInv, NEW pw \in Password \cup {NoPassword},
           Start("server", pw)
    PROVE  KeyInv'
<1> USE KeyConstants DEF Start, KeyInv
<1>1. NoTokens \in [Id -> Token] /\ \A i \in Id : NoTokens[i].status = "absent"
  BY DEF NoTokens, Absent, Token, Forever
<1>2. TypeOK'
  BY <1>1 DEF TypeOK, Unexpired
<1>3. TokenInv'
  BY <1>1 DEF TypeOK, TokenInv
<1>4. claiming = Nobody
  BY DEF DeliveryInv, TypeOK
<1>5. DeliveryInv'
  BY <1>4 DEF TypeOK, DeliveryInv, Gone, Unexpired, Persistent
<1> QED  BY <1>2, <1>3, <1>5

LEMMA StopInv ==
    ASSUME Proc = {"server"}, KeyInv, Stop("server")
    PROVE  KeyInv'
<1> USE KeyConstants DEF Stop, KeyInv
<1>1. NoTokens \in [Id -> Token] /\ \A i \in Id : NoTokens[i].status = "absent"
  BY DEF NoTokens, Absent, Token, Forever
<1>2. TypeOK'
  BY <1>1 DEF TypeOK
<1>3. TokenInv'
  BY <1>1 DEF TypeOK, TokenInv
<1>4. DeliveryInv'
  BY DEF TypeOK, DeliveryInv, Gone, Persistent
<1> QED  BY <1>2, <1>3, <1>4

LEMMA CreateTokenInv ==
    ASSUME Proc = {"server"}, KeyInv, NEW i \in Id, NEW exp \in Lifetime,
           CreateAPIToken("server", i, exp)
    PROVE  KeyInv'
<1> USE KeyConstants DEF CreateAPIToken, KeyInv, TokensNotSaved
<1>1. [status |-> "active", expires |-> exp] \in Token
  BY DEF Token, Forever
<1>2. TypeOK'
  BY <1>1 DEF TypeOK
<1>3. TokenInv'
  BY <1>1 DEF TypeOK, TokenInv
<1>4. DeliveryInv'
  BY DEF TypeOK, DeliveryInv, Gone, Persistent
<1> QED  BY <1>2, <1>3, <1>4

LEMMA ValidateInv ==
    ASSUME Proc = {"server"}, KeyInv, NEW i \in Id, ValidateAPIToken(i)
    PROVE  KeyInv'
<1> USE KeyConstants DEF ValidateAPIToken, KeyInv, TokensNotSaved
<1>1. TypeOK'
  BY DEF TypeOK
<1>2. TokenInv'
  BY DEF TypeOK, TokenInv
<1>3. DeliveryInv'
  BY DEF TypeOK, DeliveryInv, Gone, Persistent
<1> QED  BY <1>1, <1>2, <1>3

LEMMA RevokeTokenInv ==
    ASSUME Proc = {"server"}, KeyInv, NEW i \in Id, RevokeAPIToken("server", i)
    PROVE  KeyInv'
<1> USE KeyConstants DEF RevokeAPIToken, KeyInv, TokensNotSaved
<1> DEFINE t == [tokens["server"][i] EXCEPT !.status = "revoked"]
<1>a. t \in Token
  BY DEF TypeOK, Token
<1>b. tokens' = [tokens EXCEPT !["server"] = [tokens["server"] EXCEPT ![i] = t]]
  BY DEF TypeOK
<1>c. tokens' \in [Proc -> [Id -> Token]] /\ tokens'["server"] \in [Id -> Token]
  BY <1>a, <1>b DEF TypeOK
<1>d. /\ tokFile' \in [Id -> Token] \cup {Corrupt}
      /\ revoking' \in [Proc -> SUBSET Id]
  BY <1>c DEF TypeOK
<1>e. \A p \in Proc : ~up'[p] => tokens'[p] = NoTokens /\ deliveries'[p] = {}
  BY DEF TypeOK
<1> HIDE DEF t
<1>1. TypeOK'
  BY <1>c, <1>d, <1>e DEF TypeOK
<1>2. TokenInv'
  BY DEF TypeOK, TokenInv, Token
<1>3. DeliveryInv'
  BY DEF TypeOK, DeliveryInv, Gone, Persistent
<1> QED  BY <1>1, <1>2, <1>3

LEMMA RevokeDeliveriesInv ==
    ASSUME Proc = {"server"}, KeyInv, NEW i \in Id,
           RevokeDeliveries("server", i)
    PROVE  KeyInv'
<1> USE KeyConstants DEF RevokeDeliveries, KeyInv, DeliveriesSaved
<1>1. TypeOK'
  BY DEF TypeOK, TokenInv
<1>2. TokenInv'
  BY DEF TypeOK, TokenInv
<1>3. DeliveryInv'
  BY DEF TypeOK, DeliveryInv, Gone, Persistent
<1> QED  BY <1>1, <1>2, <1>3

LEMMA CreateDeliveryInv ==
    ASSUME Proc = {"server"}, KeyInv, NEW i \in Id, CreateDelivery(i)
    PROVE  KeyInv'
<1> USE KeyConstants
        DEF CreateDelivery, KeyInv, DeliveriesSaved, DeliveriesNotSaved, Unexpired
<1> DEFINE d == [id |-> i, key |-> DeliveryKey("server"),
                 expires |-> now + DeliveryTTL]
<1>a. d \in Delivery /\ up["server"]
  BY DEF TypeOK, TokenInv, Delivery, DeliveryKey, Persistent
<1>b. /\ deliveries' \in [Proc -> SUBSET Delivery]
      /\ delFile' \in (SUBSET Delivery) \cup {Corrupt}
  BY <1>a DEF TypeOK
<1>1. TypeOK'
  BY <1>a, <1>b DEF TypeOK
<1>2. TokenInv'
  BY DEF TypeOK, TokenInv
<1>3. DeliveryInv'
  BY DEF TypeOK, DeliveryInv, Gone, Persistent
<1> QED  BY <1>1, <1>2, <1>3

LEMMA ListInv ==
    ASSUME Proc = {"server"}, KeyInv, ListDeliveries
    PROVE  KeyInv'
<1> USE KeyConstants
        DEF ListDeliveries, KeyInv, SavedOrNot, DeliveriesSaved,
            DeliveriesNotSaved, Unexpired
<1>1. TypeOK'
  BY DEF TypeOK
<1>2. TokenInv'
  BY DEF TypeOK, TokenInv
<1>3. DeliveryInv'
  BY DEF TypeOK, DeliveryInv, Gone, Persistent
<1> QED  BY <1>1, <1>2, <1>3

LEMMA ClaimCheckInv ==
    ASSUME Proc = {"server"}, KeyInv, NEW d \in deliveries["server"],
           ClaimCheck(d)
    PROVE  KeyInv'
<1> USE KeyConstants
        DEF ClaimCheck, KeyInv, SavedOrNot, DeliveriesSaved,
            DeliveriesNotSaved, Unexpired
<1>1. d \in Delivery /\ d.id \in Id
  BY DEF TypeOK, Delivery
<1>2. d.id \in minted
  BY <1>1 DEF DeliveryInv, Gone
<1>b. /\ deliveries' \in [Proc -> SUBSET Delivery]
      /\ delFile' \in (SUBSET Delivery) \cup {Corrupt}
  BY <1>1 DEF TypeOK
<1>4. TokenInv'
  BY <1>1 DEF TypeOK, TokenInv, Usable
<1>c. claiming' \in minted \cup {Nobody}
  BY <1>2 DEF TypeOK
<1>d. claimStale' \in BOOLEAN
  BY <1>4 DEF TokenInv
<1>3. TypeOK'
  BY <1>b, <1>c, <1>d DEF TypeOK
<1>5. DeliveryInv'
  BY <1>1 DEF TypeOK, DeliveryInv, Gone, Persistent
<1> QED  BY <1>3, <1>4, <1>5

LEMMA ClaimFinishInv ==
    ASSUME Proc = {"server"}, KeyInv, ClaimFinish
    PROVE  KeyInv'
<1> USE KeyConstants DEF ClaimFinish, KeyInv, DeliveriesSaved
<1>1. claiming \in Id /\ claimed[claiming] = 0
  BY DEF TypeOK, DeliveryInv, Gone
<1>b. /\ deliveries' \in [Proc -> SUBSET Delivery]
      /\ delFile' \in (SUBSET Delivery) \cup {Corrupt}
      /\ ~up["server"] => deliveries'["server"] = {}
  BY DEF TypeOK
<1>c. claimed' \in [Id -> Nat]
  BY <1>1 DEF TypeOK
<1>d. staleReveal' = {}
  BY DEF TokenInv
<1>2. TypeOK'
  BY <1>b, <1>c, <1>d DEF TypeOK
<1>3. TokenInv'
  BY <1>d DEF TypeOK, TokenInv
<1>4. DeliveryInv'
  BY <1>1 DEF TypeOK, DeliveryInv, Gone, Persistent
<1> QED  BY <1>2, <1>3, <1>4

LEMMA StutterInv ==
    ASSUME Proc = {"server"}, KeyInv, Tick \/ UNCHANGED vars
    PROVE  KeyInv'
<1> USE KeyConstants DEF Tick, vars, KeyInv
<1>1. TypeOK'
  BY DEF TypeOK
<1>2. TokenInv'
  BY DEF TokenInv
<1>3. DeliveryInv'
  BY DEF DeliveryInv, Gone, Persistent
<1> QED  BY <1>1, <1>2, <1>3

LEMMA StepInv ==
    ASSUME Proc = {"server"}, KeyInv, [Next]_vars
    PROVE  KeyInv'
<1>1. CASE UNCHANGED vars
  BY <1>1, StutterInv
<1>2. CASE Next
  BY <1>2, StartInv, StopInv, CreateTokenInv, ValidateInv, RevokeTokenInv,
     RevokeDeliveriesInv, CreateDeliveryInv, ListInv, ClaimCheckInv,
     ClaimFinishInv, StutterInv DEF Next
<1> QED  BY <1>1, <1>2

-----------------------------------------------------------------------------

\* With the gateway as the only process, KeyInv is an invariant.
THEOREM KeyInvariant ==
    ASSUME Proc = {"server"}
    PROVE  Spec => []KeyInv
<1>1. Init => KeyInv
  BY InitInv
<1>2. KeyInv /\ [Next]_vars => KeyInv'
  BY StepInv
<1> QED  BY <1>1, <1>2, PTL DEF Spec

\* The maps, files and histories always have their types (TypeOK).
THEOREM KeyTypeCorrect ==
    ASSUME Proc = {"server"}
    PROVE  Spec => []TypeOK
<1>1. KeyInv => TypeOK
  BY DEF KeyInv
<1> QED  BY <1>1, KeyInvariant, PTL

\* ClaimPendingAPITokenDelivery reveals a raw key at most once, whatever
\* crashes, restarts, passwords and failed writes happen.
THEOREM KeyRevealedOnce ==
    ASSUME Proc = {"server"}
    PROVE  Spec => []ClaimedOnce
<1>1. KeyInv => ClaimedOnce
  BY DEF KeyInv, DeliveryInv, ClaimedOnce
<1> QED  BY <1>1, KeyInvariant, PTL

\* A token whose revocation was answered "ok" is never accepted again
\* (RevokeAPIToken saves before it answers).
THEOREM RevocationSticks ==
    ASSUME Proc = {"server"}
    PROVE  Spec => []RevokeSticks
<1>1. KeyInv => RevokeSticks
  BY DEF KeyInv, TokenInv, RevokeSticks, Usable
<1> QED  BY <1>1, KeyInvariant, PTL

\* No claim that starts after the answer to a revocation reveals the key.
THEOREM RevokedKeyStaysHidden ==
    ASSUME Proc = {"server"}
    PROVE  Spec => []NoRevealAfterRevoke
<1>1. KeyInv => NoRevealAfterRevoke
  BY DEF KeyInv, TokenInv, NoRevealAfterRevoke
<1> QED  BY <1>1, KeyInvariant, PTL

============================================================================
