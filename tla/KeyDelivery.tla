----------------------------- MODULE KeyDelivery -----------------------------
(***************************************************************************)
(* API tokens and the one-time delivery of their raw keys in persistent    *)
(* mode (config/apitokens.go, config/token_deliveries.go and the handlers  *)
(* that call them).  Both stores are maps in memory, each behind its own   *)
(* mutex and each rewritten as a whole to its JSON file on every change.   *)
(* os.WriteFile truncates before it writes, so a write that fails leaves   *)
(* the old file or an unreadable one.                                      *)
(*                                                                         *)
(* Proc is {"server"}, or {"server", "cli"} when the command line tool is  *)
(* used beside a running gateway: it is a process with its own copy of     *)
(* both maps, working on the same files.                                   *)
(*                                                                         *)
(* CreateTokenHandler makes one delivery for one token, so one identifier  *)
(* stands for both.  The owner of a delivery is the user of its token;     *)
(* requests of other users are answered "not found" and are left out.      *)
(***************************************************************************)
EXTENDS Integers, FiniteSets

CONSTANTS
    Proc, Id, Password, NoPassword, Nobody,
    Corrupt,            \* the content of a file json.Unmarshal refuses
    DeliveryTTL,        \* 24 h
    Lifetime,           \* the ExpiresAt values an admin may give a token
    MaxTime, MaxBoots   \* bounds of the instance

Forever == -1

ASSUME KeyConstants ==
    /\ "server" \in Proc /\ Proc \subseteq {"server", "cli"}
    /\ NoPassword \notin Password /\ Nobody \notin Id
    /\ Password \cap Nat = {} /\ NoPassword \notin Nat
    /\ Lifetime \subseteq Nat \cup {Forever}
    /\ DeliveryTTL \in Nat /\ MaxTime \in Nat /\ MaxBoots \in Nat

VARIABLES
    now,
    up, master, boots,      \* per process: running, its master password, and
                            \* the number of starts, which names the random
                            \* key a server without master password draws
    tokens, tokFile,        \* apiTokenData of each process; api-tokens.json
    deliveries, delFile,    \* pendingTokenDeliveryData; its file
    minted,                 \* token ids drawn so far
    creating,               \* CreateTokenHandler between its two calls
    revoking,               \* RevokeAPIToken between its two locks, per process
    claiming, claimStale,   \* the claim that holds the delivery lock, and
                            \* whether its token's revocation was answered
                            \* before the claim began
    acked,                  \* history: ids whose revocation was answered "ok"
    claimed,                \* history: how often each raw key was revealed
    staleReveal             \* history: keys revealed by a stale claim

vars == <<now, up, master, boots, tokens, tokFile, deliveries, delFile, minted,
          creating, revoking, claiming, claimStale, acked, claimed, staleReveal>>

Absent == [status |-> "absent", expires |-> Forever]
Token == [status : {"absent", "active", "revoked"}, expires : Nat \cup {Forever}]
Delivery == [id : Id, key : Password \cup Nat, expires : Nat]
NoTokens == [i \in Id |-> Absent]

Init ==
    /\ now = 0
    /\ up = [p \in Proc |-> FALSE]
    /\ master = [p \in Proc |-> NoPassword]
    /\ boots = [p \in Proc |-> 0]
    /\ tokens = [p \in Proc |-> NoTokens] /\ tokFile = NoTokens
    /\ deliveries = [p \in Proc |-> {}] /\ delFile = {}
    /\ minted = {} /\ creating = {}
    /\ revoking = [p \in Proc |-> {}]
    /\ claiming = Nobody /\ claimStale = FALSE
    /\ acked = {} /\ claimed = [i \in Id |-> 0] /\ staleReveal = {}

-----------------------------------------------------------------------------
(* Files *)

\* pendingDeliveryPersistenceEnabled: without a master password deliveries
\* live in memory only.
Persistent(p) == master[p] # NoPassword

\* pendingTokenDeliveryKey
DeliveryKey(p) == IF Persistent(p) THEN master[p] ELSE boots[p]

Unexpired(ds) == {d \in ds : now <= d.expires}

\* A failed write leaves the file as it was or truncated.
TokensNotSaved == tokFile' \in {tokFile, Corrupt}

\* savePendingAPITokenDeliveriesLocked of process p succeeds or fails; a purge
\* that removed something has tried to save before, its error ignored.
DeliveriesSaved(p, ds) == delFile' = IF Persistent(p) THEN ds ELSE delFile
DeliveriesNotSaved(p) ==
    /\ Persistent(p)
    /\ \/ delFile' \in {delFile, Corrupt}
       \/ /\ Unexpired(deliveries[p]) # deliveries[p]
          /\ delFile' = Unexpired(deliveries[p])
SavedOrNot(p, ds) == DeliveriesSaved(p, ds) \/ DeliveriesNotSaved(p)

-----------------------------------------------------------------------------
(* A process starts (ReloadRuntime) and stops, at any point. *)

\* LoadAPITokens empties the map first; an unreadable file ends ReloadRuntime,
\* so the deliveries are then not read either.  The server starts regardless.
Start(p, pw) ==
    /\ ~up[p] /\ boots[p] < MaxBoots
    /\ up' = [up EXCEPT ![p] = TRUE]
    /\ master' = [master EXCEPT ![p] = pw]
    /\ boots' = [boots EXCEPT ![p] = @ + 1]
    /\ tokens' = [tokens EXCEPT ![p] =
                    IF tokFile = Corrupt THEN NoTokens ELSE tokFile]
    /\ deliveries' = [deliveries EXCEPT ![p] =
                    IF tokFile = Corrupt \/ delFile = Corrupt
                        \/ pw = NoPassword
                    THEN {} ELSE Unexpired(delFile)]
    /\ UNCHANGED <<now, tokFile, delFile, minted, creating, revoking, claiming,
                   claimStale, acked, claimed, staleReveal>>

\* A crash, a kill or the end of a CLI command: memory and every call in
\* progress are gone.
Stop(p) ==
    /\ up[p]
    /\ up' = [up EXCEPT ![p] = FALSE]
    /\ tokens' = [tokens EXCEPT ![p] = NoTokens]
    /\ deliveries' = [deliveries EXCEPT ![p] = {}]
    /\ revoking' = [revoking EXCEPT ![p] = {}]
    /\ IF p = "server"
       THEN creating' = {} /\ claiming' = Nobody /\ claimStale' = FALSE
       ELSE UNCHANGED <<creating, claiming, claimStale>>
    /\ UNCHANGED <<now, master, boots, tokFile, delFile, minted, acked, claimed,
                   staleReveal>>

-----------------------------------------------------------------------------
(* Tokens *)

\* CreateAPIToken; on a failed save the record is taken out of the map again.
CreateAPIToken(p, i, exp) ==
    /\ up[p] /\ i \notin minted
    /\ minted' = minted \cup {i}
    /\ \/ /\ tokens' = [tokens EXCEPT ![p][i] =
                          [status |-> "active", expires |-> exp]]
          /\ tokFile' = tokens'[p]
          /\ creating' = IF p = "server" THEN creating \cup {i} ELSE creating
       \/ /\ TokensNotSaved
          /\ UNCHANGED <<tokens, creating>>
    /\ UNCHANGED <<now, up, master, boots, deliveries, delFile, revoking,
                   claiming, claimStale, acked, claimed, staleReveal>>

Usable(p, i) == /\ up[p]
                /\ tokens[p][i].status = "active"
                /\ \/ tokens[p][i].expires = Forever
                   \/ now <= tokens[p][i].expires

\* ValidateAPIToken: a request of the data plane presents the key.  Noting the
\* last use rewrites the whole file; an error of that write is ignored.
ValidateAPIToken(i) ==
    /\ Usable("server", i)
    /\ tokFile' = tokens["server"] \/ TokensNotSaved
    /\ UNCHANGED <<now, up, master, boots, tokens, deliveries, delFile, minted,
                   creating, revoking, claiming, claimStale, acked, claimed,
                   staleReveal>>

\* RevokeAPIToken, first half: under apiTokenMu.
RevokeWithoutSaving(p, i) ==
    /\ up[p] /\ tokens[p][i].status # "absent"
    /\ tokens' = [tokens EXCEPT ![p][i].status = "revoked"]
    /\ revoking' = [revoking EXCEPT ![p] = @ \cup {i}]
    /\ UNCHANGED <<now, up, master, boots, tokFile, deliveries, delFile, minted,
                   creating, claiming, claimStale, acked, claimed, staleReveal>>

RevokeUnknown(p, i) ==
    /\ up[p]
    /\ tokens' = [tokens EXCEPT ![p][i].status = "revoked"]
    /\ tokFile' = tokens'[p]
    /\ revoking' = [revoking EXCEPT ![p] = @ \cup {i}]
    /\ UNCHANGED <<now, up, master, boots, deliveries, delFile, minted,
                   creating, claiming, claimStale, acked, claimed, staleReveal>>

RevokeAPIToken(p, i) ==
    /\ up[p] /\ tokens[p][i].status # "absent"
    /\ tokens' = [tokens EXCEPT ![p][i].status = "revoked"]
    /\ \/ /\ tokFile' = tokens'[p]
          /\ revoking' = [revoking EXCEPT ![p] = @ \cup {i}]
       \/ /\ TokensNotSaved
          /\ UNCHANGED revoking
    /\ UNCHANGED <<now, up, master, boots, deliveries, delFile, minted,
                   creating, claiming, claimStale, acked, claimed, staleReveal>>

\* Second half: DeletePendingAPITokenDeliveriesByTokenID, under the delivery
\* lock.  Only then is the caller answered, with an error if a save failed.
RevokeDeliveries(p, i) ==
    LET rest == {d \in deliveries[p] : d.id # i}
    IN  /\ i \in revoking[p]
        /\ p = "server" => claiming = Nobody
        /\ revoking' = [revoking EXCEPT ![p] = @ \ {i}]
        /\ deliveries' = [deliveries EXCEPT ![p] = rest]
        /\ \/ /\ rest = deliveries[p]
              /\ acked' = acked \cup {i}
              /\ UNCHANGED delFile
           \/ /\ rest # deliveries[p]
              /\ DeliveriesSaved(p, rest)
              /\ acked' = acked \cup {i}
           \/ /\ rest # deliveries[p] /\ Persistent(p)
              /\ delFile' \in {delFile, Corrupt}
              /\ UNCHANGED acked
        /\ UNCHANGED <<now, up, master, boots, tokens, tokFile, minted, creating,
                       claiming, claimStale, claimed, staleReveal>>

-----------------------------------------------------------------------------
(* Deliveries.  Every operation of the server waits for the delivery lock,   *)
(* which a claim holds from ClaimCheck to ClaimFinish.                       *)

\* CreatePendingAPITokenDelivery, the second call of CreateTokenHandler.
CreateDelivery(i) ==
    LET p == "server"
        kept == Unexpired(deliveries[p])
        d == [id |-> i, key |-> DeliveryKey(p), expires |-> now + DeliveryTTL]
    IN  /\ i \in creating /\ claiming = Nobody
        /\ creating' = creating \ {i}
        /\ \/ /\ deliveries' = [deliveries EXCEPT ![p] = kept \cup {d}]
              /\ DeliveriesSaved(p, kept \cup {d})
           \/ /\ deliveries' = [deliveries EXCEPT ![p] = kept]
              /\ DeliveriesNotSaved(p)
        /\ UNCHANGED <<now, up, master, boots, tokens, tokFile, minted, revoking,
                       claiming, claimStale, acked, claimed, staleReveal>>

\* ListPendingAPITokenDeliveriesForUser changes something only by its purge.
ListDeliveries ==
    LET p == "server"
        kept == Unexpired(deliveries[p])
    IN  /\ up[p] /\ claiming = Nobody /\ kept # deliveries[p]
        /\ deliveries' = [deliveries EXCEPT ![p] = kept]
        /\ SavedOrNot(p, kept)
        /\ UNCHANGED <<now, up, master, boots, tokens, tokFile, minted, creating,
                       revoking, claiming, claimStale, acked, claimed,
                       staleReveal>>

\* ClaimPendingAPITokenDelivery up to the look at the token: purge, find the
\* delivery, drop it if its token is no longer active, decrypt it.
ClaimUnchecked(d) ==
    LET p == "server"
        kept == Unexpired(deliveries[p])
    IN  /\ up[p] /\ claiming = Nobody /\ d \in kept
        /\ d.key = DeliveryKey(p)
        /\ claiming' = d.id /\ claimStale' = (d.id \in acked)
        /\ deliveries' = [deliveries EXCEPT ![p] = kept]
        /\ SavedOrNot(p, kept)
        /\ UNCHANGED <<now, up, master, boots, tokens, tokFile, minted, creating,
                       revoking, acked, claimed, staleReveal>>

ClaimCheck(d) ==
    LET p == "server"
        kept == Unexpired(deliveries[p])
    IN  /\ up[p] /\ claiming = Nobody /\ d \in kept
        /\ \/ /\ ~Usable(p, d.id)
              /\ deliveries' = [deliveries EXCEPT ![p] = kept \ {d}]
              /\ SavedOrNot(p, kept \ {d})
              /\ UNCHANGED <<claiming, claimStale>>
           \/ /\ Usable(p, d.id)
              /\ deliveries' = [deliveries EXCEPT ![p] = kept]
              /\ IF kept = deliveries[p] THEN UNCHANGED delFile
                                         ELSE SavedOrNot(p, kept)
              /\ IF d.key = DeliveryKey(p)
                 THEN claiming' = d.id /\ claimStale' = (d.id \in acked)
                 ELSE UNCHANGED <<claiming, claimStale>>
        /\ UNCHANGED <<now, up, master, boots, tokens, tokFile, minted, creating,
                       revoking, acked, claimed, staleReveal>>

\* The rest of the claim: the delivery leaves the map, then the file, and only
\* if the file was written is the raw key returned.
RevealFirst ==
    LET p == "server"
        rest == {d \in deliveries[p] : d.id # claiming}
    IN  /\ claiming # Nobody
        /\ deliveries' = [deliveries EXCEPT ![p] = rest]
        /\ SavedOrNot(p, rest)
        /\ claimed' = [claimed EXCEPT ![claiming] = @ + 1]
        /\ staleReveal' = IF claimStale THEN staleReveal \cup {claiming}
                                        ELSE staleReveal
        /\ claiming' = Nobody /\ claimStale' = FALSE
        /\ UNCHANGED <<now, up, master, boots, tokens, tokFile, minted, creating,
                       revoking, acked>>

ClaimFinish ==
    LET p == "server"
        rest == {d \in deliveries[p] : d.id # claiming}
    IN  /\ claiming # Nobody
        /\ deliveries' = [deliveries EXCEPT ![p] = rest]
        /\ \/ /\ DeliveriesSaved(p, rest)
              /\ claimed' = [claimed EXCEPT ![claiming] = @ + 1]
              /\ staleReveal' = IF claimStale THEN staleReveal \cup {claiming}
                                              ELSE staleReveal
           \/ /\ Persistent(p)
              /\ delFile' \in {delFile, Corrupt}
              /\ UNCHANGED <<claimed, staleReveal>>
        /\ claiming' = Nobody /\ claimStale' = FALSE
        /\ UNCHANGED <<now, up, master, boots, tokens, tokFile, minted, creating,
                       revoking, acked>>

Tick ==
    /\ now < MaxTime
    /\ now' = now + 1
    /\ UNCHANGED <<up, master, boots, tokens, tokFile, deliveries, delFile,
                   minted, creating, revoking, claiming, claimStale, acked,
                   claimed, staleReveal>>

Next ==
    \/ \E p \in Proc :
          \/ \E pw \in Password \cup {NoPassword} : Start(p, pw)
          \/ Stop(p)
          \/ \E i \in Id, exp \in Lifetime : CreateAPIToken(p, i, exp)
          \/ \E i \in Id : RevokeAPIToken(p, i) \/ RevokeDeliveries(p, i)
    \/ \E i \in Id : ValidateAPIToken(i) \/ CreateDelivery(i)
    \/ \E d \in deliveries["server"] : ClaimCheck(d)
    \/ ListDeliveries \/ ClaimFinish
    \/ Tick

Spec == Init /\ [][Next]_vars

-----------------------------------------------------------------------------
(* Properties *)

\* The maps and files have the shapes their Go types give them, a process that
\* is down has no memory, and a claim in progress is about a minted token.
TypeOK ==
    /\ now \in Nat
    /\ up \in [Proc -> BOOLEAN]
    /\ master \in [Proc -> Password \cup {NoPassword}]
    /\ boots \in [Proc -> Nat]
    /\ tokens \in [Proc -> [Id -> Token]]
    /\ tokFile \in [Id -> Token] \cup {Corrupt}
    /\ deliveries \in [Proc -> SUBSET Delivery]
    /\ delFile \in (SUBSET Delivery) \cup {Corrupt}
    /\ minted \subseteq Id /\ creating \subseteq minted
    /\ revoking \in [Proc -> SUBSET Id]
    /\ claiming \in minted \cup {Nobody} /\ claimStale \in BOOLEAN
    /\ acked \subseteq minted /\ staleReveal \subseteq minted
    /\ claimed \in [Id -> Nat]
    /\ \A p \in Proc : ~up[p] => tokens[p] = NoTokens /\ deliveries[p] = {}

\* A raw key is revealed by at most one claim, over every crash, restart with
\* or without the master password, and failed write.
ClaimedOnce == \A i \in Id : claimed[i] <= 1

\* Once a revocation has been answered "ok" the gateway never accepts the token
\* again, not even after a restart.
RevokeSticks == \A i \in acked : ~Usable("server", i)

\* A claim that begins after the revocation was answered reveals nothing, even
\* if the delivery was created by a handler the revocation overtook.
NoRevealAfterRevoke == staleReveal = {}

=============================================================================
