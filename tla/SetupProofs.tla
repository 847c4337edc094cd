----------------------------- MODULE SetupProofs -----------------------------
(***************************************************************************)
(* Proofs about setup, the upgrade and the reset, for any number of        *)
(* requests and administrators, and any faults and restarts.               *)
(*                                                                         *)
(* A request that nothing overlapped is the only one under way             *)
(* (RequestInv), so what the earlier steps of its handler did is still     *)
(* true when it answers (FoundingInv, ResetInv).  Afterwards the checks    *)
(* keep every other setup out, and only upgrades touch the founder's data  *)
(* (FounderInv).  Upgrades may overlap each other: Safe says where a       *)
(* founder's TOTP secret is while they take it from one vault to another.  *)
(***************************************************************************)
EXTENDS Setup, TLAPS

Saves == {"saveServices", "saveLimits", "saveUsers"}
Reload == {"init", "limits", "services", "tokens", "ok"}    \* the end of a handler
Founding == {"complete", "bootstrap"}

Request ==
    [pc : {"idle", "check", "configure", "create", "secret", "rollback", "snapshot", "writeSetup",
           "reinit", "migrate", "reset", "sessions"} \cup Saves \cup Reload,
     op : {"none", "upgrade", "reset"} \cup Founding, name : Name \cup {NoName}, cfg : SetupConfig,
     saved : SUBSET Name, before : [Stores -> SUBSET (Name \cup {Entry})], alone : BOOLEAN]

Allowed(x) == IF x \in Edited THEN {Entry} ELSE Name
Contents(f) == /\ f \in [Stores -> SUBSET (Name \cup {Entry})]
               /\ \A x \in Stores : f[x] \subseteq Allowed(x)

SetupTypes ==
    /\ up \in BOOLEAN
    /\ setup \in SetupConfig /\ setupFile \in SetupConfig \cup {NoFile}
    /\ setupFile # NoFile => setupFile.mode = "persistent"
    /\ setupMu \in Req \cup {Nobody}
    /\ storePath \in Place /\ servicePath \in Place /\ activeVault \in UserVault
    /\ Contents(mem) /\ Contents(perm) /\ Contents(temp) /\ temp["secrets"] = {}
    /\ cut \subseteq Files /\ caching \subseteq Name /\ sessions \subseteq Name
    /\ enrolled \subseteq founders /\ founders \subseteq Name
    /\ wiped \in BOOLEAN /\ upgraded \in BOOLEAN
    /\ req \in [Req -> Request]

(* What a request is doing follows from its place.                         *)
RequestAt(q) ==
    /\ q.op = "none" => q.pc = "idle"
    /\ q.op = "complete" => q.pc \in {"check", "configure", "create", "secret", "rollback"} \cup Reload
    /\ q.op = "bootstrap" => q.pc \in {"check", "create", "secret", "rollback", "ok"}
    /\ q.op = "upgrade" => q.pc \in {"check", "snapshot", "writeSetup", "reinit", "migrate"}
                                    \cup Saves \cup Reload
    /\ q.op = "reset" => q.pc \in {"reset", "sessions"} \cup Reload
    /\ q.op \in Founding => q.name \in Name
    /\ q.op = "complete" /\ q.pc \in {"check", "configure"} => q.cfg.mode # "first"
    /\ q.op = "upgrade" /\ q.pc \in {"check", "snapshot", "writeSetup"} \cup Saves
          => q.cfg.mode = "persistent"

RequestInv ==
    /\ \A r \in Req : RequestAt(req[r])
    /\ \A r \in Req : req[r].pc \in Saves <=> setupMu = r
    /\ \A r \in Req : ~up => req[r].pc = "idle"
    /\ \A r, o \in Req : req[r].alone /\ req[r].pc # "idle" /\ o # r => req[o].pc = "idle"
    /\ \A r \in Req : req[r].alone /\ req[r].pc # "idle" => caching = {}

(* Persistent mode has a setup file that says so, also while an upgrade    *)
(* still saves, unless a write has cut it; and unless a reload is due the stores *)
(* are where the setup says.                                               *)
ModeInv ==
    /\ setup.mode = "persistent" \/ setupMu # Nobody => setupFile # NoFile \/ "setup" \in cut
    /\ setup.mode = "persistent" /\ temp["tokens"] # {} => upgraded
    /\ ~up => temp["tokens"] = {}
    /\ up /\ setup.mode # "first" /\ (\A r \in Req : req[r].pc \notin {"init", "reinit"})
          => storePath = PlaceOf(setup) /\ activeVault = setup.vault

(* Administrator n has the account.                                        *)
Account(n) ==
    /\ up => n \in mem["users"]
    /\ setup.mode = "persistent" => n \in perm["users"] \/ "users" \in cut

(* The upgrade q, if it is one and has taken its snapshot, has the secret. *)
Carries(n, q) ==
    \/ q.op # "upgrade" \/ q.pc \in {"check", "snapshot"}
    \/ q.pc \in {"writeSetup", "reinit"} \cup Saves /\ n \in q.saved

(* The secret of n is in the vault's file; or in memory, and the upgrades  *)
(* under way have it in their snapshots; or an upgrade is about to store   *)
(* it.                                                                     *)
Safe(n) ==
    \/ n \in perm["secrets"]
    \/ /\ up /\ n \in mem["secrets"]
       /\ \A r \in Req : Carries(n, req[r])
    \/ up /\ \E r \in Req : req[r].pc = "migrate" /\ n \in req[r].saved

Secret(n) ==
    /\ setup.mode = "temporary" /\ setup.vault = "env" => n \in mem["secrets"]
    /\ setup.vault = "file" /\ ~Migrating => n \in perm["secrets"]
    /\ Safe(n)

(* Once there is a founder, requests are turned away or are upgrades.      *)
FounderInv ==
    /\ founders # {} =>
          /\ setup.mode # "first" /\ (~up => setup.mode = "persistent")
          /\ \A r \in Req :
                \/ req[r].pc \in {"idle", "check"}
                \/ /\ req[r].op = "upgrade"
                   /\ req[r].pc \in {"reinit", "migrate"} \cup Reload => setup.mode = "persistent"
    /\ \A n \in founders : Account(n)
    /\ \A n \in enrolled : Secret(n)

(* What a request that founds, and that nothing overlaps, has achieved.    *)
FoundingAt(r) ==
    req[r].alone /\ req[r].op \in Founding =>
       /\ req[r].pc \in {"create", "secret"} \cup Reload => setup.mode # "first"
       /\ req[r].pc \in {"secret", "ok"} => Account(req[r].name)
       /\ req[r].pc = "ok" => Secret(req[r].name)

FoundingInv == \A r \in Req : FoundingAt(r)

(* What a reset that nothing overlaps has achieved.                        *)
ResetFiles ==
    /\ setupFile = NoFile /\ perm = Empty /\ cut \subseteq {"temp"} /\ setup.mode = "first"
    /\ temp["users"] = {} /\ temp["services"] = {} /\ (temp["tokens"] # {} => upgraded)

ResetAt(r) ==
    req[r].alone /\ req[r].op = "reset" =>
       /\ req[r].pc \in {"sessions"} \cup Reload => ResetFiles
       /\ req[r].pc \in Reload \ {"init"} => mem["users"] = {} /\ mem["secrets"] = {}
       /\ req[r].pc \in {"tokens", "ok"} => mem["services"] = {}
       /\ req[r].pc = "ok" /\ mem["tokens"] # {} => upgraded

ResetInv ==
    /\ \A r \in Req : ResetAt(r)
    /\ wiped => caching = {} /\ \A r \in Req : req[r].pc = "idle"
    /\ ResetForgets

SetupInv == SetupTypes /\ RequestInv /\ ModeInv /\ FounderInv /\ FoundingInv /\ ResetInv

-----------------------------------------------------------------------------
(* What the steps do *)

LEMMA Strings ==
    /\ Stores = {"users", "secrets"} \cup Edited /\ "users" \notin Edited /\ "secrets" \notin Edited
    /\ "services" \in Edited /\ "limits" \in Edited /\ "tokens" \in Edited
    /\ Stores \subseteq Files /\ "temp" \in Files /\ "setup" \in Files
    /\ "setup" \notin Stores /\ "temp" \notin Stores
BY DEF Stores, Edited, Files

(* Request r goes on to place p, with cfg c and snapshot s.                *)
Moves(r, p, c, s) ==
    /\ req' \in [Req -> Request]
    /\ req'[r].pc = p /\ req'[r].cfg = c /\ req'[r].saved = s
    /\ req'[r].op = req[r].op /\ req'[r].name = req[r].name /\ req'[r].alone = req[r].alone
    /\ \A o \in Req : o # r => req'[o] = req[o]

(* Request r is over.                                                      *)
Ends(r) ==
    /\ req' \in [Req -> Request]
    /\ req'[r].pc = "idle" /\ req'[r].op = "none"
    /\ \A o \in Req : o # r => req'[o] = req[o]

LEMMA GotoMoves ==
    ASSUME SetupTypes, NEW r \in Req, NEW p,
           p \in {"check", "configure", "create", "secret", "rollback", "snapshot", "writeSetup",
                  "reinit", "migrate", "reset", "sessions"} \cup Saves \cup Reload,
           Goto(r, p)
    PROVE  Moves(r, p, req[r].cfg, req[r].saved)
<1>1. req \in [Req -> Request]
  BY DEF SetupTypes
<1>2. req' = [req EXCEPT ![r] = [req[r] EXCEPT !.pc = p]]
  BY DEF Goto
<1>3. [req[r] EXCEPT !.pc = p] \in Request
  BY <1>1 DEF Request
<1> QED
  BY <1>1, <1>2, <1>3 DEF Moves, Request

LEMMA IdleFacts ==
    Idle \in Request /\ Idle.pc = "idle" /\ Idle.op = "none"
<1>1. Empty \in [Stores -> SUBSET (Name \cup {Entry})]
  BY DEF Empty
<1>2. FirstRun \in SetupConfig
  BY DEF FirstRun, SetupConfig, UserVault
<1> QED
  BY <1>1, <1>2 DEF Idle, Request

LEMMA FailEnds ==
    ASSUME SetupTypes, NEW r \in Req, Fail(r)
    PROVE  Ends(r)
<1>1. req \in [Req -> Request] /\ req' = [req EXCEPT ![r] = Idle]
  BY DEF SetupTypes, Fail
<1> QED
  BY <1>1, IdleFacts DEF Ends

(* Where each store writes.                                                *)
LEMMA Paths ==
    /\ PathOf("users") = storePath /\ PathOf("services") = servicePath
    /\ PathOf("secrets") = IF activeVault = "file" THEN "perm" ELSE "old"
    /\ PathOf("limits") = PlaceOf(setup) /\ PathOf("tokens") = PlaceOf(setup)
BY DEF PathOf

LEMMA FileFacts ==
    ASSUME NEW x \in Stores
    PROVE  /\ FileOf(x) \subseteq Files /\ "setup" \notin FileOf(x)
           /\ \A y \in Stores : y # x => y \notin FileOf(x)
           /\ PathOf(x) = "perm" => FileOf(x) = {x}
           /\ PathOf(x) # "perm" => x \notin FileOf(x)
BY Strings DEF FileOf

LEMMA HoldsFacts ==
    ASSUME SetupTypes, NEW x \in Stores, x # "secrets", NEW c, c \subseteq Allowed(x), FileHolds(x, c)
    PROVE  /\ Contents(perm') /\ Contents(temp') /\ temp'["secrets"] = {}
           /\ \A y \in Stores : y # x => perm'[y] = perm[y] /\ temp'[y] = temp[y]
           /\ PathOf(x) = "perm" => perm'[x] = c /\ temp' = temp
           /\ PathOf(x) # "perm" => perm' = perm
<1>1. Contents(perm) /\ Contents(temp) /\ temp["secrets"] = {} /\ c \in SUBSET (Name \cup {Entry})
  BY DEF SetupTypes, Allowed
<1>2. /\ PathOf(x) = "perm" => perm' = [perm EXCEPT ![x] = c] /\ temp' = temp
      /\ PathOf(x) # "perm" => perm' = perm
      /\ temp' = temp \/ temp' = [temp EXCEPT ![x] = c]
  BY DEF FileHolds
<1>3. /\ Contents(perm') /\ \A y \in Stores : y # x => perm'[y] = perm[y]
      /\ PathOf(x) = "perm" => perm'[x] = c
  BY <1>1, <1>2 DEF Contents
<1>4. Contents(temp') /\ temp'["secrets"] = {} /\ \A y \in Stores : y # x => temp'[y] = temp[y]
  BY <1>1, <1>2, Strings DEF Contents
<1> QED
  BY <1>2, <1>3, <1>4

(* The users' file is cut, or just written, or as good as it was.          *)
UsersFileKept ==
    \/ "users" \in cut'
    \/ up /\ mem["users"] \subseteq perm'["users"]
    \/ "users" \notin cut /\ perm["users"] \subseteq perm'["users"]

(* What a write, successful or not, leaves alone.                          *)
OthersKept(x) ==
    /\ Contents(mem') /\ Contents(perm') /\ Contents(temp') /\ temp'["secrets"] = {}
    /\ \A y \in Stores : y # x => /\ mem'[y] = mem[y] /\ perm'[y] = perm[y] /\ temp'[y] = temp[y]
                                  /\ y \in cut' <=> y \in cut
    /\ cut' \subseteq Files /\ ("setup" \in cut' <=> "setup" \in cut)

LEMMA WrittenFacts ==
    ASSUME SetupTypes, NEW x \in Stores, x # "secrets", NEW c, c \subseteq Allowed(x)
    PROVE  /\ Written(x, c) \/ NotWritten(x, c) =>
                 /\ OthersKept(x) /\ mem'[x] = c
                 /\ PathOf(x) = "perm" => temp' = temp
                 /\ PathOf(x) = "perm" => x \in cut' \/ perm'[x] = c \/ (perm' = perm /\ cut' = cut)
                 /\ PathOf(x) # "perm" => perm' = perm /\ (x \in cut' <=> x \in cut)
           /\ Written(x, c) /\ PathOf(x) = "perm" => perm'[x] = c
<1>1. Contents(mem) /\ Contents(perm) /\ Contents(temp) /\ temp["secrets"] = {} /\ cut \subseteq Files
  BY DEF SetupTypes
<1>2. c \in SUBSET (Name \cup {Entry})
  BY DEF Allowed
<1>3. mem' = [mem EXCEPT ![x] = c] =>
         Contents(mem') /\ mem'[x] = c /\ \A y \in Stores : y # x => mem'[y] = mem[y]
  BY <1>1, <1>2 DEF Contents
<1>4. ASSUME Written(x, c)
      PROVE  /\ OthersKept(x) /\ mem'[x] = c
             /\ PathOf(x) = "perm" => temp' = temp /\ perm'[x] = c
             /\ PathOf(x) # "perm" => perm' = perm /\ (x \in cut' <=> x \in cut)
  <2>1. mem' = [mem EXCEPT ![x] = c] /\ FileHolds(x, c) /\ cut' = cut \ FileOf(x)
    BY <1>4 DEF Written
  <2>2. /\ cut' \subseteq Files /\ ("setup" \in cut' <=> "setup" \in cut)
        /\ \A y \in Stores : y # x => (y \in cut' <=> y \in cut)
        /\ PathOf(x) # "perm" => (x \in cut' <=> x \in cut)
    BY <1>1, <2>1, FileFacts
  <2> QED
    BY <1>3, <2>1, <2>2, HoldsFacts DEF OthersKept
<1>5. ASSUME NotWritten(x, c)
      PROVE  /\ OthersKept(x) /\ mem'[x] = c
             /\ PathOf(x) = "perm" => temp' = temp /\ (x \in cut' \/ (perm' = perm /\ cut' = cut))
             /\ PathOf(x) # "perm" => perm' = perm /\ (x \in cut' <=> x \in cut)
  <2>0. mem' = [mem EXCEPT ![x] = c]
    BY <1>5 DEF NotWritten
  <2>1. CASE UNCHANGED <<perm, temp, cut>>
    BY <1>1, <1>3, <2>0, <2>1 DEF OthersKept
  <2>2. CASE FileHolds(x, {}) /\ cut' = cut \cup FileOf(x)
    <3>1. /\ cut' \subseteq Files /\ ("setup" \in cut' <=> "setup" \in cut)
          /\ \A y \in Stores : y # x => (y \in cut' <=> y \in cut)
          /\ PathOf(x) # "perm" => (x \in cut' <=> x \in cut)
          /\ PathOf(x) = "perm" => x \in cut'
      BY <1>1, <2>2, FileFacts
    <3> DEFINE none == {}
    <3>2. none \subseteq Allowed(x) /\ FileHolds(x, none)
      BY <2>2
    <3> HIDE DEF none
    <3>3. /\ Contents(perm') /\ Contents(temp') /\ temp'["secrets"] = {}
          /\ \A y \in Stores : y # x => perm'[y] = perm[y] /\ temp'[y] = temp[y]
          /\ PathOf(x) = "perm" => temp' = temp
          /\ PathOf(x) # "perm" => perm' = perm
      BY <3>2, HoldsFacts
    <3> QED
      BY <1>3, <2>0, <3>1, <3>3 DEF OthersKept
  <2> QED
    BY <1>5, <2>1, <2>2 DEF NotWritten
<1> QED
  BY <1>4, <1>5

(* The file vault.                                                         *)
LEMMA VaultFacts ==
    ASSUME SetupTypes
    PROVE  /\ \A names \in SUBSET Name : VaultStores(names) =>
                 /\ OthersKept("secrets") /\ temp' = temp /\ cut' = cut /\ UNCHANGED promises
                 /\ mem'["secrets"] = mem["secrets"] \cup names
                 /\ activeVault = "file" => names \subseteq perm'["secrets"]
           /\ VaultFails =>
                 /\ OthersKept("secrets") /\ mem' = mem /\ temp' = temp
                 /\ founders' = founders /\ enrolled' \subseteq enrolled
                 /\ enrolled' = {} \/ perm' = perm
<1>1. /\ Contents(mem) /\ Contents(perm) /\ Contents(temp) /\ temp["secrets"] = {} /\ cut \subseteq Files
      /\ "secrets" \in Stores /\ Allowed("secrets") = Name
  BY Strings DEF SetupTypes, Allowed
<1>2. ASSUME NEW names \in SUBSET Name, VaultStores(names)
      PROVE  /\ OthersKept("secrets") /\ temp' = temp /\ cut' = cut /\ UNCHANGED promises
             /\ mem'["secrets"] = mem["secrets"] \cup names
             /\ activeVault = "file" => names \subseteq perm'["secrets"]
  <2>1. PICK m, f : m = mem["secrets"] \cup names /\ f = perm["secrets"] \cup names
    OBVIOUS
  <2>2. /\ mem' = [mem EXCEPT !["secrets"] = m]
        /\ perm' = IF activeVault = "file" THEN [perm EXCEPT !["secrets"] = f] ELSE perm
        /\ UNCHANGED <<temp, cut, promises>>
    BY <1>2, <2>1 DEF VaultStores
  <2>3. /\ m \in SUBSET (Name \cup {Entry}) /\ m \subseteq Name
        /\ f \in SUBSET (Name \cup {Entry}) /\ f \subseteq Name
    BY <1>1, <2>1 DEF Contents
  <2>4. Contents(mem') /\ mem'["secrets"] = m /\ \A y \in Stores : y # "secrets" => mem'[y] = mem[y]
    BY <1>1, <2>2, <2>3 DEF Contents
  <2>5. /\ Contents(perm') /\ \A y \in Stores : y # "secrets" => perm'[y] = perm[y]
        /\ activeVault = "file" => perm'["secrets"] = f
    BY <1>1, <2>2, <2>3 DEF Contents
  <2> QED
    BY <1>1, <2>1, <2>2, <2>4, <2>5 DEF OthersKept
<1>3. ASSUME VaultFails
      PROVE  /\ OthersKept("secrets") /\ mem' = mem /\ temp' = temp
             /\ founders' = founders /\ enrolled' \subseteq enrolled
             /\ enrolled' = {} \/ perm' = perm
  <2>1. /\ mem' = mem /\ temp' = temp
        /\ \/ UNCHANGED <<perm, cut, promises>>
           \/ /\ perm' = [perm EXCEPT !["secrets"] = {}]
              /\ cut' \in {cut, cut \cup {"secrets"}} /\ enrolled' = {} /\ UNCHANGED founders
    BY <1>3 DEF VaultFails
  <2>2. CASE UNCHANGED <<perm, cut, promises>>
    BY <1>1, <2>1, <2>2 DEF OthersKept, promises
  <2>3. CASE /\ perm' = [perm EXCEPT !["secrets"] = {}]
             /\ cut' \in {cut, cut \cup {"secrets"}} /\ enrolled' = {} /\ UNCHANGED founders
    <3>1. Contents(perm') /\ \A y \in Stores : y # "secrets" => perm'[y] = perm[y]
      BY <1>1, <2>3 DEF Contents
    <3>2. /\ cut' \subseteq Files /\ ("setup" \in cut' <=> "setup" \in cut)
          /\ \A y \in Stores : y # "secrets" => (y \in cut' <=> y \in cut)
      BY <1>1, <2>3, Strings
    <3> QED
      BY <1>1, <2>1, <2>3, <3>1, <3>2 DEF OthersKept
  <2> QED
    BY <2>1, <2>2, <2>3
<1> QED
  BY <1>2, <1>3

(* Loading a store from one of its files.                                  *)
LEMMA LoadedFacts ==
    ASSUME SetupTypes, NEW x \in Stores, NEW c, c \subseteq Allowed(x),
           mem' = [mem EXCEPT ![x] = c]
    PROVE  /\ Contents(mem') /\ mem'[x] = c
           /\ \A y \in Stores : y # x => mem'[y] = mem[y]
<1>1. Contents(mem) /\ c \in SUBSET (Name \cup {Entry})
  BY DEF SetupTypes, Allowed
<1> QED
  BY <1>1 DEF Contents

(* Drawing new names leaves the users', services' and limits' temporary    *)
(* files empty.                                                            *)
LEMMA NewNamesFacts ==
    ASSUME SetupTypes
    PROVE  LET t == NewNames(temp)
           IN  /\ Contents(t) /\ t["secrets"] = {} /\ t["tokens"] = temp["tokens"]
               /\ t["users"] = {} /\ t["services"] = {}
<1>1. Contents(temp) /\ temp["secrets"] = {}
  BY DEF SetupTypes
<1> QED
  BY <1>1, Strings DEF NewNames, Contents

LEMMA PlaceFacts ==
    ASSUME NEW p \in Place, NEW s \in SetupConfig
    PROVE  Renamed(p) \in Place /\ PlaceOf(s) \in {"perm", "temp"} /\ PlaceOf(s) \in Place
           /\ (PlaceOf(s) = "perm" <=> s.mode = "persistent")
BY DEF Renamed, PlaceOf, Place

(* o goes on, but no longer undisturbed.                                   *)
Interrupted(o) ==
    /\ req'[o].pc = req[o].pc /\ req'[o].op = req[o].op /\ req'[o].name = req[o].name
    /\ req'[o].cfg = req[o].cfg /\ req'[o].saved = req[o].saved
    /\ IF req[o].pc = "idle" THEN req'[o] = req[o] ELSE ~req'[o].alone

LEMMA DisturbedFacts ==
    ASSUME SetupTypes
    PROVE  LET d == Disturbed(InFlight)
           IN  /\ d \in [Req -> Request]
               /\ \A o \in Req :
                     /\ d[o].pc = req[o].pc /\ d[o].op = req[o].op /\ d[o].name = req[o].name
                     /\ d[o].cfg = req[o].cfg /\ d[o].saved = req[o].saved
                     /\ IF req[o].pc = "idle" THEN d[o] = req[o] ELSE ~d[o].alone
<1>1. req \in [Req -> Request] /\ Empty \in [Stores -> SUBSET (Name \cup {Entry})]
  BY DEF SetupTypes, Empty
<1>2. ASSUME NEW q \in Request
      PROVE  LET e == [q EXCEPT !.alone = FALSE, !.before = Empty]
             IN  /\ e \in Request /\ e.pc = q.pc /\ e.op = q.op /\ e.name = q.name
                 /\ e.cfg = q.cfg /\ e.saved = q.saved /\ ~e.alone
  BY <1>1 DEF Request
<1>3. \A o \in Req : req[o] \in Request
  BY <1>1
<1> QED
  BY <1>2, <1>3 DEF Disturbed, InFlight

(* A request begins: everything under way is disturbed.                    *)
Begins(r, p, op, n, c) ==
    /\ up /\ req[r].pc = "idle"
    /\ req' \in [Req -> Request]
    /\ req'[r].pc = p /\ req'[r].op = op /\ req'[r].name = n /\ req'[r].cfg = c
    /\ req'[r].alone => caching = {} /\ \A o \in Req : req[o].pc = "idle"
    /\ \A o \in Req : o # r => Interrupted(o)
    /\ wiped' = FALSE
    /\ UNCHANGED <<up, caching, setupVars, pathVars, dataVars, upgraded>>

LEMMA BeginStep ==
    ASSUME SetupTypes, NEW r \in Req, NEW q \in Request, Begin(r, q)
    PROVE  Begins(r, q.pc, q.op, q.name, q.cfg)
<1> DEFINE d == Disturbed(InFlight)
           a == (InFlight = {} /\ caching = {})
           b == IF InFlight = {} THEN mem ELSE Empty
           e == [q EXCEPT !.alone = a, !.before = b]
<1>1. /\ d \in [Req -> Request]
      /\ \A o \in Req :
            /\ d[o].pc = req[o].pc /\ d[o].op = req[o].op /\ d[o].name = req[o].name
            /\ d[o].cfg = req[o].cfg /\ d[o].saved = req[o].saved
            /\ IF req[o].pc = "idle" THEN d[o] = req[o] ELSE ~d[o].alone
  BY DisturbedFacts
<1>2. req' = [d EXCEPT ![r] = e]
  BY DEF Begin
<1>3. a \in BOOLEAN /\ b \in [Stores -> SUBSET (Name \cup {Entry})]
  BY DEF SetupTypes, Contents, Empty
<1>4. a => caching = {} /\ \A o \in Req : req[o].pc = "idle"
  BY DEF InFlight
<1> HIDE DEF a, b, d
<1>5. /\ e \in Request /\ e.pc = q.pc /\ e.op = q.op /\ e.name = q.name
      /\ e.cfg = q.cfg /\ e.alone = a
  BY <1>3 DEF Request
<1> HIDE DEF e
<1>6. /\ req' \in [Req -> Request] /\ req'[r] = e /\ \A o \in Req : o # r => req'[o] = d[o]
  BY <1>1, <1>2, <1>5
<1>7. \A o \in Req : o # r => Interrupted(o)
  BY <1>1, <1>6 DEF Interrupted
<1>8. /\ up /\ req[r].pc = "idle" /\ wiped' = FALSE
      /\ UNCHANGED <<up, caching, setupVars, pathVars, dataVars, upgraded>>
  BY DEF Begin, At
<1> QED
  BY <1>4, <1>5, <1>6, <1>7, <1>8 DEF Begins

LEMMA RequestSteps ==
    ASSUME SetupTypes, NEW r \in Req
    PROVE  /\ \A op \in Founding, n \in Name, c \in SetupConfig :
                 SetupRequest(r, op, n, c) =>
                    c.mode # "first" /\ Begins(r, "check", op, n, c) /\ UNCHANGED promises
           /\ \A v \in UserVault :
                 UpgradeRequest(r, v) =>
                    /\ Begins(r, "check", "upgrade", NoName, [mode |-> "persistent", vault |-> v])
                    /\ UNCHANGED promises
           /\ ResetRequest(r) =>
                 /\ Begins(r, "reset", "reset", NoName, FirstRun)
                 /\ founders' = {} /\ enrolled' = {}
<1>1. ASSUME NEW op \in Founding, NEW n \in Name, NEW c \in SetupConfig, SetupRequest(r, op, n, c)
      PROVE  c.mode # "first" /\ Begins(r, "check", op, n, c) /\ UNCHANGED promises
  <2> DEFINE q == [Idle EXCEPT !.pc = "check", !.op = op, !.name = n, !.cfg = c]
  <2>1. q \in Request /\ q.pc = "check" /\ q.op = op /\ q.name = n /\ q.cfg = c
    BY IdleFacts DEF Request
  <2>2. Begin(r, q) /\ c.mode # "first" /\ UNCHANGED promises
    BY <1>1 DEF SetupRequest
  <2> HIDE DEF q
  <2> QED
    BY <2>1, <2>2, BeginStep
<1>2. ASSUME NEW v \in UserVault, UpgradeRequest(r, v)
      PROVE  /\ Begins(r, "check", "upgrade", NoName, [mode |-> "persistent", vault |-> v])
             /\ UNCHANGED promises
  <2> DEFINE c == [mode |-> "persistent", vault |-> v]
             q == [Idle EXCEPT !.pc = "check", !.op = "upgrade", !.cfg = c]
  <2>1. c \in SetupConfig
    BY DEF SetupConfig
  <2>2. Begin(r, q) /\ UNCHANGED promises
    BY <1>2 DEF UpgradeRequest
  <2> HIDE DEF c
  <2>3. q \in Request /\ q.pc = "check" /\ q.op = "upgrade" /\ q.name = NoName /\ q.cfg = c
    BY <2>1, IdleFacts DEF Request, Idle
  <2> HIDE DEF q
  <2>4. Begins(r, "check", "upgrade", NoName, c)
    BY <2>2, <2>3, BeginStep
  <2> QED
    BY <2>2, <2>4 DEF c
<1>3. ASSUME ResetRequest(r)
      PROVE  /\ Begins(r, "reset", "reset", NoName, FirstRun)
             /\ founders' = {} /\ enrolled' = {}
  <2> DEFINE q == [Idle EXCEPT !.pc = "reset", !.op = "reset"]
  <2>1. Begin(r, q) /\ founders' = {} /\ enrolled' = {}
    BY <1>3 DEF ResetRequest
  <2>2. q \in Request /\ q.pc = "reset" /\ q.op = "reset" /\ q.name = NoName /\ q.cfg = FirstRun
    BY IdleFacts DEF Request, Idle
  <2> HIDE DEF q
  <2> QED
    BY <2>1, <2>2, BeginStep
<1> QED
  BY <1>1, <1>2, <1>3

-----------------------------------------------------------------------------
(* Parts of the invariant that many steps keep for the same reason *)

LEMMA BusyHasPlace ==
    ASSUME SetupTypes, NEW r \in Req, RequestAt(req[r])
    PROVE  req[r].op = "none" <=> req[r].pc = "idle"
<1>1. req[r] \in Request
  BY DEF SetupTypes
<1> QED
  BY <1>1 DEF RequestAt, Request, Founding, Saves, Reload

LEMMA MoveRequests ==
    ASSUME SetupTypes, RequestInv, NEW r \in Req, NEW p, NEW c, NEW s, Moves(r, p, c, s),
           up', caching' = caching, req[r].pc # "idle", p # "idle", RequestAt(req'[r]),
           p \in Saves <=> setupMu' = r,
           \A o \in Req : o # r => (setupMu' = o <=> setupMu = o)
    PROVE  RequestInv'
<1>1. \A o \in Req : RequestAt(req'[o])
  BY DEF RequestInv, Moves
<1>2. \A o \in Req : req'[o].pc \in Saves <=> setupMu' = o
  BY DEF RequestInv, Moves
<1>3. \A q, o \in Req : req'[q].alone /\ req'[q].pc # "idle" /\ o # q => req'[o].pc = "idle"
  BY DEF RequestInv, Moves
<1>4. \A q \in Req : req'[q].alone /\ req'[q].pc # "idle" => caching = {}
  BY DEF RequestInv, Moves
<1> QED
  BY <1>1, <1>2, <1>3, <1>4 DEF RequestInv

LEMMA EndRequests ==
    ASSUME SetupTypes, RequestInv, NEW r \in Req, Ends(r), up', caching' = caching, setupMu' # r,
           \A o \in Req : o # r => (setupMu' = o <=> setupMu = o)
    PROVE  RequestInv'
<1>1. \A o \in Req : RequestAt(req'[o])
  BY DEF RequestInv, Ends, RequestAt, Founding
<1>2. \A o \in Req : req'[o].pc \in Saves <=> setupMu' = o
  BY DEF RequestInv, Ends, Saves
<1>3. \A q, o \in Req : req'[q].alone /\ req'[q].pc # "idle" /\ o # q => req'[o].pc = "idle"
  BY DEF RequestInv, Ends
<1>4. \A q \in Req : req'[q].alone /\ req'[q].pc # "idle" => caching = {}
  BY DEF RequestInv, Ends
<1> QED
  BY <1>1, <1>2, <1>3, <1>4 DEF RequestInv

(* While r takes a step, no other request is undisturbed, and nothing was  *)
(* just wiped: only what r itself has achieved matters.                    *)
LEMMA Focus ==
    ASSUME SetupTypes, RequestInv, ResetInv, NEW r \in Req, req[r].pc # "idle",
           \A o \in Req : o # r => req'[o] = req[o],
           wiped' = wiped, FoundingAt(r)', ResetAt(r)'
    PROVE  FoundingInv' /\ ResetInv'
<1>1. ~wiped /\ ~wiped'
  BY DEF ResetInv, SetupTypes
<1>2. ASSUME NEW o \in Req, o # r PROVE FoundingAt(o)' /\ ResetAt(o)'
  <2>1. req'[o] = req[o] /\ (req[o].alone => req[o].pc = "idle")
    BY <1>2 DEF RequestInv
  <2>2. req[o].pc = "idle" => req[o].op = "none"
    BY BusyHasPlace DEF RequestInv
  <2> QED
    BY <2>1, <2>2 DEF FoundingAt, ResetAt, Founding
<1> QED
  BY <1>1, <1>2 DEF FoundingInv, ResetInv, ResetForgets

LEMMA EndFocus ==
    ASSUME SetupTypes, RequestInv, ResetInv, NEW r \in Req, req[r].pc # "idle", Ends(r),
           wiped' = wiped
    PROVE  FoundingInv' /\ ResetInv'
<1>1. FoundingAt(r)' /\ ResetAt(r)'
  BY DEF Ends, FoundingAt, ResetAt, Founding
<1> QED
  BY <1>1, Focus DEF Ends

LEMMA ModeCalm ==
    ASSUME ModeInv, UNCHANGED <<up, setup, storePath, activeVault, upgraded>>,
           \/ setupFile' = setupFile /\ ("setup" \in cut => "setup" \in cut')
           \/ setupFile' # NoFile \/ "setup" \in cut',
           temp'["tokens"] = temp["tokens"], setupMu' \in {setupMu, Nobody},
           \A o \in Req : req[o].pc \in {"init", "reinit"} => req'[o].pc \in {"init", "reinit"}
    PROVE  ModeInv'
BY DEF ModeInv, PlaceOf

(* With no founder there is nothing to keep.                               *)
LEMMA NoFounder ==
    ASSUME founders' = {}, enrolled' \subseteq founders' PROVE FounderInv'
BY DEF FounderInv

LEMMA NoFounderYet ==
    ASSUME SetupTypes, founders = {}, UNCHANGED promises PROVE FounderInv'
BY NoFounder DEF SetupTypes, promises

(* A founder lets only upgrades pass.                                      *)
LEMMA OnlyUpgrades ==
    ASSUME SetupTypes, RequestInv, FounderInv, NEW r \in Req,
           req[r].pc \in {"configure", "create", "secret", "rollback", "reset", "sessions"}
    PROVE  founders = {}
<1>1. RequestAt(req[r])
  BY DEF RequestInv
<1>2. req[r].op # "upgrade"
  BY <1>1 DEF RequestAt, Saves, Reload
<1> QED
  BY <1>2 DEF FounderInv

LEMMA FoundersCalm ==
    ASSUME SetupTypes, FounderInv, UNCHANGED <<up, setup, founders>>, enrolled' \subseteq enrolled,
           founders # {} =>
              /\ mem["users"] \subseteq mem'["users"] /\ UsersFileKept
              /\ mem["secrets"] \subseteq mem'["secrets"]
              /\ enrolled' = {} \/ perm["secrets"] \subseteq perm'["secrets"]
              /\ \A o \in Req :
                    \/ /\ req'[o].pc = req[o].pc /\ req'[o].op = req[o].op
                       /\ req'[o].saved = req[o].saved
                    \/ /\ {req[o].pc, req'[o].pc} \cap {"reinit", "migrate"} = {}
                       /\ \/ req'[o].pc \in {"idle", "check"}
                          \/ /\ req'[o].op = "upgrade"
                             /\ req'[o].pc \in Reload => setup.mode = "persistent"
                       /\ \A n \in mem["secrets"] : Carries(n, req[o]) => Carries(n, req'[o])
    PROVE  FounderInv'
<1>1. CASE founders = {}
  BY <1>1, NoFounder DEF SetupTypes
<1>2. CASE founders # {}
  <2>1. \A o \in Req : \/ req'[o].pc \in {"idle", "check"}
                      \/ /\ req'[o].op = "upgrade"
                         /\ req'[o].pc \in {"reinit", "migrate"} \cup Reload => setup.mode = "persistent"
    BY <1>2 DEF FounderInv
  <2>2. \A n \in founders : Account(n)'
    BY <1>2 DEF FounderInv, Account, UsersFileKept
  <2>3. ASSUME NEW n \in enrolled' PROVE Secret(n)'
    <3>1. Secret(n)
      BY DEF FounderInv
    <3>2. Migrating <=> Migrating'
      BY <1>2 DEF Migrating
    <3>3. Safe(n)'
      <4>1. CASE n \in perm["secrets"]
        BY <1>2, <4>1 DEF Safe
      <4>2. CASE up /\ n \in mem["secrets"] /\ \A o \in Req : Carries(n, req[o])
        <5>1. \A o \in Req : Carries(n, req'[o])
          BY <1>2, <4>2 DEF Carries
        <5> QED
          BY <1>2, <4>2, <5>1 DEF Safe
      <4>3. CASE up /\ \E r \in Req : req[r].pc = "migrate" /\ n \in req[r].saved
        <5>1. PICK r \in Req : req[r].pc = "migrate" /\ n \in req[r].saved
          BY <4>3
        <5>2. req'[r].pc = "migrate" /\ n \in req'[r].saved
          BY <1>2, <5>1
        <5> QED
          BY <4>3, <5>2 DEF Safe
      <4> QED
        BY <3>1, <4>1, <4>2, <4>3 DEF Secret, Safe
    <3> QED
      BY <1>2, <3>1, <3>2, <3>3 DEF Secret
  <2> QED
    BY <1>2, <2>1, <2>2, <2>3 DEF FounderInv
<1> QED
  BY <1>1, <1>2

-----------------------------------------------------------------------------
(* Starting, stopping and what comes from outside the handlers *)

LEMMA StartKeeps == ASSUME SetupInv, Start PROVE SetupInv'
<1>1. /\ ~up /\ up' = TRUE
      /\ setup' = IF setupFile = NoFile THEN FirstRun ELSE setupFile
      /\ storePath' = PlaceOf(setup') /\ servicePath' = PlaceOf(setup')
      /\ activeVault' = setup'.vault
      /\ mem' = [x \in Stores |-> IF setup'.mode = "persistent" /\ x # "secrets"
                                 THEN perm[x] ELSE {}]
      /\ founders' = IF cut \cap {"setup", "users"} = {} THEN founders ELSE {}
      /\ enrolled' = enrolled \cap founders'
      /\ UNCHANGED <<caching, setupFile, setupMu, sessions, perm, temp, cut, req, wiped, upgraded>>
  BY DEF Start
<1>2. SetupTypes /\ setup' \in SetupConfig /\ (setup'.mode = "persistent" <=> setupFile # NoFile)
  BY <1>1 DEF SetupInv, SetupTypes, FirstRun, SetupConfig, UserVault
<1>3. SetupTypes'
  <2>1. Contents(mem')
    BY <1>1, <1>2 DEF SetupTypes, Contents
  <2>2. storePath' \in Place /\ servicePath' \in Place /\ activeVault' \in UserVault
    BY <1>1, <1>2 DEF PlaceOf, Place, SetupConfig
  <2> QED
    BY <1>1, <1>2, <2>1, <2>2 DEF SetupTypes
<1>4. RequestInv'
  BY <1>1 DEF SetupInv, RequestInv
<1>5. ModeInv'
  BY <1>1, <1>2 DEF SetupInv, ModeInv, RequestInv, PlaceOf
<1>6. FounderInv'
  <2>1. founders' # {} => /\ setup'.mode = "persistent" /\ setup.mode = "persistent"
                         /\ founders' = founders /\ "users" \notin cut
    BY <1>1, <1>2 DEF SetupInv, ModeInv, FounderInv
  <2>2. \A n \in founders' : Account(n)'
    BY <1>1, <2>1, Strings DEF SetupInv, FounderInv, Account
  <2>3. \A n \in enrolled' : n \in perm["secrets"]
    BY <1>1 DEF SetupInv, FounderInv, Secret, Safe
  <2>4. \A n \in enrolled' : Secret(n)'
    BY <1>1, <1>2, <2>1, <2>3 DEF Secret, Safe, SetupTypes
  <2> QED
    BY <1>1, <2>1, <2>2, <2>4 DEF SetupInv, FounderInv, RequestInv
<1>7. \A r \in Req : req[r].pc = "idle" /\ req[r].op = "none"
  BY <1>1, <1>2, BusyHasPlace DEF SetupInv, RequestInv
<1>8. FoundingInv'
  BY <1>1, <1>7 DEF FoundingInv, FoundingAt, Founding
<1>9. ResetInv'
  <2>1. ResetForgets'
    BY <1>1, <1>2 DEF SetupInv, ResetInv, ResetForgets, FirstRun
  <2>2. wiped' => caching' = {}
    BY <1>1 DEF SetupInv, ResetInv
  <2> QED
    BY <1>1, <1>7, <2>1, <2>2 DEF ResetInv, ResetAt
<1> QED
  BY <1>3, <1>4, <1>5, <1>6, <1>8, <1>9 DEF SetupInv

LEMMA StopKeeps == ASSUME SetupInv, Stop PROVE SetupInv'
<1>1. /\ up' = FALSE /\ setupMu' = Nobody /\ sessions' = {}
      /\ mem' = Empty /\ temp' = Empty /\ req' = [r \in Req |-> Idle]
      /\ founders' = IF setup.mode = "persistent" /\ \A r \in Req : req[r].op # "upgrade"
                     THEN founders ELSE {}
      /\ enrolled' = IF setup.vault = "file" THEN enrolled \cap founders' ELSE {}
      /\ upgraded' = FALSE /\ cut' = cut \ {"temp"} /\ caching' = {}
      /\ UNCHANGED <<setup, setupFile, storePath, servicePath, activeVault, perm, wiped>>
  BY DEF Stop, pathVars
<1>2. SetupTypes /\ Nobody \notin Req
  BY SetupConstants DEF SetupInv, SetupConstants
<1>3. Contents(Empty) /\ \A x \in Stores : Empty[x] = {}
  BY DEF Contents, Empty
<1>4. req' \in [Req -> Request] /\ \A r \in Req : req'[r].pc = "idle" /\ req'[r].op = "none"
  BY <1>1, IdleFacts
<1>5. SetupTypes'
  BY <1>1, <1>2, <1>3, <1>4, Strings DEF SetupTypes
<1>6. RequestInv'
  BY <1>1, <1>2, <1>4 DEF RequestInv, RequestAt, Saves, Founding
<1>7. ModeInv'
  BY <1>1, <1>3, Strings DEF SetupInv, ModeInv, PlaceOf
<1>8. FounderInv'
  <2>1. \A n \in founders' : Account(n)'
    BY <1>1 DEF SetupInv, FounderInv, Account
  <2>2. ASSUME NEW n \in enrolled' PROVE Secret(n)'
    <3>1. /\ n \in enrolled /\ setup.vault = "file" /\ setup.mode = "persistent"
          /\ \A r \in Req : req[r].op # "upgrade"
      BY <1>1, <2>2
    <3>2. ~Migrating
      BY <3>1 DEF SetupInv, RequestInv, RequestAt, Migrating, SetupTypes, Request, Founding, Reload
    <3>3. n \in perm["secrets"]
      BY <3>1, <3>2 DEF SetupInv, FounderInv, Secret
    <3> QED
      BY <1>1, <3>1, <3>3 DEF Secret, Safe
  <2> QED
    BY <1>1, <1>4, <2>1, <2>2 DEF SetupInv, FounderInv
<1>9. FoundingInv'
  BY <1>4 DEF FoundingInv, FoundingAt, Founding
<1>10. ResetInv'
  <2>1. ResetForgets'
    BY <1>1, <1>3 DEF SetupInv, ResetInv, ResetForgets
  <2> QED
    BY <1>1, <1>4, <2>1 DEF ResetInv, ResetAt
<1> QED
  BY <1>5, <1>6, <1>7, <1>8, <1>9, <1>10 DEF SetupInv

(* A request that is disturbed has achieved nothing that is relied on.     *)
LEMMA InterruptedFocus ==
    ASSUME SetupTypes, NEW o \in Req, RequestAt(req[o]), Interrupted(o)
    PROVE  FoundingAt(o)' /\ ResetAt(o)'
<1>1. req[o].pc = "idle" => req[o].op = "none"
  BY BusyHasPlace
<1> QED
  BY <1>1 DEF Interrupted, FoundingAt, ResetAt, Founding

LEMMA EditsKeep ==
    ASSUME SetupInv, Edits,
           Contents(mem'), Contents(perm'), Contents(temp'), temp'["secrets"] = {}, cut' \subseteq Files,
           "setup" \in cut' <=> "setup" \in cut,
           setup.mode = "persistent" => temp'["tokens"] = temp["tokens"],
           mem'["users"] = mem["users"], mem'["secrets"] = mem["secrets"], UsersFileKept,
           founders' = founders, enrolled' \subseteq enrolled,
           enrolled' = {} \/ perm["secrets"] \subseteq perm'["secrets"]
    PROVE  SetupInv'
<1>1. /\ up /\ req' = Disturbed(InFlight) /\ wiped' = FALSE
      /\ UNCHANGED <<up, caching, setup, setupFile, setupMu, sessions, storePath, servicePath, activeVault,
                     upgraded>>
  BY DEF Edits, setupVars, pathVars
<1>2. SetupTypes
  BY DEF SetupInv
<1>3. req' \in [Req -> Request] /\ \A o \in Req : Interrupted(o)
  BY <1>1, <1>2, DisturbedFacts DEF Interrupted
<1>6. SetupTypes'
  BY <1>1, <1>2, <1>3 DEF SetupTypes
<1>7. RequestInv'
  <2>1. \A o \in Req : RequestAt(req'[o])
    BY <1>3 DEF SetupInv, RequestInv, RequestAt, Interrupted
  <2> QED
    BY <1>1, <1>3, <2>1 DEF SetupInv, RequestInv, Interrupted
<1>8. ModeInv'
  BY <1>1, <1>3 DEF SetupInv, ModeInv, PlaceOf, Interrupted
<1>9. FounderInv'
  BY <1>1, <1>2, <1>3, FoundersCalm DEF SetupInv, Interrupted
<1>10. FoundingInv' /\ \A o \in Req : ResetAt(o)'
  BY <1>2, <1>3, InterruptedFocus DEF SetupInv, RequestInv, FoundingInv
<1>11. ResetInv'
  BY <1>1, <1>10 DEF ResetInv, ResetForgets
<1> QED
  BY <1>6, <1>7, <1>8, <1>9, <1>10, <1>11 DEF SetupInv

LEMMA EditKeeps == ASSUME SetupInv, NEW x \in Edited, Edit(x) PROVE SetupInv'
<1> DEFINE c == {Entry}
<1>1. Edits /\ (Written(x, c) \/ NotWritten(x, c)) /\ UNCHANGED promises
  BY DEF Edit
<1>2. SetupTypes /\ x \in Stores /\ x # "secrets" /\ x # "users" /\ c \subseteq Allowed(x)
      /\ "users" \in Stores /\ "secrets" \in Stores
  BY Strings DEF SetupInv, Allowed
<1> HIDE DEF c
<1>3. OthersKept(x) /\ (PathOf(x) = "perm" => temp' = temp)
  BY <1>1, <1>2, WrittenFacts
<1>4. setup.mode = "persistent" => temp'["tokens"] = temp["tokens"]
  <2>1. CASE x # "tokens"
    BY <1>3, <2>1, Strings DEF OthersKept
  <2>2. CASE x = "tokens" /\ setup.mode = "persistent"
    <3>1. PathOf(x) = "perm"
      BY <2>2, Paths DEF PlaceOf
    <3> QED
      BY <1>3, <3>1
  <2> QED
    BY <2>1, <2>2
<1>5. UsersFileKept
  BY <1>2, <1>3 DEF OthersKept, UsersFileKept
<1> QED
  BY <1>1, <1>2, <1>3, <1>4, <1>5, EditsKeep DEF OthersKept, promises

(* A write of the users' file that changes no administrator.               *)
LEMMA UsersRewritten ==
    ASSUME SetupInv, up, Written("users", mem["users"]) \/ NotWritten("users", mem["users"])
    PROVE  OthersKept("users") /\ mem'["users"] = mem["users"] /\ UsersFileKept
<1> DEFINE c == mem["users"]
<1>1. SetupTypes /\ "users" \in Stores /\ "users" # "secrets" /\ c \subseteq Allowed("users")
  BY Strings DEF SetupInv, SetupTypes, Contents
<1>2. Written("users", c) \/ NotWritten("users", c)
  OBVIOUS
<1> HIDE DEF c
<1>3. /\ OthersKept("users") /\ mem'["users"] = c
      /\ PathOf("users") = "perm" => \/ "users" \in cut' \/ perm'["users"] = c
                                     \/ (perm' = perm /\ cut' = cut)
      /\ PathOf("users") # "perm" => perm' = perm /\ ("users" \in cut' <=> "users" \in cut)
  BY <1>1, <1>2, WrittenFacts
<1> QED
  BY <1>3 DEF UsersFileKept, c

LEMMA EditAccountsKeeps == ASSUME SetupInv, EditAccounts PROVE SetupInv'
<1>0. SetupTypes /\ Edits /\ up /\ "secrets" \in Stores /\ "users" \in Stores /\ "tokens" \in Stores
  BY Strings DEF SetupInv, EditAccounts, Edits
<1>1. CASE (Written("users", mem["users"]) \/ NotWritten("users", mem["users"])) /\ UNCHANGED promises
  <2>1. OthersKept("users") /\ mem'["users"] = mem["users"] /\ UsersFileKept
    BY <1>0, <1>1, UsersRewritten
  <2> QED
    BY <1>0, <1>1, <2>1, EditsKeep DEF OthersKept, promises
<1>2. CASE VaultFails
  <2>1. /\ OthersKept("secrets") /\ mem' = mem /\ temp' = temp
        /\ founders' = founders /\ enrolled' \subseteq enrolled
        /\ enrolled' = {} \/ perm' = perm
    BY <1>0, <1>2, VaultFacts
  <2>2. UsersFileKept
    BY <1>0, <2>1 DEF OthersKept, UsersFileKept
  <2> QED
    BY <1>0, <2>1, <2>2, EditsKeep DEF OthersKept
<1> QED
  BY <1>1, <1>2 DEF EditAccounts

(* A login reads a secret: every request under way is disturbed.           *)
LEMMA ReadSecretKeeps == ASSUME SetupInv, NEW n \in Name, ReadSecret(n) PROVE SetupInv'
<1>1. /\ up /\ n \in perm["secrets"] /\ caching' = caching \cup {n} /\ req' = Disturbed(InFlight)
      /\ UNCHANGED <<up, setup, setupFile, setupMu, sessions, storePath, servicePath, activeVault,
                     mem, perm, temp, cut, founders, enrolled, wiped, upgraded>>
  BY DEF ReadSecret, setupVars, pathVars, dataVars, history, promises
<1>2. SetupTypes
  BY DEF SetupInv
<1>3. req' \in [Req -> Request] /\ \A o \in Req : Interrupted(o)
  BY <1>1, <1>2, DisturbedFacts DEF Interrupted
<1>4. ~wiped
  BY <1>1, Strings DEF SetupInv, ResetInv, ResetForgets, Empty
<1>5. SetupTypes'
  BY <1>1, <1>2, <1>3 DEF SetupTypes
<1>6. RequestInv'
  <2>1. \A o \in Req : RequestAt(req'[o])
    BY <1>3 DEF SetupInv, RequestInv, RequestAt, Interrupted
  <2>2. \A o \in Req : req'[o].pc # "idle" => ~req'[o].alone
    BY <1>3 DEF Interrupted
  <2> QED
    BY <1>1, <1>3, <2>1, <2>2 DEF SetupInv, RequestInv, Interrupted
<1>7. ModeInv'
  BY <1>1, <1>3 DEF SetupInv, ModeInv, PlaceOf, Interrupted
<1>8. FounderInv'
  BY <1>1, <1>2, <1>3, FoundersCalm DEF UsersFileKept, SetupInv, Interrupted
<1>9. FoundingInv' /\ \A o \in Req : ResetAt(o)'
  BY <1>2, <1>3, InterruptedFocus DEF SetupInv, RequestInv, FoundingInv
<1>10. ResetInv'
  BY <1>1, <1>4, <1>9, <1>2 DEF ResetInv, ResetForgets, SetupTypes
<1> QED
  BY <1>5, <1>6, <1>7, <1>8, <1>9, <1>10 DEF SetupInv

(* What the vault answered is kept in memory; nobody is undisturbed.       *)
LEMMA CacheSecretKeeps == ASSUME SetupInv, NEW n \in Name, CacheSecret(n) PROVE SetupInv'
<1>1. /\ n \in caching /\ caching' = caching \ {n}
      /\ mem' = [mem EXCEPT !["secrets"] = @ \cup {n}]
      /\ UNCHANGED <<up, setup, setupFile, setupMu, sessions, storePath, servicePath, activeVault,
                     perm, temp, cut, req, founders, enrolled, wiped, upgraded>>
  BY DEF CacheSecret, setupVars, pathVars, history, promises
<1>2. SetupTypes /\ "secrets" \in Stores /\ "users" \in Stores
  BY Strings DEF SetupInv
<1>3. /\ Contents(mem') /\ mem["secrets"] \subseteq mem'["secrets"] /\ mem'["users"] = mem["users"]
  <2>1. PICK c : c = mem["secrets"] \cup {n}
    OBVIOUS
  <2>2. c \subseteq Allowed("secrets") /\ mem' = [mem EXCEPT !["secrets"] = c]
    BY <1>1, <1>2, <2>1, Strings DEF SetupTypes, Contents, Allowed
  <2>3. /\ Contents(mem') /\ mem'["secrets"] = c
        /\ \A y \in Stores : y # "secrets" => mem'[y] = mem[y]
    BY <1>2, <2>2, LoadedFacts
  <2> QED
    BY <1>2, <2>1, <2>3
<1>4. \A r \in Req : req[r].alone => req[r].op = "none"
  BY <1>1, <1>2, BusyHasPlace DEF SetupInv, RequestInv
<1>5. SetupTypes'
  BY <1>1, <1>2, <1>3 DEF SetupTypes
<1>6. RequestInv' /\ ModeInv'
  BY <1>1 DEF SetupInv, RequestInv, ModeInv, PlaceOf
<1>7. FounderInv'
  BY <1>1, <1>2, <1>3, FoundersCalm DEF UsersFileKept, SetupInv
<1>8. FoundingInv'
  BY <1>1, <1>4 DEF FoundingInv, FoundingAt, Founding
<1>9. ResetInv'
  BY <1>1, <1>2, <1>4 DEF SetupInv, SetupTypes, ResetInv, ResetAt, ResetForgets
<1> QED
  BY <1>5, <1>6, <1>7, <1>8, <1>9 DEF SetupInv

LEMMA LogInKeeps == ASSUME SetupInv, NEW n \in Name, LogIn(n) PROVE SetupInv'
<1>1. /\ sessions' = sessions \cup {n}
      /\ UNCHANGED <<up, caching, setup, setupFile, setupMu, storePath, servicePath, activeVault, mem, perm, temp, cut,
                     req, founders, enrolled, wiped, upgraded>>
  BY DEF LogIn, runVars, pathVars, dataVars, history, promises
<1>2. SetupTypes' /\ RequestInv' /\ ModeInv'
  BY <1>1 DEF SetupInv, SetupTypes, RequestInv, ModeInv, PlaceOf
<1>3. (\A m : Account(m) <=> Account(m)') /\ (\A m : Secret(m) <=> Secret(m)')
  BY <1>1 DEF Account, Secret, Safe, Migrating
<1>4. FounderInv'
  BY <1>1, <1>3 DEF SetupInv, FounderInv
<1>5. FoundingInv'
  <2> SUFFICES ASSUME NEW r \in Req PROVE FoundingAt(r)'
    BY DEF FoundingInv
  <2>1. FoundingAt(r)
    BY DEF SetupInv, FoundingInv
  <2>2. Account(req[r].name) => Account(req[r].name)'
    BY <1>1 DEF Account
  <2>3. Secret(req[r].name) => Secret(req[r].name)'
    BY <1>1 DEF Secret, Safe, Migrating
  <2> QED
    BY <1>1, <2>1, <2>2, <2>3 DEF FoundingAt
<1>6. ResetInv'
  BY <1>1 DEF SetupInv, ResetInv, ResetAt, ResetFiles, ResetForgets
<1> QED
  BY <1>2, <1>4, <1>5, <1>6 DEF SetupInv

(* A new request, of any kind.                                             *)
LEMMA BeginKeeps ==
    ASSUME SetupInv, NEW r \in Req, NEW p \in {"check", "reset"}, NEW op, NEW n, NEW c,
           Begins(r, p, op, n, c), RequestAt(req'[r]),
           \/ UNCHANGED promises /\ p = "check"
           \/ founders' = {} /\ enrolled' = {}
    PROVE  SetupInv'
<1>1. /\ up /\ req[r].pc = "idle" /\ req' \in [Req -> Request] /\ req'[r].pc = p
      /\ req'[r].alone => \A o \in Req : req[o].pc = "idle"
      /\ \A o \in Req : o # r => Interrupted(o)
      /\ wiped' = FALSE
      /\ UNCHANGED <<up, caching, setup, setupFile, setupMu, sessions, storePath, servicePath, activeVault,
                     mem, perm, temp, cut, upgraded>>
  BY DEF Begins, setupVars, pathVars, dataVars
<1>2. SetupTypes
  BY DEF SetupInv
<1>3. SetupTypes'
  BY <1>1, <1>2 DEF SetupTypes, promises
<1>4. RequestInv'
  <2>1. \A o \in Req : RequestAt(req'[o])
    BY <1>1 DEF SetupInv, RequestInv, RequestAt, Interrupted
  <2>2. \A o \in Req : req'[o].pc \in Saves <=> setupMu' = o
    BY <1>1 DEF SetupInv, RequestInv, Interrupted, Saves
  <2>3. \A q, o \in Req : req'[q].alone /\ req'[q].pc # "idle" /\ o # q => req'[o].pc = "idle"
    BY <1>1 DEF SetupInv, RequestInv, Interrupted
  <2>4. \A o \in Req : req'[o].alone /\ req'[o].pc # "idle" => caching = {}
    <3>1. req'[r].alone => caching = {}
      BY DEF Begins
    <3> QED
      BY <1>1, <3>1 DEF Interrupted
  <2> QED
    BY <1>1, <2>1, <2>2, <2>3, <2>4 DEF RequestInv
<1>5. ModeInv'
  <2>1. \A o \in Req : req[o].pc \in {"init", "reinit"} => req'[o].pc \in {"init", "reinit"}
    BY <1>1 DEF Interrupted
  <2> QED
    BY <1>1, <2>1, ModeCalm DEF SetupInv
<1>6. FounderInv'
  <2>1. CASE UNCHANGED promises /\ p = "check"
    <3>1. \A m : Carries(m, req'[r])
      BY <1>1, <2>1 DEF Carries
    <3> QED
      BY <1>1, <1>2, <2>1, <3>1, FoundersCalm DEF UsersFileKept, SetupInv, promises, Interrupted
  <2>2. CASE founders' = {} /\ enrolled' = {}
    BY <2>2, NoFounder
  <2> QED
    BY <2>1, <2>2
<1>7. \A o \in Req : FoundingAt(o)' /\ ResetAt(o)'
  <2>1. FoundingAt(r)' /\ ResetAt(r)'
    BY <1>1 DEF FoundingAt, ResetAt, Reload
  <2>2. \A o \in Req : o # r => FoundingAt(o)' /\ ResetAt(o)'
    BY <1>1, <1>2, InterruptedFocus DEF SetupInv, RequestInv
  <2> QED
    BY <2>1, <2>2
<1>8. FoundingInv' /\ ResetInv'
  BY <1>1, <1>7 DEF FoundingInv, ResetInv, ResetForgets
<1> QED
  BY <1>3, <1>4, <1>5, <1>6, <1>8 DEF SetupInv

LEMMA NewRequestKeeps ==
    ASSUME SetupInv, NEW r \in Req,
           \/ \E op \in {"complete", "bootstrap"}, n \in Name, cfg \in SetupConfig :
                 SetupRequest(r, op, n, cfg)
           \/ \E v \in UserVault : UpgradeRequest(r, v)
           \/ ResetRequest(r)
    PROVE  SetupInv'
<1>0. SetupTypes
  BY DEF SetupInv
<1>1. ASSUME NEW op \in Founding, NEW n \in Name, NEW c \in SetupConfig, SetupRequest(r, op, n, c)
      PROVE  SetupInv'
  <2>1. c.mode # "first" /\ Begins(r, "check", op, n, c) /\ UNCHANGED promises
    BY <1>0, <1>1, RequestSteps
  <2>2. RequestAt(req'[r])
    BY <2>1 DEF Begins, RequestAt, Founding
  <2> QED
    BY <2>1, <2>2, BeginKeeps
<1>2. ASSUME NEW v \in UserVault, UpgradeRequest(r, v) PROVE SetupInv'
  <2> DEFINE c == [mode |-> "persistent", vault |-> v]
  <2>1. Begins(r, "check", "upgrade", NoName, c) /\ UNCHANGED promises /\ c.mode = "persistent"
    BY <1>0, <1>2, RequestSteps
  <2> HIDE DEF c
  <2>2. RequestAt(req'[r])
    BY <2>1 DEF Begins, RequestAt, Founding
  <2> QED
    BY <2>1, <2>2, BeginKeeps
<1>3. ASSUME ResetRequest(r) PROVE SetupInv'
  <2>1. Begins(r, "reset", "reset", NoName, FirstRun) /\ founders' = {} /\ enrolled' = {}
    BY <1>0, <1>3, RequestSteps
  <2>2. RequestAt(req'[r])
    BY <2>1 DEF Begins, RequestAt, Founding
  <2> QED
    BY <2>1, <2>2, BeginKeeps
<1> QED
  BY <1>1, <1>2, <1>3 DEF Founding

-----------------------------------------------------------------------------
(* The handlers that found *)

LEMMA CheckStep ==
    ASSUME SetupTypes, NEW r \in Req, RequestAt(req[r]), Check(r)
    PROVE  /\ up /\ req[r].pc = "check"
           /\ \/ Ends(r)
              \/ /\ req[r].op = "complete" /\ (setup.mode = "first" \/ mem["users"] = {})
                 /\ Moves(r, "configure", req[r].cfg, req[r].saved)
              \/ /\ req[r].op = "bootstrap" /\ setup.mode # "first" /\ mem["users"] = {}
                 /\ Moves(r, "create", req[r].cfg, req[r].saved)
              \/ /\ req[r].op = "upgrade" /\ setup.mode # "persistent"
                 /\ Moves(r, "snapshot", req[r].cfg, req[r].saved)
           /\ UNCHANGED <<up, caching, setup, setupFile, setupMu, sessions, storePath, servicePath, activeVault,
                          mem, perm, temp, cut, founders, enrolled, wiped, upgraded>>
<1>1. /\ up /\ req[r].pc = "check"
      /\ Fail(r) \/ (Passes(req[r].op) /\ Goto(r, AfterCheck(req[r].op)))
      /\ UNCHANGED <<up, caching, setup, setupFile, setupMu, sessions, storePath, servicePath, activeVault,
                     mem, perm, temp, cut, founders, enrolled, wiped, upgraded>>
  BY DEF Check, At, runVars, setupVars, pathVars, dataVars, history, promises
<1>2. req[r].op \in {"complete", "bootstrap", "upgrade"}
  <2>1. req[r] \in Request
    BY DEF SetupTypes
  <2> QED
    BY <1>1, <2>1 DEF RequestAt, Request, Founding, Reload
<1>3. ASSUME Passes(req[r].op), Goto(r, AfterCheck(req[r].op))
      PROVE  \/ /\ req[r].op = "complete" /\ (setup.mode = "first" \/ mem["users"] = {})
                /\ Goto(r, "configure")
             \/ /\ req[r].op = "bootstrap" /\ setup.mode # "first" /\ mem["users"] = {}
                /\ Goto(r, "create")
             \/ /\ req[r].op = "upgrade" /\ setup.mode # "persistent"
                /\ Goto(r, "snapshot")
  BY <1>2, <1>3 DEF Passes, AfterCheck, HasAdmin
<1> QED
  BY <1>1, <1>3, FailEnds, GotoMoves

LEMMA CheckKeeps == ASSUME SetupInv, NEW r \in Req, Check(r) PROVE SetupInv'
<1>0. SetupTypes /\ RequestAt(req[r])
  BY DEF SetupInv, RequestInv
<1>1. /\ up /\ req[r].pc = "check"
      /\ UNCHANGED <<up, caching, setup, setupFile, setupMu, sessions, storePath, servicePath, activeVault,
                     mem, perm, temp, cut, founders, enrolled, wiped, upgraded>>
  BY <1>0, CheckStep
<1>2. setupMu # r
  BY <1>1 DEF SetupInv, RequestInv, Saves
<1>3. CASE Ends(r)
  <2>1. SetupTypes'
    BY <1>0, <1>1, <1>3 DEF SetupTypes, Ends
  <2>2. RequestInv'
    BY <1>0, <1>1, <1>2, <1>3, EndRequests DEF SetupInv
  <2>3. ModeInv'
    BY <1>1, <1>3, ModeCalm DEF SetupInv, Ends
  <2>4. FounderInv'
    <3>1. \A n : Carries(n, req'[r])
      BY <1>3 DEF Carries, Ends
    <3> QED
      BY <1>0, <1>1, <1>3, <3>1, FoundersCalm DEF UsersFileKept, SetupInv, Ends
  <2>5. FoundingInv' /\ ResetInv'
    BY <1>0, <1>1, <1>3, EndFocus DEF SetupInv
  <2> QED
    BY <2>1, <2>2, <2>3, <2>4, <2>5 DEF SetupInv
<1>4. ASSUME NEW p \in {"configure", "create", "snapshot"}, Moves(r, p, req[r].cfg, req[r].saved),
             \/ /\ req[r].op = "complete" /\ p = "configure"
                /\ setup.mode = "first" \/ mem["users"] = {}
             \/ /\ req[r].op = "bootstrap" /\ p = "create" /\ setup.mode # "first"
                /\ mem["users"] = {}
             \/ req[r].op = "upgrade" /\ p = "snapshot"
      PROVE  SetupInv'
  <2>1. SetupTypes'
    BY <1>0, <1>1, <1>4 DEF SetupTypes, Moves
  <2>2. RequestInv'
    <3>1. RequestAt(req'[r])
      BY <1>0, <1>1, <1>4 DEF RequestAt, Moves, Founding
    <3>2. p \notin Saves /\ p # "idle"
      BY DEF Saves
    <3> QED
      BY <1>0, <1>1, <1>2, <1>4, <3>1, <3>2, MoveRequests DEF SetupInv
  <2>3. ModeInv'
    BY <1>1, <1>4, ModeCalm DEF SetupInv, Moves
  <2>4. FounderInv'
    <3>1. CASE p # "snapshot"
      <4>1. founders = {}
        BY <1>1, <1>4, <3>1 DEF SetupInv, FounderInv, Account
      <4> QED
        BY <1>0, <1>1, <4>1, NoFounderYet DEF promises
    <3>2. CASE p = "snapshot"
      <4>1. req'[r].op = "upgrade" /\ req'[r].pc = "snapshot" /\ \A n : Carries(n, req'[r])
        BY <1>4, <3>2 DEF Carries, Moves
      <4> QED
        BY <1>0, <1>1, <1>4, <4>1, FoundersCalm DEF UsersFileKept, SetupInv, Moves, Reload
    <3> QED
      BY <3>1, <3>2
  <2>5. FoundingInv' /\ ResetInv'
    <3>1. FoundingAt(r)' /\ ResetAt(r)'
      BY <1>1, <1>4 DEF FoundingAt, ResetAt, Moves, Founding, Reload
    <3> QED
      BY <1>0, <1>1, <1>4, <3>1, Focus DEF SetupInv, Moves
  <2> QED
    BY <2>1, <2>2, <2>3, <2>4, <2>5 DEF SetupInv
<1> QED
  BY <1>0, <1>3, <1>4, CheckStep

LEMMA ConfigureKeeps == ASSUME SetupInv, NEW r \in Req, Configure(r) PROVE SetupInv'
<1> DEFINE cfg == req[r].cfg
<1>0. SetupTypes /\ RequestAt(req[r]) /\ req[r] \in Request /\ cfg \in SetupConfig
  BY DEF SetupInv, RequestInv, SetupTypes, Request
<1>1. /\ up /\ req[r].pc = "configure" /\ setupMu = Nobody
      /\ UNCHANGED <<up, caching, setupMu, sessions, activeVault, mem, perm, founders, enrolled, wiped>>
  BY DEF Configure, At, runVars, promises
<1>2. founders = {} /\ req[r].op = "complete" /\ cfg.mode # "first" /\ setupMu # r
  BY <1>0, <1>1, OnlyUpgrades, SetupConstants
     DEF SetupInv, RequestAt, Request, Founding, Reload, Saves, SetupConstants
<1>3. FounderInv'
  BY <1>0, <1>1, <1>2, NoFounderYet DEF promises
<1>4. \/ /\ setup' = cfg /\ temp' = NewNames(temp)
         /\ storePath' = Renamed(storePath) /\ servicePath' = Renamed(servicePath)
         /\ upgraded' = (upgraded \/ (cfg.mode = "persistent" /\ temp["tokens"] # {}))
         /\ req' = [req EXCEPT ![r].pc = "init", ![r].cfg = FirstRun]
         /\ \/ cfg.mode = "persistent" /\ setupFile' = cfg /\ cut' = cut \ {"setup"}
            \/ cfg.mode = "temporary" /\ UNCHANGED <<setupFile, cut>>
      \/ Fail(r) /\ SetupNotWritten /\ UNCHANGED <<setup, temp, storePath, servicePath, upgraded>>
  BY DEF Configure
<1>5. CASE Fail(r) /\ SetupNotWritten /\ UNCHANGED <<setup, temp, storePath, servicePath, upgraded>>
  <2>0. Ends(r)
    BY <1>0, <1>5, FailEnds
  <2>1. SetupTypes'
    BY <1>0, <1>1, <1>5, <2>0, Strings DEF SetupTypes, Ends, SetupNotWritten
  <2>2. RequestInv'
    BY <1>0, <1>1, <1>2, <2>0, EndRequests DEF SetupInv
  <2>3. ModeInv'
    BY <1>1, <1>5, <2>0, ModeCalm DEF SetupInv, Ends, SetupNotWritten
  <2>4. FoundingInv' /\ ResetInv'
    BY <1>0, <1>1, <2>0, EndFocus DEF SetupInv
  <2> QED
    BY <1>3, <2>1, <2>2, <2>3, <2>4 DEF SetupInv
<1>6. CASE /\ setup' = cfg /\ temp' = NewNames(temp)
           /\ storePath' = Renamed(storePath) /\ servicePath' = Renamed(servicePath)
           /\ upgraded' = (upgraded \/ (cfg.mode = "persistent" /\ temp["tokens"] # {}))
           /\ req' = [req EXCEPT ![r].pc = "init", ![r].cfg = FirstRun]
           /\ \/ cfg.mode = "persistent" /\ setupFile' = cfg /\ cut' = cut \ {"setup"}
              \/ cfg.mode = "temporary" /\ UNCHANGED <<setupFile, cut>>
  <2>0. Moves(r, "init", FirstRun, req[r].saved)
    <3>1. FirstRun \in SetupConfig /\ req \in [Req -> Request]
      BY <1>0 DEF FirstRun, SetupConfig, UserVault, SetupTypes
    <3> QED
      BY <1>6, <3>1, ZenonT(40) DEF Moves, Request, Reload
  <2>1. SetupTypes'
    <3>1. Contents(temp') /\ temp'["secrets"] = {}
      BY <1>0, <1>6, NewNamesFacts
    <3>2. storePath' \in Place /\ servicePath' \in Place /\ upgraded' \in BOOLEAN
      BY <1>0, <1>6 DEF Renamed, Place, SetupTypes
    <3> QED
      BY <1>0, <1>1, <1>6, <2>0, <3>1, <3>2 DEF SetupTypes, Moves
  <2>2. RequestInv'
    <3>1. RequestAt(req'[r])
      BY <1>0, <1>2, <2>0 DEF RequestAt, Moves, Founding, Reload
    <3> QED
      BY <1>0, <1>1, <1>2, <2>0, <3>1, MoveRequests DEF SetupInv, Saves
  <2>3. ModeInv'
    <3>1. temp'["tokens"] = temp["tokens"]
      BY <1>0, <1>6, NewNamesFacts
    <3>2. cfg.mode = "persistent" => setupFile' # NoFile
      BY <1>0, <1>6, NoFileIsNoSetup DEF NoFileIsNoSetup
    <3> QED
      BY <1>0, <1>1, <1>6, <2>0, <3>1, <3>2 DEF SetupInv, ModeInv, Moves
  <2>4. FoundingInv' /\ ResetInv'
    <3>1. FoundingAt(r)' /\ ResetAt(r)'
      BY <1>2, <1>6, <2>0 DEF FoundingAt, ResetAt, Moves
    <3> QED
      BY <1>0, <1>1, <2>0, <3>1, Focus DEF SetupInv, Moves
  <2> QED
    BY <1>3, <2>1, <2>2, <2>3, <2>4 DEF SetupInv
<1> QED
  BY <1>4, <1>5, <1>6

(* A founding request stops, or changes one store, while there is no       *)
(* founder: only its own achievements matter.                              *)
LEMMA FoundingEnds ==
    ASSUME SetupInv, NEW r \in Req, req[r].pc \in {"create", "secret", "rollback"}, Fail(r), up,
           Contents(mem'), Contents(perm'), Contents(temp'), temp'["secrets"] = {},
           temp'["tokens"] = temp["tokens"], cut' \subseteq Files, "setup" \in cut' <=> "setup" \in cut,
           UNCHANGED <<up, caching, setup, setupFile, setupMu, sessions, storePath, servicePath, activeVault,
                       founders, enrolled, wiped, upgraded>>
    PROVE  SetupInv'
<1>0. SetupTypes /\ req[r].pc # "idle" /\ setupMu # r /\ Ends(r)
  BY FailEnds DEF SetupInv, RequestInv, Saves
<1>1. founders = {}
  BY OnlyUpgrades DEF SetupInv
<1>2. SetupTypes'
  BY <1>0 DEF SetupTypes, Ends
<1>3. RequestInv'
  BY <1>0, EndRequests DEF SetupInv
<1>4. ModeInv'
  BY <1>0, ModeCalm DEF SetupInv, Ends
<1>5. FounderInv'
  BY <1>0, <1>1, NoFounderYet DEF promises
<1>6. FoundingInv' /\ ResetInv'
  BY <1>0, EndFocus DEF SetupInv
<1> QED
  BY <1>2, <1>3, <1>4, <1>5, <1>6 DEF SetupInv

LEMMA FoundingMoves ==
    ASSUME SetupInv, NEW r \in Req, req[r].pc \in {"create", "secret"}, up,
           NEW p \in {"secret", "rollback", "ok"}, Goto(r, p), FoundingAt(r)',
           Contents(mem'), Contents(perm'), Contents(temp'), temp'["secrets"] = {},
           temp'["tokens"] = temp["tokens"], cut' \subseteq Files, "setup" \in cut' <=> "setup" \in cut,
           UNCHANGED <<up, caching, setup, setupFile, setupMu, sessions, storePath, servicePath, activeVault,
                       founders, enrolled, wiped, upgraded>>
    PROVE  SetupInv'
<1>0. /\ SetupTypes /\ req[r] \in Request /\ req[r].pc # "idle" /\ setupMu # r /\ RequestAt(req[r])
      /\ p # "idle" /\ p \notin Saves
  BY DEF SetupInv, RequestInv, Saves, SetupTypes
<1>1. founders = {}
  BY OnlyUpgrades DEF SetupInv
<1>2. Moves(r, p, req[r].cfg, req[r].saved)
  BY <1>0, GotoMoves DEF Reload
<1>3. SetupTypes'
  BY <1>0, <1>2 DEF SetupTypes, Moves
<1>4. req[r].op \in Founding
  BY <1>0 DEF RequestAt, Request, Saves, Reload
<1>5. RequestInv'
  <2>1. RequestAt(req'[r])
    BY <1>0, <1>2, <1>4 DEF RequestAt, Moves, Founding, Reload
  <2> QED
    BY <1>0, <1>2, <2>1, MoveRequests DEF SetupInv
<1>6. ModeInv'
  BY <1>0, <1>2, ModeCalm DEF SetupInv, Moves
<1>7. FounderInv'
  BY <1>0, <1>1, NoFounderYet DEF promises
<1>8. FoundingInv' /\ ResetInv'
  <2>1. ResetAt(r)'
    BY <1>2, <1>4 DEF ResetAt, Moves, Founding
  <2> QED
    BY <1>0, <1>2, <2>1, Focus DEF SetupInv, Moves
<1> QED
  BY <1>3, <1>5, <1>6, <1>7, <1>8 DEF SetupInv

(* With nothing else under way the stores are where the setup says.        *)
LEMMA AloneIsInPlace ==
    ASSUME SetupInv, NEW r \in Req, req[r].pc \in {"create", "secret"}, req[r].alone, up,
           setup.mode # "first"
    PROVE  storePath = PlaceOf(setup) /\ activeVault = setup.vault
<1>1. \A o \in Req : req[o].pc \notin {"init", "reinit"}
  BY DEF SetupInv, RequestInv
<1> QED
  BY <1>1 DEF SetupInv, ModeInv

LEMMA CreateUserKeeps == ASSUME SetupInv, NEW r \in Req, CreateUser(r) PROVE SetupInv'
<1> DEFINE users == mem["users"] \cup {req[r].name}
<1>0. SetupTypes /\ RequestAt(req[r]) /\ req[r] \in Request
  BY DEF SetupInv, RequestInv, SetupTypes
<1>1. /\ up /\ req[r].pc = "create"
      /\ UNCHANGED <<up, caching, setup, setupFile, setupMu, sessions, storePath, servicePath, activeVault,
                     founders, enrolled, wiped, upgraded>>
  BY DEF CreateUser, At, runVars, setupVars, pathVars, history, promises
<1>2. req[r].name \in Name /\ req[r].op \in Founding
  BY <1>0, <1>1 DEF RequestAt, Request, Saves, Reload
<1>3. "users" \in Stores /\ users \subseteq Allowed("users") /\ "tokens" \in Stores
  BY <1>0, <1>2, Strings DEF SetupTypes, Contents, Allowed
<1>4. /\ req[r].name \in users
      /\ \/ Written("users", users) /\ Goto(r, "secret")
         \/ NotWritten("users", users) /\ Fail(r)
         \/ Fail(r) /\ UNCHANGED dataVars
  BY DEF CreateUser
<1> HIDE DEF users
<1>5. ASSUME Written("users", users) \/ NotWritten("users", users)
      PROVE  /\ Contents(mem') /\ Contents(perm') /\ Contents(temp') /\ temp'["secrets"] = {}
             /\ temp'["tokens"] = temp["tokens"] /\ mem'["users"] = users
             /\ cut' \subseteq Files /\ ("setup" \in cut' <=> "setup" \in cut)
  BY <1>0, <1>3, <1>5, WrittenFacts DEF OthersKept
<1>6. CASE NotWritten("users", users) /\ Fail(r)
  BY <1>1, <1>5, <1>6, FoundingEnds
<1>7. CASE Fail(r) /\ UNCHANGED dataVars
  <2>1. UNCHANGED <<mem, perm, temp, cut>>
    BY <1>7 DEF dataVars
  <2>2. /\ Contents(mem') /\ Contents(perm') /\ Contents(temp') /\ temp'["secrets"] = {}
        /\ temp'["tokens"] = temp["tokens"] /\ cut' \subseteq Files
        /\ "setup" \in cut' <=> "setup" \in cut
    BY <1>0, <2>1 DEF SetupTypes
  <2> QED
    BY <1>1, <1>7, <2>2, FoundingEnds
<1>8. CASE Written("users", users) /\ Goto(r, "secret")
  <2>0. Moves(r, "secret", req[r].cfg, req[r].saved)
    BY <1>0, <1>8, GotoMoves
  <2>1. FoundingAt(r)'
    <3> SUFFICES ASSUME req'[r].alone PROVE setup.mode # "first" /\ Account(req[r].name)'
      BY <1>1, <2>0 DEF FoundingAt, Moves, Account, Reload
    <3>1. setup.mode # "first"
      BY <1>1, <1>2, <2>0 DEF SetupInv, FoundingInv, FoundingAt, Moves
    <3>2. storePath = PlaceOf(setup)
      BY <1>1, <2>0, <3>1, AloneIsInPlace DEF Moves
    <3>3. setup.mode = "persistent" => users \subseteq perm'["users"]
      BY <1>0, <1>3, <1>8, <3>2, Paths, WrittenFacts DEF PlaceOf
    <3> QED
      BY <1>1, <1>4, <1>5, <1>8, <2>0, <3>1, <3>3 DEF Account, Moves
  <2> QED
    BY <1>1, <1>5, <1>8, <2>1, FoundingMoves
<1> QED
  BY <1>4, <1>6, <1>7, <1>8

LEMMA StoreUserSecretKeeps == ASSUME SetupInv, NEW r \in Req, StoreUserSecret(r) PROVE SetupInv'
<1>0. SetupTypes /\ RequestAt(req[r]) /\ req[r] \in Request
  BY DEF SetupInv, RequestInv, SetupTypes
<1>1. /\ up /\ req[r].pc = "secret"
      /\ UNCHANGED <<up, caching, setup, setupFile, setupMu, sessions, storePath, servicePath, activeVault,
                     wiped, upgraded>>
  BY DEF StoreUserSecret, At, runVars, setupVars, pathVars
<1>2. /\ req[r].name \in Name /\ req[r].op \in Founding /\ founders = {} /\ enrolled = {}
      /\ "users" \in Stores /\ "tokens" \in Stores
  BY <1>0, <1>1, OnlyUpgrades, Strings
     DEF SetupInv, SetupTypes, RequestAt, Request, Saves, Reload
<1>3. PICK names \in SUBSET Name : names = {req[r].name}
  BY <1>2
<1>4. \/ VaultStores(names) /\ Goto(r, "ok")
      \/ VaultFails /\ Goto(r, "rollback")
  BY <1>3 DEF StoreUserSecret
<1>5. CASE VaultFails /\ Goto(r, "rollback")
  <2>0. Moves(r, "rollback", req[r].cfg, req[r].saved)
    BY <1>0, <1>5, GotoMoves
  <2>1. FoundingAt(r)'
    BY <2>0 DEF FoundingAt, Moves, Reload
  <2>2. OthersKept("secrets") /\ founders' = founders /\ enrolled' = enrolled
    BY <1>0, <1>2, <1>5, VaultFacts
  <2> QED
    BY <1>1, <1>2, <1>5, <2>1, <2>2, FoundingMoves, Strings DEF OthersKept
<1>6. CASE VaultStores(names) /\ Goto(r, "ok")
  <2>0. Moves(r, "ok", req[r].cfg, req[r].saved)
    BY <1>0, <1>6, GotoMoves DEF Reload
  <2>1. /\ OthersKept("secrets") /\ temp' = temp /\ cut' = cut
        /\ founders' = founders /\ enrolled' = enrolled
        /\ mem'["secrets"] = mem["secrets"] \cup names
        /\ activeVault = "file" => names \subseteq perm'["secrets"]
    BY <1>0, <1>6, VaultFacts DEF promises
  <2>2. FoundingAt(r)'
    <3> DEFINE n == req[r].name
    <3> SUFFICES ASSUME req'[r].alone
                 PROVE  setup.mode # "first" /\ Account(req[r].name)' /\ Secret(req[r].name)'
      BY <1>1, <2>0 DEF FoundingAt
    <3>1. setup.mode # "first" /\ Account(n) /\ req[r].alone
      BY <1>1, <1>2, <2>0 DEF SetupInv, FoundingInv, FoundingAt, Moves
    <3>2. activeVault = setup.vault
      BY <1>1, <3>1, AloneIsInPlace
    <3>3. setup.vault = "file" => n \in perm'["secrets"]
      BY <1>3, <2>1, <3>2
    <3>4. ASSUME NEW o \in Req PROVE req'[o].op # "upgrade"
      <4>1. o # r => req[o].op = "none"
        BY <1>0, <1>1, <3>1, BusyHasPlace DEF SetupInv, RequestInv
      <4> QED
        BY <1>2, <2>0, <4>1 DEF Moves, Founding
    <3>5. n \in mem'["secrets"] /\ req'[r].name = n
      BY <1>3, <2>0, <2>1 DEF Moves
    <3>6. Safe(req[r].name)'
      BY <1>1, <3>4, <3>5 DEF Safe, Carries
    <3>7. Secret(req[r].name)'
      BY <1>1, <3>3, <3>5, <3>6 DEF Secret
    <3>8. Account(req[r].name)'
      BY <1>1, <1>2, <2>1, <3>1, <3>5 DEF Account, OthersKept
    <3> QED
      BY <3>1, <3>7, <3>8
  <2> QED
    BY <1>1, <1>2, <1>6, <2>1, <2>2, FoundingMoves, Strings DEF OthersKept
<1> QED
  BY <1>4, <1>5, <1>6

LEMMA RollBackKeeps == ASSUME SetupInv, NEW r \in Req, RollBack(r) PROVE SetupInv'
<1> DEFINE users == mem["users"] \ {req[r].name}
<1>0. SetupTypes
  BY DEF SetupInv
<1>1. /\ up /\ req[r].pc = "rollback" /\ Fail(r)
      /\ Written("users", users) \/ NotWritten("users", mem["users"])
      /\ UNCHANGED <<up, caching, setup, setupFile, setupMu, sessions, storePath, servicePath, activeVault,
                     founders, enrolled, wiped, upgraded>>
  BY DEF RollBack, At, runVars, setupVars, pathVars, history, promises
<1>2. "users" \in Stores /\ users \subseteq Allowed("users") /\ "tokens" \in Stores
  BY <1>0, Strings DEF SetupTypes, Contents, Allowed
<1> HIDE DEF users
<1>3. OthersKept("users")
  <2>1. CASE Written("users", users)
    BY <1>0, <1>2, <2>1, WrittenFacts
  <2>2. CASE NotWritten("users", mem["users"])
    BY <1>1, <2>2, UsersRewritten
  <2> QED
    BY <1>1, <2>1, <2>2
<1> QED
  BY <1>1, <1>2, <1>3, FoundingEnds, Strings DEF OthersKept

-----------------------------------------------------------------------------
(* ReloadRuntime *)

(* What an upgrade that has switched, or a request that reloads, is.       *)
LEMMA ReloadPlaces ==
    ASSUME SetupInv, NEW r \in Req, req[r].pc \in {"reinit", "migrate"} \cup Reload
    PROVE  /\ SetupTypes /\ RequestAt(req[r]) /\ req[r] \in Request /\ setupMu # r /\ up
           /\ req[r].pc # "idle"
           /\ req[r].pc \in {"reinit", "migrate"} => req[r].op = "upgrade"
           /\ req[r].op \in {"complete", "upgrade", "reset"} \/ req[r].pc = "ok"
           /\ founders # {} => req[r].op = "upgrade" /\ setup.mode = "persistent"
<1>1. SetupTypes /\ RequestAt(req[r]) /\ req[r] \in Request
  BY DEF SetupInv, SetupTypes, RequestInv
<1>2. req[r].pc \notin Saves \cup {"idle", "check"}
  BY DEF Reload, Saves
<1>3. setupMu # r /\ up
  BY <1>1, <1>2 DEF SetupInv, RequestInv, SetupTypes
<1>4. /\ req[r].pc \in {"reinit", "migrate"} => req[r].op = "upgrade"
      /\ req[r].op \in {"complete", "upgrade", "reset"} \/ req[r].pc = "ok"
  BY <1>1, <1>2 DEF RequestAt, Request, Founding, Reload
<1>5. founders # {} => req[r].op = "upgrade" /\ setup.mode = "persistent"
  BY <1>2 DEF SetupInv, FounderInv
<1> QED
  BY <1>1, <1>2, <1>3, <1>4, <1>5

LEMMA OpenedKeeps ==
    ASSUME SetupInv, NEW r \in Req, NEW p, Opened(r, p),
           \/ req[r].pc = "init" /\ p = "limits"
           \/ req[r].pc = "reinit" /\ p = "migrate"
    PROVE  SetupInv'
<1>0. /\ SetupTypes /\ RequestAt(req[r]) /\ req[r] \in Request /\ setupMu # r /\ up
      /\ req[r].pc # "idle"
      /\ req[r].pc = "reinit" => req[r].op = "upgrade"
      /\ founders # {} => req[r].op = "upgrade" /\ setup.mode = "persistent"
  BY ReloadPlaces DEF Reload
<1>1. /\ storePath' = PlaceOf(setup) /\ activeVault' = setup.vault
      /\ mem' = [mem EXCEPT !["secrets"] = {},
                            !["users"] = IF PlaceOf(setup) = "perm" THEN perm["users"]
                                         ELSE temp["users"]]
      /\ founders' = IF PlaceOf(setup) = "perm" /\ "users" \in cut THEN {} ELSE founders
      /\ enrolled' = enrolled \cap founders'
      /\ Goto(r, p)
      /\ UNCHANGED <<up, caching, setup, setupFile, setupMu, sessions, servicePath, perm, temp, cut,
                     wiped, upgraded>>
  BY DEF Opened, runVars, setupVars
<1>2. Moves(r, p, req[r].cfg, req[r].saved)
  BY <1>0, <1>1, GotoMoves DEF Reload
<1> DEFINE u == IF PlaceOf(setup) = "perm" THEN perm["users"] ELSE temp["users"]
<1>3. /\ Contents(mem') /\ mem'["secrets"] = {} /\ mem'["users"] = u
  <2>1. /\ mem \in [Stores -> SUBSET (Name \cup {Entry})] /\ u \in SUBSET Name
        /\ "users" \in Stores /\ "secrets" \in Stores
        /\ \A x \in Stores : mem[x] \subseteq Allowed(x)
        /\ Allowed("users") = Name /\ Allowed("secrets") = Name
    BY <1>0, Strings DEF SetupTypes, Contents, Allowed
  <2>2. mem' = [mem EXCEPT !["secrets"] = {}, !["users"] = u]
    BY <1>1
  <2> HIDE DEF u
  <2> QED
    BY <2>1, <2>2 DEF Contents
<1>4. SetupTypes'
  BY <1>0, <1>1, <1>2, <1>3, PlaceFacts DEF SetupTypes, Moves, SetupConfig
<1>5. RequestInv'
  <2>1. RequestAt(req'[r])
    BY <1>0, <1>2 DEF RequestAt, Moves, Founding, Reload, Saves
  <2>2. p \notin Saves /\ p # "idle"
    BY DEF Saves
  <2> QED
    BY <1>0, <1>1, <1>2, <2>1, <2>2, MoveRequests DEF SetupInv
<1>6. ModeInv'
  BY <1>0, <1>1 DEF SetupInv, ModeInv, PlaceOf
<1>7. FounderInv'
  <2>1. CASE founders' = {}
    BY <1>1, <2>1, NoFounder
  <2>2. CASE founders' # {}
    <3>0. /\ setup.mode = "persistent" /\ PlaceOf(setup) = "perm" /\ req[r].op = "upgrade"
          /\ founders # {} /\ founders' = founders /\ enrolled' = enrolled /\ "users" \notin cut
      BY <1>0, <1>1, <2>2 DEF PlaceOf, SetupTypes
    <3>1. \A o \in Req : \/ req'[o].pc \in {"idle", "check"}
                        \/ req'[o].op = "upgrade"
      BY <1>2, <2>2, <3>0 DEF SetupInv, FounderInv, Moves
    <3>2. \A n \in founders : Account(n)'
      BY <1>1, <1>3, <3>0 DEF SetupInv, FounderInv, Account
    <3>3. ASSUME NEW n \in enrolled PROVE Secret(n)'
      <4>1. Secret(n)
        BY DEF SetupInv, FounderInv
      <4>2. setup.vault = "file" /\ ~Migrating' => n \in perm["secrets"]
        <5>1. Migrating => Migrating'
          BY <1>2 DEF Migrating, Moves
        <5> QED
          BY <4>1, <5>1 DEF Secret
      <4>3. Safe(n)'
        <5>1. CASE n \in perm["secrets"]
          BY <1>1, <5>1 DEF Safe
        <5>2. CASE \A o \in Req : Carries(n, req[o])
          <6>1. req[r].pc = "reinit" /\ p = "migrate" /\ n \in req[r].saved
            BY <3>0, <5>2 DEF Carries, Saves
          <6>2. req'[r].pc = "migrate" /\ n \in req'[r].saved
            BY <1>2, <6>1 DEF Moves
          <6> QED
            BY <1>0, <1>1, <6>2 DEF Safe
        <5>3. CASE \E o \in Req : req[o].pc = "migrate" /\ n \in req[o].saved
          <6>1. PICK o \in Req : req[o].pc = "migrate" /\ n \in req[o].saved
            BY <5>3
          <6>2. o # r /\ req'[o] = req[o]
            BY <1>2, <6>1 DEF Moves
          <6> QED
            BY <1>0, <1>1, <6>1, <6>2 DEF Safe
        <5> QED
          BY <4>1, <5>1, <5>2, <5>3 DEF Secret, Safe
      <4> QED
        BY <1>1, <3>0, <4>2, <4>3 DEF Secret
    <3> QED
      BY <1>1, <3>0, <3>1, <3>2, <3>3 DEF FounderInv
  <2> QED
    BY <2>1, <2>2
<1>8. FoundingInv' /\ ResetInv'
  <2>1. FoundingAt(r)'
    BY <1>0, <1>1, <1>2 DEF SetupInv, FoundingInv, FoundingAt, Moves, Reload, Founding
  <2>2. ResetAt(r)'
    <3> SUFFICES ASSUME req'[r].alone, req'[r].op = "reset"
                 PROVE  p = "limits" /\ ResetFiles' /\ mem'["users"] = {} /\ mem'["secrets"] = {}
      BY <1>2 DEF ResetAt, Moves
    <3>1. p = "limits" /\ ResetFiles
      BY <1>0, <1>2 DEF SetupInv, ResetInv, ResetAt, Moves, Reload
    <3> QED
      BY <1>1, <1>3, <3>1 DEF ResetFiles, PlaceOf
  <2> QED
    BY <1>0, <1>1, <1>2, <2>1, <2>2, Focus DEF SetupInv, Moves
<1> QED
  BY <1>4, <1>5, <1>6, <1>7, <1>8 DEF SetupInv

(* The stores after the users: one of them changes in memory.              *)
LEMMA LoadKeeps ==
    ASSUME SetupInv, NEW r \in Req, NEW x \in Edited, NEW c, c \subseteq Allowed(x),
           mem' = [mem EXCEPT ![x] = c],
           UNCHANGED <<up, caching, setup, setupFile, setupMu, sessions, storePath, activeVault, perm, temp, cut,
                       founders, enrolled, wiped, upgraded>>,
           servicePath' \in Place, req[r].pc \in {"limits", "services", "tokens"},
           NEW p \in {"services", "tokens", "create", "ok"}, Goto(r, p),
           p = "create" => req[r].op = "complete",
           req[r].pc = "limits" => p = "services",
           req[r].pc = "services" => p = "tokens" /\ x = "services" /\ (setup.mode = "first" => c = temp[x]),
           req[r].pc = "tokens" => x = "tokens" /\ p \in {"create", "ok"}
                                     /\ (setup.mode = "first" => c = temp[x]),
           req[r].op = "complete" => p # "ok",
           x = "services" => req[r].pc = "services"
    PROVE  SetupInv'
<1>0. /\ SetupTypes /\ RequestAt(req[r]) /\ req[r] \in Request /\ setupMu # r /\ up
      /\ req[r].pc # "idle"
      /\ req[r].op \in {"complete", "upgrade", "reset"}
      /\ founders # {} => req[r].op = "upgrade" /\ setup.mode = "persistent"
  BY ReloadPlaces DEF Reload
<1>1. Moves(r, p, req[r].cfg, req[r].saved)
  BY <1>0, GotoMoves DEF Reload
<1>2. /\ Contents(mem') /\ mem'[x] = c /\ \A y \in Stores : y # x => mem'[y] = mem[y]
      /\ mem'["users"] = mem["users"] /\ mem'["secrets"] = mem["secrets"]
  BY <1>0, LoadedFacts, Strings
<1>3. SetupTypes'
  BY <1>0, <1>1, <1>2 DEF SetupTypes, Moves
<1>4. RequestInv'
  <2>1. RequestAt(req'[r])
    BY <1>0, <1>1 DEF RequestAt, Moves, Founding, Reload, Saves
  <2>2. p \notin Saves /\ p # "idle"
    BY DEF Saves
  <2> QED
    BY <1>0, <1>1, <2>1, <2>2, MoveRequests DEF SetupInv
<1>5. ModeInv'
  BY <1>0, <1>1, ModeCalm DEF SetupInv, Moves
<1>6. FounderInv'
  <2>1. CASE founders = {}
    BY <1>0, <2>1, NoFounderYet DEF promises
  <2>2. CASE founders # {}
    <3>1. /\ req[r].op = "upgrade" /\ setup.mode = "persistent" /\ req'[r].op = "upgrade"
          /\ req'[r].pc = p /\ \A n : ~Carries(n, req[r])
      BY <1>0, <1>1, <2>2 DEF Carries, Saves, Moves
    <3> QED
      BY <1>0, <1>1, <1>2, <3>1, FoundersCalm DEF UsersFileKept, SetupInv, Moves
  <2> QED
    BY <2>1, <2>2
<1>7. FoundingInv' /\ ResetInv'
  <2>1. FoundingAt(r)'
    BY <1>0, <1>1 DEF SetupInv, FoundingInv, FoundingAt, Moves, Reload, Founding
  <2>2. ResetAt(r)'
    <3> SUFFICES ASSUME req'[r].alone, req'[r].op = "reset"
                 PROVE  /\ ResetFiles' /\ mem'["users"] = {} /\ mem'["secrets"] = {}
                        /\ p \in {"tokens", "ok"} => mem'["services"] = {}
                        /\ p = "ok" /\ mem'["tokens"] # {} => upgraded
      BY <1>1 DEF ResetAt, Moves
    <3>1. /\ ResetFiles /\ mem["users"] = {} /\ mem["secrets"] = {}
          /\ req[r].pc = "tokens" => mem["services"] = {}
      BY <1>1 DEF SetupInv, ResetInv, ResetAt, Moves, Reload
    <3>2. ResetFiles'
      BY <3>1 DEF ResetFiles
    <3>3. p \in {"tokens", "ok"} => mem'["services"] = {}
      BY <1>2, <3>1, Strings DEF ResetFiles
    <3>4. p = "ok" /\ mem'["tokens"] # {} => upgraded
      BY <1>2, <3>1 DEF ResetFiles
    <3> QED
      BY <1>2, <3>1, <3>2, <3>3, <3>4
  <2> QED
    BY <1>0, <1>1, <2>1, <2>2, Focus DEF SetupInv, Moves
<1> QED
  BY <1>3, <1>4, <1>5, <1>6, <1>7 DEF SetupInv

LEMMA LoadRateLimitsKeeps == ASSUME SetupInv, NEW r \in Req, LoadRateLimits(r) PROVE SetupInv'
<1> DEFINE f == IF PlaceOf(setup) = "perm" THEN perm["limits"] ELSE temp["limits"]
           c == IF f = {} THEN mem["limits"] ELSE f
<1>1. /\ req[r].pc = "limits" /\ Goto(r, "services")
      /\ mem' = IF f = {} THEN mem ELSE [mem EXCEPT !["limits"] = f]
      /\ UNCHANGED <<up, caching, setup, setupFile, setupMu, sessions, storePath, servicePath, activeVault, perm,
                     temp, cut, founders, enrolled, wiped, upgraded>>
  BY DEF LoadRateLimits, At, runVars, setupVars, pathVars, history, promises
<1>2. c \subseteq Allowed("limits") /\ servicePath' \in Place
  BY <1>1, Strings DEF SetupInv, SetupTypes, Contents
<1>3. mem' = [mem EXCEPT !["limits"] = c]
  <2>1. mem \in [Stores -> SUBSET (Name \cup {Entry})]
    BY DEF SetupInv, SetupTypes, Contents
  <2> QED
    BY <1>1, <2>1
<1> HIDE DEF c
<1> QED
  BY <1>1, <1>2, <1>3, LoadKeeps, Strings, ZenonT(40)

LEMMA LoadServicesKeeps == ASSUME SetupInv, NEW r \in Req, LoadServices(r) PROVE SetupInv'
<1> DEFINE c == IF PlaceOf(setup) = "perm" THEN perm["services"] ELSE temp["services"]
<1>1. /\ req[r].pc = "services" /\ Goto(r, "tokens")
      /\ mem' = [mem EXCEPT !["services"] = c] /\ servicePath' = PlaceOf(setup)
      /\ UNCHANGED <<up, caching, setup, setupFile, setupMu, sessions, storePath, activeVault, perm,
                     temp, cut, founders, enrolled, wiped, upgraded>>
  BY DEF LoadServices, At, runVars, setupVars, history, promises
<1>2. /\ c \subseteq Allowed("services") /\ servicePath' \in Place
      /\ setup.mode = "first" => c = temp["services"]
  BY <1>1, Strings DEF SetupInv, SetupTypes, Contents, PlaceOf, Place
<1> HIDE DEF c
<1> QED
  BY <1>1, <1>2, LoadKeeps, Strings

LEMMA LoadTokensKeeps == ASSUME SetupInv, NEW r \in Req, LoadTokens(r) PROVE SetupInv'
<1> DEFINE c == IF PlaceOf(setup) = "perm" THEN perm["tokens"] ELSE temp["tokens"]
           p == IF req[r].op = "complete" THEN "create" ELSE "ok"
<1>1. /\ req[r].pc = "tokens"
      /\ \/ mem' = [mem EXCEPT !["tokens"] = c] /\ Goto(r, p)
         \/ mem' = [mem EXCEPT !["tokens"] = {}] /\ Fail(r)
      /\ UNCHANGED <<up, caching, setup, setupFile, setupMu, sessions, storePath, servicePath, activeVault, perm,
                     temp, cut, founders, enrolled, wiped, upgraded>>
  BY DEF LoadTokens, At, runVars, setupVars, pathVars, history, promises
<1>2. /\ c \subseteq Allowed("tokens") /\ servicePath' \in Place
      /\ setup.mode = "first" => c = temp["tokens"]
      /\ p \in {"create", "ok"} /\ (p = "create" <=> req[r].op = "complete")
  BY <1>1, Strings DEF SetupInv, SetupTypes, Contents, PlaceOf
<1>3. CASE mem' = [mem EXCEPT !["tokens"] = c] /\ Goto(r, p)
  <2> HIDE DEF c, p
  <2> QED
    BY <1>1, <1>2, <1>3, LoadKeeps, Strings
<1>4. CASE mem' = [mem EXCEPT !["tokens"] = {}] /\ Fail(r)
  <2>0. /\ SetupTypes /\ setupMu # r /\ up /\ req[r].pc # "idle" /\ Ends(r)
    BY <1>1, <1>4, ReloadPlaces, FailEnds DEF Reload
  <2>1. /\ Contents(mem') /\ mem'["users"] = mem["users"] /\ mem'["secrets"] = mem["secrets"]
    <3> DEFINE none == {}
    <3>1. none \subseteq Allowed("tokens") /\ mem' = [mem EXCEPT !["tokens"] = none]
      BY <1>4
    <3> HIDE DEF none
    <3> QED
      BY <2>0, <3>1, LoadedFacts, Strings
  <2>2. SetupTypes'
    BY <1>1, <2>0, <2>1 DEF SetupTypes, Ends
  <2>3. RequestInv'
    BY <1>1, <2>0, EndRequests DEF SetupInv
  <2>4. ModeInv'
    BY <1>1, <2>0, ModeCalm DEF SetupInv, Ends
  <2>5. FounderInv'
    <3>1. \A n : Carries(n, req'[r])
      BY <2>0 DEF Carries, Ends
    <3> QED
      BY <1>1, <2>0, <2>1, <3>1, FoundersCalm DEF UsersFileKept, SetupInv, Ends
  <2>6. FoundingInv' /\ ResetInv'
    BY <1>1, <2>0, EndFocus DEF SetupInv
  <2> QED
    BY <2>2, <2>3, <2>4, <2>5, <2>6 DEF SetupInv
<1> QED
  BY <1>1, <1>3, <1>4

-----------------------------------------------------------------------------
(* UpgradeStorageHandler *)

(* An upgrade before its switch goes on, or gives up; the founder's data   *)
(* are left alone.                                                         *)
Early == {"snapshot", "writeSetup"} \cup Saves

LEMMA EarlyPlaces ==
    ASSUME SetupInv, NEW r \in Req, req[r].pc \in Early
    PROVE  /\ SetupTypes /\ RequestAt(req[r]) /\ req[r] \in Request /\ up /\ req[r].pc # "idle"
           /\ req[r].op = "upgrade" /\ req[r].cfg.mode = "persistent" /\ req[r].cfg \in SetupConfig
           /\ req[r].pc \in Saves <=> setupMu = r
<1>1. /\ SetupTypes /\ RequestAt(req[r]) /\ req[r] \in Request
      /\ (~up => req[r].pc = "idle") /\ (req[r].pc \in Saves <=> setupMu = r)
  BY DEF SetupInv, SetupTypes, RequestInv
<1>2. req[r].pc # "idle"
  BY DEF Early, Saves
<1>3. req[r].op = "upgrade"
  BY <1>1, <1>2 DEF RequestAt, Request, Founding, Reload, Early, Saves
<1>4. req[r].cfg.mode = "persistent" /\ req[r].cfg \in SetupConfig
  BY <1>1, <1>3 DEF RequestAt, Request, Early
<1> QED
  BY <1>1, <1>2, <1>3, <1>4

LEMMA EarlyEnds ==
    ASSUME SetupInv, NEW r \in Req, req[r].pc \in Early, Fail(r),
           Contents(mem'), Contents(perm'), Contents(temp'), temp'["secrets"] = {},
           temp'["tokens"] = temp["tokens"], cut' \subseteq Files,
           \/ setupFile' = setupFile /\ ("setup" \in cut => "setup" \in cut')
           \/ setupFile' = NoFile /\ "setup" \in cut',
           \A x \in {"users", "secrets"} : mem'[x] = mem[x],
           perm'["secrets"] = perm["secrets"], UsersFileKept,
           setupMu' = IF setupMu = r THEN Nobody ELSE setupMu,
           UNCHANGED <<up, caching, setup, sessions, storePath, servicePath, activeVault,
                       founders, enrolled, wiped, upgraded>>
    PROVE  SetupInv'
<1>0. /\ SetupTypes /\ up /\ req[r].pc # "idle" /\ req[r].op = "upgrade" /\ Ends(r)
      /\ Nobody \notin Req
  BY EarlyPlaces, FailEnds, SetupConstants DEF SetupConstants
<1>1. SetupTypes'
  BY <1>0 DEF SetupTypes, Ends
<1>2. RequestInv'
  BY <1>0, EndRequests DEF SetupInv
<1>3. ModeInv'
  BY <1>0, ModeCalm DEF SetupInv, Ends, Early, Saves
<1>4. FounderInv'
  <2>1. \A n : Carries(n, req'[r])
    BY <1>0 DEF Carries, Ends
  <2>2. req[r].pc \notin {"reinit", "migrate"}
    BY DEF Early, Saves
  <2> QED
    BY <1>0, <2>1, <2>2, FoundersCalm DEF UsersFileKept, SetupInv, Ends
<1>5. FoundingInv' /\ ResetInv'
  BY <1>0, EndFocus DEF SetupInv
<1> QED
  BY <1>1, <1>2, <1>3, <1>4, <1>5 DEF SetupInv

LEMMA EarlyMoves ==
    ASSUME SetupInv, NEW r \in Req, req[r].pc \in Early,
           NEW p \in Early, NEW s, Moves(r, p, req[r].cfg, s),
           \/ req[r].pc = "snapshot" /\ s = mem["secrets"]
           \/ req[r].pc # "snapshot" /\ s = req[r].saved,
           p # "snapshot", p \in Saves <=> setupMu' = r, setupMu \in {r, Nobody} \/ setupMu' = setupMu,
           setupMu' \in {r, setupMu},
           Contents(mem'), Contents(perm'), Contents(temp'), temp'["secrets"] = {},
           temp'["tokens"] = temp["tokens"], cut' \subseteq Files,
           \A x \in {"users", "secrets"} : mem'[x] = mem[x],
           perm'["secrets"] = perm["secrets"], UsersFileKept,
           \/ setupFile' = setupFile /\ setupMu' = setupMu /\ ("setup" \in cut => "setup" \in cut')
           \/ setupFile' = req[r].cfg,
           UNCHANGED <<up, caching, setup, sessions, storePath, servicePath, activeVault,
                       founders, enrolled, wiped, upgraded>>
    PROVE  SetupInv'
<1>0. /\ SetupTypes /\ RequestAt(req[r]) /\ req[r] \in Request /\ up /\ req[r].pc # "idle"
      /\ req[r].op = "upgrade" /\ req[r].cfg.mode = "persistent" /\ req[r].cfg \in SetupConfig
      /\ Nobody \notin Req /\ p # "idle" /\ req[r].cfg # NoFile
  BY EarlyPlaces, SetupConstants, NoFileIsNoSetup DEF SetupConstants, NoFileIsNoSetup, Early, Saves
<1>1. SetupTypes'
  BY <1>0 DEF SetupTypes, Moves
<1>2. RequestInv'
  <2>1. RequestAt(req'[r])
    BY <1>0 DEF RequestAt, Moves, Founding, Early
  <2> QED
    BY <1>0, <2>1, MoveRequests DEF SetupInv
<1>3. ModeInv'
  <2>1. \A o \in Req : req[o].pc \in {"init", "reinit"} => req'[o].pc \in {"init", "reinit"}
    BY DEF Moves, Early, Saves
  <2> QED
    BY <1>0, <2>1 DEF SetupInv, ModeInv, PlaceOf
<1>4. FounderInv'
  <2>1. ASSUME NEW n \in mem["secrets"], Carries(n, req[r]) PROVE Carries(n, req'[r])
    BY <1>0, <2>1 DEF Carries, Moves, Early, Saves
  <2>2. /\ {req[r].pc, p} \cap {"reinit", "migrate"} = {} /\ p \notin Reload
        /\ req'[r].pc = p /\ req'[r].op = "upgrade"
    BY <1>0 DEF Early, Saves, Moves, Reload
  <2> QED
    BY <1>0, <2>1, <2>2, FoundersCalm DEF UsersFileKept, SetupInv, Moves
<1>5. FoundingInv' /\ ResetInv'
  <2>1. FoundingAt(r)' /\ ResetAt(r)'
    BY <1>0 DEF FoundingAt, ResetAt, Moves, Founding
  <2> QED
    BY <1>0, <2>1, Focus DEF SetupInv, Moves
<1> QED
  BY <1>1, <1>2, <1>3, <1>4, <1>5 DEF SetupInv

LEMMA SnapshotSecretsKeeps == ASSUME SetupInv, NEW r \in Req, SnapshotSecrets(r) PROVE SetupInv'
<1>1. /\ req[r].pc = "snapshot"
      /\ req' = [req EXCEPT ![r].saved = mem["secrets"], ![r].pc = "writeSetup"]
      /\ UNCHANGED <<up, caching, setup, setupFile, setupMu, sessions, storePath, servicePath, activeVault, mem,
                     perm, temp, cut, founders, enrolled, wiped, upgraded>>
  BY DEF SnapshotSecrets, At, runVars, setupVars, pathVars, dataVars, history, promises
<1>2. /\ "snapshot" \in Early /\ "writeSetup" \in Early /\ "writeSetup" \notin Saves
      /\ req[r].pc \notin Saves
  BY <1>1 DEF Early, Saves
<1>3. SetupTypes /\ setupMu # r
  BY <1>1, <1>2, EarlyPlaces
<1>4. Moves(r, "writeSetup", req[r].cfg, mem["secrets"])
  <2>1. mem["secrets"] \in SUBSET Name /\ req \in [Req -> Request]
    BY <1>3, Strings DEF SetupTypes, Contents, Allowed
  <2> DEFINE s == mem["secrets"]
  <2>2. s \in SUBSET Name /\ req' = [req EXCEPT ![r].saved = s, ![r].pc = "writeSetup"]
    BY <1>1, <2>1
  <2> HIDE DEF s
  <2>3. Moves(r, "writeSetup", req[r].cfg, s)
    BY <2>1, <2>2 DEF Moves, Request
  <2> QED
    BY <2>3 DEF s
<1>5. /\ Contents(mem') /\ Contents(perm') /\ Contents(temp') /\ temp'["secrets"] = {}
      /\ temp'["tokens"] = temp["tokens"] /\ cut' \subseteq Files
      /\ \A x \in {"users", "secrets"} : mem'[x] = mem[x]
      /\ perm'["secrets"] = perm["secrets"] /\ UsersFileKept
      /\ "setup" \in cut => "setup" \in cut'
  BY <1>1, <1>3 DEF SetupTypes, UsersFileKept
<1> QED
  BY <1>1, <1>2, <1>3, <1>4, <1>5, EarlyMoves

LEMMA WriteSetupKeeps == ASSUME SetupInv, NEW r \in Req, WriteSetup(r) PROVE SetupInv'
<1>1. /\ req[r].pc = "writeSetup" /\ setupMu = Nobody
      /\ \/ setupFile' = req[r].cfg /\ cut' = cut \ {"setup"} /\ setupMu' = r /\ Goto(r, "saveServices")
         \/ SetupNotWritten /\ Fail(r) /\ UNCHANGED setupMu
      /\ UNCHANGED <<up, caching, setup, sessions, storePath, servicePath, activeVault, mem,
                     perm, temp, founders, enrolled, wiped, upgraded>>
  BY DEF WriteSetup, At, runVars, pathVars, history, promises
<1>2. /\ "writeSetup" \in Early /\ "saveServices" \in Early /\ "saveServices" \in Saves
  BY DEF Early, Saves
<1>3. SetupTypes /\ setupMu # r /\ req[r].cfg \in SetupConfig /\ req[r].cfg # NoFile
  BY <1>1, <1>2, EarlyPlaces, SetupConstants, NoFileIsNoSetup DEF SetupConstants, NoFileIsNoSetup
<1>4. /\ Contents(mem') /\ Contents(perm') /\ Contents(temp') /\ temp'["secrets"] = {}
      /\ temp'["tokens"] = temp["tokens"] /\ cut \subseteq Files
      /\ \A x \in {"users", "secrets"} : mem'[x] = mem[x]
      /\ perm'["secrets"] = perm["secrets"]
  BY <1>1, <1>3 DEF SetupTypes
<1>5. CASE SetupNotWritten /\ Fail(r) /\ UNCHANGED setupMu
  <2>1. /\ cut' \subseteq Files /\ UsersFileKept
        /\ \/ setupFile' = setupFile /\ ("setup" \in cut => "setup" \in cut')
           \/ setupFile' = NoFile /\ "setup" \in cut'
    BY <1>1, <1>4, <1>5, Strings DEF SetupNotWritten, UsersFileKept
  <2> QED
    BY <1>1, <1>2, <1>3, <1>4, <1>5, <2>1, EarlyEnds
<1>6. CASE setupFile' = req[r].cfg /\ cut' = cut \ {"setup"} /\ setupMu' = r /\ Goto(r, "saveServices")
  <2>1. Moves(r, "saveServices", req[r].cfg, req[r].saved)
    BY <1>2, <1>3, <1>6, GotoMoves
  <2>2. cut' \subseteq Files /\ UsersFileKept
    BY <1>1, <1>4, <1>6 DEF UsersFileKept
  <2> QED
    BY <1>1, <1>2, <1>3, <1>4, <1>6, <2>1, <2>2, EarlyMoves
<1> QED
  BY <1>1, <1>5, <1>6

LEMMA SaveStoreKeeps ==
    ASSUME SetupInv, NEW r \in Req, NEW x \in {"services", "limits"},
           NEW pc \in {"saveServices", "saveLimits"}, NEW then \in {"saveLimits", "saveUsers"},
           SaveStore(r, x, pc, then)
    PROVE  SetupInv'
<1> DEFINE c == mem[x]
<1>1. /\ req[r].pc = pc
      /\ \/ Written(x, c) /\ Goto(r, then) /\ UNCHANGED setupMu
         \/ NotWritten(x, c) /\ Fail(r) /\ setupMu' = Nobody
      /\ UNCHANGED <<up, caching, setup, setupFile, sessions, storePath, servicePath, activeVault,
                     founders, enrolled, wiped, upgraded>>
  BY DEF SaveStore, At, runVars, pathVars, history, promises
<1>2. pc \in Early /\ pc \in Saves /\ then \in Early /\ then \in Saves
      /\ pc # "snapshot" /\ then # "snapshot"
  BY DEF Early, Saves
<1>3. SetupTypes /\ setupMu = r
  BY <1>1, <1>2, EarlyPlaces
<1>4. x \in Stores /\ x # "tokens" /\ x # "users" /\ x # "secrets" /\ c \subseteq Allowed(x)
  BY <1>3, Strings DEF SetupTypes, Contents
<1> HIDE DEF c
<1>5. /\ Contents(mem') /\ Contents(perm') /\ Contents(temp') /\ temp'["secrets"] = {}
      /\ temp'["tokens"] = temp["tokens"] /\ cut' \subseteq Files
      /\ \A y \in {"users", "secrets"} : mem'[y] = mem[y]
      /\ perm'["secrets"] = perm["secrets"] /\ UsersFileKept /\ ("setup" \in cut => "setup" \in cut')
  <2>1. OthersKept(x)
    BY <1>1, <1>3, <1>4, WrittenFacts
  <2> QED
    BY <1>4, <2>1, Strings DEF OthersKept, UsersFileKept
<1>6. CASE Fail(r) /\ setupMu' = Nobody
  BY <1>1, <1>2, <1>3, <1>5, <1>6, EarlyEnds
<1>7. CASE Goto(r, then) /\ UNCHANGED setupMu
  <2>1. Moves(r, then, req[r].cfg, req[r].saved)
    BY <1>2, <1>3, <1>7, GotoMoves
  <2> QED
    BY <1>1, <1>2, <1>3, <1>5, <1>7, <2>1, EarlyMoves
<1> QED
  BY <1>1, <1>6, <1>7

(* The switch: the users are in the permanent file before the mode is      *)
(* persistent.                                                             *)
LEMMA SaveUsersKeeps == ASSUME SetupInv, NEW r \in Req, SaveUsers(r) PROVE SetupInv'
<1>1. /\ req[r].pc = "saveUsers" /\ setupMu' = Nobody
      /\ UNCHANGED <<up, caching, setupFile, sessions, activeVault, mem, founders, enrolled, wiped>>
  BY DEF SaveUsers, At, runVars, promises
<1>2. "saveUsers" \in Early /\ "saveUsers" \in Saves
  BY DEF Early, Saves
<1>3. /\ SetupTypes /\ RequestAt(req[r]) /\ req[r] \in Request /\ up /\ req[r].pc # "idle"
      /\ req[r].op = "upgrade" /\ req[r].cfg.mode = "persistent" /\ req[r].cfg \in SetupConfig
      /\ setupMu = r /\ Nobody \notin Req
  BY <1>1, <1>2, EarlyPlaces, SetupConstants DEF SetupConstants
<1>4. CASE /\ Fail(r) /\ UNCHANGED <<setup, storePath, servicePath, temp, upgraded>>
           /\ \/ UNCHANGED <<perm, cut>>
              \/ perm' = [perm EXCEPT !["users"] = {}] /\ cut' = cut \cup {"users"}
  <2>1. /\ Contents(mem') /\ Contents(perm') /\ Contents(temp') /\ temp'["secrets"] = {}
        /\ temp'["tokens"] = temp["tokens"] /\ cut' \subseteq Files
        /\ \A x \in {"users", "secrets"} : mem'[x] = mem[x]
        /\ perm'["secrets"] = perm["secrets"] /\ UsersFileKept /\ ("setup" \in cut => "setup" \in cut')
    <3>1. Contents(perm') /\ perm'["secrets"] = perm["secrets"] /\ cut' \subseteq Files
      BY <1>3, <1>4, Strings DEF SetupTypes, Contents
    <3> QED
      BY <1>1, <1>3, <1>4, <3>1 DEF SetupTypes, UsersFileKept
  <2> QED
    BY <1>1, <1>2, <1>3, <1>4, <2>1, EarlyEnds
<1>5. CASE /\ storePath' = "perm" /\ servicePath' = Renamed(servicePath)
           /\ perm' = [perm EXCEPT !["users"] = mem["users"]] /\ cut' = cut \ {"users"}
           /\ setup' = req[r].cfg /\ temp' = NewNames(temp)
           /\ upgraded' = (upgraded \/ temp["tokens"] # {})
           /\ req' = [req EXCEPT ![r].pc = "reinit", ![r].cfg = FirstRun]
  <2>0. Moves(r, "reinit", FirstRun, req[r].saved)
    <3>1. FirstRun \in SetupConfig /\ req \in [Req -> Request]
      BY <1>3 DEF FirstRun, SetupConfig, UserVault, SetupTypes
    <3> QED
      BY <1>5, <3>1 DEF Moves, Request
  <2>1. Contents(perm') /\ perm'["users"] = mem["users"] /\ perm'["secrets"] = perm["secrets"]
    <3>1. Contents(perm) /\ Contents(mem) /\ "users" \in Stores /\ "secrets" \in Stores
      BY <1>3, Strings DEF SetupTypes
    <3> QED
      BY <1>5, <3>1 DEF Contents
  <2>2. /\ Contents(temp') /\ temp'["secrets"] = {} /\ temp'["tokens"] = temp["tokens"]
    BY <1>3, <1>5, NewNamesFacts
  <2>3. SetupTypes'
    BY <1>1, <1>3, <1>5, <2>0, <2>1, <2>2 DEF SetupTypes, Moves, Renamed, Place
  <2>4. RequestInv'
    <3>1. RequestAt(req'[r])
      BY <1>3, <2>0 DEF RequestAt, Moves, Founding, Saves
    <3> QED
      BY <1>1, <1>3, <2>0, <3>1, MoveRequests DEF SetupInv, Saves
  <2>5. ModeInv'
    BY <1>1, <1>3, <1>5, <2>0, <2>2 DEF SetupInv, ModeInv, Moves
  <2>6. FounderInv'
    <3>1. CASE founders = {}
      BY <1>1, <1>3, <3>1, NoFounderYet DEF promises
    <3>2. CASE founders # {}
      <4>1. \A o \in Req : \/ req'[o].pc \in {"idle", "check"}
                          \/ req'[o].op = "upgrade"
        BY <1>3, <2>0, <3>2 DEF SetupInv, FounderInv, Moves
      <4>2. \A n \in founders : Account(n)'
        BY <1>1, <1>3, <2>1 DEF SetupInv, FounderInv, Account
      <4>3. ASSUME NEW n \in enrolled PROVE Secret(n)'
        <5>1. Safe(n)
          BY DEF SetupInv, FounderInv, Secret
        <5>2. Migrating' /\ setup'.mode = "persistent"
          BY <1>3, <1>5, <2>0 DEF Migrating, Moves
        <5>3. Safe(n)'
          <6>1. CASE n \in perm["secrets"]
            BY <2>1, <6>1 DEF Safe
          <6>2. CASE n \in mem["secrets"] /\ \A o \in Req : Carries(n, req[o])
            <7>1. Carries(n, req'[r])
              BY <1>1, <1>3, <2>0, <6>2 DEF Carries, Moves, Saves
            <7> QED
              BY <1>1, <1>3, <2>0, <6>2, <7>1 DEF Safe, Moves
          <6>3. CASE \E o \in Req : req[o].pc = "migrate" /\ n \in req[o].saved
            <7>1. PICK o \in Req : req[o].pc = "migrate" /\ n \in req[o].saved
              BY <6>3
            <7>2. o # r /\ req'[o] = req[o]
              BY <1>1, <2>0, <7>1 DEF Moves
            <7> QED
              BY <1>1, <1>3, <7>1, <7>2 DEF Safe
          <6> QED
            BY <5>1, <6>1, <6>2, <6>3 DEF Safe
        <5> QED
          BY <5>2, <5>3 DEF Secret
      <4> QED
        BY <1>1, <1>3, <1>5, <4>1, <4>2, <4>3 DEF FounderInv
    <3> QED
      BY <3>1, <3>2
  <2>7. FoundingInv' /\ ResetInv'
    <3>1. FoundingAt(r)' /\ ResetAt(r)'
      BY <1>3, <2>0 DEF FoundingAt, ResetAt, Moves, Founding
    <3> QED
      BY <1>1, <1>3, <2>0, <3>1, Focus DEF SetupInv, Moves
  <2> QED
    BY <2>3, <2>4, <2>5, <2>6, <2>7 DEF SetupInv
<1> QED
  BY <1>4, <1>5 DEF SaveUsers

(* Some of the saved secrets reach memory, and whatever becomes of the     *)
(* vault's file, the promise covers only what is in it.                    *)
LEMMA MigrateStep ==
    ASSUME NEW r \in Req, MigrateSecrets(r)
    PROVE  \E names \in SUBSET req[r].saved : \E file \in SUBSET (perm["secrets"] \cup names) :
              /\ mem' = [mem EXCEPT !["secrets"] = @ \cup names]
              /\ perm' = [perm EXCEPT !["secrets"] = file]
              /\ enrolled' = IF activeVault = "file" THEN enrolled \cap file ELSE {}
              /\ temp' = temp /\ cut' \in {cut, cut \cup {"secrets"}}
<1> DEFINE all == req[r].saved
           vault == perm["secrets"]
           kept(names, file) ==
              /\ mem' = [mem EXCEPT !["secrets"] = @ \cup names]
              /\ perm' = [perm EXCEPT !["secrets"] = file]
              /\ enrolled' = IF activeVault = "file" THEN enrolled \cap file ELSE {}
<1>1. temp' = temp /\ cut' \in {cut, cut \cup {"secrets"}}
  BY DEF MigrateSecrets
<1>2. \/ kept(all, vault) \/ kept({}, vault) \/ kept(all, vault \cup all)
      \/ \E names \in SUBSET all : kept(names, vault \cup names)
      \/ \E names \in SUBSET all : \E later \in SUBSET names : kept(names, later)
      \/ \E names \in SUBSET all : kept(names, {})
  BY DEF MigrateSecrets
<1>3. \E names \in SUBSET all : \E file \in SUBSET (vault \cup names) : kept(names, file)
  <2> HIDE DEF kept
  <2> QED
    BY <1>2
<1> QED
  BY <1>1, <1>3

LEMMA MigrateSecretsKeeps == ASSUME SetupInv, NEW r \in Req, MigrateSecrets(r) PROVE SetupInv'
<1>1. /\ req[r].pc = "migrate"
      /\ req' = [req EXCEPT ![r].pc = "init", ![r].saved = {}]
      /\ UNCHANGED <<up, caching, setup, setupFile, setupMu, sessions, storePath, servicePath, activeVault,
                     founders, wiped, upgraded>>
  BY DEF MigrateSecrets, At, runVars, setupVars, pathVars
<1>2. PICK names \in SUBSET req[r].saved, file \in SUBSET (perm["secrets"] \cup req[r].saved) :
         /\ mem' = [mem EXCEPT !["secrets"] = @ \cup names]
         /\ perm' = [perm EXCEPT !["secrets"] = file]
         /\ enrolled' = IF activeVault = "file" THEN enrolled \cap file ELSE {}
         /\ temp' = temp /\ cut' \in {cut, cut \cup {"secrets"}}
  BY MigrateStep DEF SetupInv, RequestInv
<1>3. /\ SetupTypes /\ RequestAt(req[r]) /\ req[r] \in Request /\ setupMu # r /\ up
      /\ req[r].pc # "idle" /\ req[r].op = "upgrade"
      /\ founders # {} => setup.mode = "persistent"
  BY <1>1, ReloadPlaces
<1>4. Moves(r, "init", req[r].cfg, {})
  <2>1. req \in [Req -> Request]
    BY <1>3 DEF SetupTypes
  <2> QED
    BY <1>1, <2>1, ZenonT(40) DEF Moves, Request, Reload
<1>6. /\ Contents(mem') /\ Contents(perm') /\ temp' = temp /\ mem'["users"] = mem["users"]
      /\ perm'["users"] = perm["users"] /\ perm'["secrets"] = file
      /\ cut' \subseteq Files /\ ("users" \in cut' <=> "users" \in cut)
      /\ "setup" \in cut' <=> "setup" \in cut
  <2>1. PICK m : m = mem["secrets"] \cup names
    OBVIOUS
  <2>2. /\ m \subseteq Name /\ file \subseteq Name /\ m \in SUBSET (Name \cup {Entry})
        /\ file \in SUBSET (Name \cup {Entry}) /\ Allowed("secrets") = Name
        /\ "secrets" \in Stores /\ "users" \in Stores
    BY <1>2, <1>3, <2>1, Strings DEF SetupTypes, Contents, Allowed, Request
  <2>3. mem' = [mem EXCEPT !["secrets"] = m] /\ perm' = [perm EXCEPT !["secrets"] = file]
    BY <1>2, <2>1
  <2>4. /\ Contents(mem') /\ Contents(perm') /\ mem'["users"] = mem["users"]
        /\ perm'["users"] = perm["users"] /\ perm'["secrets"] = file
    BY <1>3, <2>2, <2>3 DEF SetupTypes, Contents
  <2>5. /\ cut' \subseteq Files /\ ("users" \in cut' <=> "users" \in cut)
        /\ "setup" \in cut' <=> "setup" \in cut
    BY <1>2, <1>3, Strings DEF SetupTypes
  <2> QED
    BY <1>2, <2>4, <2>5
<1>7. SetupTypes'
  BY <1>1, <1>2, <1>3, <1>4, <1>6 DEF SetupTypes, Moves
<1>8. RequestInv'
  <2>1. RequestAt(req'[r])
    BY <1>3, <1>4 DEF RequestAt, Moves, Founding, Saves, Reload
  <2> QED
    BY <1>1, <1>3, <1>4, <2>1, MoveRequests DEF SetupInv, Saves
<1>9. ModeInv'
  BY <1>1, <1>4, <1>6 DEF SetupInv, ModeInv, Moves
<1>10. FounderInv'
  <2>1. CASE founders = {}
    BY <1>1, <1>7, <2>1, NoFounder DEF SetupTypes
  <2>2. CASE founders # {}
    <3>0. setup.mode = "persistent"
      BY <1>3, <2>2
    <3>1. \A o \in Req : req'[o].pc \in {"idle", "check"} \/ req'[o].op = "upgrade"
      BY <1>3, <1>4, <2>2 DEF SetupInv, FounderInv, Moves
    <3>2. \A n \in founders : Account(n)'
      BY <1>1, <1>6 DEF SetupInv, FounderInv, Account
    <3>3. ASSUME NEW n \in enrolled' PROVE Secret(n)'
      <4>1. n \in perm'["secrets"]
        BY <1>2, <1>6, <3>3
      <4> QED
        BY <1>1, <3>0, <4>1 DEF Secret, Safe
    <3> QED
      BY <1>1, <1>3, <3>0, <3>1, <3>2, <3>3 DEF FounderInv
  <2> QED
    BY <2>1, <2>2
<1>11. FoundingInv' /\ ResetInv'
  <2>1. FoundingAt(r)' /\ ResetAt(r)'
    BY <1>3, <1>4 DEF FoundingAt, ResetAt, Moves, Founding
  <2> QED
    BY <1>1, <1>3, <1>4, <2>1, Focus DEF SetupInv, Moves
<1> QED
  BY <1>7, <1>8, <1>9, <1>10, <1>11 DEF SetupInv

-----------------------------------------------------------------------------
(* ResetSetupHandler *)

LEMMA ResetPlaces ==
    ASSUME SetupInv, NEW r \in Req, req[r].pc \in {"reset", "sessions"}
    PROVE  /\ SetupTypes /\ RequestAt(req[r]) /\ req[r] \in Request /\ setupMu # r /\ up
           /\ req[r].pc # "idle" /\ req[r].op = "reset" /\ founders = {}
<1>1. SetupTypes /\ RequestAt(req[r]) /\ req[r] \in Request
  BY DEF SetupInv, SetupTypes, RequestInv
<1>2. req[r].op = "reset"
  BY <1>1 DEF RequestAt, Request, Founding, Reload, Saves
<1>3. setupMu # r /\ up
  BY <1>1 DEF SetupInv, RequestInv, SetupTypes, Saves
<1>4. founders = {}
  BY <1>1, OnlyUpgrades DEF SetupInv
<1> QED
  BY <1>1, <1>2, <1>3, <1>4

LEMMA ResetSetupStateKeeps == ASSUME SetupInv, NEW r \in Req, ResetSetupState(r) PROVE SetupInv'
<1>1. /\ req[r].pc = "reset" /\ setupMu = Nobody /\ setup' = FirstRun
      /\ storePath' = Renamed(storePath) /\ servicePath' = Renamed(servicePath)
      /\ UNCHANGED <<up, caching, setupMu, sessions, activeVault, mem, founders, enrolled, wiped, upgraded>>
  BY DEF ResetSetupState, At, runVars, history, promises
<1>2. /\ SetupTypes /\ RequestAt(req[r]) /\ req[r] \in Request /\ setupMu # r /\ up
      /\ req[r].pc # "idle" /\ req[r].op = "reset" /\ founders = {}
  BY <1>1, ResetPlaces
<1>3. FounderInv'
  BY <1>1, <1>2, NoFounderYet DEF promises
<1>4. FirstRun \in SetupConfig /\ FirstRun.mode = "first"
  BY DEF FirstRun, SetupConfig, UserVault
<1>5. storePath' \in Place /\ servicePath' \in Place
  BY <1>1, <1>2 DEF Renamed, Place, SetupTypes
<1>6. /\ Contents(temp') /\ temp'["secrets"] = {} /\ temp'["users"] = {} /\ temp'["services"] = {}
      /\ temp'["tokens"] # {} => upgraded
  <2> DEFINE t == NewNames(temp)
             k == IF setup.mode = "persistent" THEN t["tokens"] ELSE {}
  <2>1. /\ Contents(t) /\ t["secrets"] = {} /\ t["tokens"] = temp["tokens"]
        /\ t["users"] = {} /\ t["services"] = {}
    BY <1>2, NewNamesFacts
  <2>2. temp' = [t EXCEPT !["tokens"] = k]
    BY DEF ResetSetupState
  <2>3. /\ k \in SUBSET (Name \cup {Entry}) /\ k \subseteq Allowed("tokens")
        /\ k # {} => upgraded
    BY <2>1, Strings DEF Contents, SetupInv, ModeInv
  <2> HIDE DEF t, k
  <2> QED
    BY <2>1, <2>2, <2>3, Strings DEF Contents
<1>16. PICK removed \in SUBSET (Stores \cup {"setup"}) :
          /\ IF removed = Stores \cup {"setup"} THEN Goto(r, "sessions") ELSE Fail(r)
          /\ perm' = [x \in Stores |-> IF x \in removed THEN {} ELSE perm[x]]
          /\ setupFile' = IF "setup" \in removed THEN NoFile ELSE setupFile
          /\ cut' = cut \ (removed \cup (IF setup.mode = "persistent" THEN {} ELSE {"temp"}))
  BY DEF ResetSetupState, ResetTargets
<1>7. \/ /\ setupFile' = NoFile /\ perm' = [x \in Stores |-> {}] /\ cut' \subseteq {"temp"}
         /\ Goto(r, "sessions")
      \/ Fail(r) /\ setupFile' \in {NoFile, setupFile}
  <2>1. CASE removed = Stores \cup {"setup"}
    <3>1. \A x \in Stores : x \in removed
      BY <2>1
    <3>2. perm' = [x \in Stores |-> {}]
      BY <1>16, <3>1
    <3>3. cut' \subseteq {"temp"}
      BY <1>2, <1>16, <2>1 DEF SetupTypes, Files
    <3> QED
      BY <1>16, <2>1, <3>2, <3>3
  <2>2. CASE removed # Stores \cup {"setup"}
    BY <1>16, <2>2
  <2> QED
    BY <2>1, <2>2
<1>8. Contents(perm') /\ cut' \subseteq Files
  BY <1>2, <1>16 DEF SetupTypes, Contents
<1>9. CASE Fail(r) /\ setupFile' \in {NoFile, setupFile}
  <2>0. Ends(r)
    BY <1>2, <1>9, FailEnds
  <2>1. SetupTypes'
    BY <1>1, <1>2, <1>4, <1>5, <1>6, <1>8, <1>9, <2>0 DEF SetupTypes, Ends
  <2>2. RequestInv'
    BY <1>1, <1>2, <2>0, EndRequests DEF SetupInv
  <2>3. ModeInv'
    BY <1>1, <1>2, <1>4 DEF ModeInv
  <2>4. FoundingInv' /\ ResetInv'
    BY <1>1, <1>2, <2>0, EndFocus DEF SetupInv
  <2> QED
    BY <1>3, <2>1, <2>2, <2>3, <2>4 DEF SetupInv
<1>10. CASE /\ setupFile' = NoFile /\ perm' = [x \in Stores |-> {}] /\ cut' \subseteq {"temp"}
            /\ Goto(r, "sessions")
  <2>0. Moves(r, "sessions", req[r].cfg, req[r].saved)
    BY <1>2, <1>10, GotoMoves
  <2>1. SetupTypes'
    BY <1>1, <1>2, <1>4, <1>5, <1>6, <1>8, <1>10, <2>0 DEF SetupTypes, Moves
  <2>2. RequestInv'
    <3>1. RequestAt(req'[r])
      BY <1>2, <2>0 DEF RequestAt, Moves, Founding
    <3> QED
      BY <1>1, <1>2, <2>0, <3>1, MoveRequests DEF SetupInv, Saves
  <2>3. ModeInv'
    BY <1>1, <1>2, <1>4 DEF ModeInv
  <2>4. FoundingInv' /\ ResetInv'
    <3>1. ResetFiles'
      BY <1>1, <1>4, <1>6, <1>10 DEF ResetFiles, Empty
    <3>2. FoundingAt(r)' /\ ResetAt(r)'
      BY <1>2, <2>0, <3>1 DEF FoundingAt, ResetAt, Moves, Founding, Reload
    <3> QED
      BY <1>1, <1>2, <2>0, <3>2, Focus DEF SetupInv, Moves
  <2> QED
    BY <1>3, <2>1, <2>2, <2>3, <2>4 DEF SetupInv
<1> QED
  BY <1>7, <1>9, <1>10

LEMMA ResetSessionStateKeeps == ASSUME SetupInv, NEW r \in Req, ResetSessionState(r) PROVE SetupInv'
<1>1. /\ req[r].pc = "sessions" /\ sessions' = {} /\ Goto(r, "init")
      /\ UNCHANGED <<up, caching, setup, setupFile, setupMu, storePath, servicePath, activeVault, mem, perm,
                     temp, cut, founders, enrolled, wiped, upgraded>>
  BY DEF ResetSessionState, At, runVars, pathVars, dataVars, history, promises
<1>2. /\ SetupTypes /\ RequestAt(req[r]) /\ req[r] \in Request /\ setupMu # r /\ up
      /\ req[r].pc # "idle" /\ req[r].op = "reset" /\ founders = {}
  BY <1>1, ResetPlaces
<1>3. Moves(r, "init", req[r].cfg, req[r].saved)
  BY <1>1, <1>2, GotoMoves DEF Reload
<1>4. SetupTypes'
  BY <1>1, <1>2, <1>3 DEF SetupTypes, Moves
<1>5. RequestInv'
  <2>1. RequestAt(req'[r])
    BY <1>2, <1>3 DEF RequestAt, Moves, Founding, Reload
  <2> QED
    BY <1>1, <1>2, <1>3, <2>1, MoveRequests DEF SetupInv, Saves
<1>6. ModeInv'
  BY <1>1, <1>3, ModeCalm DEF SetupInv, Moves
<1>7. FounderInv'
  BY <1>1, <1>2, NoFounderYet DEF promises
<1>8. FoundingInv' /\ ResetInv'
  <2>1. FoundingAt(r)'
    BY <1>2, <1>3 DEF FoundingAt, Moves, Founding
  <2>2. ResetAt(r)'
    <3>1. req[r].alone => ResetFiles
      BY <1>1, <1>2 DEF SetupInv, ResetInv, ResetAt
    <3>2. ResetFiles => ResetFiles'
      BY <1>1 DEF ResetFiles
    <3> QED
      BY <1>2, <1>3, <3>1, <3>2 DEF ResetAt, Moves
  <2> QED
    BY <1>1, <1>2, <1>3, <2>1, <2>2, Focus DEF SetupInv, Moves
<1> QED
  BY <1>4, <1>5, <1>6, <1>7, <1>8 DEF SetupInv

-----------------------------------------------------------------------------
(* The answer: what the handler has achieved is now promised. *)

LEMMA SucceedKeeps == ASSUME SetupInv, NEW r \in Req, Succeed(r) PROVE SetupInv'
<1> DEFINE founds == req[r].alone /\ req[r].op \in Founding
<1>1. /\ req[r].pc = "ok" /\ Fail(r)
      /\ founders' = founders \cup (IF founds THEN {req[r].name} ELSE {})
      /\ enrolled' = enrolled \cup (IF founds THEN {req[r].name} ELSE {})
      /\ sessions' = sessions \cup (IF req[r].op \in Founding THEN {req[r].name} ELSE {})
      /\ wiped' = (req[r].alone /\ req[r].op = "reset")
      /\ UNCHANGED <<up, caching, setup, setupFile, setupMu, storePath, servicePath, activeVault, mem, perm,
                     temp, cut, upgraded>>
  BY DEF Succeed, At, Fail, Founding, runVars, pathVars, dataVars
<1>2. /\ SetupTypes /\ RequestAt(req[r]) /\ req[r] \in Request /\ setupMu # r /\ up
      /\ req[r].pc # "idle" /\ req[r].op # "none"
      /\ founders # {} => req[r].op = "upgrade"
  BY <1>1, ReloadPlaces, BusyHasPlace DEF Reload
<1>3. Ends(r)
  BY <1>1, <1>2, FailEnds
<1>4. \A o \in Req : o # r /\ (req[o].alone \/ req[r].alone) => req'[o].pc = "idle" /\ req'[o].op = "none"
  <2>1. \A o \in Req : o # r /\ (req[o].alone \/ req[r].alone) => req[o].pc = "idle"
    BY <1>2 DEF SetupInv, RequestInv
  <2>2. \A o \in Req : req[o].pc = "idle" => req[o].op = "none"
    BY <1>2, BusyHasPlace DEF SetupInv, RequestInv
  <2> QED
    BY <1>3, <2>1, <2>2 DEF Ends
<1>5. req[r].op \in Founding => req[r].name \in Name
  BY <1>2 DEF RequestAt
<1>6. SetupTypes'
  BY <1>1, <1>2, <1>3, <1>5 DEF SetupTypes, Ends, Request
<1>7. RequestInv'
  BY <1>1, <1>2, <1>3, EndRequests DEF SetupInv
<1>8. ModeInv'
  BY <1>1, <1>3, ModeCalm DEF SetupInv, Ends
<1>9. FounderInv'
  <2>1. CASE ~founds
    <3>1. founders' = founders /\ enrolled' = enrolled
      BY <1>1, <2>1
    <3>2. \A n : Carries(n, req'[r])
      BY <1>3 DEF Carries, Ends
    <3> QED
      BY <1>1, <1>2, <1>3, <3>1, <3>2, FoundersCalm DEF UsersFileKept, SetupInv, Ends
  <2>2. CASE founds
    <3>0. PICK n : n = req[r].name
      OBVIOUS
    <3>1. founders' = {n} /\ enrolled' = {n}
      BY <1>1, <1>2, <2>2, <3>0 DEF SetupTypes, Founding
    <3>2. Account(n) /\ Secret(n) /\ setup.mode # "first"
      BY <1>1, <2>2, <3>0 DEF SetupInv, FoundingInv, FoundingAt, Reload
    <3>3. \A o \in Req : req'[o].pc = "idle" /\ req'[o].op = "none"
      BY <1>3, <1>4, <2>2 DEF Ends
    <3>4. \A o \in Req : req[o].pc \notin {"reinit", "migrate"}
      BY <1>1, <1>3, <3>3 DEF Ends
    <3>5. Secret(n)'
      <4>1. ~Migrating
        BY <3>4 DEF Migrating
      <4>2. Safe(n)'
        BY <1>1, <3>2, <3>3, <3>4 DEF Secret, Safe, Carries
      <4> QED
        BY <1>1, <3>2, <4>1, <4>2 DEF Secret
    <3>6. Account(n)'
      BY <1>1, <3>2 DEF Account
    <3> QED
      BY <1>1, <1>2, <3>1, <3>2, <3>3, <3>5, <3>6 DEF FounderInv
  <2> QED
    BY <2>1, <2>2
<1>10. \A o \in Req : req'[o].alone => req'[o].op = "none"
  BY <1>3, <1>4 DEF Ends
<1>11. FoundingInv'
  BY <1>10 DEF FoundingInv, FoundingAt, Founding
<1>12. ResetInv'
  <2>1. \A o \in Req : ResetAt(o)'
    BY <1>10 DEF ResetAt
  <2>2. wiped' => caching' = {} /\ \A o \in Req : req'[o].pc = "idle"
    BY <1>1, <1>2, <1>3, <1>4 DEF Ends, SetupInv, RequestInv
  <2>3. ResetForgets'
    <3> SUFFICES ASSUME wiped'
                 PROVE  /\ setupFile' = NoFile /\ perm' = Empty /\ cut' \subseteq {"temp"}
                        /\ setup'.mode = "first"
                        /\ \A x \in Stores \ {"limits"} : mem'[x] # {} => x = "tokens" /\ upgraded'
      BY DEF ResetForgets
    <3>1. req[r].alone /\ req[r].op = "reset"
      BY <1>1
    <3>2. /\ ResetFiles /\ mem["users"] = {} /\ mem["secrets"] = {} /\ mem["services"] = {}
          /\ mem["tokens"] # {} => upgraded
      BY <1>1, <3>1 DEF SetupInv, ResetInv, ResetAt, Reload
    <3> QED
      BY <1>1, <3>2 DEF ResetFiles, Stores
  <2> QED
    BY <2>1, <2>2, <2>3 DEF ResetInv
<1> QED
  BY <1>6, <1>7, <1>8, <1>9, <1>11, <1>12 DEF SetupInv

-----------------------------------------------------------------------------
(* The invariant *)

LEMMA SetupInitially == Init => SetupInv
<1> SUFFICES ASSUME Init PROVE SetupInv
  OBVIOUS
<1>1. Contents(Empty) /\ \A x \in Stores : Empty[x] = {}
  BY DEF Contents, Empty
<1>2. req \in [Req -> Request] /\ \A r \in Req : req[r].pc = "idle" /\ req[r].op = "none"
  BY IdleFacts DEF Init
<1>3. FirstRun \in SetupConfig /\ FirstRun.mode = "first"
  BY DEF FirstRun, SetupConfig, UserVault
<1>4. Nobody \notin Req
  BY SetupConstants DEF SetupConstants
<1>5. SetupTypes
  BY <1>1, <1>2, <1>3, Strings DEF Init, SetupTypes, Place, UserVault
<1>6. RequestInv
  BY <1>2, <1>4 DEF Init, RequestInv, RequestAt, Saves, Founding
<1>7. ModeInv
  BY <1>1, <1>3, Strings DEF Init, ModeInv
<1>8. FounderInv
  BY DEF Init, FounderInv
<1>9. FoundingInv /\ ResetInv
  BY <1>2 DEF Init, FoundingInv, FoundingAt, Founding, ResetInv, ResetAt, ResetForgets
<1> QED
  BY <1>5, <1>6, <1>7, <1>8, <1>9 DEF SetupInv

LEMMA SetupInvStutters == ASSUME SetupInv, UNCHANGED vars PROVE SetupInv'
<1>1. UNCHANGED <<up, caching, setup, setupFile, setupMu, storePath, servicePath, activeVault, mem, perm, temp, cut,
                  sessions, req, founders, enrolled, wiped, upgraded>>
  BY DEF vars
<1>2. SetupTypes' /\ RequestInv' /\ ModeInv'
  BY <1>1 DEF SetupInv, SetupTypes, RequestInv, ModeInv, PlaceOf
<1>3. FounderInv'
  BY <1>1 DEF SetupInv, FounderInv, Account, Secret, Safe, Migrating
<1>4. FoundingInv'
  BY <1>1 DEF SetupInv, FoundingInv, FoundingAt, Account, Secret, Safe, Migrating
<1>5. ResetInv'
  BY <1>1 DEF SetupInv, ResetInv, ResetAt, ResetFiles, ResetForgets
<1> QED
  BY <1>2, <1>3, <1>4, <1>5 DEF SetupInv

LEMMA SetupInvIsInductive == ASSUME SetupInv, [Next]_vars PROVE SetupInv'
<1>1. CASE UNCHANGED vars
  BY <1>1, SetupInvStutters
<1>2. CASE Start \/ Stop
  BY <1>2, StartKeeps, StopKeeps
<1>3. CASE \/ (\E x \in Edited : Edit(x)) \/ EditAccounts
           \/ \E n \in Name : ReadSecret(n) \/ CacheSecret(n) \/ LogIn(n)
  BY <1>3, EditKeeps, EditAccountsKeeps, ReadSecretKeeps, CacheSecretKeeps, LogInKeeps
<1>4. ASSUME NEW r \in Req,
             \/ \E op \in {"complete", "bootstrap"}, n \in Name, cfg \in SetupConfig :
                   SetupRequest(r, op, n, cfg)
             \/ \E v \in UserVault : UpgradeRequest(r, v)
             \/ ResetRequest(r)
      PROVE  SetupInv'
  BY <1>4, NewRequestKeeps
<1>5. ASSUME NEW r \in Req,
             \/ Succeed(r) \/ Check(r) \/ Configure(r) \/ CreateUser(r) \/ StoreUserSecret(r)
             \/ RollBack(r) \/ LoadRateLimits(r) \/ LoadServices(r) \/ LoadTokens(r)
      PROVE  SetupInv'
  BY <1>5, SucceedKeeps, CheckKeeps, ConfigureKeeps, CreateUserKeeps, StoreUserSecretKeeps,
     RollBackKeeps, LoadRateLimitsKeeps, LoadServicesKeeps, LoadTokensKeeps
<1>6. ASSUME NEW r \in Req, InitSecrets(r) \/ OpenNewVault(r)
      PROVE  SetupInv'
  BY <1>6, OpenedKeeps DEF InitSecrets, OpenNewVault, At
<1>7. ASSUME NEW r \in Req, SaveServices(r) \/ SaveRateLimits(r)
      PROVE  SetupInv'
  BY <1>7, SaveStoreKeeps DEF SaveServices, SaveRateLimits
<1>8. ASSUME NEW r \in Req,
             \/ SnapshotSecrets(r) \/ WriteSetup(r) \/ SaveUsers(r) \/ MigrateSecrets(r)
             \/ ResetSetupState(r) \/ ResetSessionState(r)
      PROVE  SetupInv'
  BY <1>8, SnapshotSecretsKeeps, WriteSetupKeeps, SaveUsersKeeps, MigrateSecretsKeeps,
     ResetSetupStateKeeps, ResetSessionStateKeeps
<1> QED
  BY <1>1, <1>2, <1>3, <1>4, <1>5, <1>6, <1>7, <1>8 DEF Next

LEMMA SetupInvHolds == Spec => []SetupInv
BY SetupInitially, SetupInvIsInductive, PTL DEF Spec

-----------------------------------------------------------------------------
(* The theorems *)

(* Setup, stores and requests always have their types; whoever holds       *)
(* setupMu is between writing the setup file and the switch, and the setup *)
(* file says persistent.                                                   *)
THEOREM SetupTypeCorrect == Spec => []TypeOK
<1>1. SetupInv => TypeOK
  <2> SUFFICES ASSUME SetupInv PROVE TypeOK
    OBVIOUS
  <2>1. SetupTypes
    BY DEF SetupInv
  <2>2. setupMu # Nobody => req[setupMu].pc \in {"saveServices", "saveLimits", "saveUsers"}
    BY <2>1 DEF SetupInv, SetupTypes, RequestInv, Saves
  <2>3. \A f \in {mem, perm, temp} :
           /\ DOMAIN f = Stores
           /\ \A x \in Stores : f[x] \subseteq IF x \in Edited THEN {Entry} ELSE Name
    BY <2>1 DEF SetupTypes, Contents, Allowed
  <2> QED
    BY <2>1, <2>2, <2>3 DEF TypeOK, SetupTypes
<1> QED
  BY <1>1, SetupInvHolds, PTL

(* The first administrator, told so by CompleteSetupHandler or             *)
(* BootstrapAdminHandler while nothing overlapped, keeps the account and   *)
(* the TOTP secret, through failing and overlapping upgrades               *)
(* (UpgradeStorageHandler), edits, and restarts, until a reset, or a stop  *)
(* in the middle of an upgrade, or until the program reads a users' or     *)
(* setup file, or has to do with a vault's file, that a failed write has   *)
(* cut.                                                                    *)
THEOREM FoundersAreKept == Spec => []FounderKept
<1>1. SetupInv => FounderKept
  <2> SUFFICES ASSUME SetupInv, NEW n \in founders
               PROVE  /\ up => n \in mem["users"]
                      /\ setup.mode = "persistent" => /\ setupFile # NoFile \/ "setup" \in cut
                                                      /\ n \in perm["users"] \/ "users" \in cut
                      /\ n \in enrolled /\ setup.mode = "temporary" /\ setup.vault = "env"
                            => n \in mem["secrets"]
                      /\ n \in enrolled /\ setup.vault = "file" /\ ~Migrating => n \in perm["secrets"]
    BY DEF FounderKept
  <2>1. Account(n) /\ (n \in enrolled => Secret(n))
    BY DEF SetupInv, FounderInv
  <2>2. setup.mode = "persistent" => setupFile # NoFile \/ "setup" \in cut
    BY DEF SetupInv, ModeInv
  <2> QED
    BY <2>1, <2>2 DEF Account, Secret
<1> QED
  BY <1>1, SetupInvHolds, PTL

(* A reset that was reported done and that nothing overlapped has          *)
(* forgotten everything but the limits in memory (ResetSetupHandler).      *)
THEOREM ResetIsComplete == Spec => []ResetForgets
<1>1. SetupInv => ResetForgets
  BY DEF SetupInv, ResetInv
<1> QED
  BY <1>1, SetupInvHolds, PTL

(* Only the handlers' own check lets a request go on from it.              *)
LEMMA OthersStay ==
    ASSUME SetupInv, Next, NEW r \in Req, req[r].pc = "check",
           req'[r].pc \in {"configure", "create"}
    PROVE  Check(r)
<1>1. SetupTypes /\ req \in [Req -> Request]
  BY DEF SetupInv, SetupTypes
<1>2. CASE Start \/ Stop
  BY <1>2 DEF Start, Stop, Idle
<1>3. CASE \/ (\E x \in Edited : Edit(x)) \/ EditAccounts
           \/ \E n \in Name : ReadSecret(n) \/ CacheSecret(n) \/ LogIn(n)
  <2>1. req' = Disturbed(InFlight) \/ req' = req
    BY <1>3 DEF Edit, EditAccounts, Edits, ReadSecret, CacheSecret, LogIn
  <2> QED
    BY <1>1, <2>1, DisturbedFacts
<1>4. ASSUME NEW q \in Req,
             \/ \E op \in {"complete", "bootstrap"}, n \in Name, cfg \in SetupConfig :
                   SetupRequest(q, op, n, cfg)
             \/ \E v \in UserVault : UpgradeRequest(q, v)
             \/ ResetRequest(q)
      PROVE  Check(r)
  <2>1. \E p, op, n, c : Begins(q, p, op, n, c)
    BY <1>1, <1>4, RequestSteps DEF Founding
  <2>2. q # r /\ Interrupted(r)
    BY <2>1 DEF Begins
  <2> QED
    BY <2>2 DEF Interrupted
<1>5. ASSUME NEW q \in Req, q # r,
             \/ Succeed(q) \/ Check(q)
             \/ Configure(q) \/ CreateUser(q) \/ StoreUserSecret(q) \/ RollBack(q)
             \/ InitSecrets(q) \/ LoadRateLimits(q) \/ LoadServices(q) \/ LoadTokens(q)
      PROVE  Check(r)
  <2>1. req'[r] = req[r]
    BY <1>1, <1>5 DEF Succeed, Check, Configure, CreateUser, StoreUserSecret, RollBack, InitSecrets,
       Opened, LoadRateLimits, LoadServices, LoadTokens, Goto, Fail
  <2> QED
    BY <2>1
<1>6. ASSUME NEW q \in Req, q # r,
             \/ SnapshotSecrets(q) \/ WriteSetup(q) \/ SaveServices(q) \/ SaveRateLimits(q)
             \/ SaveUsers(q) \/ OpenNewVault(q) \/ MigrateSecrets(q)
             \/ ResetSetupState(q) \/ ResetSessionState(q)
      PROVE  Check(r)
  <2>1. req'[r] = req[r]
    BY <1>1, <1>6 DEF SnapshotSecrets, WriteSetup, SaveServices, SaveRateLimits, SaveStore, SaveUsers,
       OpenNewVault, Opened, MigrateSecrets, ResetSetupState, ResetSessionState, Goto, Fail
  <2> QED
    BY <2>1
<1>7. /\ ~Succeed(r) /\ ~Configure(r) /\ ~CreateUser(r) /\ ~StoreUserSecret(r) /\ ~RollBack(r)
      /\ ~InitSecrets(r) /\ ~LoadRateLimits(r) /\ ~LoadServices(r) /\ ~LoadTokens(r)
      /\ ~SnapshotSecrets(r) /\ ~WriteSetup(r) /\ ~SaveServices(r) /\ ~SaveRateLimits(r)
      /\ ~SaveUsers(r) /\ ~OpenNewVault(r) /\ ~MigrateSecrets(r)
      /\ ~ResetSetupState(r) /\ ~ResetSessionState(r)
  BY DEF Succeed, Configure, CreateUser, StoreUserSecret, RollBack, InitSecrets, LoadRateLimits,
     LoadServices, LoadTokens, SnapshotSecrets, WriteSetup, SaveServices, SaveRateLimits, SaveStore,
     SaveUsers, OpenNewVault, MigrateSecrets, ResetSetupState, ResetSessionState, At
<1> QED
  BY <1>2, <1>3, <1>4, <1>5, <1>6, <1>7 DEF Next

(* As long as the first administrator's promise holds, the checks of       *)
(* CompleteSetupHandler and BootstrapAdminHandler let nobody through, also *)
(* while an upgrade replaces the users' store, after failed writes, and    *)
(* after restarts: until a reset, a stop in the middle of an upgrade, or a *)
(* read of a users' or setup file that was cut.                            *)
THEOREM SetupStaysClosed == Spec => SetupCloses
<1>1. SetupInv /\ [Next]_vars =>
         [\A r \in Req : (req[r].pc = "check" /\ req'[r].pc \in {"configure", "create"})
                         => founders = {}]_vars
  <2> SUFFICES ASSUME SetupInv, Next, NEW r \in Req, req[r].pc = "check",
                      req'[r].pc \in {"configure", "create"}
               PROVE  founders = {}
    OBVIOUS
  <2>1. Check(r)
    BY OthersStay
  <2>2. up /\ (setup.mode = "first" \/ mem["users"] = {})
    <3>1. SetupTypes /\ RequestAt(req[r])
      BY DEF SetupInv, RequestInv
    <3> QED
      BY <2>1, <3>1, CheckStep DEF Ends, Moves
  <2> QED
    BY <2>2 DEF SetupInv, FounderInv, Account
<1> QED
  BY <1>1, SetupInvHolds, PTL DEF Spec, SetupCloses

=============================================================================
