# Apig0 in TLA+

Apig0 is a single-node API gateway written in Go: users log in with a password
and a TOTP code, programs present API tokens, and requests that pass
authentication, policy and rate limits are proxied to the configured services.
Almost all of its state lives in maps in memory, each behind its own mutex, and
(in persistent mode) in JSON files that are rewritten as a whole. One goroutine
runs per HTTP request, so a handler that takes several locks in turn is a chain
of atomic steps between which anything else may happen. The modules here model
the gateway at that grain.

## 1. Inventory

| Component | Source | State | Operations | What is hard | What makes it correct |
|---|---|---|---|---|---|
| Login | `auth/handlers.go`, `session.go`, `lockout.go`, `totp.go` | challenges, sessions, lockout entries, used codes | login, verify, logout, sweeps, session reset | check and use under different locks; clock read before the lock; sweeps | a code typed one way pays for one session; a challenge is redeemed by requests in flight together only; guesses are bounded; a lock ends only for a reason |
| Key delivery | `config/apitokens.go`, `token_deliveries.go`, `auth/token_delivery.go`, `gateway_admin.go` | tokens and pending deliveries, two files | create, validate, revoke, deliver, list, claim, load | two locks, failed writes, crashes, other master password, CLI beside the gateway | a raw key is revealed once; a revocation that was answered holds |
| Rate limiter | `middleware/ratelimit.go`, `config/ratelimits.go` | buckets, settings | allow, sweep, save settings | bucket used after the map's lock is released; settings change under way | burst plus rate bounds what passes; a burst is granted |
| Accounts | `config/userstore.go`, `config/vault.go`, `auth/admin.go` | user cache and file, secret map and file | provision, delete, reset TOTP, load secret, access | read-modify-write of the secret file outside its lock; cache changed before the save; check of the first administrator before the deletion | answered changes survive restarts; the first administrator stays |
| Setup | `auth/setup.go`, `config/setup_runtime.go`, `runtime_reload.go`, `runtime_status.go`, `secrets.go` | mode, setup file, the path of every store | complete, bootstrap, reset, upgrade storage, reload | several files change in turn; every store learns its path at another moment; check-then-act on "has an administrator" | the first administrator is kept, setup stays closed, a reset forgets |
| Services | `config/services.go`, `service_secrets.go`, `service_secret_metadata.go`, `auth/services_admin.go` | catalog, sealed secrets, notes on secrets | create, update, delete, test, start with or without the password | read-modify-write across two critical sections; memory before file; writes that cut the file; wrong password | an undisturbed edit stays; its secret is in force; no start destroys the sealed file |
| Policies and pipeline | `config/access_policies.go`, `auth/session.go`, `middleware/csrf.go`, `main.go` | policies per user | authenticate, decide, save, middleware chain | five sources of permission read one after the other; unknown names dropped on load | a request reaches a service only if all of them allowed it |
| Proxy | `proxy/proxy.go`, `proxy/openai.go` | none between requests | round trip with retries and a deadline | retry of a request that may have arrived; a silent service | only safe methods are retried; every request is answered |
| Monitor | `middleware/monitor.go`, `cli/cli.go` (monitor) | ring of events, counters, subscriber channels, a file | record, broadcast, stream, follow | full channels, gap between snapshot and subscription, two locks | nobody blocks the request path; a viewer sees each event at most once |
| Command line | `cli/cli.go` | its own copy of all maps | the same operations in a second process | two processes, one set of files | the same promises as the web interface |
| Vault providers, audit log, CORS and headers, metrics, TLS, web interface | `config/vault_providers.go`, `audit.go`, `tls.go`, `middleware/*`, `static/` | none that decides anything here | | | not modelled, see section 7 |

The components meet in the request path (session or token, then role, policy,
rate limit, proxy) and in `ReloadRuntime`, which loads every store in a fixed
order and stops at the first error. Mutexes are nested only in a fixed order
(setup before services, limits, users and audit; users before services;
deliveries before tokens before setup; policies and notes before setup; the
audit log releases its own lock before it asks the setup), so the stores cannot
deadlock on each other. This order was read off the code by hand.

## 2. Modules

`Login.tla` - one record per request goroutine (`req`) with its program counter
and local variables; `challenges`, `sessions`, `lockouts` and `usedCodes` are
the four maps. Each critical section of `LoginHandler` and `VerifyHandler` is an
action: `CheckLockout` is `IsLockedOut` with its deletion of an expired entry,
`VerifyPeek`, `VerifyConsume` and `VerifySession` are the calls into
`session.go`. `ValidateTOTP` is split where the code is: `VerifyTOTP` calls the
library, `VerifyReplay` runs under `replayMu`. `ResetSetupState`,
`ResetSessionState` and `ResetReload` are the three calls of
`ResetSetupHandler`; `CompleteSetup`, `BootstrapAdmin` and their continuations
create the one kind of session that no code pays for. Time advances by `Tick`.
A code is named by the first instant at which it is valid. What is typed is a
text: the library trims it to the code it holds (`TrimSpace`), while the replay
cache keeps the text as it came, so several texts may hold one code. `accepted`
and the session field `via` are history.

`KeyDelivery.tla` - both maps per process, both files, the master password a
process was started with, and the calls in progress: a token created whose
delivery is not (`creating`), a token revoked whose deliveries are still there
(`revoking`), a claim that holds the delivery lock (`claiming`). A failed write
leaves the file unchanged or unreadable, because `os.WriteFile` truncates first.
`Start` is `ReloadRuntime`, `Stop` a crash or the end of a CLI command. With
`Proc = {"server"}` this is the gateway alone.

`RateLimiter.tla` - `allow` is split into `Fetch` (under `rl.mu`) and `Spend`
(under the bucket's lock), the sweeper into `SweepCheck` and `SweepDelete`;
buckets that were swept away stay in `heap`, because a handler may still hold
one. Tokens are counted in sixtieths, so that the refill is exact.

`MC*.tla` give the constants their finite values; `*Proofs.tla` hold the
theorems.

`Accounts.tla` - the user cache with `users.json` and the secret map with
`totp-secrets.json`, in local persistent mode. `Create` and `Delete` change the
store under its one mutex and may fail to save, which leaves the old file or a
cut one; a start takes a cut `users.json` for no users. `StoreRead`/`StoreWrite` and
`WipeRead`/`WipeWrite` are the two sections of the vault's mutex between which
another request may write; `Remember`, `Forget` and `CacheSecret` touch the
unprotected map `UserSecrets`. `CreatedAt` is the number of the creation: the
clock is assumed not to run backwards between two creations. The command
line's deletion is an action of `MCAccounts.tla`, taken as one step, for the
configuration that shows what it breaks. The history variable `owed`
says which accounts the saved operations owe their users, `lost` whose account a
start did not find because the file was cut, `given` and `settled` which secret
was last shown for a name.

`Feed.tla` and `Monitor.tla` - `Feed` is the abstract specification of what a
viewer is promised: published requests, at most once each, some missing.
`Monitor` has the steps of the code: `Stamp` draws the event's number, `Record`
runs under the monitor's mutex (ring, counters, file), `BeginBroadcast` and
`Send` under the read lock of the subscribers, one channel at a time and never
waiting. The stream's handler takes a snapshot, subscribes, streams and removes
itself; the `monitor` command reads the file, then follows it. The refinement
mapping (`IsFeed`) publishes an event when it is recorded.

`Gateway.tla` - one record per request with what it carries and what it has
decided so far. `AuthenticateToken` to `CheckModel` are the sections of the chain
in order, for the catch-all route and for the OpenAI adapter; `SendAttempt`,
`RoundTrip` and `Expire` are the retry transport under the deadline. Between any
two of them an administrator may delete or create the user, change services,
policies, sessions and the token, or the process may restart. The services of a
user are changed in two sections of the store's lock (`UpdateUserAccess`, then
`SetAllowedServices`, with `updating` between them); administrators have no list.
The token's scope is kept in memory and in the file (`saved`): `Restart` loads
what is left of the file's after `NormalizeAllowedServices`, and the file follows
with the next save of any token. Paths are reduced to two prefixes, one
below the other. The history variable `held` collects which of the five
conditions were true at some moment of the request.

`Services.tla` - the catalog in memory and in its file, the secrets in memory
and in the sealed file, and the notes. `UpsertRead`/`UpsertWrite` and
`DeleteRead`/`DeleteWrite` are the two sections in which the whole catalog is
read and written; `ChangeSecret` is one. `Start` takes the master password of the
run. A failed write of the catalog or of the secrets keeps the old file or leaves
a cut one: a cut catalog loads as an empty one, a cut file of secrets opens with no
password. A rotation that is not `dated` has a date of expiry the handler cannot
parse: it is answered like any other and leaves no note. `owed` is the secret last
written to the file for each service, with those that failed requests have asked
for since. A request is `clean` if nobody else held a copy of the catalog together with
it and `alone` if nobody else worked on its service; `settled` is what such a
request told the administrator.

`Setup.tla` - for each store (users, TOTP secrets, services, limits, and the
stores found by the mode, called tokens) its memory, its permanent and its
temporary file, and the path it writes to. `Configure` to `Succeed` are the steps
of completing setup; `SnapshotSecrets` to `MigrateSecrets` those of the upgrade,
of which `WriteSetup` to `SaveUsers` hold `setupMu`; `ResetSetupState` and
`ResetSessionState` begin the reset; all end in the steps of `ReloadRuntime`.
A write that fails keeps the old file or leaves a piece of the new one (`cut`),
which the next reading takes for an empty store or for no setup; a removal may be
refused; the process may stop at any step, and in the middle of a write, which is
a write that was cut and then `Stop`. The file vault reads its file before it
writes it, so a cut one is an error until it is removed. `ReadSecret` and
`CacheSecret` are the two halves of a login's look-up of a TOTP secret.

The modules share no variables: each treats the operations of the others that it
depends on as actions of its own, at the grain it needs (`Gateway` contains the
coarse operations of `Accounts`, `KeyDelivery` and `Services`; `Setup` those of
`Accounts` and `Services`).

## 3. Runs

| Run | Instance | Shows |
|---|---|---|
| `login_replay` | 2 requests, 1 user, 1 code typed in 3 ways, 2 instants, 3 tokens, setup reset and repeated | acceptances of one text are spaced by the replay memory, and one text is accepted once while its code is valid; every session has an acceptance of its own; a challenge is redeemed at most once per request in flight |
| `login_once` (violation) | 2 requests, 1 user, 1 code typed in 2 ways, valid for 2 instants | a code typed with and without a blank is accepted twice while it is valid |
| `login_lockout` | 2 requests, 2 users, threshold 2, lock of 2 instants | a lock is newer than the check of every request past it; the overshoot of the lockout is bounded by the requests in flight; a lock in force is lifted only by a correct code that was let through before it |
| `key_delivery` | 1 process, 2 tokens, 2 passwords or none, 3 starts, 2 instants | one reveal, durable revocation, no reveal after an answered revocation |
| `rate_limit` | 2 handlers, 1 key, 3 rules (one unlimited, two limits), 2 sweeps, clock steps of 60 s and of more than 10 min | burst plus rate, up to one request per handler and sweep; no refusal before a burst |
| `accounts` | 2 requests, 3 names, 2 further secrets, 2 starts, writes that fail with the old file or a cut one | a secret shown by a request that had the name to itself is the one the login uses; until a start finds `users.json` cut, the first administrator is never removed and memory and file keep what was saved and nothing that was deleted |
| `monitor_feed` | 2 requests, 1 dashboard, 1 follower, ring of 2, 3 events, appends that fail | the ring is exact after it wrapped; `Monitor` implements `Feed` |
| `monitor_dashboards` | 2 requests, a dashboard that reads and one that may stall, channels of 1, 2 events | requests finish, the reader gets its events, losses are explained, leavers are removed |
| `gateway` | 1 request, 2 services, 3 changes by administrators or restarts, 1 retry | only what every store permitted is forwarded; rules do not depend on their order; a token keeps its services; unsafe requests are sent once; every request is answered |
| `services` | 2 requests, 2 services, 2 revisions, 2 passwords or none, restarts without limit, writes that fail with the old file or a cut one | an undisturbed edit stays until the service is changed or a start finds a cut catalog, and its secret is in force; starts with a wrong or no password destroy nothing; a run that keeps secrets has all of them in memory, whatever happened to the file |
| `setup` | 2 requests at a time, 3 in all, 2 names, 1 edit, 2 failed writes (old file or a cut one) or removals, restarts without limit | the first administrator is kept and setup stays closed until a cut users' or setup file is read; a reset forgets |
| `setup_upgrade` (violation) | 2 requests in all, nothing refused | the upgrade loses services and limits, against the comment on `UpgradeToPersistent` |

Bounds. Two requests are enough for every race between two critical sections of
a pair of handlers; the sweeper, the reset and the clock are further actors. The
code's validity and the replay memory are in the code's proportion (90 s each;
the memory is at least the window less one instant, which `ReplayCoversWindow`
states). In `login_replay` one instant stands for all of it: a code is valid and
remembered at instant 0, and at instant 1 its window has closed, its entry can
expire and be swept, and a request that validated it before may still wait for
`replayMu`; challenges and sessions end there, too. Three texts of the code
allow three acceptances, one more than there are requests, which is what sets
`ChallengeBound` apart from counting requests. In `key_delivery` three starts
let a process come up with a password, without it, and with it again. The clock
of the limiter moves by a minute or by more than the sweeper's ten minutes: a
bucket is swept once and another taken in its place within the bound, with a
request of before the sweep still under way. In `gateway` the requests do not
interact (each reads the stores and writes none of them), so one request beside
three changes meets every interleaving two would; three changes are enough to
disable a service, restart and enable it again. In the monitor three events wrap
the ring of two, and a channel of one is full after one event. Two revisions let
one edit follow another in `services`; starts are not bounded there, with the
right password, another one or none, nor in `setup`. Three requests in `setup`
are a setup, an upgrade and a reset, or a setup and two that race; two failures
are a cut file and a second one. The proofs remove the bounds for the properties
they cover.

Deadlock is checked where the clock's bound leaves some step possible; the other
instances may stop, when requests, events, changes or starts are used up.

Symmetry is used for requests (and services, passwords and names where nothing
tells them apart) in runs without liveness.

Fairness. `monitor_dashboards` assumes weak fairness of every request and of the
stream of a dashboard that reads, since the Go scheduler runs every goroutine
that can run, and strong fairness of the two sections that take the write lock of
the subscribers, because a waiting `Lock` of Go's RWMutex keeps new readers out.
A dashboard outside `Reading` may stall forever. `gateway` assumes weak fairness
of each request's own steps and of its deadline, which is a runtime timer; the
service may stay silent, and administrators need not act. Nothing else is
assumed: the other runs check safety.

Further configurations. Six more configurations show where a property stops
being true, each with a short counterexample; they were kept from the modelling
and are run by hand in the same way:

| Configuration | Property | What TLC shows |
|---|---|---|
| `MCLogin_challenge.cfg` | `ChallengeUsedOnce` | `CREDITS.md:350` calls the challenge "single-use"; two requests that have looked at it before either consumes it both get a session, each with a text of its own |
| `MCServices_restart.cfg` | `ServicesPersist` | services "persist across restart" (`README.md:314`); after a failed write for one service that left `services.json` cut, a start finds none of them |
| `MCKeyDelivery_cli_claim.cfg` | `ClaimedOnce` | with the command line as a second process: a revocation that loaded the deliveries before a claim writes the claimed one back (`cli/cli.go:734`), and after a restart the key is revealed again |
| `MCRateLimiter_sweep.cfg` | `FixedRate` | `CREDITS.md:336` says a bucket "fills at a fixed rate"; with a burst of more than ten minutes' refill the sweeper's deletion refills it at once |
| `MCAccounts_lost_secret.cfg` | `SecretsSurvive` | `FileVault` reads and writes its file in two sections (`config/vault.go:169`), so updates of two names can undo a TOTP reset at the next restart |
| `MCAccounts_cli.cfg` | `FirstAdminStays` | `apig0 users delete` (`cli/cli.go:542`) does not ask `IsProtectedAdmin` |

## 4. Mutants

Every property is paired with a mutated definition that stands beside the
original (`VerifyReplayPerChallenge`, `ClaimUnchecked`, `FetchEmpty` and so on): a
dropped guard, a missing save, a swapped order or a boundary off by one that
breaks exactly what the property promises.

## 5. Proofs

All eight proof modules are for arbitrary constants under the named assumptions:
any number of requests, users, services, events and restarts, where a run has two
or three. Every safety invariant and action property of the passing runs, and
the refinement of `Feed`, is a theorem; what is left to TLC is named at the end of
this section. Each proof has the same outline: an inductive invariant made of
named parts, one lemma per action that keeps it, lemmas for what many actions have
in common (a request that moves on, ends, or is left alone), and theorems that
follow from the invariant. `TypeOK` is always part of it, strengthened by the types
of the local variables of the requests.

`LoginProofs` - from `LoginConstants` (and `ReplayCoversWindow` for the window).
`TypeOK` is inductive with the typing of the request records. `ReplaySpacing`
needs the link between history and memory: every acceptance not older than
`ReplayTTL` still has its entry in `usedCodes` with that expiry (sweeps remove
only expired entries), so a text that is not remembered was accepted long ago.
`AcceptedOnceInWindow` follows from the spacing, since a code is validated
inside its window before the text that holds it is accepted. Both are about texts:
of codes they are false, as `login_once` shows. `ChallengeBound` counts the
acceptances on a challenge and the requests past `PeekChallenge` together: a
request gives up its place when it adds an acceptance, and none takes a new place
once the challenge is consumed. `LockoutBound` needs that an entry at
the threshold carries a lock, that a lock is newer than the check of every
request in flight, and a counting argument on the set of pending requests, which
uses the finite-set theorems. `EarlyUnlock` is an action property from the same
invariant. `SessionPerAcceptance` is inductive with `TypeInv`: only three kinds of
step matter to it. An acceptance takes a place in `accepted` that no session and
no request has yet, the session takes it over from the request that ends, and
every other step starts no redemption and adds no session (`Unpaid`).

`KeyDeliveryProofs` - for one process (`Proc = {"server"}`), which is the
deployment the promises are made for. The inductive invariant says that a
revocation that was answered is in memory (when the process is up) and in the
file (unless it is unreadable), and that a key already revealed is in neither
the map nor a readable file. With it, `ClaimedOnce`, `RevokeSticks` and
`NoRevealAfterRevoke` hold over all crashes and restarts.

`RateLimiterProofs` - from `RateConstants` and `RuleBounds`. The envelope needs
an accounting invariant: what a key was let through is paid for by the tokens
missing from its current bucket, by time, and by one request per handler for
each bucket that was swept; the hypothesis that a bucket refills within
`StaleAfter` makes a swept bucket worth no more than a full one.

`AccountsProofs` - `TypeOK` and `SecretInUse` hold whatever fails. The latter
needs two facts: a request marked alone is the only one on its name, and a
settled name is worked on by nobody, so every change of `UserSecrets` is for a
name that is not settled. The same is proved of `UsersDurable` and
`FirstAdminStays`; beside the command line they do not hold, as
`MCAccounts_cli.cfg` shows. Their invariant says that the cache, and the file unless it
is cut, are what the saved operations made them, that both have Root as the oldest
account, and that no request is at a point from which it could remove Root: the
check of `DeleteUserHandler` cannot go stale, because Root is the oldest account as
long as nobody removes it. The promise ends with a start that finds `users.json`
cut, because the code takes such a file for no users at all: until then the cache
has everything, and the next save writes it back.

`ServicesProofs` - from `ServiceConstants` and `NoFileIsNoFile`. The invariant
types the local variables of every request, since what a handler carries from one
section of a lock to the next ends up in the stores, and says that a request at
work has a service. `SealedSecretsSurvive` then follows from two facts: a start
that writes the sealed file writes what it could read from it, or cuts it
(`StartKeepsTheFile`), and a change of a secret leaves in memory, and in a file
that is whole, only what is owed (`ChangeKeeps`). So a run that keeps secrets has
all of them even while the file is cut.
`CatalogKept` and `SecretInForce` need a second invariant (`KeptInv`): a request
that is alone shares its service with nobody and a clean one holds its copy of the
catalog alone, so once it has written, every copy taken later has its entry
(`ClaimInv`). When it is answered that becomes a fact about all copies under way
(`SettledInv`): whoever writes the whole catalog back writes this entry, too. The
file has it as well unless it is cut, and a start that reads a cut catalog ends all
promises. The same is done for the secret and for the copies of the notes
(`FreshInv`), the latter for requests that wrote a note.

`GatewayProofs` - from `GatewayConstants` and the assumption that the rule sets
are finite sets of rules. For each place in the chain the invariant says what a
request there has been through (`Sound`) and which checks it must have met
(`Earned`); since `held` only grows, a later change of a store cannot take a
check back, and `ForwardedWasPermitted` holds at the point where the request is
sent. `SentAtMost` is the bound on the attempts of each place. `ScopeIsKept`
needs that the scope in memory is within the one in the file, which is within
what the token was issued for, and so is the copy a request carries.
`ShortestPrefixDecides` follows from the order of the list: the first rule that
fits has a prefix no longer than any other that fits.

`MonitorProofs` - from `MonitorConstants`. `SnapshotExact` needs that the ring,
read from its oldest slot, is the end of the history through every wrap
(`RingInv`), with arithmetic modulo the size of the ring; the counters are
cardinalities of sets of places in the history. `LossesAccounted` follows what
became of each event since the snapshot, beginning before the subscription
(`LossInv`). That `Monitor` implements `Feed` is proved step by step (`FeedStep`):
a record publishes, a snapshot or the end of the file opens a viewer's feed, a
line of the stream or the file is one more live event, and everything else is a
stutter. It rests on the numbers of the events: two requests never have the same,
so an event that somebody still has to offer to a dashboard is neither in its
channel nor on its screen (`OfferInv`), and the lines of the file are all different
and in the order of the history (`FileInv`). The fairness of `FairSpec` is no part
of it: `Feed` promises safety only.

`SetupProofs` - from `SetupConstants` and `NoFileIsNoSetup`. A request that
nothing overlapped is the only one under way (`RequestInv`), so what the earlier
steps of its handler did is still true when it answers (`FoundingInv` for setup
and bootstrap, `ResetInv` for the reset). From then on `FounderInv` says that
every request is at its check or is an upgrade: the check turns the others away,
because the administrator is in the users' store whichever file it was loaded
from. This is `SetupCloses`. Any number of upgrades may overlap and fail, so
where the TOTP secret of such an administrator is takes a disjunction (`Safe`):
in the vault's file; or in memory, with every upgrade that has taken its
snapshot carrying it; or about to be stored by an upgrade that has just opened a
new vault. `ModeInv` ties the setup file, the mode and the paths of the stores
together. A cut users' or setup file takes nothing from the running program; the
promise ends in the step that reads it, which is a start or the reload at the
end of an upgrade. A write that cuts the vault's file ends the promise about the
secrets (`enrolled`) at once.

Only model-checked: liveness (`RequestsFinish`, `EventsArrive`, `LeaversForgotten`,
`RequestsAnswered`), since the prover handles neither fairness nor ENABLED;
everything about two processes on one set of files; and the violations, which are
counterexamples. The theorems about `KeyDelivery` have the hypothesis that there is
one process, as said above.

## 6. Findings

Two runs and two of the further configurations contradict what the repository says
of the program.

- `login_once`: "each code is accepted only once" (`auth/totp.go:19`). The replay
  cache remembers the text as it was typed (`auth/totp.go:78`), the library trims
  blanks before it compares, so one code typed in two ways is accepted twice.
- `MCLogin_challenge.cfg`: the challenge is "single-use" (`CREDITS.md:350`). It is looked
  at (`auth/handlers.go:62`), and consumed only after the code was validated, so
  two requests may redeem it. `ChallengeBound` is what holds instead.
- `MCServices_restart.cfg`: services "persist across restart" (`README.md:314`).
  `SaveServices` (`config/services.go:109`) empties `services.json` before it writes
  it, and `LoadServices` takes a file it cannot parse for an empty catalog, so a
  failed write for one service loses all others at the next start.
- `setup_upgrade`: `UpgradeToPersistent` "writes the current in-memory state"
  (`config/setup_runtime.go:384`). Services are saved to the path of the last
  `LoadServices` and limits to `APIG0_RATELIMITS_PATH`, both still the temporary
  files, and the reload that follows reads the permanent ones.

What the passing properties leave out, because the code does not promise it:

- Every file is written in place. A cut `users.json` counts as no users and a cut
  setup file as a first run (`config/userstore.go:403`,
  `config/setup_runtime.go:82`): setup is open again from the next start on, and
  the next save erases the accounts. `UsersDurable`, `FirstAdminStays`,
  `FounderKept` and `SetupCloses` end there. Root is then gone
  as well.
- An upgrade writes the setup file first and the users last
  (`config/setup_runtime.go:420`, `:441`). A process that stops between the two
  comes up in persistent mode without users, so a stop in the middle of an upgrade
  ends the promises of `Setup` as well.
- A cut file of service secrets stays unusable until somebody removes it: the run
  that cut it writes it back with its next change, but if that run ends first, the
  next one falls back to memory and the secrets are lost
  (`config/service_secrets.go:290`).
- A rotation whose date of expiry cannot be parsed sets the secret and is answered
  with success, and the notes go on naming the one before
  (`auth/services_admin.go:73`, `:133`), hence `noted` in `SecretInForce`.
- A verify that is past `ConsumeChallenge` creates its session even after a reset
  has emptied the map (`auth/setup.go:29`); `SessionPerAcceptance` says only that
  it was paid for.
- A login or another request that a reset overlapped may leave something in memory,
  such as a TOTP secret cached after the map was emptied (`config/vault.go:338`);
  `ResetForgets` speaks of resets that nothing overlapped.
- Of setups and bootstraps that race before the first administrator has been told,
  more than one may succeed (`auth/setup.go:139`); `FounderKept` and `SetupCloses`
  begin with the answer to a request that nothing overlapped.
- An account made while another creation of the name was still under way may be
  taken by that one's rollback, which goes by name (`auth/admin.go:27`); such an
  account is not owed.
- Edits of the catalog whose read and write sections overlap overwrite each other
  (`config/services.go:238`), hence `clean` in `CatalogKept`. The same is true of
  the notes on one secret, hence `alone`.
- A token loaded while none of its services is enabled has an empty scope, which
  means no restriction (`config/services.go:217`, `config/apitokens.go:299`).
  The file keeps the old scope, so that a restart with the services enabled again
  mends it, until the next change of any token saves the empty one. `ScopeIsKept`
  excludes this with `stranded`.
- An upgrade ignores errors of moving a TOTP secret (`auth/setup.go:208`); such a
  secret is not in `enrolled`.
- Nothing is promised for a TOTP secret beyond a restart with the environment as
  the vault (`Stop` empties `enrolled`), nor after an upgrade that found it opened.
  The proof of `FounderKept` showed that this has to be said of the vault and not
  of the mode: of two overlapping upgrades with different vaults, one may finish
  with one vault while the other fails after its setup file is written, and the
  next start reads that file (`config/setup_runtime.go:420`). The account itself is
  kept in all of these cases.
- A process that was upgraded and then reset goes back to the names of its
  temporary token files and finds their old content (`upgraded` in
  `ResetForgets`). Limits stay in memory over a reset, because `LoadRateLimits`
  keeps them when there is no file.
- The follower and the dashboard of the monitor may miss events; `LossesAccounted`
  says which.

## 7. Not modelled

Vault providers are HTTP or command clients of outside services. The audit log
and the metrics are written and never read for a decision. CORS and security
headers decide on one request without state. TLS generation, option parsing and
the browser code are I/O and presentation. Hashes and ciphers appear only as "can
be opened with this key". Of the proxy, the rewriting of paths and headers and the
filter of the model list are formatting. Of the command line, the commands for
tokens, the deletion of users and the monitor are modelled; the others call the
same operations from a second process, whose effect on shared files
`MCKeyDelivery_cli_claim.cfg` and `MCAccounts_cli.cfg` show. Users kept in an
outside vault and accounts from `APIG0_USERS` are not modelled.

## 8. Plan

1. `Login`, `KeyDelivery`, `RateLimiter`, `Accounts` - done, with proofs.
2. `Monitor` with `Feed`, `Gateway`, `Services`, `Setup` - done, with proofs.
3. Next, theorems: what remains true in `KeyDelivery` beside the command line (the
   proofs are for one process).
4. Left to model: users in an outside vault, accounts from the environment, and
   the other commands of the command line as a second process.
