# Vaultwarden-API: specification and verification

TLA+ modules of the parts of this service where goroutines, requests and the
server can act in an order nobody wrote a test for, TLC configurations that
check them on small instances, and TLAPS proofs of the main results for every
instance. All line numbers are those of this commit; `PROJECT.json` maps each
definition to the lines it stands for.

## 1. The system

One process holds a decrypted copy of one account's vault and serves secrets
from it by name.

| part | source | state it keeps | operations |
|---|---|---|---|
| vault cache and sync | `internal/vaultwarden/client.go`, `init.go` | `items`, `nameMaps`, `retained` under `mu`; `syncMu`; `stopSync`, `ctx`; `consecutiveFailures`, `consecutivePartial` of the goroutine | `InitializeClient`/`Initialize`, `syncVault`, `backgroundSync`, `ClearCache`, `Stop` |
| server API client | `api_client.go` | `accessToken`, `refreshToken`, `tokenExpiry`, `symKey` under `mu`; `renewMu` | `Authenticate`, `RefreshAccessToken`, `refreshOrReauthenticate`, `EnsureValidToken`, `Sync` |
| lookup | `client.go` | none of its own, reads the cache | `GetSecret`, `ListSecrets`, `NameMaps`, `lookupFailure` |
| HTTP handlers | `internal/handlers` | none | `GET /secret/:name`, `GET /secrets`, `POST /refresh`, `GET /health` |
| key store and auth | `internal/auth`, `internal/config` | the configured keys, immutable | `Match`, `Middleware`, `loadAPIKeys` |
| IP whitelist | `internal/ipwhitelist` | configured addresses, fetched ranges under `mu` | `Middleware`, `IsAllowed`, periodic `updateGitHubIPRanges` |
| client IP resolution | `internal/realip` | trusted networks and provider edges, immutable | `Resolve` |
| cryptography | `crypto.go` | none | cipher strings, key derivation and decryption |
| service | `cmd/api/main.go` | the goroutines above, the listener | start-up, signal handling, shutdown |

How they interact. A request goes through `realip`, the whitelist, the rate
limiter (a library) and `auth`, which attaches the key's scope; the handler then
reads the cache through `Client`, taking `Client.mu` once for each thing it
needs. Three kinds of goroutine write the cache, all through `syncVault` and all
under `syncMu`: the main goroutine at start-up, `backgroundSync` at each tick,
and every `POST /refresh`. `syncVault` calls `APIClient.Sync`, which may renew
credentials under `renewMu` before or in the middle of its request. Locks are
taken in the order `syncMu`, `renewMu`, `mu`.

What is hard here:

* **atomicity**: the whitelist and the limiter read two lists three times, under
  two locks, while a goroutine replaces one of them; a request reads names twice
  and items once;
* **ordering**: answers fetched by overlapping syncs, published in an order of
  their own; renames and moves published between the reads of one request;
* **partial failure**: ciphers that stop decrypting, some or all of them, whose
  last content is kept under a placement that goes on changing;
* **retries and revocation**: a session dying between any two requests, a retry
  with a renewed token, a key rotated between login and profile;
* **shutdown**: `main` ends when `Listen` does, another goroutine stops things in
  between, and a channel that may be closed once has two callers;
* **trust**: forwarded chains, CDN headers and cipher strings are partly written
  by whoever sends them; a rule that drops or swallows a part moves or hides
  another one;
* **termination**: mutexes released on every path, `Stop` during a sync, start-up
  that ends, counters that must eventually escalate.

What makes each part correct: the cache is always one answer of the server,
never an older one than before, never a mixture; tokens and keys are used in
pairs and renewed once; a request is given items of its key's scope and of its
query and nothing else, the same every time, and is told the same whatever
caused a miss while the log is told the truth. A client address is the first one
nobody vouches for; who is listed is served and who is not is refused, by one
list; a signal stops the parts in order and ends the process; no text is served
that was not authenticated, and none is lost without being reported.

## 2. Modules

| module | what it is |
|---|---|
| `VaultData` | ciphers, cached items, what a sync makes of an answer, how a vault changes |
| `SecretCache` | abstract specification: versions of a vault, a cache reconciled with one of them in one step |
| `VaultSync` | the sync cycle with its goroutines, locks, requests and failures; implements `SecretCache` |
| `TokenRenewal` | the credentials of `APIClient` against a server that revokes, expires and rotates |
| `VaultDecryption` | KDF bounds, key unwrapping, what becomes of an answer's ciphers and names, the value that is served |
| `ApiKeys` | how the key list is assembled and checked, and matched |
| `ScopedLookup` | query, scope, lookup and diagnosis as operators |
| `SecretRequests` | requests that present a key and read names, names and items from a `SecretCache` while it is being synced |
| `AccessGate` | abstract specification: a request judged in one step by one list |
| `IPWhitelist` | the updater, the middleware's reads and the limiter's; implements `AccessGate` |
| `RealIP` | the resolution of the client address, round by round |
| `ProxyRoutes` | `RealIP` composed with the proxies and edges in front and the reading of raw headers |
| `Service` | start-up, signals, listener, shutdown and the end of the process |
| `VaultSyncProofs`, `TokenRenewalProofs`, `IPWhitelistProofs`, `RealIPProofs`, `ProxyRoutesProofs`, `ServiceProofs`, `SecretRequestsProofs`, `VaultDecryptionProofs` | theorems; `ProxyRoutesProofs` builds on `RealIPProofs` |
| `MC*` | small instances for TLC |

How they compose:

* `VaultSync` implements `SecretCache` (run `sync`, theorem `Implementation`);
  `SecretRequests` is built on an instance of `SecretCache`, so that what it
  establishes holds of requests served by the sync cycle.
* `VaultDecryption` extends `VaultData` and is checked against it: `AccountedFor`
  says that `decryptCipher` divides an answer the way `VaultData` divides a vault.
* `IPWhitelist` implements `AccessGate` (run `whitelist`, theorem
  `Implementation` of `IPWhitelistProofs`), with `verdict` read off where a
  request is.
* `ProxyRoutes` extends `RealIP`: the chain and header `RealIP` is given freely
  are there what a route of proxies produces. The address resolved is the
  `addr` of a request in `IPWhitelist`.
* `Service` calls `Stop` and the stop function; what they set off is in
  `VaultSync` (`Stop`, `BackgroundEnds`) and `IPWhitelist` (`StopUpdate`,
  `UpdaterEnds`). `Service` says when and how often they are called.

### VaultSync

Workers are `Main`, `Background` and the `Refreshers`. A sync of worker `w` is
`LockSyncMu(w)`, `Send(w)`, `Answer(w)`, `Publish(w)`: the points at which other
goroutines or the server can act. `snap[w]` is the version of the vault in the
response body; decrypting it is local to the goroutine and part of `Publish`.
`Publish` is both branches of `syncVault` that write the cache (client.go:475-487
and 489-504); the release of `syncMu` is part of it because nothing observable
happens in between. `Fail` is every error without a failure list, and a request
abandoned because `Stop` cancelled `ctx`. `ClearCache` and the handler around it
are `RefreshCache`, a sync, and `Respond`, which answers 200 in any case.
`Account` is what `backgroundSync` does after `syncVault` has returned,
including its read of `retained` without `syncMu`. `seen` and `arrival` are
ghosts.

Abstracted: content of a cipher is one value, its placement another; a cipher is
`open` (decrypts), `sealed` (is reported as failed), `trashed` or `absent`;
`nameMaps` is the number of the version whose names it holds. `up` stands for
everything `TokenRenewal` describes: requests fail while it is false.
Counters stop at the escalation threshold, beyond which the code does not tell
values apart.

### TokenRenewal

Each request is a step, and what a request brought is used in a later one:
server and other callers act in between. A refresh token has the name of the
access token it came with; the names of tokens nobody remembers are given out
again, which keeps the state finite without bounding the number of renewals.
`epoch` is the version of the account's key; a master key derived from prelogin
data belongs to one version and decrypts that version's user key only.
`expiring` is the comparison of `EnsureValidToken`; `RetryRejected` zeroes the
expiry, which by then may be that of a good token another caller has published:
`NoNeedlessRenewal` exempts expiring tokens, so it does not speak of that renewal.
`apiKeyLogin` is the configuration, chosen once in `Init`. A revoked session may,
if `ZombieGrants`, go on honouring its refresh grant while the API rejects what it
mints: the situation of
`TestSync_RetryStill401ForcesReauthOnNextAttempt`. `Initialize` is the login that
starts the client, made without `renewMu` while nothing else runs; a second call
of `Sync` is possible only after a first success. `Client.syncMu` in fact lets
one caller run at a time; the module checks what `APIClient` promises by itself.

### VaultDecryption

Cryptography is symbolic: a string of the server is its type, the key it was
written under, whether it is as written, and its text. `Decrypts` is the policy
of `CipherString.Decrypt` (crypto.go): type 2 only with a key that has a MAC half,
type 0 only with one that has none, which is the bare master key. A type that
`ParseCipherString` rejects is `plain`.

`Derive` is `MakeMasterKey`, with its bounds and with the conversions to 32 and 8
bits applied to what passes them; `Login` is `DecryptSymmetricKey` with its
fallback from the stretched to the bare master key. `NotSent` is a parameter the
server leaves out, which gets the default; a -1 it sends is rejected. `KdfAsAsked`
says that Argon2id runs with the numbers sent or the defaults, which the
conversions could have changed; it does not say that the container can bear them:
the code accepts up to 1024 MiB, and `docker-compose.yml:35` caps it at 128 MiB. `Receive` unwraps the private
and the organization keys of one answer. `Take` is one round of the loop over
ciphers: trashed ones and those without a key, `decryptCipher`, the item or the
failure list. `Refuse` and `Return` are the two ends of `Sync`; `Return` also makes
the name maps (`decryptVaultLabel`, for one label as each kind of name). Ids of
ciphers are never empty, as Vaultwarden sends them; an answer holds a cipher
once. `extractSecret` is what `GetSecret` serves of an item; field names are ranked
as it sorts them.

A label in the clear whose text happens to parse as a cipher string ("4.Team")
takes the branch of those that do not decrypt, and has no name; `plain` stands for
the others.

### ApiKeys, ScopedLookup and SecretRequests

`loadAPIKeys` gives the key list or, as no key, the failure that ends the start;
`Match` prefers the last of equal entries, as the loop that never breaks off
does. `SecretRequests` starts from any environment with which the service starts.

All requests ask for one secret name; an item carries how its own name compares
with it: equal (and containing), equal under case folding only, containing only,
neither. Labels stand for names up to case and surrounding space, ids for UUIDs
in their string order. A query dimension is empty, an id, a label, or
`Malformed`, which stands for every reason the handler refuses it for. A
`GetSecret` returns the set of ciphers it could return; the code sorts candidates,
so it is a singleton or empty, which is what `AnswerIsDetermined` says. `Blamed` is
the verdict of `lookupFailure` that names the scope as the reason of a miss; that
it is then the reason holds for every kind of name (`BlameIsJustified`), that it
is named whenever it is the reason holds except for names equal by folding alone
(`folded_names`).

A request is `Arrive` (the middleware finds the key and attaches its scope, or
answers 401), `ParseFilters` (first read of the name maps), `ApplyScope` (second),
`Get` or `List` (items under `mu`), `Respond`. `read` is a ghost that records the
versions it read. Requests arrive once `nameMaps > 0`: the server listens after a
first sync has succeeded.

### AccessGate and IPWhitelist

A list is the set of client addresses it covers; entries that do not parse cover
none. `updater` is the goroutine of `StartPeriodicUpdate`, and before that `New`,
whose first fetch is made before anything is served: `FetchAnswered` or
`FetchFails`, then `LoadRanges` under the write lock, `Tick`, `UpdaterStops`. A
request is `CheckConfigured` (one read lock), `Judge` (`IsAllowed`, another) and
`Limit`, the limiter's `Next` function, which calls `IsAllowed` a third time, with
its hits per address. `from` and `loaded` are ghosts. The abstract gate judges at
`Judge` or, when the first read already decides, at `CheckConfigured`.

### RealIP and ProxyRoutes

`Receive` is what the middleware hands to `Resolve`; the loop over the chain is
one action per entry, `applyEdge` an operator used where the code calls it. An
address is a value, a range a set of them. There is one provider, as in
`presets.go`; its header is read once, because it does not change during a
request, where the code fills a map when it first needs it. In `RealIP` a chain
is any of `Chains`; the proofs are about that. In `ProxyRoutes` a visitor departs
with headers it wrote itself, and each hop appends its caller to
`X-Forwarded-For`, in the line it found or in one of its own; edges overwrite
their provider's header, and a hop may drop it. `RawHeaders` is the block the last
hop sends; it may fold every line after its first part. `rawHeaderValues` reads
the block line by line (`ReadLine`), with the flag that says whether a line that
starts with a blank still belongs to the header; `ParsedLines` keeps the parts
that are addresses. Both are recursive functions over the index, written so that
they can be proved about.

### Service

`main` is where the main goroutine is, `signaler` the goroutine of the graceful
shutdown. Each stage that can fail may end in `Fatal`. A signal before
`signal.Notify` has run ends the process by the runtime's default; afterwards the
channel holds one. `done` is the updates' channel; closing it twice panics. The
server (fiber on fasthttp) is external: Listen binds and registers the listener,
accepts, and returns nil when the listener is closed; Shutdown does nothing if
none is registered. A connection is open while a request of it is being served.

## 3. Runs

Bounds are the constants of each `.cfg`.

| run | asks | bounds, and why they are enough | states |
|---|---|---|---|
| `sync` | is the cache always one answer of the server; does the cycle implement `SecretCache`; does a refresh that succeeds reach its arrival | 2 ciphers, 2 contents, 2 placements (partial and total decryption failures, moves), 3 versions (a stale entry from the first, an answer from the second, one from the third), 1 refresher besides start-up and background, 2 attempts | 688,000 |
| `sync_live` | is every refresh answered, do start-up and background end, does the cache converge, is a half-readable vault escalated | 2 ciphers (half readable needs two), 1 value, threshold 2 so that a counter can be interrupted | 33,000 |
| `renewal` | token and key paired, renewed only when needed; every call returns; syncs recover | password and API key login, chosen at the start (the key of the latter comes from a request of its own); 2 callers, 2 key versions, 6 token names (current access and refresh token, one held by each caller, one response, one to mint); without servers that honour grants of revoked sessions, which `rejected_session` is about | 323,000 |
| `rejected_session` | *violated*: a rejected session leads to a full login | 1 caller | |
| `requests` | is the scope the one beside the key; answers inside scope and query, the same for every map order; no transient miss; is the scope blamed only for misses it causes | 8 environments of keys, of which 2 start (with both lists and a legacy key, with one list; one key twice, in a list and as `API_KEY`, does not start); 7 queries by id, name, neither, malformed; both match modes and routes; every way a name compares with the requested one; 2 ciphers, 2 organizations whose names are exchanged or shared, a collection that loses its name; 2 versions | 589,000 |
| `folded_names` | *violated*: a miss is reported as absent only if nothing is there by the same predicate | names equal under folding only, and others | |
| `whitelist` | does the middleware judge by one list; is a listed client ever refused or limited; do ranges converge, does the updater end | 2 requests, an operator's and a GitHub address, each nobody's if not listed, 2 published lists with and without it, 1 hit | 146,000 |
| `service` | does exit 0 follow an orderly stop, is the channel closed once, does a signal end a server that listens | 2 connections (one keeps the server busy while another comes), 2 signals (one in the channel, one after) | 1,600 |
| `graceful_shutdown` | *violated*: open requests are answered before the process ends | the same | |
| `client_ip` | is the client the address the route came from; does the chain end in the route; is an edge's own address noted unless its header named it | routes of up to 3 hops over a trusted proxy, a forgotten one and an edge; an edge and a proxy as visitors; 14 forged chains of up to 2 lines, 4 forged headers; the preset on and off | 190,000 |
| `decryption` | is only authenticated text shown, is every cipher accounted for, is nothing lost silently, does the KDF run with the numbers sent | every bound of the KDF from both sides, parameters that were not sent and -1 sent, and the powers of two where conversions wrap; 6 user keys, 5 profiles; 2 ciphers with every part good, damaged, without MAC, under another key or empty | 22,000 |
| `sealed_field_name` | *violated*: a field that does not decrypt fails its cipher | the same | |

Deadlock is checked in every run but those of `Service`, where the process ends.

Fairness: weak fairness of each goroutine's own steps, because the Go scheduler
runs every runnable goroutine and every request ends (`http.Client` has a 30 s
timeout, api_client.go:156-158, the whitelist's one of 10 s; the server has read
and write timeouts); strong fairness of taking a mutex, because a Go mutex
switches to handing over to the waiter after a millisecond; strong fairness of
`BackgroundStops` and `UpdaterStops`, because a `select` with several ready cases
picks one at random, so a goroutine that comes back to a closed channel again and
again takes it with probability one. Nothing is assumed of servers, of clients or
of signals: properties that need a server to be well say so (`<>[]up`, `calm`,
`reachable`).

### What the violated properties say

* `rejected_session`: zeroing the expiry makes the next attempt renew, but
  renewing starts with the refresh grant again; as long as that is granted and
  what it mints is rejected, the announced re-authentication does not happen.
* `graceful_shutdown`: `main` returns when `Listen` does, which is when `Shutdown`
  closes the listener; nobody waits for the goroutine that is still waiting for
  open requests, and they are cut off with status 0. It rests on fasthttp's
  `Serve` returning nil once its listener is closed.
* `folded_names`: `client.go:329-330` has it that the same predicate as the lookup's
  judges whether a missed name exists, so that a caller is never told a secret is
  absent when it is only out of scope. `lookupFailure` compares lower-cased names
  where partial matching tests `EqualFold` first, and the two differ on letters
  that fold together without one lower-case form ("ς" and "Σ"). Such an item
  outside the scope is reported as absent.
* `sealed_field_name`: `decryptCipher` ignores the error of a field's name
  (api_client.go:677) and drops the field, though the comment above it
  (api_client.go:638-642) has every field fatal: a secret in a field so called
  `value` becomes the notes, or empty, in place of the last good entry.

### Further configurations

Kept beside the runs, with the same modules; each is run by
`tlc -config <file> <module>`.

| configuration | shows |
|---|---|
| `MCVaultSyncContention.cfg` | two refreshers and the background goroutine overlap: the ordering properties of `sync` and `NoResurrection` hold |
| `MCTokenRenewalServers.cfg` | the safety properties of `renewal` hold against servers that sometimes give no refresh token and that go on honouring the refresh grant of a revoked session (3.4 million states) |
| `MCVaultSyncAck.cfg` | *violated*: an acknowledged refresh is fresh; `ClearCache` logs and drops the sync's error, so `POST /refresh` answers "cache cleared successfully" over an unchanged cache |
| `MCSecretRequestsAtomic.cfg` | *violated*: an item returned was in scope in one version as a whole; names and items of a request come from different locks. `ServedWithinScope` is what does hold |
| `MCIPWhitelistBlank.cfg` | *violated*: whitelisting fails closed once `ALLOWED_IPS` is set (README.md:394), when it is set to separators only |
| `MCServiceEarlySignal.cfg` | *violated*: a signal the goroutine received ends the process; one that arrives before the listener is registered is used up by a `Shutdown` without effect |
| `MCServicePanic.cfg` | *violated*: stopping the updates never panics; a signal while `Listen` fails closes the channel twice, on the way to exit 1 |

## 4. Proofs

Every theorem holds for all values of the constants that satisfy the modules'
named assumptions.

`VaultSyncProofs` proves all of `VaultSync`'s invariants and action properties
and the refinement, for every set of ciphers, contents, placements, start vaults
and refreshers and all bounds. Assumptions: `NoItem` is no item, start vaults are
vaults, the two named goroutines are distinct from each other and from
refreshers, bounds are natural numbers. The inductive invariant `IInv` adds three
facts to the invariants the runs check. *Serialized*: a worker between taking and
releasing `syncMu` holds it, alone. *AnswersAreFresh*: the answer about to be
published is at least as recent as the cache (`snap[w] >= seen`) and as the
refresh it was fetched for. Neither `CacheMatchesVault` nor `NoStaleOverwrite` is
inductive without it: from a state with an older answer in hand, publishing would
go back. *AttemptsBounded* is the loop's bound. Steps that touch neither versions
nor cache preserve the cache part at once (`CacheInvUnchanged`);
`RetainIsReconcile` shows that building `newItems` and carrying failed ciphers
over is `Reconcile`, which serves both the invariant and the refinement: `Publish`
maps to `Sync(snap[w])`, `VaultChange` to itself and every other step to a stutter.
`ServedValuesAreReal` is proved by a second induction over publications.

`TokenRenewalProofs` proves type correctness, the mutual exclusion of renewals,
the pairing of token and key, and that no good token is replaced, for every number
of callers, tokens and keys, both logins and every server. Assumptions: tokens
are numbers (the minted one is the smallest free), the empty string is none of
them, there is at least one key version. The invariant adds *Credentials* (what is
missing is missing together), *Serialized* (before the first success one goroutine
runs, afterwards `renewMu` is held throughout a renewal), *Replies* (the token of a
response being handled is nobody else's yet), *Paired* (grants and responses still
honoured belong to the key they will be used with, which makes `TokenKeyPaired`
inductive) and *Needed* (whoever renews, or is about to with the current token,
has a dead or expiring one).

`IPWhitelistProofs` proves type correctness, `NoTransientDenial` and that
`IPWhitelist` implements `AccessGate`, for any addresses, requests, lists and
limits. The invariant adds that the ranges are the list numbered `loaded`, that
without the feature nothing is loaded, and that a request is judged only if a
control is configured. The last is what the refinement turns on: the middleware
asks first whether anything is listed and only then whether a control is
configured, and lists may be loaded between its two locks, so that `Judge` has to
come to the same as judging at once.

`RealIPProofs` proves `ClientAsDefined` and `CDNAnswersAreNoted` of `RealIP` for
chains of any length, any ranges and any proxies: the loop against its definition
by quantifiers. The invariant is what the walk has passed (`Passed`: nothing from
`i + 1` on could have ended it) and what it has noted (`Noted`, `Unanswered`).

`ProxyRoutesProofs` proves all four properties of `client_ip` of `RouteSpec`: for
routes of any length, any visitors, proxies and edges, and visitors' headers of
any number of lines and parts. Assumptions: hops and visitors have addresses,
`Junk` is none, lines have at least one part. The invariant is `RealIP`'s and four
facts about the message: *Vouched* (what parses of the lines ends in the hops that
have been passed, after whatever the visitor wrote), *EdgeTold* (once an edge has
been passed its header holds what called the last one, or was dropped), *Delivered*
(what `RealIP` was given is what the message says) and *RouteTypes*. `Vouched`
survives a hop because both ways of appending give one address more (`Appended`);
`Delivered` follows because the block is read back line by line, folded or not
and with other headers around it (`HeaderIsRead`, `BlockIsRead`, `HeadersAreRead`).
From these and `ClientAsDefined`, `RouteIsResolved` follows by where the route
stands in the chain (`EndsAtLast`). The three recursive functions are shown to
exist and to satisfy their equations by induction, which is proved here in the
form the provers can use: a set of numbers that has 0 and with each number the
next has all of them (`NatInSet`, from the well-foundedness of `<`).

`VaultDecryptionProofs` proves all four properties of `decryption`, for any
ciphers, with any number of fields, and any user, private and organization keys,
labels, preferred names and KDF parameters. Assumptions: `FormAssumption` (what
the server sends are strings, fields and ciphers of the wire format),
`KdfAssumption` (parameters are integers or not sent) and `FieldNameAssumption` (the
preferred names come first). `KdfAsAsked` needs only that what was derived was
accepted. The others rest on *Divided* (the ciphers taken are the trash, the items,
each with the content its strings decrypt to, and the failure list, as the keys of
this answer have it) and *KeysCarryMacs* (no key in use is the bare master key,
so that a string without a MAC opens nowhere); `AccountedFor` also on *Decided*,
`AuthenticatedOnly` on *NamesFromAnswer*. `Divided` is the strengthening the
properties need: each speaks of an item beside the cipher it came from, and without
it a step could not tell what is in `items` already. That `NoSilentLoss` follows
is the longest argument: of an item no servable string fails, so each text is the
one stored, the map of fields has the same names with the same values, and the
first filled one in the code's order is the one of the least rank.

`ServiceProofs` proves type correctness, `OrderlyExit` and
`OneCloseWithoutFailure` for any number of connections and signals, from the order
of the shutdown's steps (`StopsInOrder`), from the listener being closed by it
alone (`ClosedByShutdown`) and the channel by it alone while `Listen` has not
failed (`ClosedByOne`).

`SecretRequestsProofs` proves type correctness and all six properties of
`SecretRequests`, for any ciphers, placements, names, key lists, queries and
requests, and whatever a sync publishes between the three reads. Assumptions: ids
are numbers in the order of their strings, names and ids differ, start vaults are
vaults, name maps map known ids, configured entries are keys with scopes. Lookups
by name take a least element; that there is one is proved from the
well-foundedness of `<`. Of a request in progress the invariant records what its
reads amount to: its scope is that of a store entry with its key (`Identified`),
each dimension the query gives is resolved to something it refers to in the names
read then (`Filtered`), the scope likewise (`Scoped`), and in both an id stands for
itself, which is what keeps a request by ids independent of renames. With `Cached`
(a cached item lies where the version served has it, and what is readable there is
cached as it is) a step of `Get` or `List` turns these into `Served` and
`NotMissed`; new versions and syncs preserve them because they change nothing a
request has read (`GrowthKeepsRequests`). `ScopeIsTheKeys` rests on the entries of
an accepted list having distinct keys (`StoreResult`). `BlameIsJustified` is
proved for finitely many ciphers and every kind of name: what is reported as out of
scope is cached and passes the lookup without the scope (`MissReason`), so that the
lookup would have found it (`ServableIsFound`), and conversely except for names
equal by folding alone, where `folded_names` is the counterexample.

Every safety property and action property of the passing runs is stated by a
theorem. Only model-checked: liveness, because the proof system does not handle
fairness and `ENABLED`; the further configurations; and the violated properties,
which are counterexamples. No module uses `RECURSIVE` operators.

## 5. Not modelled, and the plan

Done: everything listed in section 2.

Next:

* an abstract specification of the resolver, one step from a request to its
  client, that `RealIP` implements;
* shorter arguments where two proofs repeat each other.

Not modelled:

* `decodeSecretPathParam` and what a path parameter may look like, the order in
  which a listing is written, and the health check, which reads one pointer: no
  state, no choice;
* the part of `config.Load` that reads variables with defaults; `validators`, whose
  verdict is the query dimension `Malformed`; `logger` and the log's wording;
  `Resolver.String`;
* cryptographic primitives and JSON (libraries), the HTTP framework and its rate
  limiter except for the calls above;
* packaging, and the script that refreshes Cloudflare's ranges at build time.
